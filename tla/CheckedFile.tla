----------------------------- MODULE CheckedFile -----------------------------
(***************************************************************************)
(* Reading a small file that somebody else owns, as the program does it in *)
(* three places: the one-line credentials of the local commands            *)
(* (readCredential in main.go), the runtime files of the gateway           *)
(* (readBoundedFile in pkg/gatewayclient) and the package graph of the     *)
(* dependency check (main in scripts/check-go-dependency-boundary.go).     *)
(* All three inspect the path, open it, compare the two, and read a        *)
(* bounded number of bytes; they differ in what they refuse.               *)
(*                                                                         *)
(* Beside the reader, the owner of the file may rename another file or a   *)
(* symlink over the path, and may rewrite the file in place (truncate,     *)
(* then write).  The reader takes one chunk per step, here one byte.       *)
(* Modification times are those of a clock that may not have moved between *)
(* two writes.                                                             *)
(***************************************************************************)
EXTENDS Naturals, Sequences

CONSTANTS
  Reader,       \* subset of {"credential", "runtime", "graph"}
  Contents,     \* what a file may hold: sequences over Byte
  Rewritten,    \* what the owner may write in place
  Limit,        \* the size bound of the reader, in bytes
  MaxReplace,   \* bound: renames over the path
  MaxRewrite    \* bound: rewrites in place

Byte == {"x", "y", "LF", "CR", "NUL", "SP"}

ContentsAssumption ==
  /\ Contents \subseteq Seq(Byte) /\ Contents # {}
  /\ Rewritten \subseteq Contents
  /\ Reader \subseteq {"credential", "runtime", "graph"}
BoundsAssumption == Limit \in Nat \ {0} /\ MaxReplace \in Nat /\ MaxRewrite \in Nat

File == 1..(1 + MaxReplace)

VARIABLES
  entry,      \* what the path names: a file, directly or through a symlink
  content,    \* File -> bytes
  private,    \* File -> owner-only and owned by root
  mtime,      \* File -> clock at the last write
  clock,
  writing,    \* what the owner has still to write into the file, or no rewrite
  replaces, rewrites,
  reader, pc, info, raw, fd, opened, again,
  value,      \* the accepted value
  basis,      \* history: what each file has held
  earlier     \* history: rewrites begun before the open file was examined

owner == <<entry, content, private, mtime, clock, writing, replaces, rewrites, basis>>
local == <<info, raw, fd, opened, again, value, earlier>>
vars == <<owner, reader, pc, local>>

NoWrite == [file |-> 0, bytes |-> <<>>]

\* The LimitReader: room for a line end and one byte more than allowed.
Room == IF reader = "credential" THEN Limit + 3 ELSE Limit + 1

TypeOK ==
  /\ entry \in [file : File, link : BOOLEAN]
  /\ content \in [File -> Contents \cup {<<>>}]
  /\ pc \in {"inspect", "open", "compare", "read", "recheck", "reread", "accepted", "refused"}
  /\ Len(raw) <= Room /\ Len(again) <= Room
  /\ info \in {0} \cup File /\ fd \in {0} \cup File

Init ==
  /\ entry \in [file : {1}, link : BOOLEAN]
  /\ content \in [File -> Contents]
  /\ private \in [File -> BOOLEAN]
  /\ mtime = [f \in File |-> 0] /\ clock = 0
  /\ writing = NoWrite /\ replaces = 0 /\ rewrites = 0
  /\ basis = [f \in File |-> {content[f]}]
  /\ reader \in Reader /\ pc = "inspect"
  /\ info = 0 /\ raw = <<>> /\ fd = 0 /\ opened = 0 /\ again = <<>> /\ value = <<>>
  /\ earlier = 0

-----------------------------------------------------------------------------
(* The owner of the file *)

\* Another file, or a symlink to it, is renamed over the path.
Replace ==
  /\ replaces < MaxReplace
  /\ replaces' = replaces + 1
  /\ entry' \in [file : {entry.file + 1}, link : BOOLEAN]
  /\ UNCHANGED <<content, private, mtime, clock, writing, rewrites, basis, reader, pc, local>>

Truncate ==
  /\ rewrites < MaxRewrite /\ writing = NoWrite
  /\ rewrites' = rewrites + 1
  /\ \E bytes \in Rewritten : writing' = [file |-> entry.file, bytes |-> bytes]
  /\ content' = [content EXCEPT ![entry.file] = <<>>]
  /\ mtime' = [mtime EXCEPT ![entry.file] = clock]
  /\ basis' = [basis EXCEPT ![entry.file] = @ \cup {<<>>}]
  /\ UNCHANGED <<entry, private, clock, replaces, reader, pc, local>>

WriteRest ==
  /\ writing # NoWrite
  /\ content' = [content EXCEPT ![writing.file] = writing.bytes]
  /\ mtime' = [mtime EXCEPT ![writing.file] = clock]
  /\ basis' = [basis EXCEPT ![writing.file] = @ \cup {writing.bytes}]
  /\ writing' = NoWrite
  /\ UNCHANGED <<entry, private, clock, replaces, rewrites, reader, pc, local>>

Tick ==
  /\ clock < MaxRewrite
  /\ clock' = clock + 1
  /\ UNCHANGED <<entry, content, private, mtime, writing, replaces, rewrites, basis, reader, pc, local>>

-----------------------------------------------------------------------------
(* The reader *)

Refuse == pc' = "refused" /\ UNCHANGED local

\* Lstat: no symlink; a credential is owner-only, a runtime file not too big.
Inspected ==
  /\ ~entry.link
  /\ reader = "credential" => private[entry.file]
  /\ reader = "runtime" => Len(content[entry.file]) <= Limit

Inspect ==
  /\ pc = "inspect"
  /\ IF Inspected
     THEN pc' = "open" /\ info' = entry.file /\ UNCHANGED <<raw, fd, opened, again, value, earlier>>
     ELSE Refuse
  /\ UNCHANGED <<owner, reader>>

\* Only the credential is opened with O_NOFOLLOW.
Open ==
  /\ pc = "open"
  /\ IF reader = "credential" /\ entry.link
     THEN Refuse
     ELSE /\ pc' = "compare" /\ fd' = entry.file
          /\ UNCHANGED <<info, raw, opened, again, value, earlier>>
  /\ UNCHANGED <<owner, reader>>

\* Mutant: what was opened is not compared with what was inspected.
CompareNothing ==
  /\ pc = "compare"
  /\ pc' = "read" /\ opened' = mtime[fd] /\ earlier' = rewrites
  /\ UNCHANGED <<owner, reader, info, raw, fd, again, value>>

\* Stat of the open file: os.SameFile.
Compare ==
  /\ pc = "compare"
  /\ IF info = fd
     THEN /\ pc' = "read" /\ opened' = mtime[fd] /\ earlier' = rewrites
          /\ UNCHANGED <<info, raw, fd, again, value>>
     ELSE Refuse
  /\ UNCHANGED <<owner, reader>>

\* What a reader makes of all it has read: the whole line without its end,
\* the text without white space around it, the bytes.
TrimSuffix(s, b) == IF s # <<>> /\ s[Len(s)] = b THEN SubSeq(s, 1, Len(s) - 1) ELSE s

Has(s, bytes) == \E i \in DOMAIN s : s[i] \in bytes

White == {"LF", "CR", "SP"}

TrimSpace(s) ==
  LET kept == {i \in DOMAIN s : s[i] \notin White}
  IN  IF kept = {} THEN <<>>
      ELSE SubSeq(s, CHOOSE i \in kept : \A j \in kept : i <= j,
                     CHOOSE i \in kept : \A j \in kept : j <= i)

Cleaned == CASE reader = "credential" -> TrimSuffix(TrimSuffix(raw, "LF"), "CR")
             [] reader = "runtime" -> TrimSpace(raw)
             [] reader = "graph" -> raw

\* Mutant: the room for the line end is room for the value too.
AcceptableAtRoom ==
  /\ Len(raw) <= (IF reader = "credential" THEN Limit + 2 ELSE Limit)
  /\ reader = "credential" => Cleaned # <<>> /\ ~Has(Cleaned, {"NUL", "CR", "LF"})
  /\ reader = "runtime" => Cleaned # <<>> /\ ~Has(Cleaned, {"NUL"})

Acceptable ==
  /\ Len(raw) <= (IF reader = "credential" THEN Limit + 2 ELSE Limit)
  /\ reader = "credential" =>
       Cleaned # <<>> /\ Len(Cleaned) <= Limit /\ ~Has(Cleaned, {"NUL", "CR", "LF"})
  /\ reader = "runtime" => Cleaned # <<>> /\ ~Has(Cleaned, {"NUL"})

\* Mutant: the whole file is read before its length is looked at.
AtEndUnbounded(s) == Len(s) >= Len(content[fd])

AtEnd(s) == Len(s) >= Len(content[fd]) \/ Len(s) = Room

ReadChunk ==
  /\ pc = "read" /\ ~AtEnd(raw)
  /\ raw' = Append(raw, content[fd][Len(raw) + 1])
  /\ UNCHANGED <<owner, reader, pc, info, fd, opened, again, value, earlier>>

EndOfRead ==
  /\ pc = "read" /\ AtEnd(raw)
  /\ IF ~Acceptable THEN Refuse
     ELSE IF reader = "graph" THEN pc' = "recheck" /\ UNCHANGED local
     ELSE pc' = "accepted" /\ value' = Cleaned /\ UNCHANGED <<info, raw, fd, opened, again, earlier>>
  /\ UNCHANGED <<owner, reader>>

\* The package graph: size and modification time have not changed ...
Recheck ==
  /\ pc = "recheck"
  /\ IF Len(content[fd]) = Len(raw) /\ mtime[fd] = opened
     THEN pc' = "reread" /\ UNCHANGED local
     ELSE Refuse
  /\ UNCHANGED <<owner, reader>>

RereadChunk ==
  /\ pc = "reread" /\ ~AtEnd(again)
  /\ again' = Append(again, content[fd][Len(again) + 1])
  /\ UNCHANGED <<owner, reader, pc, info, fd, raw, opened, value, earlier>>

\* Mutant: the second reading is not compared with the first.
EndOfRereadTrusted ==
  /\ pc = "reread" /\ AtEnd(again)
  /\ pc' = "accepted" /\ value' = raw /\ UNCHANGED <<info, raw, fd, opened, again, earlier>>
  /\ UNCHANGED <<owner, reader>>

\* ... and a second reading finds the same bytes.
EndOfReread ==
  /\ pc = "reread" /\ AtEnd(again)
  /\ IF again = raw
     THEN pc' = "accepted" /\ value' = raw /\ UNCHANGED <<info, raw, fd, opened, again, earlier>>
     ELSE Refuse
  /\ UNCHANGED <<owner, reader>>

\* The next start of the program reads the file again.
Repeat ==
  /\ pc \in {"accepted", "refused"}
  /\ pc' = "inspect"
  /\ info' = 0 /\ raw' = <<>> /\ fd' = 0 /\ opened' = 0 /\ again' = <<>> /\ value' = <<>>
  /\ earlier' = 0
  /\ UNCHANGED <<owner, reader>>

-----------------------------------------------------------------------------
Next ==
  \/ Replace \/ Truncate \/ WriteRest \/ Tick
  \/ Inspect \/ Open \/ Compare \/ ReadChunk \/ EndOfRead
  \/ Recheck \/ RereadChunk \/ EndOfReread \/ Repeat

Spec == Init /\ [][Next]_vars

-----------------------------------------------------------------------------
(* Properties *)

\* The bytes a credential value v may come from.
LineOf(v) == {v, v \o <<"LF">>, v \o <<"CR">>, v \o <<"CR", "LF">>}

OneLine(v) == v # <<>> /\ Len(v) <= Limit /\ ~Has(v, {"NUL", "CR", "LF"})

\* All of s but the white space around it is at m..n.
Text(s, m, n) ==
  /\ m <= n /\ s[m] \notin White /\ s[n] \notin White
  /\ \A i \in DOMAIN s : i < m \/ n < i => s[i] \in White

\* The reference: the values a file that holds bytes s stands for to reader r.
Meaning(r, s) ==
  CASE r = "credential" -> {v \in {SubSeq(s, 1, n) : n \in 0..Len(s)} : OneLine(v) /\ s \in LineOf(v)}
    [] r = "runtime" ->
         {v \in UNION {{SubSeq(s, m, n) : n \in DOMAIN s} : m \in DOMAIN s} :
            /\ Len(s) <= Limit /\ ~Has(v, {"NUL"})
            /\ \E m, n \in DOMAIN s : v = SubSeq(s, m, n) /\ Text(s, m, n)}
    [] r = "graph" -> IF Len(s) <= Limit THEN {s} ELSE {}

\* A file nobody rewrites is accepted exactly when its bytes have a meaning,
\* and with that meaning: the bounds leave room for the longest line with
\* either line end and cut nothing off, and a file renamed over the path is
\* never mistaken for the one that was inspected.
ReadAsMeant ==
  /\ pc = "accepted" /\ rewrites = 0 =>
       value \in Meaning(reader, content[info]) /\ (reader = "credential" => private[info])
  /\ pc = "refused" /\ rewrites = 0 /\ replaces = 0 =>
       entry.link \/ (reader = "credential" /\ ~private[1]) \/ Meaning(reader, content[1]) = {}

\* A package graph that is accepted is one the file held as a whole when it was
\* rewritten once under the reader, even faster than its clock moves: what is
\* torn in the first reading is whole in the second.  (A second rewrite in the
\* same tick can tear both readings in the same way.)
GraphIsWhole ==
  pc = "accepted" /\ reader = "graph" /\ rewrites <= earlier + 1 => value \in basis[fd]
==============================================================================
