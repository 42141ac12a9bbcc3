-------------------------- MODULE CheckedFileProofs --------------------------
(***************************************************************************)
(* Proofs about CheckedFile for every set of contents, every limit and any *)
(* number of renames and rewrites.  What a reader has is a prefix of the   *)
(* file while nobody rewrites it; the bounds are compared with what bytes  *)
(* can mean (DecidedRight, TooLong); and one rewrite of the graph always   *)
(* shows: before it the first reading is whole, after it the second is.    *)
(***************************************************************************)
EXTENDS CheckedFile, WellFoundedInduction, TLAPS

-----------------------------------------------------------------------------
(* Sequences of bytes *)

\* t begins with s.
Prefix(s, t) == Len(s) <= Len(t) /\ \A i \in 1..Len(s) : s[i] = t[i]

\* A set of positions has a least and a greatest element, by the well-foundedness
\* of the naturals: TrimSpace finds a first and a last byte to keep.
LEMMA Least ==
  ASSUME NEW S, S \subseteq Nat, S # {}
  PROVE  \E x \in S : \A y \in S : x <= y
  <1> DEFINE R == OpToRel(<, Nat)
  <1>1. IsWellFoundedOn(R, Nat)
    BY NatLessThanWellFounded, Zenon
  <1>2. \A x, y \in Nat : <<y, x>> \in R <=> y < x
    BY DEF OpToRel
  <1> HIDE DEF R
  <1>3. PICK x \in S : \A y \in S : ~(<<y, x>> \in R)
    BY <1>1, WFMin, Zenon
  <1>4. ASSUME NEW y \in S  PROVE x <= y
    <2>1. x \in Nat /\ y \in Nat
      OBVIOUS
    <2>2. ~(y < x)
      BY <1>2, <1>3, <2>1, Zenon
    <2>3. QED  BY <2>1, <2>2
  <1>5. QED  BY <1>4, Zenon

\* The greatest element of a bounded set, as the least of the distances to the bound.
LEMMA Greatest ==
  ASSUME NEW S, NEW n \in Nat, S \subseteq 0..n, S # {}
  PROVE  \E x \in S : \A y \in S : y <= x
  <1> DEFINE T == {n - i : i \in S}
  <1>1. T \subseteq Nat
    OBVIOUS
  <1>2. T # {}
    BY Zenon
  <1>3. PICK t \in T : \A u \in T : t <= u
    BY <1>1, <1>2, Least, Zenon
  <1>4. PICK x \in S : t = n - x
    OBVIOUS
  <1>5. ASSUME NEW y \in S  PROVE y <= x
    <2>1. t <= n - y
      BY <1>3, Zenon
    <2>2. x \in 0..n /\ y \in 0..n
      OBVIOUS
    <2>3. QED  BY <1>4, <2>1, <2>2
  <1>6. QED  BY <1>5

\* A reader that has as many bytes as the file, all in agreement, has the file.
LEMMA SameSequence ==
  ASSUME NEW s \in Seq(Byte), NEW t \in Seq(Byte), Len(s) = Len(t), Prefix(s, t)
  PROVE  s = t
  BY DEF Prefix

\* One more byte of the file at the end of what agrees with it still agrees
\* (io.ReadAll, one chunk per step).
LEMMA Grown ==
  ASSUME NEW s \in Seq(Byte), NEW t \in Seq(Byte), Len(s) < Len(t)
  PROVE  LET u == Append(s, t[Len(s) + 1])
         IN  u \in Seq(Byte) /\ Len(u) = Len(s) + 1 /\ (Prefix(s, t) => Prefix(u, t))
  BY DEF Prefix

\* A reader that has nothing yet agrees with every file.
LEMMA EmptyPrefix ==
  ASSUME NEW s \in Seq(Byte), NEW t \in Seq(Byte), Len(s) <= 0
  PROVE  Prefix(s, t) /\ s = <<>>
  BY DEF Prefix

\* What strings.TrimSuffix removes can be put back.
LEMMA Cut ==
  ASSUME NEW s \in Seq(Byte), s # <<>>
  PROVE  /\ SubSeq(s, 1, Len(s) - 1) \in Seq(Byte)
         /\ SubSeq(s, 1, Len(s) - 1) \o <<s[Len(s)]>> = s
  OBVIOUS

\* What is put at the end is what strings.TrimSuffix finds there.
LEMMA Uncut ==
  ASSUME NEW v \in Seq(Byte), NEW b \in Byte, NEW w, w = v \o <<b>>
  PROVE  /\ w \in Seq(Byte) /\ w # <<>> /\ Len(w) = Len(v) + 1 /\ w[Len(w)] = b
         /\ SubSeq(w, 1, Len(w) - 1) = v
  OBVIOUS

\* A value is the start of every line that begins with it.
LEMMA Start ==
  ASSUME NEW v \in Seq(Byte), NEW x \in Seq(Byte)
  PROVE  Len(v) \in 0..Len(v \o x) /\ SubSeq(v \o x, 1, Len(v)) = v /\ SubSeq(v, 1, Len(v)) = v
  OBVIOUS

\* What strings.TrimSpace keeps is not empty when there is something to keep.
LEMMA Piece ==
  ASSUME NEW s \in Seq(Byte), NEW m \in 1..Len(s), NEW n \in 1..Len(s), m <= n
  PROVE  SubSeq(s, m, n) # <<>> /\ SubSeq(s, m, n) \in Seq(Byte)
  <1>1. Len(SubSeq(s, m, n)) = n - m + 1 /\ n - m + 1 > 0
    OBVIOUS
  <1>2. Len(<<>>) = 0
    OBVIOUS
  <1>3. SubSeq(s, m, n) \in Seq(Byte)
    OBVIOUS
  <1>4. QED  BY <1>1, <1>2, <1>3

\* The line end "CR LF" is a CR and then an LF.
LEMMA LineEnds ==
  ASSUME NEW v \in Seq(Byte)
  PROVE  v \o <<"CR", "LF">> = (v \o <<"CR">>) \o <<"LF">>
  OBVIOUS

\* strings.TrimSuffix leaves the bytes as they are or takes one byte off.
LEMMA TrimCuts ==
  ASSUME NEW s \in Seq(Byte), NEW b \in Byte
  PROVE  LET t == TrimSuffix(s, b)
         IN  t \in Seq(Byte) /\ (s = t \/ s = t \o <<b>>)
  BY Cut, Zenon DEF TrimSuffix

\* It takes its byte off where it is last, and nothing off where it is not.
LEMMA TrimFinds ==
  ASSUME NEW v \in Seq(Byte), NEW b \in Byte
  PROVE  /\ TrimSuffix(v \o <<b>>, b) = v
         /\ \A c \in Byte : c # b => TrimSuffix(v \o <<b>>, c) = v \o <<b>>
         /\ (\A i \in DOMAIN v : v[i] # b) => TrimSuffix(v, b) = v
  <1>1. TrimSuffix(v \o <<b>>, b) = v /\ \A c \in Byte : c # b => TrimSuffix(v \o <<b>>, c) = v \o <<b>>
    BY Uncut DEF TrimSuffix
  <1>2. (\A i \in DOMAIN v : v[i] # b) => TrimSuffix(v, b) = v
    BY DEF TrimSuffix
  <1>3. QED  BY <1>1, <1>2, Zenon

\* What readCredential makes of bytes s.
Line(s) == TrimSuffix(TrimSuffix(s, "LF"), "CR")

\* What readCredential makes of the bytes is the value of a line they are.
LEMMA LineIsOf ==
  ASSUME NEW s \in Seq(Byte)
  PROVE  /\ Line(s) \in Seq(Byte) /\ s \in LineOf(Line(s))
         /\ Line(s) \in {SubSeq(s, 1, n) : n \in 0..Len(s)}
  <1> DEFINE t == TrimSuffix(s, "LF")
             v == TrimSuffix(t, "CR")
  <1>0. {"LF", "CR"} \subseteq Byte
    BY Zenon DEF Byte
  <1>1. t \in Seq(Byte) /\ (s = t \/ s = t \o <<"LF">>)
    BY <1>0, TrimCuts, Zenon
  <1>2. v \in Seq(Byte) /\ (t = v \/ t = v \o <<"CR">>)
    BY <1>0, <1>1, TrimCuts, Zenon
  <1>3. v = Line(s)
    BY Zenon DEF Line
  <1> HIDE DEF t, v
  <1>4. s \in LineOf(v)
    BY Zenon, <1>1, <1>2, LineEnds DEF LineOf
  <1>5. <<>> \in Seq(Byte) /\ <<"LF">> \in Seq(Byte) /\ <<"CR">> \in Seq(Byte) /\ <<"CR", "LF">> \in Seq(Byte)
    BY <1>0
  <1>6. v \in {SubSeq(s, 1, n) : n \in 0..Len(s)}
    <2>1. PICK x : x \in Seq(Byte) /\ (s = v \/ s = v \o x)
      BY <1>4, <1>5, Zenon DEF LineOf
    <2>2. Len(v) \in 0..Len(s) /\ SubSeq(s, 1, Len(v)) = v
      BY <1>2, <2>1, Start
    <2>3. QED  BY <2>2, Zenon
  <1>7. QED  BY <1>2, <1>3, <1>4, <1>6

\* The value of a line is what readCredential makes of it: at most two bytes are cut
\* off, and no two values have the same line.
LEMMA LineIsUnique ==
  ASSUME NEW s \in Seq(Byte), NEW v \in Seq(Byte), ~Has(v, {"NUL", "CR", "LF"}), s \in LineOf(v)
  PROVE  Line(s) = v /\ Len(s) <= Len(v) + 2
  <1>0. {"LF", "CR"} \subseteq Byte
    BY DEF Byte
  <1>1. TrimSuffix(v, "LF") = v /\ TrimSuffix(v, "CR") = v
    <2>1. \A i \in DOMAIN v : v[i] # "LF" /\ v[i] # "CR"
      BY DEF Has
    <2>2. QED  BY <1>0, <2>1, TrimFinds, Zenon
  <1>2. CASE s = v
    BY <1>1, <1>2 DEF Line
  <1>3. CASE s = v \o <<"LF">>
    <2>1. TrimSuffix(s, "LF") = v
      BY <1>0, <1>3, TrimFinds, Zenon
    <2>2. Line(s) = v
      BY <1>1, <2>1, Zenon DEF Line
    <2>3. QED  BY <1>3, <2>2, <1>0
  <1>4. CASE s = v \o <<"CR">>
    <2>1. TrimSuffix(s, "LF") = s /\ TrimSuffix(s, "CR") = v
      BY <1>0, <1>4, TrimFinds, Zenon
    <2>2. Line(s) = v
      BY <2>1 DEF Line
    <2>3. QED  BY <1>4, <2>2, <1>0
  <1>5. CASE s = v \o <<"CR", "LF">>
    <2> DEFINE w == v \o <<"CR">>
    <2>1. w \in Seq(Byte) /\ Len(w) = Len(v) + 1
      BY <1>0, Uncut
    <2>2. s = w \o <<"LF">>
      BY <1>5, LineEnds, Zenon
    <2>3. TrimSuffix(w, "CR") = v
      BY <1>0, TrimFinds, Zenon
    <2> HIDE DEF w
    <2>4. TrimSuffix(s, "LF") = w
      BY <1>0, <2>1, <2>2, TrimFinds
    <2>5. Len(s) = Len(w) + 1
      BY <1>0, <2>1, <2>2, Uncut, Zenon
    <2>6. QED  BY <2>1, <2>3, <2>4, <2>5 DEF Line
  <1>6. QED  BY <1>2, <1>3, <1>4, <1>5, Zenon DEF LineOf

\* What strings.TrimSpace keeps is all there is between the first and the last byte
\* that is no white space.
LEMMA SpaceIsText ==
  ASSUME NEW s \in Seq(Byte), TrimSpace(s) # <<>>
  PROVE  \E m, n \in DOMAIN s : TrimSpace(s) = SubSeq(s, m, n) /\ Text(s, m, n)
  <1> DEFINE kept == {i \in DOMAIN s : s[i] \notin White}
             m == CHOOSE i \in kept : \A j \in kept : i <= j
             n == CHOOSE i \in kept : \A j \in kept : j <= i
  <1>1. kept # {} /\ TrimSpace(s) = SubSeq(s, m, n)
    BY Zenon DEF TrimSpace
  <1>2. kept \subseteq 0..Len(s) /\ kept \subseteq Nat /\ Len(s) \in Nat
    OBVIOUS
  <1>3. m \in kept /\ \A j \in kept : m <= j
    <2>1. \E i \in kept : \A j \in kept : i <= j
      BY <1>1, <1>2, Least, Zenon
    <2>2. QED  BY <2>1
  <1>4. n \in kept /\ \A j \in kept : j <= n
    <2>1. \E i \in kept : \A j \in kept : j <= i
      BY <1>1, <1>2, Greatest, Zenon
    <2>2. QED  BY <2>1, Zenon
  <1> HIDE DEF m, n
  <1>5. Text(s, m, n)
    BY <1>3, <1>4 DEF Text
  <1>6. QED  BY <1>1, <1>3, <1>4, <1>5, Zenon

\* ... and there is only one such piece of the bytes.
LEMMA TextIsSpace ==
  ASSUME NEW s \in Seq(Byte), NEW m \in DOMAIN s, NEW n \in DOMAIN s, Text(s, m, n)
  PROVE  TrimSpace(s) = SubSeq(s, m, n) /\ SubSeq(s, m, n) # <<>>
  <1> DEFINE kept == {i \in DOMAIN s : s[i] \notin White}
             a == CHOOSE i \in kept : \A j \in kept : i <= j
             b == CHOOSE i \in kept : \A j \in kept : j <= i
  <1>1. m \in kept /\ n \in kept /\ (\A j \in kept : m <= j /\ j <= n) /\ kept \subseteq Nat
    BY DEF Text
  <1>2. a \in kept /\ \A j \in kept : a <= j
    BY <1>1, Zenon
  <1>3. b \in kept /\ \A j \in kept : j <= b
    BY <1>1, Zenon
  <1>4. TrimSpace(s) = SubSeq(s, a, b)
    BY <1>1, Zenon DEF TrimSpace
  <1> HIDE DEF a, b, kept
  <1>5. a = m /\ b = n
    <2>1. a \in Nat /\ m \in Nat /\ a <= m /\ m <= a
      BY <1>1, <1>2, Zenon
    <2>2. b \in Nat /\ n \in Nat /\ b <= n /\ n <= b
      BY <1>1, <1>3, Zenon
    <2>3. QED  BY <2>1, <2>2
  <1>6. SubSeq(s, m, n) # <<>>
    <2>1. m \in 1..Len(s) /\ n \in 1..Len(s) /\ m <= n /\ Len(s) \in Nat
      BY DEF Text
    <2>2. QED  BY <2>1, Piece, Zenon
  <1>7. QED  BY <1>4, <1>5, <1>6, Zenon

-----------------------------------------------------------------------------
(* What the reader decides *)

Readers3 == {"credential", "runtime", "graph"}

\* The decision of the three readers over bytes they have all of: accepted exactly
\* when the bytes have a meaning, with that meaning (main.go readCredential,
\* readBoundedFile of pkg/gatewayclient, readBounded of the dependency check).
LEMMA DecidedRight ==
  ASSUME BoundsAssumption, raw \in Seq(Byte), reader \in Readers3,
         reader = "runtime" => Len(raw) <= Limit
  PROVE  /\ Acceptable => Cleaned \in Meaning(reader, raw)
         /\ ~Acceptable => Meaning(reader, raw) = {}
  <1>0. Limit \in Nat /\ Len(raw) \in Nat
    BY DEF BoundsAssumption
  <1>1. CASE reader = "credential"
    <2>1. Cleaned = Line(raw)
      BY <1>1, Zenon DEF Cleaned, Line
    <2>2. Meaning(reader, raw) = {v \in {SubSeq(raw, 1, n) : n \in 0..Len(raw)} : OneLine(v) /\ raw \in LineOf(v)}
      BY <1>1, Zenon DEF Meaning
    <2>3. Acceptable => OneLine(Line(raw))
      BY <1>1, <2>1, Zenon DEF Acceptable, OneLine
    <2>4. Acceptable => Cleaned \in Meaning(reader, raw)
      BY <2>1, <2>2, <2>3, LineIsOf, Zenon
    <2>5. ASSUME NEW v \in Meaning(reader, raw)  PROVE Acceptable
      <3>1. PICK n \in 0..Len(raw) : v = SubSeq(raw, 1, n)
        BY <2>2, Zenon
      <3>2. v \in Seq(Byte) /\ Len(v) \in Nat
        BY <3>1
      <3>3. OneLine(v) /\ raw \in LineOf(v)
        BY <2>2
      <3>4. Line(raw) = v /\ Len(raw) <= Len(v) + 2
        BY <3>2, <3>3, LineIsUnique, Zenon DEF OneLine
      <3>5. Len(raw) <= Limit + 2
        BY <1>0, <3>2, <3>3, <3>4 DEF OneLine
      <3>6. QED  BY <1>1, <2>1, <3>3, <3>4, <3>5, Zenon DEF Acceptable, OneLine
    <2>6. QED  BY <2>4, <2>5, Zenon
  <1>2. CASE reader = "runtime"
    <2>1. Cleaned = TrimSpace(raw)
      BY <1>2, Zenon DEF Cleaned
    <2>2. Meaning(reader, raw) =
            {v \in UNION {{SubSeq(raw, m, n) : n \in DOMAIN raw} : m \in DOMAIN raw} :
               /\ Len(raw) <= Limit /\ ~Has(v, {"NUL"})
               /\ \E m, n \in DOMAIN raw : v = SubSeq(raw, m, n) /\ Text(raw, m, n)}
      BY <1>2, Zenon DEF Meaning
    <2>3. Acceptable <=> TrimSpace(raw) # <<>> /\ ~Has(TrimSpace(raw), {"NUL"})
      BY <1>2, <2>1, Zenon DEF Acceptable
    <2>4. Acceptable => Cleaned \in Meaning(reader, raw)
      <3> SUFFICES ASSUME Acceptable  PROVE TrimSpace(raw) \in Meaning(reader, raw)
        BY <2>1, Zenon
      <3>1. PICK m, n \in DOMAIN raw : TrimSpace(raw) = SubSeq(raw, m, n) /\ Text(raw, m, n)
        BY <2>3, SpaceIsText, Zenon
      <3>2. TrimSpace(raw) \in UNION {{SubSeq(raw, i, j) : j \in DOMAIN raw} : i \in DOMAIN raw}
        <4>1. SubSeq(raw, m, n) \in {SubSeq(raw, m, j) : j \in DOMAIN raw}
          BY Zenon
        <4>2. {SubSeq(raw, m, j) : j \in DOMAIN raw} \in {{SubSeq(raw, i, j) : j \in DOMAIN raw} : i \in DOMAIN raw}
          BY Zenon
        <4>3. QED  BY <3>1, <4>1, <4>2, Zenon
      <3>3. ~Has(TrimSpace(raw), {"NUL"}) /\ Len(raw) <= Limit
        BY <1>2, <2>3, Zenon
      <3>4. QED  BY <2>2, <3>1, <3>2, <3>3, Zenon
    <2>5. ASSUME NEW v \in Meaning(reader, raw)  PROVE Acceptable
      <3>1. PICK m, n \in DOMAIN raw : v = SubSeq(raw, m, n) /\ Text(raw, m, n)
        BY <2>2, Zenon
      <3>2. ~Has(v, {"NUL"})
        BY <2>2, Zenon
      <3>3. QED  BY <2>3, <3>1, <3>2, TextIsSpace, Zenon
    <2>6. QED  BY <2>4, <2>5
  <1>3. CASE reader = "graph"
    BY <1>3, Zenon DEF Acceptable, Cleaned, Meaning
  <1>4. QED  BY <1>1, <1>2, <1>3, Zenon DEF Readers3

\* Bytes that fill the LimitReader have no meaning, whatever follows them.
LEMMA TooLong ==
  ASSUME BoundsAssumption, NEW s \in Seq(Byte), reader \in {"credential", "graph"}, Len(s) >= Room
  PROVE  Meaning(reader, s) = {}
  <1>0. Limit \in Nat /\ Len(s) \in Nat
    BY DEF BoundsAssumption
  <1>1. CASE reader = "graph"
    BY <1>0, <1>1 DEF Meaning, Room
  <1>2. CASE reader = "credential"
    <2>1. Meaning(reader, s) = {v \in {SubSeq(s, 1, n) : n \in 0..Len(s)} : OneLine(v) /\ s \in LineOf(v)}
      BY <1>2, Zenon DEF Meaning
    <2>2. ASSUME NEW v \in Meaning(reader, s)  PROVE FALSE
      <3>1. PICK n \in 0..Len(s) : v = SubSeq(s, 1, n)
        BY <2>1, Zenon
      <3>2. v \in Seq(Byte) /\ Len(v) \in Nat
        BY <3>1
      <3>3. OneLine(v) /\ s \in LineOf(v)
        BY <2>1, Zenon
      <3>4. Len(s) <= Len(v) + 2
        BY <3>2, <3>3, LineIsUnique, Zenon DEF OneLine
      <3>5. QED  BY <1>0, <1>2, <3>2, <3>3, <3>4 DEF OneLine, Room
    <2>3. QED  BY <2>2, Zenon
  <1>3. QED  BY <1>1, <1>2

-----------------------------------------------------------------------------
(* The inductive invariant *)

\* The files: every content is one of its history, and a file is empty between the
\* truncation and the rest of a rewrite.
OwnerInv ==
  /\ replaces \in 0..MaxReplace /\ rewrites \in Nat /\ clock \in Nat
  /\ entry \in [file : File, link : BOOLEAN] /\ entry.file = replaces + 1
  /\ content \in [File -> Seq(Byte)] /\ private \in [File -> BOOLEAN] /\ mtime \in [File -> Nat]
  /\ basis \in [File -> SUBSET Seq(Byte)] /\ \A f \in File : content[f] \in basis[f]
  /\ writing # NoWrite =>
       writing.file \in File /\ writing.bytes \in Seq(Byte) /\ content[writing.file] = <<>>
  /\ rewrites = 0 => writing = NoWrite /\ \A f \in File : mtime[f] = 0

\* What the reader has, by where it is.
LocalInv ==
  /\ reader \in Readers3
  /\ pc \in {"inspect", "open", "compare", "read", "recheck", "reread", "accepted", "refused"}
  /\ raw \in Seq(Byte) /\ again \in Seq(Byte) /\ Len(raw) <= Room /\ Len(again) <= Room
  /\ pc \in {"inspect", "open", "compare"} => raw = <<>>
  /\ pc \in {"inspect", "open", "compare", "read", "recheck"} => again = <<>>
  /\ pc \in {"recheck", "reread"} => reader = "graph" /\ Len(raw) <= Limit

\* What the reader knows of the path.
PathInv ==
  /\ pc \in {"open", "compare", "read", "recheck", "reread", "accepted"} =>
       /\ info \in File
       /\ reader = "credential" => private[info]
       /\ reader = "runtime" /\ rewrites = 0 => Len(content[info]) <= Limit
       /\ replaces = 0 => ~entry.link /\ info = 1
  /\ pc \in {"compare", "read", "recheck", "reread", "accepted"} => fd \in File /\ (replaces = 0 => fd = 1)
  /\ pc \in {"read", "recheck", "reread", "accepted"} => fd = info /\ earlier \in Nat /\ earlier <= rewrites

\* What it knows of the bytes.
BytesInv ==
  /\ pc = "read" =>
       /\ rewrites = earlier => Prefix(raw, content[fd])
       /\ rewrites = 0 => opened = 0
  /\ pc = "recheck" =>
       /\ rewrites = earlier => raw \in basis[fd]
       /\ rewrites = 0 => raw = content[fd] /\ opened = 0
  /\ pc = "reread" =>
       /\ rewrites <= earlier + 1 =>
            raw \in basis[fd] \/ (rewrites = earlier + 1 /\ content[fd] # <<>> /\ Prefix(again, content[fd]))
       /\ rewrites = 0 => raw = content[fd] /\ Prefix(again, content[fd])

\* The inductive invariant.
FileInv == OwnerInv /\ LocalInv /\ PathInv /\ BytesInv /\ ReadAsMeant /\ GraphIsWhole

-----------------------------------------------------------------------------
(* The steps of the owner *)

\* A rename over the path: what is open and what was inspected stay what they were.
LEMMA ReplaceKeeps ==
  ASSUME BoundsAssumption, FileInv, Replace
  PROVE  FileInv'
  <1> USE DEF Replace, local
  <1>1. OwnerInv'
    BY DEF FileInv, OwnerInv, File, BoundsAssumption
  <1>2. LocalInv'
    BY DEF FileInv, LocalInv, Room
  <1>3. replaces' # 0
    BY DEF FileInv, OwnerInv
  <1>4. PathInv' /\ BytesInv'
    BY <1>3 DEF FileInv, PathInv, BytesInv, Prefix
  <1>5. ReadAsMeant' /\ GraphIsWhole'
    <2>1. ReadAsMeant /\ GraphIsWhole
      BY Zenon DEF FileInv
    <2>2. GraphIsWhole'
      BY <2>1 DEF GraphIsWhole
    <2>3. QED  BY <1>3, <2>1, <2>2, Zenon DEF ReadAsMeant
  <1>6. QED  BY <1>1, <1>2, <1>4, <1>5, Zenon DEF FileInv

\* The owner begins a rewrite: what was known of a file nobody rewrites is void, and
\* the graph reader that has begun its second reading already has a whole graph.
LEMMA TruncateKeeps ==
  ASSUME BoundsAssumption, ContentsAssumption, FileInv, Truncate
  PROVE  FileInv'
  <1> DEFINE f == entry.file
  <1>1. /\ OwnerInv /\ f \in File /\ UNCHANGED <<entry, private, clock, replaces, reader, pc, local>>
        /\ rewrites' = rewrites + 1 /\ content' = [content EXCEPT ![f] = <<>>]
        /\ basis' = [basis EXCEPT ![f] = @ \cup {<<>>}]
    BY Zenon DEF FileInv, OwnerInv, Truncate
  <1>2. OwnerInv'
    <2>1. PICK bytes \in Rewritten : writing' = [file |-> f, bytes |-> bytes]
      BY Zenon DEF Truncate
    <2>2. bytes \in Seq(Byte)
      BY Zenon DEF ContentsAssumption
    <2>3. writing'.file = f /\ writing'.bytes \in Seq(Byte) /\ content'[f] = <<>> /\ rewrites' # 0
      BY <1>1, <2>1, <2>2 DEF OwnerInv
    <2>4. \A g \in File : content'[g] \in basis'[g]
      BY <1>1, Zenon DEF OwnerInv
    <2>5. mtime' \in [File -> Nat]
      BY <1>1, Zenon DEF OwnerInv, Truncate
    <2>6. content' \in [File -> Seq(Byte)]
      BY <1>1 DEF OwnerInv
    <2>7. basis' \in [File -> SUBSET Seq(Byte)]
      <3>0. <<>> \in Seq(Byte)
        OBVIOUS
      <3>1. basis[f] \cup {<<>>} \in SUBSET Seq(Byte)
        BY <1>1, <3>0, Zenon DEF OwnerInv
      <3>2. QED  BY <1>1, <3>1, Zenon DEF OwnerInv
    <2>8. QED  BY <1>1, <2>3, <2>4, <2>5, <2>6, <2>7 DEF OwnerInv
  <1>3. LocalInv'
    BY <1>1 DEF FileInv, LocalInv, Room, local
  <1>4. rewrites \in Nat /\ rewrites' # 0 /\ (rewrites' <= earlier + 1 /\ earlier \in Nat /\ earlier <= rewrites => rewrites = earlier)
    BY <1>1 DEF OwnerInv
  <1>5. \A g \in File : basis[g] \subseteq basis'[g]
    BY <1>1, Zenon DEF OwnerInv
  <1>6. PathInv'
    BY <1>1, <1>4 DEF FileInv, PathInv, local
  <1>7. BytesInv'
    <2>1. PathInv /\ BytesInv
      BY Zenon DEF FileInv
    <2>2. pc' = "read" \/ pc' = "recheck" => rewrites' # earlier'
      BY <1>1, <1>4, <2>1 DEF PathInv, local
    <2>3. pc' = "reread" /\ rewrites' <= earlier' + 1 => raw' \in basis'[fd']
      BY <1>1, <1>4, <1>5, <2>1 DEF PathInv, BytesInv, local
    <2>4. QED  BY <1>4, <2>2, <2>3 DEF BytesInv
  <1>8. ReadAsMeant' /\ GraphIsWhole'
    <2>1. PathInv /\ GraphIsWhole
      BY Zenon DEF FileInv
    <2>2. QED  BY <1>1, <1>4, <1>5, <2>1 DEF PathInv, GraphIsWhole, ReadAsMeant, local
  <1>9. QED  BY <1>2, <1>3, <1>6, <1>7, <1>8, Zenon DEF FileInv

\* The owner ends a rewrite: who has bytes of a file that was not empty has bytes of
\* another one.
LEMMA WriteRestKeeps ==
  ASSUME FileInv, WriteRest
  PROVE  FileInv'
  <1> DEFINE f == writing.file
  <1>1. /\ OwnerInv /\ f \in File /\ writing.bytes \in Seq(Byte) /\ content[f] = <<>> /\ rewrites # 0
        /\ UNCHANGED <<entry, private, clock, replaces, rewrites, reader, pc, local>>
        /\ content' = [content EXCEPT ![f] = writing.bytes] /\ writing' = NoWrite
        /\ basis' = [basis EXCEPT ![f] = @ \cup {writing.bytes}]
    BY Zenon DEF FileInv, OwnerInv, WriteRest
  <1>2. OwnerInv'
    <2>1. mtime' \in [File -> Nat]
      BY <1>1, Zenon DEF OwnerInv, WriteRest
    <2>2. content' \in [File -> Seq(Byte)]
      BY <1>1, Zenon DEF OwnerInv
    <2>3. basis' \in [File -> SUBSET Seq(Byte)]
      <3>1. basis[f] \cup {writing.bytes} \in SUBSET Seq(Byte)
        BY <1>1, Zenon DEF OwnerInv
      <3>2. QED  BY <1>1, <3>1 DEF OwnerInv
    <2>4. \A g \in File : content'[g] \in basis'[g]
      BY <1>1, Zenon DEF OwnerInv
    <2>5. QED  BY <1>1, <2>1, <2>2, <2>3, <2>4, Zenon DEF OwnerInv
  <1>3. LocalInv'
    BY <1>1, Zenon DEF FileInv, LocalInv, Room, local
  <1>4. PathInv'
    BY <1>1, Zenon DEF FileInv, PathInv, local
  <1>5. \A g \in File : basis[g] \subseteq basis'[g] /\ (g # f => content'[g] = content[g])
    BY <1>1, Zenon DEF OwnerInv
  <1>6. BytesInv'
    <2>1. PathInv /\ BytesInv /\ LocalInv /\ UNCHANGED <<rewrites, pc, raw, fd, earlier, again, opened>>
      BY <1>1, Zenon DEF FileInv, local
    <2>2. pc = "read" /\ rewrites = earlier => Prefix(raw, content'[fd])
      <3> SUFFICES ASSUME pc = "read", rewrites = earlier  PROVE Prefix(raw, content'[fd])
        OBVIOUS
      <3>1. Prefix(raw, content[fd]) /\ fd \in File /\ raw \in Seq(Byte)
        BY <2>1, Zenon DEF BytesInv, PathInv, LocalInv
      <3>2. CASE fd # f
        BY <1>5, <3>1, <3>2, Zenon
      <3>3. CASE fd = f
        <4>1. Len(raw) <= 0
          BY <1>1, <3>1, <3>3, Zenon DEF Prefix
        <4>2. content'[fd] \in Seq(Byte)
          BY <1>1, <3>3, Zenon DEF OwnerInv
        <4>3. QED  BY <3>1, <4>1, <4>2, EmptyPrefix, Zenon
      <3>4. QED  BY <3>2, <3>3, Zenon
    <2>3. pc = "recheck" /\ rewrites = earlier => raw \in basis'[fd]
      BY <1>5, <2>1, Zenon DEF BytesInv, PathInv
    <2>4. pc = "reread" /\ rewrites <= earlier + 1 =>
            raw \in basis'[fd] \/ (rewrites = earlier + 1 /\ content'[fd] # <<>> /\ Prefix(again, content'[fd]))
      <3> SUFFICES ASSUME pc = "reread", rewrites <= earlier + 1, raw \notin basis'[fd]
                   PROVE  rewrites = earlier + 1 /\ content'[fd] # <<>> /\ Prefix(again, content'[fd])
        OBVIOUS
      <3>1. fd \in File
        BY <2>1, Zenon DEF PathInv
      <3>2. rewrites = earlier + 1 /\ content[fd] # <<>> /\ Prefix(again, content[fd])
        BY <1>5, <2>1, <3>1, Zenon DEF BytesInv
      <3>3. fd # f
        BY <1>1, <3>2, Zenon
      <3>4. QED  BY <1>5, <3>1, <3>2, <3>3, Zenon
    <2>5. QED  BY <1>1, <2>1, <2>2, <2>3, <2>4, Zenon DEF BytesInv
  <1>7. ReadAsMeant' /\ GraphIsWhole'
    <2>1. PathInv /\ GraphIsWhole
      BY Zenon DEF FileInv
    <2>2. QED  BY <1>1, <1>5, <2>1 DEF PathInv, GraphIsWhole, ReadAsMeant, local
  <1>8. QED  BY <1>2, <1>3, <1>4, <1>6, <1>7, Zenon DEF FileInv

\* The clock moves.
LEMMA TickKeeps ==
  ASSUME FileInv, Tick
  PROVE  FileInv'
  <1> USE DEF Tick, local
  <1>1. OwnerInv' /\ LocalInv'
    BY DEF FileInv, OwnerInv, LocalInv, Room
  <1>2. PathInv' /\ BytesInv'
    BY DEF FileInv, PathInv, BytesInv
  <1>3. ReadAsMeant' /\ GraphIsWhole'
    BY Zenon DEF FileInv, ReadAsMeant, GraphIsWhole
  <1>4. QED  BY <1>1, <1>2, <1>3, Zenon DEF FileInv

-----------------------------------------------------------------------------
(* The steps of the reader *)

\* The steps of the reader leave the owner's files alone.
LEMMA OwnerRests ==
  ASSUME FileInv, UNCHANGED <<owner, reader>>
  PROVE  /\ OwnerInv' /\ reader \in Readers3 /\ reader' = reader /\ Room' = Room
         /\ UNCHANGED <<entry, content, private, mtime, clock, writing, replaces, rewrites, basis>>
  BY Zenon DEF FileInv, OwnerInv, LocalInv, owner, Room

\* os.Lstat refuses links, files others may read (credentials) and files too large
\* to be meant (runtime files).
LEMMA InspectKeeps ==
  ASSUME FileInv, Inspect
  PROVE  FileInv'
  <1>1. /\ OwnerInv /\ OwnerInv' /\ reader \in Readers3 /\ reader' = reader /\ Room' = Room /\ pc = "inspect"
        /\ UNCHANGED <<entry, content, private, mtime, clock, writing, replaces, rewrites, basis>>
        /\ UNCHANGED <<raw, again>>
    BY OwnerRests, Zenon DEF Inspect, FileInv, Refuse, local
  <1>2. LocalInv'
    BY <1>1, Zenon DEF FileInv, LocalInv, Inspect, Refuse
  <1>3. CASE Inspected
    <2>1. pc' = "open" /\ info' = entry.file
      BY <1>3, Zenon DEF Inspect
    <2>2. PathInv'
      BY <1>1, <1>3, <2>1 DEF PathInv, OwnerInv, Inspected
    <2>3. BytesInv' /\ ReadAsMeant' /\ GraphIsWhole'
      BY <2>1, Zenon DEF BytesInv, ReadAsMeant, GraphIsWhole
    <2>4. QED  BY <1>1, <1>2, <2>2, <2>3, Zenon DEF FileInv
  <1>4. CASE ~Inspected
    <2>1. pc' = "refused"
      BY <1>4, Zenon DEF Inspect, Refuse
    <2>2. PathInv' /\ BytesInv' /\ GraphIsWhole'
      BY <2>1 DEF PathInv, BytesInv, GraphIsWhole
    <2>3. reader = "runtime" /\ ~(Len(content[1]) <= Limit) => Meaning(reader, content[1]) = {}
      BY Zenon DEF Meaning
    <2>4. replaces = 0 => entry.link \/ (reader = "credential" /\ ~private[1]) \/ Meaning(reader, content[1]) = {}
      <3>1. replaces = 0 => entry.file = 1
        BY <1>1 DEF OwnerInv
      <3>2. QED  BY <1>4, <2>3, <3>1, Zenon DEF Inspected
    <2>5. ReadAsMeant'
      BY <1>1, <2>1, <2>4 DEF ReadAsMeant
    <2>6. QED  BY <1>1, <1>2, <2>2, <2>5, Zenon DEF FileInv
  <1>5. QED  BY <1>3, <1>4, Zenon

\* os.OpenFile, for credentials with O_NOFOLLOW.
LEMMA OpenKeeps ==
  ASSUME FileInv, Open
  PROVE  FileInv'
  <1>1. /\ OwnerInv /\ OwnerInv' /\ reader \in Readers3 /\ reader' = reader /\ Room' = Room /\ pc = "open"
        /\ UNCHANGED <<entry, content, private, mtime, clock, writing, replaces, rewrites, basis>>
        /\ UNCHANGED <<raw, again, info>>
    BY OwnerRests, Zenon DEF Open, FileInv, Refuse, local
  <1>2. LocalInv'
    BY <1>1, Zenon DEF FileInv, LocalInv, Open, Refuse
  <1>3. CASE reader = "credential" /\ entry.link
    <2>1. pc' = "refused"
      BY <1>3, Zenon DEF Open, Refuse
    <2>2. PathInv' /\ BytesInv' /\ GraphIsWhole'
      BY <2>1 DEF PathInv, BytesInv, GraphIsWhole
    <2>3. ReadAsMeant'
      BY <1>1, <1>3, <2>1, Zenon DEF ReadAsMeant
    <2>4. QED  BY <1>1, <1>2, <2>2, <2>3, Zenon DEF FileInv
  <1>4. CASE ~(reader = "credential" /\ entry.link)
    <2>1. pc' = "compare" /\ fd' = entry.file
      BY <1>4, Zenon DEF Open
    <2>2. PathInv'
      BY <1>1, <2>1 DEF FileInv, PathInv, OwnerInv
    <2>3. BytesInv' /\ ReadAsMeant' /\ GraphIsWhole'
      BY <2>1 DEF BytesInv, ReadAsMeant, GraphIsWhole
    <2>4. QED  BY <1>1, <1>2, <2>2, <2>3, Zenon DEF FileInv
  <1>5. QED  BY <1>3, <1>4, Zenon

\* os.SameFile: what is read from here on is what was inspected.
LEMMA CompareKeeps ==
  ASSUME FileInv, Compare
  PROVE  FileInv'
  <1>1. /\ OwnerInv /\ OwnerInv' /\ reader \in Readers3 /\ reader' = reader /\ Room' = Room /\ pc = "compare"
        /\ UNCHANGED <<entry, content, private, mtime, clock, writing, replaces, rewrites, basis>>
        /\ UNCHANGED <<raw, again, info, fd>>
    BY OwnerRests, Zenon DEF Compare, FileInv, Refuse, local
  <1>2. LocalInv'
    BY <1>1, Zenon DEF FileInv, LocalInv, Compare, Refuse
  <1>3. CASE info = fd
    <2>1. pc' = "read" /\ opened' = mtime[fd] /\ earlier' = rewrites
      BY <1>3, Zenon DEF Compare
    <2>2. PathInv'
      BY <1>1, <1>3, <2>1 DEF FileInv, PathInv, OwnerInv
    <2>3. fd \in File /\ raw = <<>>
      BY <1>1, Zenon DEF FileInv, PathInv, LocalInv
    <2>4. Prefix(raw, content[fd])
      <3>1. content[fd] \in Seq(Byte) /\ raw \in Seq(Byte) /\ Len(raw) <= 0
        BY <1>1, <2>3 DEF OwnerInv
      <3>2. QED  BY <3>1, EmptyPrefix, Zenon
    <2>5. rewrites = 0 => mtime[fd] = 0
      BY <1>1, <2>3, Zenon DEF OwnerInv
    <2>6. BytesInv'
      BY <1>1, <2>1, <2>4, <2>5, Zenon DEF BytesInv
    <2>7. ReadAsMeant' /\ GraphIsWhole'
      BY <2>1, Zenon DEF ReadAsMeant, GraphIsWhole
    <2>8. QED  BY <1>1, <1>2, <2>2, <2>6, <2>7, Zenon DEF FileInv
  <1>4. CASE info # fd
    <2>1. pc' = "refused"
      BY <1>4, Zenon DEF Compare, Refuse
    <2>2. PathInv' /\ BytesInv' /\ GraphIsWhole'
      BY <2>1, Zenon DEF PathInv, BytesInv, GraphIsWhole
    <2>3. replaces # 0
      BY <1>1, <1>4, Zenon DEF FileInv, PathInv
    <2>4. ReadAsMeant'
      BY <1>1, <2>1, <2>3, Zenon DEF ReadAsMeant
    <2>5. QED  BY <1>1, <1>2, <2>2, <2>4, Zenon DEF FileInv
  <1>5. QED  BY <1>3, <1>4, Zenon

\* A chunk of the file arrives.
LEMMA ReadChunkKeeps ==
  ASSUME BoundsAssumption, FileInv, ReadChunk
  PROVE  FileInv'
  <1>1. /\ OwnerInv /\ OwnerInv' /\ reader \in Readers3 /\ reader' = reader /\ Room' = Room /\ pc = "read"
        /\ UNCHANGED <<entry, content, private, mtime, clock, writing, replaces, rewrites, basis>>
        /\ UNCHANGED <<pc, again, info, fd, opened, earlier, value>>
    BY OwnerRests, Zenon DEF ReadChunk, FileInv
  <1>2. fd \in File /\ content[fd] \in Seq(Byte) /\ raw \in Seq(Byte) /\ Len(raw) <= Room
    BY <1>1, Zenon DEF FileInv, PathInv, OwnerInv, LocalInv
  <1>3. Len(raw) < Len(content[fd]) /\ Len(raw) # Room /\ Room \in Nat
    BY <1>1, <1>2 DEF ReadChunk, AtEnd, Room, BoundsAssumption
  <1>4. raw' \in Seq(Byte) /\ Len(raw') = Len(raw) + 1 /\ (Prefix(raw, content[fd]) => Prefix(raw', content[fd]))
    <2>1. raw' = Append(raw, content[fd][Len(raw) + 1])
      BY Zenon DEF ReadChunk
    <2>2. QED  BY <1>2, <1>3, <2>1, Grown, Zenon
  <1>5. Len(raw') <= Room
    BY <1>2, <1>3, <1>4
  <1>6. LocalInv'
    BY <1>1, <1>4, <1>5, Zenon DEF FileInv, LocalInv
  <1>7. PathInv'
    BY <1>1, Zenon DEF FileInv, PathInv
  <1>8. BytesInv'
    <2>1. rewrites = earlier => Prefix(raw', content[fd])
      BY <1>1, <1>4, Zenon DEF FileInv, BytesInv
    <2>2. rewrites = 0 => opened = 0
      BY <1>1, Zenon DEF FileInv, BytesInv
    <2>3. QED  BY <1>1, <2>1, <2>2, Zenon DEF BytesInv
  <1>9. ReadAsMeant' /\ GraphIsWhole'
    BY <1>1, Zenon DEF ReadAsMeant, GraphIsWhole
  <1>10. QED  BY <1>1, <1>6, <1>7, <1>8, <1>9, Zenon DEF FileInv

\* At the end of a file that did not fill the LimitReader, the reader has all of it.
LEMMA Whole ==
  ASSUME NEW s \in Seq(Byte), NEW t \in Seq(Byte), NEW n \in Nat, Len(s) < n,
         Len(s) >= Len(t) \/ Len(s) = n, Prefix(s, t)
  PROVE  s = t
  <1>1. Len(s) = Len(t)
    BY DEF Prefix
  <1>2. QED  BY <1>1, SameSequence, Zenon

\* The decision: a refusal of a file nobody touched means that it has no meaning, and
\* an accepted value is its meaning.
LEMMA EndOfReadKeeps ==
  ASSUME BoundsAssumption, FileInv, EndOfRead
  PROVE  FileInv'
  <1>1. /\ OwnerInv /\ OwnerInv' /\ reader \in Readers3 /\ reader' = reader /\ Room' = Room /\ pc = "read"
        /\ UNCHANGED <<entry, content, private, mtime, clock, writing, replaces, rewrites, basis>>
        /\ UNCHANGED <<raw, again, info, fd, opened, earlier>>
    BY OwnerRests, Zenon DEF EndOfRead, FileInv, Refuse, local
  <1>2. /\ fd \in File /\ fd = info /\ content[fd] \in Seq(Byte) /\ raw \in Seq(Byte) /\ Len(raw) <= Room
        /\ earlier \in Nat /\ earlier <= rewrites /\ rewrites \in Nat
        /\ again = <<>>
    BY <1>1, Zenon DEF FileInv, PathInv, OwnerInv, LocalInv
  <1>3. Room \in Nat /\ Limit \in Nat /\ Limit < Room /\ (reader = "credential" => Room = Limit + 3)
    BY DEF Room, BoundsAssumption
  <1>4. Len(raw) >= Len(content[fd]) \/ Len(raw) = Room
    BY Zenon DEF EndOfRead, AtEnd
  <1>5. rewrites = 0 => rewrites = earlier
    BY <1>2
  <1>6. rewrites = earlier => Prefix(raw, content[fd])
    BY <1>1 DEF FileInv, BytesInv
  <1>7. rewrites = earlier /\ Len(raw) < Room => raw = content[fd]
    BY <1>2, <1>3, <1>4, <1>6, Whole, Zenon
  <1>8. Acceptable => Len(raw) < Room /\ (reader # "credential" => Len(raw) <= Limit)
    BY <1>2, <1>3 DEF Acceptable
  <1>9. PathInv /\ BytesInv
    BY Zenon DEF FileInv
  <1>10. CASE ~Acceptable
    <2>1. pc' = "refused"
      BY <1>10, Zenon DEF EndOfRead, Refuse
    <2>2. LocalInv'
      BY <1>1, <2>1, Zenon DEF FileInv, LocalInv
    <2>3. PathInv' /\ BytesInv' /\ GraphIsWhole'
      BY <2>1, Zenon DEF PathInv, BytesInv, GraphIsWhole
    <2>4. ASSUME rewrites = 0, replaces = 0  PROVE Meaning(reader, content[1]) = {}
      <3>1. fd = 1 /\ Prefix(raw, content[fd])
        BY <1>1, <1>5, <1>6, <1>9, <2>4, Zenon DEF PathInv
      <3>2. reader = "runtime" => Len(raw) <= Limit
        BY <1>1, <1>2, <1>3, <1>9, <2>4, <3>1 DEF PathInv, Prefix
      <3>3. CASE Len(raw) < Room
        <4>1. raw = content[1]
          BY <1>5, <1>7, <2>4, <3>1, <3>3, Zenon
        <4>2. QED  BY <1>1, <1>2, <1>10, <3>2, <4>1, DecidedRight, Zenon
      <3>4. CASE ~(Len(raw) < Room)
        <4>1. Len(content[1]) >= Room /\ reader # "runtime"
          BY <1>2, <1>3, <3>1, <3>2, <3>4 DEF Prefix
        <4>2. QED  BY <1>1, <1>2, <3>1, <4>1, TooLong, Zenon DEF Readers3
      <3>5. QED  BY <3>3, <3>4, Zenon
    <2>5. ReadAsMeant'
      BY <1>1, <2>1, <2>4, Zenon DEF ReadAsMeant
    <2>6. QED  BY <1>1, <2>2, <2>3, <2>5, Zenon DEF FileInv
  <1>11. CASE Acceptable /\ reader = "graph"
    <2>1. pc' = "recheck"
      BY <1>11, Zenon DEF EndOfRead
    <2>2. LocalInv'
      BY <1>1, <1>2, <1>8, <1>11, <2>1, Zenon DEF FileInv, LocalInv
    <2>3. PathInv'
      BY <1>1, <1>9, <2>1, Zenon DEF PathInv
    <2>4. rewrites = earlier => raw = content[fd] /\ raw \in basis[fd]
      BY <1>1, <1>2, <1>7, <1>8, <1>11, Zenon DEF OwnerInv
    <2>5. rewrites = 0 => opened = 0
      BY <1>1, <1>9 DEF BytesInv
    <2>6. BytesInv'
      BY <1>1, <1>5, <2>1, <2>4, <2>5 DEF BytesInv
    <2>7. ReadAsMeant' /\ GraphIsWhole'
      BY <2>1, Zenon DEF ReadAsMeant, GraphIsWhole
    <2>8. QED  BY <1>1, <2>2, <2>3, <2>6, <2>7, Zenon DEF FileInv
  <1>12. CASE Acceptable /\ reader # "graph"
    <2>1. pc' = "accepted" /\ value' = Cleaned
      BY <1>12, Zenon DEF EndOfRead
    <2>2. LocalInv'
      BY <1>1, <2>1, Zenon DEF FileInv, LocalInv
    <2>3. PathInv'
      BY <1>1, <1>9, <2>1, Zenon DEF PathInv
    <2>4. BytesInv' /\ GraphIsWhole'
      BY <1>1, <1>12, <2>1, Zenon DEF BytesInv, GraphIsWhole
    <2>5. ASSUME rewrites = 0  PROVE Cleaned \in Meaning(reader, content[info])
      <3>1. raw = content[info]
        BY <1>2, <1>5, <1>7, <1>8, <1>12, <2>5, Zenon
      <3>2. QED  BY <1>1, <1>2, <1>8, <1>12, <3>1, DecidedRight, Zenon
    <2>6. reader = "credential" => private[info]
      BY <1>1, <1>9, Zenon DEF PathInv
    <2>7. ReadAsMeant'
      BY <1>1, <2>1, <2>5, <2>6, Zenon DEF ReadAsMeant
    <2>8. QED  BY <1>1, <2>2, <2>3, <2>4, <2>7, Zenon DEF FileInv
  <1>13. QED  BY <1>10, <1>11, <1>12, Zenon

\* The graph's size and time are compared: a file truncated under the reader is still
\* empty, and then the reader has nothing either, or has been written as a whole.
LEMMA RecheckKeeps ==
  ASSUME BoundsAssumption, FileInv, Recheck
  PROVE  FileInv'
  <1>1. /\ OwnerInv /\ OwnerInv' /\ reader \in Readers3 /\ reader' = reader /\ Room' = Room /\ pc = "recheck"
        /\ UNCHANGED <<entry, content, private, mtime, clock, writing, replaces, rewrites, basis>>
        /\ UNCHANGED <<raw, again, info, fd, opened, earlier>>
    BY OwnerRests, Zenon DEF Recheck, FileInv, Refuse, local
  <1>2. /\ fd \in File /\ content[fd] \in Seq(Byte) /\ content[fd] \in basis[fd] /\ raw \in Seq(Byte)
        /\ earlier \in Nat /\ earlier <= rewrites /\ rewrites \in Nat /\ again = <<>>
    BY <1>1, Zenon DEF FileInv, PathInv, OwnerInv, LocalInv
  <1>3. PathInv /\ BytesInv
    BY Zenon DEF FileInv
  <1>4. CASE Len(content[fd]) = Len(raw) /\ mtime[fd] = opened
    <2>1. pc' = "reread"
      BY <1>4, Zenon DEF Recheck
    <2>2. LocalInv'
      BY <1>1, <2>1, Zenon DEF FileInv, LocalInv
    <2>3. PathInv'
      BY <1>1, <1>3, <2>1, Zenon DEF PathInv
    <2>4. Prefix(again, content[fd])
      <3>1. again \in Seq(Byte) /\ Len(again) <= 0
        BY <1>2
      <3>2. QED  BY <1>2, <3>1, EmptyPrefix, Zenon
    <2>5. content[fd] = <<>> => raw \in basis[fd]
      <3>1. content[fd] = <<>> => Len(raw) <= 0
        BY <1>2, <1>4
      <3>2. QED  BY <1>2, <3>1, EmptyPrefix, Zenon
    <2>6. rewrites <= earlier + 1 => raw \in basis[fd] \/ (rewrites = earlier + 1 /\ content[fd] # <<>>)
      BY <1>1, <1>2, <1>3, <2>5 DEF BytesInv
    <2>7. rewrites = 0 => raw = content[fd]
      BY <1>1, <1>3, Zenon DEF BytesInv
    <2>8. BytesInv'
      BY <1>1, <2>1, <2>4, <2>6, <2>7, Zenon DEF BytesInv
    <2>9. ReadAsMeant' /\ GraphIsWhole'
      BY <2>1, Zenon DEF ReadAsMeant, GraphIsWhole
    <2>10. QED  BY <1>1, <2>2, <2>3, <2>8, <2>9, Zenon DEF FileInv
  <1>5. CASE ~(Len(content[fd]) = Len(raw) /\ mtime[fd] = opened)
    <2>1. pc' = "refused"
      BY <1>5, Zenon DEF Recheck, Refuse
    <2>2. LocalInv'
      BY <1>1, <2>1, Zenon DEF FileInv, LocalInv
    <2>3. PathInv' /\ BytesInv' /\ GraphIsWhole'
      BY <2>1 DEF PathInv, BytesInv, GraphIsWhole
    <2>4. rewrites # 0
      BY <1>1, <1>2, <1>3, <1>5, Zenon DEF BytesInv, OwnerInv
    <2>5. ReadAsMeant'
      BY <1>1, <2>1, <2>4, Zenon DEF ReadAsMeant
    <2>6. QED  BY <1>1, <2>2, <2>3, <2>5, Zenon DEF FileInv
  <1>6. QED  BY <1>4, <1>5, Zenon

\* A chunk of the second reading arrives.
LEMMA RereadChunkKeeps ==
  ASSUME BoundsAssumption, FileInv, RereadChunk
  PROVE  FileInv'
  <1>1. /\ OwnerInv /\ OwnerInv' /\ reader \in Readers3 /\ reader' = reader /\ Room' = Room /\ pc = "reread"
        /\ UNCHANGED <<entry, content, private, mtime, clock, writing, replaces, rewrites, basis>>
        /\ UNCHANGED <<pc, raw, info, fd, opened, earlier, value>>
    BY OwnerRests, Zenon DEF RereadChunk, FileInv
  <1>2. fd \in File /\ content[fd] \in Seq(Byte) /\ again \in Seq(Byte) /\ Len(again) <= Room
    BY <1>1, Zenon DEF FileInv, PathInv, OwnerInv, LocalInv
  <1>3. Len(again) < Len(content[fd]) /\ Len(again) # Room /\ Room \in Nat
    BY <1>1, <1>2 DEF RereadChunk, AtEnd, Room, BoundsAssumption
  <1>4. /\ again' \in Seq(Byte) /\ Len(again') = Len(again) + 1
        /\ Prefix(again, content[fd]) => Prefix(again', content[fd])
    <2>1. again' = Append(again, content[fd][Len(again) + 1])
      BY Zenon DEF RereadChunk
    <2>2. QED  BY <1>2, <1>3, <2>1, Grown, Zenon
  <1>5. Len(again') <= Room
    BY <1>2, <1>3, <1>4
  <1>6. LocalInv'
    BY <1>1, <1>4, <1>5, Zenon DEF FileInv, LocalInv
  <1>7. PathInv'
    BY <1>1, Zenon DEF FileInv, PathInv
  <1>8. BytesInv'
    <2>1. rewrites <= earlier + 1 =>
            raw \in basis[fd] \/ (rewrites = earlier + 1 /\ content[fd] # <<>> /\ Prefix(again', content[fd]))
      BY <1>1, <1>4, Zenon DEF FileInv, BytesInv
    <2>2. rewrites = 0 => raw = content[fd] /\ Prefix(again', content[fd])
      BY <1>1, <1>4, Zenon DEF FileInv, BytesInv
    <2>3. QED  BY <1>1, <2>1, <2>2, Zenon DEF BytesInv
  <1>9. ReadAsMeant' /\ GraphIsWhole'
    BY <1>1 DEF ReadAsMeant, GraphIsWhole
  <1>10. QED  BY <1>1, <1>6, <1>7, <1>8, <1>9, Zenon DEF FileInv

\* The readings are compared: what both agree on is what the file held as a whole.
LEMMA EndOfRereadKeeps ==
  ASSUME BoundsAssumption, FileInv, EndOfReread
  PROVE  FileInv'
  <1>1. /\ OwnerInv /\ OwnerInv' /\ reader \in Readers3 /\ reader' = reader /\ Room' = Room /\ pc = "reread"
        /\ UNCHANGED <<entry, content, private, mtime, clock, writing, replaces, rewrites, basis>>
        /\ UNCHANGED <<raw, again, info, fd, opened, earlier>>
    BY OwnerRests, Zenon DEF EndOfReread, FileInv, Refuse, local
  <1>2. /\ fd \in File /\ fd = info /\ content[fd] \in Seq(Byte) /\ content[fd] \in basis[fd]
        /\ raw \in Seq(Byte) /\ again \in Seq(Byte) /\ Len(raw) <= Limit /\ Len(again) <= Room /\ reader = "graph"
    BY <1>1, Zenon DEF FileInv, PathInv, OwnerInv, LocalInv
  <1>3. Room \in Nat /\ Limit \in Nat /\ Room = Limit + 1
    BY <1>2 DEF Room, BoundsAssumption
  <1>4. Len(again) >= Len(content[fd]) \/ Len(again) = Room
    BY Zenon DEF EndOfReread, AtEnd
  <1>5. Prefix(again, content[fd]) /\ Len(again) < Room => again = content[fd]
    BY <1>2, <1>3, <1>4, Whole, Zenon
  <1>6. PathInv /\ BytesInv
    BY DEF FileInv
  <1>7. CASE again = raw
    <2>1. pc' = "accepted" /\ value' = raw
      BY <1>7, Zenon DEF EndOfReread
    <2>2. LocalInv'
      BY <1>1, <2>1, Zenon DEF FileInv, LocalInv
    <2>3. PathInv'
      BY <1>1, <1>6, <2>1, Zenon DEF PathInv
    <2>4. BytesInv'
      BY <2>1, Zenon DEF BytesInv
    <2>5. Len(again) < Room
      BY <1>2, <1>3, <1>7
    <2>6. rewrites <= earlier + 1 => raw \in basis[fd]
      BY <1>1, <1>2, <1>5, <1>6, <1>7, <2>5, Zenon DEF BytesInv
    <2>7. rewrites = 0 => raw \in Meaning(reader, content[info])
      <3>1. rewrites = 0 => raw = content[info]
        BY <1>1, <1>2, <1>6, Zenon DEF BytesInv
      <3>2. raw \in Meaning(reader, raw)
        BY <1>2, Zenon DEF Meaning
      <3>3. QED  BY <3>1, <3>2, Zenon
    <2>8. ReadAsMeant' /\ GraphIsWhole'
      BY <1>1, <1>2, <2>1, <2>6, <2>7, Zenon DEF ReadAsMeant, GraphIsWhole
    <2>9. QED  BY <1>1, <2>2, <2>3, <2>4, <2>8, Zenon DEF FileInv
  <1>8. CASE again # raw
    <2>1. pc' = "refused"
      BY <1>8, Zenon DEF EndOfReread, Refuse
    <2>2. LocalInv'
      BY <1>1, <2>1, Zenon DEF FileInv, LocalInv
    <2>3. PathInv' /\ BytesInv' /\ GraphIsWhole'
      BY <2>1, Zenon DEF PathInv, BytesInv, GraphIsWhole
    <2>4. ASSUME rewrites = 0  PROVE FALSE
      <3>1. raw = content[fd] /\ Prefix(again, content[fd])
        BY <1>1, <1>6, <2>4, Zenon DEF BytesInv
      <3>2. Len(again) < Room
        BY <1>2, <1>3, <3>1 DEF Prefix
      <3>3. QED  BY <1>5, <1>8, <3>1, <3>2, Zenon
    <2>5. ReadAsMeant'
      BY <1>1, <2>1, <2>4, Zenon DEF ReadAsMeant
    <2>6. QED  BY <1>1, <2>2, <2>3, <2>5, Zenon DEF FileInv
  <1>9. QED  BY <1>7, <1>8, Zenon

\* The next start begins with nothing.
LEMMA RepeatKeeps ==
  ASSUME BoundsAssumption, FileInv, Repeat
  PROVE  FileInv'
  <1>1. /\ OwnerInv' /\ reader \in Readers3 /\ reader' = reader /\ Room' = Room
        /\ pc' = "inspect" /\ raw' = <<>> /\ again' = <<>>
    BY OwnerRests, Zenon DEF Repeat
  <1>2. LocalInv'
    <2>1. <<>> \in Seq(Byte) /\ Len(<<>>) <= Room
      BY DEF Room, BoundsAssumption
    <2>2. QED  BY <1>1, <2>1, Zenon DEF LocalInv
  <1>3. PathInv' /\ BytesInv' /\ ReadAsMeant' /\ GraphIsWhole'
    BY <1>1, Zenon DEF PathInv, BytesInv, ReadAsMeant, GraphIsWhole
  <1>4. QED  BY <1>1, <1>2, <1>3, Zenon DEF FileInv

\* Before the first step the reader has nothing and every file is whole.
LEMMA FileInvInitially ==
  ASSUME BoundsAssumption, ContentsAssumption, Init
  PROVE  FileInv
  <1> USE DEF Init
  <1>1. content \in [File -> Seq(Byte)] /\ reader \in Readers3 /\ 1 \in File
    BY DEF ContentsAssumption, File, BoundsAssumption, Readers3
  <1>2. OwnerInv
    <2>1. basis \in [File -> SUBSET Seq(Byte)] /\ \A f \in File : content[f] \in basis[f]
      BY <1>1
    <2>2. mtime \in [File -> Nat] /\ \A f \in File : mtime[f] = 0
      OBVIOUS
    <2>3. replaces \in 0..MaxReplace /\ rewrites \in Nat /\ clock \in Nat
      BY DEF BoundsAssumption
    <2>4. entry \in [file : File, link : BOOLEAN] /\ entry.file = replaces + 1
      BY <1>1
    <2>5. QED  BY <1>1, <2>1, <2>2, <2>3, <2>4, Zenon DEF OwnerInv
  <1>3. LocalInv
    <2>1. <<>> \in Seq(Byte) /\ Len(<<>>) <= Room
      BY DEF Room, BoundsAssumption
    <2>2. QED  BY <1>1, <2>1, Zenon DEF LocalInv
  <1>4. PathInv /\ BytesInv /\ ReadAsMeant /\ GraphIsWhole
    BY Zenon DEF PathInv, BytesInv, ReadAsMeant, GraphIsWhole
  <1>5. QED  BY <1>2, <1>3, <1>4, Zenon DEF FileInv

\* A step of somebody else changes nothing here.
LEMMA NothingKeeps ==
  ASSUME FileInv, UNCHANGED vars
  PROVE  FileInv'
  <1>1. OwnerInv' /\ LocalInv'
    BY Zenon DEF FileInv, OwnerInv, LocalInv, Room, vars, owner, local
  <1>2. PathInv' /\ BytesInv'
    BY Zenon DEF FileInv, PathInv, BytesInv, vars, owner, local
  <1>3. ReadAsMeant' /\ GraphIsWhole'
    BY Zenon DEF FileInv, ReadAsMeant, GraphIsWhole, vars, owner, local
  <1>4. QED  BY <1>1, <1>2, <1>3, Zenon DEF FileInv

\* The inductive invariant holds in every behaviour, for all contents, limits and
\* numbers of renames and rewrites.
THEOREM FileInvariance == ContentsAssumption /\ BoundsAssumption => (Spec => []FileInv)
  <1> SUFFICES ASSUME ContentsAssumption, BoundsAssumption  PROVE Spec => []FileInv
    OBVIOUS
  <1>1. Init => FileInv
    BY FileInvInitially
  <1>2. FileInv /\ [Next]_vars => FileInv'
    <2> SUFFICES ASSUME FileInv, [Next]_vars  PROVE FileInv'
      OBVIOUS
    <2>1. CASE Replace \/ Truncate \/ WriteRest \/ Tick
      BY <2>1, ReplaceKeeps, TruncateKeeps, WriteRestKeeps, TickKeeps
    <2>2. CASE Inspect \/ Open \/ Compare \/ Repeat
      BY <2>2, InspectKeeps, OpenKeeps, CompareKeeps, RepeatKeeps
    <2>3. CASE ReadChunk \/ EndOfRead
      BY <2>3, ReadChunkKeeps, EndOfReadKeeps, Zenon
    <2>4. CASE Recheck \/ RereadChunk \/ EndOfReread
      BY <2>4, RecheckKeeps, RereadChunkKeeps, EndOfRereadKeeps, Zenon
    <2>5. CASE UNCHANGED vars
      BY <2>5, NothingKeeps
    <2>6. QED  BY <2>1, <2>2, <2>3, <2>4, <2>5, Zenon DEF Next
  <1>3. QED  BY <1>1, <1>2, PTL DEF Spec

\* readCredential, readBoundedFile and the graph reader of the dependency check accept
\* a file nobody rewrites exactly when its bytes have a meaning, and with it.
THEOREM ReadAsMeantHolds == ContentsAssumption /\ BoundsAssumption => (Spec => []ReadAsMeant)
  <1> SUFFICES ASSUME ContentsAssumption, BoundsAssumption  PROVE Spec => []ReadAsMeant
    OBVIOUS
  <1>1. Spec => []FileInv
    BY FileInvariance, Zenon
  <1>2. FileInv => ReadAsMeant
    BY Zenon DEF FileInv
  <1>3. QED  BY <1>1, <1>2, PTL

\* The package graph that check-go-dependency-boundary.go accepts is one the file held
\* as a whole, when it was rewritten at most once under the reader.
THEOREM GraphIsWholeHolds == ContentsAssumption /\ BoundsAssumption => (Spec => []GraphIsWhole)
  <1> SUFFICES ASSUME ContentsAssumption, BoundsAssumption  PROVE Spec => []GraphIsWhole
    OBVIOUS
  <1>1. Spec => []FileInv
    BY FileInvariance
  <1>2. FileInv => GraphIsWhole
    BY Zenon DEF FileInv
  <1>3. QED  BY <1>1, <1>2, PTL

-----------------------------------------------------------------------------
(* Types *)

TypeInv == TypeOK /\ (writing # NoWrite => writing.bytes \in Contents)

\* The types of a step: what the owner writes is a content, and what the reader has
\* inspected and opened is a file.
LEMMA TypeStep ==
  ASSUME ContentsAssumption, FileInv, FileInv', TypeInv, [Next]_vars
  PROVE  TypeInv'
  <1>1. /\ entry' \in [file : File, link : BOOLEAN]
        /\ pc' \in {"inspect", "open", "compare", "read", "recheck", "reread", "accepted", "refused"}
        /\ Len(raw') <= Room' /\ Len(again') <= Room'
    BY Zenon DEF FileInv, OwnerInv, LocalInv
  <1>2. /\ content \in [File -> Contents \cup {<<>>}] /\ info \in {0} \cup File /\ fd \in {0} \cup File
        /\ writing # NoWrite => writing.bytes \in Contents
        /\ entry.file \in File
    BY Zenon DEF FileInv, OwnerInv, TypeInv, TypeOK
  <1>3. CASE Truncate
    <2>1. content' \in [File -> Contents \cup {<<>>}] /\ info' \in {0} \cup File /\ fd' \in {0} \cup File
      BY Zenon, <1>2, <1>3 DEF Truncate, local
    <2>2. writing'.bytes \in Contents
      BY <1>3 DEF Truncate, ContentsAssumption
    <2>3. QED  BY <1>1, <2>1, <2>2 DEF TypeInv, TypeOK
  <1>4. CASE WriteRest
    <2>1. content' \in [File -> Contents \cup {<<>>}] /\ info' \in {0} \cup File /\ fd' \in {0} \cup File
      BY Zenon, <1>2, <1>4 DEF WriteRest, local
    <2>2. writing' = NoWrite
      BY <1>4 DEF WriteRest
    <2>3. QED  BY <1>1, <2>1, <2>2 DEF TypeInv, TypeOK
  <1>5. CASE UNCHANGED <<content, writing>>
    <2>1. info' \in {info, entry.file, 0} /\ fd' \in {fd, entry.file, 0}
      BY <1>5, Zenon DEF Next, Replace, Truncate, WriteRest, Tick, Inspect, Open, Compare, ReadChunk, EndOfRead,
         Recheck, RereadChunk, EndOfReread, Repeat, Refuse, vars, local
    <2>2. QED  BY <1>1, <1>2, <1>5, <2>1, Zenon DEF TypeInv, TypeOK
  <1>6. Truncate \/ WriteRest \/ UNCHANGED <<content, writing>>
    BY Zenon DEF Next, Replace, Tick, Inspect, Open, Compare, ReadChunk, EndOfRead, Recheck, RereadChunk,
       EndOfReread, Repeat, vars, owner
  <1>7. QED  BY <1>3, <1>4, <1>5, <1>6, Zenon

\* Every variable of the reader and the owner keeps its type; no reader takes more
\* bytes than its LimitReader has room for.
THEOREM TypeCorrect == ContentsAssumption /\ BoundsAssumption => (Spec => []TypeOK)
  <1> SUFFICES ASSUME ContentsAssumption, BoundsAssumption  PROVE Spec => []TypeOK
    OBVIOUS
  <1>1. Spec => []FileInv
    BY FileInvariance
  <1>2. Init => TypeInv
    <2> SUFFICES ASSUME Init  PROVE TypeInv
      OBVIOUS
    <2>1. OwnerInv /\ LocalInv
      BY FileInvInitially DEF FileInv
    <2>2. content \in [File -> Contents \cup {<<>>}]
      BY DEF Init
    <2>3. QED  BY <2>1, <2>2, Zenon DEF Init, TypeInv, TypeOK, OwnerInv, LocalInv
  <1>3. FileInv /\ FileInv' /\ TypeInv /\ [Next]_vars => TypeInv'
    BY TypeStep
  <1>4. TypeInv => TypeOK
    BY DEF TypeInv
  <1>5. QED  BY <1>1, <1>2, <1>3, <1>4, PTL DEF Spec
=============================================================================
