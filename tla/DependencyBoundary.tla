------------------------- MODULE DependencyBoundary -------------------------
(***************************************************************************)
(* scripts/check-go-dependency-boundary.go: no selected package lies under *)
(* the forbidden one, and no source file imports or is a removed helper.   *)
(* The source tree is walked first, then the package graph is decoded,     *)
(* each as far as the flags ask for; entries and records are chosen as the *)
(* program meets them.  (How the graph file is opened and read is in       *)
(* CheckedFile.)                                                           *)
(***************************************************************************)
EXTENDS Naturals, Sequences, FiniteSets

CONSTANTS
  MaxFiles,     \* the limit of Go files (4096 in the code)
  MaxEntries,   \* bound: entries of the source tree
  MaxRecords    \* bound: records of the package graph

DependencyBoundaryAssumption ==
  MaxFiles \in Nat /\ MaxEntries \in Nat /\ MaxRecords \in Nat

\* An import path is a sequence of elements, here with the forbidden package,
\* one below it and one whose name only begins like it.
forbiddenOpenPGPPackage == <<"crypto", "openpgp">>
ImportPath == {<<"crypto", "openpgp">>, <<"crypto", "openpgp", "packet">>, <<"crypto", "openpgpx">>, <<"fmt">>}

\* A record: it decodes; the path has no character outside printable ASCII and
\* no space; what follows in brackets is absent, a test context or malformed;
\* it reports no error.
Record == [decodes : BOOLEAN, plain : BOOLEAN, suffix : {"none", "test", "malformed"},
           path : ImportPath, healthy : BOOLEAN]

\* An entry of the source tree below the root, outside .git; "unread" stands for
\* one, a directory included, that WalkDir reports an error for.
Entry == [kind : {"file", "symlink", "device", "unread"}, goExt : BOOLEAN, small : BOOLEAN, parses : BOOLEAN,
          legacy : BOOLEAN, badImport : BOOLEAN]

\* Entries and records that differ from a clean one in one respect.
CleanEntry == [kind |-> "file", goExt |-> TRUE, small |-> TRUE, parses |-> TRUE, legacy |-> FALSE, badImport |-> FALSE]
Near(x, X) == {y \in X : Cardinality({f \in DOMAIN x : x[f] # y[f]}) <= 1}

CleanRecord == [decodes |-> TRUE, plain |-> TRUE, suffix |-> "none", path |-> <<"fmt">>, healthy |-> TRUE]
Records == Near(CleanRecord, Record)
  \cup {[CleanRecord EXCEPT !.path = forbiddenOpenPGPPackage, !.suffix = "test"]}
Entries == Near(CleanEntry, Entry)
  \cup {[CleanEntry EXCEPT !.goExt = FALSE, !.kind = k] : k \in {"symlink", "unread"}}

VARIABLES
  flags,       \* [root, only : BOOLEAN, args : 0..2]
  rootIsDir,   \* the source root is a real directory
  pc,          \* source, graph, exit
  code,        \* exit code, or 3 while running
  files, badFiles,   \* Go files counted, violations found in them
  seen, badPackages, \* records decoded, forbidden ones among them
  entries, records   \* history: what was met

vars == <<flags, rootIsDir, pc, code, files, badFiles, seen, badPackages, entries, records>>

Flags == [root : BOOLEAN, only : BOOLEAN, args : 0..2]

TypeOK ==
  /\ flags \in Flags /\ rootIsDir \in BOOLEAN
  /\ pc \in {"source", "graph", "exit"}
  /\ code \in {0, 1, 3} /\ (code = 3) = (pc # "exit")
  /\ files <= MaxFiles /\ files <= Len(entries) /\ badFiles \in Nat
  /\ seen = Len(records) /\ badPackages \subseteq ImportPath

Init ==
  /\ flags \in Flags /\ rootIsDir \in BOOLEAN
  /\ pc = "source" /\ code = 3
  /\ files = 0 /\ badFiles = 0 /\ seen = 0 /\ badPackages = {}
  /\ entries = <<>> /\ records = <<>>

Exit(c) == pc' = "exit" /\ code' = c

-----------------------------------------------------------------------------
(* The source tree *)

\* Only Go files are looked at; a symbolic one, a special one, a large one, one
\* too many and one that does not parse end the walk, as an error of WalkDir does
\* whatever it is about.
Examined(e) == e.kind = "unread" \/ e.goExt

\* Mutant: the limit is noticed one file late.
EndsWalkLate(e) == e.kind # "file" \/ ~e.small \/ files > MaxFiles \/ ~e.parses

EndsWalk(e) == e.kind # "file" \/ ~e.small \/ files = MaxFiles \/ ~e.parses

Violations(e) == (IF e.legacy THEN 1 ELSE 0) + (IF e.badImport THEN 1 ELSE 0)

WalkEntry(e) ==
  /\ pc = "source" /\ flags.root /\ rootIsDir /\ Len(entries) < MaxEntries
  /\ entries' = Append(entries, e)
  /\ IF ~Examined(e) THEN UNCHANGED <<pc, code, files, badFiles>>
     ELSE IF EndsWalk(e) THEN Exit(1) /\ UNCHANGED <<files, badFiles>>
     ELSE files' = files + 1 /\ badFiles' = badFiles + Violations(e) /\ UNCHANGED <<pc, code>>
  /\ UNCHANGED <<flags, rootIsDir, seen, badPackages, records>>

SourceFails == flags.root /\ (~rootIsDir \/ files = 0 \/ badFiles > 0)

\* What the flags ask for after the walk: nothing more, or one graph.
EndOfWalk ==
  /\ pc = "source"
  /\ IF SourceFails THEN Exit(1)
     ELSE IF flags.only THEN Exit(IF flags.root /\ flags.args = 0 THEN 0 ELSE 1)
     ELSE IF flags.args # 1 THEN Exit(1)
     ELSE pc' = "graph" /\ UNCHANGED code
  /\ UNCHANGED <<flags, rootIsDir, files, badFiles, seen, badPackages, entries, records>>

-----------------------------------------------------------------------------
(* The package graph *)

\* A test context in brackets is cut off, anything else there refused.
Canonical(r) == r.plain /\ r.suffix # "malformed"

\* Mutant: the packages below the forbidden one are missed.
isForbiddenExactly(path) == path = forbiddenOpenPGPPackage

isForbidden(path) ==
  /\ Len(path) >= Len(forbiddenOpenPGPPackage)
  /\ \A i \in 1..Len(forbiddenOpenPGPPackage) : path[i] = forbiddenOpenPGPPackage[i]

DecodeRecord(r) ==
  /\ pc = "graph" /\ Len(records) < MaxRecords
  /\ records' = Append(records, r) /\ seen' = seen + 1
  /\ IF ~r.decodes \/ ~Canonical(r) \/ ~r.healthy
     THEN Exit(1) /\ UNCHANGED badPackages
     ELSE /\ badPackages' = IF isForbidden(r.path) THEN badPackages \cup {r.path} ELSE badPackages
          /\ UNCHANGED <<pc, code>>
  /\ UNCHANGED <<flags, rootIsDir, files, badFiles, entries>>

EndOfGraph ==
  /\ pc = "graph"
  /\ Exit(IF seen = 0 \/ badPackages # {} THEN 1 ELSE 0)
  /\ UNCHANGED <<flags, rootIsDir, files, badFiles, seen, badPackages, entries, records>>

\* The next build runs the program again.
Again ==
  /\ pc = "exit"
  /\ pc' = "source" /\ code' = 3
  /\ files' = 0 /\ badFiles' = 0 /\ seen' = 0 /\ badPackages' = {}
  /\ entries' = <<>> /\ records' = <<>>
  /\ UNCHANGED <<flags, rootIsDir>>

Next ==
  \/ \E e \in Entries : WalkEntry(e)
  \/ EndOfWalk
  \/ \E r \in Records : DecodeRecord(r)
  \/ EndOfGraph \/ Again

Spec == Init /\ [][Next]_vars

-----------------------------------------------------------------------------
(* Properties *)

\* The Go files, and what WalkDir could not read.
GoFiles == {i \in DOMAIN entries : entries[i].kind = "unread" \/ entries[i].goExt}

CleanTree ==
  /\ rootIsDir /\ GoFiles # {} /\ Cardinality(GoFiles) <= MaxFiles
  /\ \A i \in GoFiles : entries[i] = CleanEntry

CleanGraph ==
  /\ records # <<>>
  /\ \A i \in DOMAIN records :
       LET r == records[i]
       IN  /\ r.decodes /\ r.plain /\ r.suffix # "malformed" /\ r.healthy
           /\ r.path \notin {<<"crypto", "openpgp">>, <<"crypto", "openpgp", "packet">>}

\* The build passes exactly when something was asked for and all of it is
\* clean: a source tree that was walked, a graph that was decoded to its end,
\* or both.  An empty tree, an empty graph and an error halfway never pass.
PassIsClean ==
  pc = "exit" =>
    (code = 0 <=>
       /\ flags.root => CleanTree
       /\ IF flags.only THEN flags.root /\ flags.args = 0 ELSE flags.args = 1 /\ CleanGraph)
=============================================================================
