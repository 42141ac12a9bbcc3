---------------------------- MODULE ReleaseProofs ----------------------------
(***************************************************************************)
(* The two release checks pass exactly what they should:                   *)
(* check-go-dependency-boundary.go (DependencyBoundary) and                *)
(* govuln-policy.go (VulnPolicy, the instance Policy).  Both programs keep *)
(* counters instead of what they read; the inductive invariants relate the *)
(* counters to the history, and say that the program has exited as soon as *)
(* the history holds something it refuses.                                 *)
(***************************************************************************)
EXTENDS DependencyBoundary, FiniteSetTheorems, TLAPS

-----------------------------------------------------------------------------
(* The dependency boundary *)

\* A file that does not end the walk, and one that is not reported.
Kept(e) == e.kind = "file" /\ e.small /\ e.parses
Unreported(e) == ~e.legacy /\ ~e.badImport

WalkInv ==
  /\ files = Cardinality(GoFiles) /\ IsFiniteSet(GoFiles) /\ files \in Nat /\ files <= MaxFiles
  /\ badFiles \in Nat
  /\ \A i \in GoFiles : Kept(entries[i])
  /\ badFiles = 0 <=> \A i \in GoFiles : Unreported(entries[i])

\* A record that does not end the program.
Healthy(r) == r.decodes /\ r.plain /\ r.suffix # "malformed" /\ r.healthy
ForbiddenPath == {<<"crypto", "openpgp">>, <<"crypto", "openpgp", "packet">>}

GraphInv ==
  /\ seen = Len(records)
  /\ \A i \in DOMAIN records : Healthy(records[i])
  /\ badPackages = {} <=> \A i \in DOMAIN records : records[i].path \notin ForbiddenPath

BoundaryInv ==
  /\ flags \in Flags /\ rootIsDir \in BOOLEAN /\ pc \in {"source", "graph", "exit"}
  /\ entries \in Seq(Entry) /\ records \in Seq(Record)
  /\ pc = "source" => WalkInv /\ records = <<>> /\ seen = 0 /\ badPackages = {}
  /\ pc = "graph" => GraphInv /\ ~flags.only /\ flags.args = 1 /\ (flags.root => CleanTree)
  /\ PassIsClean

\* Two counts, and their sum is zero only when both are.
LEMMA Sums ==
  /\ 0 \in Nat /\ \A n \in Nat : 0 <= n
  /\ \A a, b \in Nat : a + b \in Nat /\ (a + b = 0 <=> a = 0 /\ b = 0)
  OBVIOUS

\* What the walk and the decoder are given are entries and records.
LEMMA Met == Entries \subseteq Entry /\ Records \subseteq Record
  <1>1. /\ CleanEntry \in Entry
        /\ \A k \in {"symlink", "unread"} : [CleanEntry EXCEPT !.goExt = FALSE, !.kind = k] \in Entry
    BY Zenon DEF CleanEntry, Entry
  <1>2. [CleanRecord EXCEPT !.path = forbiddenOpenPGPPackage, !.suffix = "test"] \in Record
    BY Zenon DEF CleanRecord, Record, ImportPath, forbiddenOpenPGPPackage
  <1>3. QED  BY <1>1, <1>2, Zenon DEF Entries, Records, Near

\* A Go file is clean exactly when it neither ends the walk nor is reported
\* (inspectSourceImports).
LEMMA CleanIsAll ==
  ASSUME NEW e \in Entry, Examined(e)
  PROVE  e = CleanEntry <=> Kept(e) /\ Unreported(e)
  BY DEF Entry, CleanEntry, Kept, Unreported, Examined

\* The test for forbidden packages finds the package itself and those below
\* it, not one whose name only begins like it (isForbidden).
LEMMA ForbiddenIsBelow ==
  ASSUME NEW p \in ImportPath
  PROVE  isForbidden(p) <=> p \in ForbiddenPath
  <1>1. CASE p = <<"fmt">>
    BY <1>1 DEF isForbidden, ForbiddenPath, forbiddenOpenPGPPackage
  <1>2. CASE p = <<"crypto", "openpgp">>
    BY <1>2 DEF isForbidden, ForbiddenPath, forbiddenOpenPGPPackage
  <1>3. CASE p = <<"crypto", "openpgpx">>
    BY <1>3 DEF isForbidden, ForbiddenPath, forbiddenOpenPGPPackage
  <1>4. CASE p = <<"crypto", "openpgp", "packet">>
    BY <1>4 DEF isForbidden, ForbiddenPath, forbiddenOpenPGPPackage
  <1>5. QED  BY <1>1, <1>2, <1>3, <1>4 DEF ImportPath

\* What the history holds after one more entry or record.
LEMMA Longer ==
  ASSUME NEW S, NEW s \in Seq(S), NEW x \in S, NEW t, t = Append(s, x)
  PROVE  /\ t \in Seq(S) /\ Len(t) = Len(s) + 1 /\ Len(s) \in Nat
         /\ DOMAIN t = DOMAIN s \cup {Len(s) + 1} /\ Len(s) + 1 \notin DOMAIN s
         /\ \A i \in DOMAIN s : t[i] = s[i]
         /\ t[Len(s) + 1] = x /\ t # <<>>
  OBVIOUS

\* Meeting an entry keeps the invariant: the Go files are counted one by one,
\* and one that ends the walk makes the tree unclean (inspectSourceImports).
LEMMA WalkEntryKeeps ==
  ASSUME DependencyBoundaryAssumption, BoundaryInv, NEW e \in Entries, WalkEntry(e)
  PROVE  BoundaryInv'
  <1> DEFINE n == Len(entries) + 1
  <1>1. /\ pc = "source" /\ flags.root /\ WalkInv /\ entries \in Seq(Entry) /\ e \in Entry
        /\ entries' = Append(entries, e) /\ UNCHANGED <<flags, rootIsDir, seen, badPackages, records>>
    BY Met, Zenon DEF BoundaryInv, WalkEntry
  <1>2. /\ entries' \in Seq(Entry) /\ DOMAIN entries' = DOMAIN entries \cup {n} /\ n \notin DOMAIN entries
        /\ \A i \in DOMAIN entries : entries'[i] = entries[i]
        /\ entries'[n] = e
    BY <1>1, Longer
  <1> HIDE DEF n
  <1>3. GoFiles' = IF Examined(e) THEN GoFiles \cup {n} ELSE GoFiles
    BY <1>2, Zenon DEF GoFiles, Examined
  <1>4. n \notin GoFiles /\ \A i \in GoFiles : entries'[i] = entries[i]
    BY <1>2, Zenon DEF GoFiles
  <1>5. CASE ~Examined(e)
    <2>1. GoFiles' = GoFiles /\ UNCHANGED <<pc, code, files, badFiles>>
      BY <1>3, <1>5, Zenon DEF WalkEntry
    <2>2. WalkInv'
      BY <1>1, <1>4, <2>1, Zenon DEF WalkInv
    <2>3. QED  BY <1>1, <1>2, <2>1, <2>2, Zenon DEF BoundaryInv, PassIsClean
  <1>6. \/ /\ GoFiles \cup {n} = GoFiles' /\ IsFiniteSet(GoFiles') /\ Cardinality(GoFiles') = files + 1
           /\ n \in GoFiles'
        \/ ~Examined(e)
    BY <1>1, <1>3, <1>4, FS_AddElement, Zenon DEF WalkInv
  <1>7. CASE Examined(e) /\ EndsWalk(e)
    <2>1. pc' = "exit" /\ code' = 1
      BY <1>7, Zenon DEF WalkEntry, Exit
    <2>2. ~CleanTree'
      <3>1. CASE files = MaxFiles
        <4>1. ~(Cardinality(GoFiles') <= MaxFiles)
          BY <1>1, <1>6, <1>7, <3>1 DEF WalkInv, DependencyBoundaryAssumption
        <4>2. QED  BY <4>1 DEF CleanTree
      <3>2. CASE ~Kept(e)
        <4>1. entries'[n] # CleanEntry
          BY <1>2, <3>2 DEF CleanEntry, Kept
        <4>2. QED  BY <1>6, <1>7, <4>1, Zenon DEF CleanTree
      <3>3. QED  BY <1>7, <3>1, <3>2 DEF EndsWalk, Kept
    <2>3. flags' = flags /\ flags.root
      BY <1>1
    <2>4. PassIsClean'
      BY <2>1, <2>2, <2>3 DEF PassIsClean
    <2>5. QED  BY <1>1, <1>2, <2>1, <2>4, Zenon DEF BoundaryInv
  <1>8. CASE Examined(e) /\ ~EndsWalk(e)
    <2>1. files' = files + 1 /\ badFiles' = badFiles + Violations(e) /\ UNCHANGED <<pc, code>>
      BY <1>8, Zenon DEF WalkEntry
    <2>2. Kept(e) /\ files # MaxFiles
      BY <1>8, Zenon DEF EndsWalk, Kept
    <2>3. Violations(e) \in Nat /\ (Violations(e) = 0 <=> Unreported(e))
      BY <1>1 DEF Violations, Unreported, Entry
    <2>4. files' = Cardinality(GoFiles') /\ IsFiniteSet(GoFiles') /\ files' \in Nat /\ files' <= MaxFiles
      BY <1>1, <1>6, <1>8, <2>1, <2>2 DEF WalkInv, DependencyBoundaryAssumption
    <2>5. \A i \in GoFiles' : Kept(entries'[i])
      BY <1>1, <1>2, <1>4, <1>6, <1>8, <2>2, Zenon DEF WalkInv
    <2>6. (\A i \in GoFiles' : Unreported(entries'[i]))
            <=> (\A i \in GoFiles : Unreported(entries[i])) /\ Unreported(e)
      BY <1>2, <1>4, <1>6, <1>8, Zenon
    <2>7. badFiles' \in Nat /\ (badFiles' = 0 <=> badFiles = 0 /\ Violations(e) = 0)
      BY <1>1, <2>1, <2>3, Sums, Zenon DEF WalkInv
    <2>8. WalkInv'
      BY <1>1, <2>3, <2>4, <2>5, <2>6, <2>7, Zenon DEF WalkInv
    <2>9. QED  BY <1>1, <1>2, <2>1, <2>8 DEF BoundaryInv, PassIsClean
  <1>9. QED  BY <1>5, <1>7, <1>8, Zenon

\* At the end of the walk the counters say whether the tree is clean
\* (enforceSourceImports).
LEMMA TreeIsClean ==
  ASSUME BoundaryInv, pc = "source", flags.root
  PROVE  CleanTree <=> ~SourceFails
  <1>1. WalkInv /\ entries \in Seq(Entry)
    BY Zenon DEF BoundaryInv
  <1>2. \A i \in GoFiles : entries[i] \in Entry /\ Examined(entries[i])
    BY <1>1 DEF GoFiles, Examined
  <1>3. \A i \in GoFiles : entries[i] = CleanEntry <=> Unreported(entries[i])
    BY <1>1, <1>2, CleanIsAll, Zenon DEF WalkInv
  <1>4. files = 0 <=> GoFiles = {}
    BY <1>1, FS_EmptySet DEF WalkInv
  <1>5. QED  BY <1>1, <1>3, <1>4 DEF WalkInv, SourceFails, CleanTree

\* After the walk the program exits as the flags ask, or goes on to the graph
\* with a clean tree or none (main).
LEMMA EndOfWalkKeeps ==
  ASSUME BoundaryInv, EndOfWalk
  PROVE  BoundaryInv'
  <1>1. /\ pc = "source" /\ flags \in Flags
        /\ UNCHANGED <<flags, rootIsDir, files, badFiles, seen, badPackages, entries, records>>
    BY Zenon DEF EndOfWalk, BoundaryInv
  <1>2. CleanTree' = CleanTree /\ CleanGraph' = CleanGraph
    BY <1>1 DEF CleanTree, CleanGraph, GoFiles
  <1>3. flags.root => (CleanTree <=> ~SourceFails)
    BY <1>1, TreeIsClean, Zenon
  <1>4. SourceFails => flags.root
    BY Zenon DEF SourceFails
  <1>5. CASE pc' = "graph" /\ ~SourceFails /\ ~flags.only /\ flags.args = 1
    <2>1. GraphInv'
      BY <1>1 DEF BoundaryInv, GraphInv
    <2>2. QED  BY <1>1, <1>2, <1>3, <1>5, <2>1, Zenon DEF BoundaryInv, PassIsClean
  <1>6. CASE /\ pc' = "exit"
             /\ code' = 0 <=> ~SourceFails /\ flags.only /\ flags.root /\ flags.args = 0
             /\ SourceFails \/ flags.only \/ flags.args # 1
    <2>1. PassIsClean'
      BY <1>1, <1>2, <1>3, <1>4, <1>6, Zenon DEF PassIsClean
    <2>2. QED  BY <1>1, <1>6, <2>1, Zenon DEF BoundaryInv
  <1>7. QED
    <2>1. CASE SourceFails
      BY <1>6, <2>1 DEF EndOfWalk, Exit
    <2>2. CASE ~SourceFails /\ flags.only
      BY <1>6, <2>2 DEF EndOfWalk, Exit
    <2>3. CASE ~SourceFails /\ ~flags.only /\ flags.args # 1
      BY <1>6, <2>3 DEF EndOfWalk, Exit
    <2>4. CASE ~SourceFails /\ ~flags.only /\ flags.args = 1
      BY <1>5, <2>4, Zenon DEF EndOfWalk
    <2>5. QED  BY <2>1, <2>2, <2>3, <2>4, Zenon

\* Decoding a record keeps the invariant: a malformed one ends the program and
\* makes the graph unclean, any other is looked up (inspect).
LEMMA DecodeRecordKeeps ==
  ASSUME BoundaryInv, NEW r \in Records, DecodeRecord(r)
  PROVE  BoundaryInv'
  <1> DEFINE n == Len(records) + 1
  <1>1. /\ pc = "graph" /\ GraphInv /\ ~flags.only /\ flags.args = 1 /\ (flags.root => CleanTree)
        /\ records \in Seq(Record) /\ r \in Record
        /\ records' = Append(records, r) /\ seen' = seen + 1
        /\ UNCHANGED <<flags, rootIsDir, files, badFiles, entries>>
    BY Met, Zenon DEF BoundaryInv, DecodeRecord
  <1>2. /\ records' \in Seq(Record) /\ Len(records') = Len(records) + 1
        /\ DOMAIN records' = DOMAIN records \cup {n} /\ \A i \in DOMAIN records : records'[i] = records[i] /\ i # n
        /\ records'[n] = r
    BY <1>1, Longer
  <1> HIDE DEF n
  <1>3. CleanTree' = CleanTree
    BY <1>1, Zenon DEF CleanTree, GoFiles
  <1>4. CASE ~Healthy(r)
    <2>1. pc' = "exit" /\ code' = 1
      BY <1>4, Zenon DEF DecodeRecord, Exit, Healthy, Canonical
    <2>2. ~CleanGraph'
      BY <1>2, <1>4, Zenon DEF CleanGraph, Healthy
    <2>3. PassIsClean'
      BY <1>1, <2>1, <2>2 DEF PassIsClean
    <2>4. QED  BY <1>1, <1>2, <2>1, <2>3, Zenon DEF BoundaryInv
  <1>5. CASE Healthy(r)
    <2>1. /\ UNCHANGED <<pc, code>>
          /\ badPackages' = IF isForbidden(r.path) THEN badPackages \cup {r.path} ELSE badPackages
      BY <1>5, Zenon DEF DecodeRecord, Healthy, Canonical
    <2>2. isForbidden(r.path) <=> r.path \in ForbiddenPath
      BY <1>1, ForbiddenIsBelow, Zenon DEF Record
    <2>3. badPackages' = {} <=> badPackages = {} /\ r.path \notin ForbiddenPath
      BY <2>1, <2>2, Zenon
    <2>4. GraphInv'
      <3>1. seen' = Len(records')
        BY <1>1, <1>2, Zenon DEF GraphInv
      <3>2. \A i \in DOMAIN records' : Healthy(records'[i])
        BY <1>1, <1>2, <1>5 DEF GraphInv
      <3>3. badPackages' = {} <=> \A i \in DOMAIN records' : records'[i].path \notin ForbiddenPath
        BY <1>1, <1>2, <2>3, Zenon DEF GraphInv
      <3>4. QED  BY <3>1, <3>2, <3>3, Zenon DEF GraphInv
    <2>5. QED  BY <1>1, <1>2, <1>3, <2>1, <2>4, Zenon DEF BoundaryInv, PassIsClean
  <1>6. QED  BY <1>4, <1>5, Zenon

\* At the end of the graph the verdict is the one of the property (enforce).
LEMMA EndOfGraphKeeps ==
  ASSUME BoundaryInv, EndOfGraph
  PROVE  BoundaryInv'
  <1>1. /\ pc = "graph" /\ GraphInv /\ ~flags.only /\ flags.args = 1 /\ (flags.root => CleanTree)
        /\ UNCHANGED <<flags, rootIsDir, files, badFiles, seen, badPackages, entries, records>>
        /\ pc' = "exit" /\ code' = IF seen = 0 \/ badPackages # {} THEN 1 ELSE 0
        /\ records \in Seq(Record)
    BY Zenon DEF BoundaryInv, EndOfGraph, Exit
  <1>2. CleanTree' = CleanTree /\ CleanGraph' = CleanGraph
    BY <1>1 DEF CleanTree, CleanGraph, GoFiles
  <1>3. seen = 0 <=> records = <<>>
    BY <1>1 DEF GraphInv
  <1>4. CleanGraph <=> seen # 0 /\ badPackages = {}
    BY <1>1, <1>3, Zenon DEF CleanGraph, GraphInv, Healthy, ForbiddenPath
  <1>5. PassIsClean'
    BY <1>1, <1>2, <1>4 DEF PassIsClean
  <1>6. QED  BY <1>1, <1>5, Zenon DEF BoundaryInv

\* An empty tree has no Go files (the state a build starts in).
LEMMA Fresh ==
  ASSUME NEW s, NEW k, s = <<>>, k = {i \in DOMAIN s : s[i].kind = "unread" \/ s[i].goExt}
  PROVE  k = {} /\ s \in Seq(Entry) /\ s \in Seq(Record) /\ IsFiniteSet(k) /\ Cardinality(k) = 0
  <1>1. k = {} /\ s \in Seq(Entry) /\ s \in Seq(Record)
    OBVIOUS
  <1>2. QED  BY <1>1, FS_EmptySet, Zenon

\* The invariant of the boundary check is inductive.
THEOREM BoundaryInvariance == DependencyBoundaryAssumption => (Spec => []BoundaryInv)
  <1> SUFFICES ASSUME DependencyBoundaryAssumption  PROVE Spec => []BoundaryInv
    OBVIOUS
  <1>1. Init => BoundaryInv
    BY Fresh DEF Init, BoundaryInv, WalkInv, GoFiles, PassIsClean, DependencyBoundaryAssumption
  <1>2. BoundaryInv /\ [Next]_vars => BoundaryInv'
    <2> SUFFICES ASSUME BoundaryInv, [Next]_vars  PROVE BoundaryInv'
      OBVIOUS
    <2>1. ASSUME NEW e \in Entries, WalkEntry(e)  PROVE BoundaryInv'
      BY <2>1, WalkEntryKeeps
    <2>2. CASE EndOfWalk
      BY <2>2, EndOfWalkKeeps
    <2>3. ASSUME NEW r \in Records, DecodeRecord(r)  PROVE BoundaryInv'
      BY <2>3, DecodeRecordKeeps, Zenon
    <2>4. CASE EndOfGraph
      BY <2>4, EndOfGraphKeeps
    <2>5. CASE Again
      <3>1. /\ GoFiles' = {} /\ IsFiniteSet(GoFiles') /\ Cardinality(GoFiles') = 0
            /\ entries' \in Seq(Entry) /\ records' \in Seq(Record)
        BY <2>5, Fresh DEF Again, GoFiles
      <3>2. WalkInv'
        BY <2>5, <3>1, Sums, Zenon DEF Again, WalkInv, DependencyBoundaryAssumption
      <3>3. QED  BY <2>5, <3>1, <3>2, Zenon DEF Again, BoundaryInv, PassIsClean
    <2>6. CASE UNCHANGED vars
      <3>1. GoFiles' = GoFiles /\ UNCHANGED vars
        BY <2>6, Zenon DEF vars, GoFiles
      <3>2. CleanTree' = CleanTree /\ CleanGraph' = CleanGraph
        BY <3>1, Zenon DEF vars, CleanTree, CleanGraph
      <3>3. WalkInv' = WalkInv /\ GraphInv' = GraphInv /\ PassIsClean' = PassIsClean
        BY <3>1, <3>2, ZenonT(60) DEF vars, WalkInv, GraphInv, PassIsClean
      <3>4. QED  BY <3>1, <3>2, <3>3, ZenonT(60) DEF vars, BoundaryInv
    <2>7. QED  BY <2>1, <2>2, <2>3, <2>4, <2>5, <2>6 DEF Next
  <1>3. QED  BY <1>1, <1>2, PTL DEF Spec

\* The build passes exactly when all that the flags ask for is clean, whatever
\* the limit of files and however large the tree and the graph are: the counts
\* of files, violations and packages lose nothing that the verdict depends on
\* (scripts/check-go-dependency-boundary.go).
THEOREM PassIsCleanHolds == DependencyBoundaryAssumption => (Spec => []PassIsClean)
  <1> SUFFICES ASSUME DependencyBoundaryAssumption  PROVE Spec => []PassIsClean
    OBVIOUS
  <1>1. BoundaryInv => PassIsClean
    BY DEF BoundaryInv
  <1>2. QED  BY <1>1, BoundaryInvariance, PTL

-----------------------------------------------------------------------------
(* The vulnerability policy *)

CONSTANTS Osv, MaxLines, MaxMessages

VARIABLES policy, allowed, configCount, sbomCount, checkingProgress, reachable, verdict, lines, messages, taken

Policy == INSTANCE VulnPolicy WITH pc <- policy, code <- verdict

\* Nothing was read that ends the program at once.
FineLines == \A l \in Policy!Lines : l.kind # "other" /\ (l.kind = "entry" => lines[l] = 1)
FineMessages == \A m \in Policy!Messages : m.good \/ m.kind = "progress"

\* The one message of its kind that is fine.
Fine(kind) == [kind |-> kind, good |-> TRUE, id |-> "none", called |-> FALSE]

Counted(kind, n) == n = messages[Fine(kind)]

CountsOK == lines \in [Policy!Line -> Nat] /\ messages \in [Policy!Message -> Nat]

LinesInv == FineLines /\ allowed = Policy!Entries

ReportInv ==
  /\ FineMessages
  /\ Counted("config", configCount) /\ Counted("SBOM", sbomCount)
  /\ checkingProgress = (\E m \in Policy!Messages : m.kind = "progress" /\ m.good)
  /\ reachable = Policy!Called

PolicyInv ==
  /\ policy \in {"lines", "messages", "exit"} /\ CountsOK
  /\ policy # "exit" => LinesInv /\ ReportInv
  /\ Policy!PassIsExact

\* Reading a line or a message adds it to the history, or one more copy of it
\* (the loops of readAllowlist and readReachableFindings).
LEMMA LineAdded ==
  ASSUME CountsOK, NEW l \in Policy!Line, lines' = [lines EXCEPT ![l] = @ + 1]
  PROVE  /\ Policy!Lines' = Policy!Lines \cup {l} /\ lines' \in [Policy!Line -> Nat]
         /\ \A k \in Policy!Lines : k # l => lines'[k] = lines[k]
         /\ lines'[l] = IF l \in Policy!Lines THEN lines[l] + 1 ELSE 1
  BY DEF CountsOK, Policy!Lines

\* The same for a message.
LEMMA MessageAdded ==
  ASSUME CountsOK, NEW m \in Policy!Message, messages' = [messages EXCEPT ![m] = @ + 1]
  PROVE  /\ Policy!Messages' = Policy!Messages \cup {m} /\ messages' \in [Policy!Message -> Nat]
         /\ \A n \in Policy!Messages : n # m => messages'[n] = messages[n]
         /\ messages'[m] = IF m \in Policy!Messages THEN messages[m] + 1 ELSE 1
  BY DEF CountsOK, Policy!Messages

\* The history of one input stands while the other is read.
LEMMA LinesStand ==
  ASSUME UNCHANGED lines
  PROVE  Policy!Lines' = Policy!Lines /\ Policy!Entries' = Policy!Entries /\ FineLines' = FineLines
  BY DEF Policy!Lines, Policy!Entries, FineLines

\* The same for the messages, and with them for what was counted.
LEMMA MessagesStand ==
  ASSUME UNCHANGED messages
  PROVE  /\ Policy!Messages' = Policy!Messages /\ Policy!Called' = Policy!Called /\ FineMessages' = FineMessages
         /\ UNCHANGED Policy!counters => ReportInv' = ReportInv
  <1>1. Policy!Messages' = Policy!Messages
    BY DEF Policy!Messages
  <1>2. QED  BY <1>1, Zenon DEF Policy!Called, FineMessages, ReportInv, Counted, Policy!counters

\* Before the first line nothing is counted (main).
LEMMA NothingRead == \A S : {x \in S : [y \in S |-> 0][x] > 0} = {}
  OBVIOUS

\* A message of kind config or SBOM that does not end the program is the one
\* fine message of its kind (readReachableFindings).
LEMMA FineIsOne ==
  ASSUME NEW m \in Policy!Message, m.good, NEW kind \in {"config", "SBOM"}
  PROVE  m.kind = kind <=> m = Fine(kind)
  <1>1. m = Fine(kind) => m.kind = kind
    BY DEF Fine
  <1>2. ASSUME m.kind = kind  PROVE m = Fine(kind)
    <2>1. m \in [kind : {"config", "SBOM", "osv", "progress"}, good : BOOLEAN, id : {"none"}, called : {FALSE}]
      BY <1>2, Zenon DEF Policy!Message
    <2>2. m = [kind |-> m.kind, good |-> m.good, id |-> m.id, called |-> m.called]
      BY <2>1
    <2>3. m.good = TRUE /\ m.id = "none" /\ m.called = FALSE
      BY <2>1, Zenon
    <2>4. QED  BY <1>2, <2>2, <2>3 DEF Fine
  <1>3. QED  BY <1>1, <1>2, Zenon

\* The count of a kind is one exactly when one message of that kind was read
\* (configCount and sbomCount at the end of the report).
LEMMA CountIsOne ==
  ASSUME CountsOK, FineMessages, NEW kind \in {"config", "SBOM"}, NEW n, Counted(kind, n)
  PROVE  n = 1 <=> Policy!Once(kind)
  <1> DEFINE f == Fine(kind)
  <1>1. \A m \in Policy!Messages : m.kind = kind <=> m = f
    <2> SUFFICES ASSUME NEW m \in Policy!Messages  PROVE m.kind = kind <=> m = f
      OBVIOUS
    <2>1. m \in Policy!Message /\ (m.good \/ m.kind = "progress")
      BY Zenon DEF FineMessages, Policy!Messages
    <2>2. CASE m.good
      BY <2>1, <2>2, FineIsOne
    <2>3. CASE m.kind = "progress"
      BY <2>3 DEF Fine
    <2>4. QED  BY <2>1, <2>2, <2>3, Zenon
  <1>2. f \in Policy!Message /\ n = messages[f]
    BY Zenon DEF Counted, Fine, Policy!Message
  <1> HIDE DEF f
  <1>3. n \in Nat /\ (f \in Policy!Messages <=> n > 0)
    BY <1>2 DEF CountsOK, Policy!Messages
  <1>4. QED  BY <1>1, <1>2, <1>3 DEF Policy!Once

\* Reading a line keeps the invariant: what is refused, a second entry for an
\* identifier included, is refused by the property as well (readAllowlist).
LEMMA ReadLineKeeps ==
  ASSUME PolicyInv, NEW l \in Policy!Line, Policy!ReadLine(l)
  PROVE  PolicyInv'
  <1>1. policy = "lines" /\ CountsOK /\ FineLines /\ allowed = Policy!Entries /\ ReportInv
    BY Zenon DEF PolicyInv, LinesInv, Policy!ReadLine
  <1>2. lines' = [lines EXCEPT ![l] = @ + 1] /\ UNCHANGED <<Policy!counters, messages>>
    BY DEF Policy!ReadLine
  <1>3. /\ Policy!Lines' = Policy!Lines \cup {l} /\ lines' \in [Policy!Line -> Nat]
        /\ \A k \in Policy!Lines : k # l => lines'[k] = lines[k]
        /\ lines'[l] = IF l \in Policy!Lines THEN lines[l] + 1 ELSE 1
    BY <1>1, <1>2, LineAdded, Zenon
  <1>4. CountsOK' /\ ReportInv'
    BY <1>1, <1>2, <1>3, MessagesStand, Zenon DEF CountsOK
  <1>5. l.kind = "entry" => (l \in Policy!Lines <=> l.id \in allowed)
    <2> SUFFICES ASSUME l.kind = "entry", NEW k \in Policy!Lines, k.kind = "entry", k.id = l.id
                 PROVE  k = l
      BY <1>1, Zenon DEF Policy!Entries
    <2>1. \A j \in Policy!Line : j.kind = "entry" => j = [kind |-> "entry", id |-> j.id]
      BY DEF Policy!Line
    <2>2. QED  BY <2>1, Zenon DEF Policy!Lines
  <1>6. CASE l.kind = "blank" /\ UNCHANGED <<policy, verdict, allowed>>
    <2>1. FineLines' /\ Policy!Entries' = Policy!Entries
      BY <1>1, <1>3, <1>6, Zenon DEF FineLines, Policy!Entries
    <2>2. QED  BY <1>1, <1>4, <1>6, <2>1 DEF PolicyInv, LinesInv, Policy!PassIsExact
  <1>7. CASE /\ l.kind = "entry" /\ l.id \notin allowed
             /\ allowed' = allowed \cup {l.id} /\ UNCHANGED <<policy, verdict>>
    <2>1. l \notin Policy!Lines
      BY <1>5, <1>7, Zenon
    <2>2. FineLines'
      BY <1>1, <1>3, <1>7, <2>1, Zenon DEF FineLines
    <2>3. Policy!Entries' = Policy!Entries \cup {l.id}
      BY <1>3, <1>7, Zenon DEF Policy!Entries
    <2>4. QED  BY <1>1, <1>4, <1>7, <2>2, <2>3 DEF PolicyInv, LinesInv, Policy!PassIsExact
  <1>8. CASE (l.kind = "other" \/ (l.kind = "entry" /\ l.id \in allowed)) /\ Policy!Exit(2) /\ UNCHANGED allowed
    <2>1. l.kind = "other" \/ (l.kind = "entry" /\ l \in Policy!Lines)
      BY <1>5, <1>8, Zenon
    <2>2. l \in Policy!Lines => lines'[l] # 1
      BY <1>1, <1>3 DEF CountsOK, Policy!Lines
    <2>3. ~FineLines'
      BY <1>3, <2>1, <2>2 DEF FineLines
    <2>4. QED  BY <1>4, <1>8, <2>3 DEF PolicyInv, Policy!PassIsExact, FineLines, Policy!Exit
  <1>9. QED  BY <1>6, <1>7, <1>8, Zenon DEF Policy!ReadLine

\* Reading a message keeps the invariant: a broken one ends the program and
\* is refused by the property, any other is counted (readReachableFindings).
LEMMA ReadMessageKeeps ==
  ASSUME PolicyInv, NEW m \in Policy!Message, Policy!ReadMessage(m)
  PROVE  PolicyInv'
  <1>1. policy = "messages" /\ CountsOK /\ LinesInv /\ ReportInv
    BY Zenon DEF PolicyInv, Policy!ReadMessage
  <1>2. messages' = [messages EXCEPT ![m] = @ + 1] /\ UNCHANGED <<allowed, lines>>
    BY Zenon DEF Policy!ReadMessage
  <1>3. /\ Policy!Messages' = Policy!Messages \cup {m} /\ messages' \in [Policy!Message -> Nat]
        /\ \A n \in Policy!Messages : n # m => messages'[n] = messages[n]
        /\ messages'[m] = IF m \in Policy!Messages THEN messages[m] + 1 ELSE 1
    BY <1>1, <1>2, MessageAdded, Zenon
  <1>4. CountsOK' /\ LinesInv'
    BY <1>1, <1>2, <1>3, LinesStand, Zenon DEF CountsOK, LinesInv
  <1>5. CASE Policy!Broken(m)
    <2>1. ~FineMessages'
      BY <1>3, <1>5, Zenon DEF FineMessages, Policy!Broken
    <2>2. Policy!Exit(2)
      BY <1>5, Zenon DEF Policy!ReadMessage
    <2>3. QED  BY <1>4, <2>1, <2>2 DEF PolicyInv, Policy!PassIsExact, FineMessages, Policy!Exit
  <1>6. CASE ~Policy!Broken(m)
    <2>1. UNCHANGED <<policy, verdict>>
      BY <1>6, Zenon DEF Policy!ReadMessage
    <2>2. FineMessages'
      BY <1>1, <1>3, <1>6 DEF FineMessages, Policy!Broken, ReportInv
    <2>3. checkingProgress' = (\E n \in Policy!Messages' : n.kind = "progress" /\ n.good)
      <3>1. checkingProgress' = (checkingProgress \/ (m.kind = "progress" /\ m.good))
        BY Zenon DEF Policy!ReadMessage
      <3>2. QED  BY <1>1, <1>3, <3>1, Zenon DEF ReportInv
    <2>4. reachable' = Policy!Called'
      <3>1. reachable' = IF m.kind = "finding" /\ m.called THEN reachable \cup {m.id} ELSE reachable
        BY Zenon DEF Policy!ReadMessage
      <3>2. m.called => m.kind = "finding"
        BY Zenon DEF Policy!Message
      <3>3. Policy!Called' = IF m.called THEN Policy!Called \cup {m.id} ELSE Policy!Called
        BY <1>3, Zenon DEF Policy!Called
      <3>4. QED  BY <1>1, <3>1, <3>2, <3>3, Zenon DEF ReportInv
    <2>5. ASSUME NEW kind \in {"config", "SBOM"}, NEW n, NEW k, Counted(kind, n), k = n + Policy!Count(m, kind)
          PROVE  k = messages'[Fine(kind)]
      <3>1. m.kind = kind <=> m = Fine(kind)
        <4>1. CASE m.good
          BY <4>1, FineIsOne, Zenon
        <4>2. CASE m.kind = "progress"
          BY <4>2 DEF Fine
        <4>3. QED  BY <1>6, <4>1, <4>2 DEF Policy!Broken
      <3>2. Fine(kind) \in Policy!Message
        BY Zenon DEF Fine, Policy!Message
      <3> HIDE DEF Fine
      <3>3. messages'[Fine(kind)] = messages[Fine(kind)] + Policy!Count(m, kind)
        BY <1>1, <1>2, <3>1, <3>2 DEF CountsOK, Policy!Count
      <3>4. QED  BY <2>5, <3>3 DEF Counted
    <2>6. Counted("config", configCount)' /\ Counted("SBOM", sbomCount)'
      <3>1. configCount' = configCount + Policy!Count(m, "config") /\ sbomCount' = sbomCount + Policy!Count(m, "SBOM")
        BY Zenon DEF Policy!ReadMessage
      <3>2. QED  BY <1>1, <2>5, <3>1, Zenon DEF Counted, Fine, ReportInv
    <2>7. ReportInv'
      BY <2>2, <2>3, <2>4, <2>6, Zenon DEF ReportInv
    <2>8. policy' = "messages" /\ policy' # "exit"
      BY <1>1, <2>1, Zenon
    <2>9. QED  BY <1>4, <2>7, <2>8, Zenon DEF PolicyInv, Policy!PassIsExact
  <1>7. QED  BY <1>5, <1>6, Zenon

\* The verdict is the one of the property (main, after the report).
LEMMA EndOfReportKeeps ==
  ASSUME PolicyInv, Policy!EndOfReport
  PROVE  PolicyInv'
  <1>1. /\ policy = "messages" /\ CountsOK /\ FineLines /\ FineMessages /\ allowed = Policy!Entries
        /\ Counted("config", configCount) /\ Counted("SBOM", sbomCount) /\ reachable = Policy!Called
        /\ checkingProgress = (\E m \in Policy!Messages : m.kind = "progress" /\ m.good)
    BY Zenon DEF PolicyInv, LinesInv, ReportInv, Policy!EndOfReport
  <1>2. (configCount = 1 <=> Policy!Once("config")) /\ (sbomCount = 1 <=> Policy!Once("SBOM"))
    BY <1>1, CountIsOne, Zenon
  <1>3. /\ UNCHANGED <<lines, messages, Policy!counters>> /\ policy' = "exit"
        /\ verdict' = IF Policy!Complete THEN Policy!Verdict ELSE 2
    BY Zenon DEF Policy!EndOfReport, Policy!Exit
  <1>4. verdict' = 0 <=> Policy!Complete /\ Policy!Called = Policy!Entries
    BY <1>1, <1>3 DEF Policy!Verdict
  <1>5. Policy!Complete <=> /\ Policy!Once("config") /\ Policy!Once("SBOM")
                     /\ \E m \in Policy!Messages : m.kind = "progress" /\ m.good
    BY <1>1, <1>2 DEF Policy!Complete
  <1>6. Policy!PassIsExact'
    <2>1. /\ Policy!Lines' = Policy!Lines /\ Policy!Messages' = Policy!Messages 
          /\ Policy!Called' = Policy!Called /\ Policy!Entries' = Policy!Entries
      BY <1>3, LinesStand, MessagesStand
    <2>2. QED  BY <1>1, <1>3, <1>4, <1>5, <2>1, Zenon DEF Policy!PassIsExact, FineLines, FineMessages, Policy!Once
  <1>7. QED  BY <1>1, <1>3, <1>6, Zenon DEF PolicyInv, CountsOK

\* The invariant of the policy is inductive.
THEOREM PolicyInvariance == Policy!Spec => []PolicyInv
  <1>1. Policy!Init => PolicyInv
    <2> SUFFICES ASSUME Policy!Init  PROVE PolicyInv
      OBVIOUS
    <2>1. CountsOK /\ Policy!Lines = {} /\ Policy!Messages = {}
      BY NothingRead, Zenon DEF Policy!Init, CountsOK, Policy!Lines, Policy!Messages
    <2>2. Counted("config", 0) /\ Counted("SBOM", 0)
      BY Zenon DEF Policy!Init, Counted, Fine, Policy!Message
    <2>3. QED  BY <2>1, <2>2, Zenon DEF Policy!Init, PolicyInv, LinesInv, ReportInv, FineLines, FineMessages,
                                    Policy!Entries, Policy!Called, Policy!PassIsExact
  <1>2. PolicyInv /\ [Policy!Next]_(Policy!vars) => PolicyInv'
    <2> SUFFICES ASSUME PolicyInv, [Policy!Next]_(Policy!vars)  PROVE PolicyInv'
      OBVIOUS
    <2>1. ASSUME NEW l \in Policy!Line, Policy!ReadLine(l)  PROVE PolicyInv'
      BY <2>1, ReadLineKeeps, Zenon
    <2>2. CASE Policy!EndOfAllowlist
      <3>1. CountsOK' /\ LinesInv' /\ ReportInv'
        BY <2>2, LinesStand, MessagesStand, Zenon DEF Policy!EndOfAllowlist, PolicyInv, CountsOK, LinesInv
      <3>2. QED  BY <2>2, <3>1 DEF Policy!EndOfAllowlist, PolicyInv, Policy!PassIsExact
    <2>3. ASSUME NEW m \in Policy!Message, Policy!ReadMessage(m)  PROVE PolicyInv'
      BY <2>3, ReadMessageKeeps
    <2>4. CASE Policy!EndOfReport
      BY <2>4, EndOfReportKeeps, Zenon
    <2>5. CASE Policy!Again
      <3>1. CountsOK' /\ Policy!Lines' = {} /\ Policy!Messages' = {}
        BY <2>5, NothingRead DEF Policy!Again, CountsOK, Policy!Lines, Policy!Messages
      <3>2. Counted("config", 0)' /\ Counted("SBOM", 0)'
        BY <2>5, Zenon DEF Policy!Again, Counted, Fine, Policy!Message
      <3>3. QED  BY <2>5, <3>1, <3>2, Zenon
                 DEF Policy!Again, PolicyInv, LinesInv, ReportInv, FineLines, FineMessages, Counted,
                     Policy!Entries, Policy!Called, Policy!PassIsExact
    <2>6. CASE UNCHANGED Policy!vars
      <3>1. UNCHANGED <<policy, allowed, verdict, lines, messages, Policy!counters>>
        BY <2>6 DEF Policy!vars
      <3>2. /\ Policy!Lines' = Policy!Lines /\ Policy!Entries' = Policy!Entries /\ FineLines' = FineLines
            /\ Policy!Messages' = Policy!Messages /\ Policy!Called' = Policy!Called /\ ReportInv' = ReportInv
        BY <3>1, LinesStand, MessagesStand, Zenon
      <3>3. QED  BY <3>1, <3>2, Zenon DEF PolicyInv, CountsOK, LinesInv, Policy!PassIsExact, Policy!Once
    <2>7. QED  BY <2>1, <2>2, <2>3, <2>4, <2>5, <2>6 DEF Policy!Next
  <1>3. QED  BY <1>1, <1>2, PTL DEF Policy!Spec

\* The release passes exactly for one whole symbol scan that reaches what a
\* well-formed allowlist names, whatever the identifiers and however long the
\* two inputs are (scripts/govuln-policy.go).
THEOREM PassIsExactHolds == Policy!Spec => []Policy!PassIsExact
  <1>1. PolicyInv => Policy!PassIsExact
    BY Zenon DEF PolicyInv
  <1>2. QED  BY <1>1, PolicyInvariance, PTL
=============================================================================
