----------------------------- MODULE VulnPolicy -----------------------------
(***************************************************************************)
(* scripts/govuln-policy.go: the release is held when govulncheck reports  *)
(* a reachable vulnerability that the allowlist does not name, or the      *)
(* allowlist names one that is not reported any more.  The allowlist is    *)
(* read line by line and the report message by message; both are chosen as *)
(* the program reads them.                                                 *)
(***************************************************************************)
EXTENDS Naturals, FiniteSets

CONSTANTS
  Osv,          \* vulnerability identifiers
  MaxLines,     \* bound: lines of the allowlist
  MaxMessages   \* bound: messages of the report

VulnPolicyAssumption == Osv # {} /\ MaxLines \in Nat /\ MaxMessages \in Nat

\* A line is empty or a comment, one identifier, or something else.
Line == [kind : {"blank", "other"}, id : {"none"}] \cup [kind : {"entry"}, id : Osv]

\* A message: what it is, whether its payload is what it should be, and for a
\* finding the vulnerability and whether the trace begins with a function.  One
\* whose payload does not decode is undecodable, whatever its kind.
Message ==
  [kind : {"undecodable", "two fields", "unknown"}, good : {FALSE}, id : {"none"}, called : {FALSE}]
  \cup [kind : {"config", "SBOM", "osv", "progress"}, good : BOOLEAN, id : {"none"}, called : {FALSE}]
  \cup [kind : {"finding"}, good : {FALSE}, id : {"none"}, called : {FALSE}]
  \cup [kind : {"finding"}, good : {TRUE}, id : Osv, called : BOOLEAN]

VARIABLES
  pc,                                     \* lines, messages, exit
  allowed,                                \* the identifiers on the list
  configCount, sbomCount, checkingProgress, reachable,
  code,                                   \* exit code, or 3 while running
  lines, messages,                        \* history: how often each was read
  taken                                   \* lines, then messages, read so far

counters == <<configCount, sbomCount, checkingProgress, reachable>>
vars == <<pc, allowed, counters, code, lines, messages, taken>>

TypeOK ==
  /\ pc \in {"lines", "messages", "exit"}
  /\ allowed \subseteq Osv /\ reachable \subseteq Osv
  /\ lines \in [Line -> 0..MaxLines] /\ Cardinality(allowed) <= MaxLines
  /\ messages \in [Message -> 0..MaxMessages] /\ configCount + sbomCount <= MaxMessages
  /\ checkingProgress \in BOOLEAN
  /\ code \in 0..3 /\ (code = 3) = (pc # "exit")

Init ==
  /\ pc = "lines" /\ allowed = {} /\ code = 3
  /\ configCount = 0 /\ sbomCount = 0 /\ checkingProgress = FALSE /\ reachable = {}
  /\ lines = [l \in Line |-> 0] /\ messages = [m \in Message |-> 0] /\ taken = 0

Exit(c) == pc' = "exit" /\ code' = c

\* One line: blank ones are skipped, a second entry for the same identifier
\* and anything else end the program.
ReadLine(l) ==
  /\ pc = "lines" /\ taken < MaxLines
  /\ lines' = [lines EXCEPT ![l] = @ + 1] /\ taken' = taken + 1
  /\ \/ l.kind = "blank" /\ UNCHANGED <<pc, code, allowed>>
     \/ l.kind = "entry" /\ l.id \notin allowed /\ allowed' = allowed \cup {l.id} /\ UNCHANGED <<pc, code>>
     \/ l.kind = "entry" /\ l.id \in allowed /\ Exit(2) /\ UNCHANGED allowed
     \/ l.kind = "other" /\ Exit(2) /\ UNCHANGED allowed
  /\ UNCHANGED <<counters, messages>>

EndOfAllowlist ==
  /\ pc = "lines"
  /\ pc' = "messages" /\ taken' = 0
  /\ UNCHANGED <<allowed, counters, code, lines, messages>>

\* A config must be that of a source scan at symbol level, an SBOM must contain
\* the module.  A progress message is good when it says that the code is being
\* checked; another one is skipped.
Broken(m) == ~m.good /\ m.kind # "progress"

Count(m, kind) == IF m.kind = kind THEN 1 ELSE 0

\* Mutant: a broken message is reported and reading goes on.
ReadMessageGoesOn(m) ==
  /\ pc = "messages" /\ taken < MaxMessages
  /\ messages' = [messages EXCEPT ![m] = @ + 1] /\ taken' = taken + 1
  /\ code' = IF Broken(m) THEN 2 ELSE code
  /\ configCount' = configCount + Count(m, "config")
  /\ sbomCount' = sbomCount + Count(m, "SBOM")
  /\ checkingProgress' = (checkingProgress \/ (m.kind = "progress" /\ m.good))
  /\ reachable' = IF m.kind = "finding" /\ m.called THEN reachable \cup {m.id} ELSE reachable
  /\ UNCHANGED <<pc, allowed, lines>>

ReadMessage(m) ==
  /\ pc = "messages" /\ taken < MaxMessages
  /\ messages' = [messages EXCEPT ![m] = @ + 1] /\ taken' = taken + 1
  /\ IF Broken(m) THEN Exit(2) ELSE UNCHANGED <<pc, code>>
  /\ configCount' = configCount + Count(m, "config")
  /\ sbomCount' = sbomCount + Count(m, "SBOM")
  /\ checkingProgress' = (checkingProgress \/ (m.kind = "progress" /\ m.good))
  /\ reachable' = IF m.kind = "finding" /\ m.called THEN reachable \cup {m.id} ELSE reachable
  /\ UNCHANGED <<allowed, lines>>

\* Mutant: a second report appended to the first is not noticed.
CompleteAtLeast == configCount >= 1 /\ sbomCount >= 1 /\ checkingProgress

Complete == configCount = 1 /\ sbomCount = 1 /\ checkingProgress

\* Both differences are empty.
Verdict == IF reachable \ allowed = {} /\ allowed \ reachable = {} THEN 0 ELSE 1

EndOfReport ==
  /\ pc = "messages"
  /\ Exit(IF Complete THEN Verdict ELSE 2)
  /\ UNCHANGED <<allowed, counters, lines, messages, taken>>

\* The next release runs the program again.
Again ==
  /\ pc = "exit"
  /\ pc' = "lines" /\ allowed' = {} /\ code' = 3
  /\ configCount' = 0 /\ sbomCount' = 0 /\ checkingProgress' = FALSE /\ reachable' = {}
  /\ lines' = [l \in Line |-> 0] /\ messages' = [m \in Message |-> 0] /\ taken' = 0

Next ==
  \/ \E l \in Line : ReadLine(l)
  \/ EndOfAllowlist
  \/ \E m \in Message : ReadMessage(m)
  \/ EndOfReport \/ Again

Spec == Init /\ [][Next]_vars

-----------------------------------------------------------------------------
(* Properties *)

Lines == {l \in Line : lines[l] > 0}
Messages == {m \in Message : messages[m] > 0}

Once(kind) ==
  \E m \in Messages :
    m.kind = kind /\ messages[m] = 1 /\ \A n \in Messages : n.kind = kind => n = m

Entries == {l.id : l \in {k \in Lines : k.kind = "entry"}}
Called == {m.id : m \in {n \in Messages : n.called}}

\* The release passes exactly when the report is one whole symbol scan and the
\* vulnerabilities it reaches are the ones on a well-formed allowlist: no
\* order of messages, no repetition and no cut-off report gets another result.
PassIsExact ==
  pc = "exit" =>
    (code = 0 <=>
       /\ \A l \in Lines : l.kind # "other" /\ (l.kind = "entry" => lines[l] = 1)
       /\ \A m \in Messages : m.good \/ m.kind = "progress"
       /\ Once("config") /\ Once("SBOM")
       /\ \E m \in Messages : m.kind = "progress" /\ m.good
       /\ Called = Entries)
=============================================================================
