------------------------------ MODULE Password ------------------------------
(***************************************************************************)
(* pkg/password: which stored hashes are accepted, and the gate that lets  *)
(* one Argon2id derivation run at a time.  Requests that verify, hash or   *)
(* only pretend to verify share the gate.                                  *)
(*                                                                         *)
(* A stored hash is the record of what the parser looks at: whether the    *)
(* frame is that of an Argon2id PHC string, three numerals, and the        *)
(* lengths of the two decoded base64 fields.  Bad is a numeral or a field  *)
(* that cannot be read: empty, with a leading zero or a sign, not strict   *)
(* base64.  A numeral is any natural number: what does not fit is for      *)
(* parseUint to refuse, and what it lets through is cut to the width of    *)
(* the field it is stored in.                                              *)
(***************************************************************************)
EXTENDS Integers, FiniteSets

CONSTANTS
  Request,       \* the requests that derive a key
  Stored,        \* the hashes an account may have
  Bad,           \* what cannot be read
  MinMemory, MaxMemory, MinIterations, MaxIterations, MinParallelism, MaxParallelism,
  MinLength, MaxLength,  \* of salt and key
  Range32, Range8,       \* how many values a uint32 and a uint8 have
  Default        \* the parameters of new hashes

Parameters == [memory : Nat, iterations : Nat, parallelism : Nat, salt : Nat, key : Nat]
Encoded == [frame : BOOLEAN, memory : Nat \cup {Bad}, iterations : Nat \cup {Bad},
            parallelism : Nat \cup {Bad}, salt : Nat \cup {Bad}, key : Nat \cup {Bad}]

validateParameters(p) ==
  /\ p.memory >= MinMemory /\ p.memory <= MaxMemory
  /\ p.iterations >= MinIterations /\ p.iterations <= MaxIterations
  /\ p.parallelism >= MinParallelism /\ p.parallelism <= MaxParallelism
  /\ p.salt >= MinLength /\ p.salt <= MaxLength
  /\ p.key >= MinLength /\ p.key <= MaxLength

StoredAssumption == \A e \in Stored : e \in Encoded
BadAssumption == Bad \notin Nat
BoundsAssumption ==
  /\ MinMemory \in Nat /\ MaxMemory \in Nat /\ MinIterations \in Nat /\ MaxIterations \in Nat
  /\ MinParallelism \in Nat /\ MaxParallelism \in Nat /\ MinLength \in Nat /\ MaxLength \in Nat
WidthAssumption ==
  /\ Range32 \in Nat /\ Range32 > MaxMemory /\ Range32 > MaxIterations
  /\ Range8 \in Nat /\ Range8 > MaxParallelism
DefaultAssumption == Default \in Parameters /\ validateParameters(Default)

-----------------------------------------------------------------------------
(* The parser *)

\* strconv.ParseUint: a number of the given range, or an error.
parseUint(v, range) == IF v = Bad \/ v >= range THEN Bad ELSE v

\* The conversions uint32(v) and uint8(v).
Cut(v, range) == v % range

Rejected == [ok |-> FALSE, parameters |-> Default]

\* Mutant: the parallelism is read with 32 bits and cut to 8.
ParseWide(e) ==
  LET memory == parseUint(e.memory, Range32)
      iterations == parseUint(e.iterations, Range32)
      parallelism == parseUint(e.parallelism, Range32)
  IN  IF ~e.frame \/ Bad \in {memory, iterations, parallelism, e.salt, e.key} THEN Rejected
      ELSE LET p == [memory |-> Cut(memory, Range32), iterations |-> Cut(iterations, Range32),
                     parallelism |-> Cut(parallelism, Range8), salt |-> e.salt, key |-> e.key]
           IN  IF validateParameters(p) THEN [ok |-> TRUE, parameters |-> p] ELSE Rejected

\* Mutant: the parameters are not validated.
ParseUnbounded(e) ==
  LET memory == parseUint(e.memory, Range32)
      iterations == parseUint(e.iterations, Range32)
      parallelism == parseUint(e.parallelism, Range8)
  IN  IF ~e.frame \/ Bad \in {memory, iterations, parallelism, e.salt, e.key} THEN Rejected
      ELSE [ok |-> TRUE,
            parameters |-> [memory |-> Cut(memory, Range32), iterations |-> Cut(iterations, Range32),
                            parallelism |-> Cut(parallelism, Range8), salt |-> e.salt, key |-> e.key]]

parse(e) ==
  LET memory == parseUint(e.memory, Range32)
      iterations == parseUint(e.iterations, Range32)
      parallelism == parseUint(e.parallelism, Range8)
  IN  IF ~e.frame \/ Bad \in {memory, iterations, parallelism, e.salt, e.key} THEN Rejected
      ELSE LET p == [memory |-> Cut(memory, Range32), iterations |-> Cut(iterations, Range32),
                     parallelism |-> Cut(parallelism, Range8), salt |-> e.salt, key |-> e.key]
           IN  IF validateParameters(p) THEN [ok |-> TRUE, parameters |-> p] ELSE Rejected

NeedsRehash(e) == ~parse(e).ok \/ parse(e).parameters # Default

\* hashWithReader writes the parameters it used.
Formatted(p) == [frame |-> TRUE, memory |-> p.memory, iterations |-> p.iterations,
                 parallelism |-> p.parallelism, salt |-> p.salt, key |-> p.key]

-----------------------------------------------------------------------------
VARIABLES
  stored,   \* the hash of the account
  gate,     \* the token of argon2Gate is taken
  pc,       \* Request -> idle, wait, derive, answer
  job,      \* Request -> verify, unknown, hash, rehash, reverify
  using,    \* Request -> the parameters it derives with
  read,     \* Request -> the hash it read
  right     \* Request -> the password is the account's

vars == <<stored, gate, pc, job, using, read, right>>

Job == {"verify", "unknown", "hash", "rehash", "reverify"}

TypeOK ==
  /\ stored \in Encoded
  /\ gate \in BOOLEAN
  /\ pc \in [Request -> {"idle", "wait", "derive", "answer"}]
  /\ job \in [Request -> Job]
  /\ using \in [Request -> Parameters] /\ \A r \in Request : validateParameters(using[r])
  /\ read \in [Request -> Encoded]
  /\ right \in [Request -> BOOLEAN]

Init ==
  /\ stored \in Stored
  /\ gate = FALSE
  /\ pc = [r \in Request |-> "idle"]
  /\ job = [r \in Request |-> "hash"]
  /\ using = [r \in Request |-> Default]
  /\ read = [r \in Request |-> stored]
  /\ right = [r \in Request |-> FALSE]

Begin(r, j, p) ==
  /\ pc[r] = "idle"
  /\ pc' = [pc EXCEPT ![r] = "wait"]
  /\ job' = [job EXCEPT ![r] = j]
  /\ using' = [using EXCEPT ![r] = p]
  /\ read' = [read EXCEPT ![r] = stored]
  /\ right' \in {[right EXCEPT ![r] = b] : b \in BOOLEAN}
  /\ UNCHANGED <<stored, gate>>

\* A hash that does not parse costs a default derivation and is refused.
Verify(r) == Begin(r, "verify", parse(stored).parameters)

ConsumeUnknownUser(r) == Begin(r, "unknown", Default)

Hash(r) == Begin(r, "hash", Default)

\* Mutant: the gate is not waited for.
DeriveAtOnce(r) ==
  /\ pc[r] = "wait"
  /\ gate' = TRUE
  /\ pc' = [pc EXCEPT ![r] = "derive"]
  /\ UNCHANGED <<stored, job, using, read, right>>

\* deriveKey: the channel of capacity one ...
Enter(r) ==
  /\ pc[r] = "wait" /\ ~gate
  /\ gate' = TRUE
  /\ pc' = [pc EXCEPT ![r] = "derive"]
  /\ UNCHANGED <<stored, job, using, read, right>>

\* Mutant: a wrong password is derived again.
LeaveRetries(r) ==
  /\ pc[r] = "derive"
  /\ gate' = FALSE
  /\ pc' = [pc EXCEPT ![r] = IF job[r] = "verify" /\ ~right[r] THEN "wait" ELSE "answer"]
  /\ UNCHANGED <<stored, job, using, read, right>>

\* ... and the deferred receive that frees it.
Leave(r) ==
  /\ pc[r] = "derive"
  /\ gate' = FALSE
  /\ pc' = [pc EXCEPT ![r] = "answer"]
  /\ UNCHANGED <<stored, job, using, read, right>>

Correct(r) == job[r] = "verify" /\ parse(read[r]).ok /\ right[r]

\* AuthenticateUser: a correct password under old parameters is hashed anew.
Rehash(r) ==
  /\ pc[r] = "answer" /\ Correct(r) /\ NeedsRehash(read[r])
  /\ pc' = [pc EXCEPT ![r] = "wait"]
  /\ job' = [job EXCEPT ![r] = "rehash"]
  /\ using' = [using EXCEPT ![r] = Default]
  /\ UNCHANGED <<stored, gate, read, right>>

\* Somebody else has replaced the hash meanwhile: that one is verified.
Reverify(r) ==
  /\ pc[r] = "answer" /\ job[r] = "rehash" /\ stored # read[r]
  /\ pc' = [pc EXCEPT ![r] = "wait"]
  /\ job' = [job EXCEPT ![r] = "reverify"]
  /\ read' = [read EXCEPT ![r] = stored]
  /\ using' = [using EXCEPT ![r] = parse(stored).parameters]
  /\ UNCHANGED <<stored, gate, right>>

\* The answer; a rehash first replaces the hash that was verified.
Answer(r) ==
  /\ pc[r] = "answer"
  /\ ~(Correct(r) /\ NeedsRehash(read[r]))
  /\ job[r] = "rehash" => stored = read[r]
  /\ stored' = IF job[r] = "rehash" THEN Formatted(using[r]) ELSE stored
  /\ pc' = [pc EXCEPT ![r] = "idle"]
  /\ UNCHANGED <<gate, job, using, read, right>>

Proceed(r) == Enter(r) \/ Leave(r) \/ Rehash(r) \/ Reverify(r) \/ Answer(r)

Next == \E r \in Request : Verify(r) \/ ConsumeUnknownUser(r) \/ Hash(r) \/ Proceed(r)

Spec == Init /\ [][Next]_vars

\* Every goroutine runs on; senders to a full channel queue first come, first
\* served, so one that waits is let in although others keep coming.
FairSpec ==
  /\ Spec
  /\ \A r \in Request : SF_vars(Enter(r)) /\ WF_vars(Leave(r)) /\ WF_vars(Rehash(r) \/ Reverify(r) \/ Answer(r))

-----------------------------------------------------------------------------
(* Properties *)

\* Whatever hash an account has, at most one derivation runs, and it takes no
\* more memory, passes or lanes than the package allows.
WorkIsBounded ==
  \A r \in Request : pc[r] = "derive" =>
    /\ \A s \in Request : pc[s] = "derive" => s = r
    /\ using[r].memory <= MaxMemory
    /\ using[r].iterations <= MaxIterations
    /\ using[r].parallelism <= MaxParallelism

\* What the numerals of a hash say, as numbers of any size, if that is within
\* the bounds of the package; otherwise the cost of an unknown user.
WrittenCost(e) ==
  LET p == [memory |-> e.memory, iterations |-> e.iterations, parallelism |-> e.parallelism,
            salt |-> e.salt, key |-> e.key]
  IN  IF e.frame /\ Bad \notin {p.memory, p.iterations, p.parallelism, p.salt, p.key}
         /\ validateParameters(p) THEN p ELSE Default

\* A verification derives with exactly what the hash it read says, or with the
\* default cost if that is out of bounds: no numeral is taken for another by the
\* width it is stored in, and a hash that is replaced while the request waits
\* at the gate or hashes anew does not mix with the one it verifies.
VerifiesAsWritten ==
  \A r \in Request : pc[r] = "derive" /\ job[r] \in {"verify", "reverify"} =>
    using[r] = WrittenCost(read[r])

\* Every request that waits for the gate is answered.
EveryRequestAnswered == \A r \in Request : pc[r] = "wait" ~> pc[r] = "idle"
=============================================================================
