----------------------------- MODULE MCServices -----------------------------
(***************************************************************************)
(* One instance for three parts of the daemon that have liveness: the      *)
(* events of the message bus (EventBus), the start (Startup) and the gate  *)
(* of password derivations (Password).  They share no state: a behaviour   *)
(* chooses the part it is about, and the others keep one initial state.    *)
(***************************************************************************)
EXTENDS EventBus

CONSTANTS
  Port, NoPort, BusState, MaxFaults,  \* of Startup
  Request, Bad                        \* of Password

VARIABLES
  part,   \* the part that runs
  gateway, starts, addressOf, tokenOf, routes, bus, step, port, next, address,
  token, tries, publishedPort, listening, failedDials, faults,
  hash, gate, pc, job, using, read, right

-----------------------------------------------------------------------------
(* Events by name: of one disk or another, a RAID status, and two that do  *)
(* not decode; any other is of another source.                             *)

ShapeOf == [e \in Event |->
  CASE e \in {"a1", "a2", "b1"} -> "storage"
    [] e = "raid" -> "raid_status"
    [] e = "big" -> "oversized"
    [] e = "anonymous" -> "no_uuid"
    [] OTHER -> "foreign"]

\* One request beside a bus that comes and goes; all requests beside a bus that
\* stays and sends storage events that are all stored.
OneRequest == \A c \in Call \ {CHOOSE only \in Call : TRUE} : call'[c] = Idle
SteadyBus  == up' /\ lost' = {} /\ \A e \in published' : Shape[e] = "storage"

SerialOf == [e \in Event |-> IF e = "b1" THEN "b" ELSE "a"]

-----------------------------------------------------------------------------
(* The start *)

\* Two of the four paths of the code: one before and one after the other.
TwoPaths == <<"/v1/users", "/v2/users">>

Daemon == INSTANCE Startup WITH
  Path <- TwoPaths, AddressTries <- 2, RegisterTries <- 2, ListenTries <- 2,
  addressFile <- addressOf, tokenFile <- tokenOf, at <- step, published <- publishedPort,
  dials <- failedDials

startup == <<gateway, starts, addressOf, tokenOf, routes, bus, step, port, next,
             address, token, tries, publishedPort, listening, failedDials, faults>>

\* Nobody asks the bus before the daemon is ready: what it does until then is
\* taken for one change.
BusMatters == bus' # bus => step \in Daemon!Ready

ASSUME Daemon!TriesAssumption /\ Daemon!BusAssumption /\ Daemon!PathAssumption

-----------------------------------------------------------------------------
(* Derivations, with the parameters of the code and hashes at each bound,  *)
(* one past it and past the width of a field.  2^30 stands for 2^32, which *)
(* is no integer of TLC's.                                                 *)

Parameters == [memory |-> 65536, iterations |-> 3, parallelism |-> 4, salt |-> 16, key |-> 32]

\* The default hash with one field changed, in every way that matters.
StoredHashes ==
  LET d == [frame |-> TRUE, memory |-> 65536, iterations |-> 3, parallelism |-> 4,
            salt |-> 16, key |-> 32]
  IN  {d, [d EXCEPT !.frame = FALSE]}
      \cup {[d EXCEPT !.memory = v] : v \in {Bad, 19455, 19456, 131072, 131073, 2^30 + 19456}}
      \cup {[d EXCEPT !.iterations = v] : v \in {Bad, 0, 1, 5, 6, 2^30 + 1}}
      \cup {[d EXCEPT !.parallelism = v] : v \in {Bad, 0, 1, 8, 9, 256, 257}}
      \cup {[d EXCEPT !.salt = v] : v \in {Bad, 15, 64, 65}}
      \cup {[d EXCEPT !.key = v] : v \in {15, 16, 64, 65}}

Work == INSTANCE Password WITH
  Stored <- StoredHashes, Default <- Parameters,
  MinMemory <- 19456, MaxMemory <- 131072, MinIterations <- 1, MaxIterations <- 5,
  MinParallelism <- 1, MaxParallelism <- 8, MinLength <- 16, MaxLength <- 64,
  Range32 <- 2^30, Range8 <- 2^8,
  stored <- hash

password == <<hash, gate, pc, job, using, read, right>>

ASSUME
  /\ Work!StoredAssumption /\ Work!BadAssumption /\ Work!BoundsAssumption
  /\ Work!WidthAssumption /\ Work!DefaultAssumption

-----------------------------------------------------------------------------
(* The parts side by side *)

EventsRest   == addressFile = FALSE /\ Init
StartupRest  == bus = "absent" /\ Daemon!Init
PasswordRest == hash = Work!Formatted(Parameters) /\ Work!Init

PartsInit ==
  \/ part = "events" /\ Init /\ StartupRest /\ PasswordRest
  \/ part = "requests" /\ Init /\ up = TRUE /\ StartupRest /\ PasswordRest
  \/ part = "startup" /\ EventsRest /\ Daemon!Init /\ PasswordRest
  \/ part = "password" /\ EventsRest /\ StartupRest /\ Work!Init

Run(p) == part = p /\ UNCHANGED part

PartsNext ==
  \/ Run("events") /\ Next /\ OneRequest /\ UNCHANGED <<startup, password>>
  \/ Run("requests") /\ Next /\ SteadyBus /\ UNCHANGED <<startup, password>>
  \/ Run("startup") /\ Daemon!Next /\ BusMatters /\ UNCHANGED <<vars, password>>
  \/ Run("password") /\ Work!Next /\ UNCHANGED <<vars, startup>>

PartsVars == <<part, vars, startup, password>>

PartsSpec == PartsInit /\ [][PartsNext]_PartsVars

\* The fairness of EventBus, Startup and Password, each for the part that runs.
PartsFairSpec ==
  /\ PartsSpec
  /\ WF_vars(part \in {"events", "requests"} /\ Listener)
  /\ WF_startup(part = "startup" /\ Daemon!Daemon)
  /\ WF_startup(part = "startup" /\ Daemon!EventListen)
  /\ WF_startup(part = "startup" /\ Daemon!Gateway)
  /\ \A r \in Request :
       /\ SF_password(part = "password" /\ Work!Enter(r))
       /\ WF_password(part = "password" /\ Work!Leave(r))
       /\ WF_password(part = "password" /\ (Work!Rehash(r) \/ Work!Reverify(r) \/ Work!Answer(r)))

-----------------------------------------------------------------------------
(* Properties *)

\* The parts stay in their types: the loops of the listener and of the start
\* are bounded, and no hash makes parameters out of range.
PartsTypeOK == TypeOK /\ Daemon!TypeOK /\ Work!TypeOK

\* A daemon that has told systemd it is ready is not hidden behind a route or
\* the address file of an earlier process (main and writeAddressFile in main.go).
NoStaleRoute == Daemon!NoStaleRoute

\* The daemon comes to serve once the bus has settled, unless the bus leaves a
\* request unanswered or systemd gives up.
EventuallyServes == part = "startup" => Daemon!EventuallyServes

\* One derivation at a time, within the bounds of the package (deriveKey).
WorkIsBounded == Work!WorkIsBounded

\* A verification derives with what the hash it read says (parse and
\* verifyWithDeriver in pkg/password).
VerifiesAsWritten == Work!VerifiesAsWritten

\* Every request that waits for the gate is answered.
EveryRequestAnswered == part = "password" => Work!EveryRequestAnswered
=============================================================================
