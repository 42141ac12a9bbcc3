---------------------------- MODULE UserBootstrap ----------------------------
(***************************************************************************)
(* pkg/userbootstrap: the exactly-once transition from an uninitialised    *)
(* appliance to one with an administrator.  A marker row in user.db is     *)
(* paired with a seal file kept outside the database tree.  ReconcileState *)
(* and CreateAdmin run in any number of concurrent callers (threads or     *)
(* processes); each BEGIN IMMEDIATE transaction is one step, every access  *)
(* to the seal file is a step of its own, and a caller may die between any *)
(* two of them.  The operator may back up user.db and put back an older    *)
(* copy or an empty one, never the seal.                                   *)
(***************************************************************************)
EXTENDS Naturals, FiniteSets

CONSTANTS
  Caller,      \* callers of ReconcileState and CreateAdmin
  InstID,      \* installation identifiers newInstallationID can return
  NoId,        \* no seal file, or no identifier in the marker
  UserId,      \* rows of o_users
  MaxFaults,   \* bound: deaths, power losses and failed calls
  MaxBackups   \* bound: copies of user.db the operator keeps

ASSUME NoIdAssumption == NoId \notin InstID /\ InstID # {}
ASSUME BoundsAssumption == MaxFaults \in Nat /\ MaxBackups \in Nat

VARIABLES
  db,        \* user.db: the o_bootstrap_state row and the o_users rows
  seal,      \* identifier in the seal file, NoId while there is none
  synced,    \* the seal's directory entry has been fsynced
  spent,     \* identifiers newInstallationID has returned
  pc,        \* next step of each caller
  op,        \* the call it is in
  seen,      \* sealID/sealExists its seal.Load returned
  want,      \* InstallationID of the State it holds
  result,    \* what its last call returned
  backups,   \* copies of user.db
  created,   \* administrators CreateAdmin has committed, over all time
  restored,  \* the operator has put back a copy of user.db
  faults     \* deaths, power losses and failed calls so far

dbVars   == <<db, spent, created>>
sealVars == <<seal, synced>>
callVars == <<pc, op, seen, want, result>>
envVars  == <<backups, restored>>
vars == <<db, seal, synced, spent, pc, op, seen, want, result,
          backups, created, restored, faults>>

Status == {"none", "pristine", "initialized", "recovery", "invalid"}
Db(id, status, users) == [id |-> id, status |-> status, users |-> users]
Database ==
  {d \in [id : InstID \cup {NoId}, status : Status, users : SUBSET UserId] :
     d.id = NoId => d.status \in {"none", "invalid"}}
EmptyDb == Db(NoId, "none", {})

Ops     == {"reconcile", "create", "recheck", "commit"}
Results == {"none", "pristine", "initialized", "recovery", "already",
            "created", "failed"}

TypeOK ==
  /\ db \in Database
  /\ seal \in InstID \cup {NoId}
  /\ synced \in BOOLEAN
  /\ spent \in SUBSET InstID
  /\ pc \in [Caller -> {"idle", "load", "reconcile", "insert", "seal", "link", "sync"}]
  /\ op \in [Caller -> Ops]
  /\ seen \in [Caller -> InstID \cup {NoId}]
  /\ want \in [Caller -> InstID \cup {NoId}]
  /\ result \in [Caller -> Results]
  /\ backups \in SUBSET Database
  /\ created \in Nat
  /\ restored \in BOOLEAN
  /\ faults \in Nat

\* A new appliance or one that carries the users of an older release.
Init ==
  /\ \E users \in SUBSET UserId : db = Db(NoId, "none", users)
  /\ seal = NoId /\ synced = FALSE
  /\ spent = {}
  /\ pc = [c \in Caller |-> "idle"]
  /\ op = [c \in Caller |-> "reconcile"]
  /\ seen = [c \in Caller |-> NoId]
  /\ want = [c \in Caller |-> NoId]
  /\ result = [c \in Caller |-> "none"]
  /\ backups = {} /\ created = 0 /\ restored = FALSE /\ faults = 0

-----------------------------------------------------------------------------
(* Control of a caller *)

Goto(c, label) == pc' = [pc EXCEPT ![c] = label]

Return(c, value) ==
  /\ pc' = [pc EXCEPT ![c] = "idle"]
  /\ result' = [result EXCEPT ![c] = value]

\* A call begins: CreateAdmin's first act is ReconcileState.
Begin(c, o) ==
  /\ pc[c] = "idle"
  /\ Goto(c, "load")
  /\ op' = [op EXCEPT ![c] = o]
  /\ result' = [result EXCEPT ![c] = "none"]
  /\ UNCHANGED <<seen, want, faults, dbVars, sealVars, envVars>>

\* seal.Load, before the transaction begins.
LoadSeal(c) ==
  /\ pc[c] = "load"
  /\ seen' = [seen EXCEPT ![c] = seal]
  /\ Goto(c, "reconcile")
  /\ UNCHANGED <<op, want, result, faults, dbVars, sealVars, envVars>>

\* ReconcileState returns a State to the call the caller is in.
ReconcileReturns(c, status) ==
  CASE status = "recovery"   -> Return(c, "recovery")
    [] op[c] = "reconcile"   -> Return(c, status)
    [] op[c] = "create" /\ status = "pristine" ->
         Goto(c, "insert") /\ UNCHANGED result
    [] OTHER                 -> Return(c, "already")

-----------------------------------------------------------------------------
(* The transaction of ReconcileState *)

Occupied(d) == d.users # {}
WithStatus(d, status) == Db(d.id, status, d.users)

\* No marker row: a new appliance, an older release, or a lost database.
MissingMarker(d, seal0, new) ==
  IF seal0 # NoId THEN Db(seal0, "recovery", d.users)
  ELSE Db(new, IF Occupied(d) THEN "initialized" ELSE "pristine", d.users)

\* Mutants: the unusable identifier is kept; an unreadable marker is imported
\* like the users of an older release.
InvalidMarkerKeepsId(d, seal0, new) == WithStatus(d, "recovery")
InvalidMarkerImported(d, seal0, new) ==
  Db(new, IF Occupied(d) THEN "initialized" ELSE "recovery", d.users)

InvalidMarker(d, seal0, new) ==
  Db(IF seal0 # NoId THEN seal0 ELSE new, "recovery", d.users)

\* Mutant: a pristine marker is believed whatever the seal says.
PristineMarkerAlone(d, seal0) ==
  IF Occupied(d) THEN WithStatus(d, "initialized") ELSE d

PristineMarker(d, seal0) ==
  CASE seal0 # NoId -> WithStatus(d, "recovery")
    [] seal0 = NoId /\ Occupied(d) -> WithStatus(d, "initialized")
    [] OTHER -> d

InitializedMarker(d, seal0) ==
  IF ~Occupied(d) \/ seal0 \notin {NoId, d.id} THEN WithStatus(d, "recovery") ELSE d

\* The marker the transaction leaves, given what seal.Load returned.
Reconciled(d, seal0, new) ==
  CASE d.status = "none"        -> MissingMarker(d, seal0, new)
    [] d.status = "invalid"     -> InvalidMarker(d, seal0, new)
    [] d.status = "pristine"    -> PristineMarker(d, seal0)
    [] d.status = "initialized" -> InitializedMarker(d, seal0)
    [] d.status = "recovery"    -> d

\* The transaction stores the identifier newInstallationID has just returned.
NeedsId(c) == seen[c] = NoId /\ db.status \in {"none", "invalid"}

\* Mutant: only the call that changes the marker creates the seal.
CreateSealOnChange(c, d) ==
  d.status = "initialized" /\ seen[c] = NoId /\ db.status # "initialized"

CreateSeal(c, d) == d.status = "initialized" /\ seen[c] = NoId

ReconcileState(c) ==
  /\ pc[c] = "reconcile"
  /\ \E new \in InstID :
       LET d == Reconciled(db, seen[c], new)
       IN  /\ NeedsId(c) => new \notin spent
           /\ spent' = IF NeedsId(c) THEN spent \cup {new} ELSE spent
           /\ db' = d
           /\ want' = [want EXCEPT ![c] = d.id]
           /\ IF CreateSeal(c, d)
              THEN Goto(c, "seal") /\ UNCHANGED result
              ELSE ReconcileReturns(c, d.status)
  /\ UNCHANGED <<op, seen, created, faults, sealVars, envVars>>

-----------------------------------------------------------------------------
(* The transaction of CreateAdmin *)

\* Mutant: the marker's status is not read again inside the transaction.
StillPristineByUsers(c) == db.id = want[c] /\ db.users = {}

StillPristine(c) ==
  db.status = "pristine" /\ db.id = want[c] /\ db.users = {}

\* Administrator and initialised marker commit together.
CreateAdmin(c) ==
  /\ pc[c] = "insert"
  /\ StillPristine(c)
  /\ \E u \in UserId : db' = Db(db.id, "initialized", {u})
  /\ created' = created + 1
  /\ op' = [op EXCEPT ![c] = "commit"]
  /\ Goto(c, "seal")
  /\ UNCHANGED <<spent, seen, want, result, faults, sealVars, envVars>>

\* Another caller was first: reconcile again, then report it.
LostRace(c) ==
  /\ pc[c] = "insert"
  /\ ~StillPristine(c)
  /\ op' = [op EXCEPT ![c] = "recheck"]
  /\ Goto(c, "load")
  /\ UNCHANGED <<seen, want, result, faults, dbVars, sealVars, envVars>>

-----------------------------------------------------------------------------
(* FileSeal.Create, after the commit *)

\* Create returns nil, to CreateAdmin after its commit or to ReconcileState.
CreateReturns(c) ==
  IF op[c] = "commit" THEN Return(c, "created")
  ELSE ReconcileReturns(c, "initialized")

\* Create met a seal: its own identifier is success, another's an error.
FoundSeal(c) == IF seal = want[c] THEN CreateReturns(c) ELSE Return(c, "failed")

\* Create looks for a seal first.
CheckSeal(c) ==
  /\ pc[c] = "seal"
  /\ IF seal = NoId THEN Goto(c, "link") /\ UNCHANGED result ELSE FoundSeal(c)
  /\ UNCHANGED <<op, seen, want, faults, dbVars, sealVars, envVars>>

\* os.Link publishes the temporary file unless a seal has appeared meanwhile.
PublishSeal(c) ==
  /\ pc[c] = "link"
  /\ \/ /\ seal = NoId
        /\ seal' = want[c]
        /\ Goto(c, "sync")
        /\ UNCHANGED <<synced, result>>
     \/ /\ seal # NoId
        /\ FoundSeal(c)
        /\ UNCHANGED sealVars
  /\ UNCHANGED <<op, seen, want, faults, dbVars, envVars>>

\* The directory entry reaches the disk.
SyncSeal(c) ==
  /\ pc[c] = "sync"
  /\ synced' = TRUE
  /\ CreateReturns(c)
  /\ UNCHANGED <<seal, op, seen, want, faults, dbVars, envVars>>

-----------------------------------------------------------------------------
(* Failures and the operator *)

Fault == faults < MaxFaults /\ faults' = faults + 1

\* A transaction is refused or rolled back, beforeCommit included.
FailTransaction(c) == pc[c] \in {"reconcile", "insert"} /\ Return(c, "failed")

\* The seal's directory or file is not acceptable, or an access to it fails.
FailSeal(c) == pc[c] \in {"load", "seal", "link", "sync"} /\ Return(c, "failed")

\* The call returns the error.
Fail(c) ==
  /\ Fault
  /\ FailTransaction(c) \/ FailSeal(c)
  /\ UNCHANGED <<op, seen, want, dbVars, sealVars, envVars>>

\* The caller's process dies; what it committed or published stays.
Die(c) ==
  /\ Fault
  /\ pc[c] # "idle"
  /\ Return(c, "none")
  /\ UNCHANGED <<op, seen, want, dbVars, sealVars, envVars>>

\* Every process dies, and a seal that was not fsynced may be gone.
PowerLoss ==
  /\ Fault
  /\ seal' \in (IF synced THEN {seal} ELSE {seal, NoId})
  /\ pc' = [c \in Caller |-> "idle"]
  /\ result' = [c \in Caller |-> "none"]
  /\ synced' = (seal' # NoId)
  /\ UNCHANGED <<op, seen, want, dbVars, envVars>>

Quiet == \A c \in Caller : pc[c] = "idle"

\* Bound: the finite InstID stands for identifiers that never run out.
IdLeft == spent # InstID

Backup ==
  /\ Cardinality(backups) < MaxBackups
  /\ backups' = backups \cup {db}
  /\ UNCHANGED <<restored, faults, dbVars, sealVars, callVars>>

\* The operator stops the service and puts back a copy, or an empty database.
Restore ==
  /\ Quiet /\ IdLeft
  /\ db' \in backups \cup {EmptyDb}
  /\ restored' = TRUE
  /\ UNCHANGED <<spent, created, backups, faults, sealVars, callVars>>

\* Rows of o_users are deleted, or the marker is overwritten with a value that
\* validInstallationID or validStatus rejects.
DeleteUsers ==
  /\ db.users # {}
  /\ db' = [db EXCEPT !.users = {}]
  /\ UNCHANGED <<spent, created, faults, sealVars, callVars, envVars>>

DamageMarker ==
  /\ db.status # "none" /\ IdLeft
  /\ \E id \in {db.id, NoId} : db' = Db(id, "invalid", db.users)
  /\ UNCHANGED <<spent, created, faults, sealVars, callVars, envVars>>

-----------------------------------------------------------------------------
Step(c) ==
  \/ LoadSeal(c) \/ ReconcileState(c) \/ CreateAdmin(c) \/ LostRace(c)
  \/ CheckSeal(c) \/ PublishSeal(c) \/ SyncSeal(c)

Operator == Backup \/ Restore \/ DeleteUsers \/ DamageMarker

Next ==
  \/ \E c \in Caller : \/ \E o \in {"reconcile", "create"} : Begin(c, o)
                       \/ Step(c) \/ Fail(c) \/ Die(c)
  \/ PowerLoss
  \/ Operator

Spec == Init /\ [][Next]_vars

-----------------------------------------------------------------------------
(* Properties *)

\* While a seal is on disk no CreateAdmin commits, whichever copy of
\* user.db the operator has put back and however callers interleave: the
\* check of the seal is made before the transaction it protects.
SealClosesSetup == [][seal # NoId => created' = created]_vars

\* On an appliance whose database was never put back, concurrent CreateAdmin
\* calls, deaths at any point, deleted users and a damaged marker together
\* commit at most one administrator.
ExactlyOnce == ~restored => created <= 1

\* ReconcileState reports "initialized", and CreateAdmin success, only once the
\* seal of that very installation is published: a caller that read no seal, or
\* lost the race to publish it, does not report a pair it did not see agree.
InitializedIsSealed ==
  \A c \in Caller : result[c] \in {"initialized", "created"} => seal = want[c]

\* The marker and the seal of an appliance never come to disagree by
\* themselves: only a restored database can carry another identifier.
MarkerMatchesSeal ==
  ~restored /\ db.status = "initialized" /\ seal # NoId => db.id = seal

\* The state a death between COMMIT and seal.Create leaves behind is repaired
\* by the calls that follow (or superseded by the operator).
MissingSealIsRepaired ==
  (db.status = "initialized" /\ db.users # {} /\ seal = NoId)
    ~> ~(db.status = "initialized" /\ db.users # {} /\ seal = NoId)

\* The package comment's promise: restoring only user.db never reopens setup,
\* so an appliance gets one administrator from CreateAdmin over all time.
RestoreNeverReopensSetup == created <= 1
==============================================================================
