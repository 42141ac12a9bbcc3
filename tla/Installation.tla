---------------------------- MODULE Installation ----------------------------
(***************************************************************************)
(* One appliance and the invocations of its binary: the daemon, the        *)
(* bootstrap-admin command and the two password resets.  Each takes the    *)
(* process lock, opens user.db its own way, and calls the library modelled *)
(* in UserBootstrap.  A process may be killed between any two steps: the   *)
(* kernel then drops its lock, SQLite its open transaction, and everything *)
(* else it did stays.  A caller of UserBootstrap is a process here.        *)
(***************************************************************************)
EXTENDS UserBootstrap

CONSTANTS
  Name,        \* usernames
  NoProc,      \* nobody holds the process lock
  NoFile,      \* there is no user.db
  MaxCommands  \* bound: local commands the operator starts

ASSUME CommandsAssumption == MaxCommands \in Nat
ASSUME ProcessAssumption == NoProc \notin Caller /\ Name # {}

VARIABLES
  lock,      \* holder of the process lock
  tables,    \* what user.db's schema holds, NoFile while there is no file
  account,   \* o_users: name, role and verifier of each row
  sessions,  \* o_refresh_sessions: user and the verifier the login proved
  at,        \* what each process is doing
  cmd,       \* its command and the username credential it was given
  proven,    \* the daemon's login in progress: user and verifier
  cached,    \* initializationState of the daemon, read at its start
  reason,    \* why a process last ended
  dirty,     \* what each process has changed since it started
  minted,    \* verifiers the commands have stored so far
  commands   \* local commands started so far

insVars == <<lock, tables, account, sessions, at, cmd, proven, cached,
             reason, dirty, minted, commands>>
store == <<db, spent, created, seal, synced, backups, restored, faults>>
allVars == <<vars, insVars>>

Kind == {"serve", "bootstrap", "reset-admin", "reset-user"}
Resets == {"reset-admin", "reset-user"}
Phase == {"off", "lock", "open", "migrate", "call", "inspect", "marker",
          "commit", "serving"}
Reason == {"none", "locked", "input", "missing", "schema", "target",
           "recovery", "already", "failed", "stopped", "done"}

\* Tables by the order AutoMigrate is given them.  "columns" stands for the
\* columns and the unique username index that older releases do not have,
\* "auth" for the event, session, lockout, audit and denylist tables.
Full == {"users", "columns", "state", "auth"}
Legacy == {"users"}
Schema == {{}, Legacy, {"users", "columns"}, {"users", "state"},
           {"users", "columns", "state"}, Full}
ASSUME FileAssumption == NoFile \notin Schema

\* What a process may change: user.db comes into being, its tables, or what is
\* in them and the seal.
Part == {"file", "tables", "rows"}

Account == [name : Name, role : {"admin", "user"}, verifier : Nat]
Session == [user : UserId, verifier : Nat]
NoRow == [name |-> CHOOSE n \in Name : TRUE, role |-> "user", verifier |-> 0]

InstallationTypeOK ==
  /\ TypeOK
  /\ lock \in Caller \cup {NoProc}
  /\ tables \in Schema \cup {NoFile}
  /\ account \in [UserId -> Account]
  /\ sessions \in SUBSET Session
  /\ at \in [Caller -> Phase]
  /\ cmd \in [Caller -> [kind : Kind, target : Name]]
  /\ proven \in [Caller -> SUBSET Session]
  /\ cached \in [Caller -> Status]
  /\ reason \in [Caller -> Reason]
  /\ dirty \in [Caller -> SUBSET Part]
  /\ minted \in Nat
  /\ commands \in 0..MaxCommands

Administrators == {u \in db.users : account[u].role = "admin"}

\* A new appliance, or the database of an older release: it has the administrator
\* that release registered first, its verifiers are the legacy ones, numbered 0,
\* and nothing keeps its usernames apart.
InstallationInit ==
  /\ Init
  /\ account \in [UserId -> [name : Name, role : {"admin", "user"}, verifier : {0}]]
  /\ \A u \in UserId \ db.users : account[u] = NoRow
  /\ Occupied(db) => Administrators # {}
  /\ tables = IF Occupied(db) THEN Legacy ELSE NoFile
  /\ lock = NoProc
  /\ sessions = {}
  /\ at = [c \in Caller |-> "off"]
  /\ cmd \in [Caller -> [kind : {"serve"}, target : {NoRow.name}]]
  /\ proven = [c \in Caller |-> {}]
  /\ cached = [c \in Caller |-> "none"]
  /\ reason = [c \in Caller |-> "none"]
  /\ dirty = [c \in Caller |-> {}] /\ minted = 0 /\ commands = 0

-----------------------------------------------------------------------------
(* A process *)

Enter(c, phase) == at' = [at EXCEPT ![c] = phase]

\* The process ends and its variables with it; its deferred Close, or the
\* kernel, releases the lock.
Exit(c, why) ==
  /\ Enter(c, "off")
  /\ lock' = IF lock = c THEN NoProc ELSE lock
  /\ reason' = [reason EXCEPT ![c] = why]
  /\ proven' = [proven EXCEPT ![c] = {}]
  /\ cached' = [cached EXCEPT ![c] = "none"]
  /\ pc' = [pc EXCEPT ![c] = "idle"]
  /\ op' = [op EXCEPT ![c] = "reconcile"]
  /\ seen' = [seen EXCEPT ![c] = NoId]
  /\ want' = [want EXCEPT ![c] = NoId]
  /\ result' = [result EXCEPT ![c] = "none"]

Stay == UNCHANGED <<lock, reason, proven, cached, callVars>>

\* What the step changes of user.db and the seal.
Changed ==
  {part \in Part :
     \/ part = "file" /\ tables = NoFile /\ tables' # NoFile
     \/ part = "tables" /\ tables # NoFile /\ tables' # tables
     \/ part = "rows" /\ <<db, account, sessions, seal>>' # <<db, account, sessions, seal>>}

\* The step is recorded when it changes user.db or the seal.
Noted(c) == dirty' = [dirty EXCEPT ![c] = @ \cup Changed]

files == <<tables, account, sessions, minted>>

\* systemd starts the daemon whenever it is down; commands are the operator's.
Start(c, kind, target) ==
  /\ at[c] = "off"
  /\ kind \in {"serve", "bootstrap"} => target = NoRow.name
  /\ kind # "serve" => commands < MaxCommands
  /\ commands' = IF kind = "serve" THEN commands ELSE commands + 1
  /\ cmd' = [cmd EXCEPT ![c] = [kind |-> kind, target |-> target]]
  /\ reason' = [reason EXCEPT ![c] = "none"]
  /\ dirty' = [dirty EXCEPT ![c] = {}]
  /\ Enter(c, "lock")
  /\ UNCHANGED <<vars, lock, proven, cached, files>>

\* Mutant: the lock is taken without regard to a holder.
AcquireAnyway(c) ==
  /\ at[c] = "lock"
  /\ lock' = c
  /\ Enter(c, "open")
  /\ UNCHANGED <<store, reason, proven, cached, callVars, cmd, dirty, commands, files>>

\* flock with LOCK_NB: a held lock is an error, never a wait.
Acquire(c) ==
  /\ at[c] = "lock"
  /\ \/ /\ lock = NoProc
        /\ lock' = c
        /\ Enter(c, "open")
        /\ UNCHANGED <<reason, proven, cached, callVars>>
     \/ /\ lock # NoProc
        /\ Exit(c, "locked")
  /\ UNCHANGED <<store, cmd, dirty, commands, files>>

\* A credential file, the configuration or the seal's place is not acceptable:
\* nothing has been opened yet.
RefuseInput(c) ==
  /\ at[c] = "open"
  /\ Exit(c, "input")
  /\ UNCHANGED <<store, cmd, dirty, commands, files>>

\* The username or the password is not acceptable: the service looks at them when
\* the command has opened user.db, and bootstrap-admin created and migrated it.
RefuseCredentials(c) ==
  /\ \/ cmd[c].kind = "bootstrap" /\ at[c] = "call" /\ pc[c] = "idle" /\ result[c] = "none"
     \/ cmd[c].kind \in Resets /\ at[c] = "inspect"
  /\ Exit(c, "input")
  /\ UNCHANGED <<store, cmd, dirty, commands, files>>

-----------------------------------------------------------------------------
(* Opening and migrating user.db *)

\* Mutant: the daemon, too, migrates only a file it has created.
GetDbMigratesNew(c) ==
  /\ cmd[c].kind = "serve"
  /\ tables' = IF tables = NoFile THEN {} ELSE tables
  /\ Enter(c, IF tables = NoFile THEN "migrate" ELSE "call") /\ Stay

\* GetDb creates what is missing and migrates.
GetDb(c) ==
  /\ cmd[c].kind = "serve"
  /\ tables' = IF tables = NoFile THEN {} ELSE tables
  /\ Enter(c, "migrate") /\ Stay

\* GetBootstrapDb migrates only a file its own O_EXCL call has created.
GetBootstrapDb(c) ==
  /\ cmd[c].kind = "bootstrap"
  /\ tables' = IF tables = NoFile THEN {} ELSE tables
  /\ Enter(c, IF tables = NoFile THEN "migrate" ELSE "call") /\ Stay

\* Mutant: the reset opens the database the way the daemon does.
GetExistingDbCreates(c) ==
  /\ cmd[c].kind \in Resets
  /\ tables' = IF tables = NoFile THEN {"users", "columns", "state"} ELSE tables
  /\ Enter(c, "inspect") /\ Stay

\* GetExistingDb creates nothing.
GetExistingDb(c) ==
  /\ cmd[c].kind \in Resets
  /\ IF tables = NoFile THEN Exit(c, "missing") ELSE Enter(c, "inspect") /\ Stay
  /\ UNCHANGED tables

OpenDatabase(c) ==
  /\ at[c] = "open"
  /\ GetDb(c) \/ GetBootstrapDb(c) \/ GetExistingDb(c)
  /\ UNCHANGED <<store, account, sessions, minted, cmd, commands>>
  /\ Noted(c)

UniqueNames == \A u, v \in db.users : account[u].name = account[v].name => u = v

\* Mutant: the marker's table comes first.
MigratedStateFirst(t) ==
  CASE "state" \notin t -> t \cup {"state"}
    [] "state" \in t /\ "columns" \notin t -> t \cup {"users", "columns"}
    [] OTHER -> Full

\* AutoMigrate brings one table after another up to date, each on its own.
Migrated(t) ==
  CASE "columns" \notin t -> t \cup {"users", "columns"}
    [] "columns" \in t /\ "state" \notin t -> t \cup {"state"}
    [] OTHER -> Full

AutoMigrate(c) ==
  /\ at[c] = "migrate"
  /\ CASE tables = Full -> Enter(c, "call") /\ Stay /\ UNCHANGED tables
       [] tables # Full /\ UniqueNames ->
            tables' = Migrated(tables) /\ Stay /\ UNCHANGED at
       [] OTHER -> Exit(c, "schema") /\ UNCHANGED tables
  /\ UNCHANGED <<store, account, sessions, minted, cmd, commands>>
  /\ Noted(c)

-----------------------------------------------------------------------------
(* The calls into pkg/userbootstrap *)

HasState == {"users", "state"} \subseteq tables

\* The daemon calls ReconcileState, bootstrap-admin CreateAdmin.
CallLibrary(c) ==
  /\ at[c] = "call" /\ pc[c] = "idle" /\ result[c] = "none"
  /\ Begin(c, IF cmd[c].kind = "bootstrap" THEN "create" ELSE "reconcile")
  /\ UNCHANGED insVars

\* The steps of UserBootstrap but LostRace, which the lock rules out
\* (RaceIsNeverLost), and CreateAdmin, which InsertAdmin completes.
LibraryStep(c) ==
  /\ at[c] = "call"
  /\ \/ LoadSeal(c)
     \/ HasState /\ ReconcileState(c)
     \/ CheckSeal(c) \/ PublishSeal(c) \/ SyncSeal(c)
  /\ UNCHANGED <<lock, proven, reason, at, cmd, cached, commands, files>>
  /\ Noted(c)

\* The first administrator is stored under the given name, with a verifier.
InsertAdmin(c) ==
  /\ at[c] = "call"
  /\ CreateAdmin(c)
  /\ minted' = minted + 1
  /\ account' = [u \in UserId |->
       IF u \in db'.users
       THEN [name |-> cmd[c].target, role |-> "admin", verifier |-> minted + 1]
       ELSE account[u]]
  /\ UNCHANGED <<lock, tables, sessions, proven, reason, at, cmd, cached, commands>>
  /\ Noted(c)

\* A query of a missing table fails, and its transaction with it.
NoSuchTable(c) ==
  /\ at[c] = "call" /\ pc[c] = "reconcile" /\ ~HasState
  /\ Return(c, "failed")
  /\ UNCHANGED <<dbVars, sealVars, envVars, op, seen, want, faults, insVars>>

\* A call fails for a reason of its own.
LibraryFails(c) == at[c] = "call" /\ Fail(c) /\ UNCHANGED insVars

\* Mutant: the daemon lets go of the lock once it has its state.
ResumeUnlocked(c, phase) ==
  /\ Enter(c, phase)
  /\ result' = [result EXCEPT ![c] = "none"]
  /\ lock' = IF phase = "serving" THEN NoProc ELSE lock
  /\ UNCHANGED <<reason, proven, pc, op, seen, want>>

\* The process goes on with the answer.
Resume(c, phase) ==
  /\ Enter(c, phase)
  /\ result' = [result EXCEPT ![c] = "none"]
  /\ UNCHANGED <<lock, reason, proven, pc, op, seen, want>>

\* What each command makes of the library's answer.
LibraryReturned(c) ==
  /\ at[c] = "call" /\ pc[c] = "idle" /\ result[c] # "none"
  /\ CASE result[c] \in {"failed", "recovery", "already"} -> Exit(c, result[c])
       [] cmd[c].kind = "bootstrap" /\ result[c] = "created" -> Exit(c, "done")
       [] cmd[c].kind = "serve" /\ result[c] \in {"pristine", "initialized"} ->
            Resume(c, "serving") /\ cached' = [cached EXCEPT ![c] = result[c]]
       [] cmd[c].kind \in Resets /\ result[c] = "initialized" ->
            Resume(c, "commit") /\ UNCHANGED cached
       [] OTHER -> Exit(c, "recovery")
  /\ UNCHANGED <<store, cmd, dirty, commands, files>>

-----------------------------------------------------------------------------
(* ResetAdminPassword and ResetUserPassword *)

Named(name) == {u \in db.users : account[u].name = name}

\* loadUniqueAdministrator and loadUniqueNonAdministrator.
IsTarget(c, u) ==
  /\ Named(cmd[c].target) = {u}
  /\ account[u].role = IF cmd[c].kind = "reset-admin" THEN "admin" ELSE "user"

HasTarget(c) == \E u \in db.users : IsTarget(c, u)

\* Mutant: the marker is looked at, the seal is not.
MarkerAllowsAlone(c) == db.status \in {"none", "initialized"}

\* A marker the reset will go on with: none at all on an unsealed database, or
\* an initialised one that no seal contradicts.
MarkerAllowsReset(c) ==
  \/ db.status = "none" /\ seen[c] = NoId
  \/ db.status = "initialized" /\ seen[c] \in {NoId, db.id}

\* The seal is loaded and the target looked up before a legacy database is
\* given a marker table.
ResetInspect(c) ==
  /\ at[c] = "inspect"
  /\ CASE "users" \notin tables -> Exit(c, "failed") /\ UNCHANGED tables
       [] "users" \in tables /\ ~HasTarget(c) -> Exit(c, "target") /\ UNCHANGED tables
       [] HasTarget(c) /\ ~HasState /\ seal # NoId ->
            Exit(c, "recovery") /\ UNCHANGED tables
       [] OTHER -> /\ tables' = tables \cup {"state"}
                     /\ seen' = [seen EXCEPT ![c] = seal]
                     /\ Enter(c, "marker")
                     /\ UNCHANGED <<lock, reason, proven, cached, pc, op, want, result>>
  /\ UNCHANGED <<store, account, sessions, minted, cmd, commands>>
  /\ Noted(c)

ResetCheckMarker(c) ==
  /\ at[c] = "marker"
  /\ IF MarkerAllowsReset(c) THEN Enter(c, "call") /\ Stay ELSE Exit(c, "recovery")
  /\ UNCHANGED <<store, cmd, dirty, commands, files>>

\* Mutant: the sessions stay.
KeptSessions(u) == sessions

\* DELETE FROM o_refresh_sessions WHERE user_id.
OtherSessions(u) == {s \in sessions : s.user # u}

\* The immediate transaction: verifier, credential generation and sessions of
\* the one target together.
ResetCommit(c) ==
  /\ at[c] = "commit"
  /\ CASE seal # want[c] \/ db.id # want[c] \/ db.status # "initialized" ->
            Exit(c, "recovery") /\ UNCHANGED <<account, sessions, minted>>
       [] seal = want[c] /\ db.id = want[c] /\ db.status = "initialized" /\ ~HasTarget(c) ->
            Exit(c, "target") /\ UNCHANGED <<account, sessions, minted>>
       [] OTHER ->
            /\ \E u \in db.users :
                 /\ IsTarget(c, u)
                 /\ account' = [account EXCEPT ![u].verifier = minted + 1]
                 /\ sessions' = OtherSessions(u)
            /\ minted' = minted + 1
            /\ Exit(c, "done")
  /\ UNCHANGED <<store, tables, cmd, commands>>
  /\ Noted(c)

\* A read, the table's creation or the transaction fails; the transaction is
\* rolled back.
ResetFails(c) ==
  /\ at[c] \in {"inspect", "marker", "commit"}
  /\ Fault
  /\ Exit(c, "failed")
  /\ UNCHANGED <<dbVars, sealVars, envVars, cmd, dirty, commands, files>>

-----------------------------------------------------------------------------
(* The serving daemon *)

\* AuthenticateUser compares the password with the stored Argon2id verifier;
\* a legacy verifier is never evaluated.
AuthenticateUser(c, u) ==
  /\ at[c] = "serving" /\ proven[c] = {}
  /\ u \in db.users /\ account[u].verifier > 0
  /\ proven' = [proven EXCEPT ![c] = {[user |-> u, verifier |-> account[u].verifier]}]
  /\ UNCHANGED <<vars, lock, at, cmd, cached, reason, dirty, commands, files>>

\* IssueLoginSession stores the session unless the account has gone.
IssueLoginSession(c) ==
  /\ at[c] = "serving" /\ proven[c] # {}
  /\ sessions' = sessions \cup {s \in proven[c] : s.user \in db.users}
  /\ proven' = [proven EXCEPT ![c] = {}]
  /\ UNCHANGED <<vars, lock, tables, account, minted, at, cmd, cached, reason, commands>>
  /\ Noted(c)

\* Mutant: the last administrator can be deleted.
DeleteAnyUser(c, u) ==
  /\ at[c] = "serving"
  /\ \E s \in sessions : s.user \in db.users
  /\ u \in db.users
  /\ db' = [db EXCEPT !.users = @ \ {u}]
  /\ account' = [account EXCEPT ![u] = NoRow]
  /\ sessions' = OtherSessions(u)
  /\ UNCHANGED <<spent, created, sealVars, envVars, callVars, faults, lock, tables,
                 minted, at, cmd, proven, cached, reason, commands>>
  /\ Noted(c)

\* On behalf of someone logged in, DeleteUserById keeps the last administrator;
\* retiring the sessions of the deleted account is a later transaction whose
\* error is ignored.
DeleteUserById(c, u) ==
  /\ at[c] = "serving"
  /\ \E s \in sessions : s.user \in db.users
  /\ u \in db.users /\ Administrators # {u}
  /\ db' = [db EXCEPT !.users = @ \ {u}]
  /\ account' = [account EXCEPT ![u] = NoRow]
  /\ sessions' \in {sessions, OtherSessions(u)}
  /\ UNCHANGED <<spent, created, sealVars, envVars, callVars, faults, lock, tables,
                 minted, at, cmd, proven, cached, reason, commands>>
  /\ Noted(c)

\* What the status endpoint answers from.
GetInitializationState(c) == cached[c]

\* The operator or the service manager stops the daemon.
Stop(c) ==
  /\ at[c] = "serving"
  /\ Exit(c, "stopped")
  /\ UNCHANGED <<store, cmd, dirty, commands, files>>

-----------------------------------------------------------------------------
(* Failures and the operator *)

Kill(c) ==
  /\ at[c] # "off"
  /\ Fault
  /\ Exit(c, "none")
  /\ UNCHANGED <<dbVars, sealVars, envVars, cmd, dirty, commands, files>>

\* With nothing running the operator removes user.db, or puts in its place the
\* database of an older release; the seal stays.
ReplaceDatabase ==
  /\ \A c \in Caller : at[c] = "off"
  /\ ~restored
  /\ \E users \in SUBSET UserId :
       /\ db' = Db(NoId, "none", users)
       /\ tables' = IF users = {} THEN NoFile ELSE Legacy
       /\ account' = [u \in UserId |->
            IF u \in users THEN [account[u] EXCEPT !.verifier = 0, !.role = "admin"] ELSE NoRow]
  /\ sessions' = {}
  /\ restored' = TRUE
  /\ UNCHANGED <<spent, created, backups, sealVars, callVars, faults, lock, at, cmd,
                 proven, cached, reason, dirty, minted, commands>>

-----------------------------------------------------------------------------
ResetAdminPassword(c) ==
  cmd[c].kind = "reset-admin" /\ (ResetInspect(c) \/ ResetCheckMarker(c) \/ ResetCommit(c))

\* The same steps for an account that is not an administrator's.
ResetUserPassword(c) ==
  cmd[c].kind = "reset-user" /\ (ResetInspect(c) \/ ResetCheckMarker(c) \/ ResetCommit(c))

\* What every command does: lock, open, call the library and hear its answer.
Common(c) ==
  Acquire(c) \/ OpenDatabase(c) \/ CallLibrary(c) \/ LibraryStep(c) \/ LibraryReturned(c)

runServer(c) ==
  cmd[c].kind = "serve" /\ (Common(c) \/ AutoMigrate(c))

runBootstrapAdmin(c) ==
  cmd[c].kind = "bootstrap" /\ (Common(c) \/ AutoMigrate(c) \/ InsertAdmin(c) \/ NoSuchTable(c))

runResetAdminPassword(c) ==
  cmd[c].kind = "reset-admin" /\ (Common(c) \/ ResetAdminPassword(c))

runResetUserPassword(c) ==
  cmd[c].kind = "reset-user" /\ (Common(c) \/ ResetUserPassword(c))

Proceed(c) ==
  runServer(c) \/ runBootstrapAdmin(c) \/ runResetAdminPassword(c) \/ runResetUserPassword(c)

Daemon(c) ==
  \/ \E u \in UserId : AuthenticateUser(c, u) \/ DeleteUserById(c, u)
  \/ IssueLoginSession(c)
  \/ Stop(c)

InstallationNext ==
  \/ \E c \in Caller :
       \/ \E kind \in Kind, target \in Name : Start(c, kind, target)
       \/ Proceed(c) \/ Daemon(c)
       \/ RefuseInput(c) \/ RefuseCredentials(c) \/ LibraryFails(c) \/ ResetFails(c) \/ Kill(c)
  \/ ReplaceDatabase

InstallationSpec == InstallationInit /\ [][InstallationNext]_allVars

\* systemd restarts the daemon whenever it has ended and lets every process run;
\* the configuration it finds is not refused for ever.
FairInstallationSpec ==
  /\ InstallationSpec
  /\ \A c \in Caller :
       /\ WF_allVars(Start(c, "serve", NoRow.name))
       /\ WF_allVars(Proceed(c))
       /\ SF_allVars(OpenDatabase(c))

-----------------------------------------------------------------------------
(* Properties *)

\* A session is backed by the verifier its account has now: a login that
\* proved the old password cannot store its session after a reset, because no
\* daemon runs during one and the reset removes what earlier daemons stored.
NoSessionOutlivesReset ==
  \A s \in sessions :
    s.user \in db.users => s.verifier = account[s.user].verifier

\* GetInitializationState answers from a snapshot the daemon took when it
\* started; no command changes the marker while a daemon serves.
SnapshotIsCurrent ==
  \A c \in Caller : at[c] = "serving" => GetInitializationState(c) = db.status

\* CreateAdmin's second look at the marker, inside its transaction, never finds
\* it changed: the lock has kept every other writer out since the first.
RaceIsNeverLost == \A c \in Caller : pc[c] = "insert" => StillPristine(c)

\* The process made user.db itself and stored nothing in it.
OnlyItsFile(c) == "file" \in dirty[c] /\ "rows" \notin dirty[c]

\* A command refused because of its target, its input, a missing database or
\* the lock has changed nothing, with one exception: bootstrap-admin refused for
\* its username or password may leave a database, but only one that it made
\* itself, with no account, marker or session in it and no seal beside it.
RefusalChangesNothing ==
  \A c \in Caller :
    at[c] = "off" /\ reason[c] \in {"locked", "input", "missing", "target"} =>
      \/ dirty[c] = {}
      \/ cmd[c].kind = "bootstrap" /\ reason[c] = "input" /\ OnlyItsFile(c)

\* Unless the operator swaps the database nothing leads to recovery: not the
\* deletion of accounts, not a kill anywhere, not a reset of a legacy database.
NeverLocksItselfOut == ~restored => db.status # "recovery"

\* A reset gives the marker no value but initialized, so a legacy database is
\* imported or left alone: never pristine, never recovery.
ResetOnlyImports ==
  [][\A c \in Caller :
       cmd[c].kind \in Resets /\ pc[c] = "reconcile" /\ pc'[c] # pc[c] /\ db' # db =>
         db'.status = "initialized"]_allVars

\* However far a killed daemon or command had got in creating, migrating,
\* marking or sealing the database, the daemon serves again, unless usernames
\* are ambiguous or the operator's swap of the database calls for recovery.
DaemonComesBack ==
  []<>(\/ \E c \in Caller : at[c] = "serving"
      \/ ~UniqueNames
      \/ db.status = "recovery")
=============================================================================
