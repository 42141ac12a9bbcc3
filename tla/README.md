# A TLA+ verification of the ReCasaOS user service

The user service keeps the accounts of an appliance: it creates the first
administrator exactly once, checks passwords, issues and retires session tokens,
and stores a small JSON file per user and key. Its state is a SQLite database, a
seal file outside the database tree, configuration files, and a signing key that
lives in memory only. This directory models the parts whose correctness depends
on the order of steps or on the edges of what they read, checks them with TLC on
small instances, and proves the safety of nearly all of them with TLAPS for every
instance.

## 1. Inventory

| part | source | model |
|---|---|---|
| administrator bootstrap | `pkg/userbootstrap/` | `UserBootstrap` |
| sessions: login, refresh, logout, password change, deletion | `service/session.go`, `service/session_issue.go`, `service/user.go`, `pkg/authsecurity/session.go` | `Sessions` |
| access middleware and the protected handlers | `route/auth.go`, `route/v1.go`, `route/v1/user.go` | `Sessions` |
| login lockout | `service/session.go`, `route/v1/user.go` | `LoginThrottle` |
| custom configuration | `pkg/userconfig/store.go`, `route/v1/user.go` | `ConfigStore`, and what it promises: `DurableRegister` |
| daemon, bootstrap and reset commands, process lock | `main.go`, `pkg/processlock/`, `service/user.go` | `Installation`, around `UserBootstrap` |
| database opening and migration | `pkg/sqlite/db.go` | `Installation` |
| placement of the seal | `main.go`, `pkg/sqlite/db.go`, `pkg/userbootstrap/file_seal.go` | `SealPlacement` |
| credential, runtime and graph files | `main.go`, `pkg/gatewayclient/`, `scripts/` | `CheckedFile` |
| the daemon's start, gateway client, bus registration | `main.go`, `pkg/gatewayclient/`, `service/service.go`, `codegen/message_bus/` | `Startup` |
| event listener and event store | `route/event_listen.go`, `service/event.go`, `route/v2/` | `EventBus` |
| profile edits | `route/v1/user.go`, `service/user.go` | `Profile` |
| password verifiers | `pkg/password/`, `service/user.go` | `Password` |
| build policy scripts | `scripts/` | `VulnPolicy`, `DependencyBoundary` |
| JWKS, tokens, CORS, configuration file, migration tool | `pkg/authsecurity/`, `route/`, `pkg/config/`, `cmd/` | not modelled, see section 5 |

How the parts interact: one process at a time holds the lock, opens the database
and reconciles the bootstrap marker with the seal; the daemon then registers its
routes at the gateway, reports ready, and serves. A login passes the lockout,
verifies the password behind the gate, and is given a session; the session's
access token passes the middleware on every protected route, its refresh token is
rotated by the refresh route.

`Installation` composes the processes with `UserBootstrap`, whose actions are its
own (a caller of the library is a process, and `LibraryStep` is a step of the
library). The other models share no variable: the lockout only decides whether a
login is attempted, and the session model lets any login be attempted; `Password`
decides how a verifier is checked, which the session model takes as one step;
`Profile` and `Sessions` meet in password change and deletion, each with the
columns it is about; `Startup` begins where the daemon of `Installation` serves.

`PROJECT.json` lists every part, the hazards of the code at the lines where they
bite with the property that covers each one, and the source lines behind every
definition.

## 2. The models

Each model is a set of concurrent callers or requests with a program counter and
their local variables. A SQL statement outside a transaction and a transaction
are one step each, because SQLite serialises them; every file system call that
others can observe is a step of its own. Anything can happen between two steps of
a request. A statement or call may fail. Where the code looks at the error the
failure is a `Fail` step, or an alternative of the action, that follows the error
path; where it drops the error (the event store, the profile update) the action
goes on as the code does, with nothing done.

### UserBootstrap

State: `db` (marker row and users), `seal` and whether its directory entry is
`synced`, and the callers' `pc`, `op`, `seen`, `want` and `result`.
`LoadSeal`, `ReconcileState`, `CreateAdmin`, `LostRace`, `CheckSeal`,
`PublishSeal` and `SyncSeal` are the steps of the two entry points. `Fail`, `Die`
and `PowerLoss` interrupt them. The operator may copy `user.db`, put back a copy
or an empty database while no caller runs, delete users and damage the marker.
Nothing excludes callers from each other, though the process lock does so for
whole processes: what holds here holds with the lock.

### Sessions

State: the users' `ver` (token_version), `pw` (the password as the number of
changes) and `legacy`; the claims `tok` of all tokens minted; the tables `rows`,
`used`, `revoked`, `denied`; and what has expired. One identifier stands for an
access token, a refresh token and a row. Requests: login (`Authenticate`,
`Rehash`, `MintLogin`, `CreateRefreshSession`), refresh (`LoadForRefresh`,
`RotateRefreshSession`), both ending with `PruneSessions` and `PruneRevoked`;
and, behind the middleware's `CheckVersion` and `IsAccessTokenRevoked`, logout,
logout-all, password change and deletion. A response may be lost, so a minted
token need not reach a client. `Restart` forgets the signing key.

Abstractions: identifiers are numbered in the order in which requests take their
time, which makes issue and expiry orders agree; a request takes less than the
lifetime of the token it mints; PruneAuthState is one step per table; a user is
never renamed, so the middleware's comparison of names is left out. The audit
log is left out.

### LoginThrottle

State: a clock in ticks, the row of each key, and requests with the `now` they
took at their start. The time between that and the recording of the outcome is
unbounded, as the wait for the password gate is. `wrong` and `locks` count what
the properties are about. The process-global rate limiters are left out: they
only refuse more.

### ConfigStore

State: `log`, the inodes the key's directory entry has named, of which positions
from `disk` on may be what a power loss brings back; the `data` of each inode,
complete and synced or not there; the user's directory; temporary files; and
requests. `Write` is
`openUserRoot`, `InspectForWrite`, `createTemporaryFile`, `FillTemporary`,
`Rename`, `syncRoot`, `Publish`; `Read` and `Delete` likewise. Keys and users do
not share files, so one key of one user is enough. An entry the code refuses (a
link, a foreign owner) is the inode `Unsafe`.

Assumption: a new user directory is never synced into its parent; the file system
is taken to order its creation before any sync inside it, as journalling file
systems do.

`DurableRegister` is the promise: a history of values, a position up to which no
crash undoes it, and clients whose request changes it at most once, in one step,
to a complete value. `ConfigStoreRegister` maps the store onto it: the history is
`log`, the safe position `disk`, a value is complete when its inode is synced, an
acknowledgement is a response or an event.

### Installation

State: the process `lock`; `tables`, how far the schema of user.db has come, or
that there is no file; accounts with role and verifier; stored sessions with the
verifier their login proved; and per process its phase `at`, its command and what
it ended with. `Acquire`, `OpenDatabase` (`GetDb`, `GetExistingDb`,
`GetBootstrapDb`), `AutoMigrate` table by table, and the call of the library are
common to the commands. They refuse their input in two places: `RefuseInput` is a
credential file, the configuration or the seal's place, before anything is opened;
`RefuseCredentials` is the username or the password, which the service looks at
after user.db was opened, and, by `bootstrap-admin`, created and migrated. `dirty`
keeps which of file, tables and rows a process has changed. The resets go on with
`ResetInspect`, `ResetCheckMarker` and `ResetCommit`. The serving daemon
authenticates, stores sessions and deletes users. A process may be killed between
any two steps, and a call may fail.

Initially there is no database, or one of an older release that has an
administrator. The library's power losses and copies of user.db are left to
`UserBootstrap` (`MaxBackups` is 0): here the operator may remove the file or put
an old one in its place while no process runs.

### Startup

State: the gateway's start number, the start that wrote each of its two files, its
routes; the state of the message bus; the daemon's step, listener, loop counters
and what it has read; its own address file; and the goroutine `EventListen`, from
the address file on. `WaitForAddress`, `Ping`, `Listen`, `ReadAddress`,
`ReadToken`, `CreateRoute`, the two halves of the address file's write, and
`RegisterAtMessageBus` are the daemon's steps. A request is accepted by a gateway
whose start wrote both the address and the token it carries. A gateway that starts
anew has the routes of the one before it or none: `src/` relies on neither, and
registers at every start of its own.

The listener dials while main registers and serves (`DialMessageBus`); when the bus
closes its websocket, or sends what has no UUID, the goroutine's panic ends the
whole process (`PanicInListener`), whatever main is doing. Its messages are the
business of `EventBus`; here they are `BusChanges`. systemd starts the daemon again
until it has ended too often in too short a time: the unit sets no `StartLimit*`, so
the defaults apply, and after `StartLimitHit` the unit stays failed. Time is not
modelled, so any end may be the last.

### EventBus

State: the bus, the websocket and what is under way on it; the listener; the event
table; the v2 requests. An event has a shape (a storage event, a foreign one, a
RAID status, one longer than the buffer, one without UUID) and a disk. The
deletion by serial is a Find and one statement per row. Any statement may fail and
its error is dropped: an insert that failed is in `lost`, a deletion leaves its row,
a Find that fails gives a part of the rows or none (the loop then goes over what it
has), and `failed` is what a request's own statements failed on.

### CheckedFile and SealPlacement

`CheckedFile` is the look, open, compare and bounded read that the program does in
three places, next to an owner who renames over the path and rewrites in place.
`Meaning` is the reference definition of what the bytes stand for; `ReadAsMeant`
compares. An empty runtime value is refused by the callers of `readBoundedFile`
(`address`, `serviceToken`) and counted there. Only the graph is protected against
rewriting in place, by reading it twice. `GraphIsWhole` is what that is worth: a
rewrite that a reading meets shows, however coarse the clock is, because what is
torn in the first reading is whole in the second. Two rewrites within one tick can
tear both readings alike, so the property is about one (`earlier` counts those
that were over when the reader began).

`SealPlacement` enumerates every tree of two levels with symlinks, resolves the
two flags before the directories exist as the code does, creates the directories,
and asks the kernel where the seal has ended up.

### Profile

State: the rows of `o_users` with the name, one column for the other texts, the
password as a number, and requests with what they have read. The unique index on
the name is `NameFree`; the error of a statement it refuses is dropped, as
`UpdateUser` drops it, so `PutUserInfo` answers success over an unchanged row. That
names stay distinct is the promise of the index itself, and no property restates it.

### Password

State: one account's stored hash, the gate, and requests. A hash is the record of
what `parse` looks at; its numerals are numbers of any size. `parseUint` refuses what
is past 8 or 32 bits, and what it lets through is cut to the field it is stored in
(`Cut`, the conversions `uint32(...)` and `uint8(...)`): were the first looser than
the second, the hash would be verified at another cost than it names, which is what
`VerifiesAsWritten` excludes. The bounds are the code's own.

### VulnPolicy and DependencyBoundary

The two scripts are folds over what they read: lines and messages, entries of the
source tree (with those `WalkDir` cannot read, which end the walk) and records of the
package graph. Input is chosen while it is read, so
a run covers all inputs up to its bounds; the history (how often each line and
message was read, and which entries and records) is compared with the declarative
statement of what passes. The scripts keep counters instead.

## 3. What TLC checks

| run | shows | instance |
|---|---|---|
| `bootstrap` | `ExactlyOnce`, `MarkerMatchesSeal`, `InitializedIsSealed`, `SealClosesSetup` | 2 callers, 2 identifiers, 2 faults, 1 copy of user.db |
| `installation` | `NoSessionOutlivesReset`, `SnapshotIsCurrent`, `RaceIsNeverLost`, `RefusalChangesNothing`, `NeverLocksItselfOut`, `ResetOnlyImports` | 2 processes, 2 accounts, 2 names, 2 commands, 1 fault |
| `installation_live` | `DaemonComesBack`, `MissingSealIsRepaired` | 2 processes, 1 account, 1 command, 1 fault |
| `sessions` | `RetiredFamiliesStayDead`, `OneLiveLeafPerLogin`, `LoggedOutStaysOut`, `OldPasswordStaysOut` | 2 users, 2 requests, 3 identifiers, caps 2 and 1, 1 fault, a legacy verifier |
| `accounts` | `GuessBudget`, `LockStands` of `LoginThrottle`; `EditUndoesNothing` of `Profile` | 2 requests; 1 key, limit 2, 6 ticks; 2 users, 3 names |
| `services` | `SerialIsCleared`, `SentIsHandled` of `EventBus`; `NoStaleRoute`, `EventuallyServes` of `Startup`; `WorkIsBounded`, `VerifiesAsWritten`, `EveryRequestAnswered` of `Password` | 3 events, 2 v2 requests, 2 dials; 2 paths, 2 ports, 2 faults, 2 tries in each loop; 2 requests and 29 hashes |
| `files` | `ReportedIsDurable`, `NoStrayTemporaries`, `ImplementsRegister` of `ConfigStore`; `ReadAsMeant`, `GraphIsWhole` of `CheckedFile`; `SealIsOutside` of `SealPlacement`; `PassIsExact` of `VulnPolicy`; `PassIsClean` of `DependencyBoundary` | 2 requests, 2 changes, 2 faults; all contents up to 5 bytes of 5 kinds; trees of 2 names, 2 levels, 2 symlinks; 5 messages, 3 entries, 3 records |

The types of every module are checked with them (`TypeOK`, and `PartsTypeOK` where
a run has several parts). `DiskIsWhole` and `AnswersWereCurrent` of the
configuration store are consequences of the register it implements; they are
proved (section 4) and have no run of their own. The same holds for
`OnlyNamedRowsGo`.

**Parts side by side.** `MCAccounts`, `MCServices` and `MCFiles` each check parts
that share no state. A variable `part` is chosen initially and names the part that
runs; the others keep one initial state. A behaviour of such a run is therefore a
behaviour of one part, and every behaviour of the part in the given instance is
there. Interleaving the parts would add no behaviour that a property of one of
them could tell apart. In `MCAccounts` both parts share the users' requests and
names, which only makes the instance smaller.

Five runs show a comment of the code that the code does not keep:

| run | comment | what happens |
|---|---|---|
| `bootstrap_restore` | `pkg/userbootstrap/bootstrap.go:3` "restoring only user.db can never silently reopen setup" | a death between COMMIT and `seal.Create`, then a restore before the next start |
| `sessions_change` | `service/user.go:249` "A password change retires every session minted under the old verifier" | a login verified before the change and minted after it survives |
| `sessions_cap` | `service/session.go:400` "Consumed-but-live sessions are retained" | the session cap deletes them like any other |
| `sessions_half` | `service/session.go:172` "either one alone still fails closed" | the token of the failed half still works |
| `events_down` | `service/service.go:53` "If we don't avoid panic, message bus becomes a hard dependency" | a websocket that the bus closes leaves an empty event, whose nil UUID is dereferenced |

**Bounds.** Two concurrent requests are the smallest number that race, and each
step changes shared state on behalf of one request. For every safety property in
the table but `SealIsOutside` the theorems of section 4 lift these bounds.

- `MaxFaults`, `MaxChanges`, `MaxCommands`, `MaxBackups`, `MaxPassword`,
  `MaxExpired`, `MaxTime` and `MaxDials` cap what would go on without end. One
  fault is a kill or a failed call anywhere; two allow a failure during the
  recovery from another.
- Three session identifiers allow a login, a rotation and a race for a second
  one; caps of one and two are exceeded by them. `LastIsPlain` in `MCSessions`
  gives the third identifier only to behaviours of one user without fault, expiry
  or legacy verifier: with two identifiers users and legacy verifiers combine
  freely with a failed statement or with an expired access token, of which
  `OneTrouble` admits one per behaviour.
- The lock, the window and the retention of the lockout keep the order they have in
  the code (15 minutes, 1 hour, 24 hours: here 1, 2 and 3 ticks), and six ticks are
  enough for a window and a lock to end and for the row to be pruned. The rows of
  two keys do not depend on one another, so one key is enough.
- `EventBus` runs as two parts of `services`: one request beside a bus that comes and
  goes and sends anything (`OneRequest`), and two requests beside a bus that stays
  and sends storage events that are all stored (`SteadyBus`). The first has the
  listener's failures, the second the races of requests.
- `Startup` has two of the four paths, one of which is registered after the other is,
  and two instead of ten registrations and 1000 dials. `BusMatters`: what the bus
  does before anybody asks it is one change.
- `OneWay` in `MCFiles`: an owner who renames over a file does not rewrite it in
  place in the same behaviour, and only the graph is rewritten. Each of the two is
  checked by different code (the comparison of the inodes, the second read).
  `OthersArePrivate`: only the credential's reader looks at the mode.
- `Symlinks` in `SealPlacement`: at most two links in a tree of six paths, enough
  for a link that leads through another. `MaxLinks` is the kernel's own limit,
  small enough to be met. `SealInit`: the names are interchangeable, so the
  database's path begins with the first; links in directories that others than
  root may write are met one at a time.
- The bounds on Argon2id parameters and on messages, files and records are
  scaled only where the property does not name the number; the parameters of
  `Password` are those of the code, with values on both sides of each bound and past
  the width of each field; 2^30 stands for 2^32, which is no integer of TLC's.

**Fairness.** Faults are bounded, and everything else that is assumed is what the
code or its systemd unit provides.

- `Installation`: a process that has begun runs on (weak fairness of `Proceed`),
  the daemon is started again whenever it is down (weak fairness of `Start`), and
  its opening of the database is not refused for ever by the lock (strong fairness
  of `OpenDatabase`: commands come and go, and the unit restarts the daemon).
  `DaemonComesBack` is therefore about what the files allow. The unit has
  `Restart=always` with systemd's default start limit, and a stop by the operator or
  by a conflicting unit is not restarted: after either somebody has to start the
  daemon, which the fairness of `Start` stands for.
- `Startup`: main, the listener's goroutine and the gateway run on, and a daemon that
  is down is started again or given up (`StartLimitHit`). `EventuallyServes` has the
  premise that the bus leaves the daemon alone from some time on, because every
  websocket it closes costs a process, and names the two things that stop the
  daemon even then: a registration that the bus never answers, and the start limit.
- `EventBus`: the listener's goroutine runs on. The bus and the requests need not.
- `Password`: goroutines run on, and senders blocked on a channel are served in
  their order, which makes the entry to the gate strongly fair.

**Deadlock** is checked in every passing run but two. It is not in `sessions`, where the
bounded identifiers run out and the service then has nothing left to do, and in
`services`, where a daemon that waits for a hung bus, or has died with the bus,
really has stopped.

## 4. What is proved

Every theorem below holds for every set of callers, requests, users, names, keys,
events and identifiers, every cap and every bound. A part that a module extends
has its assumptions on constants as `ASSUME`; a part that a module instantiates
has them as the theorem's hypothesis. TLC evaluates all of them on the instances
of section 3, where a property of an instantiated part is restated under its own
name in the `MC` module.

**`InstallationProofs`, the bootstrap.** `ExactlyOnce`, `MarkerMatchesSeal`,
`InitializedIsSealed`, `SealClosesSetup`. The invariant `IInv` ties each caller's
stale view to the marker: a caller that read no seal, or decided to insert, is
harmless once a seal exists because the marker has left the open states by then,
and the transaction reads the marker again. Assumes that `NoId` is not an
identifier; that a new identifier is never a used one is in the model.

**`InstallationProofs`, the commands.** `NoSessionOutlivesReset`,
`SnapshotIsCurrent`, `RaceIsNeverLost`, `RefusalChangesNothing`,
`NeverLocksItselfOut`, `ResetOnlyImports`. `LockInv` says that exactly the holder
of the lock is past it, so a step is the holder's, and every other process is
parked with nothing it knows about the files, or it leaves the files alone.
`ProcInv` is what the holder knows by where it is: while it can still be refused it
has changed nothing, or, in `bootstrap-admin`, nothing but a file of its own making
(`Harmless`); the seal it read is the seal there is; a reset past its
checks still has its target; the serving daemon's snapshot is the marker. `StoreInv`
is about the files: no session before setup, an administrator wherever there is an
account, every session under its account's present verifier. Assumes that the
value for "no process" is not a process, and likewise for files.

**`SessionsInvariant`, `SessionsProofs`.** `RetiredFamiliesStayDead`,
`OneLiveLeafPerLogin`, `LoggedOutStaysOut`, `OldPasswordStaysOut`. The invariant
says that a token never runs ahead of its owner's version and is strictly behind it
once its login is retired (a replacement is minted with the version its parent was
checked against, and a version only grows); that a request's new identifier is in
no table before its insertion; and that a logged-out session is denied, expired, or
its user's denylist has overflown. An old password does not come back because the
upgrade of a verifier is stored over the one that was checked or not at all.
`SessionsInvariant` states it and proves the first half of the actions,
`SessionsProofs` the rest and the properties.

**`AccountProofs`.** `LockStands`, `GuessBudget` of `LoginThrottle`;
`EditUndoesNothing` of `Profile`.

- A lock stands because a request's time never runs ahead of the clock, and because
  the retention is at least the window plus the lock, which is assumed.
- The budget needs counting. `BudgetInv` says that the wrong passwords tested for a
  key, and the requests that were admitted although their key is now locked
  (`Guessing`), are at most the failures the row counts, the requests that have yet
  to record a failure that will count (`Owed`), and the faults. Once the row is
  locked its failures stand for the limit and for one round of requests per lock.
  It assumes that the set of requests is finite.
- An edit brings back no account and no password because its statement updates a row
  that is there and leaves the verifier out.

**`ConfigStoreProofs`.** `ReportedIsDurable`, `DiskIsWhole`, `AnswersWereCurrent`,
`NoStrayTemporaries`. The invariant says that every inode ever named is synced,
that a request about to announce its change stands at a position the disk covers,
and that what a reader inspected was current during its request. Then
`ImplementsRegister`: the store's initial states are initial states of
`DurableRegister`, and under the invariant each system call is a step of the
register or a stutter: a rename or a removal is its change, a sync moves the safe
position, a response or an event is the acknowledgement, a loss of power is the
crash.

**`ServiceProofs`.** `SerialIsCleared`, `OnlyNamedRowsGo` of `EventBus`;
`NoStaleRoute` of `Startup`; `WorkIsBounded`, `VerifiesAsWritten` of `Password`.

- The rows of its disk which a deletion by serial found when it came, and which are
  still there, are among those it has yet to look at or those it failed on; a row
  once deleted does not come back, because an event travels and is stored once.
- Of the paths the daemon has passed in this start each leads to its listener or
  was dropped by a gateway that restarted, and it has passed all of them when it
  reports ready.
  Assumes that the paths are a non-empty list and that there is a bus state to
  begin with.
- Only the holder of the gate derives, with the parameters of a hash that passed
  `validateParameters`; a numeral that `parseUint` lets through is left as it is by the
  cut to its field, and the holder derives with what it read. Assumes that the
  default parameters are valid and that each field is wider than its bound.

**`CheckedFileProofs`.** `ReadAsMeant`, `GraphIsWhole`. While nobody rewrites the
file, what a reader has is a prefix of it, so that the bounded read either has it
whole or has too much: `DecidedRight` and `TooLong` compare the bound with what
bytes can mean. The first and the last byte that `TrimSpace` keeps exist by the
well-foundedness of the naturals. For the graph the invariant follows the one
rewrite: before it the first reading is whole, after it the second is, and they
agree when the graph is accepted. Assumes a positive limit and one of the three
readers.

**`ReleaseProofs`.** `PassIsClean` of `DependencyBoundary`, `PassIsExact` of
`VulnPolicy`. The programs keep counters; the invariants relate them to the
history, and say that a program has exited as soon as the history holds something
it refuses.

Type correctness is proved for `UserBootstrap`, `Installation`, `Sessions`,
`LoginThrottle`, `Profile`, `ConfigStore`, `EventBus`, `Startup`, `Password` and
`CheckedFile`.

Only model-checked are:

- `SealIsOutside`, whose path resolution follows symlinks recursively: the prover
  does not handle recursive operators;
- the liveness properties `DaemonComesBack`, `MissingSealIsRepaired`,
  `SentIsHandled`, `EventuallyServes` and `EveryRequestAnswered`: fairness is
  outside what the prover handles;
- the types of `SealPlacement`, `VulnPolicy` and `DependencyBoundary`, as parts of
  `PartsTypeOK`;
- the five runs that show a disagreement, each of which is a counterexample.

## 5. Not modelled

- **No state, or state that is read once**: the CORS lists and request filters
  (`route/cors.go`, `route/v2.go`, `route/logging.go`), the documentation router,
  the configuration file (`pkg/config/`), the publication of the key and the
  signature of tokens (`pkg/authsecurity/`), constants and types.
- **Code that nothing reaches**: `GetPort` and `ChangePort` of the gateway client,
  `PutUserNick` and `PutUserDesc`, which have no route, `RevokeRefreshSession`,
  `UpLoadFile`; `DeleteAllUser` always refuses, and the image endpoints answer 410.
- **Generated code** (`codegen/`), but for the registration of event types.
- **The migration tool** (`cmd/migration-tool`), which registers no migration but a
  dummy.
- **Left out of modelled parts**: pragmas, the connection pool and the modes of the
  -wal and -shm files; the process-global rate limiters, which only refuse more;
  the audit log; Argon2id and its salts; the rename of a user in `Sessions`, where
  a token would be refused that the model lets pass; the order in which two
  writers of one key publish their save_config events, of which nothing is
  promised.
- **Between the models**: a power loss during the commands of `Installation`, and
  the commands beside several copies of user.db, are covered only by the
  library's own model.

Three things were met on the way that no run is about. `bootstrap-admin` looks at
the username and the password only after `GetBootstrapDb` has created and migrated
user.db, so a refusal for either leaves an empty database behind, which is the
exception `RefusalChangesNothing` states. It migrates only a file that its own call
created (`pkg/sqlite/db.go:52`): when it is killed before the schema is complete,
the next `bootstrap-admin` fails on the missing tables and the daemon's `GetDb`
completes them. And the registration at the message bus (`main.go:202`) has no
timeout and comes before the server accepts requests: a bus that accepts the
connection and never answers keeps a daemon that has reported ready from serving,
which is one of the two exceptions `EventuallyServes` states.
