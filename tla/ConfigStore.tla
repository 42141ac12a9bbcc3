------------------------------ MODULE ConfigStore ------------------------------
(***************************************************************************)
(* pkg/userconfig and the custom-configuration handlers of                 *)
(* route/v1/user.go, for one key of one user: concurrent GET, POST and     *)
(* DELETE requests, each system call a step of its own, failures at every  *)
(* one, and loss of power.  A file is an inode, and a directory entry that *)
(* has not been fsynced may be lost.  The new user directory itself is     *)
(* never fsynced into its parent: the file system is taken to order its    *)
(* creation before any sync inside it, as journalling ones do.             *)
(***************************************************************************)
EXTENDS Naturals, Sequences

CONSTANTS
  Handler,     \* concurrent requests
  MaxChanges,  \* bound: POST and DELETE requests
  MaxFaults    \* bound: failed calls and losses of power

ASSUME StoreAssumption == MaxChanges \in Nat /\ MaxFaults \in Nat

None == 0                    \* no file
Legacy == 1                  \* the file of an older release
Unsafe == 2                  \* one that validateRegularFile rejects
Inode == 1 .. MaxChanges + 2
Directory == {"missing", "made", "stored"}
Label == {"idle", "openWrite", "openRead", "openDelete", "write", "create", "fill", "rename", "syncWrite", "publish",
          "read", "open", "fetch", "delete", "remove", "syncDelete"}
Result == {"none", "ok", "failed"}

VARIABLES
  log,      \* inodes the key's entry has named, the last one is current
  disk,     \* the entry is at least this far on disk
  data,     \* contents of each inode
  dir,      \* the user's directory
  nxt,      \* number of the next POST or DELETE, the inode of its temporary file
  temps,    \* names of temporary files
  at,       \* next step of each request
  ino,      \* its number, then the file it is about
  since,    \* position of log when it began, or when it changed the entry
  result,
  told,     \* positions a response or a save_config event has reported stored
  orphans,  \* temporary files whose writer lost power or could not remove them
  faults

vars == <<log, disk, data, dir, nxt, temps, at, ino, since, result, told, orphans, faults>>

TypeOK ==
  /\ log \in Seq(Inode \cup {None}) /\ Len(log) > 0
  /\ disk \in 1 .. Len(log)
  /\ data \in [Inode -> {"none", "synced"}]
  /\ dir \in Directory
  /\ nxt \in 3 .. MaxChanges + 3
  /\ temps \subseteq Inode /\ orphans \subseteq Inode
  /\ at \in [Handler -> Label]
  /\ ino \in [Handler -> Inode \cup {None}]
  /\ since \in [Handler -> Nat]
  /\ result \in [Handler -> Result]
  /\ told \subseteq Nat
  /\ faults \in 0 .. MaxFaults

Init ==
  /\ \/ dir = "missing" /\ log = <<None>>
     \/ dir = "stored" /\ \E i \in {None, Legacy, Unsafe} : log = <<i>>
  /\ disk = 1
  /\ data = [i \in Inode |-> IF i \in {Legacy, Unsafe} THEN "synced" ELSE "none"]
  /\ nxt = 3 /\ temps = {}
  /\ at = [h \in Handler |-> "idle"]
  /\ ino = [h \in Handler |-> None]
  /\ since = [h \in Handler |-> 0]
  /\ result = [h \in Handler |-> "none"]
  /\ told = {} /\ orphans = {} /\ faults = 0

Entry == log[Len(log)]
fileVars == <<log, disk, data, dir, temps, told, orphans>>

Goto(h, label) == at' = [at EXCEPT ![h] = label]

Return(h, value) ==
  /\ at' = [at EXCEPT ![h] = "idle"]
  /\ result' = [result EXCEPT ![h] = value]

Begin(h, label) ==
  /\ at[h] = "idle"
  /\ Goto(h, label)
  /\ since' = [since EXCEPT ![h] = Len(log)]
  /\ result' = [result EXCEPT ![h] = "none"]
  /\ UNCHANGED <<fileVars, faults>>

Numbered(h) == nxt \in Inode /\ ino' = [ino EXCEPT ![h] = nxt] /\ nxt' = nxt + 1

\* The handlers, once their checks of the key, the user and the size have passed.
GetUserCustomConf(h) ==
  Begin(h, "openRead") /\ ino' = [ino EXCEPT ![h] = None] /\ UNCHANGED nxt

PostUserCustomConf(h) == Begin(h, "openWrite") /\ Numbered(h)

DeleteUserCustomConf(h) == Begin(h, "openDelete") /\ Numbered(h)

\* Only Write creates the directory; without one a GET finds nothing.
openUserRoot(h) ==
  /\ \/ /\ at[h] = "openWrite"
        /\ dir' = IF dir = "missing" THEN "made" ELSE dir
        /\ Goto(h, "write") /\ UNCHANGED result
     \/ /\ at[h] = "openRead" /\ UNCHANGED dir
        /\ IF dir = "missing" THEN Return(h, "ok") ELSE Goto(h, "read") /\ UNCHANGED result
     \/ /\ at[h] = "openDelete" /\ UNCHANGED dir
        /\ IF dir = "missing" THEN Return(h, "failed")
           ELSE Goto(h, "delete") /\ UNCHANGED result
  /\ UNCHANGED <<log, disk, data, nxt, temps, ino, since, told, orphans, faults>>

\* validateRegularFile on what Lstat returned.
Acceptable(i) == i # Unsafe

-----------------------------------------------------------------------------
(* Write *)

InspectForWrite(h) ==
  /\ at[h] = "write"
  /\ IF Acceptable(Entry) THEN Goto(h, "create") /\ UNCHANGED result
     ELSE Return(h, "failed")
  /\ UNCHANGED <<fileVars, nxt, ino, since, faults>>

createTemporaryFile(h) ==
  /\ at[h] = "create"
  /\ temps' = temps \cup {ino[h]}
  /\ Goto(h, "fill")
  /\ UNCHANGED <<log, disk, data, dir, nxt, ino, since, result, told, orphans, faults>>

\* Mutant: the error of a short write is ignored.
FilledShort(i) == [data EXCEPT ![i] = "short"]

\* Write, Chmod, Sync and Close of the temporary file.
Filled(i) == [data EXCEPT ![i] = "synced"]

FillTemporary(h) ==
  /\ at[h] = "fill"
  /\ data' = Filled(ino[h])
  /\ Goto(h, "rename")
  /\ dir' = "stored"
  /\ UNCHANGED <<log, disk, nxt, temps, ino, since, result, told, orphans, faults>>

\* The rename replaces whatever the entry names by now.
Rename(h) ==
  /\ at[h] = "rename"
  /\ log' = Append(log, ino[h]) /\ temps' = temps \ {ino[h]}
  /\ since' = [since EXCEPT ![h] = Len(log) + 1]
  /\ Goto(h, "syncWrite")
  /\ UNCHANGED <<disk, data, dir, nxt, ino, result, told, orphans, faults>>

\* Mutant: the directory is opened but not synced.
SyncedNothing == disk

\* What a directory sync makes durable.
Synced == Len(log)

syncRoot(h) ==
  /\ at[h] \in {"syncWrite", "syncDelete"}
  /\ disk' = Synced
  /\ IF at[h] = "syncWrite" THEN Goto(h, "publish") /\ UNCHANGED <<result, told>>
     ELSE Return(h, "ok") /\ told' = told \cup {since[h]}
  /\ UNCHANGED <<log, data, dir, nxt, temps, ino, since, orphans, faults>>

\* PostUserCustomConf publishes the event, logs it if that fails, and answers.
Publish(h) ==
  /\ at[h] = "publish"
  /\ Return(h, "ok")
  /\ told' = told \cup {since[h]}
  /\ UNCHANGED <<log, disk, data, dir, nxt, temps, ino, since, orphans, faults>>

-----------------------------------------------------------------------------
(* Read *)

\* A missing file is an empty configuration.
InspectForRead(h) ==
  /\ at[h] = "read"
  /\ ino' = [ino EXCEPT ![h] = Entry]
  /\ CASE Entry = None       -> Return(h, "ok")
       [] ~Acceptable(Entry) -> Return(h, "failed")
       [] OTHER              -> Goto(h, "open") /\ UNCHANGED result
  /\ UNCHANGED <<fileVars, nxt, since, faults>>

\* Mutant: a file replaced between the two looks counts as missing.
OpenedLenient(before) == IF Entry # before THEN "missing" ELSE "same"

\* Open and Stat of the inspected file, with the SameFile comparison.
Opened(before) ==
  CASE Entry = None -> "missing"
    [] Entry # None /\ Entry = before -> "same"
    [] OTHER -> "changed"

OpenFile(h) ==
  /\ at[h] = "open"
  /\ \/ Opened(ino[h]) = "same" /\ Goto(h, "fetch") /\ UNCHANGED <<ino, result>>
     \/ Opened(ino[h]) = "changed" /\ Return(h, "failed") /\ UNCHANGED ino
     \/ /\ Opened(ino[h]) = "missing"
        /\ Return(h, "ok") /\ ino' = [ino EXCEPT ![h] = None]
  /\ UNCHANGED <<fileVars, nxt, since, faults>>

\* The open inode is read whatever has become of its name.
ReadAll(h) ==
  /\ at[h] = "fetch"
  /\ Return(h, "ok")
  /\ UNCHANGED <<fileVars, nxt, ino, since, faults>>

-----------------------------------------------------------------------------
(* Delete *)

InspectForDelete(h) ==
  /\ at[h] = "delete"
  /\ IF Entry # None /\ Acceptable(Entry) THEN Goto(h, "remove") /\ UNCHANGED result
     ELSE Return(h, "failed")
  /\ UNCHANGED <<fileVars, nxt, ino, since, faults>>

Remove(h) ==
  /\ at[h] = "remove"
  /\ \/ /\ Entry # None
        /\ log' = Append(log, None)
        /\ since' = [since EXCEPT ![h] = Len(log) + 1]
        /\ ino' = [ino EXCEPT ![h] = None]
        /\ Goto(h, "syncDelete") /\ UNCHANGED result
     \/ Entry = None /\ Return(h, "failed") /\ UNCHANGED <<log, since, ino>>
  /\ UNCHANGED <<disk, data, dir, nxt, temps, told, orphans, faults>>

-----------------------------------------------------------------------------
(* Failures *)

Fault == faults < MaxFaults /\ faults' = faults + 1

\* Mutant: the temporary file is removed only when filling it failed.
HoldsTemporaryToFill(h) == at[h] = "fill"

HoldsTemporary(h) == at[h] \in {"fill", "rename"}

\* A call fails.  The deferred function removes the temporary file, and ignores
\* that it could not.
Fail(h) ==
  /\ Fault /\ at[h] \notin {"idle", "publish"}
  /\ Return(h, "failed")
  /\ \/ /\ temps' = IF HoldsTemporary(h) THEN temps \ {ino[h]} ELSE temps
        /\ UNCHANGED orphans
     \/ /\ at[h] \in {"fill", "rename"}
        /\ orphans' = orphans \cup {ino[h]} /\ UNCHANGED temps
  /\ UNCHANGED <<log, disk, data, dir, nxt, ino, since, told>>

\* What was not synced may be lost: the entry goes back to some position that
\* may be on disk, and a new directory goes with all in it.  What a temporary file
\* holds before its Sync is never looked at.
PowerLoss ==
  /\ Fault
  /\ \E k \in disk .. Len(log) : log' = SubSeq(log, 1, k) /\ disk' = k
  /\ \/ dir = "made" /\ dir' = "missing" /\ temps' = {}
     \/ dir' = (IF dir = "made" THEN "stored" ELSE dir) /\ UNCHANGED temps
  /\ at' = [h \in Handler |-> "idle"]
  /\ result' = [h \in Handler |-> "none"]
  /\ orphans' = temps'
  /\ UNCHANGED <<data, nxt, ino, since, told>>

-----------------------------------------------------------------------------
Step(h) ==
  \/ openUserRoot(h)
  \/ InspectForWrite(h) \/ createTemporaryFile(h) \/ FillTemporary(h) \/ Rename(h)
  \/ syncRoot(h) \/ Publish(h)
  \/ InspectForRead(h) \/ OpenFile(h) \/ ReadAll(h)
  \/ InspectForDelete(h) \/ Remove(h)

Request(h) == GetUserCustomConf(h) \/ PostUserCustomConf(h) \/ DeleteUserCustomConf(h)

Next == PowerLoss \/ \E h \in Handler : Request(h) \/ Step(h) \/ Fail(h)

Spec == Init /\ [][Next]_vars

-----------------------------------------------------------------------------
(* Properties *)

\* A change that a response or a save_config event has reported stored is never
\* lost with the power, however many requests change the key at once.
ReportedIsDurable == \A k \in told : k <= disk

\* Every entry a loss of power can bring back names a complete file.
DiskIsWhole == \A k \in disk .. Len(log) : log[k] = None \/ data[log[k]] = "synced"

\* A successful answer is about one complete configuration, or about none, that
\* was the key's at some moment of the request: a GET that overlaps a replacement
\* fails rather than report a mixture or an absence that never was.
AnswersWereCurrent ==
  \A h \in Handler :
    result[h] = "ok" =>
      /\ ino[h] = None \/ data[ino[h]] = "synced"
      /\ \E k \in since[h] .. Len(log) : log[k] = ino[h]

\* Only a writer at work, or one cut off by a loss of power, has a temporary
\* file in the directory: every failure path removes its own.
NoStrayTemporaries ==
  temps \subseteq orphans \cup {ino[h] : h \in {g \in Handler : at[g] \in {"fill", "rename"}}}
==============================================================================
