--------------------------- MODULE ConfigStoreProofs ---------------------------
(***************************************************************************)
(* The safety of ConfigStore for any number of requests, changes and       *)
(* failures.                                                               *)
(***************************************************************************)
EXTENDS ConfigStoreRegister, TLAPS

\* Every file the entry has named is complete: a file is renamed into place
\* only once it is synced, and never changed after.
LogWhole == \A k \in 1 .. Len(log) : log[k] = None \/ data[log[k]] = "synced"

\* Nothing is renamed into a directory that may still be lost.
DirInv == dir # "stored" => Len(log) = 1 /\ log[1] = None

\* The file the request is about was the key's at some moment of it.
Shown(h) == \E k \in since[h] .. Len(log) : log[k] = ino[h]

\* What a request knows at each of its steps.
HandlerInv(h) ==
  /\ at[h] # "idle" \/ result[h] = "ok" => since[h] \in 1 .. Len(log)
  /\ at[h] \in {"openWrite", "write", "create", "fill", "rename"} => ino[h] \in Inode
  /\ at[h] = "rename" => data[ino[h]] = "synced" /\ dir = "stored"
  /\ at[h] \in {"syncWrite", "publish", "syncDelete"} => log[since[h]] = ino[h]
  /\ at[h] = "publish" => since[h] <= disk
  /\ at[h] \in {"open", "fetch"} => Shown(h)
  /\ at[h] = "openRead" => ino[h] = None
  /\ result[h] = "ok" => at[h] = "idle" /\ Shown(h)

IInv ==
  /\ TypeOK
  /\ LogWhole
  /\ ReportedIsDurable
  /\ NoStrayTemporaries
  /\ DirInv
  /\ \A h \in Handler : HandlerInv(h)

-----------------------------------------------------------------------------
\* The positions of a log of n entries, and the one added next.
LEMMA Positions ==
  ASSUME NEW n \in Nat
  PROVE  /\ n + 1 \in Nat /\ n + 1 >= n /\ n + 1 > 0 /\ n + 1 \in 1 .. n + 1 /\ n >= n
         /\ \A k \in 1 .. n : k \in Nat /\ k <= n /\ k > 0 /\ k \in 1 .. n + 1 /\ n \in 1 .. n
                              /\ k \in 1 .. k /\ k \in k .. n + 1
         /\ \A k \in 1 .. n + 1 : k \in 1 .. n \/ k = n + 1
  OBVIOUS

\* A position is among those from it to the end.
LEMMA Ahead == \A n \in Nat : \A k \in 1 .. n : k \in k .. n
  OBVIOUS

\* The log has positions, and one of them is durable.
LEMMA LogFacts ==
  ASSUME TypeOK
  PROVE  /\ log \in Seq(Inode \cup {None}) /\ Len(log) \in Nat /\ Len(log) >= 1
         /\ disk \in 1 .. Len(log)
<1>1. log \in Seq(Inode \cup {None}) /\ Len(log) > 0 /\ disk \in 1 .. Len(log)
  BY Zenon DEF TypeOK
<1> QED
  BY <1>1

\* The entry only moves on, and what is synced stays synced.
Onward ==
  /\ log' = log \/ \E i \in Inode \cup {None} : log' = Append(log, i)
  /\ disk' \in disk .. Len(log')
  /\ \A i \in Inode : data[i] = "synced" => data'[i] = "synced"
  /\ dir = "stored" => dir' = "stored"

\* Append leaves the earlier positions of the log alone.
LEMMA OnwardLog ==
  ASSUME TypeOK, Onward
  PROVE  /\ log' \in Seq(Inode \cup {None})
         /\ Len(log') >= Len(log)
         /\ \A k \in 1 .. Len(log) : log'[k] = log[k]
<1>1. log \in Seq(Inode \cup {None})
  BY Zenon DEF TypeOK
<1>2. CASE log' = log
  BY <1>1, <1>2
<1>3. CASE \E i \in Inode \cup {None} : log' = Append(log, i)
  BY <1>1, <1>3
<1> QED
  BY <1>2, <1>3, Zenon DEF Onward

\* A step of another request leaves what a request knows true.
LEMMA Frame ==
  ASSUME TypeOK, Onward, NEW h \in Handler, HandlerInv(h),
         at'[h] = at[h], ino'[h] = ino[h], since'[h] = since[h], result'[h] = result[h]
  PROVE  HandlerInv(h)'
<1>1. /\ Len(log) \in Nat /\ Len(log') \in Nat /\ Len(log') >= Len(log)
      /\ \A k \in 1 .. Len(log) : log'[k] = log[k]
  <2>1. log' \in Seq(Inode \cup {None}) /\ Len(log') >= Len(log)
        /\ \A k \in 1 .. Len(log) : log'[k] = log[k]
    BY OnwardLog, Zenon
  <2>2. Len(log') \in Nat
    BY <2>1
  <2> QED
    BY <2>1, <2>2, LogFacts, Zenon
<1>2. disk \in Nat /\ disk' \in Nat /\ disk' >= disk /\ since[h] \in Nat
  BY <1>1 DEF TypeOK, Onward
<1>3. at[h] # "idle" \/ result[h] = "ok" => since[h] \in 1 .. Len(log)
  BY Zenon DEF HandlerInv
<1>4. Shown(h) /\ since[h] \in 1 .. Len(log) => Shown(h)'
  BY <1>1, <1>2 DEF Shown
<1>5. at[h] = "rename" => data'[ino[h]] = "synced" /\ dir' = "stored"
  BY Zenon DEF HandlerInv, Onward
<1>6. at[h] \in {"syncWrite", "publish", "syncDelete"} => log'[since[h]] = ino[h]
  BY <1>1, <1>3, Zenon DEF HandlerInv
<1>7. at[h] = "publish" => since[h] <= disk'
  BY <1>2 DEF HandlerInv
<1>8. at[h] # "idle" \/ result[h] = "ok" => since[h] \in 1 .. Len(log')
  BY <1>1, <1>2, <1>3
<1>9. at[h] \in {"open", "fetch"} => Shown(h)'
  BY <1>3, <1>4, Zenon DEF HandlerInv
<1>10. result[h] = "ok" => at[h] = "idle" /\ Shown(h)'
  BY <1>3, <1>4, Zenon DEF HandlerInv
<1> QED
  BY <1>5, <1>6, <1>7, <1>8, <1>9, <1>10, Zenon DEF HandlerInv

\* The initial states satisfy the invariant.
LEMMA InitInv == Init => IInv
<1> SUFFICES ASSUME Init PROVE IInv
  OBVIOUS
<1> USE StoreAssumption DEF StoreAssumption
<1>0. /\ 1 \in Inode /\ 2 \in Inode /\ Len(log) = 1
      /\ log \in Seq(Inode \cup {None}) /\ log[1] \in {None, Legacy, Unsafe}
  <2>1. PICK i \in {None, Legacy, Unsafe} : log = <<i>>
    BY Zenon DEF Init
  <2>2. 1 \in Inode /\ 2 \in Inode
    BY DEF Inode
  <2>3. i \in Inode \cup {None}
    BY <2>2, Zenon DEF Legacy, Unsafe
  <2> QED
    BY <2>1, <2>2, <2>3
<1>1. TypeOK
  BY <1>0 DEF Init, TypeOK, Directory, Label, Result
<1>2. LogWhole
  <2>1. log[1] = None \/ data[log[1]] = "synced"
    BY <1>0, Zenon DEF Init, Legacy, Unsafe
  <2> QED
    BY <1>0, <2>1 DEF LogWhole
<1>3. ReportedIsDurable /\ NoStrayTemporaries
  BY Zenon DEF Init, ReportedIsDurable, NoStrayTemporaries
<1>4. DirInv
  BY <1>0 DEF Init, DirInv
<1>5. ASSUME NEW h \in Handler PROVE HandlerInv(h)
  BY Zenon DEF Init, HandlerInv
<1> QED
  BY <1>1, <1>2, <1>3, <1>4, <1>5 DEF IInv

-----------------------------------------------------------------------------
Others(h) ==
  \A g \in Handler \ {h} :
    at'[g] = at[g] /\ ino'[g] = ino[g] /\ since'[g] = since[g] /\ result'[g] = result[g]

Temporary(h) == at[h] \in {"fill", "rename"}

\* What is left to show of a step of one request.
LEMMA StepInv ==
  ASSUME IInv, NEW h \in Handler, Onward, Others(h), TypeOK', HandlerInv(h)',
         LogWhole', ReportedIsDurable', NoStrayTemporaries', DirInv'
  PROVE  IInv'
<1>1. ASSUME NEW g \in Handler PROVE HandlerInv(g)'
  <2>1. CASE g = h
    BY <2>1, Zenon
  <2>2. CASE g # h
    BY <2>2, Frame, Zenon DEF IInv, Others
  <2> QED
    BY <2>1, <2>2, Zenon
<1> QED
  BY <1>1, Zenon DEF IInv

\* A request that gives up its temporary file leaves it to no one but the orphans.
LEMMA NoStrays ==
  ASSUME NoStrayTemporaries, NEW h \in Handler, Others(h),
         temps' \subseteq temps, orphans \subseteq orphans',
         Temporary(h) => ino[h] \notin temps' \/ ino[h] \in orphans'
  PROVE  NoStrayTemporaries'
  BY DEF NoStrayTemporaries, Others, Temporary

\* A step that leaves the files alone: what is left is the request's own state.
LEMMA QuietInv ==
  ASSUME IInv, NEW h \in Handler, UNCHANGED fileVars, Others(h), ~Temporary(h),
         TypeOK', HandlerInv(h)'
  PROVE  IInv'
<1>1. Onward
  BY DEF IInv, TypeOK, Onward, fileVars
<1>2. LogWhole' /\ DirInv' /\ ReportedIsDurable'
  BY Zenon DEF IInv, LogWhole, DirInv, ReportedIsDurable, fileVars
<1>3. NoStrayTemporaries'
  BY NoStrays, Zenon DEF IInv, fileVars
<1> QED
  BY <1>1, <1>2, <1>3, StepInv, Zenon

\* A new request is numbered and remembers where the log stands.
LEMMA RequestInv ==
  ASSUME IInv, NEW h \in Handler, Request(h)
  PROVE  IInv'
<1> USE DEF Request, GetUserCustomConf, PostUserCustomConf, DeleteUserCustomConf, Numbered
<1>1. TypeOK'
  <2>1. nxt' \in 3 .. MaxChanges + 3
    <3>1. nxt \in 3 .. MaxChanges + 3 /\ (nxt' = nxt \/ (nxt \in Inode /\ nxt' = nxt + 1))
      BY Zenon DEF IInv, TypeOK
    <3> QED
      BY <3>1, StoreAssumption DEF StoreAssumption, Inode
  <2>2. at' \in [Handler -> Label] /\ result' \in [Handler -> Result]
    BY ZenonT(60) DEF IInv, TypeOK, Begin, Goto, Label, Result
  <2>3. ino' \in [Handler -> Inode \cup {None}]
    BY Zenon DEF IInv, TypeOK, Begin
  <2>4. since' \in [Handler -> Nat]
    <3>1. Len(log) \in Nat
      BY LogFacts, Zenon DEF IInv
    <3> QED
      BY <3>1, Zenon DEF IInv, TypeOK, Begin
  <2> QED
    BY <2>1, <2>2, <2>3, <2>4, Zenon DEF IInv, TypeOK, Begin, fileVars
<1>2. HandlerInv(h)'
  <2>1. /\ at'[h] \in {"openRead", "openWrite", "openDelete"} /\ result'[h] = "none"
        /\ since'[h] = Len(log) /\ log' = log
        /\ at'[h] = "openRead" => ino'[h] = None
        /\ at'[h] = "openWrite" => ino'[h] \in Inode
    BY ZenonT(60) DEF IInv, TypeOK, Begin, Goto, fileVars
  <2>2. Len(log) \in 1 .. Len(log)
    BY LogFacts DEF IInv
  <2> QED
    BY <2>1, <2>2, Zenon DEF HandlerInv
<1>3. Others(h)
  BY ZenonT(60) DEF IInv, TypeOK, Begin, Goto, Others
<1> QED
  BY <1>1, <1>2, <1>3, QuietInv, Zenon DEF Begin, Temporary

\* The inspections, the open and the read of a GET.
LEMMA LookInv ==
  ASSUME IInv, NEW h \in Handler,
         InspectForWrite(h) \/ InspectForDelete(h) \/ InspectForRead(h) \/ OpenFile(h)
           \/ ReadAll(h)
  PROVE  IInv'
<1>0. Len(log) \in Nat /\ Len(log) >= 1 /\ Entry \in Inode \cup {None}
  BY DEF IInv, TypeOK, Entry
<1>1. TypeOK'
  <2>1. CASE InspectForWrite(h) \/ InspectForDelete(h) \/ ReadAll(h)
    BY <2>1, ZenonT(60) DEF IInv, TypeOK, InspectForWrite, InspectForDelete, ReadAll, Goto, Return,
                Label, Result, fileVars
  <2>2. CASE InspectForRead(h)
    BY <2>2, <1>0, ZenonT(60) DEF IInv, TypeOK, InspectForRead, Goto, Return, Label, Result, fileVars
  <2>3. CASE OpenFile(h)
    BY <2>3, Zenon DEF IInv, TypeOK, OpenFile, Goto, Return, Label, Result, fileVars
  <2> QED
    BY <2>1, <2>2, <2>3, Zenon
<1>2. Others(h)
  <2>1. CASE InspectForWrite(h) \/ InspectForDelete(h) \/ ReadAll(h)
    BY <2>1, Zenon DEF IInv, TypeOK, InspectForWrite, InspectForDelete, ReadAll, Goto, Return, Others
  <2>2. CASE InspectForRead(h)
    BY <2>2, Zenon DEF IInv, TypeOK, InspectForRead, Goto, Return, Others
  <2>3. CASE OpenFile(h)
    BY <2>3, ZenonT(60) DEF IInv, TypeOK, OpenFile, Goto, Return, Others
  <2> QED
    BY <2>1, <2>2, <2>3, Zenon
<1>3. HandlerInv(h)'
  <2>0. HandlerInv(h)
    BY Zenon DEF IInv
  <2>1. CASE InspectForWrite(h) \/ InspectForDelete(h)
    <3>1. at[h] \in {"write", "delete"} /\ UNCHANGED <<fileVars, nxt, ino, since, faults>>
      BY <2>1, Zenon DEF InspectForWrite, InspectForDelete
    <3>2. \/ at'[h] = (IF at[h] = "write" THEN "create" ELSE "remove") /\ result'[h] = result[h]
          \/ at'[h] = "idle" /\ result'[h] = "failed"
      BY <2>1, Zenon DEF IInv, TypeOK, InspectForWrite, InspectForDelete, Goto, Return
    <3> QED
      BY <2>0, <3>1, <3>2 DEF HandlerInv, fileVars
  <2>2. CASE InspectForRead(h)
    <3>1. since[h] \in 1 .. Len(log)
      BY <2>0, <2>2, Zenon DEF HandlerInv, InspectForRead
    <3>2. ino'[h] = Entry /\ UNCHANGED <<log, since>>
      BY <2>2, Zenon DEF IInv, TypeOK, InspectForRead, fileVars
    <3>3. Shown(h)'
      BY <3>1, <3>2, <1>0 DEF Shown, Entry
    <3> QED
      BY <2>0, <2>2, <3>1, <3>3 DEF IInv, TypeOK, InspectForRead, Goto, Return,
                                     HandlerInv, fileVars
  <2>3. CASE OpenFile(h)
    <3>1. since[h] \in 1 .. Len(log) /\ Shown(h)
      BY <2>0, <2>3, Zenon DEF HandlerInv, OpenFile
    <3>2. UNCHANGED <<log, since>>
          /\ (ino'[h] = ino[h] \/ (ino'[h] = None /\ Opened(ino[h]) = "missing"))
      BY <2>3, Zenon DEF IInv, TypeOK, OpenFile, fileVars
    <3>3. Opened(ino[h]) = "missing" => Entry = None
      BY Zenon DEF Opened
    <3>4. Shown(h)'
      BY <3>1, <3>2, <3>3, <1>0 DEF Shown, Entry
    <3> QED
      BY <2>0, <2>3, <3>1, <3>4, ZenonT(60) DEF IInv, TypeOK, OpenFile, Goto, Return,
                                     HandlerInv, fileVars
  <2>4. CASE ReadAll(h)
    <3>1. since[h] \in 1 .. Len(log) /\ Shown(h)
      BY <2>0, <2>4, Zenon DEF HandlerInv, ReadAll
    <3>2. Shown(h)'
      BY <2>4, <3>1, Zenon DEF ReadAll, Shown, fileVars
    <3> QED
      BY <2>0, <2>4, <3>1, <3>2, Zenon DEF IInv, TypeOK, ReadAll, Return, HandlerInv, fileVars
  <2> QED
    BY <2>1, <2>2, <2>3, <2>4, Zenon
<1>4. UNCHANGED fileVars /\ ~Temporary(h)
  BY Zenon DEF InspectForWrite, InspectForDelete, InspectForRead, OpenFile, ReadAll, Temporary
<1> QED
  BY <1>1, <1>2, <1>3, <1>4, QuietInv, Zenon

\* openUserRoot may create the directory; the key has no file then.
LEMMA OpenRootInv ==
  ASSUME IInv, NEW h \in Handler, openUserRoot(h)
  PROVE  IInv'
<1>0. HandlerInv(h) /\ DirInv
  BY DEF IInv
<1>1. TypeOK'
  BY ZenonT(60) DEF IInv, TypeOK, openUserRoot, Goto, Return, Label, Result, Directory
<1>2. Onward
  BY DEF IInv, TypeOK, openUserRoot, Onward
<1>3. Others(h)
  BY DEF IInv, TypeOK, openUserRoot, Goto, Return, Others
<1>4. HandlerInv(h)'
  <2>1. since[h] \in 1 .. Len(log)
    BY <1>0, Zenon DEF HandlerInv, openUserRoot
  <2>2. dir = "missing" /\ at[h] = "openRead" => Shown(h)'
    <3> SUFFICES ASSUME dir = "missing", at[h] = "openRead" PROVE Shown(h)'
      OBVIOUS
    <3>1. Len(log) = 1 /\ log[1] = None /\ ino[h] = None
      BY <1>0, Zenon DEF DirInv, HandlerInv
    <3>2. UNCHANGED <<log, ino, since>>
      BY Zenon DEF openUserRoot
    <3>3. since[h] = 1
      BY <2>1, <3>1
    <3>4. since'[h] = 1 /\ Len(log') = 1 /\ log'[1] = ino'[h]
      BY <3>1, <3>2, <3>3, Zenon
    <3>5. 1 \in since'[h] .. Len(log')
      BY <3>4
    <3> QED
      BY <3>4, <3>5, Zenon DEF Shown
  <2>3. UNCHANGED <<log, disk, data, ino, since>> /\ at[h] \in {"openWrite", "openRead", "openDelete"}
    BY Zenon DEF openUserRoot
  <2>4. at'[h] \in {"write", "read", "delete", "idle"} /\ (at'[h] = "write" => at[h] = "openWrite")
    BY Zenon DEF IInv, TypeOK, openUserRoot, Goto, Return
  <2>5. result'[h] = "ok" => result[h] = "ok" \/ (dir = "missing" /\ at[h] = "openRead" /\ at'[h] = "idle")
    BY Zenon DEF IInv, TypeOK, openUserRoot, Goto, Return
  <2> QED
    BY <1>0, <2>1, <2>2, <2>3, <2>4, <2>5, Zenon DEF HandlerInv
<1>5. LogWhole' /\ ReportedIsDurable' /\ DirInv'
  BY Zenon DEF IInv, LogWhole, ReportedIsDurable, DirInv, openUserRoot
<1>6. NoStrayTemporaries'
  <2>1. ~Temporary(h)
    BY Zenon DEF openUserRoot, Temporary
  <2> QED
    BY <2>1, <1>3 DEF IInv, NoStrayTemporaries, openUserRoot, Others, Temporary
<1> QED
  BY <1>1, <1>2, <1>3, <1>4, <1>5, <1>6, StepInv, Zenon

\* The temporary file is created, and filled and synced.
LEMMA TemporaryInv ==
  ASSUME IInv, NEW h \in Handler, createTemporaryFile(h) \/ FillTemporary(h)
  PROVE  IInv'
<1>0. HandlerInv(h) /\ ino[h] \in Inode
  BY Zenon DEF IInv, HandlerInv, createTemporaryFile, FillTemporary
<1>1. TypeOK'
  BY <1>0, Zenon DEF IInv, TypeOK, createTemporaryFile, FillTemporary, Filled, Goto, Label, Directory
<1>2. Onward
  BY <1>0 DEF IInv, TypeOK, createTemporaryFile, FillTemporary, Filled, Onward
<1>3. Others(h)
  BY Zenon DEF IInv, TypeOK, createTemporaryFile, FillTemporary, Goto, Others
<1>4. HandlerInv(h)'
  BY <1>0 DEF IInv, TypeOK, createTemporaryFile, FillTemporary, Filled, Goto, HandlerInv
<1>5. LogWhole'
  <2>1. \A k \in 1 .. Len(log) : log[k] \in Inode \cup {None}
    BY DEF IInv, TypeOK
  <2>2. log' = log
    BY Zenon DEF createTemporaryFile, FillTemporary
  <2> QED
    BY <2>1, <2>2, <1>2, Zenon DEF IInv, LogWhole, Onward
<1>6. ReportedIsDurable' /\ DirInv'
  BY Zenon DEF IInv, ReportedIsDurable, DirInv, createTemporaryFile, FillTemporary
<1>7. NoStrayTemporaries'
  BY <1>0, <1>3 DEF IInv, TypeOK, NoStrayTemporaries, createTemporaryFile, FillTemporary,
                    Goto, Others
<1> QED
  BY <1>1, <1>2, <1>3, <1>4, <1>5, <1>6, <1>7, StepInv, Zenon

\* The rename installs a synced file at the end of the log.
LEMMA RenameInv ==
  ASSUME IInv, NEW h \in Handler, Rename(h)
  PROVE  IInv'
<1>0. HandlerInv(h) /\ ino[h] \in Inode /\ data[ino[h]] = "synced" /\ dir = "stored"
  BY Zenon DEF IInv, HandlerInv, Rename
<1>1. /\ log' = Append(log, ino[h]) /\ log' \in Seq(Inode \cup {None})
      /\ Len(log) \in Nat /\ Len(log) >= 1 /\ Len(log') = Len(log) + 1
      /\ \A k \in 1 .. Len(log) : log'[k] = log[k]
      /\ log'[Len(log) + 1] = ino[h]
  <2>1. log \in Seq(Inode \cup {None}) /\ Len(log) \in Nat /\ Len(log) >= 1
    BY LogFacts, Zenon DEF IInv
  <2>2. log' = Append(log, ino[h]) /\ ino[h] \in Inode \cup {None}
    BY <1>0, Zenon DEF Rename
  <2> QED
    BY <2>1, <2>2
<1>2. TypeOK'
  <2>1. disk' \in 1 .. Len(log') /\ Len(log') > 0
    <3>1. disk \in 1 .. Len(log) + 1 /\ Len(log) + 1 > 0
      BY <1>1, LogFacts, Positions, Zenon DEF IInv
    <3> QED
      BY <1>1, <3>1, Zenon DEF Rename
  <2>2. at' \in [Handler -> Label] /\ temps' \subseteq Inode
    BY Zenon DEF IInv, TypeOK, Rename, Goto, Label
  <2>3. since' \in [Handler -> Nat]
    <3>1. Len(log) + 1 \in Nat
      BY <1>1, Positions, Zenon
    <3> QED
      BY <3>1, Zenon DEF IInv, TypeOK, Rename
  <2> QED
    BY <1>1, <2>1, <2>2, <2>3, Zenon DEF IInv, TypeOK, Rename
<1>3. Onward
  <2>1. disk' \in disk .. Len(log')
    BY <1>1, LogFacts, Positions, Zenon DEF IInv, Rename
  <2> QED
    BY <1>0, <1>1, <2>1, Zenon DEF Rename, Onward
<1>4. Others(h)
  BY Zenon DEF IInv, TypeOK, Rename, Goto, Others
<1>5. HandlerInv(h)'
  <2>1. at'[h] = "syncWrite" /\ since'[h] = Len(log) + 1 /\ ino' = ino /\ result' = result
    BY Zenon DEF IInv, TypeOK, Rename, Goto
  <2>2. result[h] # "ok"
    BY <1>0, Zenon DEF HandlerInv, Rename
  <2> QED
    <3>1. since'[h] \in 1 .. Len(log') /\ log'[since'[h]] = ino'[h] /\ result'[h] # "ok"
      <4>1. Len(log) + 1 \in 1 .. Len(log) + 1
        BY <1>1, Positions, Zenon
      <4> QED
        BY <1>1, <2>1, <2>2, <4>1, Zenon
    <3> QED
      BY <2>1, <3>1, Zenon DEF HandlerInv
<1>6. LogWhole'
  BY <1>0, <1>1, Positions, ZenonT(60) DEF IInv, LogWhole, Rename
<1>7. ReportedIsDurable' /\ DirInv'
  BY <1>0, Zenon DEF IInv, ReportedIsDurable, DirInv, Rename
<1>8. NoStrayTemporaries'
  BY <1>4, NoStrays, Zenon DEF IInv, Rename
<1> QED
  BY <1>2, <1>3, <1>4, <1>5, <1>6, <1>7, <1>8, StepInv, Zenon

\* The sync of the directory makes the whole log durable, and the answer or the
\* event that follows reports a position it covers.
LEMMA SyncInv ==
  ASSUME IInv, NEW h \in Handler, syncRoot(h)
  PROVE  IInv'
<1>0. /\ HandlerInv(h) /\ Len(log) \in Nat /\ Len(log) >= 1
      /\ since[h] \in 1 .. Len(log) /\ log[since[h]] = ino[h]
      /\ disk \in 1 .. Len(log)
  <2>1. HandlerInv(h) /\ TypeOK
    BY Zenon DEF IInv
  <2>2. since[h] \in 1 .. Len(log) /\ log[since[h]] = ino[h]
    BY <2>1, Zenon DEF HandlerInv, syncRoot
  <2> QED
    BY <2>1, <2>2, LogFacts, Zenon
<1>1. TypeOK'
  <2>0. disk' \in 1 .. Len(log')
    BY <1>0, Positions, Zenon DEF syncRoot, Synced
  <2>1. told' \subseteq Nat
    <3>1. told' \subseteq told \cup {since[h]}
      BY Zenon DEF syncRoot
    <3> QED
      <4>1. since[h] \in Nat /\ told \subseteq Nat
        BY Zenon DEF IInv, TypeOK
      <4> QED
        BY <3>1, <4>1, Zenon
  <2>2. at' \in [Handler -> Label]
    <3>1. \E label \in Label : at' = [at EXCEPT ![h] = label]
      BY DEF syncRoot, Goto, Return, Label
    <3> QED
      BY <3>1, Zenon DEF IInv, TypeOK
  <2>3. result' \in [Handler -> Result]
    BY Zenon DEF IInv, TypeOK, syncRoot, Goto, Return, Result
  <2> QED
    BY <2>0, <2>1, <2>2, <2>3, Zenon DEF IInv, TypeOK, syncRoot
<1>2. Onward
  <2>1. disk' \in disk .. Len(log')
    <3>1. \A n \in Nat : \A k \in 1 .. n : n \in k .. n
      OBVIOUS
    <3> QED
      BY <1>0, <3>1, Zenon DEF syncRoot, Synced
  <2> QED
    BY <2>1, Zenon DEF syncRoot, Onward
<1>3. Others(h)
  BY Zenon DEF IInv, TypeOK, syncRoot, Goto, Return, Others
<1>4. HandlerInv(h)'
  <2>1. Shown(h)'
    <3>1. since'[h] = since[h] /\ log' = log /\ ino'[h] = ino[h] /\ since[h] \in since[h] .. Len(log)
      BY <1>0, Ahead, Zenon DEF syncRoot
    <3> QED
      BY <1>0, <3>1, Zenon DEF Shown
  <2>2. since[h] <= disk'
    BY <1>0, Positions, Zenon DEF syncRoot, Synced
  <2>3. UNCHANGED <<log, since, ino>>
        /\ \/ at[h] = "syncWrite" /\ at'[h] = "publish" /\ result'[h] = result[h]
           \/ at[h] = "syncDelete" /\ at'[h] = "idle" /\ result'[h] = "ok"
    BY Zenon DEF IInv, TypeOK, syncRoot, Goto, Return
  <2> QED
    BY <1>0, <2>1, <2>2, <2>3, ZenonT(60) DEF HandlerInv
<1>5. LogWhole' /\ DirInv'
  BY Zenon DEF IInv, LogWhole, DirInv, syncRoot
<1>6. ReportedIsDurable'
  <2>1. \A k \in told : k \in Nat /\ k <= disk
    BY Zenon DEF IInv, TypeOK, ReportedIsDurable
  <2>2. disk' = Len(log) /\ told' \subseteq told \cup {since[h]}
    BY Zenon DEF syncRoot, Synced
  <2> QED
    BY <1>0, <2>1, <2>2 DEF ReportedIsDurable
<1>7. NoStrayTemporaries'
  BY <1>3, NoStrays, Zenon DEF IInv, syncRoot, Temporary
<1> QED
  BY <1>1, <1>2, <1>3, <1>4, <1>5, <1>6, <1>7, StepInv, Zenon

\* The event and the answer of a POST.
LEMMA PublishInv ==
  ASSUME IInv, NEW h \in Handler, Publish(h)
  PROVE  IInv'
<1>0. /\ HandlerInv(h) /\ since[h] \in 1 .. Len(log) /\ log[since[h]] = ino[h]
      /\ since[h] <= disk
  BY Zenon DEF IInv, HandlerInv, Publish
<1>1. TypeOK'
  BY Zenon DEF IInv, TypeOK, Publish, Return, Label, Result
<1>2. Onward
  BY DEF IInv, TypeOK, Publish, Onward
<1>3. Others(h)
  BY Zenon DEF IInv, TypeOK, Publish, Return, Others
<1>4. HandlerInv(h)'
  <2>1. Shown(h)'
    BY <1>0, Ahead, LogFacts, Zenon DEF Shown, Publish, IInv
  <2> QED
    BY <1>0, <2>1, Zenon DEF IInv, TypeOK, Publish, Return, HandlerInv
<1>5. LogWhole' /\ DirInv'
  BY Zenon DEF IInv, LogWhole, DirInv, Publish
<1>6. ReportedIsDurable'
  BY <1>0, Zenon DEF IInv, ReportedIsDurable, Publish
<1>7. NoStrayTemporaries'
  BY <1>3, NoStrays, Zenon DEF IInv, Publish, Temporary
<1> QED
  BY <1>1, <1>2, <1>3, <1>4, <1>5, <1>6, <1>7, StepInv, Zenon

\* The removal ends the log with None, or finds nothing to remove.
LEMMA RemoveInv ==
  ASSUME IInv, NEW h \in Handler, Remove(h)
  PROVE  IInv'
<1>0. /\ HandlerInv(h) /\ result[h] # "ok" /\ at[h] = "remove"
      /\ Len(log) \in Nat /\ Len(log) >= 1
  BY LogFacts, Zenon DEF IInv, HandlerInv, Remove
<1>1. CASE Entry = None
  <2>1. TypeOK' /\ Others(h) /\ ~Temporary(h)
    BY <1>0, <1>1, Zenon DEF IInv, TypeOK, Remove, Return, Others, Label, Result, Temporary
  <2>2. UNCHANGED fileVars
    BY <1>1, Zenon DEF Remove, fileVars
  <2>3. HandlerInv(h)'
    BY <1>0, <1>1, ZenonT(60) DEF IInv, TypeOK, Remove, Return, HandlerInv
  <2> QED
    BY <2>1, <2>2, <2>3, QuietInv, Zenon
<1>2. CASE Entry # None
  <2>1. /\ log' = Append(log, None) /\ log' \in Seq(Inode \cup {None})
        /\ Len(log') = Len(log) + 1
        /\ \A k \in 1 .. Len(log) : log'[k] = log[k]
        /\ log'[Len(log) + 1] = None
    <3>1. log' = Append(log, None) /\ log \in Seq(Inode \cup {None})
      BY <1>2, Zenon DEF IInv, TypeOK, Remove
    <3> QED
      BY <3>1
  <2>2. TypeOK'
    <3>1. disk' \in 1 .. Len(log') /\ Len(log') > 0
      BY <1>0, <2>1, LogFacts, Positions, Zenon DEF IInv, Remove
    <3>2. at' \in [Handler -> Label] /\ ino' \in [Handler -> Inode \cup {None}]
      BY <1>2, Zenon DEF IInv, TypeOK, Remove, Goto, Label
    <3>3. since' \in [Handler -> Nat]
      <4>1. since' = [since EXCEPT ![h] = Len(log) + 1]
        BY <1>2, Zenon DEF Remove
      <4> QED
        BY <1>0, <4>1, Positions, Zenon DEF IInv, TypeOK
    <3>4. UNCHANGED <<data, dir, nxt, temps, result, told, orphans, faults>>
      BY <1>2, Zenon DEF Remove
    <3> QED
      BY <2>1, <3>1, <3>2, <3>3, <3>4, Zenon DEF IInv, TypeOK
  <2>3. Onward
    <3>1. disk' \in disk .. Len(log')
      BY <1>0, <2>1, LogFacts, Positions, Zenon DEF IInv, Remove
    <3> QED
      BY <2>1, <3>1, Zenon DEF Remove, Onward
  <2>4. Others(h)
    BY <1>2, Zenon DEF IInv, TypeOK, Remove, Goto, Others
  <2>5. HandlerInv(h)'
    <3>1. at'[h] = "syncDelete" /\ since'[h] = Len(log) + 1 /\ ino'[h] = None
          /\ result' = result
      BY <1>2, Zenon DEF IInv, TypeOK, Remove, Goto
    <3> QED
      <4>1. since'[h] \in 1 .. Len(log') /\ log'[since'[h]] = ino'[h] /\ result'[h] # "ok"
        <5>1. Len(log) + 1 \in 1 .. Len(log) + 1
          BY <1>0, Positions, Zenon
        <5> QED
          BY <1>0, <2>1, <3>1, <5>1, Zenon
      <4> QED
        BY <3>1, <4>1, Zenon DEF HandlerInv
  <2>6. LogWhole'
    BY <1>0, <2>1, Positions, ZenonT(60) DEF IInv, LogWhole, Remove
  <2>7. ReportedIsDurable'
    BY Zenon DEF IInv, ReportedIsDurable, Remove
  <2>8. DirInv'
    BY <1>2, Zenon DEF IInv, DirInv, Remove, Entry
  <2>9. NoStrayTemporaries'
    BY <2>4, NoStrays, Zenon DEF IInv, Remove, Temporary
  <2> QED
    BY <2>2, <2>3, <2>4, <2>5, <2>6, <2>7, <2>8, <2>9, StepInv, Zenon
<1> QED
  BY <1>1, <1>2, Zenon

\* A failed call ends its request, and gives up its temporary file.
LEMMA FailInv ==
  ASSUME IInv, NEW h \in Handler, Fail(h)
  PROVE  IInv'
<1>1. TypeOK'
  <2>1. faults' \in 0 .. MaxFaults
    BY StoreAssumption DEF StoreAssumption, IInv, TypeOK, Fail, Fault
  <2>2. at' \in [Handler -> Label] /\ result' \in [Handler -> Result]
    BY Zenon DEF IInv, TypeOK, Fail, Return, Label, Result
  <2>3. temps' \subseteq Inode /\ orphans' \subseteq Inode
    <3>1. at[h] \in {"fill", "rename"} => ino[h] \in Inode
      BY Zenon DEF IInv, HandlerInv
    <3> QED
      BY <3>1, Zenon DEF IInv, TypeOK, Fail
  <2> QED
    BY <2>1, <2>2, <2>3, Zenon DEF IInv, TypeOK, Fail
<1>2. Onward
  BY DEF IInv, TypeOK, Fail, Onward
<1>3. Others(h)
  BY Zenon DEF IInv, TypeOK, Fail, Return, Others
<1>4. HandlerInv(h)'
  <2>1. at'[h] = "idle" /\ result'[h] = "failed"
    BY Zenon DEF IInv, TypeOK, Fail, Return
  <2> QED
    BY <2>1, Zenon DEF HandlerInv
<1>5. LogWhole' /\ ReportedIsDurable' /\ DirInv'
  BY Zenon DEF IInv, LogWhole, ReportedIsDurable, DirInv, Fail
<1>6. NoStrayTemporaries'
  <2>1. temps' \subseteq temps /\ orphans \subseteq orphans'
    BY Zenon DEF Fail
  <2>2. at[h] \in {"fill", "rename"} => ino[h] \notin temps' \/ ino[h] \in orphans'
    BY Zenon DEF Fail, HoldsTemporary
  <2> QED
    BY <1>3, <2>1, <2>2, NoStrays, Zenon DEF IInv, Temporary
<1> QED
  BY <1>1, <1>2, <1>3, <1>4, <1>5, <1>6, StepInv, Zenon

\* A loss of power cuts the log back, never behind what is on disk.
LEMMA PowerLossInv ==
  ASSUME IInv, PowerLoss
  PROVE  IInv'
<1>1. PICK k \in disk .. Len(log) : log' = SubSeq(log, 1, k) /\ disk' = k
  BY Zenon DEF PowerLoss
<1>2. log \in Seq(Inode \cup {None}) /\ disk \in 1 .. Len(log) /\ Len(log) \in Nat
  BY LogFacts, Zenon DEF IInv
<1>3. k \in 1 .. Len(log)
  BY <1>2
<1>4. /\ log' \in Seq(Inode \cup {None}) /\ Len(log') = k
      /\ \A j \in 1 .. k : log'[j] = log[j]
  BY <1>1, <1>2, <1>3
<1>5. /\ data' \in [Inode -> {"none", "synced"}]
      /\ \A i \in Inode : data[i] = "synced" => data'[i] = "synced"
  BY Zenon DEF IInv, TypeOK, PowerLoss
<1>6. TypeOK'
  <2>1. faults' \in 0 .. MaxFaults
    BY StoreAssumption DEF StoreAssumption, IInv, TypeOK, PowerLoss, Fault
  <2>2. at' \in [Handler -> Label] /\ result' \in [Handler -> Result]
    BY Zenon DEF PowerLoss, Label, Result
  <2>3. dir' \in Directory /\ temps' \subseteq Inode /\ orphans' \subseteq Inode
    BY Zenon DEF IInv, TypeOK, PowerLoss, Directory
  <2> QED
    <3>1. disk' \in 1 .. Len(log') /\ Len(log') > 0
      BY <1>1, <1>2, <1>3, <1>4, Positions, Zenon
    <3> QED
      BY <1>4, <1>5, <2>1, <2>2, <2>3, <3>1, Zenon DEF IInv, TypeOK, PowerLoss
<1>7. LogWhole'
  <2>1. \A j \in 1 .. k : log[j] \in Inode \cup {None} /\ j \in 1 .. Len(log)
    BY <1>2, <1>3
  <2> QED
    BY <1>4, <1>5, <2>1, Zenon DEF IInv, LogWhole
<1>8. ReportedIsDurable'
  <2>1. \A j \in told : j \in Nat /\ j <= disk
    BY Zenon DEF IInv, TypeOK, ReportedIsDurable
  <2>2. told' = told /\ disk' = k /\ k \in Nat /\ disk \in Nat /\ disk <= k
    BY <1>1, <1>2, <1>3 DEF PowerLoss
  <2> QED
    BY <2>1, <2>2 DEF ReportedIsDurable
<1>9. NoStrayTemporaries'
  BY Zenon DEF PowerLoss, NoStrayTemporaries
<1>10. DirInv'
  <2>1. dir' # "stored" => dir # "stored"
    BY Zenon DEF PowerLoss
  <2>2. Len(log) = 1 /\ log[1] = None => k = 1 /\ log'[1] = None
    BY <1>3, <1>4
  <2> QED
    BY <1>4, <2>1, <2>2, Zenon DEF IInv, DirInv
<1>11. ASSUME NEW h \in Handler PROVE HandlerInv(h)'
  BY Zenon DEF PowerLoss, HandlerInv
<1> QED
  BY <1>6, <1>7, <1>8, <1>9, <1>10, <1>11, Zenon DEF IInv

\* A stuttering step.
LEMMA StutterInv ==
  ASSUME IInv, UNCHANGED vars
  PROVE  IInv'
<1>1. TypeOK' /\ LogWhole' /\ ReportedIsDurable' /\ NoStrayTemporaries' /\ DirInv'
  BY DEF IInv, vars, TypeOK, LogWhole, ReportedIsDurable, NoStrayTemporaries, DirInv
<1>2. ASSUME NEW h \in Handler PROVE HandlerInv(h)'
  BY DEF IInv, vars, HandlerInv, Shown
<1> QED
  BY <1>1, <1>2, Zenon DEF IInv

\* The invariant holds in every reachable state of the store.
THEOREM Invariance == Spec => []IInv
<1>1. Init => IInv
  BY InitInv, Zenon
<1>2. IInv /\ [Next]_vars => IInv'
  <2> SUFFICES ASSUME IInv, [Next]_vars PROVE IInv'
    OBVIOUS
  <2>1. CASE UNCHANGED vars
    BY <2>1, StutterInv, Zenon
  <2>2. CASE PowerLoss
    BY <2>2, PowerLossInv, Zenon
  <2>3. ASSUME NEW h \in Handler, Request(h) \/ Fail(h) PROVE IInv'
    BY <2>3, RequestInv, FailInv, Zenon
  <2>4. ASSUME NEW h \in Handler, Step(h) PROVE IInv'
    BY <2>4, OpenRootInv, LookInv, TemporaryInv, RenameInv, SyncInv, PublishInv, RemoveInv
       DEF Step
  <2> QED
    BY <2>1, <2>2, <2>3, <2>4, Zenon DEF Next
<1> QED
  BY <1>1, <1>2, PTL DEF Spec

\* Every variable keeps its type.
THEOREM TypeCorrect == Spec => []TypeOK
<1>1. IInv => TypeOK
  BY Zenon DEF IInv
<1> QED
  BY <1>1, Invariance, PTL

\* What PostUserCustomConf, its save_config event or DeleteUserCustomConf has
\* reported stored is on disk.
THEOREM ReportedIsDurableHolds == Spec => []ReportedIsDurable
<1>1. IInv => ReportedIsDurable
  BY Zenon DEF IInv
<1> QED
  BY <1>1, Invariance, PTL

\* Whatever entry a loss of power brings back names a complete file, because
\* Write syncs the temporary file before it renames it.
THEOREM DiskIsWholeHolds == Spec => []DiskIsWhole
<1>1. IInv => DiskIsWhole
  BY DEF IInv, TypeOK, LogWhole, DiskIsWhole
<1> QED
  BY <1>1, Invariance, PTL

\* Every successful answer is about a complete file, or an absence, of a moment
\* of its request.
THEOREM AnswersWereCurrentHolds == Spec => []AnswersWereCurrent
<1>1. ASSUME IInv, NEW h \in Handler, result[h] = "ok"
      PROVE  /\ ino[h] = None \/ data[ino[h]] = "synced"
             /\ \E k \in since[h] .. Len(log) : log[k] = ino[h]
  <2>1. since[h] \in 1 .. Len(log) /\ Shown(h)
    BY <1>1, Zenon DEF IInv, HandlerInv
  <2>2. PICK k \in since[h] .. Len(log) : log[k] = ino[h]
    BY <2>1, Zenon DEF Shown
  <2>3. k \in 1 .. Len(log)
    BY <1>1, <2>1 DEF IInv, TypeOK
  <2> QED
    BY <1>1, <2>2, <2>3, Zenon DEF IInv, LogWhole
<1>2. IInv => AnswersWereCurrent
  BY <1>1 DEF AnswersWereCurrent
<1> QED
  BY <1>2, Invariance, PTL

\* Write's failure paths leave no temporary file behind.
THEOREM NoStrayTemporariesHolds == Spec => []NoStrayTemporaries
<1>1. IInv => NoStrayTemporaries
  BY Zenon DEF IInv
<1> QED
  BY <1>1, Invariance, PTL

-----------------------------------------------------------------------------
(* ConfigStore implements DurableRegister: every step of the store is a step *)
(* of the register or leaves it unchanged. *)

\* The initial states map to initial states.
LEMMA InitMaps == Init => Register!Init
<1> SUFFICES ASSUME Init PROVE Register!Init
  OBVIOUS
<1>1. PICK v \in {None, Legacy, Unsafe} : log = <<v>>
  BY Zenon DEF Init
<1>2. 1 \in Inode /\ 2 \in Inode
  BY StoreAssumption DEF StoreAssumption, Inode
<1>3. v \in Inode \cup {None} /\ log[1] = v /\ (v = None \/ data[v] = "synced")
  BY <1>1, <1>2, Zenon DEF Legacy, Unsafe, Init
<1>4. log[1] \in Complete \cup {None} /\ Complete \subseteq Inode
  BY <1>3, Zenon DEF Complete
<1>5. Pending = {} /\ Changed = {} /\ Answer = [h \in Handler |-> {}]
  BY Zenon DEF Init, Pending, Changed, Answer
<1> QED
  BY <1>1, <1>3, <1>4, <1>5, Zenon DEF Init, Register!Init

-----------------------------------------------------------------------------
\* How a request's next step shows in the sets of the register.
LEMMA Moves ==
  ASSUME TypeOK, NEW h \in Handler, NEW l, at' = [at EXCEPT ![h] = l]
  PROVE  /\ Pending' = IF l = "idle" THEN Pending \ {h} ELSE Pending \cup {h}
         /\ Changed' = IF l \in {"syncWrite", "publish", "syncDelete"}
                        THEN Changed \cup {h} ELSE Changed \ {h}
  BY Zenon DEF TypeOK, Pending, Changed

\* How a result shows in the answers.
LEMMA Answers ==
  ASSUME TypeOK, NEW h \in Handler, NEW r, result' = [result EXCEPT ![h] = r],
         \A g \in Handler \ {h} : ino'[g] = ino[g]
  PROVE  Answer' = [Answer EXCEPT ![h] = IF r = "ok" THEN {ino'[h]} ELSE {}]
  BY Zenon DEF TypeOK, Answer

\* A request under way has no answer, so one that goes on or fails leaves the
\* answers alone.
LEMMA Silent ==
  ASSUME IInv, NEW h \in Handler, at[h] # "idle",
         result' = result \/ result' = [result EXCEPT ![h] = "failed"],
         \A g \in Handler \ {h} : ino'[g] = ino[g]
  PROVE  Answer' = Answer
<1>1. result[h] # "ok"
  BY Zenon DEF IInv, HandlerInv
<1> QED
  BY <1>1, Zenon DEF IInv, TypeOK, Answer

-----------------------------------------------------------------------------
(* The ways in which a request that leaves the files alone can go on *)

SameFiles == UNCHANGED <<log, disk, data, since, told>>

\* A request that goes on to its next step does not show.
LEMMA GoesOn ==
  ASSUME IInv, NEW h \in Handler, h \in Pending \ Changed, SameFiles,
         NEW l \in Label \ {"idle", "syncWrite", "publish", "syncDelete"},
         at' = [at EXCEPT ![h] = l], result' = result,
         \A g \in Handler \ {h} : ino'[g] = ino[g]
  PROVE  UNCHANGED Register!vars
<1>1. Pending' = Pending /\ Changed' = Changed
  <2>1. Pending' = Pending \cup {h} /\ Changed' = Changed \ {h}
    BY Moves, Zenon DEF IInv
  <2> QED
    BY <2>1, Zenon
<1>2. Answer' = Answer
  BY Silent, Zenon DEF Pending
<1>3. Complete' = Complete
  BY Zenon DEF SameFiles, Complete
<1> QED
  BY <1>1, <1>2, <1>3, Zenon DEF SameFiles, Register!vars

\* A request that fails ends without an answer, whatever it has done.
LEMMA Fails ==
  ASSUME IInv, NEW h \in Handler, h \in Pending, SameFiles, Return(h, "failed"),
         \A g \in Handler \ {h} : ino'[g] = ino[g]
  PROVE  Register!Abort(h)
<1>1. Pending' = Pending \ {h} /\ Changed' = Changed \ {h}
  BY Moves, Zenon DEF IInv, Return
<1>2. Answer' = Answer
  BY Silent, Zenon DEF Pending, Return
<1>3. Complete' = Complete
  BY Zenon DEF SameFiles, Complete
<1> QED
  BY <1>1, <1>2, <1>3 DEF SameFiles, Register!Abort, Register!Ends

\* A request that answers without having changed the entry is a read, if the
\* answer was the key's at some moment of it.
LEMMA Observes ==
  ASSUME IInv, NEW h \in Handler, h \in Pending \ Changed, SameFiles, Return(h, "ok"),
         \A g \in Handler \ {h} : ino'[g] = ino[g],
         \E k \in since[h] .. Len(log) : log[k] = ino'[h]
  PROVE  Register!Observe(h)
<1>1. Pending' = Pending \ {h} /\ Changed' = Changed \ {h}
  BY Moves, Zenon DEF IInv, Return
<1>2. Answer' = [Answer EXCEPT ![h] = {ino'[h]}]
  BY Answers, Zenon DEF IInv, Return
<1>3. Complete' = Complete
  BY Zenon DEF SameFiles, Complete
<1> QED
  BY <1>1, <1>2, <1>3, Zenon DEF SameFiles, Register!Observe, Register!Ends

-----------------------------------------------------------------------------
(* Every action is one of the register's, or none *)

\* A handler begins.
LEMMA RequestMaps ==
  ASSUME IInv, NEW h \in Handler, Request(h)
  PROVE  Register!Invoke(h)
<1>1. PICK l \in {"openRead", "openWrite", "openDelete"} : Begin(h, l)
  BY Zenon DEF Request, GetUserCustomConf, PostUserCustomConf, DeleteUserCustomConf
<1>2. \A g \in Handler \ {h} : ino'[g] = ino[g]
  BY Zenon DEF Request, GetUserCustomConf, PostUserCustomConf, DeleteUserCustomConf, Numbered,
         IInv, TypeOK
<1>3. h \notin Pending /\ h \notin Changed
  BY <1>1, Zenon DEF Begin, Pending, Changed
<1>4. Pending' = Pending \cup {h} /\ Changed' = Changed
  <2>1. Pending' = Pending \cup {h} /\ Changed' = Changed \ {h}
    BY <1>1, Moves, Zenon DEF IInv, Begin, Goto
  <2> QED
    BY <1>3, <2>1
<1>5. Answer' = [Answer EXCEPT ![h] = {}]
  <2>1. result' = [result EXCEPT ![h] = "none"] /\ TypeOK
    BY <1>1, Zenon DEF IInv, Begin
  <2>2. Answer' = [Answer EXCEPT ![h] = IF "none" = "ok" THEN {ino'[h]} ELSE {}]
    BY ONLY Zenon, <1>2, <2>1, Answers, h \in Handler
  <2> QED
    BY <2>2, Zenon
<1>6. Complete' = Complete
  BY <1>1, Zenon DEF Begin, fileVars, Complete
<1> QED
  BY <1>1, <1>3, <1>4, <1>5, <1>6, Zenon DEF Begin, fileVars, Register!Invoke
\* The user's directory is opened: without one a GET answers that there is no
\* configuration, which is what the key has held all along.
LEMMA OpenRootMaps ==
  ASSUME IInv, NEW h \in Handler, openUserRoot(h)
  PROVE  [Register!Next]_(Register!vars)
<1> USE DEF openUserRoot
<1>1. SameFiles /\ \A g \in Handler \ {h} : ino'[g] = ino[g]
  BY Zenon DEF SameFiles
<1>2. h \in Pending \ Changed
  BY Zenon DEF Pending, Changed
<1>3. CASE \E l \in {"write", "read", "delete"} : Goto(h, l) /\ UNCHANGED result
  BY <1>1, <1>2, <1>3, GoesOn, Zenon DEF Goto, Label
<1>4. CASE Return(h, "failed")
  BY <1>1, <1>2, <1>4, Fails, Zenon DEF Register!Next
<1>5. CASE at[h] = "openRead" /\ dir = "missing" /\ Return(h, "ok")
  <2>1. Len(log) = 1 /\ log[1] = None /\ ino[h] = None /\ since[h] \in 1 .. Len(log)
    BY <1>5, Zenon DEF IInv, DirInv, HandlerInv
  <2>2. \E k \in since[h] .. Len(log) : log[k] = ino'[h]
    BY <2>1
  <2> QED
    BY <1>1, <1>2, <1>5, <2>2, Observes, Zenon DEF Register!Next
<1> QED
  BY <1>3, <1>4, <1>5, Zenon

\* The looks at the entry before a write or a removal, and the creation of the
\* temporary file.
LEMMA LookMaps ==
  ASSUME IInv, NEW h \in Handler,
         InspectForWrite(h) \/ createTemporaryFile(h) \/ InspectForDelete(h)
  PROVE  [Register!Next]_(Register!vars)
<1> USE DEF InspectForWrite, createTemporaryFile, InspectForDelete
<1>1. SameFiles /\ \A g \in Handler \ {h} : ino'[g] = ino[g]
  BY Zenon DEF SameFiles, fileVars
<1>2. h \in Pending \ Changed
  BY Zenon DEF Pending, Changed
<1>3. CASE \E l \in {"create", "fill", "remove"} : Goto(h, l) /\ UNCHANGED result
  BY <1>1, <1>2, <1>3, GoesOn, Zenon DEF Goto, Label
<1>4. CASE Return(h, "failed")
  BY <1>1, <1>2, <1>4, Fails, Zenon DEF Register!Next
<1> QED
  BY <1>3, <1>4, Zenon

\* A GET looks at the entry, opens the file it saw and reads it.
LEMMA ReadMaps ==
  ASSUME IInv, NEW h \in Handler, InspectForRead(h) \/ OpenFile(h) \/ ReadAll(h)
  PROVE  [Register!Next]_(Register!vars)
<1> USE DEF InspectForRead, OpenFile, ReadAll
<1>1. SameFiles /\ \A g \in Handler \ {h} : ino'[g] = ino[g]
  BY Zenon DEF SameFiles, fileVars, IInv, TypeOK
<1>2. h \in Pending \ Changed
  BY Zenon DEF Pending, Changed
<1>3. CASE \E l \in {"open", "fetch"} : Goto(h, l) /\ UNCHANGED result
  BY <1>1, <1>2, <1>3, GoesOn, Zenon DEF Goto, Label
<1>4. CASE Return(h, "failed")
  BY <1>1, <1>2, <1>4, Fails, Zenon DEF Register!Next
<1>5. CASE Return(h, "ok")
  <2>1. since[h] \in 1 .. Len(log) /\ Len(log) \in Nat
    BY <1>2 DEF IInv, HandlerInv, TypeOK, Pending
  <2>2. CASE InspectForRead(h) \/ (OpenFile(h) /\ Opened(ino[h]) = "missing")
    <3>1. ino'[h] = Entry
      BY <1>5, <2>2 DEF IInv, TypeOK, Opened
    <3>2. log[Len(log)] = ino'[h] /\ Len(log) \in since[h] .. Len(log)
      BY <2>1, <3>1 DEF Entry
    <3> QED
      BY <1>1, <1>2, <1>5, <3>2, Observes, Zenon DEF Register!Next
  <2>3. CASE ReadAll(h)
    <3>1. \E k \in since[h] .. Len(log) : log[k] = ino'[h]
      BY <2>3 DEF IInv, HandlerInv, Shown
    <3> QED
      BY <1>1, <1>2, <1>5, <3>1, Observes, Zenon DEF Register!Next
  <2>4. ~(OpenFile(h) /\ Opened(ino[h]) # "missing")
    BY <1>5, Zenon DEF IInv, TypeOK, Goto, Return
  <2> QED
    BY <2>2, <2>3, <2>4, Zenon
<1> QED
  <2>1. CASE InspectForRead(h)
    BY <2>1, <1>3, <1>4, <1>5, Zenon
  <2>2. CASE OpenFile(h)
    BY <2>2, <1>3, <1>4, <1>5, Zenon
  <2>3. CASE ReadAll(h)
    BY <2>3, <1>5, Zenon
  <2> QED
    BY <2>1, <2>2, <2>3, Zenon
\* The temporary file is completed.
LEMMA FillMaps ==
  ASSUME IInv, NEW h \in Handler, FillTemporary(h)
  PROVE  Register!Prepare
<1> USE DEF FillTemporary
<1>1. Pending' = Pending /\ Changed' = Changed
  BY Zenon DEF IInv, TypeOK, Goto, Pending, Changed
<1>2. Answer' = Answer
  BY Zenon DEF Answer
<1>3. Complete \subseteq Complete' /\ Complete' \subseteq Inode
  BY Zenon DEF Complete, Filled, IInv, TypeOK
<1> QED
  BY <1>1, <1>2, <1>3, Zenon DEF Register!Prepare

\* The rename is the one step in which a POST changes the register, and it
\* installs a complete file.
LEMMA RenameMaps ==
  ASSUME IInv, NEW h \in Handler, Rename(h)
  PROVE  Register!Change(h)
<1> USE DEF Rename
<1>1. h \in Pending \ Changed
  BY Zenon DEF Pending, Changed
<1>2. Pending' = Pending /\ Changed' = Changed \cup {h}
  <2>1. Pending' = Pending \cup {h} /\ Changed' = Changed \cup {h}
    BY Moves, Zenon DEF IInv, Goto
  <2> QED
    BY <1>1, <2>1
<1>3. ino[h] \in Complete
  BY Zenon DEF IInv, HandlerInv, Complete
<1>4. Answer' = Answer /\ Complete' = Complete
  BY Zenon DEF Answer, Complete
<1> QED
  BY <1>1, <1>2, <1>3, <1>4, Zenon DEF Register!Change

\* The removal is the one step in which a DELETE changes it.
LEMMA RemoveMaps ==
  ASSUME IInv, NEW h \in Handler, Remove(h)
  PROVE  [Register!Next]_(Register!vars)
<1> USE DEF Remove
<1>1. h \in Pending \ Changed
  BY Zenon DEF Pending, Changed
<1>2. CASE Entry = None
  BY <1>1, <1>2, Fails, Zenon DEF SameFiles, Register!Next
<1>3. CASE Entry # None
  <2>1. Pending' = Pending \cup {h} /\ Changed' = Changed \cup {h}
    BY <1>3, Moves, Zenon DEF IInv, Goto
  <2>2. Pending' = Pending
    BY <1>1, <2>1, Zenon
  <2>3. Answer' = Answer
    BY <1>1, <1>3, Silent, Zenon DEF Pending, IInv, TypeOK
  <2>4. Complete' = Complete
    BY Zenon DEF Complete
  <2>5. Register!Change(h)
    BY <1>1, <1>3, <2>1, <2>2, <2>3, <2>4, Zenon DEF Register!Change
  <2> QED
    BY <2>5, Zenon DEF Register!Next
<1> QED
  BY <1>2, <1>3, Zenon

\* A sync of the directory makes the current value safe, and answers a DELETE;
\* the answer of a POST comes with its event.
LEMMA SyncMaps ==
  ASSUME IInv, NEW h \in Handler, syncRoot(h) \/ Publish(h)
  PROVE  [Register!Next]_(Register!vars)
<1>1. Complete' = Complete
  BY Zenon DEF Complete, syncRoot, Publish
<1>2. h \in Pending /\ h \in Changed
  BY Zenon DEF Pending, Changed, syncRoot, Publish
<1>3. since[h] \in 1 .. Len(log) /\ log[since[h]] = ino[h] /\ Len(log) \in Nat
  BY LogFacts, Zenon DEF IInv, HandlerInv, syncRoot, Publish
<1>4. CASE syncRoot(h) /\ at[h] = "syncWrite"
  <2>1. Pending' = Pending \cup {h} /\ Changed' = Changed \cup {h}
    BY <1>4, Moves, Zenon DEF IInv, Goto, syncRoot
  <2>2. Pending' = Pending /\ Changed' = Changed
    BY <1>2, <2>1, Zenon
  <2>3. Answer' = Answer
    BY <1>4, Zenon DEF Answer, syncRoot
  <2>4. Register!Sync
    BY <1>1, <1>4, <2>2, <2>3, Zenon DEF Register!Sync, syncRoot, Synced
  <2> QED
    BY <2>4, Zenon DEF Register!Next
<1>5. CASE (syncRoot(h) /\ at[h] = "syncDelete") \/ Publish(h)
  <2>1. Return(h, "ok") /\ ino' = ino /\ told' = told \cup {since[h]}
        /\ UNCHANGED <<log, since>>
    BY Zenon, <1>5 DEF syncRoot, Publish
  <2>2. Pending' = Pending \ {h} /\ Changed' = Changed \ {h}
    BY <2>1, Moves, Zenon DEF IInv, Return
  <2>3. Answer' = [Answer EXCEPT ![h] = {log[since[h]]}]
    BY <1>3, <2>1, Answers, Zenon DEF IInv, Return
  <2>4. disk' \in {disk, Len(log)} /\ since[h] <= disk'
    BY <1>3, <1>5, Positions, Zenon DEF IInv, HandlerInv, syncRoot, Publish, Synced
  <2>5. Register!Acknowledge(h)
    BY <1>1, <1>2, <2>1, <2>2, <2>3, <2>4, Zenon DEF Register!Acknowledge, Register!Ends
  <2> QED
    BY <2>5, Zenon DEF Register!Next
<1> QED
  BY <1>4, <1>5 DEF syncRoot
\* A failed call ends the request, and nothing that the register shows goes back.
LEMMA FailMaps ==
  ASSUME IInv, NEW h \in Handler, Fail(h)
  PROVE  Register!Abort(h)
  BY Fails, Zenon DEF Fail, SameFiles, Pending

\* A loss of power is the register's crash: what was complete stays complete, as
\* only unsynced data goes.
LEMMA PowerLossMaps ==
  ASSUME IInv, PowerLoss
  PROVE  Register!Crash
<1> USE DEF PowerLoss
<1>1. Pending' = {} /\ Changed' = {} /\ Answer' = [h \in Handler |-> {}]
  BY Zenon DEF Pending, Changed, Answer
<1>2. Complete' = Complete
  BY DEF Complete, IInv, TypeOK
<1> QED
  BY <1>1, <1>2, Zenon DEF Register!Crash

\* The store is a correct implementation of the register: every POST, GET and
\* DELETE, with all its system calls, is one atomic access that survives loss of
\* power once it is reported.
THEOREM ImplementsRegisterHolds == Spec => ImplementsRegister
<1>1. Init => Register!Init
  BY InitMaps, Zenon
<1>2. IInv /\ [Next]_vars => [Register!Next]_(Register!vars)
  <2> SUFFICES ASSUME IInv, [Next]_vars PROVE [Register!Next]_(Register!vars)
    OBVIOUS
  <2>1. CASE UNCHANGED vars
    BY <2>1, Zenon DEF vars, Register!vars, Complete, Pending, Changed, Answer
  <2>2. CASE PowerLoss
    BY <2>2, PowerLossMaps, Zenon DEF Register!Next
  <2>3. ASSUME NEW h \in Handler, Request(h) \/ Fail(h) PROVE [Register!Next]_(Register!vars)
    BY <2>3, RequestMaps, FailMaps, Zenon DEF Register!Next
  <2>4. ASSUME NEW h \in Handler, FillTemporary(h) \/ Rename(h)
        PROVE  [Register!Next]_(Register!vars)
    BY <2>4, FillMaps, RenameMaps, Zenon DEF Register!Next
  <2>5. ASSUME NEW h \in Handler, Step(h) PROVE [Register!Next]_(Register!vars)
    BY <2>4, <2>5, OpenRootMaps, LookMaps, ReadMaps, RemoveMaps, SyncMaps DEF Step
  <2> QED
    BY <2>1, <2>2, <2>3, <2>5 DEF Next
<1> QED
  BY <1>1, <1>2, Invariance, PTL DEF Spec, ImplementsRegister, Register!Spec
==============================================================================
