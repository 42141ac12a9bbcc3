------------------------- MODULE InstallationProofs -------------------------
(***************************************************************************)
(* Proofs about UserBootstrap, for every set of callers, identifiers and   *)
(* users and every bound, and about Installation, which runs it, for every *)
(* set of processes, names and files as well.  The lock makes the second   *)
(* part short: a process either holds it, and every other is parked before *)
(* the lock or has ended, or it does not, and then its step leaves the     *)
(* files alone.                                                            *)
(***************************************************************************)
EXTENDS Installation, TLAPS

\* Setup can still be completed from this marker.
Open == db.status \in {"none", "pristine"}

AtSeal(c) == pc[c] \in {"seal", "link", "sync"}

\* A caller that holds a decision to leave setup open, or may still make one.
MayOpen(c) == pc[c] = "insert" \/ (pc[c] = "reconcile" /\ seen[c] = NoId)

\* What ties the callers' local state to the marker and the seal.
CallerInv(c) ==
  /\ AtSeal(c) => ~Open
  /\ MayOpen(c) /\ seal # NoId => ~Open
  /\ pc[c] = "reconcile" /\ seen[c] # NoId => seal = seen[c]
  /\ pc[c] = "sync" => seal = want[c]
  /\ AtSeal(c) \/ pc[c] = "insert" => want[c] # NoId
  /\ pc[c] # "idle" => result[c] = "none"
  /\ result[c] \in {"initialized", "created"} => want[c] # NoId /\ seal = want[c]
  /\ ~restored /\ AtSeal(c) /\ db.status = "initialized" => want[c] = db.id

IInv ==
  /\ TypeOK
  /\ \A c \in Caller : CallerInv(c)
  /\ MarkerMatchesSeal
  /\ ~restored => created <= 1 /\ (Open => created = 0)

-----------------------------------------------------------------------------
\* What the reconciliation transaction does to the marker: the result is typed,
\* a closed setup stays closed, and a marker becomes initialised only where
\* setup was open and no seal was read.
LEMMA ReconciledFacts ==
  ASSUME TypeOK, NEW s \in InstID \cup {NoId}, NEW new \in InstID
  PROVE  LET d == Reconciled(db, s, new)
         IN  /\ d \in Database
             /\ d.status # "none" /\ d.status # "invalid" /\ d.id # NoId
             /\ d.status = "pristine" => Open /\ s = NoId
             /\ d.status = "initialized" /\ ~Open =>
                  db.status = "initialized" /\ d.id = db.id
             /\ d.status = "initialized" /\ s # NoId =>
                  db.status = "initialized" /\ d.id = s /\ d.id = db.id
  BY NoIdAssumption, ZenonT(60) DEF TypeOK, Reconciled, MissingMarker, InvalidMarker,
     PristineMarker, InitializedMarker, WithStatus, Occupied, Db, Database,
     Status, Open

\* Create's return to CreateAdmin or to ReconcileState ends the call.
LEMMA CreateReturned ==
  ASSUME NEW c, CreateReturns(c)
  PROVE  \E r \in {"created", "initialized", "already"} : Return(c, r)
  BY Zenon DEF CreateReturns, ReconcileReturns

\* ReconcileState's return ends the call or lets CreateAdmin go on.
LEMMA ReconcileReturned ==
  ASSUME NEW c, NEW status \in {"pristine", "initialized", "recovery"}, ReconcileReturns(c, status)
  PROVE  \/ Goto(c, "insert") /\ UNCHANGED result
         \/ \E r \in Results : Return(c, r)
  BY Zenon DEF ReconcileReturns, Results

\* The markers, and the ones a transaction leaves.
LEMMA Markers ==
  /\ \A d \in Database : d.status # "none" /\ d.status # "invalid" =>
       d.status \in {"pristine", "initialized", "recovery"} /\ d.id \in InstID /\ d.id # NoId
  /\ \A id \in InstID \cup {NoId}, status \in Status, users \in SUBSET UserId :
       (id = NoId => status \in {"none", "invalid"}) => Db(id, status, users) \in Database
<1>1. \A d \in Database : d.status \in Status /\ d.id \in InstID \cup {NoId}
                          /\ (d.id = NoId => d.status \in {"none", "invalid"})
  BY Zenon DEF Database
<1>2. \A d \in Database : d.status # "none" /\ d.status # "invalid" =>
        d.status \in {"pristine", "initialized", "recovery"} /\ d.id \in InstID /\ d.id # NoId
  BY <1>1, NoIdAssumption, Zenon DEF Status
<1> QED
  BY <1>2, ZenonT(30) DEF Db, Database

\* One more is a number.
LEMMA OneMore == /\ \A n \in Nat : n + 1 \in Nat
                 /\ 0 + 1 <= 1
  OBVIOUS

-----------------------------------------------------------------------------
\* Every action keeps the types: in particular a marker with a valid status
\* always carries an identifier.
LEMMA TypeStep == TypeOK /\ [Next]_vars => TypeOK'
<1> SUFFICES ASSUME TypeOK, [Next]_vars PROVE TypeOK'
  OBVIOUS
<1> USE DEF TypeOK
<1>1. ASSUME NEW c \in Caller, NEW o \in {"reconcile", "create"}, Begin(c, o)
      PROVE  TypeOK'
  BY <1>1 DEF Begin, Goto, Ops, Results, dbVars, sealVars, envVars
<1>2. ASSUME NEW c \in Caller, LoadSeal(c) PROVE TypeOK'
  BY <1>2, Zenon DEF LoadSeal, Goto, dbVars, sealVars, envVars
<1>3. ASSUME NEW c \in Caller, ReconcileState(c) PROVE TypeOK'
  <2>1. PICK new \in InstID :
          /\ spent' = IF NeedsId(c) THEN spent \cup {new} ELSE spent
          /\ db' = Reconciled(db, seen[c], new)
          /\ want' = [want EXCEPT ![c] = Reconciled(db, seen[c], new).id]
          /\ IF CreateSeal(c, Reconciled(db, seen[c], new))
             THEN Goto(c, "seal") /\ UNCHANGED result
             ELSE ReconcileReturns(c, Reconciled(db, seen[c], new).status)
    BY <1>3, Zenon DEF ReconcileState
  <2>2. seen[c] \in InstID \cup {NoId}
    OBVIOUS
  <2> DEFINE d == Reconciled(db, seen[c], new)
  <2>3. d \in Database /\ d.id # NoId /\ d.status \in {"pristine", "initialized", "recovery"}
    <3>1. d \in Database /\ d.status # "none" /\ d.status # "invalid"
      BY <2>2, ReconciledFacts, Zenon
    <3> QED
      BY <3>1, Markers, Zenon
  <2> HIDE DEF d
  <2>4. pc' \in [Caller -> {"idle", "load", "reconcile", "insert", "seal", "link", "sync"}]
        /\ result' \in [Caller -> Results]
    <3>1. \/ \E label \in {"seal", "insert"} : Goto(c, label) /\ UNCHANGED result
          \/ \E r \in Results : Return(c, r)
      BY <2>1, <2>3, ReconcileReturned, Zenon DEF d
    <3> QED
      BY <3>1, Zenon DEF Goto, Return
  <2>5. db' \in Database /\ db'.id # NoId /\ want' \in [Caller -> InstID \cup {NoId}]
    BY <2>1, <2>3, Zenon DEF d, Database
  <2> QED
    BY Zenon, <1>3, <2>1, <2>4, <2>5 DEF ReconcileState, sealVars, envVars
<1>4. ASSUME NEW c \in Caller, CreateAdmin(c) PROVE TypeOK'
  <2>1. db' \in Database
    <3>1. db.id \in InstID \cup {NoId} /\ db.id # NoId /\ "initialized" \in Status
      BY <1>4, Markers, Zenon DEF CreateAdmin, StillPristine, Status
    <3>2. PICK u \in UserId : db' = Db(db.id, "initialized", {u})
      BY <1>4, Zenon DEF CreateAdmin
    <3> QED
      BY <3>1, <3>2, Markers, Zenon
  <2> QED
    BY <1>4, <2>1, OneMore, Zenon DEF CreateAdmin, Goto, Ops, sealVars, envVars
<1>5. ASSUME NEW c \in Caller, LostRace(c) PROVE TypeOK'
  BY <1>5, Zenon DEF LostRace, Goto, Ops, dbVars, sealVars, envVars
<1>6. ASSUME NEW c \in Caller, CheckSeal(c) PROVE TypeOK'
  <2>1. (Goto(c, "link") /\ UNCHANGED result) \/ \E r \in Results : Return(c, r)
    BY <1>6, CreateReturned, Zenon DEF CheckSeal, FoundSeal, Results
  <2>2. /\ pc' \in [Caller -> {"idle", "load", "reconcile", "insert", "seal", "link", "sync"}]
        /\ result' \in [Caller -> Results]
    BY <2>1, Zenon DEF Goto, Return
  <2> QED
    BY <1>6, <2>2, Zenon DEF CheckSeal, dbVars, sealVars, envVars
<1>7. ASSUME NEW c \in Caller, PublishSeal(c) PROVE TypeOK'
  <2>1. (Goto(c, "sync") /\ UNCHANGED result) \/ \E r \in Results : Return(c, r)
    BY <1>7, CreateReturned, Zenon DEF PublishSeal, FoundSeal, Results
  <2>2. seal' \in InstID \cup {NoId} /\ synced' \in BOOLEAN
    BY <1>7, Zenon DEF PublishSeal, sealVars
  <2>3. /\ pc' \in [Caller -> {"idle", "load", "reconcile", "insert", "seal", "link", "sync"}]
        /\ result' \in [Caller -> Results]
    BY <2>1, Zenon DEF Goto, Return
  <2> QED
    BY <1>7, <2>2, <2>3, Zenon DEF PublishSeal, dbVars, envVars
<1>8. ASSUME NEW c \in Caller, SyncSeal(c) PROVE TypeOK'
  <2>1. \E r \in Results : Return(c, r)
    BY <1>8, CreateReturned, Zenon DEF SyncSeal, Results
  <2> QED
    BY <1>8, <2>1, Zenon DEF SyncSeal, Return, dbVars, envVars
<1>9. ASSUME NEW c \in Caller, Fail(c) \/ Die(c) PROVE TypeOK'
  <2>1. faults' \in Nat
    BY <1>9, OneMore, Zenon DEF Fail, Die, Fault
  <2>2. \E r \in Results : Return(c, r)
    BY <1>9, Zenon DEF Fail, FailTransaction, FailSeal, Die, Results
  <2>3. /\ pc' \in [Caller -> {"idle", "load", "reconcile", "insert", "seal", "link", "sync"}]
        /\ result' \in [Caller -> Results]
    BY <2>2, Zenon DEF Return
  <2>4. UNCHANGED <<op, seen, want, dbVars, sealVars, envVars>>
    BY <1>9, Zenon DEF Fail, Die
  <2> QED
    BY <2>1, <2>3, <2>4, Zenon DEF dbVars, sealVars, envVars
<1>10. CASE PowerLoss
  <2>1. faults' \in Nat
    BY <1>10, OneMore, Zenon DEF PowerLoss, Fault
  <2> QED
    BY <1>10, <2>1, Zenon DEF PowerLoss, Results, dbVars, envVars
<1>11. CASE Operator
  <2>1. CASE Backup
    BY <2>1, Zenon DEF Backup, dbVars, sealVars, callVars
  <2>2. CASE Restore
    <3>1. EmptyDb \in Database
      BY Zenon DEF EmptyDb, Db, Database, Status
    <3> QED
      BY <2>2, <3>1, Zenon DEF Restore, sealVars, callVars
  <2>3. CASE DeleteUsers
    BY <2>3, Zenon DEF DeleteUsers, Database, sealVars, callVars, envVars
  <2>4. CASE DamageMarker
    <3>1. db.id \in InstID \cup {NoId} /\ db.users \in SUBSET UserId /\ "invalid" \in Status
      BY Zenon DEF Database, Status
    <3>2. db' \in Database
      <4>1. PICK id \in {db.id, NoId} : db' = Db(id, "invalid", db.users)
        BY <2>4, Zenon DEF DamageMarker
      <4>2. id \in InstID \cup {NoId}
        BY <3>1, <4>1, Zenon
      <4> QED
        BY <3>1, <4>1, <4>2, Markers, Zenon
    <3> QED
      BY <2>4, <3>2, Zenon DEF DamageMarker, sealVars, callVars, envVars
  <2> QED
    BY <1>11, <2>1, <2>2, <2>3, <2>4, Zenon DEF Operator
<1>12. CASE UNCHANGED vars
  BY <1>12, Zenon DEF vars
<1> QED
  BY <1>1, <1>2, <1>3, <1>4, <1>5, <1>6, <1>7, <1>8, <1>9, <1>10, <1>11, <1>12, Zenon
     DEF Next, Step

-----------------------------------------------------------------------------
(* One caller at a time: what a call knows when nobody else is in one *)

\* A query of the transaction fails; it is rolled back.
QueryFails(c) ==
  FailTransaction(c) /\ UNCHANGED <<op, seen, want, faults, dbVars, sealVars, envVars>>

\* The steps of a call but CreateAdmin's own transaction.
Exchange(c) ==
  \/ \E o \in {"reconcile", "create"} : Begin(c, o)
  \/ LoadSeal(c) \/ ReconcileState(c)
  \/ CheckSeal(c) \/ PublishSeal(c) \/ SyncSeal(c)
  \/ Fail(c) \/ QueryFails(c)

\* A call works on its caller's variables.
OwnCall(c) ==
  \A e \in Caller \ {c} : /\ pc'[e] = pc[e] /\ result'[e] = result[e]
                          /\ seen'[e] = seen[e] /\ want'[e] = want[e]

\* What the caller has read is still so.
Knows(c) ==
  /\ pc[c] = "reconcile" => seen[c] = seal
  /\ AtSeal(c) => db.status = "initialized" /\ want[c] = db.id
  /\ pc[c] = "insert" => StillPristine(c)
  /\ pc[c] = "idle" /\ result[c] \in {"pristine", "initialized"} => db.status = result[c]

\* The transaction of ReconcileState is still to come.
Asking(c) == pc[c] \in {"load", "reconcile"} \/ (pc[c] = "idle" /\ result[c] = "none")

\* A marker that ReconcileState will leave initialised, given a user.
Importable ==
  \/ db.status = "none" /\ seal = NoId
  \/ db.status = "initialized" /\ seal \in {NoId, db.id}

\* Marker and seal when no two callers overlap and nobody damages a row.
MarkerInv ==
  /\ db.status # "invalid"
  /\ db.status = "pristine" => seal = NoId /\ db.users = {}
  /\ ~restored => /\ db.status # "recovery"
                  /\ db.status = "none" => seal = NoId
                  /\ db.status = "initialized" => db.users # {} /\ seal \in {NoId, db.id}

\* What ReconcileState leaves when the seal is still the one it loaded: its
\* rows, no marker that MarkerInv excludes, and for an importable database with
\* users an initialised one.
LEMMA ReconciledStore ==
  ASSUME TypeOK, MarkerInv, NEW new \in InstID
  PROVE  LET d == Reconciled(db, seal, new)
         IN  /\ d.users = db.users
             /\ d.status \in {"pristine", "initialized", "recovery"}
             /\ d.status = "pristine" => /\ seal = NoId /\ db.users = {}
                                         /\ db.status \in {"none", "pristine"}
             /\ ~restored => /\ d.status # "recovery"
                             /\ d.status = "initialized" =>
                                  db.users # {} /\ seal \in {NoId, d.id}
             /\ Importable /\ db.users # {} => d.status = "initialized"
  BY NoIdAssumption DEF TypeOK, MarkerInv, Importable, Reconciled, MissingMarker, InvalidMarker,
     PristineMarker, InitializedMarker, WithStatus, Occupied, Db, Database, Status

\* A step of a call keeps what its caller knows and what holds of marker and
\* seal, if nobody has touched them since its last step.
LEMMA ExchangeStep ==
  ASSUME TypeOK, MarkerInv, NEW c \in Caller, Knows(c), Exchange(c)
  PROVE  /\ TypeOK' /\ OwnCall(c) /\ MarkerInv' /\ Knows(c)'
         /\ db'.users = db.users
         /\ db'.status \in {"none", "pristine"} => db.status \in {"none", "pristine"}
         /\ Asking(c)' => UNCHANGED <<db, seal>> /\ pc[c] \in {"idle", "load"}
<1> DEFINE Goal == /\ OwnCall(c) /\ MarkerInv' /\ Knows(c)' /\ db'.users = db.users
                   /\ db'.status \in {"none", "pristine"} => db.status \in {"none", "pristine"}
                   /\ Asking(c)' => UNCHANGED <<db, seal>> /\ pc[c] \in {"idle", "load"}
<1>1. TypeOK'
  <2>1. CASE QueryFails(c)
    BY <2>1, Zenon DEF QueryFails, FailTransaction, Return, TypeOK, Results, dbVars, sealVars, envVars
  <2> QED
    BY <2>1, TypeStep, Zenon DEF Exchange, Next, Step
<1> SUFFICES Goal
  BY <1>1, Zenon
<1>2. ASSUME NEW o \in {"reconcile", "create"}, Begin(c, o) PROVE Goal
  BY <1>2, Zenon DEF Begin, Goto, TypeOK, OwnCall, MarkerInv, Knows, AtSeal, Asking,
     dbVars, sealVars, envVars
<1>3. CASE LoadSeal(c)
  BY <1>3, Zenon DEF LoadSeal, Goto, TypeOK, OwnCall, MarkerInv, Knows, AtSeal, Asking,
     dbVars, sealVars, envVars
<1>4. CASE ReconcileState(c)
  <2>1. seen[c] = seal /\ UNCHANGED <<seen, seal, restored>>
    BY Zenon, <1>4 DEF ReconcileState, Knows, sealVars, envVars
  <2>2. PICK new \in InstID :
          /\ db' = Reconciled(db, seal, new)
          /\ want' = [want EXCEPT ![c] = Reconciled(db, seal, new).id]
          /\ IF CreateSeal(c, Reconciled(db, seal, new))
             THEN Goto(c, "seal") /\ UNCHANGED result
             ELSE ReconcileReturns(c, Reconciled(db, seal, new).status)
    BY <1>4, <2>1, Zenon DEF ReconcileState
  <2>3. /\ db'.users = db.users /\ db'.status \in {"pristine", "initialized", "recovery"}
        /\ db'.status = "pristine" => /\ seal = NoId /\ db.users = {}
                                      /\ db.status \in {"none", "pristine"}
        /\ ~restored => /\ db'.status # "recovery"
                        /\ db'.status = "initialized" => db.users # {} /\ seal \in {NoId, db'.id}
    BY <2>2, ReconciledStore, Zenon
  <2>4. MarkerInv'
    BY <2>1, <2>3, Zenon DEF MarkerInv
  <2>5. /\ want' = [want EXCEPT ![c] = db'.id]
        /\ \/ pc' = [pc EXCEPT ![c] = "seal"] /\ result' = result /\ db'.status = "initialized"
           \/ pc' = [pc EXCEPT ![c] = "insert"] /\ result' = result /\ db'.status = "pristine"
           \/ /\ pc' = [pc EXCEPT ![c] = "idle"]
              /\ \E r \in Results \ {"none"} :
                   /\ result' = [result EXCEPT ![c] = r]
                   /\ r \in {"pristine", "initialized"} => db'.status = r
    BY <2>2, <2>3, Zenon DEF CreateSeal, ReconcileReturns, Return, Goto, Results
  <2> QED
    BY <2>1, <2>3, <2>4, <2>5 DEF TypeOK, OwnCall, Knows, AtSeal, StillPristine, Asking
<1>5. CASE CheckSeal(c) \/ PublishSeal(c) \/ SyncSeal(c)
  <2>1. db.status = "initialized" /\ want[c] = db.id /\ UNCHANGED <<db, seen, want, restored>>
    BY <1>5, Zenon DEF CheckSeal, PublishSeal, SyncSeal, Knows, AtSeal, dbVars, envVars
  <2>2. seal' \in {seal, db.id}
    BY <1>5, <2>1, Zenon DEF CheckSeal, PublishSeal, SyncSeal, sealVars
  <2>3. \/ \E l \in {"link", "sync"} : pc' = [pc EXCEPT ![c] = l] /\ result' = result
        \/ \E r \in {"initialized", "created", "already", "failed"} :
             pc' = [pc EXCEPT ![c] = "idle"] /\ result' = [result EXCEPT ![c] = r]
    BY <1>5, Zenon DEF CheckSeal, PublishSeal, SyncSeal, FoundSeal, CreateReturns, ReconcileReturns,
       Goto, Return
  <2> QED
    BY <2>1, <2>2, <2>3, Zenon DEF TypeOK, OwnCall, MarkerInv, Knows, AtSeal, Asking
<1>6. CASE Fail(c) \/ QueryFails(c)
  BY <1>6, Zenon DEF Fail, QueryFails, FailTransaction, FailSeal, Return, TypeOK, OwnCall, MarkerInv,
     Knows, AtSeal, Asking, dbVars, sealVars, envVars
<1> QED
  BY <1>2, <1>3, <1>4, <1>5, <1>6, Zenon DEF Exchange

\* The same for the transaction of CreateAdmin: it finds the marker pristine and
\* leaves one user beside an initialised one.
LEMMA CreateStep ==
  ASSUME TypeOK, MarkerInv, NEW c \in Caller, Knows(c), CreateAdmin(c)
  PROVE  /\ TypeOK' /\ OwnCall(c) /\ MarkerInv' /\ Knows(c)' /\ ~Asking(c)'
         /\ db.status = "pristine" /\ db'.status = "initialized"
         /\ \E u \in UserId : db'.users = {u}
<1>1. TypeOK'
  BY TypeStep, Zenon DEF Next, Step
<1>2. PICK u \in UserId : db' = Db(db.id, "initialized", {u})
  BY Zenon DEF CreateAdmin
<1>3. db'.id = db.id /\ db'.status = "initialized" /\ db'.users = {u}
  BY <1>2, Zenon DEF Db
<1> QED
  BY <1>1, <1>3, Zenon DEF CreateAdmin, StillPristine, Goto, TypeOK, OwnCall, MarkerInv, Knows, AtSeal,
     Asking, sealVars, envVars

-----------------------------------------------------------------------------
\* The initial states satisfy the invariant.
LEMMA InitInv == Init => IInv
<1> SUFFICES ASSUME Init PROVE IInv
  OBVIOUS
<1>1. db \in Database /\ db.status = "none"
  BY DEF Init, Db, Database, Status
<1>2. TypeOK
  BY <1>1, Zenon DEF Init, TypeOK, Ops, Results
<1>3. ASSUME NEW c \in Caller PROVE CallerInv(c)
  BY DEF Init, CallerInv, AtSeal, MayOpen
<1> QED
  BY <1>1, <1>2, <1>3 DEF Init, IInv, MarkerMatchesSeal

Rest == MarkerMatchesSeal /\ (~restored => created <= 1 /\ (Open => created = 0))

\* A step of one caller that leaves user.db and the seal alone.
LEMMA CallerMoves ==
  ASSUME IInv, NEW c \in Caller, UNCHANGED <<db, seal, created, restored>>,
         \A e \in Caller \ {c} : /\ pc'[e] = pc[e] /\ result'[e] = result[e]
                                 /\ seen'[e] = seen[e] /\ want'[e] = want[e],
         CallerInv(c)'
  PROVE  (\A e \in Caller : CallerInv(e)') /\ Rest'
<1>1. ASSUME NEW e \in Caller \ {c} PROVE CallerInv(e)'
  <2>1. CallerInv(e) /\ (Open' <=> Open)
    BY Zenon DEF IInv, Open
  <2> QED
    BY <2>1, Zenon DEF CallerInv, AtSeal, MayOpen
<1> QED
  BY <1>1, Zenon DEF IInv, Rest, MarkerMatchesSeal, Open

\* A call that returns reports success only where the seal on disk is the caller's.
LEMMA ReturnInv ==
  ASSUME IInv, NEW c \in Caller, NEW r, Return(c, r),
         UNCHANGED <<seen, want, db, seal, created, restored>>,
         r \in {"initialized", "created"} => want[c] # NoId /\ seal = want[c]
  PROVE  (\A e \in Caller : CallerInv(e)') /\ Rest'
<1>1. pc'[c] = "idle" /\ result'[c] = r
  BY Zenon DEF Return, IInv, TypeOK
<1>2. CallerInv(c)'
  BY <1>1, Zenon DEF CallerInv, AtSeal, MayOpen
<1>3. \A e \in Caller \ {c} : pc'[e] = pc[e] /\ result'[e] = result[e]
  BY Zenon DEF Return, IInv, TypeOK
<1> QED
  BY <1>2, <1>3, CallerMoves, Zenon

\* The only steps that write user.db while callers are under way are the two
\* transactions and the operator's; the seal is written by PublishSeal alone.
LEMMA InvStep == IInv /\ [Next]_vars => IInv'
<1> SUFFICES ASSUME IInv, [Next]_vars PROVE (\A e \in Caller : CallerInv(e)') /\ Rest'
  BY TypeStep, Zenon DEF IInv, Rest
<1> USE DEF IInv, Rest, MarkerMatchesSeal, CallerInv, AtSeal, MayOpen
<1>1. ASSUME NEW c \in Caller, NEW o \in {"reconcile", "create"}, Begin(c, o)
      PROVE  (\A e \in Caller : CallerInv(e)') /\ Rest'
  <2>1. UNCHANGED <<seen, want, db, seal, created, restored>>
    BY <1>1, Zenon DEF Begin, dbVars, sealVars, envVars
  <2>2. pc'[c] = "load" /\ result'[c] = "none"
        /\ \A e \in Caller \ {c} : pc'[e] = pc[e] /\ result'[e] = result[e]
    BY <1>1, Zenon DEF Begin, Goto, TypeOK
  <2>3. CallerInv(c)'
    BY <2>1, <2>2, Zenon
  <2> QED
    BY <2>1, <2>2, <2>3, CallerMoves, Zenon
<1>2. ASSUME NEW c \in Caller, LoadSeal(c)
      PROVE  (\A e \in Caller : CallerInv(e)') /\ Rest'
  <2>1. UNCHANGED <<want, result, db, seal, created, restored>> /\ pc[c] = "load"
    BY <1>2, Zenon DEF LoadSeal, dbVars, sealVars, envVars
  <2>2. pc'[c] = "reconcile" /\ seen'[c] = seal
        /\ \A e \in Caller \ {c} : pc'[e] = pc[e] /\ seen'[e] = seen[e]
    BY <1>2, Zenon DEF LoadSeal, Goto, TypeOK
  <2>3. CallerInv(c)'
    BY <2>1, <2>2, Zenon DEF Open
  <2> QED
    BY <2>1, <2>2, <2>3, CallerMoves, Zenon
<1>3. ASSUME NEW c \in Caller, ReconcileState(c)
      PROVE  (\A e \in Caller : CallerInv(e)') /\ Rest'
  <2>1. PICK new \in InstID :
          /\ db' = Reconciled(db, seen[c], new)
          /\ want' = [want EXCEPT ![c] = Reconciled(db, seen[c], new).id]
          /\ IF CreateSeal(c, Reconciled(db, seen[c], new))
             THEN Goto(c, "seal") /\ UNCHANGED result
             ELSE ReconcileReturns(c, Reconciled(db, seen[c], new).status)
    BY <1>3, Zenon DEF ReconcileState
  <2>2. /\ seen[c] \in InstID \cup {NoId} /\ pc[c] = "reconcile"
        /\ UNCHANGED <<op, seen, created, seal, restored>>
    BY <1>3, Zenon DEF TypeOK, ReconcileState, sealVars, envVars
  <2>3. /\ db'.status \in {"pristine", "initialized", "recovery"} /\ db'.id # NoId
        /\ db'.status = "pristine" => Open /\ seen[c] = NoId
        /\ db'.status = "initialized" /\ ~Open => db.status = "initialized" /\ db'.id = db.id
        /\ db'.status = "initialized" /\ seen[c] # NoId =>
             db.status = "initialized" /\ db'.id = seen[c] /\ db'.id = db.id
    <3> DEFINE d == Reconciled(db, seen[c], new)
    <3>1. /\ d \in Database
          /\ d.status # "none" /\ d.status # "invalid" /\ d.id # NoId
          /\ d.status = "pristine" => Open /\ seen[c] = NoId
          /\ d.status = "initialized" /\ ~Open => db.status = "initialized" /\ d.id = db.id
          /\ d.status = "initialized" /\ seen[c] # NoId =>
               db.status = "initialized" /\ d.id = seen[c] /\ d.id = db.id
      BY <2>2, ReconciledFacts, Zenon
    <3>2. db' = d
      BY <2>1, Zenon
    <3> HIDE DEF d
    <3> QED
      BY <3>1, <3>2, Markers, Zenon
  <2>4. Open' => Open
    BY <2>3, Zenon DEF Open
  <2>5. /\ want' = [want EXCEPT ![c] = db'.id]
        /\ \/ pc' = [pc EXCEPT ![c] = "seal"] /\ result' = result
              /\ db'.status = "initialized" /\ seen[c] = NoId
           \/ pc' = [pc EXCEPT ![c] = "insert"] /\ result' = result
              /\ db'.status = "pristine"
           \/ /\ pc' = [pc EXCEPT ![c] = "idle"]
              /\ \E r \in Results :
                   /\ result' = [result EXCEPT ![c] = r]
                   /\ r \in {"initialized", "created"} =>
                        db'.status = "initialized" /\ seen[c] # NoId
    BY <2>1, <2>3, Zenon DEF CreateSeal, ReconcileReturns, Return, Goto, Results
  <2>6. ASSUME NEW e \in Caller PROVE CallerInv(e)'
    <3>1. CASE e = c
      BY <3>1, <2>2, <2>3, <2>5, ZenonT(60) DEF TypeOK, Open
    <3>2. CASE e # c
      BY <3>2, <2>2, <2>3, <2>4, <2>5, ZenonT(60) DEF TypeOK, Open
    <3> QED
      BY <3>1, <3>2, Zenon
  <2>7. Rest'
    BY <2>2, <2>3, <2>4, Zenon DEF TypeOK, Open
  <2> QED
    BY <2>6, <2>7, Zenon
<1>4. ASSUME NEW c \in Caller, CreateAdmin(c)
      PROVE  (\A e \in Caller : CallerInv(e)') /\ Rest'
  <2>1. Open /\ seal = NoId /\ db'.status = "initialized" /\ db'.id = want[c] /\ db'.id = db.id
    <3>1. Open /\ want[c] = db.id /\ pc[c] = "insert"
      BY <1>4, Zenon DEF CreateAdmin, StillPristine, Open
    <3>2. seal = NoId
      BY <3>1, Zenon
    <3>3. PICK u \in UserId : db' = Db(db.id, "initialized", {u})
      BY <1>4, Zenon DEF CreateAdmin
    <3>4. db'.status = "initialized" /\ db'.id = db.id
      BY <3>3, Zenon DEF Db
    <3> QED
      BY <3>1, <3>2, <3>4, Zenon
  <2>2. ASSUME NEW e \in Caller PROVE CallerInv(e)'
    <3>1. CASE e = c
      BY <1>4, <2>1, <3>1, Zenon DEF CreateAdmin, Goto, TypeOK, Open, sealVars, envVars
    <3>2. CASE e # c
      BY <1>4, <2>1, <3>2, Zenon DEF CreateAdmin, Goto, TypeOK, Open, sealVars, envVars
    <3> QED
      BY <3>1, <3>2, Zenon
  <2>3. Rest'
    <3>1. created' = created + 1 /\ UNCHANGED <<seal, restored>> /\ ~Open'
      BY <1>4, <2>1, Zenon DEF CreateAdmin, Open, sealVars, envVars
    <3>2. ~restored => created' <= 1
      BY <2>1, <3>1, OneMore, Zenon
    <3> QED
      BY <2>1, <3>1, <3>2, Zenon
  <2> QED
    BY <2>2, <2>3, Zenon
<1>5. ASSUME NEW c \in Caller, LostRace(c)
      PROVE  (\A e \in Caller : CallerInv(e)') /\ Rest'
  <2>1. UNCHANGED <<seen, want, result, db, seal, created, restored>> /\ pc[c] = "insert"
    BY <1>5, Zenon DEF LostRace, dbVars, sealVars, envVars
  <2>2. pc'[c] = "load" /\ \A e \in Caller \ {c} : pc'[e] = pc[e]
    BY <1>5, Zenon DEF LostRace, Goto, TypeOK
  <2>3. CallerInv(c)'
    BY <2>1, <2>2, Zenon
  <2> QED
    BY <2>1, <2>2, <2>3, CallerMoves, Zenon
<1>6. ASSUME NEW c \in Caller, CheckSeal(c)
      PROVE  (\A e \in Caller : CallerInv(e)') /\ Rest'
  <2>0. UNCHANGED <<seen, want, db, seal, created, restored>> /\ pc[c] = "seal"
    BY <1>6, Zenon DEF CheckSeal, dbVars, sealVars, envVars
  <2>1. CASE seal = NoId
    <3>1. UNCHANGED result /\ pc'[c] = "link" /\ \A e \in Caller \ {c} : pc'[e] = pc[e]
      BY <1>6, <2>1, Zenon DEF CheckSeal, Goto, TypeOK
    <3>2. CallerInv(c)'
      BY <2>0, <2>1, <3>1, Zenon DEF Open
    <3> QED
      BY <2>0, <3>1, <3>2, CallerMoves, Zenon
  <2>2. CASE seal # NoId
    <3>1. PICK r : Return(c, r) /\ (r # "failed" => seal = want[c])
      BY <1>6, <2>2, CreateReturned, Zenon DEF CheckSeal, FoundSeal
    <3> QED
      BY <2>0, <2>2, <3>1, ReturnInv, Zenon
  <2> QED
    BY <2>1, <2>2, Zenon
<1>7. ASSUME NEW c \in Caller, PublishSeal(c)
      PROVE  (\A e \in Caller : CallerInv(e)') /\ Rest'
  <2>1. CASE seal = NoId
    <3>0. /\ UNCHANGED <<seen, want, result, db, created, restored>> /\ pc[c] = "link"
          /\ seal' = want[c] /\ pc' = [pc EXCEPT ![c] = "sync"] /\ ~Open /\ want[c] # NoId
      BY <1>7, <2>1, Zenon DEF PublishSeal, Goto, dbVars, envVars
    <3>1. ASSUME NEW e \in Caller PROVE CallerInv(e)'
      <4>1. CallerInv(e) /\ ~Open' /\ result[e] \notin {"initialized", "created"}
        BY <2>1, <3>0, Zenon DEF Open
      <4>2. CASE e = c
        <5>1. pc'[e] = "sync"
          BY <3>0, <4>2, Zenon DEF TypeOK
        <5> QED
          BY <3>0, <4>1, <4>2, <5>1, Zenon
      <4>3. CASE e # c
        <5>1. pc'[e] = pc[e] /\ pc[e] # "sync" /\ ~(pc[e] = "reconcile" /\ seen[e] # NoId)
          BY <2>1, <3>0, <4>1, <4>3, Zenon DEF TypeOK
        <5> QED
          BY <3>0, <4>1, <5>1, Zenon
      <4> QED
        BY <4>2, <4>3, Zenon
    <3>2. Rest'
      BY <2>1, <3>0, Zenon DEF Open
    <3> QED
      BY <3>1, <3>2, Zenon
  <2>2. CASE seal # NoId
    <3>0. UNCHANGED <<seen, want, db, seal, created, restored>> /\ pc[c] = "link"
      BY <1>7, <2>2, Zenon DEF PublishSeal, dbVars, sealVars, envVars
    <3>1. PICK r : Return(c, r) /\ (r # "failed" => seal = want[c])
      BY <1>7, <2>2, CreateReturned, Zenon DEF PublishSeal, FoundSeal
    <3> QED
      BY <2>2, <3>0, <3>1, ReturnInv, Zenon
  <2> QED
    BY <2>1, <2>2, Zenon
<1>8. ASSUME NEW c \in Caller, SyncSeal(c)
      PROVE  (\A e \in Caller : CallerInv(e)') /\ Rest'
  <2>1. UNCHANGED <<seen, want, db, seal, created, restored>> /\ pc[c] = "sync"
    BY <1>8, Zenon DEF SyncSeal, dbVars, envVars
  <2>2. PICK r : Return(c, r)
    BY <1>8, CreateReturned, Zenon DEF SyncSeal
  <2>3. want[c] # NoId /\ seal = want[c]
    BY <2>1, Zenon
  <2> QED
    BY <2>1, <2>2, <2>3, ReturnInv, Zenon
<1>9. ASSUME NEW c \in Caller, Fail(c) \/ Die(c)
      PROVE  (\A e \in Caller : CallerInv(e)') /\ Rest'
  <2>1. UNCHANGED <<seen, want, db, seal, created, restored>>
    BY <1>9, Zenon DEF Fail, Die, dbVars, sealVars, envVars
  <2>2. PICK r \in {"failed", "none"} : Return(c, r)
    BY <1>9, Zenon DEF Fail, FailTransaction, FailSeal, Die
  <2> QED
    BY <2>1, <2>2, ReturnInv, Zenon
<1>10. CASE PowerLoss
  BY <1>10, Zenon DEF PowerLoss, TypeOK, Open, dbVars, envVars
<1>11. CASE Operator
  BY <1>11 DEF Operator, Backup, Restore, Quiet, DeleteUsers, DamageMarker, Db, TypeOK,
     Database, Open, dbVars, sealVars, callVars, envVars
<1>12. CASE UNCHANGED vars
  BY Zenon, <1>12 DEF vars, Open
<1> QED
  BY <1>1, <1>2, <1>3, <1>4, <1>5, <1>6, <1>7, <1>8, <1>9, <1>10, <1>11, <1>12, Zenon
     DEF Next, Step

-----------------------------------------------------------------------------
\* IInv holds throughout every behaviour.
THEOREM Invariance == Spec => []IInv
  BY InitInv, InvStep, PTL DEF Spec

\* The variables keep their types, and a marker with a valid status always
\* carries an identifier.
THEOREM TypeCorrect == Spec => []TypeOK
<1>1. IInv => TypeOK
  BY DEF IInv
<1> QED
  BY <1>1, Invariance, PTL

\* CreateAdmin commits at most once on an appliance whose database was never put
\* back, for any number of concurrent callers, deaths and failed calls.
THEOREM ExactlyOnceHolds == Spec => []ExactlyOnce
<1>1. IInv => ExactlyOnce
  BY Zenon DEF IInv, ExactlyOnce
<1> QED
  BY <1>1, Invariance, PTL

\* Marker and seal agree until a database is put back.
THEOREM MarkerMatchesSealHolds == Spec => []MarkerMatchesSeal
<1>1. IInv => MarkerMatchesSeal
  BY Zenon DEF IInv
<1> QED
  BY <1>1, Invariance, PTL

\* A call reports an initialised appliance only when its seal is published.
THEOREM InitializedIsSealedHolds == Spec => []InitializedIsSealed
<1>1. IInv => InitializedIsSealed
  BY Zenon DEF IInv, CallerInv, InitializedIsSealed
<1> QED
  BY <1>1, Invariance, PTL

\* No administrator is committed while a seal is on disk, whatever database the
\* operator has put beside it.
THEOREM SealClosesSetupHolds == Spec => SealClosesSetup
<1>1. IInv /\ [Next]_vars => [seal # NoId => created' = created]_vars
  <2> SUFFICES ASSUME IInv, Next, seal # NoId PROVE created' = created
    BY Zenon DEF vars
  <2>1. ASSUME NEW c \in Caller, CreateAdmin(c) PROVE FALSE
    BY <2>1, Zenon DEF CreateAdmin, StillPristine, IInv, CallerInv, MayOpen, Open
  <2>2. ASSUME NEW c \in Caller,
               (\E o \in {"reconcile", "create"} : Begin(c, o)) \/ Fail(c) \/ Die(c)
        PROVE  created' = created
    BY <2>2, Zenon DEF Begin, Fail, FailTransaction, FailSeal, Die, dbVars
  <2>3. ASSUME NEW c \in Caller,
               LoadSeal(c) \/ ReconcileState(c) \/ LostRace(c) \/ CheckSeal(c)
                 \/ PublishSeal(c) \/ SyncSeal(c)
        PROVE  created' = created
    BY <2>3, Zenon DEF LoadSeal, ReconcileState, LostRace, CheckSeal, PublishSeal, SyncSeal, dbVars
  <2>4. CASE PowerLoss \/ Operator
    BY <2>4 DEF PowerLoss, Operator, Backup, Restore, DeleteUsers, DamageMarker, dbVars
  <2> QED
    BY <2>1, <2>2, <2>3, <2>4 DEF Next, Step
<1> QED
  BY <1>1, Invariance, PTL DEF Spec, SealClosesSetup

-----------------------------------------------------------------------------
(* Installation *)

Working == Phase \ {"off", "lock"}
Refused == {"locked", "input", "missing", "target"}

LockInv == \A c \in Caller : at[c] \in Working <=> lock = c

\* What a refused process may have done.
Harmless(c, why) ==
  dirty[c] = {} \/ (cmd[c].kind = "bootstrap" /\ why = "input" /\ OnlyItsFile(c))

\* A process has changed nothing while it can still be refused, bootstrap-admin
\* nothing but the file it made.
CleanInv(c) ==
  /\ at[c] \in {"lock", "open", "inspect"} => dirty[c] = {}
  /\ cmd[c].kind = "bootstrap" /\ at[c] = "migrate" => OnlyItsFile(c)
  /\ cmd[c].kind = "bootstrap" /\ at[c] = "call" /\ Asking(c) => dirty[c] = {} \/ OnlyItsFile(c)
  /\ at[c] = "off" /\ reason[c] \in Refused => Harmless(c, reason[c])

\* What a process knows of user.db and the seal, by where it is.
CallInv(c) ==
  /\ at[c] # "call" => pc[c] = "idle" /\ result[c] = "none"
  /\ at[c] = "marker" => seen[c] = seal
  /\ Knows(c)

\* A reset past its checks.
ResetInv(c) ==
  cmd[c].kind \in Resets =>
    /\ at[c] \in {"marker", "call", "commit"} => HasTarget(c)
    /\ at[c] = "call" /\ Asking(c) => Importable

\* The serving daemon and the login it is busy with.
ServeInv(c) ==
  /\ at[c] # "serving" => proven[c] = {}
  /\ at[c] = "serving" => cached[c] = db.status /\ db.status \in {"pristine", "initialized"}
  /\ \A s \in proven[c] : s.user \in db.users => s.verifier = account[s.user].verifier

FileInv(c) == at[c] \in Working \ {"open"} => tables # NoFile

ProcInv(c) == CleanInv(c) /\ CallInv(c) /\ ResetInv(c) /\ ServeInv(c) /\ FileInv(c)

\* user.db, the seal and the sessions.
StoreInv ==
  /\ MarkerInv
  /\ db.status \in {"none", "pristine"} => sessions = {}
  /\ db.users # {} => Administrators # {}
  /\ NoSessionOutlivesReset

\* The types of the processes' own variables.
LocalTypeOK ==
  /\ lock \in Caller \cup {NoProc}
  /\ at \in [Caller -> Phase]
  /\ cmd \in [Caller -> [kind : Kind, target : Name]]
  /\ proven \in [Caller -> SUBSET Session]
  /\ cached \in [Caller -> Status]
  /\ reason \in [Caller -> Reason]
  /\ dirty \in [Caller -> SUBSET Part]
  /\ pc \in [Caller -> {"idle", "load", "reconcile", "insert", "seal", "link", "sync"}]
  /\ op \in [Caller -> Ops]
  /\ seen \in [Caller -> InstID \cup {NoId}]
  /\ want \in [Caller -> InstID \cup {NoId}]
  /\ result \in [Caller -> Results]

\* The types of what is on disk and of the bounds.
StoreTypeOK ==
  /\ db \in Database
  /\ seal \in InstID \cup {NoId}
  /\ synced \in BOOLEAN
  /\ spent \in SUBSET InstID
  /\ backups \in SUBSET Database
  /\ created \in Nat
  /\ restored \in BOOLEAN
  /\ faults \in Nat
  /\ tables \in Schema \cup {NoFile}
  /\ account \in [UserId -> Account]
  /\ sessions \in SUBSET Session
  /\ minted \in Nat
  /\ commands \in 0..MaxCommands

InstInv ==
  /\ LocalTypeOK /\ StoreTypeOK
  /\ LockInv
  /\ StoreInv
  /\ \A c \in Caller : ProcInv(c)

-----------------------------------------------------------------------------
(* What a step leaves alone *)

\* Another process is where it was and holds what it held.
Same(e) ==
  /\ at'[e] = at[e] /\ cmd'[e] = cmd[e] /\ pc'[e] = pc[e] /\ result'[e] = result[e]
  /\ seen'[e] = seen[e] /\ want'[e] = want[e] /\ proven'[e] = proven[e]
  /\ cached'[e] = cached[e] /\ reason'[e] = reason[e]
  /\ dirty'[e] = dirty[e]

Others(c) == \A e \in Caller \ {c} : Same(e)

DirtyOK(c) ==
  dirty' \in [Caller -> SUBSET Part] /\ \A e \in Caller \ {c} : dirty'[e] = dirty[e]

\* The type invariant is the two together.
LEMMA TypeParts == InstallationTypeOK <=> LocalTypeOK /\ StoreTypeOK
  BY Zenon DEF InstallationTypeOK, TypeOK, LocalTypeOK, StoreTypeOK

\* What the invariant says of one process and of the disk.
LEMMA Parts ==
  ASSUME InstInv, NEW c \in Caller
  PROVE  TypeOK /\ LocalTypeOK /\ StoreTypeOK /\ StoreInv /\ ProcInv(c)
  BY Zenon DEF InstInv, TypeOK, LocalTypeOK, StoreTypeOK

\* A process that has not got the lock, or has ended, relies on nothing on disk.
LEMMA Parked ==
  ASSUME NEW e \in Caller, ProcInv(e), at[e] \in {"off", "lock"}, Same(e)
  PROVE  ProcInv(e)'
<1> USE DEF Same
<1>1. pc[e] = "idle" /\ result[e] = "none" /\ proven[e] = {}
  BY Zenon DEF ProcInv, CallInv, ServeInv
<1>2. CleanInv(e)'
  BY Zenon DEF ProcInv, CleanInv, Harmless, OnlyItsFile
<1>3. CallInv(e)' /\ ResetInv(e)'
  BY <1>1, Zenon DEF CallInv, Knows, AtSeal, ResetInv
<1>4. ServeInv(e)' /\ FileInv(e)'
  BY <1>1, Zenon DEF ServeInv, FileInv, Working
<1> QED
  BY <1>2, <1>3, <1>4, Zenon DEF ProcInv

files0 == <<db, seal, account, tables>>

\* A process keeps what it knows while the disk stays as it is.
LEMMA Undisturbed ==
  ASSUME NEW e \in Caller, ProcInv(e), Same(e), UNCHANGED files0
  PROVE  ProcInv(e)'
<1> USE DEF Same, files0
<1>1. CleanInv(e)'
  BY Zenon DEF ProcInv, CleanInv, Harmless, OnlyItsFile, Asking
<1>2. CallInv(e)'
  BY Zenon DEF ProcInv, CallInv, Knows, AtSeal, StillPristine
<1>3. ResetInv(e)'
  BY Zenon DEF ProcInv, ResetInv, Asking, HasTarget, IsTarget, Named, Importable
<1>4. ServeInv(e)' /\ FileInv(e)'
  BY Zenon DEF ProcInv, ServeInv, FileInv
<1> QED
  BY <1>1, <1>2, <1>3, <1>4, Zenon DEF ProcInv

\* A step of one process: the lock's holder may change the disk, any other
\* leaves it alone, and what it has to establish is its own part.
LEMMA OneProcess ==
  ASSUME InstInv, NEW c \in Caller, Others(c), lock = c \/ UNCHANGED files0, ProcInv(c)'
  PROVE  \A e \in Caller : ProcInv(e)'
<1> SUFFICES ASSUME NEW e \in Caller, e # c PROVE ProcInv(e)'
  OBVIOUS
<1>1. ProcInv(e) /\ Same(e)
  BY DEF InstInv, Others
<1>2. CASE lock = c
  <2>1. at[e] \in {"off", "lock"}
    BY <1>2, Zenon DEF InstInv, LockInv, Working, LocalTypeOK
  <2> QED
    BY <1>1, <2>1, Parked, Zenon
<1>3. CASE UNCHANGED files0
  BY <1>1, <1>3, Undisturbed, Zenon
<1> QED
  BY <1>2, <1>3

\* A step that leaves user.db and the seal as they are keeps what holds of them.
LEMMA StoreUntouched ==
  ASSUME StoreInv, UNCHANGED <<db, seal, account, sessions, restored>>
  PROVE  StoreInv'
  BY Zenon DEF StoreInv, MarkerInv, Administrators, NoSessionOutlivesReset

\* Recording the step concerns the process that makes it.
LEMMA NotedFacts ==
  ASSUME NEW c \in Caller, LocalTypeOK, Noted(c) \/ dirty' = dirty
  PROVE  /\ DirtyOK(c)
         /\ UNCHANGED <<tables, db, account, sessions, seal>> => dirty' = dirty
         /\ dirty[c] \subseteq dirty'[c]
         /\ UNCHANGED <<db, account, sessions, seal>> =>
              ("rows" \in dirty'[c] => "rows" \in dirty[c])
         /\ Noted(c) /\ tables = NoFile /\ tables' # NoFile => "file" \in dirty'[c]
<1>1. Changed \in SUBSET Part
  BY Zenon DEF Changed
<1>2. CASE Noted(c)
  <2>1. /\ DirtyOK(c) /\ dirty'[c] = dirty[c] \cup Changed
        /\ Changed = {} => dirty' = dirty
    BY <1>1, <1>2, Zenon DEF LocalTypeOK, DirtyOK, Noted
  <2>2. UNCHANGED <<tables, db, account, sessions, seal>> => Changed = {}
    BY Zenon DEF Changed
  <2>3. UNCHANGED <<db, account, sessions, seal>> => "rows" \notin Changed
    BY Zenon DEF Changed
  <2>4. tables = NoFile /\ tables' # NoFile => "file" \in Changed
    BY Zenon DEF Changed, Part
  <2> QED
    BY <2>1, <2>2, <2>3, <2>4, Zenon
<1>3. CASE dirty' = dirty /\ ~Noted(c)
  BY <1>3, Zenon DEF LocalTypeOK, DirtyOK
<1> QED
  BY <1>2, <1>3, Zenon

\* A process that ends gives back the lock if it held it, and keeps its part of
\* the invariant unless it was refused after it had changed something.
LEMMA ExitFacts ==
  ASSUME InstInv, LocalTypeOK, NEW c \in Caller, NEW why \in Reason, Exit(c, why), cmd' = cmd,
         DirtyOK(c), why \in Refused => Harmless(c, why)'
  PROVE  LocalTypeOK' /\ LockInv' /\ Others(c) /\ ProcInv(c)'
<1> USE DEF Exit, Enter
<1>1. LocalTypeOK'
  BY Zenon DEF LocalTypeOK, DirtyOK, Phase, Ops, Results, Status
<1>2. LockInv'
  BY ProcessAssumption, Zenon DEF InstInv, LockInv, LocalTypeOK, Working
<1>3. Others(c)
  BY Zenon DEF Others, Same, DirtyOK, LocalTypeOK
<1>4. /\ at'[c] = "off" /\ pc'[c] = "idle" /\ result'[c] = "none"
      /\ proven'[c] = {} /\ reason'[c] = why
  BY Zenon DEF LocalTypeOK
<1>5. ProcInv(c)'
  BY <1>4, Zenon DEF ProcInv, CleanInv, Harmless, OnlyItsFile, CallInv, Knows, AtSeal, ResetInv,
     ServeInv, FileInv, Working
<1> QED
  BY <1>1, <1>2, <1>3, <1>5, Zenon

\* What every step of one process has to establish.
Kept(c) == LocalTypeOK' /\ StoreTypeOK' /\ LockInv' /\ StoreInv' /\ Others(c) /\ ProcInv(c)'

\* It is enough when only the holder of the lock touches the disk.
LEMMA KeptInv ==
  ASSUME InstInv, NEW c \in Caller, Kept(c), lock = c \/ UNCHANGED files0
  PROVE  InstInv'
<1>1. \A e \in Caller : ProcInv(e)'
  BY OneProcess, Zenon DEF Kept
<1> QED
  BY <1>1, Zenon DEF Kept, InstInv

-----------------------------------------------------------------------------
(* Starting, the lock, and the ways out *)

\* Starting a process: it stands before the lock and has changed nothing.
LEMMA StartStep ==
  ASSUME InstInv, LocalTypeOK, StoreTypeOK, StoreInv, NEW c \in Caller, ProcInv(c),
         NEW kind \in Kind, NEW target \in Name, Start(c, kind, target)
  PROVE  InstInv'
<1> USE DEF Start, Enter, files, vars
<1>1. lock # c
  BY Zenon DEF InstInv, LockInv, Working
<1>2. StoreInv'
  BY StoreUntouched, Zenon
<1>3. LocalTypeOK' /\ Others(c)
  BY Zenon DEF LocalTypeOK, Phase, Kind, Reason, Others, Same
<1>4. StoreTypeOK'
  BY CommandsAssumption DEF StoreTypeOK
<1>5. LockInv'
  BY <1>1, Zenon DEF InstInv, LockInv, LocalTypeOK, Working
<1>6. at'[c] = "lock" /\ dirty'[c] = {}
  BY Zenon DEF LocalTypeOK
<1>7. ProcInv(c)'
  BY <1>6, Zenon DEF ProcInv, CleanInv, CallInv, ResetInv, ServeInv, FileInv, Knows, AtSeal, Working
<1> QED
  BY <1>2, <1>3, <1>4, <1>5, <1>7, KeptInv, Zenon DEF Kept, files0

\* The lock is taken by the one process that finds it free; any other ends, refused.
LEMMA AcquireStep ==
  ASSUME InstInv, LocalTypeOK, StoreTypeOK, NEW c \in Caller, ProcInv(c), Acquire(c)
  PROVE  InstInv'
<1> USE DEF files, store
<1>1. /\ StoreInv' /\ StoreTypeOK' /\ UNCHANGED <<files0, cmd, dirty>>
      /\ at[c] = "lock" /\ dirty[c] = {}
  BY StoreUntouched, Zenon DEF InstInv, Acquire, StoreTypeOK, files0, ProcInv, CleanInv
<1>2. CASE Exit(c, "locked")
  <2>1. LocalTypeOK' /\ LockInv' /\ Others(c) /\ ProcInv(c)'
    BY <1>1, <1>2, NotedFacts, ExitFacts, Zenon DEF Reason, Harmless
  <2> QED
    BY <1>1, <2>1, KeptInv, Zenon DEF Kept
<1>3. CASE lock = NoProc /\ lock' = c /\ Enter(c, "open")
             /\ UNCHANGED <<reason, proven, cached, callVars>>
  <2>1. LocalTypeOK' /\ Others(c)
    BY <1>1, <1>3, Zenon DEF Enter, LocalTypeOK, Phase, Others, Same, callVars
  <2>2. LockInv'
    BY <1>3, ProcessAssumption DEF Enter, InstInv, LockInv, LocalTypeOK, Phase, Working
  <2>3. ProcInv(c)'
    BY <1>1, <1>3, Zenon DEF Enter, LocalTypeOK, ProcInv, CleanInv, CallInv, ResetInv, ServeInv,
       FileInv, Knows, AtSeal, Working, callVars
  <2> QED
    BY <1>1, <2>1, <2>2, <2>3, KeptInv, Zenon DEF Kept
<1> QED
  BY <1>2, <1>3, Zenon DEF Acquire

\* A process that ends without having touched anything in this step.
LEMMA EndStep ==
  ASSUME InstInv, LocalTypeOK, StoreTypeOK, NEW c \in Caller, NEW why \in Reason, Exit(c, why),
         why \in Refused => Harmless(c, why),
         UNCHANGED <<dbVars, sealVars, envVars, cmd, dirty, commands, files>>,
         faults' \in Nat
  PROVE  InstInv'
<1>0. (why \in Refused => Harmless(c, why)') /\ cmd' = cmd /\ DirtyOK(c)
  BY NotedFacts, Zenon DEF Harmless, OnlyItsFile
<1>1. LocalTypeOK' /\ LockInv' /\ Others(c) /\ ProcInv(c)'
  BY <1>0, ExitFacts, Zenon
<1>2. StoreInv'
  BY StoreUntouched, Zenon DEF InstInv, dbVars, sealVars, envVars, files
<1>3. StoreTypeOK' /\ UNCHANGED files0
  BY Zenon DEF StoreTypeOK, files0, dbVars, sealVars, envVars, files
<1> QED
  BY <1>1, <1>2, <1>3, KeptInv, Zenon DEF Kept

\* A refused input ends the process before it has opened anything, a refused
\* username or password before it has stored anything.
LEMMA RefuseStep ==
  ASSUME InstInv, LocalTypeOK, StoreTypeOK, NEW c \in Caller, ProcInv(c),
         RefuseInput(c) \/ RefuseCredentials(c)
  PROVE  InstInv'
<1>1. Harmless(c, "input")
  BY Zenon DEF RefuseInput, RefuseCredentials, ProcInv, CleanInv, Asking, Harmless
<1>2. Exit(c, "input") /\ UNCHANGED <<store, cmd, dirty, commands, files>>
  BY Zenon DEF RefuseInput, RefuseCredentials
<1>3. /\ UNCHANGED <<dbVars, sealVars, envVars, cmd, dirty, commands, files>>
      /\ faults' \in Nat /\ "input" \in Reason
  BY <1>2, Zenon DEF store, dbVars, sealVars, envVars, StoreTypeOK, Reason
<1> QED
  BY <1>1, <1>2, <1>3, EndStep, Zenon

\* Stopping the daemon, an error of a reset, and a kill anywhere.
LEMMA EndingsStep ==
  ASSUME InstInv, LocalTypeOK, StoreTypeOK, NEW c \in Caller,
         Stop(c) \/ ResetFails(c) \/ Kill(c)
  PROVE  InstInv'
<1>1. faults \in Nat
  BY Zenon DEF StoreTypeOK
<1>2. CASE Stop(c)
  BY <1>1, <1>2, EndStep, Zenon DEF Stop, Reason, Refused, store, dbVars, sealVars, envVars
<1>3. CASE ResetFails(c)
  BY <1>1, <1>3, EndStep DEF ResetFails, Fault, Reason, Refused
<1>4. CASE Kill(c)
  BY <1>1, <1>4, EndStep DEF Kill, Fault, Reason, Refused
<1> QED
  BY <1>2, <1>3, <1>4, Zenon

-----------------------------------------------------------------------------
(* Opening and migrating user.db *)

\* The lock is held by the process that works.
LEMMA Holder ==
  ASSUME InstInv, NEW c \in Caller, at[c] \in Working
  PROVE  lock = c
  BY Zenon DEF InstInv, LockInv

\* The process enters another phase of its work and nothing else of it changes.
LEMMA MoveFacts ==
  ASSUME InstInv, LocalTypeOK, NEW c \in Caller, NEW phase \in Working, at[c] \in Working,
         Enter(c, phase), Stay, cmd' = cmd, DirtyOK(c)
  PROVE  LocalTypeOK' /\ LockInv' /\ Others(c) /\ at'[c] = phase
<1> USE DEF Enter, Stay, callVars
<1>1. LocalTypeOK' /\ at'[c] = phase
  BY Zenon DEF LocalTypeOK, DirtyOK, Working
<1>2. LockInv' /\ Others(c)
  BY DEF InstInv, LockInv, LocalTypeOK, DirtyOK, Working, Others, Same
<1> QED
  BY <1>1, <1>2, Zenon

\* A process on its way to the library knows nothing yet.
LEMMA MovedInv ==
  ASSUME InstInv, NEW c \in Caller, at[c] \in {"open", "migrate"}, Stay, cmd' = cmd,
         at'[c] \in {"migrate", "call", "inspect"}, tables' # NoFile,
         at'[c] = "call" => cmd[c].kind \notin Resets,
         at'[c] = "inspect" => dirty'[c] = {},
         cmd[c].kind = "bootstrap" => OnlyItsFile(c)' \/ (at'[c] = "call" /\ dirty'[c] = {})
  PROVE  ProcInv(c)'
  BY Zenon DEF InstInv, ProcInv, CleanInv, OnlyItsFile, CallInv, Knows, AtSeal, ResetInv, ServeInv, FileInv,
     Stay, callVars

\* The three ways to open user.db; only the resets refuse a missing file.
LEMMA OpenStep ==
  ASSUME InstInv, LocalTypeOK, StoreTypeOK, NEW c \in Caller, ProcInv(c), OpenDatabase(c)
  PROVE  InstInv'
<1>1. /\ at[c] = "open" /\ cmd' = cmd /\ Noted(c) /\ dirty[c] = {}
      /\ UNCHANGED <<store, account, sessions, minted, commands>>
  BY Zenon DEF OpenDatabase, ProcInv, CleanInv
<1>2. DirtyOK(c) /\ (tables' = tables => dirty' = dirty)
  BY <1>1, NotedFacts, Zenon DEF store
<1>3. lock = c
  BY <1>1, Holder, Zenon DEF Working, Phase
<1>4. StoreInv'
  BY <1>1, StoreUntouched, Zenon DEF InstInv, store
<1>5. tables' \in Schema \cup {NoFile} => StoreTypeOK'
  BY <1>1, Zenon DEF StoreTypeOK, store
<1>6. CASE GetExistingDb(c) /\ tables = NoFile
  <2>1. LocalTypeOK' /\ LockInv' /\ Others(c) /\ ProcInv(c)'
    BY <1>1, <1>2, <1>6, ExitFacts, Zenon DEF GetExistingDb, Reason, Harmless
  <2>2. StoreTypeOK'
    BY <1>5, <1>6, Zenon DEF GetExistingDb, StoreTypeOK
  <2> QED
    BY <1>3, <1>4, <2>1, <2>2, KeptInv, Zenon DEF Kept
<1>7. CASE ~(GetExistingDb(c) /\ tables = NoFile)
  <2>1. PICK phase \in {"migrate", "call", "inspect"} :
          /\ Enter(c, phase) /\ Stay
          /\ tables' = IF tables = NoFile THEN {} ELSE tables
          /\ phase = "call" => cmd[c].kind \notin Resets
          /\ phase = "inspect" => tables' = tables
          /\ cmd[c].kind = "bootstrap" => tables = NoFile \/ phase = "call"
    BY <1>7, Zenon DEF OpenDatabase, GetDb, GetBootstrapDb, GetExistingDb, Resets
  <2>2. LocalTypeOK' /\ LockInv' /\ Others(c) /\ at'[c] = phase
    BY <1>1, <1>2, <2>1, MoveFacts, Zenon DEF Working, Phase
  <2>3. tables' \in Schema /\ tables' # NoFile
    BY <2>1, FileAssumption DEF StoreTypeOK, Schema
  <2>a. "rows" \notin dirty'[c] /\ (tables = NoFile => "file" \in dirty'[c])
    BY <1>1, <2>3, NotedFacts, Zenon DEF store
  <2>b. cmd[c].kind = "bootstrap" => OnlyItsFile(c)' \/ (at'[c] = "call" /\ dirty'[c] = {})
    BY <1>1, <1>2, <2>1, <2>2, <2>a, Zenon DEF OnlyItsFile
  <2>4. ProcInv(c)'
    BY <1>1, <1>2, <2>1, <2>2, <2>3, <2>b, MovedInv, Zenon
  <2> QED
    BY <1>3, <1>4, <1>5, <2>2, <2>3, <2>4, KeptInv, Zenon DEF Kept
<1> QED
  BY <1>6, <1>7, Zenon

\* AutoMigrate, killed between two tables, leaves one of the schemas listed.
LEMMA MigratedType == \A t \in Schema : Migrated(t) \in Schema
<1> SUFFICES ASSUME NEW t \in Schema PROVE Migrated(t) \in Schema
  OBVIOUS
<1>1. CASE "columns" \notin t
  <2>1. t \in {{}, Legacy, {"users", "state"}}
    BY <1>1, Zenon DEF Schema, Full, Legacy
  <2>2. t \cup {"users", "columns"} \in {{"users", "columns"}, {"users", "columns", "state"}}
    BY <2>1, Zenon DEF Legacy
  <2> QED
    BY <1>1, <2>2, Zenon DEF Migrated, Schema
<1>2. CASE "columns" \in t /\ "state" \notin t
  <2>1. t = {"users", "columns"}
    BY <1>2, Zenon DEF Schema, Full, Legacy
  <2>2. t \cup {"state"} = {"users", "columns", "state"}
    BY <2>1, Zenon
  <2> QED
    BY <1>2, <2>2, Zenon DEF Migrated, Schema
<1>3. CASE "columns" \in t /\ "state" \in t
  BY <1>3, Zenon DEF Migrated, Schema
<1> QED
  BY <1>1, <1>2, <1>3, Zenon

\* AutoMigrate brings one table up to date, or ends the process over ambiguous
\* usernames.
LEMMA MigrateStep ==
  ASSUME InstInv, LocalTypeOK, StoreTypeOK, NEW c \in Caller, ProcInv(c),
         AutoMigrate(c), cmd[c].kind \notin Resets
  PROVE  InstInv'
<1>1. /\ at[c] = "migrate" /\ cmd' = cmd /\ Noted(c)
      /\ UNCHANGED <<store, account, sessions, minted, commands>>
  BY Zenon DEF AutoMigrate
<1>2. DirtyOK(c)
  BY <1>1, NotedFacts, Zenon
<1>3. lock = c /\ tables \in Schema
  BY <1>1, Holder, Zenon DEF Working, Phase, ProcInv, FileInv, StoreTypeOK
<1>4. StoreInv'
  BY Zenon, <1>1, StoreUntouched DEF InstInv, store
<1>5. tables' \in Schema
  BY <1>3, MigratedType, Zenon DEF AutoMigrate
<1>6. StoreTypeOK' /\ tables' # NoFile
  BY <1>1, <1>5, FileAssumption, Zenon DEF StoreTypeOK, store
<1>7. CASE Exit(c, "schema")
  BY <1>1, <1>2, <1>3, <1>4, <1>6, <1>7, ExitFacts, KeptInv, Zenon DEF Kept, Reason, Refused
<1>8. CASE ~Exit(c, "schema")
  <2>1. PICK phase \in {"migrate", "call"} : Enter(c, phase) /\ Stay
    BY <1>1, <1>8, Zenon DEF AutoMigrate, Enter, LocalTypeOK
  <2>2. LocalTypeOK' /\ LockInv' /\ Others(c) /\ at'[c] = phase
    BY <1>1, <1>2, <2>1, MoveFacts, Zenon DEF Working, Phase
  <2>a. cmd[c].kind = "bootstrap" => OnlyItsFile(c)
    BY <1>1, Zenon DEF ProcInv, CleanInv
  <2>b. dirty[c] \subseteq dirty'[c] /\ ("rows" \in dirty'[c] => "rows" \in dirty[c])
    BY <1>1, NotedFacts, Zenon DEF store
  <2>c. cmd[c].kind = "bootstrap" => OnlyItsFile(c)'
    BY <2>a, <2>b, Zenon DEF OnlyItsFile
  <2>3. ProcInv(c)'
    BY <1>1, <1>2, <1>6, <2>1, <2>2, <2>c, MovedInv, Zenon
  <2> QED
    BY <1>3, <1>4, <1>6, <2>2, <2>3, KeptInv, Zenon DEF Kept
<1> QED
  BY <1>7, <1>8, Zenon

-----------------------------------------------------------------------------
(* The calls into the library *)

\* Between two steps of a call the process stays where it is in its command.
LEMMA CallFacts ==
  ASSUME InstInv, LocalTypeOK, StoreTypeOK, NEW c \in Caller, ProcInv(c), at[c] = "call",
         TypeOK', OwnCall(c), Noted(c) \/ dirty' = dirty,
         UNCHANGED <<lock, tables, sessions, proven, reason, at, cmd, cached, commands>>,
         account' \in [UserId -> Account], minted' \in Nat,
         StoreInv', Knows(c)', ResetInv(c)',
         Asking(c)' => Asking(c) /\ UNCHANGED <<db, seal, account>>
  PROVE  InstInv'
<1>1. lock = c /\ DirtyOK(c)
  BY Holder, NotedFacts, Zenon DEF Working, Phase
<1>2. LocalTypeOK' /\ StoreTypeOK'
  BY Zenon, <1>1 DEF DirtyOK, TypeOK, LocalTypeOK, StoreTypeOK
<1>3. LockInv' /\ Others(c)
  BY <1>1, Zenon DEF InstInv, LockInv, DirtyOK, Others, Same, OwnCall
<1>4. CleanInv(c)' /\ CallInv(c)' /\ ServeInv(c)' /\ FileInv(c)'
  <2>1. at'[c] = "call" /\ proven'[c] = {} /\ tables' # NoFile
    BY Zenon DEF ProcInv, ServeInv, FileInv, Working, Phase
  <2>2. Asking(c)' => Asking(c) /\ dirty' = dirty
    BY NotedFacts, Zenon
  <2>3. CleanInv(c)'
    BY <2>1, <2>2, Zenon DEF ProcInv, CleanInv, OnlyItsFile
  <2> QED
    BY <2>1, <2>3, Zenon DEF CallInv, ServeInv, FileInv
<1> QED
  BY <1>1, <1>2, <1>3, <1>4, KeptInv, Zenon DEF Kept, ProcInv

\* A step of a call but CreateAdmin's transaction.
LEMMA CallStep ==
  ASSUME InstInv, TypeOK, LocalTypeOK, StoreTypeOK, StoreInv, NEW c \in Caller, ProcInv(c),
         at[c] = "call", Exchange(c), Noted(c) \/ dirty' = dirty,
         pc[c] = "idle" => result[c] = "none",
         UNCHANGED <<lock, proven, reason, at, cmd, cached, commands, files>>
  PROVE  InstInv'
<1>1. MarkerInv /\ Knows(c)
  BY Zenon DEF StoreInv, ProcInv, CallInv
<1>2. /\ TypeOK' /\ OwnCall(c) /\ MarkerInv' /\ Knows(c)' /\ db'.users = db.users
      /\ db'.status \in {"none", "pristine"} => db.status \in {"none", "pristine"}
      /\ Asking(c)' => UNCHANGED <<db, seal>> /\ pc[c] \in {"idle", "load"}
  BY <1>1, ExchangeStep, Zenon
<1>3. UNCHANGED <<tables, account, sessions, minted>>
  BY Zenon DEF files
<1>4. StoreInv'
  BY <1>2, <1>3, Zenon DEF StoreInv, Administrators, NoSessionOutlivesReset
<1>5. ResetInv(c)'
  BY <1>2, <1>3, Zenon DEF ProcInv, ResetInv, Asking, HasTarget, IsTarget, Named, Importable
<1>6. Asking(c)' => Asking(c) /\ UNCHANGED <<db, seal, account>>
  BY <1>2, <1>3, Zenon DEF Asking
<1> QED
  BY <1>2, <1>3, <1>4, <1>5, <1>6, CallFacts, Zenon DEF StoreTypeOK

\* CreateAdmin's transaction, of bootstrap-admin alone.
LEMMA InsertStep ==
  ASSUME InstInv, TypeOK, LocalTypeOK, StoreTypeOK, StoreInv, NEW c \in Caller, ProcInv(c),
         InsertAdmin(c), cmd[c].kind \notin Resets
  PROVE  InstInv'
<1>1. /\ at[c] = "call" /\ CreateAdmin(c) /\ minted' = minted + 1 /\ Noted(c)
      /\ UNCHANGED <<lock, tables, sessions, proven, reason, at, cmd, cached, commands>>
  BY Zenon DEF InsertAdmin
<1>2. MarkerInv /\ Knows(c)
  BY Zenon DEF StoreInv, ProcInv, CallInv
<1>3. /\ TypeOK' /\ OwnCall(c) /\ MarkerInv' /\ Knows(c)' /\ ~Asking(c)'
      /\ db.status = "pristine" /\ db'.status = "initialized"
      /\ \E u \in UserId : db'.users = {u}
  BY <1>1, <1>2, CreateStep, Zenon
<1>4. PICK u \in UserId : db'.users = {u}
  BY <1>3, Zenon
<1>5. minted' \in Nat /\ cmd[c].target \in Name
  BY <1>1 DEF StoreTypeOK, LocalTypeOK
<1>6. account' \in [UserId -> Account] /\ account'[u].role = "admin"
  BY <1>1, <1>4, <1>5, Zenon DEF InsertAdmin, StoreTypeOK, Account
<1>7. StoreInv'
  BY <1>1, <1>3, <1>4, <1>6, Zenon DEF StoreInv, Administrators, NoSessionOutlivesReset
<1>8. ResetInv(c)'
  BY Zenon, <1>1 DEF ResetInv
<1> QED
  BY <1>1, <1>3, <1>5, <1>6, <1>7, <1>8, CallFacts, Zenon

\* The command goes on with the library's answer, or ends.
LEMMA ReturnedStep ==
  ASSUME InstInv, LocalTypeOK, StoreTypeOK, NEW c \in Caller, ProcInv(c), LibraryReturned(c)
  PROVE  InstInv'
<1>1. /\ at[c] = "call" /\ pc[c] = "idle" /\ result[c] # "none"
      /\ UNCHANGED <<store, cmd, dirty, commands, files>>
  BY Zenon DEF LibraryReturned
<1>2. ASSUME NEW why \in {"failed", "recovery", "already", "done"}, Exit(c, why) PROVE InstInv'
  BY <1>1, <1>2, EndStep, Zenon DEF Reason, Refused, StoreTypeOK, store, dbVars, sealVars, envVars
<1>3. ASSUME NEW phase \in {"serving", "commit"}, Resume(c, phase),
             \/ /\ phase = "serving" /\ result[c] \in {"pristine", "initialized"}
                /\ cached' = [cached EXCEPT ![c] = result[c]]
             \/ phase = "commit" /\ cached' = cached
      PROVE  InstInv'
  <2> USE <1>1, <1>3 DEF Resume, Enter
  <2>1. LocalTypeOK'
    BY ZenonT(60) DEF LocalTypeOK, Phase, Results, Status
  <2>2. StoreTypeOK' /\ StoreInv'
    BY StoreUntouched, Zenon DEF InstInv, StoreTypeOK, store, files
  <2>3. LockInv'
    BY Zenon DEF InstInv, LockInv, LocalTypeOK, Working, Phase
  <2>4. Others(c)
    BY Zenon DEF Others, Same, LocalTypeOK
  <2>5. at'[c] = phase /\ result'[c] = "none" /\ pc'[c] = "idle" /\ UNCHANGED files0
    BY Zenon DEF LocalTypeOK, store, files, files0
  <2>6. CleanInv(c)' /\ CallInv(c)' /\ FileInv(c)'
    BY <2>5, Zenon DEF CleanInv, CallInv, Knows, AtSeal, FileInv, ProcInv, Working, Phase, files0
  <2>7. ResetInv(c)'
    BY <2>5, Zenon DEF ProcInv, ResetInv, HasTarget, IsTarget, Named, files0
  <2>8. ServeInv(c)'
    BY <2>5, Zenon DEF ProcInv, CallInv, Knows, ServeInv, LocalTypeOK, files0
  <2> QED
    BY <2>1, <2>2, <2>3, <2>4, <2>5, <2>6, <2>7, <2>8, KeptInv, Zenon DEF Kept, ProcInv
<1> QED
  BY <1>2, <1>3, Zenon DEF LibraryReturned

-----------------------------------------------------------------------------
(* The resets *)

\* Adding the marker's table leaves one of the schemas listed.
LEMMA MarkerTableType == \A t \in Schema : "users" \in t => t \cup {"state"} \in Schema
<1> SUFFICES ASSUME NEW t \in Schema, "users" \in t PROVE t \cup {"state"} \in Schema
  OBVIOUS
<1>1. t \in {Legacy, {"users", "columns"}, {"users", "state"}, {"users", "columns", "state"}, Full}
  BY DEF Schema
<1>2. t \cup {"state"} \in {{"users", "state"}, {"users", "columns", "state"}, Full}
  BY <1>1, Zenon DEF Legacy, Full
<1> QED
  BY <1>2, Zenon DEF Schema

\* A reset looks up its target and adds the marker's table.
LEMMA InspectStep ==
  ASSUME InstInv, LocalTypeOK, StoreTypeOK, NEW c \in Caller, ProcInv(c), ResetInspect(c)
  PROVE  InstInv'
<1>1. /\ at[c] = "inspect" /\ dirty[c] = {} /\ tables \in Schema
      /\ UNCHANGED <<store, account, sessions, minted, cmd, commands>> /\ Noted(c)
  BY Zenon DEF ResetInspect, ProcInv, CleanInv, FileInv, Working, Phase, StoreTypeOK
<1>2. DirtyOK(c) /\ (tables' = tables => dirty' = dirty)
  BY <1>1, NotedFacts, Zenon DEF store
<1>3. ASSUME NEW why \in {"failed", "target", "recovery"}, Exit(c, why), tables' = tables
      PROVE  InstInv'
  BY <1>1, <1>2, <1>3, EndStep, Zenon
     DEF Reason, Harmless, StoreTypeOK, store, dbVars, sealVars, envVars, files
<1>4. ASSUME HasTarget(c), "users" \in tables, tables' = tables \cup {"state"},
             seen' = [seen EXCEPT ![c] = seal], Enter(c, "marker"),
             UNCHANGED <<lock, reason, proven, cached, pc, op, want, result>>
      PROVE  InstInv'
  <2> USE <1>1, <1>2, <1>4 DEF Enter
  <2>1. lock = c
    BY Holder, Zenon DEF Working, Phase
  <2>2. LocalTypeOK'
    BY Zenon DEF LocalTypeOK, StoreTypeOK, DirtyOK, Phase
  <2>3. tables' \in Schema /\ tables' # NoFile
    BY MarkerTableType, FileAssumption, Zenon
  <2>4. StoreTypeOK' /\ StoreInv'
    BY <2>3, StoreUntouched, Zenon DEF InstInv, StoreTypeOK, store
  <2>5. LockInv' /\ Others(c)
    BY Zenon DEF InstInv, LockInv, LocalTypeOK, DirtyOK, Working, Phase, Others, Same
  <2>6. /\ at'[c] = "marker" /\ seen'[c] = seal /\ UNCHANGED <<db, seal>>
    BY Zenon DEF LocalTypeOK, store
  <2>7. CleanInv(c)' /\ CallInv(c)' /\ FileInv(c)'
    BY <2>3, <2>6, Zenon DEF CleanInv, CallInv, Knows, AtSeal, FileInv, ProcInv
  <2>8. ResetInv(c)' /\ ServeInv(c)'
    BY <2>6, Zenon DEF ProcInv, ResetInv, HasTarget, IsTarget, Named, ServeInv
  <2> QED
    BY <2>1, <2>2, <2>4, <2>5, <2>7, <2>8, KeptInv, Zenon DEF Kept, ProcInv
<1> QED
  <2>1. CASE "users" \notin tables \/ ~HasTarget(c) \/ (~HasState /\ seal # NoId)
    BY <1>3, <2>1, Zenon DEF ResetInspect
  <2>2. CASE ~("users" \notin tables \/ ~HasTarget(c) \/ (~HasState /\ seal # NoId))
    BY <1>4, <2>2, Zenon DEF ResetInspect
  <2> QED
    BY <2>1, <2>2, Zenon

\* A reset goes on only with a marker that ReconcileState will import or keep.
LEMMA MarkerStep ==
  ASSUME InstInv, LocalTypeOK, StoreTypeOK, NEW c \in Caller, ProcInv(c), ResetCheckMarker(c),
         cmd[c].kind \in Resets
  PROVE  InstInv'
<1>1. at[c] = "marker" /\ seen[c] = seal /\ UNCHANGED <<store, cmd, dirty, commands, files>>
  BY Zenon DEF ResetCheckMarker, ProcInv, CallInv
<1>2. CASE Exit(c, "recovery")
  BY <1>1, <1>2, EndStep, Zenon DEF Reason, Refused, StoreTypeOK, store, dbVars, sealVars, envVars
<1>3. CASE MarkerAllowsReset(c) /\ Enter(c, "call") /\ Stay
  <2>1. LocalTypeOK' /\ LockInv' /\ Others(c) /\ at'[c] = "call"
    BY <1>1, <1>3, NotedFacts, MoveFacts, Zenon DEF Working, Phase
  <2>2. StoreTypeOK' /\ StoreInv' /\ UNCHANGED files0
    BY <1>1, StoreUntouched, Zenon DEF InstInv, StoreTypeOK, store, files, files0
  <2>3. Importable
    BY <1>1, <1>3, Zenon DEF MarkerAllowsReset, Importable
  <2>4. CleanInv(c)' /\ CallInv(c)' /\ FileInv(c)'
    BY Zenon, <1>1, <1>3, <2>1, <2>2 DEF Stay, callVars, Resets, CleanInv, CallInv, Knows, AtSeal, FileInv,
       ProcInv, Working, Phase, files0
  <2>5. ResetInv(c)'
    BY <1>1, <1>3, <2>1, <2>2, <2>3, Zenon DEF Stay, callVars, ProcInv, ResetInv, HasTarget,
       IsTarget, Named, Importable, files0
  <2>6. ServeInv(c)'
    BY <1>1, <1>3, <2>1, <2>2, Zenon DEF Stay, ProcInv, ServeInv
  <2> QED
    BY <2>1, <2>2, <2>4, <2>5, <2>6, KeptInv, Zenon DEF Kept, ProcInv
<1> QED
  BY <1>2, <1>3, Zenon DEF ResetCheckMarker

\* The transaction of a reset replaces one verifier and drops that account's
\* sessions.
LEMMA CommitStep ==
  ASSUME InstInv, LocalTypeOK, StoreTypeOK, StoreInv, NEW c \in Caller, ProcInv(c),
         ResetCommit(c), cmd[c].kind \in Resets
  PROVE  InstInv'
<1>1. /\ at[c] = "commit" /\ HasTarget(c)
      /\ UNCHANGED <<store, tables, cmd, commands>> /\ Noted(c)
  BY Zenon DEF ResetCommit, ProcInv, ResetInv
<1>2. DirtyOK(c) /\ (UNCHANGED <<account, sessions>> => dirty' = dirty)
  BY <1>1, NotedFacts, Zenon DEF store
<1>3. CASE Exit(c, "recovery") /\ UNCHANGED <<account, sessions, minted>>
  BY <1>1, <1>2, <1>3, EndStep, Zenon
     DEF Reason, Refused, StoreTypeOK, store, dbVars, sealVars, envVars, files
<1>4. ASSUME Exit(c, "done"), minted' = minted + 1, db.status = "initialized",
             NEW u \in db.users,
             account' = [account EXCEPT ![u].verifier = minted + 1],
             sessions' = OtherSessions(u)
      PROVE  InstInv'
  <2>1. LocalTypeOK' /\ LockInv' /\ Others(c) /\ ProcInv(c)'
    BY <1>1, <1>2, <1>4, ExitFacts, Zenon DEF Reason, Refused
  <2>2. lock = c
    BY <1>1, Holder, Zenon DEF Working, Phase
  <2>3. u \in UserId /\ db.users \subseteq UserId
    BY <1>4, Zenon DEF StoreTypeOK, Database
  <2>4. /\ account' \in [UserId -> Account]
        /\ \A v \in UserId : account'[v].role = account[v].role
        /\ \A v \in UserId : v # u => account'[v] = account[v]
    BY <1>4, <2>3 DEF StoreTypeOK, Account
  <2>5. StoreTypeOK'
    <3>1. sessions' \in SUBSET Session
      BY <1>4, Zenon DEF StoreTypeOK, OtherSessions
    <3>2. minted' \in Nat
      BY <1>4, OneMore, Zenon DEF StoreTypeOK
    <3> QED
      BY <1>1, <2>4, <3>1, <3>2, Zenon DEF StoreTypeOK, store
  <2>6. Administrators' = Administrators
    BY Zenon, <1>1, <2>3, <2>4 DEF Administrators, store
  <2>7. NoSessionOutlivesReset'
    BY <1>1, <1>4, <2>3, <2>4, Zenon DEF StoreInv, NoSessionOutlivesReset, OtherSessions, store
  <2>8. StoreInv'
    BY <1>1, <1>4, <2>6, <2>7, Zenon DEF StoreInv, MarkerInv, OtherSessions, store
  <2> QED
    BY <2>1, <2>2, <2>5, <2>8, KeptInv, Zenon DEF Kept
<1> QED
  <2>1. CASE seal # want[c] \/ db.id # want[c] \/ db.status # "initialized"
    BY <1>3, <2>1, Zenon DEF ResetCommit
  <2>2. CASE ~(seal # want[c] \/ db.id # want[c] \/ db.status # "initialized")
    BY <1>1, <1>4, <2>2, Zenon DEF ResetCommit
  <2> QED
    BY <2>1, <2>2, Zenon

-----------------------------------------------------------------------------
(* The serving daemon *)

\* What no request to the daemon changes.
Served(c) ==
  UNCHANGED <<lock, tables, minted, at, cmd, cached, reason, commands, callVars,
              spent, created, sealVars, envVars, faults>>

\* The daemon goes on serving: it holds the lock and no other process works.
LEMMA ServingFacts ==
  ASSUME InstInv, LocalTypeOK, StoreTypeOK, NEW c \in Caller, ProcInv(c), at[c] = "serving",
         Served(c), Noted(c) \/ dirty' = dirty,
         NEW p \in SUBSET Session, proven' = [proven EXCEPT ![c] = p],
         db' \in Database, db'.id = db.id, db'.status = db.status,
         account' \in [UserId -> Account], sessions' \in SUBSET Session,
         StoreInv',
         \A s \in p : s.user \in db'.users => s.verifier = account'[s.user].verifier
  PROVE  InstInv'
<1>1. lock = c /\ DirtyOK(c)
  BY Zenon, Holder, NotedFacts DEF Working, Phase
<1>2. LocalTypeOK' /\ StoreTypeOK'
  BY <1>1, Zenon DEF LocalTypeOK, StoreTypeOK, DirtyOK, Served, callVars, sealVars, envVars
<1>3. UNCHANGED <<lock, at, cmd, cached, reason, tables, seal, pc, result, seen, want>>
  BY Zenon DEF Served, callVars, sealVars
<1>4. LockInv' /\ Others(c)
  BY <1>1, <1>3, Zenon DEF InstInv, LockInv, Others, Same, DirtyOK, LocalTypeOK
<1>5. CleanInv(c)' /\ CallInv(c)' /\ ResetInv(c)' /\ FileInv(c)'
  BY <1>3, Zenon DEF ProcInv, CleanInv, CallInv, Knows, AtSeal, ResetInv, FileInv
<1>6. ServeInv(c)'
  BY <1>3, Zenon DEF ProcInv, ServeInv, LocalTypeOK
<1> QED
  BY <1>1, <1>2, <1>4, <1>5, <1>6, KeptInv, Zenon DEF Kept, ProcInv

\* A password is checked against the stored verifier.
LEMMA AuthenticateStep ==
  ASSUME InstInv, LocalTypeOK, StoreTypeOK, StoreInv, NEW c \in Caller, ProcInv(c),
         NEW u \in UserId, AuthenticateUser(c, u)
  PROVE  InstInv'
<1> DEFINE s == [user |-> u, verifier |-> account[u].verifier]
<1>1. {s} \in SUBSET Session
  BY DEF StoreTypeOK, Account, Session
<1>2. at[c] = "serving" /\ proven' = [proven EXCEPT ![c] = {s}]
  BY Zenon DEF AuthenticateUser
<1>3. Served(c)
  BY Zenon DEF AuthenticateUser, Served, vars, files, callVars, sealVars, envVars
<1>4. UNCHANGED <<db, seal, account, sessions, restored, dirty>>
  BY Zenon DEF AuthenticateUser, vars, files
<1>5. StoreInv'
  BY <1>4, StoreUntouched
<1>6. /\ db' \in Database /\ db'.id = db.id /\ db'.status = db.status
      /\ account' \in [UserId -> Account] /\ sessions' \in SUBSET Session
  BY <1>4, Zenon DEF StoreTypeOK
<1>7. \A t \in {s} : t.user \in db'.users => t.verifier = account'[t.user].verifier
  <2>1. s.user = u /\ s.verifier = account[u].verifier
    BY Zenon
  <2> QED
    BY <1>4, <2>1, Zenon
<1> HIDE DEF s
<1> QED
  BY <1>1, <1>2, <1>3, <1>4, <1>5, <1>6, <1>7, ServingFacts, Zenon

\* The login's session is stored: the verifier it proved is still the account's,
\* because no reset can have run under this daemon's lock.
LEMMA IssueStep ==
  ASSUME InstInv, LocalTypeOK, StoreTypeOK, StoreInv, NEW c \in Caller, ProcInv(c),
         IssueLoginSession(c)
  PROVE  InstInv'
<1>1. /\ at[c] = "serving" /\ proven' = [proven EXCEPT ![c] = {}] /\ Noted(c)
      /\ sessions' = sessions \cup {s \in proven[c] : s.user \in db.users}
  BY Zenon DEF IssueLoginSession
<1>2. Served(c)
  BY Zenon DEF IssueLoginSession, Served, vars, callVars, sealVars, envVars
<1>3. UNCHANGED <<db, seal, account, restored>>
  BY Zenon DEF IssueLoginSession, vars
<1>4. db.status = "pristine" => db.users = {}
  BY DEF StoreInv, MarkerInv
<1>5. db.status \in {"none", "pristine"} => sessions' = {}
  BY <1>1, <1>4, Zenon DEF StoreInv, ProcInv, ServeInv
<1>6. NoSessionOutlivesReset'
  BY <1>1, <1>3, Zenon DEF StoreInv, NoSessionOutlivesReset, ProcInv, ServeInv
<1>7. StoreInv'
  BY <1>3, <1>5, <1>6, Zenon DEF StoreInv, MarkerInv, Administrators
<1>8. /\ db' \in Database /\ db'.id = db.id /\ db'.status = db.status
      /\ account' \in [UserId -> Account]
  BY <1>3, Zenon DEF StoreTypeOK
<1>9. sessions' \in SUBSET Session
  BY <1>1, Zenon DEF LocalTypeOK, StoreTypeOK
<1>10. /\ {} \in SUBSET Session
       /\ \A s \in {} : s.user \in db'.users => s.verifier = account'[s.user].verifier
  OBVIOUS
<1> QED
  BY <1>1, <1>2, <1>7, <1>8, <1>9, <1>10, ServingFacts, Zenon

\* An account is deleted, never the last administrator's.
LEMMA DeleteStep ==
  ASSUME InstInv, LocalTypeOK, StoreTypeOK, StoreInv, NEW c \in Caller, ProcInv(c),
         NEW u \in UserId, DeleteUserById(c, u)
  PROVE  InstInv'
<1>1. /\ at[c] = "serving" /\ u \in db.users /\ Administrators # {u} /\ Noted(c)
      /\ sessions # {} /\ sessions' \subseteq sessions /\ UNCHANGED <<seal, restored, proven>>
  BY Zenon DEF DeleteUserById, OtherSessions, sealVars, envVars
<1>2. Served(c)
  BY Zenon DEF DeleteUserById, Served
<1>3. /\ db'.id = db.id /\ db'.status = db.status /\ db'.users = db.users \ {u}
      /\ db' \in Database /\ db.users \subseteq UserId
  BY Zenon DEF DeleteUserById, StoreTypeOK, Database
<1>4. NoRow \in Account
  BY ProcessAssumption, Zenon DEF NoRow, Account
<1>5. account' \in [UserId -> Account] /\ \A v \in UserId : v # u => account'[v] = account[v]
  BY <1>4, Zenon DEF DeleteUserById, StoreTypeOK
<1>6. Administrators' # {} /\ db'.users # {}
  <2>1. PICK a \in Administrators : a # u
    BY <1>1, Zenon DEF StoreInv
  <2> QED
    BY <1>3, <1>5, <2>1, Zenon DEF Administrators
<1>7. NoSessionOutlivesReset'
  BY <1>1, <1>3, <1>5, ZenonT(30) DEF StoreInv, NoSessionOutlivesReset
<1>8. StoreInv'
  BY <1>1, <1>3, <1>6, <1>7, Zenon DEF StoreInv, MarkerInv
<1>9. \A s \in proven[c] : s.user \in db'.users => s.verifier = account'[s.user].verifier
  BY <1>3, <1>5, Zenon DEF ProcInv, ServeInv
<1>10. proven' = [proven EXCEPT ![c] = proven[c]] /\ proven[c] \in SUBSET Session
  BY Zenon, <1>1 DEF LocalTypeOK
<1>11. sessions' \in SUBSET Session
  BY <1>1, Zenon DEF StoreTypeOK
<1> QED
  BY <1>1, <1>2, <1>3, <1>5, <1>8, <1>9, <1>10, <1>11, ServingFacts, Zenon

-----------------------------------------------------------------------------
(* The operator, and the whole *)

\* The operator swaps the database while every process is off.
LEMMA ReplaceStep ==
  ASSUME InstInv, LocalTypeOK, StoreTypeOK, StoreInv, ReplaceDatabase
  PROVE  InstInv'
<1>1. /\ \A c \in Caller : at[c] = "off"
      /\ sessions' = {} /\ restored' = TRUE
      /\ UNCHANGED <<spent, created, backups, sealVars, callVars, faults, lock, at, cmd,
                     proven, cached, reason, dirty, minted, commands>>
  BY Zenon DEF ReplaceDatabase
<1>2. PICK users \in SUBSET UserId :
        /\ db' = Db(NoId, "none", users)
        /\ tables' = IF users = {} THEN NoFile ELSE Legacy
        /\ account' = [u \in UserId |->
             IF u \in users THEN [account[u] EXCEPT !.verifier = 0, !.role = "admin"] ELSE NoRow]
  BY Zenon DEF ReplaceDatabase
<1>3. db' \in Database /\ db'.status = "none" /\ db'.users = users
  BY <1>2, Zenon DEF Db, Database, Status
<1>4. NoRow \in Account
  BY ProcessAssumption DEF NoRow, Account
<1>5. ASSUME NEW u \in users
      PROVE  [account[u] EXCEPT !.verifier = 0, !.role = "admin"] \in Account
  BY <1>5, Zenon DEF StoreTypeOK, Account
<1>6. account' \in [UserId -> Account]
  BY <1>2, <1>4, <1>5, Zenon
<1>7. \A u \in users : account'[u].role = "admin"
  BY <1>2, Zenon DEF StoreTypeOK, Account
<1>8. StoreTypeOK'
  BY <1>1, <1>2, <1>3, <1>6, Zenon DEF StoreTypeOK, Schema, sealVars
<1>9. StoreInv'
  BY <1>1, <1>3, <1>7, Zenon DEF StoreInv, MarkerInv, Administrators, NoSessionOutlivesReset
<1>10. LocalTypeOK' /\ LockInv'
  BY Zenon, <1>1 DEF LocalTypeOK, InstInv, LockInv, callVars
<1>11. ASSUME NEW e \in Caller PROVE ProcInv(e)'
  BY <1>1, Parked, Zenon DEF InstInv, Same, callVars
<1> QED
  BY <1>8, <1>9, <1>10, <1>11, Zenon DEF InstInv

\* A new appliance and the database of an older release satisfy the invariant.
LEMMA InstallationInitInv == InstallationInit => InstInv
<1> SUFFICES ASSUME InstallationInit PROVE InstInv
  OBVIOUS
<1>1. TypeOK
  BY InitInv, Zenon DEF InstallationInit, IInv
<1>2. PICK users \in SUBSET UserId : db = Db(NoId, "none", users)
  BY Zenon DEF InstallationInit, Init
<1>3. /\ db.status = "none" /\ seal = NoId
      /\ pc = [c \in Caller |-> "idle"] /\ result = [c \in Caller |-> "none"]
  BY <1>2, Zenon DEF InstallationInit, Init, Db
<1>4. NoRow.name \in Name
  BY ProcessAssumption, Zenon DEF NoRow
<1>5. account \in [UserId -> Account]
  <2>1. account \in [UserId -> [name : Name, role : {"admin", "user"}, verifier : {0}]]
    BY Zenon DEF InstallationInit
  <2> QED
    BY <2>1 DEF Account
<1>6. /\ tables \in Schema \cup {NoFile} /\ lock = NoProc /\ at = [c \in Caller |-> "off"]
      /\ cmd \in [Caller -> [kind : Kind, target : Name]]
      /\ proven \in [Caller -> SUBSET Session] /\ cached \in [Caller -> Status]
      /\ reason \in [Caller -> Reason]
      /\ dirty = [c \in Caller |-> {}] /\ minted \in Nat /\ commands \in 0..MaxCommands
      /\ sessions = {}
  <2>1. 0 \in Nat /\ 0 \in 0..MaxCommands
    BY CommandsAssumption
  <2> QED
    BY <1>4, <2>1, ZenonT(30) DEF InstallationInit, Schema, Kind, Status, Reason
<1>7. LocalTypeOK /\ StoreTypeOK
  BY <1>1, <1>5, <1>6, TypeParts, Zenon DEF InstallationTypeOK, Phase
<1>8. LockInv
  BY <1>6, ProcessAssumption, Zenon DEF LockInv, Working
<1>9. StoreInv
  BY <1>3, <1>6, Zenon DEF InstallationInit, StoreInv, MarkerInv, Occupied, NoSessionOutlivesReset
<1>10. ASSUME NEW c \in Caller PROVE ProcInv(c)
  BY <1>3, <1>6, Zenon DEF InstallationInit, ProcInv, CleanInv, CallInv, Knows, AtSeal, ResetInv,
     ServeInv, FileInv, Working, Refused
<1> QED
  BY <1>7, <1>8, <1>9, <1>10, Zenon DEF InstInv

\* Every step keeps the invariant.
LEMMA InstallationStep == InstInv /\ [InstallationNext]_allVars => InstInv'
<1> SUFFICES ASSUME InstInv, [InstallationNext]_allVars PROVE InstInv'
  OBVIOUS
<1>1. ASSUME NEW c \in Caller, Proceed(c) PROVE InstInv'
  <2> TypeOK /\ LocalTypeOK /\ StoreTypeOK /\ StoreInv /\ ProcInv(c)
    BY Parts
  <2>1. CASE Common(c)
    <3>1. CASE LibraryStep(c)
      BY <3>1, CallStep, Zenon DEF LibraryStep, Exchange, LoadSeal, ReconcileState, CheckSeal,
         PublishSeal, SyncSeal
    <3>2. CASE CallLibrary(c)
      BY <3>2, CallStep, Zenon DEF CallLibrary, Exchange, insVars, files
    <3> QED
      BY <2>1, <3>1, <3>2, AcquireStep, OpenStep, ReturnedStep, Zenon DEF Common
  <2>2. CASE cmd[c].kind \in {"serve", "bootstrap"} /\ AutoMigrate(c)
    BY <2>2, MigrateStep, Zenon DEF Resets
  <2>3. CASE cmd[c].kind = "bootstrap" /\ (InsertAdmin(c) \/ NoSuchTable(c))
    <3>1. CASE NoSuchTable(c)
      BY <3>1, CallStep, Zenon DEF NoSuchTable, Exchange, QueryFails, FailTransaction,
         insVars, files
    <3> QED
      BY <2>3, <3>1, InsertStep, Zenon DEF Resets
  <2>4. CASE cmd[c].kind \in Resets /\ (ResetInspect(c) \/ ResetCheckMarker(c) \/ ResetCommit(c))
    BY <2>4, InspectStep, MarkerStep, CommitStep, Zenon
  <2> QED
    BY <1>1, <2>1, <2>2, <2>3, <2>4, Zenon DEF Proceed, runServer, runBootstrapAdmin,
       runResetAdminPassword, runResetUserPassword, ResetAdminPassword, ResetUserPassword, Resets
<1>2. ASSUME NEW c \in Caller, Daemon(c) PROVE InstInv'
  BY <1>2, Parts, AuthenticateStep, IssueStep, DeleteStep, EndingsStep, Zenon DEF Daemon
<1>3. ASSUME NEW c \in Caller,
             RefuseInput(c) \/ RefuseCredentials(c) \/ LibraryFails(c) \/ ResetFails(c) \/ Kill(c)
      PROVE  InstInv'
  <2>1. CASE LibraryFails(c)
    BY <2>1, Parts, CallStep, Zenon DEF LibraryFails, Exchange, Fail, FailTransaction, FailSeal,
       insVars, files
  <2> QED
    BY <1>3, <2>1, Parts, RefuseStep, EndingsStep, Zenon
<1>4. CASE UNCHANGED allVars
  <2>1. UNCHANGED <<db, seal, synced, spent, pc, op, seen, want, result, backups, created, restored,
                    faults, lock, tables, account, sessions, at, cmd, proven, cached, reason,
                    dirty, minted, commands>>
    BY <1>4, Zenon DEF allVars, vars, insVars
  <2>2. LocalTypeOK' /\ StoreTypeOK' /\ LockInv'
    BY <2>1, Zenon DEF InstInv, LocalTypeOK, StoreTypeOK, LockInv
  <2>3. StoreInv'
    BY <2>1, StoreUntouched, Zenon DEF InstInv
  <2>4. ASSUME NEW e \in Caller PROVE ProcInv(e)'
    BY Zenon, <2>1, Undisturbed DEF InstInv, Same, files0
  <2> QED
    BY <2>2, <2>3, <2>4, Zenon DEF InstInv
<1>5. ASSUME NEW c \in Caller, NEW kind \in Kind, NEW target \in Name, Start(c, kind, target)
      PROVE  InstInv'
  BY <1>5, Parts, StartStep, Zenon
<1>6. CASE ReplaceDatabase
  BY <1>6, ReplaceStep, Zenon DEF InstInv
<1> QED
  BY <1>1, <1>2, <1>3, <1>4, <1>5, <1>6, Zenon DEF InstallationNext

-----------------------------------------------------------------------------
\* The inductive invariant holds throughout every behaviour.
THEOREM InstallationInvariance == InstallationSpec => []InstInv
  BY InstallationInitInv, InstallationStep, PTL DEF InstallationSpec

\* The variables of the appliance and its processes keep their types: no kill
\* leaves a schema that AutoMigrate or a reset does not expect.
THEOREM InstallationTypeCorrect == InstallationSpec => []InstallationTypeOK
<1>1. InstInv => InstallationTypeOK
  BY TypeParts, Zenon DEF InstInv
<1> QED
  BY <1>1, InstallationInvariance, PTL

\* No session stored by a login that proved an old password survives the reset
\* of that password, whatever the order of daemons, commands and kills.
THEOREM NoSessionOutlivesResetHolds == InstallationSpec => []NoSessionOutlivesReset
<1>1. InstInv => NoSessionOutlivesReset
  BY Zenon DEF InstInv, StoreInv
<1> QED
  BY <1>1, InstallationInvariance, PTL

\* The status endpoint's snapshot is the marker's status while a daemon serves.
THEOREM SnapshotIsCurrentHolds == InstallationSpec => []SnapshotIsCurrent
<1>1. InstInv => SnapshotIsCurrent
  BY Zenon DEF InstInv, ProcInv, ServeInv, SnapshotIsCurrent, GetInitializationState
<1> QED
  BY <1>1, InstallationInvariance, PTL

\* CreateAdmin's second look inside its transaction never finds another marker.
THEOREM RaceIsNeverLostHolds == InstallationSpec => []RaceIsNeverLost
<1>1. InstInv => RaceIsNeverLost
  BY Zenon DEF InstInv, ProcInv, CallInv, Knows, RaceIsNeverLost
<1> QED
  BY <1>1, InstallationInvariance, PTL

\* A command that was refused has changed nothing; bootstrap-admin refused for its
\* username or password, nothing but an empty database that it made itself.
THEOREM RefusalChangesNothingHolds == InstallationSpec => []RefusalChangesNothing
<1>1. InstInv => RefusalChangesNothing
  BY Zenon DEF InstInv, ProcInv, CleanInv, Harmless, Refused, RefusalChangesNothing
<1> QED
  BY <1>1, InstallationInvariance, PTL

\* Nothing but the operator's swap of the database leads to recovery.
THEOREM NeverLocksItselfOutHolds == InstallationSpec => []NeverLocksItselfOut
<1>1. InstInv => NeverLocksItselfOut
  BY Zenon DEF InstInv, StoreInv, MarkerInv, NeverLocksItselfOut
<1> QED
  BY <1>1, InstallationInvariance, PTL

\* user.db is written by a process in the library's transactions, by a serving
\* daemon, or by the operator when nothing runs.
LEMMA DatabaseWriters ==
  ASSUME InstallationNext, db' # db
  PROVE  \/ \E e \in Caller : at[e] = "call" /\ (ReconcileState(e) \/ pc[e] = "insert")
         \/ \E e \in Caller : at[e] = "serving"
         \/ \A e \in Caller : at[e] = "off"
<1>1. ASSUME NEW c \in Caller, Proceed(c)
      PROVE  at[c] = "call" /\ (ReconcileState(c) \/ pc[c] = "insert")
  <2>1. CASE Acquire(c) \/ OpenDatabase(c) \/ CallLibrary(c) \/ LibraryReturned(c)
    BY <2>1, Zenon DEF Acquire, OpenDatabase, CallLibrary, Begin, LibraryReturned, store, dbVars
  <2>2. CASE LibraryStep(c)
    BY <2>2, Zenon DEF LibraryStep, LoadSeal, CheckSeal, PublishSeal, SyncSeal, dbVars
  <2>3. CASE AutoMigrate(c) \/ ResetInspect(c) \/ ResetCheckMarker(c) \/ ResetCommit(c)
    BY <2>3, Zenon DEF AutoMigrate, ResetInspect, ResetCheckMarker, ResetCommit, store
  <2>4. CASE InsertAdmin(c) \/ NoSuchTable(c)
    BY <2>4, Zenon DEF InsertAdmin, CreateAdmin, NoSuchTable, dbVars
  <2> QED
    BY <1>1, <2>1, <2>2, <2>3, <2>4, Zenon DEF Proceed, Common, runServer, runBootstrapAdmin,
       runResetAdminPassword, runResetUserPassword, ResetAdminPassword, ResetUserPassword
<1>2. ASSUME NEW c \in Caller, Daemon(c) PROVE at[c] = "serving"
  BY <1>2, Zenon DEF Daemon, AuthenticateUser, DeleteUserById, IssueLoginSession, Stop
<1>3. ASSUME NEW c \in Caller,
             RefuseInput(c) \/ RefuseCredentials(c) \/ LibraryFails(c) \/ ResetFails(c) \/ Kill(c)
      PROVE  FALSE
  BY <1>3, Zenon DEF RefuseInput, RefuseCredentials, LibraryFails, Fail, ResetFails, Kill, store, dbVars
<1>4. ASSUME NEW c \in Caller, NEW kind \in Kind, NEW target \in Name, Start(c, kind, target)
      PROVE  FALSE
  BY <1>4, Zenon DEF Start, vars
<1>5. ASSUME ReplaceDatabase PROVE \A e \in Caller : at[e] = "off"
  BY <1>5, Zenon DEF ReplaceDatabase
<1> QED
  BY <1>1, <1>2, <1>3, <1>4, <1>5, Zenon DEF InstallationNext

\* A reset marks a database initialised or leaves its marker alone.
THEOREM ResetOnlyImportsHolds == InstallationSpec => ResetOnlyImports
<1>1. ASSUME InstInv, InstallationNext, NEW c \in Caller, cmd[c].kind \in Resets,
             pc[c] = "reconcile", db' # db
      PROVE  db'.status = "initialized"
  <2>1. ProcInv(c) /\ TypeOK /\ MarkerInv
    BY <1>1, Parts, Zenon DEF StoreInv
  <2>2. at[c] = "call" /\ seen[c] = seal
    BY <1>1, <2>1, Zenon DEF ProcInv, CallInv, Knows
  <2>3. ASSUME NEW e \in Caller, at[e] \in {"call", "serving"} PROVE e = c
    BY <1>1, <2>2, <2>3, Holder, Zenon DEF Working, Phase
  <2>4. ReconcileState(c)
    BY <1>1, <2>2, <2>3, DatabaseWriters, Zenon
  <2>5. PICK new \in InstID : db' = Reconciled(db, seal, new)
    BY <2>2, <2>4, Zenon DEF ReconcileState
  <2>6. Importable /\ db.users # {}
    BY <1>1, <2>1, <2>2, Zenon DEF ProcInv, ResetInv, Asking, HasTarget
  <2> QED
    BY <2>1, <2>5, <2>6, ReconciledStore, Zenon
<1>2. InstInv /\ [InstallationNext]_allVars =>
        [\A c \in Caller :
           cmd[c].kind \in Resets /\ pc[c] = "reconcile" /\ pc'[c] # pc[c] /\ db' # db =>
             db'.status = "initialized"]_allVars
  BY <1>1, Zenon
<1> QED
  BY <1>2, InstallationInvariance, PTL DEF InstallationSpec, ResetOnlyImports
=============================================================================
