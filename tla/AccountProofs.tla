----------------------------- MODULE AccountProofs -----------------------------
(***************************************************************************)
(* Proofs about the two parts that guard and change accounts:              *)
(* LoginThrottle, for every set of keys and every finite set of requests,  *)
(* limit, window, lock length and retention, and Profile, for every set of *)
(* accounts, names and requests.                                           *)
(***************************************************************************)
EXTENDS LoginThrottle, FiniteSetTheorems, TLAPS

\* One more lock is one more round of the requests.
LEMMA Times == \A n, l \in Nat : n * (l + 1) = n * l + n /\ n * l \in Nat
  OBVIOUS

\* Sums and orders of the numbers a budget is made of: failures, locks, requests
\* and faults.
LEMMA Arithmetic ==
  /\ \A n \in Nat : n + 1 \in Nat /\ (n # 0 => n >= 1) /\ n * (0 + 1) = n
  /\ \A m, n \in Nat : (m < n <=> ~(m >= n)) /\ (m < n <=> ~(n <= m))
  /\ \A m, n \in Nat : m + 1 < n => m < n
  /\ \A m \in Nat \ {0} : m \in Nat /\ 0 < m
  OBVIOUS

\* What a row accounts for is a number.
LEMMA Whole == \A m, n \in Nat : m \in Int /\ m - 1 + n \in Int
  OBVIOUS

\* What ends after a time ends after every earlier time.
LEMMA Before == \A m, n, u \in Nat : m <= n /\ n < u => m < u
  OBVIOUS

\* A lock that starts now ends after every lock that has ended.
LEMMA Later == \A now, u, v \in Nat : v > now /\ (u = 0 \/ u <= now) => v # 0 /\ v # u
  OBVIOUS

\* An open budget pays for what it counts.
LEMMA Opened == \A w, g, s, o, f \in Nat : w = s /\ g = 0 => w + g <= s + o + f
  OBVIOUS

\* A failure on the row replaces a failure owed.
LEMMA Paid ==
  ASSUME NEW w \in Nat, NEW g \in Nat, NEW s \in Nat, NEW o \in Nat, NEW f \in Nat,
         w + g <= s + (o + 1) + f
  PROVE  w + 0 <= (s + 1) + o + f
  OBVIOUS

\* The first lock of a budget pays for the requests under way.
LEMMA FirstLock ==
  ASSUME NEW L \in Nat \ {0}, NEW n \in Nat, NEW g \in Nat, NEW o \in Nat, NEW p \in Nat,
         NEW f \in Nat, g + o <= n, o >= 1
  PROVE  1 + g <= (L - 1 + n) + p + f
  OBVIOUS

\* So does every later one.
LEMMA NextLock ==
  ASSUME NEW w \in Nat, NEW g \in Nat, NEW q \in Nat, NEW o \in Nat, NEW p \in Nat, NEW f \in Nat,
         NEW n \in Nat, NEW s \in Int, NEW t \in Int,
         w + g <= s + o + f, q + o <= n, s + n <= t
  PROVE  w + q <= t + p + f
  OBVIOUS

\* A lock adds a round of requests to what the row accounts for.
LEMMA Round ==
  ASSUME NEW L \in Nat \ {0}, NEW n \in Nat, NEW m \in Nat
  PROVE  /\ \A f \in Nat : f < L => f + n <= L - 1 + (m + n)
         /\ (L - 1 + m) + n <= L - 1 + (m + n)
         /\ L - 1 + (m + n) \in Int /\ L - 1 + m \in Int
  OBVIOUS

Busy == [at : Label, key : Key, now : Time]

\* The time a request works with is never ahead of the clock.
IInv ==
  /\ TypeOK
  /\ \A h \in Handler : loc[h] # Idle => loc[h].now <= clock

-----------------------------------------------------------------------------
\* The fields of a row, and the times.
LEMMA RowFields ==
  /\ \A r \in Row : r.failures \in Nat /\ r.until \in Nat
  /\ \A now \in Time : now \in Nat
  BY ThrottleAssumption DEF Row, NoRow, Null, Time

\* A request is idle or holds its key and time.
LEMMA LocalCases ==
  ASSUME TypeOK, NEW h \in Handler
  PROVE  loc[h].at # "idle" <=> loc[h] \in Busy /\ loc[h] # Idle
<1>1. loc[h] \in Busy \/ loc[h] = Idle
  BY DEF TypeOK, Local, Busy
<1>2. loc[h] \in Busy => loc[h].at \in Label
  BY DEF Busy
<1> QED
  BY <1>1, <1>2 DEF Idle, Label

\* Goto keeps the request's key and time.
LEMMA GotoInv ==
  ASSUME IInv, NEW h \in Handler, loc[h].at # "idle",
         NEW label \in Label \cup {"idle"}, Goto(h, label), UNCHANGED clock
  PROVE  /\ loc' \in [Handler -> Local]
         /\ \A g \in Handler : loc'[g] # Idle => loc'[g].now <= clock'
<1>1. TypeOK /\ loc[h] \in Busy /\ loc[h] # Idle
  BY LocalCases DEF IInv
<1>2. label # "idle" => /\ [loc[h] EXCEPT !.at = label] \in Busy
                        /\ [loc[h] EXCEPT !.at = label].now = loc[h].now
  BY <1>1, Zenon DEF Busy
<1>3. loc' \in [Handler -> Local]
  BY <1>1, <1>2 DEF Goto, TypeOK, Local, Busy
<1> QED
  BY <1>1, <1>2, <1>3 DEF Goto, IInv, TypeOK

\* Recording a failure yields a row.
LEMMA AfterFailureType ==
  ASSUME NEW r \in Row, NEW now \in Time PROVE AfterFailure(r, now) \in Row
<1> DEFINE base == IF Reopened(r, now)
                   THEN [failures |-> 0, window |-> now, until |-> Null] ELSE r
           real == [failures : Nat, window : Time, until : Nat]
<1>1. base \in real
  BY DEF Reopened, Row, Null
<1> HIDE DEF base
<1>2. now + Length \in Nat
  BY ThrottleAssumption DEF Time
<1>3. base.failures \in Nat /\ base.failures + 1 \in Nat /\ base.until \in Nat
  BY <1>1
<1> DEFINE u == IF base.failures + 1 >= Limit THEN now + Length ELSE base.until
<1>4. u \in Nat
  BY <1>2, <1>3
<1>5. Counted(r, now) = [base EXCEPT !.failures = base.failures + 1, !.until = u]
  BY <1>1, Zenon DEF Counted, base
<1> HIDE DEF u
<1>6. Counted(r, now) \in real
  BY <1>1, <1>3, <1>4, <1>5, Zenon
<1> QED
  BY <1>6 DEF AfterFailure, Row

\* Dropping rows keeps the types of what it changes.
LEMMA DroppedType ==
  ASSUME TypeOK, NEW S, Dropped(S)
  PROVE  attempt' \in [Key -> Row] /\ wrong' \in [Key -> Nat] /\ locks' \in [Key -> Nat]
  BY DEF TypeOK, Dropped, Row

\* Where a request goes on after a failed statement.
LEMMA FailGoes ==
  ASSUME NEW h \in Handler, Fail(h)
  PROVE  \E label \in {"verify", "prune", "idle"} :
           Goto(h, label) /\ (loc[h].at = "record" => label = "idle")
  BY DEF Fail

-----------------------------------------------------------------------------
\* The initial state satisfies the invariant.
LEMMA InitInv == Init => IInv
  BY ThrottleAssumption DEF Init, IInv, TypeOK, Time, Row, Local

\* Every step keeps the invariant.
LEMMA InvStep == IInv /\ [Next]_vars => IInv'
<1> SUFFICES ASSUME IInv, [Next]_vars PROVE IInv'
  OBVIOUS
<1> USE DEF IInv
<1>1. ASSUME NEW h \in Handler, NEW k \in Key, Begin(h, k) PROVE IInv'
  <2>1. [at |-> "check", key |-> k, now |-> clock] \in Busy
    BY Zenon DEF Busy, Label, TypeOK
  <2>2. /\ loc' \in [Handler -> Local]
        /\ \A g \in Handler : loc'[g] # Idle => loc'[g].now <= clock'
    BY <1>1, <2>1 DEF Begin, TypeOK, Local, Busy, Time
  <2> QED
    BY <1>1, <2>2, Zenon DEF Begin, TypeOK
<1>2. ASSUME NEW h \in Handler, CheckLoginLockout(h) PROVE IInv'
  <2>1. PICK label \in {"verify", "idle"} : Goto(h, label)
    BY <1>2 DEF CheckLoginLockout
  <2>2. label \in Label \cup {"idle"} /\ loc[h].at # "idle" /\ UNCHANGED clock
    BY <1>2, Zenon DEF CheckLoginLockout, Label
  <2> QED
    BY <1>2, <2>1, <2>2, GotoInv, Zenon DEF CheckLoginLockout, TypeOK
<1>3. ASSUME NEW h \in Handler, Verify(h) PROVE IInv'
  <2>1. PICK label \in {"record", "clear", "idle"} :
          /\ Goto(h, label)
          /\ wrong' = IF label = "record" THEN [wrong EXCEPT ![loc[h].key] = @ + 1] ELSE wrong
    BY <1>3, Zenon DEF Verify
  <2>2. label \in Label \cup {"idle"} /\ loc[h].at # "idle" /\ UNCHANGED clock
    BY <1>3 DEF Verify, Label
  <2>3. wrong' \in [Key -> Nat]
    <3>1. loc[h].key \in Key /\ wrong \in [Key -> Nat]
      BY <1>3, LocalCases DEF Verify, Busy, TypeOK
    <3> QED
      BY <2>1, <3>1
  <2> QED
    BY <1>3, <2>1, <2>2, <2>3, GotoInv, Zenon DEF Verify, TypeOK
<1>4. ASSUME NEW h \in Handler, RecordLoginFailure(h) PROVE IInv'
  <2>1. loc[h].at # "idle" /\ UNCHANGED <<clock, faults>> /\ Goto(h, "idle") /\ loc[h] \in Busy
    BY <1>4, LocalCases, Zenon DEF RecordLoginFailure
  <2>2. loc[h].key \in Key /\ loc[h].now \in Time /\ attempt[loc[h].key] \in Row
    BY <2>1, Zenon DEF Busy, TypeOK
  <2>3. attempt' \in [Key -> Row]
    <3>1. AfterFailure(attempt[loc[h].key], loc[h].now) \in Row
      BY <2>2, AfterFailureType, Zenon
    <3> QED
      BY <1>4, <3>1, Zenon DEF RecordLoginFailure, TypeOK
  <2>4. wrong' \in [Key -> Nat] /\ locks' \in [Key -> Nat]
    <3> DEFINE k == loc[h].key
               now == loc[h].now
               q == AfterFailure(attempt[k], now)
               m == IF ~LockedAt(attempt[k], now) /\ Reopened(attempt[k], now) THEN 0 ELSE locks[k]
               n == IF q.until \notin {Null, attempt[k].until} THEN 1 ELSE 0
    <3>1. \A a, b \in Nat : a + b \in Nat
      OBVIOUS
    <3>2. 0 \in Nat /\ 1 \in Nat /\ wrong \in [Key -> Nat] /\ locks \in [Key -> Nat]
      BY Zenon DEF TypeOK
    <3>3. locks' = [locks EXCEPT ![k] = m + n]
      BY <1>4, Zenon DEF RecordLoginFailure
    <3>4. m + n \in Nat
      BY <2>2, <3>1, <3>2, Zenon
    <3> HIDE DEF m, n
    <3>5. wrong' \in {wrong, [wrong EXCEPT ![loc[h].key] = 1]}
      BY <1>4, Zenon DEF RecordLoginFailure
    <3> QED
      BY <2>2, <3>2, <3>3, <3>4, <3>5, Zenon
  <2> QED
    BY <2>1, <2>3, <2>4, GotoInv, Zenon DEF TypeOK
<1>5. ASSUME NEW h \in Handler, RecordLoginSuccess(h) \/ PruneAuthState(h) PROVE IInv'
  <2>1. PICK label \in {"prune", "idle"} : Goto(h, label)
    BY <1>5, Zenon DEF RecordLoginSuccess, PruneAuthState
  <2>2. PICK S : Dropped(S)
    BY <1>5, Zenon DEF RecordLoginSuccess, PruneAuthState
  <2>3. label \in Label \cup {"idle"} /\ loc[h].at # "idle" /\ UNCHANGED <<clock, faults>>
    BY <1>5 DEF RecordLoginSuccess, PruneAuthState, Label
  <2> QED
    BY <2>1, <2>2, <2>3, GotoInv, DroppedType, Zenon DEF TypeOK
<1>6. ASSUME NEW h \in Handler, Fail(h) PROVE IInv'
  <2>1. PICK label \in {"verify", "prune", "idle"} : Goto(h, label)
    BY <1>6, FailGoes, Zenon
  <2>2. label \in Label \cup {"idle"} /\ loc[h].at # "idle"
        /\ UNCHANGED <<clock, attempt, wrong, locks>>
    BY <1>6 DEF Fail, Label
  <2>3. faults' \in 0 .. MaxFaults
    BY <1>6, ThrottleAssumption DEF Fail, TypeOK
  <2> QED
    BY <2>1, <2>2, <2>3, GotoInv, Zenon DEF TypeOK
<1>7. CASE Tick
  <2>1. clock' \in Time /\ clock' = clock + 1
    BY <1>7, ThrottleAssumption DEF Tick, TypeOK, Time
  <2>2. \A h \in Handler : loc[h] # Idle => loc[h].now \in Time
    BY Zenon DEF TypeOK, Local
  <2> QED
    BY <1>7, <2>1, <2>2 DEF Tick, TypeOK, Time
<1>8. CASE UNCHANGED vars
  BY <1>8 DEF vars, TypeOK
<1> QED
  BY <1>1, <1>2, <1>3, <1>4, <1>5, <1>6, <1>7, <1>8, Zenon DEF Next, Step

\* IInv holds throughout every behaviour.
THEOREM Invariance == Spec => []IInv
  BY InitInv, InvStep, PTL DEF Spec

\* The variables keep their types; every stored row has a window.
THEOREM TypeCorrect == Spec => []TypeOK
<1>1. IInv => TypeOK
  BY Zenon DEF IInv
<1> QED
  BY <1>1, Invariance, PTL

\* A lock in force is neither extended, shortened nor pruned, for any number of
\* requests working with times of any age; only the right credential lifts it.
THEOREM LockStandsHolds == Spec => LockStands
<1> DEFINE Stands ==
      \A k \in Key : Locked(k) /\ attempt'[k] # attempt[k] =>
        \E h \in Handler : loc[h].at = "clear" /\ loc[h].key = k /\ loc'[h] # loc[h]
<1>1. IInv /\ [Next]_vars => [Stands]_vars
  <2> SUFFICES ASSUME IInv, Next, NEW k \in Key, Locked(k), attempt'[k] # attempt[k]
               PROVE  \E h \in Handler : loc[h].at = "clear" /\ loc[h].key = k /\ loc'[h] # loc[h]
    OBVIOUS
  <2>1. TypeOK /\ clock \in Nat /\ attempt[k].until \in Nat /\ attempt[k].until # Null
        /\ clock < attempt[k].until
    BY RowFields, Zenon DEF IInv, TypeOK, Locked, LockedAt
  <2>2. ASSUME NEW h \in Handler, loc[h].at # "idle"
        PROVE  loc[h].now < attempt[k].until /\ loc[h].now \in Nat
    <3>1. loc[h].now \in Nat /\ loc[h].now <= clock
      BY <2>1, <2>2, LocalCases, RowFields, Zenon DEF IInv, Busy
    <3> QED
      BY <2>1, <3>1, Before, Zenon
  <2>3. ASSUME NEW h \in Handler, RecordLoginFailure(h) PROVE FALSE
    <3>1. attempt' = [attempt EXCEPT ![loc[h].key] = AfterFailure(attempt[loc[h].key], loc[h].now)]
      BY <2>3, Zenon DEF RecordLoginFailure
    <3>2. loc[h].key = k
      BY <2>1, <3>1, Zenon DEF TypeOK
    <3>3. LockedAt(attempt[k], loc[h].now)
      BY <2>1, <2>2, <2>3, Zenon DEF RecordLoginFailure, LockedAt
    <3> QED
      BY <2>1, <3>1, <3>2, <3>3, Zenon DEF AfterFailure, TypeOK
  <2>4. ASSUME NEW h \in Handler, PruneAuthState(h) PROVE FALSE
    <3>1. Stale(attempt[k], loc[h].now)
      BY <2>1, <2>4, Zenon DEF PruneAuthState, Dropped, TypeOK
    <3> QED
      BY <2>1, <2>2, <2>4, <3>1 DEF PruneAuthState, Stale
  <2>5. ASSUME NEW h \in Handler, RecordLoginSuccess(h)
        PROVE  loc[h].at = "clear" /\ loc[h].key = k /\ loc'[h] # loc[h]
    <3>1. loc[h].at = "clear" /\ loc[h].key = k
      BY <2>1, <2>5, Zenon DEF RecordLoginSuccess, Dropped, TypeOK
    <3>2. PICK label \in {"prune", "idle"} : Goto(h, label)
      BY <2>5, Zenon DEF RecordLoginSuccess
    <3>3. loc[h] \in Busy
      BY <2>1, <3>1, LocalCases, Zenon
    <3>4. loc'[h].at \in {"prune", "idle"}
      BY <2>1, <3>2, <3>3, Zenon DEF Goto, TypeOK, Idle, Busy
    <3> QED
      BY <3>1, <3>4, Zenon
  <2>6. ASSUME NEW h \in Handler, NEW j \in Key,
               Begin(h, j) \/ CheckLoginLockout(h) \/ Verify(h) \/ Fail(h) \/ Tick
        PROVE  FALSE
    BY <2>6, Zenon DEF Begin, CheckLoginLockout, Verify, Fail, Tick
  <2> QED
    BY <2>3, <2>4, <2>5, <2>6 DEF Next, Step, Tick
<1> QED
  BY <1>1, Invariance, PTL DEF Spec, LockStands

-----------------------------------------------------------------------------
(* The budget *)

\* Requests admitted before the lock in force for them fell, and refused
\* credentials that their requests have yet to count.
Guessing(k) ==
  {h \in Handler : loc[h].at = "verify" /\ loc[h].key = k /\ LockedAt(attempt[k], loc[h].now)}
Owed(k) ==
  {h \in Handler : loc[h].at = "record" /\ loc[h].key = k /\ ~LockedAt(attempt[k], loc[h].now)}

\* What the row accounts for: its failures before the first lock, then a full
\* set of requests for every lock.
Spent(k) ==
  IF attempt[k].until = Null THEN attempt[k].failures
  ELSE Limit - 1 + Cardinality(Handler) * locks[k]

RowInv(k) == attempt[k].until = Null <=> attempt[k].failures < Limit

BudgetInv(k) ==
  /\ RowInv(k)
  /\ wrong[k] + Cardinality(Guessing(k)) <= Spent(k) + Cardinality(Owed(k)) + faults

Budgets == \A k \in Key : BudgetInv(k)

\* Finite sets of requests.
LEMMA Requests ==
  ASSUME NEW S \in SUBSET Handler
  PROVE  /\ IsFiniteSet(S) /\ Cardinality(S) \in Nat
         /\ Cardinality(Handler) \in Nat /\ Cardinality(S) <= Cardinality(Handler)
  BY ThrottleAssumption, FS_Subset, FS_CardinalityType, Zenon

\* One if the request is in the set.
One(h, S) == IF h \in S THEN 1 ELSE 0

\* One is a number.
LEMMA OneInt == \A h, S : One(h, S) \in Int
  BY DEF One

\* Two sets of requests that differ at most in one request.
LEMMA OneMoved ==
  ASSUME NEW S \in SUBSET Handler, NEW T \in SUBSET Handler, NEW h \in Handler,
         S \ {h} = T \ {h}
  PROVE  Cardinality(S) + One(h, T) = Cardinality(T) + One(h, S)
<1>1. /\ Cardinality(S \ {h}) = IF h \in S THEN Cardinality(S) - 1 ELSE Cardinality(S)
      /\ Cardinality(T \ {h}) = IF h \in T THEN Cardinality(T) - 1 ELSE Cardinality(T)
  BY Requests, FS_RemoveElement, Zenon
<1>2. Cardinality(S) \in Nat /\ Cardinality(T) \in Nat
  BY Requests, Zenon
<1> QED
  BY <1>1, <1>2 DEF One

\* Two sets of requests with none in common.
LEMMA Apart ==
  ASSUME NEW S \in SUBSET Handler, NEW T \in SUBSET Handler, S \cap T = {}
  PROVE  Cardinality(S) + Cardinality(T) <= Cardinality(Handler)
<1>1. IsFiniteSet(S) /\ IsFiniteSet(T) /\ Cardinality(S) \in Nat /\ Cardinality(T) \in Nat
  BY Requests, Zenon
<1>2. Cardinality(S \cup T) = Cardinality(S) + Cardinality(T) - Cardinality({})
  BY <1>1, FS_Union, Zenon
<1>3. S \cup T \in SUBSET Handler
  OBVIOUS
<1>4. Cardinality(S \cup T) <= Cardinality(Handler)
  BY <1>3, Requests, Zenon
<1> QED
  BY <1>1, <1>2, <1>4, FS_EmptySet

\* What a request weighs in the budget of a key.
Weight(h, k) == One(h, Guessing(k)) - One(h, Owed(k))

\* The counters are numbers.
LEMMA Counters ==
  /\ TypeOK => faults \in Nat /\ \A k \in Key : wrong[k] \in Nat /\ locks[k] \in Nat
  /\ TypeOK' => faults' \in Nat /\ \A k \in Key : wrong'[k] \in Nat /\ locks'[k] \in Nat
<1>1. \A n \in 0 .. MaxFaults : n \in Nat
  OBVIOUS
<1> QED
  BY <1>1, Zenon DEF TypeOK

\* A step of one request that leaves the row alone keeps the budget if it tests
\* no more than its weight and the faults allow.
LEMMA RowKept ==
  ASSUME IInv, TypeOK', NEW h \in Handler, NEW k \in Key, BudgetInv(k),
         attempt'[k] = attempt[k], locks'[k] = locks[k],
         \A g \in Handler \ {h} : loc'[g] = loc[g],
         wrong'[k] + Weight(h, k)' <= wrong[k] + Weight(h, k) + faults' - faults
  PROVE  BudgetInv(k)'
<1>1. RowInv(k)' /\ Spent(k)' = Spent(k)
  BY Zenon DEF BudgetInv, RowInv, Spent
<1>2. Guessing(k) \in SUBSET Handler /\ Guessing(k)' \in SUBSET Handler
      /\ Guessing(k) \ {h} = Guessing(k)' \ {h}
  BY Zenon DEF Guessing
<1>3. Owed(k) \in SUBSET Handler /\ Owed(k)' \in SUBSET Handler
      /\ Owed(k) \ {h} = Owed(k)' \ {h}
  BY Zenon DEF Owed
<1>4. /\ Cardinality(Guessing(k)) \in Nat /\ Cardinality(Guessing(k)') \in Nat
      /\ Cardinality(Owed(k)) \in Nat /\ Cardinality(Owed(k)') \in Nat
  BY <1>2, <1>3, Requests, Zenon
<1>5. /\ Cardinality(Guessing(k)) + One(h, Guessing(k)') = Cardinality(Guessing(k)') + One(h, Guessing(k))
      /\ Cardinality(Owed(k)) + One(h, Owed(k)') = Cardinality(Owed(k)') + One(h, Owed(k))
  BY <1>2, <1>3, OneMoved, Zenon
<1>6. /\ wrong[k] \in Nat /\ wrong'[k] \in Nat /\ faults \in Nat /\ faults' \in Nat
      /\ Spent(k) \in Int
  <2>1. attempt[k].failures \in Nat /\ locks[k] \in Nat /\ Limit \in Nat
    BY RowFields, ThrottleAssumption, Zenon DEF IInv, TypeOK
  <2>2. Cardinality(Handler) * locks[k] \in Nat
    BY <2>1, Requests, Times, Zenon
  <2>3. attempt[k].failures \in Int /\ Limit - 1 + Cardinality(Handler) * locks[k] \in Int
    BY <2>1, <2>2, Whole, Zenon
  <2>4. Spent(k) \in Int
    BY <2>3, Zenon DEF Spent
  <2> QED
    BY <2>4, Counters, Zenon DEF IInv
<1>7. wrong[k] + Cardinality(Guessing(k)) <= Spent(k) + Cardinality(Owed(k)) + faults
  BY Zenon DEF BudgetInv
<1>8. wrong'[k] + (One(h, Guessing(k)') - One(h, Owed(k)'))
        <= wrong[k] + (One(h, Guessing(k)) - One(h, Owed(k))) + faults' - faults
  BY Zenon DEF Weight
<1>9. wrong'[k] + Cardinality(Guessing(k)') <= Spent(k) + Cardinality(Owed(k)') + faults'
  BY <1>4, <1>5, <1>6, <1>7, <1>8, OneInt
<1> QED
  BY <1>1, <1>9, Zenon DEF BudgetInv

\* A step of a request that counts for nothing and tests nothing.
LEMMA Quiet ==
  ASSUME IInv, TypeOK', NEW h \in Handler, NEW k \in Key, BudgetInv(k),
         attempt'[k] = attempt[k], locks'[k] = locks[k], wrong'[k] = wrong[k], faults' = faults,
         \A g \in Handler \ {h} : loc'[g] = loc[g],
         Weight(h, k) = 0, Weight(h, k)' = 0
  PROVE  BudgetInv(k)'
<1>1. wrong[k] \in Nat /\ faults \in Nat
  BY Counters, Zenon DEF IInv
<1>2. wrong[k] + 0 <= wrong[k] + 0 + faults - faults
  BY <1>1
<1>3. wrong'[k] + Weight(h, k)' <= wrong[k] + Weight(h, k) + faults' - faults
  BY <1>2, Zenon
<1> QED
  BY <1>3, RowKept, Zenon

\* The row RecordLoginFailure counts on.
LEMMA CountedFacts ==
  ASSUME NEW r \in Row, NEW now \in Time
  PROVE  LET n == IF Reopened(r, now) THEN 1 ELSE r.failures + 1
         IN  /\ n \in Nat /\ now + Length \in Nat /\ now + Length > now
             /\ Counted(r, now).failures = n
             /\ Counted(r, now).until = IF n >= Limit THEN now + Length
                                        ELSE IF Reopened(r, now) THEN Null ELSE r.until
<1> DEFINE base == IF Reopened(r, now)
                   THEN [failures |-> 0, window |-> now, until |-> Null] ELSE r
<1>1. base \in [failures : Nat, window : Time, until : Nat]
  BY Zenon DEF Reopened, Row, Null
<1>2. base.failures + 1 = IF Reopened(r, now) THEN 1 ELSE r.failures + 1
  OBVIOUS
<1>3. base.until = IF Reopened(r, now) THEN Null ELSE r.until
  OBVIOUS
<1> HIDE DEF base
<1>4. /\ Counted(r, now).failures = base.failures + 1
      /\ Counted(r, now).until = IF base.failures + 1 >= Limit THEN now + Length ELSE base.until
  BY <1>1, Zenon DEF Counted, base
<1>5. now + Length \in Nat /\ now + Length > now
  BY ThrottleAssumption DEF Time
<1>6. base.failures + 1 \in Nat
  BY <1>1, Arithmetic, Zenon
<1> QED
  BY <1>2, <1>3, <1>4, <1>5, <1>6, Zenon

\* A failure that is counted: it pays for itself, and one that locks the key
\* pays for every other request then under way.
LEMMA CountedStep ==
  ASSUME IInv, TypeOK', NEW h \in Handler, NEW k \in Key, loc[h].key = k,
         RecordLoginFailure(h), BudgetInv(k), ~LockedAt(attempt[k], loc[h].now)
  PROVE  BudgetInv(k)'
<1> DEFINE now == loc[h].now
           r == attempt[k]
           n == IF Reopened(r, now) THEN 1 ELSE r.failures + 1
<1>1. /\ loc[h].at = "record" /\ loc[h] \in Busy
      /\ k \in Key /\ now \in Time /\ r \in Row
  BY LocalCases, Zenon DEF RecordLoginFailure, IInv, TypeOK, Busy
<1>2. /\ attempt'[k] = Counted(r, now)
      /\ locks'[k] = (IF Reopened(r, now) THEN 0 ELSE locks[k])
                     + (IF Counted(r, now).until \notin {Null, r.until} THEN 1 ELSE 0)
      /\ wrong'[k] = IF Reopened(r, now) /\ r # NoRow THEN 1 ELSE wrong[k]
      /\ faults' = faults /\ loc' = [loc EXCEPT ![h] = Idle]
  BY <1>1, Zenon DEF RecordLoginFailure, AfterFailure, Goto, IInv, TypeOK
<1>3. /\ n \in Nat /\ now + Length \in Nat /\ now + Length > now
      /\ attempt'[k].failures = n
      /\ attempt'[k].until = IF n >= Limit THEN now + Length
                             ELSE IF Reopened(r, now) THEN Null ELSE r.until
  <2>1. /\ n \in Nat /\ now + Length \in Nat /\ now + Length > now
        /\ Counted(r, now).failures = n
        /\ Counted(r, now).until = IF n >= Limit THEN now + Length
                                   ELSE IF Reopened(r, now) THEN Null ELSE r.until
    BY <1>1, CountedFacts, Zenon
  <2>2. attempt'[k] = Counted(r, now)
    BY <1>2, Zenon
  <2> HIDE DEF n
  <2> QED
    BY <2>1, <2>2, Zenon
<1>4. /\ wrong[k] \in Nat /\ locks[k] \in Nat /\ faults \in Nat /\ r.failures \in Nat
      /\ r.until \in Nat /\ Limit \in Nat \ {0} /\ Limit \in Nat /\ now \in Nat
  BY <1>1, ThrottleAssumption, RowFields, Counters, Zenon DEF IInv
<1>5. r.until = Null \/ r.until <= now
  BY <1>4, Arithmetic, Zenon DEF LockedAt
<1>6. /\ Guessing(k) \in SUBSET Handler /\ Guessing(k)' \in SUBSET Handler
      /\ Owed(k) \in SUBSET Handler /\ Owed(k)' \in SUBSET Handler
  BY Zenon DEF Guessing, Owed
<1>7. h \in Owed(k) /\ h \notin Owed(k)' /\ h \notin Guessing(k)'
  BY <1>1, <1>2, Zenon DEF Owed, Guessing, Idle, IInv, TypeOK
<1>8. /\ Cardinality(Guessing(k)) \in Nat /\ Cardinality(Guessing(k)') \in Nat
      /\ Cardinality(Owed(k)) \in Nat /\ Cardinality(Owed(k)') \in Nat
      /\ Cardinality(Handler) \in Nat
  BY <1>6, Requests, Zenon
<1>9. RowInv(k) /\ wrong[k] + Cardinality(Guessing(k)) <= Spent(k) + Cardinality(Owed(k)) + faults
  BY Zenon DEF BudgetInv
<1>10. CASE n < Limit
  <2>1. attempt'[k].until = Null /\ attempt'[k].failures = n
    <3>1. CASE Reopened(r, now)
      BY <1>3, <1>4, <1>10, <3>1, Arithmetic, Zenon
    <3>2. CASE ~Reopened(r, now)
      BY <1>3, <1>4, <1>9, <1>10, <3>2, Arithmetic, Zenon DEF RowInv
    <3> QED
      BY <3>1, <3>2, Zenon
  <2>2. RowInv(k)' /\ Spent(k)' = n
    BY <1>10, <2>1, Zenon DEF RowInv, Spent
  <2>3. Cardinality(Guessing(k)') = 0
    <3>1. Guessing(k)' = {}
      BY <2>1, Zenon DEF Guessing, LockedAt
    <3> QED
      BY <3>1, FS_EmptySet, Zenon
  <2>4. CASE Reopened(r, now) /\ r # NoRow
    <3>1. wrong'[k] = Spent(k)' /\ wrong'[k] \in Nat
      BY <1>2, <1>3, <2>2, <2>4, Zenon
    <3>2. wrong'[k] + Cardinality(Guessing(k)') <= Spent(k)' + Cardinality(Owed(k)') + faults
      BY <1>4, <1>8, <2>3, <3>1, Opened, Zenon
    <3> QED
      BY <1>2, <2>2, <3>2, Zenon DEF BudgetInv
  <2>5. CASE ~(Reopened(r, now) /\ r # NoRow)
    <3>1. r.until = Null /\ r.failures + 1 = n
      <4>1. CASE r = NoRow
        BY <4>1 DEF NoRow
      <4>2. CASE ~Reopened(r, now)
        BY <1>4, <1>9, <1>10, <4>2, Arithmetic, Zenon DEF RowInv
      <4> QED
        BY <2>5, <4>1, <4>2, Zenon
    <3>2. Spent(k) = r.failures
      BY <3>1, Zenon DEF Spent
    <3>3. Owed(k) \ {h} = Owed(k)' \ {h}
      BY <1>2, <2>1, <3>1, Zenon DEF Owed, LockedAt, IInv, TypeOK
    <3>4. Cardinality(Owed(k)) = Cardinality(Owed(k)') + 1
      <4>1. Cardinality(Owed(k)) + One(h, Owed(k)') = Cardinality(Owed(k)') + One(h, Owed(k))
        <5>1. Owed(k) \in SUBSET Handler /\ Owed(k)' \in SUBSET Handler
          BY <1>6, Zenon
        <5> QED
          BY <3>3, <5>1, OneMoved, Zenon
      <4>2. One(h, Owed(k)') = 0 /\ One(h, Owed(k)) = 1
        BY <1>7, Zenon DEF One
      <4>3. Cardinality(Owed(k)) + 0 = Cardinality(Owed(k))
        BY <1>8
      <4> QED
        BY <4>1, <4>2, <4>3, Zenon
    <3>5. wrong[k] + Cardinality(Guessing(k)) <= r.failures + (Cardinality(Owed(k)') + 1) + faults
      BY <1>9, <3>2, <3>4, Zenon
    <3>6. wrong[k] + 0 <= (r.failures + 1) + Cardinality(Owed(k)') + faults
      BY <1>4, <1>8, <3>5, Paid, Zenon
    <3>7. wrong'[k] = wrong[k] /\ faults' = faults /\ Spent(k)' = r.failures + 1
      BY <1>2, <2>2, <2>5, <3>1, Zenon
    <3> QED
      BY <2>2, <2>3, <3>6, <3>7, Zenon DEF BudgetInv
  <2> QED
    BY <2>4, <2>5, Zenon
<1>11. CASE n >= Limit
  <2>1. now + Length \notin {Null, r.until}
    BY <1>3, <1>4, <1>5, Later, Zenon DEF Null
  <2>2. /\ attempt'[k].until = now + Length /\ attempt'[k].until # Null
        /\ attempt'[k].failures = n /\ ~(n < Limit)
    BY <1>3, <1>4, <1>11, <2>1, Arithmetic, Zenon
  <2>3. RowInv(k)'
    BY <2>2, Zenon DEF RowInv
  <2>4. locks'[k] = (IF Reopened(r, now) THEN 0 ELSE locks[k]) + 1
    BY <1>2, <2>1, <2>2, Zenon
  <2>5. Spent(k)' = Limit - 1 + Cardinality(Handler) * locks'[k]
    BY <2>2, Zenon DEF Spent
  <2>6. Cardinality(Guessing(k)') + Cardinality(Owed(k)) <= Cardinality(Handler)
    <3>1. Guessing(k)' \cap Owed(k) = {}
      BY <1>2, <1>7, Zenon DEF Guessing, Owed, IInv, TypeOK
    <3> QED
      BY <1>6, <3>1, Apart, Zenon
  <2>7. CASE Reopened(r, now) /\ r # NoRow
    <3>1. Cardinality(Owed(k)) >= 1
      <4>1. IsFiniteSet(Owed(k)) /\ Owed(k) # {}
        BY <1>6, <1>7, Requests, Zenon
      <4> QED
        BY <1>8, <4>1, FS_EmptySet, Arithmetic, Zenon
    <3>2. Spent(k)' = Limit - 1 + Cardinality(Handler)
      BY <1>8, <2>4, <2>5, <2>7, Arithmetic, Zenon
    <3>3. 1 + Cardinality(Guessing(k)') <= (Limit - 1 + Cardinality(Handler)) + Cardinality(Owed(k)') + faults
      BY <1>4, <1>8, <2>6, <3>1, FirstLock, Zenon
    <3> QED
      BY <1>2, <2>3, <2>7, <3>2, <3>3, Zenon DEF BudgetInv
  <2>8. CASE ~(Reopened(r, now) /\ r # NoRow)
    <3>1. Spent(k) + Cardinality(Handler) <= Spent(k)' /\ Spent(k) \in Int /\ Spent(k)' \in Int
      <4>1. PICK l \in Nat : locks'[k] = l + 1 /\ (~Reopened(r, now) => l = locks[k])
        BY <1>4, <2>4, Arithmetic, Zenon
      <4>2. Cardinality(Handler) * locks'[k] = Cardinality(Handler) * l + Cardinality(Handler)
            /\ Cardinality(Handler) * l \in Nat
        BY <1>8, <4>1, Times, Zenon
      <4>3. Spent(k)' = Limit - 1 + (Cardinality(Handler) * l + Cardinality(Handler))
        BY <2>5, <4>2, Zenon
      <4>4. CASE r.until = Null
        <5>1. Spent(k) = r.failures /\ r.failures < Limit /\ Spent(k) \in Int
          BY <1>4, <1>9, <4>4, Whole, Zenon DEF RowInv, Spent
        <5>2. /\ r.failures + Cardinality(Handler)
                   <= Limit - 1 + (Cardinality(Handler) * l + Cardinality(Handler))
              /\ Limit - 1 + (Cardinality(Handler) * l + Cardinality(Handler)) \in Int
          BY <1>4, <1>8, <4>2, <5>1, Round, Zenon
        <5> QED
          BY <4>3, <5>1, <5>2, Zenon
      <4>5. CASE r.until # Null
        <5>1. ~Reopened(r, now)
          <6>1. NoRow.until = Null
            BY DEF NoRow
          <6> QED
            BY <2>8, <4>5, <6>1, Zenon
        <5>2. Spent(k) = Limit - 1 + Cardinality(Handler) * l
          BY <4>1, <4>5, <5>1, Zenon DEF Spent
        <5>3. /\ (Limit - 1 + Cardinality(Handler) * l) + Cardinality(Handler)
                   <= Limit - 1 + (Cardinality(Handler) * l + Cardinality(Handler))
              /\ Limit - 1 + (Cardinality(Handler) * l + Cardinality(Handler)) \in Int
              /\ Limit - 1 + Cardinality(Handler) * l \in Int
          BY <1>4, <1>8, <4>2, Round, Zenon
        <5> QED
          BY <4>3, <5>2, <5>3, Zenon
      <4> QED
        BY <4>4, <4>5, Zenon
    <3>2. wrong'[k] = wrong[k] /\ faults' = faults
      BY <1>2, <2>8, Zenon
    <3>3. wrong[k] + Cardinality(Guessing(k)') <= Spent(k)' + Cardinality(Owed(k)') + faults
      BY <1>4, <1>8, <1>9, <2>6, <3>1, NextLock, Zenon
    <3> QED
      BY <2>3, <3>2, <3>3, Zenon DEF BudgetInv
  <2> QED
    BY <2>7, <2>8, Zenon
<1> QED
  BY <1>3, <1>4, <1>10, <1>11, Arithmetic, Zenon

\* Goto moves one request, which keeps its key and time.
LEMMA GotoMoves ==
  ASSUME TypeOK, NEW h \in Handler, loc[h].at # "idle", NEW label, Goto(h, label)
  PROVE  /\ \A g \in Handler \ {h} : loc'[g] = loc[g]
         /\ loc'[h].at = label
         /\ label # "idle" => loc'[h].key = loc[h].key /\ loc'[h].now = loc[h].now
         /\ loc[h].key \in Key /\ loc[h].now \in Time
  BY LocalCases, Zenon DEF Goto, TypeOK, Busy, Idle

\* The weights of a request, by its next step.
LEMMA Weighed ==
  ASSUME NEW h \in Handler, NEW k \in Key
  PROVE  /\ Weight(h, k) =
              IF loc[h].at = "verify" /\ loc[h].key = k /\ LockedAt(attempt[k], loc[h].now) THEN 1
              ELSE IF loc[h].at = "record" /\ loc[h].key = k /\ ~LockedAt(attempt[k], loc[h].now) THEN -1
              ELSE 0
  BY DEF Weight, One, Guessing, Owed

\* The weights after a step.
LEMMA WeighedNext ==
  ASSUME NEW h \in Handler, NEW k \in Key
  PROVE  Weight(h, k)' =
           IF loc'[h].at = "verify" /\ loc'[h].key = k /\ LockedAt(attempt'[k], loc'[h].now) THEN 1
           ELSE IF loc'[h].at = "record" /\ loc'[h].key = k /\ ~LockedAt(attempt'[k], loc'[h].now) THEN -1
           ELSE 0
  BY DEF Weight, One, Guessing, Owed, LockedAt

\* A deleted row opens a budget of which nothing is spent.
LEMMA DroppedBudget ==
  ASSUME TypeOK', NEW k \in Key, attempt'[k] = NoRow, wrong'[k] = 0
  PROVE  BudgetInv(k)'
<1>0. NoRow.until = Null /\ NoRow.failures = 0
  BY DEF NoRow
<1>1. /\ RowInv(k)' /\ Spent(k)' = 0
  BY <1>0, ThrottleAssumption, Arithmetic, Zenon DEF RowInv, Spent
<1>2. Guessing(k)' = {} /\ Owed(k)' \in SUBSET Handler
  BY <1>0, Zenon DEF Guessing, Owed, LockedAt
<1>3. Cardinality(Guessing(k)') = 0 /\ Cardinality(Owed(k)') \in Nat
  BY <1>2, FS_EmptySet, Requests, Zenon
<1>4. 0 + 0 <= 0 + Cardinality(Owed(k)') + faults'
  <2>1. faults' \in Nat
    BY Counters, Zenon
  <2> QED
    BY <1>3, <2>1
<1> QED
  BY <1>1, <1>3, <1>4, Zenon DEF BudgetInv

\* Every step keeps the budget of every key.
LEMMA BudgetStep ==
  ASSUME IInv, Budgets, [Next]_vars, NEW k \in Key PROVE BudgetInv(k)'
<1> USE DEF IInv
<1>1. BudgetInv(k) /\ TypeOK /\ TypeOK'
  BY InvStep, Zenon DEF Budgets
<1>2. /\ wrong[k] \in Nat /\ wrong'[k] \in Nat /\ faults \in Nat /\ faults' \in Nat
  BY <1>1, Counters, Zenon
<1>3. ASSUME NEW h \in Handler, NEW key \in Key, Begin(h, key) PROVE BudgetInv(k)'
  <2>1. Weight(h, k) = 0 /\ Weight(h, k)' = 0
    BY <1>1, <1>3, Weighed, WeighedNext, Zenon DEF Begin, TypeOK
  <2>2. UNCHANGED <<attempt, wrong, locks, faults>> /\ \A g \in Handler \ {h} : loc'[g] = loc[g]
    BY <1>1, <1>3, Zenon DEF Begin, TypeOK
  <2> QED
    BY <1>1, <2>1, <2>2, Quiet, Zenon
<1>4. ASSUME NEW h \in Handler, CheckLoginLockout(h) PROVE BudgetInv(k)'
  <2> DEFINE label == IF LockedAt(attempt[loc[h].key], loc[h].now) THEN "idle" ELSE "verify"
  <2>1. /\ loc[h].at = "check" /\ Goto(h, label)
        /\ UNCHANGED <<clock, attempt, wrong, locks, faults>>
    BY <1>4, Zenon DEF CheckLoginLockout
  <2>2. /\ \A g \in Handler \ {h} : loc'[g] = loc[g]
        /\ loc'[h].at = label
        /\ label # "idle" => loc'[h].key = loc[h].key /\ loc'[h].now = loc[h].now
    BY <1>1, <2>1, GotoMoves, Zenon
  <2>3. Weight(h, k) = 0 /\ Weight(h, k)' = 0
    BY <2>1, <2>2, Weighed, WeighedNext, Zenon
  <2> QED
    BY <1>1, <2>1, <2>2, <2>3, Quiet, Zenon
<1>5. ASSUME NEW h \in Handler, Verify(h) PROVE BudgetInv(k)'
  <2>1. PICK label \in {"record", "clear", "idle"} :
          /\ Goto(h, label)
          /\ wrong' = IF label = "record" THEN [wrong EXCEPT ![loc[h].key] = @ + 1] ELSE wrong
    BY <1>5, Zenon DEF Verify
  <2>2. loc[h].at = "verify" /\ UNCHANGED <<clock, attempt, locks, faults>>
    BY <1>5, Zenon DEF Verify
  <2>3. /\ \A g \in Handler \ {h} : loc'[g] = loc[g]
        /\ loc'[h].at = label
        /\ label # "idle" => loc'[h].key = loc[h].key /\ loc'[h].now = loc[h].now
        /\ loc[h].key \in Key
    BY <1>1, <2>1, <2>2, GotoMoves, Zenon
  <2>4. wrong'[k] = IF label = "record" /\ loc[h].key = k THEN wrong[k] + 1 ELSE wrong[k]
    BY <1>1, <2>1, <2>3, Zenon DEF TypeOK
  <2>5. /\ Weight(h, k) = IF loc[h].key = k /\ LockedAt(attempt[k], loc[h].now) THEN 1 ELSE 0
        /\ Weight(h, k)' = IF label = "record" /\ loc[h].key = k /\ ~LockedAt(attempt[k], loc[h].now)
                           THEN -1 ELSE 0
    BY <2>2, <2>3, Weighed, WeighedNext, Zenon
  <2>6. wrong'[k] + Weight(h, k)' <= wrong[k] + Weight(h, k) + faults' - faults
    <3>1. faults' = faults
      BY <2>2, Zenon
    <3> QED
      BY <1>2, <2>4, <2>5, <3>1
  <2> QED
    BY <1>1, <2>2, <2>3, <2>6, RowKept, Zenon
<1>6. ASSUME NEW h \in Handler, RecordLoginFailure(h) PROVE BudgetInv(k)'
  <2>1. /\ loc[h].at = "record" /\ Goto(h, "idle") /\ UNCHANGED <<clock, faults>>
    BY <1>6, Zenon DEF RecordLoginFailure
  <2>2. /\ \A g \in Handler \ {h} : loc'[g] = loc[g]
        /\ loc'[h].at = "idle" /\ loc[h].key \in Key
    BY <1>1, <2>1, GotoMoves, Zenon
  <2>3. CASE loc[h].key = k /\ ~LockedAt(attempt[k], loc[h].now)
    BY <1>1, <1>6, <2>3, CountedStep, Zenon
  <2>4. CASE loc[h].key # k \/ LockedAt(attempt[k], loc[h].now)
    <3>1. attempt'[k] = attempt[k] /\ locks'[k] = locks[k] /\ wrong'[k] = wrong[k]
      <4>1. CASE loc[h].key # k
        BY <1>1, <1>6, <4>1, Zenon DEF RecordLoginFailure, TypeOK
      <4>2. CASE loc[h].key = k /\ LockedAt(attempt[k], loc[h].now)
        <5>1. AfterFailure(attempt[k], loc[h].now) = attempt[k]
          BY <4>2, Zenon DEF AfterFailure
        <5>2. locks[k] + 0 = locks[k]
          <6>1. locks[k] \in Nat
            BY <1>1, Counters, Zenon
          <6> QED
            BY <6>1
        <5> QED
          BY <1>1, <1>6, <4>2, <5>1, <5>2, Zenon DEF RecordLoginFailure, TypeOK
      <4> QED
        BY <2>4, <4>1, <4>2, Zenon
    <3>2. Weight(h, k) = 0 /\ Weight(h, k)' = 0
      BY <2>1, <2>2, <2>4, Weighed, WeighedNext, Zenon
    <3> QED
      BY <1>1, <2>1, <2>2, <3>1, <3>2, Quiet, Zenon
  <2> QED
    BY <2>3, <2>4, Zenon
<1>7. ASSUME NEW h \in Handler, RecordLoginSuccess(h) \/ PruneAuthState(h) PROVE BudgetInv(k)'
  <2>1. PICK label \in {"prune", "idle"} : Goto(h, label)
    BY <1>7, Zenon DEF RecordLoginSuccess, PruneAuthState
  <2>2. PICK S : Dropped(S)
    BY <1>7, Zenon DEF RecordLoginSuccess, PruneAuthState
  <2>3. loc[h].at \in {"clear", "prune"} /\ UNCHANGED <<clock, faults>>
    BY <1>7, Zenon DEF RecordLoginSuccess, PruneAuthState
  <2>4. (\A g \in Handler \ {h} : loc'[g] = loc[g]) /\ loc'[h].at = label
    BY <1>1, <2>1, <2>3, GotoMoves, Zenon
  <2>5. CASE k \in S
    BY <1>1, <2>2, <2>5, DroppedBudget, Zenon DEF Dropped
  <2>6. CASE k \notin S
    <3>1. attempt'[k] = attempt[k] /\ locks'[k] = locks[k] /\ wrong'[k] = wrong[k]
      BY <2>2, <2>6, Zenon DEF Dropped
    <3>2. Weight(h, k) = 0 /\ Weight(h, k)' = 0
      BY <2>3, <2>4, Weighed, WeighedNext, Zenon
    <3> QED
      BY <1>1, <2>3, <2>4, <3>1, <3>2, Quiet, Zenon
  <2> QED
    BY <2>5, <2>6, Zenon
<1>8. ASSUME NEW h \in Handler, Fail(h) PROVE BudgetInv(k)'
  <2>1. PICK label \in {"verify", "prune", "idle"} : Goto(h, label) /\ (loc[h].at = "record" => label = "idle")
    BY <1>8, FailGoes, Zenon
  <2>2. /\ loc[h].at \in {"check", "record", "clear", "prune"}
        /\ faults' = faults + 1 /\ UNCHANGED <<clock, attempt, wrong, locks>>
    BY <1>8, Zenon DEF Fail
  <2>3. (\A g \in Handler \ {h} : loc'[g] = loc[g]) /\ loc'[h].at = label
    BY <1>1, <2>1, <2>2, GotoMoves, Zenon
  <2>4. \/ Weight(h, k) = 0 /\ Weight(h, k)' \in {0, 1}
        \/ Weight(h, k) = -1 /\ Weight(h, k)' = 0
    <3>1. CASE loc[h].at = "record"
      BY <2>1, <2>3, <3>1, Weighed, WeighedNext, Zenon
    <3>2. CASE loc[h].at # "record"
      BY <2>1, <2>2, <2>3, <3>2, Weighed, WeighedNext, Zenon
    <3> QED
      BY <3>1, <3>2, Zenon
  <2>5. wrong[k] + Weight(h, k)' <= wrong[k] + Weight(h, k) + (faults + 1) - faults
    BY <1>2, <2>4
  <2>6. wrong'[k] + Weight(h, k)' <= wrong[k] + Weight(h, k) + faults' - faults
    BY <2>2, <2>5, Zenon
  <2> QED
    BY <1>1, <2>2, <2>3, <2>6, RowKept, Zenon
<1>9. ASSUME Tick \/ UNCHANGED vars PROVE BudgetInv(k)'
  <2>1. UNCHANGED <<attempt, loc, wrong, locks, faults>>
    BY <1>9, Zenon DEF Tick, vars
  <2>2. RowInv(k)' /\ Spent(k)' = Spent(k) /\ Guessing(k)' = Guessing(k) /\ Owed(k)' = Owed(k)
    BY Zenon, <1>1, <2>1 DEF BudgetInv, RowInv, Spent, Guessing, Owed
  <2> QED
    BY <1>1, <2>1, <2>2, Zenon DEF BudgetInv
<1> QED
  BY <1>3, <1>4, <1>5, <1>6, <1>7, <1>8, <1>9, Zenon DEF Next, Step

\* The failure budget bounds the credentials tested against a key, whatever the
\* limit, the lock length and the number of concurrent requests: what a key has
\* tested is covered by the failures on its row, a set of requests for each
\* lock, and the failures still to be recorded.
THEOREM GuessBudgetHolds == Spec => []GuessBudget
<1>1. Init => Budgets
  <2> SUFFICES ASSUME Init, NEW k \in Key PROVE BudgetInv(k)
    BY Zenon DEF Budgets
  <2>1. NoRow.until = Null /\ NoRow.failures = 0 /\ 0 < Limit
    BY ThrottleAssumption DEF NoRow
  <2>2. RowInv(k) /\ Spent(k) = 0 /\ wrong[k] = 0 /\ faults = 0
    BY <2>1, Zenon DEF Init, RowInv, Spent
  <2>3. Guessing(k) = {} /\ Owed(k) = {}
    BY Zenon DEF Init, Guessing, Owed, Idle
  <2>4. Cardinality(Guessing(k)) = 0 /\ Cardinality(Owed(k)) = 0 /\ 0 + 0 <= 0 + 0 + 0
    BY <2>3, FS_EmptySet
  <2> QED
    BY <2>2, <2>4, Zenon DEF BudgetInv
<1>2. IInv /\ Budgets /\ [Next]_vars => Budgets'
  BY BudgetStep, Zenon DEF Budgets
<1>3. IInv /\ Budgets => GuessBudget
  <2> SUFFICES ASSUME IInv, Budgets, NEW k \in Key
               PROVE  wrong[k] <= Limit - 1 + faults
                        + Cardinality(Handler) * (locks[k] + IF Locked(k) THEN 0 ELSE 1)
    BY Zenon DEF GuessBudget
  <2>1. BudgetInv(k) /\ TypeOK
    BY Zenon DEF Budgets, IInv
  <2>2. /\ wrong[k] \in Nat /\ locks[k] \in Nat /\ faults \in Nat /\ Limit \in Nat
        /\ attempt[k].failures \in Nat /\ attempt[k].until \in Nat /\ clock \in Nat
    BY <2>1, ThrottleAssumption, Counters, RowFields, Zenon DEF TypeOK
  <2>3. Guessing(k) \in SUBSET Handler /\ Owed(k) \in SUBSET Handler
    BY Zenon DEF Guessing, Owed
  <2>4. /\ Cardinality(Guessing(k)) \in Nat /\ Cardinality(Owed(k)) \in Nat
        /\ Cardinality(Owed(k)) <= Cardinality(Handler) /\ Cardinality(Handler) \in Nat
    BY <2>3, Requests, Zenon
  <2>5. /\ Cardinality(Handler) * locks[k] \in Nat
        /\ Cardinality(Handler) * (locks[k] + 1)
             = Cardinality(Handler) * locks[k] + Cardinality(Handler)
    BY <2>2, <2>4, Times, Zenon
  <2>6. wrong[k] <= Limit - 1 + Cardinality(Handler) * locks[k] + Cardinality(Owed(k)) + faults
    <3>1. /\ wrong[k] + Cardinality(Guessing(k)) <= Spent(k) + Cardinality(Owed(k)) + faults
          /\ attempt[k].until = Null => attempt[k].failures < Limit
      BY <2>1, Zenon DEF BudgetInv, RowInv
    <3>2. CASE attempt[k].until = Null
      <4>1. Spent(k) = attempt[k].failures
        BY <3>2, Zenon DEF Spent
      <4> QED
        BY <2>2, <2>4, <2>5, <3>1, <3>2, <4>1
    <3>3. CASE attempt[k].until # Null
      <4>1. Spent(k) = Limit - 1 + Cardinality(Handler) * locks[k]
        BY <3>3, Zenon DEF Spent
      <4> QED
        BY <2>2, <2>4, <2>5, <3>1, <4>1
    <3> QED
      BY <3>2, <3>3, Zenon
  <2>7. Locked(k) => Cardinality(Owed(k)) = 0
    <3> SUFFICES ASSUME Locked(k) PROVE Owed(k) = {}
      BY FS_EmptySet, Zenon
    <3>1. ASSUME NEW h \in Handler, loc[h].at = "record" PROVE LockedAt(attempt[k], loc[h].now)
      <4>1. loc[h].now \in Nat /\ loc[h].now <= clock
        BY <2>1, <3>1, LocalCases, RowFields, Zenon DEF IInv, Busy
      <4> QED
        BY <2>2, <4>1, Before, Zenon DEF Locked, LockedAt
    <3> QED
      BY <3>1, Zenon DEF Owed
  <2>8. CASE Locked(k)
    <3>1. wrong[k] <= Limit - 1 + faults + Cardinality(Handler) * (locks[k] + 0)
      BY <2>2, <2>5, <2>6, <2>7, <2>8
    <3> QED
      BY <2>8, <3>1, Zenon
  <2>9. CASE ~Locked(k)
    <3>1. wrong[k] <= Limit - 1 + faults + Cardinality(Handler) * (locks[k] + 1)
      BY <2>2, <2>4, <2>5, <2>6
    <3> QED
      BY <2>9, <3>1, Zenon
  <2> QED
    BY <2>8, <2>9, Zenon
<1> QED
  BY <1>1, <1>2, <1>3, Invariance, PTL DEF Spec

-----------------------------------------------------------------------------
(* Profile *)

CONSTANTS User, Admin, Name, Text, Call, Blank, MaxPassword
VARIABLES rows, row, gone, call

Account == INSTANCE Profile

Answers == {"admin", "user", Blank}
Names == Name \cup {Blank}
Texts == Text \cup {Blank}
ProfileCall ==
  [op : {"none", "put", "password"},
   pc : {"idle", "read", "taken", "update", "answer", "verify", "store"},
   id : User \cup {Blank}, name : Names, text : Texts,
   user : [name : Names, text : Texts, role : Answers], password : 0 .. MaxPassword]

\* What a request has read is a row; the verifier it checked is one that
\* another can follow.
CallInv(r) ==
  /\ r \in ProfileCall
  /\ r.pc # "idle" => r.id \in User
  /\ r.pc \in {"taken", "update"} => r.user.name \in Name /\ r.user.text \in Text
  /\ r.pc = "store" => r.password < MaxPassword

ProfileInv ==
  /\ rows \subseteq User /\ gone = User \ rows
  /\ row \in [User -> Account!Row]
  /\ call \in [Call -> ProfileCall]
  /\ \A c \in Call : CallInv(call[c])

\* Between two requests a handler holds no row and no name (PutUserInfo,
\* PutUserPassword and DeleteUser have returned).
LEMMA IdleCall == Account!ProfileAssumption => CallInv(Account!Idle)
  BY DEF Account!ProfileAssumption, CallInv, ProfileCall, Account!Idle, Names, Texts, Answers

\* A statement of one handler leaves what the others have read alone.
LEMMA CallMoves ==
  ASSUME ProfileInv, NEW c \in Call, NEW r, CallInv(r), Account!Step(c, r)
  PROVE  call' \in [Call -> ProfileCall] /\ \A d \in Call : CallInv(call'[d])
  BY Zenon DEF ProfileInv, CallInv, Account!Step

\* A statement that only reads (GetUserInfoById, GetUserInfoByUserName) keeps the
\* invariant and undoes nothing.
LEMMA Reads ==
  ASSUME ProfileInv, NEW c \in Call, NEW r, CallInv(r), Account!Step(c, r),
         UNCHANGED <<rows, row, gone>>
  PROVE  ProfileInv' /\ Account!Forward
<1>1. call' \in [Call -> ProfileCall] /\ \A d \in Call : CallInv(call'[d])
  BY CallMoves, Zenon
<1>2. \A u \in User : row[u].password \in Nat
  BY DEF ProfileInv, Account!Row
<1>3. \A u \in User : row[u].password <= row[u].password
  BY <1>2
<1>4. ProfileInv'
  BY <1>1, Zenon DEF ProfileInv
<1> QED
  BY <1>3, <1>4, Zenon DEF Account!Forward

\* Every statement of the handlers of route/v1/user.go and of UpdateUser,
\* ChangeUserPassword and DeleteUserById keeps ProfileInv and undoes nothing.
LEMMA ProfileStep ==
  ASSUME Account!ProfileAssumption, ProfileInv, Account!Next
  PROVE  ProfileInv' /\ Account!Forward
<1>p. \A v \in User : row[v].password \in Nat
  BY DEF ProfileInv, Account!Row
<1>q. \A v \in User : row[v].password >= row[v].password /\ row[v].password + 1 >= row[v].password
  BY <1>p
<1> DEFINE Goal == ProfileInv' /\ Account!Forward
<1>0. CallInv(Account!Idle)
  BY IdleCall, Zenon
<1>1. ASSUME NEW c \in Call, NEW u \in User, NEW name \in Names, NEW text \in Texts,
             Account!PutUserInfo(c, u, name, text)
      PROVE  Goal
  <2> DEFINE r == [Account!Idle EXCEPT !.op = "put", !.pc = "read", !.id = u, !.name = name, !.text = text]
  <2>1. CallInv(r)
    BY <1>0, Zenon DEF CallInv, ProfileCall, Account!Idle
  <2> QED
    BY <1>1, <2>1, Reads, Zenon DEF Account!PutUserInfo
<1>2. ASSUME NEW c \in Call, Account!GetUserInfoById(c) PROVE Goal
  <2>1. CallInv(call[c]) /\ call[c].pc = "read" /\ UNCHANGED <<rows, row, gone>>
    BY <1>2, Zenon DEF ProfileInv, Account!GetUserInfoById
  <2> DEFINE u == call[c].id
             r == [call[c] EXCEPT
                    !.pc = IF call[c].name = Blank THEN "update" ELSE "taken",
                    !.user = [name |-> row[u].name, text |-> row[u].text, role |-> row[u].role]]
  <2>2. u \in User /\ row[u] \in Account!Row
    BY <2>1, Zenon DEF CallInv, ProfileInv
  <2>3. CallInv(r)
    BY <2>1, <2>2, ZenonT(60) DEF CallInv, ProfileCall, Account!Row, Names, Texts, Answers
  <2>4. Account!Step(c, Account!Idle) \/ Account!Step(c, r)
    BY <1>2, Zenon DEF Account!GetUserInfoById
  <2> QED
    BY <1>0, <2>1, <2>3, <2>4, Reads, Zenon
<1>3. ASSUME NEW c \in Call, Account!GetUserInfoByUserName(c) PROVE Goal
  <2>1. CallInv(call[c]) /\ call[c].pc = "taken" /\ UNCHANGED <<rows, row, gone>>
    BY <1>3, Zenon DEF ProfileInv, Account!GetUserInfoByUserName
  <2>2. CallInv([call[c] EXCEPT !.pc = "update"])
    BY <2>1, Zenon DEF CallInv, ProfileCall
  <2>3. Account!Step(c, Account!Idle) \/ Account!Step(c, [call[c] EXCEPT !.pc = "update"])
    BY <1>3, Zenon DEF Account!GetUserInfoByUserName
  <2> QED
    BY <1>0, <2>1, <2>2, <2>3, Reads, Zenon
<1>4. ASSUME NEW c \in Call, Account!UpdateUser(c) PROVE Goal
  <2> DEFINE u == call[c].id
             w == Account!Updated(c)
             r == [call[c] EXCEPT !.pc = "answer"]
  <2>1. CallInv(call[c]) /\ call[c].pc = "update" /\ UNCHANGED <<rows, gone>> /\ Account!Step(c, r)
    BY <1>4, Zenon DEF ProfileInv, Account!UpdateUser
  <2>2. CallInv(r)
    BY <2>1, Zenon DEF CallInv, ProfileCall
  <2>3. u \in User /\ w.name \in Name /\ w.text \in Text
    BY <2>1, Zenon DEF CallInv, ProfileCall, Names, Texts, Account!Updated, Account!firstNonEmpty
  <2> HIDE DEF w
  <2>4. CASE UNCHANGED row
    BY <2>1, <2>2, <2>4, Reads, Zenon
  <2>5. CASE /\ u \in rows
             /\ row' = [row EXCEPT ![u].name = w.name, ![u].text = w.text]
    <3>1. /\ row' \in [User -> Account!Row]
          /\ \A v \in User : row'[v].password = row[v].password
      BY <2>3, <2>5, ZenonT(60) DEF ProfileInv, Account!Row
    <3>3. call' \in [Call -> ProfileCall] /\ \A d \in Call : CallInv(call'[d])
      BY <2>1, <2>2, CallMoves, Zenon
    <3>4. ProfileInv'
      BY <2>1, <3>1, <3>3, Zenon DEF ProfileInv
    <3> QED
      BY <1>q, <2>1, <3>1, <3>4, Zenon DEF Account!Forward
  <2> QED
    BY <1>4, <2>4, <2>5, Zenon DEF Account!UpdateUser, w
<1>5. ASSUME NEW c \in Call, Account!Answer(c) PROVE Goal
  BY <1>0, <1>5, Reads, Zenon DEF Account!Answer
<1>6. ASSUME NEW c \in Call, NEW u \in User, Account!PutUserPassword(c, u) PROVE Goal
  <2>1. CallInv([Account!Idle EXCEPT !.op = "password", !.pc = "verify", !.id = u])
    BY <1>0, Zenon DEF CallInv, ProfileCall, Account!Idle
  <2> QED
    BY <1>6, <2>1, Reads, Zenon DEF Account!PutUserPassword
<1>7. ASSUME NEW c \in Call, Account!VerifyOld(c) PROVE Goal
  <2> DEFINE u == call[c].id
             r == [call[c] EXCEPT !.pc = "store", !.password = row[u].password]
  <2>1. CallInv(call[c]) /\ call[c].pc = "verify" /\ UNCHANGED <<rows, row, gone>>
    BY <1>7, Zenon DEF ProfileInv, Account!VerifyOld
  <2>2. row[u].password \in 0 .. MaxPassword
    BY <2>1, Zenon DEF CallInv, ProfileInv, Account!Row
  <2>3. row[u].password < MaxPassword => CallInv(r)
    BY <2>1, <2>2, Zenon DEF CallInv, ProfileCall
  <2>4. Account!Step(c, Account!Idle) \/ (row[u].password < MaxPassword /\ Account!Step(c, r))
    BY <1>7, Zenon DEF Account!VerifyOld
  <2> QED
    BY <1>0, <2>1, <2>3, <2>4, Reads, Zenon
<1>8. ASSUME NEW c \in Call, Account!ChangeUserPassword(c) PROVE Goal
  <2> DEFINE u == call[c].id
  <2>1. /\ CallInv(call[c]) /\ call[c].pc = "store" /\ UNCHANGED <<rows, gone>>
        /\ Account!Step(c, Account!Idle)
    BY <1>8, Zenon DEF ProfileInv, Account!ChangeUserPassword
  <2>2. u \in User /\ call[c].password \in 0 .. MaxPassword /\ call[c].password < MaxPassword
    BY <2>1, Zenon DEF CallInv, ProfileCall
  <2>3. CASE UNCHANGED row
    BY <1>0, <2>1, <2>3, Reads, Zenon
  <2>4. CASE /\ row[u].password = call[c].password
             /\ row' = [row EXCEPT ![u].password = @ + 1]
    <3>1. row[u] \in Account!Row /\ row[u].password + 1 \in 0 .. MaxPassword
      BY <2>2, <2>4 DEF ProfileInv, Account!ProfileAssumption
    <3>2. /\ row' \in [User -> Account!Row]
          /\ \A v \in User : row'[v].password = IF v = u THEN row[v].password + 1 ELSE row[v].password
      BY <2>2, <2>4, <3>1, Zenon DEF ProfileInv, Account!Row
    <3>4. call' \in [Call -> ProfileCall] /\ \A d \in Call : CallInv(call'[d])
      BY <1>0, <2>1, CallMoves, Zenon
    <3>5. ProfileInv'
      BY <2>1, <3>2, <3>4, Zenon DEF ProfileInv
    <3> QED
      BY <1>q, <2>1, <3>2, <3>5, Zenon DEF Account!Forward
  <2> QED
    BY <1>8, <2>3, <2>4, Zenon DEF Account!ChangeUserPassword
<1>9. ASSUME NEW u \in User, Account!DeleteUser(u) PROVE Goal
  <2>1. /\ rows' = rows \ {u} /\ gone' = gone \cup {u} /\ u \in rows /\ UNCHANGED <<row, call>>
    BY <1>9, Zenon DEF Account!DeleteUser
  <2>2. rows' \subseteq User /\ gone' = User \ rows'
    BY <2>1, Zenon DEF ProfileInv
  <2>3. ProfileInv'
    BY <2>1, <2>2, Zenon DEF ProfileInv, CallInv
  <2> QED
    BY <1>q, <2>1, <2>3, Zenon DEF Account!Forward
<1> QED
  BY <1>1, <1>2, <1>3, <1>4, <1>5, <1>6, <1>7, <1>8, <1>9, Zenon DEF Account!Next, Names, Texts

\* The inductive invariant of the profile handlers: types, and what each request has
\* read by where it is.
THEOREM ProfileInvariance == Account!ProfileAssumption => (Account!Spec => []ProfileInv)
<1> SUFFICES ASSUME Account!ProfileAssumption PROVE Account!Spec => []ProfileInv
  OBVIOUS
<1>1. Account!Init => ProfileInv
  <2> SUFFICES ASSUME Account!Init PROVE ProfileInv
    OBVIOUS
  <2>1. CallInv(Account!Idle) /\ Account!Idle \in ProfileCall
    BY IdleCall, Zenon DEF CallInv
  <2> QED
    BY <2>1 DEF Account!Init, ProfileInv
<1>2. ProfileInv /\ [Account!Next]_(Account!vars) => ProfileInv'
  <2>1. CASE Account!Next
    BY <2>1, ProfileStep, Zenon
  <2>2. CASE UNCHANGED Account!vars
    BY <2>2, Zenon DEF Account!vars, ProfileInv, CallInv
  <2> QED
    BY <2>1, <2>2
<1> QED
  BY <1>1, <1>2, PTL DEF Account!Spec

\* Profiles keep their types: GetUserInfoById's empty row for a deleted account is
\* never written (PutUserInfo).
THEOREM ProfileTypeCorrect == Account!ProfileAssumption => (Account!Spec => []Account!TypeOK)
<1> SUFFICES ASSUME Account!ProfileAssumption PROVE Account!Spec => []Account!TypeOK
  OBVIOUS
<1>1. ProfileInv => Account!TypeOK
  BY Zenon DEF ProfileInv, CallInv, ProfileCall, Account!TypeOK
<1> QED
  BY <1>1, ProfileInvariance, PTL

\* UpdateUser writes the profile fields of an existing row over a stale read, so that
\* it brings back neither an account deleted nor a password changed meanwhile.
THEOREM EditUndoesNothingHolds ==
  Account!ProfileAssumption => (Account!Spec => Account!EditUndoesNothing)
<1> SUFFICES ASSUME Account!ProfileAssumption PROVE Account!Spec => Account!EditUndoesNothing
  OBVIOUS
<1>1. ProfileInv /\ Account!Next => Account!Forward
  BY ProfileStep
<1> QED
  BY <1>1, ProfileInvariance, PTL DEF Account!Spec, Account!EditUndoesNothing
=============================================================================
