----------------------------- MODULE LoginThrottle -----------------------------
(***************************************************************************)
(* Rate-limit keys (o_login_attempts): CheckLoginLockout,                  *)
(* RecordLoginFailure and RecordLoginSuccess of service/session.go, as     *)
(* PostUserLogin (keys "login:<name>") and IssueRefreshedTokens (keys      *)
(* "refresh:<id>") call them.  A request takes `now` once, waits for the   *)
(* store and for the Argon2 gate any length of time, and then uses that    *)
(* stale `now` to record its outcome.  Time is counted in ticks.           *)
(***************************************************************************)
EXTENDS Integers, FiniteSets

CONSTANTS
  Key,          \* rate-limit keys
  Handler,      \* concurrent requests
  Limit,        \* loginFailureLimit
  Window,       \* loginLockoutWindow
  Length,       \* loginLockoutLength
  Retention,    \* loginAttemptRetention
  MaxTime,      \* bound: ticks
  MaxFaults     \* bound: failed statements

ASSUME ThrottleAssumption ==
  /\ Limit \in Nat \ {0}
  /\ Window \in Nat /\ Length \in Nat \ {0} /\ Retention \in Nat
  /\ Window + Length <= Retention
  /\ MaxTime \in Nat \ {0} /\ MaxFaults \in Nat
  /\ IsFiniteSet(Handler)

Time == 1 .. MaxTime
Null == 0
NoRow == [failures |-> 0, window |-> Null, until |-> Null]
Row == [failures : Nat, window : Time, until : Nat] \cup {NoRow}
Label == {"check", "verify", "record", "clear", "prune"}
Idle == [at |-> "idle"]
Local == [at : Label, key : Key, now : Time] \cup {Idle}

VARIABLES
  clock,
  attempt,   \* the row of each key
  loc,       \* next step, key and `now` of each request
  wrong,     \* refused credentials of each key since its budget was opened
  locks,     \* locks of each key since its budget was opened
  faults

vars == <<clock, attempt, loc, wrong, locks, faults>>

TypeOK ==
  /\ clock \in Time
  /\ attempt \in [Key -> Row]
  /\ loc \in [Handler -> Local]
  /\ wrong \in [Key -> Nat] /\ locks \in [Key -> Nat]
  /\ faults \in 0 .. MaxFaults

Init ==
  /\ clock = 1
  /\ attempt = [k \in Key |-> NoRow]
  /\ loc = [h \in Handler |-> Idle]
  /\ wrong = [k \in Key |-> 0] /\ locks = [k \in Key |-> 0]
  /\ faults = 0

Goto(h, label) ==
  loc' = [loc EXCEPT ![h] = IF label = "idle" THEN Idle ELSE [loc[h] EXCEPT !.at = label]]

-----------------------------------------------------------------------------
(* Steps of a request *)

Begin(h, k) ==
  /\ loc[h].at = "idle"
  /\ loc' = [loc EXCEPT ![h] = [at |-> "check", key |-> k, now |-> clock]]
  /\ UNCHANGED <<clock, attempt, wrong, locks, faults>>

\* A row locks its key at the request's time.
LockedAt(r, now) == r.until # Null /\ now < r.until

CheckLoginLockout(h) ==
  /\ loc[h].at = "check"
  /\ Goto(h, IF LockedAt(attempt[loc[h].key], loc[h].now) THEN "idle" ELSE "verify")
  /\ UNCHANGED <<clock, attempt, wrong, locks, faults>>

\* AuthenticateUser, or the claims of a refresh token and its rotation: the
\* credential is refused, accepted, or the request ends with another error.
Verify(h) ==
  /\ loc[h].at = "verify"
  /\ \E label \in {"record", "clear", "idle"} :
       /\ Goto(h, label)
       /\ wrong' = IF label = "record" THEN [wrong EXCEPT ![loc[h].key] = @ + 1] ELSE wrong
  /\ UNCHANGED <<clock, attempt, locks, faults>>

\* The row a failure is counted on: a new one, the current one, or the current
\* one with its window restarted.
Reopened(r, now) == r = NoRow \/ now - r.window > Window

\* Mutant: the lock falls one failure late.
CountedLate(r, now) ==
  LET base == IF Reopened(r, now) THEN [failures |-> 0, window |-> now, until |-> Null] ELSE r
      n == base.failures + 1
  IN  [base EXCEPT !.failures = n, !.until = IF n > Limit THEN now + Length ELSE @]

\* Mutant: the row of a first failure is created without its window.
CountedUndated(r, now) ==
  LET n == r.failures + 1
  IN  [r EXCEPT !.failures = n, !.until = IF n >= Limit THEN now + Length ELSE @]

Counted(r, now) ==
  LET base == IF Reopened(r, now) THEN [failures |-> 0, window |-> now, until |-> Null] ELSE r
      n == base.failures + 1
  IN  [base EXCEPT !.failures = n, !.until = IF n >= Limit THEN now + Length ELSE @]

\* Mutant: a failure against a locked key is counted and renews the lock.
AfterFailureRenewing(r, now) == Counted(r, now)

\* The row RecordLoginFailure leaves: a locked key keeps its expiry.
AfterFailure(r, now) == IF LockedAt(r, now) THEN r ELSE Counted(r, now)

RecordLoginFailure(h) ==
  /\ loc[h].at = "record"
  /\ LET k == loc[h].key
         now == loc[h].now
         r == AfterFailure(attempt[k], now)
         open == ~LockedAt(attempt[k], now) /\ Reopened(attempt[k], now)
     IN  /\ attempt' = [attempt EXCEPT ![k] = r]
         /\ locks' = [locks EXCEPT ![k] = (IF open THEN 0 ELSE @)
                                          + (IF r.until \notin {Null, attempt[k].until} THEN 1 ELSE 0)]
         /\ wrong' = IF open /\ attempt[k] # NoRow THEN [wrong EXCEPT ![k] = 1] ELSE wrong
  /\ Goto(h, "idle")
  /\ UNCHANGED <<clock, faults>>

\* Deleting the row opens a new budget.
Dropped(S) ==
  /\ attempt' = [k \in Key |-> IF k \in S THEN NoRow ELSE attempt[k]]
  /\ wrong' = [k \in Key |-> IF k \in S THEN 0 ELSE wrong[k]]
  /\ locks' = [k \in Key |-> IF k \in S THEN 0 ELSE locks[k]]

\* The session issued next may still fail, and then nothing is pruned.
RecordLoginSuccess(h) ==
  /\ loc[h].at = "clear"
  /\ Dropped({loc[h].key})
  /\ \E label \in {"prune", "idle"} : Goto(h, label)
  /\ UNCHANGED <<clock, faults>>

\* The rows PruneAuthState deletes, of any key.
Stale(r, now) ==
  /\ r # NoRow /\ r.window < now - Retention
  /\ r.until = Null \/ r.until < now

PruneAuthState(h) ==
  /\ loc[h].at = "prune"
  /\ Dropped({k \in Key : Stale(attempt[k], loc[h].now)})
  /\ Goto(h, "idle")
  /\ UNCHANGED <<clock, faults>>

-----------------------------------------------------------------------------
(* Failed statements and time *)

\* A lockout that cannot be read admits the request; a failure that cannot be
\* recorded ends it; a budget that cannot be cleared is kept.
Fail(h) ==
  /\ loc[h].at \in {"check", "record", "clear", "prune"}
  /\ faults < MaxFaults /\ faults' = faults + 1
  /\ CASE loc[h].at = "check" -> Goto(h, "verify")
       [] loc[h].at = "clear" -> \E label \in {"prune", "idle"} : Goto(h, label)
       [] OTHER               -> Goto(h, "idle")
  /\ UNCHANGED <<clock, attempt, wrong, locks>>

Tick ==
  /\ clock < MaxTime /\ clock' = clock + 1
  /\ UNCHANGED <<attempt, loc, wrong, locks, faults>>

Step(h) ==
  \/ CheckLoginLockout(h) \/ Verify(h) \/ RecordLoginFailure(h)
  \/ RecordLoginSuccess(h) \/ PruneAuthState(h)

Next ==
  \/ \E h \in Handler : Step(h) \/ Fail(h) \/ \E k \in Key : Begin(h, k)
  \/ Tick

Spec == Init /\ [][Next]_vars

-----------------------------------------------------------------------------
(* Properties *)

Locked(k) == LockedAt(attempt[k], clock)

\* "An already-locked key keeps its original expiry instead of extending it":
\* while a lock is in force its row stays as it is, whatever requests that were
\* admitted earlier record and whatever is pruned, unless such a request
\* presented the right credential.
LockStands ==
  [][\A k \in Key : Locked(k) /\ attempt'[k] # attempt[k] =>
       \E h \in Handler : loc[h].at = "clear" /\ loc[h].key = k /\ loc'[h] # loc[h]]_vars

\* The failure budget bounds the credentials a key can test, concurrency
\* included: up to Limit, plus the other requests already admitted when the
\* lock falls, and one per request for each lock that has run out since.  A
\* statement that fails costs at most one test.
GuessBudget ==
  \A k \in Key :
    wrong[k] <= Limit - 1 + faults
                + Cardinality(Handler) * (locks[k] + IF Locked(k) THEN 0 ELSE 1)
==============================================================================
