---------------------------- MODULE SessionsProofs ----------------------------
(***************************************************************************)
(* Proofs about Sessions for every set of users and handlers and every     *)
(* bound and cap: the remaining actions keep the invariant, and the        *)
(* properties follow from it.                                              *)
(***************************************************************************)
EXTENDS SessionsInvariant, FiniteSetTheorems

-----------------------------------------------------------------------------
(* The denylist *)

\* A revocation evicted by the cap had DenyCap newer ones of the same user, so
\* that user's denylist was over the cap.
LEMMA EvictionOverflows ==
  ASSUME TypeOK, NEW S \in SUBSET denied, NEW s \in S, OverCap(S, s, DenyCap)
  PROVE  Cardinality(OwnedBy(tok[s].owner, S)) > DenyCap
<1> DEFINE N == {t \in S : t > s /\ tok[t].owner = tok[s].owner}
           O == OwnedBy(tok[s].owner, S)
<1>1. IsFiniteSet(Sid)
  BY FS_Interval, SessionsAssumption DEF Sid
<1>2. S \subseteq Sid /\ s \in Nat
  BY DEF TypeOK, Sid
<1>3. IsFiniteSet(O) /\ IsFiniteSet(N)
  <2>1. O \subseteq Sid /\ N \subseteq Sid
    BY Zenon, <1>2 DEF OwnedBy
  <2> QED
    BY <1>1, <2>1, FS_Subset
<1>4. N \subseteq O \ {s} /\ s \in O
  BY <1>2 DEF OwnedBy
<1>5. Cardinality(O \ {s}) = Cardinality(O) - 1 /\ IsFiniteSet(O \ {s})
  BY <1>3, <1>4, FS_RemoveElement
<1>6. Cardinality(N) <= Cardinality(O \ {s})
  BY <1>4, <1>5, FS_Subset
<1>7. Cardinality(N) >= DenyCap
  BY Zenon DEF OverCap
<1>8. Cardinality(N) \in Nat /\ Cardinality(O) \in Nat
  BY <1>3, FS_CardinalityType, Zenon
<1> HIDE DEF N, O
<1>9. Cardinality(O) > DenyCap
  BY <1>5, <1>6, <1>7, <1>8, SessionsAssumption
<1> QED
  BY <1>9 DEF O

\* Pruning the denylist may make a session deliverable.
LEMMA PruneRevokedInv ==
  ASSUME IInv, NEW h \in Handler, PruneRevoked(h) PROVE IInv'
<1> DEFINE deny == {s \in denied : s > accessExp}
           n == loc[h].new
<1>1. /\ loc[h].at = "pruneDeny" /\ Goto(h, "idle")
      /\ delivered' \in {delivered, delivered \cup {n}}
  BY Zenon DEF PruneRevoked
<1>2. /\ denied' = {s \in deny : ~OverCap(deny, s, DenyCap)}
      /\ overflown' = overflown \cup {u \in User : Cardinality(OwnedBy(u, deny)) > DenyCap}
  BY Zenon DEF PruneRevoked
<1>3. UNCHANGED <<exists, ver, pw, legacy, tok, signed, nxt, rows, used, revoked,
                  accessExp, refreshExp, retired, loggedOut, halfOut, faults>>
  BY Zenon DEF PruneRevoked, userVars, tokenVars, rowVars, clockVars
<1>4. TypeOK /\ loc[h] # Idle /\ HandlerInv(h)
  BY <1>1, HandlerFacts, Zenon
<1>5. n \in Minted /\ n # None
  BY <1>1, <1>4 DEF HandlerInv, TypeOK, Sid, None
<1>6. MovesTo(h, "idle")
  BY <1>1, <1>4, GotoFacts
<1>7. OnlyMoves(h) /\ loc'[h] = Idle
  BY <1>6, Zenon DEF MovesTo
<1>8. TypeOK'
  <2>1. delivered' \subseteq Minted /\ denied' \subseteq Minted /\ overflown' \subseteq User
    BY <1>1, <1>2, <1>4, <1>5, Zenon DEF TypeOK
  <2>2. loc' \in [Handler -> Local]
    BY <1>7, Zenon DEF OnlyMoves
  <2> QED
    BY <1>3, <1>4, <2>1, <2>2, ZenonT(60) DEF TypeOK, Minted
<1>9. HandlerInv(h)'
  BY <1>7, Zenon DEF HandlerInv
<1>10. ASSUME NEW g \in Handler, g # h PROVE HandlerInv(g)'
  <2>1. HandlerInv(g) /\ loc'[g] = loc[g] /\ Distinct
    BY <1>7, <1>10, Zenon DEF IInv, OnlyMoves
  <2>2. loc[g] # Idle => loc[g].new # n
    BY <1>4, <1>5, <1>10, <2>1, Zenon DEF Distinct
  <2> HIDE DEF n
  <2>3. /\ delivered \subseteq delivered' /\ delivered' \subseteq delivered \cup {n}
        /\ UNCHANGED <<tok, nxt, rows, revoked>>
    BY <1>1, <1>3
  <2> QED
    BY Zenon, <2>1, <2>2, <2>3 DEF HandlerInv, Minted
<1>11. Distinct'
  BY <1>1, <1>7, DistinctKeep, Zenon
<1>12. ASSUME NEW s \in loggedOut' PROVE LogoutInv(s)'
  <2>1. LogoutInv(s) /\ s \in Minted /\ s \in Nat /\ accessExp \in Nat
    BY <1>3, <1>4, <1>12 DEF IInv, TypeOK, Sid
  <2>2. s \in delivered' /\ s \notin rows' \ revoked'
    BY <1>1, <1>3, <2>1 DEF LogoutInv
  <2>3. tok[s].owner \in User
    BY <1>4, <2>1, Zenon DEF TypeOK, Token
  <2>4. CASE s \in deny /\ OverCap(deny, s, DenyCap)
    <3>1. Cardinality(OwnedBy(tok[s].owner, deny)) > DenyCap
      BY <1>4, <2>4, EvictionOverflows, Zenon
    <3> HIDE DEF deny
    <3> QED
      BY <1>2, <1>3, <2>2, <2>3, <3>1, Zenon DEF LogoutInv
  <2>5. CASE s \in deny /\ ~OverCap(deny, s, DenyCap)
    BY <1>2, <2>2, <2>5, Zenon DEF LogoutInv
  <2>6. CASE s \notin deny
    BY <1>2, <1>3, <2>1, <2>2, <2>6 DEF LogoutInv
  <2> QED
    BY <2>4, <2>5, <2>6, Zenon
<1>13. (\A s \in Minted' : TokenInv(s)') /\ OneLiveLeafPerLogin'
  BY <1>3, TokensKeep, LeavesKeep, Zenon
<1> QED
  BY <1>8, <1>9, <1>10, <1>11, <1>12, <1>13, Zenon DEF IInv

-----------------------------------------------------------------------------
(* Password change and deletion *)

\* Loading the verifier changes the handler's own locals only.
LEMMA LoadForChangeInv ==
  ASSUME IInv, NEW h \in Handler, LoadForChange(h) PROVE IInv'
<1>1. loc[h].at = "load"
  BY Zenon DEF LoadForChange
<1>2. UNCHANGED <<exists, ver, pw, legacy, tok, signed, nxt, delivered, rows, used, revoked,
                  denied, accessExp, refreshExp, retired, loggedOut, halfOut, overflown, faults>>
  BY Zenon DEF LoadForChange, userVars, tokenVars, rowVars, clockVars, ghostVars
<1>3. TypeOK /\ loc[h] \in Busy /\ loc[h].user \in User
  BY <1>1, HandlerFacts, Zenon
<1>4. \E label \in {"cas", "idle"} : MovesTo(h, label)
  <2>1. CASE loc[h].user \in exists
    <3> DEFINE p == pw[loc[h].user]
               l == loc[h].user \in legacy
               r == [loc[h] EXCEPT !.at = "cas", !.pw = p, !.legacy = l]
    <3>1. loc' = [loc EXCEPT ![h] = r]
      BY Zenon, <1>3, <2>1 DEF LoadForChange, TypeOK
    <3>2. p \in Nat /\ l \in BOOLEAN /\ "cas" \in Label
      BY <1>3 DEF TypeOK, Label
    <3> HIDE DEF p, l
    <3>3. r \in Busy /\ r.at = "cas" /\ r.sid = loc[h].sid /\ r.new = loc[h].new
      BY Zenon, <1>3, <3>2 DEF Busy
    <3> HIDE DEF r
    <3>4. OnlyMoves(h) /\ loc'[h] = r
      BY <1>3, <3>1, <3>3 DEF TypeOK, Local, Busy, OnlyMoves
    <3> QED
      BY <3>3, <3>4 DEF MovesTo
  <2>2. CASE loc[h].user \notin exists
    BY <1>1, <1>3, <2>2, GotoFacts DEF LoadForChange
  <2> QED
    BY <2>1, <2>2, Zenon
<1>5. PICK label \in {"cas", "idle"} : MovesTo(h, label)
  BY <1>4
<1>6. (\A g \in Handler : HandlerInv(g)') /\ Distinct'
  BY <1>1, <1>2, <1>5, QuietStep, Zenon DEF Quiet
<1>7. TypeOK'
  BY <1>2, <1>3, <1>5, ZenonT(60) DEF TypeOK, Minted, MovesTo, OnlyMoves
<1>8. /\ \A s \in Minted' : TokenInv(s)'
      /\ OneLiveLeafPerLogin' /\ \A s \in loggedOut' : LogoutInv(s)'
  BY <1>2, TokensKeep, LeavesKeep, LogoutKeep
<1> QED
  BY <1>6, <1>7, <1>8, Zenon DEF IInv

\* Storing the password advances the version in the same statement.
LEMMA StorePasswordInv ==
  ASSUME IInv, NEW h \in Handler, StorePassword(h) PROVE IInv'
<1>1. loc[h].at = "cas"
  BY Zenon DEF StorePassword
<1>2. UNCHANGED <<exists, tok, signed, nxt, delivered, rows, used, revoked,
                  denied, accessExp, refreshExp, loggedOut, halfOut, overflown, faults>>
  BY Zenon DEF StorePassword, tokenVars, rowVars, clockVars
<1>3. PICK label \in {"revoke", "idle"} :
        Goto(h, label) /\ (Advance(h) \/ UNCHANGED <<ver, retired>>)
  BY Zenon DEF StorePassword
<1>4. TypeOK /\ loc[h].user \in User
  BY <1>1, HandlerFacts, Zenon
<1>5. pw' \in [User -> Nat] /\ legacy' \subseteq User
  BY <1>4 DEF StorePassword, TypeOK
<1>6. MovesTo(h, label)
  BY <1>1, <1>3, <1>4, GotoFacts, Zenon DEF Label
<1>7. (\A g \in Handler : HandlerInv(g)') /\ Distinct'
  BY <1>1, <1>2, <1>3, <1>6, QuietStep, Zenon DEF Quiet
<1>8. /\ ver' \in [User -> Nat] /\ retired' \subseteq Minted
      /\ \A s \in Minted' : TokenInv(s)'
  <2>1. CASE Advance(h)
    BY <1>2, <1>4, <2>1, AdvanceFacts, Zenon
  <2>2. CASE UNCHANGED <<ver, retired>>
    BY <1>2, <1>4, <2>2, TokensKeep, Zenon DEF TypeOK
  <2> QED
    BY <1>3, <2>1, <2>2
<1>9. TypeOK'
  BY <1>2, <1>4, <1>5, <1>6, <1>8, Zenon DEF TypeOK, Minted, MovesTo, OnlyMoves
<1>10. OneLiveLeafPerLogin' /\ \A s \in loggedOut' : LogoutInv(s)'
  BY <1>2, LeavesKeep, LogoutKeep, Zenon
<1> QED
  BY <1>7, <1>8, <1>9, <1>10, Zenon DEF IInv

\* Deleting a user touches no token and no session row.
LEMMA DeleteInv ==
  ASSUME IInv, NEW h \in Handler, DeleteUserById(h) PROVE IInv'
<1>1. loc[h].at = "erase" /\ exists' \subseteq exists
  BY Zenon DEF DeleteUserById
<1>2. UNCHANGED <<ver, pw, legacy, tok, signed, nxt, delivered, rows, used, revoked,
                  denied, accessExp, refreshExp, retired, loggedOut, halfOut, overflown, faults>>
  BY Zenon DEF DeleteUserById, tokenVars, rowVars, clockVars, ghostVars
<1>3. PICK label \in {"revoke", "idle"} : Goto(h, label)
  BY Zenon DEF DeleteUserById
<1>4. TypeOK
  BY Zenon DEF IInv
<1>5. MovesTo(h, label)
  BY <1>1, <1>3, <1>4, GotoFacts, Zenon DEF Label
<1>6. (\A g \in Handler : HandlerInv(g)') /\ Distinct'
  BY <1>1, <1>2, <1>3, <1>5, QuietStep, Zenon DEF Quiet
<1>7. TypeOK'
  BY <1>1, <1>2, <1>4, <1>5, Zenon DEF TypeOK, Minted, MovesTo, OnlyMoves
<1>8. /\ \A s \in Minted' : TokenInv(s)'
      /\ OneLiveLeafPerLogin' /\ \A s \in loggedOut' : LogoutInv(s)'
  BY <1>2, TokensKeep, LeavesKeep, LogoutKeep, Zenon
<1> QED
  BY <1>6, <1>7, <1>8, Zenon DEF IInv

-----------------------------------------------------------------------------
(* Failures and time *)

\* A refused statement; a handler whose prune fails still delivers.
LEMMA FailInv ==
  ASSUME IInv, NEW h \in Handler, Fail(h) PROVE IInv'
<1> DEFINE n == loc[h].new
<1>1. loc[h].at # "idle" /\ Goto(h, OnError(h))
  BY Zenon DEF Fail
<1>2. UNCHANGED <<exists, ver, pw, legacy, tok, signed, nxt, rows, used, revoked,
                  denied, accessExp, refreshExp, retired, loggedOut, overflown>>
  BY Zenon DEF Fail, userVars, tokenVars, rowVars, clockVars
<1>3. TypeOK /\ loc[h] # Idle /\ HandlerInv(h)
  BY <1>1, HandlerFacts, Zenon
<1>4. faults' \in 0 .. MaxFaults
  BY <1>3, SessionsAssumption DEF TypeOK, Fail, Fault
<1>5. /\ delivered \subseteq delivered' /\ delivered' \subseteq delivered \cup {n}
      /\ delivered' # delivered => n \in Minted
      /\ halfOut' \subseteq Minted
  <2>1. /\ loc[h].at = "pruneDeny" => n \in Minted
        /\ loc[h].at = "deny" => loc[h].sid \in delivered
    BY <1>3, Zenon DEF HandlerInv
  <2>2. delivered \subseteq Minted /\ halfOut \subseteq Minted
    BY <1>3, Zenon DEF TypeOK
  <2>3. CASE loc[h].at = "pruneDeny"
    <3>1. delivered' = delivered \cup {n} /\ halfOut' = halfOut
      BY <2>3, Zenon DEF Fail
    <3> QED
      BY <2>1, <2>2, <2>3, <3>1, Zenon
  <2>4. CASE loc[h].at # "pruneDeny"
    <3>1. delivered' = delivered /\ halfOut' \subseteq halfOut \cup {loc[h].sid}
          /\ (halfOut' # halfOut => loc[h].at = "deny")
      BY <2>4, Zenon DEF Fail
    <3> QED
      BY <2>1, <2>2, <3>1, Zenon
  <2> QED
    BY <2>3, <2>4, Zenon
<1>6. /\ OnError(h) \in {"bump", "denyOnly", "pruneDeny", "idle"}
      /\ OnError(h) = "denyOnly" => loc[h].at = "revokeOne"
      /\ OnError(h) = "pruneDeny" => loc[h].at = "prune"
  BY Zenon DEF OnError, AfterRevoke
<1>7. MovesTo(h, OnError(h))
  BY <1>1, <1>3, <1>6, GotoFacts, Zenon DEF Label
<1>8. /\ OnlyMoves(h)
      /\ loc'[h] = Idle \/ (/\ loc'[h].at = OnError(h)
                            /\ loc'[h].sid = loc[h].sid /\ loc'[h].new = n)
  BY <1>7, Zenon DEF MovesTo
<1>9. TypeOK'
  <2>1. delivered' \subseteq Minted
    BY Zenon, <1>3, <1>5 DEF TypeOK
  <2> QED
    BY Zenon, <1>2, <1>3, <1>4, <1>5, <1>8, <2>1 DEF TypeOK, Minted, OnlyMoves
<1>10. HandlerInv(h)'
  BY Zenon, <1>2, <1>3, <1>5, <1>6, <1>8 DEF HandlerInv, Minted
<1>11. Distinct'
  BY Zenon, <1>1, <1>8, DistinctKeep
<1>12. ASSUME NEW g \in Handler, g # h PROVE HandlerInv(g)'
  <2>1. HandlerInv(g) /\ loc'[g] = loc[g] /\ Distinct
    BY <1>8, <1>12, Zenon DEF IInv, OnlyMoves
  <2>2. None \notin Minted
    BY <1>3 DEF TypeOK, Sid, None
  <2>3. loc[g] # Idle /\ delivered' # delivered => loc[g].new # n
    BY <1>3, <1>5, <1>12, <2>1, <2>2, Zenon DEF Distinct
  <2>4. UNCHANGED <<tok, nxt, rows, revoked>>
    BY <1>2, Zenon
  <2> HIDE DEF n
  <2> QED
    BY Zenon, <1>5, <2>1, <2>3, <2>4 DEF HandlerInv, Minted
<1>13. /\ \A s \in Minted' : TokenInv(s)'
       /\ OneLiveLeafPerLogin' /\ \A s \in loggedOut' : LogoutInv(s)'
  BY <1>2, <1>5, TokensKeep, LeavesKeep, LogoutKeep, Zenon
<1> QED
  BY <1>9, <1>10, <1>11, <1>12, <1>13, Zenon DEF IInv

\* A restart forgets the requests and the key.
LEMMA RestartInv ==
  ASSUME IInv, Restart PROVE IInv'
<1>1. loc' = [h \in Handler |-> Idle] /\ signed' = {} /\ Fault
  BY Zenon DEF Restart
<1>2. UNCHANGED <<exists, ver, pw, legacy, tok, nxt, delivered, rows, used, revoked,
                  denied, accessExp, refreshExp, retired, loggedOut, halfOut, overflown>>
  BY Zenon DEF Restart, userVars, rowVars, clockVars, ghostVars
<1>3. TypeOK /\ loc' \in [Handler -> Local]
  BY <1>1, Zenon DEF IInv, Local
<1>4. TypeOK'
  <2>1. faults' \in 0 .. MaxFaults
    BY <1>1, <1>3, SessionsAssumption DEF TypeOK, Fault
  <2> QED
    BY <1>1, <1>2, <1>3, <2>1, ZenonT(60) DEF TypeOK, Minted
<1>5. (\A h \in Handler : HandlerInv(h)') /\ Distinct'
  BY <1>1, Zenon DEF HandlerInv, Distinct
<1>6. /\ \A s \in Minted' : TokenInv(s)'
      /\ OneLiveLeafPerLogin' /\ \A s \in loggedOut' : LogoutInv(s)'
  BY <1>2, TokensKeep, LeavesKeep, LogoutKeep
<1> QED
  BY <1>4, <1>5, <1>6, Zenon DEF IInv

\* What has expired stays expired when one more expires.
LEMMA Expiry ==
  /\ \A n \in 1 .. MaxSid + 1 : \A a \in 0 .. n - 1 : a \in Nat
  /\ \A m, a \in Nat : \A b \in {a, a + 1} : b \in Nat /\ (m <= a => m <= b)
  BY SessionsAssumption

\* Time only moves forward.
LEMMA ExpireInv ==
  ASSUME IInv, ExpireAccess \/ ExpireRefresh PROVE IInv'
<1>1. TypeOK
  BY Zenon DEF IInv
<1>2. /\ accessExp' \in {accessExp, accessExp + 1}
      /\ accessExp' \in 0 .. nxt - 1 /\ refreshExp' \in 0 .. accessExp'
  BY <1>1, SessionsAssumption DEF TypeOK, ExpireAccess, ExpireRefresh
<1>3. UNCHANGED <<exists, ver, pw, legacy, tok, signed, nxt, delivered, rows, used, revoked,
                  denied, loc, retired, loggedOut, halfOut, overflown, faults>>
  BY Zenon DEF ExpireAccess, ExpireRefresh, userVars, tokenVars, rowVars, ghostVars
<1>4. TypeOK'
  BY <1>1, <1>2, <1>3, Zenon DEF TypeOK, Minted
<1>5. \A s \in loggedOut' : LogoutInv(s)'
  <2> SUFFICES ASSUME NEW s \in loggedOut PROVE LogoutInv(s)'
    BY <1>3, Zenon
  <2>1. accessExp \in Nat /\ accessExp' \in Nat
    BY <1>1, <1>2, Expiry, Zenon DEF TypeOK
  <2>2. LogoutInv(s) /\ s \in Nat
    BY <1>1, SidFacts, Zenon DEF IInv, TypeOK
  <2>3. s <= accessExp => s <= accessExp'
    BY <1>2, <2>1, <2>2, Expiry, Zenon
  <2> QED
    BY <1>3, <2>2, <2>3, Zenon DEF LogoutInv
<1>6. (\A h \in Handler : HandlerInv(h)') /\ Distinct'
  <2>1. (\A h \in Handler : HandlerInv(h)) /\ Distinct
    BY Zenon DEF IInv
  <2>2. ASSUME NEW h \in Handler PROVE HandlerInv(h)'
    <3>1. HandlerInv(h) /\ UNCHANGED <<loc, tok, nxt, rows, revoked, delivered>>
      BY <1>3, <2>1, Zenon
    <3> QED
      BY <3>1, Zenon DEF HandlerInv, Minted
  <2> QED
    BY <1>3, <2>1, <2>2, Zenon DEF Distinct
<1>7. (\A s \in Minted' : TokenInv(s)') /\ OneLiveLeafPerLogin'
  BY <1>3, TokensKeep, LeavesKeep, Zenon
<1> QED
  BY <1>4, <1>5, <1>6, <1>7, Zenon DEF IInv

-----------------------------------------------------------------------------
\* The initial state satisfies the invariant.
LEMMA InitInv == Init => IInv
<1> SUFFICES ASSUME Init PROVE IInv
  OBVIOUS
<1>1. Minted = {} /\ tok \in [Minted -> Token]
  BY Zenon DEF Init, Minted
<1>2. TypeOK
  BY <1>1, SessionsAssumption DEF Init, TypeOK, Local
<1> QED
  BY <1>1, <1>2, Zenon DEF Init, IInv, HandlerInv, Distinct, OneLiveLeafPerLogin

\* Every step keeps it.
LEMMA InvStep == IInv /\ [Next]_vars => IInv'
<1> SUFFICES ASSUME IInv, [Next]_vars PROVE IInv'
  OBVIOUS
<1>1. ASSUME NEW h \in Handler, Request(h) PROVE IInv'
  BY <1>1, AuthenticateInv, LoadForRefreshInv, CheckVersionInv, Zenon DEF Request
<1>2. ASSUME NEW h \in Handler, Step(h) PROVE IInv'
  BY <1>2, RehashInv, MintLoginInv, CreateInv, PruneSessionsInv, PruneRevokedInv,
     RotateInv, RevokeInv, BumpInv, DenylistInv, RevokeOneInv, DenyInv, LoadForChangeInv, StorePasswordInv,
     DeleteInv, ZenonT(60) DEF Step
<1>3. CASE UNCHANGED vars
  <2>1. TypeOK'
    BY <1>3, ZenonT(60) DEF IInv, TypeOK, Minted, vars
  <2>2. /\ \A s \in Minted' : TokenInv(s)'
        /\ \A s \in loggedOut' : LogoutInv(s)'
    BY Zenon, <1>3 DEF IInv, TokenInv, LogoutInv, Minted, vars
  <2>3. /\ \A h \in Handler : HandlerInv(h)'
        /\ Distinct' /\ OneLiveLeafPerLogin'
    BY <1>3, ZenonT(60) DEF IInv, HandlerInv, Distinct, OneLiveLeafPerLogin, Minted, vars
  <2> QED
    BY <2>1, <2>2, <2>3, Zenon DEF IInv
<1> QED
  BY <1>1, <1>2, <1>3, FailInv, RestartInv, ExpireInv, Zenon DEF Next

\* IInv holds throughout every behaviour.
THEOREM Invariance == Spec => []IInv
  BY InitInv, InvStep, PTL DEF Spec

\* The variables keep their types: every row, revocation and delivery is of a
\* minted token, and used_at and revoked_at belong to existing rows.
THEOREM TypeCorrect == Spec => []TypeOK
<1>1. IInv => TypeOK
  BY DEF IInv
<1> QED
  BY <1>1, Invariance, PTL

\* No session of a login retired by logout-all, a password change or reuse
\* containment is ever usable again, for any number of concurrent requests.
THEOREM RetiredFamiliesStayDeadHolds == Spec => []RetiredFamiliesStayDead
<1>1. IInv => RetiredFamiliesStayDead
  <2> SUFFICES ASSUME IInv, NEW s \in Minted, tok[s].root \in retired PROVE ~Current(s)
    BY Zenon DEF RetiredFamiliesStayDead, AccessOK, RefreshOK
  <2>1. tok[s].ver < ver[tok[s].owner] /\ tok[s].ver \in Nat /\ ver[tok[s].owner] \in Nat
    BY Zenon DEF IInv, TokenInv, TypeOK, Token
  <2> QED
    BY <2>1 DEF Current
<1> QED
  BY <1>1, Invariance, PTL

\* A login never has two consumable refresh rows, whatever the interleaving of
\* rotations, replays, prunes and revocations.
THEOREM OneLiveLeafPerLoginHolds == Spec => []OneLiveLeafPerLogin
<1>1. IInv => OneLiveLeafPerLogin
  BY Zenon DEF IInv
<1> QED
  BY <1>1, Invariance, PTL

\* A logged-out session stays out, for every cap and every number of users.
THEOREM LoggedOutStaysOutHolds == Spec => []LoggedOutStaysOut
<1>1. IInv => LoggedOutStaysOut
  <2> SUFFICES ASSUME IInv, NEW s \in loggedOut
               PROVE  ~RefreshOK(s) /\ (tok[s].owner \notin overflown => ~AccessOK(s))
    BY Zenon DEF LoggedOutStaysOut
  <2>1. LogoutInv(s) /\ s \in Nat /\ accessExp \in Nat
    BY DEF IInv, TypeOK, Sid
  <2> QED
    BY <2>1 DEF LogoutInv, RefreshOK, AccessOK
<1> QED
  BY <1>1, Invariance, PTL

\* Every request but a login's upgrade and a password change leaves the passwords
\* alone.
LEMMA OthersKeepPasswords ==
  ASSUME NEW h \in Handler, Request(h) \/ Step(h) \/ Fail(h), ~Rehash(h), ~StorePassword(h)
  PROVE  pw' = pw
<1>1. CASE Request(h)
  BY <1>1, Zenon DEF Request, Authenticate, LoadForRefresh, CheckVersion, userVars
<1>2. CASE Fail(h)
  BY <1>2, Zenon DEF Fail, userVars
<1>3. CASE Step(h)
  <2>1. CASE MintLogin(h) \/ CreateRefreshSession(h) \/ PruneSessions(h) \/ PruneRevoked(h)
             \/ RotateRefreshSession(h)
    BY <2>1, Zenon DEF MintLogin, CreateRefreshSession, PruneSessions, PruneRevoked,
       RotateRefreshSession, userVars
  <2>2. CASE RevokeUserSessions(h) \/ BumpTokenVersion(h) \/ IsAccessTokenRevoked(h)
             \/ RevokeUserRefreshSession(h) \/ RevokeAccessToken(h)
    BY <2>2, Zenon DEF RevokeUserSessions, BumpTokenVersion, IsAccessTokenRevoked,
       RevokeUserRefreshSession, RevokeAccessToken, userVars
  <2>3. CASE LoadForChange(h) \/ DeleteUserById(h)
    BY <2>3, Zenon DEF LoadForChange, DeleteUserById, userVars
  <2> QED
    BY <1>3, <2>1, <2>2, <2>3, Zenon DEF Step
<1> QED
  BY <1>1, <1>2, <1>3, Zenon

\* No step brings an old password back.
LEMMA PasswordStep ==
  ASSUME TypeOK, [Next]_vars PROVE \A u \in User : pw'[u] >= pw[u]
<1>1. pw \in [User -> Nat]
  BY Zenon DEF TypeOK
<1>2. CASE pw' = pw
  BY <1>1, <1>2
<1>3. ASSUME NEW h \in Handler, StorePassword(h), pw' # pw
      PROVE  \A u \in User : pw'[u] >= pw[u]
  <2>1. pw' = [pw EXCEPT ![loc[h].user] = pw[loc[h].user] + 1]
    BY <1>3, Zenon DEF StorePassword
  <2> QED
    BY <1>1, <2>1
<1>4. CASE Restart \/ ExpireAccess \/ ExpireRefresh \/ UNCHANGED vars
  <2>1. pw' = pw
    BY <1>4, Zenon DEF Restart, ExpireAccess, ExpireRefresh, userVars, vars
  <2> QED
    BY <1>2, <2>1, Zenon
<1>5. ASSUME NEW h \in Handler, Request(h) \/ Step(h) \/ Fail(h)
      PROVE  pw' = pw \/ StorePassword(h)
  BY <1>5, RehashKeeps, OthersKeepPasswords, Zenon
<1> QED
  BY <1>2, <1>3, <1>4, <1>5, Zenon DEF Next

\* A password that a change has replaced is never in force again, however many
\* logins and changes checked it before.
THEOREM OldPasswordStaysOutHolds == Spec => OldPasswordStaysOut
<1>1. IInv => TypeOK
  BY DEF IInv
<1>2. TypeOK /\ [Next]_vars => [\A u \in User : pw'[u] >= pw[u]]_vars
  BY PasswordStep, Zenon
<1> QED
  BY <1>1, <1>2, Invariance, PTL DEF Spec, OldPasswordStaysOut
==============================================================================
