------------------------------- MODULE Sessions -------------------------------
(***************************************************************************)
(* Login sessions: service/session.go and service/session_issue.go, the    *)
(* credential operations of service/user.go, and the handlers and access   *)
(* middleware that call them.  Handlers run concurrently; each SQL         *)
(* statement or transaction is one step, as SQLite serialises them, and a  *)
(* handler may find the store changed between two of its steps.            *)
(* A session identifier (jti) stands for its access token, its refresh     *)
(* token and the row of o_refresh_sessions.  Identifiers are numbered in   *)
(* the order of their handlers' `now`, which orders issued_at and          *)
(* expires_at.                                                             *)
(***************************************************************************)
EXTENDS Naturals, FiniteSets

CONSTANTS
  User,        \* rows of o_users at the start
  Admin,       \* the administrators among them
  Legacy,      \* those whose stored verifier NeedsRehash
  Handler,     \* concurrent requests
  MaxSid,      \* bound: session identifiers
  SessionCap,  \* refreshSessionCap
  DenyCap,     \* revokedAccessCap
  MaxExpired,  \* bound: tokens that expire
  MaxFaults    \* bound: failed statements and restarts

Sid == 1 .. MaxSid
None == 0
Op == {"login", "refresh", "logout", "logoutAll", "change", "delete"}
Label == {"rehash", "mint", "create", "rotate", "prune", "pruneDeny", "revoke",
          "bump", "denylist", "revokeOne", "deny", "denyOnly", "load", "cas", "erase"}
Token == [owner : User, ver : Nat, root : Sid, pw : Nat]
Idle == [at |-> "idle"]
Local == [at : Label, op : Op, user : User, sid : Sid \cup {None},
          new : Sid \cup {None}, pw : Nat, legacy : BOOLEAN] \cup {Idle}

ASSUME SessionsAssumption ==
  /\ Admin \subseteq User /\ Admin # {} /\ Legacy \subseteq User
  /\ MaxSid \in Nat /\ SessionCap \in Nat /\ DenyCap \in Nat
  /\ MaxExpired \in Nat /\ MaxFaults \in Nat

VARIABLES
  exists,      \* users that still have a row
  ver,         \* token_version
  pw,          \* password, as the number of changes so far
  legacy,      \* users whose verifier NeedsRehash
  tok,         \* claims of every token minted, with its login and its password
  signed,      \* tokens that verify under the key of the running process
  delivered,   \* tokens whose response reached a client
  rows,        \* o_refresh_sessions
  used,        \* rows with used_at
  revoked,     \* rows with revoked_at
  denied,      \* o_revoked_access_tokens
  accessExp,   \* access tokens up to this one have expired
  refreshExp,  \* refresh tokens and rows up to this one have expired
  nxt,         \* next session identifier
  loc,         \* next step and locals of each handler
  retired,     \* logins whose owner's token_version has advanced since
  loggedOut,   \* sessions whose LogoutSession succeeded
  halfOut,     \* sessions of which LogoutSession retired one half only
  overflown,   \* users whose own revocations have exceeded DenyCap
  faults

userVars  == <<exists, ver, pw, legacy>>
tokenVars == <<tok, signed, nxt>>
rowVars   == <<rows, used, revoked>>
clockVars == <<accessExp, refreshExp>>
ghostVars == <<retired, loggedOut, halfOut, overflown>>
vars == <<exists, ver, pw, legacy, tok, signed, delivered, rows, used, revoked, denied,
          accessExp, refreshExp, nxt, loc, retired, loggedOut, halfOut,
          overflown, faults>>

Minted == DOMAIN tok

TypeOK ==
  /\ exists \subseteq User /\ legacy \subseteq User
  /\ ver \in [User -> Nat] /\ pw \in [User -> Nat]
  /\ Minted \subseteq Sid /\ tok \in [Minted -> Token]
  /\ signed \subseteq Minted /\ delivered \subseteq Minted
  /\ rows \subseteq Minted /\ used \subseteq rows /\ revoked \subseteq rows
  /\ denied \subseteq Minted
  /\ nxt \in 1 .. MaxSid + 1
  /\ accessExp \in 0 .. nxt - 1 /\ refreshExp \in 0 .. accessExp
  /\ loc \in [Handler -> Local]
  /\ retired \subseteq Minted /\ loggedOut \subseteq Minted /\ halfOut \subseteq Minted
  /\ overflown \subseteq User
  /\ faults \in 0 .. MaxFaults

Init ==
  /\ exists = User /\ legacy = Legacy
  /\ ver = [u \in User |-> 0] /\ pw = [u \in User |-> 0]
  /\ tok = [s \in {} |-> 0]
  /\ signed = {} /\ delivered = {}
  /\ rows = {} /\ used = {} /\ revoked = {} /\ denied = {}
  /\ accessExp = 0 /\ refreshExp = 0 /\ nxt = 1
  /\ loc = [h \in Handler |-> Idle]
  /\ retired = {} /\ loggedOut = {} /\ halfOut = {} /\ overflown = {}
  /\ faults = 0

-----------------------------------------------------------------------------
(* Tokens *)

\* The claims still match the user's row.
Current(s) == tok[s].owner \in exists /\ tok[s].ver = ver[tok[s].owner]

\* The access token would pass the middleware; the refresh token would rotate.
AccessOK(s) ==
  /\ s \in signed /\ s > accessExp /\ Current(s)
  /\ s \notin denied

RefreshOK(s) ==
  /\ s \in signed /\ s > refreshExp /\ Current(s)
  /\ s \in rows \ (used \cup revoked)

OwnedBy(u, S) == {s \in S : tok[s].owner = u}

\* MintAccessToken and MintRefreshToken: both carry the one identifier.
Mint(s, u, root, p) ==
  /\ tok' = [x \in Minted \cup {s} |->
               IF x = s THEN [owner |-> u, ver |-> ver[u], root |-> root, pw |-> p]
               ELSE tok[x]]
  /\ signed' = signed \cup {s}

-----------------------------------------------------------------------------
(* Control of a handler *)

Goto(h, label) ==
  loc' = [loc EXCEPT ![h] = IF label = "idle" THEN Idle ELSE [loc[h] EXCEPT !.at = label]]

Start(h, label, o, u, s, new) ==
  loc' = [loc EXCEPT ![h] = [at |-> label, op |-> o, user |-> u, sid |-> s, new |-> new,
                             pw |-> IF o = "login" THEN pw[u] ELSE 0, legacy |-> FALSE]]

\* What follows revokeUserSessions and BumpTokenVersion in each caller.
AfterRevoke(h) == IF loc[h].op = "refresh" THEN "bump" ELSE "idle"
AfterBump(h) == IF loc[h].op = "logoutAll" THEN "revoke" ELSE "idle"

-----------------------------------------------------------------------------
(* PostUserLogin *)

\* AuthenticateUser loads the row and the password matches its verifier; a
\* password that does not match changes nothing here (see LoginThrottle).
Authenticate(h, u) ==
  /\ loc[h].at = "idle" /\ u \in exists /\ nxt \in Sid
  /\ Start(h, IF u \in legacy THEN "rehash" ELSE "mint", "login", u, None, nxt)
  /\ nxt' = nxt + 1
  /\ UNCHANGED <<userVars, tok, signed, delivered, rowVars, denied, clockVars, ghostVars, faults>>

\* Mutant: the upgrade is stored by the user's id alone.
RehashById(h) ==
  /\ loc[h].at = "rehash"
  /\ LET u == loc[h].user
         same == u \in exists
     IN  /\ pw' = IF same THEN [pw EXCEPT ![u] = loc[h].pw] ELSE pw
         /\ legacy' = IF same THEN legacy \ {u} ELSE legacy
         /\ Goto(h, IF same THEN "mint" ELSE "idle")
  /\ UNCHANGED <<exists, ver, tokenVars, delivered, rowVars, denied, clockVars,
                 ghostVars, faults>>

\* A verifier of the password that was checked replaces the one it was checked
\* against; if that has changed meanwhile, the password is checked again against
\* the current one.
Rehash(h) ==
  /\ loc[h].at = "rehash"
  /\ LET u == loc[h].user
         same == u \in exists /\ pw[u] = loc[h].pw
     IN  /\ pw' = IF same THEN [pw EXCEPT ![u] = loc[h].pw] ELSE pw
         /\ legacy' = IF same THEN legacy \ {u} ELSE legacy
         /\ Goto(h, IF same THEN "mint" ELSE "idle")
  /\ UNCHANGED <<exists, ver, tokenVars, delivered, rowVars, denied, clockVars,
                 ghostVars, faults>>

\* IssueLoginSession loads the row again and mints from it.
MintLogin(h) ==
  /\ loc[h].at = "mint"
  /\ LET u == loc[h].user
         s == loc[h].new
     IN  IF u \in exists
         THEN Mint(s, u, s, loc[h].pw) /\ Goto(h, "create")
         ELSE UNCHANGED <<tok, signed>> /\ Goto(h, "idle")
  /\ UNCHANGED <<userVars, nxt, delivered, rowVars, denied, clockVars, ghostVars, faults>>

CreateRefreshSession(h) ==
  /\ loc[h].at = "create"
  /\ rows' = rows \cup {loc[h].new}
  /\ Goto(h, "prune")
  /\ UNCHANGED <<userVars, tokenVars, delivered, used, revoked, denied, clockVars,
                 ghostVars, faults>>

\* Enough newer rows of the same user exist for this one to be beyond the cap.
OverCap(S, s, cap) ==
  Cardinality({t \in S : t > s /\ tok[t].owner = tok[s].owner}) >= cap

\* PruneAuthState, one table at a time.  A row that has expired is older than
\* every live one, so deleting it first does not change which rows the cap keeps.
PruneSessions(h) ==
  /\ loc[h].at = "prune"
  /\ LET live == {s \in rows : s > refreshExp}
         kept == {s \in live : ~OverCap(live, s, SessionCap)}
     IN  rows' = kept /\ used' = used \cap kept /\ revoked' = revoked \cap kept
  /\ Goto(h, "pruneDeny")
  /\ UNCHANGED <<userVars, tokenVars, delivered, denied, clockVars, ghostVars, faults>>

\* The denylist, then the response, which the client may not receive.
PruneRevoked(h) ==
  /\ loc[h].at = "pruneDeny"
  /\ LET deny == {s \in denied : s > accessExp}
     IN  /\ denied' = {s \in deny : ~OverCap(deny, s, DenyCap)}
         /\ overflown' = overflown \cup {u \in User : Cardinality(OwnedBy(u, deny)) > DenyCap}
  /\ delivered' \in {delivered, delivered \cup {loc[h].new}}
  /\ Goto(h, "idle")
  /\ UNCHANGED <<userVars, tokenVars, rowVars, clockVars, retired, loggedOut, halfOut, faults>>

-----------------------------------------------------------------------------
(* PostUserRefreshToken *)

\* IssueRefreshedTokens up to the rotation: claims checked against the row, the
\* replacement minted with the version just read.
LoadForRefresh(h, s) ==
  /\ loc[h].at = "idle" /\ nxt \in Sid
  /\ s \in delivered \cap signed /\ s > refreshExp /\ Current(s)
  /\ LET u == tok[s].owner
     IN  Start(h, "rotate", "refresh", u, s, nxt) /\ Mint(nxt, u, tok[s].root, tok[s].pw)
  /\ nxt' = nxt + 1
  /\ UNCHANGED <<userVars, delivered, rowVars, denied, clockVars, ghostVars, faults>>

\* Mutant: the compare-and-swap on used_at is missing.
ConsumableUnguarded(s) == s \in rows \ revoked

Consumable(s) == s \in rows \ (revoked \cup used)

\* The transaction of RotateRefreshSession.
RotateRefreshSession(h) ==
  /\ loc[h].at = "rotate"
  /\ LET s == loc[h].sid
     IN  IF Consumable(s)
         THEN /\ used' = used \cup {s} /\ rows' = rows \cup {loc[h].new}
              /\ Goto(h, "prune")
         ELSE /\ UNCHANGED <<rows, used>>
              /\ Goto(h, IF s \in rows \ revoked THEN "revoke" ELSE "idle")
  /\ UNCHANGED <<userVars, tokenVars, delivered, revoked, denied, clockVars,
                 ghostVars, faults>>

-----------------------------------------------------------------------------
(* revokeUserSessions and BumpTokenVersion, in the order each caller runs them *)

RevokeUserSessions(h) ==
  /\ loc[h].at = "revoke"
  /\ revoked' = revoked \cup OwnedBy(loc[h].user, rows)
  /\ Goto(h, AfterRevoke(h))
  /\ UNCHANGED <<userVars, tokenVars, delivered, rows, used, denied, clockVars,
                 ghostVars, faults>>

\* Mutant: the reuse path leaves the credential generation alone.
AdvanceExceptReuse(h) ==
  /\ ver' = IF loc[h].op = "refresh" THEN ver
            ELSE [ver EXCEPT ![loc[h].user] = ver[loc[h].user] + 1]
  /\ retired' = retired \cup {s \in OwnedBy(loc[h].user, Minted) : tok[s].root = s}

\* The version advances, and with it every login of the user is retired.
Advance(h) ==
  /\ ver' = [ver EXCEPT ![loc[h].user] = ver[loc[h].user] + 1]
  /\ retired' = retired \cup {s \in OwnedBy(loc[h].user, Minted) : tok[s].root = s}

BumpTokenVersion(h) ==
  /\ loc[h].at = "bump"
  /\ IF loc[h].user \in exists
     THEN Advance(h) /\ Goto(h, AfterBump(h))
     ELSE UNCHANGED <<ver, retired>> /\ Goto(h, "idle")
  /\ UNCHANGED <<exists, pw, legacy, tokenVars, delivered, rowVars, denied, clockVars,
                 loggedOut, halfOut, overflown, faults>>

-----------------------------------------------------------------------------
(* Protected routes: accessTokenMiddleware, then the handler *)

\* The claims are checked against the row; a deletion names any user, the other
\* operations the token's owner.
CheckVersion(h, s, o, u) ==
  /\ loc[h].at = "idle"
  /\ s \in delivered \cap signed /\ s > accessExp /\ Current(s)
  /\ o # "delete" => u = tok[s].owner
  /\ Start(h, "denylist", o, u, s, None)
  /\ UNCHANGED <<userVars, tokenVars, delivered, rowVars, denied, clockVars, ghostVars, faults>>

HandlerOf(o) ==
  CASE o = "logout" -> "revokeOne" [] o = "logoutAll" -> "bump"
    [] o = "change" -> "load"      [] o = "delete" -> "erase"

IsAccessTokenRevoked(h) ==
  /\ loc[h].at = "denylist"
  /\ Goto(h, IF loc[h].sid \in denied THEN "idle" ELSE HandlerOf(loc[h].op))
  /\ UNCHANGED <<userVars, tokenVars, delivered, rowVars, denied, clockVars, ghostVars, faults>>

\* Mutant: a revocation is recorded for a row that has been pruned.
RevokeMissingSession(h) ==
  /\ loc[h].at = "revokeOne"
  /\ revoked' = revoked \cup {loc[h].sid}
  /\ Goto(h, "deny")
  /\ UNCHANGED <<userVars, tokenVars, delivered, rows, used, denied, clockVars,
                 ghostVars, faults>>

\* LogoutSession: the row first, then the access token.
RevokeUserRefreshSession(h) ==
  /\ loc[h].at = "revokeOne"
  /\ revoked' = revoked \cup ({loc[h].sid} \cap rows)
  /\ Goto(h, "deny")
  /\ UNCHANGED <<userVars, tokenVars, delivered, rows, used, denied, clockVars,
                 ghostVars, faults>>

RevokeAccessToken(h) ==
  /\ loc[h].at \in {"deny", "denyOnly"}
  /\ denied' = denied \cup {loc[h].sid}
  /\ IF loc[h].at = "deny" THEN loggedOut' = loggedOut \cup {loc[h].sid} /\ UNCHANGED halfOut
     ELSE halfOut' = halfOut \cup {loc[h].sid} /\ UNCHANGED loggedOut
  /\ Goto(h, "idle")
  /\ UNCHANGED <<userVars, tokenVars, delivered, rowVars, clockVars, retired,
                 overflown, faults>>

\* ChangeUserPassword loads the verifier and the old password matches it.
LoadForChange(h) ==
  /\ loc[h].at = "load"
  /\ LET u == loc[h].user
     IN  IF u \in exists
         THEN loc' = [loc EXCEPT ![h].at = "cas", ![h].pw = pw[u], ![h].legacy = u \in legacy]
         ELSE Goto(h, "idle")
  /\ UNCHANGED <<userVars, tokenVars, delivered, rowVars, denied, clockVars, ghostVars, faults>>

\* The verifier it stores must replace the one it checked; the version advances
\* in the same statement.
StorePassword(h) ==
  /\ loc[h].at = "cas"
  /\ LET u == loc[h].user
     IN  IF u \in exists /\ pw[u] = loc[h].pw /\ (u \in legacy) = loc[h].legacy
         THEN /\ pw' = [pw EXCEPT ![u] = pw[u] + 1] /\ legacy' = legacy \ {u}
              /\ Advance(h)
              /\ Goto(h, "revoke")
         ELSE UNCHANGED <<pw, legacy, ver, retired>> /\ Goto(h, "idle")
  /\ UNCHANGED <<exists, tokenVars, delivered, rowVars, denied, clockVars,
                 loggedOut, halfOut, overflown, faults>>

\* The transaction of DeleteUserById keeps the last administrator.
DeleteUserById(h) ==
  /\ loc[h].at = "erase"
  /\ LET u == loc[h].user
     IN  IF u \in exists /\ (u \in Admin => exists \cap Admin # {u})
         THEN exists' = exists \ {u} /\ Goto(h, "revoke")
         ELSE UNCHANGED exists /\ Goto(h, "idle")
  /\ UNCHANGED <<ver, pw, legacy, tokenVars, delivered, rowVars, denied, clockVars,
                 ghostVars, faults>>

-----------------------------------------------------------------------------
(* Failed statements, restarts and time *)

Fault == faults < MaxFaults /\ faults' = faults + 1

\* Mutant: LogoutSession reports only the error of its second half.
OnErrorSwallowed(h) ==
  CASE loc[h].at = "revoke"    -> AfterRevoke(h)
    [] loc[h].at = "revokeOne" -> "deny"
    [] loc[h].at = "prune"     -> "pruneDeny"
    [] OTHER                   -> "idle"

\* Where a handler goes on when the store refuses a statement: best-effort
\* writes are skipped, reuse containment tries its second half, a logout its
\* other half, and every other error is returned.
OnError(h) ==
  CASE loc[h].at = "revoke"    -> AfterRevoke(h)
    [] loc[h].at = "revokeOne" -> "denyOnly"
    [] loc[h].at = "prune"     -> "pruneDeny"
    [] OTHER                   -> "idle"

\* A handler whose prune fails still answers.
Fail(h) ==
  /\ Fault /\ loc[h].at # "idle"
  /\ Goto(h, OnError(h))
  /\ delivered' = IF loc[h].at = "pruneDeny" THEN delivered \cup {loc[h].new} ELSE delivered
  /\ halfOut' = IF loc[h].at = "deny" THEN halfOut \cup {loc[h].sid} ELSE halfOut
  /\ UNCHANGED <<userVars, tokenVars, rowVars, denied, clockVars, retired, loggedOut,
                 overflown>>

\* The signing key lives in memory only.
Restart ==
  /\ Fault
  /\ loc' = [h \in Handler |-> Idle]
  /\ signed' = {}
  /\ UNCHANGED <<userVars, tok, nxt, delivered, rowVars, denied, clockVars, ghostVars>>

\* A request takes less than the lifetime of the token it mints.
InFlight(s) == \E h \in Handler : loc[h].at # "idle" /\ loc[h].new = s

ExpireAccess ==
  /\ accessExp < MaxExpired /\ accessExp + 1 < nxt /\ ~InFlight(accessExp + 1)
  /\ accessExp' = accessExp + 1
  /\ UNCHANGED <<userVars, tokenVars, delivered, rowVars, denied, refreshExp, loc,
                 ghostVars, faults>>

\* RefreshTokenLifetime exceeds AccessTokenLifetime.
ExpireRefresh ==
  /\ refreshExp < accessExp
  /\ refreshExp' = refreshExp + 1
  /\ UNCHANGED <<userVars, tokenVars, delivered, rowVars, denied, accessExp, loc,
                 ghostVars, faults>>

-----------------------------------------------------------------------------
Request(h) ==
  \/ \E u \in User : Authenticate(h, u)
  \/ \E s \in delivered : LoadForRefresh(h, s)
  \/ \E s \in delivered, o \in Op \ {"login", "refresh"}, u \in User : CheckVersion(h, s, o, u)

Step(h) ==
  \/ Rehash(h) \/ MintLogin(h) \/ CreateRefreshSession(h)
  \/ PruneSessions(h) \/ PruneRevoked(h) \/ RotateRefreshSession(h)
  \/ RevokeUserSessions(h) \/ BumpTokenVersion(h)
  \/ IsAccessTokenRevoked(h) \/ RevokeUserRefreshSession(h) \/ RevokeAccessToken(h)
  \/ LoadForChange(h) \/ StorePassword(h) \/ DeleteUserById(h)

Next ==
  \/ \E h \in Handler : Request(h) \/ Step(h) \/ Fail(h)
  \/ Restart \/ ExpireAccess \/ ExpireRefresh

Spec == Init /\ [][Next]_vars

-----------------------------------------------------------------------------
(* Properties *)

\* Logout-all, a password change and reuse containment end every session that
\* descends from an earlier login, access and refresh token alike, including
\* the replacement of a refresh that was under way at the time.
RetiredFamiliesStayDead ==
  \A s \in Minted : tok[s].root \in retired => ~AccessOK(s) /\ ~RefreshOK(s)

\* A login has at most one refresh token that can still be consumed, however
\* often its tokens are presented, concurrently or again.
OneLiveLeafPerLogin ==
  \A s, t \in rows \ used : tok[s].root = tok[t].root => s = t

\* After a successful logout neither token of the session works, unless the
\* user's own revocations have overflown the denylist.
LoggedOutStaysOut ==
  \A s \in loggedOut :
    ~RefreshOK(s) /\ (tok[s].owner \notin overflown => ~AccessOK(s))

\* A password that was replaced does not come back: neither a login that
\* checked it before the change and stores its upgraded verifier after it, nor
\* a second change that checked it too, undoes the change.
OldPasswordStaysOut == [][\A u \in User : pw'[u] >= pw[u]]_vars

\* "A password change retires every session minted under the old verifier."
OldVerifierRetired ==
  \A s \in delivered : AccessOK(s) \/ RefreshOK(s) => tok[s].pw = pw[tok[s].owner]

\* "Consumed-but-live sessions are retained because a replay must still be
\* recognized as reuse": while a descendant's row exists, so does the row of
\* every ancestor whose token still verifies.
ConsumedRowsRetained ==
  \A s \in delivered, t \in rows :
    /\ s < t /\ tok[s].root = tok[t].root
    /\ s \in signed /\ s > refreshExp /\ Current(s)
    => s \in rows

\* "Both halves are best-effort; either one alone still fails closed."
HalfLogoutFailsClosed ==
  \A s \in halfOut : ~AccessOK(s) /\ ~RefreshOK(s)
==============================================================================
