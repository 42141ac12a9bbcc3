-------------------------- MODULE SessionsInvariant --------------------------
(***************************************************************************)
(* The inductive invariant of Sessions, the facts about its building       *)
(* blocks that the proofs of the actions share, and the actions of a       *)
(* login, of refresh, of protected routes and logout, of revocation and of *)
(* a version advance.                                                      *)
(***************************************************************************)
EXTENDS Sessions, TLAPS

Busy == [at : Label, op : Op, user : User, sid : Sid \cup {None},
         new : Sid \cup {None}, pw : Nat, legacy : BOOLEAN]

\* A token never runs ahead of its owner's version, belongs to a minted login of
\* the same owner, and is behind the version once that login is retired.
TokenInv(s) ==
  /\ s < nxt
  /\ tok[s].ver <= ver[tok[s].owner]
  /\ tok[s].root \in Minted
  /\ tok[tok[s].root].owner = tok[s].owner /\ tok[tok[s].root].root = tok[s].root
  /\ tok[s].root \in retired => tok[s].ver < ver[tok[s].owner]

\* What a request under way knows of the store.
HandlerInv(h) ==
  loc[h] # Idle =>
    /\ loc[h].new < nxt
    /\ loc[h].sid # None => loc[h].sid \in delivered
    /\ loc[h].at \in {"rehash", "mint"} => loc[h].new # None /\ loc[h].new \notin Minted
    /\ loc[h].at \in {"create", "rotate", "prune", "pruneDeny"} => loc[h].new \in Minted
    /\ loc[h].at \in {"create", "rotate"} => loc[h].new \notin rows \cup delivered
    /\ loc[h].at = "create" => tok[loc[h].new].root = loc[h].new
    /\ loc[h].at = "create" =>
         \A t \in Minted : tok[t].root = loc[h].new => t = loc[h].new
    /\ loc[h].at = "rotate" =>
         loc[h].sid # None /\ tok[loc[h].new].root = tok[loc[h].sid].root
    /\ loc[h].at \in {"denylist", "revokeOne", "deny", "denyOnly"} => loc[h].sid # None
    /\ loc[h].at = "denylist" => loc[h].op \in Op \ {"login", "refresh"}
    /\ loc[h].at = "deny" => loc[h].sid \notin rows \ revoked

\* No two requests hold the same new identifier.
Distinct ==
  \A g, h \in Handler :
    g # h /\ loc[g] # Idle /\ loc[h] # Idle /\ loc[g].new = loc[h].new => loc[h].new = None

\* How a logged-out session stays unusable.
LogoutInv(s) ==
  /\ s \in delivered
  /\ s \notin rows \ revoked
  /\ s \in denied \/ s <= accessExp \/ tok[s].owner \in overflown

IInv ==
  /\ TypeOK
  /\ \A s \in Minted : TokenInv(s)
  /\ \A h \in Handler : HandlerInv(h)
  /\ Distinct
  /\ OneLiveLeafPerLogin
  /\ \A s \in loggedOut : LogoutInv(s)

-----------------------------------------------------------------------------
(* Control of a handler *)

\* Only handler h moves.
OnlyMoves(h) ==
  loc' \in [Handler -> Local] /\ \A g \in Handler : g # h => loc'[g] = loc[g]

\* Handler h moves to a label, or ends, with its locals as they were.
MovesTo(h, label) ==
  /\ OnlyMoves(h)
  /\ label = "idle" => loc'[h] = Idle
  /\ label # "idle" => /\ loc'[h] \in Busy /\ loc'[h].at = label
                       /\ loc'[h].sid = loc[h].sid /\ loc'[h].new = loc[h].new

\* Labels that ask nothing of the store.
Quiet == {"revoke", "bump", "load", "cas", "erase", "idle"}

\* A request under way holds the number of a token, or none.
LEMMA BusyIds ==
  ASSUME NEW l \in Local, l # Idle
  PROVE  l.new \in Nat
  BY SessionsAssumption DEF Local, Sid, None

\* No version is behind itself.
LEMMA NotBelow == \A n \in Nat : ~(n < n)
  OBVIOUS

\* What is below a number is below its successor.
LEMMA Below == \A m, n \in Nat : m < n => m < n + 1 /\ m # n
  OBVIOUS

\* A number is below its successor.
LEMMA Successor == \A n \in Nat : n + 1 \in Nat /\ n < n + 1 /\ n <= n + 1
  OBVIOUS

\* Once an identifier is taken, the next one and the expiries are in range.
LEMMA NextInRange ==
  ASSUME NEW n \in Sid, NEW a \in 0 .. n - 1
  PROVE  n + 1 \in 1 .. MaxSid + 1 /\ a \in 0 .. (n + 1) - 1
  BY SessionsAssumption DEF Sid

\* A token number is a positive number.
LEMMA SidFacts ==
  ASSUME NEW s \in Sid
  PROVE  s # None /\ s \in Nat /\ ~(s < s)
  BY SessionsAssumption DEF Sid, None

\* A handler is idle or holds a full set of locals.
LEMMA LocalCases ==
  ASSUME TypeOK, NEW h \in Handler
  PROVE  loc[h].at # "idle" <=> loc[h] \in Busy /\ loc[h] # Idle
<1>1. loc[h] \in Busy \/ loc[h] = Idle
  BY Zenon DEF TypeOK, Local, Busy
<1>2. loc[h] \in Busy => loc[h].at \in Label
  BY Zenon DEF Busy
<1> QED
  BY <1>1, <1>2 DEF Idle, Label

\* Goto moves its own handler and leaves the locals alone.
LEMMA GotoFacts ==
  ASSUME TypeOK, NEW h \in Handler, loc[h].at # "idle",
         NEW label \in Label \cup {"idle"}, Goto(h, label)
  PROVE  MovesTo(h, label)
<1>1. loc[h] \in Busy
  BY LocalCases
<1>2. label # "idle" => [loc[h] EXCEPT !.at = label] \in Busy
  BY <1>1, Zenon DEF Busy
<1>3. loc' \in [Handler -> Local]
  BY <1>2 DEF Goto, TypeOK, Local, Busy
<1> QED
  BY <1>1, <1>2, <1>3 DEF Goto, TypeOK, Busy, MovesTo, OnlyMoves

\* A request under way is not idle, and the invariant speaks of it.
LEMMA HandlerFacts ==
  ASSUME IInv, NEW h \in Handler, loc[h].at # "idle"
  PROVE  TypeOK /\ loc[h] \in Busy /\ loc[h] # Idle /\ HandlerInv(h) /\ loc[h].user \in User
<1>1. TypeOK /\ HandlerInv(h)
  BY DEF IInv
<1>2. loc[h] \in Busy /\ loc[h] # Idle
  BY <1>1, LocalCases, Zenon
<1> QED
  BY <1>1, <1>2, Zenon DEF Busy

\* Start gives an idle handler its locals.
LEMMA StartFacts ==
  ASSUME TypeOK, NEW h \in Handler, NEW label \in Label, NEW o \in Op, NEW u \in User,
         NEW s \in Sid \cup {None}, NEW new \in Sid \cup {None}, Start(h, label, o, u, s, new)
  PROVE  /\ OnlyMoves(h)
         /\ loc'[h] \in Busy /\ loc'[h].at = label /\ loc'[h].op = o
         /\ loc'[h].user = u /\ loc'[h].sid = s /\ loc'[h].new = new
<1> DEFINE r == [at |-> label, op |-> o, user |-> u, sid |-> s, new |-> new,
                 pw |-> IF o = "login" THEN pw[u] ELSE 0, legacy |-> FALSE]
<1>1. r \in Busy
  BY Zenon DEF Busy, TypeOK
<1>2. loc' = [loc EXCEPT ![h] = r]
  BY Zenon DEF Start
<1> HIDE DEF r
<1>3. OnlyMoves(h) /\ loc'[h] = r
  BY <1>1, <1>2, Zenon DEF TypeOK, Local, Busy, OnlyMoves
<1> QED
  BY <1>1, <1>3 DEF r

-----------------------------------------------------------------------------
(* What a step leaves alone *)

\* The requests that do not move keep their invariant while tokens and
\* deliveries stay and rows are only removed, consumed or revoked.
LEMMA OthersKeep ==
  ASSUME IInv, NEW h \in Handler, OnlyMoves(h), UNCHANGED <<tok, nxt, delivered>>,
         rows' \subseteq rows, rows' \ revoked' \subseteq rows \ revoked
  PROVE  \A g \in Handler : g # h => HandlerInv(g)'
<1> SUFFICES ASSUME NEW g \in Handler, g # h PROVE HandlerInv(g)'
  OBVIOUS
<1>1. HandlerInv(g) /\ loc'[g] = loc[g]
  BY Zenon DEF IInv, OnlyMoves
<1> QED
  BY Zenon, <1>1 DEF HandlerInv, Minted

\* A request that ends or keeps its new identifier keeps the others distinct.
LEMMA DistinctKeep ==
  ASSUME IInv, NEW h \in Handler, loc[h].at # "idle",
         OnlyMoves(h), loc'[h] = Idle \/ loc'[h].new = loc[h].new
  PROVE  Distinct'
<1>1. Distinct /\ loc[h] # Idle
  BY HandlerFacts DEF IInv
<1> QED
  BY <1>1 DEF Distinct, OnlyMoves

\* A request that takes an identifier no other has keeps them distinct.
LEMMA DistinctFresh ==
  ASSUME Distinct, NEW h \in Handler, OnlyMoves(h),
         \A g \in Handler : loc[g] # Idle => loc[g].new # loc'[h].new
  PROVE  Distinct'
<1> SUFFICES ASSUME NEW f \in Handler, NEW g \in Handler, f # g,
                    loc'[f] # Idle, loc'[g] # Idle, loc'[f].new = loc'[g].new
             PROVE  loc'[g].new = None
  BY Zenon DEF Distinct
<1>1. f # h /\ g # h
  BY Zenon DEF OnlyMoves
<1> QED
  BY <1>1, Zenon DEF Distinct, OnlyMoves

\* Minting changes no token there is, hence neither rows nor logouts.
LEMMA MintKeeps ==
  ASSUME IInv, \A x \in Minted : tok'[x] = tok[x],
         UNCHANGED <<rows, used, revoked, delivered, denied, accessExp, loggedOut, overflown>>
  PROVE  OneLiveLeafPerLogin' /\ \A x \in loggedOut' : LogoutInv(x)'
<1>1. rows \subseteq Minted /\ loggedOut \subseteq Minted
  BY Zenon DEF IInv, TypeOK
<1>2. OneLiveLeafPerLogin'
  <2>1. \A t, x \in rows \ used : tok[t].root = tok[x].root => t = x
    BY Zenon DEF IInv, OneLiveLeafPerLogin
  <2>2. \A t \in rows : tok'[t] = tok[t]
    BY <1>1, Zenon
  <2>3. \A t, x \in rows \ used : tok'[t].root = tok'[x].root => t = x
    BY <2>1, <2>2, Zenon
  <2> QED
    BY <2>3, Zenon DEF OneLiveLeafPerLogin
<1>3. ASSUME NEW x \in loggedOut PROVE LogoutInv(x)'
  <2>1. LogoutInv(x) /\ tok'[x] = tok[x]
    BY <1>1, Zenon DEF IInv
  <2> QED
    BY <2>1, Zenon DEF LogoutInv
<1> QED
  BY <1>2, <1>3, Zenon

\* Consumable rows can only disappear.
LEMMA LeavesKeep ==
  ASSUME IInv, UNCHANGED tok, rows' \ used' \subseteq rows \ used
  PROVE  OneLiveLeafPerLogin'
<1>1. OneLiveLeafPerLogin
  BY Zenon DEF IInv
<1> QED
  BY <1>1 DEF OneLiveLeafPerLogin

\* Tokens keep their invariant while no token is minted and no version advances.
LEMMA TokensKeep ==
  ASSUME IInv, UNCHANGED <<tok, nxt, ver, retired>>
  PROVE  \A s \in Minted' : TokenInv(s)'
<1>1. \A s \in Minted : TokenInv(s)
  BY Zenon DEF IInv
<1> QED
  BY <1>1 DEF TokenInv, Minted

\* Logged-out sessions stay unusable while the denylist only grows.
LEMMA LogoutKeep ==
  ASSUME IInv, UNCHANGED <<tok, accessExp, overflown, loggedOut>>, delivered \subseteq delivered',
         denied \subseteq denied', rows' \ revoked' \subseteq rows \ revoked
  PROVE  \A s \in loggedOut' : LogoutInv(s)'
<1>1. \A s \in loggedOut : LogoutInv(s)
  BY Zenon DEF IInv
<1> QED
  BY <1>1 DEF LogoutInv

\* A step to a quiet label, or the end of a request.
LEMMA QuietStep ==
  ASSUME IInv, NEW h \in Handler, loc[h].at # "idle", NEW label \in Quiet, MovesTo(h, label),
         UNCHANGED <<tok, nxt, delivered>>,
         rows' \subseteq rows, rows' \ revoked' \subseteq rows \ revoked
  PROVE  (\A g \in Handler : HandlerInv(g)') /\ Distinct'
<1>1. HandlerInv(h) /\ loc[h] # Idle
  BY HandlerFacts, Zenon
<1>2. HandlerInv(h)'
  BY Zenon, <1>1 DEF HandlerInv, MovesTo, Quiet
<1>3. \A g \in Handler : g # h => HandlerInv(g)'
  BY OthersKeep, Zenon DEF MovesTo
<1>4. Distinct'
  BY DistinctKeep, Zenon DEF MovesTo
<1> QED
  BY <1>2, <1>3, <1>4, Zenon

-----------------------------------------------------------------------------
(* Tokens and the denylist *)

\* Minting a fresh identifier for a live version keeps the token invariant.
LEMMA MintFacts ==
  ASSUME IInv, NEW s \in Sid, s \notin Minted, NEW u \in User, NEW root \in Sid,
         NEW p \in Nat, Mint(s, u, root, p), nxt' \in Nat, nxt <= nxt', s < nxt',
         root = s \/ (/\ root \in Minted /\ root \notin retired
                      /\ tok[root].owner = u /\ tok[root].root = root),
         UNCHANGED <<ver, retired>>
  PROVE  /\ Minted' = Minted \cup {s} /\ tok'[s].owner = u /\ tok'[s].root = root
         /\ \A x \in Minted : tok'[x] = tok[x]
         /\ tok' \in [Minted' -> Token] /\ signed' = signed \cup {s}
         /\ \A x \in Minted' : TokenInv(x)'
<1>1. TypeOK
  BY Zenon DEF IInv
<1>2. /\ Minted' = Minted \cup {s}
      /\ tok'[s] = [owner |-> u, ver |-> ver[u], root |-> root, pw |-> p]
      /\ \A x \in Minted : tok'[x] = tok[x]
      /\ signed' = signed \cup {s}
  BY Zenon DEF Mint, Minted
<1>3. tok' \in [Minted' -> Token]
  <2>1. tok'[s] \in Token
    BY <1>1, <1>2 DEF TypeOK, Token
  <2>2. \A x \in Minted : tok'[x] \in Token
    BY <1>1, <1>2, Zenon DEF TypeOK
  <2> QED
    BY <1>2, <2>1, <2>2, Zenon DEF Mint, Minted
<1>4. ASSUME NEW x \in Minted PROVE TokenInv(x)'
  <2>1. TokenInv(x) /\ x \in Nat /\ nxt \in Nat
    BY <1>1 DEF IInv, TypeOK, Sid
  <2>2. tok'[x] = tok[x] /\ tok'[tok[x].root] = tok[tok[x].root] /\ tok[x].root \in Minted'
    BY Zenon, <1>2, <2>1 DEF TokenInv
  <2>3. x < nxt'
    BY <2>1 DEF TokenInv
  <2> QED
    BY <2>1, <2>2, <2>3, Zenon DEF TokenInv
<1>5. TokenInv(s)'
  <2>1. ver[u] \in Nat /\ retired \subseteq Minted
    BY <1>1 DEF TypeOK
  <2> QED
    BY <1>2, <2>1 DEF TokenInv
<1> QED
  BY <1>2, <1>3, <1>4, <1>5

\* Advance leaves every token of the user behind the version, and the tokens of
\* the others where they were.
LEMMA AdvanceFacts ==
  ASSUME IInv, NEW h \in Handler, loc[h].user \in User, Advance(h), UNCHANGED <<tok, nxt>>
  PROVE  /\ ver' \in [User -> Nat] /\ retired' \subseteq Minted
         /\ \A s \in Minted' : TokenInv(s)'
<1> DEFINE u == loc[h].user
<1>1. TypeOK /\ u \in User /\ ver' = [ver EXCEPT ![u] = ver[u] + 1]
      /\ retired' = retired \cup {s \in Minted : tok[s].owner = u /\ tok[s].root = s}
  BY Zenon DEF IInv, Advance, OwnedBy
<1> HIDE DEF u
<1>2. ver' \in [User -> Nat] /\ retired' \subseteq Minted
  BY <1>1 DEF TypeOK
<1>3. ASSUME NEW s \in Minted PROVE TokenInv(s)'
  <2>1. TokenInv(s) /\ tok[s].owner \in User /\ tok[s].ver \in Nat /\ ver[tok[s].owner] \in Nat
    BY <1>1, Zenon DEF IInv, TypeOK, Token
  <2>2. CASE tok[s].owner = u
    <3>1. ver'[tok[s].owner] = ver[tok[s].owner] + 1
      BY <1>1, <2>1, <2>2, Zenon DEF TypeOK
    <3> QED
      BY <2>1, <3>1 DEF TokenInv, Minted
  <2>3. CASE tok[s].owner # u
    <3>1. ver'[tok[s].owner] = ver[tok[s].owner] /\ (tok[s].root \in retired' => tok[s].root \in retired)
      BY <1>1, <2>1, <2>3, Zenon DEF TypeOK, TokenInv
    <3> QED
      BY <2>1, <3>1, Zenon DEF TokenInv, Minted
  <2> QED
    BY <2>2, <2>3, Zenon
<1> QED
  BY <1>2, <1>3, Zenon DEF Minted

-----------------------------------------------------------------------------
(* Login *)

\* A login reserves an identifier no token and no other request has.
LEMMA AuthenticateInv ==
  ASSUME IInv, NEW h \in Handler, NEW u \in User, Authenticate(h, u) PROVE IInv'
<1> DEFINE label == IF u \in legacy THEN "rehash" ELSE "mint"
<1>1. TypeOK /\ nxt \in Sid /\ nxt' = nxt + 1 /\ Start(h, label, "login", u, None, nxt)
  BY Zenon DEF IInv, Authenticate
<1>2. UNCHANGED <<exists, ver, pw, legacy, tok, signed, delivered, rows, used, revoked,
                  denied, accessExp, refreshExp, retired, loggedOut, halfOut, overflown, faults>>
  BY Zenon DEF Authenticate, userVars, rowVars, clockVars, ghostVars
<1>3. label \in Label /\ label \in {"rehash", "mint"} /\ "login" \in Op
      /\ nxt \in Sid \cup {None} /\ None \in Sid \cup {None}
  BY <1>1, Zenon DEF Label, Op
<1> HIDE DEF label
<1>4. /\ OnlyMoves(h) /\ loc'[h] \in Busy /\ loc'[h].at = label /\ loc'[h].op = "login"
      /\ loc'[h].sid = None /\ loc'[h].new = nxt
  BY Zenon, <1>1, <1>3, StartFacts DEF None
<1>5. nxt \notin Minted /\ nxt # None /\ nxt \in Nat /\ nxt < nxt'
  <2>1. \A x \in Minted : x < nxt
    BY Zenon DEF IInv, TokenInv
  <2>2. nxt # None /\ nxt \in Nat /\ ~(nxt < nxt)
    BY <1>1, SidFacts, Zenon
  <2> QED
    BY <1>1, <2>1, <2>2, Successor, Zenon
<1>6. TypeOK'
  <2>1. nxt' \in 1 .. MaxSid + 1 /\ accessExp' \in 0 .. nxt' - 1
    BY <1>1, <1>2, NextInRange, Zenon DEF TypeOK
  <2> QED
    BY <1>1, <1>2, <1>4, <2>1, Zenon DEF TypeOK, Minted, OnlyMoves
<1>7. \A s \in Minted' : TokenInv(s)'
  <2> SUFFICES ASSUME NEW s \in Minted PROVE TokenInv(s)'
    BY <1>2, Zenon DEF Minted
  <2>1. TokenInv(s) /\ s \in Nat
    BY <1>1, SidFacts, Zenon DEF IInv, TypeOK
  <2>2. s < nxt'
    BY <1>1, <1>5, <2>1, Below, Zenon DEF TokenInv
  <2> QED
    BY <1>2, <2>1, <2>2, Zenon DEF TokenInv, Minted
<1>8. HandlerInv(h)'
  BY <1>2, <1>3, <1>4, <1>5, Zenon DEF HandlerInv, Minted
<1>9. ASSUME NEW g \in Handler, g # h PROVE HandlerInv(g)'
  <2>1. HandlerInv(g) /\ loc'[g] = loc[g] /\ (loc[g] # Idle => loc[g].new \in Nat)
    BY <1>1, <1>4, <1>9, BusyIds, Zenon DEF IInv, TypeOK, OnlyMoves
  <2>2. loc[g] # Idle => loc[g].new < nxt'
    BY <1>1, <1>5, <2>1, Below, Zenon DEF HandlerInv
  <2> QED
    BY <1>2, <2>1, <2>2, Zenon DEF HandlerInv, Minted
<1>10. Distinct'
  <2>1. Distinct /\ \A g \in Handler : loc[g] # Idle => loc[g].new # nxt
    <3>1. \A g \in Handler : loc[g] # Idle => loc[g].new < nxt /\ loc[g].new \in Nat
      BY <1>1, BusyIds, Zenon DEF IInv, HandlerInv, TypeOK
    <3> QED
      BY <1>5, <3>1, Below, Zenon DEF IInv
  <2> QED
    BY <1>4, <2>1, DistinctFresh, Zenon
<1>11. OneLiveLeafPerLogin' /\ \A s \in loggedOut' : LogoutInv(s)'
  BY <1>2, LeavesKeep, LogoutKeep, Zenon
<1> QED
  BY <1>6, <1>7, <1>8, <1>9, <1>10, <1>11, Zenon DEF IInv

\* An upgrade leaves the password as it is: it is stored over the verifier that
\* was checked, or not at all.
LEMMA RehashKeeps ==
  ASSUME TypeOK, NEW h \in Handler, Rehash(h) PROVE pw' = pw
<1>1. CASE pw[loc[h].user] = loc[h].pw
  <2>1. pw \in [User -> Nat]
    BY Zenon DEF TypeOK
  <2>2. pw' = [pw EXCEPT ![loc[h].user] = pw[loc[h].user]] \/ pw' = pw
    BY <1>1, Zenon DEF Rehash
  <2> QED
    BY <2>1, <2>2
<1>2. CASE pw[loc[h].user] # loc[h].pw
  BY <1>2, Zenon DEF Rehash
<1> QED
  BY <1>1, <1>2, Zenon

\* The upgraded verifier concerns no session.
LEMMA RehashInv ==
  ASSUME IInv, NEW h \in Handler, Rehash(h) PROVE IInv'
<1>1. loc[h].at = "rehash" /\ legacy' \subseteq legacy
  BY Zenon DEF Rehash
<1>2. UNCHANGED <<exists, ver, pw, tok, signed, nxt, delivered, rows, used, revoked,
                  denied, accessExp, refreshExp, retired, loggedOut, halfOut, overflown, faults>>
  <2>1. pw' = pw
    BY RehashKeeps, Zenon DEF IInv
  <2> QED
    BY <2>1, Zenon DEF Rehash, tokenVars, rowVars, clockVars, ghostVars
<1>3. PICK label \in {"mint", "idle"} : Goto(h, label)
  BY Zenon DEF Rehash
<1>4. TypeOK /\ loc[h] # Idle /\ HandlerInv(h)
  BY <1>1, HandlerFacts, Zenon
<1>5. MovesTo(h, label)
  BY <1>1, <1>3, <1>4, GotoFacts, Zenon DEF Label
<1>6. OnlyMoves(h)
      /\ (loc'[h] = Idle \/ (/\ loc'[h].at = "mint" /\ loc'[h].sid = loc[h].sid
                             /\ loc'[h].new = loc[h].new))
  BY <1>3, <1>5, Zenon DEF MovesTo
<1>7. TypeOK'
  BY <1>1, <1>2, <1>4, <1>6, Zenon DEF TypeOK, Minted, OnlyMoves
<1>8. HandlerInv(h)'
  BY <1>1, <1>2, <1>4, <1>6, Zenon DEF HandlerInv, Minted
<1>9. (\A g \in Handler : g # h => HandlerInv(g)') /\ Distinct'
  BY <1>1, <1>2, <1>6, OthersKeep, DistinctKeep, Zenon
<1>10. /\ \A s \in Minted' : TokenInv(s)'
       /\ OneLiveLeafPerLogin' /\ \A s \in loggedOut' : LogoutInv(s)'
  BY <1>2, TokensKeep, LeavesKeep, LogoutKeep, Zenon
<1> QED
  BY <1>7, <1>8, <1>9, <1>10, Zenon DEF IInv

\* The login token takes the reserved identifier as its own root.
LEMMA MintLoginInv ==
  ASSUME IInv, NEW h \in Handler, MintLogin(h) PROVE IInv'
<1>1. loc[h].at = "mint"
  BY Zenon DEF MintLogin
<1>2. UNCHANGED <<exists, ver, pw, legacy, nxt, delivered, rows, used, revoked,
                  denied, accessExp, refreshExp, retired, loggedOut, halfOut, overflown, faults>>
  BY Zenon DEF MintLogin, userVars, rowVars, clockVars, ghostVars
<1>3. TypeOK /\ loc[h] \in Busy /\ loc[h] # Idle /\ HandlerInv(h)
  BY <1>1, HandlerFacts, Zenon
<1>4. CASE loc[h].user \in exists
  <2> DEFINE s == loc[h].new
             u == loc[h].user
  <2>1. s \in Sid /\ s \notin Minted /\ s < nxt /\ nxt \in Nat /\ u \in User /\ loc[h].pw \in Nat
    BY <1>1, <1>3, SessionsAssumption DEF HandlerInv, Busy, TypeOK
  <2>2. Mint(s, u, s, loc[h].pw) /\ Goto(h, "create")
    BY <1>4, Zenon DEF MintLogin
  <2>3. MovesTo(h, "create")
    BY <1>1, <1>3, <2>2, GotoFacts, Zenon DEF Label
  <2>4. OnlyMoves(h) /\ loc'[h].at = "create" /\ loc'[h].sid = loc[h].sid /\ loc'[h].new = s
    BY <2>3, Zenon DEF MovesTo
  <2> HIDE DEF s, u
  <2>5. /\ Minted' = Minted \cup {s} /\ tok'[s].owner = u /\ tok'[s].root = s
        /\ \A x \in Minted : tok'[x] = tok[x]
        /\ tok' \in [Minted' -> Token] /\ signed' = signed \cup {s}
        /\ \A x \in Minted' : TokenInv(x)'
    BY <1>2, <2>1, <2>2, MintFacts
  <2>6. TypeOK'
    BY Zenon, <1>2, <1>3, <2>1, <2>4, <2>5 DEF TypeOK, OnlyMoves
  <2>7. s \notin rows \cup delivered /\ delivered \subseteq Minted
    BY Zenon, <1>3, <2>1 DEF TypeOK
  <2>8. HandlerInv(h)'
    <3>1. \A t \in Minted : tok[t].root \in Minted
      BY Zenon DEF IInv, TokenInv
    <3>2. \A t \in Minted' : tok'[t].root = s => t = s
      BY <2>1, <2>5, <3>1, Zenon
    <3>3. loc[h].sid # None => loc[h].sid \in delivered
      BY <1>3, Zenon DEF HandlerInv
    <3>4. UNCHANGED <<nxt, rows, delivered>> /\ s \in Minted'
      BY Zenon, <1>2, <2>5
    <3> QED
      BY Zenon, <2>1, <2>4, <2>5, <2>7, <3>2, <3>3, <3>4 DEF HandlerInv
  <2>9. ASSUME NEW g \in Handler, g # h PROVE HandlerInv(g)'
    <3>1. HandlerInv(g) /\ loc'[g] = loc[g]
      BY <2>4, <2>9, Zenon DEF IInv, OnlyMoves
    <3>2. Distinct /\ s # None
      BY <2>1, SidFacts, Zenon DEF IInv
    <3>3. loc[g] # Idle => loc[g].new # s
      BY <1>3, <2>9, <3>2, Zenon DEF Distinct, s
    <3> QED
      BY ZenonT(60), <1>2, <2>5, <2>7, <3>1, <3>3 DEF HandlerInv
  <2>10. Distinct'
    BY <1>1, <2>4, DistinctKeep, Zenon DEF s
  <2>11. OneLiveLeafPerLogin' /\ \A x \in loggedOut' : LogoutInv(x)'
    BY <1>2, <2>5, MintKeeps, Zenon
  <2> QED
    BY <2>5, <2>6, <2>8, <2>9, <2>10, <2>11, Zenon DEF IInv
<1>5. CASE loc[h].user \notin exists
  <2>1. Goto(h, "idle") /\ UNCHANGED <<tok, signed>>
    BY <1>5, Zenon DEF MintLogin
  <2>2. MovesTo(h, "idle")
    BY <1>1, <1>3, <2>1, GotoFacts, Zenon
  <2>3. (\A g \in Handler : HandlerInv(g)') /\ Distinct'
    BY <1>1, <1>2, <2>1, <2>2, QuietStep, Zenon DEF Quiet
  <2>4. TypeOK'
    BY <1>2, <1>3, <2>1, <2>2, Zenon DEF TypeOK, Minted, MovesTo, OnlyMoves
  <2>5. /\ \A s \in Minted' : TokenInv(s)'
        /\ OneLiveLeafPerLogin' /\ \A s \in loggedOut' : LogoutInv(s)'
    BY <1>2, <2>1, TokensKeep, LeavesKeep, LogoutKeep, Zenon
  <2> QED
    BY <2>3, <2>4, <2>5, Zenon DEF IInv
<1> QED
  BY <1>4, <1>5, Zenon

-----------------------------------------------------------------------------
(* Revocation and version advance *)

\* Marking rows revoked takes no handler's assumption away.
LEMMA RevokeInv ==
  ASSUME IInv, NEW h \in Handler, RevokeUserSessions(h) PROVE IInv'
<1>1. loc[h].at = "revoke" /\ revoked \subseteq revoked' /\ revoked' \subseteq revoked \cup rows
  BY DEF RevokeUserSessions, OwnedBy
<1>2. UNCHANGED <<exists, ver, pw, legacy, tok, signed, nxt, delivered, rows, used, denied,
                  accessExp, refreshExp, retired, loggedOut, halfOut, overflown, faults>>
  BY DEF RevokeUserSessions, userVars, tokenVars, clockVars, ghostVars
<1>3. PICK label \in {"bump", "idle"} : Goto(h, label)
  BY Zenon DEF RevokeUserSessions, AfterRevoke
<1>4. TypeOK
  BY Zenon DEF IInv
<1>5. MovesTo(h, label)
  BY <1>1, <1>3, <1>4, GotoFacts, Zenon DEF Label
<1>6. rows' \subseteq rows /\ rows' \ revoked' \subseteq rows \ revoked /\ rows' \ used' \subseteq rows \ used
  BY <1>1, <1>2, Zenon
<1>7. (\A g \in Handler : HandlerInv(g)') /\ Distinct'
  BY <1>1, <1>2, <1>3, <1>5, <1>6, QuietStep, Zenon DEF Quiet
<1>8. TypeOK'
  BY <1>1, <1>2, <1>4, <1>5, Zenon DEF TypeOK, Minted, MovesTo, OnlyMoves
<1>9. /\ \A s \in Minted' : TokenInv(s)'
      /\ OneLiveLeafPerLogin' /\ \A s \in loggedOut' : LogoutInv(s)'
  BY <1>2, <1>6, TokensKeep, LeavesKeep, LogoutKeep, Zenon
<1> QED
  BY <1>7, <1>8, <1>9, Zenon DEF IInv

\* BumpTokenVersion, for a user that still exists or not.
LEMMA BumpInv ==
  ASSUME IInv, NEW h \in Handler, BumpTokenVersion(h) PROVE IInv'
<1>1. loc[h].at = "bump"
  BY Zenon DEF BumpTokenVersion
<1>2. UNCHANGED <<exists, pw, legacy, tok, signed, nxt, delivered, rows, used, revoked,
                  denied, accessExp, refreshExp, loggedOut, halfOut, overflown, faults>>
  BY Zenon DEF BumpTokenVersion, tokenVars, rowVars, clockVars
<1>3. PICK label \in {"revoke", "idle"} :
        Goto(h, label) /\ (Advance(h) \/ UNCHANGED <<ver, retired>>)
  BY Zenon DEF BumpTokenVersion, AfterBump
<1>4. TypeOK /\ loc[h].user \in User
  BY <1>1, HandlerFacts, Zenon
<1>5. MovesTo(h, label)
  BY <1>1, <1>3, <1>4, GotoFacts, Zenon DEF Label
<1>6. (\A g \in Handler : HandlerInv(g)') /\ Distinct'
  BY <1>1, <1>2, <1>3, <1>5, QuietStep, Zenon DEF Quiet
<1>7. /\ ver' \in [User -> Nat] /\ retired' \subseteq Minted
      /\ \A s \in Minted' : TokenInv(s)'
  <2>1. CASE Advance(h)
    BY <1>2, <1>4, <2>1, AdvanceFacts, Zenon
  <2>2. CASE UNCHANGED <<ver, retired>>
    BY <1>2, <1>4, <2>2, TokensKeep, Zenon DEF TypeOK
  <2> QED
    BY <1>3, <2>1, <2>2, Zenon
<1>8. TypeOK'
  BY <1>2, <1>4, <1>5, <1>7, Zenon DEF TypeOK, Minted, MovesTo, OnlyMoves
<1>9. OneLiveLeafPerLogin' /\ \A s \in loggedOut' : LogoutInv(s)'
  BY <1>2, LeavesKeep, LogoutKeep
<1> QED
  BY <1>6, <1>7, <1>8, <1>9 DEF IInv

-----------------------------------------------------------------------------
(* Rows of issued sessions *)

\* The first row of a login: nothing else carries its root yet.
LEMMA CreateInv ==
  ASSUME IInv, NEW h \in Handler, CreateRefreshSession(h) PROVE IInv'
<1> DEFINE n == loc[h].new
<1>1. loc[h].at = "create" /\ rows' = rows \cup {n} /\ Goto(h, "prune")
  BY DEF CreateRefreshSession
<1>2. UNCHANGED <<exists, ver, pw, legacy, tok, signed, nxt, delivered, used, revoked,
                  denied, accessExp, refreshExp, retired, loggedOut, halfOut, overflown, faults>>
  BY DEF CreateRefreshSession, userVars, tokenVars, clockVars, ghostVars
<1>3. TypeOK /\ loc[h] # Idle /\ HandlerInv(h)
  BY <1>1, HandlerFacts, Zenon
<1>4. MovesTo(h, "prune")
  BY <1>1, <1>3, GotoFacts DEF Label
<1>5. OnlyMoves(h) /\ loc'[h].at = "prune" /\ loc'[h].sid = loc[h].sid /\ loc'[h].new = n
  BY <1>4, Zenon DEF MovesTo
<1>6. /\ n \in Minted /\ n \notin rows \cup delivered /\ n # None
      /\ \A t \in rows : tok[t].root # tok[n].root
  BY <1>1, <1>3 DEF HandlerInv, TypeOK, Sid, None
<1>7. HandlerInv(h)'
  BY <1>1, <1>2, <1>3, <1>5, Zenon DEF HandlerInv, Minted
<1>8. Distinct'
  BY <1>1, <1>5, DistinctKeep, ZenonT(30)
<1>9. ASSUME NEW g \in Handler, g # h PROVE HandlerInv(g)'
  <2>1. HandlerInv(g) /\ loc'[g] = loc[g] /\ Distinct
    BY <1>5, <1>9, Zenon DEF IInv, OnlyMoves
  <2>2. loc[g] # Idle => loc[g].new # n
    BY <1>3, <1>6, <1>9, <2>1, Zenon DEF Distinct
  <2>3. loc[g] # Idle /\ loc[g].sid # None => loc[g].sid # n
    BY <1>6, <2>1, Zenon DEF HandlerInv
  <2> HIDE DEF n
  <2>4. UNCHANGED <<tok, nxt, delivered, revoked>> /\ rows' = rows \cup {n}
    BY <1>1, <1>2, Zenon DEF n
  <2> QED
    BY Zenon, <2>1, <2>2, <2>3, <2>4 DEF HandlerInv, Minted
<1> HIDE DEF n
<1>10. TypeOK'
  BY <1>1, <1>2, <1>3, <1>5, <1>6, Zenon DEF TypeOK, Minted, OnlyMoves, n
<1>11. OneLiveLeafPerLogin'
  <2>1. OneLiveLeafPerLogin
    BY Zenon DEF IInv
  <2>2. /\ \A t \in rows' \ used' : t = n \/ t \in rows \ used
        /\ \A t \in rows \ used : tok[t].root # tok[n].root
        /\ tok' = tok
    BY <1>1, <1>2, <1>6, Zenon DEF n
  <2> QED
    BY <2>1, <2>2, Zenon DEF OneLiveLeafPerLogin
<1>12. \A s \in loggedOut' : LogoutInv(s)'
  <2>1. \A s \in loggedOut : LogoutInv(s)
    BY DEF IInv
  <2> QED
    BY Zenon, <1>1, <1>2, <1>6, <2>1 DEF LogoutInv, n
<1>13. \A s \in Minted' : TokenInv(s)'
  BY <1>2, TokensKeep
<1> QED
  BY <1>7, <1>8, <1>9, <1>10, <1>11, <1>12, <1>13 DEF IInv

\* Pruning the session table only removes rows.
LEMMA PruneSessionsInv ==
  ASSUME IInv, NEW h \in Handler, PruneSessions(h) PROVE IInv'
<1>1. loc[h].at = "prune" /\ Goto(h, "pruneDeny")
  BY Zenon DEF PruneSessions
<1>2. rows' \subseteq rows /\ used' = used \cap rows' /\ revoked' = revoked \cap rows'
  BY Zenon DEF PruneSessions
<1>3. UNCHANGED <<exists, ver, pw, legacy, tok, signed, nxt, delivered, denied, accessExp,
                  refreshExp, retired, loggedOut, halfOut, overflown, faults>>
  BY Zenon DEF PruneSessions, userVars, tokenVars, clockVars, ghostVars
<1>4. TypeOK /\ loc[h] # Idle /\ HandlerInv(h)
  BY <1>1, HandlerFacts, Zenon
<1>5. MovesTo(h, "pruneDeny")
  BY <1>1, <1>4, GotoFacts, Zenon DEF Label
<1>6. /\ OnlyMoves(h) /\ loc'[h].at = "pruneDeny"
      /\ loc'[h].sid = loc[h].sid /\ loc'[h].new = loc[h].new
  BY <1>5, Zenon DEF MovesTo
<1>7. TypeOK'
  BY <1>2, <1>3, <1>4, <1>6, ZenonT(30) DEF TypeOK, Minted, OnlyMoves
<1>8. HandlerInv(h)'
  BY Zenon, <1>1, <1>3, <1>4, <1>6 DEF HandlerInv, Minted
<1>9. /\ rows' \ used' \subseteq rows \ used
      /\ rows' \ revoked' \subseteq rows \ revoked
  BY <1>2, Zenon
<1>10. (\A g \in Handler : g # h => HandlerInv(g)') /\ Distinct'
  BY <1>1, <1>2, <1>3, <1>6, <1>9, OthersKeep, DistinctKeep, Zenon
<1>11. /\ \A s \in Minted' : TokenInv(s)'
       /\ OneLiveLeafPerLogin' /\ \A s \in loggedOut' : LogoutInv(s)'
  BY <1>3, <1>9, TokensKeep, LeavesKeep, LogoutKeep
<1> QED
  BY <1>7, <1>8, <1>10, <1>11, Zenon DEF IInv

-----------------------------------------------------------------------------
(* Refresh *)

\* The replacement is minted at the version just compared, so its login is not
\* retired.
LEMMA LoadForRefreshInv ==
  ASSUME IInv, NEW h \in Handler, NEW s \in delivered, LoadForRefresh(h, s) PROVE IInv'
<1> DEFINE u == tok[s].owner
           r == tok[s].root
<1>1. /\ TypeOK /\ nxt \in Sid /\ Current(s) /\ nxt' = nxt + 1
      /\ Start(h, "rotate", "refresh", u, s, nxt) /\ Mint(nxt, u, r, tok[s].pw)
  BY Zenon DEF IInv, LoadForRefresh
<1>2. UNCHANGED <<exists, ver, pw, legacy, delivered, rows, used, revoked, denied,
                  accessExp, refreshExp, retired, loggedOut, halfOut, overflown, faults>>
  BY Zenon DEF LoadForRefresh, userVars, rowVars, clockVars, ghostVars
<1>3. s \in Minted /\ s \in Sid /\ TokenInv(s) /\ u \in User /\ r \in Sid /\ tok[s].pw \in Nat
      /\ tok[s].ver \in Nat
  BY <1>1, Zenon DEF IInv, TypeOK, Token
<1>4. nxt \notin Minted /\ nxt # None /\ nxt \in Nat
  <2>1. \A x \in Minted : x < nxt
    BY Zenon DEF IInv, TokenInv
  <2>2. nxt # None /\ nxt \in Nat /\ ~(nxt < nxt)
    BY <1>1, SidFacts, Zenon
  <2> QED
    BY <2>1, <2>2, Zenon
<1>5. r \in Minted /\ r \notin retired /\ tok[r].owner = u /\ tok[r].root = r
  BY <1>1, <1>3, NotBelow, ZenonT(30) DEF TokenInv, Current
<1> HIDE DEF u, r
<1>6. /\ Minted' = Minted \cup {nxt} /\ tok'[nxt].root = r
      /\ \A x \in Minted : tok'[x] = tok[x]
      /\ tok' \in [Minted' -> Token] /\ signed' = signed \cup {nxt}
      /\ \A x \in Minted' : TokenInv(x)'
  <2>1. nxt' \in Nat /\ nxt <= nxt' /\ nxt < nxt' /\ UNCHANGED <<ver, retired>>
    BY <1>1, <1>2, <1>4, Successor, Zenon
  <2>2. r = nxt \/ (r \in Minted /\ r \notin retired /\ tok[r].owner = u /\ tok[r].root = r)
    BY <1>5, Zenon
  <2>3. Mint(nxt, u, r, tok[s].pw) /\ nxt \in Sid /\ nxt \notin Minted
        /\ u \in User /\ r \in Sid /\ tok[s].pw \in Nat
    BY <1>1, <1>3, <1>4, Zenon
  <2> QED
    BY <2>1, <2>2, <2>3, MintFacts, ZenonT(60)
<1>7. /\ OnlyMoves(h) /\ loc'[h] \in Busy /\ loc'[h].at = "rotate" /\ loc'[h].op = "refresh"
      /\ loc'[h].sid = s /\ loc'[h].new = nxt
  <2>1. "rotate" \in Label /\ "refresh" \in Op /\ s \in Sid \cup {None} /\ nxt \in Sid \cup {None}
    BY <1>1, <1>3, Zenon DEF Op, Label
  <2> QED
    BY Zenon, <1>1, <1>3, <2>1, StartFacts
<1>8. TypeOK'
  <2>1. nxt' \in 1 .. MaxSid + 1 /\ accessExp' \in 0 .. nxt' - 1
    BY <1>1, <1>2, NextInRange, Zenon DEF TypeOK
  <2>2. Minted' \subseteq Sid /\ Minted \subseteq Minted' /\ signed' \subseteq Minted'
    BY <1>1, <1>6, Zenon DEF TypeOK
  <2> QED
    BY <1>1, <1>2, <1>6, <1>7, <2>1, <2>2, Zenon DEF TypeOK, OnlyMoves
<1>9. delivered \subseteq Minted /\ nxt \notin rows \cup delivered
      /\ tok'[s].root = r /\ s # None /\ nxt < nxt'
  BY <1>1, <1>3, <1>4, <1>6 DEF TypeOK, r, Sid, None
<1>10. HandlerInv(h)'
  BY Zenon, <1>2, <1>4, <1>6, <1>7, <1>9 DEF HandlerInv
<1>11. ASSUME NEW g \in Handler, g # h PROVE HandlerInv(g)'
  <2>1. HandlerInv(g) /\ loc'[g] = loc[g]
    BY <1>7, <1>11, Zenon DEF IInv, OnlyMoves
  <2>2. loc[g] # Idle => loc[g].new \in Nat /\ loc[g].new < nxt
    <3>1. loc[g] \in Local
      BY <1>1, Zenon DEF TypeOK
    <3>2. loc[g] # Idle => loc[g].new < nxt
      BY <2>1, Zenon DEF HandlerInv
    <3> QED
      BY <3>1, <3>2, BusyIds, Zenon
  <2>3. ASSUME loc[g] # Idle, loc[g].at = "create"
        PROVE  /\ loc[g].new \in Minted /\ tok'[loc[g].new].root = loc[g].new
               /\ \A t \in Minted' : tok'[t].root = loc[g].new => t = loc[g].new
    <3>1. tok[s].root # loc[g].new
      BY Zenon, <1>3, <1>9, <2>1, <2>3 DEF HandlerInv
    <3> QED
      BY Zenon, <1>6, <2>1, <2>3, <3>1 DEF HandlerInv, r
  <2>4. ASSUME loc[g] # Idle, loc[g].at = "rotate"
        PROVE  loc[g].sid # None /\ tok'[loc[g].new].root = tok'[loc[g].sid].root
    BY ZenonT(30), <1>6, <1>9, <2>1, <2>4 DEF HandlerInv
  <2>5. loc[g] # Idle => loc[g].new < nxt' /\ loc[g].new # nxt
    BY <1>1, <1>4, <2>2, Below, Zenon
  <2>6. UNCHANGED <<rows, revoked, delivered>>
    BY <1>2, Zenon
  <2> QED
    BY Zenon, <1>6, <2>1, <2>3, <2>4, <2>5, <2>6 DEF HandlerInv
<1>12. Distinct'
  <2>1. Distinct /\ \A g \in Handler : loc[g] # Idle => loc[g].new # nxt
    <3>1. \A g \in Handler : loc[g] # Idle => loc[g].new < nxt /\ loc[g].new \in Nat
      BY <1>1, BusyIds, Zenon DEF IInv, HandlerInv, TypeOK
    <3> QED
      BY <1>4, <3>1, Below, Zenon DEF IInv
  <2> QED
    BY <1>7, <2>1, DistinctFresh, Zenon
<1>13. OneLiveLeafPerLogin' /\ \A x \in loggedOut' : LogoutInv(x)'
  BY <1>2, <1>6, MintKeeps, Zenon
<1> QED
  BY Zenon, <1>6, <1>8, <1>10, <1>11, <1>12, <1>13 DEF IInv

\* A rotation replaces the one consumable row of the login by its new one.
LEMMA RotateInv ==
  ASSUME IInv, NEW h \in Handler, RotateRefreshSession(h) PROVE IInv'
<1>1. loc[h].at = "rotate"
  BY Zenon DEF RotateRefreshSession
<1>2. UNCHANGED <<exists, ver, pw, legacy, tok, signed, nxt, delivered, revoked, denied,
                  accessExp, refreshExp, retired, loggedOut, halfOut, overflown, faults>>
  BY Zenon DEF RotateRefreshSession, userVars, tokenVars, clockVars, ghostVars
<1>3. TypeOK /\ loc[h] # Idle /\ HandlerInv(h)
  BY <1>1, HandlerFacts, Zenon
<1>4. \A s \in Minted' : TokenInv(s)'
  BY <1>2, TokensKeep
<1>5. CASE Consumable(loc[h].sid)
  <2> DEFINE s == loc[h].sid
             n == loc[h].new
  <2>1. /\ s \in rows \ used /\ n \in Minted /\ n \notin rows \cup delivered /\ n # None
        /\ tok[n].root = tok[s].root
    <3>1. s \in rows \ used /\ n \in Minted /\ n \notin rows \cup delivered
          /\ tok[n].root = tok[s].root
      BY <1>1, <1>3, <1>5, Zenon DEF HandlerInv, Consumable
    <3> QED
      BY <1>3, <3>1, SidFacts, Zenon DEF TypeOK
  <2>2. used' = used \cup {s} /\ rows' = rows \cup {n} /\ Goto(h, "prune")
    BY <1>5, Zenon DEF RotateRefreshSession
  <2>3. MovesTo(h, "prune")
    BY Zenon, <1>1, <1>3, <2>2, GotoFacts DEF Label
  <2>4. OnlyMoves(h) /\ loc'[h].at = "prune" /\ loc'[h].sid = s /\ loc'[h].new = n
    BY Zenon, <2>3 DEF MovesTo
  <2>5. HandlerInv(h)'
    BY <1>1, <1>2, <1>3, <2>4, Zenon DEF HandlerInv, Minted
  <2>6. Distinct'
    BY Zenon, <1>1, <2>4, DistinctKeep
  <2>7. ASSUME NEW g \in Handler, g # h PROVE HandlerInv(g)'
    <3>1. HandlerInv(g) /\ loc'[g] = loc[g] /\ Distinct
      BY <2>4, <2>7, Zenon DEF IInv, OnlyMoves
    <3>2. loc[g] # Idle => loc[g].new # n
      BY <1>3, <2>1, <2>7, <3>1, Zenon DEF Distinct
    <3>3. UNCHANGED <<tok, nxt, delivered, revoked>>
      BY <1>2, Zenon
    <3> HIDE DEF s, n
    <3> QED
      BY Zenon, <2>1, <2>2, <3>1, <3>2, <3>3 DEF HandlerInv, Minted
  <2> HIDE DEF s, n
  <2>8. TypeOK'
    <3>1. rows' \subseteq Minted /\ used' \subseteq rows' /\ revoked \subseteq rows'
      BY <1>3, <2>1, <2>2, Zenon DEF TypeOK
    <3> QED
      BY <1>2, <1>3, <2>4, <3>1, Zenon DEF TypeOK, Minted, OnlyMoves
  <2>9. OneLiveLeafPerLogin'
    <3>1. \A t, x \in rows \ used : tok[t].root = tok[x].root => t = x
      BY Zenon DEF IInv, OneLiveLeafPerLogin
    <3>2. \A t \in rows \ used' : tok[t].root # tok[n].root
      BY <2>1, <2>2, <3>1, Zenon
    <3> QED
      BY <1>2, <2>2, <3>1, <3>2 DEF OneLiveLeafPerLogin
  <2>10. \A x \in loggedOut' : LogoutInv(x)'
    <3>1. \A x \in loggedOut : LogoutInv(x)
      BY DEF IInv
    <3> QED
      BY <1>2, <2>1, <2>2, <3>1 DEF LogoutInv
  <2> QED
    BY Zenon, <1>4, <2>5, <2>6, <2>7, <2>8, <2>9, <2>10 DEF IInv
<1>6. CASE ~Consumable(loc[h].sid)
  <2>1. PICK label \in {"revoke", "idle"} : Goto(h, label) /\ UNCHANGED <<rows, used>>
    BY <1>6, Zenon DEF RotateRefreshSession
  <2>2. MovesTo(h, label)
    BY <1>1, <1>3, <2>1, GotoFacts, Zenon DEF Label
  <2>3. (\A g \in Handler : HandlerInv(g)') /\ Distinct'
    BY <1>1, <1>2, <2>1, <2>2, QuietStep, Zenon DEF Quiet
  <2>4. TypeOK'
    BY <1>2, <1>3, <2>1, <2>2, Zenon DEF TypeOK, Minted, MovesTo, OnlyMoves
  <2>5. OneLiveLeafPerLogin' /\ \A s \in loggedOut' : LogoutInv(s)'
    BY <1>2, <2>1, LeavesKeep, LogoutKeep, Zenon
  <2> QED
    BY Zenon, <1>4, <2>3, <2>4, <2>5 DEF IInv
<1> QED
  BY Zenon, <1>5, <1>6

-----------------------------------------------------------------------------
(* Protected routes *)

\* The middleware admits a delivered session only.
LEMMA CheckVersionInv ==
  ASSUME IInv, NEW h \in Handler, NEW s \in delivered, NEW o \in Op \ {"login", "refresh"},
         NEW u \in User, CheckVersion(h, s, o, u)
  PROVE  IInv'
<1>1. TypeOK /\ Start(h, "denylist", o, u, s, None)
  BY Zenon DEF IInv, CheckVersion
<1>2. UNCHANGED <<exists, ver, pw, legacy, tok, signed, nxt, delivered, rows, used, revoked,
                  denied, accessExp, refreshExp, retired, loggedOut, halfOut, overflown, faults>>
  BY Zenon DEF CheckVersion, userVars, tokenVars, rowVars, clockVars, ghostVars
<1>3. s \in Sid /\ s # None /\ nxt \in Nat /\ nxt > 0
  <2>1. s \in Sid /\ s # None /\ nxt \in 1 .. MaxSid + 1
    BY <1>1, SidFacts, Zenon DEF TypeOK
  <2> QED
    BY <2>1, SessionsAssumption
<1>4. /\ OnlyMoves(h) /\ loc'[h].at = "denylist" /\ loc'[h].op = o
      /\ loc'[h].sid = s /\ loc'[h].new = None
  <2>1. "denylist" \in Label /\ o \in Op /\ s \in Sid \cup {None} /\ None \in Sid \cup {None}
    BY <1>3, Zenon DEF Label
  <2> QED
    BY <1>1, <2>1, StartFacts DEF None
<1>5. TypeOK'
  BY <1>1, <1>2, <1>4 DEF TypeOK, Minted, OnlyMoves
<1>6. HandlerInv(h)'
  BY <1>2, <1>3, <1>4, Zenon DEF HandlerInv, None
<1>7. \A g \in Handler : g # h => HandlerInv(g)'
  BY <1>2, <1>4, OthersKeep, Zenon
<1>8. Distinct'
  <2>1. Distinct
    BY Zenon DEF IInv
  <2> QED
    BY <1>4, <2>1 DEF Distinct, OnlyMoves
<1>9. /\ \A x \in Minted' : TokenInv(x)'
      /\ OneLiveLeafPerLogin' /\ \A x \in loggedOut' : LogoutInv(x)'
  BY <1>2, TokensKeep, LeavesKeep, LogoutKeep, Zenon
<1> QED
  BY <1>5, <1>6, <1>7, <1>8, <1>9, Zenon DEF IInv

\* The denylist read sends the request to its handler or away.
LEMMA DenylistInv ==
  ASSUME IInv, NEW h \in Handler, IsAccessTokenRevoked(h) PROVE IInv'
<1>1. loc[h].at = "denylist"
  BY Zenon DEF IsAccessTokenRevoked
<1>2. UNCHANGED <<exists, ver, pw, legacy, tok, signed, nxt, delivered, rows, used, revoked,
                  denied, accessExp, refreshExp, retired, loggedOut, halfOut, overflown, faults>>
  BY Zenon DEF IsAccessTokenRevoked, userVars, tokenVars, rowVars, clockVars, ghostVars
<1>3. TypeOK /\ loc[h] # Idle /\ HandlerInv(h)
  BY <1>1, HandlerFacts, Zenon
<1>4. PICK label \in {"revokeOne", "bump", "load", "erase", "idle"} : Goto(h, label)
  BY <1>1, <1>3, Zenon DEF IsAccessTokenRevoked, HandlerOf, HandlerInv, Op
<1>5. MovesTo(h, label)
  BY <1>1, <1>3, <1>4, GotoFacts, Zenon DEF Label
<1>6. /\ OnlyMoves(h)
      /\ loc'[h] = Idle \/ (/\ loc'[h].at = label /\ loc'[h].sid = loc[h].sid
                            /\ loc'[h].new = loc[h].new)
  BY <1>5, Zenon DEF MovesTo
<1>7. TypeOK'
  BY <1>2, <1>3, <1>6, Zenon DEF TypeOK, Minted, OnlyMoves
<1>8. HandlerInv(h)'
  BY <1>1, <1>2, <1>3, <1>4, <1>6, Zenon DEF HandlerInv, Minted
<1>9. (\A g \in Handler : g # h => HandlerInv(g)') /\ Distinct'
  BY <1>1, <1>2, <1>6, OthersKeep, DistinctKeep, Zenon
<1>10. /\ \A s \in Minted' : TokenInv(s)'
       /\ OneLiveLeafPerLogin' /\ \A s \in loggedOut' : LogoutInv(s)'
  BY <1>2, TokensKeep, LeavesKeep, LogoutKeep, Zenon
<1> QED
  BY <1>7, <1>8, <1>9, <1>10, Zenon DEF IInv

\* The first half of a logout: the row, if it is still there, is revoked.
LEMMA RevokeOneInv ==
  ASSUME IInv, NEW h \in Handler, RevokeUserRefreshSession(h) PROVE IInv'
<1>1. /\ loc[h].at = "revokeOne" /\ Goto(h, "deny")
      /\ revoked' = revoked \cup ({loc[h].sid} \cap rows)
  BY Zenon DEF RevokeUserRefreshSession
<1>2. UNCHANGED <<exists, ver, pw, legacy, tok, signed, nxt, delivered, rows, used, denied,
                  accessExp, refreshExp, retired, loggedOut, halfOut, overflown, faults>>
  BY Zenon DEF RevokeUserRefreshSession, userVars, tokenVars, clockVars, ghostVars
<1>3. TypeOK /\ loc[h] # Idle /\ HandlerInv(h)
  BY <1>1, HandlerFacts, Zenon
<1>4. MovesTo(h, "deny")
  BY <1>1, <1>3, GotoFacts, Zenon DEF Label
<1>5. OnlyMoves(h) /\ loc'[h].at = "deny" /\ loc'[h].sid = loc[h].sid /\ loc'[h].new = loc[h].new
  BY <1>4, Zenon DEF MovesTo
<1>6. TypeOK'
  BY Zenon, <1>1, <1>2, <1>3, <1>5 DEF TypeOK, Minted, OnlyMoves
<1>7. HandlerInv(h)'
  BY <1>1, <1>2, <1>3, <1>5, ZenonT(30) DEF HandlerInv, Minted
<1>8. rows' \subseteq rows /\ rows' \ revoked' \subseteq rows \ revoked /\ rows' \ used' \subseteq rows \ used
  BY Zenon, <1>1, <1>2
<1>9. (\A g \in Handler : g # h => HandlerInv(g)') /\ Distinct'
  BY <1>1, <1>2, <1>5, <1>8, OthersKeep, DistinctKeep, Zenon
<1>10. /\ \A s \in Minted' : TokenInv(s)'
       /\ OneLiveLeafPerLogin' /\ \A s \in loggedOut' : LogoutInv(s)'
  BY <1>2, <1>8, TokensKeep, LeavesKeep, LogoutKeep, Zenon
<1> QED
  BY <1>6, <1>7, <1>9, <1>10, Zenon DEF IInv

\* The second half: the access token is denied.
LEMMA DenyInv ==
  ASSUME IInv, NEW h \in Handler, RevokeAccessToken(h) PROVE IInv'
<1> DEFINE s == loc[h].sid
<1>1. loc[h].at \in {"deny", "denyOnly"} /\ Goto(h, "idle")
  BY Zenon DEF RevokeAccessToken
<1>2. /\ denied' = denied \cup {s}
      /\ loggedOut' = IF loc[h].at = "deny" THEN loggedOut \cup {s} ELSE loggedOut
      /\ halfOut' \subseteq halfOut \cup {s}
  BY <1>1, Zenon DEF RevokeAccessToken
<1>3. UNCHANGED <<exists, ver, pw, legacy, tok, signed, nxt, delivered, rows, used, revoked,
                  accessExp, refreshExp, retired, overflown, faults>>
  BY Zenon DEF RevokeAccessToken, userVars, tokenVars, rowVars, clockVars
<1>4. TypeOK /\ loc[h] # Idle /\ HandlerInv(h)
  BY <1>1, HandlerFacts, Zenon
<1>5. s \in delivered /\ s \in Minted /\ (loc[h].at = "deny" => s \notin rows \ revoked)
  BY <1>1, <1>4, Zenon DEF HandlerInv, TypeOK
<1>6. MovesTo(h, "idle")
  BY <1>1, <1>4, GotoFacts, Zenon
<1>7. (\A g \in Handler : HandlerInv(g)') /\ Distinct'
  BY <1>1, <1>3, <1>6, QuietStep, Zenon DEF Quiet
<1> HIDE DEF s
<1>8. TypeOK'
  BY <1>2, <1>3, <1>4, <1>5, <1>6, Zenon DEF TypeOK, Minted, MovesTo, OnlyMoves
<1>9. \A x \in loggedOut' : LogoutInv(x)'
  <2>1. \A x \in loggedOut : LogoutInv(x)
    BY DEF IInv
  <2> QED
    BY <1>2, <1>3, <1>5, <2>1, Zenon DEF LogoutInv
<1>10. (\A x \in Minted' : TokenInv(x)') /\ OneLiveLeafPerLogin'
  BY <1>3, TokensKeep, LeavesKeep, Zenon
<1> QED
  BY <1>7, <1>8, <1>9, <1>10, Zenon DEF IInv
==============================================================================
