----------------------------- MODULE MCSessions -----------------------------
(* TLC instances of Sessions. *)
EXTENDS Sessions, TLC

Symmetry == Permutations(Handler)

\* Bound: the last identifier goes to behaviours of one account in which no
\* statement has failed, nothing has expired and no verifier is an old one.
LastIsPlain ==
  nxt' > MaxSid =>
    /\ faults' = 0 /\ accessExp' = 0 /\ legacy' = {}
    /\ \A s, t \in DOMAIN tok' : tok'[s].owner = tok'[t].owner

\* Bound: a statement fails or an access token expires, not both.
OneTrouble == faults' = 0 \/ accessExp' = 0

BoundedSpec == Init /\ [][Next /\ LastIsPlain /\ OneTrouble]_vars
=============================================================================
