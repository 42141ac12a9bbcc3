---------------------------- MODULE DurableRegister ----------------------------
(***************************************************************************)
(* What pkg/userconfig promises of one key: an atomic register.  Its value *)
(* changes in one step and only to a complete value, an answer is a value  *)
(* it had during the request, and a change that was acknowledged survives  *)
(* every crash, while one that was not may be undone.  Nothing here knows  *)
(* of files, temporary names or directories; ConfigStore implements it.    *)
(***************************************************************************)
EXTENDS Naturals, Sequences

CONSTANTS
  Client,
  Value,   \* the values a client may store
  Absent   \* what the register holds while nothing is stored

VARIABLES
  history,  \* values of the register, the last one is current
  safe,     \* a crash undoes nothing up to this position
  whole,    \* values that are complete
  pending,  \* clients with an outstanding request
  start,    \* position of history when the request began, or of its change
  changed,  \* clients whose request has changed the register
  answer,   \* what the last request was told: {} while it has no answer
  acked     \* positions acknowledged as stored

vars == <<history, safe, whole, pending, start, changed, answer, acked>>

Init ==
  /\ \E v \in Value \cup {Absent} : history = <<v>>
  /\ safe = 1
  /\ whole \subseteq Value /\ history[1] \in whole \cup {Absent}
  /\ pending = {} /\ changed = {} /\ acked = {}
  /\ start = [c \in Client |-> 0]
  /\ answer = [c \in Client |-> {}]

Invoke(c) ==
  /\ c \notin pending
  /\ pending' = pending \cup {c}
  /\ start' = [start EXCEPT ![c] = Len(history)]
  /\ answer' = [answer EXCEPT ![c] = {}]
  /\ UNCHANGED <<history, safe, whole, changed, acked>>

\* A value is completed out of sight.
Prepare ==
  /\ whole' \subseteq Value /\ whole \subseteq whole'
  /\ UNCHANGED <<history, safe, pending, start, changed, answer, acked>>

Change(c) ==
  /\ c \in pending \ changed
  /\ \E v \in whole \cup {Absent} : history' = Append(history, v)
  /\ start' = [start EXCEPT ![c] = Len(history) + 1]
  /\ changed' = changed \cup {c}
  /\ UNCHANGED <<safe, whole, pending, answer, acked>>

Sync ==
  /\ safe' = Len(history)
  /\ UNCHANGED <<history, whole, pending, start, changed, answer, acked>>

\* A request ends, with an answer or without.
Ends(c) == pending' = pending \ {c} /\ changed' = changed \ {c}

Observe(c) ==
  /\ c \in pending \ changed
  /\ \E k \in start[c] .. Len(history) : answer' = [answer EXCEPT ![c] = {history[k]}]
  /\ Ends(c)
  /\ UNCHANGED <<history, safe, whole, start, acked>>

Acknowledge(c) ==
  /\ c \in changed
  /\ safe' \in {safe, Len(history)} /\ start[c] <= safe'
  /\ answer' = [answer EXCEPT ![c] = {history[start[c]]}]
  /\ acked' = acked \cup {start[c]}
  /\ Ends(c)
  /\ UNCHANGED <<history, whole, start>>

\* The outcome of a request that fails after its change is not known.
Abort(c) ==
  /\ c \in pending
  /\ Ends(c)
  /\ UNCHANGED <<history, safe, whole, start, answer, acked>>

Crash ==
  /\ \E k \in safe .. Len(history) : history' = SubSeq(history, 1, k) /\ safe' = k
  /\ pending' = {} /\ changed' = {}
  /\ answer' = [c \in Client |-> {}]
  /\ UNCHANGED <<whole, start, acked>>

Next ==
  \/ Prepare \/ Sync \/ Crash
  \/ \E c \in Client :
       Invoke(c) \/ Change(c) \/ Observe(c) \/ Acknowledge(c) \/ Abort(c)

Spec == Init /\ [][Next]_vars
==============================================================================
