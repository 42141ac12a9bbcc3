----------------------------- MODULE ServiceProofs -----------------------------
(***************************************************************************)
(* Proofs about the parts of the daemon that wait for others: EventBus,    *)
(* for any events, any number of requests and any bus; Startup, for any    *)
(* paths, ports and numbers of attempts; Password, for any requests, any   *)
(* stored hashes and any bounds.                                           *)
(***************************************************************************)
EXTENDS EventBus, TLAPS

CallState ==
  [op : {"none", "list", "delete", "serial"},
   pc : {"idle", "get", "delete", "find", "each", "done"},
   uuid : Event \cup {NoEvent}, serial : Disk \cup {NoEvent},
   list : SUBSET Event, before : SUBSET Event, failed : SUBSET Event]

Storable == {e \in published : Shape[e] \in {"storage", "foreign"}}

\* The bus, the listener and the table, without the requests.
BusInv ==
  /\ addressFile \in BOOLEAN /\ up \in BOOLEAN /\ conn \in BOOLEAN
  /\ published \subseteq Event
  /\ at \in {"dial", "read", "store", "gone", "dead"}
  /\ dials \in 0 .. MaxDials /\ (at = "dial" => dials < MaxDials)
  /\ got \in Event \cup {NoEvent}
  /\ events \subseteq stored /\ stored \subseteq Storable /\ lost \subseteq Storable

\* What is on its way to the table has not been in it: an event travels once.
WireInv ==
  /\ wire \in Seq(published)
  /\ \A i \in 1 .. Len(wire) : wire[i] \notin stored
  /\ \A i, j \in 1 .. Len(wire) : wire[i] = wire[j] => i = j
  /\ at = "store" =>
       /\ got \in Storable \ stored
       /\ \A i \in 1 .. Len(wire) : wire[i] # got

\* What a request knows: the rows of its disk that were there when it came, and
\* still are, are among those it has yet to look at or has failed on.
Kept(r) ==
  /\ r \in CallState
  /\ r.before \subseteq stored /\ r.list \subseteq stored /\ r.failed \subseteq stored
  /\ r.pc \in {"get", "delete"} => r.op = "delete"
  /\ r.pc \in {"find", "each"} => r.op = "serial"
  /\ r.op = "serial" /\ r.pc = "each" =>
       \A e \in r.before \cap events : OfDisk(e, r.serial) => e \in r.list \cup r.failed
  /\ r.op = "serial" /\ r.pc = "done" =>
       \A e \in r.before \cap events : OfDisk(e, r.serial) => e \in r.failed

IInv ==
  /\ BusInv /\ WireInv
  /\ call \in [Call -> CallState]
  /\ \A c \in Call : Kept(call[c])

-----------------------------------------------------------------------------
\* The table takes in only what was never in it.
Fresh == stored \subseteq stored' /\ events' \cap stored \subseteq events

\* A request that does not move keeps what it knows.
LEMMA Frame ==
  ASSUME Fresh, NEW r, Kept(r)
  PROVE  Kept(r)'
  BY Zenon DEF Fresh, Kept

\* A request that has not begun knows nothing.
LEMMA IdleKept == Kept(Idle)
  BY DEF Kept, Idle, CallState

\* The initial states satisfy the invariant.
LEMMA InitInv == Init => IInv
<1> SUFFICES ASSUME Init PROVE IInv
  OBVIOUS
<1>1. BusInv
  <2>1. addressFile \in BOOLEAN /\ up \in BOOLEAN /\ conn \in BOOLEAN
    BY Zenon DEF Init
  <2>2. dials \in 0 .. MaxDials /\ dials < MaxDials
    BY DialsAssumption DEF DialsAssumption, Init
  <2> QED
    BY <2>1, <2>2 DEF Init, BusInv, Storable
<1>2. WireInv
  BY DEF Init, WireInv
<1>3. call \in [Call -> CallState]
  BY IdleKept, Zenon DEF Init, Kept
<1>4. ASSUME NEW c \in Call PROVE Kept(call[c])
  BY IdleKept, Zenon DEF Init
<1> QED
  BY <1>1, <1>2, <1>3, <1>4 DEF IInv

\* A step that leaves the requests alone.
LEMMA BesideInv ==
  ASSUME IInv, Fresh, BusInv', WireInv', UNCHANGED call
  PROVE  IInv'
<1>1. ASSUME NEW c \in Call PROVE Kept(call[c])'
  <2>1. Kept(call[c])
    BY DEF IInv
  <2> QED
    BY <2>1, Frame DEF Kept, Fresh
<1> QED
  BY <1>1, Zenon DEF IInv
-----------------------------------------------------------------------------
(* The bus and the listener *)

\* The bus starts and stops beside everything else.
LEMMA BusInvariant ==
  ASSUME IInv, BusStarts \/ BusStops
  PROVE  IInv'
<1> USE DEF BusStarts, BusStops, busVars, listener, table
<1>1. UNCHANGED <<published, wire, at, dials, got, events, stored, lost, call>>
  BY Zenon
<1>2. addressFile' \in BOOLEAN /\ up' \in BOOLEAN /\ conn' \in BOOLEAN
  BY Zenon DEF IInv, BusInv
<1>3. BusInv' /\ WireInv' /\ Fresh
  BY <1>1, <1>2 DEF IInv, BusInv, WireInv, Storable, Fresh
<1> QED
  BY <1>1, <1>3, BesideInv

\* An event is sent once, and has not been stored before.
LEMMA PublishInv ==
  ASSUME IInv, NEW e \in Event, Publish(e)
  PROVE  IInv'
<1> USE DEF Publish, busVars, listener, table
<1>1. BusInv' /\ Fresh
  BY DEF IInv, BusInv, Storable, Fresh
<1>2. WireInv'
  <2>1. wire \in Seq(published) /\ e \notin published /\ e \notin stored /\ published \subseteq published'
    BY Zenon DEF IInv, BusInv, WireInv, Storable
  <2>2. CASE ~conn
    <3>1. wire' = wire /\ wire' \in Seq(published')
      BY <2>1, <2>2
    <3> QED
      BY <3>1 DEF IInv, WireInv, Storable
  <2>3. CASE conn
    <3>1. /\ wire' = Append(wire, e) /\ wire' \in Seq(published') /\ Len(wire') = Len(wire) + 1
          /\ Len(wire) \in Nat /\ wire'[Len(wire) + 1] = e
          /\ \A i \in 1 .. Len(wire) : wire'[i] = wire[i] /\ wire[i] \in published
      BY <2>1, <2>3
    <3>2. \A i \in 1 .. Len(wire') : wire'[i] \notin stored
      BY <2>1, <3>1 DEF IInv, WireInv
    <3>3. ASSUME NEW i \in 1 .. Len(wire'), NEW j \in 1 .. Len(wire'), wire'[i] = wire'[j]
          PROVE  i = j
      BY <2>1, <3>1, <3>3 DEF IInv, WireInv
    <3>4. at = "store" => got # e /\ \A i \in 1 .. Len(wire') : wire'[i] # got
      BY <2>1, <3>1 DEF IInv, WireInv, Storable
    <3> QED
      BY <3>1, <3>2, <3>3, <3>4 DEF IInv, WireInv, Storable
  <2> QED
    BY <2>2, <2>3, Zenon
<1> QED
  BY <1>1, <1>2, BesideInv

\* A dial changes only the listener.
LEMMA DialInv ==
  ASSUME IInv, Dial
  PROVE  IInv'
<1> USE DEF Dial, busVars, table
<1>1. at' # "store" /\ UNCHANGED <<addressFile, up, published, wire, got, events, stored, lost, call>>
  BY DEF Dial
<1>2. conn' \in BOOLEAN
  BY Zenon DEF IInv, BusInv
<1>3. dials' \in 0 .. MaxDials /\ (at' = "dial" => dials' < MaxDials)
  BY DialsAssumption DEF DialsAssumption, IInv, BusInv
<1>4. at' \in {"dial", "read", "gone"}
  BY Zenon
<1>5. BusInv' /\ WireInv' /\ Fresh
  BY <1>1, <1>2, <1>3, <1>4 DEF IInv, BusInv, WireInv, Storable, Fresh
<1> QED
  BY <1>1, <1>5, BesideInv
\* The message taken off the wire is the only copy of its event.
LEMMA ListenInv ==
  ASSUME IInv, Listen
  PROVE  IInv'
<1> USE DEF busVars, table
<1>1. UNCHANGED <<addressFile, up, published, conn, dials, events, stored, lost, call>>
  BY Zenon DEF Listen
<1>2. wire \in Seq(published) /\ at = "read"
  BY DEF IInv, WireInv, Listen
<1>3. CASE wire = <<>>
  <2>1. wire' = wire /\ at' = "dead" /\ got' = got
    BY <1>3, Zenon DEF Listen, Decoded, HasUuid
  <2>2. BusInv' /\ WireInv' /\ Fresh
    BY <1>1, <1>2, <2>1 DEF IInv, BusInv, WireInv, Storable, Fresh
  <2> QED
    BY <1>1, <2>2, BesideInv
<1>4. CASE wire # <<>>
  <2>1. /\ wire' = Tail(wire) /\ wire' \in Seq(published) /\ Len(wire') = Len(wire) - 1
        /\ Len(wire) \in Nat /\ Len(wire) > 0 /\ Head(wire) = wire[1] /\ wire[1] \in published
        /\ \A i \in 1 .. Len(wire') : wire'[i] = wire[i + 1] /\ i + 1 \in 1 .. Len(wire)
    BY <1>2, <1>4 DEF Listen
  <2>2. /\ \A i \in 1 .. Len(wire') : wire'[i] \notin stored /\ wire'[i] # wire[1]
        /\ \A i, j \in 1 .. Len(wire') : wire'[i] = wire'[j] => i = j
    BY <2>1 DEF IInv, WireInv
  <2>3. wire[1] # NoEvent /\ Shape[wire[1]] \in Shapes /\ wire[1] \notin stored
    BY <2>1, EventAssumption DEF EventAssumption, IInv, BusInv, WireInv
  <2>4. \/ at' = "dead" /\ got' = got
        \/ at' = "read" /\ got' = got
        \/ at' = "store" /\ got' = wire[1] /\ Shape[wire[1]] \in {"storage", "foreign"}
    BY <1>2, <1>4, <2>1, <2>3 DEF Listen, Decoded, HasUuid, Shapes
  <2>5. WireInv'
    BY <1>1, <1>2, <2>1, <2>2, <2>3, <2>4 DEF WireInv, Storable
  <2>6. BusInv' /\ Fresh
    BY <1>1, <2>1, <2>4 DEF IInv, BusInv, Storable, Fresh
  <2> QED
    BY <1>1, <2>5, <2>6, BesideInv
<1> QED
  BY <1>3, <1>4

\* The event that is stored was never in the table, so no request that came
\* before had it in its rows; one whose insert fails leaves the table alone.
LEMMA CreateInv ==
  ASSUME IInv, CreateEvemt
  PROVE  IInv'
<1> USE DEF CreateEvemt, busVars
<1>1. got \in Storable \ stored /\ \A i \in 1 .. Len(wire) : wire[i] # got
  BY DEF IInv, WireInv
<1>2. BusInv' /\ Fresh
  BY <1>1 DEF IInv, BusInv, Storable, Fresh
<1>3. WireInv'
  BY <1>1 DEF IInv, WireInv
<1> QED
  BY <1>2, <1>3, BesideInv

\* The daemon starts again with no requests and an empty wire.
LEMMA RestartInv ==
  ASSUME IInv, Restart
  PROVE  IInv'
<1> USE DEF Restart, busVars, table
<1>1. BusInv'
  <2>1. dials' \in 0 .. MaxDials /\ dials' < MaxDials
    BY DialsAssumption DEF DialsAssumption
  <2>2. UNCHANGED <<addressFile, up, published, events, stored, lost>> /\ conn' \in BOOLEAN
    BY Zenon
  <2> QED
    BY <2>1, <2>2 DEF IInv, BusInv, Storable
<1>2. WireInv'
  BY DEF IInv, WireInv
<1>3. Fresh
  BY DEF Fresh
<1>4. Kept(Idle)'
  BY <1>3, IdleKept, Frame
<1>5. call' \in [Call -> CallState] /\ \A c \in Call : Kept(call[c])'
  BY <1>4, Zenon DEF Kept
<1> QED
  BY <1>1, <1>2, <1>5, Zenon DEF IInv

-----------------------------------------------------------------------------
(* The requests *)

\* What is left to show of a step of one request: what it knows after it.
LEMMA HandlerStep ==
  ASSUME IInv, NEW c \in Call, NEW new, Step(c, new), events' \subseteq events, Kept(new)'
  PROVE  IInv'
<1> USE DEF Step, busVars, listener
<1>1. BusInv' /\ WireInv' /\ Fresh
  BY DEF IInv, BusInv, WireInv, Storable, Fresh
<1>2. new \in CallState
  BY DEF Kept
<1>3. call' \in [Call -> CallState]
  BY <1>2 DEF IInv
<1>4. ASSUME NEW d \in Call PROVE Kept(call[d])'
  <2>1. CASE d = c
    <3>1. call'[d] = new
      BY <2>1, Zenon DEF IInv
    <3> QED
      BY <3>1 DEF Kept
  <2>2. CASE d # c
    <3>1. call'[d] = call[d] /\ Kept(call[d])
      BY <2>2 DEF IInv
    <3> QED
      BY <1>1, <3>1 DEF Kept, Fresh
  <2> QED
    BY <2>1, <2>2, Zenon
<1> QED
  BY <1>1, <1>3, <1>4 DEF IInv

\* A request comes, or goes: it knows nothing but what it was given.
LEMMA BeginInv ==
  ASSUME IInv, NEW c \in Call,
         GetEvents(c) \/ Return(c) \/ (\E e \in Event : DeleteEvent(c, e))
           \/ (\E d \in Disk : DeleteEventBySerial(c, d))
  PROVE  IInv'
<1>1. events \subseteq stored /\ events \subseteq Event /\ stored \subseteq Event
  BY DEF IInv, BusInv, Storable
<1>2. CASE GetEvents(c)
  <2>1. PICK new : new = [Idle EXCEPT !.op = "list", !.pc = "done"]
    OBVIOUS
  <2>2. Step(c, new) /\ events' = events /\ stored' = stored
    BY <1>2, <2>1 DEF GetEvents, Step
  <2>3. Kept(new)'
    BY <1>1, <2>1, <2>2, Zenon DEF Kept, Idle, CallState
  <2> QED
    BY <2>2, <2>3, HandlerStep
<1>3. CASE Return(c)
  <2>1. Step(c, Idle) /\ events' = events /\ stored' = stored
    BY <1>3, Zenon DEF Return, Step
  <2>2. Kept(Idle)'
    BY Zenon, <2>1 DEF Kept, Idle, CallState
  <2>3. PICK new : new = Idle
    OBVIOUS
  <2> QED
    BY <2>1, <2>2, <2>3, HandlerStep, Zenon
<1>4. ASSUME NEW e \in Event, DeleteEvent(c, e) PROVE IInv'
  <2>1. PICK new : new = [Idle EXCEPT !.op = "delete", !.pc = "get", !.uuid = e]
    OBVIOUS
  <2>2. Step(c, new) /\ events' = events /\ stored' = stored
    BY <1>4, <2>1, Zenon DEF DeleteEvent, Step
  <2>3. Kept(new)'
    BY <2>1, <2>2, Zenon DEF Kept, Idle, CallState
  <2> QED
    BY <2>2, <2>3, HandlerStep
<1>5. ASSUME NEW d \in Disk, DeleteEventBySerial(c, d) PROVE IInv'
  <2>1. PICK new : new = [Idle EXCEPT !.op = "serial", !.pc = "find", !.serial = d,
                                      !.before = events]
    OBVIOUS
  <2>2. Step(c, new) /\ events' = events /\ stored' = stored
    BY <1>5, <2>1, Zenon DEF DeleteEventBySerial, Step
  <2>3. Kept(new)'
    BY <1>1, <2>1, <2>2, Zenon DEF Kept, Idle, CallState
  <2> QED
    BY <2>2, <2>3, HandlerStep
<1> QED
  BY <1>2, <1>3, <1>4, <1>5, Zenon

\* The two statements of a deletion by UUID.
LEMMA DeleteInv ==
  ASSUME IInv, NEW c \in Call, GetEventByUUID(c) \/ DeleteEventRow(c)
  PROVE  IInv'
<1>1. events \subseteq stored /\ events \subseteq Event /\ Kept(call[c])
  BY Zenon DEF IInv, BusInv, Storable
<1>2. CASE GetEventByUUID(c)
  <2>1. PICK new : new = [call[c] EXCEPT !.pc = "delete"]
    BY Zenon
  <2>2. Step(c, new) /\ events' = events /\ stored' = stored /\ call[c].pc = "get"
    BY <1>2, <2>1 DEF GetEventByUUID, Step
  <2>3. Kept(new)'
    BY <1>1, <2>1, <2>2, Zenon DEF Kept, CallState
  <2> QED
    BY <2>2, <2>3, HandlerStep
<1>3. CASE DeleteEventRow(c)
  <2>1. PICK new : new = [call[c] EXCEPT !.pc = "done"]
    BY Zenon
  <2>2. /\ Step(c, new) /\ events' \subseteq events /\ stored' = stored
        /\ call[c].pc = "delete"
    BY <1>3, <2>1 DEF DeleteEventRow, Step
  <2>3. Kept(new)'
    BY <1>1, <2>1, <2>2, Zenon DEF Kept, CallState
  <2> QED
    BY <2>2, <2>3, HandlerStep
<1> QED
  BY <1>2, <1>3, Zenon

\* The rows of a disk: one that is not found has failed, each is looked at once,
\* and one that is struck off the list has left the table, or has failed, if it
\* was of the disk.
LEMMA SerialInv ==
  ASSUME IInv, NEW c \in Call, FindEvents(c) \/ NextRow(c) \/ EndOfRows(c)
  PROVE  IInv'
<1>1. events \subseteq stored /\ events \subseteq Event /\ Kept(call[c])
  BY Zenon DEF IInv, BusInv, Storable
<1>2. CASE FindEvents(c)
  <2>0. PICK list \in SUBSET events :
          Step(c, [call[c] EXCEPT !.pc = "each", !.list = list, !.failed = events \ list])
    BY <1>2, Zenon DEF FindEvents
  <2>1. PICK new : new = [call[c] EXCEPT !.pc = "each", !.list = list, !.failed = events \ list]
    BY Zenon
  <2>2. Step(c, new) /\ events' = events /\ stored' = stored /\ call[c].pc = "find"
    BY <1>2, <2>0, <2>1, Zenon DEF FindEvents, Step
  <2>3. Kept(new)'
    BY <1>1, <2>1, <2>2, Zenon DEF Kept, CallState
  <2> QED
    BY <2>2, <2>3, HandlerStep
<1>3. CASE NextRow(c)
  <2>1. PICK e \in call[c].list :
          \/ /\ events' = IF OfDisk(e, call[c].serial) THEN events \ {e} ELSE events
             /\ Step(c, [call[c] EXCEPT !.list = @ \ {e}])
          \/ /\ events' = events
             /\ Step(c, [call[c] EXCEPT !.list = @ \ {e}, !.failed = @ \cup {e}])
    BY <1>3, Zenon DEF NextRow
  <2>2. call[c].pc = "each" /\ stored' = stored
    BY <1>3, <2>1, Zenon DEF NextRow, Step
  <2>3. CASE /\ events' = IF OfDisk(e, call[c].serial) THEN events \ {e} ELSE events
             /\ Step(c, [call[c] EXCEPT !.list = @ \ {e}])
    <3>1. PICK new : new = [call[c] EXCEPT !.list = @ \ {e}]
      BY Zenon
    <3>2. Step(c, new) /\ events' \subseteq events
      BY <2>3, <3>1, Zenon
    <3>3. Kept(new)'
      BY <1>1, <2>2, <2>3, <3>1 DEF Kept, CallState
    <3> QED
      BY <3>2, <3>3, HandlerStep
  <2>4. CASE /\ events' = events
             /\ Step(c, [call[c] EXCEPT !.list = @ \ {e}, !.failed = @ \cup {e}])
    <3>1. PICK new : new = [call[c] EXCEPT !.list = @ \ {e}, !.failed = @ \cup {e}]
      BY Zenon
    <3>2. Step(c, new) /\ events' \subseteq events
      BY <2>4, <3>1, Zenon
    <3>3. Kept(new)'
      BY <1>1, <2>1, <2>2, <2>4, <3>1, Zenon DEF Kept, CallState
    <3> QED
      BY <3>2, <3>3, HandlerStep
  <2> QED
    BY <2>1, <2>3, <2>4, Zenon
<1>4. CASE EndOfRows(c)
  <2>1. PICK new : new = [call[c] EXCEPT !.pc = "done"]
    BY Zenon
  <2>2. /\ Step(c, new) /\ events' = events /\ stored' = stored
        /\ call[c].pc = "each" /\ call[c].list = {}
    BY <1>4, <2>1, Zenon DEF EndOfRows, Step
  <2>3. Kept(new)'
    BY <1>1, <2>1, <2>2 DEF Kept, CallState
  <2> QED
    BY <2>2, <2>3, HandlerStep
<1> QED
  BY <1>2, <1>3, <1>4
-----------------------------------------------------------------------------
\* A stuttering step.
LEMMA StutterInv ==
  ASSUME IInv, UNCHANGED vars
  PROVE  IInv'
<1>1. BusInv' /\ WireInv' /\ Fresh /\ call' = call
  BY DEF IInv, vars, busVars, listener, table, BusInv, WireInv, Storable, Fresh
<1> QED
  BY <1>1, BesideInv, Zenon

\* The invariant holds in every reachable state.
THEOREM Invariance == Spec => []IInv
<1>1. Init => IInv
  BY InitInv
<1>2. IInv /\ [Next]_vars => IInv'
  <2> SUFFICES ASSUME IInv, [Next]_vars PROVE IInv'
    OBVIOUS
  <2>1. CASE UNCHANGED vars
    BY <2>1, StutterInv
  <2>2. CASE BusStarts \/ BusStops \/ \E e \in Event : Publish(e)
    BY <2>2, BusInvariant, PublishInv
  <2>3. CASE Listener
    BY <2>3, DialInv, ListenInv, CreateInv, RestartInv, Zenon DEF Listener
  <2>4. ASSUME NEW c \in Call, Handler(c) PROVE IInv'
    BY <2>4, BeginInv, DeleteInv, SerialInv DEF Handler
  <2> QED
    BY <2>1, <2>2, <2>3, <2>4 DEF Next
<1> QED
  BY <1>1, <1>2, PTL DEF Spec

\* Every variable keeps its type: the listener never counts past its dials, and
\* the table holds nothing that was not decoded.
THEOREM TypeCorrect == Spec => []TypeOK
<1>1. ASSUME IInv, NEW c \in Call
      PROVE  /\ call[c].op \in {"none", "list", "delete", "serial"}
             /\ call[c].pc \in {"idle", "get", "delete", "find", "each", "done"}
             /\ call[c].list \cup call[c].failed \subseteq stored
  BY <1>1, Zenon DEF IInv, Kept, CallState
<1>2. IInv => TypeOK
  BY <1>1, Zenon DEF IInv, BusInv, WireInv, Storable, TypeOK
<1> QED
  BY <1>2, Invariance, PTL

\* DeleteEventBySerial leaves, of the rows of the disk that were in the table when
\* the request came, only those one of its own statements failed on, however the
\* listener and other requests run beside it.
THEOREM SerialIsClearedHolds == Spec => []SerialIsCleared
<1>1. IInv => SerialIsCleared
  BY Zenon DEF IInv, Kept, SerialIsCleared
<1> QED
  BY <1>1, Invariance, PTL

\* No handler, and nothing else, removes a row that no request has named.
THEOREM OnlyNamedRowsGoHolds == Spec => OnlyNamedRowsGo
<1> DEFINE Named(e) ==
      \E c \in Call : \/ call[c].op = "delete" /\ call[c].uuid = e
                      \/ call[c].op = "serial" /\ OfDisk(e, call[c].serial)
<1>1. ASSUME IInv, [Next]_vars, NEW e \in events \ events' PROVE Named(e)
  <2>1. ~UNCHANGED events
    BY <1>1, Zenon
  <2>2. ~(BusStarts \/ BusStops \/ (\E x \in Event : Publish(x)) \/ Listener \/ UNCHANGED vars)
    BY <1>1, Zenon DEF BusStarts, BusStops, Publish, Listener, Dial, Listen, CreateEvemt, Restart, vars, table
  <2>3. PICK c \in Call : Handler(c)
    BY <1>1, <2>2, Zenon DEF Next
  <2>4. DeleteEventRow(c) \/ NextRow(c)
    BY <2>1, <2>3, Zenon DEF Handler, GetEvents, DeleteEvent, GetEventByUUID, DeleteEventBySerial,
                      FindEvents, EndOfRows, Return
  <2>5. Kept(call[c])
    BY <1>1, Zenon DEF IInv
  <2>6. CASE DeleteEventRow(c)
    BY <1>1, <2>5, <2>6, Zenon DEF DeleteEventRow, Kept
  <2>7. CASE NextRow(c)
    <3>1. OfDisk(e, call[c].serial)
      BY <1>1, <2>7, Zenon DEF NextRow
    <3> QED
      BY <2>5, <2>7, <3>1, Zenon DEF NextRow, Kept
  <2> QED
    BY <2>4, <2>6, <2>7, Zenon
<1>2. IInv /\ [Next]_vars => [\A e \in events \ events' : Named(e)]_vars
  BY <1>1, Zenon
<1> QED
  BY <1>2, Invariance, PTL DEF Spec, OnlyNamedRowsGo

-----------------------------------------------------------------------------
(* Startup *)

CONSTANTS Path, Port, NoPort, AddressTries, RegisterTries, ListenTries, BusState, MaxEnds
VARIABLES gateway, starts, addressOf, tokenOf, routes, bus, step, port, next, address,
          token, tries, publishedPort, listening, failedDials, ends

Daemon == INSTANCE Startup WITH
  addressFile <- addressOf, tokenFile <- tokenOf, at <- step, published <- publishedPort,
  dials <- failedDials, faults <- ends, MaxFaults <- MaxEnds

StartAssumption == Daemon!TriesAssumption /\ Daemon!BusAssumption /\ Daemon!PathAssumption

\* The daemon is registering its routes; it has registered them all.
Registering == {"address", "token", "send"}
Registered  == {"truncate", "write", "register", "serving"}

\* The gateway: at most one start more than there were ends.
GatewayInv ==
  /\ ends \in 0 .. MaxEnds
  /\ starts \in Nat /\ starts <= ends + 1 /\ (gateway = 0 => starts <= ends)
  /\ gateway \in {0, starts}
  /\ addressOf \in 0 .. starts /\ tokenOf \in 0 .. starts
  /\ address \in 0 .. starts /\ token \in 0 .. starts
  /\ bus \in BusState

\* The loops of the daemon are bounded.
LoopInv ==
  /\ step \in Daemon!Steps
  /\ tries \in Nat
  /\ tries <= IF step = "wait" THEN AddressTries
              ELSE IF step = "register" THEN RegisterTries - 1 ELSE 0

\* The routes up to the next lead to this listener or nowhere.
RouteInv ==
  /\ routes \in [Daemon!Paths -> Port \cup {NoPort}]
  /\ port \in Port \cup {NoPort} /\ publishedPort \in Port \cup {NoPort}
  /\ next \in 1 .. (Len(Path) + 1)
  /\ step \in Registering => next <= Len(Path)
  /\ step \in Registered => next = Len(Path) + 1
  /\ step \notin Registering \cup Registered => next = 1
  /\ \A i \in 1 .. (next - 1) : routes[Path[i]] \in {port, NoPort}
  /\ step \in Daemon!Ready => publishedPort = port

StartInv == GatewayInv /\ LoopInv /\ RouteInv

\* The listener beside main stops dialling at its bound.
ListenerInv ==
  /\ listening \in {"none", "dial", "read", "broken", "gone"}
  /\ failedDials \in 0 .. ListenTries
  /\ listening = "dial" => failedDials < ListenTries

\* Every step keeps ListenerInv (EventListen, started where main.go has written the
\* address file and ended with the process).
LEMMA ListenerStep ==
  ASSUME StartAssumption, ListenerInv, Daemon!Next
  PROVE  ListenerInv'
<1>0. ListenTries \in Nat \ {0}
  BY DEF StartAssumption, Daemon!TriesAssumption
<1>1. \/ UNCHANGED <<listening, failedDials>>
      \/ listening' \in {"none", "dial"} /\ failedDials' = 0
      \/ listening' \in {"read", "broken", "gone"} /\ failedDials' = failedDials
      \/ Daemon!DialMessageBus
  <2>1. CASE Daemon!Gateway \/ Daemon!GatewayEnd \/ Daemon!StartLimitHit
    BY <2>1, Zenon DEF Daemon!Gateway, Daemon!GatewayStart, Daemon!WriteFiles, Daemon!GatewayEnd,
      Daemon!StartLimitHit, Daemon!others, Daemon!listener
  <2>2. CASE Daemon!BusChanges
    BY <2>2, Zenon DEF Daemon!BusChanges
  <2>3. CASE Daemon!Kill \/ Daemon!PanicInListener
    BY <2>3, Zenon DEF Daemon!Kill, Daemon!PanicInListener, Daemon!End
  <2>4. CASE Daemon!Daemon
    BY <2>4, Zenon DEF Daemon!Daemon, Daemon!Start, Daemon!WaitForAddress, Daemon!Ping, Daemon!Listen,
      Daemon!ReadAddress, Daemon!ReadToken, Daemon!CreateRoute, Daemon!TruncateAddressFile,
      Daemon!WriteAddressFile, Daemon!RegisterAtMessageBus, Daemon!others, Daemon!listener, Daemon!End
  <2> QED
    BY <2>1, <2>2, <2>3, <2>4, Zenon DEF Daemon!Next, Daemon!EventListen
<1>2. CASE Daemon!DialMessageBus
  <2>1. failedDials < ListenTries
    BY <1>2 DEF Daemon!DialMessageBus, ListenerInv
  <2>2. \/ listening' \in {"read", "gone"} /\ failedDials' = failedDials
        \/ failedDials' = failedDials + 1
           /\ listening' = IF failedDials' = ListenTries THEN "gone" ELSE "dial"
    BY <1>2, Zenon DEF Daemon!DialMessageBus
  <2> QED
    BY <1>0, <2>1, <2>2 DEF ListenerInv
<1>3. CASE UNCHANGED <<listening, failedDials>>
  BY <1>3, Zenon DEF ListenerInv
<1>4. CASE listening' \in {"none", "dial"} /\ failedDials' = 0
  BY <1>0, <1>4 DEF ListenerInv
<1>5. CASE listening' \in {"read", "broken", "gone"} /\ failedDials' = failedDials
  BY <1>5 DEF ListenerInv
<1> QED
  BY <1>1, <1>2, <1>3, <1>4, <1>5, Zenon

\* The loop of main over the paths: the one being registered, those before it and
\* the one after it.
LEMMA PathLoop ==
  /\ \A n \in Nat : \A i \in 1 .. (n + 1) : i <= n => i \in 1 .. n
  /\ \A n \in Nat : \A i \in 1 .. n :
       /\ i + 1 \in 1 .. (n + 1) /\ (i + 1) - 1 = i /\ (i # n => i + 1 <= n)
       /\ \A j \in 1 .. i : j \in 1 .. n /\ (j # i => j \in 1 .. (i - 1))
  OBVIOUS

\* A daemon that ends, at any point of main, leaves the next one with nothing
\* registered and no listener.
LEMMA Ended ==
  ASSUME StartAssumption, StartInv, Daemon!End,
         UNCHANGED <<gateway, starts, addressOf, tokenOf, routes, bus, publishedPort>>,
         ends' \in 0 .. MaxEnds, ends' \in {ends, ends + 1}
  PROVE  StartInv'
<1>1. Len(Path) \in Nat /\ MaxEnds \in Nat
  BY DEF StartAssumption, Daemon!PathAssumption, Daemon!TriesAssumption
<1>2. GatewayInv'
  <2>1. address' = 0 /\ token' = 0
    BY DEF Daemon!End
  <2>2. ends \in Nat /\ starts \in Nat /\ starts <= ends + 1
    BY <1>1 DEF StartInv, GatewayInv
  <2>3. gateway = 0 => starts <= ends
    BY DEF StartInv, GatewayInv
  <2>4. ends' \in Nat /\ ends <= ends'
    BY <1>1, <2>2
  <2>5. starts' <= ends' + 1
    <3>1. \A a, b, c \in Nat : a <= b + 1 /\ b <= c => a <= c + 1
      OBVIOUS
    <3>2. starts' = starts
      OBVIOUS
    <3> QED
      BY <2>2, <2>4, <3>1, <3>2, Zenon
  <2>6. gateway' = 0 => starts' <= ends'
    BY <2>2, <2>3, <2>4, Zenon
  <2>7. gateway' \in {0, starts'} /\ bus' \in BusState /\ starts' \in Nat
    BY Zenon DEF StartInv, GatewayInv
  <2>8. addressOf' \in 0 .. starts' /\ tokenOf' \in 0 .. starts'
    BY Zenon DEF StartInv, GatewayInv
  <2>9. address' \in 0 .. starts' /\ token' \in 0 .. starts'
    BY <2>1, <2>7
  <2> QED
    BY <2>5, <2>6, <2>7, <2>8, <2>9, Zenon DEF GatewayInv
<1>3. LoopInv'
  BY DEF LoopInv, Daemon!End, Daemon!Steps
<1>4. RouteInv'
  BY <1>1 DEF StartInv, RouteInv, Daemon!End, Registering, Registered, Daemon!Ready
<1> QED
  BY <1>2, <1>3, <1>4, Zenon DEF StartInv

\* Every step of the daemon's start and of its listener (main.go, CreateRoute and the reads of
\* pkg/gatewayclient), of the gateway and of the bus keeps StartInv.
LEMMA StartStep ==
  ASSUME StartAssumption, StartInv, Daemon!Next
  PROVE  StartInv'
<1>0. Len(Path) \in Nat /\ Len(Path) >= 1 /\ (\A i \in 1 .. Len(Path) : Path[i] \in Daemon!Paths)
      /\ AddressTries \in Nat \ {0} /\ RegisterTries \in Nat \ {0} /\ MaxEnds \in Nat
  BY DEF StartAssumption, Daemon!PathAssumption, Daemon!TriesAssumption, Daemon!Paths
<1> DEFINE Quiet == UNCHANGED <<gateway, starts, addressOf, tokenOf, routes, bus>>
<1>1. CASE Daemon!GatewayStart
  <2>1. GatewayInv'
    BY <1>1 DEF Daemon!GatewayStart, Daemon!readVars, StartInv, GatewayInv
  <2>2. LoopInv'
    BY <1>1, Zenon DEF Daemon!GatewayStart, StartInv, LoopInv
  <2>3. \A i \in 1 .. (next - 1) : Path[i] \in Daemon!Paths
    BY <1>0 DEF StartInv, RouteInv
  <2>4. routes' \in [Daemon!Paths -> Port \cup {NoPort}]
        /\ \A p \in Daemon!Paths : routes'[p] \in {routes[p], NoPort}
    BY <1>1 DEF Daemon!GatewayStart, StartInv, RouteInv
  <2>5. RouteInv'
    BY <1>1, <2>3, <2>4 DEF Daemon!GatewayStart, StartInv, RouteInv
  <2> QED
    BY <2>1, <2>2, <2>5 DEF StartInv
<1>2. CASE Daemon!WriteFiles
  <2>1. GatewayInv'
    BY <1>2 DEF Daemon!WriteFiles, Daemon!readVars, StartInv, GatewayInv
  <2>2. LoopInv' /\ RouteInv'
    BY <1>2 DEF Daemon!WriteFiles, StartInv, LoopInv, RouteInv
  <2> QED
    BY <2>1, <2>2, Zenon DEF StartInv
<1>3. CASE Daemon!GatewayEnd
  <2>1. GatewayInv'
    BY <1>0, <1>3 DEF Daemon!GatewayEnd, Daemon!Fault, Daemon!readVars, StartInv, GatewayInv
  <2>2. LoopInv' /\ RouteInv'
    BY <1>3, Zenon DEF Daemon!GatewayEnd, StartInv, LoopInv, RouteInv
  <2> QED
    BY <2>1, <2>2 DEF StartInv
<1>4. CASE Daemon!BusChanges
  <2>1. GatewayInv'
    BY <1>4, Zenon DEF Daemon!BusChanges, Daemon!readVars, Daemon!gatewayVars, StartInv, GatewayInv
  <2>2. LoopInv' /\ RouteInv'
    BY <1>4, Zenon DEF Daemon!BusChanges, StartInv, LoopInv, RouteInv
  <2> QED
    BY <2>1, <2>2 DEF StartInv
<1>5. CASE Daemon!Kill
  <2>1. Daemon!End /\ Quiet /\ UNCHANGED publishedPort /\ ends' = ends + 1 /\ ends < MaxEnds
    BY <1>5, Zenon DEF Daemon!Kill, Daemon!Fault, Daemon!environment, Daemon!gatewayVars
  <2>2. ends' \in 0 .. MaxEnds /\ ends' \in {ends, ends + 1}
    BY <1>0, <2>1 DEF StartInv, GatewayInv
  <2> QED
    BY <2>1, <2>2, Ended
<1>6. CASE Daemon!Daemon
  <2>0. UNCHANGED <<gateway, starts, addressOf, tokenOf, bus, ends>>
    BY <1>6, Zenon DEF Daemon!Daemon, Daemon!Start, Daemon!WaitForAddress, Daemon!Ping, Daemon!Listen,
      Daemon!ReadAddress, Daemon!ReadToken, Daemon!CreateRoute, Daemon!TruncateAddressFile,
      Daemon!WriteAddressFile, Daemon!RegisterAtMessageBus, Daemon!environment, Daemon!gatewayVars,
      Daemon!others
  <2>1. ASSUME Daemon!End, UNCHANGED <<routes, publishedPort>> PROVE StartInv'
    <3>1. ends' \in 0 .. MaxEnds /\ ends' \in {ends, ends + 1}
      BY <2>0, Zenon DEF StartInv, GatewayInv
    <3> QED
      BY <2>0, <2>1, <3>1, Ended, Zenon
  <2>a. 0 \in 0 .. starts
    BY DEF StartInv, GatewayInv
  <2>2. ASSUME address' \in {address, addressOf, 0}, token' \in {token, tokenOf, 0} PROVE GatewayInv'
    BY <2>0, <2>a, <2>2, Zenon DEF StartInv, GatewayInv
  <2>3. CASE Daemon!Start
    <3>1. LoopInv'
      BY <1>0, <2>3 DEF Daemon!Start, Daemon!Goto, StartInv, LoopInv, Daemon!Steps
    <3>2. RouteInv'
      BY <2>3, Zenon DEF Daemon!Start, Daemon!Goto, Daemon!environment, StartInv, RouteInv, Registering, Registered, Daemon!Ready
    <3> QED
      BY <2>2, <2>3, <3>1, <3>2, Zenon DEF Daemon!Start, Daemon!readVars, StartInv
  <2>4. CASE Daemon!WaitForAddress
    <3>1. CASE Daemon!End
      BY <2>1, <2>4, <3>1, Zenon DEF Daemon!WaitForAddress, Daemon!environment
    <3>2. CASE ~Daemon!End
      <4>0. step = "wait" /\ UNCHANGED <<routes, publishedPort, port, next, token>>
            /\ \/ tries < AddressTries /\ tries' = tries + 1 /\ step' = step /\ address' = address
               \/ address' = addressOf /\ tries' = 0 /\ step' = "ping"
        BY <2>4, <3>2, Zenon DEF Daemon!WaitForAddress, Daemon!Goto, Daemon!environment, Daemon!readVars
      <4>1. LoopInv'
        BY <1>0, <4>0 DEF StartInv, LoopInv, Daemon!Steps
      <4>2. RouteInv'
        BY <4>0, Zenon DEF StartInv, RouteInv, Registering, Registered, Daemon!Ready
      <4> QED
        BY <2>2, <4>0, <4>1, <4>2, Zenon DEF StartInv
    <3> QED
      BY <3>1, <3>2, Zenon
  <2>5. CASE Daemon!Ping
    <3>1. CASE Daemon!End
      BY <2>1, <2>5, <3>1, Zenon DEF Daemon!Ping, Daemon!environment
    <3>2. CASE ~Daemon!End
      <4>0. step = "ping" /\ step' = "listen" /\ address' = 0
            /\ UNCHANGED <<routes, publishedPort, port, next, token, tries>>
        BY <2>5, <3>2, Zenon DEF Daemon!Ping, Daemon!Goto, Daemon!environment, Daemon!readVars
      <4>1. LoopInv'
        BY <4>0, Zenon DEF StartInv, LoopInv, Daemon!Steps
      <4>2. RouteInv'
        BY <4>0, Zenon DEF StartInv, RouteInv, Registering, Registered, Daemon!Ready
      <4> QED
        BY <2>2, <4>0, <4>1, <4>2, Zenon DEF StartInv
    <3> QED
      BY <3>1, <3>2
  <2>6. CASE Daemon!Listen
    <3>0. step = "listen" /\ step' = "address" /\ port' \in Port
          /\ UNCHANGED <<routes, publishedPort, next, token, address, tries>>
      BY <2>6, Zenon DEF Daemon!Listen, Daemon!Goto, Daemon!environment, Daemon!readVars
    <3>1. LoopInv'
      BY <3>0, Zenon DEF StartInv, LoopInv, Daemon!Steps
    <3>2. RouteInv'
      BY <1>0, <3>0 DEF StartInv, RouteInv, Registering, Registered, Daemon!Ready
    <3> QED
      BY <2>2, <3>0, <3>1, <3>2, Zenon DEF StartInv
  <2>7. CASE Daemon!ReadAddress
    <3>0. step = "address" /\ step' = "token" /\ address' = addressOf
          /\ UNCHANGED <<routes, publishedPort, port, next, token, tries>>
      BY <2>7 DEF Daemon!ReadAddress, Daemon!Goto, Daemon!environment
    <3>1. LoopInv'
      BY <3>0, Zenon DEF StartInv, LoopInv, Daemon!Steps
    <3>2. RouteInv'
      BY <3>0 DEF StartInv, RouteInv, Registering, Registered, Daemon!Ready
    <3> QED
      BY <2>2, <3>0, <3>1, <3>2, Zenon DEF StartInv
  <2>8. CASE Daemon!ReadToken
    <3>1. CASE Daemon!End
      BY <2>1, <2>8, <3>1, Zenon DEF Daemon!ReadToken, Daemon!environment
    <3>2. CASE ~Daemon!End
      <4>0. step = "token" /\ step' = "send" /\ token' = tokenOf
            /\ UNCHANGED <<routes, publishedPort, port, next, address, tries>>
        BY <2>8, <3>2, Zenon DEF Daemon!ReadToken, Daemon!Goto, Daemon!environment
      <4>1. LoopInv'
        BY <4>0, Zenon DEF StartInv, LoopInv, Daemon!Steps
      <4>2. RouteInv'
        BY <4>0, Zenon DEF StartInv, RouteInv, Registering, Registered, Daemon!Ready
      <4> QED
        BY <2>2, <4>0, <4>1, <4>2, Zenon DEF StartInv
    <3> QED
      BY <3>1, <3>2, Zenon
  <2>9. CASE Daemon!CreateRoute
    <3>1. CASE Daemon!End
      BY <2>1, <2>9, <3>1, Zenon DEF Daemon!CreateRoute, Daemon!Goto, Daemon!End
    <3>2. CASE ~Daemon!End
      <4>0. /\ step = "send" /\ step' = (IF next = Len(Path) THEN "truncate" ELSE "address")
            /\ routes' = [routes EXCEPT ![Path[next]] = port] /\ next' = next + 1
            /\ address' = 0 /\ token' = 0
            /\ UNCHANGED <<publishedPort, port, tries>>
        BY <2>9, <3>2, Zenon DEF Daemon!CreateRoute, Daemon!Goto, Daemon!LastPath, Daemon!readVars
      <4>1. LoopInv'
        BY <4>0, Zenon DEF StartInv, LoopInv, Daemon!Steps
      <4>2. next \in 1 .. Len(Path)
        BY <1>0, <4>0, PathLoop, Zenon DEF StartInv, RouteInv, Registering
      <4>3. /\ next' \in 1 .. (Len(Path) + 1) /\ next' - 1 = next
            /\ (next # Len(Path) => next' <= Len(Path))
            /\ \A i \in 1 .. next : i \in 1 .. Len(Path) /\ (i # next => i \in 1 .. (next - 1))
        BY <1>0, <4>0, <4>2, PathLoop, Zenon
      <4>4. routes' \in [Daemon!Paths -> Port \cup {NoPort}]
            /\ \A i \in 1 .. next : routes'[Path[i]] \in {port, NoPort}
        BY <1>0, <4>0, <4>3, Zenon DEF StartInv, RouteInv
      <4>5. RouteInv'
        BY <4>0, <4>3, <4>4, Zenon DEF StartInv, RouteInv, Registering, Registered, Daemon!Ready
      <4> QED
        BY <2>2, <4>0, <4>1, <4>5, Zenon DEF StartInv
    <3> QED
      BY <3>1, <3>2, Zenon
  <2>10. CASE Daemon!TruncateAddressFile
    <3>0. step = "truncate" /\ step' = "write" /\ publishedPort' = NoPort
          /\ UNCHANGED <<routes, port, next, token, address, tries>>
      BY <2>10, Zenon DEF Daemon!TruncateAddressFile, Daemon!Goto, Daemon!environment, Daemon!readVars
    <3>1. LoopInv'
      BY <3>0, Zenon DEF StartInv, LoopInv, Daemon!Steps
    <3>2. RouteInv'
      BY <3>0, Zenon DEF StartInv, RouteInv, Registering, Registered, Daemon!Ready
    <3> QED
      BY <2>2, <3>0, <3>1, <3>2, Zenon DEF StartInv
  <2>11. CASE Daemon!WriteAddressFile
    <3>0. step = "write" /\ step' = "register" /\ publishedPort' = port
          /\ UNCHANGED <<routes, port, next, token, address, tries>>
      BY <2>11, Zenon DEF Daemon!WriteAddressFile, Daemon!Goto, Daemon!environment, Daemon!readVars
    <3>1. LoopInv'
      BY <1>0, <3>0 DEF StartInv, LoopInv, Daemon!Steps
    <3>2. RouteInv'
      BY <3>0, Zenon DEF StartInv, RouteInv, Registering, Registered, Daemon!Ready
    <3> QED
      BY <2>2, <3>0, <3>1, <3>2, Zenon DEF StartInv
  <2>12. CASE Daemon!RegisterAtMessageBus
    <3>0. /\ step = "register"
          /\ \/ step' = "serving" /\ tries' = 0
             \/ tries # RegisterTries - 1 /\ tries' = tries + 1 /\ step' = step
          /\ UNCHANGED <<routes, publishedPort, port, next, token, address>>
      BY <2>12 DEF Daemon!RegisterAtMessageBus, Daemon!LoopEnds, Daemon!Goto, Daemon!environment, Daemon!readVars
    <3>1. LoopInv'
      BY <1>0, <3>0 DEF StartInv, LoopInv, Daemon!Steps
    <3>2. RouteInv'
      BY Zenon, <3>0 DEF StartInv, RouteInv, Registering, Registered, Daemon!Ready
    <3> QED
      BY <2>2, <3>0, <3>1, <3>2, Zenon DEF StartInv
  <2> QED
    BY <1>6, <2>3, <2>4, <2>5, <2>6, <2>7, <2>8, <2>9, <2>10, <2>11, <2>12, Zenon DEF Daemon!Daemon
<1>7. CASE Daemon!PanicInListener
  <2>1. Daemon!End /\ Quiet /\ UNCHANGED <<publishedPort, ends>>
    BY <1>7, Zenon DEF Daemon!PanicInListener, Daemon!environment, Daemon!gatewayVars
  <2>2. ends' \in 0 .. MaxEnds /\ ends' \in {ends, ends + 1}
    BY <2>1, Zenon DEF StartInv, GatewayInv
  <2> QED
    BY <2>1, <2>2, Ended, Zenon
<1>8. CASE Daemon!DialMessageBus
  <2>1. Quiet /\ UNCHANGED <<step, port, next, address, token, tries, publishedPort, ends>>
    BY <1>8, Zenon DEF Daemon!DialMessageBus, Daemon!environment, Daemon!gatewayVars, Daemon!readVars
  <2> QED
    BY <2>1, Zenon DEF StartInv, GatewayInv, LoopInv, RouteInv
<1>9. CASE Daemon!StartLimitHit
  <2>1. /\ Quiet /\ UNCHANGED <<port, next, address, token, tries, publishedPort, ends>>
        /\ step = "off" /\ step' = "failed"
    BY <1>9, Zenon DEF Daemon!StartLimitHit, Daemon!Goto, Daemon!environment, Daemon!gatewayVars,
      Daemon!readVars, Daemon!others
  <2>2. GatewayInv'
    BY <2>1, Zenon DEF StartInv, GatewayInv
  <2>3. LoopInv'
    BY <2>1, Zenon DEF StartInv, LoopInv, Daemon!Steps
  <2>4. RouteInv'
    BY <2>1, Zenon DEF StartInv, RouteInv, Registering, Registered, Daemon!Ready
  <2> QED
    BY <2>2, <2>3, <2>4, Zenon DEF StartInv
<1> QED
  BY <1>1, <1>2, <1>3, <1>4, <1>5, <1>6, <1>7, <1>8, <1>9, Zenon
    DEF Daemon!Next, Daemon!Gateway, Daemon!EventListen

\* The inductive invariant of the start: a route this process has registered is its
\* own or was dropped by a gateway started since.
THEOREM StartInvariance == StartAssumption => (Daemon!Spec => []StartInv)
<1> SUFFICES ASSUME StartAssumption PROVE Daemon!Spec => []StartInv
  OBVIOUS
<1>1. Daemon!Init => StartInv
  <2> SUFFICES ASSUME Daemon!Init PROVE StartInv
    OBVIOUS
  <2>0. Len(Path) \in Nat /\ MaxEnds \in Nat
    BY DEF StartAssumption, Daemon!PathAssumption, Daemon!TriesAssumption
  <2>1. GatewayInv /\ LoopInv
    BY <2>0 DEF Daemon!Init, GatewayInv, LoopInv, Daemon!Steps
  <2>2. RouteInv
    BY <2>0 DEF Daemon!Init, RouteInv, Registering, Registered, Daemon!Ready
  <2> QED
    BY <2>1, <2>2 DEF StartInv
<1>2. StartInv /\ [Daemon!Next]_(Daemon!vars) => StartInv'
  <2>1. CASE Daemon!Next
    BY <2>1, StartStep, Zenon
  <2>2. CASE UNCHANGED Daemon!vars
    BY Zenon, <2>2 DEF Daemon!vars, StartInv, GatewayInv, LoopInv, RouteInv
  <2> QED
    BY <2>1, <2>2, Zenon
<1> QED
  BY <1>1, <1>2, PTL DEF Daemon!Spec

\* The start stays in its types: no loop of main.go, and not that of EventListen,
\* goes past its attempts.
THEOREM StartTypeCorrect == StartAssumption => (Daemon!Spec => []Daemon!TypeOK)
<1> SUFFICES ASSUME StartAssumption PROVE Daemon!Spec => []Daemon!TypeOK
  OBVIOUS
<1>1. StartInv /\ ListenerInv => Daemon!TypeOK
  BY DEF StartAssumption, Daemon!TriesAssumption, StartInv, GatewayInv, LoopInv, RouteInv, ListenerInv,
         Daemon!TypeOK
<1>2. Daemon!Init => ListenerInv
  BY DEF StartAssumption, Daemon!TriesAssumption, Daemon!Init, ListenerInv
<1>3. ListenerInv /\ [Daemon!Next]_(Daemon!vars) => ListenerInv'
  <2>1. CASE UNCHANGED Daemon!vars
    BY <2>1, Zenon DEF Daemon!vars, ListenerInv
  <2> QED
    BY <2>1, ListenerStep, Zenon
<1> QED
  BY <1>1, <1>2, <1>3, StartInvariance, PTL DEF Daemon!Spec

\* When systemd is told that the daemon is ready, neither a route of the gateway nor
\* the address file leads to an earlier process, whatever the paths and however
\* often daemon and gateway were restarted (main.go).
THEOREM NoStaleRouteHolds == StartAssumption => (Daemon!Spec => []Daemon!NoStaleRoute)
<1> SUFFICES ASSUME StartAssumption PROVE Daemon!Spec => []Daemon!NoStaleRoute
  OBVIOUS
<1>1. StartInv => Daemon!NoStaleRoute
  <2> SUFFICES ASSUME StartInv, step \in Daemon!Ready PROVE Daemon!NoStaleRoute
    BY Zenon DEF Daemon!NoStaleRoute
  <2>1. next = Len(Path) + 1 /\ Len(Path) \in Nat
    BY DEF StartInv, RouteInv, Registered, Daemon!Ready, StartAssumption, Daemon!PathAssumption
  <2>2. \A i \in 1 .. Len(Path) : routes[Path[i]] \in {port, NoPort}
    BY <2>1 DEF StartInv, RouteInv
  <2> QED
    BY <2>2, Zenon DEF StartInv, RouteInv, Daemon!NoStaleRoute, Daemon!Paths
<1> QED
  BY <1>1, StartInvariance, PTL

-----------------------------------------------------------------------------
(* Password *)

CONSTANTS Request, Stored, Bad, MinMemory, MaxMemory, MinIterations, MaxIterations,
          MinParallelism, MaxParallelism, MinLength, MaxLength, Range32, Range8, Default
VARIABLES hash, gate, pc, job, using, read, right

Work == INSTANCE Password WITH stored <- hash

WorkAssumption ==
  /\ Work!StoredAssumption /\ Work!BadAssumption /\ Work!BoundsAssumption
  /\ Work!WidthAssumption /\ Work!DefaultAssumption

\* A request that verifies derives with what the hash it read says.
AsRead(r) == job[r] \in {"verify", "reverify"} => using[r] = Work!WrittenCost(read[r])

\* Whoever derives holds the gate.
WorkInv ==
  /\ Work!TypeOK
  /\ \A r \in Request : pc[r] = "derive" => gate /\ \A s \in Request : pc[s] = "derive" => s = r
  /\ \A r \in Request : AsRead(r)

\* A number that fits a field is not changed by the conversion to it.
LEMMA CutFits == \A n, m \in Nat : n < m => n % m = n
  OBVIOUS

\* A numeral beyond its field is beyond the bounds.
LEMMA WideIsOut == \A n, m, b \in Nat : m > b /\ n >= m => ~(n <= b)
  OBVIOUS

\* What parse makes of a numeral of a field of m values, none of them needed above
\* the bound b: the number, or nothing if it is above the bound.
LEMMA Numeral ==
  ASSUME WorkAssumption, NEW v \in Nat \cup {Bad}, NEW m \in Nat, NEW b \in Nat, m > b
  PROVE  /\ Work!parseUint(v, m) # Bad =>
              v \in Nat /\ v # Bad /\ Work!Cut(Work!parseUint(v, m), m) = v
         /\ Work!parseUint(v, m) = Bad => v = Bad \/ ~(v <= b)
<1>1. Bad \notin Nat
  BY DEF WorkAssumption, Work!BadAssumption
<1>2. CASE v = Bad
  BY <1>2, Zenon DEF Work!parseUint
<1>3. CASE v # Bad
  <2>1. v \in Nat
    BY <1>3, Zenon
  <2>2. CASE v >= m
    BY <1>3, <2>1, <2>2, WideIsOut, Zenon DEF Work!parseUint
  <2>3. CASE ~(v >= m)
    <3>1. v < m
      BY <2>1, <2>3
    <3> QED
      BY <1>1, <1>3, <2>1, <2>3, <3>1, CutFits, Zenon DEF Work!parseUint, Work!Cut
  <2> QED
    BY <2>2, <2>3, Zenon
<1> QED
  BY <1>2, <1>3, Zenon

\* What parse accepts is within the bounds and is what is written; what it rejects
\* is not within the bounds and is derived with the default parameters.
LEMMA ParseExact ==
  ASSUME WorkAssumption, NEW e \in Work!Encoded
  PROVE  /\ Work!parse(e).parameters \in Work!Parameters
         /\ Work!validateParameters(Work!parse(e).parameters)
         /\ Work!parse(e).parameters = Work!WrittenCost(e)
<1> DEFINE m == Work!parseUint(e.memory, Range32)
           t == Work!parseUint(e.iterations, Range32)
           l == Work!parseUint(e.parallelism, Range8)
           p == [memory |-> Work!Cut(m, Range32), iterations |-> Work!Cut(t, Range32),
                 parallelism |-> Work!Cut(l, Range8), salt |-> e.salt, key |-> e.key]
           w == [memory |-> e.memory, iterations |-> e.iterations, parallelism |-> e.parallelism,
                 salt |-> e.salt, key |-> e.key]
           Readable == e.frame /\ Bad \notin {m, t, l, e.salt, e.key}
           Legible == e.frame /\ Bad \notin {w.memory, w.iterations, w.parallelism, w.salt, w.key}
<1>1. Default \in Work!Parameters /\ Work!validateParameters(Default)
  BY Zenon DEF WorkAssumption, Work!DefaultAssumption
<1>2. /\ Work!parse(e) = IF ~Readable THEN Work!Rejected
                         ELSE IF Work!validateParameters(p) THEN [ok |-> TRUE, parameters |-> p]
                         ELSE Work!Rejected
      /\ Work!WrittenCost(e) = IF Legible /\ Work!validateParameters(w) THEN w ELSE Default
  BY Zenon DEF Work!parse, Work!WrittenCost
<1>a. Work!Rejected.parameters = Default
  BY DEF Work!Rejected
<1>3. /\ e.memory \in Nat \cup {Bad} /\ e.iterations \in Nat \cup {Bad}
      /\ e.parallelism \in Nat \cup {Bad} /\ e.salt \in Nat \cup {Bad} /\ e.key \in Nat \cup {Bad}
  BY Zenon DEF Work!Encoded
<1>4. /\ Range32 \in Nat /\ Range8 \in Nat /\ MaxMemory \in Nat /\ MaxIterations \in Nat
      /\ MaxParallelism \in Nat
      /\ Range32 > MaxMemory /\ Range32 > MaxIterations /\ Range8 > MaxParallelism
  BY Zenon DEF WorkAssumption, Work!BoundsAssumption, Work!WidthAssumption
<1>5. /\ m # Bad => e.memory \in Nat /\ e.memory # Bad /\ Work!Cut(m, Range32) = e.memory
      /\ m = Bad => e.memory = Bad \/ ~(e.memory <= MaxMemory)
  BY <1>3, <1>4, Numeral, Zenon
<1>6. /\ t # Bad => e.iterations \in Nat /\ e.iterations # Bad /\ Work!Cut(t, Range32) = e.iterations
      /\ t = Bad => e.iterations = Bad \/ ~(e.iterations <= MaxIterations)
  BY <1>3, <1>4, Numeral, Zenon
<1>7. /\ l # Bad => e.parallelism \in Nat /\ e.parallelism # Bad /\ Work!Cut(l, Range8) = e.parallelism
      /\ l = Bad => e.parallelism = Bad \/ ~(e.parallelism <= MaxParallelism)
  BY <1>3, <1>4, Numeral, Zenon
<1> HIDE DEF m, t, l
<1>8. CASE ~Readable
  <2>1. ~(Legible /\ Work!validateParameters(w))
    <3>1. /\ w.memory = e.memory /\ w.iterations = e.iterations
          /\ w.parallelism = e.parallelism /\ w.salt = e.salt /\ w.key = e.key
      OBVIOUS
    <3> HIDE DEF w
    <3>2. CASE m = Bad
      BY <1>5, <3>1, <3>2, Zenon DEF Work!validateParameters
    <3>3. CASE t = Bad
      BY <1>6, <3>1, <3>3, Zenon DEF Work!validateParameters
    <3>4. CASE l = Bad
      BY <1>7, <3>1, <3>4, Zenon DEF Work!validateParameters
    <3>5. CASE ~e.frame \/ e.salt = Bad \/ e.key = Bad
      BY <3>1, <3>5, Zenon
    <3> QED
      BY <1>8, <3>2, <3>3, <3>4, <3>5, Zenon
  <2> HIDE DEF w, p, Legible, Readable
  <2>2. Work!parse(e) = Work!Rejected /\ Work!WrittenCost(e) = Default
    BY <1>2, <1>8, <2>1, Zenon
  <2> QED
    BY <1>1, <1>a, <2>2, Zenon
<1>9. CASE Readable
  <2>a. m # Bad /\ t # Bad /\ l # Bad /\ e.salt # Bad /\ e.key # Bad /\ e.frame
    BY <1>9, Zenon
  <2>b. /\ Work!Cut(m, Range32) = e.memory /\ Work!Cut(t, Range32) = e.iterations
        /\ Work!Cut(l, Range8) = e.parallelism
        /\ e.memory # Bad /\ e.iterations # Bad /\ e.parallelism # Bad
    BY <1>5, <1>6, <1>7, <2>a, Zenon
  <2>c. p = w
    BY <2>b, Zenon
  <2>d. Legible
    BY <2>a, <2>b, Zenon
  <2>1. p = w /\ Legible
    BY <2>c, <2>d, Zenon
  <2>2. w \in Work!Parameters
    BY <1>3, <1>5, <1>6, <1>7, <1>9, Zenon DEF Work!Parameters
  <2> HIDE DEF w, p, Legible, Readable
  <2>3. CASE Work!validateParameters(w)
    <3>1. Work!parse(e) = [ok |-> TRUE, parameters |-> w] /\ Work!WrittenCost(e) = w
      BY <1>2, <1>9, <2>1, <2>3, Zenon
    <3>2. Work!parse(e).parameters = w
      BY <3>1
    <3> QED
      BY <2>2, <2>3, <3>1, <3>2, Zenon
  <2>4. CASE ~Work!validateParameters(w)
    <3>1. Work!parse(e) = Work!Rejected /\ Work!WrittenCost(e) = Default
      BY <1>2, <1>9, <2>1, <2>4, Zenon
    <3> QED
      BY <1>1, <1>a, <3>1, Zenon
  <2> QED
    BY <2>3, <2>4, Zenon
<1> QED
  BY <1>8, <1>9, Zenon

\* What Hash writes has the default parameters, which parse accepts.
LEMMA Written ==
  ASSUME WorkAssumption
  PROVE  /\ Default \in Work!Parameters /\ Work!validateParameters(Default)
         /\ \A p \in Work!Parameters : Work!Formatted(p) \in Work!Encoded
  BY Zenon DEF WorkAssumption, Work!DefaultAssumption, Work!Formatted, Work!Encoded, Work!Parameters

\* A request that goes to the gate (deriveKey) does so with parameters in bounds.
LEMMA Waits ==
  ASSUME WorkInv, NEW r \in Request, NEW p \in Work!Parameters, Work!validateParameters(p),
         pc[r] # "derive", pc' = [pc EXCEPT ![r] = "wait"], using' = [using EXCEPT ![r] = p],
         UNCHANGED <<hash, gate>>, job' \in [Request -> Work!Job],
         read' \in [Request -> Work!Encoded], right' \in [Request -> BOOLEAN],
         \A s \in Request \ {r} : job'[s] = job[s] /\ read'[s] = read[s],
         job'[r] \in {"verify", "reverify"} => p = Work!WrittenCost(read'[r])
  PROVE  WorkInv'
<1>1. pc' \in [Request -> {"idle", "wait", "derive", "answer"}]
      /\ \A s \in Request : pc'[s] = "derive" => pc[s] = "derive"
  BY Zenon DEF WorkInv, Work!TypeOK
<1>2. using' \in [Request -> Work!Parameters] /\ \A s \in Request : using'[s] \in {using[s], p}
  BY Zenon DEF WorkInv, Work!TypeOK
<1>3. \A s \in Request : Work!validateParameters(using'[s])
  BY <1>2, Zenon DEF WorkInv, Work!TypeOK
<1>4. Work!TypeOK'
  BY <1>1, <1>2, <1>3, Zenon DEF WorkInv, Work!TypeOK, Work!validateParameters
<1>5. ASSUME NEW s \in Request PROVE AsRead(s)'
  <2>1. CASE s = r
    <3>1. using'[r] = p
      BY Zenon DEF WorkInv, Work!TypeOK
    <3> QED
      BY <2>1, <3>1, Zenon DEF AsRead, Work!WrittenCost, Work!validateParameters
  <2>2. CASE s # r
    <3>1. using'[s] = using[s] /\ job'[s] = job[s] /\ read'[s] = read[s] /\ AsRead(s)
      BY <2>2, Zenon DEF WorkInv, Work!TypeOK
    <3> QED
      BY <3>1, Zenon DEF AsRead, Work!WrittenCost, Work!validateParameters
  <2> QED
    BY <2>1, <2>2, Zenon
<1> QED
  BY <1>1, <1>4, <1>5, Zenon DEF WorkInv

\* A request that enters or leaves the gate keeps its parameters.
LEMMA Goes ==
  ASSUME WorkInv, NEW r \in Request, NEW l \in {"idle", "derive", "answer"},
         pc' = [pc EXCEPT ![r] = l], hash' \in Work!Encoded,
         UNCHANGED <<job, using, read, right>>,
         \/ l = "derive" /\ ~gate /\ gate' = TRUE
         \/ l # "derive" /\ pc[r] = "derive" /\ gate' = FALSE
         \/ l # "derive" /\ pc[r] # "derive" /\ gate' = gate
  PROVE  WorkInv'
<1>1. /\ pc' \in [Request -> {"idle", "wait", "derive", "answer"}]
      /\ \A s \in Request : pc'[s] = IF s = r THEN l ELSE pc[s]
      /\ gate' \in BOOLEAN
  BY Zenon DEF WorkInv, Work!TypeOK
<1>2. Work!TypeOK'
  BY <1>1, Zenon DEF WorkInv, Work!TypeOK, Work!validateParameters
<1>3. ASSUME NEW s \in Request PROVE AsRead(s)'
  <2>0. AsRead(s)
    BY Zenon DEF WorkInv
  <2>1. AsRead(s) /\ job'[s] = job[s] /\ using'[s] = using[s] /\ read'[s] = read[s]
    BY <2>0, Zenon
  <2> QED
    BY <2>1, Zenon DEF AsRead, Work!WrittenCost, Work!validateParameters
<1>0. \A s \in Request : pc[s] = "derive" => gate /\ \A u \in Request : pc[u] = "derive" => u = s
  BY Zenon DEF WorkInv
<1>4. ASSUME NEW s \in Request, NEW u \in Request, pc'[s] = "derive"
      PROVE  gate' /\ (pc'[u] = "derive" => u = s)
  BY <1>0, <1>1, <1>4
<1> QED
  BY <1>2, <1>3, <1>4, Zenon DEF WorkInv

\* Every step of Verify, of the rehash after it and of the derivation for an unknown
\* user keeps WorkInv.
LEMMA WorkStep ==
  ASSUME WorkAssumption, WorkInv, Work!Next
  PROVE  WorkInv'
<1>1. PICK r \in Request : \/ Work!Verify(r) \/ Work!ConsumeUnknownUser(r) \/ Work!Hash(r)
                           \/ Work!Proceed(r)
  BY DEF Work!Next
<1>2. ASSUME NEW j \in Work!Job, NEW p \in Work!Parameters, Work!validateParameters(p),
             Work!Begin(r, j, p), j = "verify" => p = Work!WrittenCost(hash), j # "reverify"
      PROVE  WorkInv'
  <2>1. /\ job' \in [Request -> Work!Job] /\ read' \in [Request -> Work!Encoded]
        /\ right' \in [Request -> BOOLEAN]
    BY <1>2, Zenon DEF Work!Begin, WorkInv, Work!TypeOK
  <2>2. /\ \A s \in Request \ {r} : job'[s] = job[s] /\ read'[s] = read[s]
        /\ job'[r] = j /\ read'[r] = hash
    BY <1>2, Zenon DEF Work!Begin, WorkInv, Work!TypeOK
  <2> QED
    BY <1>2, <2>1, <2>2, Waits, Zenon DEF Work!Begin
<1>3. hash \in Work!Encoded /\ Work!parse(hash).parameters \in Work!Parameters
      /\ Work!validateParameters(Work!parse(hash).parameters)
      /\ Work!parse(hash).parameters = Work!WrittenCost(hash)
  BY ParseExact, Zenon DEF WorkInv, Work!TypeOK
<1>4. CASE Work!Verify(r)
  BY <1>2, <1>3, <1>4, Zenon DEF Work!Verify, Work!Job
<1>5. CASE Work!ConsumeUnknownUser(r) \/ Work!Hash(r)
  BY <1>2, <1>5, Written DEF Work!ConsumeUnknownUser, Work!Hash, Work!Job
<1>6. CASE Work!Enter(r)
  BY <1>3, <1>6, Goes, Zenon DEF Work!Enter
<1>7. CASE Work!Leave(r)
  BY <1>3, <1>7, Goes, Zenon DEF Work!Leave
<1>8. CASE Work!Rehash(r)
  <2>1. job' \in [Request -> Work!Job] /\ read' \in [Request -> Work!Encoded]
        /\ right' \in [Request -> BOOLEAN]
    BY <1>8, Zenon DEF Work!Rehash, WorkInv, Work!TypeOK, Work!Job
  <2>2. /\ \A s \in Request \ {r} : job'[s] = job[s] /\ read'[s] = read[s]
        /\ job'[r] = "rehash"
    BY <1>8, Zenon DEF Work!Rehash, WorkInv, Work!TypeOK
  <2> QED
    BY <1>8, <2>1, <2>2, Waits, Written, Zenon DEF Work!Rehash
<1>9. CASE Work!Reverify(r)
  <2>1. job' \in [Request -> Work!Job] /\ read' \in [Request -> Work!Encoded]
        /\ right' \in [Request -> BOOLEAN]
    BY <1>9 DEF Work!Reverify, WorkInv, Work!TypeOK, Work!Job
  <2>2. /\ \A s \in Request \ {r} : job'[s] = job[s] /\ read'[s] = read[s]
        /\ read'[r] = hash
    BY <1>9, Zenon DEF Work!Reverify, WorkInv, Work!TypeOK
  <2> QED
    BY <1>3, <1>9, <2>1, <2>2, Waits, Zenon DEF Work!Reverify
<1>10. CASE Work!Answer(r)
  <2>1. hash' \in Work!Encoded
    BY <1>3, <1>10, Written, Zenon DEF Work!Answer, WorkInv, Work!TypeOK
  <2> QED
    BY <1>10, <2>1, Goes, Zenon DEF Work!Answer
<1> QED
  BY <1>1, <1>4, <1>5, <1>6, <1>7, <1>8, <1>9, <1>10 DEF Work!Proceed

\* The inductive invariant of pkg/password: whoever derives holds the gate, and only
\* parsed or default parameters reach it.
THEOREM WorkInvariance == WorkAssumption => (Work!Spec => []WorkInv)
<1> SUFFICES ASSUME WorkAssumption PROVE Work!Spec => []WorkInv
  OBVIOUS
<1>1. Work!Init => WorkInv
  <2> SUFFICES ASSUME Work!Init PROVE WorkInv
    OBVIOUS
  <2>1. hash \in Work!Encoded
    BY Zenon DEF WorkAssumption, Work!StoredAssumption, Work!Init
  <2>2. Work!TypeOK
    BY <2>1, Written, Zenon DEF Work!Init, Work!TypeOK, Work!Job
  <2>3. \A r \in Request : AsRead(r)
    BY Zenon DEF Work!Init, AsRead
  <2> QED
    BY <2>2, <2>3, Zenon DEF Work!Init, WorkInv
<1>2. WorkInv /\ [Work!Next]_(Work!vars) => WorkInv'
  <2>1. CASE Work!Next
    BY <2>1, WorkStep, Zenon
  <2>2. CASE WorkInv /\ UNCHANGED Work!vars
    <3>1. Work!TypeOK'
      BY <2>2, Zenon DEF Work!vars, WorkInv, Work!TypeOK, Work!validateParameters
    <3>2. ASSUME NEW r \in Request PROVE AsRead(r)'
      BY <2>2, Zenon DEF Work!vars, WorkInv, AsRead, Work!WrittenCost, Work!validateParameters
    <3>3. ASSUME NEW r \in Request, NEW s \in Request, pc'[r] = "derive"
          PROVE  gate' /\ (pc'[s] = "derive" => s = r)
      BY <2>2, <3>3, Zenon DEF Work!vars, WorkInv
    <3> QED
      BY <3>1, <3>2, <3>3, Zenon DEF WorkInv
  <2> QED
    BY <2>1, <2>2
<1> QED
  BY <1>1, <1>2, PTL DEF Work!Spec

\* Requests and stored hashes keep their types.
THEOREM WorkTypeCorrect == WorkAssumption => (Work!Spec => []Work!TypeOK)
<1> SUFFICES ASSUME WorkAssumption PROVE Work!Spec => []Work!TypeOK
  OBVIOUS
<1>1. WorkInv => Work!TypeOK
  BY Zenon DEF WorkInv
<1> QED
  BY <1>1, WorkInvariance, PTL

\* deriveKey runs at most once at a time and within the package's bounds, whatever
\* hashes are stored and however many requests come (pkg/password).
THEOREM WorkIsBoundedHolds == WorkAssumption => (Work!Spec => []Work!WorkIsBounded)
<1> SUFFICES ASSUME WorkAssumption PROVE Work!Spec => []Work!WorkIsBounded
  OBVIOUS
<1>1. WorkInv => Work!WorkIsBounded
  BY Zenon DEF WorkInv, Work!TypeOK, Work!validateParameters, Work!WorkIsBounded
<1> QED
  BY <1>1, WorkInvariance, PTL

\* A verification derives with exactly what the hash it read says, or with the
\* default cost when that is out of bounds: no numeral is taken for another by the
\* width of the field it is stored in, whatever the widths and bounds, and a hash
\* replaced meanwhile is not mixed in (pkg/password, AuthenticateUser).
THEOREM VerifiesAsWrittenHolds == WorkAssumption => (Work!Spec => []Work!VerifiesAsWritten)
<1> SUFFICES ASSUME WorkAssumption PROVE Work!Spec => []Work!VerifiesAsWritten
  OBVIOUS
<1>1. WorkInv => Work!VerifiesAsWritten
  BY Zenon DEF WorkInv, AsRead, Work!VerifiesAsWritten
<1> QED
  BY <1>1, WorkInvariance, PTL
================================================================================
