------------------------------ MODULE EventBus ------------------------------
(***************************************************************************)
(* The events of the message bus: the listener goroutine that stores what  *)
(* the bus sends (route/event_listen.go), the event table                  *)
(* (service/event.go) and the three v2 handlers that list and delete       *)
(* events (route/v2/api_route_event.go), which run beside it.              *)
(*                                                                         *)
(* Every statement on the table is a step of its own.  An event is a model *)
(* value; Shape says what its message looks like, Serial what its          *)
(* properties carry.  A statement may fail; the code drops every error of  *)
(* the table, so that the step is taken and the answer given all the same. *)
(***************************************************************************)
EXTENDS Naturals, Sequences, FiniteSets

CONSTANTS
  Event,       \* the events the bus may publish, each once
  Shape,       \* Event -> what the listener finds in the message
  Serial,      \* Event -> the disk serial in the properties
  Disk,        \* the serials
  Call,        \* the v2 requests
  NoEvent,     \* no event, or a decoded message without one
  BusShapes,   \* the shapes the bus sends
  BusMayStop,  \* the bus may stop while the daemon listens
  MaxDials     \* bound of the listener's loop (1000 in the code)

Shapes == {"storage", "foreign", "raid_status", "oversized", "no_uuid"}

ASSUME EventAssumption ==
  /\ Shape \in [Event -> Shapes]
  /\ Serial \in [Event -> Disk]
  /\ BusShapes \subseteq Shapes
  /\ BusMayStop \in BOOLEAN
  /\ NoEvent \notin Event
ASSUME DialsAssumption == MaxDials \in Nat \ {0}

VARIABLES
  addressFile,  \* the bus has written its address
  up,           \* the bus runs
  published,    \* events the bus has published
  conn,         \* the websocket is open at the bus
  wire,         \* messages sent and not yet read
  at,           \* the listener: dial, read, store, gone; dead with the daemon
  dials,        \* dials that failed
  got,          \* the event being stored
  events,       \* the event table
  stored,       \* every event that was ever in it
  lost,         \* every event whose insert failed
  call          \* the v2 requests

busVars == <<addressFile, up, published>>
listener == <<at, dials, got>>
table == <<events, stored, lost>>
vars == <<busVars, conn, wire, listener, table, call>>

Idle == [op |-> "none", pc |-> "idle", uuid |-> NoEvent, serial |-> NoEvent,
         list |-> {}, before |-> {}, failed |-> {}]

TypeOK ==
  /\ addressFile \in BOOLEAN /\ up \in BOOLEAN /\ conn \in BOOLEAN
  /\ published \subseteq Event
  /\ wire \in Seq(published)
  /\ at \in {"dial", "read", "store", "gone", "dead"}
  /\ dials \in 0..MaxDials
  /\ got \in Event \cup {NoEvent}
  /\ events \subseteq stored
  /\ stored \cup lost \subseteq {e \in published : Shape[e] \in {"storage", "foreign"}}
  /\ \A c \in Call :
       /\ call[c].op \in {"none", "list", "delete", "serial"}
       /\ call[c].pc \in {"idle", "get", "delete", "find", "each", "done"}
       /\ call[c].list \cup call[c].failed \subseteq stored

Init ==
  /\ addressFile \in BOOLEAN
  /\ up \in {FALSE, addressFile}
  /\ published = {} /\ conn = FALSE /\ wire = <<>>
  /\ at = "dial" /\ dials = 0 /\ got = NoEvent
  /\ events = {} /\ stored = {} /\ lost = {}
  /\ call = [c \in Call |-> Idle]

-----------------------------------------------------------------------------
(* The message bus *)

BusStarts ==
  /\ ~up
  /\ up' = TRUE /\ addressFile' = TRUE
  /\ UNCHANGED <<published, conn, wire, listener, table, call>>

\* What was sent before the bus stopped can still be read.
BusStops ==
  /\ BusMayStop /\ up
  /\ up' = FALSE /\ conn' = FALSE
  /\ UNCHANGED <<addressFile, published, wire, listener, table, call>>

\* An event reaches the websocket that is open, if there is one.
Publish(e) ==
  /\ up /\ e \notin published /\ Shape[e] \in BusShapes
  /\ published' = published \cup {e}
  /\ wire' = IF conn THEN Append(wire, e) ELSE wire
  /\ UNCHANGED <<addressFile, up, conn, listener, table, call>>

-----------------------------------------------------------------------------
(* The listener *)

\* Mutant: the failed dials are counted and never looked at.
DialForever ==
  /\ at = "dial" /\ addressFile
  /\ IF up THEN at' = "read" /\ conn' = TRUE /\ UNCHANGED dials
           ELSE dials' = dials + 1 /\ UNCHANGED <<at, conn>>
  /\ UNCHANGED <<busVars, wire, got, table, call>>

\* No address file ends the listener at once; a refused dial is repeated.
Dial ==
  /\ at = "dial"
  /\ \/ /\ ~addressFile
        /\ at' = "gone" /\ UNCHANGED <<conn, dials>>
     \/ /\ addressFile /\ up
        /\ at' = "read" /\ conn' = TRUE /\ UNCHANGED dials
     \/ /\ addressFile /\ ~up
        /\ dials' = dials + 1
        /\ at' = IF dials' = MaxDials THEN "gone" ELSE "dial"
        /\ UNCHANGED conn
  /\ UNCHANGED <<busVars, wire, got, table, call>>

\* What json.Unmarshal makes of 1024 bytes of a message: an oversized message
\* is cut off and decodes to nothing, as does the empty read of a closed
\* websocket.
Decoded(e) == IF e # NoEvent /\ Shape[e] = "oversized" THEN NoEvent ELSE e

HasUuid(e) == e # NoEvent /\ Shape[e] # "no_uuid"

\* Mutant: a RAID status ends the listener instead of being skipped.
ListenEndsAtStatus ==
  /\ at = "read"
  /\ wire # <<>> \/ ~conn
  /\ wire' = IF wire = <<>> THEN wire ELSE Tail(wire)
  /\ LET event == Decoded(IF wire = <<>> THEN NoEvent ELSE Head(wire))
     IN  CASE ~HasUuid(event) -> at' = "dead" /\ UNCHANGED got
           [] HasUuid(event) /\ Shape[event] = "raid_status" -> at' = "gone" /\ UNCHANGED got
           [] OTHER -> at' = "store" /\ got' = event
  /\ UNCHANGED <<busVars, conn, dials, table, call>>

\* One message, or the error of a websocket that the bus has closed.  Errors
\* are only logged, and the UUID of the event is dereferenced all the same:
\* without one the daemon panics.  A RAID status is skipped.
Listen ==
  /\ at = "read"
  /\ wire # <<>> \/ ~conn
  /\ wire' = IF wire = <<>> THEN wire ELSE Tail(wire)
  /\ LET event == Decoded(IF wire = <<>> THEN NoEvent ELSE Head(wire))
     IN  CASE ~HasUuid(event) -> at' = "dead" /\ UNCHANGED got
           [] HasUuid(event) /\ Shape[event] = "raid_status" -> UNCHANGED <<at, got>>
           [] OTHER -> at' = "store" /\ got' = event
  /\ UNCHANGED <<busVars, conn, dials, table, call>>

\* The insert, whose error is dropped with the event.
CreateEvemt ==
  /\ at = "store"
  /\ \/ events' = events \cup {got} /\ stored' = stored \cup {got} /\ UNCHANGED lost
     \/ lost' = lost \cup {got} /\ UNCHANGED <<events, stored>>
  /\ at' = "read" /\ got' = NoEvent
  /\ UNCHANGED <<busVars, conn, wire, dials, call>>

\* The dead daemon took its requests and its websocket along; systemd starts
\* another.
Restart ==
  /\ at = "dead"
  /\ at' = "dial" /\ dials' = 0 /\ got' = NoEvent
  /\ conn' = FALSE /\ wire' = <<>>
  /\ call' = [c \in Call |-> Idle]
  /\ UNCHANGED <<busVars, table>>

-----------------------------------------------------------------------------
(* The v2 handlers *)

Alive == at # "dead"

Step(c, new) ==
  /\ call' = [call EXCEPT ![c] = new]
  /\ UNCHANGED <<busVars, conn, wire, listener, stored, lost>>

\* What a request answers is not kept: a read that fails is a shorter answer.
GetEvents(c) ==
  /\ Alive /\ call[c].pc = "idle"
  /\ Step(c, [Idle EXCEPT !.op = "list", !.pc = "done"])
  /\ UNCHANGED events

DeleteEvent(c, e) ==
  /\ Alive /\ call[c].pc = "idle"
  /\ Step(c, [Idle EXCEPT !.op = "delete", !.pc = "get", !.uuid = e])
  /\ UNCHANGED events

\* The event to answer with.
GetEventByUUID(c) ==
  /\ Alive /\ call[c].pc = "get"
  /\ Step(c, [call[c] EXCEPT !.pc = "delete"])
  /\ UNCHANGED events

\* The row is gone, or the statement failed.
DeleteEventRow(c) ==
  /\ Alive /\ call[c].pc = "delete"
  /\ events' \in {events, events \ {call[c].uuid}}
  /\ Step(c, [call[c] EXCEPT !.pc = "done"])

DeleteEventBySerial(c, d) ==
  /\ Alive /\ call[c].pc = "idle"
  /\ Step(c, [Idle EXCEPT !.op = "serial", !.pc = "find", !.serial = d, !.before = events])
  /\ UNCHANGED events

\* Find leaves the rows in the list, or those it had read when it failed.
FindEvents(c) ==
  /\ Alive /\ call[c].pc = "find"
  /\ \E list \in SUBSET events :
       Step(c, [call[c] EXCEPT !.pc = "each", !.list = list, !.failed = events \ list])
  /\ UNCHANGED events

OfDisk(e, d) == Shape[e] = "storage" /\ Serial[e] = d

\* Mutant: a row that could not be deleted ends the loop.
NextRowStops(c) ==
  /\ Alive /\ call[c].pc = "each" /\ call[c].list # {}
  /\ \E e \in call[c].list :
       \/ /\ events' = IF OfDisk(e, call[c].serial) THEN events \ {e} ELSE events
          /\ Step(c, [call[c] EXCEPT !.list = @ \ {e}])
       \/ /\ OfDisk(e, call[c].serial)
          /\ Step(c, [call[c] EXCEPT !.list = {}, !.failed = @ \cup {e}])
          /\ UNCHANGED events

\* The rows that were found, one after the other.  One that cannot be deleted
\* stays and the loop goes on.
NextRow(c) ==
  /\ Alive /\ call[c].pc = "each" /\ call[c].list # {}
  /\ \E e \in call[c].list :
       \/ /\ events' = IF OfDisk(e, call[c].serial) THEN events \ {e} ELSE events
          /\ Step(c, [call[c] EXCEPT !.list = @ \ {e}])
       \/ /\ OfDisk(e, call[c].serial)
          /\ Step(c, [call[c] EXCEPT !.list = @ \ {e}, !.failed = @ \cup {e}])
          /\ UNCHANGED events

EndOfRows(c) ==
  /\ Alive /\ call[c].pc = "each" /\ call[c].list = {}
  /\ Step(c, [call[c] EXCEPT !.pc = "done"])
  /\ UNCHANGED events

Return(c) ==
  /\ Alive /\ call[c].pc = "done"
  /\ Step(c, Idle)
  /\ UNCHANGED events

-----------------------------------------------------------------------------
Listener == Dial \/ Listen \/ CreateEvemt \/ Restart

Handler(c) ==
  \/ GetEvents(c)
  \/ \E e \in Event : DeleteEvent(c, e)
  \/ GetEventByUUID(c) \/ DeleteEventRow(c)
  \/ \E d \in Disk : DeleteEventBySerial(c, d)
  \/ FindEvents(c) \/ NextRow(c) \/ EndOfRows(c) \/ Return(c)

Next ==
  \/ BusStarts \/ BusStops \/ \E e \in Event : Publish(e)
  \/ Listener
  \/ \E c \in Call : Handler(c)

Spec == Init /\ [][Next]_vars

\* The scheduler lets the listener goroutine run.
FairSpec == Spec /\ WF_vars(Listener)

-----------------------------------------------------------------------------
(* Properties *)

\* When DeleteEventBySerial answers, what is left of that disk of the rows
\* that were in the table when the request came are those a statement of its
\* own failed on: no error on one row spares another, and neither the
\* listener nor another request makes the loop pass over one.
SerialIsCleared ==
  \A c \in Call : call[c].op = "serial" /\ call[c].pc = "done" =>
    \A e \in call[c].before \cap events : OfDisk(e, call[c].serial) => e \in call[c].failed

\* A row leaves the table only for a request that named it, or named the disk
\* of a storage event.
OnlyNamedRowsGo ==
  [][\A e \in events \ events' :
       \E c \in Call : \/ call[c].op = "delete" /\ call[c].uuid = e
                       \/ call[c].op = "serial" /\ OfDisk(e, call[c].serial)]_vars

\* A storage event that was sent to the listener comes to its insert, unless
\* the daemon dies first: neither a RAID status nor an insert that failed
\* before it, nor a request beside it, stops the loop or makes it skip one.
SentIsHandled ==
  \A e \in {x \in Event : Shape[x] = "storage"} :
    (\E i \in DOMAIN wire : wire[i] = e) ~> e \in stored \cup lost \/ at = "dead"

\* The message bus is no hard dependency (the comment in service.go): the
\* daemon does not die of it.
DaemonOutlivesBus == at # "dead"
=============================================================================
