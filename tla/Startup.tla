------------------------------- MODULE Startup -------------------------------
(***************************************************************************)
(* The daemon's start against the two services it depends on: the gateway, *)
(* which must know its routes before it reports ready, and the message     *)
(* bus, which it must be able to do without.  The gateway publishes a      *)
(* management address and a service token in two files and changes both    *)
(* when it starts; pkg/gatewayclient reads them again, one after the       *)
(* other, for every call.  Once ready, the daemon also runs the listener   *)
(* of the bus's events, a goroutine whose panic ends the process.  systemd *)
(* starts the daemon again when it ends, up to the start limit of the unit.*)
(***************************************************************************)
EXTENDS Naturals, Sequences

CONSTANTS
  Path,            \* apiPaths, in the order they are registered
  Port,            \* ports net.Listen may be given
  NoPort,          \* no listener, no route, no address in the file
  AddressTries,    \* addressRetryAttempts
  RegisterTries,   \* attempts to register the event types
  ListenTries,     \* dials of the listener (1000 in the code)
  BusState,        \* what the message bus can be doing
  MaxFaults        \* bound: kills of the daemon and ends of the gateway

TriesAssumption ==
  /\ AddressTries \in Nat \ {0} /\ RegisterTries \in Nat \ {0} /\ ListenTries \in Nat \ {0}
  /\ MaxFaults \in Nat
BusAssumption ==
  BusState # {} /\ BusState \subseteq {"absent", "refusing", "failing", "garbled", "answering", "hung"}
Paths == {Path[i] : i \in 1..Len(Path)}
PathAssumption == Path \in Seq(Paths) /\ Path # <<>> /\ NoPort \notin Port

VARIABLES
  gateway,      \* start the running gateway belongs to, 0 while it is down
  starts,       \* starts of the gateway so far
  addressFile,  \* start that wrote the management address, 0 for no file
  tokenFile,    \* start that wrote the service token, 0 for no file
  routes,       \* target of each path at the gateway
  bus,          \* no address file, no listener, an error status, a body that is
                \* not JSON, a proper answer, or a request that is never answered
  at,           \* next step of the daemon
  port,         \* its listener
  next,         \* index of the path it registers
  address,      \* start of the address the call in hand has read, 0 for none
  token,        \* start of the token it has read, 0 for none
  tries,        \* attempts in the loop it is in
  published,    \* the daemon's own address file
  listening,    \* the listener: not started, dialling, reading, about to find
                \* its websocket closed or a message without a UUID, returned
  dials,        \* dials that failed
  faults        \* kills and gateway ends so far

gatewayVars == <<gateway, starts, addressFile, tokenFile>>
readVars    == <<address, token>>
listener    == <<listening, dials>>
vars == <<gateway, starts, addressFile, tokenFile, routes, bus, at, port, next,
          address, token, tries, published, listening, dials, faults>>

Steps == {"off", "failed", "wait", "ping", "listen", "address", "token", "send",
          "truncate", "write", "register", "serving"}
Ready == {"register", "serving"}

TypeOK ==
  /\ starts \in 0..(MaxFaults + 1)
  /\ gateway \in {0, starts}
  /\ addressFile \in 0..starts /\ tokenFile \in 0..starts
  /\ address \in 0..starts /\ token \in 0..starts
  /\ routes \in [Paths -> Port \cup {NoPort}]
  /\ bus \in BusState
  /\ at \in Steps
  /\ port \in Port \cup {NoPort}
  /\ next \in 1..(Len(Path) + 1)
  /\ tries \in 0..AddressTries \cup 0..(RegisterTries - 1)
  /\ published \in Port \cup {NoPort}
  /\ listening \in {"none", "dial", "read", "broken", "gone"}
  /\ dials \in 0..ListenTries
  /\ faults \in 0..MaxFaults

Init ==
  /\ gateway = 0 /\ starts = 0 /\ addressFile = 0 /\ tokenFile = 0
  /\ routes = [p \in Paths |-> NoPort]
  /\ bus \in BusState
  /\ at = "off" /\ port = NoPort /\ next = 1
  /\ address = 0 /\ token = 0 /\ tries = 0
  /\ published = NoPort /\ faults = 0
  /\ listening = "none" /\ dials = 0

-----------------------------------------------------------------------------
(* The gateway and the message bus *)

\* A start may find the routes an earlier one kept, or none.
GatewayStart ==
  /\ gateway = 0
  /\ starts' = starts + 1
  /\ gateway' = starts + 1
  /\ routes' \in {routes, [p \in Paths |-> NoPort]}
  /\ UNCHANGED <<addressFile, tokenFile, bus, at, port, next, readVars, tries, published,
                 listener, faults>>

\* The two files follow the start, in either order.
WriteFiles ==
  /\ gateway # 0
  /\ \/ addressFile # gateway /\ addressFile' = gateway /\ UNCHANGED tokenFile
     \/ tokenFile # gateway /\ tokenFile' = gateway /\ UNCHANGED addressFile
  /\ UNCHANGED <<gateway, starts, routes, bus, at, port, next, readVars, tries, published,
                 listener, faults>>

Fault == faults < MaxFaults /\ faults' = faults + 1

\* The files stay behind.
GatewayEnd ==
  /\ gateway # 0
  /\ Fault
  /\ gateway' = 0
  /\ UNCHANGED <<starts, addressFile, tokenFile, routes, bus, at, port, next, readVars, tries,
                 published, listener>>

\* The bus comes, goes or changes its mind; with that, or while it stays as it
\* is, it may close the websocket or send what has no UUID.
BusChanges ==
  /\ bus' \in BusState
  /\ listening' \in {listening, IF listening = "read" THEN "broken" ELSE listening}
  /\ <<bus, listening>>' # <<bus, listening>>
  /\ UNCHANGED <<gatewayVars, routes, at, port, next, readVars, tries, published, dials, faults>>

-----------------------------------------------------------------------------
(* The daemon *)

environment == <<gatewayVars, routes, bus>>
others      == <<listener, faults>>

\* The process ends: an error, a panic or a kill.  Its address file stays.
End ==
  /\ at' = "off" /\ port' = NoPort /\ next' = 1
  /\ address' = 0 /\ token' = 0 /\ tries' = 0
  /\ listening' = "none" /\ dials' = 0

Goto(step) == at' = step

\* Restart=always: systemd starts the daemon again ...
Start ==
  /\ at = "off"
  /\ Goto("wait")
  /\ UNCHANGED <<environment, port, next, readVars, tries, published, others>>

\* ... unless it ended too often in too short a time: then the unit stays
\* failed.  The time between two starts is not modelled, so that any end may
\* be the last.
StartLimitHit ==
  /\ at = "off"
  /\ Goto("failed")
  /\ UNCHANGED <<environment, port, next, readVars, tries, published, others>>

\* Mutant: the wait for the address has no bound.
WaitWithoutBound ==
  /\ at = "wait"
  /\ IF addressFile = 0
     THEN tries' = tries + 1 /\ UNCHANGED <<at, port, next, readVars, listener>>
     ELSE /\ address' = addressFile /\ tries' = 0 /\ Goto("ping")
          /\ UNCHANGED <<port, next, token, listener>>
  /\ UNCHANGED <<environment, published, faults>>

\* waitForAddress: the last attempt goes on to read whatever there is.
WaitForAddress ==
  /\ at = "wait"
  /\ IF addressFile = 0 /\ tries < AddressTries
     THEN tries' = tries + 1 /\ UNCHANGED <<at, port, next, readVars, listener>>
     ELSE IF addressFile = 0 THEN End
     ELSE /\ address' = addressFile /\ tries' = 0 /\ Goto("ping")
          /\ UNCHANGED <<port, next, token, listener>>
  /\ UNCHANGED <<environment, published, faults>>

\* New proves that the listener answers; NewService panics when it does not.
Ping ==
  /\ at = "ping"
  /\ IF address = gateway
     THEN Goto("listen") /\ address' = 0 /\ UNCHANGED <<port, next, token, tries, listener>>
     ELSE End
  /\ UNCHANGED <<environment, published, faults>>

\* The routers are built first: an invalid CORS list panics there.
Listen ==
  /\ at = "listen"
  /\ port' \in Port
  /\ Goto("address")
  /\ UNCHANGED <<environment, next, readVars, tries, published, others>>

\* do: the address, then the token, then the request.
ReadAddress ==
  /\ at = "address"
  /\ address' = addressFile
  /\ Goto("token")
  /\ UNCHANGED <<environment, port, next, token, tries, published, others>>

ReadToken ==
  /\ at = "token"
  /\ IF tokenFile = 0 THEN End
     ELSE token' = tokenFile /\ Goto("send") /\ UNCHANGED <<port, next, address, tries, listener>>
  /\ UNCHANGED <<environment, published, faults>>

\* The gateway creates the route for a request that reaches it with its token.
Accepted == address = gateway /\ token = gateway

LastPath == next = Len(Path)

\* Mutant: a route that could not be created is logged and left.
CreateRouteUnchecked ==
  /\ at = "send"
  /\ routes' = IF Accepted THEN [routes EXCEPT ![Path[next]] = port] ELSE routes
  /\ next' = next + 1
  /\ Goto(IF LastPath THEN "truncate" ELSE "address")
  /\ address' = 0 /\ token' = 0
  /\ UNCHANGED <<port, tries, gatewayVars, bus, published, others>>

\* Any answer but "created" ends the start.
CreateRoute ==
  /\ at = "send"
  /\ \/ /\ Accepted
        /\ routes' = [routes EXCEPT ![Path[next]] = port]
        /\ next' = next + 1
        /\ Goto(IF LastPath THEN "truncate" ELSE "address")
        /\ address' = 0 /\ token' = 0
        /\ UNCHANGED <<port, tries, listener>>
     \/ /\ ~Accepted
        /\ End
        /\ UNCHANGED routes
  /\ UNCHANGED <<gatewayVars, bus, published, faults>>

\* Mutant: a file that is there already is left alone.
KeepAddressFile ==
  /\ at = "truncate"
  /\ Goto(IF published = NoPort THEN "write" ELSE "register")
  /\ UNCHANGED <<environment, port, next, readVars, tries, published, others>>

\* writeAddressFile: os.WriteFile truncates, then writes.
TruncateAddressFile ==
  /\ at = "truncate"
  /\ published' = NoPort
  /\ Goto("write")
  /\ UNCHANGED <<environment, port, next, readVars, tries, others>>

\* SdNotify follows at once, and the listener is started.
WriteAddressFile ==
  /\ at = "write"
  /\ published' = port
  /\ listening' = "dial" /\ dials' = 0
  /\ Goto("register")
  /\ UNCHANGED <<environment, port, next, readVars, tries, faults>>

\* A client is made in any case, without an address file for a server that no
\* request can be sent to.
MessageBus == IF bus = "absent" THEN "message bus address not found" ELSE "address"

\* RegisterEventTypesWithResponse returns nil and an error.
NoResponse == [status |-> 0, json |-> FALSE]

\* The generated client has no timeout: a hung bus gives no outcome at all.
RegisterEventTypes ==
  CASE MessageBus # "address" \/ bus = "refusing" -> NoResponse
    [] bus = "failing"   -> [status |-> 500, json |-> TRUE]
    [] bus = "garbled"   -> [status |-> 200, json |-> FALSE]
    [] bus = "answering" -> [status |-> 200, json |-> TRUE]

\* A body that should be JSON and is not makes an error of the response.
ParseRegisterEventTypesResponse(rsp) == IF rsp.json THEN rsp ELSE NoResponse

\* Registered, or as often refused as the loop allows.
LoopEnds(rsp) == rsp.status = 200 \/ tries = RegisterTries - 1

\* Mutant: the loop ends only with an answer.
RegisterUntilAnswered ==
  /\ at = "register"
  /\ bus # "hung"
  /\ LET rsp == ParseRegisterEventTypesResponse(RegisterEventTypes)
     IN  rsp.status = 200 /\ Goto("serving") /\ tries' = 0
  /\ UNCHANGED <<environment, port, next, readVars, published, others>>

\* The event types are offered to the bus a bounded number of times; the
\* daemon serves only after that.  A bus that goes away while it is asked
\* leaves the request without a response.
RegisterAtMessageBus ==
  /\ at = "register"
  /\ bus # "hung"
  /\ \E rsp \in {ParseRegisterEventTypesResponse(RegisterEventTypes), NoResponse} :
       IF LoopEnds(rsp)
       THEN Goto("serving") /\ tries' = 0
       ELSE tries' = tries + 1 /\ UNCHANGED at
  /\ UNCHANGED <<environment, port, next, readVars, published, others>>

\* EventListen: no address ends the goroutine, a dial that fails is repeated,
\* and one to a hung bus does not return.
DialMessageBus ==
  /\ listening = "dial" /\ bus # "hung"
  /\ \/ bus = "absent" /\ listening' = "gone" /\ UNCHANGED dials
     \/ bus \notin {"absent", "refusing"} /\ listening' = "read" /\ UNCHANGED dials
     \/ /\ bus # "absent"
        /\ dials' = dials + 1
        /\ listening' = IF dials' = ListenTries THEN "gone" ELSE "dial"
  /\ UNCHANGED <<environment, at, port, next, readVars, tries, published, faults>>

\* The UUID that is not there is dereferenced: the process ends, whatever main
\* is doing.
PanicInListener ==
  /\ listening = "broken"
  /\ End
  /\ UNCHANGED <<environment, published, faults>>

EventListen == DialMessageBus \/ PanicInListener

Kill ==
  /\ at \notin {"off", "failed"}
  /\ Fault
  /\ End
  /\ UNCHANGED <<environment, published>>

-----------------------------------------------------------------------------
Daemon ==
  \/ Start \/ WaitForAddress \/ Ping \/ Listen \/ ReadAddress \/ ReadToken
  \/ CreateRoute \/ TruncateAddressFile \/ WriteAddressFile \/ RegisterAtMessageBus

Gateway == GatewayStart \/ WriteFiles

Next == Daemon \/ EventListen \/ Gateway \/ GatewayEnd \/ BusChanges \/ StartLimitHit \/ Kill

Spec == Init /\ [][Next]_vars

\* systemd restarts the daemon and the gateway, and the scheduler runs main and
\* the listener; nothing is asked of the bus.
FairSpec == Spec /\ WF_vars(Daemon) /\ WF_vars(EventListen) /\ WF_vars(Gateway)

-----------------------------------------------------------------------------
(* Properties *)

\* From the moment systemd is told, nothing leads to the port of an earlier
\* process, however that one ended in the middle of registering: a route is
\* either this listener's or was dropped by a gateway that started since, and
\* the address file names this listener.
NoStaleRoute ==
  at \in Ready => published = port /\ \A p \in Paths : routes[p] \in {port, NoPort}

\* The bus leaves the daemon alone from some time on.
BusSettles == <>[][~BusChanges]_vars

\* Once the bus neither changes nor closes the listener's websocket any more,
\* the daemon comes to serve and goes on serving, in whatever state the bus was
\* left and whenever the gateway restarted meanwhile: each failed start is
\* followed by one that reads the files anew.  Two things hold it up for good:
\* a request to register the event types that the bus never answers, and so
\* many failed starts in a row that systemd gives up.
EventuallyServes ==
  BusSettles => \/ <>[](at = "serving")
                \/ <>[](at = "register" /\ bus = "hung")
                \/ <>[](at = "failed")
=============================================================================
