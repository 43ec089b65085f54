------------------------------ MODULE Gateway ------------------------------
(***************************************************************************)
(* The telemetry path of cmd/c2-gateway/main.go.  A bus subscription calls  *)
(* handleTelemetry, which passes the packet to the Data Mule, updates the   *)
(* fleet table and sends the payload to hub.broadcast; the hub goroutine    *)
(* writes it to every registered dashboard; handleWS registers a dashboard  *)
(* and starts the goroutine that unregisters it; a ticker sends metrics to  *)
(* the same channel.                                                        *)
(*                                                                          *)
(* A step is one channel operation, one critical section or one write.  The *)
(* REST bus runs its handler in one goroutine (one element of Handlers);    *)
(* the in-memory bus starts a goroutine per message (several elements).     *)
(***************************************************************************)
EXTENDS Naturals, Sequences, FiniteSets, SequencesExt

CONSTANTS
  Vehicles,
  Handlers,      \* goroutines that may run handleTelemetry at the same time
  Clients,       \* WebSocket connections, each made once
  BroadcastCap,  \* capacity of hub.broadcast (256)
  SelectsAll,    \* whether the telemetry selector also matches upstream/ keys
  MaxPackets,    \* bound: packets published on the mesh
  MaxTicks       \* bound: metrics messages

ASSUME GatewayAssumption ==
  /\ IsFiniteSet(Clients)
  /\ BroadcastCap \in Nat \ {0}
  /\ SelectsAll \in BOOLEAN
  /\ MaxPackets \in Nat
  /\ MaxTicks \in Nat

VARIABLES
  published,  \* packets published so far, numbered 1..published
  bus,        \* messages on their way to the subscription
  pc,         \* per handler: "idle", "ingest", "fleet" or "send"
  pkt,        \* per handler: the packet it holds
  ingested,   \* packets passed to mule.Ingest, in order
  echoed,     \* packets the mule has published on their upstream/ key
  fleet,      \* g.fleet: the packet last stored per vehicle, 0 for none
  queue,      \* hub.broadcast
  ticker,     \* the metrics goroutine: "wait" or "send"
  ticks,      \* metrics messages so far
  clients,    \* hub.clients
  message,    \* the message the hub goroutine is writing, <<>> in its select
  todo,       \* the clients its range loop has still to visit
  conn,       \* per connection: its handleWS goroutine
  closed,     \* connections the hub has closed
  peer,       \* per connection: the browser and the network
  received,   \* history: messages each browser got
  taken,      \* history: messages the hub took from the channel
  joined,     \* history: Len(taken) when the connection was registered
  arrived     \* history: packets handed to a handler, in order

handlerVars == <<pc, pkt>>
hubVars == <<clients, message, todo, closed, received, taken, joined>>
connVars == <<conn, peer>>
tickVars == <<ticker, ticks>>
vars == <<published, bus, handlerVars, ingested, echoed, fleet, queue, tickVars,
          hubVars, connVars, arrived>>

-----------------------------------------------------------------------------

\* What travels on the bus: a telemetry packet, the mule's copy of one, or a
\* message that is no telemetry (a command, or bytes that do not parse).
Telemetry(v, n) == [kind |-> "telemetry", v |-> v, n |-> n]
Upstream(p) == [p EXCEPT !.kind = "upstream"]
Other == [kind |-> "other"]

\* A message on the broadcast channel.
Payload(p) == <<"telemetry", p.n>>
Metrics(k) == <<"backhaul_status", k>>

Nobody == [kind |-> "none"]

Init ==
  /\ published = 0
  /\ bus = <<>>
  /\ pc = [h \in Handlers |-> "idle"]
  /\ pkt = [h \in Handlers |-> Nobody]
  /\ ingested = <<>>
  /\ echoed = {}
  /\ fleet = [v \in Vehicles |-> 0]
  /\ queue = <<>>
  /\ ticker = "wait"
  /\ ticks = 0
  /\ clients = {}
  /\ message = <<>>
  /\ todo = {}
  /\ conn = [c \in Clients |-> "none"]
  /\ closed = {}
  /\ peer = [c \in Clients |-> "live"]
  /\ received = [c \in Clients |-> <<>>]
  /\ taken = <<>>
  /\ joined = [c \in Clients |-> 0]
  /\ arrived = <<>>

-----------------------------------------------------------------------------
(* The mesh *)

\* A vehicle publishes its next packet, or something else matches the selector.
Publish ==
  /\ published < MaxPackets
  /\ published' = published + 1
  /\ \/ \E v \in Vehicles : bus' = Append(bus, Telemetry(v, published + 1))
     \/ bus' = Append(bus, Other)
  /\ UNCHANGED <<handlerVars, ingested, echoed, fleet, queue, tickVars, hubVars,
                 connVars, arrived>>

\* The event stream drops and is re-opened: what it carried is not sent again.
StreamDrops ==
  /\ bus # <<>>
  /\ bus' = <<>>
  /\ UNCHANGED <<published, handlerVars, ingested, echoed, fleet, queue, tickVars,
                 hubVars, connVars, arrived>>

\* The mule publishes its copy, at once or in a later Flush, on the same bus.
MulePublishes ==
  /\ SelectsAll
  /\ \E p \in Range(ingested) \ echoed :
       /\ echoed' = echoed \cup {p}
       /\ bus' = Append(bus, Upstream(p))
  /\ UNCHANGED <<published, handlerVars, ingested, fleet, queue, tickVars, hubVars,
                 connVars, arrived>>

-----------------------------------------------------------------------------
(* handleTelemetry *)

\* Mutation of Accepts: the upstream/ and cloud/ prefixes are not looked at.
Accepts_AnyKey(m) == m.kind # "other"

\* Not an upstream/ or cloud/ key, parses, and carries telemetry.
Accepts(m) == m.kind = "telemetry"

Receive(h) ==
  /\ pc[h] = "idle"
  /\ bus # <<>>
  /\ bus' = Tail(bus)
  /\ IF Accepts(Head(bus))
       THEN /\ pc' = [pc EXCEPT ![h] = "ingest"]
            /\ pkt' = [pkt EXCEPT ![h] = Head(bus)]
            /\ arrived' = Append(arrived, Head(bus))
       ELSE UNCHANGED <<handlerVars, arrived>>
  /\ UNCHANGED <<published, ingested, echoed, fleet, queue, tickVars, hubVars, connVars>>

\* mule.Ingest; its error is discarded.
Ingest(h) ==
  /\ pc[h] = "ingest"
  /\ ingested' = Append(ingested, pkt[h])
  /\ pc' = [pc EXCEPT ![h] = "fleet"]
  /\ UNCHANGED <<published, bus, pkt, echoed, fleet, queue, tickVars, hubVars, connVars,
                 arrived>>

\* The critical section under fleetMu: the packet replaces what was stored, older
\* or not.  The breadcrumbs it also adds are read by nothing but handleFleet.
UpdateFleet(h) ==
  /\ pc[h] = "fleet"
  /\ fleet' = [fleet EXCEPT ![pkt[h].v] = pkt[h].n]
  /\ pc' = [pc EXCEPT ![h] = "send"]
  /\ UNCHANGED <<published, bus, pkt, ingested, echoed, queue, tickVars, hubVars, connVars,
                 arrived>>

\* Mutation of Broadcast: a send with a default case, which gives up on a full channel.
Broadcast_DropsWhenFull(h) ==
  /\ pc[h] = "send"
  /\ queue' = IF Len(queue) < BroadcastCap THEN Append(queue, Payload(pkt[h])) ELSE queue
  /\ pc' = [pc EXCEPT ![h] = "idle"]
  /\ pkt' = [pkt EXCEPT ![h] = Nobody]
  /\ UNCHANGED <<published, bus, ingested, echoed, fleet, tickVars, hubVars, connVars,
                 arrived>>

\* hub.broadcast <- payload, which waits while the channel is full.
Broadcast(h) ==
  /\ pc[h] = "send"
  /\ Len(queue) < BroadcastCap
  /\ queue' = Append(queue, Payload(pkt[h]))
  /\ pc' = [pc EXCEPT ![h] = "idle"]
  /\ pkt' = [pkt EXCEPT ![h] = Nobody]
  /\ UNCHANGED <<published, bus, ingested, echoed, fleet, tickVars, hubVars, connVars,
                 arrived>>

-----------------------------------------------------------------------------
(* The metrics ticker of main *)

MetricsTick ==
  /\ ticker = "wait"
  /\ ticks < MaxTicks
  /\ ticker' = "send"
  /\ ticks' = ticks + 1
  /\ UNCHANGED <<published, bus, handlerVars, ingested, echoed, fleet, queue, hubVars,
                 connVars, arrived>>

MetricsSend ==
  /\ ticker = "send"
  /\ Len(queue) < BroadcastCap
  /\ queue' = Append(queue, Metrics(ticks))
  /\ ticker' = "wait"
  /\ UNCHANGED <<published, bus, handlerVars, ingested, echoed, fleet, ticks, hubVars,
                 connVars, arrived>>

-----------------------------------------------------------------------------
(* Hub.run *)

pathVars == <<published, bus, handlerVars, ingested, echoed, fleet, tickVars, arrived>>

\* The hub goroutine is at its select.
Selecting == message = <<>>

Register(c) ==
  /\ Selecting
  /\ conn[c] = "registering"
  /\ clients' = clients \cup {c}
  /\ conn' = [conn EXCEPT ![c] = "reading"]
  /\ joined' = [joined EXCEPT ![c] = Len(taken)]
  /\ UNCHANGED <<pathVars, queue, message, todo, closed, received, taken, peer>>

\* Mutation of Unregister: the connection is closed but stays in the map.
Unregister_KeepsEntry(c) ==
  /\ Selecting
  /\ conn[c] = "leaving"
  /\ conn' = [conn EXCEPT ![c] = "gone"]
  /\ closed' = closed \cup (clients \cap {c})
  /\ UNCHANGED <<pathVars, queue, clients, message, todo, received, taken, joined, peer>>

Unregister(c) ==
  /\ Selecting
  /\ conn[c] = "leaving"
  /\ conn' = [conn EXCEPT ![c] = "gone"]
  /\ clients' = clients \ {c}
  /\ closed' = closed \cup (clients \cap {c})
  /\ UNCHANGED <<pathVars, queue, message, todo, received, taken, joined, peer>>

Take ==
  /\ Selecting
  /\ queue # <<>>
  /\ message' = Head(queue)
  /\ queue' = Tail(queue)
  /\ todo' = clients
  /\ taken' = Append(taken, Head(queue))
  /\ UNCHANGED <<pathVars, clients, closed, received, joined, connVars>>

\* client.WriteMessage returns nil: the browser gets the message, or the
\* operating system buffers it for a browser that is gone.  A browser that has
\* stopped reading blocks the call, which has no deadline.
WriteOk(c) ==
  /\ c \in todo
  /\ peer[c] # "stalled"
  /\ todo' = todo \ {c}
  /\ received' = IF peer[c] = "live" THEN [received EXCEPT ![c] = Append(@, message)]
                                     ELSE received
  /\ UNCHANGED <<pathVars, queue, clients, message, closed, taken, joined, connVars>>

\* Mutation of WriteFail: leave the range loop at the first error.
WriteFail_StopsLoop(c) ==
  /\ c \in todo
  /\ peer[c] = "dead"
  /\ todo' = {}
  /\ closed' = closed \cup {c}
  /\ clients' = clients \ {c}
  /\ UNCHANGED <<pathVars, queue, message, received, taken, joined, connVars>>

\* Mutation of WriteFail: the message is put back on the channel for another try.
WriteFail_Retries(c) ==
  /\ c \in todo
  /\ peer[c] = "dead"
  /\ todo' = todo \ {c}
  /\ closed' = closed \cup {c}
  /\ clients' = clients \ {c}
  /\ queue' = Append(queue, message)
  /\ UNCHANGED <<pathVars, message, received, taken, joined, connVars>>

\* It returns an error: close, delete, go on with the next client.
WriteFail(c) ==
  /\ c \in todo
  /\ peer[c] = "dead"
  /\ todo' = todo \ {c}
  /\ closed' = closed \cup {c}
  /\ clients' = clients \ {c}
  /\ UNCHANGED <<pathVars, queue, message, received, taken, joined, connVars>>

\* The range loop ends; back to the select.
Written ==
  /\ message # <<>>
  /\ todo = {}
  /\ message' = <<>>
  /\ UNCHANGED <<pathVars, queue, clients, todo, closed, received, taken, joined, connVars>>

-----------------------------------------------------------------------------
(* handleWS and its reader goroutine; the browsers *)

\* The upgrade succeeds; the handler waits to hand the connection to the hub.
Connect(c) ==
  /\ conn[c] = "none"
  /\ conn' = [conn EXCEPT ![c] = "registering"]
  /\ UNCHANGED <<pathVars, queue, hubVars, peer>>

\* Mutation of ReaderEnds: only the hub's close is noticed.
ReaderEnds_OnCloseOnly(c) ==
  /\ conn[c] = "reading"
  /\ c \in closed
  /\ conn' = [conn EXCEPT ![c] = "leaving"]
  /\ UNCHANGED <<pathVars, queue, hubVars, peer>>

\* ReadMessage fails: the browser has gone, or the hub has closed.
ReaderEnds(c) ==
  /\ conn[c] = "reading"
  /\ peer[c] = "dead" \/ c \in closed
  /\ conn' = [conn EXCEPT ![c] = "leaving"]
  /\ UNCHANGED <<pathVars, queue, hubVars, peer>>

Dies(c) ==
  /\ conn[c] # "none"
  /\ peer[c] # "dead"
  /\ peer' = [peer EXCEPT ![c] = "dead"]
  /\ UNCHANGED <<pathVars, queue, hubVars, conn>>

Stalls(c) ==
  /\ conn[c] # "none"
  /\ peer[c] = "live"
  /\ peer' = [peer EXCEPT ![c] = "stalled"]
  /\ UNCHANGED <<pathVars, queue, hubVars, conn>>

Resumes(c) ==
  /\ peer[c] = "stalled"
  /\ peer' = [peer EXCEPT ![c] = "live"]
  /\ UNCHANGED <<pathVars, queue, hubVars, conn>>

-----------------------------------------------------------------------------

Handle(h) == Receive(h) \/ Ingest(h) \/ UpdateFleet(h) \/ Broadcast(h)

Hub(c) == Register(c) \/ Unregister(c) \/ WriteOk(c) \/ WriteFail(c)

Browser(c) == Connect(c) \/ Dies(c) \/ Stalls(c) \/ Resumes(c)

Next ==
  \/ Publish \/ StreamDrops \/ MulePublishes
  \/ \E h \in Handlers : Handle(h)
  \/ MetricsTick \/ MetricsSend
  \/ Take \/ Written
  \/ \E c \in Clients : Hub(c) \/ ReaderEnds(c) \/ Browser(c)

Spec == Init /\ [][Next]_vars

(* Goroutines that can run do run (WF).  A select with several ready cases   *)
(* chooses among them at random, and goroutines waiting to send to a channel *)
(* are served in order, so neither is passed over for ever (SF).  A stalled  *)
(* browser reads again or its connection breaks: with neither, WriteMessage  *)
(* would hold the hub goroutine indefinitely.                                *)
FairSpec ==
  /\ Spec
  /\ \A h \in Handlers : /\ WF_vars(Ingest(h)) /\ WF_vars(UpdateFleet(h))
                         /\ SF_vars(Broadcast(h))
  /\ SF_vars(MetricsSend)
  /\ SF_vars(Take) /\ WF_vars(Written)
  /\ \A c \in Clients : /\ SF_vars(Register(c)) /\ SF_vars(Unregister(c))
                        /\ SF_vars(WriteOk(c) \/ WriteFail(c))
                        /\ WF_vars(ReaderEnds(c))
                        /\ WF_vars(Resumes(c) \/ (peer[c] = "stalled" /\ Dies(c)))

-----------------------------------------------------------------------------

(* The variables hold what the code can store in them: the channel respects  *)
(* its limit, and a handler at rest holds no packet.                         *)
TypeOK ==
  /\ published \in 0..MaxPackets
  /\ \A h \in Handlers : /\ pc[h] \in {"idle", "ingest", "fleet", "send"}
                         /\ (pc[h] = "idle") = (pkt[h] = Nobody)
  /\ fleet \in [Vehicles -> 0..MaxPackets]
  /\ Len(queue) <= BroadcastCap
  /\ ticker \in {"wait", "send"}
  /\ ticks \in 0..MaxTicks
  /\ clients \subseteq Clients
  /\ todo \subseteq Clients
  /\ closed \subseteq Clients
  /\ conn \in [Clients -> {"none", "registering", "reading", "leaving", "gone"}]
  /\ peer \in [Clients -> {"live", "stalled", "dead"}]

(* A packet passes through the gateway once: the mule's upstream copy, which *)
(* is published on the same bus, is not taken for new telemetry even when    *)
(* the telemetry selector matches it (the first test of handleTelemetry).    *)
NoFeedback == \A i, j \in 1..Len(ingested) : ingested[i].n = ingested[j].n => i = j

(* A dashboard sees the broadcast stream without a gap, a repetition or an   *)
(* inversion, from the moment Hub.run registered it until it leaves, and     *)
(* between two messages it is up to date: the errors of other connections    *)
(* in the same range loop cost it nothing.                                   *)
StreamIntact ==
  \A c \in Clients :
    LET got == received[c]  seen == SubSeq(taken, joined[c] + 1, Len(taken)) IN
      /\ IsPrefix(got, seen)
      /\ Selecting /\ c \in clients /\ peer[c] # "dead" => got = seen

(* The hub writes to open connections only: what it has closed, on an error  *)
(* or on unregister, is out of its map, and what is in the map still has a   *)
(* goroutine that will unregister it.                                        *)
MapIsOpen ==
  /\ (clients \cup todo) \cap closed = {}
  /\ \A c \in clients : conn[c] \in {"reading", "leaving"}

(* The dashboards that have been registered and whose browser is there,      *)
(* whether the hub still knows them or not.                                  *)
Audience == {c \in Clients : conn[c] \in {"reading", "leaving", "gone"} /\ peer[c] # "dead"}

Log == INSTANCE BroadcastLog
         WITH Readers <- Clients, Capacity <- BroadcastCap,
              Messages <- ({"telemetry"} \X (1..MaxPackets)) \cup ({"backhaul_status"} \X (1..MaxTicks)),
              waiting <- queue, log <- taken, reading <- Audience, start <- joined, got <- received

(* Handlers, ticker, hub and connections together are one log that every     *)
(* dashboard reads to the end: each packet and each metrics message enters   *)
(* it once, in the order of the channel, nobody who is still there is        *)
(* dropped, and the hub starts no message before all have got the last.      *)
ImplementsBroadcastLog == Log!Spec

(* A connection whose browser has gone is removed: the hub, busy with the    *)
(* broadcast, still gets round to the unregister channel.                    *)
DeadLeave == \A c \in Clients : peer[c] = "dead" ~> c \notin clients /\ conn[c] = "gone"

(* Every packet that a handler takes is broadcast: the full channel, the     *)
(* ticker, registrations and failing dashboards delay it and no more.        *)
PacketsBroadcast ==
  \A n \in 1..MaxPackets :
    (\E i \in 1..Len(arrived) : arrived[i].n = n) ~> <<"telemetry", n>> \in Range(taken)

-----------------------------------------------------------------------------
(* What a comment says, and the code does not do *)

(* VehicleState: it "holds the latest telemetry" of an asset, that is, the   *)
(* newest of the packets no handler is still working on.  Handlers on the    *)
(* in-memory bus overtake each other between Ingest and fleetMu, and the     *)
(* last to lock it wins.                                                     *)
FleetIsLatest ==
  (\A h \in Handlers : pc[h] \in {"idle", "send"}) =>
    \A v \in Vehicles, i \in 1..Len(arrived) : arrived[i].v = v => arrived[i].n <= fleet[v]
=============================================================================
