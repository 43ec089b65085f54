---------------------------- MODULE GatewayProofs ----------------------------
(***************************************************************************)
(* Proofs about Gateway, for every number of vehicles, handlers, dashboards *)
(* and messages, every channel capacity and either telemetry selector.      *)
(***************************************************************************)
EXTENDS Gateway, SequenceTheorems, TLAPS

Packets == [kind : {"telemetry"}, v : Vehicles, n : 1..MaxPackets]
Copies == [kind : {"upstream"}, v : Vehicles, n : 1..MaxPackets]
Messages == {"telemetry", "backhaul_status"} \X Nat

-----------------------------------------------------------------------------
(* What the variables hold *)

\* The path of a packet to the broadcast channel.
PathType ==
  /\ published \in 0..MaxPackets
  /\ bus \in Seq(Packets \cup Copies \cup {Other})
  /\ pc \in [Handlers -> {"idle", "ingest", "fleet", "send"}]
  /\ pkt \in [Handlers -> Packets \cup {Nobody}]
  /\ \A h \in Handlers : (pc[h] = "idle") = (pkt[h] = Nobody)
  /\ ingested \in Seq(Packets)
  /\ fleet \in [Vehicles -> 0..MaxPackets]
  /\ ticker \in {"wait", "send"}
  /\ ticks \in 0..MaxTicks
  /\ queue \in Seq(Messages)
  /\ Len(queue) <= BroadcastCap

\* The hub and its connections.
HubType ==
  /\ clients \subseteq Clients
  /\ todo \subseteq Clients
  /\ closed \subseteq Clients
  /\ conn \in [Clients -> {"none", "registering", "reading", "leaving", "gone"}]
  /\ peer \in [Clients -> {"live", "stalled", "dead"}]
  /\ message \in Messages \cup {<<>>}
  /\ Selecting => todo = {}
  /\ taken \in Seq(Messages)
  /\ received \in [Clients -> Seq(Messages)]
  /\ joined \in [Clients -> Nat]

Types == PathType /\ HubType

\* The kind of a message tells what it is.
LEMMA Kinds ==
  /\ Nobody \notin Packets
  /\ \A m \in Packets : m.kind = "telemetry"
  /\ \A m \in Copies : m.kind = "upstream"
  /\ Other.kind = "other"
  /\ \A m \in Packets \cup Copies \cup {Other} : Accepts(m) => m \in Packets
<1>1. \A m \in Packets : m.kind = "telemetry"
  BY DEF Packets
<1>2. \A m \in Copies : m.kind = "upstream"
  BY DEF Copies
<1>3. Other.kind = "other" /\ Nobody.kind = "none"
  BY DEF Other, Nobody
<1> QED BY <1>1, <1>2, <1>3 DEF Accepts

\* A message is no empty tuple: the hub goroutine with one in hand is not in its select.
LEMMA MessageNotEmpty == ASSUME NEW m \in Messages PROVE m # <<>>
BY DEF Messages

\* The broadcast channel carries messages.
LEMMA PayloadType ==
  /\ \A p \in Packets : Payload(p) \in Messages
  /\ \A k \in Nat : Metrics(k) \in Messages
BY GatewayAssumption DEF Packets, Messages, Payload, Metrics

\* The program starts with values of these types.
LEMMA InitTypes == Init => Types
BY GatewayAssumption DEF Init, Types, PathType, HubType, Selecting

\* Every step keeps them.
LEMMA NextTypes == Types /\ [Next]_vars => Types'
<1> SUFFICES ASSUME Types, [Next]_vars PROVE Types'
  OBVIOUS
<1> USE GatewayAssumption DEF Types, Selecting
<1>1. CASE Publish
  <2>1. published' \in 0..MaxPackets /\ published + 1 \in 1..MaxPackets
    BY <1>1 DEF Publish, PathType
  <2>2. \A v \in Vehicles : Telemetry(v, published + 1) \in Packets
    BY <2>1 DEF Telemetry, Packets
  <2>3. bus' \in Seq(Packets \cup Copies \cup {Other})
    <3>1. \A m \in Packets \cup Copies \cup {Other} :
            Append(bus, m) \in Seq(Packets \cup Copies \cup {Other})
      BY DEF PathType
    <3> QED BY <1>1, <2>2, <3>1 DEF Publish
  <2> QED BY <1>1, <2>1, <2>3 DEF Publish, PathType, HubType, handlerVars, tickVars, hubVars, connVars
<1>2. CASE StreamDrops
  BY <1>2 DEF StreamDrops, PathType, HubType, handlerVars, tickVars, hubVars, connVars
<1>3. CASE MulePublishes
  <2>1. \A p \in Range(ingested) : Upstream(p) \in Copies
    <3>1. \A p \in Packets : Upstream(p) \in Copies
      BY DEF Packets, Copies, Upstream
    <3>2. Range(ingested) \subseteq Packets
      BY DEF PathType, Range
    <3> QED BY <3>1, <3>2
  <2>2. bus' \in Seq(Packets \cup Copies \cup {Other})
    BY <1>3, <2>1 DEF MulePublishes, PathType
  <2> QED BY <1>3, <2>2 DEF MulePublishes, PathType, HubType, handlerVars, tickVars, hubVars, connVars
<1>4. ASSUME NEW h \in Handlers, Receive(h) PROVE Types'
  <2>1. bus' \in Seq(Packets \cup Copies \cup {Other})
    BY <1>4 DEF Receive, PathType
  <2>2. Head(bus) \in Packets \cup Copies \cup {Other}
    BY <1>4 DEF Receive, PathType
  <2>3. CASE Accepts(Head(bus))
    <3>1. Head(bus) \in Packets /\ Head(bus) # Nobody
      BY <2>2, <2>3, Kinds
    <3>2. /\ pc' \in [Handlers -> {"idle", "ingest", "fleet", "send"}]
          /\ pkt' \in [Handlers -> Packets \cup {Nobody}]
          /\ \A g \in Handlers : (pc'[g] = "idle") = (pkt'[g] = Nobody)
      BY <1>4, <2>3, <3>1 DEF Receive, PathType
    <3> QED BY <1>4, <2>1, <3>2 DEF Receive, PathType, HubType, tickVars, hubVars,
               connVars
  <2>4. CASE ~Accepts(Head(bus))
    BY <1>4, <2>1, <2>4 DEF Receive, PathType, HubType, handlerVars, tickVars,
       hubVars, connVars
  <2> QED BY <2>3, <2>4
<1>5. ASSUME NEW h \in Handlers, Ingest(h) PROVE Types'
  <2>1. pkt[h] \in Packets
    BY <1>5 DEF Ingest, PathType
  <2>2. ingested' \in Seq(Packets)
    BY <1>5, <2>1 DEF Ingest, PathType
  <2>3. /\ pc' \in [Handlers -> {"idle", "ingest", "fleet", "send"}]
        /\ \A g \in Handlers : (pc'[g] = "idle") = (pkt'[g] = Nobody)
    BY <1>5 DEF Ingest, PathType
  <2> QED BY <1>5, <2>2, <2>3 DEF Ingest, PathType, HubType, tickVars, hubVars,
             connVars
<1>6. ASSUME NEW h \in Handlers, UpdateFleet(h) PROVE Types'
  <2>1. pkt[h] \in Packets
    BY <1>6 DEF UpdateFleet, PathType
  <2>2. pkt[h].v \in Vehicles /\ pkt[h].n \in 0..MaxPackets
    BY <2>1 DEF Packets
  <2>3. fleet' \in [Vehicles -> 0..MaxPackets]
    BY <1>6, <2>2 DEF UpdateFleet, PathType
  <2>6. /\ pc' \in [Handlers -> {"idle", "ingest", "fleet", "send"}]
        /\ \A g \in Handlers : (pc'[g] = "idle") = (pkt'[g] = Nobody)
    BY <1>6 DEF UpdateFleet, PathType
  <2> QED BY <1>6, <2>3, <2>6 DEF UpdateFleet, PathType, HubType, tickVars, hubVars,
             connVars
<1>7. ASSUME NEW h \in Handlers, Broadcast(h) PROVE Types'
  <2>1. Payload(pkt[h]) \in Messages
    BY <1>7, PayloadType DEF Broadcast, PathType
  <2>2. queue' \in Seq(Messages) /\ Len(queue') <= BroadcastCap
    BY <1>7, <2>1 DEF Broadcast, PathType
  <2>3. /\ pc' \in [Handlers -> {"idle", "ingest", "fleet", "send"}]
        /\ pkt' \in [Handlers -> Packets \cup {Nobody}]
        /\ \A g \in Handlers : (pc'[g] = "idle") = (pkt'[g] = Nobody)
    BY <1>7 DEF Broadcast, PathType
  <2> QED BY <1>7, <2>2, <2>3 DEF Broadcast, PathType, HubType, tickVars, hubVars,
             connVars
<1>8. CASE MetricsTick
  BY <1>8 DEF MetricsTick, PathType, HubType, handlerVars, hubVars, connVars
<1>9. CASE MetricsSend
  <2>1. Metrics(ticks) \in Messages
    BY PayloadType DEF PathType
  <2>2. queue' \in Seq(Messages) /\ Len(queue') <= BroadcastCap
    BY <1>9, <2>1 DEF MetricsSend, PathType
  <2> QED BY <1>9, <2>2 DEF MetricsSend, PathType, HubType, handlerVars, hubVars,
             connVars
<1>10. CASE Take
  <2>1. Head(queue) \in Messages /\ queue' \in Seq(Messages) /\ Len(queue') <= BroadcastCap
    BY <1>10 DEF Take, PathType
  <2>2. taken' \in Seq(Messages) /\ message' \in Messages /\ message' # <<>>
    BY <1>10, <2>1, MessageNotEmpty DEF Take, HubType
  <2> QED BY <1>10, <2>1, <2>2 DEF Take, PathType, HubType, pathVars, handlerVars, tickVars, connVars
<1>11. CASE Written
  BY <1>11 DEF Written, PathType, HubType, pathVars, handlerVars, tickVars, connVars
<1>12. ASSUME NEW c \in Clients, Register(c) PROVE Types'
  <2>1. Len(taken) \in Nat
    BY DEF HubType
  <2> QED BY <1>12, <2>1 DEF Register, PathType, HubType, pathVars, handlerVars, tickVars
<1>13. ASSUME NEW c \in Clients, Unregister(c) PROVE Types'
  BY <1>13 DEF Unregister, PathType, HubType, pathVars, handlerVars, tickVars
<1>14. ASSUME NEW c \in Clients, WriteOk(c) PROVE Types'
  <2>1. message \in Messages
    BY <1>14 DEF WriteOk, HubType, Selecting
  <2>2. received' \in [Clients -> Seq(Messages)]
    BY <1>14, <2>1 DEF WriteOk, HubType
  <2> QED BY <1>14, <2>2 DEF WriteOk, PathType, HubType, pathVars, handlerVars, tickVars, connVars
<1>15. ASSUME NEW c \in Clients, WriteFail(c) PROVE Types'
  BY <1>15 DEF WriteFail, PathType, HubType, pathVars, handlerVars, tickVars, connVars
<1>16. ASSUME NEW c \in Clients, ReaderEnds(c) \/ Browser(c) PROVE Types'
  <2>1. conn' \in [Clients -> {"none", "registering", "reading", "leaving", "gone"}]
    BY <1>16 DEF ReaderEnds, Browser, Connect, Dies, Stalls, Resumes, HubType
  <2>2. peer' \in [Clients -> {"live", "stalled", "dead"}]
    BY <1>16 DEF ReaderEnds, Browser, Connect, Dies, Stalls, Resumes, HubType
  <2>3. UNCHANGED <<pathVars, queue, hubVars>>
    BY <1>16 DEF ReaderEnds, Browser, Connect, Dies, Stalls, Resumes
  <2> QED BY <2>1, <2>2, <2>3 DEF PathType, HubType, Selecting, pathVars, handlerVars, tickVars, hubVars
<1>17. CASE UNCHANGED vars
  BY <1>17 DEF vars, PathType, HubType, handlerVars, tickVars, hubVars, connVars
<1> QED BY <1>1, <1>2, <1>3, <1>4, <1>5, <1>6, <1>7, <1>8, <1>9, <1>10, <1>11, <1>12, <1>13,
           <1>14, <1>15, <1>16, <1>17 DEF Next, Handle, Hub

(* The gateway's variables keep their types and the channel its limit,       *)
(* whatever the number of messages.                                          *)
THEOREM GatewayTypeOK == Spec => []TypeOK
<1>1. Types => TypeOK
  BY DEF Types, PathType, HubType, TypeOK
<1> QED BY InitTypes, NextTypes, <1>1, PTL DEF Spec

-----------------------------------------------------------------------------
(* The map of connections *)

\* The steps that concern the hub: all others leave it and the connections alone.
HubStep ==
  \/ Take \/ Written
  \/ \E c \in Clients : Hub(c) \/ ReaderEnds(c) \/ Browser(c)

\* No other step touches the hub's variables or a connection's.
LEMMA PathStep == [Next]_vars => HubStep \/ UNCHANGED <<hubVars, connVars>>
<1> SUFFICES ASSUME [Next]_vars, ~HubStep PROVE UNCHANGED <<hubVars, connVars>>
  OBVIOUS
<1>1. CASE Publish \/ StreamDrops \/ MulePublishes \/ MetricsTick \/ MetricsSend
  BY <1>1 DEF Publish, StreamDrops, MulePublishes, MetricsTick, MetricsSend
<1>2. CASE \E h \in Handlers : Handle(h)
  BY <1>2 DEF Handle, Receive, Ingest, UpdateFleet, Broadcast
<1>3. CASE UNCHANGED vars
  BY <1>3 DEF vars
<1> QED BY <1>1, <1>2, <1>3 DEF Next, HubStep

\* A connection is handed to the hub once and closed at most once after that.
MapInv ==
  /\ MapIsOpen
  /\ todo \subseteq clients
  /\ \A c \in closed : conn[c] \notin {"none", "registering"}

\* Every step keeps the map in order.
LEMMA NextMapInv == Types /\ MapInv /\ [Next]_vars => MapInv'
<1> SUFFICES ASSUME Types, MapInv, [Next]_vars PROVE MapInv'
  OBVIOUS
<1> USE DEF Types, HubType, MapInv, MapIsOpen
<1>1. CASE Take
  BY <1>1 DEF Take, connVars
<1>2. CASE Written
  BY <1>2 DEF Written, connVars
<1>3. ASSUME NEW c \in Clients, Register(c) PROVE MapInv'
  BY <1>3 DEF Register
<1>4. ASSUME NEW c \in Clients, Unregister(c) PROVE MapInv'
  BY <1>4 DEF Unregister, Selecting
<1>5. ASSUME NEW c \in Clients, WriteOk(c) PROVE MapInv'
  BY <1>5 DEF WriteOk, connVars
<1>6. ASSUME NEW c \in Clients, WriteFail(c) PROVE MapInv'
  BY <1>6 DEF WriteFail, connVars
<1>7. ASSUME NEW c \in Clients, ReaderEnds(c) PROVE MapInv'
  BY <1>7 DEF ReaderEnds, hubVars
<1>8. ASSUME NEW c \in Clients, Browser(c) PROVE MapInv'
  BY <1>8 DEF Browser, Connect, Dies, Stalls, Resumes, hubVars
<1>9. CASE UNCHANGED <<hubVars, connVars>>
  BY <1>9 DEF hubVars, connVars
<1> QED BY PathStep, <1>1, <1>2, <1>3, <1>4, <1>5, <1>6, <1>7, <1>8, <1>9 DEF HubStep, Hub

(* The hub never writes to a connection it has closed, and every connection  *)
(* in its map still has the goroutine that will unregister it, however the   *)
(* failing writes, the readers' ends and the registrations interleave.       *)
THEOREM GatewayMapIsOpen == Spec => []MapIsOpen
<1>1. Init => MapInv
  BY DEF Init, MapInv, MapIsOpen
<1>2. MapInv => MapIsOpen
  BY DEF MapInv
<1> QED BY InitTypes, NextTypes, <1>1, NextMapInv, <1>2, PTL DEF Spec

-----------------------------------------------------------------------------
(* The stream a dashboard sees *)

\* What a browser got is a run of what the hub took, from its registration on.
Follows(got, from) ==
  /\ from + Len(got) <= Len(taken)
  /\ \A i \in 1..Len(got) : got[i] = taken[from + i]

\* A browser that is not dead lacks only the message in hand, and that only
\* while the range loop has still to visit it.
StreamInv ==
  /\ ~Selecting => Len(taken) > 0 /\ message = taken[Len(taken)]
  /\ \A c \in Clients :
       /\ Follows(received[c], joined[c])
       /\ conn[c] \in {"none", "registering"} => received[c] = <<>>
       /\ c \in clients /\ peer[c] # "dead" /\ c \notin todo =>
            joined[c] + Len(received[c]) = Len(taken)
       /\ c \in todo /\ peer[c] # "dead" => joined[c] + Len(received[c]) + 1 = Len(taken)

\* A run of a sequence that starts at its place is a prefix of the rest.
LEMMA FollowsIsPrefix ==
  ASSUME NEW S, taken \in Seq(S), NEW got \in Seq(S), NEW from \in Nat, Follows(got, from)
  PROVE  LET seen == SubSeq(taken, from + 1, Len(taken)) IN
           /\ IsPrefix(got, seen)
           /\ from + Len(got) = Len(taken) => got = seen
<1> DEFINE seen == SubSeq(taken, from + 1, Len(taken))
<1>1. Len(taken) \in Nat /\ Len(got) \in Nat /\ from + Len(got) <= Len(taken)
  BY DEF Follows
<1>2. seen \in Seq(S) /\ Len(seen) = Len(taken) - from
  BY <1>1
<1>3. \A i \in 1..(Len(taken) - from) : seen[i] = taken[from + i]
  BY <1>1
<1>4. \A i \in 1..Len(got) : got[i] = seen[i]
  BY <1>1, <1>3 DEF Follows
<1> HIDE DEF seen
<1>5. IsPrefix(got, seen)
  <2>1. SubSeq(got, 1, Len(got)) = got
    BY <1>1
  <2>2. SubSeq(seen, 1, Len(got)) \in Seq(S) /\ Len(SubSeq(seen, 1, Len(got))) = Len(got)
    BY <1>1, <1>2
  <2>3. \A i \in 1..Len(got) : SubSeq(seen, 1, Len(got))[i] = seen[i]
    BY <1>1, <1>2
  <2>4. SubSeq(seen, 1, Len(got)) = got
    BY <2>2, <2>3, <1>4, SeqEqual
  <2> QED BY <2>1, <2>4, <1>1, <1>2 DEF IsPrefix
<1>6. ASSUME from + Len(got) = Len(taken) PROVE got = seen
  <2>1. Len(got) = Len(seen)
    BY <1>6, <1>1, <1>2
  <2> QED BY <2>1, <1>2, <1>4, SeqEqual
<1> QED BY <1>5, <1>6 DEF seen

\* Every step keeps the streams intact.
LEMMA NextStreamInv == Types /\ MapInv /\ StreamInv /\ [Next]_vars => StreamInv'
<1> SUFFICES ASSUME Types, MapInv, StreamInv, [Next]_vars PROVE StreamInv'
  OBVIOUS
<1> USE DEF Types, HubType, MapInv, MapIsOpen, StreamInv, Selecting
<1>0. Len(taken) \in Nat /\ \A c \in Clients : Len(received[c]) \in Nat /\ joined[c] \in Nat
  OBVIOUS
<1>1. CASE Take
  <2>1. Head(queue) \in Messages
    BY <1>1 DEF Take, PathType
  <2>2. /\ Len(taken') = Len(taken) + 1 /\ taken'[Len(taken) + 1] = Head(queue)
        /\ \A i \in 1..Len(taken) : taken'[i] = taken[i]
    BY <1>1, <2>1 DEF Take
  <2>3. \A c \in Clients : Follows(received[c], joined[c])'
    BY <1>0, <1>1, <2>2 DEF Take, Follows
  <2>4. message' = taken'[Len(taken')] /\ Len(taken') > 0
    BY <1>0, <1>1, <2>2 DEF Take
  <2> QED BY <1>0, <1>1, <2>2, <2>3, <2>4 DEF Take, connVars
<1>2. CASE Written
  BY <1>2 DEF Written, connVars, Follows
<1>3. ASSUME NEW c \in Clients, Register(c) PROVE StreamInv'
  <2>1. \A d \in Clients : Follows(received[d], joined[d])'
    BY <1>0, <1>3 DEF Register, Follows
  <2> QED BY <1>0, <1>3, <2>1 DEF Register
<1>4. ASSUME NEW c \in Clients, Unregister(c) PROVE StreamInv'
  BY <1>4 DEF Unregister, Follows
<1>5. ASSUME NEW c \in Clients, WriteOk(c) PROVE StreamInv'
  <2>1. CASE peer[c] = "live"
    <3>1. message \in Messages /\ message = taken[Len(taken)]
      BY <1>5 DEF WriteOk
    <3>2. joined[c] + Len(received[c]) + 1 = Len(taken)
      BY <1>5, <2>1 DEF WriteOk
    <3>3. /\ received'[c] = Append(received[c], message)
          /\ \A d \in Clients \ {c} : received'[d] = received[d]
      BY <1>5, <2>1 DEF WriteOk
    <3>4. /\ Len(received'[c]) = Len(received[c]) + 1
          /\ received'[c][Len(received[c]) + 1] = message
          /\ \A i \in 1..Len(received[c]) : received'[c][i] = received[c][i]
      BY <3>1, <3>3
    <3>5. \A d \in Clients : Follows(received[d], joined[d])'
      <4>1. Follows(received[c], joined[c])'
        BY <1>0, <1>5, <3>1, <3>2, <3>4 DEF WriteOk, Follows
      <4> QED BY <4>1, <1>5, <3>3 DEF WriteOk, Follows
    <3>6. conn[c] \notin {"none", "registering"}
      BY <1>5 DEF WriteOk
    <3> QED BY <1>0, <1>5, <3>2, <3>3, <3>4, <3>5, <3>6 DEF WriteOk, connVars
  <2>2. CASE peer[c] # "live"
    BY <1>5, <2>2 DEF WriteOk, connVars, Follows
  <2> QED BY <2>1, <2>2
<1>6. ASSUME NEW c \in Clients, WriteFail(c) PROVE StreamInv'
  BY <1>6 DEF WriteFail, connVars, Follows
<1>7. ASSUME NEW c \in Clients, ReaderEnds(c) PROVE StreamInv'
  BY <1>7 DEF ReaderEnds, hubVars, Follows
<1>8. ASSUME NEW c \in Clients, Browser(c) PROVE StreamInv'
  <2>1. \A d \in Clients : Follows(received[d], joined[d])'
    BY <1>8 DEF Browser, Connect, Dies, Stalls, Resumes, hubVars, Follows
  <2>2. CASE Connect(c)
    BY <2>1, <2>2 DEF Connect, hubVars
  <2>3. CASE Dies(c)
    BY <2>1, <2>3 DEF Dies, hubVars
  <2>4. CASE Stalls(c)
    BY <2>1, <2>4 DEF Stalls, hubVars
  <2>5. CASE Resumes(c)
    BY <2>1, <2>5 DEF Resumes, hubVars
  <2> QED BY <1>8, <2>2, <2>3, <2>4, <2>5 DEF Browser
<1>9. CASE UNCHANGED <<hubVars, connVars>>
  BY <1>9 DEF hubVars, connVars, Follows
<1> QED BY PathStep, <1>1, <1>2, <1>3, <1>4, <1>5, <1>6, <1>7, <1>8, <1>9 DEF HubStep, Hub

(* Every dashboard sees the broadcast stream from its registration on, with  *)
(* nothing left out, repeated or exchanged, and is up to date whenever the   *)
(* hub is back in its select; other connections that fail, join, leave or    *)
(* stall in the same range loop change nothing about that.                   *)
THEOREM GatewayStreamIntact == Spec => []StreamIntact
<1>1. Init => MapInv /\ StreamInv
  BY DEF Init, MapInv, MapIsOpen, StreamInv, Selecting, Follows
<1>2. Types /\ MapInv /\ StreamInv => StreamIntact
  <2> SUFFICES ASSUME Types, StreamInv, NEW c \in Clients
               PROVE  LET seen == SubSeq(taken, joined[c] + 1, Len(taken)) IN
                        /\ IsPrefix(received[c], seen)
                        /\ Selecting /\ c \in clients /\ peer[c] # "dead" => received[c] = seen
    BY DEF StreamIntact
  <2>1. /\ taken \in Seq(Messages) /\ received[c] \in Seq(Messages) /\ joined[c] \in Nat
        /\ Follows(received[c], joined[c])
    BY DEF Types, HubType, StreamInv
  <2>2. Selecting /\ c \in clients /\ peer[c] # "dead" =>
          joined[c] + Len(received[c]) = Len(taken)
    BY DEF Types, HubType, StreamInv
  <2> QED BY <2>1, <2>2, FollowsIsPrefix
<1> QED BY InitTypes, NextTypes, <1>1, NextMapInv, NextStreamInv, <1>2, PTL DEF Spec

-----------------------------------------------------------------------------
(* Packets pass once *)

\* A packet with number n has left the bus: what is on it came later.
Older(n) ==
  /\ n <= published
  /\ \A i \in 1..Len(bus) : bus[i] \in Packets => n < bus[i].n

\* The vehicles' packets are on the bus in the order of their numbers.
BusInv ==
  /\ \A i \in 1..Len(bus) : bus[i] \in Packets => bus[i].n <= published
  /\ \A i, j \in 1..Len(bus) : i < j /\ bus[i] \in Packets /\ bus[j] \in Packets =>
                                bus[i].n < bus[j].n

\* What a step does to the bus: nothing, a loss, a packet taken, or one added
\* that is new or no telemetry.
LEMMA BusStep ==
  ASSUME Types, [Next]_vars
  PROVE  \/ UNCHANGED <<published, bus>>
         \/ bus' = <<>> /\ UNCHANGED published
         \/ bus # <<>> /\ bus' = Tail(bus) /\ UNCHANGED published
         \/ \E m \in Packets \cup Copies \cup {Other} :
              /\ bus' = Append(bus, m)
              /\ published' \in {published, published + 1}
              /\ m \in Packets => m.n = published + 1 /\ published' = published + 1
<1> USE DEF Types
<1>1. CASE Publish
  <2>1. published + 1 \in 1..MaxPackets
    BY <1>1, GatewayAssumption DEF Publish, PathType
  <2>2. \A v \in Vehicles : /\ Telemetry(v, published + 1) \in Packets
                            /\ Telemetry(v, published + 1).n = published + 1
    BY <2>1 DEF Telemetry, Packets
  <2>3. Other \notin Packets
    BY Kinds
  <2>4. CASE bus' = Append(bus, Other)
    BY <1>1, <2>3, <2>4 DEF Publish
  <2>5. ASSUME NEW v \in Vehicles, bus' = Append(bus, Telemetry(v, published + 1))
        PROVE  \E m \in Packets : /\ bus' = Append(bus, m) /\ published' = published + 1
                                  /\ m.n = published + 1
    BY <1>1, <2>2, <2>5 DEF Publish
  <2> QED BY <1>1, <2>4, <2>5 DEF Publish
<1>2. CASE StreamDrops
  BY <1>2 DEF StreamDrops
<1>3. CASE MulePublishes
  <2>1. \A p \in Range(ingested) : Upstream(p) \in Copies
    <3>1. \A p \in Packets : Upstream(p) \in Copies
      BY DEF Packets, Copies, Upstream
    <3>2. Range(ingested) \subseteq Packets
      BY DEF PathType, Range
    <3> QED BY <3>1, <3>2
  <2>2. \A m \in Copies : m \notin Packets
    BY Kinds
  <2> QED BY <1>3, <2>1, <2>2 DEF MulePublishes
<1>4. ASSUME NEW h \in Handlers, Handle(h)
      PROVE  \/ UNCHANGED <<published, bus>>
             \/ bus # <<>> /\ bus' = Tail(bus) /\ UNCHANGED published
  BY <1>4 DEF Handle, Receive, Ingest, UpdateFleet, Broadcast
<1>5. CASE MetricsTick \/ MetricsSend \/ UNCHANGED vars
  BY <1>5 DEF MetricsTick, MetricsSend, vars
<1>6. CASE HubStep
  BY <1>6 DEF HubStep, Hub, Take, Written, Register, Unregister, WriteOk, WriteFail, ReaderEnds,
     Browser, Connect, Dies, Stalls, Resumes, pathVars
<1> QED BY <1>1, <1>2, <1>3, <1>4, <1>5, <1>6 DEF Next, HubStep

\* What has left the bus stays older than what is on it.
LEMMA OlderLasts ==
  ASSUME Types, [Next]_vars, NEW n \in Nat, Older(n)
  PROVE  Older(n)'
<1>1. /\ bus \in Seq(Packets \cup Copies \cup {Other}) /\ Len(bus) \in Nat /\ published \in Nat
      /\ \A m \in Packets : m.n \in Nat
  BY DEF Types, PathType, Packets
<1>2. CASE UNCHANGED <<published, bus>>
  BY <1>2 DEF Older
<1>3. CASE bus' = <<>> /\ UNCHANGED published
  BY <1>3 DEF Older
<1>4. CASE bus # <<>> /\ bus' = Tail(bus) /\ UNCHANGED published
  <2>1. Len(bus') = Len(bus) - 1 /\ \A i \in 1..Len(bus') : bus'[i] = bus[i + 1]
    BY <1>1, <1>4
  <2> QED BY <1>1, <1>4, <2>1 DEF Older
<1>5. ASSUME NEW m \in Packets \cup Copies \cup {Other}, bus' = Append(bus, m),
             published' \in {published, published + 1},
             m \in Packets => m.n = published + 1 /\ published' = published + 1
      PROVE  Older(n)'
  <2>1. /\ Len(bus') = Len(bus) + 1 /\ bus'[Len(bus) + 1] = m
        /\ \A i \in 1..Len(bus) : bus'[i] = bus[i]
    BY <1>1, <1>5
  <2> QED BY <1>1, <1>5, <2>1 DEF Older
<1> QED BY BusStep, <1>2, <1>3, <1>4, <1>5

\* Every step keeps the packets on the bus in order.
LEMMA NextBusInv == Types /\ BusInv /\ [Next]_vars => BusInv'
<1> SUFFICES ASSUME Types, BusInv, [Next]_vars PROVE BusInv'
  OBVIOUS
<1>1. /\ bus \in Seq(Packets \cup Copies \cup {Other}) /\ Len(bus) \in Nat /\ published \in Nat
      /\ \A m \in Packets : m.n \in Nat
  BY DEF Types, PathType, Packets
<1>2. CASE UNCHANGED <<published, bus>>
  BY <1>2 DEF BusInv
<1>3. CASE bus' = <<>> /\ UNCHANGED published
  BY <1>3 DEF BusInv
<1>4. CASE bus # <<>> /\ bus' = Tail(bus) /\ UNCHANGED published
  <2>1. Len(bus') = Len(bus) - 1 /\ \A i \in 1..Len(bus') : bus'[i] = bus[i + 1]
    BY <1>1, <1>4
  <2>2. \A i \in 1..Len(bus') : i + 1 \in 1..Len(bus)
    BY <1>1, <2>1
  <2> QED BY <1>1, <1>4, <2>1, <2>2 DEF BusInv
<1>5. ASSUME NEW m \in Packets \cup Copies \cup {Other}, bus' = Append(bus, m),
             published' \in {published, published + 1},
             m \in Packets => m.n = published + 1 /\ published' = published + 1
      PROVE  BusInv'
  <2>1. /\ Len(bus') = Len(bus) + 1 /\ bus'[Len(bus) + 1] = m
        /\ \A i \in 1..Len(bus) : bus'[i] = bus[i]
    BY <1>1, <1>5
  <2> QED BY <1>1, <1>5, <2>1 DEF BusInv
<1> QED BY BusStep, <1>2, <1>3, <1>4, <1>5

\* The packet a handler takes is older than the rest.
LEMMA TakenIsOlder ==
  ASSUME Types, BusInv, NEW h \in Handlers, Receive(h), Accepts(Head(bus))
  PROVE  /\ Head(bus) \in Packets /\ pkt'[h] = Head(bus)
         /\ \A n \in Nat : n = Head(bus).n => Older(n)'
<1>1. /\ bus \in Seq(Packets \cup Copies \cup {Other}) /\ Len(bus) \in Nat \ {0}
      /\ bus' = Tail(bus) /\ published' = published /\ Head(bus) = bus[1]
  BY DEF Types, PathType, Receive
<1>2. Head(bus) \in Packets
  BY <1>1, Kinds
<1>3. Len(bus') = Len(bus) - 1 /\ \A i \in 1..Len(bus') : bus'[i] = bus[i + 1]
  BY <1>1
<1>4. \A i \in 1..Len(bus') : bus'[i] \in Packets => Head(bus).n < bus'[i].n
  BY <1>1, <1>2, <1>3 DEF BusInv
<1>5. Head(bus).n <= published'
  BY <1>1, <1>2 DEF BusInv
<1>6. pkt'[h] = Head(bus)
  BY DEF Types, PathType, Receive
<1> QED BY <1>2, <1>4, <1>5, <1>6 DEF Older

\* A packet is with one handler that has still to ingest it, or ingested once.
FeedInv ==
  /\ \A h \in Handlers : pc[h] = "ingest" => Older(pkt[h].n)
  /\ \A g, h \in Handlers : pc[g] = "ingest" /\ pc[h] = "ingest" /\ pkt[g].n = pkt[h].n => g = h
  /\ \A i \in 1..Len(ingested) : Older(ingested[i].n)
  /\ \A i \in 1..Len(ingested), h \in Handlers :
       pc[h] = "ingest" => ingested[i].n # pkt[h].n
  /\ NoFeedback

\* The steps that change what the handlers hold and what was ingested.
LEMMA HandlerStep ==
  ASSUME [Next]_vars
  PROVE  \/ \E h \in Handlers : Handle(h)
         \/ UNCHANGED <<handlerVars, ingested, fleet, arrived>>
<1>1. CASE Publish \/ StreamDrops \/ MulePublishes \/ MetricsTick \/ MetricsSend \/ UNCHANGED vars
  BY <1>1 DEF Publish, StreamDrops, MulePublishes, MetricsTick, MetricsSend, vars
<1>2. CASE HubStep
  BY <1>2 DEF HubStep, Hub, Take, Written, Register, Unregister, WriteOk, WriteFail, ReaderEnds,
     Browser, Connect, Dies, Stalls, Resumes, pathVars
<1> QED BY <1>1, <1>2 DEF Next, HubStep

\* No step ingests a packet a second time.
LEMMA NextFeedInv == Types /\ BusInv /\ FeedInv /\ [Next]_vars => FeedInv'
<1> SUFFICES ASSUME Types, BusInv, FeedInv, [Next]_vars PROVE FeedInv'
  OBVIOUS
<1>1. /\ \A h \in Handlers : pc[h] # "idle" => pkt[h] \in Packets
      /\ ingested \in Seq(Packets) /\ Len(ingested) \in Nat
      /\ \A i \in 1..Len(ingested) : ingested[i] \in Packets
      /\ \A m \in Packets : m.n \in Nat
  <2>1. \A h \in Handlers : pc[h] # "idle" => pkt[h] \in Packets
    BY DEF Types, PathType
  <2>2. ingested \in Seq(Packets) /\ Len(ingested) \in Nat
    BY DEF Types, PathType
  <2>3. \A i \in 1..Len(ingested) : ingested[i] \in Packets
    BY <2>2
  <2>4. \A m \in Packets : m.n \in Nat
    BY DEF Packets
  <2> QED BY <2>1, <2>2, <2>3, <2>4
<1>2. \A n \in Nat : Older(n) => Older(n)'
  BY OlderLasts
<1>3. ASSUME NEW h \in Handlers, Receive(h) PROVE FeedInv'
  <2>1. CASE Accepts(Head(bus))
    <3> DEFINE n == Head(bus).n
    <3>1. /\ Head(bus) \in Packets /\ n \in Nat /\ pkt'[h].n = n
      BY <1>1, <1>3, <2>1, TakenIsOlder
    <3>2. \A k \in Nat : k = n => Older(k)'
      BY <1>3, <2>1, TakenIsOlder
    <3>3. \A k \in Nat : Older(k) => k < n
      <4>1. bus[1] = Head(bus) /\ 1 \in 1..Len(bus)
        BY <1>3 DEF Receive, Types, PathType
      <4> QED BY <3>1, <4>1 DEF Older
    <3>4. /\ \A g \in Handlers \ {h} : pc'[g] = pc[g] /\ pkt'[g] = pkt[g]
          /\ ingested' = ingested
      BY <1>3, <2>1 DEF Receive, Types, PathType
    <3> HIDE DEF n
    <3>5. \A g \in Handlers \ {h} : pc[g] = "ingest" => pkt[g].n \in Nat /\ pkt[g].n < n
      BY <1>1, <3>3 DEF FeedInv
    <3>6. \A i \in 1..Len(ingested) : ingested[i].n \in Nat /\ ingested[i].n < n
      BY <1>1, <3>3 DEF FeedInv
    <3>7. \A g \in Handlers : pc'[g] = "ingest" => Older(pkt[g].n)'
      BY <1>1, <1>2, <3>1, <3>2, <3>4 DEF FeedInv
    <3>8. \A i \in 1..Len(ingested) : Older(ingested[i].n)'
      BY <1>1, <1>2, <3>4 DEF FeedInv
    <3>9. \A f, g \in Handlers : pc'[f] = "ingest" /\ pc'[g] = "ingest" /\ pkt'[f].n = pkt'[g].n => f = g
      BY <3>1, <3>4, <3>5 DEF FeedInv
    <3>10. \A i \in 1..Len(ingested), g \in Handlers :
             pc'[g] = "ingest" => ingested[i].n # pkt'[g].n
      BY <3>1, <3>4, <3>6 DEF FeedInv
    <3> QED BY <3>4, <3>7, <3>8, <3>9, <3>10 DEF FeedInv, NoFeedback
  <2>2. CASE ~Accepts(Head(bus))
    <3>1. UNCHANGED <<pc, pkt, ingested>>
      BY <1>3, <2>2 DEF Receive, handlerVars
    <3> QED BY <1>1, <1>2, <3>1 DEF FeedInv, NoFeedback
  <2> QED BY <2>1, <2>2
<1>4. ASSUME NEW h \in Handlers, Ingest(h) PROVE FeedInv'
  <2>1. pkt[h] \in Packets /\ pc[h] = "ingest"
    BY <1>1, <1>4 DEF Ingest
  <2>2. /\ Len(ingested') = Len(ingested) + 1 /\ ingested'[Len(ingested) + 1] = pkt[h]
        /\ \A i \in 1..Len(ingested) : ingested'[i] = ingested[i]
    BY <1>1, <1>4, <2>1 DEF Ingest
  <2>3. /\ \A g \in Handlers \ {h} : pc'[g] = pc[g]
        /\ pc'[h] = "fleet" /\ pkt' = pkt
    BY <1>4 DEF Ingest, Types, PathType
  <2>4. \A i \in 1..Len(ingested') : i \in 1..Len(ingested) \/ i = Len(ingested) + 1
    BY <1>1, <2>2
  <2>5. \A g \in Handlers : pc'[g] = "ingest" => pc[g] = "ingest" /\ g # h
    BY <2>3
  <2>6. \A g \in Handlers : pc'[g] = "ingest" => Older(pkt[g].n)'
    BY <1>1, <1>2, <2>3, <2>5 DEF FeedInv
  <2>7. \A i \in 1..Len(ingested') : Older(ingested[i].n)'
    BY <1>1, <1>2, <2>1, <2>2, <2>4 DEF FeedInv
  <2>8. \A i \in 1..Len(ingested'), g \in Handlers :
          pc'[g] = "ingest" => ingested'[i].n # pkt'[g].n
    BY <2>1, <2>2, <2>3, <2>4, <2>5 DEF FeedInv
  <2>9. NoFeedback'
    <3>1. \A i \in 1..Len(ingested) : ingested[i].n # pkt[h].n
      BY <2>1 DEF FeedInv
    <3> QED BY <3>1, <2>2, <2>4 DEF FeedInv, NoFeedback
  <2> QED BY <2>3, <2>5, <2>6, <2>7, <2>8, <2>9 DEF FeedInv
<1>5. ASSUME NEW h \in Handlers, UpdateFleet(h) \/ Broadcast(h) PROVE FeedInv'
  <2>1. \A g \in Handlers : pc'[g] = "ingest" => pc[g] = "ingest" /\ pkt'[g] = pkt[g]
    BY <1>5 DEF UpdateFleet, Broadcast, Types, PathType
  <2>2. ingested' = ingested
    BY <1>5 DEF UpdateFleet, Broadcast
  <2>3. \A g \in Handlers : pc'[g] = "ingest" => Older(pkt[g].n)'
    BY <1>1, <1>2, <2>1 DEF FeedInv
  <2> QED BY <1>1, <1>2, <2>1, <2>2, <2>3 DEF FeedInv, NoFeedback
<1>6. CASE UNCHANGED <<handlerVars, ingested, fleet, arrived>>
  <2>1. UNCHANGED <<pc, pkt, ingested>>
    BY <1>6 DEF handlerVars
  <2> QED BY <1>1, <1>2, <2>1 DEF FeedInv, NoFeedback
<1> QED BY HandlerStep, <1>3, <1>4, <1>5, <1>6 DEF Handle

(* No packet is passed to the mule twice, with any number of handler         *)
(* goroutines, and although the mule's copies come back on the same bus: the *)
(* key test of handleTelemetry is enough.                                    *)
THEOREM GatewayNoFeedback == Spec => []NoFeedback
<1>1. Init => BusInv /\ FeedInv
  BY DEF Init, BusInv, FeedInv, NoFeedback
<1>2. FeedInv => NoFeedback
  BY DEF FeedInv
<1> QED BY InitTypes, NextTypes, <1>1, NextBusInv, NextFeedInv, <1>2, PTL DEF Spec

-----------------------------------------------------------------------------
(* The gateway implements the broadcast log *)

\* Only a browser that has gone is taken out of the map.
AudienceInv ==
  /\ \A c \in closed : peer[c] = "dead"
  /\ \A c \in Clients : conn[c] \in {"leaving", "gone"} => peer[c] = "dead"
  /\ Audience \subseteq clients

\* Every step keeps it so.
LEMMA NextAudienceInv == Types /\ MapInv /\ AudienceInv /\ [Next]_vars => AudienceInv'
<1> SUFFICES ASSUME Types, MapInv, AudienceInv, [Next]_vars PROVE AudienceInv'
  OBVIOUS
<1> USE DEF Types, HubType, MapInv, MapIsOpen, AudienceInv, Audience
<1>1. CASE Take
  BY <1>1 DEF Take, connVars
<1>2. CASE Written
  BY <1>2 DEF Written, connVars
<1>3. ASSUME NEW c \in Clients, Register(c) PROVE AudienceInv'
  BY <1>3 DEF Register
<1>4. ASSUME NEW c \in Clients, Unregister(c) PROVE AudienceInv'
  BY <1>4 DEF Unregister
<1>5. ASSUME NEW c \in Clients, WriteOk(c) PROVE AudienceInv'
  BY <1>5 DEF WriteOk, connVars
<1>6. ASSUME NEW c \in Clients, WriteFail(c) PROVE AudienceInv'
  BY <1>6 DEF WriteFail, connVars
<1>7. ASSUME NEW c \in Clients, ReaderEnds(c) PROVE AudienceInv'
  BY <1>7 DEF ReaderEnds, hubVars
<1>8. ASSUME NEW c \in Clients, Browser(c) PROVE AudienceInv'
  BY <1>8 DEF Browser, Connect, Dies, Stalls, Resumes, hubVars
<1>9. CASE UNCHANGED <<hubVars, connVars>>
  BY <1>9 DEF hubVars, connVars
<1> QED BY PathStep, <1>1, <1>2, <1>3, <1>4, <1>5, <1>6, <1>7, <1>8, <1>9 DEF HubStep, Hub

\* The messages that have got as far as the channel.
Heard == ToSet(queue) \cup ToSet(taken)

\* A packet is with one handler or has been heard, never both; a metrics message
\* is heard once as well.
OnceInv ==
  /\ \A h \in Handlers : pc[h] # "idle" => Older(pkt[h].n) /\ Payload(pkt[h]) \notin Heard
  /\ \A g, h \in Handlers : pc[g] # "idle" /\ pc[h] # "idle" /\ pkt[g].n = pkt[h].n => g = h
  /\ \A n \in Nat : <<"telemetry", n>> \in Heard => Older(n)
  /\ \A k \in Nat : Metrics(k) \in Heard => k <= ticks /\ (ticker = "send" => k < ticks)
  /\ ticker = "send" => ticks > 0

\* What a step adds to the messages heard.
LEMMA HeardStep ==
  ASSUME Types, [Next]_vars
  PROVE  \/ \E h \in Handlers : Broadcast(h) /\ Heard' = Heard \cup {Payload(pkt[h])}
         \/ MetricsSend /\ Heard' = Heard \cup {Metrics(ticks)}
         \/ /\ Heard' = Heard
            /\ ~MetricsSend
            /\ \A h \in Handlers : ~Broadcast(h)
<1>1. queue \in Seq(Messages) /\ taken \in Seq(Messages)
  BY DEF Types, PathType, HubType
<1>2. ASSUME NEW m, queue' = Append(queue, m), taken' = taken PROVE Heard' = Heard \cup {m}
  <2>1. ToSet(queue') = ToSet(queue) \cup {m}
    BY <1>1, <1>2 DEF ToSet
  <2> QED BY <1>2, <2>1 DEF Heard
<1>3. ASSUME NEW h \in Handlers, Broadcast(h) PROVE Heard' = Heard \cup {Payload(pkt[h])}
  BY <1>2, <1>3 DEF Broadcast, hubVars
<1>4. ASSUME MetricsSend PROVE Heard' = Heard \cup {Metrics(ticks)}
  BY <1>2, <1>4 DEF MetricsSend, hubVars
<1>5. ASSUME Take PROVE Heard' = Heard
  <2>1. /\ queue # <<>> /\ queue' = Tail(queue) /\ taken' = Append(taken, Head(queue))
    BY <1>5 DEF Take
  <2>2. ToSet(taken') = ToSet(taken) \cup {Head(queue)}
    <3>1. PICK m \in Messages : m = Head(queue)
      BY <1>1, <2>1
    <3>2. /\ Len(taken) \in Nat /\ Len(taken') = Len(taken) + 1 /\ taken'[Len(taken) + 1] = m
          /\ \A i \in 1..Len(taken) : taken'[i] = taken[i]
          /\ DOMAIN taken = 1..Len(taken) /\ DOMAIN taken' = 1..Len(taken')
      BY <1>1, <2>1, <3>1
    <3>3. 1..Len(taken') = 1..Len(taken) \cup {Len(taken) + 1}
      BY <3>2
    <3> QED BY <3>1, <3>2, <3>3 DEF ToSet
  <2>3. ToSet(queue) = ToSet(queue') \cup {Head(queue)}
    <3>1. /\ Len(queue) \in Nat \ {0} /\ Head(queue) = queue[1]
          /\ Len(queue') = Len(queue) - 1 /\ \A i \in 1..Len(queue') : queue'[i] = queue[i + 1]
          /\ DOMAIN queue = 1..Len(queue) /\ DOMAIN queue' = 1..Len(queue')
      BY <1>1, <2>1
    <3>2. \A i \in 1..Len(queue) : i = 1 \/ i - 1 \in 1..Len(queue')
      BY <3>1
    <3>3. \A i \in 1..Len(queue) : queue[i] \in ToSet(queue') \cup {Head(queue)}
      <4> SUFFICES ASSUME NEW i \in 1..Len(queue), i # 1 PROVE queue[i] \in ToSet(queue')
        BY <3>1
      <4>1. i - 1 \in 1..Len(queue') /\ queue'[i - 1] = queue[(i - 1) + 1] /\ (i - 1) + 1 = i
        BY <3>1, <3>2
      <4> QED BY <3>1, <4>1 DEF ToSet
    <3>4. \A i \in 1..Len(queue') : queue'[i] \in ToSet(queue)
      <4> SUFFICES ASSUME NEW i \in 1..Len(queue') PROVE queue'[i] \in ToSet(queue)
        OBVIOUS
      <4>1. i + 1 \in 1..Len(queue) /\ queue'[i] = queue[i + 1]
        BY <3>1
      <4> QED BY <3>1, <4>1 DEF ToSet
    <3>5. Head(queue) \in ToSet(queue)
      BY <3>1 DEF ToSet
    <3>6. /\ ToSet(queue) = {queue[i] : i \in 1..Len(queue)}
          /\ ToSet(queue') = {queue'[i] : i \in 1..Len(queue')}
      BY <3>1 DEF ToSet
    <3> QED BY <3>3, <3>4, <3>5, <3>6
  <2> QED BY <2>2, <2>3 DEF Heard
<1>6. ASSUME Publish \/ StreamDrops \/ MulePublishes \/ MetricsTick \/ UNCHANGED vars
      PROVE  Heard' = Heard
  BY <1>6 DEF Publish, StreamDrops, MulePublishes, MetricsTick, vars, hubVars, Heard
<1>7. ASSUME NEW h \in Handlers, Receive(h) \/ Ingest(h) \/ UpdateFleet(h) PROVE Heard' = Heard
  BY <1>7 DEF Receive, Ingest, UpdateFleet, hubVars, Heard
<1>8. ASSUME HubStep, ~Take PROVE Heard' = Heard
  BY <1>8 DEF HubStep, Hub, Written, Register, Unregister, WriteOk, WriteFail, ReaderEnds,
     Browser, Connect, Dies, Stalls, Resumes, hubVars, Heard
<1>9. CASE MetricsSend \/ \E h \in Handlers : Broadcast(h)
  BY <1>3, <1>4, <1>9
<1>10. CASE ~MetricsSend /\ ~\E h \in Handlers : Broadcast(h)
  <2>1. Heard' = Heard
    <3>1. CASE HubStep
      BY <1>5, <1>8, <3>1
    <3>2. CASE \E h \in Handlers : Handle(h)
      BY <1>7, <1>10, <3>2 DEF Handle
    <3>3. CASE Publish \/ StreamDrops \/ MulePublishes \/ MetricsTick \/ UNCHANGED vars
      BY <1>6, <3>3
    <3> QED BY <1>10, <3>1, <3>2, <3>3 DEF Next, HubStep
  <2> QED BY <1>10, <2>1
<1> QED BY <1>9, <1>10

\* No step brings a message to the channel a second time.
LEMMA NextOnceInv == Types /\ BusInv /\ OnceInv /\ [Next]_vars => OnceInv'
<1> SUFFICES ASSUME Types, BusInv, OnceInv, [Next]_vars PROVE OnceInv'
  OBVIOUS
<1>1. /\ \A h \in Handlers : pc[h] # "idle" => pkt[h] \in Packets
      /\ \A m \in Packets : m.n \in Nat
      /\ ticks \in Nat
  BY GatewayAssumption DEF Types, PathType, Packets
<1>2. \A n \in Nat : Older(n) => Older(n)'
  BY OlderLasts
<1>3. \A n, k \in Nat : <<"telemetry", n>> # Metrics(k)
  BY DEF Metrics
<1>4. \A p \in Packets : Payload(p) = <<"telemetry", p.n>>
  BY DEF Payload
<1>5. ASSUME NEW h \in Handlers, Broadcast(h), Heard' = Heard \cup {Payload(pkt[h])}
      PROVE  OnceInv'
  <2>1. /\ pc[h] = "send" /\ pc'[h] = "idle" /\ UNCHANGED <<ticker, ticks>>
        /\ \A g \in Handlers \ {h} : pc'[g] = pc[g] /\ pkt'[g] = pkt[g]
    BY <1>5 DEF Broadcast, tickVars, Types, PathType
  <2>2. pkt[h] \in Packets /\ pkt[h].n \in Nat
    BY <1>1, <2>1
  <2>3. \A g \in Handlers : pc'[g] # "idle" => /\ Older(pkt[g].n)'
                                               /\ Payload(pkt'[g]) \notin Heard'
    <3> SUFFICES ASSUME NEW g \in Handlers, pc'[g] # "idle"
                 PROVE  Older(pkt[g].n)' /\ Payload(pkt'[g]) \notin Heard'
      OBVIOUS
    <3>1. g # h /\ pc[g] # "idle" /\ pkt'[g] = pkt[g] /\ pkt[g] \in Packets /\ pkt[g].n \in Nat
      BY <1>1, <2>1
    <3>2. Older(pkt[g].n) /\ Payload(pkt[g]) \notin Heard /\ pkt[g].n # pkt[h].n
      BY <2>1, <3>1 DEF OnceInv
    <3>3. Payload(pkt[g]) # Payload(pkt[h])
      BY <1>4, <2>2, <3>1, <3>2
    <3> QED BY <1>2, <1>5, <3>1, <3>2, <3>3
  <2>4. \A n \in Nat : <<"telemetry", n>> \in Heard' => Older(n)'
    <3> SUFFICES ASSUME NEW n \in Nat, <<"telemetry", n>> \in Heard' PROVE Older(n)
      BY <1>2
    <3>1. CASE <<"telemetry", n>> \in Heard
      BY <3>1 DEF OnceInv
    <3>2. CASE <<"telemetry", n>> = Payload(pkt[h])
      <4>1. n = pkt[h].n
        BY <1>4, <2>2, <3>2
      <4> QED BY <2>1, <4>1 DEF OnceInv
    <3> QED BY <1>5, <3>1, <3>2
  <2>5. \A k \in Nat : Metrics(k) \in Heard' => Metrics(k) \in Heard
    BY <1>3, <1>4, <1>5, <2>2
  <2>6. \A f, g \in Handlers : pc'[f] # "idle" /\ pc'[g] # "idle" /\ pkt'[f].n = pkt'[g].n => f = g
    BY <2>1 DEF OnceInv
  <2> QED BY <2>1, <2>3, <2>4, <2>5, <2>6 DEF OnceInv
<1>6. ASSUME MetricsSend, Heard' = Heard \cup {Metrics(ticks)} PROVE OnceInv'
  <2>1. UNCHANGED <<pc, pkt, ticks>> /\ ticker = "send" /\ ticker' = "wait"
    BY <1>6 DEF MetricsSend, handlerVars
  <2>2. \A n \in Nat : <<"telemetry", n>> \in Heard' => <<"telemetry", n>> \in Heard
    BY <1>1, <1>3, <1>6
  <2>3. \A h \in Handlers : pc'[h] # "idle" => Older(pkt[h].n)' /\ Payload(pkt'[h]) \notin Heard'
    <3> SUFFICES ASSUME NEW h \in Handlers, pc[h] # "idle"
                 PROVE  Older(pkt[h].n)' /\ Payload(pkt[h]) \notin Heard'
      BY <2>1
    <3>1. pkt[h].n \in Nat /\ Payload(pkt[h]) = <<"telemetry", pkt[h].n>>
      BY <1>1, <1>4
    <3> QED BY <1>2, <2>1, <2>2, <3>1 DEF OnceInv
  <2>4. \A n \in Nat : <<"telemetry", n>> \in Heard' => Older(n)'
    BY <1>2, <2>2 DEF OnceInv
  <2>5. \A k \in Nat : Metrics(k) \in Heard' => k <= ticks
    <3>1. \A k \in Nat : Metrics(k) = Metrics(ticks) => k = ticks
      BY <1>1 DEF Metrics
    <3> QED BY <1>1, <1>6, <3>1 DEF OnceInv
  <2>6. \A f, g \in Handlers : pc'[f] # "idle" /\ pc'[g] # "idle" /\ pkt'[f].n = pkt'[g].n => f = g
    BY <2>1 DEF OnceInv
  <2> QED BY <2>1, <2>3, <2>4, <2>5, <2>6 DEF OnceInv
<1>7. ASSUME Heard' = Heard, ~MetricsSend, \A h \in Handlers : ~Broadcast(h)
      PROVE  OnceInv'
  <2>0. MetricsTick \/ UNCHANGED <<ticker, ticks>>
    <3>1. CASE Publish \/ StreamDrops \/ MulePublishes \/ UNCHANGED vars
      BY <3>1 DEF Publish, StreamDrops, MulePublishes, vars, tickVars
    <3>2. CASE \E h \in Handlers : Handle(h)
      BY <3>2 DEF Handle, Receive, Ingest, UpdateFleet, Broadcast, tickVars
    <3>3. CASE HubStep
      BY <3>3 DEF HubStep, Hub, Take, Written, Register, Unregister, WriteOk, WriteFail,
         ReaderEnds, Browser, Connect, Dies, Stalls, Resumes, pathVars, tickVars
    <3> QED BY <1>7, <3>1, <3>2, <3>3 DEF Next, HubStep
  <2>1. \A k \in Nat : Metrics(k) \in Heard => k <= ticks' /\ (ticker' = "send" => k < ticks')
    BY <1>1, <2>0 DEF MetricsTick, OnceInv
  <2>2. ticker' = "send" => ticks' > 0
    BY <1>1, <2>0 DEF MetricsTick, OnceInv
  <2>3. \A n \in Nat : <<"telemetry", n>> \in Heard => Older(n)'
    BY <1>2 DEF OnceInv
  <2>4. ASSUME NEW h \in Handlers, Receive(h), Accepts(Head(bus)) PROVE OnceInv'
    <3> DEFINE n == Head(bus).n
    <3>1. Head(bus) \in Packets /\ n \in Nat /\ pkt'[h] = Head(bus)
      BY <1>1, <2>4, TakenIsOlder
    <3>2. \A k \in Nat : k = n => Older(k)'
      BY <2>4, TakenIsOlder
    <3>3. \A k \in Nat : Older(k) => k < n
      <4>1. bus[1] = Head(bus) /\ 1 \in 1..Len(bus)
        BY <2>4 DEF Receive, Types, PathType
      <4> QED BY <3>1, <4>1 DEF Older
    <3>4. \A g \in Handlers \ {h} : pc'[g] = pc[g] /\ pkt'[g] = pkt[g]
      BY <2>4 DEF Receive, Types, PathType
    <3>5. Payload(pkt'[h]) = <<"telemetry", n>> /\ pkt'[h].n = n
      BY <1>4, <3>1
    <3> HIDE DEF n
    <3>6. <<"telemetry", n>> \notin Heard
      BY <3>1, <3>3 DEF OnceInv
    <3>7. \A g \in Handlers \ {h} : pc[g] # "idle" => pkt[g].n \in Nat /\ pkt[g].n < n
      BY <1>1, <3>3 DEF OnceInv
    <3>8. \A g \in Handlers : pc'[g] # "idle" =>
             Older(pkt[g].n)' /\ Payload(pkt'[g]) \notin Heard
      BY <1>1, <1>2, <3>1, <3>2, <3>4, <3>5, <3>6 DEF OnceInv
    <3>9. \A f, g \in Handlers :
            pc'[f] # "idle" /\ pc'[g] # "idle" /\ pkt'[f].n = pkt'[g].n => f = g
      BY <3>1, <3>4, <3>5, <3>7 DEF OnceInv
    <3> QED BY <1>7, <2>1, <2>2, <2>3, <3>8, <3>9 DEF OnceInv
  <2>5. ASSUME \A h \in Handlers : pc'[h] # "idle" => pc[h] # "idle" /\ pkt'[h] = pkt[h]
        PROVE  OnceInv'
    <3>1. \A h \in Handlers : pc'[h] # "idle" => Older(pkt[h].n)' /\ Payload(pkt'[h]) \notin Heard
      BY <1>1, <1>2, <2>5 DEF OnceInv
    <3>2. \A f, g \in Handlers :
            pc'[f] # "idle" /\ pc'[g] # "idle" /\ pkt'[f].n = pkt'[g].n => f = g
      BY <2>5 DEF OnceInv
    <3> QED BY <1>7, <2>1, <2>2, <2>3, <3>1, <3>2 DEF OnceInv
  <2>6. ASSUME NEW h \in Handlers, Receive(h), ~Accepts(Head(bus)) PROVE OnceInv'
    BY <2>5, <2>6 DEF Receive, handlerVars
  <2>7. ASSUME NEW h \in Handlers, Ingest(h) \/ UpdateFleet(h) PROVE OnceInv'
    BY <2>5, <2>7 DEF Ingest, UpdateFleet, Types, PathType
  <2>8. CASE UNCHANGED <<handlerVars, ingested, fleet, arrived>>
    BY <2>5, <2>8 DEF handlerVars
  <2> QED BY <1>7, HandlerStep, <2>4, <2>6, <2>7, <2>8 DEF Handle
<1> QED BY HeardStep, <1>5, <1>6, <1>7

\* Every step is a step of the log or leaves it alone.
LEMMA LogStep ==
  ASSUME Types, MapInv, StreamInv, AudienceInv, BusInv, OnceInv, [Next]_vars
  PROVE  [Log!Next]_(Log!vars)
<1> DEFINE M == ({"telemetry"} \X (1..MaxPackets)) \cup ({"backhaul_status"} \X (1..MaxTicks))
<1>1. /\ Len(taken) \in Nat /\ taken \in Seq(Messages) /\ queue \in Seq(Messages)
      /\ received \in [Clients -> Seq(Messages)] /\ joined \in [Clients -> Nat]
      /\ \A c \in Clients : Len(received[c]) \in Nat /\ joined[c] \in Nat
  <2>1. /\ taken \in Seq(Messages) /\ queue \in Seq(Messages)
        /\ received \in [Clients -> Seq(Messages)] /\ joined \in [Clients -> Nat]
    BY DEF Types, PathType, HubType
  <2> QED BY <2>1
<1>2. Selecting => Log!UpToDate
  <2> SUFFICES ASSUME Selecting, NEW c \in Audience PROVE ~Log!Behind(c)
    BY DEF Log!UpToDate
  <2>1. c \in Clients /\ c \in clients /\ c \notin todo /\ peer[c] # "dead"
    BY DEF Types, HubType, AudienceInv, Audience
  <2>2. joined[c] + Len(received[c]) = Len(taken)
    BY <2>1 DEF StreamInv
  <2> QED BY <1>1, <2>1, <2>2 DEF Log!Behind
<1>3. ASSUME NEW h \in Handlers, Broadcast(h) PROVE Log!Next
  <2>1. pkt[h] \in Packets
    BY <1>3 DEF Broadcast, Types, PathType
  <2>2. Payload(pkt[h]) \in M
    BY <2>1 DEF Payload, Packets
  <2>3. Payload(pkt[h]) \notin ToSet(queue) \cup ToSet(taken)
    BY <1>3 DEF Broadcast, OnceInv, Heard
  <2>4. Audience' = Audience
    BY <1>3 DEF Broadcast, connVars, Audience
  <2>5. PICK m : m = Payload(pkt[h])
    OBVIOUS
  <2>6. Log!Offer(m)
    BY <1>3, <2>3, <2>4, <2>5 DEF Broadcast, hubVars, Log!Offer, ToSet, Log!ToSet
  <2> QED BY <2>2, <2>5, <2>6 DEF Log!Next
<1>4. ASSUME MetricsSend PROVE Log!Next
  <2>1. ticks \in 1..MaxTicks
    BY <1>4, GatewayAssumption DEF MetricsSend, OnceInv, Types, PathType
  <2>2. Metrics(ticks) \in M
    BY <2>1 DEF Metrics
  <2>3. Metrics(ticks) \notin ToSet(queue) \cup ToSet(taken)
    BY <1>4, <2>1 DEF MetricsSend, OnceInv, Heard
  <2>4. Audience' = Audience
    BY <1>4 DEF MetricsSend, connVars, Audience
  <2>5. PICK m : m = Metrics(ticks)
    OBVIOUS
  <2>6. Log!Offer(m)
    BY <1>4, <2>3, <2>4, <2>5 DEF MetricsSend, hubVars, Log!Offer, ToSet, Log!ToSet
  <2> QED BY <2>2, <2>5, <2>6 DEF Log!Next
<1>5. ASSUME Take PROVE Log!Next
  <2>1. Log!UpToDate
    BY <1>2, <1>5 DEF Take
  <2>2. Audience' = Audience
    BY <1>5 DEF Take, connVars, Audience
  <2>3. Log!Broadcast
    BY <1>5, <2>1, <2>2 DEF Take, Log!Broadcast
  <2> QED BY <2>3 DEF Log!Next
<1>6. ASSUME NEW c \in Clients, Register(c) PROVE Log!Next
  <2>1. Log!UpToDate /\ c \notin Audience /\ received[c] = <<>>
    BY <1>2, <1>6 DEF Register, Audience, StreamInv
  <2>2. Audience' \in {Audience, Audience \cup {c}}
    <3>1. /\ conn'[c] = "reading" /\ peer' = peer
          /\ \A d \in Clients \ {c} : conn'[d] = conn[d]
      BY <1>6 DEF Register, Types, HubType
    <3>2. CASE peer[c] = "dead"
      BY <2>1, <3>1, <3>2 DEF Audience
    <3>3. CASE peer[c] # "dead"
      BY <3>1, <3>3 DEF Audience
    <3> QED BY <3>2, <3>3
  <2>3. Log!Join(c)
    BY <1>6, <2>1, <2>2 DEF Register, Log!Join
  <2> QED BY <2>3 DEF Log!Next
<1>7. ASSUME NEW c \in Clients, WriteOk(c) PROVE Log!Next \/ UNCHANGED Log!vars
  <2>1. Audience' = Audience
    BY <1>7 DEF WriteOk, connVars, Audience
  <2>2. CASE peer[c] = "live"
    <3>1. c \in clients /\ conn[c] \in {"reading", "leaving"} /\ c \in Audience
      BY <1>7, <2>2 DEF WriteOk, MapInv, MapIsOpen, Audience
    <3>2. joined[c] + Len(received[c]) + 1 = Len(taken)
      BY <1>7, <2>2 DEF WriteOk, StreamInv
    <3>3. message = taken[Len(taken)]
      BY <1>7 DEF WriteOk, StreamInv, Types, HubType
    <3>4. Log!Behind(c)
      BY <1>1, <3>2 DEF Log!Behind
    <3>5. received' = [received EXCEPT ![c] = Append(@, taken[joined[c] + Len(@) + 1])]
      BY <1>7, <2>2, <3>2, <3>3 DEF WriteOk
    <3>6. Log!Read(c)
      BY <1>7, <2>1, <3>1, <3>4, <3>5 DEF WriteOk, Log!Read
    <3> QED BY <3>6 DEF Log!Next
  <2>3. CASE peer[c] # "live"
    BY <1>7, <2>1, <2>3 DEF WriteOk, Log!vars
  <2> QED BY <2>2, <2>3
<1>8. ASSUME NEW c \in Clients, Dies(c) PROVE Log!Next
  <2>1. Audience' = Audience \ {c}
    BY <1>8 DEF Dies, Audience, Types, HubType
  <2>2. Log!Leave(c)
    BY <1>8, <2>1 DEF Dies, hubVars, Log!Leave
  <2> QED BY <2>2 DEF Log!Next
<1>9. ASSUME NEW c \in Clients,
             Unregister(c) \/ WriteFail(c) \/ ReaderEnds(c) \/ Connect(c) \/ Stalls(c) \/ Resumes(c)
      PROVE  UNCHANGED Log!vars
  <2>1. Audience' = Audience
    BY <1>9 DEF Unregister, WriteFail, ReaderEnds, Connect, Stalls, Resumes, connVars, Audience,
       Types, HubType
  <2> QED BY <1>9, <2>1 DEF Unregister, WriteFail, ReaderEnds, Connect, Stalls, Resumes, hubVars,
             Log!vars
<1>10. CASE Written \/ Publish \/ StreamDrops \/ MulePublishes \/ MetricsTick \/ UNCHANGED vars
  BY <1>10 DEF Written, Publish, StreamDrops, MulePublishes, MetricsTick, vars, hubVars, connVars,
     Audience, Log!vars
<1>11. ASSUME NEW h \in Handlers, Receive(h) \/ Ingest(h) \/ UpdateFleet(h)
       PROVE  UNCHANGED Log!vars
  BY <1>11 DEF Receive, Ingest, UpdateFleet, hubVars, connVars, Audience, Log!vars
<1>12. CASE \E h \in Handlers : Handle(h)
  BY <1>3, <1>11, <1>12 DEF Handle
<1>13. CASE \E c \in Clients : Hub(c) \/ ReaderEnds(c) \/ Browser(c)
  BY <1>6, <1>7, <1>8, <1>9, <1>13 DEF Hub, Browser
<1> QED BY <1>4, <1>5, <1>10, <1>12, <1>13 DEF Next

(* The gateway implements the abstract broadcast log: each telemetry packet  *)
(* and each metrics message that its handlers accept is broadcast at most    *)
(* once, in the order in which hub.broadcast took them; a dashboard gets all *)
(* of them from its registration on; the hub never gives up a dashboard that *)
(* is still there, and never begins a message while one of them lacks the    *)
(* message before.                                                           *)
THEOREM GatewayImplementsBroadcastLog == Spec => ImplementsBroadcastLog
<1>1. Init => MapInv /\ StreamInv /\ AudienceInv /\ BusInv /\ OnceInv
  <2>1. Init => MapInv /\ StreamInv /\ BusInv
    BY DEF Init, MapInv, MapIsOpen, StreamInv, Selecting, Follows, BusInv
  <2>2. Init => AudienceInv
    BY DEF Init, AudienceInv, Audience
  <2>3. Init => Heard = {}
    BY DEF Init, Heard, ToSet
  <2>4. Init => OnceInv
    BY <2>3 DEF Init, OnceInv
  <2> QED BY <2>1, <2>2, <2>4
<1>2. Init => Log!Init
  <2>1. Init => Audience = {}
    BY DEF Init, Audience
  <2> QED BY <2>1 DEF Init, Log!Init
<1>3. Types /\ MapInv /\ StreamInv /\ AudienceInv /\ BusInv /\ OnceInv /\ [Next]_vars
        => [Log!Next]_(Log!vars)
  BY LogStep
<1> QED BY InitTypes, NextTypes, <1>1, NextMapInv, NextStreamInv, NextAudienceInv, NextBusInv,
           NextOnceInv, <1>2, <1>3, PTL DEF Spec, ImplementsBroadcastLog, Log!Spec

=============================================================================
