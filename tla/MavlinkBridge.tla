---------------------------- MODULE MavlinkBridge ----------------------------
(***************************************************************************)
(* The MAVLink mode of the edge agent (runMavlinkInstance in                 *)
(* cmd/edge-agent/main.go) and its autopilot: VehicleState of                *)
(* pkg/mavlink/bridge.go, fed by a UDPClient (datagrams that can be lost or  *)
(* reordered, from the autopilot or another host) or by a StreamClient on    *)
(* the decoder of module StreamDecoder (a serial line that loses, adds and   *)
(* alters bytes); the publish loop; and the relay of operator commands.      *)
(*                                                                           *)
(* Of the vehicle the armed flag, the status and the altitude, which is 0    *)
(* (at most 1 m) or 1: positions, attitude, speeds and battery are copied    *)
(* into what is published and decide nothing.  Nor does the number that a    *)
(* command carries.                                                          *)
(***************************************************************************)
EXTENDS StreamDecoder, FiniteSets

CONSTANTS
  Messages,     \* what the autopilot can send
  Strays,       \* what another host can send to the UDP port
  Autopilot, Other, Nobody,   \* network addresses
  Noise,        \* the bytes the serial line can add or put in another's place
  MaxFrames,    \* bound: frames sent on the serial line
  MaxFaults,    \* bound: bytes lost, added or altered on the serial line
  MaxInflight,  \* bound: datagrams of a sender on their way
  MaxPublish,   \* bound: envelopes published
  MaxCommands   \* bound: commands relayed

ASSUME BridgeAssumption ==
  /\ Noise \subseteq Nat
  /\ {MaxFrames, MaxFaults, MaxInflight, MaxPublish, MaxCommands} \subseteq Nat
  /\ Cardinality({Autopilot, Other, Nobody}) = 3
  /\ Messages \subseteq [id : Nat, payload : Seq(Nat)]

VARIABLES
  transport,   \* "udp" or "serial", by the -mavlink-serial flag
  vehicle,     \* VehicleState: armed, status, alt
  sequence,    \* VehicleState.sequence
  inflight,    \* datagrams on their way to the UDP socket
  remoteAddr,  \* UDPClient.remoteAddr
  out,         \* symbols of the current frame still to go out on the line
  relay,       \* the command the subscription's goroutine is sending, or Idle
  commands,    \* commands received so far
  faults,      \* bytes lost, added or altered so far
  sent,        \* history: messages sent on the serial line
  altsSince    \* history: altitudes known at and since the last decoded heartbeat

lineVars == <<out, faults, sent>>
clientVars == <<remoteAddr, relay, commands>>
vars == <<decoderVars, transport, vehicle, sequence, inflight, lineVars, clientVars, altsSince>>

-----------------------------------------------------------------------------

\* A serial port if the flag names one, else the UDP socket.
Transports == {"udp", "serial"}

Idle == [to |-> Nobody, busy |-> FALSE]

Init ==
  /\ DecoderInit
  /\ transport \in Transports
  /\ vehicle = [armed |-> FALSE, status |-> "STANDBY", alt |-> 0]
  /\ sequence = 0
  /\ inflight = {}
  /\ remoteAddr = Nobody
  /\ out = <<>>
  /\ relay = Idle
  /\ commands = 0
  /\ faults = 0
  /\ sent = <<>>
  /\ altsSince = {0}

-----------------------------------------------------------------------------
(* VehicleState.IngestFrame *)

\* Mutation of HeartbeatStatus: a vehicle in flight stays so while armed.
HeartbeatStatus_Sticky(v, armed) ==
  IF ~armed THEN "STANDBY"
  ELSE IF v.status = "IN_FLIGHT" \/ v.alt > 0 THEN "IN_FLIGHT" ELSE "ARMED"

HeartbeatStatus(v, armed) ==
  IF ~armed THEN "STANDBY" ELSE IF v.alt > 0 THEN "IN_FLIGHT" ELSE "ARMED"

\* What the two messages tell of the vehicle is in their first byte here.
IsArmed(payload) == payload[1] = 1
AltMeters(payload) == IF payload[1] = 0 THEN 0 ELSE 1

\* The decoders refuse a payload that is too short.
DecodesHeartbeat(payload) == Len(payload) >= 1
DecodesGlobalPositionInt(payload) == Len(payload) >= 2

IngestHeartbeat(v, payload) ==
  [v EXCEPT !.armed = IsArmed(payload), !.status = HeartbeatStatus(v, IsArmed(payload))]

\* The status is only ever raised.
IngestPosition(v, payload) ==
  [v EXCEPT !.alt = AltMeters(payload),
            !.status = IF v.armed /\ AltMeters(payload) > 0 THEN "IN_FLIGHT" ELSE v.status]

\* The battery level, the attitude and other messages leave what is modelled alone.
Ingest(v, f) ==
  CASE f.id = MsgIDHeartbeat /\ DecodesHeartbeat(f.payload) -> IngestHeartbeat(v, f.payload)
    [] f.id = MsgIDGlobalPositionInt /\ DecodesGlobalPositionInt(f.payload)
                                                           -> IngestPosition(v, f.payload)
    [] OTHER                                               -> v

IngestFrame(f) ==
  /\ vehicle' = Ingest(vehicle, f)
  /\ altsSince' = IF f.id = MsgIDHeartbeat /\ DecodesHeartbeat(f.payload)
                  THEN {vehicle.alt} ELSE altsSince \cup {vehicle'.alt}

-----------------------------------------------------------------------------
(* The autopilot, the network and the line *)

SendDatagram(from, data) ==
  /\ transport = "udp"
  /\ Cardinality({d \in inflight : d.from = from}) < MaxInflight
  /\ inflight' = inflight \cup {[from |-> from, data |-> data]}
  /\ UNCHANGED <<decoderVars, transport, vehicle, sequence, lineVars, clientVars, altsSince>>

AutopilotSends == \E m \in Messages : SendDatagram(Autopilot, EncodeFrame(m))

StraySends == \E data \in Strays : SendDatagram(Other, data)

LoseDatagram(d) ==
  /\ d \in inflight
  /\ inflight' = inflight \ {d}
  /\ UNCHANGED <<decoderVars, transport, vehicle, sequence, lineVars, clientVars, altsSince>>

SendOnLine(m) ==
  /\ transport = "serial"
  /\ out = <<>>
  /\ Len(sent) < MaxFrames
  /\ out' = EncodeFrame(m)
  /\ sent' = Append(sent, m)
  /\ UNCHANGED <<decoderVars, transport, vehicle, sequence, inflight, faults, clientVars, altsSince>>

\* A symbol arrives, or is lost on the line, or noise comes before it or in its
\* place.
Line ==
  /\ out # <<>>
  /\ \/ wire' = Append(wire, Head(out)) /\ out' = Tail(out) /\ UNCHANGED faults
     \/ /\ faults < MaxFaults /\ faults' = faults + 1
        /\ \/ out' = Tail(out) /\ UNCHANGED wire
           \/ \E n \in Noise : wire' = Append(wire, Byte(n)) /\ out' \in {out, Tail(out)}
  /\ UNCHANGED <<pos, synced, reader, delivered, abandoned, transport, vehicle, sequence,
                 inflight, sent, clientVars, altsSince>>

-----------------------------------------------------------------------------
(* readLoop of the two clients *)

\* Mutation of ReadDatagram: the first sender is taken for the autopilot.
ReadDatagram_FirstSender(d) ==
  /\ d \in inflight
  /\ inflight' = inflight \ {d}
  /\ remoteAddr' = IF remoteAddr = Nobody THEN d.from ELSE remoteAddr
  /\ IF Decodes(d.data) THEN IngestFrame(DecodeFrame(d.data)) ELSE UNCHANGED <<vehicle, altsSince>>
  /\ UNCHANGED <<decoderVars, transport, sequence, lineVars, relay, commands>>

\* Remember the sender, then decode and ingest.  The two critical sections are
\* one step here: a command sent between them reads only the address.
ReadDatagram(d) ==
  /\ d \in inflight
  /\ inflight' = inflight \ {d}
  /\ remoteAddr' = d.from
  /\ IF Decodes(d.data) THEN IngestFrame(DecodeFrame(d.data)) ELSE UNCHANGED <<vehicle, altsSince>>
  /\ UNCHANGED <<decoderVars, transport, sequence, lineVars, relay, commands>>

ReadLine ==
  /\ transport = "serial"
  /\ \/ /\ SkipNoise \/ FindMagic \/ Resync \/ ReadError \/ ReadEOF
        /\ UNCHANGED <<vehicle, altsSince>>
     \/ ReturnFrame /\ IngestFrame(DecodeFrame(Packet))
  /\ UNCHANGED <<transport, sequence, inflight, lineVars, clientVars>>

-----------------------------------------------------------------------------
(* publishLoop and the relay of commands *)

\* BuildSecurityEnvelope numbers and copies the state and the callback publishes
\* it, whether or not a frame has ever come or will come again.
Publish ==
  /\ sequence < MaxPublish
  /\ sequence' = sequence + 1
  /\ UNCHANGED <<decoderVars, transport, vehicle, inflight, lineVars, clientVars, altsSince>>

\* One of the four commands runMavlinkInstance has a MAV_CMD for comes (others
\* are ignored); the first critical section of SendCommandLong takes the address,
\* and gives up when there is none.
TakeAddress ==
  /\ relay = Idle
  /\ commands < MaxCommands
  /\ commands' = commands + 1
  /\ relay' = IF transport = "udp" /\ remoteAddr = Nobody THEN Idle
              ELSE [to |-> remoteAddr, busy |-> TRUE]
  /\ UNCHANGED <<decoderVars, transport, vehicle, sequence, inflight, lineVars, remoteAddr, altsSince>>

\* WriteToUDP or Write; an error is discarded by the relay.
WriteCommand ==
  /\ relay # Idle
  /\ relay' = Idle
  /\ UNCHANGED <<decoderVars, transport, vehicle, sequence, inflight, lineVars,
                 remoteAddr, commands, altsSince>>

Next ==
  \/ AutopilotSends \/ StraySends
  \/ \E d \in inflight : LoseDatagram(d) \/ ReadDatagram(d)
  \/ \E m \in Messages : SendOnLine(m)
  \/ Line \/ ReadLine \/ Publish \/ TakeAddress \/ WriteCommand

Spec == Init /\ [][Next]_vars

(* An autopilot on UDP keeps sending, heartbeats at least, and the network   *)
(* does not lose everything it sends; the read loop keeps reading.           *)
FairSpec ==
  /\ Spec
  /\ WF_vars(AutopilotSends)
  /\ SF_vars(\E d \in inflight : d.from = Autopilot /\ ReadDatagram(d))

-----------------------------------------------------------------------------

\* The variables hold what the code can store in them.
TypeOK ==
  /\ transport \in Transports
  /\ vehicle \in [armed : BOOLEAN, status : {"STANDBY", "ARMED", "IN_FLIGHT"}, alt : {0, 1}]
  /\ sequence \in 0..MaxPublish
  /\ remoteAddr \in {Nobody, Autopilot, Other}
  /\ pos \in 0..Len(wire)
  /\ reader \in {"reading", "ended"}

(* The published status follows from the frames, in whatever order they      *)
(* came: STANDBY when the last heartbeat was a disarmed one; otherwise       *)
(* IN_FLIGHT exactly if an altitude above 1 m was known at that heartbeat or *)
(* reported since.  A vehicle that has landed therefore keeps IN_FLIGHT, but *)
(* no longer than until the next heartbeat.                                  *)
StatusIsExplained ==
  vehicle.status = IF ~vehicle.armed THEN "STANDBY"
                   ELSE IF 1 \in altsSince THEN "IN_FLIGHT" ELSE "ARMED"

(* Over a serial line the vehicle's state is made of frames the autopilot    *)
(* sent, in its order and each at most once: no noise and no fragment of a   *)
(* damaged frame is ever taken for a known message.                          *)
FramesAreSent ==
  LET Known == {i \in 1..Len(delivered) : HasCRCExtra(delivered[i].frame.id)}
  IN  \E place \in [Known -> 1..Len(sent)] :
        /\ \A i, j \in Known : i < j => place[i] < place[j]
        /\ \A i \in Known : delivered[i].frame = sent[place[i]]

(* A datagram from another host diverts the operator's commands, since       *)
(* SendCommandLong uses the address of the last one received, but only until *)
(* the autopilot is heard again.                                             *)
AutopilotRegained == []<>(transport = "udp" => remoteAddr = Autopilot)

-----------------------------------------------------------------------------
(* What the comments say, and the code does not do *)

(* udp.go: "Skip unparseable non-MAVLink packets"; the commands' address is  *)
(* taken from them all the same, and a command taken up then goes to their   *)
(* sender.                                                                   *)
CommandsGoToAutopilot == relay # Idle /\ transport = "udp" => relay.to = Autopilot

(* stream.go: the decoder discards "any noise or corrupted bytes on the      *)
(* line".  A frame whose id byte was altered to one without a checksum seed  *)
(* is returned, and so is noise that looks like one.                         *)
ReturnedIsSent ==
  \A i \in 1..Len(delivered) : \E k \in 1..Len(sent) : delivered[i].frame = sent[k]
=============================================================================
