----------------------------- MODULE MCCDSGuard -----------------------------
(* Model-checking instances of CDSGuard: small sets of packets. *)
EXTENDS CDSGuard, TLC

CONSTANTS w1, w2

OneWorker == {w1}
TwoWorkers == {w1, w2}
WorkerSymmetry == Permutations(Workers)

-----------------------------------------------------------------------------
(* Telemetry: a usual position, the edges of the ranges, values out of range. *)

Usual == [ids |-> TRUE, battery |-> 8500, lat |-> 316249290, lon |-> -80819160,
          alt |-> 125000, mission |-> "sensor_data"]
\* Normalize brings the battery to 100.0 and the latitude to 90.
AtEdge == [ids |-> TRUE, battery |-> 10004, lat |-> 900000004, lon |-> -1799999990,
           alt |-> -10, mission |-> Nil]
NoBattery == [Usual EXCEPT !.battery = -10]
OffMap == [Usual EXCEPT !.lon = 1800000010]
Unnamed == [Usual EXCEPT !.ids = FALSE]

Envelope(tier, t) ==
  [classification |-> tier, header |-> TRUE, digest |-> ComputePayloadDigest(Normalize(t)),
   telemetry |-> t, command |-> Nil]
CommandEnvelope(tier) ==
  [classification |-> tier, header |-> TRUE, digest |-> ComputePayloadDigest([ids |-> TRUE]),
   telemetry |-> Nil, command |-> [ids |-> TRUE]]
Tampered(env) == [env EXCEPT !.digest = ComputePayloadDigest(Nil)]

Key(tier, stream) == [tier |-> tier, stream |-> stream, sixPart |-> TRUE]
ShortKey(tier) == [tier |-> tier, stream |-> "packet", sixPart |-> FALSE]
On(key, env) == [key |-> key, env |-> env]

-----------------------------------------------------------------------------

\* What the edge agents, the gateway's injector and its command handler publish.
FleetInputs ==
  { On(Key("tier2", "telemetry"), Envelope("TIER-2", Usual)),
    On(Key("tier3", "telemetry"), Envelope("TIER-3", Usual)),
    On(Key("tier1", "telemetry"), Envelope("TIER-1", Usual)),
    On(Key("tier1", "telemetry"), Tampered(Envelope("TIER-1", Usual))),
    On(Key("tier2", "telemetry"), Tampered(Envelope("TIER-2", Usual))),
    On(Key("tier2", "command"), CommandEnvelope("TIER-2")) }

\* Packets of other nodes, whose key and classification need not agree.
ForeignInputs ==
  { On(Key("tier2", "telemetry"), Nil),
    On(Key("tier2", "telemetry"), Envelope("TIER-1", AtEdge)),
    On(Key("tier2", "telemetry"), Envelope("TIER-3", AtEdge)),
    On(ShortKey("tier2"), Envelope("TIER-2", AtEdge)),
    On(Key("tier2", "status"), CommandEnvelope("TIER-2")),
    On(Key("tier2", "status"), CommandEnvelope("TIER-1")) }

\* Packets that Validate refuses, one for each check.
InvalidInputs ==
  { On(Key("tier2", "telemetry"), env) :
      env \in { Envelope("TIER-2", NoBattery), Envelope("TIER-2", OffMap),
                Envelope("TIER-2", Unnamed), Envelope("TIER-4", Usual), Envelope(Nil, Usual),
                [Envelope("TIER-2", Usual) EXCEPT !.header = FALSE],
                [Envelope("TIER-2", Usual) EXCEPT !.digest = Nil],
                [Envelope("TIER-2", Usual) EXCEPT !.telemetry = Nil],
                [CommandEnvelope("TIER-2") EXCEPT !.command = [ids |-> FALSE]],
                Tampered(Envelope("TIER-2", Usual)), Tampered(CommandEnvelope("TIER-2")) } }

\* Two packets that go to the dead letter queue.
RejectedInputs ==
  { On(Key("tier2", "telemetry"), Nil), On(Key("tier3", "telemetry"), Envelope("TIER-3", Usual)) }

MeshInputs == FleetInputs \cup ForeignInputs
AllInputs == MeshInputs \cup InvalidInputs
=============================================================================
