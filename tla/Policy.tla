------------------------------- MODULE Policy -------------------------------
(***************************************************************************)
(* The security envelope and the egress policy, as pure operators:          *)
(* pkg/schema/telemetry.go (Normalize, ComputePayloadDigest, Validate),     *)
(* pkg/policy/policy.go (Evaluate, RedactAndSanitize) and the key functions *)
(* of pkg/zenohutil/topic.go.                                               *)
(*                                                                          *)
(* Numbers are integers in a unit finer than the precision Normalize keeps: *)
(* latitude and longitude in 10^-7 degree, altitude in mm, battery in       *)
(* hundredths of a percent.  Fields that no rule looks at (velocity,        *)
(* heading, state, caveats, message id) are left out.                       *)
(***************************************************************************)
EXTENDS Integers

CONSTANTS
  Nil,          \* an absent pointer, an empty string, a payload that is not JSON
  GpsDecimals   \* the -coarsen-decimals flag

\* NewPolicyEngine: a non-positive precision becomes 2 decimals.
CoarsenUnit == 10 ^ (7 - (IF GpsDecimals <= 0 THEN 2 ELSE GpsDecimals))

\* The ranges of latitude and longitude that Validate accepts: 90 and 180 degrees.
MaxLat == 900000000
MaxLon == 2 * MaxLat

\* The coarse grid is a multiple of the precision Normalize keeps (at most 6
\* decimals are asked for) and divides 90 and 180 degrees.
ASSUME PolicyAssumption ==
  /\ CoarsenUnit \in Nat \ {0}
  /\ CoarsenUnit % 10 = 0
  /\ MaxLat % CoarsenUnit = 0

ValidTiers == {"TIER-1", "TIER-2", "TIER-3"}

\* TelemetryPayload.  ids: vehicle id, type and team are all there; "sensor_data"
\* stands for any mission payload that is not nil.
Telemetry == [ids : BOOLEAN, battery : Int, lat : Int, lon : Int, alt : Int,
              mission : {Nil, "sensor_data", "REDACTED_BY_CDS"}]

\* The absent value is none of the values a field can have.
ASSUME NilAssumption ==
  /\ Nil \notin Telemetry /\ Nil # "sensor_data"
  /\ Nil \notin ValidTiers
  /\ Nil \notin [sha256 : Telemetry]

-----------------------------------------------------------------------------
(* Rounding and normalization *)

\* Mutation of RoundTo: truncation toward zero.
RoundTo_Truncates(x, u) == IF x >= 0 THEN (x \div u) * u ELSE -((-x \div u) * u)

\* math.Round(x * 10^d) / 10^d: to the nearest multiple of u, halves away from zero.
RoundTo(x, u) == IF x >= 0 THEN ((x + u \div 2) \div u) * u
                           ELSE -(((-x + u \div 2) \div u) * u)

\* TelemetryPayload.Normalize: 6 decimals of a degree, 2 of a metre, 1 of a percent.
Normalize(t) == [t EXCEPT !.lat = RoundTo(@, 10), !.lon = RoundTo(@, 10),
                          !.alt = RoundTo(@, 10), !.battery = RoundTo(@, 10)]

\* ComputePayloadDigest, a hash without collisions.
ComputePayloadDigest(p) == [sha256 |-> p]

-----------------------------------------------------------------------------
(* Validate: the first check that fails, or "ok" *)

InBounds(v, max) == -max <= v /\ v <= max

ValidateTelemetry(digest, t) ==
  IF ~t.ids THEN "missing"
  ELSE IF t.battery < 0 \/ t.battery > 10000 THEN "battery"
  ELSE IF ~InBounds(t.lat, MaxLat) \/ ~InBounds(t.lon, MaxLon) THEN "coordinates"
  ELSE IF digest # ComputePayloadDigest(t) THEN "mismatch"
  ELSE "ok"

ValidateCommand(digest, c) ==
  IF ~c.ids THEN "missing"
  ELSE IF digest # ComputePayloadDigest(c) THEN "mismatch"
  ELSE "ok"

\* Mutation of Validate: a telemetry payload is not hashed again.
Validate_TrustsDigest(env) ==
  IF env.classification = Nil \/ ~env.header \/ env.digest = Nil THEN "missing"
  ELSE IF env.classification \notin ValidTiers THEN "unauthorized"
  ELSE IF env.telemetry = Nil THEN "neither"
  ELSE ValidateTelemetry(ComputePayloadDigest(Normalize(env.telemetry)), Normalize(env.telemetry))

Validate(env) ==
  IF env.classification = Nil THEN "missing"
  ELSE IF env.classification \notin ValidTiers THEN "unauthorized"
  ELSE IF ~env.header THEN "missing"       \* origin enclave, timestamp
  ELSE IF env.digest = Nil THEN "missing"
  ELSE IF env.telemetry = Nil /\ env.command = Nil THEN "neither"
  ELSE IF env.telemetry # Nil THEN ValidateTelemetry(env.digest, Normalize(env.telemetry))
  ELSE ValidateCommand(env.digest, env.command)

-----------------------------------------------------------------------------
(* Evaluate and RedactAndSanitize *)

\* The rejection reason Evaluate derives from the text of Validate's error.
Reason(error) ==
  CASE error = "unauthorized" -> "UNAUTHORIZED_SYNTHETIC_TIER"
    [] error = "missing"      -> "SCHEMA_VALIDATION_FAILURE"
    [] error = "battery"      -> "INVALID_BATTERY_LEVEL"
    [] error = "coordinates"  -> "COORDINATES_OUT_OF_BOUNDS"
    [] OTHER                  -> "CRYPTOGRAPHIC_INTEGRITY_COMPROMISED"

Quarantined(reason) == [action |-> "QUARANTINE", reason |-> reason]

Evaluate(env) ==
  IF Validate(env) # "ok" THEN Quarantined(Reason(Validate(env)))
  ELSE IF env.classification = "TIER-1" THEN [action |-> "PASS", reason |-> Nil]
  ELSE IF env.classification = "TIER-2" THEN [action |-> "REDACT_AND_PASS", reason |-> Nil]
  ELSE Quarantined("TIER3_CRITICAL_EGRESS_PROHIBITED")

\* A mission payload is replaced when there is one.
ScrubMission(mission) == IF mission = Nil THEN Nil ELSE "REDACTED_BY_CDS"

\* Coarsened coordinates, altitude in 50 m steps, mission payload scrubbed.
Sanitize(t) ==
  [t EXCEPT !.lat = RoundTo(@, CoarsenUnit), !.lon = RoundTo(@, CoarsenUnit),
            !.alt = (@ \div 50000) * 50000,
            !.mission = ScrubMission(@)]

\* Mutation of RedactAndSanitize: the digest of the original is kept.
RedactAndSanitize_KeepsDigest(env) ==
  [classification |-> "TIER-1", header |-> env.header, digest |-> env.digest,
   telemetry |-> Sanitize(Normalize(env.telemetry)), command |-> Nil]

\* The down-tagged envelope.  Validate has normalized env.Telemetry in place, the
\* command is not copied, and the digest is computed over the sanitized payload.
RedactAndSanitize(env) ==
  LET clean == Sanitize(Normalize(env.telemetry))
  IN  [classification |-> "TIER-1", header |-> env.header,
       digest |-> ComputePayloadDigest(clean), telemetry |-> clean, command |-> Nil]

-----------------------------------------------------------------------------
(* Keys: sec/<tier>/<type>/<team>/<unit>/<stream>.  sixPart says that ParseKey *)
(* finds six parts.                                                            *)

\* The egress key: BuildKey with tier1, or sec/tier1/redacted/<id>.
DownTag(key) ==
  [tier |-> "tier1", stream |-> IF key.sixPart THEN key.stream ELSE "redacted", sixPart |-> key.sixPart]

=============================================================================
