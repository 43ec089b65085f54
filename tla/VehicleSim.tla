----------------------------- MODULE VehicleSim -----------------------------
(***************************************************************************)
(* The flight simulator of cmd/edge-agent/main.go: a ticker goroutine calls *)
(* Step(dt) and the bus subscription calls HandleCommand, both under v.mu.  *)
(*                                                                          *)
(* Single-vehicle mode, where the recovery pad is the centre of the patrol  *)
(* orbit: every flight leg is then radial, and dist (the distance from the  *)
(* pad) is the whole of the position that Step's branches look at.  The     *)
(* angle on the orbit is read by nothing but the step along it; travel      *)
(* keeps how far the last tick took the vehicle over the ground, radius and *)
(* arc together.                                                            *)
(*                                                                          *)
(* Units: decimetres, decimetres per second, tenths of a percent; dt is a   *)
(* whole number of seconds.  The code's one-decimal rounding is then exact  *)
(* for altitude and speed, and is modelled by RoundTenth for the battery.   *)
(* The six-decimal rounding of a coordinate (0.1 m) is left out, and so is  *)
(* v.sequence, which no branch reads.                                       *)
(***************************************************************************)
EXTENDS Integers, FiniteSetsExt

CONSTANTS
  CruiseAlt,    \* the alt argument of NewVehicleSim
  CruiseSpeed,  \* the speed argument of NewVehicleSim
  Radius,       \* orbitRadius * 111139 m
  Dt            \* the ticker's interval, 1 / rateHz

ASSUME SimAssumption ==
  /\ CruiseAlt \in Int
  /\ CruiseSpeed \in Int
  /\ Radius \in Nat \ {0}
  /\ Dt \in Nat \ {0}

VARIABLES
  state,     \* v.state
  battery,   \* v.batteryPct
  dist,      \* |current - base|
  alt,       \* v.currentAlt
  speed,     \* v.speedMps
  ewActive,  \* v.ewActive
  travel     \* the ground path of the last tick, 0 once a command came after it

vars == <<state, battery, dist, alt, speed, ewActive, travel>>

-----------------------------------------------------------------------------

States == {"AIRBORNE", "PATROL", "HOVER", "RTB", "LANDED"}

FullCharge == 985
ReserveCharge == 50
ArmAlt == 1000
DefaultSpeed == 145

\* The defaults NewVehicleSim puts in for a non-positive argument.
Cruise == IF CruiseAlt <= 0 THEN 1200 ELSE CruiseAlt
Speed == IF CruiseSpeed <= 0 THEN DefaultSpeed ELSE CruiseSpeed

\* NewVehicleSim: airborne, on the orbit, at cruise altitude and speed.
Init ==
  /\ state = "AIRBORNE"
  /\ battery = FullCharge
  /\ dist = Radius
  /\ alt = Cruise
  /\ speed = Speed
  /\ ewActive = FALSE
  /\ travel = 0

-----------------------------------------------------------------------------
(* Step *)

Gap(a, b) == IF a < b THEN b - a ELSE a - b

\* roundFloat(x, 1) for x in hundredths, the result in tenths.
RoundTenth(x) == (x + 5) \div 10

\* The battery after one step of a flight mode that burns rate hundredths of a
\* percent per second.
Drained(rate) == RoundTenth(Max({10 * ReserveCharge, 10 * battery - rate * Dt}))

\* Displaced from the orbit by more than 8 m and more than one step's travel.
OffOrbit == Gap(dist, Radius) > Max({80, speed * Dt})

\* Towards goal by at most step, stopping there.
Towards(goal, step) ==
  IF step >= Gap(dist, goal) THEN goal
  ELSE IF dist < goal THEN dist + step ELSE dist - step

\* Mutation of Accelerated: a vehicle at rest stays at rest.
Accelerated_NotFromRest ==
  IF 0 < speed /\ speed < Speed THEN Min({Speed, speed + 40 * Dt}) ELSE speed

\* 4 m/s per second up to cruise speed.
Accelerated == IF speed < Speed THEN Min({Speed, speed + 40 * Dt}) ELSE speed

\* 10 m/s up to cruise altitude.
Climbed == IF alt < Cruise THEN Min({Cruise, alt + 100 * Dt}) ELSE alt

\* Mutation of StepTransit: the vehicle is put on the orbit at once.
StepTransit_Snaps ==
  /\ state \in {"AIRBORNE", "PATROL"}
  /\ OffOrbit
  /\ alt' = Climbed
  /\ speed' = Accelerated
  /\ dist' = Radius
  /\ travel' = Gap(dist, dist')
  /\ battery' = Drained(4)
  /\ UNCHANGED <<state, ewActive>>

StepTransit ==
  /\ state \in {"AIRBORNE", "PATROL"}
  /\ OffOrbit
  /\ alt' = Climbed
  /\ speed' = Accelerated
  /\ dist' = Towards(Radius, Accelerated * Dt)
  /\ travel' = Gap(dist, dist')
  /\ battery' = Drained(4)
  /\ UNCHANGED <<state, ewActive>>

\* The distance one step covers along the orbit: omega is speed / radius, or
\* 0.08 rad/s when the speed is zero.
Arc == IF speed > 0 THEN speed * Dt ELSE (8 * Radius * Dt) \div 100

\* On the orbit, or within reach of it, the radius is re-imposed and the angle
\* moves on; altitude and speed are left alone.
StepOrbit ==
  /\ state \in {"AIRBORNE", "PATROL"}
  /\ ~OffOrbit
  /\ dist' = Radius
  /\ travel' = Gap(dist, Radius) + Arc
  /\ battery' = Drained(4)
  /\ UNCHANGED <<state, alt, speed, ewActive>>

StepHover ==
  /\ state = "HOVER"
  /\ battery' = Drained(2)
  /\ travel' = 0
  /\ UNCHANGED <<state, dist, alt, speed, ewActive>>

\* Mutation of StepReturn: the descent does not wait for the approach.
StepReturn_DescendsEarly ==
  /\ state = "RTB"
  /\ dist > 100
  /\ battery' = Drained(3)
  /\ dist' = Towards(0, speed * Dt)
  /\ travel' = Gap(dist, dist')
  /\ alt' = IF alt > 150 THEN Max({150, alt - 60 * Dt}) ELSE alt
  /\ UNCHANGED <<state, speed, ewActive>>

\* More than 10 m from the pad; below 200 m the descent to 15 m begins.
StepReturn ==
  /\ state = "RTB"
  /\ dist > 100
  /\ battery' = Drained(3)
  /\ dist' = Towards(0, speed * Dt)
  /\ travel' = Gap(dist, dist')
  /\ alt' = IF dist < 2000 /\ alt > 150 THEN Max({150, alt - 60 * Dt}) ELSE alt
  /\ UNCHANGED <<state, speed, ewActive>>

Sunk == Max({0, alt - 100 * Dt})

\* Mutation of StepTouchdown: the mode is left to the next command.
StepTouchdown_StaysRTB ==
  /\ state = "RTB"
  /\ dist <= 100
  /\ battery' = Drained(3)
  /\ speed' = 0
  /\ IF Sunk <= 50 THEN alt' = 0 /\ dist' = 0 ELSE alt' = Sunk /\ UNCHANGED dist
  /\ travel' = Gap(dist, dist')
  /\ UNCHANGED <<state, ewActive>>

\* Over the pad: descend, and at 5 m or less switch to LANDED.
StepTouchdown ==
  /\ state = "RTB"
  /\ dist <= 100
  /\ battery' = Drained(3)
  /\ speed' = 0
  /\ IF Sunk <= 50
       THEN state' = "LANDED" /\ alt' = 0 /\ dist' = 0
       ELSE alt' = Sunk /\ UNCHANGED <<state, dist>>
  /\ travel' = Gap(dist, dist')
  /\ UNCHANGED ewActive

StepLanded ==
  /\ state = "LANDED"
  /\ alt' = 0
  /\ speed' = 0
  /\ travel' = 0
  /\ UNCHANGED <<state, battery, dist, ewActive>>

Step ==
  \/ StepTransit
  \/ StepOrbit
  \/ StepHover
  \/ StepReturn
  \/ StepTouchdown
  \/ StepLanded

-----------------------------------------------------------------------------
(* HandleCommand, for a command whose target is this vehicle *)

ReturnToBase ==
  /\ state' = "RTB"
  /\ speed' = DefaultSpeed
  /\ travel' = 0
  /\ UNCHANGED <<battery, dist, alt, ewActive>>

Hover ==
  /\ state' = "HOVER"
  /\ speed' = 0
  /\ travel' = 0
  /\ UNCHANGED <<battery, dist, alt, ewActive>>

\* On the ground (5 m or less) or stationary the speed stays 0.
Patrol ==
  /\ state' = "PATROL"
  /\ speed' = IF alt <= 50 \/ speed <= 0 THEN 0 ELSE Speed
  /\ travel' = 0
  /\ UNCHANGED <<battery, dist, alt, ewActive>>

\* Only a landed vehicle can be armed.
Arm ==
  /\ state = "LANDED"
  /\ state' = "AIRBORNE"
  /\ alt' = ArmAlt
  /\ speed' = DefaultSpeed
  /\ travel' = 0
  /\ UNCHANGED <<battery, dist, ewActive>>

Disarm ==
  /\ state' = "LANDED"
  /\ alt' = 0
  /\ speed' = 0
  /\ travel' = 0
  /\ UNCHANGED <<battery, dist, ewActive>>

ToggleEW ==
  /\ ewActive' = ~ewActive
  /\ travel' = 0
  /\ UNCHANGED <<state, battery, dist, alt, speed>>

HandleCommand == ReturnToBase \/ Hover \/ Patrol \/ Arm \/ Disarm \/ ToggleEW

Next == Step \/ HandleCommand

Spec == Init /\ [][Next]_vars

\* The ticker keeps firing while the process runs; no command ever has to come.
FairSpec == Spec /\ WF_vars(Step)

-----------------------------------------------------------------------------

(* Step and HandleCommand keep every field in its physical range: the        *)
(* battery between reserve and full, the vehicle inside its orbit, altitude  *)
(* and speed below the larger of cruise and default.  LANDED means stopped   *)
(* on the ground, whatever sequence of commands and ticks led there.         *)
TypeOK ==
  /\ state \in States
  /\ battery \in ReserveCharge..FullCharge
  /\ dist \in 0..Radius
  /\ alt \in 0..Max({Cruise, ArmAlt})
  /\ speed \in 0..Max({Speed, DefaultSpeed})
  /\ ewActive \in BOOLEAN
  /\ travel \in Nat
  /\ state = "LANDED" => alt = 0 /\ speed = 0

(* How far one tick takes the vehicle over the ground, after any commands:   *)
(* not at all while it hovers or stands; on a leg no farther than its top    *)
(* speed carries it; on the orbit by that arc, plus what it was off the      *)
(* orbit by.  The exception is a vehicle set on patrol at rest on the orbit: *)
(* it is carried round at 0.08 rad/s, whatever distance that is.  Height     *)
(* changes by at most 10 m/s, and the 5 m of the touchdown cut-off.          *)
TravelBounded ==
  [][Step =>
       LET leg == Max({Speed, DefaultSpeed}) * Dt
           onOrbit == state \in {"AIRBORNE", "PATROL"} /\ ~OffOrbit
       IN  /\ state \in {"HOVER", "LANDED"} => travel' = 0
           /\ ~onOrbit => travel' <= leg
           /\ onOrbit /\ speed > 0 => travel' <= Max({80, leg}) + leg
           /\ onOrbit /\ speed = 0 => travel' <= 80 + (8 * Radius * Dt) \div 100
           /\ alt' - alt <= 100 * Dt
           /\ alt - alt' <= 100 * Dt + 50]_vars

(* Returning, a vehicle does not lose height before it is within 200 m of    *)
(* the pad, nor go below 15 m before it is within 10 m, and it lands on the  *)
(* pad: the switch to LANDED by a tick happens nowhere else.                 *)
ReturnIsSafe ==
  [][Step /\ state = "RTB" =>
       /\ alt' < alt => dist < 2000
       /\ alt' < alt /\ alt' < 150 => dist <= 100
       /\ state' = "LANDED" => dist' = 0]_vars

(* No tick of a leg is wasted, whatever commands came before: one on the way *)
(* back covers a step at return speed, or arrives; over the pad it sinks 10  *)
(* m/s, or lands; one on the way out covers at least what it gathers from    *)
(* rest, or is on the orbit.  So each leg is over after a number of ticks    *)
(* that follows from where it began.                                         *)
LegsAdvance ==
  [][Step =>
       /\ state = "RTB" =>
            \/ state' = "LANDED"
            \/ dist > 100 /\ (dist' = 0 \/ dist' <= dist - DefaultSpeed * Dt)
            \/ dist' = dist /\ alt' <= alt - 100 * Dt
       /\ state \in {"AIRBORNE", "PATROL"} =>
            dist' = Radius \/ dist' >= dist + Min({Speed, 40 * Dt}) * Dt]_vars

(* Every leg ends unless another command takes the vehicle off it: one sent  *)
(* back to base lands, from wherever it hovered, patrolled or stood, and one *)
(* sent on patrol reaches its orbit, gathering speed from zero on its own.   *)
LegsEnd ==
  /\ state = "RTB" ~> state # "RTB"
  /\ state \in {"AIRBORNE", "PATROL"} ~>
       (dist = Radius \/ state \notin {"AIRBORNE", "PATROL"})

-----------------------------------------------------------------------------
(* What the documentation, a comment and a test say, and the code does not do *)

(* SKILL.md: patrol consumes 0.04 % of the battery per second, so that a      *)
(* vehicle that stays on patrol shows less than a full battery in the end.   *)
(* At one tick per second the rounding to one decimal undoes every tick.     *)
PatrolDrains == <>[](state \in {"AIRBORNE", "PATROL"}) => <>(battery < FullCharge)

(* main.go and main_test.go: a vehicle that resumes patrol takes off and      *)
(* patrols around cruise altitude.  One disarmed on the orbit does not climb. *)
PatrolAtCruise == state = "PATROL" ~> (alt >= Cruise - 50 \/ state # "PATROL")

(* main_test.go: a vehicle that resumes patrol never moves 30 m or more in a  *)
(* 1 s tick.  One that hovered on the orbit does, at 0.08 rad/s.             *)
TickUnder30m == state = "PATROL" => travel < 300 * Dt
=============================================================================
