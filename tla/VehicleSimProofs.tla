-------------------------- MODULE VehicleSimProofs --------------------------
(***************************************************************************)
(* Proofs about the vehicle simulator, for every cruise altitude, cruise    *)
(* speed, orbit radius and tick interval.                                   *)
(***************************************************************************)
EXTENDS VehicleSim, TLAPS

-----------------------------------------------------------------------------
(* Arithmetic *)

\* The larger of two integers.
LEMMA MaxOfTwo ==
  ASSUME NEW a \in Int, NEW b \in Int
  PROVE  Max({a, b}) = IF a >= b THEN a ELSE b
<1> DEFINE m == IF a >= b THEN a ELSE b
<1>1. m \in {a, b} /\ \A y \in {a, b} : m >= y
  OBVIOUS
<1>2. \A x \in {a, b} : (\A y \in {a, b} : x >= y) => x = m
  OBVIOUS
<1> QED BY <1>1, <1>2 DEF Max

\* The smaller of two integers.
LEMMA MinOfTwo ==
  ASSUME NEW a \in Int, NEW b \in Int
  PROVE  Min({a, b}) = IF a <= b THEN a ELSE b
<1> DEFINE m == IF a <= b THEN a ELSE b
<1>1. m \in {a, b} /\ \A y \in {a, b} : m <= y
  OBVIOUS
<1>2. \A x \in {a, b} : (\A y \in {a, b} : x <= y) => x = m
  OBVIOUS
<1> QED BY <1>1, <1>2 DEF Min

\* A faster vehicle travels further in a tick.
LEMMA TravelGrows ==
  ASSUME NEW a \in Nat, NEW b \in Nat, a <= b
  PROVE  a * Dt \in Nat /\ b * Dt \in Nat /\ a * Dt <= b * Dt
<1>1. Dt \in Nat
  BY SimAssumption
<1>2. (b - a) * Dt >= 0 /\ (b - a) * Dt = b * Dt - a * Dt
  BY <1>1
<1> QED BY <1>1, <1>2

\* The fastest and the highest the vehicle can be.
TopSpeed == Max({Speed, DefaultSpeed})
Ceiling == Max({Cruise, ArmAlt})

\* The limits are above what the code assigns.
LEMMA Limits ==
  /\ TopSpeed \in Nat /\ Speed \in Nat /\ Speed <= TopSpeed /\ DefaultSpeed <= TopSpeed
  /\ Ceiling \in Nat /\ Cruise \in Nat /\ Cruise <= Ceiling /\ ArmAlt <= Ceiling
  /\ DefaultSpeed = 145 /\ ArmAlt = 1000
<1>1. Speed \in Nat /\ Cruise \in Nat
  BY SimAssumption DEF Speed, Cruise, DefaultSpeed
<1>2. /\ TopSpeed = IF Speed >= DefaultSpeed THEN Speed ELSE DefaultSpeed
      /\ Ceiling = IF Cruise >= ArmAlt THEN Cruise ELSE ArmAlt
  BY <1>1, MaxOfTwo DEF TopSpeed, Ceiling, DefaultSpeed, ArmAlt
<1> QED BY <1>1, <1>2 DEF DefaultSpeed, ArmAlt

\* One step's consumption never charges the battery nor takes it below the reserve.
\* A consumption of at most half of a displayed tenth is rounded away.
LEMMA DrainedBounds ==
  ASSUME battery \in ReserveCharge..FullCharge, NEW rate \in Nat
  PROVE  /\ Drained(rate) \in ReserveCharge..FullCharge
         /\ Drained(rate) <= battery
         /\ rate * Dt <= 5 => Drained(rate) = battery
<1>1. rate * Dt \in Nat
  BY SimAssumption
<1>2. battery \in 50..985
  BY DEF ReserveCharge, FullCharge
<1> DEFINE burn == rate * Dt
           left == 10 * battery - burn
<1> HIDE DEF burn
<1>3. burn \in Nat /\ left \in Int
  BY <1>1, <1>2 DEF burn
<1>4. Max({10 * ReserveCharge, left}) = IF 500 >= left THEN 500 ELSE left
  BY <1>3, MaxOfTwo DEF ReserveCharge
<1>5. Drained(rate) = ((IF 500 >= left THEN 500 ELSE left) + 5) \div 10
  BY <1>4 DEF Drained, RoundTenth, burn
<1>6. /\ Drained(rate) \in 50..985 /\ Drained(rate) <= battery
      /\ burn <= 5 => Drained(rate) = battery
  BY <1>2, <1>3, <1>5
<1> QED BY <1>6 DEF ReserveCharge, FullCharge, burn

\* Flying towards a goal moves the vehicle by at most one step and not past it.
LEMMA TowardsBounds ==
  ASSUME NEW goal \in Nat, NEW step \in Nat, dist \in Nat
  PROVE  /\ Towards(goal, step) \in Nat
         /\ Gap(dist, Towards(goal, step)) \in Nat
         /\ Gap(dist, Towards(goal, step)) <= step
         /\ dist <= goal => dist <= Towards(goal, step) /\ Towards(goal, step) <= goal
         /\ dist >= goal => goal <= Towards(goal, step) /\ Towards(goal, step) <= dist
BY DEF Towards, Gap

-----------------------------------------------------------------------------
(* The physical envelope *)

\* What the moves of Step compute, in an envelope state.
LEMMA MoveBounds ==
  ASSUME TypeOK
  PROVE  /\ Accelerated \in 0..TopSpeed
         /\ Climbed \in 0..Ceiling /\ Climbed >= alt /\ Climbed - alt <= 100 * Dt
         /\ Sunk \in 0..Ceiling /\ Sunk <= alt /\ alt - Sunk <= 100 * Dt
         /\ speed * Dt \in Nat /\ Accelerated * Dt \in Nat
         /\ speed * Dt <= TopSpeed * Dt /\ Accelerated * Dt <= TopSpeed * Dt
<1>1. speed \in 0..TopSpeed /\ alt \in 0..Ceiling /\ Dt \in Nat \ {0}
  BY SimAssumption DEF TypeOK, TopSpeed, Ceiling
<1>2. Accelerated \in 0..TopSpeed
  <2>1. Min({Speed, speed + 40 * Dt}) = IF Speed <= speed + 40 * Dt THEN Speed ELSE speed + 40 * Dt
    BY <1>1, Limits, MinOfTwo
  <2> QED BY <1>1, <2>1, Limits DEF Accelerated
<1>3. Climbed \in 0..Ceiling /\ Climbed >= alt /\ Climbed - alt <= 100 * Dt
  <2>1. Min({Cruise, alt + 100 * Dt}) = IF Cruise <= alt + 100 * Dt THEN Cruise ELSE alt + 100 * Dt
    BY <1>1, Limits, MinOfTwo
  <2> QED BY <1>1, <2>1, Limits DEF Climbed
<1>4. Sunk \in 0..Ceiling /\ Sunk <= alt /\ alt - Sunk <= 100 * Dt
  <2>1. Sunk = IF 0 >= alt - 100 * Dt THEN 0 ELSE alt - 100 * Dt
    BY <1>1, MaxOfTwo, Limits DEF Sunk
  <2> QED BY <1>1, <2>1, Limits
<1>5. /\ speed * Dt \in Nat /\ Accelerated * Dt \in Nat
      /\ speed * Dt <= TopSpeed * Dt /\ Accelerated * Dt <= TopSpeed * Dt
  BY <1>1, <1>2, Limits, TravelGrows
<1> QED BY <1>2, <1>3, <1>4, <1>5

\* The path of a tick along the orbit: the arc at the vehicle's speed, or at 0.08
\* rad/s from rest, and at most the width of the orbit's catch to re-join it.
LEMMA OrbitPath ==
  ASSUME TypeOK
  PROVE  /\ Arc \in Nat
         /\ Gap(dist, Radius) \in Nat
         /\ ~OffOrbit => Gap(dist, Radius) <= Max({80, speed * Dt})
         /\ speed > 0 => Arc <= TopSpeed * Dt
         /\ speed = 0 => Arc = (8 * Radius * Dt) \div 100 /\ Max({80, speed * Dt}) = 80
         /\ Max({80, speed * Dt}) <= Max({80, TopSpeed * Dt})
<1>1. /\ dist \in Nat /\ Radius \in Nat /\ Dt \in Nat \ {0} /\ speed \in Nat
      /\ speed * Dt \in Nat /\ TopSpeed * Dt \in Nat /\ speed * Dt <= TopSpeed * Dt
  BY SimAssumption, MoveBounds, Limits, TravelGrows DEF TypeOK, TopSpeed
<1>2. (8 * Radius * Dt) \div 100 \in Nat
  <2>1. 8 * Radius * Dt \in Nat
    BY <1>1
  <2> QED BY <2>1
<1>3. Gap(dist, Radius) \in Nat
  BY <1>1 DEF Gap
<1>4. /\ Max({80, speed * Dt}) = IF 80 >= speed * Dt THEN 80 ELSE speed * Dt
      /\ Max({80, TopSpeed * Dt}) = IF 80 >= TopSpeed * Dt THEN 80 ELSE TopSpeed * Dt
  BY <1>1, MaxOfTwo
<1>5. speed = 0 => speed * Dt = 0
  BY <1>1
<1> HIDE DEF TopSpeed
<1>6. ~OffOrbit => Gap(dist, Radius) <= Max({80, speed * Dt})
  BY <1>1, <1>3, <1>4 DEF OffOrbit
<1>7. Max({80, speed * Dt}) <= Max({80, TopSpeed * Dt})
  BY <1>1, <1>4
<1> QED BY <1>1, <1>2, <1>3, <1>4, <1>5, <1>6, <1>7 DEF Arc

\* The vehicle of the constructor is in the envelope.
LEMMA InitTypeOK == Init => TypeOK
<1> SUFFICES ASSUME Init PROVE TypeOK
  OBVIOUS
<1>1. Radius \in Nat
  BY SimAssumption
<1>2. battery \in ReserveCharge..FullCharge
  BY DEF Init, ReserveCharge, FullCharge
<1>3. alt \in 0..Ceiling /\ speed \in 0..TopSpeed
  BY Limits DEF Init
<1>4. dist \in 0..Radius
  BY <1>1 DEF Init
<1>5. state = "AIRBORNE" /\ state \in States /\ ewActive = FALSE /\ travel \in Nat
  BY DEF Init, States
<1> QED BY <1>2, <1>3, <1>4, <1>5 DEF TypeOK, TopSpeed, Ceiling

\* Every tick and every command keeps the vehicle in the envelope.
LEMMA NextTypeOK == TypeOK /\ [Next]_vars => TypeOK'
<1> SUFFICES ASSUME TypeOK, [Next]_vars PROVE TypeOK'
  OBVIOUS
<1>0. /\ state \in States /\ battery \in ReserveCharge..FullCharge /\ dist \in 0..Radius
      /\ alt \in 0..Ceiling /\ speed \in 0..TopSpeed /\ ewActive \in BOOLEAN /\ travel \in Nat
      /\ state = "LANDED" => alt = 0 /\ speed = 0
      /\ Radius \in Nat \ {0} /\ Dt \in Nat \ {0}
  BY SimAssumption DEF TypeOK, TopSpeed, Ceiling
<1>a. SUFFICES /\ state' \in States /\ battery' \in ReserveCharge..FullCharge /\ dist' \in 0..Radius
               /\ alt' \in 0..Ceiling /\ speed' \in 0..TopSpeed /\ ewActive' \in BOOLEAN
               /\ travel' \in Nat
               /\ state' = "LANDED" => alt' = 0 /\ speed' = 0
  BY DEF TypeOK, TopSpeed, Ceiling
<1>b. \A rate \in Nat : Drained(rate) \in ReserveCharge..FullCharge
  BY <1>0, DrainedBounds
<1>1. CASE StepTransit
  <2>1. Towards(Radius, Accelerated * Dt) \in 0..Radius
    <3>1. Accelerated * Dt \in Nat
      BY MoveBounds
    <3> DEFINE step == Accelerated * Dt
    <3> HIDE DEF step
    <3>2. step \in Nat /\ Radius \in Nat /\ dist \in Nat /\ dist <= Radius
      BY <1>0, <3>1 DEF step
    <3>3. Towards(Radius, step) \in 0..Radius
      BY <3>2, TowardsBounds
    <3> QED BY <3>3 DEF step
  <2>2. travel' \in Nat
    BY <1>0, <1>1, <2>1 DEF StepTransit, Gap
  <2> QED BY <1>0, <1>1, <1>b, <2>1, <2>2, MoveBounds DEF StepTransit
<1>2. CASE StepOrbit
  BY <1>0, <1>2, <1>b, OrbitPath DEF StepOrbit
<1>3. CASE StepHover
  BY <1>0, <1>3, <1>b DEF StepHover
<1>4. CASE StepReturn
  <2>1. Towards(0, speed * Dt) \in 0..Radius
    BY <1>0, MoveBounds, TowardsBounds
  <2>2. alt > 150 => Max({150, alt - 60 * Dt}) \in 0..Ceiling
    <3>1. Max({150, alt - 60 * Dt}) = IF 150 >= alt - 60 * Dt THEN 150 ELSE alt - 60 * Dt
      BY <1>0, MaxOfTwo, Limits
    <3> QED BY <1>0, <3>1, Limits
  <2>3. travel' \in Nat
    BY <1>0, <1>4, <2>1 DEF StepReturn, Gap
  <2> QED BY <1>0, <1>4, <1>b, <2>1, <2>2, <2>3 DEF StepReturn
<1>5. CASE StepTouchdown
  <2>1. dist' \in 0..Radius /\ travel' \in Nat
    BY <1>0, <1>5 DEF StepTouchdown, Gap
  <2> QED BY <1>0, <1>5, <1>b, <2>1, MoveBounds, Limits DEF StepTouchdown, States
<1>6. CASE StepLanded
  BY <1>0, <1>6, Limits DEF StepLanded
<1>7. CASE HandleCommand
  <2>1. CASE ReturnToBase
    BY <1>0, <2>1, Limits DEF ReturnToBase, States
  <2>2. CASE Hover
    BY <1>0, <2>2, Limits DEF Hover, States
  <2>3. CASE Patrol
    BY <1>0, <2>3, Limits DEF Patrol, States
  <2>4. CASE Arm
    BY <1>0, <2>4, Limits DEF Arm, States
  <2>5. CASE Disarm
    BY <1>0, <2>5, Limits DEF Disarm, States
  <2>6. CASE ToggleEW
    BY <1>0, <2>6 DEF ToggleEW
  <2> QED BY <1>7, <2>1, <2>2, <2>3, <2>4, <2>5, <2>6 DEF HandleCommand
<1>8. CASE UNCHANGED vars
  BY <1>0, <1>8 DEF vars
<1> QED BY <1>1, <1>2, <1>3, <1>4, <1>5, <1>6, <1>7, <1>8 DEF Next, Step

\* No sequence of ticks and commands takes the vehicle out of its physical range,
\* whatever its cruise altitude, speed, orbit and tick interval.
THEOREM SimTypeOK == Spec => []TypeOK
BY InitTypeOK, NextTypeOK, PTL DEF Spec

-----------------------------------------------------------------------------
(* What a tick may do *)

\* No tick takes the vehicle farther over the ground than its top speed and the
\* catch of the orbit allow, except one at rest on the orbit, which goes round at
\* 0.08 rad/s: for every speed, orbit and tick interval.
THEOREM SimTravelBounded == Spec => TravelBounded
<1> DEFINE leg == Max({Speed, DefaultSpeed}) * Dt
           onOrbit == state \in {"AIRBORNE", "PATROL"} /\ ~OffOrbit
           Level == alt' - alt <= 100 * Dt /\ alt - alt' <= 100 * Dt + 50
           A == Step =>
                  /\ state \in {"HOVER", "LANDED"} => travel' = 0
                  /\ ~onOrbit => travel' <= leg
                  /\ onOrbit /\ speed > 0 => travel' <= Max({80, leg}) + leg
                  /\ onOrbit /\ speed = 0 => travel' <= 80 + (8 * Radius * Dt) \div 100
                  /\ alt' - alt <= 100 * Dt
                  /\ alt - alt' <= 100 * Dt + 50
<1>1. TypeOK /\ [Next]_vars => [A]_vars
  <2> SUFFICES ASSUME TypeOK, Step PROVE A
    OBVIOUS
  <2>0. /\ dist \in Nat /\ dist <= Radius /\ Radius \in Nat /\ alt \in Nat /\ alt <= Ceiling
        /\ Dt \in Nat \ {0} /\ speed \in Nat
        /\ state = "LANDED" => alt = 0
    BY SimAssumption, Limits DEF TypeOK, Ceiling, TopSpeed
  <2>1. leg = TopSpeed * Dt /\ leg \in Nat /\ leg >= 145
    <3>1. TopSpeed \in Nat /\ 145 <= TopSpeed
      BY Limits
    <3>2. 145 * Dt <= TopSpeed * Dt /\ TopSpeed * Dt \in Nat
      BY <3>1, TravelGrows
    <3> QED BY <2>0, <3>2 DEF TopSpeed
  <2> HIDE DEF leg
  <2>2. CASE StepTransit
    <3>1. travel' \in Nat /\ travel' <= Accelerated * Dt /\ ~onOrbit
      BY <2>0, <2>2, MoveBounds, TowardsBounds DEF StepTransit
    <3>2. travel' <= leg
      BY <2>1, <3>1, MoveBounds
    <3>3. Level
      BY <2>0, <2>2, MoveBounds, Limits DEF StepTransit
    <3> QED BY <2>2, <3>1, <3>2, <3>3 DEF StepTransit
  <2>3. CASE StepOrbit
    <3>1. onOrbit /\ alt' = alt /\ travel' = Gap(dist, Radius) + Arc /\ state \notin {"HOVER", "LANDED"}
      BY <2>3 DEF StepOrbit
    <3>2. Level
      BY <2>0, <3>1
    <3>3. ASSUME speed > 0 PROVE travel' <= Max({80, leg}) + leg
      <4>1. /\ Gap(dist, Radius) \in Nat /\ Arc \in Nat /\ Arc <= leg
            /\ Gap(dist, Radius) <= Max({80, speed * Dt})
            /\ Max({80, speed * Dt}) <= Max({80, leg})
        BY <2>1, <3>1, <3>3, OrbitPath
      <4>2. Max({80, speed * Dt}) \in Int /\ Max({80, leg}) \in Int
        BY <2>1, MaxOfTwo, MoveBounds
      <4> QED BY <2>1, <3>1, <4>1, <4>2
    <3>4. ASSUME speed = 0 PROVE travel' <= 80 + (8 * Radius * Dt) \div 100
      BY <3>1, <3>4, OrbitPath
    <3> QED BY <2>0, <3>1, <3>2, <3>3, <3>4
  <2>4. CASE StepHover \/ StepLanded
    <3>1. travel' = 0 /\ alt' = alt /\ ~onOrbit
      BY <2>0, <2>4 DEF StepHover, StepLanded
    <3> QED BY <2>0, <2>1, <3>1
  <2>5. CASE StepReturn
    <3>1. travel' \in Nat /\ travel' <= speed * Dt
      BY <2>0, <2>5, MoveBounds, TowardsBounds DEF StepReturn
    <3>2. travel' <= leg /\ state = "RTB"
      BY <2>1, <2>5, <3>1, MoveBounds DEF StepReturn
    <3>3. Max({150, alt - 60 * Dt}) = IF 150 >= alt - 60 * Dt THEN 150 ELSE alt - 60 * Dt
      BY <2>0, MaxOfTwo
    <3>4. Level
      BY <2>0, <2>5, <3>3 DEF StepReturn
    <3> QED BY <3>2, <3>4
  <2>6. CASE StepTouchdown
    <3>1. dist <= 100 /\ dist' \in {0, dist} /\ travel' = Gap(dist, dist') /\ state = "RTB"
      BY <2>6 DEF StepTouchdown
    <3>2. travel' <= leg
      BY <2>0, <2>1, <3>1 DEF Gap
    <3>3. Level
      BY <2>0, <2>6, MoveBounds, Limits DEF StepTouchdown
    <3> QED BY <3>1, <3>2, <3>3
  <2> QED BY <2>2, <2>3, <2>4, <2>5, <2>6 DEF Step
<1> QED BY <1>1, SimTypeOK, PTL DEF Spec, TravelBounded

\* A returning vehicle keeps its height until it is near the pad and lands on it.
THEOREM SimReturnIsSafe == Spec => ReturnIsSafe
<1> DEFINE A == Step /\ state = "RTB" =>
                  /\ alt' < alt => dist < 2000
                  /\ alt' < alt /\ alt' < 150 => dist <= 100
                  /\ state' = "LANDED" => dist' = 0
<1>1. TypeOK /\ [Next]_vars => [A]_vars
  <2> SUFFICES ASSUME TypeOK, Step, state = "RTB"
               PROVE  /\ alt' < alt => dist < 2000
                      /\ alt' < alt /\ alt' < 150 => dist <= 100
                      /\ state' = "LANDED" => dist' = 0
    OBVIOUS
  <2>0. dist \in Nat /\ alt \in Nat /\ Dt \in Nat \ {0}
    BY SimAssumption, Limits DEF TypeOK, Ceiling
  <2>1. CASE StepReturn
    <3>1. Max({150, alt - 60 * Dt}) = IF 150 >= alt - 60 * Dt THEN 150 ELSE alt - 60 * Dt
      BY <2>0, MaxOfTwo
    <3> QED BY <2>0, <2>1, <3>1 DEF StepReturn
  <2>2. CASE StepTouchdown
    BY <2>0, <2>2 DEF StepTouchdown
  <2> QED BY <2>1, <2>2 DEF Step, StepTransit, StepOrbit, StepHover, StepLanded
<1> QED BY <1>1, SimTypeOK, PTL DEF Spec, ReturnIsSafe

\* The battery never charges, at any tick interval.
THEOREM SimNeverCharges == Spec => [][battery' <= battery]_vars
<1>1. TypeOK /\ [Next]_vars => [battery' <= battery]_vars
  <2> SUFFICES ASSUME TypeOK, Next PROVE battery' <= battery
    OBVIOUS
  <2>1. battery \in ReserveCharge..FullCharge /\ battery <= battery
    BY DEF TypeOK, ReserveCharge, FullCharge
  <2>2. \A rate \in Nat : Drained(rate) <= battery
    BY <2>1, DrainedBounds
  <2>3. CASE Step
    BY <2>1, <2>2, <2>3 DEF Step, StepTransit, StepOrbit, StepHover, StepReturn, StepTouchdown, StepLanded
  <2>4. CASE HandleCommand
    BY <2>1, <2>4 DEF HandleCommand, ReturnToBase, Hover, Patrol, Arm, Disarm, ToggleEW
  <2> QED BY <2>3, <2>4 DEF Next
<1> QED BY <1>1, SimTypeOK, PTL DEF Spec

\* At the deployed tick of one second the battery never leaves the charge it starts
\* with, whatever the vehicle flies and for however long: no mode burns more than
\* 0.04 % per tick, and the rounding to one decimal gives it back.
THEOREM SimStaysCharged ==
  ASSUME Dt = 1
  PROVE  Spec => [](battery = FullCharge)
<1>1. Init => battery = FullCharge
  BY DEF Init
<1>2. TypeOK /\ battery = FullCharge /\ [Next]_vars => (battery = FullCharge)'
  <2> SUFFICES ASSUME TypeOK, battery = FullCharge, [Next]_vars PROVE battery' = battery
    OBVIOUS
  <2>1. \A rate \in {2, 3, 4} : Drained(rate) = battery
    <3>1. \A rate \in {2, 3, 4} : rate \in Nat /\ rate * Dt <= 5
      OBVIOUS
    <3> QED BY <3>1, DrainedBounds DEF TypeOK
  <2>2. CASE Step
    BY <2>1, <2>2 DEF Step, StepTransit, StepOrbit, StepHover, StepReturn, StepTouchdown, StepLanded
  <2>3. CASE HandleCommand
    BY <2>3 DEF HandleCommand, ReturnToBase, Hover, Patrol, Arm, Disarm, ToggleEW
  <2>4. CASE UNCHANGED vars
    BY <2>4 DEF vars
  <2> QED BY <2>2, <2>3, <2>4 DEF Next
<1> QED BY <1>1, <1>2, SimTypeOK, PTL DEF Spec

-----------------------------------------------------------------------------
(* The progress of the legs *)

\* On its way back a vehicle flies at return speed: RETURN_TO_BASE sets it, and only
\* the touchdown, within 10 m of the pad, takes it away without a command.
ReturnInv == state = "RTB" /\ dist > 100 => speed = DefaultSpeed

\* Every tick and every command keeps the return speed.
LEMMA NextReturnInv == TypeOK /\ ReturnInv /\ [Next]_vars => ReturnInv'
<1> SUFFICES ASSUME TypeOK, ReturnInv, [Next]_vars, state' = "RTB", dist' > 100
             PROVE  speed' = DefaultSpeed
  BY DEF ReturnInv
<1>1. CASE StepReturn
  BY <1>1 DEF StepReturn, ReturnInv
<1>2. CASE StepTouchdown
  <2>1. dist \in Nat
    BY SimAssumption DEF TypeOK
  <2> QED BY <1>2, <2>1 DEF StepTouchdown
<1>3. CASE StepTransit \/ StepOrbit \/ StepHover \/ StepLanded
  BY <1>3 DEF StepTransit, StepOrbit, StepHover, StepLanded
<1>4. CASE HandleCommand
  BY <1>4 DEF HandleCommand, ReturnToBase, Hover, Patrol, Arm, Disarm, ToggleEW, ReturnInv
<1>5. CASE UNCHANGED vars
  BY <1>5 DEF vars, ReturnInv
<1> QED BY <1>1, <1>2, <1>3, <1>4, <1>5 DEF Next, Step

\* Every tick of a leg counts, from any position and speed that earlier commands left
\* the vehicle with: the core of LegsEnd, which adds that the ticker goes on.
THEOREM SimLegsAdvance == Spec => LegsAdvance
<1> DEFINE Back == \/ state' = "LANDED"
                   \/ dist > 100 /\ (dist' = 0 \/ dist' <= dist - DefaultSpeed * Dt)
                   \/ dist' = dist /\ alt' <= alt - 100 * Dt
           Out == dist' = Radius \/ dist' >= dist + Min({Speed, 40 * Dt}) * Dt
           A == Step => /\ state = "RTB" => Back
                        /\ state \in {"AIRBORNE", "PATROL"} => Out
<1>1. TypeOK /\ ReturnInv /\ [Next]_vars => [A]_vars
  <2> SUFFICES ASSUME TypeOK, ReturnInv, Step
               PROVE  /\ state = "RTB" => Back
                      /\ state \in {"AIRBORNE", "PATROL"} => Out
    OBVIOUS
  <2>0. /\ dist \in Nat /\ dist <= Radius /\ Radius \in Nat /\ alt \in Nat /\ speed \in Nat
        /\ Dt \in Nat \ {0}
    BY SimAssumption, Limits DEF TypeOK, Ceiling, TopSpeed
  <2>1. CASE StepReturn
    <3> DEFINE step == DefaultSpeed * Dt
    <3>1. dist > 100 /\ dist' = Towards(0, step) /\ state = "RTB"
      BY <2>1 DEF StepReturn, ReturnInv
    <3>2. step \in Nat
      BY <2>0, Limits
    <3> HIDE DEF step
    <3>3. dist' = 0 \/ dist' <= dist - step
      BY <2>0, <3>1, <3>2 DEF Towards, Gap
    <3> QED BY <3>1, <3>3 DEF step
  <2>2. CASE StepTouchdown
    <3>1. Sunk = IF 0 >= alt - 100 * Dt THEN 0 ELSE alt - 100 * Dt
      BY <2>0, MaxOfTwo DEF Sunk
    <3>2. state = "RTB" /\ (state' = "LANDED" \/ (Sunk > 50 /\ alt' = Sunk /\ dist' = dist))
      BY <2>0, <2>2, <3>1 DEF StepTouchdown
    <3> QED BY <2>0, <3>1, <3>2
  <2>3. CASE StepTransit
    <3> DEFINE least == Min({Speed, 40 * Dt})
               step == Accelerated * Dt
    <3>1. /\ least = IF Speed <= 40 * Dt THEN Speed ELSE 40 * Dt
          /\ Min({Speed, speed + 40 * Dt}) = IF Speed <= speed + 40 * Dt THEN Speed ELSE speed + 40 * Dt
      BY <2>0, Limits, MinOfTwo
    <3>2. least \in Nat /\ Accelerated \in Nat /\ least <= Accelerated
      BY <2>0, <3>1, Limits DEF Accelerated
    <3>3. least * Dt \in Nat /\ step \in Nat /\ least * Dt <= step
      BY <3>2, TravelGrows
    <3>4. dist' = Towards(Radius, step) /\ state # "RTB"
      BY <2>3 DEF StepTransit
    <3> HIDE DEF least, step
    <3>5. dist' = Radius \/ dist' = dist + step
      BY <2>0, <3>3, <3>4 DEF Towards, Gap
    <3>6. dist' = Radius \/ dist' >= dist + least * Dt
      BY <2>0, <3>3, <3>5
    <3> QED BY <3>4, <3>6 DEF least
  <2>4. CASE StepOrbit \/ StepHover \/ StepLanded
    BY <2>4 DEF StepOrbit, StepHover, StepLanded
  <2> QED BY <2>1, <2>2, <2>3, <2>4 DEF Step
<1>2. Init => ReturnInv
  BY DEF Init, ReturnInv
<1>3. Spec => []ReturnInv
  BY <1>2, SimTypeOK, NextReturnInv, PTL DEF Spec
<1> QED BY <1>1, <1>3, SimTypeOK, PTL DEF Spec, LegsAdvance

=============================================================================
