--------------------------- MODULE COPConsoleProofs ---------------------------
(***************************************************************************)
(* Proofs about the target list of COPConsole, for every fleet, every markup *)
(* and any number of POSTs and messages under way.                           *)
(***************************************************************************)
EXTENDS COPConsole, SequenceTheorems, WellFoundedInduction, TLAPS

Teams == {"none", "blue", "red"}

\* What the list and the fleet hold: the vehicles heard of are those with a team.
FleetInv ==
  /\ order \in Seq(Vehicles)
  /\ team \in [Vehicles -> Teams]
  /\ ToSet(order) = {v \in Vehicles : team[v] # "none"}
  /\ options \subseteq Vehicles
  /\ value \in Vehicles \cup {None}
  /\ selected \in Vehicles

\* The list was built for the vehicles in lastIDs or cleared since, and not built
\* at all before the first telemetry.
ListInv ==
  /\ order = <<>> => lastIDs = {}
  /\ order # <<>> => options \subseteq lastIDs
  /\ OffersBlueOnly

-----------------------------------------------------------------------------
(* Sequences and numbers *)

\* A set of natural numbers that is not empty has a least element.
LEMMA LeastNat ==
  ASSUME NEW T, T \subseteq Nat, T # {}
  PROVE  \E x \in T : \A y \in T : x <= y
<1>1. \E R : IsWellFoundedOn(R, Nat) /\ \A x, y \in Nat : x < y => <<x, y>> \in R
  <2> DEFINE R == OpToRel(<, Nat)
  <2>1. IsWellFoundedOn(R, Nat)
    BY NatLessThanWellFounded
  <2>2. \A x, y \in Nat : x < y => <<x, y>> \in R
    BY DEF OpToRel
  <2> QED BY <2>1, <2>2, Zenon
<1>2. PICK R : IsWellFoundedOn(R, Nat) /\ \A x, y \in Nat : x < y => <<x, y>> \in R
  BY <1>1
<1>3. IsWellFoundedOn(R, Nat)
  BY <1>2
<1>4. \E x \in T : \A y \in T : ~(<<y, x>> \in R)
  BY <1>3, WFMin, Zenon
<1>5. PICK x \in T : \A y \in T : ~(<<y, x>> \in R)
  BY <1>4
<1>6. \A y \in T : ~(y < x)
  BY <1>2, <1>5
<1>7. x \in T /\ \A y \in T : x <= y
  BY <1>6
<1> QED BY <1>7

\* A vehicle heard of for the first time comes last.
LEMMA ToSetAppend ==
  ASSUME NEW S, NEW s \in Seq(S), NEW x \in S
  PROVE  /\ Append(s, x) \in Seq(S) /\ Append(s, x) # <<>>
         /\ ToSet(Append(s, x)) = ToSet(s) \cup {x}
<1>1. /\ Append(s, x) \in Seq(S) /\ Len(Append(s, x)) = Len(s) + 1 /\ Len(s) \in Nat
      /\ DOMAIN s = 1..Len(s) /\ DOMAIN Append(s, x) = 1..(Len(s) + 1)
      /\ \A i \in 1..Len(s) : Append(s, x)[i] = s[i]
      /\ Append(s, x)[Len(s) + 1] = x
  OBVIOUS
<1>2. DOMAIN Append(s, x) = DOMAIN s \cup {Len(s) + 1}
  BY <1>1
<1>3. Append(s, x) # <<>>
  BY <1>1
<1>4. ToSet(Append(s, x)) = {Append(s, x)[i] : i \in DOMAIN s \cup {Len(s) + 1}}
  BY <1>2 DEF ToSet
<1>5. \A y : y \in ToSet(Append(s, x)) <=> (\E i \in DOMAIN s : y = s[i]) \/ y = x
  BY <1>1, <1>4
<1> QED BY <1>1, <1>3, <1>5 DEF ToSet

\* The first option is one of them.
LEMMA FirstIsOne ==
  ASSUME order' \in Seq(Vehicles), NEW ids, ids \subseteq ToSet(order'), ids # {}
  PROVE  First(ids) \in ids
<1> DEFINE At == {i \in DOMAIN order' : order'[i] \in ids}
<1>1. At \subseteq Nat
  OBVIOUS
<1>2. At # {}
  BY DEF ToSet
<1> HIDE DEF At
<1>3. \E i \in At : \A j \in At : i <= j
  BY <1>1, <1>2, LeastNat
<1>4. (CHOOSE i \in At : \A j \in At : i <= j) \in At
  BY <1>3
<1>5. \A i \in At : order'[i] \in ids
  BY DEF At
<1> QED BY <1>4, <1>5 DEF First, At

-----------------------------------------------------------------------------
(* The steps *)

\* Only telemetry and the operator touch the fleet and the list.
LEMMA OtherSteps ==
  [Next]_vars => \/ \E v \in Vehicles, t \in {"blue", "red"} : Telemetry(v, t)
                 \/ Operator
                 \/ UNCHANGED <<order, team, listVars, selected>>
<1> SUFFICES ASSUME [Next]_vars, ~Operator,
                    ~\E v \in Vehicles, t \in {"blue", "red"} : Telemetry(v, t)
             PROVE  UNCHANGED <<order, team, listVars, selected>>
  OBVIOUS
<1>1. CASE StatusChanges \/ Tick \/ WSOpen \/ WSClose \/ WSMetrics
  BY <1>1 DEF StatusChanges, Tick, WSOpen, WSClose, WSMetrics
<1>2. CASE PollAsk \/ PollSample \/ PollAnswer \/ PollFails
  BY <1>2 DEF PollAsk, PollSample, PollAnswer, PollFails
<1>3. ASSUME NEW p \in Posts,
             Click(p) \/ PostApply(p) \/ PostSample(p) \/ PostAnswer(p) \/ PostFails(p)
      PROVE  UNCHANGED <<order, team, listVars, selected>>
  BY <1>3 DEF Click, PostApply, PostSample, PostAnswer, PostFails
<1>4. CASE UNCHANGED vars
  BY <1>4 DEF vars
<1> QED BY <1>1, <1>2, <1>3, <1>4 DEF Next

\* What telemetry does to the fleet.
LEMMA TelemetryFleet ==
  ASSUME FleetInv, NEW v \in Vehicles, NEW t \in {"blue", "red"}, Telemetry(v, t)
  PROVE  /\ order' \in Seq(Vehicles) /\ order' # <<>>
         /\ team' \in [Vehicles -> Teams]
         /\ ToSet(order') = {w \in Vehicles : team'[w] # "none"}
         /\ selected' = selected
<1>1. /\ team' = [team EXCEPT ![v] = t] /\ selected' = selected
      /\ order' = IF team[v] = "none" THEN Append(order, v) ELSE order
  BY DEF Telemetry
<1>2. team' \in [Vehicles -> Teams] /\ team'[v] = t /\ t # "none"
      /\ \A w \in Vehicles \ {v} : team'[w] = team[w]
  BY <1>1 DEF FleetInv, Teams
<1>3. CASE team[v] = "none"
  <2>1. order' = Append(order, v)
    BY <1>1, <1>3
  <2>2. order' \in Seq(Vehicles) /\ order' # <<>> /\ ToSet(order') = ToSet(order) \cup {v}
    BY <2>1, ToSetAppend DEF FleetInv
  <2> QED BY <1>1, <1>2, <2>2 DEF FleetInv
<1>4. CASE team[v] # "none"
  <2>1. order' = order /\ v \in ToSet(order)
    BY <1>1, <1>4 DEF FleetInv
  <2>2. order # <<>>
    BY <2>1 DEF ToSet
  <2> QED BY <1>1, <1>2, <1>4, <2>1, <2>2 DEF FleetInv
<1> QED BY <1>3, <1>4

\* What telemetry does to the list: it is kept, with the fleet as it was or with
\* the vehicles it was built for; it is cleared; or it is built anew.
LEMMA TelemetryList ==
  ASSUME FleetInv, NEW v \in Vehicles, NEW t \in {"blue", "red"}, Telemetry(v, t)
  PROVE  LET ids == {w \in Vehicles : team'[w] = "blue"} IN
           \/ UNCHANGED <<order, team, listVars>>
           \/ ids # {} /\ ids = lastIDs /\ UNCHANGED listVars
           \/ options' = {} /\ value' = None /\ lastIDs' = lastIDs
           \/ /\ ids # {} /\ options' = ids /\ lastIDs' = ids
              /\ value' \in {CurrentVal, None} \/ (value' \in ids /\ team'[CurrentVal] = "none")
<1> DEFINE ids == {w \in ToSet(order') : team'[w] = "blue"}
<1>1. /\ order' \in Seq(Vehicles) /\ team' \in [Vehicles -> Teams]
      /\ ToSet(order') = {w \in Vehicles : team'[w] # "none"}
  BY TelemetryFleet
<1>2. ids = {w \in Vehicles : team'[w] = "blue"}
  BY <1>1
<1>3. CASE team[v] = t
  <2>1. team' = team
    BY <1>3 DEF Telemetry, FleetInv
  <2>2. order' = order
    BY <1>3 DEF Telemetry
  <2>3. UNCHANGED listVars
    BY <1>3 DEF Telemetry
  <2> QED BY <2>1, <2>2, <2>3
<1>4. CASE team[v] # t
  <2>1. UpdateDropdown
    BY <1>4 DEF Telemetry
  <2>2. CASE ids = {}
    BY <1>2, <2>1, <2>2 DEF UpdateDropdown
  <2>3. CASE ids # {} /\ ids = lastIDs
    BY <1>2, <2>1, <2>3 DEF UpdateDropdown
  <2>4. CASE ids # {} /\ ids # lastIDs
    <3>1. lastIDs' = ids /\ options' = ids /\ value' = Rebuilt(ids, CurrentVal)
      BY <2>1, <2>4 DEF UpdateDropdown
    <3>2. First(ids) \in ids
      BY <1>1, <2>4, FirstIsOne
    <3>3. CurrentVal \in Vehicles
      BY DEF CurrentVal, FleetInv
    <3>4. CASE CurrentVal \in ToSet(order')
      BY <1>2, <2>4, <3>1, <3>4 DEF Rebuilt, Valid
    <3>5. CASE CurrentVal \notin ToSet(order')
      <4>1. team'[CurrentVal] = "none"
        BY <1>1, <3>3, <3>5
      <4> QED BY <1>2, <2>4, <3>1, <3>2, <3>5, <4>1 DEF Rebuilt
    <3> QED BY <3>4, <3>5
  <2> QED BY <2>2, <2>3, <2>4
<1> QED BY <1>3, <1>4

\* Every step keeps the fleet and the list in order.
LEMMA NextInv == FleetInv /\ ListInv /\ [Next]_vars => FleetInv' /\ ListInv'
<1> SUFFICES ASSUME FleetInv, ListInv, [Next]_vars PROVE FleetInv' /\ ListInv'
  OBVIOUS
<1>1. ASSUME NEW v \in Vehicles, NEW t \in {"blue", "red"}, Telemetry(v, t)
      PROVE  FleetInv' /\ ListInv'
  <2> DEFINE ids == {w \in Vehicles : team'[w] = "blue"}
  <2>1. /\ order' \in Seq(Vehicles) /\ order' # <<>>
        /\ team' \in [Vehicles -> Teams]
        /\ ToSet(order') = {w \in Vehicles : team'[w] # "none"}
        /\ selected' = selected
    BY <1>1, TelemetryFleet
  <2>2. CurrentVal \in Vehicles
    BY DEF CurrentVal, FleetInv
  <2>3. CASE UNCHANGED <<order, team, listVars>>
    BY <2>1, <2>3 DEF FleetInv, ListInv, OffersBlueOnly, listVars
  <2>4. CASE ids # {} /\ ids = lastIDs /\ UNCHANGED listVars
    <3>1. order # <<>>
      BY <2>4 DEF ListInv
    <3>2. options' \subseteq lastIDs' /\ \A w \in options' : team'[w] = "blue"
      BY <2>4, <3>1 DEF ListInv, listVars
    <3> QED BY <2>1, <2>4, <3>2 DEF FleetInv, ListInv, OffersBlueOnly, listVars
  <2>5. CASE options' = {} /\ value' = None /\ lastIDs' = lastIDs
    BY <2>1, <2>5 DEF FleetInv, ListInv, OffersBlueOnly
  <2>6. CASE /\ ids # {} /\ options' = ids /\ lastIDs' = ids
             /\ value' \in {CurrentVal, None} \/ (value' \in ids /\ team'[CurrentVal] = "none")
    <3>1. value' \in Vehicles \cup {None}
      BY <2>2, <2>6
    <3> QED BY <2>1, <2>6, <3>1 DEF FleetInv, ListInv, OffersBlueOnly
  <2> QED BY <1>1, <2>3, <2>4, <2>5, <2>6, TelemetryList
<1>2. ASSUME NEW v \in Vehicles, SelectCard(v) \/ SelectOption(v) PROVE FleetInv' /\ ListInv'
  <2>1. value' \in Vehicles \cup {None}
    BY <1>2 DEF SelectCard, SelectOption, Valid, FleetInv
  <2> QED BY <1>2, <2>1 DEF SelectCard, SelectOption, FleetInv, ListInv, OffersBlueOnly
<1>3. CASE UNCHANGED <<order, team, listVars, selected>>
  BY <1>3 DEF FleetInv, ListInv, OffersBlueOnly, listVars
<1> QED BY <1>1, <1>2, <1>3, OtherSteps DEF Operator

\* The page as it is loaded.
LEMMA InitInv == Init => FleetInv /\ ListInv
<1> SUFFICES ASSUME Init PROVE FleetInv /\ ListInv
  OBVIOUS
<1>1. ToSet(order) = {}
  BY DEF Init, ToSet
<1> QED BY <1>1, ConsoleAssumption DEF Init, FleetInv, ListInv, OffersBlueOnly, Teams

(* Once anything has been heard, the operator is offered blue vehicles only, *)
(* in every fleet and after every sequence of team changes, although the     *)
(* list is not rebuilt for a set it was built for before.                    *)
THEOREM ConsoleOffersBlueOnly == Spec => []OffersBlueOnly
<1>1. FleetInv /\ ListInv => OffersBlueOnly
  BY DEF ListInv
<1> QED BY InitInv, NextInv, <1>1, PTL DEF Spec

(* No telemetry, poll, message or answer moves the operator's target from    *)
(* one vehicle heard of to another.                                          *)
THEOREM ConsoleNoSilentRetarget == Spec => NoSilentRetarget
<1>1. ASSUME FleetInv, ListInv, [Next]_vars
      PROVE  [~Operator => value' \in {value, None, CurrentVal} \/ team'[CurrentVal] = "none"]_vars
  <2> SUFFICES ASSUME ~Operator
               PROVE  value' \in {value, None, CurrentVal} \/ team'[CurrentVal] = "none"
    OBVIOUS
  <2>1. ASSUME NEW v \in Vehicles, NEW t \in {"blue", "red"}, Telemetry(v, t)
        PROVE  value' \in {value, None, CurrentVal} \/ team'[CurrentVal] = "none"
    <3>1. value' = value \/ value' \in {CurrentVal, None} \/ team'[CurrentVal] = "none"
      BY <1>1, <2>1, TelemetryList DEF listVars
    <3> QED BY <3>1
  <2>2. CASE UNCHANGED <<order, team, listVars, selected>>
    BY <2>2 DEF listVars
  <2> QED BY <1>1, <2>1, <2>2, OtherSteps
<1> QED BY InitInv, NextInv, <1>1, PTL DEF Spec, NoSilentRetarget

=============================================================================
