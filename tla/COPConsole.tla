------------------------------ MODULE COPConsole ------------------------------
(***************************************************************************)
(* The parts of the COP dashboard (web/app.js) an operator acts by: the      *)
(* backhaul panel with its two buttons, and the list of command targets.     *)
(*                                                                           *)
(* The panel shows the mule's status as told by three sources: a message of  *)
(* the WebSocket every 2 s, the reply to the panel's own POST, and a poll    *)
(* every 3 s.  Each samples the status in the gateway and arrives later.     *)
(* The target list follows the teams in the received telemetry.  JavaScript  *)
(* runs one callback at a time: each is one step, up to its next await.      *)
(***************************************************************************)
EXTENDS Naturals, Sequences, FiniteSets, SequencesExt

CONSTANTS
  Vehicles,   \* the vehicles that send telemetry
  None,       \* no vehicle: the value "" of the list
  Markup,     \* vehicles index.html offers as targets before any telemetry
  Preselected,\* the one of them it marks as selected (blue-bravo)
  Highlighted,\* state.selectedVehicleId at the start (blue-alpha)
  Posts,      \* POSTs of the panel that can be under way together
  MaxTicks    \* bound: messages on the WebSocket

ASSUME ConsoleAssumption ==
  /\ None \notin Vehicles
  /\ Markup \subseteq Vehicles
  /\ Preselected \in Markup
  /\ Highlighted \in Vehicles
  /\ MaxTicks \in Nat

VARIABLES
  status,    \* the mule's status in the gateway
  panel,     \* the status the panel shows, which decides on the button shown
  ws,        \* "open" or "closed"
  ticks,     \* statuses on their way over the WebSocket
  poll,      \* pollBackhaul: waiting for its timer, or a request and its answer
  post,      \* each POST: free, or what is under way
  order,     \* state.fleet: vehicles in order of appearance
  team,      \* state.fleet: team in the last telemetry accepted
  options,   \* the vehicles the target list offers
  value,     \* its value
  lastIDs,   \* state.lastDropdownIDs
  selected   \* state.selectedVehicleId

panelVars == <<status, panel, poll, post>>
wsVars == <<ws, ticks>>
listVars == <<options, value, lastIDs>>
vars == <<panelVars, wsVars, order, team, listVars, selected>>

Statuses == {"ONLINE", "DDIL_BUFFERING"}
Under(stage, s) == [stage |-> stage, status |-> s]
Waiting == Under("waiting", "ONLINE")
Free == Under("free", "ONLINE")

\* The markup shows ONLINE, and offers targets nothing was heard of.
Init ==
  /\ status \in Statuses
  /\ panel = "ONLINE"
  /\ ws = "closed"
  /\ ticks = <<>>
  /\ poll = Under("asked", "ONLINE")
  /\ post = [p \in Posts |-> Free]
  /\ order = <<>>
  /\ team = [v \in Vehicles |-> "none"]
  /\ options = Markup
  /\ value = Preselected
  /\ lastIDs = {}
  /\ selected = Highlighted

-----------------------------------------------------------------------------
(* The mule and the gateway's ticker *)

\* Another dashboard's request, or a link error.
StatusChanges ==
  /\ \E s \in Statuses : status' = s /\ s # status
  /\ UNCHANGED <<panel, poll, post, wsVars, order, team, listVars, selected>>

Tick ==
  /\ ws = "open"
  /\ Len(ticks) < MaxTicks
  /\ ticks' = Append(ticks, status)
  /\ UNCHANGED <<panelVars, ws, order, team, listVars, selected>>

-----------------------------------------------------------------------------
(* connectWebSocket *)

WSOpen ==
  /\ ws = "closed"
  /\ ws' = "open"
  /\ UNCHANGED <<panelVars, ticks, order, team, listVars, selected>>

\* onclose, also after onerror: what was on its way is gone.
WSClose ==
  /\ ws = "open"
  /\ ws' = "closed"
  /\ ticks' = <<>>
  /\ UNCHANGED <<panelVars, order, team, listVars, selected>>

\* updateBackhaulUI: the badge, and the button for the other status.
UpdateBackhaulUI(s) == panel' = s

\* onmessage with metrics.
WSMetrics ==
  /\ ticks # <<>>
  /\ UpdateBackhaulUI(Head(ticks))
  /\ ticks' = Tail(ticks)
  /\ UNCHANGED <<status, poll, post, ws, order, team, listVars, selected>>

-----------------------------------------------------------------------------
(* pollBackhaul *)

PollAsk ==
  /\ poll = Waiting
  /\ poll' = Under("asked", "ONLINE")
  /\ UNCHANGED <<status, panel, post, wsVars, order, team, listVars, selected>>

\* The gateway answers with what the status is now.
PollSample ==
  /\ poll.stage = "asked"
  /\ poll' = Under("answered", status)
  /\ UNCHANGED <<status, panel, post, wsVars, order, team, listVars, selected>>

PollAnswer ==
  /\ poll.stage = "answered"
  /\ UpdateBackhaulUI(poll.status)
  /\ poll' = Waiting
  /\ UNCHANGED <<status, post, wsVars, order, team, listVars, selected>>

\* Mutation of PollFails: the next poll is only scheduled after an answer.
PollFails_Stops ==
  /\ poll.stage \in {"asked", "answered"}
  /\ poll' = Under("stopped", "ONLINE")
  /\ UNCHANGED <<status, panel, post, wsVars, order, team, listVars, selected>>

\* No connection, or an answer that is not ok: ignored, and the timer is set.
PollFails ==
  /\ poll.stage \in {"asked", "answered"}
  /\ poll' = Waiting
  /\ UNCHANGED <<status, panel, post, wsVars, order, team, listVars, selected>>

-----------------------------------------------------------------------------
(* simulateBackhaul, and handleBackhaulSimulate in the gateway *)

\* The button shown is the one for the other status.
Click(p) ==
  /\ post[p] = Free
  /\ post' = [post EXCEPT ![p] =
       Under("sent", IF panel = "ONLINE" THEN "DDIL_BUFFERING" ELSE "ONLINE")]
  /\ UNCHANGED <<status, panel, poll, wsVars, order, team, listVars, selected>>

\* SetSimulationMode sets the status, and takes the metrics afterwards.
PostApply(p) ==
  /\ post[p].stage = "sent"
  /\ status' = post[p].status
  /\ post' = [post EXCEPT ![p].stage = "applied"]
  /\ UNCHANGED <<panel, poll, wsVars, order, team, listVars, selected>>

PostSample(p) ==
  /\ post[p].stage = "applied"
  /\ post' = [post EXCEPT ![p] = Under("answered", status)]
  /\ UNCHANGED <<status, panel, poll, wsVars, order, team, listVars, selected>>

PostAnswer(p) ==
  /\ post[p].stage = "answered"
  /\ UpdateBackhaulUI(post[p].status)
  /\ post' = [post EXCEPT ![p] = Free]
  /\ UNCHANGED <<status, poll, wsVars, order, team, listVars, selected>>

\* The request or its answer is lost: a warning on the browser's console.
PostFails(p) ==
  /\ post[p].stage \in {"sent", "answered"}
  /\ post' = [post EXCEPT ![p] = Free]
  /\ UNCHANGED <<status, panel, poll, wsVars, order, team, listVars, selected>>

-----------------------------------------------------------------------------
(* The target list *)

\* Assigning an element's value that is none of its options leaves it empty.
Valid(v, opts) == IF v \in opts THEN v ELSE None

\* The options are in the order of state.fleet, which matters for the first.
First(ids) ==
  LET At == {i \in DOMAIN order' : order'[i] \in ids}
  IN  order'[CHOOSE i \in At : \A j \in At : i <= j]

\* Mutation of Rebuilt: the selection is not carried over.
Rebuilt_Forgets(ids, current) == First(ids)

\* The value after the options are replaced: the browser selects the first one
\* unless the earlier target is marked, and then that target is assigned if
\* state.fleet has it, whatever its team is now.
Rebuilt(ids, current) ==
  IF current \in ToSet(order') THEN Valid(current, ids) ELSE First(ids)

CurrentVal == IF value # None THEN value ELSE selected

\* updateCommandVehicleDropdown, for the fleet after this step.
UpdateDropdown ==
  LET ids == {v \in ToSet(order') : team'[v] = "blue"}
  IN  IF ids = {}
        THEN options' = {} /\ value' = None /\ UNCHANGED lastIDs
      ELSE IF ids = lastIDs
        THEN UNCHANGED listVars
      ELSE /\ lastIDs' = ids
           /\ options' = ids
           /\ value' = Rebuilt(ids, CurrentVal)

\* Mutation of Telemetry: the list is updated for new vehicles only.
Telemetry_IgnoresTeam(v, t) ==
  /\ ws = "open"
  /\ team' = [team EXCEPT ![v] = t]
  /\ IF team[v] = "none" THEN order' = Append(order, v) /\ UpdateDropdown
                         ELSE UNCHANGED <<order, listVars>>
  /\ UNCHANGED <<panelVars, wsVars, selected>>

\* handleIncomingTelemetry with a packet that the freshness guard lets pass (the
\* guard is in COPFeed).
Telemetry(v, t) ==
  /\ ws = "open"
  /\ team' = [team EXCEPT ![v] = t]
  /\ order' = IF team[v] = "none" THEN Append(order, v) ELSE order
  /\ IF team[v] = t THEN UNCHANGED listVars ELSE UpdateDropdown
  /\ UNCHANGED <<panelVars, wsVars, selected>>

\* selectVehicle by a click on a card of the fleet list or on the map.
SelectCard(v) ==
  /\ team[v] # "none"
  /\ selected' = v
  /\ value' = IF team[v] = "blue" THEN Valid(v, options) ELSE value
  /\ UNCHANGED <<panelVars, wsVars, order, team, options, lastIDs>>

\* The operator picks an option, and the change event calls selectVehicle.
SelectOption(v) ==
  /\ v \in options
  /\ v # value
  /\ selected' = v
  /\ value' = v
  /\ UNCHANGED <<panelVars, wsVars, order, team, options, lastIDs>>

-----------------------------------------------------------------------------

Operator == \E v \in Vehicles : SelectCard(v) \/ SelectOption(v)

Next ==
  \/ StatusChanges \/ Tick
  \/ WSOpen \/ WSClose \/ WSMetrics
  \/ PollAsk \/ PollSample \/ PollAnswer \/ PollFails
  \/ \E p \in Posts : Click(p) \/ PostApply(p) \/ PostSample(p) \/ PostAnswer(p) \/ PostFails(p)
  \/ \E v \in Vehicles : Telemetry(v, "blue") \/ Telemetry(v, "red")
  \/ Operator

Spec == Init /\ [][Next]_vars

(* Every poll ends, with an answer or without, and the timer fires; polls do *)
(* not fail for ever.  Nothing is assumed of the WebSocket or of POSTs.      *)
FairSpec ==
  /\ Spec
  /\ WF_vars(PollAsk)
  /\ SF_vars(PollSample)
  /\ SF_vars(PollAnswer)

-----------------------------------------------------------------------------

\* The variables hold what the code can store in them.
TypeOK ==
  /\ {status, panel} \subseteq Statuses
  /\ ToSet(order) = {v \in Vehicles : team[v] # "none"}
  /\ value \in options \cup {None}

(* However the three sources overtake each other, and even if the WebSocket  *)
(* never connects, the panel shows the mule's status for good once that has  *)
(* stopped changing.                                                         *)
PanelCatchesUp ==
  \A s \in Statuses : <>[](status = s) => <>[](panel = s)

(* Telemetry never moves the operator's target to another vehicle once the   *)
(* target has been heard of: the value of the list is kept or becomes empty, *)
(* and from empty it returns only to the vehicle selected last, unless that  *)
(* has not been heard of either.                                             *)
NoSilentRetarget ==
  [][~Operator => value' \in {value, None, CurrentVal} \/ team'[CurrentVal] = "none"]_vars

(* From the first telemetry on the list offers no vehicle whose last         *)
(* telemetry is not of the blue team, although it is not rebuilt when the    *)
(* set of blue vehicles is the one it was last built for, and is cleared     *)
(* without that being noted.                                                 *)
OffersBlueOnly ==
  order # <<>> => \A v \in options : team[v] = "blue"

-----------------------------------------------------------------------------
(* What the comments say, and the code does not do *)

(* app.js: the list holds "friendly blue vehicles".  When the only blue      *)
(* vehicle changes its team and changes back, the list has been cleared and  *)
(* disabled, and lastDropdownIDs keeps it from being filled again.           *)
OffersEveryBlue == \A v \in Vehicles : team[v] = "blue" => v \in options

(* The button shown fits the status: with a stale panel a click asks for the *)
(* status the mule is in already.                                            *)
ClickChangesStatus ==
  \A p \in Posts : post[p].stage = "sent" => post[p].status # status

(* The target the form shows is the one a command goes to: the first         *)
(* telemetry replaces the target of the markup, chosen by the operator or    *)
(* not, by the first vehicle heard of, if it is another one.                 *)
MarkupTargetKept == [][~Operator => value' \in {value, None, selected}]_vars
=============================================================================
