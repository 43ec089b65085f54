------------------------------ MODULE C2Dispatch ------------------------------
(***************************************************************************)
(* An operator's command, from POST /api/v1/command to the vehicle:          *)
(* Gateway.handleCommand (cmd/c2-gateway/main.go) with the fleet table that  *)
(* handleTelemetry writes under it, the PUT of the REST client and the       *)
(* event stream of each agent (pkg/zenohutil/client.go), and the             *)
(* subscriptions of the edge agents (cmd/edge-agent/main.go).                *)
(*                                                                           *)
(* What a command makes the vehicle do is in VehicleSim and MavlinkBridge;   *)
(* here a command is its target.                                             *)
(***************************************************************************)
EXTENDS Topic, FiniteSets, SequencesExt

CONSTANTS
  Agents,       \* records [id, team, type, kind], kind "sim" or "mavlink"
  Targets,      \* names an operator can ask for; NoName is the empty string
  Injected,     \* names an operator can inject test telemetry for
  InjectTier,   \* the tier of injected telemetry
  Selector,     \* the gateway's -telemetry-selector
  Handlers,     \* goroutines of the HTTP server
  MaxCommands   \* bound: requests

VARIABLES
  fleet,     \* team of each vehicle in Gateway.fleet, or "none"
  writer,    \* the entry being written inside fleetMu, or Nothing
  handler,   \* where each handleCommand is, and its command
  issued,    \* history: requests, with the commands answered before each
  answer,    \* answers by command number
  late,      \* commands whose PUT failed for the gateway and may yet arrive
  up,        \* agents whose event stream is connected
  stream,    \* commands on each agent's event stream
  executed,  \* history: commands each agent has executed
  lost       \* history: commands each agent's stream lost

tableVars == <<fleet, writer>>
requestVars == <<handler, issued, answer, late>>
agentVars == <<up, stream, executed, lost>>
vars == <<tableVars, requestVars, agentVars>>

NoName == Word("")
Callsigns == {"alpha", "bravo", "charlie", "delta", "echo"}
Names == Targets \cup Injected \cup {a.id : a \in Agents}
Nothing == [id |-> NoName, team |-> "none"]
Free == [pc |-> "free", cmd |-> 0, found |-> FALSE]

ASSUME DispatchAssumption ==
  /\ MaxCommands \in Nat
  /\ \A a \in Agents : a.id # NoName

Init ==
  /\ fleet = [n \in Names |-> "none"]
  /\ writer = Nothing
  /\ handler = [h \in Handlers |-> Free]
  /\ issued = <<>>
  /\ answer = <<>>
  /\ late = {}
  /\ up = Agents
  /\ stream = [a \in Agents |-> <<>>]
  /\ executed = [a \in Agents |-> <<>>]
  /\ lost = [a \in Agents |-> {}]

-----------------------------------------------------------------------------
(* Gateway.handleTelemetry: the fleet table *)

\* fleetMu is taken and the entry is being overwritten.
Overwrite(id, team) ==
  /\ writer = Nothing
  /\ writer' = [id |-> id, team |-> team]
  /\ UNCHANGED <<fleet, requestVars, agentVars>>

\* A packet of a vehicle arrives.  They are all alike here, so that any delay
\* and any loss is a packet that arrives at some time or does not.
Telemetry(a) ==
  /\ MatchesSelector(Selector, BuildKey("tier2", a.type, a.team, a.id, "telemetry"))
  /\ Overwrite(a.id, a.team)

\* A packet of handleInject arrives: always of team blue, whatever the name.
InjectedTelemetry(n) ==
  /\ MatchesSelector(Selector, BuildKey(InjectTier, "drone", "blue", n, "telemetry"))
  /\ Overwrite(n, "blue")

Overwritten ==
  /\ writer # Nothing
  /\ fleet' = [fleet EXCEPT ![writer.id] = writer.team]
  /\ writer' = Nothing
  /\ UNCHANGED <<requestVars, agentVars>>

-----------------------------------------------------------------------------
(* Gateway.handleCommand *)

Target(cmd) == issued[cmd].target
Dispatched == {c \in DOMAIN answer : answer[c] = "DISPATCHED"}

Request(h, target) ==
  /\ handler[h] = Free
  /\ Len(issued) < MaxCommands
  /\ issued' = Append(issued, [target |-> target, after |-> Dispatched])
  /\ IF target = NoName
       THEN answer' = Append(answer, "400") /\ UNCHANGED handler
       ELSE /\ answer' = Append(answer, "pending")
            /\ handler' = [handler EXCEPT ![h] = [Free EXCEPT !.pc = "lookup", !.cmd = Len(issued')]]
  /\ UNCHANGED <<tableVars, late, agentVars>>

\* Under fleetMu's read lock: a pointer to the entry, if there is one.
Lookup(h) ==
  /\ handler[h].pc = "lookup"
  /\ writer = Nothing
  /\ handler' = [handler EXCEPT ![h].pc = "check",
                                ![h].found = fleet[Target(handler[h].cmd)] # "none"]
  /\ UNCHANGED <<tableVars, issued, answer, late, agentVars>>

\* The entry's team is read without the lock.  While it is being written the
\* read gives the old string, the new one, or the address of one with the length
\* of the other, which equals neither.
TeamRead(n) ==
  {fleet[n]} \cup (IF writer.id = n THEN {writer.team, "torn"} ELSE {})

\* The name decides for a vehicle that was not in the table.
NamedBlue(n) ==
  /\ ~n.upper
  /\ n.prefix = "blue-" \/ (n.prefix = "" /\ n.base \in Callsigns)

Check(h) ==
  LET cmd == handler[h].cmd
      Pass(ok) == IF ok
        THEN handler' = [handler EXCEPT ![h].pc = "publish"] /\ UNCHANGED answer
        ELSE handler' = [handler EXCEPT ![h] = Free] /\ answer' = [answer EXCEPT ![cmd] = "403"]
  IN  /\ handler[h].pc = "check"
      /\ IF handler[h].found THEN \E team \in TeamRead(Target(cmd)) : Pass(team = "blue")
                             ELSE Pass(NamedBlue(Target(cmd)))
      /\ UNCHANGED <<tableVars, issued, late, agentVars>>

\* Mutation of CommandKey: the team follows from the target's name.
CommandKey_TeamOfName(target) ==
  BuildKey("tier2", "drone", IF target.prefix = "red-" THEN "red" ELSE "blue", target, "command")

CommandKey(target) == BuildKey("tier2", "drone", "blue", target, "command")

\* The selector an agent subscribes with.
CommandTopic(a) == BuildKey("tier2", a.type, a.team, a.id, "command")

\* The router puts a command on the event streams that match and are connected.
Route(cmd) ==
  LET To(a) == MatchesSelector(CommandTopic(a), CommandKey(Target(cmd))) IN
    /\ stream' = [a \in Agents |-> IF To(a) /\ a \in up THEN Append(stream[a], cmd) ELSE stream[a]]
    /\ lost' = [a \in Agents |-> IF To(a) /\ a \notin up THEN lost[a] \cup {cmd} ELSE lost[a]]
    /\ UNCHANGED <<up, executed>>

PublishOk(h) ==
  /\ handler[h].pc = "publish"
  /\ Route(handler[h].cmd)
  /\ answer' = [answer EXCEPT ![handler[h].cmd] = "DISPATCHED"]
  /\ handler' = [handler EXCEPT ![h] = Free]
  /\ UNCHANGED <<tableVars, issued, late>>

\* Mutation of PublishFail: the error is logged and the request answered as usual.
PublishFail_Unreported(h) ==
  /\ handler[h].pc = "publish"
  /\ late' = late \cup {handler[h].cmd}
  /\ answer' = [answer EXCEPT ![handler[h].cmd] = "DISPATCHED"]
  /\ handler' = [handler EXCEPT ![h] = Free]
  /\ UNCHANGED <<tableVars, issued, agentVars>>

\* The PUT fails or times out after 5 s; the router may have it, or get it later.
PublishFail(h) ==
  /\ handler[h].pc = "publish"
  /\ late' = late \cup {handler[h].cmd}
  /\ answer' = [answer EXCEPT ![handler[h].cmd] = "500"]
  /\ handler' = [handler EXCEPT ![h] = Free]
  /\ UNCHANGED <<tableVars, issued, agentVars>>

ArriveLate(cmd) ==
  /\ late' = late \ {cmd}
  /\ Route(cmd)
  /\ UNCHANGED <<tableVars, handler, issued, answer>>

-----------------------------------------------------------------------------
(* The edge agents *)

\* HandleCommand's check of the target; the MAVLink relay has none.
Heeds(a, target) ==
  \/ a.kind = "mavlink"
  \/ ToLower(target) = ToLower(a.id)
  \/ [ToLower(target) EXCEPT !.prefix = ""] = [ToLower(a.id) EXCEPT !.prefix = ""]

Handled(a, cmd) ==
  executed' = IF Heeds(a, Target(cmd)) THEN [executed EXCEPT ![a] = Append(@, cmd)] ELSE executed

\* Mutation of Deliver: each message is handled in a goroutine of its own, as
\* the in-memory bus does.
Deliver_AnyOrder(a) ==
  \E i \in 1..Len(stream[a]) :
    /\ Handled(a, stream[a][i])
    /\ stream' = [stream EXCEPT ![a] = RemoveAt(@, i)]
    /\ UNCHANGED <<tableVars, requestVars, up, lost>>

\* One event after the other: the reading loop calls the handler itself.
Deliver(a) ==
  /\ stream[a] # <<>>
  /\ Handled(a, Head(stream[a]))
  /\ stream' = [stream EXCEPT ![a] = Tail(@)]
  /\ UNCHANGED <<tableVars, requestVars, up, lost>>

\* The stream breaks with what is on it, and is opened again after a second.
StreamDrops(a) ==
  /\ a \in up
  /\ up' = up \ {a}
  /\ lost' = [lost EXCEPT ![a] = @ \cup ToSet(stream[a])]
  /\ stream' = [stream EXCEPT ![a] = <<>>]
  /\ UNCHANGED <<tableVars, requestVars, executed>>

StreamReturns(a) ==
  /\ a \notin up
  /\ up' = up \cup {a}
  /\ UNCHANGED <<tableVars, requestVars, stream, executed, lost>>

-----------------------------------------------------------------------------

Next ==
  \/ \E n \in Injected : InjectedTelemetry(n)
  \/ Overwritten
  \/ \E h \in Handlers :
       \/ \E target \in Targets : Request(h, target)
       \/ Lookup(h) \/ Check(h) \/ PublishOk(h) \/ PublishFail(h)
  \/ \E cmd \in late : ArriveLate(cmd)
  \/ \E a \in Agents : Telemetry(a) \/ Deliver(a) \/ StreamDrops(a) \/ StreamReturns(a)

Spec == Init /\ [][Next]_vars

\* Agents read their streams.
FairSpec == Spec /\ \A a \in Agents : WF_vars(Deliver(a))

-----------------------------------------------------------------------------

\* The variables hold what the code can store in them.
TypeOK ==
  /\ fleet \in [Names -> {"none", "blue", "red"}]
  /\ \A h \in Handlers : handler[h].pc \in {"free", "lookup", "check", "publish"}
  /\ DOMAIN answer = DOMAIN issued
  /\ up \subseteq Agents

(* Only blue drones execute an operator's commands, and only those that bear *)
(* their name.  The authorization alone does not ensure it: test telemetry   *)
(* injected for a red vehicle, or a read that races with the telemetry, can  *)
(* make its entry blue for a moment, and the fixed team in the command's key *)
(* has to make up for that.                                                  *)
ExecutesOwn ==
  \A a \in Agents : \A i \in 1..Len(executed[a]) :
    /\ a.team = "blue" /\ a.type = "drone"
    /\ ToLower(Target(executed[a][i])) = ToLower(a.id)

(* A vehicle executes a command at most once, and never executes one that    *)
(* was answered DISPATCHED after one that was only sent when that answer was *)
(* known: a HOVER that follows a RETURN_TO_BASE is the last word.  This holds*)
(* with late PUTs, which belong to commands reported as failed.              *)
CommandsInOrder ==
  \A a \in Agents : \A i, j \in 1..Len(executed[a]) :
    i < j => /\ executed[a][i] # executed[a][j]
             /\ executed[a][j] \notin issued[executed[a][i]].after

Addresses(cmd, a) ==
  a.team = "blue" /\ a.type = "drone" /\ ToLower(Target(cmd)) = ToLower(a.id)

(* The answer DISPATCHED is good for something at every moment: a command    *)
(* so answered whose target is the name of a blue drone, capitals or not, is *)
(* on that drone's event stream or was executed, unless the stream was down  *)
(* or went down with it.  No filter between the router and HandleCommand     *)
(* drops it.                                                                 *)
DispatchedIsKept ==
  \A c \in Dispatched : \A a \in Agents :
    Addresses(c, a) => c \in ToSet(executed[a]) \cup ToSet(stream[a]) \cup lost[a]

\* Nothing dispatched to a drone is still on its way there.
Arrived ==
  \A c \in Dispatched : \A a \in Agents :
    Addresses(c, a) => c \in ToSet(executed[a]) \cup lost[a]

(* A command answered DISPATCHED whose target is the name of a blue drone,   *)
(* however it is capitalised on either side, is executed by that drone,      *)
(* unless its event stream was down or went down with the command on it.     *)
(* (The number of commands is bounded, so the last one is reached.)          *)
DispatchedIsDelivered == <>[]Arrived

-----------------------------------------------------------------------------
(* What one might expect, and the code does not do *)

(* The answer DISPATCHED says that a vehicle got the command.  A callsign    *)
(* without its prefix, a vehicle of another type and a red vehicle shown as  *)
(* blue by an injection are answered so as well, and reach nobody.           *)
DispatchedHasAgent == \A c \in Dispatched : \E a \in Agents : Addresses(c, a)

(* A command reported as failed is not executed: a PUT that timed out may    *)
(* arrive, even after the operator's next command.                           *)
FailedIsNotExecuted ==
  \A a \in Agents : \A i \in 1..Len(executed[a]) : answer[executed[a][i]] # "500"
=============================================================================
