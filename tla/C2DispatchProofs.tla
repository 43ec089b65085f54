--------------------------- MODULE C2DispatchProofs ---------------------------
(***************************************************************************)
(* Proofs about C2Dispatch, for every set of agents, targets and injected    *)
(* names, every number of HTTP handlers and every number of commands.        *)
(***************************************************************************)
EXTENDS C2Dispatch, SequenceTheorems, TLAPS

Works == [pc : {"free", "lookup", "check", "publish"}, cmd : Nat, found : BOOLEAN]

\* What the variables hold that a command passes through.
DispatchType ==
  /\ handler \in [Handlers -> Works]
  /\ issued \in Seq([target : Targets, after : SUBSET Nat])
  /\ answer \in Seq({"pending", "400", "403", "500", "DISPATCHED"})
  /\ Len(answer) = Len(issued)
  /\ late \subseteq 1..Len(issued)
  /\ stream \in [Agents -> Seq(Nat)]
  /\ executed \in [Agents -> Seq(Nat)]

\* A handler at work has a command of its own that is not answered yet.
HandlerInv ==
  /\ \A h \in Handlers : handler[h] # Free =>
       handler[h].cmd \in 1..Len(issued) /\ answer[handler[h].cmd] = "pending"
  /\ \A g, h \in Handlers : handler[g] # Free /\ handler[h] # Free /\ handler[g].cmd = handler[h].cmd
                            => g = h

-----------------------------------------------------------------------------
(* Sequences *)

\* A sequence with one more element, by positions.
LEMMA AppendIndex ==
  ASSUME NEW S, NEW s \in Seq(S), NEW x \in S
  PROVE  /\ Append(s, x) \in Seq(S)
         /\ Len(s) \in Nat /\ Len(Append(s, x)) = Len(s) + 1
         /\ \A i \in 1..Len(s) : Append(s, x)[i] = s[i]
         /\ Append(s, x)[Len(s) + 1] = x
         /\ 1..Len(Append(s, x)) = 1..Len(s) \cup {Len(s) + 1}
OBVIOUS

\* What is left of a sequence, by positions.
LEMMA TailIndex ==
  ASSUME NEW S, NEW s \in Seq(S), s # <<>>
  PROVE  /\ Tail(s) \in Seq(S) /\ Head(s) \in S /\ Head(s) = s[1]
         /\ Len(s) \in Nat \ {0} /\ Len(Tail(s)) = Len(s) - 1
         /\ \A i \in 1..Len(Tail(s)) : i + 1 \in 1..Len(s) /\ Tail(s)[i] = s[i + 1]
OBVIOUS

-----------------------------------------------------------------------------
(* The steps, by what they do to requests *)

\* A handler's answer: its command is settled and the handler is free again.
Settles(h, reply) ==
  /\ answer' = [answer EXCEPT ![handler[h].cmd] = reply]
  /\ handler' = [handler EXCEPT ![h] = Free]
  /\ issued' = issued

\* A handler goes on with its command.
Proceeds(h) ==
  /\ handler[h].pc \in {"lookup", "check"}
  /\ handler' \in [Handlers -> Works]
  /\ handler'[h].pc \in {"check", "publish"}
  /\ handler'[h].cmd = handler[h].cmd
  /\ \A g \in Handlers \ {h} : handler'[g] = handler[g]
  /\ UNCHANGED <<issued, answer, late, agentVars>>

\* Every step of the specification is one of these.
StepKinds ==
  \/ UNCHANGED <<requestVars, agentVars>>
  \/ \E h \in Handlers, target \in Targets : Request(h, target)
  \/ \E h \in Handlers : Proceeds(h)
  \/ \E h \in Handlers : handler[h].pc = "check" /\ Settles(h, "403") /\ UNCHANGED <<late, agentVars>>
  \/ \E h \in Handlers : PublishOk(h) \/ PublishFail(h)
  \/ \E cmd \in late : ArriveLate(cmd)
  \/ \E a \in Agents : Deliver(a) \/ StreamDrops(a) \/ StreamReturns(a)

\* The lookup and the check of the team only decide whether a command goes on.
LEMMA Steps == DispatchType /\ [Next]_vars => StepKinds
<1> SUFFICES ASSUME DispatchType, [Next]_vars PROVE StepKinds
  OBVIOUS
<1>1. ASSUME NEW h \in Handlers, Lookup(h) PROVE Proceeds(h)
  <2>1. \A w \in Works, b \in BOOLEAN : [w EXCEPT !.pc = "check", !.found = b] \in Works
    BY DEF Works
  <2>2. \A w \in Works, b \in BOOLEAN : /\ [w EXCEPT !.pc = "check", !.found = b].cmd = w.cmd
                                        /\ [w EXCEPT !.pc = "check", !.found = b].pc = "check"
    BY DEF Works
  <2> DEFINE b == fleet[Target(handler[h].cmd)] # "none"
             w == [handler[h] EXCEPT !.pc = "check", !.found = b]
  <2>3. handler' = [handler EXCEPT ![h] = w]
    BY <1>1 DEF Lookup
  <2>4. handler[h] \in Works /\ b \in BOOLEAN
    BY DEF DispatchType
  <2>5. w \in Works /\ w.cmd = handler[h].cmd /\ w.pc = "check"
    BY <2>1, <2>2, <2>4
  <2> HIDE DEF w
  <2> QED BY <1>1, <2>3, <2>5 DEF Lookup, Proceeds, DispatchType
<1>2. ASSUME NEW h \in Handlers, Check(h)
      PROVE  Proceeds(h) \/ (handler[h].pc = "check" /\ Settles(h, "403") /\ UNCHANGED <<late, agentVars>>)
  <2>1. \/ handler' = [handler EXCEPT ![h].pc = "publish"] /\ UNCHANGED answer
        \/ handler' = [handler EXCEPT ![h] = Free] /\ answer' = [answer EXCEPT ![handler[h].cmd] = "403"]
    BY <1>2 DEF Check
  <2>2. handler[h].pc = "check" /\ UNCHANGED <<issued, late, agentVars>>
    BY <1>2 DEF Check
  <2>3. CASE handler' = [handler EXCEPT ![h].pc = "publish"] /\ UNCHANGED answer
    <3> DEFINE w == [handler[h] EXCEPT !.pc = "publish"]
    <3>1. handler[h] \in Works
      BY DEF DispatchType
    <3>2. w \in Works /\ w.cmd = handler[h].cmd /\ w.pc = "publish"
      BY <3>1 DEF Works
    <3>3. handler' = [handler EXCEPT ![h] = w]
      BY <2>3
    <3> HIDE DEF w
    <3> QED BY <2>2, <2>3, <3>2, <3>3 DEF Proceeds, DispatchType
  <2> QED BY <2>1, <2>2, <2>3 DEF Settles
<1>3. ASSUME NEW id, NEW team, Overwrite(id, team) PROVE UNCHANGED <<requestVars, agentVars>>
  BY <1>3 DEF Overwrite
<1>4. CASE Overwritten
  BY <1>4 DEF Overwritten, StepKinds
<1>5. CASE UNCHANGED vars
  BY <1>5 DEF vars, StepKinds
<1>6. CASE (\E n \in Injected : InjectedTelemetry(n)) \/ \E a \in Agents : Telemetry(a)
  BY <1>3, <1>6 DEF InjectedTelemetry, Telemetry, StepKinds
<1> QED BY <1>1, <1>2, <1>4, <1>5, <1>6 DEF Next, StepKinds

-----------------------------------------------------------------------------
(* Requests and their answers *)

\* A request is only followed by commands dispatched before it, and a command
\* that may arrive late was reported as failed.
AnswerInv ==
  /\ \A c \in late : answer[c] = "500"
  /\ \A i \in 1..Len(issued) : \A c \in issued[i].after :
       c \in 1..Len(answer) /\ answer[c] = "DISPATCHED"

RequestInv == DispatchType /\ HandlerInv /\ AnswerInv

\* An answer is given once, and what was asked for does not change.
AnswersLast ==
  /\ Len(issued) <= Len(issued')
  /\ \A i \in 1..Len(issued) : issued'[i] = issued[i]
  /\ \A i \in 1..Len(issued) : answer[i] # "pending" => answer'[i] = answer[i]

\* A free handler holds no command.
LEMMA FreeType == Free \in Works /\ Free.pc = "free"
BY DEF Free, Works

\* A handler with a new request.
LEMMA NewWork ==
  ASSUME NEW n \in Nat
  PROVE  LET w == [Free EXCEPT !.pc = "lookup", !.cmd = n] IN w \in Works /\ w.cmd = n
<1> DEFINE w == [Free EXCEPT !.pc = "lookup", !.cmd = n]
<1>1. w \in Works
  BY DEF Free, Works
<1>2. w.cmd = n
  BY DEF Free
<1> QED BY <1>1, <1>2

\* A request adds an entry and, unless it is refused at once, occupies a handler.
LEMMA RequestStep ==
  ASSUME RequestInv, NEW h \in Handlers, NEW target \in Targets, Request(h, target)
  PROVE  RequestInv' /\ AnswersLast
<1> USE DEF RequestInv
<1> DEFINE entry == [target |-> target, after |-> Dispatched]
           n == Len(issued) + 1
<1>1. /\ Len(issued) \in Nat /\ Len(answer) = Len(issued)
      /\ issued \in Seq([target : Targets, after : SUBSET Nat])
      /\ answer \in Seq({"pending", "400", "403", "500", "DISPATCHED"})
  BY DEF DispatchType
<1>2. \A c \in Dispatched : c \in 1..Len(answer) /\ answer[c] = "DISPATCHED"
  BY <1>1 DEF Dispatched
<1>3. entry \in [target : Targets, after : SUBSET Nat] /\ entry.after = Dispatched
  BY <1>1, <1>2
<1>4. issued' = Append(issued, entry) /\ UNCHANGED <<late, stream, executed>>
  BY DEF Request, agentVars
<1> HIDE DEF entry
<1>5. /\ issued' \in Seq([target : Targets, after : SUBSET Nat]) /\ Len(issued') = n
      /\ \A i \in 1..Len(issued) : issued'[i] = issued[i]
      /\ issued'[n] = entry
  BY <1>1, <1>3, <1>4
<1>6. ASSUME NEW r \in {"400", "pending"}, answer' = Append(answer, r)
      PROVE  /\ answer' \in Seq({"pending", "400", "403", "500", "DISPATCHED"})
             /\ Len(answer') = n /\ answer'[n] = r
             /\ \A i \in 1..Len(issued) : answer'[i] = answer[i]
             /\ AnswerInv' /\ AnswersLast
  <2>1. /\ answer' \in Seq({"pending", "400", "403", "500", "DISPATCHED"})
        /\ Len(answer') = n /\ answer'[n] = r
        /\ \A i \in 1..Len(issued) : answer'[i] = answer[i]
    BY <1>1, <1>6
  <2>2. AnswersLast
    BY <1>1, <1>5, <2>1 DEF AnswersLast
  <2>3. \A c \in late' : answer'[c] = "500"
    BY <1>4, <2>1 DEF AnswerInv, DispatchType
  <2>4. ASSUME NEW i \in 1..Len(issued'), NEW c \in issued'[i].after
        PROVE  c \in 1..Len(answer') /\ answer'[c] = "DISPATCHED"
    <3>1. c \in 1..Len(answer) /\ answer[c] = "DISPATCHED"
      <4>1. CASE i \in 1..Len(issued)
        BY <4>1, <2>4, <1>5 DEF AnswerInv
      <4>2. CASE i = n
        BY <4>2, <2>4, <1>2, <1>3, <1>5
      <4> QED BY <4>1, <4>2, <1>1, <1>5
    <3> QED BY <3>1, <1>1, <2>1
  <2> QED BY <2>1, <2>2, <2>3, <2>4 DEF AnswerInv
<1>7. late' \subseteq 1..Len(issued')
  BY <1>1, <1>4, <1>5 DEF DispatchType
<1>8. CASE target = NoName
  <2>1. answer' = Append(answer, "400") /\ handler' = handler
    BY <1>8 DEF Request
  <2>2. DispatchType'
    BY <1>4, <1>5, <1>6, <1>7, <2>1 DEF DispatchType
  <2>3. HandlerInv'
    BY <1>1, <1>5, <1>6, <2>1 DEF HandlerInv
  <2> QED BY <1>6, <2>1, <2>2, <2>3
<1>9. CASE target # NoName
  <2> DEFINE w == [Free EXCEPT !.pc = "lookup", !.cmd = n]
  <2>1. answer' = Append(answer, "pending") /\ handler' = [handler EXCEPT ![h] = w]
    BY <1>5, <1>9 DEF Request
  <2>2. w \in Works /\ w.cmd = n
    <3>1. n \in Nat
      BY <1>1
    <3> QED BY <3>1, NewWork
  <2> HIDE DEF w
  <2>3. handler' \in [Handlers -> Works] /\ handler'[h] = w
        /\ \A g \in Handlers \ {h} : handler'[g] = handler[g]
    BY <2>1, <2>2 DEF DispatchType
  <2>4. DispatchType'
    BY <1>4, <1>5, <1>6, <1>7, <2>1, <2>3 DEF DispatchType
  <2>5. HandlerInv'
    <3>1. \A g \in Handlers \ {h} : handler'[g] # Free =>
            handler'[g].cmd \in 1..Len(issued) /\ answer'[handler'[g].cmd] = "pending"
      BY <1>6, <2>1, <2>3 DEF HandlerInv
    <3>2. handler'[h].cmd = n /\ n \notin 1..Len(issued) /\ answer'[n] = "pending"
      BY <1>1, <1>6, <2>1, <2>2, <2>3
    <3>3. \A g \in Handlers : handler'[g] # Free =>
            handler'[g].cmd \in 1..Len(issued') /\ answer'[handler'[g].cmd] = "pending"
      BY <1>1, <1>5, <3>1, <3>2
    <3>4. \A f, g \in Handlers : handler'[f] # Free /\ handler'[g] # Free
                                 /\ handler'[f].cmd = handler'[g].cmd => f = g
      BY <2>3, <3>1, <3>2 DEF HandlerInv
    <3> QED BY <3>3, <3>4 DEF HandlerInv
  <2> QED BY <1>6, <2>1, <2>4, <2>5
<1> QED BY <1>8, <1>9

\* A handler that goes on changes nothing about its request.
LEMMA ProceedStep ==
  ASSUME RequestInv, NEW h \in Handlers, Proceeds(h)
  PROVE  RequestInv' /\ AnswersLast
<1> USE DEF RequestInv
<1>1. UNCHANGED <<issued, answer, late, stream, executed>>
  BY DEF Proceeds, agentVars
<1>2. handler[h] # Free
  BY FreeType DEF Proceeds
<1>3. DispatchType'
  BY <1>1 DEF DispatchType, Proceeds
<1>4. HandlerInv'
  <2>1. \A g \in Handlers : handler'[g].cmd = handler[g].cmd /\ (handler'[g] # Free => handler[g] # Free)
    BY <1>2 DEF Proceeds
  <2> QED BY <1>1, <2>1 DEF HandlerInv
<1>5. AnswerInv' /\ AnswersLast
  BY <1>1 DEF AnswerInv, AnswersLast, DispatchType
<1> QED BY <1>3, <1>4, <1>5

\* A handler's answer settles its command, and the handler is free.
LEMMA SettleStep ==
  ASSUME RequestInv, NEW h \in Handlers, handler[h] # Free,
         NEW reply \in {"403", "500", "DISPATCHED"}, Settles(h, reply),
         late' = late \cup (IF reply = "500" THEN {handler[h].cmd} ELSE {}),
         stream' \in [Agents -> Seq(Nat)], executed' \in [Agents -> Seq(Nat)]
  PROVE  /\ RequestInv' /\ AnswersLast
         /\ handler[h].cmd \in 1..Len(issued)
         /\ answer[handler[h].cmd] = "pending" /\ answer'[handler[h].cmd] = reply
<1> USE DEF RequestInv
<1> DEFINE cmd == handler[h].cmd
<1>1. /\ Len(issued) \in Nat /\ Len(answer) = Len(issued) /\ issued' = issued
      /\ answer \in Seq({"pending", "400", "403", "500", "DISPATCHED"})
      /\ cmd \in 1..Len(issued) /\ answer[cmd] = "pending"
  BY DEF DispatchType, HandlerInv, Settles
<1>2. answer' = [answer EXCEPT ![cmd] = reply] /\ handler' = [handler EXCEPT ![h] = Free]
  BY DEF Settles
<1>3. \A g \in Handlers : handler[g] # Free /\ g # h => handler[g].cmd # cmd
  BY DEF HandlerInv
<1> HIDE DEF cmd
<1>4. /\ answer' \in Seq({"pending", "400", "403", "500", "DISPATCHED"})
      /\ Len(answer') = Len(answer) /\ answer'[cmd] = reply
      /\ \A i \in 1..Len(issued) : i # cmd => answer'[i] = answer[i]
  BY <1>1, <1>2
<1>5. AnswersLast
  BY <1>1, <1>4 DEF AnswersLast
<1>6. handler' \in [Handlers -> Works] /\ handler'[h] = Free
      /\ \A g \in Handlers \ {h} : handler'[g] = handler[g]
  BY <1>2, FreeType DEF DispatchType
<1>7. late' \subseteq 1..Len(issued) /\ \A c \in late' : answer'[c] = "500"
  <2>1. \A c \in late : c \in 1..Len(issued) /\ answer[c] = "500"
    BY DEF DispatchType, AnswerInv
  <2>2. \A c \in late : c # cmd
    BY <2>1, <1>1
  <2> QED BY <1>1, <1>4, <2>1, <2>2 DEF cmd
<1>8. DispatchType'
  BY <1>1, <1>4, <1>6, <1>7 DEF DispatchType
<1>9. HandlerInv'
  <2>1. \A g \in Handlers : handler'[g] # Free => g # h /\ handler[g] # Free /\ handler'[g] = handler[g]
    BY <1>6
  <2>2. \A g \in Handlers : handler[g] # Free =>
          handler[g].cmd \in 1..Len(issued) /\ answer[handler[g].cmd] = "pending"
    BY DEF HandlerInv
  <2>3. ASSUME NEW g \in Handlers, handler'[g] # Free
        PROVE  handler'[g].cmd \in 1..Len(issued') /\ answer'[handler'[g].cmd] = "pending"
    BY <1>1, <1>3, <1>4, <2>1, <2>2, <2>3
  <2> QED BY <2>1, <2>3 DEF HandlerInv
<1>10. AnswerInv'
  BY <1>1, <1>4, <1>7 DEF AnswerInv
<1> QED BY <1>1, <1>4, <1>5, <1>8, <1>9, <1>10 DEF cmd

-----------------------------------------------------------------------------
(* The event streams *)

\* A command that a router can still put on a stream.
OnItsWay(cmd) ==
  /\ cmd \in 1..Len(issued)
  /\ answer[cmd] = "pending" \/ cmd \in late

\* The router puts cmd on the stream of agent a.
Gets(a, cmd) ==
  /\ MatchesSelector(CommandTopic(a), CommandKey(Target(cmd)))
  /\ stream'[a] = Append(stream[a], cmd)
  /\ executed'[a] = executed[a]

\* Whatever is routed, the streams and the histories stay sequences of commands.
LEMMA RouteType ==
  ASSUME DispatchType, NEW cmd \in Nat, Route(cmd)
  PROVE  /\ stream' \in [Agents -> Seq(Nat)] /\ executed' \in [Agents -> Seq(Nat)]
         /\ \A a \in Agents : Gets(a, cmd) \/ (stream'[a] = stream[a] /\ executed'[a] = executed[a])
<1>1. \A a \in Agents : Append(stream[a], cmd) \in Seq(Nat) /\ stream[a] \in Seq(Nat)
  BY DEF DispatchType
<1>2. executed' = executed
  BY DEF Route
<1>3. \A a \in Agents : \/ stream'[a] = stream[a]
                        \/ /\ stream'[a] = Append(stream[a], cmd)
                           /\ MatchesSelector(CommandTopic(a), CommandKey(Target(cmd)))
  BY DEF Route
<1>4. stream' \in [Agents -> Seq(Nat)]
  BY <1>1 DEF Route
<1> QED BY <1>2, <1>3, <1>4 DEF Gets, DispatchType

\* The head of a stream goes to the agent, which heeds it or does not.
Reads(a) ==
  /\ stream[a] # <<>>
  /\ stream'[a] = Tail(stream[a])
  /\ executed'[a] \in {executed[a], Append(executed[a], Head(stream[a]))}

\* Delivery and the loss of a stream, by what they do to an agent.
LEMMA AgentStep ==
  ASSUME DispatchType, NEW b \in Agents, Deliver(b) \/ StreamDrops(b) \/ StreamReturns(b)
  PROVE  /\ stream' \in [Agents -> Seq(Nat)] /\ executed' \in [Agents -> Seq(Nat)]
         /\ UNCHANGED requestVars
         /\ \A a \in Agents : \/ stream'[a] = stream[a] /\ executed'[a] = executed[a]
                              \/ stream'[a] = <<>> /\ executed'[a] = executed[a]
                              \/ Reads(a)
<1>1. CASE Deliver(b)
  <2>1. /\ stream[b] \in Seq(Nat) /\ executed[b] \in Seq(Nat) /\ stream[b] # <<>>
        /\ Head(stream[b]) \in Nat /\ Tail(stream[b]) \in Seq(Nat)
        /\ Append(executed[b], Head(stream[b])) \in Seq(Nat)
    BY <1>1 DEF Deliver, DispatchType
  <2>2. stream' = [stream EXCEPT ![b] = Tail(stream[b])]
    BY <1>1 DEF Deliver
  <2>3. \/ executed' = executed
        \/ executed' = [executed EXCEPT ![b] = Append(executed[b], Head(stream[b]))]
    BY <1>1 DEF Deliver, Handled
  <2>4. UNCHANGED requestVars
    BY <1>1 DEF Deliver
  <2>5. /\ stream' \in [Agents -> Seq(Nat)] /\ executed' \in [Agents -> Seq(Nat)]
    BY <2>1, <2>2, <2>3 DEF DispatchType
  <2>6. Reads(b) /\ \A a \in Agents \ {b} : stream'[a] = stream[a] /\ executed'[a] = executed[a]
    BY <2>1, <2>2, <2>3 DEF DispatchType, Reads
  <2> QED BY <2>4, <2>5, <2>6
<1>2. CASE StreamDrops(b)
  BY <1>2 DEF StreamDrops, DispatchType
<1>3. CASE StreamReturns(b)
  BY <1>3 DEF StreamReturns, DispatchType
<1> QED BY <1>1, <1>2, <1>3

\* What a step does to a request and to an agent's stream.
LEMMA Effects ==
  ASSUME RequestInv, [Next]_vars
  PROVE  /\ RequestInv' /\ AnswersLast
         /\ \A c \in late' : c \in late \/ answer[c] = "pending"
         /\ \A a \in Agents :
              \/ stream'[a] = stream[a] /\ executed'[a] = executed[a]
              \/ stream'[a] = <<>> /\ executed'[a] = executed[a]
              \/ Reads(a)
              \/ \E cmd \in Nat : /\ Gets(a, cmd) /\ OnItsWay(cmd)
                                  /\ answer'[cmd] \in {"DISPATCHED", "500"} /\ cmd \notin late'
<1> DEFINE Effect(a) ==
      \/ stream'[a] = stream[a] /\ executed'[a] = executed[a]
      \/ stream'[a] = <<>> /\ executed'[a] = executed[a]
      \/ Reads(a)
      \/ \E cmd \in Nat : /\ Gets(a, cmd) /\ OnItsWay(cmd)
                          /\ answer'[cmd] \in {"DISPATCHED", "500"} /\ cmd \notin late'
    LateStep == \A c \in late' : c \in late \/ answer[c] = "pending"
<1> SUFFICES RequestInv' /\ AnswersLast /\ LateStep /\ \A a \in Agents : Effect(a)
  OBVIOUS
<1>0. DispatchType /\ HandlerInv /\ AnswerInv
  BY DEF RequestInv
<1>1. ASSUME UNCHANGED requestVars, stream' \in [Agents -> Seq(Nat)], executed' \in [Agents -> Seq(Nat)]
      PROVE  RequestInv' /\ AnswersLast /\ LateStep
  <2>1. UNCHANGED <<handler, issued, answer, late>>
    BY <1>1 DEF requestVars
  <2> QED BY <1>0, <1>1, <2>1 DEF RequestInv, DispatchType, HandlerInv, AnswerInv, AnswersLast
<1>2. ASSUME UNCHANGED agentVars
      PROVE  /\ \A a \in Agents : Effect(a)
             /\ stream' \in [Agents -> Seq(Nat)] /\ executed' \in [Agents -> Seq(Nat)]
  BY <1>0, <1>2 DEF agentVars, DispatchType
<1>3. CASE UNCHANGED <<requestVars, agentVars>>
  BY <1>1, <1>2, <1>3
<1>4. ASSUME NEW h \in Handlers, NEW target \in Targets, Request(h, target)
      PROVE  RequestInv' /\ AnswersLast /\ LateStep /\ \A a \in Agents : Effect(a)
  BY <1>2, <1>4, RequestStep DEF Request
<1>5. ASSUME NEW h \in Handlers, Proceeds(h)
      PROVE  RequestInv' /\ AnswersLast /\ LateStep /\ \A a \in Agents : Effect(a)
  BY <1>2, <1>5, ProceedStep DEF Proceeds
<1>6. ASSUME NEW h \in Handlers, handler[h].pc = "check", Settles(h, "403"), UNCHANGED <<late, agentVars>>
      PROVE  RequestInv' /\ AnswersLast /\ LateStep /\ \A a \in Agents : Effect(a)
  <2>1. handler[h] # Free
    BY <1>6, FreeType
  <2>2. late' = late \cup (IF "403" = "500" THEN {handler[h].cmd} ELSE {})
    BY <1>6
  <2>3. RequestInv' /\ AnswersLast
    BY <1>2, <1>6, <2>1, <2>2, SettleStep
  <2> QED BY <1>2, <1>6, <2>3
<1>7. ASSUME NEW h \in Handlers, PublishFail(h)
      PROVE  RequestInv' /\ AnswersLast /\ LateStep /\ \A a \in Agents : Effect(a)
  <2>1. handler[h] # Free /\ Settles(h, "500") /\ UNCHANGED agentVars
    BY <1>7, FreeType DEF PublishFail, Settles
  <2>2. late' = late \cup (IF "500" = "500" THEN {handler[h].cmd} ELSE {})
    BY <1>7 DEF PublishFail
  <2>3. RequestInv' /\ AnswersLast /\ answer[handler[h].cmd] = "pending"
    BY <1>2, <2>1, <2>2, SettleStep
  <2> QED BY <1>2, <2>1, <2>2, <2>3
<1>8. ASSUME NEW h \in Handlers, PublishOk(h)
      PROVE  RequestInv' /\ AnswersLast /\ LateStep /\ \A a \in Agents : Effect(a)
  <2> DEFINE cmd == handler[h].cmd
  <2>1. handler[h] # Free /\ Settles(h, "DISPATCHED") /\ Route(cmd) /\ late' = late
    BY <1>8, FreeType DEF PublishOk, Settles
  <2>2. late' = late \cup (IF "DISPATCHED" = "500" THEN {cmd} ELSE {})
    BY <2>1
  <2>3. cmd \in 1..Len(issued) /\ answer[cmd] = "pending" /\ cmd \in Nat
    BY <1>0, <2>1 DEF HandlerInv, DispatchType
  <2>4. /\ stream' \in [Agents -> Seq(Nat)] /\ executed' \in [Agents -> Seq(Nat)]
        /\ \A a \in Agents : Gets(a, cmd) \/ (stream'[a] = stream[a] /\ executed'[a] = executed[a])
    BY <1>0, <2>1, <2>3, RouteType
  <2>5. RequestInv' /\ AnswersLast /\ answer'[cmd] = "DISPATCHED"
    BY <2>1, <2>2, <2>4, SettleStep
  <2>6. OnItsWay(cmd) /\ cmd \notin late'
    BY <1>0, <2>1, <2>3 DEF OnItsWay, AnswerInv
  <2> HIDE DEF cmd
  <2> QED BY <2>1, <2>3, <2>4, <2>5, <2>6
<1>9. ASSUME NEW cmd \in late, ArriveLate(cmd)
      PROVE  RequestInv' /\ AnswersLast /\ LateStep /\ \A a \in Agents : Effect(a)
  <2>1. UNCHANGED <<handler, issued, answer>> /\ late' = late \ {cmd} /\ Route(cmd)
    BY <1>9 DEF ArriveLate
  <2>2. cmd \in 1..Len(issued) /\ cmd \in Nat /\ answer[cmd] = "500"
    BY <1>0 DEF DispatchType, AnswerInv
  <2>3. /\ stream' \in [Agents -> Seq(Nat)] /\ executed' \in [Agents -> Seq(Nat)]
        /\ \A a \in Agents : Gets(a, cmd) \/ (stream'[a] = stream[a] /\ executed'[a] = executed[a])
    BY <1>0, <2>1, <2>2, RouteType
  <2>4. RequestInv' /\ AnswersLast /\ LateStep
    BY <1>0, <2>1, <2>3 DEF RequestInv, DispatchType, HandlerInv, AnswerInv, AnswersLast
  <2>5. OnItsWay(cmd) /\ cmd \notin late' /\ answer'[cmd] = "500"
    BY <2>1, <2>2 DEF OnItsWay
  <2> QED BY <2>2, <2>3, <2>4, <2>5
<1>10. ASSUME NEW b \in Agents, Deliver(b) \/ StreamDrops(b) \/ StreamReturns(b)
       PROVE  RequestInv' /\ AnswersLast /\ LateStep /\ \A a \in Agents : Effect(a)
  BY <1>0, <1>1, <1>10, AgentStep
<1> HIDE DEF Effect, LateStep
<1> QED BY <1>0, <1>3, <1>4, <1>5, <1>6, <1>7, <1>8, <1>9, <1>10, Steps DEF StepKinds

-----------------------------------------------------------------------------
(* The order of execution *)

\* A command the router has put on a stream: it will not do so again.
Routed(c) ==
  /\ c \in 1..Len(issued)
  /\ answer[c] \in {"DISPATCHED", "500"}
  /\ c \notin late

\* x may come before y on a vehicle.
Before(x, y) == x # y /\ y \notin issued[x].after

\* What agent a has executed, followed by what is on its stream, is in order.
PipeInv ==
  \A a \in Agents :
    /\ \A i \in 1..Len(executed[a]) : Routed(executed[a][i])
    /\ \A i \in 1..Len(stream[a]) : Routed(stream[a][i])
    /\ \A i, j \in 1..Len(executed[a]) : i < j => Before(executed[a][i], executed[a][j])
    /\ \A i \in 1..Len(executed[a]), j \in 1..Len(stream[a]) : Before(executed[a][i], stream[a][j])
    /\ \A i, j \in 1..Len(stream[a]) : i < j => Before(stream[a][i], stream[a][j])

\* What was routed stays so, and its request stays what it was.
LEMMA RoutedLasts ==
  ASSUME RequestInv, [Next]_vars
  PROVE  /\ \A c \in Nat : Routed(c) => Routed(c)'
         /\ \A x, y \in Nat : Routed(x) /\ Before(x, y) => Before(x, y)'
<1>1. AnswersLast /\ (\A c \in late' : c \in late \/ answer[c] = "pending") /\ RequestInv'
  BY Effects
<1>2. Len(issued) \in Nat /\ Len(issued') \in Nat
  BY <1>1 DEF RequestInv, DispatchType
<1> QED BY <1>1, <1>2 DEF AnswersLast, Routed, Before

\* A command on its way comes after everything that was routed.
LEMMA NewComesLast ==
  ASSUME RequestInv, NEW cmd \in Nat, OnItsWay(cmd), NEW x \in Nat, Routed(x)
  PROVE  Before(x, cmd)
<1>1. answer[cmd] # "DISPATCHED" /\ cmd # x
  BY DEF RequestInv, AnswerInv, OnItsWay, Routed
<1>2. cmd \notin issued[x].after
  BY <1>1 DEF RequestInv, AnswerInv, Routed
<1> QED BY <1>1, <1>2 DEF Before

\* Every step keeps what agents have executed and are yet to read in order.
LEMMA NextPipeInv == RequestInv /\ PipeInv /\ [Next]_vars => PipeInv'
<1> SUFFICES ASSUME RequestInv, PipeInv, [Next]_vars, NEW a \in Agents
             PROVE  /\ \A i \in 1..Len(executed'[a]) : Routed(executed[a][i])'
                    /\ \A i \in 1..Len(stream'[a]) : Routed(stream[a][i])'
                    /\ \A i, j \in 1..Len(executed'[a]) : i < j => Before(executed[a][i], executed[a][j])'
                    /\ \A i \in 1..Len(executed'[a]), j \in 1..Len(stream'[a]) :
                         Before(executed[a][i], stream[a][j])'
                    /\ \A i, j \in 1..Len(stream'[a]) : i < j => Before(stream[a][i], stream[a][j])'
  BY DEF PipeInv
<1> DEFINE e == executed[a]
           s == stream[a]
<1>1. e \in Seq(Nat) /\ s \in Seq(Nat)
  BY DEF RequestInv, DispatchType
<1>2. /\ Len(e) \in Nat /\ \A i \in 1..Len(e) : e[i] \in Nat
      /\ Len(s) \in Nat /\ \A i \in 1..Len(s) : s[i] \in Nat
  BY <1>1
<1>3. /\ \A i \in 1..Len(e) : Routed(e[i])
      /\ \A i \in 1..Len(s) : Routed(s[i])
      /\ \A i, j \in 1..Len(e) : i < j => Before(e[i], e[j])
      /\ \A i \in 1..Len(e), j \in 1..Len(s) : Before(e[i], s[j])
      /\ \A i, j \in 1..Len(s) : i < j => Before(s[i], s[j])
  BY DEF PipeInv
<1>4. /\ \A c \in Nat : Routed(c) => Routed(c)'
      /\ \A x, y \in Nat : Routed(x) /\ Before(x, y) => Before(x, y)'
  BY RoutedLasts
<1> HIDE DEF e, s
<1>5. ASSUME executed'[a] = e, stream'[a] = s \/ stream'[a] = <<>>
      PROVE  /\ \A i \in 1..Len(executed'[a]) : Routed(executed[a][i])'
             /\ \A i \in 1..Len(stream'[a]) : Routed(stream[a][i])'
             /\ \A i, j \in 1..Len(executed'[a]) : i < j => Before(executed[a][i], executed[a][j])'
             /\ \A i \in 1..Len(executed'[a]), j \in 1..Len(stream'[a]) :
                  Before(executed[a][i], stream[a][j])'
             /\ \A i, j \in 1..Len(stream'[a]) : i < j => Before(stream[a][i], stream[a][j])'
  <2>1. /\ \A i \in 1..Len(executed'[a]) : executed'[a][i] = e[i] /\ i \in 1..Len(e)
        /\ \A i \in 1..Len(stream'[a]) : stream'[a][i] = s[i] /\ i \in 1..Len(s)
    BY <1>5
  <2> QED BY <1>2, <1>3, <1>4, <2>1
<1>6. ASSUME Reads(a)
      PROVE  /\ \A i \in 1..Len(executed'[a]) : Routed(executed[a][i])'
             /\ \A i \in 1..Len(stream'[a]) : Routed(stream[a][i])'
             /\ \A i, j \in 1..Len(executed'[a]) : i < j => Before(executed[a][i], executed[a][j])'
             /\ \A i \in 1..Len(executed'[a]), j \in 1..Len(stream'[a]) :
                  Before(executed[a][i], stream[a][j])'
             /\ \A i, j \in 1..Len(stream'[a]) : i < j => Before(stream[a][i], stream[a][j])'
  <2>1. s # <<>> /\ stream'[a] = Tail(s) /\ executed'[a] \in {e, Append(e, Head(s))}
    BY <1>6 DEF Reads, e, s
  <2>2. /\ Head(s) = s[1] /\ 1 \in 1..Len(s)
        /\ \A i \in 1..Len(stream'[a]) : i + 1 \in 1..Len(s) /\ stream'[a][i] = s[i + 1]
    BY <1>1, <2>1, TailIndex
  <2>3. \A i \in 1..Len(executed'[a]) :
          \/ i \in 1..Len(e) /\ executed'[a][i] = e[i]
          \/ i = Len(e) + 1 /\ executed'[a][i] = s[1]
    <3>1. CASE executed'[a] = e
      BY <3>1
    <3>2. CASE executed'[a] = Append(e, Head(s))
      BY <1>1, <1>2, <2>2, <3>2, AppendIndex
    <3> QED BY <2>1, <3>1, <3>2
  <2>4. \A i \in 1..Len(executed'[a]) : Routed(executed[a][i])'
    BY <1>2, <1>3, <1>4, <2>2, <2>3
  <2>5. \A i \in 1..Len(stream'[a]) : Routed(stream[a][i])'
    BY <1>2, <1>3, <1>4, <2>2
  <2>6. ASSUME NEW i \in 1..Len(executed'[a]), NEW j \in 1..Len(executed'[a]), i < j
        PROVE  Before(executed[a][i], executed[a][j])'
    <3>1. i \in 1..Len(e) /\ executed'[a][i] = e[i]
      BY <1>2, <2>3, <2>6
    <3>2. Routed(e[i]) /\ Before(e[i], executed'[a][j]) /\ executed'[a][j] \in Nat
      BY <1>2, <1>3, <2>2, <2>3, <2>6, <3>1
    <3> QED BY <1>2, <1>4, <3>1, <3>2
  <2>7. ASSUME NEW i \in 1..Len(executed'[a]), NEW j \in 1..Len(stream'[a])
        PROVE  Before(executed[a][i], stream[a][j])'
    <3>1. j + 1 \in 1..Len(s) /\ stream'[a][j] = s[j + 1] /\ 1 < j + 1
      BY <2>2, <1>2
    <3>2. /\ Routed(executed'[a][i]) /\ Before(executed'[a][i], s[j + 1])
          /\ executed'[a][i] \in Nat
      <4>1. CASE i \in 1..Len(e) /\ executed'[a][i] = e[i]
        BY <1>2, <1>3, <3>1, <4>1
      <4>2. CASE executed'[a][i] = s[1]
        BY <1>2, <1>3, <2>2, <3>1, <4>2
      <4> QED BY <2>3, <4>1, <4>2
    <3> QED BY <1>2, <1>4, <3>1, <3>2
  <2>8. ASSUME NEW i \in 1..Len(stream'[a]), NEW j \in 1..Len(stream'[a]), i < j
        PROVE  Before(stream[a][i], stream[a][j])'
    <3>1. /\ i + 1 \in 1..Len(s) /\ stream'[a][i] = s[i + 1]
          /\ j + 1 \in 1..Len(s) /\ stream'[a][j] = s[j + 1]
      BY <2>2
    <3>2. Before(s[i + 1], s[j + 1]) /\ Routed(s[i + 1])
      <4>1. i + 1 < j + 1
        BY <2>8, <1>2
      <4> QED BY <1>3, <3>1, <4>1
    <3> QED BY <1>2, <1>4, <3>1, <3>2
  <2> QED BY <2>4, <2>5, <2>6, <2>7, <2>8
<1>7. ASSUME NEW cmd \in Nat, Gets(a, cmd), OnItsWay(cmd),
             answer'[cmd] \in {"DISPATCHED", "500"}, cmd \notin late'
      PROVE  /\ \A i \in 1..Len(executed'[a]) : Routed(executed[a][i])'
             /\ \A i \in 1..Len(stream'[a]) : Routed(stream[a][i])'
             /\ \A i, j \in 1..Len(executed'[a]) : i < j => Before(executed[a][i], executed[a][j])'
             /\ \A i \in 1..Len(executed'[a]), j \in 1..Len(stream'[a]) :
                  Before(executed[a][i], stream[a][j])'
             /\ \A i, j \in 1..Len(stream'[a]) : i < j => Before(stream[a][i], stream[a][j])'
  <2>1. stream'[a] = Append(s, cmd) /\ executed'[a] = e
    BY <1>7 DEF Gets, e, s
  <2>2. Routed(cmd)'
    <3>1. cmd \in 1..Len(issued')
      BY <1>7, Effects DEF OnItsWay, AnswersLast, RequestInv, DispatchType
    <3> QED BY <1>7, <3>1 DEF Routed
  <2>3. \A x \in Nat : Routed(x) => Before(x, cmd)
    BY <1>7, NewComesLast
  <2>4. \A i \in 1..Len(stream'[a]) :
          \/ i \in 1..Len(s) /\ stream'[a][i] = s[i]
          \/ i = Len(s) + 1 /\ stream'[a][i] = cmd
    BY <1>1, <1>2, <2>1, AppendIndex
  <2>5. \A i \in 1..Len(executed'[a]) : executed'[a][i] = e[i] /\ i \in 1..Len(e)
    BY <2>1
  <2>6. \A i \in 1..Len(executed'[a]) : Routed(executed[a][i])'
    BY <1>2, <1>3, <1>4, <2>5
  <2>7. \A i \in 1..Len(stream'[a]) : Routed(stream[a][i])'
    BY <1>2, <1>3, <1>4, <2>2, <2>4
  <2>8. \A i, j \in 1..Len(executed'[a]) : i < j => Before(executed[a][i], executed[a][j])'
    BY <1>2, <1>3, <1>4, <2>5
  <2>9. ASSUME NEW i \in 1..Len(executed'[a]), NEW j \in 1..Len(stream'[a])
        PROVE  Before(executed[a][i], stream[a][j])'
    <3>1. Routed(e[i]) /\ e[i] \in Nat /\ executed'[a][i] = e[i]
      BY <1>2, <1>3, <2>5
    <3>2. Before(e[i], stream'[a][j]) /\ stream'[a][j] \in Nat
      BY <1>2, <1>3, <2>3, <2>4, <2>5, <3>1
    <3> QED BY <1>4, <3>1, <3>2
  <2>10. ASSUME NEW i \in 1..Len(stream'[a]), NEW j \in 1..Len(stream'[a]), i < j
         PROVE  Before(stream[a][i], stream[a][j])'
    <3>1. i \in 1..Len(s) /\ stream'[a][i] = s[i] /\ Routed(s[i]) /\ s[i] \in Nat
      BY <1>2, <1>3, <2>4, <2>10
    <3>2. Before(s[i], stream'[a][j]) /\ stream'[a][j] \in Nat
      BY <1>2, <1>3, <2>3, <2>4, <2>10, <3>1
    <3> QED BY <1>4, <3>1, <3>2
  <2> QED BY <2>6, <2>7, <2>8, <2>9, <2>10
<1> QED BY <1>5, <1>6, <1>7, Effects DEF e, s

\* No request has been made at the start.
LEMMA InitRequestInv == Init => RequestInv /\ PipeInv
BY FreeType DEF Init, RequestInv, DispatchType, HandlerInv, AnswerInv, PipeInv

(* A vehicle executes a command at most once and never after a command that  *)
(* was only sent when its own answer was known, with any number of           *)
(* concurrent requests, PUTs that arrive after they were reported as failed, *)
(* and event streams that break and return.                                  *)
THEOREM DispatchCommandsInOrder == Spec => []CommandsInOrder
<1>1. PipeInv => CommandsInOrder
  BY DEF PipeInv, CommandsInOrder, Before
<1>2. RequestInv /\ [Next]_vars => RequestInv'
  BY Effects
<1> QED BY InitRequestInv, NextPipeInv, <1>1, <1>2, PTL DEF Spec

-----------------------------------------------------------------------------
(* Who executes a command *)

\* An agent's flags give a type, a team and a name, not the wildcards "*" and "**"
\* of the selector language, in which its subscription is written.
PlainFlags ==
  \A a \in Agents :
    /\ {a.type, a.team} \cap {"*", "**"} = {}
    /\ ToLower(a.id) \notin {Word("*"), Word("**")}

\* Parts of a key that are equal were written for equal words.
LEMMA WordInjective ==
  ASSUME NEW v, NEW w, Word(v) = Word(w)
  PROVE  v = w
<1>1. Word(v).base = v /\ Word(w).base = w
  BY DEF Word, Name
<1> QED BY <1>1

\* The key of a command matches the subscriptions of blue drones of that name only.
LEMMA MatchMeansOwn ==
  ASSUME PlainFlags, NEW a \in Agents, NEW target,
         MatchesSelector(CommandTopic(a), CommandKey(target))
  PROVE  a.team = "blue" /\ a.type = "drone" /\ ToLower(target) = ToLower(a.id)
<1> DEFINE topic == CommandTopic(a)
           key == CommandKey(target)
           wild == {i \in 1..Len(topic) : topic[i] = Word("**")}
<1>1. /\ Len(topic) = 6
      /\ topic[1] = Word("sec") /\ topic[2] = Word("tier2") /\ topic[3] = Word(a.type)
      /\ topic[4] = Word(a.team) /\ topic[5] = ToLower(a.id) /\ topic[6] = Word("command")
  BY DEF CommandTopic, BuildKey
<1>2. key[3] = Word("drone") /\ key[4] = Word("blue") /\ key[5] = ToLower(target)
  BY DEF CommandKey, BuildKey
<1>3. /\ Word("sec") # Word("**") /\ Word("tier2") # Word("**") /\ Word("command") # Word("**")
      /\ Word(a.type) # Word("**") /\ Word(a.team) # Word("**")
      /\ Word(a.type) # Word("*") /\ Word(a.team) # Word("*")
  <2>1. /\ "sec" # "**" /\ "tier2" # "**" /\ "command" # "**"
        /\ a.type # "**" /\ a.team # "**" /\ a.type # "*" /\ a.team # "*"
    BY DEF PlainFlags
  <2> QED BY <2>1, WordInjective
<1>4. ToLower(a.id) # Word("*") /\ ToLower(a.id) # Word("**")
  BY DEF PlainFlags
<1> HIDE DEF topic, key
<1>5. wild = {}
  <2> SUFFICES ASSUME NEW i \in 1..6, topic[i] = Word("**") PROVE FALSE
    BY <1>1
  <2>1. i = 1 \/ i = 2 \/ i = 3 \/ i = 4 \/ i = 5 \/ i = 6
    OBVIOUS
  <2> QED BY <2>1, <1>1, <1>3, <1>4
<1>6. \A i \in 1..6 : PartMatches(topic[i], key[i])
  BY <1>1, <1>5 DEF MatchesSelector, topic, key
<1>7. PartMatches(topic[3], key[3]) /\ PartMatches(topic[4], key[4]) /\ PartMatches(topic[5], key[5])
  BY <1>6
<1>8. Word(a.type) = Word("drone") /\ Word(a.team) = Word("blue") /\ ToLower(a.id) = ToLower(target)
  BY <1>1, <1>2, <1>3, <1>4, <1>7 DEF PartMatches
<1> QED BY <1>8, WordInjective

\* Command c was written for agent a.
Own(a, c) ==
  /\ c \in 1..Len(issued)
  /\ a.team = "blue" /\ a.type = "drone"
  /\ ToLower(Target(c)) = ToLower(a.id)

\* What an agent has executed and what is on its stream is its own.
OwnInv ==
  \A a \in Agents :
    /\ \A i \in 1..Len(executed[a]) : Own(a, executed[a][i])
    /\ \A i \in 1..Len(stream[a]) : Own(a, stream[a][i])

\* Every step keeps foreign commands away from an agent.
LEMMA NextOwnInv ==
  ASSUME PlainFlags, RequestInv, OwnInv, [Next]_vars
  PROVE  OwnInv'
<1> SUFFICES ASSUME NEW a \in Agents
             PROVE  /\ \A i \in 1..Len(executed'[a]) : Own(a, executed[a][i])'
                    /\ \A i \in 1..Len(stream'[a]) : Own(a, stream[a][i])'
  BY DEF OwnInv
<1> DEFINE e == executed[a]
           s == stream[a]
<1>1. e \in Seq(Nat) /\ s \in Seq(Nat)
  BY DEF RequestInv, DispatchType
<1>2. /\ Len(e) \in Nat /\ \A i \in 1..Len(e) : e[i] \in Nat
      /\ Len(s) \in Nat /\ \A i \in 1..Len(s) : s[i] \in Nat
  BY <1>1
<1>3. /\ \A i \in 1..Len(e) : Own(a, e[i])
      /\ \A i \in 1..Len(s) : Own(a, s[i])
  BY DEF OwnInv
<1>4. \A c \in Nat : Own(a, c) => Own(a, c)'
  <2>1. AnswersLast /\ Len(issued) \in Nat /\ Len(issued') \in Nat
    BY Effects DEF RequestInv, DispatchType
  <2> QED BY <2>1 DEF Own, Target, AnswersLast
<1> HIDE DEF e, s
<1>5. CASE executed'[a] = e /\ (stream'[a] = s \/ stream'[a] = <<>>)
  <2>1. /\ \A i \in 1..Len(executed'[a]) : executed'[a][i] = e[i] /\ i \in 1..Len(e)
        /\ \A i \in 1..Len(stream'[a]) : stream'[a][i] = s[i] /\ i \in 1..Len(s)
    BY <1>5
  <2> QED BY <1>2, <1>3, <1>4, <2>1
<1>6. CASE Reads(a)
  <2>1. s # <<>> /\ stream'[a] = Tail(s) /\ executed'[a] \in {e, Append(e, Head(s))}
    BY <1>6 DEF Reads, e, s
  <2>2. /\ Head(s) = s[1] /\ 1 \in 1..Len(s)
        /\ \A i \in 1..Len(stream'[a]) : i + 1 \in 1..Len(s) /\ stream'[a][i] = s[i + 1]
    BY <1>1, <2>1, TailIndex
  <2>3. \A i \in 1..Len(executed'[a]) :
          \/ i \in 1..Len(e) /\ executed'[a][i] = e[i]
          \/ executed'[a][i] = s[1]
    <3>1. CASE executed'[a] = e
      BY <3>1
    <3>2. CASE executed'[a] = Append(e, Head(s))
      BY <1>1, <1>2, <2>2, <3>2, AppendIndex
    <3> QED BY <2>1, <3>1, <3>2
  <2> QED BY <1>2, <1>3, <1>4, <2>2, <2>3
<1>7. ASSUME NEW cmd \in Nat, Gets(a, cmd), OnItsWay(cmd)
      PROVE  /\ \A i \in 1..Len(executed'[a]) : Own(a, executed[a][i])'
             /\ \A i \in 1..Len(stream'[a]) : Own(a, stream[a][i])'
  <2>1. stream'[a] = Append(s, cmd) /\ executed'[a] = e
    BY <1>7 DEF Gets, e, s
  <2>2. Own(a, cmd)
    BY <1>7, MatchMeansOwn DEF Gets, OnItsWay, Own
  <2>3. \A i \in 1..Len(stream'[a]) :
          \/ i \in 1..Len(s) /\ stream'[a][i] = s[i]
          \/ stream'[a][i] = cmd
    BY <1>1, <1>2, <2>1, AppendIndex
  <2>4. \A i \in 1..Len(executed'[a]) : executed'[a][i] = e[i] /\ i \in 1..Len(e)
    BY <2>1
  <2> QED BY <1>2, <1>3, <1>4, <2>2, <2>3, <2>4
<1> QED BY <1>5, <1>6, <1>7, Effects DEF e, s

(* Only a blue drone executes a command, and only one that bears its name,   *)
(* whatever the fleet table said when the gateway read it: test telemetry    *)
(* injected for any name and a read of the team that races with its write    *)
(* decide on the answer, not on who acts.                                    *)
THEOREM DispatchExecutesOwn ==
  ASSUME PlainFlags
  PROVE  Spec => []ExecutesOwn
<1>1. Init => OwnInv
  BY DEF Init, OwnInv
<1>2. RequestInv /\ [Next]_vars => RequestInv'
  BY Effects
<1>3. RequestInv /\ OwnInv /\ [Next]_vars => OwnInv'
  BY NextOwnInv
<1>4. OwnInv => ExecutesOwn
  BY DEF OwnInv, Own, ExecutesOwn
<1> QED BY InitRequestInv, <1>1, <1>2, <1>3, <1>4, PTL DEF Spec

-----------------------------------------------------------------------------
(* What was dispatched is kept *)

\* The key of a command matches the subscription of every blue drone of that name,
\* even one whose name is a wildcard.
LEMMA OwnMeansMatch ==
  ASSUME NEW a, NEW target, a.team = "blue", a.type = "drone", ToLower(target) = ToLower(a.id)
  PROVE  MatchesSelector(CommandTopic(a), CommandKey(target))
<1> DEFINE key == CommandKey(target)
           wild == {i \in 1..Len(key) : key[i] = Word("**")}
           upTo == IF wild = {} THEN Len(key) ELSE (CHOOSE i \in wild : \A j \in wild : i <= j) - 1
<1>1. CommandTopic(a) = key
  BY DEF CommandTopic, CommandKey, BuildKey
<1>2. /\ Len(key) = 6
      /\ key[1] = Word("sec") /\ key[2] = Word("tier2") /\ key[3] = Word("drone")
      /\ key[4] = Word("blue") /\ key[6] = Word("command")
  BY DEF CommandKey, BuildKey
<1>3. /\ Word("sec") # Word("**") /\ Word("tier2") # Word("**") /\ Word("drone") # Word("**")
      /\ Word("blue") # Word("**") /\ Word("command") # Word("**")
  <2>1. "sec" # "**" /\ "tier2" # "**" /\ "drone" # "**" /\ "blue" # "**" /\ "command" # "**"
    OBVIOUS
  <2> QED BY <2>1, WordInjective
<1> HIDE DEF key
<1>4. wild = {} \/ wild = {5}
  <2>1. \A i \in 1..6 : i = 1 \/ i = 2 \/ i = 3 \/ i = 4 \/ i = 5 \/ i = 6
    OBVIOUS
  <2> QED BY <1>2, <1>3, <2>1
<1>5. (upTo = 6 /\ wild = {}) \/ upTo = 4
  <2>1. CASE wild = {}
    BY <1>2, <2>1
  <2>2. CASE wild = {5}
    <3> HIDE DEF wild
    <3>1. (CHOOSE i \in wild : \A j \in wild : i <= j) = 5
      BY <2>2
    <3> QED BY <2>2, <3>1
  <2> QED BY <1>4, <2>1, <2>2
<1>6. \A i \in 1..upTo : PartMatches(key[i], key[i])
  BY DEF PartMatches
<1>7. /\ Len(key) >= upTo /\ (Len(key) = upTo => Len(key) <= upTo + 1)
      /\ (wild = {} => Len(key) = upTo)
  <2> HIDE DEF upTo
  <2> QED BY <1>2, <1>5 DEF upTo
<1>8. MatchesSelector(key, key)
  BY <1>6, <1>7 DEF MatchesSelector
<1> QED BY <1>1, <1>8 DEF key

\* What agent a has executed, has yet to read or has lost.
Holds(a) == ToSet(executed[a]) \cup ToSet(stream[a]) \cup lost[a]

KeptInv ==
  /\ DOMAIN lost = Agents
  /\ DispatchedIsKept

\* The elements of a sequence after an Append.
LEMMA SetOfAppend ==
  ASSUME NEW s \in Seq(Nat), NEW x \in Nat
  PROVE  ToSet(Append(s, x)) = ToSet(s) \cup {x}
<1>1. DOMAIN s = 1..Len(s) /\ DOMAIN Append(s, x) = 1..Len(Append(s, x))
  OBVIOUS
<1> QED BY <1>1, AppendIndex DEF ToSet

\* A Tail gives up the head and nothing else.
LEMMA SetOfTail ==
  ASSUME NEW s \in Seq(Nat), s # <<>>
  PROVE  ToSet(s) \subseteq {Head(s)} \cup ToSet(Tail(s))
<1>1. DOMAIN s = 1..Len(s) /\ DOMAIN Tail(s) = 1..Len(Tail(s))
  BY TailIndex
<1>2. ASSUME NEW i \in 1..Len(s), i # 1 PROVE s[i] \in ToSet(Tail(s))
  <2>1. i - 1 \in 1..Len(Tail(s)) /\ Tail(s)[i - 1] = s[(i - 1) + 1]
    BY <1>2, TailIndex
  <2>2. s[i] = Tail(s)[i - 1]
    BY <2>1
  <2> QED BY <1>1, <2>1, <2>2 DEF ToSet
<1> QED BY <1>1, <1>2, TailIndex DEF ToSet

\* An agent lets go of no command that is addressed to it.
LEMMA HoldsLast ==
  ASSUME RequestInv, KeptInv, [Next]_vars, NEW a \in Agents,
         NEW c \in 1..Len(issued), Addresses(c, a), c \in Holds(a)
  PROVE  c \in Holds(a)' /\ DOMAIN lost' = Agents
<1>0. /\ DispatchType /\ DOMAIN lost = Agents
      /\ executed[a] \in Seq(Nat) /\ stream[a] \in Seq(Nat) /\ Len(issued) \in Nat
  BY DEF RequestInv, DispatchType, KeptInv
<1>1. ASSUME UNCHANGED agentVars PROVE c \in Holds(a)' /\ DOMAIN lost' = Agents
  BY <1>0, <1>1 DEF agentVars, Holds
<1>2. ASSUME NEW cmd \in 1..Len(issued), Route(cmd) PROVE c \in Holds(a)' /\ DOMAIN lost' = Agents
  <2>1. /\ stream'[a] = stream[a] \/ stream'[a] = Append(stream[a], cmd)
        /\ lost'[a] = lost[a] \/ lost'[a] = lost[a] \cup {cmd}
        /\ executed' = executed /\ DOMAIN lost' = Agents
    BY <1>2 DEF Route
  <2>2. cmd \in Nat
    BY <1>0
  <2>3. ToSet(stream[a]) \subseteq ToSet(stream'[a])
    BY <1>0, <2>1, <2>2, SetOfAppend
  <2>4. lost[a] \subseteq lost'[a]
    BY <2>1
  <2> QED BY <2>1, <2>3, <2>4 DEF Holds
<1>3. ASSUME NEW b \in Agents, Deliver(b) PROVE c \in Holds(a)' /\ DOMAIN lost' = Agents
  <2>1. /\ lost' = lost /\ stream' = [stream EXCEPT ![b] = Tail(stream[b])]
        /\ stream[b] # <<>> /\ Handled(b, Head(stream[b]))
    BY <1>3 DEF Deliver
  <2>2. CASE b # a
    <3>1. stream'[a] = stream[a] /\ executed'[a] = executed[a]
      BY <1>0, <2>1, <2>2 DEF Handled, DispatchType
    <3> QED BY <1>0, <2>1, <3>1 DEF Holds
  <2>3. CASE b = a
    <3>1. stream'[a] = Tail(stream[a]) /\ ToSet(stream[a]) \subseteq {Head(stream[a])} \cup ToSet(Tail(stream[a]))
      BY <1>0, <2>1, <2>3, SetOfTail DEF DispatchType
    <3>2. Head(stream[a]) \in Nat
      BY <1>0, <2>1, <2>3
    <3>3. CASE Heeds(a, Target(Head(stream[a])))
      <4>1. executed'[a] = Append(executed[a], Head(stream[a]))
        BY <1>0, <2>1, <2>3, <3>3 DEF Handled, DispatchType
      <4>2. ToSet(executed'[a]) = ToSet(executed[a]) \cup {Head(stream[a])}
        BY <1>0, <3>2, <4>1, SetOfAppend
      <4> QED BY <1>0, <2>1, <3>1, <4>2 DEF Holds
    <3>4. CASE ~Heeds(a, Target(Head(stream[a])))
      <4>1. executed' = executed
        BY <2>1, <2>3, <3>4 DEF Handled
      <4>2. c # Head(stream[a])
        BY <3>4 DEF Addresses, Heeds
      <4> QED BY <1>0, <2>1, <3>1, <4>1, <4>2 DEF Holds
    <3> QED BY <3>3, <3>4
  <2> QED BY <2>2, <2>3
<1>4. ASSUME NEW b \in Agents, StreamDrops(b) PROVE c \in Holds(a)' /\ DOMAIN lost' = Agents
  <2>1. /\ lost' = [lost EXCEPT ![b] = lost[b] \cup ToSet(stream[b])]
        /\ stream' = [stream EXCEPT ![b] = <<>>] /\ executed' = executed
    BY <1>4 DEF StreamDrops
  <2>2. DOMAIN lost' = Agents
    BY <1>0, <2>1
  <2>3. CASE b # a
    BY <1>0, <2>1, <2>2, <2>3 DEF Holds, DispatchType
  <2>4. CASE b = a
    <3>1. lost'[a] = lost[a] \cup ToSet(stream[a])
      BY <1>0, <2>1, <2>4
    <3> QED BY <2>1, <2>2, <3>1 DEF Holds
  <2> QED BY <2>3, <2>4
<1>5. ASSUME NEW b \in Agents, StreamReturns(b) PROVE c \in Holds(a)' /\ DOMAIN lost' = Agents
  BY <1>0, <1>5 DEF StreamReturns, Holds
<1>6. ASSUME NEW h \in Handlers, PublishOk(h) PROVE c \in Holds(a)' /\ DOMAIN lost' = Agents
  <2>1. handler[h].cmd \in 1..Len(issued) /\ Route(handler[h].cmd)
    BY <1>6, FreeType DEF PublishOk, RequestInv, HandlerInv
  <2> QED BY <1>2, <2>1
<1>7. ASSUME NEW cmd \in late, ArriveLate(cmd) PROVE c \in Holds(a)' /\ DOMAIN lost' = Agents
  BY <1>0, <1>2, <1>7 DEF ArriveLate, DispatchType
<1>8. CASE \/ UNCHANGED <<requestVars, agentVars>>
           \/ \E h \in Handlers, target \in Targets : Request(h, target)
           \/ \E h \in Handlers : Proceeds(h) \/ PublishFail(h)
           \/ \E h \in Handlers : handler[h].pc = "check" /\ Settles(h, "403") /\ UNCHANGED <<late, agentVars>>
  BY <1>1, <1>8 DEF Request, Proceeds, PublishFail
<1> QED BY <1>0, <1>3, <1>4, <1>5, <1>6, <1>7, <1>8, Steps DEF StepKinds

\* Only a PUT that succeeds makes a command dispatched.
LEMMA NewlyDispatched ==
  ASSUME RequestInv, [Next]_vars, NEW c \in 1..Len(answer'), answer'[c] = "DISPATCHED"
  PROVE  \/ c \in 1..Len(issued) /\ answer[c] = "DISPATCHED"
         \/ \E h \in Handlers : PublishOk(h) /\ handler[h].cmd = c
<1>0. /\ DispatchType /\ HandlerInv /\ Len(answer) = Len(issued) /\ Len(answer) \in Nat
      /\ answer \in Seq({"pending", "400", "403", "500", "DISPATCHED"})
  BY DEF RequestInv, DispatchType
<1>1. ASSUME answer' = answer PROVE c \in 1..Len(issued) /\ answer[c] = "DISPATCHED"
  BY <1>0, <1>1
<1>2. ASSUME NEW h \in Handlers, handler[h].pc \in {"check", "publish"}, NEW reply,
             answer' = [answer EXCEPT ![handler[h].cmd] = reply]
      PROVE  c \in 1..Len(issued) /\ (answer[c] = "DISPATCHED" \/ (c = handler[h].cmd /\ reply = "DISPATCHED"))
  <2>1. handler[h].cmd \in 1..Len(answer)
    BY <1>0, <1>2, FreeType DEF HandlerInv
  <2> QED BY <1>0, <1>2, <2>1
<1>3. ASSUME NEW h \in Handlers, NEW target \in Targets, Request(h, target)
      PROVE  c \in 1..Len(issued) /\ answer[c] = "DISPATCHED"
  <2>1. PICK r \in {"400", "pending"} : answer' = Append(answer, r)
    BY <1>3 DEF Request
  <2>2. c \in 1..Len(answer) \cup {Len(answer) + 1}
    BY <1>0, <2>1, AppendIndex
  <2>3. r # "DISPATCHED"
    OBVIOUS
  <2>4. c # Len(answer) + 1
    BY <1>0, <2>1, <2>3, AppendIndex
  <2>5. c \in 1..Len(answer) /\ answer'[c] = answer[c]
    BY <1>0, <2>1, <2>2, <2>4, AppendIndex
  <2> QED BY <1>0, <2>5
<1>4. ASSUME NEW h \in Handlers, PublishOk(h)
      PROVE  (c \in 1..Len(issued) /\ answer[c] = "DISPATCHED") \/ handler[h].cmd = c
  BY <1>2, <1>4 DEF PublishOk
<1>5. ASSUME NEW h \in Handlers, PublishFail(h)
      PROVE  c \in 1..Len(issued) /\ answer[c] = "DISPATCHED"
  BY <1>2, <1>5 DEF PublishFail
<1>6. ASSUME NEW h \in Handlers, handler[h].pc = "check", Settles(h, "403")
      PROVE  c \in 1..Len(issued) /\ answer[c] = "DISPATCHED"
  BY <1>2, <1>6 DEF Settles
<1>7. CASE \/ UNCHANGED <<requestVars, agentVars>>
           \/ \E h \in Handlers : Proceeds(h)
           \/ \E cmd \in late : ArriveLate(cmd)
           \/ \E b \in Agents : Deliver(b) \/ StreamDrops(b) \/ StreamReturns(b)
  BY <1>1, <1>7 DEF requestVars, Proceeds, ArriveLate, Deliver, StreamDrops, StreamReturns
<1> QED BY <1>0, <1>3, <1>4, <1>5, <1>6, <1>7, Steps DEF StepKinds

\* The losses of every agent are recorded at every step.
LEMMA LostDomain ==
  ASSUME RequestInv, DOMAIN lost = Agents, [Next]_vars
  PROVE  DOMAIN lost' = Agents
<1>1. StepKinds
  BY Steps DEF RequestInv
<1>2. ASSUME NEW cmd, Route(cmd) PROVE DOMAIN lost' = Agents
  BY <1>2 DEF Route
<1>3. CASE (\E h \in Handlers : PublishOk(h)) \/ (\E cmd \in late : ArriveLate(cmd))
  BY <1>2, <1>3 DEF PublishOk, ArriveLate
<1>4. CASE \E b \in Agents : Deliver(b) \/ StreamDrops(b) \/ StreamReturns(b)
  BY <1>4 DEF Deliver, StreamDrops, StreamReturns
<1>5. CASE \/ UNCHANGED <<requestVars, agentVars>>
           \/ \E h \in Handlers, target \in Targets : Request(h, target)
           \/ \E h \in Handlers : Proceeds(h) \/ PublishFail(h)
           \/ \E h \in Handlers : handler[h].pc = "check" /\ Settles(h, "403") /\ UNCHANGED <<late, agentVars>>
  BY <1>5 DEF agentVars, Request, Proceeds, PublishFail
<1> QED BY <1>1, <1>3, <1>4, <1>5 DEF StepKinds

\* A successful PUT puts the command on the drone's stream, or the drone's stream
\* is down and the command lost; after that the drone holds on to it.
LEMMA NextKeptInv == RequestInv /\ KeptInv /\ [Next]_vars => KeptInv'
<1> SUFFICES ASSUME RequestInv, KeptInv, [Next]_vars PROVE KeptInv'
  OBVIOUS
<1>0. /\ DispatchType /\ HandlerInv /\ DispatchType' /\ AnswersLast
      /\ Len(issued) \in Nat /\ Len(answer) = Len(issued)
      /\ DOMAIN answer = 1..Len(answer) /\ DOMAIN answer' = 1..Len(answer')
  <2>1. RequestInv' /\ AnswersLast
    BY Effects
  <2> QED BY <2>1 DEF RequestInv, DispatchType
<1>1. DOMAIN lost' = Agents
  BY LostDomain DEF KeptInv
<1>2. ASSUME NEW c \in 1..Len(answer'), answer'[c] = "DISPATCHED", NEW a \in Agents, Addresses(c, a)'
      PROVE  c \in Holds(a)'
  <2>1. CASE c \in 1..Len(issued) /\ answer[c] = "DISPATCHED"
    <3>1. issued'[c] = issued[c]
      BY <1>0, <2>1 DEF AnswersLast
    <3>2. Addresses(c, a)
      BY <1>2, <3>1 DEF Addresses, Target
    <3>3. c \in Holds(a)
      BY <1>0, <2>1, <3>2 DEF KeptInv, DispatchedIsKept, Dispatched, Holds
    <3> QED BY <2>1, <3>2, <3>3, HoldsLast
  <2>2. ASSUME NEW h \in Handlers, PublishOk(h), handler[h].cmd = c PROVE c \in Holds(a)'
    <3>1. c \in Nat /\ stream[a] \in Seq(Nat) /\ Route(c) /\ issued' = issued
      BY <1>0, <2>2 DEF PublishOk, DispatchType, Works
    <3>2. a.team = "blue" /\ a.type = "drone" /\ ToLower(Target(c)) = ToLower(a.id)
      BY <1>2, <3>1 DEF Addresses, Target
    <3>3. MatchesSelector(CommandTopic(a), CommandKey(Target(c)))
      BY <3>2, OwnMeansMatch
    <3>4. CASE a \in up
      <4>1. stream'[a] = Append(stream[a], c)
        BY <3>1, <3>3, <3>4 DEF Route
      <4>2. c \in ToSet(stream'[a])
        BY <3>1, <4>1, SetOfAppend
      <4> QED BY <4>2 DEF Holds
    <3>5. CASE a \notin up
      <4>1. c \in lost'[a]
        BY <3>1, <3>3, <3>5 DEF Route
      <4> QED BY <4>1 DEF Holds
    <3> QED BY <3>4, <3>5
  <2> QED BY <1>2, <2>1, <2>2, NewlyDispatched
<1>3. DispatchedIsKept'
  BY <1>0, <1>2 DEF DispatchedIsKept, Dispatched, Holds
<1> QED BY <1>1, <1>3 DEF KeptInv

(* A command answered DISPATCHED that bears the name of a blue drone is on   *)
(* that drone's stream, executed, or lost with the stream, whatever the      *)
(* other handlers, the late PUTs and the streams do: no selector and no      *)
(* check of the agent rejects what the gateway has accepted.                 *)
THEOREM DispatchKeepsDispatched == Spec => []DispatchedIsKept
<1>1. Init => KeptInv
  BY DEF Init, KeptInv, DispatchedIsKept, Dispatched
<1>2. RequestInv /\ [Next]_vars => RequestInv'
  BY Effects
<1>3. KeptInv => DispatchedIsKept
  BY DEF KeptInv
<1> QED BY InitRequestInv, NextKeptInv, <1>1, <1>2, <1>3, PTL DEF Spec

=============================================================================
