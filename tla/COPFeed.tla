------------------------------- MODULE COPFeed -------------------------------
(***************************************************************************)
(* One vehicle on one dashboard (handleIncomingTelemetry in web/app.js): the *)
(* freshness guard that drops stale packets, against a feed whose sequence   *)
(* numbers can restart, arrive out of order, be lost, or be jumped by the    *)
(* gateway's test injection.  Nothing in the code says how late a packet may *)
(* come: MaxOvertake bounds it within a run of the agent and may be as large *)
(* as one likes, and a packet of an earlier run may come at any time.        *)
(*                                                                           *)
(* Time advances in seconds, one packet sent per second (the default rate).  *)
(* A packet is [run |-> r, n |-> sequence], r counting the agent's restarts. *)
(***************************************************************************)
EXTENDS Integers

CONSTANTS
  RestartGap,    \* 50: how far behind a sequence must be to look like a restart
  RestartQuiet,  \* 10 s: how long the vehicle must not have been updated
  MaxOvertake,   \* bound: how many later packets of its run can overtake one
  MaxSequence,   \* bound: packets per run of the agent
  MaxRestarts,   \* bound: restarts of the agent
  MaxInjects     \* bound: injected packets

ASSUME FeedAssumption ==
  /\ {RestartGap, RestartQuiet, MaxOvertake, MaxSequence} \subseteq Nat
  /\ {MaxRestarts, MaxInjects} \subseteq Nat

VARIABLES
  run,       \* restarts of the agent so far
  sequence,  \* v.sequence of the agent
  sentNow,   \* whether this second's packet has been sent
  inflight,  \* packets between the agent and the dashboard
  shown,     \* existing.telemetry, None before the first packet
  age,       \* seconds since existing.lastUpdate, saturating
  injects,   \* injected packets so far
  frozen     \* history: packets of this run dropped since the last one shown

vars == <<run, sequence, sentNow, inflight, shown, age, injects, frozen>>

-----------------------------------------------------------------------------

None == [run |-> -1, n |-> 0]

\* The sequence number of an injected packet is a clock reading in
\* nanoseconds, far beyond that of any agent and of any earlier reading.
InjectRun == -2
InjectedSequence(k) == (10 + k) * (MaxSequence + RestartGap + 1)

Init ==
  /\ run = 0
  /\ sequence = 0
  /\ sentNow = FALSE
  /\ inflight = {}
  /\ shown = None
  /\ age = 0
  /\ injects = 0
  /\ frozen = 0

-----------------------------------------------------------------------------
(* The feed *)

\* Step and Publish of the agent; no packet is overtaken by too many.
Send ==
  /\ ~sentNow
  /\ sequence < MaxSequence
  /\ \A p \in inflight : p.run = run => sequence + 1 - p.n <= MaxOvertake
  /\ sequence' = sequence + 1
  /\ sentNow' = TRUE
  /\ inflight' = inflight \cup {[run |-> run, n |-> sequence + 1]}
  /\ UNCHANGED <<run, shown, age, injects, frozen>>

\* A new process: NewVehicleSim starts counting from zero.  What the old one
\* sent is still on its way.
Restart ==
  /\ run < MaxRestarts
  /\ run' = run + 1
  /\ sequence' = 0
  /\ frozen' = 0
  /\ UNCHANGED <<sentNow, inflight, shown, age, injects>>

\* handleInject for this vehicle.
Inject ==
  /\ injects < MaxInjects
  /\ injects' = injects + 1
  /\ inflight' = inflight \cup {[run |-> InjectRun, n |-> InjectedSequence(injects)]}
  /\ UNCHANGED <<run, sequence, sentNow, shown, age, frozen>>

Lose(p) ==
  /\ p \in inflight
  /\ inflight' = inflight \ {p}
  /\ UNCHANGED <<run, sequence, sentNow, shown, age, injects, frozen>>

\* A second passes; this second's packet has left the agent.
Second ==
  /\ sentNow
  /\ sentNow' = FALSE
  /\ age' = IF age > RestartQuiet THEN age ELSE age + 1
  /\ UNCHANGED <<run, sequence, inflight, shown, injects, frozen>>

-----------------------------------------------------------------------------
(* handleIncomingTelemetry *)

IsStale(p) == p.n <= shown.n

\* Mutation of IsRestart: a sequence that starts again is not recognised.
IsRestart_Never(p) == FALSE

IsRestart(p) == shown.n - p.n > RestartGap /\ age > RestartQuiet

Drops(p) == shown # None /\ IsStale(p) /\ ~IsRestart(p)

Drop(p) ==
  /\ p \in inflight
  /\ Drops(p)
  /\ inflight' = inflight \ {p}
  /\ frozen' = IF p.run = run THEN frozen + 1 ELSE frozen
  /\ UNCHANGED <<run, sequence, sentNow, shown, age, injects>>

\* Store the packet and the time, and redraw.
Show(p) ==
  /\ p \in inflight
  /\ ~Drops(p)
  /\ inflight' = inflight \ {p}
  /\ shown' = p
  /\ age' = 0
  /\ frozen' = 0
  /\ UNCHANGED <<run, sequence, sentNow, injects>>

Next ==
  \/ Send \/ Restart \/ Inject \/ Second
  \/ \E p \in inflight : Lose(p) \/ Drop(p) \/ Show(p)

Spec == Init /\ [][Next]_vars

-----------------------------------------------------------------------------

(* The variables hold what agent and dashboard can store in them, and no     *)
(* more packets are dropped in a freeze than the agent has sent.             *)
TypeOK ==
  /\ run \in 0..MaxRestarts
  /\ sequence \in 0..MaxSequence
  /\ sentNow \in BOOLEAN
  /\ age \in 0..(RestartQuiet + 1)
  /\ injects \in 0..MaxInjects
  /\ frozen \in 0..MaxSequence

(* The guard freezes a vehicle for a bounded time: after a restart of the    *)
(* agent, a late packet of an earlier run or an injected one with a huge     *)
(* sequence number, the packets it drops before it draws the vehicle again   *)
(* are at most those that were already on their way, those of the quiet      *)
(* period, and those of the gap that does not count as a restart.            *)
FreezeIsBounded == frozen <= (MaxOvertake + 1) + (RestartQuiet + 1) + (RestartGap + 1)

-----------------------------------------------------------------------------
(* What a comment says, and the code does not do *)

\* p was sent by the agent after q.
Newer(p, q) == p.run > q.run \/ (p.run = q.run /\ p.n > q.n)

(* The comment on the guard: out-of-order and historical packets are dropped *)
(* "so vehicle markers don't jump backward".  One that is RestartGap behind  *)
(* after RestartQuiet without news is taken for a restart and drawn, and so  *)
(* is one of an earlier run whose number is larger.  (Injected packets,      *)
(* which are of no run, are left aside.)                                     *)
NeverBackwards ==
  [][InjectRun \notin {shown.run, shown'.run} /\ shown' # shown => Newer(shown', shown)]_vars
=============================================================================
