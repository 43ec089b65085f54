---------------------------- MODULE COPFeedProofs ----------------------------
(***************************************************************************)
(* Proofs about COPFeed for every pair of thresholds, so for the 50 packets  *)
(* and 10 s of web/app.js, for any lateness of the packets, and for any      *)
(* number of packets, restarts and injections.                               *)
(***************************************************************************)
EXTENDS COPFeed, FiniteSetTheorems, TLAPS

\* A packet of the agent's present run that can still arrive.
Own(p) ==
  /\ p.run = run
  /\ p.n \in 1..sequence
  /\ sequence - p.n <= MaxOvertake

\* A packet of an earlier run, which can arrive at any time.
Earlier(p) == p.run \in 0..(run - 1)

\* An injected packet: far ahead of every sequence number of an agent.
Injected(p) ==
  /\ p.run = InjectRun
  /\ p.n \in Nat
  /\ p.n > MaxSequence + RestartGap

\* What is on its way and what is shown.
FeedInv ==
  /\ run \in Nat
  /\ sequence \in 0..MaxSequence
  /\ sentNow \in BOOLEAN
  /\ age \in 0..(RestartQuiet + 1)
  /\ injects \in Nat
  /\ frozen \in Nat
  /\ inflight \subseteq [run : Int, n : Nat]
  /\ \A p \in inflight : Own(p) \/ Earlier(p) \/ Injected(p)
  /\ shown \in [run : Int, n : Nat]
  /\ \/ shown = None
     \/ shown.run = run /\ shown.n <= sequence
     \/ Earlier(shown)
     \/ Injected(shown)

\* The thresholds are natural numbers.
LEMMA Numbers ==
  /\ RestartGap \in Nat /\ RestartQuiet \in Nat /\ MaxOvertake \in Nat /\ MaxSequence \in Nat
  /\ MaxRestarts \in Nat /\ MaxInjects \in Nat
BY FeedAssumption

\* An injected packet's number is beyond those of the agent.
LEMMA InjectedIsFar ==
  ASSUME NEW k \in Nat
  PROVE  InjectedSequence(k) \in Nat /\ InjectedSequence(k) > MaxSequence + RestartGap
<1> DEFINE u == MaxSequence + RestartGap + 1
<1>1. u \in Nat
  BY Numbers
<1> HIDE DEF u
<1>2. k * u \in Nat
  BY <1>1
<1>3. (10 + k) * u = 10 * u + k * u
  BY <1>1
<1>4. (10 + k) * u \in Nat /\ (10 + k) * u >= u
  BY <1>1, <1>2, <1>3
<1> QED BY <1>4, Numbers DEF InjectedSequence, u

\* Every step keeps what is on its way and what is shown apart by their numbers.
LEMMA NextFeedInv == FeedInv /\ [Next]_vars => FeedInv'
<1> SUFFICES ASSUME FeedInv, [Next]_vars PROVE FeedInv'
  OBVIOUS
<1> USE Numbers DEF FeedInv, Own, Earlier, Injected, InjectRun
<1>1. CASE Send
  <2>1. [run |-> run, n |-> sequence + 1] \in [run : Int, n : Nat]
    OBVIOUS
  <2> DEFINE new == [run |-> run, n |-> sequence + 1]
  <2>2. new.run = run /\ new.n = sequence + 1
    OBVIOUS
  <2>3. inflight' = inflight \cup {new} /\ sequence' = sequence + 1 /\ run' = run
    BY <1>1 DEF Send
  <2> HIDE DEF new
  <2>4. \A p \in inflight' : Own(p)' \/ Earlier(p)' \/ Injected(p)'
    BY <1>1, <2>2, <2>3 DEF Send
  <2>5. inflight' \subseteq [run : Int, n : Nat]
    BY <2>1, <2>3 DEF new
  <2> QED BY <1>1, <2>3, <2>4, <2>5 DEF Send
<1>2. CASE Restart
  <2>1. \A p \in inflight' : Earlier(p)' \/ Injected(p)'
    BY <1>2 DEF Restart
  <2> QED BY <1>2, <2>1 DEF Restart
<1>3. CASE Inject
  <2> DEFINE new == [run |-> InjectRun, n |-> InjectedSequence(injects)]
  <2>1. new \in [run : Int, n : Nat] /\ Injected(new)
    BY InjectedIsFar
  <2>2. inflight' = inflight \cup {new}
    BY <1>3 DEF Inject
  <2> HIDE DEF new
  <2> QED BY <1>3, <2>1, <2>2 DEF Inject
<1>4. CASE Second
  <2>1. age' \in 0..(RestartQuiet + 1)
    BY <1>4 DEF Second
  <2>2. sentNow' = FALSE /\ UNCHANGED <<run, sequence, inflight, shown, injects, frozen>>
    BY <1>4 DEF Second
  <2> QED BY <2>1, <2>2
<1>5. ASSUME NEW p \in inflight, Lose(p) \/ Drop(p) PROVE FeedInv'
  BY <1>5 DEF Lose, Drop
<1>6. ASSUME NEW p \in inflight, Show(p) PROVE FeedInv'
  BY <1>6 DEF Show
<1>7. CASE UNCHANGED vars
  BY <1>7 DEF vars
<1> QED BY <1>1, <1>2, <1>3, <1>4, <1>5, <1>6, <1>7 DEF Next

\* Nothing is on its way at the start.
LEMMA InitFeedInv == Init => FeedInv
<1>1. None \in [run : Int, n : Nat]
  BY DEF None
<1>2. 0 \in 0..MaxSequence /\ 0 \in 0..(RestartQuiet + 1) /\ 0 \in Nat
  BY Numbers
<1>3. Init => /\ run \in Nat /\ sequence \in 0..MaxSequence /\ sentNow \in BOOLEAN
              /\ age \in 0..(RestartQuiet + 1) /\ injects \in Nat /\ frozen \in Nat
              /\ inflight = {} /\ shown = None
  BY <1>2, Zenon DEF Init
<1> QED BY <1>1, <1>3, Zenon DEF FeedInv

-----------------------------------------------------------------------------
(* How long the guard can freeze a vehicle *)

\* The numbers of the present run's packets on their way.
Mine == {n \in 1..sequence : [run |-> run, n |-> n] \in inflight}

\* Those the guard can still drop when a packet of the present run is shown.
Overtaken == {n \in Mine : n <= shown.n}

\* Those, sent or not, that it can still drop after the quiet period: they are
\* not far enough behind the packet of an earlier run that is shown.
Near == {n \in 0..shown.n : shown.n - n <= RestartGap /\ (n > sequence \/ n \in Mine)}

Sent == IF sentNow THEN 1 ELSE 0

(* What was dropped and what still can be is bounded, by where the shown     *)
(* packet is from.  One of this run: by how many it can have overtaken.  One *)
(* of another run or an injected one: by those on their way when it came and *)
(* the seconds of the quiet period; after that an injected one is too far    *)
(* ahead to hold back anything, one of an earlier run only the numbers near  *)
(* its own.                                                                  *)
FreezeInv ==
  /\ shown = None => frozen = 0
  /\ shown.run = run => frozen + Cardinality(Overtaken) <= MaxOvertake
  /\ Earlier(shown) =>
       /\ age <= RestartQuiet => frozen + Cardinality(Mine) <= MaxOvertake + 1 + age + Sent
       /\ age > RestartQuiet =>
            frozen + Cardinality(Near) <= MaxOvertake + RestartQuiet + RestartGap + 3
  /\ shown.run = InjectRun =>
       /\ age <= RestartQuiet => frozen + Cardinality(Mine) <= MaxOvertake + 1 + age + Sent
       /\ age > RestartQuiet => frozen <= MaxOvertake + RestartQuiet + 2

\* A set of numbers within an interval is no larger than it.
LEMMA Within ==
  ASSUME NEW a \in Int, NEW b \in Int, NEW k \in Nat, b - a < k, NEW S, S \subseteq a..b
  PROVE  IsFiniteSet(S) /\ Cardinality(S) \in Nat /\ Cardinality(S) <= k
<1>1. IsFiniteSet(a..b) /\ Cardinality(a..b) = IF a > b THEN 0 ELSE (b - a) + 1
  BY FS_Interval
<1>2. IsFiniteSet(S) /\ Cardinality(S) <= Cardinality(a..b)
  BY <1>1, FS_Subset
<1>3. Cardinality(S) \in Nat
  BY <1>2, FS_CardinalityType
<1>4. Cardinality(a..b) <= k /\ Cardinality(a..b) \in Nat
  BY <1>1
<1> QED BY <1>2, <1>3, <1>4

\* Taking an element out of a finite set, and putting one in.
LEMMA TakeOut ==
  ASSUME NEW S, IsFiniteSet(S), NEW x
  PROVE  /\ Cardinality(S) \in Nat
         /\ IsFiniteSet(S \ {x}) /\ Cardinality(S \ {x}) \in Nat
         /\ Cardinality(S \ {x}) <= Cardinality(S)
         /\ x \in S => Cardinality(S \ {x}) + 1 = Cardinality(S)
         /\ IsFiniteSet(S \cup {x}) /\ Cardinality(S \cup {x}) \in Nat
         /\ Cardinality(S \cup {x}) <= Cardinality(S) + 1
<1>1. IsFiniteSet(S \ {x}) /\ Cardinality(S \ {x}) = IF x \in S THEN Cardinality(S) - 1 ELSE Cardinality(S)
  BY FS_RemoveElement
<1>2. IsFiniteSet(S \cup {x})
      /\ Cardinality(S \cup {x}) = IF x \in S THEN Cardinality(S) ELSE Cardinality(S) + 1
  BY FS_AddElement
<1>3. Cardinality(S) \in Nat /\ Cardinality(S \ {x}) \in Nat /\ Cardinality(S \cup {x}) \in Nat
  BY <1>1, <1>2, FS_CardinalityType
<1> QED BY <1>1, <1>2, <1>3

\* How many packets can be on their way, and how many of them be dropped.
LEMMA Sizes ==
  ASSUME FeedInv
  PROVE  /\ IsFiniteSet(Mine) /\ Cardinality(Mine) \in Nat /\ Cardinality(Mine) <= MaxOvertake + 1
         /\ IsFiniteSet(Overtaken) /\ Cardinality(Overtaken) \in Nat
         /\ IsFiniteSet(Near) /\ Cardinality(Near) \in Nat /\ Cardinality(Near) <= RestartGap + 1
<1>1. sequence \in Nat /\ shown.n \in Nat
  BY Numbers DEF FeedInv
<1>2. \A n \in Mine : n \in (sequence - MaxOvertake)..sequence
  <2> SUFFICES ASSUME NEW n \in Mine PROVE n \in (sequence - MaxOvertake)..sequence
    OBVIOUS
  <2>1. n \in 1..sequence /\ [run |-> run, n |-> n] \in inflight
    BY DEF Mine
  <2>2. Own([run |-> run, n |-> n])
    BY <2>1 DEF FeedInv, Earlier, Injected, InjectRun
  <2> QED BY <1>1, <2>1, <2>2, Numbers DEF Own
<1>3. IsFiniteSet(Mine) /\ Cardinality(Mine) \in Nat /\ Cardinality(Mine) <= MaxOvertake + 1
  <2>1. sequence - (sequence - MaxOvertake) < MaxOvertake + 1 /\ MaxOvertake + 1 \in Nat
        /\ sequence - MaxOvertake \in Int /\ sequence \in Int
    BY <1>1, Numbers
  <2>2. Mine \subseteq (sequence - MaxOvertake)..sequence
    BY <1>2
  <2> QED BY <2>1, <2>2, Within
<1>4. IsFiniteSet(Overtaken) /\ Cardinality(Overtaken) \in Nat
  <2>1. Overtaken \subseteq Mine
    BY DEF Overtaken
  <2> QED BY <1>3, <2>1, FS_Subset, FS_CardinalityType
<1>5. IsFiniteSet(Near) /\ Cardinality(Near) \in Nat /\ Cardinality(Near) <= RestartGap + 1
  <2>1. shown.n - (shown.n - RestartGap) < RestartGap + 1 /\ RestartGap + 1 \in Nat
        /\ shown.n - RestartGap \in Int /\ shown.n \in Int
    BY <1>1, Numbers
  <2>2. Near \subseteq (shown.n - RestartGap)..shown.n
    BY <1>1, Numbers DEF Near
  <2> QED BY <2>1, <2>2, Within
<1> QED BY <1>3, <1>4, <1>5

\* A packet leaves the way to the dashboard: dropped, lost or shown.
LEMMA Removed ==
  ASSUME FeedInv, NEW p \in inflight, inflight' = inflight \ {p}, UNCHANGED <<run, sequence>>
  PROVE  \/ Own(p) /\ p.run # InjectRun /\ p.n \in Mine /\ Mine' = Mine \ {p.n}
         \/ (Injected(p) \/ Earlier(p)) /\ p.run # run /\ Mine' = Mine
<1>1. p \in [run : Int, n : Nat] /\ run \in Nat
  BY DEF FeedInv
<1>2. CASE Own(p)
  <2>1. p = [run |-> run, n |-> p.n]
    BY <1>1, <1>2 DEF Own
  <2>2. p.n \in 1..sequence /\ p.run # InjectRun
    BY <1>1, <1>2 DEF Own, InjectRun
  <2>3. \A n \in 1..sequence : [run |-> run, n |-> n] = p => n = p.n
    OBVIOUS
  <2>4. Mine' = {n \in 1..sequence : [run |-> run, n |-> n] \in inflight \ {p}}
    BY DEF Mine
  <2> QED BY <1>2, <2>1, <2>2, <2>3, <2>4 DEF Mine
<1>3. CASE Injected(p) \/ Earlier(p)
  <2>1. p.run # run
    BY <1>1, <1>3 DEF Injected, Earlier, InjectRun
  <2>2. \A n \in 1..sequence : [run |-> run, n |-> n] # p
    BY <2>1
  <2>3. Mine' = {n \in 1..sequence : [run |-> run, n |-> n] \in inflight \ {p}}
    BY DEF Mine
  <2> QED BY <1>3, <2>1, <2>2, <2>3 DEF Mine
<1> QED BY <1>2, <1>3 DEF FeedInv

\* The agent sends: what can still be dropped of an earlier run's neighbourhood
\* stays the same set.
LEMMA SendFreeze == FeedInv /\ FreezeInv /\ Send => FreezeInv'
<1> SUFFICES ASSUME FeedInv, FreezeInv, Send PROVE FreezeInv'
  OBVIOUS
<1>1. /\ sequence' = sequence + 1 /\ sentNow = FALSE /\ sentNow' = TRUE
      /\ inflight' = inflight \cup {[run |-> run, n |-> sequence + 1]}
      /\ UNCHANGED <<run, shown, age, frozen>>
  BY DEF Send, FeedInv
<1>2. sequence \in Nat /\ shown.n \in Nat /\ frozen \in Nat /\ age \in Nat /\ run \in Nat
  BY Numbers DEF FeedInv
<1>3. Mine' = Mine \cup {sequence + 1}
  <2>1. Mine' = {n \in 1..(sequence + 1) : [run |-> run, n |-> n] \in inflight'}
    BY <1>1 DEF Mine
  <2>2. [run |-> run, n |-> sequence + 1] \notin inflight
    BY <1>2 DEF FeedInv, Own, Earlier, Injected, InjectRun
  <2>3. \A n \in Nat : [run |-> run, n |-> n] \in inflight' <=>
                         [run |-> run, n |-> n] \in inflight \/ n = sequence + 1
    BY <1>1
  <2>4. \A n \in Nat : [run |-> run, n |-> n] \in inflight => n \in 1..sequence
    BY <1>2 DEF FeedInv, Own, Earlier, Injected, InjectRun
  <2> QED BY <1>2, <2>1, <2>3, <2>4 DEF Mine
<1>4. Near' = Near
  <2>1. Near' = {n \in 0..shown.n : shown.n - n <= RestartGap
                                    /\ (n > sequence + 1 \/ n \in Mine \cup {sequence + 1})}
    BY <1>1, <1>3 DEF Near
  <2>2. \A n \in 0..shown.n : (n > sequence + 1 \/ n \in Mine \cup {sequence + 1})
                                <=> (n > sequence \/ n \in Mine)
    BY <1>2
  <2> QED BY <2>1, <2>2 DEF Near
<1>5. shown.run = run => Overtaken' = Overtaken
  <2> SUFFICES ASSUME shown.run = run PROVE Overtaken' = Overtaken
    OBVIOUS
  <2>1. shown.n <= sequence
    BY <1>2 DEF FeedInv, None, Earlier, Injected, InjectRun
  <2>2. Overtaken' = {n \in Mine \cup {sequence + 1} : n <= shown.n}
    BY <1>1, <1>3 DEF Overtaken
  <2> QED BY <1>2, <2>1, <2>2 DEF Overtaken
<1>6. Cardinality(Mine') \in Nat /\ Cardinality(Mine') <= Cardinality(Mine) + 1
  BY <1>3, Sizes, TakeOut
<1>7. Sent = 0 /\ Sent' = 1
  BY <1>1 DEF Sent
<1> QED BY <1>1, <1>2, <1>4, <1>5, <1>6, <1>7, Sizes, Numbers DEF FreezeInv, Earlier

\* A second passes: the quiet period ends with at most one packet for each of
\* its seconds.
LEMMA SecondFreeze == FeedInv /\ FreezeInv /\ Second => FreezeInv'
<1> SUFFICES ASSUME FeedInv, FreezeInv, Second PROVE FreezeInv'
  OBVIOUS
<1>1. /\ sentNow = TRUE /\ sentNow' = FALSE
      /\ age' = IF age > RestartQuiet THEN age ELSE age + 1
      /\ UNCHANGED <<run, sequence, inflight, shown, frozen>>
  BY DEF Second, FeedInv
<1>2. frozen \in Nat /\ age \in Nat /\ run \in Nat
  BY Numbers DEF FeedInv
<1>3. Mine' = Mine /\ Near' = Near /\ Overtaken' = Overtaken
  BY <1>1 DEF Mine, Near, Overtaken
<1>4. Sent = 1 /\ Sent' = 0
  BY <1>1 DEF Sent
<1> QED BY <1>1, <1>2, <1>3, <1>4, Sizes, Numbers DEF FreezeInv, Earlier

\* A packet is lost or dropped: one dropped is one less to drop.
LEMMA RemoveFreeze ==
  ASSUME FeedInv, FreezeInv, NEW p \in inflight, Lose(p) \/ Drop(p)
  PROVE  FreezeInv'
<1>1. inflight' = inflight \ {p} /\ UNCHANGED <<run, sequence, sentNow, shown, age>>
  BY DEF Lose, Drop
<1>2. /\ sequence \in Nat /\ sequence <= MaxSequence /\ shown.n \in Nat /\ shown.run \in Int
      /\ frozen \in Nat /\ age \in Nat /\ run \in Nat /\ p.n \in Nat
  BY Numbers DEF FeedInv
<1>3. Sent' = Sent /\ Sent \in Nat
  BY <1>1 DEF Sent
<1>4. CASE (Injected(p) \/ Earlier(p)) /\ p.run # run /\ Mine' = Mine
  <2>1. frozen' = frozen
    BY <1>4 DEF Lose, Drop
  <2>2. Near' = Near /\ Overtaken' = Overtaken
    BY <1>1, <1>4 DEF Near, Overtaken
  <2> QED BY <1>1, <1>3, <1>4, <2>1, <2>2 DEF FreezeInv, Earlier
<1>5. CASE Own(p) /\ p.run # InjectRun /\ p.n \in Mine /\ Mine' = Mine \ {p.n}
  <2>1. p.n <= sequence /\ p.run = run
    BY <1>5 DEF Own
  <2>2. Overtaken' = Overtaken \ {p.n}
    BY <1>1, <1>5 DEF Overtaken
  <2>3. Near' = Near \ {p.n}
    <3>1. Near' = {n \in 0..shown.n : shown.n - n <= RestartGap /\ (n > sequence \/ n \in Mine \ {p.n})}
      BY <1>1, <1>5 DEF Near
    <3> QED BY <1>2, <2>1, <3>1 DEF Near
  <2>4. /\ Cardinality(Mine') \in Nat /\ Cardinality(Mine') + 1 = Cardinality(Mine)
        /\ Cardinality(Overtaken') \in Nat /\ Cardinality(Overtaken') <= Cardinality(Overtaken)
        /\ p.n \in Overtaken => Cardinality(Overtaken') + 1 = Cardinality(Overtaken)
        /\ Cardinality(Near') \in Nat /\ Cardinality(Near') <= Cardinality(Near)
        /\ p.n \in Near => Cardinality(Near') + 1 = Cardinality(Near)
    BY <1>5, <2>2, <2>3, Sizes, TakeOut
  <2>5. CASE Lose(p)
    <3>1. frozen' = frozen
      BY <2>5 DEF Lose
    <3> QED BY <1>1, <1>2, <1>3, <2>4, <3>1, Sizes, Numbers DEF FreezeInv, Earlier
  <2>6. CASE Drop(p)
    <3>1. frozen' = frozen + 1 /\ shown # None /\ p.n <= shown.n /\ ~IsRestart(p)
      BY <2>1, <2>6 DEF Drop, Drops, IsStale
    <3>2. p.n \in Overtaken
      BY <1>5, <3>1 DEF Overtaken
    <3>3. age > RestartQuiet => p.n \in Near
      BY <1>2, <1>5, <3>1, Numbers DEF IsRestart, Near
    <3>4. shown.run = InjectRun => ~(age > RestartQuiet)
      <4> SUFFICES ASSUME shown.run = InjectRun, age > RestartQuiet PROVE FALSE
        OBVIOUS
      <4>1. Injected(shown)
        BY <1>2, <3>1 DEF FeedInv, Earlier, InjectRun
      <4>2. shown.n - p.n > RestartGap
        BY <1>2, <2>1, <4>1, Numbers DEF Injected
      <4> QED BY <3>1, <4>2 DEF IsRestart
    <3> QED BY <1>1, <1>2, <1>3, <2>4, <3>1, <3>2, <3>3, <3>4, Sizes, Numbers DEF FreezeInv, Earlier
  <2> QED BY <2>5, <2>6
<1> QED BY <1>1, <1>4, <1>5, Removed

\* A packet is shown: what it has overtaken, or for an injected one all that is
\* on its way, can be dropped.
LEMMA ShowFreeze ==
  ASSUME FeedInv, FeedInv', NEW p \in inflight, Show(p)
  PROVE  FreezeInv'
<1>1. /\ inflight' = inflight \ {p} /\ shown' = p /\ age' = 0 /\ frozen' = 0
      /\ UNCHANGED <<run, sequence, sentNow>>
  BY DEF Show
<1>2. sequence \in Nat /\ run \in Nat /\ p.n \in Nat
  BY Numbers DEF FeedInv
<1>3. Sent' \in Nat
  BY DEF Sent
<1>4. CASE (Injected(p) \/ Earlier(p)) /\ p.run # run /\ Mine' = Mine
  <2>1. shown'.run # run' /\ shown' # None /\ age' <= RestartQuiet
    BY <1>1, <1>4, Numbers DEF Injected, Earlier, InjectRun, None
  <2>2. Cardinality(Mine') \in Nat /\ Cardinality(Mine') <= MaxOvertake + 1
    BY <1>4, Sizes
  <2> QED BY <1>1, <1>3, <2>1, <2>2, Numbers DEF FreezeInv, Earlier
<1>5. CASE Own(p) /\ p.run # InjectRun /\ p.n \in Mine /\ Mine' = Mine \ {p.n}
  <2>1. shown'.run = run' /\ shown'.run # InjectRun /\ shown'.run \notin 0..(run' - 1)
    BY <1>1, <1>2, <1>5 DEF Own
  <2>2. Overtaken' = {n \in Mine \ {p.n} : n <= p.n}
    BY <1>1, <1>5 DEF Overtaken
  <2>3. \A n \in Mine : n \in Nat /\ n >= sequence - MaxOvertake
    <3> SUFFICES ASSUME NEW n \in Mine PROVE n \in Nat /\ n >= sequence - MaxOvertake
      OBVIOUS
    <3>1. n \in 1..sequence /\ [run |-> run, n |-> n] \in inflight
      BY DEF Mine
    <3>2. Own([run |-> run, n |-> n])
      BY <1>2, <3>1 DEF FeedInv, Earlier, Injected, InjectRun
    <3> QED BY <1>2, <3>1, <3>2, Numbers DEF Own
  <2>4. Overtaken' \subseteq (sequence - MaxOvertake)..(p.n - 1)
    BY <1>2, <2>2, <2>3, Numbers
  <2>5. /\ sequence - MaxOvertake \in Int /\ p.n - 1 \in Int
        /\ (p.n - 1) - (sequence - MaxOvertake) < MaxOvertake
    BY <1>2, <1>5, Numbers DEF Own
  <2>6. Cardinality(Overtaken') \in Nat /\ Cardinality(Overtaken') <= MaxOvertake
    BY <2>4, <2>5, Within, Numbers
  <2> QED BY <1>1, <2>1, <2>6 DEF FreezeInv, Earlier
<1> QED BY <1>1, <1>4, <1>5, Removed

\* The agent restarts: nothing of its new run is on its way.
LEMMA RestartFreeze ==
  ASSUME FeedInv, FreezeInv, FeedInv', Restart
  PROVE  FreezeInv'
<1>1. run' = run + 1 /\ frozen' = 0 /\ UNCHANGED <<sentNow, inflight, shown, age>>
  BY DEF Restart
<1>2. run \in Nat /\ shown.run \in Int /\ age \in Nat /\ Sent' \in Nat
  BY Numbers DEF FeedInv, Sent
<1>3. Mine' = {}
  <2>1. \A n \in Nat : [run |-> run', n |-> n] \notin inflight'
    BY <1>1, <1>2 DEF FeedInv, Own, Earlier, Injected, InjectRun
  <2>2. \A n \in 1..sequence' : n \in Nat
    BY DEF FeedInv
  <2> QED BY <2>1, <2>2 DEF Mine
<1>4. Cardinality(Mine') = 0 /\ Cardinality(Mine') \in Nat
  BY <1>3, FS_EmptySet
<1>5. Cardinality(Near') \in Nat /\ Cardinality(Near') <= RestartGap + 1
  <2>1. FeedInv' => (Cardinality(Near) \in Nat /\ Cardinality(Near) <= RestartGap + 1)'
    BY Sizes, PTL
  <2> QED BY <2>1
<1>6. shown'.run # run'
  BY <1>1, <1>2 DEF FeedInv, None, Earlier, Injected, InjectRun
<1>7. frozen' = 0 /\ age' \in Nat /\ Sent' \in Nat
  BY <1>1, <1>2
<1>8. frozen' + Cardinality(Mine') = 0
  BY <1>4, <1>7
<1>9. frozen' + Cardinality(Near') <= MaxOvertake + RestartQuiet + RestartGap + 3
  BY <1>5, <1>7, Numbers
<1>10. /\ 0 <= MaxOvertake + 1 + age' + Sent'
       /\ 0 <= MaxOvertake + RestartQuiet + 2
  <2>1. \A a, k, m, q \in Nat : 0 <= m + 1 + a + k /\ 0 <= m + q + 2
    OBVIOUS
  <2> QED BY ONLY <1>7, <2>1, Numbers
<1> QED BY <1>6, <1>7, <1>8, <1>9, <1>10 DEF FreezeInv, Earlier

\* Every step keeps the freeze bounded.
LEMMA NextFreezeInv == FeedInv /\ FreezeInv /\ [Next]_vars => FreezeInv'
<1> SUFFICES ASSUME FeedInv, FreezeInv, [Next]_vars PROVE FreezeInv'
  OBVIOUS
<1>1. FeedInv'
  BY NextFeedInv
<1>2. CASE Inject
  <2>1. /\ inflight' = inflight \cup {[run |-> InjectRun, n |-> InjectedSequence(injects)]}
        /\ UNCHANGED <<run, sequence, sentNow, shown, age, frozen>>
    BY <1>2 DEF Inject
  <2>2. \A n \in 1..sequence : [run |-> run, n |-> n] # [run |-> InjectRun, n |-> InjectedSequence(injects)]
    BY DEF FeedInv, InjectRun
  <2>3. Mine' = Mine
    BY <2>1, <2>2 DEF Mine
  <2>4. Near' = Near /\ Overtaken' = Overtaken /\ Sent' = Sent
    BY <2>1, <2>3 DEF Near, Overtaken, Sent
  <2> QED BY <2>1, <2>3, <2>4 DEF FreezeInv, Earlier
<1>3. CASE UNCHANGED vars
  BY <1>3 DEF vars, FreezeInv, Earlier, Mine, Near, Overtaken, Sent
<1> QED BY <1>1, <1>2, <1>3, SendFreeze, SecondFreeze, RemoveFreeze, ShowFreeze, RestartFreeze DEF Next

(* The freshness guard freezes a vehicle for at most RestartGap +            *)
(* RestartQuiet + MaxOvertake + 3 packets of the agent, which with the       *)
(* code's thresholds and rate is about a minute more than the packets are    *)
(* late, whatever restarts, late packets of earlier runs, injections, losses *)
(* and overtakings come together.                                            *)
THEOREM FeedFreezeIsBounded == Spec => []FreezeIsBounded
<1>1. Init => FreezeInv
  <2> SUFFICES ASSUME Init PROVE FreezeInv
    OBVIOUS
  <2>1. shown = None /\ frozen = 0 /\ run = 0
    BY DEF Init
  <2>2. shown.run = -1
    BY <2>1 DEF None
  <2> QED BY <2>1, <2>2 DEF FreezeInv, Earlier, InjectRun
<1>2. FeedInv /\ FreezeInv => FreezeIsBounded
  <2> SUFFICES ASSUME FeedInv, FreezeInv PROVE FreezeIsBounded
    OBVIOUS
  <2>1. frozen \in Nat /\ age \in Nat /\ age <= RestartQuiet + 1 /\ run \in Nat
    BY Numbers DEF FeedInv
  <2>2. Sent \in {0, 1}
    BY DEF Sent
  <2>3. shown = None \/ shown.run = run \/ Earlier(shown) \/ shown.run = InjectRun
    BY DEF FeedInv, Injected
  <2> QED BY <2>1, <2>2, <2>3, Sizes, Numbers DEF FreezeInv, FreezeIsBounded
<1> QED BY InitFeedInv, NextFeedInv, <1>1, NextFreezeInv, <1>2, PTL DEF Spec

=============================================================================
