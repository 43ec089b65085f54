--------------------------- MODULE CDSGuardProofs ---------------------------
(***************************************************************************)
(* Proof that the guard is fail-closed, for every set of input packets, any *)
(* number of goroutines, packets and crashes, and every coarsening grid.    *)
(***************************************************************************)
EXTENDS CDSGuard, FiniteSetTheorems, TLAPS

-----------------------------------------------------------------------------
(* Arithmetic of the coarse grid *)

\* A product is a multiple of its factor.
LEMMA ProductIsMultiple ==
  ASSUME NEW k \in Int, NEW u \in Nat \ {0}
  PROVE  Multiple(k * u, u)
<1> DEFINE v == k * u
           d == v \div u
           m == v % u
<1>1. v \in Int /\ d \in Int /\ m \in 0..(u - 1) /\ v = u * d + m
  OBVIOUS
<1>2. m = u * (k - d)
  BY <1>1
<1> HIDE DEF d, m
<1>3. CASE k - d >= 1
  <2>1. u * (k - d) >= u
    BY <1>1, <1>3
  <2> QED BY <1>1, <1>2, <2>1
<1>4. CASE k - d <= -1
  <2>1. u * (k - d) <= -u
    BY <1>1, <1>4
  <2> QED BY <1>1, <1>2, <2>1
<1>5. CASE k - d = 0
  BY <1>1, <1>2, <1>5 DEF Multiple, m
<1> QED BY <1>1, <1>3, <1>4, <1>5

\* RoundTo ends on the grid, on both sides of zero.
LEMMA RoundToMultiple ==
  ASSUME NEW x \in Int, NEW u \in Nat \ {0}
  PROVE  RoundTo(x, u) \in Int /\ Multiple(RoundTo(x, u), u)
<1> DEFINE a == (x + u \div 2) \div u
           b == (-x + u \div 2) \div u
<1>1. u \div 2 \in Int
  OBVIOUS
<1>2. a \in Int /\ b \in Int
  BY <1>1
<1>3. CASE x >= 0
  <2>1. RoundTo(x, u) = a * u
    BY <1>3 DEF RoundTo
  <2> HIDE DEF a
  <2> QED BY <1>2, <2>1, ProductIsMultiple
<1>4. CASE ~(x >= 0)
  <2>1. RoundTo(x, u) = -(b * u)
    BY <1>4 DEF RoundTo
  <2> HIDE DEF b
  <2>2. -(b * u) = (-b) * u /\ -b \in Int /\ (-b) * u \in Int
    BY <1>2
  <2>3. Multiple((-b) * u, u)
    BY <2>2, ProductIsMultiple
  <2>4. RoundTo(x, u) = (-b) * u
    BY <2>1, <2>2
  <2> QED BY <2>2, <2>3, <2>4
<1> QED BY <1>3, <1>4

\* Every grid point is a whole number of cells.
LEMMA MultipleWitness ==
  ASSUME NEW x \in Int, NEW u \in Nat \ {0}, Multiple(x, u)
  PROVE  \E k \in Int : x = k * u
<1> DEFINE d == x \div u
<1>1. d \in Int /\ x = u * d + (x % u)
  OBVIOUS
<1> HIDE DEF d
<1>2. x = d * u
  BY <1>1 DEF Multiple
<1> QED BY <1>1, <1>2

\* Division is exact up to a remainder smaller than the divisor.
LEMMA DivUnique ==
  ASSUME NEW k \in Int, NEW u \in Nat \ {0}, NEW h \in 0..(u - 1)
  PROVE  (k * u + h) \div u = k
<1> DEFINE v == k * u + h
           d == v \div u
           m == v % u
<1>1. v \in Int /\ d \in Int /\ m \in 0..(u - 1) /\ v = u * d + m
  OBVIOUS
<1>2. m - h = u * (k - d)
  BY <1>1
<1> HIDE DEF d, m
<1>3. CASE k - d >= 1
  <2>1. u * (k - d) >= u
    BY <1>1, <1>3
  <2> QED BY <1>1, <1>2, <2>1
<1>4. CASE k - d <= -1
  <2>1. u * (k - d) <= -u
    BY <1>1, <1>4
  <2> QED BY <1>1, <1>2, <2>1
<1>5. CASE k - d = 0
  BY <1>1, <1>5 DEF d
<1> QED BY <1>1, <1>3, <1>4, <1>5

\* RoundTo is odd: it rounds a negative number as it rounds its absolute value.
LEMMA RoundToOdd ==
  ASSUME NEW x \in Int, NEW u \in Nat \ {0}, x < 0
  PROVE  -x \in Nat /\ RoundTo(x, u) = -RoundTo(-x, u)
BY DEF RoundTo

\* RoundTo leaves a grid point where it is.
LEMMA RoundToFixesGrid ==
  ASSUME NEW x \in Int, NEW u \in Nat \ {0}, Multiple(x, u)
  PROVE  RoundTo(x, u) = x
<1>1. PICK k \in Int : x = k * u
  BY MultipleWitness
<1>2. u \div 2 \in 0..(u - 1)
  OBVIOUS
<1>3. CASE x >= 0
  <2>1. (x + u \div 2) \div u = k
    BY <1>1, <1>2, DivUnique
  <2> QED BY <1>1, <1>3, <2>1 DEF RoundTo
<1>4. CASE ~(x >= 0)
  <2>1. -x = (-k) * u /\ -k \in Int
    BY <1>1
  <2>2. (-x + u \div 2) \div u = -k
    BY <1>2, <2>1, DivUnique
  <2>3. RoundTo(x, u) = -((-k) * u)
    BY <1>4, <2>2 DEF RoundTo
  <2> QED BY <2>1, <2>3
<1> QED BY <1>3, <1>4

\* The cell RoundTo picks for a number that is not negative.
LEMMA RoundToCell ==
  ASSUME NEW x \in Nat, NEW u \in Nat \ {0}
  PROVE  \E q \in Int : /\ RoundTo(x, u) = q * u
                        /\ q * u <= x + u \div 2
                        /\ x + u \div 2 < q * u + u
<1> DEFINE h == u \div 2
           v == x + h
           q == v \div u
<1>1. h \in Int /\ v \in Int
  OBVIOUS
<1>2. q \in Int /\ v % u \in 0..(u - 1) /\ v = u * q + (v % u)
  BY <1>1
<1>3. RoundTo(x, u) = q * u
  BY DEF RoundTo
<1> HIDE DEF q
<1>4. q * u = u * q /\ q * u \in Int
  BY <1>2
<1>5. q * u <= v /\ v < q * u + u
  BY <1>1, <1>2, <1>4
<1> QED BY <1>2, <1>3, <1>5

\* RoundTo moves a number by at most half a cell.
LEMMA RoundToNearest ==
  ASSUME NEW x \in Int, NEW u \in Nat \ {0}
  PROVE  InBounds(2 * (RoundTo(x, u) - x), u)
<1>1. ASSUME NEW y \in Nat PROVE InBounds(2 * (RoundTo(y, u) - y), u)
  <2>1. PICK q \in Int : /\ RoundTo(y, u) = q * u
                         /\ q * u <= y + u \div 2
                         /\ y + u \div 2 < q * u + u
    BY RoundToCell
  <2>2. q * u \in Int
    OBVIOUS
  <2>3. 2 * (u \div 2) <= u /\ u <= 2 * (u \div 2) + 1 /\ u \div 2 \in Int
    OBVIOUS
  <2> QED BY <2>1, <2>2, <2>3 DEF InBounds
<1>2. CASE x >= 0
  BY <1>1, <1>2
<1>3. CASE ~(x >= 0)
  <2>1. -x \in Nat /\ RoundTo(x, u) = -RoundTo(-x, u) /\ RoundTo(-x, u) \in Int
    BY <1>3, RoundToOdd, RoundToMultiple
  <2>2. InBounds(2 * (RoundTo(-x, u) - (-x)), u)
    BY <1>1, <2>1
  <2> QED BY <2>1, <2>2 DEF InBounds
<1> QED BY <1>2, <1>3

\* RoundTo stays in a range whose ends are grid points.
LEMMA RoundToInBounds ==
  ASSUME NEW x \in Int, NEW u \in Nat \ {0}, NEW max \in Nat, Multiple(max, u), InBounds(x, max)
  PROVE  InBounds(RoundTo(x, u), max)
<1>1. PICK k \in Int : max = k * u
  BY MultipleWitness
<1>2. ASSUME NEW y \in Nat, y <= max PROVE RoundTo(y, u) \in Int /\ 0 <= RoundTo(y, u) /\ RoundTo(y, u) <= max
  <2>1. PICK q \in Int : /\ RoundTo(y, u) = q * u
                         /\ q * u <= y + u \div 2
                         /\ y + u \div 2 < q * u + u
    BY RoundToCell
  <2>2. u \div 2 \in Int /\ 0 <= u \div 2 /\ u \div 2 < u
    OBVIOUS
  <2>3. q * u < k * u + u /\ 0 < q * u + u /\ q * u \in Int /\ k * u \in Int
    BY <1>1, <1>2, <2>1, <2>2
  <2>4. q <= k
    <3>1. CASE q - k >= 1
      <4>1. (q - k) * u >= u
        BY <3>1
      <4>2. (q - k) * u = q * u - k * u
        OBVIOUS
      <4> QED BY <2>3, <4>1, <4>2
    <3> QED BY <3>1
  <2>5. 0 <= q
    <3>1. CASE q <= -1
      <4>1. q * u <= -u
        BY <3>1
      <4> QED BY <2>3, <4>1
    <3> QED BY <3>1
  <2>6. q * u <= k * u
    <3>1. (k - q) * u >= 0 /\ (k - q) * u = k * u - q * u
      BY <2>4
    <3> QED BY <2>3, <3>1
  <2>7. 0 <= q * u
    BY <2>5
  <2> QED BY <1>1, <2>1, <2>3, <2>6, <2>7
<1>3. CASE x >= 0
  BY <1>2, <1>3 DEF InBounds
<1>4. CASE ~(x >= 0)
  <2>1. -x \in Nat /\ RoundTo(x, u) = -RoundTo(-x, u) /\ -x <= max
    BY <1>4, RoundToOdd DEF InBounds
  <2> QED BY <1>2, <2>1 DEF InBounds
<1> QED BY <1>3, <1>4

\* The sanitized form of any telemetry payload has nothing precise left.
LEMMA SanitizeScrubs ==
  ASSUME NEW t \in Telemetry
  PROVE  Sanitize(Normalize(t)) \in Telemetry /\ Scrubbed(Sanitize(Normalize(t)))
<1> DEFINE n == Normalize(t)
           s == Sanitize(n)
<1>1. CoarsenUnit \in Nat \ {0}
  BY PolicyAssumption
<1>2. n \in Telemetry
  <2>1. /\ RoundTo(t.lat, 10) \in Int /\ RoundTo(t.lon, 10) \in Int
        /\ RoundTo(t.alt, 10) \in Int /\ RoundTo(t.battery, 10) \in Int
    BY RoundToMultiple DEF Telemetry
  <2> QED BY <2>1 DEF Normalize, Telemetry
<1> HIDE DEF n
<1>3. n.lat \in Int /\ n.lon \in Int /\ n.alt \in Int
  BY <1>2 DEF Telemetry
<1>4. /\ RoundTo(n.lat, CoarsenUnit) \in Int /\ Multiple(RoundTo(n.lat, CoarsenUnit), CoarsenUnit)
      /\ RoundTo(n.lon, CoarsenUnit) \in Int /\ Multiple(RoundTo(n.lon, CoarsenUnit), CoarsenUnit)
  BY <1>1, <1>3, RoundToMultiple
<1>5. (n.alt \div 50000) * 50000 \in Int /\ Multiple((n.alt \div 50000) * 50000, 50000)
  BY <1>3 DEF Multiple
<1>6. ScrubMission(n.mission) \in {Nil, "REDACTED_BY_CDS"}
  BY DEF ScrubMission
<1>7. s \in Telemetry
  <2>1. ASSUME NEW a \in Int, NEW b \in Int, NEW c \in Int, NEW m \in {Nil, "REDACTED_BY_CDS"}
        PROVE  [n EXCEPT !.lat = a, !.lon = b, !.alt = c, !.mission = m] \in Telemetry
    BY <1>2 DEF Telemetry
  <2>2. s = [n EXCEPT !.lat = RoundTo(n.lat, CoarsenUnit), !.lon = RoundTo(n.lon, CoarsenUnit),
                      !.alt = (n.alt \div 50000) * 50000, !.mission = ScrubMission(n.mission)]
    BY <1>2 DEF Sanitize, Telemetry
  <2> DEFINE la == RoundTo(n.lat, CoarsenUnit)
             lo == RoundTo(n.lon, CoarsenUnit)
             al == (n.alt \div 50000) * 50000
             mi == ScrubMission(n.mission)
  <2>3. la \in Int /\ lo \in Int /\ al \in Int /\ mi \in {Nil, "REDACTED_BY_CDS"}
    BY <1>4, <1>5, <1>6
  <2>4. s = [n EXCEPT !.lat = la, !.lon = lo, !.alt = al, !.mission = mi]
    BY <2>2
  <2> HIDE DEF s, la, lo, al, mi
  <2>5. [n EXCEPT !.lat = la, !.lon = lo, !.alt = al, !.mission = mi] \in Telemetry
    BY <2>1, <2>3
  <2> QED BY <2>4, <2>5
<1>8. /\ s.lat = RoundTo(n.lat, CoarsenUnit) /\ s.lon = RoundTo(n.lon, CoarsenUnit)
      /\ s.alt = (n.alt \div 50000) * 50000
      /\ s.mission = ScrubMission(n.mission)
  BY <1>2 DEF Sanitize, Telemetry
<1> QED BY <1>4, <1>5, <1>6, <1>7, <1>8 DEF Scrubbed, n

-----------------------------------------------------------------------------
(* The inductive invariant: what each goroutine has established about its      *)
(* packet by the time it reaches a publish call.                               *)

WellFormed(env) == env # Nil => env.telemetry \in Telemetry \cup {Nil}

Decided(w, pc, action) ==
  task[w].pc = pc => /\ task[w].packet.env # Nil
                     /\ Evaluate(task[w].packet.env).action = action

TaskInv ==
  /\ DOMAIN task = Workers
  /\ \A w \in Workers :
       /\ task[w].pc # "idle" => WellFormed(task[w].packet.env)
       /\ Decided(w, "pass", "PASS")
       /\ Decided(w, "redact", "REDACT_AND_PASS")

MeshInv == \A p \in mesh : WellFormed(p.env)

IInv == EgressClean /\ TaskInv /\ MeshInv

\* Evaluate lets a packet through only if Validate accepts it, and then by tier.
LEMMA EvaluateIsFailClosed ==
  ASSUME NEW env
  PROVE  /\ Evaluate(env).action = "PASS" =>
              Validate(env) = "ok" /\ env.classification = "TIER-1"
         /\ Evaluate(env).action = "REDACT_AND_PASS" =>
              Validate(env) = "ok" /\ env.classification = "TIER-2"
BY DEF Evaluate, Quarantined

\* A fresh guard has published nothing.
LEMMA InitIInv == Init => IInv
BY DEF Init, IInv, EgressClean, TaskInv, MeshInv, Idle, Decided

\* The task of one goroutine changes; those of the others stay.
LEMMA TaskUpdate ==
  ASSUME TaskInv, NEW w \in Workers, NEW t, task' = [task EXCEPT ![w] = t],
         t.pc # "idle" => WellFormed(t.packet.env),
         t.pc = "pass" => t.packet.env # Nil /\ Evaluate(t.packet.env).action = "PASS",
         t.pc = "redact" => t.packet.env # Nil /\ Evaluate(t.packet.env).action = "REDACT_AND_PASS"
  PROVE  TaskInv'
<1>1. DOMAIN task' = Workers /\ task'[w] = t /\ \A v \in Workers : v # w => task'[v] = task[v]
  BY DEF TaskInv
<1> SUFFICES ASSUME NEW v \in Workers
             PROVE  /\ task'[v].pc # "idle" => WellFormed(task'[v].packet.env)
                    /\ Decided(v, "pass", "PASS")'
                    /\ Decided(v, "redact", "REDACT_AND_PASS")'
  BY <1>1 DEF TaskInv
<1>2. CASE v = w
  BY <1>1, <1>2 DEF Decided
<1>3. CASE v # w
  BY <1>1, <1>3 DEF TaskInv, Decided
<1> QED BY <1>2, <1>3

\* A publish call with a clean, well-formed envelope keeps the invariant, whether
\* it succeeds or fails.
LEMMA PublishKeeps ==
  ASSUME IInv, NEW w \in Workers, NEW key, NEW env, Publish(w, key, env), Finish(w),
         WellFormed(env),
         task[w].packet.env # Nil,
         Validate(task[w].packet.env) = "ok",
         env.classification = "TIER-1",
         \/ env = task[w].packet.env
         \/ /\ task[w].packet.env.classification = "TIER-2"
            /\ env.command = Nil
            /\ Scrubbed(env.telemetry)
            /\ key.tier = "tier1"
  PROVE  IInv'
<1>1. TaskInv'
  <2>1. Idle.pc = "idle"
    BY DEF Idle
  <2> QED BY <2>1, TaskUpdate DEF IInv, Finish
<1>2. CASE /\ mesh' = mesh \cup {[id |-> sent + 1, key |-> key, env |-> env, by |-> "guard"]}
           /\ published' = published \cup {[from |-> task[w].packet, key |-> key, env |-> env]}
  <2>1. EgressClean'
    BY <1>2 DEF IInv, EgressClean
  <2>2. MeshInv'
    BY <1>2 DEF IInv, MeshInv
  <2> QED BY <1>1, <2>1, <2>2 DEF IInv
<1>3. CASE UNCHANGED <<mesh, published>>
  BY <1>1, <1>3 DEF IInv, EgressClean, MeshInv
<1> QED BY <1>2, <1>3 DEF Publish

\* Every step of the guard and of the mesh keeps the invariant.
LEMMA NextIInv == IInv /\ [Next]_vars => IInv'
<1> SUFFICES ASSUME IInv, [Next]_vars PROVE IInv'
  OBVIOUS
<1>0. EgressClean /\ TaskInv /\ MeshInv
  BY DEF IInv
<1>1. ASSUME NEW input \in Inputs, Arrive(input) PROVE IInv'
  <2>1. WellFormed(input.env)
    BY GuardAssumption DEF WellFormed
  <2>2. MeshInv'
    BY <1>0, <1>1, <2>1 DEF Arrive, MeshInv
  <2>3. UNCHANGED <<task, published>>
    BY <1>1 DEF Arrive, processVars
  <2> QED BY <1>0, <2>2, <2>3 DEF IInv, EgressClean, TaskInv, Decided
<1>2. ASSUME NEW w \in Workers, Receive(w) PROVE IInv'
  <2>1. PICK p \in mesh :
          /\ mesh' = mesh \ {p}
          /\ \/ UNCHANGED task
             \/ task' = [task EXCEPT ![w] = [pc |-> "decide", packet |-> p]]
    BY <1>2 DEF Receive
  <2>2. WellFormed(p.env) /\ MeshInv'
    BY <1>0, <2>1 DEF MeshInv
  <2>3. TaskInv'
    <3>1. CASE UNCHANGED task
      BY <1>0, <3>1 DEF TaskInv, Decided
    <3>2. CASE task' = [task EXCEPT ![w] = [pc |-> "decide", packet |-> p]]
      BY <1>0, <2>2, <3>2, TaskUpdate
    <3> QED BY <2>1, <3>1, <3>2
  <2>4. published' = published
    BY <1>2 DEF Receive
  <2> QED BY <1>0, <2>2, <2>3, <2>4 DEF IInv, EgressClean
<1>3. ASSUME NEW w \in Workers, Decide(w) PROVE IInv'
  <2> DEFINE packet == task[w].packet
             env == packet.env
  <2>1. WellFormed(env)
    BY <1>0, <1>3 DEF Decide, At, TaskInv
  <2>2. \/ \E reason : task' = [task EXCEPT ![w] = [pc |-> "quarantine", packet |-> packet, reason |-> reason]]
        \/ /\ env # Nil /\ Evaluate(env).action = "PASS"
           /\ task' = [task EXCEPT ![w] = [pc |-> "pass", packet |-> packet]]
        \/ /\ env # Nil /\ Evaluate(env).action = "REDACT_AND_PASS"
           /\ task' = [task EXCEPT ![w] = [pc |-> "redact", packet |-> packet]]
    BY <1>3 DEF Decide, Reject, Goto, Quarantined
  <2>3. TaskInv'
    <3>1. ASSUME NEW reason,
                 task' = [task EXCEPT ![w] = [pc |-> "quarantine", packet |-> packet, reason |-> reason]]
          PROVE  TaskInv'
      BY <1>0, <2>1, <3>1, TaskUpdate
    <3>2. CASE /\ env # Nil /\ Evaluate(env).action = "PASS"
               /\ task' = [task EXCEPT ![w] = [pc |-> "pass", packet |-> packet]]
      BY <1>0, <2>1, <3>2, TaskUpdate
    <3>3. CASE /\ env # Nil /\ Evaluate(env).action = "REDACT_AND_PASS"
               /\ task' = [task EXCEPT ![w] = [pc |-> "redact", packet |-> packet]]
      BY <1>0, <2>1, <3>3, TaskUpdate
    <3> QED BY <2>2, <3>1, <3>2, <3>3
  <2>4. UNCHANGED <<mesh, published>>
    BY <1>3 DEF Decide
  <2> QED BY <1>0, <2>3, <2>4 DEF IInv, EgressClean, MeshInv
<1>4. ASSUME NEW w \in Workers, Quarantine(w) PROVE IInv'
  <2>1. TaskInv'
    <3>1. Idle.pc = "idle"
      BY DEF Idle
    <3> QED BY <1>0, <1>4, <3>1, TaskUpdate DEF Quarantine, Finish
  <2>2. UNCHANGED <<mesh, published>>
    BY <1>4 DEF Quarantine
  <2> QED BY <1>0, <2>1, <2>2 DEF IInv, EgressClean, MeshInv
<1>5. ASSUME NEW w \in Workers, Pass(w) PROVE IInv'
  <2> DEFINE env == task[w].packet.env
  <2>1. env # Nil /\ Evaluate(env).action = "PASS" /\ WellFormed(env)
    BY <1>0, <1>5 DEF Pass, At, TaskInv, Decided
  <2>2. Validate(env) = "ok" /\ env.classification = "TIER-1"
    BY <2>1, EvaluateIsFailClosed
  <2> QED BY <1>5, <2>1, <2>2, PublishKeeps DEF Pass
<1>6. ASSUME NEW w \in Workers, Redact(w) PROVE IInv'
  <2> DEFINE env == task[w].packet.env
             out == RedactAndSanitize(env)
             key == DownTag(task[w].packet.key)
  <2>1. env # Nil /\ Evaluate(env).action = "REDACT_AND_PASS" /\ WellFormed(env) /\ env.telemetry # Nil
    BY <1>0, <1>6 DEF Redact, At, TaskInv, Decided
  <2>2. Validate(env) = "ok" /\ env.classification = "TIER-2"
    BY <2>1, EvaluateIsFailClosed
  <2>3. /\ Sanitize(Normalize(env.telemetry)) \in Telemetry
        /\ Scrubbed(Sanitize(Normalize(env.telemetry)))
    BY <2>1, SanitizeScrubs DEF WellFormed
  <2>4. /\ out.classification = "TIER-1" /\ out.command = Nil
        /\ out.telemetry = Sanitize(Normalize(env.telemetry))
    BY DEF RedactAndSanitize
  <2>5. key.tier = "tier1"
    BY DEF DownTag
  <2>6. WellFormed(out) /\ Scrubbed(out.telemetry)
    BY <2>3, <2>4 DEF WellFormed
  <2>7. Publish(w, key, out) /\ Finish(w)
    BY <1>6 DEF Redact
  <2> HIDE DEF out, key
  <2> QED BY <2>1, <2>2, <2>4, <2>5, <2>6, <2>7, PublishKeeps
<1>7. ASSUME NEW w \in Workers, RedactFail(w) PROVE IInv'
  <2>1. WellFormed(task[w].packet.env)
    BY <1>0, <1>7 DEF RedactFail, At, TaskInv
  <2>2. TaskInv'
    BY <1>0, <1>7, <2>1, TaskUpdate DEF RedactFail, Reject
  <2>3. UNCHANGED <<mesh, published>>
    BY <1>7 DEF RedactFail
  <2> QED BY <1>0, <2>2, <2>3 DEF IInv, EgressClean, MeshInv
<1>8. CASE Crash \/ \E w \in Workers : Panic(w)
  <2>1. task' = [w \in Workers |-> Idle] /\ UNCHANGED <<mesh, published>>
    BY <1>8 DEF Crash, Panic, Die
  <2>2. TaskInv'
    BY <2>1 DEF TaskInv, Decided, Idle
  <2> QED BY <1>0, <2>1, <2>2 DEF IInv, EgressClean, MeshInv
<1>9. CASE Restart
  BY <1>0, <1>9 DEF Restart, IInv, EgressClean, TaskInv, Decided, MeshInv
<1>10. CASE UNCHANGED vars
  BY <1>0, <1>10 DEF vars, processVars, IInv, EgressClean, TaskInv, Decided, MeshInv
<1> QED BY <1>1, <1>2, <1>3, <1>4, <1>5, <1>6, <1>7, <1>8, <1>9, <1>10 DEF Next, Process

\* The guard is fail-closed: whatever nodes publish, however many goroutines run
\* and wherever the process crashes, only validated TIER-1 packets and scrubbed
\* TIER-2 packets are published.
THEOREM GuardEgressClean == Spec => []EgressClean
<1>1. IInv => EgressClean
  BY DEF IInv
<1> QED BY <1>1, InitIInv, NextIInv, PTL DEF Spec

-----------------------------------------------------------------------------
(* What is published: the output of the policy, computed from a packet the     *)
(* subscription did not skip.                                                  *)

\* Normalize rounds the four numbers of a payload and keeps the rest.
LEMMA NormalizeFields ==
  ASSUME NEW t \in Telemetry
  PROVE  /\ Normalize(t) \in Telemetry
         /\ Normalize(t).lat = RoundTo(t.lat, 10) /\ Normalize(t).lon = RoundTo(t.lon, 10)
         /\ Normalize(t).alt = RoundTo(t.alt, 10) /\ Normalize(t).battery = RoundTo(t.battery, 10)
<1>1. /\ RoundTo(t.lat, 10) \in Int /\ RoundTo(t.lon, 10) \in Int
      /\ RoundTo(t.alt, 10) \in Int /\ RoundTo(t.battery, 10) \in Int
  BY RoundToMultiple DEF Telemetry
<1> QED BY <1>1 DEF Normalize, Telemetry

\* The fields of a sanitized payload.
LEMMA SanitizeFields ==
  ASSUME NEW t \in Telemetry
  PROVE  LET n == Normalize(t)
             s == Sanitize(n)
         IN  /\ s \in Telemetry
             /\ s.lat = RoundTo(n.lat, CoarsenUnit) /\ s.lon = RoundTo(n.lon, CoarsenUnit)
             /\ s.alt = (n.alt \div 50000) * 50000
             /\ s.ids = n.ids /\ s.battery = n.battery
<1> DEFINE n == Normalize(t)
<1>1. n \in Telemetry
  BY NormalizeFields
<1>2. Sanitize(n) \in Telemetry
  BY SanitizeScrubs
<1> HIDE DEF n
<1>3. /\ Sanitize(n).lat = RoundTo(n.lat, CoarsenUnit) /\ Sanitize(n).lon = RoundTo(n.lon, CoarsenUnit)
      /\ Sanitize(n).alt = (n.alt \div 50000) * 50000
      /\ Sanitize(n).ids = n.ids /\ Sanitize(n).battery = n.battery
  BY <1>1 DEF Sanitize, Telemetry
<1> QED BY <1>2, <1>3 DEF n

\* A multiple of a multiple.
LEMMA MultipleOfTen ==
  ASSUME NEW x \in Int, NEW u \in Nat \ {0}, Multiple(u, 10), Multiple(x, u)
  PROVE  Multiple(x, 10)
<1>1. PICK k \in Int : x = k * u
  BY MultipleWitness
<1>2. PICK c \in Int : u = c * 10
  BY MultipleWitness
<1>3. x = (k * c) * 10 /\ k * c \in Int
  BY <1>1, <1>2
<1> QED BY <1>3, ProductIsMultiple

\* Normalize has nothing left to do on a sanitized payload: the digest computed
\* over it is the one a receiver computes.
LEMMA SanitizedIsNormal ==
  ASSUME NEW t \in Telemetry
  PROVE  Normalize(Sanitize(Normalize(t))) = Sanitize(Normalize(t))
<1> DEFINE n == Normalize(t)
           s == Sanitize(n)
<1>1. n \in Telemetry /\ Multiple(n.battery, 10)
  <2>1. Multiple(RoundTo(t.battery, 10), 10)
    BY RoundToMultiple DEF Telemetry
  <2> QED BY <2>1, NormalizeFields
<1>2. /\ s \in Telemetry /\ Scrubbed(s) /\ s.battery = n.battery
  BY SanitizeScrubs, SanitizeFields
<1> HIDE DEF n, s
<1>3. s.lat \in Int /\ s.lon \in Int /\ s.alt \in Int /\ s.battery \in Int
  BY <1>2 DEF Telemetry
<1>4. CoarsenUnit \in Nat \ {0} /\ Multiple(CoarsenUnit, 10)
  BY PolicyAssumption DEF Multiple
<1>5. Multiple(s.lat, 10) /\ Multiple(s.lon, 10)
  BY <1>2, <1>3, <1>4, MultipleOfTen DEF Scrubbed
<1>6. Multiple(s.alt, 10)
  <2>1. Multiple(50000, 10)
    BY DEF Multiple
  <2> QED BY <1>2, <1>3, <2>1, MultipleOfTen DEF Scrubbed
<1>7. /\ RoundTo(s.lat, 10) = s.lat /\ RoundTo(s.lon, 10) = s.lon
      /\ RoundTo(s.alt, 10) = s.alt /\ RoundTo(s.battery, 10) = s.battery
  BY <1>1, <1>2, <1>3, <1>5, <1>6, RoundToFixesGrid
<1>8. Normalize(s) = s
  BY <1>2, <1>7 DEF Normalize, Telemetry
<1> QED BY <1>8 DEF s, n

\* What RedactAndSanitize returns for a valid envelope is valid again, at the edges
\* of the coordinate ranges too: the coarse grid divides them.
LEMMA SanitizedVerifies ==
  ASSUME NEW env, env.telemetry \in Telemetry, Validate(env) = "ok"
  PROVE  Validate(RedactAndSanitize(env)) = "ok"
<1> DEFINE t == env.telemetry
           n == Normalize(t)
           s == Sanitize(n)
           out == RedactAndSanitize(env)
<1>1. t # Nil
  BY NilAssumption
<1>2. ValidateTelemetry(env.digest, n) = "ok" /\ env.header
  BY <1>1 DEF Validate
<1>3. /\ n.ids /\ ~(n.battery < 0 \/ n.battery > 10000)
      /\ InBounds(n.lat, MaxLat) /\ InBounds(n.lon, MaxLon)
  BY <1>2 DEF ValidateTelemetry
<1>4. n \in Telemetry /\ n.lat \in Int /\ n.lon \in Int
  BY NormalizeFields DEF Telemetry
<1>5. /\ s \in Telemetry /\ s.ids = n.ids /\ s.battery = n.battery
      /\ s.lat = RoundTo(n.lat, CoarsenUnit) /\ s.lon = RoundTo(n.lon, CoarsenUnit)
  BY SanitizeFields
<1>6. Normalize(s) = s
  BY SanitizedIsNormal
<1>7. InBounds(s.lat, MaxLat) /\ InBounds(s.lon, MaxLon)
  <2>0. MaxLat \in Nat /\ MaxLon \in Nat
    BY SMT DEF MaxLat, MaxLon
  <2>1. CoarsenUnit \in Nat \ {0} /\ Multiple(MaxLat, CoarsenUnit)
    BY PolicyAssumption DEF Multiple
  <2>2. Multiple(MaxLon, CoarsenUnit)
    <3>1. PICK k \in Int : MaxLat = k * CoarsenUnit
      BY <2>0, <2>1, MultipleWitness
    <3>2. MaxLon = (2 * k) * CoarsenUnit /\ 2 * k \in Int
      BY <2>0, <2>1, <3>1 DEF MaxLon
    <3> QED BY <2>1, <3>2, ProductIsMultiple
  <2> HIDE DEF n, s
  <2>3. InBounds(RoundTo(n.lat, CoarsenUnit), MaxLat)
    BY <1>3, <1>4, <2>0, <2>1, RoundToInBounds
  <2>4. InBounds(RoundTo(n.lon, CoarsenUnit), MaxLon)
    BY <1>3, <1>4, <2>0, <2>1, <2>2, RoundToInBounds
  <2> QED BY <1>5, <2>3, <2>4
<1>8. /\ out.classification = "TIER-1" /\ out.header = env.header /\ out.command = Nil
      /\ out.telemetry = s /\ out.digest = ComputePayloadDigest(s)
  BY DEF RedactAndSanitize
<1> HIDE DEF n, s, out
<1>9. out.digest # Nil /\ out.telemetry # Nil /\ out.classification # Nil
  BY <1>5, <1>8, NilAssumption DEF ComputePayloadDigest, ValidTiers
<1>10. ValidateTelemetry(out.digest, s) = "ok"
  BY <1>3, <1>5, <1>7, <1>8 DEF ValidateTelemetry
<1>11. Validate(out) = ValidateTelemetry(out.digest, Normalize(out.telemetry))
  BY <1>2, <1>8, <1>9 DEF Validate, ValidTiers
<1> QED BY <1>6, <1>8, <1>10, <1>11 DEF out

\* Each goroutine works on a packet the subscription did not skip.
FilterInv == \A w \in Workers : task[w].pc # "idle" => ~Skipped(task[w].packet.key)

\* Each published packet is the output of the policy for a telemetry packet that
\* the subscription did not skip.
OriginInv ==
  \A m \in published :
    /\ m.from.env.telemetry \in Telemetry
    /\ m.env \in {m.from.env, RedactAndSanitize(m.from.env)}
    /\ ~Skipped(m.from.key)

PInv == IInv /\ FilterInv /\ OriginInv

\* Every step keeps the origin of what was published.
LEMMA NextPInv == PInv /\ [Next]_vars => PInv'
<1> SUFFICES ASSUME PInv, [Next]_vars PROVE FilterInv' /\ OriginInv'
  BY NextIInv DEF PInv
<1>0. TaskInv /\ FilterInv /\ OriginInv
  BY DEF PInv, IInv
<1>1. ASSUME NEW w \in Workers, Receive(w) PROVE FilterInv' /\ OriginInv'
  <2>1. PICK p \in mesh :
          \/ UNCHANGED task
          \/ ~Skipped(p.key) /\ task' = [task EXCEPT ![w] = [pc |-> "decide", packet |-> p]]
    BY <1>1 DEF Receive
  <2>2. published' = published
    BY <1>1 DEF Receive
  <2>3. FilterInv'
    BY <1>0, <2>1 DEF FilterInv, TaskInv
  <2> QED BY <1>0, <2>2, <2>3 DEF OriginInv
<1>2. ASSUME NEW w \in Workers, Decide(w) \/ Quarantine(w) \/ RedactFail(w)
      PROVE  FilterInv' /\ OriginInv'
  <2>1. task[w].pc # "idle"
    BY <1>2 DEF Decide, Quarantine, RedactFail, At
  <2>2. PICK t : /\ task' = [task EXCEPT ![w] = t]
                 /\ t.pc # "idle" => t.packet = task[w].packet
    BY <1>2 DEF Decide, Quarantine, RedactFail, Finish, Goto, Reject, Idle
  <2>3. published' = published
    BY <1>2 DEF Decide, Quarantine, RedactFail
  <2>4. FilterInv'
    BY <1>0, <2>1, <2>2 DEF FilterInv, TaskInv
  <2> QED BY <1>0, <2>3, <2>4 DEF OriginInv
<1>3. ASSUME NEW w \in Workers, NEW key, NEW env, Publish(w, key, env), Finish(w),
             task[w].pc # "idle",
             task[w].packet.env.telemetry \in Telemetry,
             env \in {task[w].packet.env, RedactAndSanitize(task[w].packet.env)}
      PROVE  FilterInv' /\ OriginInv'
  <2>1. FilterInv'
    BY <1>0, <1>3 DEF FilterInv, TaskInv, Finish, Idle
  <2>2. ~Skipped(task[w].packet.key)
    BY <1>0, <1>3 DEF FilterInv
  <2>3. CASE published' = published \cup {[from |-> task[w].packet, key |-> key, env |-> env]}
    BY <1>0, <1>3, <2>1, <2>2, <2>3 DEF OriginInv
  <2>4. CASE published' = published
    BY <1>0, <2>1, <2>4 DEF OriginInv
  <2> QED BY <1>3, <2>1, <2>3, <2>4 DEF Publish
<1>4. ASSUME NEW w \in Workers, Pass(w) PROVE FilterInv' /\ OriginInv'
  <2>1. task[w].pc = "pass" /\ task[w].packet.env.telemetry # Nil
    BY <1>4 DEF Pass, At
  <2>2. task[w].packet.env.telemetry \in Telemetry
    BY <1>0, <2>1 DEF TaskInv, Decided, WellFormed
  <2> QED BY <1>3, <1>4, <2>1, <2>2 DEF Pass
<1>5. ASSUME NEW w \in Workers, Redact(w) PROVE FilterInv' /\ OriginInv'
  <2>1. task[w].pc = "redact" /\ task[w].packet.env.telemetry # Nil
    BY <1>5 DEF Redact, At
  <2>2. task[w].packet.env.telemetry \in Telemetry
    BY <1>0, <2>1 DEF TaskInv, Decided, WellFormed
  <2> QED BY <1>3, <1>5, <2>1, <2>2 DEF Redact
<1>6. CASE Crash \/ \E w \in Workers : Panic(w)
  <2>1. task' = [w \in Workers |-> Idle] /\ UNCHANGED published
    BY <1>6 DEF Crash, Panic, Die
  <2> QED BY <1>0, <2>1 DEF FilterInv, OriginInv, Idle
<1>7. CASE Restart \/ UNCHANGED vars \/ \E input \in Inputs : Arrive(input)
  <2>1. UNCHANGED <<task, published>>
    BY <1>7 DEF Restart, vars, processVars, Arrive
  <2> QED BY <1>0, <2>1 DEF FilterInv, OriginInv
<1> QED BY <1>1, <1>2, <1>4, <1>5, <1>6, <1>7 DEF Next, Process

\* In every reachable state the origin of what was published is known.
LEMMA AlwaysPInv == Spec => []PInv
<1>1. Init => PInv
  BY InitIInv DEF Init, PInv, FilterInv, OriginInv, Idle
<1> QED BY <1>1, NextPInv, PTL DEF Spec

\* What leaves the guard passes Validate again: a receiver that recomputes the
\* digest after JSON and Normalize finds the one the guard put in.
THEOREM GuardEgressVerifies == Spec => []EgressVerifies
<1>1. ASSUME PInv PROVE EgressVerifies
  <2> SUFFICES ASSUME NEW m \in published PROVE Validate(m.env) = "ok"
    BY DEF EgressVerifies
  <2>1. /\ Validate(m.from.env) = "ok" /\ m.from.env.telemetry \in Telemetry
        /\ m.env \in {m.from.env, RedactAndSanitize(m.from.env)}
    BY <1>1 DEF PInv, IInv, EgressClean, OriginInv
  <2>2. Validate(RedactAndSanitize(m.from.env)) = "ok"
    BY <2>1, SanitizedVerifies
  <2> QED BY <2>1, <2>2
<1> QED BY <1>1, AlwaysPInv, PTL

\* Coarsening moves the published position by at most half a cell, and the altitude
\* down by less than one step.
THEOREM GuardEgressAccurate == Spec => []EgressAccurate
<1>1. ASSUME PInv PROVE EgressAccurate
  <2> SUFFICES ASSUME NEW m \in published, m.env # m.from.env
               PROVE  LET was == Normalize(m.from.env.telemetry)
                          now == m.env.telemetry
                      IN  /\ InBounds(2 * (now.lat - was.lat), CoarsenUnit)
                          /\ InBounds(2 * (now.lon - was.lon), CoarsenUnit)
                          /\ now.alt <= was.alt /\ was.alt < now.alt + 50000
    BY DEF EgressAccurate
  <2> DEFINE was == Normalize(m.from.env.telemetry)
             now == m.env.telemetry
  <2>1. m.from.env.telemetry \in Telemetry /\ m.env = RedactAndSanitize(m.from.env)
    BY <1>1 DEF PInv, OriginInv
  <2>2. now = Sanitize(was)
    BY <2>1 DEF RedactAndSanitize
  <2>3. /\ now.lat = RoundTo(was.lat, CoarsenUnit) /\ now.lon = RoundTo(was.lon, CoarsenUnit)
        /\ now.alt = (was.alt \div 50000) * 50000
    BY <2>1, <2>2, SanitizeFields
  <2>4. was.lat \in Int /\ was.lon \in Int /\ was.alt \in Int
    BY <2>1, NormalizeFields DEF Telemetry
  <2>5. CoarsenUnit \in Nat \ {0}
    BY PolicyAssumption
  <2> HIDE DEF was, now
  <2>6. /\ InBounds(2 * (RoundTo(was.lat, CoarsenUnit) - was.lat), CoarsenUnit)
        /\ InBounds(2 * (RoundTo(was.lon, CoarsenUnit) - was.lon), CoarsenUnit)
    BY <2>4, <2>5, RoundToNearest
  <2>7. now.alt <= was.alt /\ was.alt < now.alt + 50000
    BY SMT, <2>3, <2>4
  <2> QED BY <2>3, <2>6, <2>7 DEF was, now
<1> QED BY <1>1, AlwaysPInv, PTL

\* The guard does not take up its own sanitized output: it went out on a tier1 key,
\* which the subscription skips.
THEOREM GuardSanitizedLeavesOnce == Spec => []SanitizedLeavesOnce
<1>1. ASSUME PInv PROVE SanitizedLeavesOnce
  <2> SUFFICES ASSUME NEW m \in published, NEW n \in published, m.env # m.from.env
               PROVE  n.from.key # m.key
    BY DEF SanitizedLeavesOnce
  <2>1. m.key.tier = "tier1"
    BY <1>1 DEF PInv, IInv, EgressClean
  <2>2. ~Skipped(n.from.key)
    BY <1>1 DEF PInv, OriginInv
  <2> QED BY <2>1, <2>2 DEF Skipped
<1> QED BY <1>1, AlwaysPInv, PTL

-----------------------------------------------------------------------------
(* Rejection is final.  A packet is at one place at a time: on the mesh, with  *)
(* one goroutine, among the rejected or among the published ones.              *)

Reasons == {"UNAUTHORIZED_SYNTHETIC_TIER", "SCHEMA_VALIDATION_FAILURE", "INVALID_BATTERY_LEVEL",
            "COORDINATES_OUT_OF_BOUNDS", "CRYPTOGRAPHIC_INTEGRITY_COMPROMISED",
            "TIER3_CRITICAL_EGRESS_PROHIBITED", "MALFORMED_JSON_PAYLOAD", "POLICY_VIOLATION_UNKNOWN"}

DLQRecord == [id : Nat, reason : Reasons]

LogInv ==
  /\ auditFile \in Seq(DLQRecord)
  /\ records \in Seq(DLQRecord)
  /\ rejected \in Seq(DLQRecord)
  /\ \A w \in Workers : task[w].pc = "quarantine" => task[w].reason \in Reasons

Ended == RejectedIds \cup EgressedIds

PlaceInv ==
  /\ sent \in Nat
  /\ DOMAIN task = Workers
  /\ \A p \in mesh : p.id \in 1..sent /\ p.id \notin Ended
  /\ \A p, q \in mesh : p.id = q.id => p = q
  /\ \A w \in Busy : /\ task[w].packet.id \in 1..sent
                     /\ task[w].packet.id \notin Ended
                     /\ \A p \in mesh : p.id # task[w].packet.id
  /\ \A v, w \in Busy : task[v].packet.id = task[w].packet.id => v = w
  /\ Ended \subseteq 1..sent

SInv == LogInv /\ PlaceInv /\ FailClosed

\* Every rejection has one of the documented reasons.
LEMMA EvaluateReasons ==
  ASSUME NEW env, Evaluate(env).action = "QUARANTINE"
  PROVE  Evaluate(env).reason \in Reasons
<1>1. ASSUME NEW e PROVE Reason(e) \in Reasons
  BY DEF Reason, Reasons
<1> QED BY <1>1 DEF Evaluate, Quarantined, Reasons

\* A new record in the audit file adds its id.
LEMMA AuditedAfterAppend ==
  ASSUME NEW rec, auditFile \in Seq(DLQRecord), rec \in DLQRecord,
         auditFile' = Append(auditFile, rec)
  PROVE  AuditedIds' = AuditedIds \cup {rec.id}
<1>1. Len(auditFile') = Len(auditFile) + 1 /\ Len(auditFile) \in Nat
  OBVIOUS
<1>2. DOMAIN auditFile = 1..Len(auditFile) /\ DOMAIN auditFile' = 1..(Len(auditFile) + 1)
  BY <1>1
<1>3. /\ \A i \in 1..Len(auditFile) : auditFile'[i] = auditFile[i]
      /\ auditFile'[Len(auditFile) + 1] = rec
  OBVIOUS
<1>4. AuditedIds' = {auditFile'[i].id : i \in 1..(Len(auditFile) + 1)}
  BY <1>2 DEF AuditedIds
<1>5. AuditedIds = {auditFile[i].id : i \in 1..Len(auditFile)}
  BY <1>2 DEF AuditedIds
<1> QED BY <1>1, <1>3, <1>4, <1>5

\* The records and the reasons have their types.
LEMMA NextLogInv == LogInv /\ PlaceInv /\ [Next]_vars => LogInv'
<1> SUFFICES ASSUME LogInv, PlaceInv, DOMAIN task = Workers, [Next]_vars PROVE LogInv'
  BY DEF PlaceInv
<1>1. ASSUME NEW w \in Workers, Receive(w) PROVE LogInv'
  <2>1. UNCHANGED <<auditFile, records, rejected>>
    BY <1>1 DEF Receive
  <2>2. UNCHANGED task \/ \E p : task' = [task EXCEPT ![w] = [pc |-> "decide", packet |-> p]]
    BY <1>1 DEF Receive
  <2> QED BY <2>1, <2>2 DEF LogInv
<1>2. ASSUME NEW w \in Workers, Decide(w) PROVE LogInv'
  <2>1. UNCHANGED <<auditFile, records, rejected>>
    BY <1>2 DEF Decide
  <2>2. \/ \E p : \E pc \in {"pass", "redact"} : task' = [task EXCEPT ![w] = [pc |-> pc, packet |-> p]]
        \/ \E p : \E r \in Reasons : task' = [task EXCEPT ![w] = [pc |-> "quarantine", packet |-> p, reason |-> r]]
    <3>1. CASE task[w].packet.env = Nil
      BY <1>2, <3>1 DEF Decide, Reject, Quarantined, Reasons
    <3>2. CASE task[w].packet.env # Nil
      BY <1>2, <3>2, EvaluateReasons DEF Decide, Reject, Goto
    <3> QED BY <3>1, <3>2
  <2> QED BY <2>1, <2>2 DEF LogInv
<1>3. ASSUME NEW w \in Workers, Quarantine(w) PROVE LogInv'
  <2> DEFINE rec == [id |-> task[w].packet.id, reason |-> task[w].reason]
  <2>1. task[w].pc = "quarantine" /\ w \in Busy
    BY <1>3 DEF Quarantine, At, Busy
  <2>2. rec \in DLQRecord
    <3>1. task[w].packet.id \in Nat /\ task[w].reason \in Reasons
      BY <2>1 DEF LogInv, PlaceInv
    <3> QED BY <3>1 DEF DLQRecord
  <2>3. /\ records' = Recorded(rec) /\ rejected' = Append(rejected, rec)
        /\ auditFile' = Append(auditFile, rec) \/ auditFile' = auditFile
        /\ task' = [task EXCEPT ![w] = Idle]
    BY <1>3 DEF Quarantine, Finish
  <2> HIDE DEF rec
  <2>4. records' \in Seq(DLQRecord)
    <3>1. Capacity \in Nat \ {0}
      BY GuardAssumption DEF Capacity
    <3>2. CASE Len(records) >= Capacity
      <4>1. records # <<>>
        BY <3>1, <3>2 DEF LogInv
      <4>2. Tail(records) \in Seq(DLQRecord)
        BY <4>1 DEF LogInv
      <4> QED BY <2>2, <2>3, <3>2, <4>2 DEF Recorded
    <3>3. CASE ~(Len(records) >= Capacity)
      BY <2>2, <2>3, <3>3 DEF Recorded, LogInv
    <3> QED BY <3>2, <3>3
  <2>5. rejected' \in Seq(DLQRecord) /\ auditFile' \in Seq(DLQRecord)
    <3>1. Append(rejected, rec) \in Seq(DLQRecord) /\ Append(auditFile, rec) \in Seq(DLQRecord)
      BY <2>2 DEF LogInv
    <3> QED BY <2>3, <3>1 DEF LogInv
  <2>6. \A v \in Workers : task'[v].pc = "quarantine" => task'[v].reason \in Reasons
    BY <2>3 DEF LogInv, Idle
  <2> QED BY <2>4, <2>5, <2>6 DEF LogInv
<1>4. ASSUME NEW w \in Workers, RedactFail(w) PROVE LogInv'
  <2>1. UNCHANGED <<auditFile, records, rejected>>
    BY <1>4 DEF RedactFail
  <2>2. \E p : task' = [task EXCEPT ![w] = [pc |-> "quarantine", packet |-> p,
                                           reason |-> "POLICY_VIOLATION_UNKNOWN"]]
    BY <1>4 DEF RedactFail, Reject
  <2> QED BY <2>1, <2>2 DEF LogInv, Reasons
<1>5. ASSUME NEW w \in Workers, Pass(w) \/ Redact(w) PROVE LogInv'
  <2>1. UNCHANGED <<auditFile, records, rejected>> /\ task' = [task EXCEPT ![w] = Idle]
    BY <1>5 DEF Pass, Redact, Finish
  <2> QED BY <2>1 DEF LogInv, Idle
<1>6. CASE Crash \/ \E w \in Workers : Panic(w)
  <2>1. UNCHANGED <<auditFile, records, rejected>> /\ task' = [w \in Workers |-> Idle]
    BY <1>6 DEF Crash, Panic, Die
  <2> QED BY <2>1 DEF LogInv, Idle
<1>7. CASE Restart
  BY <1>7 DEF Restart, LogInv
<1>8. CASE UNCHANGED vars \/ \E input \in Inputs : Arrive(input)
  <2>1. UNCHANGED <<auditFile, records, rejected, task>>
    BY <1>8 DEF vars, processVars, Arrive
  <2> QED BY <2>1 DEF LogInv
<1> QED BY <1>1, <1>2, <1>3, <1>4, <1>5, <1>6, <1>7, <1>8 DEF Next, Process

\* The packet of one goroutine moves on or stays; nothing else changes place.
LEMMA PlaceOfTask ==
  ASSUME PlaceInv, NEW w \in Busy, NEW t,
         task' = [task EXCEPT ![w] = t],
         t.pc # "idle" => t.packet = task[w].packet /\ task[w].packet.id \notin Ended',
         Ended' \subseteq Ended \cup {task[w].packet.id},
         \/ sent' = sent /\ mesh' = mesh
         \/ /\ sent' = sent + 1
            /\ \E q : q.id = sent + 1 /\ mesh' = mesh \cup {q}
  PROVE  PlaceInv'
<1>1. DOMAIN task' = Workers /\ w \in Workers /\ \A v \in Workers : v # w => task'[v] = task[v]
  BY DEF PlaceInv, Busy
<1>2. task'[w] = t
  BY <1>1 DEF PlaceInv
<1>3. \A v \in Busy' : /\ v \in Busy
                       /\ task'[v].packet = task[v].packet
                       /\ v = w => t.pc # "idle"
  BY <1>1, <1>2 DEF Busy
<1>4. sent \in Nat /\ sent' \in Nat /\ 1..sent \subseteq 1..sent' /\ task[w].packet.id \in 1..sent
  BY DEF PlaceInv
<1>5. Ended' \subseteq 1..sent'
  BY <1>4 DEF PlaceInv
<1>6. \A p \in mesh' : p.id \in 1..sent' /\ p.id \notin Ended'
  <2>1. \A p \in mesh : p.id \in 1..sent /\ p.id \notin Ended'
    BY DEF PlaceInv
  <2>2. sent + 1 \notin Ended'
    BY <1>4 DEF PlaceInv
  <2> QED BY <1>4, <2>1, <2>2
<1>7. \A p, q \in mesh' : p.id = q.id => p = q
  <2>1. \A p \in mesh : p.id \in 1..sent
    BY DEF PlaceInv
  <2>2. sent + 1 \notin 1..sent
    BY <1>4
  <2> QED BY <2>1, <2>2 DEF PlaceInv
<1>8. ASSUME NEW v \in Busy'
      PROVE  /\ task'[v].packet.id \in 1..sent'
             /\ task'[v].packet.id \notin Ended'
             /\ \A p \in mesh' : p.id # task'[v].packet.id
  <2>1. v \in Busy /\ task'[v].packet.id = task[v].packet.id /\ task[v].packet.id \in 1..sent
    BY <1>3 DEF PlaceInv
  <2>2. task[v].packet.id \notin Ended'
    <3>1. CASE v = w
      BY <1>3, <3>1
    <3>2. CASE v # w
      BY <2>1, <3>2 DEF PlaceInv
    <3> QED BY <3>1, <3>2
  <2>3. \A p \in mesh' : p.id # task[v].packet.id
    <3>1. sent + 1 # task[v].packet.id
      BY <1>4, <2>1
    <3> QED BY <2>1, <3>1 DEF PlaceInv
  <2> QED BY <1>4, <2>1, <2>2, <2>3
<1>9. \A u, v \in Busy' : task'[u].packet.id = task'[v].packet.id => u = v
  BY <1>3 DEF PlaceInv
<1> QED BY <1>1, <1>4, <1>5, <1>6, <1>7, <1>8, <1>9 DEF PlaceInv

\* A packet that is given up leaves its place and takes no other.
LEMMA PlaceOfRest ==
  ASSUME PlaceInv, mesh' \subseteq mesh, sent' = sent, DOMAIN task' = Workers,
         \A v \in Busy' : v \in Busy /\ task'[v] = task[v],
         Ended' = Ended
  PROVE  PlaceInv'
<1>1. \A p \in mesh' : p.id \in 1..sent' /\ p.id \notin Ended'
  BY DEF PlaceInv
<1>2. \A v \in Busy' : /\ task'[v].packet.id \in 1..sent'
                       /\ task'[v].packet.id \notin Ended'
                       /\ \A p \in mesh' : p.id # task'[v].packet.id
  BY DEF PlaceInv
<1>3. \A u, v \in Busy' : task'[u].packet.id = task'[v].packet.id => u = v
  BY DEF PlaceInv
<1>4. \A p, q \in mesh' : p.id = q.id => p = q
  BY DEF PlaceInv
<1> QED BY <1>1, <1>2, <1>3, <1>4 DEF PlaceInv

\* A goroutine that publishes, or fails to, ends its packet on the egress side.
LEMMA PublishEnds ==
  ASSUME PlaceInv, FailClosed, NEW w \in Busy, NEW key, NEW env, Publish(w, key, env), Finish(w),
         UNCHANGED <<auditFile, unaudited>>
  PROVE  PlaceInv' /\ FailClosed'
<1> DEFINE id == task[w].packet.id
<1>1. RejectedIds' = RejectedIds
  BY DEF RejectedIds, AuditedIds
<1>2. EgressedIds' = EgressedIds \/ EgressedIds' = EgressedIds \cup {id}
  BY DEF Publish, EgressedIds
<1>3. id \notin RejectedIds
  BY DEF PlaceInv, Ended
<1>4. FailClosed'
  BY <1>1, <1>2, <1>3 DEF FailClosed
<1>5. Ended' \subseteq Ended \cup {id}
  BY <1>1, <1>2 DEF Ended
<1>6. \/ sent' = sent /\ mesh' = mesh
      \/ /\ sent' = sent + 1
         /\ \E q : q.id = sent + 1 /\ mesh' = mesh \cup {q}
  BY DEF Publish
<1>7. Idle.pc = "idle" /\ task' = [task EXCEPT ![w] = Idle]
  BY DEF Idle, Finish
<1> HIDE DEF Idle
<1>8. PlaceInv'
  BY <1>5, <1>6, <1>7, PlaceOfTask
<1> QED BY <1>4, <1>8

\* Every step keeps the packets apart and the rejected ones in.
LEMMA NextSInv == SInv /\ [Next]_vars => SInv'
<1> SUFFICES ASSUME SInv, [Next]_vars PROVE PlaceInv' /\ FailClosed'
  BY NextLogInv DEF SInv
<1>0. LogInv /\ PlaceInv /\ FailClosed /\ DOMAIN task = Workers
  BY DEF SInv, PlaceInv
<1>a. ASSUME UNCHANGED <<auditFile, unaudited, published>>
      PROVE  Ended' = Ended /\ FailClosed'
  BY <1>0, <1>a DEF Ended, FailClosed, RejectedIds, EgressedIds, AuditedIds
<1>1. ASSUME NEW input \in Inputs, Arrive(input) PROVE PlaceInv' /\ FailClosed'
  <2>1. /\ UNCHANGED <<auditFile, unaudited, published, task>> /\ sent' = sent + 1
    BY <1>1 DEF Arrive, processVars
  <2>2. PICK q : q.id = sent + 1 /\ mesh' = mesh \cup {q}
    BY <1>1 DEF Arrive
  <2>3. Ended' = Ended /\ FailClosed' /\ Busy' = Busy
    BY <1>a, <2>1 DEF Busy
  <2>4. sent \in Nat /\ \A i \in 1..sent : i \in 1..sent' /\ i # sent + 1
    BY <1>0, <2>1 DEF PlaceInv
  <2>5. Ended \subseteq 1..sent /\ sent + 1 \notin Ended
    BY <1>0, <2>4 DEF PlaceInv
  <2>6. \A p \in mesh' : p.id \in 1..sent' /\ p.id \notin Ended'
    BY <1>0, <2>1, <2>2, <2>3, <2>4, <2>5 DEF PlaceInv
  <2>7. \A p, r \in mesh' : p.id = r.id => p = r
    BY <1>0, <2>2, <2>4 DEF PlaceInv
  <2>8. \A w \in Busy' : /\ task'[w].packet.id \in 1..sent'
                         /\ task'[w].packet.id \notin Ended'
                         /\ \A p \in mesh' : p.id # task'[w].packet.id
    BY <1>0, <2>1, <2>2, <2>3, <2>4 DEF PlaceInv
  <2>9. \A v, w \in Busy' : task'[v].packet.id = task'[w].packet.id => v = w
    BY <1>0, <2>1, <2>3 DEF PlaceInv
  <2> QED BY <1>0, <2>1, <2>3, <2>4, <2>5, <2>6, <2>7, <2>8, <2>9 DEF PlaceInv
<1>2. ASSUME NEW w \in Workers, Receive(w) PROVE PlaceInv' /\ FailClosed'
  <2>1. UNCHANGED <<auditFile, unaudited, published, sent>> /\ w \notin Busy
    BY <1>2 DEF Receive, Busy
  <2>2. PICK p \in mesh :
          /\ mesh' = mesh \ {p}
          /\ UNCHANGED task \/ task' = [task EXCEPT ![w] = [pc |-> "decide", packet |-> p]]
    BY <1>2 DEF Receive
  <2>3. Ended' = Ended /\ FailClosed'
    BY <1>a, <2>1
  <2>4. CASE UNCHANGED task
    <3>1. \A v \in Busy' : v \in Busy /\ task'[v] = task[v]
      BY <2>4 DEF Busy
    <3> QED BY <1>0, <2>1, <2>2, <2>3, <2>4, <3>1, PlaceOfRest
  <2>5. CASE task' = [task EXCEPT ![w] = [pc |-> "decide", packet |-> p]]
    <3>1. /\ DOMAIN task' = Workers /\ task'[w].packet = p
          /\ \A v \in Workers : v # w => task'[v] = task[v]
      BY <1>0, <2>5
    <3>2. \A v \in Busy' : v = w \/ (v \in Busy /\ v # w /\ task'[v].packet = task[v].packet)
      BY <3>1 DEF Busy
    <3>3. \A q \in mesh' : /\ q.id \in 1..sent' /\ q.id \notin Ended'
                           /\ q.id # p.id
      BY <1>0, <2>1, <2>2, <2>3 DEF PlaceInv
    <3>4. \A v \in Busy' : /\ task'[v].packet.id \in 1..sent'
                           /\ task'[v].packet.id \notin Ended'
                           /\ \A q \in mesh' : q.id # task'[v].packet.id
      BY <1>0, <2>1, <2>2, <2>3, <3>1, <3>2, <3>3 DEF PlaceInv
    <3>5. \A u, v \in Busy' : task'[u].packet.id = task'[v].packet.id => u = v
      BY <1>0, <3>1, <3>2 DEF PlaceInv
    <3>6. \A q, r \in mesh' : q.id = r.id => q = r
      BY <1>0, <2>2 DEF PlaceInv
    <3> QED BY <1>0, <2>1, <2>3, <3>1, <3>3, <3>4, <3>5, <3>6 DEF PlaceInv
  <2> QED BY <2>2, <2>3, <2>4, <2>5
<1>3. ASSUME NEW w \in Workers, Decide(w) \/ RedactFail(w) PROVE PlaceInv' /\ FailClosed'
  <2>1. UNCHANGED <<auditFile, unaudited, published, sent, mesh>> /\ w \in Busy
    BY <1>3 DEF Decide, RedactFail, At, Busy
  <2>2. PICK t : task' = [task EXCEPT ![w] = t] /\ t.packet = task[w].packet
    BY <1>3 DEF Decide, RedactFail, Reject, Goto
  <2>3. Ended' = Ended /\ FailClosed'
    BY <1>a, <2>1
  <2>4. task[w].packet.id \notin Ended'
    BY <1>0, <2>1, <2>3 DEF PlaceInv
  <2> QED BY <1>0, <2>1, <2>2, <2>3, <2>4, PlaceOfTask
<1>4. ASSUME NEW w \in Workers, Quarantine(w) PROVE PlaceInv' /\ FailClosed'
  <2> DEFINE id == task[w].packet.id
             rec == [id |-> id, reason |-> task[w].reason]
  <2>1. /\ UNCHANGED <<published, sent, mesh>> /\ w \in Busy /\ task[w].pc = "quarantine"
        /\ task' = [task EXCEPT ![w] = Idle]
    BY <1>4 DEF Quarantine, At, Busy, Finish
  <2>2. rec \in DLQRecord
    <3>1. task[w].packet.id \in Nat /\ task[w].reason \in Reasons
      BY <1>0, <2>1 DEF LogInv, PlaceInv
    <3> QED BY <3>1 DEF DLQRecord
  <2>3. RejectedIds' = RejectedIds \cup {id}
    <3>1. CASE auditFile' = Append(auditFile, rec) /\ UNCHANGED unaudited
      <4>1. AuditedIds' = AuditedIds \cup {rec.id}
        BY <1>0, <2>2, <3>1, AuditedAfterAppend DEF LogInv
      <4> QED BY <3>1, <4>1 DEF RejectedIds
    <3>2. CASE unaudited' = unaudited \cup {id} /\ UNCHANGED auditFile
      BY <3>2 DEF RejectedIds, AuditedIds
    <3> QED BY <1>4, <3>1, <3>2 DEF Quarantine
  <2>4. EgressedIds' = EgressedIds /\ id \notin EgressedIds
    BY <1>0, <2>1 DEF EgressedIds, PlaceInv, Ended
  <2>5. FailClosed' /\ Ended' \subseteq Ended \cup {id}
    BY <1>0, <2>3, <2>4 DEF FailClosed, Ended
  <2>6. Idle.pc = "idle"
    BY DEF Idle
  <2> HIDE DEF Idle
  <2> QED BY <1>0, <2>1, <2>5, <2>6, PlaceOfTask
<1>5. ASSUME NEW w \in Workers, Pass(w) PROVE PlaceInv' /\ FailClosed'
  <2>1. w \in Busy /\ UNCHANGED <<auditFile, unaudited>>
    BY <1>5 DEF Pass, At, Busy
  <2> QED BY <1>0, <1>5, <2>1, PublishEnds DEF Pass
<1>6. ASSUME NEW w \in Workers, Redact(w) PROVE PlaceInv' /\ FailClosed'
  <2>1. w \in Busy /\ UNCHANGED <<auditFile, unaudited>>
    BY <1>6 DEF Redact, At, Busy
  <2> QED BY <1>0, <1>6, <2>1, PublishEnds DEF Redact
<1>7. CASE Crash \/ \E w \in Workers : Panic(w)
  <2>1. /\ UNCHANGED <<auditFile, unaudited, published, sent, mesh>>
        /\ task' = [w \in Workers |-> Idle]
    BY <1>7 DEF Crash, Panic, Die
  <2>2. Busy' = {}
    BY <2>1 DEF Busy, Idle
  <2> QED BY <1>0, <1>a, <2>1, <2>2, PlaceOfRest
<1>8. CASE Restart \/ UNCHANGED vars
  <2>1. /\ UNCHANGED <<auditFile, unaudited, published, sent, task>>
        /\ mesh' \subseteq mesh
    BY <1>8 DEF Restart, vars, processVars
  <2>2. \A v \in Busy' : v \in Busy /\ task'[v] = task[v]
    BY <2>1 DEF Busy
  <2> QED BY <1>0, <1>a, <2>1, <2>2, PlaceOfRest
<1> QED BY <1>1, <1>2, <1>3, <1>4, <1>5, <1>6, <1>7, <1>8 DEF Next, Process

\* In every reachable state each packet is at one place.
LEMMA AlwaysSInv == Spec => []SInv
<1>1. Init => SInv
  <2> SUFFICES ASSUME Init PROVE LogInv /\ PlaceInv /\ FailClosed
    BY DEF SInv
  <2>1. Busy = {} /\ RejectedIds = {} /\ EgressedIds = {}
    BY DEF Init, Busy, Idle, RejectedIds, AuditedIds, EgressedIds
  <2>2. PlaceInv /\ FailClosed
    BY <2>1 DEF Init, PlaceInv, FailClosed, Ended
  <2>3. LogInv
    BY DEF Init, LogInv, Idle
  <2> QED BY <2>2, <2>3
<1> QED BY <1>1, NextSInv, PTL DEF Spec

\* Rejection is final: a packet the guard quarantined, now or before a restart, and
\* whether or not its audit record could be written, is never published.
THEOREM GuardFailClosed == Spec => []FailClosed
<1>1. SInv => FailClosed
  BY DEF SInv
<1> QED BY <1>1, AlwaysSInv, PTL

-----------------------------------------------------------------------------
(* The dead letter queue and the counters *)

\* The ring ends where the list of rejections since the start ends.
RingInv ==
  /\ Len(records) <= Len(rejected)
  /\ \A i \in 1..Len(records) : records[i] = rejected[Len(rejected) - Len(records) + i]

\* Goroutines that have counted their packet in, but not the decision about it; and
\* those that have counted a rejection they have not yet recorded.
Deciding == {w \in Workers : task[w].pc = "decide"}
Quarantining == {w \in Workers : task[w].pc = "quarantine"}

CountInv ==
  /\ stats \in [ingress : Nat, passed : Nat, redacted : Nat, quarantined : Nat]
  /\ failed \in Nat
  /\ IsFiniteSet(Deciding) /\ IsFiniteSet(Quarantining)
  /\ ~up => Busy = {}
  /\ up => /\ stats.ingress + failed =
                 stats.passed + stats.redacted + stats.quarantined + Cardinality(Deciding)
           /\ stats.quarantined = Len(rejected) + Cardinality(Quarantining)

DInv == SInv /\ RingInv /\ CountInv

\* Recording a rejection keeps the ring at the end of the list.
LEMMA RingAfterRecord ==
  ASSUME LogInv, RingInv, NEW rec \in DLQRecord,
         records' = Recorded(rec), rejected' = Append(rejected, rec)
  PROVE  RingInv'
<1> DEFINE n == Len(records)
           r == Len(rejected)
<1>1. n \in Nat /\ r \in Nat /\ n <= r /\ records \in Seq(DLQRecord) /\ rejected \in Seq(DLQRecord)
  BY DEF LogInv, RingInv
<1>2. Len(rejected') = r + 1 /\ rejected'[r + 1] = rec /\ \A i \in 1..r : rejected'[i] = rejected[i]
  BY <1>1
<1>3. \A i \in 1..n : records[i] = rejected[r - n + i]
  BY DEF RingInv
<1>4. CASE n >= Capacity
  <2>1. n >= 1
    <3>1. Capacity \in Nat \ {0}
      BY GuardAssumption DEF Capacity
    <3> QED BY <1>1, <1>4, <3>1
  <2>2. records' = Append(Tail(records), rec)
    BY <1>4 DEF Recorded
  <2>3. /\ Tail(records) \in Seq(DLQRecord) /\ Len(Tail(records)) = n - 1
        /\ \A i \in 1..(n - 1) : Tail(records)[i] = records[i + 1]
    BY <1>1, <2>1
  <2>4. /\ Len(records') = n /\ records'[n] = rec
        /\ \A i \in 1..(n - 1) : records'[i] = records[i + 1]
    BY <1>1, <2>1, <2>2, <2>3
  <2>5. ASSUME NEW i \in 1..n PROVE records'[i] = rejected'[(r + 1) - n + i]
    <3>1. CASE i = n
      BY <1>1, <1>2, <2>4, <3>1
    <3>2. CASE i # n
      <4>1. i + 1 \in 1..n /\ r - n + (i + 1) \in 1..r /\ r - n + (i + 1) = (r + 1) - n + i /\ i \in 1..(n - 1)
        BY <1>1, <2>1, <3>2
      <4> QED BY <1>2, <1>3, <2>4, <4>1
    <3> QED BY <3>1, <3>2
  <2>6. n <= r + 1
    BY <1>1
  <2> HIDE DEF n, r
  <2>7. Len(records') <= Len(rejected')
    BY <1>2, <2>4, <2>6
  <2>8. \A i \in 1..Len(records') : records'[i] = rejected'[Len(rejected') - Len(records') + i]
    <3>1. Len(records') = n /\ Len(rejected') = r + 1
      BY <1>2, <2>4
    <3> QED BY <2>5, <3>1
  <2> QED BY <2>7, <2>8 DEF RingInv
<1>5. CASE ~(n >= Capacity)
  <2>1. records' = Append(records, rec)
    BY <1>5 DEF Recorded
  <2>2. /\ Len(records') = n + 1 /\ records'[n + 1] = rec
        /\ \A i \in 1..n : records'[i] = records[i]
    BY <1>1, <2>1
  <2>3. ASSUME NEW i \in 1..(n + 1) PROVE records'[i] = rejected'[(r + 1) - (n + 1) + i]
    <3>1. CASE i = n + 1
      BY <1>1, <1>2, <2>2, <3>1
    <3>2. CASE i # n + 1
      <4>1. i \in 1..n /\ r - n + i \in 1..r /\ r - n + i = (r + 1) - (n + 1) + i
        BY <1>1, <3>2
      <4> QED BY <1>2, <1>3, <2>2, <4>1
    <3> QED BY <3>1, <3>2
  <2>4. n + 1 <= r + 1
    BY <1>1
  <2> HIDE DEF n, r
  <2>5. Len(records') <= Len(rejected')
    BY <1>2, <2>2, <2>4
  <2>6. \A i \in 1..Len(records') : records'[i] = rejected'[Len(rejected') - Len(records') + i]
    BY <1>2, <2>2, <2>3
  <2> QED BY <2>5, <2>6 DEF RingInv
<1> QED BY <1>4, <1>5

\* A set that changes in at most one element, counted before and after.
LEMMA CountMove ==
  ASSUME NEW before, NEW after, NEW w, IsFiniteSet(before), after \ {w} = before \ {w}
  PROVE  /\ IsFiniteSet(after)
         /\ Cardinality(before) \in Nat /\ Cardinality(after) \in Nat
         /\ w \in before /\ w \notin after => Cardinality(after) = Cardinality(before) - 1
         /\ w \notin before /\ w \in after => Cardinality(after) = Cardinality(before) + 1
         /\ (w \in before <=> w \in after) => after = before
<1>1. w \in before /\ w \notin after => after = before \ {w}
  OBVIOUS
<1>2. w \notin before /\ w \in after => after = before \cup {w}
  OBVIOUS
<1>3. (w \in before <=> w \in after) => after = before
  OBVIOUS
<1>4. /\ IsFiniteSet(before \ {w})
      /\ w \in before => Cardinality(before \ {w}) = Cardinality(before) - 1
  BY FS_RemoveElement
<1>5. /\ IsFiniteSet(before \cup {w})
      /\ w \notin before => Cardinality(before \cup {w}) = Cardinality(before) + 1
  BY FS_AddElement
<1>6. IsFiniteSet(after)
  BY <1>1, <1>2, <1>3, <1>4, <1>5
<1>7. Cardinality(before) \in Nat /\ Cardinality(after) \in Nat
  BY <1>6, FS_CardinalityType
<1> QED BY <1>1, <1>2, <1>3, <1>4, <1>5, <1>6, <1>7

\* Every step keeps the ring and the books of the counters.
LEMMA NextDInv == DInv /\ [Next]_vars => DInv'
<1> SUFFICES ASSUME DInv, [Next]_vars PROVE RingInv' /\ CountInv'
  BY NextSInv DEF DInv
<1>0. SInv /\ LogInv /\ PlaceInv /\ RingInv /\ CountInv /\ DOMAIN task = Workers
  BY DEF DInv, SInv, PlaceInv
<1> DEFINE nD == Cardinality(Deciding)
           nQ == Cardinality(Quarantining)
<1>a. ASSUME UNCHANGED <<records, rejected>> PROVE RingInv'
  BY <1>0, <1>a DEF RingInv
<1>b. ASSUME NEW w \in Workers, NEW t, task' = [task EXCEPT ![w] = t]
      PROVE  /\ IsFiniteSet(Deciding') /\ nD \in Nat /\ nD' \in Nat
             /\ task[w].pc = "decide" /\ t.pc # "decide" => nD' = nD - 1
             /\ task[w].pc # "decide" /\ t.pc = "decide" => nD' = nD + 1
             /\ (task[w].pc = "decide" <=> t.pc = "decide") => nD' = nD
  <2>1. IsFiniteSet(Deciding)
    BY <1>0 DEF CountInv
  <2>2. Deciding' \ {w} = Deciding \ {w}
    BY <1>0, <1>b DEF Deciding
  <2>3. /\ w \in Deciding <=> task[w].pc = "decide"
        /\ w \in Deciding' <=> t.pc = "decide"
    BY <1>0, <1>b DEF Deciding
  <2> QED BY <2>1, <2>2, <2>3, CountMove
<1>c. ASSUME NEW w \in Workers, NEW t, task' = [task EXCEPT ![w] = t]
      PROVE  /\ IsFiniteSet(Quarantining') /\ nQ \in Nat /\ nQ' \in Nat
             /\ task[w].pc = "quarantine" /\ t.pc # "quarantine" => nQ' = nQ - 1
             /\ task[w].pc # "quarantine" /\ t.pc = "quarantine" => nQ' = nQ + 1
             /\ (task[w].pc = "quarantine" <=> t.pc = "quarantine") => nQ' = nQ
  <2>1. IsFiniteSet(Quarantining)
    BY <1>0 DEF CountInv
  <2>2. Quarantining' \ {w} = Quarantining \ {w}
    BY <1>0, <1>c DEF Quarantining
  <2>3. /\ w \in Quarantining <=> task[w].pc = "quarantine"
        /\ w \in Quarantining' <=> t.pc = "quarantine"
    BY <1>0, <1>c DEF Quarantining
  <2> QED BY <2>1, <2>2, <2>3, CountMove
<1>d. /\ stats.ingress \in Nat /\ stats.passed \in Nat /\ stats.redacted \in Nat
      /\ stats.quarantined \in Nat /\ failed \in Nat /\ Len(rejected) \in Nat
  BY <1>0 DEF CountInv, LogInv
<1>1. ASSUME NEW w \in Workers, Receive(w) PROVE RingInv' /\ CountInv'
  <2>1. UNCHANGED <<records, rejected, failed, up>> /\ up /\ task[w].pc = "idle"
    BY <1>1 DEF Receive
  <2>2. CASE UNCHANGED <<task, stats>>
    BY <1>0, <1>a, <2>1, <2>2 DEF CountInv, Deciding, Quarantining, Busy
  <2>3. ASSUME NEW p, task' = [task EXCEPT ![w] = [pc |-> "decide", packet |-> p]],
               stats' = [stats EXCEPT !.ingress = @ + 1]
        PROVE  RingInv' /\ CountInv'
    <3> DEFINE t == [pc |-> "decide", packet |-> p]
    <3>0. t.pc = "decide" /\ task' = [task EXCEPT ![w] = t]
      BY <2>3
    <3> HIDE DEF t
    <3>1. /\ IsFiniteSet(Deciding') /\ nD \in Nat /\ nD' = nD + 1
          /\ IsFiniteSet(Quarantining') /\ nQ \in Nat /\ nQ' = nQ
      BY <1>b, <1>c, <2>1, <3>0
    <3>2. /\ stats' \in [ingress : Nat, passed : Nat, redacted : Nat, quarantined : Nat]
          /\ stats'.ingress = stats.ingress + 1 /\ stats'.passed = stats.passed
          /\ stats'.redacted = stats.redacted /\ stats'.quarantined = stats.quarantined
      BY <1>0, <1>d, <2>3 DEF CountInv
    <3>b. /\ stats.ingress + failed = stats.passed + stats.redacted + stats.quarantined + nD
          /\ stats.quarantined = Len(rejected) + nQ
      BY <1>0, <2>1 DEF CountInv
    <3>c. /\ stats'.ingress + failed' = stats'.passed + stats'.redacted + stats'.quarantined + nD'
          /\ stats'.quarantined = Len(rejected') + nQ'
      <4> HIDE DEF nD, nQ
      <4>1. (stats.ingress + 1) + failed = stats.passed + stats.redacted + stats.quarantined + (nD + 1)
        BY <1>d, <3>1, <3>b
      <4> QED BY <2>1, <3>1, <3>2, <3>b, <4>1
    <3>d. failed' \in Nat
      BY <1>d, <2>1
    <3> QED BY <1>a, <2>1, <3>1, <3>2, <3>c, <3>d DEF CountInv
  <2> QED BY <1>1, <2>2, <2>3 DEF Receive
<1>2. ASSUME NEW w \in Workers, Decide(w) PROVE RingInv' /\ CountInv'
  <2>1. UNCHANGED <<records, rejected, failed, up>> /\ up /\ task[w].pc = "decide"
    BY <1>2 DEF Decide, At
  <2> DEFINE p == task[w].packet
  <2>2. \/ /\ \E reason : task' = [task EXCEPT ![w] = [pc |-> "quarantine", packet |-> p, reason |-> reason]]
           /\ Count("quarantined")
        \/ task' = [task EXCEPT ![w] = [pc |-> "pass", packet |-> p]] /\ Count("passed")
        \/ task' = [task EXCEPT ![w] = [pc |-> "redact", packet |-> p]] /\ Count("redacted")
    BY <1>2 DEF Decide, Reject, Goto
  <2>3. ASSUME NEW t, task' = [task EXCEPT ![w] = t],
               \/ t.pc = "quarantine" /\ Count("quarantined")
               \/ t.pc = "pass" /\ Count("passed")
               \/ t.pc = "redact" /\ Count("redacted")
        PROVE  RingInv' /\ CountInv'
    <3>1. /\ IsFiniteSet(Deciding') /\ nD \in Nat /\ nD' \in Nat /\ nD' = nD - 1
          /\ IsFiniteSet(Quarantining') /\ nQ \in Nat
          /\ nQ' = IF t.pc = "quarantine" THEN nQ + 1 ELSE nQ
      BY <1>b, <1>c, <2>1, <2>3
    <3>2. /\ stats' \in [ingress : Nat, passed : Nat, redacted : Nat, quarantined : Nat]
          /\ stats'.ingress = stats.ingress
          /\ stats'.passed = IF t.pc = "pass" THEN stats.passed + 1 ELSE stats.passed
          /\ stats'.redacted = IF t.pc = "redact" THEN stats.redacted + 1 ELSE stats.redacted
          /\ stats'.quarantined = IF t.pc = "quarantine" THEN stats.quarantined + 1 ELSE stats.quarantined
      BY <1>0, <1>d, <2>3 DEF CountInv, Count
    <3>3. t.pc \in {"pass", "redact", "quarantine"}
      BY <2>3
    <3>b. /\ stats.ingress + failed = stats.passed + stats.redacted + stats.quarantined + nD
          /\ stats.quarantined = Len(rejected) + nQ
      BY <1>0, <2>1 DEF CountInv
    <3>c. /\ stats'.ingress + failed' = stats'.passed + stats'.redacted + stats'.quarantined + nD'
          /\ stats'.quarantined = Len(rejected') + nQ'
      <4> HIDE DEF nD, nQ
      <4>1. /\ stats.ingress + failed = (stats.passed + 1) + stats.redacted + stats.quarantined + (nD - 1)
            /\ stats.ingress + failed = stats.passed + (stats.redacted + 1) + stats.quarantined + (nD - 1)
            /\ stats.ingress + failed = stats.passed + stats.redacted + (stats.quarantined + 1) + (nD - 1)
            /\ stats.quarantined + 1 = Len(rejected) + (nQ + 1)
        BY <1>d, <3>1, <3>b
      <4>2. CASE t.pc = "pass"
        BY <2>1, <3>1, <3>2, <3>b, <4>1, <4>2
      <4>3. CASE t.pc = "redact"
        BY <2>1, <3>1, <3>2, <3>b, <4>1, <4>3
      <4>4. CASE t.pc = "quarantine"
        BY <2>1, <3>1, <3>2, <3>b, <4>1, <4>4
      <4> QED BY <3>3, <4>2, <4>3, <4>4
    <3>d. failed' \in Nat
      BY <1>d, <2>1
    <3> QED BY <1>a, <2>1, <3>1, <3>2, <3>c, <3>d DEF CountInv
  <2>4. ASSUME NEW reason, Count("quarantined"),
               task' = [task EXCEPT ![w] = [pc |-> "quarantine", packet |-> p, reason |-> reason]]
        PROVE  RingInv' /\ CountInv'
    BY <2>3, <2>4
  <2> QED BY <2>2, <2>3, <2>4
<1>3. ASSUME NEW w \in Workers, Quarantine(w) PROVE RingInv' /\ CountInv'
  <2> DEFINE rec == [id |-> task[w].packet.id, reason |-> task[w].reason]
  <2>1. /\ UNCHANGED <<stats, failed, up>> /\ up /\ task[w].pc = "quarantine" /\ w \in Busy
        /\ records' = Recorded(rec) /\ rejected' = Append(rejected, rec)
        /\ task' = [task EXCEPT ![w] = Idle]
    BY <1>3 DEF Quarantine, At, Busy, Finish
  <2>2. rec \in DLQRecord
    <3>1. task[w].packet.id \in Nat /\ task[w].reason \in Reasons
      BY <1>0, <2>1 DEF LogInv, PlaceInv
    <3> QED BY <3>1 DEF DLQRecord
  <2> HIDE DEF rec
  <2>3. RingInv'
    BY <1>0, <2>1, <2>2, RingAfterRecord
  <2>4. Len(rejected') = Len(rejected) + 1
    BY <1>0, <2>1, <2>2 DEF LogInv
  <2>5. Idle.pc = "idle"
    BY DEF Idle
  <2>6. /\ IsFiniteSet(Deciding') /\ nD \in Nat /\ nD' = nD
        /\ IsFiniteSet(Quarantining') /\ nQ \in Nat /\ nQ' = nQ - 1
    BY <1>b, <1>c, <2>1, <2>5
  <2> QED BY <1>0, <1>d, <2>1, <2>3, <2>4, <2>6 DEF CountInv
<1>4. ASSUME NEW w \in Workers, Pass(w) \/ Redact(w) PROVE RingInv' /\ CountInv'
  <2>1. /\ UNCHANGED <<records, rejected, stats, failed, up>> /\ up
        /\ task[w].pc \in {"pass", "redact"} /\ task' = [task EXCEPT ![w] = Idle]
    BY <1>4 DEF Pass, Redact, At, Finish
  <2>2. Idle.pc = "idle"
    BY DEF Idle
  <2>3. /\ IsFiniteSet(Deciding') /\ nD' = nD
        /\ IsFiniteSet(Quarantining') /\ nQ' = nQ
    BY <1>b, <1>c, <2>1, <2>2
  <2> QED BY <1>0, <1>a, <2>1, <2>3 DEF CountInv
<1>5. ASSUME NEW w \in Workers, RedactFail(w) PROVE RingInv' /\ CountInv'
  <2>1. /\ UNCHANGED <<records, rejected, up>> /\ up /\ task[w].pc = "redact"
        /\ failed' = failed + 1 /\ Count("quarantined")
    BY <1>5 DEF RedactFail, At
  <2> DEFINE t == [pc |-> "quarantine", packet |-> task[w].packet, reason |-> "POLICY_VIOLATION_UNKNOWN"]
  <2>2. task' = [task EXCEPT ![w] = t] /\ t.pc = "quarantine"
    BY <1>5 DEF RedactFail, Reject
  <2> HIDE DEF t
  <2>3. /\ IsFiniteSet(Deciding') /\ nD \in Nat /\ nD' = nD
        /\ IsFiniteSet(Quarantining') /\ nQ \in Nat /\ nQ' = nQ + 1
    BY <1>b, <1>c, <2>1, <2>2
  <2>4. /\ stats' \in [ingress : Nat, passed : Nat, redacted : Nat, quarantined : Nat]
        /\ stats'.ingress = stats.ingress /\ stats'.passed = stats.passed
        /\ stats'.redacted = stats.redacted /\ stats'.quarantined = stats.quarantined + 1
    BY <1>0, <1>d, <2>1 DEF CountInv, Count
  <2>b. /\ stats.ingress + failed = stats.passed + stats.redacted + stats.quarantined + nD
        /\ stats.quarantined = Len(rejected) + nQ
    BY <1>0, <2>1 DEF CountInv
  <2>c. /\ stats'.ingress + failed' = stats'.passed + stats'.redacted + stats'.quarantined + nD'
        /\ stats'.quarantined = Len(rejected') + nQ'
    <3> HIDE DEF nD, nQ
    <3>0. nD \in Nat /\ nQ \in Nat
      BY <2>3
    <3>1. stats.ingress + (failed + 1) = stats.passed + stats.redacted + (stats.quarantined + 1) + nD
      <4>1. PICK i \in Nat, f \in Nat, p \in Nat, r \in Nat, q \in Nat, d \in Nat :
              /\ i = stats.ingress /\ f = failed /\ p = stats.passed /\ r = stats.redacted
              /\ q = stats.quarantined /\ d = nD
        BY <1>d, <3>0
      <4>2. i + f = p + r + q + d
        BY <2>b, <4>1
      <4>3. i + (f + 1) = p + r + (q + 1) + d
        BY <4>2
      <4> QED BY <4>1, <4>3
    <3>2. stats.quarantined + 1 = Len(rejected) + (nQ + 1)
      BY <1>d, <2>b, <3>0
    <3> QED BY <2>1, <2>3, <2>4, <3>1, <3>2
  <2>d. failed' \in Nat
    BY <1>d, <2>1
  <2> QED BY <1>a, <2>1, <2>3, <2>4, <2>c, <2>d DEF CountInv
<1>6. CASE Crash \/ \E w \in Workers : Panic(w)
  <2>1. /\ UNCHANGED <<records, rejected, stats, failed>> /\ up' = FALSE
        /\ task' = [w \in Workers |-> Idle]
    BY <1>6 DEF Crash, Panic, Die
  <2>2. Busy' = {} /\ Deciding' = {} /\ Quarantining' = {}
    BY <2>1 DEF Busy, Deciding, Quarantining, Idle
  <2> QED BY <1>0, <1>a, <2>1, <2>2, FS_EmptySet DEF CountInv
<1>7. CASE Restart
  <2>1. /\ ~up /\ UNCHANGED task /\ stats' = ZeroStats /\ records' = <<>> /\ rejected' = <<>>
        /\ failed' = 0 /\ up'
    BY <1>7 DEF Restart
  <2>2. Busy = {} /\ Busy' = {} /\ Deciding' = {} /\ Quarantining' = {}
    BY <1>0, <2>1 DEF Busy, Deciding, Quarantining, CountInv
  <2>3. Cardinality({}) = 0 /\ IsFiniteSet({})
    BY FS_EmptySet
  <2>4. RingInv'
    BY <2>1 DEF RingInv
  <2> QED BY <2>1, <2>2, <2>3, <2>4 DEF CountInv, ZeroStats
<1>8. CASE UNCHANGED vars \/ \E input \in Inputs : Arrive(input)
  <2>1. UNCHANGED <<records, rejected, stats, failed, task, up>>
    BY <1>8 DEF vars, processVars, Arrive
  <2> QED BY <1>0, <1>a, <2>1 DEF CountInv, Deciding, Quarantining, Busy
<1> QED BY <1>1, <1>2, <1>3, <1>4, <1>5, <1>6, <1>7, <1>8 DEF Next, Process

\* In every reachable state the ring and the counters agree with the history.
LEMMA AlwaysDInv == Spec => []DInv
<1>1. ASSUME Init PROVE RingInv /\ CountInv
  <2>1. Busy = {} /\ Deciding = {} /\ Quarantining = {}
    BY <1>1 DEF Init, Busy, Deciding, Quarantining, Idle
  <2>2. RingInv
    BY <1>1 DEF Init, RingInv
  <2> QED BY <1>1, <2>1, <2>2, FS_EmptySet DEF Init, CountInv, ZeroStats
<1>2. DInv /\ [Next]_vars => DInv'
  BY NextDInv
<1>3. Init /\ SInv => DInv
  BY <1>1 DEF DInv
<1> QED BY <1>2, <1>3, AlwaysSInv, PTL DEF Spec

\* What the /dlq endpoint shows, for any limit, is the newest part of what was
\* quarantined since the start, however often the ring has overflowed.
THEOREM GuardDLQShowsNewest == Spec => []DLQShowsNewest
<1>1. ASSUME DInv PROVE DLQShowsNewest
  <2> SUFFICES ASSUME NEW limit \in 0..(Capacity + 1) PROVE IsSuffix(GetRecords(limit), rejected)
    BY DEF DLQShowsNewest
  <2> DEFINE n == Len(records)
             r == Len(rejected)
             k == IF limit <= 0 \/ limit > n THEN n ELSE limit
             s == GetRecords(limit)
  <2>1. /\ records \in Seq(DLQRecord) /\ rejected \in Seq(DLQRecord) /\ n \in Nat /\ r \in Nat
        /\ n <= r /\ \A i \in 1..n : records[i] = rejected[r - n + i]
    BY <1>1 DEF DInv, SInv, LogInv, RingInv
  <2>2. k \in 0..n
    <3>1. Capacity \in Nat
      BY GuardAssumption DEF Capacity
    <3> QED BY <2>1, <3>1
  <2>3. s = SubSeq(records, n - k + 1, n)
    BY DEF GetRecords
  <2> HIDE DEF k, s
  <2>4. /\ s \in Seq(DLQRecord) /\ Len(s) = k
        /\ \A i \in 1..k : s[i] = records[n - k + i]
    <3>1. \A i \in (n - k + 1)..n : records[i] \in DLQRecord
      BY <2>1, <2>2
    <3> QED BY <2>1, <2>2, <2>3, <3>1
  <2>5. /\ Reverse(s) \in Seq(DLQRecord) /\ Len(Reverse(s)) = k
        /\ \A i \in 1..k : Reverse(s)[i] = s[k - i + 1]
    <3>1. \A i \in 1..k : s[k - i + 1] \in DLQRecord
      BY <2>2, <2>4
    <3> QED BY <2>2, <2>4, <3>1 DEF Reverse
  <2>6. /\ Reverse(rejected) \in Seq(DLQRecord) /\ Len(Reverse(rejected)) = r
        /\ \A i \in 1..r : Reverse(rejected)[i] = rejected[r - i + 1]
    <3>1. \A i \in 1..r : rejected[r - i + 1] \in DLQRecord
      BY <2>1
    <3> QED BY <2>1, <3>1 DEF Reverse
  <2>7. ASSUME NEW i \in 1..k PROVE Reverse(s)[i] = Reverse(rejected)[i]
    <3>1. k - i + 1 \in 1..k /\ n - i + 1 \in 1..n /\ n - k + (k - i + 1) = n - i + 1
      BY <2>1, <2>2
    <3>2. r - n + (n - i + 1) = r - i + 1 /\ i \in 1..r
      BY <2>1, <2>2
    <3>3. Reverse(s)[i] = records[n - i + 1]
      BY <2>4, <2>5, <3>1
    <3>4. records[n - i + 1] = rejected[r - i + 1]
      BY <2>1, <3>1, <3>2
    <3> QED BY <2>6, <3>2, <3>3, <3>4
  <2>8. Len(Reverse(s)) <= Len(Reverse(rejected))
    BY <2>1, <2>2, <2>5, <2>6
  <2>9. SubSeq(Reverse(s), 1, k) = SubSeq(Reverse(rejected), 1, k)
    <3> HIDE DEF n, r
    <3> DEFINE a == Reverse(s)
               b == Reverse(rejected)
    <3>1. k \in Nat /\ k <= Len(b) /\ Len(a) = k /\ a \in Seq(DLQRecord) /\ b \in Seq(DLQRecord)
      BY <2>1, <2>2, <2>5, <2>6
    <3>2. \A i \in 1..k : a[i] = b[i]
      BY <2>7
    <3> HIDE DEF a, b
    <3>3. /\ SubSeq(a, 1, k) = [i \in 1..k |-> a[i]]
          /\ SubSeq(b, 1, k) = [i \in 1..k |-> b[i]]
      BY <3>1
    <3>4. [i \in 1..k |-> a[i]] = [i \in 1..k |-> b[i]]
      BY <3>2
    <3>5. SubSeq(a, 1, k) = SubSeq(b, 1, k)
      BY <3>3, <3>4
    <3> QED BY <3>5 DEF a, b
  <2>10. IsPrefix(Reverse(s), Reverse(rejected))
    BY <2>5, <2>8, <2>9 DEF IsPrefix
  <2> QED BY <2>10 DEF IsSuffix, s
<1> QED BY <1>1, AlwaysDInv, PTL

\* When no packet is in work the counters of /stats add up and agree with the
\* number of records made, for any number of goroutines.
THEOREM GuardCountersSettle == Spec => []CountersSettle
<1>1. ASSUME DInv PROVE CountersSettle
  <2> SUFFICES ASSUME up, Busy = {}
               PROVE  /\ stats.ingress + failed = stats.passed + stats.redacted + stats.quarantined
                      /\ stats.quarantined = Len(rejected)
    BY DEF CountersSettle
  <2>1. Deciding = {} /\ Quarantining = {}
    BY DEF Busy, Deciding, Quarantining
  <2>2. Cardinality({}) = 0
    BY FS_EmptySet
  <2>3. /\ stats.ingress + failed = stats.passed + stats.redacted + stats.quarantined + 0
        /\ stats.quarantined = Len(rejected) + 0
    BY <1>1, <2>1, <2>2 DEF DInv, CountInv
  <2>4. /\ stats.passed \in Nat /\ stats.redacted \in Nat /\ stats.quarantined \in Nat
        /\ Len(rejected) \in Nat
    BY <1>1 DEF DInv, SInv, LogInv, CountInv
  <2> QED BY <2>3, <2>4
<1> QED BY <1>1, AlwaysDInv, PTL

\* Every check of Validate counts, for every packet a node may send: what is
\* published comes from an envelope whose header, tier, identifiers, ranges and
\* digest all hold after Normalize.
THEOREM GuardInvalidNeverEgresses == Spec => []InvalidNeverEgresses
<1>1. ASSUME PInv PROVE InvalidNeverEgresses
  <2> SUFFICES ASSUME NEW m \in published PROVE Checked(m.from.env)
    BY DEF InvalidNeverEgresses
  <2> DEFINE env == m.from.env
             t == Normalize(env.telemetry)
  <2>1. /\ Validate(env) = "ok" /\ env.telemetry \in Telemetry
        /\ env.classification \in {"TIER-1", "TIER-2"}
    BY <1>1 DEF PInv, IInv, EgressClean, OriginInv
  <2>2. env.telemetry # Nil
    BY <2>1, NilAssumption
  <2>3. env.header /\ ValidateTelemetry(env.digest, t) = "ok"
    BY <2>1, <2>2 DEF Validate
  <2>4. t.battery \in Int
    BY <2>1, NormalizeFields DEF Telemetry
  <2> HIDE DEF t
  <2>5. t.ids
    BY <2>3 DEF ValidateTelemetry
  <2>6. /\ ~(t.battery < 0) /\ ~(t.battery > 10000)
        /\ InBounds(t.lat, MaxLat) /\ InBounds(t.lon, MaxLon)
        /\ env.digest = ComputePayloadDigest(t)
    BY <2>3 DEF ValidateTelemetry
  <2>7. 0 <= t.battery /\ t.battery <= 10000
    BY <2>4, <2>6
  <2> QED BY <2>1, <2>3, <2>5, <2>6, <2>7 DEF Checked, t
<1> QED BY <1>1, AlwaysPInv, PTL

-----------------------------------------------------------------------------
(* The guard implements the filter.  A packet is pending from the moment it is  *)
(* on the mesh until its goroutine has ended; PlaceInv keeps the pending ones    *)
(* apart, so that one step takes one of them out.                                *)

Working == {task[w].packet : w \in Busy}
Pending == mesh \cup Working
Lost == dropped \cup missed \cup {p.id : p \in ignored}

\* No packet is on the mesh and with a goroutine at the same time.
LEMMA PlacesApart == PlaceInv => mesh \cap Working = {}
BY DEF PlaceInv, Working

\* A goroutine that ends lets go of its packet, and the others keep theirs.
LEMMA WorkingAfterFinish ==
  ASSUME PlaceInv, NEW w \in Busy, Finish(w)
  PROVE  Working' = Working \ {task[w].packet} /\ task[w].packet \in Working
<1>1. /\ w \in Workers /\ DOMAIN task = Workers
      /\ task'[w] = Idle /\ \A v \in Workers : v # w => task'[v] = task[v]
  BY DEF PlaceInv, Busy, Finish
<1>2. Busy' = Busy \ {w}
  BY <1>1 DEF Busy, Idle
<1>3. \A v \in Busy : v # w => task[v].packet # task[w].packet
  BY DEF PlaceInv
<1>4. \A v \in Busy \ {w} : task'[v].packet = task[v].packet
  BY <1>1 DEF Busy
<1>5. Working' = {task[v].packet : v \in Busy \ {w}}
  BY <1>2, <1>4 DEF Working
<1> QED BY <1>3, <1>5 DEF Working

\* A goroutine that goes on keeps its packet.
LEMMA WorkingKept ==
  ASSUME DOMAIN task = Workers, NEW w \in Busy, NEW t, task' = [task EXCEPT ![w] = t],
         t.pc # "idle", t.packet = task[w].packet
  PROVE  Working' = Working
<1>1. w \in Workers /\ task'[w] = t /\ \A v \in Workers : v # w => task'[v] = task[v]
  BY DEF Busy
<1>2. Busy' = Busy
  BY <1>1 DEF Busy
<1>3. \A v \in Busy : task'[v].packet = task[v].packet
  BY <1>1 DEF Busy
<1> QED BY <1>2, <1>3 DEF Working

\* Publish is a release on success and a loss on failure.
LEMMA PublishReleases ==
  ASSUME PlaceInv, NEW w \in Busy, NEW key, NEW env, Publish(w, key, env), Finish(w),
         NEW p, p = task[w].packet,
         MayLeave(p, key, env), UNCHANGED <<RejectedIds, missed, ignored>>
  PROVE  Filter!Next
<1>1. /\ Working' = Working \ {p} /\ p \in Working /\ p \in Pending /\ p \notin mesh
  BY WorkingAfterFinish, PlacesApart DEF Pending
<1>2. CASE /\ sent' = sent + 1
           /\ mesh' = mesh \cup {[id |-> sent + 1, key |-> key, env |-> env, by |-> "guard"]}
           /\ published' = published \cup {[from |-> p, key |-> key, env |-> env]}
           /\ UNCHANGED dropped
  <2> DEFINE q == [id |-> sent + 1, key |-> key, env |-> env, by |-> "guard"]
             m == [from |-> p, key |-> key, env |-> env]
  <2>1. q.id = sent + 1 /\ q.key = key /\ q.env = env /\ mesh' = mesh \cup {q}
    BY <1>2
  <2>2. m.from = p /\ m.key = key /\ m.env = env /\ published' = published \cup {m}
    BY <1>2
  <2> HIDE DEF q, m
  <2>3. Pending' = (Pending \ {p}) \cup {q} /\ q \in Pending'
    BY <1>1, <2>1 DEF Pending
  <2>4. Lost' = Lost
    BY <1>2 DEF Lost
  <2>5. MayLeave(p, m.key, m.env)
    BY <2>2
  <2>6. Filter!Release(p)
    BY <1>2, <2>1, <2>2, <2>3, <2>4, <2>5 DEF Filter!Release, Pending, Working, Lost
  <2> QED BY <1>1, <2>6 DEF Filter!Next, Pending, Working
<1>3. CASE dropped' = dropped \cup {p.id} /\ UNCHANGED <<mesh, sent, published>>
  <2>1. Pending' = Pending \ {p} /\ Pending \ Pending' = {p}
    BY <1>1, <1>3 DEF Pending
  <2>2. Lost' = Lost \cup {x.id : x \in Pending \ Pending'}
    BY <1>3, <2>1 DEF Lost
  <2>3. Pending' \subseteq Pending
    BY <2>1
  <2>4. Filter!Lose
    BY <1>3, <2>2, <2>3 DEF Filter!Lose, Pending, Working, Lost
  <2> QED BY <2>4 DEF Filter!Next
<1> QED BY <1>2, <1>3 DEF Publish

\* Each step of the guard is a step of the filter, or changes nothing it shows.
LEMMA FilterStep == IInv /\ SInv /\ [Next]_vars => [Filter!Next]_(Filter!vars)
<1> SUFFICES ASSUME IInv, SInv, [Next]_vars PROVE [Filter!Next]_(Filter!vars)
  OBVIOUS
<1>0. TaskInv /\ LogInv /\ PlaceInv /\ DOMAIN task = Workers /\ mesh \cap Working = {}
  BY PlacesApart DEF IInv, SInv, PlaceInv
<1>a. ASSUME UNCHANGED <<auditFile, unaudited>> PROVE RejectedIds' = RejectedIds
  BY <1>a DEF RejectedIds, AuditedIds
<1>b. ASSUME UNCHANGED <<sent, published, RejectedIds, Pending, Lost>> PROVE UNCHANGED Filter!vars
  BY <1>b DEF Filter!vars, Pending, Working, Lost
<1>c. ASSUME UNCHANGED <<sent, published, RejectedIds>>, Pending' \subseteq Pending,
             Lost' = Lost \cup {p.id : p \in Pending \ Pending'}
      PROVE  Filter!Next
  <2>1. Filter!Lose
    BY <1>c DEF Filter!Lose, Pending, Working, Lost
  <2> QED BY <2>1 DEF Filter!Next
<1>1. ASSUME NEW input \in Inputs, Arrive(input) PROVE Filter!Next
  <2>1. /\ UNCHANGED <<auditFile, unaudited, published, task, dropped, missed, ignored>>
        /\ sent' = sent + 1
    BY <1>1 DEF Arrive, processVars
  <2>2. PICK q : q.id = sent + 1 /\ mesh' = mesh \cup {q}
    BY <1>1 DEF Arrive
  <2>3. Pending' = Pending \cup {q} /\ q \in Pending' /\ Lost' = Lost
    BY <2>1, <2>2 DEF Pending, Working, Busy, Lost
  <2>4. Filter!Offer
    BY <1>a, <2>1, <2>2, <2>3 DEF Filter!Offer, Pending, Working, Lost
  <2> QED BY <2>4 DEF Filter!Next
<1>2. ASSUME NEW w \in Workers, Receive(w) PROVE [Filter!Next]_(Filter!vars)
  <2>1. UNCHANGED <<auditFile, unaudited, published, sent, dropped, missed>> /\ w \notin Busy
    BY <1>2 DEF Receive, Busy
  <2>2. PICK p \in mesh :
          /\ mesh' = mesh \ {p}
          /\ \/ ignored' = ignored \cup {p} /\ UNCHANGED task
             \/ UNCHANGED ignored /\ task' = [task EXCEPT ![w] = [pc |-> "decide", packet |-> p]]
    BY <1>2 DEF Receive
  <2>3. CASE ignored' = ignored \cup {p} /\ UNCHANGED task
    <3>1. Working' = Working
      BY <2>3 DEF Working, Busy
    <3>2. Pending' = Pending \ {p} /\ Pending \ Pending' = {p}
      BY <1>0, <2>2, <3>1 DEF Pending
    <3>3. Lost' = Lost \cup {x.id : x \in Pending \ Pending'}
      BY <2>1, <2>3, <3>2 DEF Lost
    <3> QED BY <1>a, <1>c, <2>1, <3>2, <3>3
  <2>4. CASE UNCHANGED ignored /\ task' = [task EXCEPT ![w] = [pc |-> "decide", packet |-> p]]
    <3>1. /\ task'[w].pc = "decide" /\ task'[w].packet = p
          /\ \A v \in Workers : v # w => task'[v] = task[v]
      BY <1>0, <2>4
    <3>2. Busy' = Busy \cup {w}
      BY <3>1 DEF Busy
    <3>3. \A v \in Busy : task'[v].packet = task[v].packet
      BY <2>1, <3>1 DEF Busy
    <3>4. Working' = Working \cup {p}
      BY <3>1, <3>2, <3>3 DEF Working
    <3>5. Pending' = Pending /\ Lost' = Lost
      BY <2>1, <2>2, <2>4, <3>4 DEF Pending, Lost
    <3> QED BY <1>a, <1>b, <2>1, <3>5
  <2> QED BY <2>2, <2>3, <2>4
<1>3. ASSUME NEW w \in Workers, Decide(w) \/ RedactFail(w) PROVE UNCHANGED Filter!vars
  <2>1. /\ UNCHANGED <<auditFile, unaudited, published, sent, mesh, dropped, missed, ignored>>
        /\ w \in Busy
    BY <1>3 DEF Decide, RedactFail, At, Busy
  <2>2. \/ \E reason : task' = [task EXCEPT ![w] = [pc |-> "quarantine", packet |-> @.packet, reason |-> reason]]
        \/ \E pc \in {"pass", "redact"} : task' = [task EXCEPT ![w] = [pc |-> pc, packet |-> @.packet]]
    BY <1>3 DEF Decide, RedactFail, Reject, Goto
  <2>3. Working' = Working
    BY <1>0, <2>1, <2>2, WorkingKept
  <2>4. Pending' = Pending /\ Lost' = Lost
    BY <2>1, <2>3 DEF Pending, Lost
  <2> QED BY <1>a, <1>b, <2>1, <2>4
<1>4. ASSUME NEW w \in Workers, Quarantine(w) PROVE Filter!Next
  <2> DEFINE rec == [id |-> task[w].packet.id, reason |-> task[w].reason]
  <2>1. /\ UNCHANGED <<published, sent, mesh, dropped, missed, ignored>> /\ w \in Busy
        /\ task[w].pc = "quarantine" /\ Finish(w)
    BY <1>4 DEF Quarantine, At, Busy
  <2>2. PICK p : p = task[w].packet
    OBVIOUS
  <2>3. rec \in DLQRecord /\ rec.id = p.id
    <3>1. task[w].packet.id \in Nat /\ task[w].reason \in Reasons
      BY <1>0, <2>1 DEF LogInv, PlaceInv
    <3> QED BY <2>2, <3>1 DEF DLQRecord
  <2>4. RejectedIds' = RejectedIds \cup {p.id}
    <3>1. CASE auditFile' = Append(auditFile, rec) /\ UNCHANGED unaudited
      <4>1. AuditedIds' = AuditedIds \cup {rec.id}
        BY <1>0, <2>3, <3>1, AuditedAfterAppend DEF LogInv
      <4> QED BY <2>3, <3>1, <4>1 DEF RejectedIds
    <3>2. CASE unaudited' = unaudited \cup {p.id} /\ UNCHANGED auditFile
      BY <3>2 DEF RejectedIds, AuditedIds
    <3> QED BY <1>4, <2>2, <3>1, <3>2 DEF Quarantine
  <2>5. Working' = Working \ {p} /\ p \in Working
    BY <1>0, <2>1, <2>2, WorkingAfterFinish
  <2>6. Pending' = Pending \ {p} /\ p \in Pending /\ Lost' = Lost
    BY <1>0, <2>1, <2>5 DEF Pending, Lost
  <2>7. Filter!Withhold(p)
    BY <2>1, <2>4, <2>6 DEF Filter!Withhold, Pending, Working, Lost
  <2> QED BY <2>6, <2>7 DEF Filter!Next, Pending, Working
<1>5. ASSUME NEW w \in Workers, Pass(w) \/ Redact(w) PROVE Filter!Next
  <2>1. /\ UNCHANGED <<auditFile, unaudited, missed, ignored>> /\ w \in Busy /\ Finish(w)
    BY <1>5 DEF Pass, Redact, At, Busy
  <2>2. PICK p : p = task[w].packet
    OBVIOUS
  <2>3. UNCHANGED <<RejectedIds, missed, ignored>>
    BY <1>a, <2>1
  <2>4. CASE Pass(w)
    <3>1. p.env # Nil /\ Evaluate(p.env).action = "PASS"
      BY <1>0, <2>2, <2>4 DEF Pass, At, TaskInv, Decided
    <3>2. MayLeave(p, p.key, p.env)
      BY <3>1, EvaluateIsFailClosed DEF MayLeave
    <3>3. Publish(w, p.key, p.env)
      BY <2>2, <2>4 DEF Pass
    <3> QED BY <1>0, <2>1, <2>2, <2>3, <3>2, <3>3, PublishReleases
  <2>5. CASE Redact(w)
    <3>1. p.env # Nil /\ Evaluate(p.env).action = "REDACT_AND_PASS"
      BY <1>0, <2>2, <2>5 DEF Redact, At, TaskInv, Decided
    <3>2. MayLeave(p, DownTag(p.key), RedactAndSanitize(p.env))
      BY <3>1, EvaluateIsFailClosed DEF MayLeave
    <3>3. Publish(w, DownTag(p.key), RedactAndSanitize(p.env))
      BY <2>2, <2>5 DEF Redact
    <3> QED BY <1>0, <2>1, <2>2, <2>3, <3>2, <3>3, PublishReleases
  <2> QED BY <1>5, <2>4, <2>5
<1>6. CASE Crash \/ \E w \in Workers : Panic(w)
  <2>1. /\ UNCHANGED <<auditFile, unaudited, published, sent, mesh, missed, ignored>>
        /\ task' = [w \in Workers |-> Idle] /\ dropped' = dropped \cup InFlight
    BY <1>6 DEF Crash, Panic, Die
  <2>2. Busy' = {}
    BY <2>1 DEF Busy, Idle
  <2>3. Working' = {}
    BY <2>2 DEF Working
  <2>4. Pending' \subseteq Pending /\ Pending \ Pending' = Working
    BY <1>0, <2>1, <2>3 DEF Pending
  <2>5. InFlight = {p.id : p \in Working}
    BY DEF InFlight, Working
  <2>6. Lost' = Lost \cup {p.id : p \in Pending \ Pending'}
    BY <2>1, <2>4, <2>5 DEF Lost
  <2> QED BY <1>a, <1>c, <2>1, <2>4, <2>6
<1>7. CASE Restart
  <2>1. /\ UNCHANGED <<auditFile, unaudited, published, sent, task, dropped, ignored>>
        /\ mesh' = {} /\ missed' = missed \cup {p.id : p \in mesh}
    BY <1>7 DEF Restart
  <2>2. Working' = Working
    BY <2>1 DEF Working, Busy
  <2>3. Pending' \subseteq Pending /\ Pending \ Pending' = mesh
    BY <1>0, <2>1, <2>2 DEF Pending
  <2>4. Lost' = Lost \cup {p.id : p \in Pending \ Pending'}
    BY <2>1, <2>3 DEF Lost
  <2> QED BY <1>a, <1>c, <2>1, <2>3, <2>4
<1>8. CASE UNCHANGED vars
  <2>1. UNCHANGED <<auditFile, unaudited, published, sent, mesh, task, dropped, missed, ignored>>
    BY <1>8 DEF vars, processVars
  <2>2. Pending' = Pending /\ Lost' = Lost
    BY <2>1 DEF Pending, Working, Busy, Lost
  <2> QED BY <1>a, <1>b, <2>1, <2>2
<1> QED BY <1>1, <1>2, <1>3, <1>4, <1>5, <1>6, <1>7, <1>8 DEF Next, Process

\* Every packet on the mesh has one outcome: it is published once, in the form the
\* policy gives it, or recorded as rejected, or lost, for any number of goroutines
\* and wherever the process ends.
THEOREM GuardImplementsFilter == Spec => ImplementsFilter
<1>1. Init => Filter!Init
  <2> SUFFICES ASSUME Init PROVE Filter!Init
    OBVIOUS
  <2>1. Busy = {} /\ RejectedIds = {}
    BY DEF Init, Busy, Idle, RejectedIds, AuditedIds
  <2> QED BY <2>1 DEF Init, Filter!Init
<1>2. Spec => [](IInv /\ SInv)
  <2>1. Spec => []IInv
    BY InitIInv, NextIInv, PTL DEF Spec
  <2> QED BY <2>1, AlwaysSInv, PTL
<1> QED BY <1>1, <1>2, FilterStep, PTL DEF Spec, ImplementsFilter, Filter!Spec

-----------------------------------------------------------------------------
(* What follows from the filter alone, and thereby holds of the guard *)

Waiting == {p.id : p \in Pending}
Away == RejectedIds \cup Lost

Outcome ==
  /\ sent \in Nat
  /\ 1..sent = Waiting \cup EgressedIds \cup Away
  /\ Waiting \cap (EgressedIds \cup Away) = {}
  /\ EgressedIds \cap Away = {}
  /\ RejectedIds \cap Lost = {}
  /\ \A p, q \in Pending : p.id = q.id => p = q
  /\ \A m, n \in published : m.from.id = n.from.id => m = n

\* A packet that leaves the pending ones leaves its number to one outcome.
LEMMA OneLeaves ==
  ASSUME NEW p \in Pending, \A x, y \in Pending : x.id = y.id => x = y
  PROVE  {x.id : x \in Pending \ {p}} = Waiting \ {p.id} /\ p.id \in Waiting
BY DEF Waiting

\* The steps of the filter keep the outcomes apart.
LEMMA OutcomeStep == Outcome /\ [Filter!Next]_(Filter!vars) => Outcome'
<1> SUFFICES ASSUME Outcome, [Filter!Next]_(Filter!vars) PROVE Outcome'
  OBVIOUS
<1>0. sent \in Nat /\ sent + 1 \notin 1..sent /\ 1..(sent + 1) = 1..sent \cup {sent + 1}
  BY DEF Outcome
<1>1. CASE Filter!Offer
  <2>1. /\ sent' = sent + 1 /\ UNCHANGED <<published, RejectedIds, Lost>>
        /\ \E p : p.id = sent + 1 /\ Pending' = Pending \cup {p}
    BY <1>1 DEF Filter!Offer, Pending, Working, Lost
  <2>2. PICK p : p.id = sent + 1 /\ Pending' = Pending \cup {p}
    BY <2>1
  <2>3. Waiting' = Waiting \cup {sent + 1}
    BY <2>2 DEF Waiting
  <2>4. EgressedIds' = EgressedIds /\ Away' = Away
    BY <2>1 DEF EgressedIds, Away
  <2>5. \A x \in Pending : x.id # sent + 1
    BY <1>0 DEF Outcome, Waiting
  <2>6. \A x, y \in Pending' : x.id = y.id => x = y
    BY <2>2, <2>5 DEF Outcome
  <2>7. 1..sent' = Waiting' \cup EgressedIds' \cup Away' /\ sent' \in Nat
    BY <1>0, <2>1, <2>3, <2>4 DEF Outcome
  <2>8. Waiting' \cap (EgressedIds' \cup Away') = {}
    BY <1>0, <2>3, <2>4 DEF Outcome
  <2> QED BY <2>1, <2>4, <2>6, <2>7, <2>8 DEF Outcome
<1>2. CASE Filter!Lose
  <2>1. /\ UNCHANGED <<sent, published, RejectedIds>> /\ Pending' \subseteq Pending
        /\ Lost' = Lost \cup {p.id : p \in Pending \ Pending'}
    BY <1>2 DEF Filter!Lose, Pending, Working, Lost
  <2> DEFINE gone == {p.id : p \in Pending \ Pending'}
  <2>2. Waiting = Waiting' \cup gone
    BY <2>1 DEF Waiting
  <2>3. Waiting' \cap gone = {}
    BY <2>1 DEF Waiting, Outcome
  <2>4. Lost' = Lost \cup gone
    BY <2>1
  <2> HIDE DEF gone
  <2>5. EgressedIds' = EgressedIds /\ Away' = Away \cup gone
    BY <2>1, <2>4 DEF EgressedIds, Away
  <2>6. 1..sent' = Waiting' \cup EgressedIds' \cup Away' /\ sent' \in Nat
    BY <1>0, <2>1, <2>2, <2>5 DEF Outcome
  <2>7. /\ Waiting' \cap (EgressedIds' \cup Away') = {}
        /\ EgressedIds' \cap Away' = {}
    BY <2>2, <2>3, <2>5 DEF Outcome
  <2>8. RejectedIds' \cap Lost' = {}
    BY <2>1, <2>2, <2>4 DEF Outcome, Away
  <2>9. \A x, y \in Pending' : x.id = y.id => x = y
    BY <2>1 DEF Outcome
  <2> QED BY <2>1, <2>6, <2>7, <2>8, <2>9 DEF Outcome
<1>3. ASSUME NEW p \in Pending, Filter!Release(p) PROVE Outcome'
  <2>1. /\ sent' = sent + 1 /\ UNCHANGED <<RejectedIds, Lost>>
        /\ \E m : m.from = p /\ published' = published \cup {m}
        /\ \E q : q.id = sent + 1 /\ Pending' = (Pending \ {p}) \cup {q}
    BY <1>3 DEF Filter!Release, Pending, Working, Lost
  <2>2. PICK m : m.from = p /\ published' = published \cup {m}
    BY <2>1
  <2>3. PICK q : q.id = sent + 1 /\ Pending' = (Pending \ {p}) \cup {q}
    BY <2>1
  <2>4. {x.id : x \in Pending \ {p}} = Waiting \ {p.id} /\ p.id \in Waiting
    BY OneLeaves DEF Outcome
  <2>5. Waiting' = {x.id : x \in Pending \ {p}} \cup {sent + 1}
    BY <2>3 DEF Waiting
  <2>6. EgressedIds' = EgressedIds \cup {p.id}
    BY <2>2 DEF EgressedIds
  <2>7. Away' = Away
    BY <2>1 DEF Away
  <2>8. 1..sent' = Waiting' \cup EgressedIds' \cup Away' /\ sent' \in Nat
    BY <1>0, <2>1, <2>4, <2>5, <2>6, <2>7 DEF Outcome
  <2>9. /\ Waiting' \cap (EgressedIds' \cup Away') = {}
        /\ EgressedIds' \cap Away' = {}
    BY <1>0, <2>4, <2>5, <2>6, <2>7 DEF Outcome
  <2>10. \A x, y \in Pending' : x.id = y.id => x = y
    <3>1. \A x \in Pending : x.id # sent + 1
      BY <1>0 DEF Outcome, Waiting
    <3> QED BY <2>3, <3>1 DEF Outcome
  <2>11. \A k, n \in published' : k.from.id = n.from.id => k = n
    <3>1. \A k \in published : k.from.id # p.id
      BY <2>4 DEF Outcome, EgressedIds
    <3> QED BY <2>2, <3>1 DEF Outcome
  <2> QED BY <2>1, <2>8, <2>9, <2>10, <2>11 DEF Outcome
<1>4. ASSUME NEW p \in Pending, Filter!Withhold(p) PROVE Outcome'
  <2>1. /\ UNCHANGED <<sent, published, Lost>> /\ Pending' = Pending \ {p}
        /\ RejectedIds' = RejectedIds \cup {p.id}
    BY <1>4 DEF Filter!Withhold, Pending, Working, Lost
  <2>2. Waiting' = {x.id : x \in Pending \ {p}}
    BY <2>1 DEF Waiting
  <2>3. Waiting' = Waiting \ {p.id} /\ p.id \in Waiting
    BY <2>2, OneLeaves DEF Outcome
  <2>4. EgressedIds' = EgressedIds /\ Away' = Away \cup {p.id}
    BY <2>1 DEF EgressedIds, Away
  <2>5. 1..sent' = Waiting' \cup EgressedIds' \cup Away' /\ sent' \in Nat
    BY <1>0, <2>1, <2>3, <2>4 DEF Outcome
  <2>6. /\ Waiting' \cap (EgressedIds' \cup Away') = {}
        /\ EgressedIds' \cap Away' = {}
    BY <2>3, <2>4 DEF Outcome
  <2>7. RejectedIds' \cap Lost' = {}
    BY <2>1, <2>3 DEF Outcome, Away
  <2>8. \A x, y \in Pending' : x.id = y.id => x = y
    BY <2>1 DEF Outcome
  <2> QED BY <2>1, <2>5, <2>6, <2>7, <2>8 DEF Outcome
<1>5. CASE UNCHANGED Filter!vars
  <2>1. UNCHANGED <<sent, published, RejectedIds, Pending, Lost>>
    BY <1>5 DEF Filter!vars, Pending, Working, Lost
  <2>2. UNCHANGED <<Waiting, EgressedIds, Away>>
    BY <2>1 DEF Waiting, EgressedIds, Away
  <2> QED BY <2>1, <2>2 DEF Outcome
<1> QED BY <1>1, <1>2, <1>3, <1>4, <1>5 DEF Filter!Next, Pending, Working

\* No packet is forgotten and none has two fates, on any path through ProcessPacket and
\* wherever the process ends.  It follows from the refinement: the filter's steps keep
\* it, so the guard's do.
THEOREM GuardOneOutcome == Spec => []OneOutcome
<1>1. Init => Outcome
  <2> SUFFICES ASSUME Init PROVE Outcome
    OBVIOUS
  <2>1. Busy = {} /\ RejectedIds = {} /\ EgressedIds = {} /\ sent = 0 /\ published = {}
    BY DEF Init, Busy, Idle, RejectedIds, AuditedIds, EgressedIds
  <2>2. Pending = {} /\ Lost = {}
    BY <2>1 DEF Init, Pending, Working, Lost
  <2>3. Waiting = {} /\ Away = {} /\ 1..0 = {}
    BY <2>1, <2>2 DEF Waiting, Away
  <2> QED BY <2>1, <2>2, <2>3 DEF Outcome
<1>2. Spec => [][Filter!Next]_(Filter!vars)
  BY GuardImplementsFilter, PTL DEF ImplementsFilter, Filter!Spec
<1>3. Spec => []Outcome
  BY <1>1, <1>2, OutcomeStep, PTL DEF Spec
<1>4. Outcome => OneOutcome
  BY DEF Outcome, OneOutcome, Filter!OneOutcome, Filter!Waiting, Filter!Through,
         Waiting, Pending, Working, EgressedIds, Away, Lost
<1> QED BY <1>3, <1>4, PTL

=============================================================================
