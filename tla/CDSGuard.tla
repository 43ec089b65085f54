------------------------------ MODULE CDSGuard ------------------------------
(***************************************************************************)
(* The Cross Domain Solution guard (cmd/cds-guard/main.go) with its dead    *)
(* letter queue (pkg/policy/dlq.go), on a mesh that may deliver packets in  *)
(* any order and to several goroutines at a time (MemoryBus runs one per    *)
(* delivery; the REST client calls the handler serially, which is the case  *)
(* of one worker).                                                          *)
(*                                                                          *)
(* ProcessPacket is cut where another goroutine or a crash can see the      *)
(* difference: at its atomic counters, at the locked Quarantine and at      *)
(* Publish.                                                                 *)
(***************************************************************************)
EXTENDS Policy, Sequences, FiniteSets, SequencesExt

CONSTANTS
  Inputs,       \* the packets other nodes may publish: [key, env]
  Workers,      \* goroutines that may run ProcessPacket at a time
  MaxCapacity,  \* the maxCapacity argument of NewDeadLetterQueue
  MaxPackets,   \* bound: packets on the mesh, republished ones included
  MaxCrashes    \* bound: crashes of the guard process

ASSUME GuardAssumption ==
  /\ MaxCapacity \in Int
  /\ MaxPackets \in Nat
  /\ MaxCrashes \in Nat
  /\ \A input \in Inputs : input.env # Nil => input.env.telemetry \in Telemetry \cup {Nil}

VARIABLES
  mesh,       \* packets on their way to the guard's subscription on sec/**
  sent,       \* number of packets put on the mesh so far
  task,       \* per goroutine: where ProcessPacket is, and with which packet
  stats,      \* guard.stats
  records,    \* dlq.records: the ring, oldest first
  auditFile,  \* the records in the JSONL audit log, across restarts
  up,         \* whether the guard process is running
  crashes,    \* crashes so far
  published,  \* history: what the guard put on the mesh, with the packet it came from
  rejected,   \* history: records made by Quarantine since the process started
  unaudited,  \* history: rejected ids whose audit write failed
  dropped,    \* history: ids of accepted packets that neither egressed nor were rejected
  ignored,    \* history: packets the subscription callback skipped
  missed,     \* history: ids of packets that arrived while the process was down
  failed      \* history: redaction failures since the process started

processVars == <<task, stats, records, rejected, failed>>
vars == <<mesh, sent, processVars, auditFile, up, crashes, published, unaudited, dropped, ignored, missed>>

-----------------------------------------------------------------------------

\* NewDeadLetterQueue replaces a non-positive capacity by 1000.
Capacity == IF MaxCapacity <= 0 THEN 1000 ELSE MaxCapacity

ZeroStats == [ingress |-> 0, passed |-> 0, redacted |-> 0, quarantined |-> 0]

Idle == [pc |-> "idle"]

Init ==
  /\ mesh = {}
  /\ sent = 0
  /\ task = [w \in Workers |-> Idle]
  /\ stats = ZeroStats
  /\ records = <<>>
  /\ auditFile = <<>>
  /\ up = TRUE
  /\ crashes = 0
  /\ published = {}
  /\ rejected = <<>>
  /\ unaudited = {}
  /\ dropped = {}
  /\ ignored = {}
  /\ missed = {}
  /\ failed = 0

Busy == {w \in Workers : task[w].pc # "idle"}
InFlight == {task[w].packet.id : w \in Busy}

-----------------------------------------------------------------------------
(* The mesh *)

\* Another node publishes a packet.
Arrive(input) ==
  /\ sent < MaxPackets
  /\ sent' = sent + 1
  /\ mesh' = mesh \cup {[id |-> sent + 1, key |-> input.key, env |-> input.env, by |-> "node"]}
  /\ UNCHANGED <<processVars, auditFile, up, crashes, published, unaudited, dropped, ignored, missed>>

\* Mutation of Skipped: sanitized packets are not recognized.
Skipped_CommandsOnly(key) == key.stream = "command"

\* The subscription callback skips sanitized packets and commands.
Skipped(key) == key.tier = "tier1" \/ key.stream = "command"

\* The callback runs: ProcessPacket starts and counts the packet, or it is skipped.
Receive(w) ==
  /\ up
  /\ task[w].pc = "idle"
  /\ \E p \in mesh :
       /\ mesh' = mesh \ {p}
       /\ IF Skipped(p.key)
          THEN /\ ignored' = ignored \cup {p}
               /\ UNCHANGED <<task, stats>>
          ELSE /\ task' = [task EXCEPT ![w] = [pc |-> "decide", packet |-> p]]
               /\ stats' = [stats EXCEPT !.ingress = @ + 1]
               /\ UNCHANGED ignored
  /\ UNCHANGED <<sent, records, rejected, failed, auditFile, up, crashes, published, unaudited, dropped, missed>>

-----------------------------------------------------------------------------
(* ProcessPacket *)

At(w, pc) == up /\ task[w].pc = pc
Goto(w, pc) == task' = [task EXCEPT ![w] = [pc |-> pc, packet |-> @.packet]]
Reject(w, reason) ==
  task' = [task EXCEPT ![w] = [pc |-> "quarantine", packet |-> @.packet, reason |-> reason]]
Finish(w) == task' = [task EXCEPT ![w] = Idle]
Count(counter) == stats' = [stats EXCEPT ![counter] = @ + 1]

\* Steps 1 and 2: parse, evaluate, and count the decision.
Decide(w) ==
  /\ At(w, "decide")
  /\ LET env == task[w].packet.env
         verdict == IF env = Nil THEN Quarantined("MALFORMED_JSON_PAYLOAD") ELSE Evaluate(env)
     IN  \/ verdict.action = "QUARANTINE" /\ Count("quarantined") /\ Reject(w, verdict.reason)
         \/ verdict.action = "PASS" /\ Count("passed") /\ Goto(w, "pass")
         \/ verdict.action = "REDACT_AND_PASS" /\ Count("redacted") /\ Goto(w, "redact")
  /\ UNCHANGED <<mesh, sent, records, rejected, failed, auditFile, up, crashes, published,
                 unaudited, dropped, ignored, missed>>

\* Mutation of Recorded: a full ring drops the newest record.
Recorded_KeepsOld(rec) == IF Len(records) >= Capacity THEN records ELSE Append(records, rec)

\* The ring of the dead letter queue after Quarantine.
Recorded(rec) == Append(IF Len(records) >= Capacity THEN Tail(records) ELSE records, rec)

\* DeadLetterQueue.Quarantine, under its mutex; errors of the audit write are discarded.
Quarantine(w) ==
  /\ At(w, "quarantine")
  /\ LET id == task[w].packet.id
         rec == [id |-> id, reason |-> task[w].reason]
     IN  /\ records' = Recorded(rec)
         /\ rejected' = Append(rejected, rec)
         /\ \/ auditFile' = Append(auditFile, rec) /\ UNCHANGED unaudited
            \/ unaudited' = unaudited \cup {id} /\ UNCHANGED auditFile
  /\ Finish(w)
  /\ UNCHANGED <<mesh, sent, stats, failed, up, crashes, published, dropped, ignored, missed>>

\* GetRecords: the newest limit records, all of them for a limit out of range.
GetRecords(limit) ==
  LET n == Len(records)
      k == IF limit <= 0 \/ limit > n THEN n ELSE limit
  IN  SubSeq(records, n - k + 1, n)

\* Bus.Publish: the packet reaches the mesh, the guard's own subscription
\* included, or the call fails and the error is only logged.
Publish(w, key, env) ==
  \/ /\ sent < MaxPackets
     /\ sent' = sent + 1
     /\ mesh' = mesh \cup {[id |-> sent + 1, key |-> key, env |-> env, by |-> "guard"]}
     /\ published' = published \cup {[from |-> task[w].packet, key |-> key, env |-> env]}
     /\ UNCHANGED dropped
  \/ /\ dropped' = dropped \cup {task[w].packet.id}
     /\ UNCHANGED <<mesh, sent, published>>

\* Case ActionPass: the raw packet goes out on the key it came from.
Pass(w) ==
  /\ At(w, "pass")
  /\ task[w].packet.env.telemetry # Nil
  /\ Publish(w, task[w].packet.key, task[w].packet.env)
  /\ Finish(w)
  /\ UNCHANGED <<stats, records, rejected, failed, auditFile, up, crashes, unaudited, ignored, missed>>

\* Mutation of Redact: the original envelope is published on the tier1 key.
Redact_PublishesRaw(w) ==
  /\ At(w, "redact")
  /\ Publish(w, DownTag(task[w].packet.key), task[w].packet.env)
  /\ Finish(w)
  /\ UNCHANGED <<stats, records, rejected, failed, auditFile, up, crashes, unaudited, ignored, missed>>

\* Mutation of Redact: the goroutine tries again when Publish has failed.
Redact_Retries(w) ==
  /\ At(w, "redact")
  /\ task[w].packet.env.telemetry # Nil
  /\ Publish(w, DownTag(task[w].packet.key), RedactAndSanitize(task[w].packet.env))
  /\ Finish(w) \/ UNCHANGED task
  /\ UNCHANGED <<stats, records, rejected, failed, auditFile, up, crashes, unaudited, ignored, missed>>

\* Case ActionRedactPass with telemetry: sanitize, down-tag the key, publish.
Redact(w) ==
  /\ At(w, "redact")
  /\ task[w].packet.env.telemetry # Nil
  /\ Publish(w, DownTag(task[w].packet.key), RedactAndSanitize(task[w].packet.env))
  /\ Finish(w)
  /\ UNCHANGED <<stats, records, rejected, failed, auditFile, up, crashes, unaudited, ignored, missed>>

\* Mutation of RedactFail: the failure is logged and the packet forgotten.
RedactFail_Forgets(w) ==
  /\ At(w, "redact")
  /\ task[w].packet.env.telemetry = Nil
  /\ Finish(w)
  /\ UNCHANGED <<mesh, sent, stats, failed, records, rejected, auditFile, up, crashes, published,
                 unaudited, dropped, ignored, missed>>

\* Mutation of RedactFail: the packet is quarantined without being counted.
RedactFail_Uncounted(w) ==
  /\ At(w, "redact")
  /\ task[w].packet.env.telemetry = Nil
  /\ failed' = failed + 1
  /\ Reject(w, "POLICY_VIOLATION_UNKNOWN")
  /\ UNCHANGED <<mesh, sent, stats, records, rejected, auditFile, up, crashes, published,
                 unaudited, dropped, ignored, missed>>

\* RedactAndSanitize refuses an envelope without telemetry: it is counted a
\* second time and quarantined.
RedactFail(w) ==
  /\ At(w, "redact")
  /\ task[w].packet.env.telemetry = Nil
  /\ Count("quarantined")
  /\ failed' = failed + 1
  /\ Reject(w, "POLICY_VIOLATION_UNKNOWN")
  /\ UNCHANGED <<mesh, sent, records, rejected, auditFile, up, crashes, published, unaudited,
                 dropped, ignored, missed>>

-----------------------------------------------------------------------------
(* Crash and restart *)

Die ==
  /\ up' = FALSE
  /\ dropped' = dropped \cup InFlight
  /\ task' = [w \in Workers |-> Idle]
  /\ UNCHANGED <<mesh, sent, stats, records, rejected, failed, auditFile, published, unaudited, ignored, missed>>

\* Case ActionPass reads env.Telemetry.VehicleID for its log line: a TIER-1
\* envelope without telemetry ends the process.
Panic(w) ==
  /\ At(w, "pass")
  /\ task[w].packet.env.telemetry = Nil
  /\ UNCHANGED crashes
  /\ Die

Crash ==
  /\ up
  /\ crashes < MaxCrashes
  /\ crashes' = crashes + 1
  /\ Die

\* The container is restarted; packets published in the meantime are missed.
Restart ==
  /\ ~up
  /\ up' = TRUE
  /\ stats' = ZeroStats
  /\ records' = <<>>
  /\ rejected' = <<>>
  /\ failed' = 0
  /\ mesh' = {}
  /\ missed' = missed \cup {p.id : p \in mesh}
  /\ UNCHANGED <<sent, task, auditFile, crashes, published, unaudited, dropped, ignored>>

Process(w) == Decide(w) \/ Quarantine(w) \/ Pass(w) \/ Redact(w) \/ RedactFail(w) \/ Panic(w)

Next ==
  \/ \E input \in Inputs : Arrive(input)
  \/ \E w \in Workers : Receive(w) \/ Process(w)
  \/ Crash
  \/ Restart

Spec == Init /\ [][Next]_vars

\* A started goroutine runs to its end: the DLQ mutex is always released and
\* Publish has a timeout.  The subscription keeps delivering while the process
\* runs, and the container is configured to restart (compose.yml).
Fairness ==
  /\ \A w \in Workers : WF_vars(Process(w)) /\ WF_vars(Receive(w))
  /\ WF_vars(Restart)

FairSpec == Spec /\ Fairness

-----------------------------------------------------------------------------
(* Properties *)

AuditedIds == {auditFile[i].id : i \in DOMAIN auditFile}
RejectedIds == AuditedIds \cup unaudited
EgressedIds == {m.from.id : m \in published}
Settled == EgressedIds \cup RejectedIds \cup dropped \cup {p.id : p \in ignored} \cup missed

Packets == [id : Nat, key : {i.key : i \in Inputs} \cup {DownTag(i.key) : i \in Inputs},
            env : {i.env : i \in Inputs} \cup {m.env : m \in published}, by : {"node", "guard"}]

\* The variables hold what the code can store in them.
TypeOK ==
  /\ mesh \subseteq Packets
  /\ sent \in 0..MaxPackets
  /\ \A w \in Workers :
       \/ task[w] = Idle
       \/ task[w].pc \in {"decide", "pass", "redact", "quarantine"} /\ task[w].packet \in Packets
  /\ stats \in [{"ingress", "passed", "redacted", "quarantined"} -> Nat]
  /\ Len(records) <= Capacity
  /\ up \in BOOLEAN
  /\ RejectedIds \subseteq 1..sent

Multiple(v, u) == v % u = 0

\* Nothing precise is left in a telemetry payload.
Scrubbed(t) ==
  /\ Multiple(t.lat, CoarsenUnit) /\ Multiple(t.lon, CoarsenUnit)
  /\ Multiple(t.alt, 50000)
  /\ t.mission \in {Nil, "REDACTED_BY_CDS"}

\* Everything the guard publishes is labelled TIER-1 and comes from a packet that
\* passed validation: either it is that packet, already TIER-1, unaltered, or it
\* is the scrubbed form of a TIER-2 packet on a tier1 key.  In particular no
\* TIER-3 and no tampered packet leaves, in any interleaving and after any crash.
EgressClean ==
  \A m \in published :
    /\ m.from.env # Nil
    /\ Validate(m.from.env) = "ok"
    /\ m.env.classification = "TIER-1"
    /\ \/ m.env = m.from.env
       \/ /\ m.from.env.classification = "TIER-2"
          /\ m.env.command = Nil
          /\ Scrubbed(m.env.telemetry)
          /\ m.key.tier = "tier1"

Checked(env) ==
  LET t == Normalize(env.telemetry)
  IN  /\ env.header /\ env.classification \in {"TIER-1", "TIER-2"}
      /\ t.ids /\ 0 <= t.battery /\ t.battery <= 10000
      /\ InBounds(t.lat, MaxLat) /\ InBounds(t.lon, MaxLon)
      /\ env.digest = ComputePayloadDigest(t)

\* No check of Validate can be left out: what is published comes from an envelope
\* with a header, a known classification below TIER-3 and identifiers, whose
\* normalized values are in range and hash to the digest it carries.
InvalidNeverEgresses == \A m \in published : Checked(m.from.env)

\* "Recompute payload SHA-256 digest so downstream recipients can verify
\* integrity": what leaves the guard passes Validate again, after JSON and
\* Normalize, at the edges of the coordinate range too.
EgressVerifies == \A m \in published : Validate(m.env) = "ok"

\* Coarsening moves a position by at most half a cell of the coarse grid.
EgressAccurate ==
  \A m \in published :
    LET was == Normalize(m.from.env.telemetry)
        now == m.env.telemetry
    IN  m.env # m.from.env =>
          /\ InBounds(2 * (now.lat - was.lat), CoarsenUnit)
          /\ InBounds(2 * (now.lon - was.lon), CoarsenUnit)
          /\ now.alt <= was.alt /\ was.alt < now.alt + 50000

\* What the policy lets out for a packet: a TIER-1 packet as it came, a TIER-2
\* packet sanitized and on the tier1 key, a TIER-3 or an invalid one not at all.
MayLeave(p, key, env) ==
  /\ p.env # Nil /\ Validate(p.env) = "ok"
  /\ \/ p.env.classification = "TIER-1" /\ key = p.key /\ env = p.env
     \/ /\ p.env.classification = "TIER-2"
        /\ key = DownTag(p.key) /\ env = RedactAndSanitize(p.env)

Filter == INSTANCE CrossDomainFilter
            WITH offered <- sent, released <- published, withheld <- RejectedIds,
                 pending <- mesh \cup {task[w].packet : w \in Busy},
                 lost <- dropped \cup missed \cup {p.id : p \in ignored}

\* Every packet that reaches the mesh has one outcome, whatever the interleaving
\* of the goroutines and wherever the process ends: it is published once in the
\* form the policy gives it, recorded as rejected, or lost, and no two of these.
ImplementsFilter == Filter!Spec

\* No packet is forgotten on any path through ProcessPacket, and none has two fates:
\* each one that reached the mesh is on it or with a goroutine, or was published,
\* and then once, or is recorded, or was given up by a failed call, a skip or the
\* end of the process.
OneOutcome == Filter!OneOutcome

\* A packet that was quarantined, now or before a restart, never egresses.
FailClosed == RejectedIds \cap EgressedIds = {}

\* At rest the counters add up: each packet counts once, a failed redaction twice,
\* and quarantined agrees with the records made.
CountersSettle ==
  up /\ Busy = {} =>
    /\ stats.ingress + failed = stats.passed + stats.redacted + stats.quarantined
    /\ stats.quarantined = Len(rejected)

\* What /dlq shows is the newest part of everything quarantined since the start.
DLQShowsNewest == \A limit \in 0..(Capacity + 1) : IsSuffix(GetRecords(limit), rejected)

\* A sanitized packet is not taken up and republished by the guard again.
SanitizedLeavesOnce ==
  \A m, n \in published :
    m.env # m.from.env => ~(n.from.by = "guard" /\ n.from.env = m.env /\ n.from.key = m.key)

\* Every packet on the mesh is settled in the end.
PacketsSettle == \A i \in 1..MaxPackets : (i <= sent) ~> (i \in Settled)

-----------------------------------------------------------------------------
(* Statements of the documentation and the comments that the code does not meet *)

\* "Every ingress packet traversing the tactical boundary must undergo three
\* validation gates": the guard skips only commands and its own output.
EveryPacketInspected == \A p \in ignored : p.by = "guard" \/ p.key.stream = "command"

\* "Ignore packets that are already sanitized (tier1) or commands to prevent
\* loops": the guard does not process what it published itself.
NoLoops == \A w \in Busy : task[w].packet.by # "guard"

=============================================================================
