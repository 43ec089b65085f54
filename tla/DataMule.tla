------------------------------ MODULE DataMule ------------------------------
(***************************************************************************)
(* The Tactical Data Mule (pkg/zenohutil/datamule.go): a store-and-forward *)
(* queue between the tactical mesh and a satellite backhaul.  Ingest either *)
(* forwards a packet upstream or appends it to a bounded in-memory ring and *)
(* to a disk spool; Flush drains the ring; SetSimulationMode switches a     *)
(* simulated blackout on and off.                                           *)
(*                                                                          *)
(* Every exported method runs under dm.mu, so each critical section is one  *)
(* step.  SetSimulationMode(false) has two of them: it unlocks between      *)
(* setting the mode and calling Flush, and pc[o] = "flush" is that window.  *)
(* Packets are numbered in the order in which Ingest accepts them.          *)
(***************************************************************************)
EXTENDS Naturals, Integers, Sequences, SequencesExt

CONSTANTS
  MaxBuffer,    \* the maxBuffer argument of NewDataMule (<= 0 asks for the default)
  Operators,    \* concurrent callers of SetSimulationMode (HTTP requests)
  MaxPackets,   \* bound: packets ingested
  MaxFaults,    \* bound: link losses and failed publish calls
  MaxRestarts   \* bound: restarts of the gateway process

ASSUME MuleAssumption ==
  /\ MaxBuffer \in Int
  /\ MaxPackets \in Nat
  /\ MaxFaults \in Nat
  /\ MaxRestarts \in Nat

VARIABLES
  status,         \* dm.status
  simulatedDDIL,  \* dm.simulatedDDIL
  buffer,         \* dm.buffer: the ring, oldest first
  syncedTotal,    \* dm.syncedTotal
  spoolFile,      \* dm.spoolFile: "none", an "open" handle or a "closed" one
  disk,           \* the records in the file spoolFilePath
  pc,             \* per caller: "idle", or "flush" after SetSimulationMode(false) unlocked
  link,           \* the backhaul: "up" or "down"
  faults,         \* link losses and failed publish calls so far
  restarts,       \* restarts so far
  accepted,       \* history: packets accepted by Ingest, 1..accepted
  delivered,      \* history: packets that reached the upstream bus, in order
  evicted,        \* history: packets the full ring dropped
  lost,           \* history: packets in the ring when the process ended
  unspooled       \* history: buffered packets whose spool write failed

muleVars == <<status, simulatedDDIL, buffer, syncedTotal>>
fileVars == <<spoolFile, disk, unspooled>>
linkVars == <<link, faults>>
vars == <<muleVars, fileVars, pc, linkVars, restarts, accepted, delivered, evicted, lost>>

-----------------------------------------------------------------------------

\* NewDataMule replaces a non-positive capacity by 5000.
Capacity == IF MaxBuffer <= 0 THEN 5000 ELSE MaxBuffer

\* The states of dm.status that the code assigns (DEGRADED is declared, never set).
Statuses == {"ONLINE", "DDIL_BUFFERING"}

\* NewDataMule on a fresh file, or without one (an empty spoolFilePath).
Init ==
  /\ status = "ONLINE"
  /\ simulatedDDIL = FALSE
  /\ buffer = <<>>
  /\ syncedTotal = 0
  /\ spoolFile \in {"open", "none"}
  /\ disk = <<>>
  /\ pc = [o \in Operators |-> "idle"]
  /\ link = "up"
  /\ faults = 0
  /\ restarts = 0
  /\ accepted = 0
  /\ delivered = <<>>
  /\ evicted = {}
  /\ lost = {}
  /\ unspooled = {}

-----------------------------------------------------------------------------
(* One call of Bus.Publish.  It fails when the link is down, and it may fail *)
(* on a live link: the link drops during the call, the router answers an     *)
(* error status, the 5 s client timeout or the caller's context expires.  A  *)
(* call that fails on a live link may still have reached the upstream bus.   *)

PublishOk == link = "up" /\ UNCHANGED linkVars

PublishErr(reached) ==
  \/ link = "down" /\ ~reached /\ UNCHANGED linkVars
  \/ /\ link = "up"
     /\ faults < MaxFaults
     /\ faults' = faults + 1
     /\ link' \in {"up", "down"}

\* syncedTotal after k successful calls.
Synced(k) == syncedTotal + k

\* What the failed call adds to the upstream history.
Reached(reached, p) == IF reached THEN <<p>> ELSE <<>>

-----------------------------------------------------------------------------
(* Ingest *)

\* Mutation of Forwarding: the simulated blackout is not looked at.
Forwarding_IgnoresBlackout == status = "ONLINE"

\* The branch condition of Ingest (upstreamBus is non-nil in every caller).
Forwarding == status = "ONLINE" /\ ~simulatedDDIL

\* Mutations of Buffered: keep the old packets, push in front.
Buffered_KeepsOld(p) == IF Len(buffer) >= Capacity THEN buffer ELSE Append(buffer, p)
Buffered_Lifo(p) == <<p>> \o (IF Len(buffer) >= Capacity THEN Tail(buffer) ELSE buffer)

\* Append to the ring, dropping the oldest packet when it is full.
Buffered(p) == Append(IF Len(buffer) >= Capacity THEN Tail(buffer) ELSE buffer, p)

\* The packet that leaves a full ring.
Dropped == IF Len(buffer) >= Capacity THEN {Head(buffer)} ELSE {}

\* The write to the spool file; its error is discarded, and a closed handle
\* always returns one.
Persist(p) ==
  \/ /\ spoolFile = "open"
     /\ disk' = Append(disk, p)
     /\ UNCHANGED unspooled
  \/ /\ unspooled' = unspooled \cup {p}
     /\ UNCHANGED disk

Spool(p) ==
  /\ buffer' = Buffered(p)
  /\ evicted' = evicted \cup Dropped
  /\ Persist(p)

IngestForward ==
  /\ accepted < MaxPackets
  /\ accepted' = accepted + 1
  /\ Forwarding
  /\ PublishOk
  /\ delivered' = Append(delivered, accepted + 1)
  /\ syncedTotal' = Synced(1)
  /\ UNCHANGED <<status, simulatedDDIL, buffer, fileVars, pc, restarts, evicted, lost>>

IngestFail ==
  /\ accepted < MaxPackets
  /\ accepted' = accepted + 1
  /\ Forwarding
  /\ \E reached \in BOOLEAN :
       /\ PublishErr(reached)
       /\ delivered' = delivered \o Reached(reached, accepted + 1)
  /\ status' = "DDIL_BUFFERING"
  /\ Spool(accepted + 1)
  /\ UNCHANGED <<simulatedDDIL, syncedTotal, spoolFile, pc, restarts, lost>>

IngestBuffer ==
  /\ accepted < MaxPackets
  /\ accepted' = accepted + 1
  /\ ~Forwarding
  /\ Spool(accepted + 1)
  /\ UNCHANGED <<status, simulatedDDIL, syncedTotal, spoolFile, pc, linkVars,
                 restarts, delivered, lost>>

Ingest == IngestForward \/ IngestFail \/ IngestBuffer

-----------------------------------------------------------------------------
(* SetSimulationMode and Flush *)

\* SetSimulationMode(true): one critical section.
StartBlackout(o) ==
  /\ pc[o] = "idle"
  /\ simulatedDDIL' = TRUE
  /\ status' = "DDIL_BUFFERING"
  /\ UNCHANGED <<buffer, syncedTotal, fileVars, pc, linkVars, restarts, accepted,
                 delivered, evicted, lost>>

\* SetSimulationMode(false) up to the unlock.
EndBlackout(o) ==
  /\ pc[o] = "idle"
  /\ simulatedDDIL' = FALSE
  /\ status' = "ONLINE"
  /\ pc' = [pc EXCEPT ![o] = "flush"]
  /\ UNCHANGED <<buffer, syncedTotal, fileVars, linkVars, restarts, accepted,
                 delivered, evicted, lost>>

\* Flush closes the spool and reopens it with O_TRUNC; when the open fails, the
\* closed handle stays and the file keeps its records.
TruncateSpool ==
  /\ UNCHANGED unspooled
  /\ \/ spoolFile = "none" /\ UNCHANGED <<spoolFile, disk>>
     \/ spoolFile # "none" /\ spoolFile' = "open" /\ disk' = <<>>
     \/ spoolFile # "none" /\ spoolFile' = "closed" /\ UNCHANGED disk

\* Flush on an empty ring.
FlushEmpty(o) ==
  /\ pc[o] = "flush"
  /\ buffer = <<>>
  /\ status' = "ONLINE"
  /\ pc' = [pc EXCEPT ![o] = "idle"]
  /\ UNCHANGED <<simulatedDDIL, buffer, syncedTotal, fileVars, linkVars, restarts,
                 accepted, delivered, evicted, lost>>

\* Mutation of FlushOk: the loop stops one packet before the end of the ring.
FlushOk_StopsShort(o) ==
  /\ pc[o] = "flush"
  /\ buffer # <<>>
  /\ PublishOk
  /\ delivered' = delivered \o Front(buffer)
  /\ syncedTotal' = Synced(Len(buffer) - 1)
  /\ buffer' = <<Last(buffer)>>
  /\ status' = "ONLINE"
  /\ TruncateSpool
  /\ pc' = [pc EXCEPT ![o] = "idle"]
  /\ UNCHANGED <<simulatedDDIL, restarts, accepted, evicted, lost>>

\* Every packet of the ring is published.
FlushOk(o) ==
  /\ pc[o] = "flush"
  /\ buffer # <<>>
  /\ PublishOk
  /\ delivered' = delivered \o buffer
  /\ syncedTotal' = Synced(Len(buffer))
  /\ buffer' = <<>>
  /\ status' = "ONLINE"
  /\ TruncateSpool
  /\ pc' = [pc EXCEPT ![o] = "idle"]
  /\ UNCHANGED <<simulatedDDIL, restarts, accepted, evicted, lost>>

\* Mutation of FlushFail: the spool is truncated although the ring stays.
FlushFail_Truncates(o) ==
  /\ pc[o] = "flush"
  /\ buffer # <<>>
  /\ PublishErr(FALSE)
  /\ TruncateSpool
  /\ pc' = [pc EXCEPT ![o] = "idle"]
  /\ UNCHANGED <<muleVars, restarts, accepted, delivered, evicted, lost>>

\* The publish call after the first k fails: Flush returns and the whole ring stays.
FlushFail(o) ==
  /\ pc[o] = "flush"
  /\ buffer # <<>>
  /\ \E k \in 0..(Len(buffer) - 1), reached \in BOOLEAN :
       /\ k > 0 => link = "up"
       /\ PublishErr(reached)
       /\ delivered' = delivered \o SubSeq(buffer, 1, k) \o Reached(reached, buffer[k + 1])
       /\ syncedTotal' = Synced(k)
  /\ pc' = [pc EXCEPT ![o] = "idle"]
  /\ UNCHANGED <<status, simulatedDDIL, buffer, fileVars, restarts, accepted, evicted, lost>>

Flush(o) == FlushEmpty(o) \/ FlushOk(o) \/ FlushFail(o)

\* Metrics, what the dashboard is told.
Metrics == [status |-> status, spooled |-> Len(buffer), synced |-> syncedTotal,
            simulated |-> simulatedDDIL]

-----------------------------------------------------------------------------
(* Close, the end of the process, and the link *)

Close ==
  /\ spoolFile = "open"
  /\ spoolFile' = "closed"
  /\ UNCHANGED <<muleVars, disk, unspooled, pc, linkVars, restarts, accepted,
                 delivered, evicted, lost>>

\* The process ends (a crash or a shutdown) and NewDataMule runs again.  It
\* opens the spool with O_APPEND and does not read it.
Restart ==
  /\ restarts < MaxRestarts
  /\ restarts' = restarts + 1
  /\ status' = "ONLINE"
  /\ simulatedDDIL' = FALSE
  /\ buffer' = <<>>
  /\ lost' = lost \cup ToSet(buffer)
  /\ syncedTotal' = 0
  /\ spoolFile' = IF spoolFile = "none" THEN "none" ELSE "open"
  /\ pc' = [o \in Operators |-> "idle"]
  /\ UNCHANGED <<disk, unspooled, linkVars, accepted, delivered, evicted>>

LinkDown ==
  /\ link = "up"
  /\ faults < MaxFaults
  /\ link' = "down"
  /\ faults' = faults + 1
  /\ UNCHANGED <<muleVars, fileVars, pc, restarts, accepted, delivered, evicted, lost>>

LinkUp ==
  /\ link = "down"
  /\ link' = "up"
  /\ UNCHANGED <<muleVars, fileVars, pc, faults, restarts, accepted, delivered, evicted, lost>>

Next ==
  \/ Ingest
  \/ \E o \in Operators : StartBlackout(o) \/ EndBlackout(o) \/ Flush(o)
  \/ Close
  \/ Restart
  \/ LinkDown
  \/ LinkUp

Spec == Init /\ [][Next]_vars

\* The goroutine of an HTTP request that has set the mode goes on to Flush: the
\* mutex is always released and every publish call is cut off by a timeout.
Fairness == \A o \in Operators : WF_vars(Flush(o))

FairSpec == Spec /\ Fairness

-----------------------------------------------------------------------------
(* Properties *)

Packets == 1..accepted
OnDisk == ToSet(disk)
InRing == ToSet(buffer)
Upstream == ToSet(delivered)
StrictlyIncreasing(s) == \A i, j \in DOMAIN s : i < j => s[i] < s[j]

\* The variables hold what the code can store in them, and packet histories
\* mention accepted packets only.
TypeOK ==
  /\ status \in Statuses
  /\ simulatedDDIL \in BOOLEAN
  /\ buffer \in Seq(Packets)
  /\ syncedTotal \in Nat
  /\ spoolFile \in {"open", "closed", "none"}
  /\ disk \in Seq(Packets)
  /\ pc \in [Operators -> {"idle", "flush"}]
  /\ link \in {"up", "down"}
  /\ faults \in Nat
  /\ restarts \in Nat
  /\ accepted \in Nat
  /\ delivered \in Seq(Packets)
  /\ evicted \subseteq Packets
  /\ lost \subseteq Packets
  /\ unspooled \subseteq Packets

\* Ingest and Flush never lose a packet silently: each accepted
\* packet has reached it, is still in the ring, was dropped by a full
\* ring, or was in the ring when the process ended.
NoSilentLoss == Packets \subseteq Upstream \cup InRing \cup evicted \cup lost

\* The ring and the spool file stay in ingest order through evictions, failed
\* flushes and restarts, so draining either is chronological.
Chronological == StrictlyIncreasing(buffer) /\ StrictlyIncreasing(disk)

\* The ring never exceeds its capacity, and what it drops is older than
\* everything it keeps.
RingDropsOldest ==
  /\ Len(buffer) <= Capacity
  /\ \A e \in evicted, p \in InRing : e < p

\* A packet waiting in the ring has its record in the spool file, unless the
\* write of that record failed: a failed Flush must not truncate the file.
SpoolCoversRing == InRing \subseteq OnDisk \cup unspooled

\* synced_total never reports more packets than reached the upstream bus.
SyncedIsHonest == syncedTotal <= Len(delivered)

\* During a simulated blackout nothing is sent upstream, except by the Flush of
\* a request that ended an earlier blackout and lost the race.
BlackoutHolds ==
  [][simulatedDDIL /\ delivered' # delivered => \E o \in Operators : pc[o] = "flush"]_vars

\* With the link eventually stable, requests to end the blackout that keep
\* coming drain the ring again and again.
RestoreDrains ==
  (<>[](link = "up") /\ []<>(\E o \in Operators : pc[o] = "flush")) => []<>(buffer = <<>>)

\* The mule implements the abstract store-and-forward queue: its ring is the
\* queue, and only an overflow of the ring or the end of the process gives up a
\* packet that has not reached the upstream bus.
SAF == INSTANCE StoreAndForward
         WITH pending <- buffer, arrived <- Upstream, dropped <- evicted \cup lost
ImplementsStoreAndForward == SAF!Spec

-----------------------------------------------------------------------------
(* Statements of the documentation and the tests that the code does not meet *)

\* "When Starlink reconnects, the Data Mule drains the spool": once the link is
\* up for good and no blackout is simulated, the ring empties.
ReconnectDrains == <>[](link = "up" /\ ~simulatedDDIL) => []<>(buffer = <<>>)

\* "drains the spool in chronological order": what waits in the ring and has never
\* reached the upstream bus is newer than everything that has.  EndBlackout sets
\* ONLINE before its Flush, and a failed Flush leaves it, so that Ingest forwards
\* ahead of the backlog.
BacklogGoesFirst == \A p \in InRing \ Upstream, q \in Upstream : q < p

\* "Persist to disk spool for DDIL survivability": a packet whose record was
\* written and that was not dropped by the full ring is upstream, in the ring
\* or still on disk.
SpoolSurvives == Packets \subseteq Upstream \cup InRing \cup OnDisk \cup evicted \cup unspooled

\* The dashboard's "flushed spooled packets upstream": a mule that reports ONLINE
\* outside a blackout, with no Flush outstanding, has nothing spooled.
OnlineIsDrained ==
  Metrics.status = "ONLINE" /\ (\A o \in Operators : pc[o] = "idle") => Metrics.spooled = 0

\* The test's expectation after SetSimulationMode(true): while the simulated
\* blackout is active the mule reports DDIL_BUFFERING.
BlackoutIsReported == Metrics.simulated => Metrics.status = "DDIL_BUFFERING"

=============================================================================
