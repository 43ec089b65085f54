-------------------------- MODULE StoreAndForward ---------------------------
(***************************************************************************)
(* What the Data Mule promises the mesh: a bounded, at-least-once queue.    *)
(* Packets are numbered as they are accepted.  Each is handed upstream at   *)
(* once or held; held packets go upstream oldest first, an attempt may stop *)
(* half way, and the queue is given up only as a whole.  A packet leaves    *)
(* the queue unsent in two cases only: the queue overflows and drops its    *)
(* oldest packet, or the process that holds it ends.                        *)
(***************************************************************************)
EXTENDS Naturals, Sequences, SequencesExt

CONSTANT Capacity  \* the number of packets that can be held, at least 1

VARIABLES
  accepted,  \* number of packets accepted so far
  pending,   \* the held packets, oldest first
  arrived,   \* packets that have reached the upstream side at least once
  dropped    \* packets given up

vars == <<accepted, pending, arrived, dropped>>

Init ==
  /\ accepted = 0
  /\ pending = <<>>
  /\ arrived = {}
  /\ dropped = {}

\* Accept a packet and hand it upstream.
Forward ==
  /\ accepted' = accepted + 1
  /\ arrived' = arrived \cup {accepted + 1}
  /\ UNCHANGED <<pending, dropped>>

\* Accept a packet and hold it; an attempt to send it first may have reached
\* the upstream side although it was reported as failed.
Hold ==
  /\ accepted' = accepted + 1
  /\ IF Len(pending) < Capacity
     THEN pending' = Append(pending, accepted + 1) /\ UNCHANGED dropped
     ELSE /\ pending' = Append(Tail(pending), accepted + 1)
          /\ dropped' = dropped \cup {Head(pending)}
  /\ arrived' \in {arrived, arrived \cup {accepted + 1}}

\* Send a number of the oldest held packets and keep holding all of them.
Send ==
  /\ \E n \in 0..Len(pending) : arrived' = arrived \cup ToSet(SubSeq(pending, 1, n))
  /\ UNCHANGED <<accepted, pending, dropped>>

\* Send every held packet and give up the queue.
Drain ==
  /\ arrived' = arrived \cup ToSet(pending)
  /\ pending' = <<>>
  /\ UNCHANGED <<accepted, dropped>>

\* The process that holds the queue ends.
Reset ==
  /\ dropped' = dropped \cup ToSet(pending)
  /\ pending' = <<>>
  /\ UNCHANGED <<accepted, arrived>>

Next == Forward \/ Hold \/ Send \/ Drain \/ Reset

Spec == Init /\ [][Next]_vars

=============================================================================
