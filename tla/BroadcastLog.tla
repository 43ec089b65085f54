---------------------------- MODULE BroadcastLog ----------------------------
(***************************************************************************)
(* What the gateway promises its dashboards: one log of messages, each in   *)
(* it once, that every reader gets from the place where it joined, entry by *)
(* entry.  Readers leave of their own accord only, and the log does not run *)
(* ahead: an entry is added when all who read have got the one before.      *)
(***************************************************************************)
EXTENDS Naturals, Sequences, SequencesExt

CONSTANTS
  Readers,
  Messages,
  Capacity   \* the number of messages that can wait for their turn

VARIABLES
  waiting,   \* messages accepted and not yet in the log, oldest first
  log,       \* the messages broadcast so far
  reading,   \* the readers that are there
  start,     \* per reader: the length of the log when it joined
  got        \* per reader: the messages it has received

vars == <<waiting, log, reading, start, got>>

Init ==
  /\ waiting = <<>>
  /\ log = <<>>
  /\ reading = {}
  /\ start = [r \in Readers |-> 0]
  /\ got = [r \in Readers |-> <<>>]

Behind(r) == start[r] + Len(got[r]) < Len(log)
UpToDate == \A r \in reading : ~Behind(r)

\* Accept a new message.
Offer(m) ==
  /\ Len(waiting) < Capacity
  /\ m \notin ToSet(waiting) \cup ToSet(log)
  /\ waiting' = Append(waiting, m)
  /\ UNCHANGED <<log, reading, start, got>>

\* Enter the oldest one into the log.
Broadcast ==
  /\ UpToDate
  /\ waiting # <<>>
  /\ log' = Append(log, Head(waiting))
  /\ waiting' = Tail(waiting)
  /\ UNCHANGED <<reading, start, got>>

\* A reader joins; it may be gone again before it is entered.
Join(r) ==
  /\ UpToDate
  /\ r \notin reading
  /\ got[r] = <<>>
  /\ reading' \in {reading, reading \cup {r}}
  /\ start' = [start EXCEPT ![r] = Len(log)]
  /\ UNCHANGED <<waiting, log, got>>

\* A reader gets its next entry.
Read(r) ==
  /\ r \in reading
  /\ Behind(r)
  /\ got' = [got EXCEPT ![r] = Append(@, log[start[r] + Len(@) + 1])]
  /\ UNCHANGED <<waiting, log, reading, start>>

\* A reader goes away.
Leave(r) ==
  /\ reading' = reading \ {r}
  /\ UNCHANGED <<waiting, log, start, got>>

Next ==
  \/ \E m \in Messages : Offer(m)
  \/ Broadcast
  \/ \E r \in Readers : Join(r) \/ Read(r) \/ Leave(r)

Spec == Init /\ [][Next]_vars

=============================================================================
