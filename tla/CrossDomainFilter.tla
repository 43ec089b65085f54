------------------------- MODULE CrossDomainFilter --------------------------
(***************************************************************************)
(* What the guard promises the two domains it stands between: a filter with *)
(* a memory.  Each packet that is offered has one outcome.  It is released  *)
(* once, in a form the policy allows for it; or it is withheld for good; or *)
(* it is lost, which the filter does not exclude.  What is released is on   *)
(* the mesh again and thereby offered itself.                               *)
(***************************************************************************)
EXTENDS Naturals

CONSTANT MayLeave(_, _, _)  \* the policy: packet, key and envelope to release

VARIABLES
  offered,   \* number of packets offered so far
  pending,   \* the packets without an outcome
  released,  \* what was let through, with the packet it came from
  withheld,  \* the numbers of the packets that were held back
  lost       \* the numbers of the packets that were lost

vars == <<offered, pending, released, withheld, lost>>

Init ==
  /\ offered = 0
  /\ pending = {}
  /\ released = {}
  /\ withheld = {}
  /\ lost = {}

\* A new packet takes the next number.
Offer ==
  /\ offered' = offered + 1
  /\ \E p \in pending' : p.id = offered + 1 /\ pending' = pending \cup {p}
  /\ UNCHANGED <<released, withheld, lost>>

\* Let a packet through in an allowed form, which is offered in its turn.
Release(p) ==
  /\ \E m \in released' :
       /\ m.from = p
       /\ MayLeave(p, m.key, m.env)
       /\ released' = released \cup {m}
       /\ \E q \in pending' :
            /\ q.id = offered + 1 /\ q.key = m.key /\ q.env = m.env
            /\ pending' = (pending \ {p}) \cup {q}
  /\ offered' = offered + 1
  /\ UNCHANGED <<withheld, lost>>

\* Hold a packet back.
Withhold(p) ==
  /\ pending' = pending \ {p}
  /\ withheld' = withheld \cup {p.id}
  /\ UNCHANGED <<offered, released, lost>>

\* Lose any number of packets.
Lose ==
  /\ pending' \subseteq pending
  /\ lost' = lost \cup {p.id : p \in pending \ pending'}
  /\ UNCHANGED <<offered, released, withheld>>

Next == Offer \/ Lose \/ \E p \in pending : Release(p) \/ Withhold(p)

Spec == Init /\ [][Next]_vars

-----------------------------------------------------------------------------

Waiting == {p.id : p \in pending}
Through == {m.from.id : m \in released}

(* Every packet offered so far waits, was let through, was held back or was  *)
(* lost, and only one of these; and what was let through went once.          *)
OneOutcome ==
  /\ 1..offered = Waiting \cup Through \cup withheld \cup lost
  /\ Waiting \cap (Through \cup withheld \cup lost) = {}
  /\ Through \cap (withheld \cup lost) = {}
  /\ withheld \cap lost = {}
  /\ \A p, q \in pending : p.id = q.id => p = q
  /\ \A m, n \in released : m.from.id = n.from.id => m = n

=============================================================================
