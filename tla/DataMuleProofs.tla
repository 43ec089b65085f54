--------------------------- MODULE DataMuleProofs ---------------------------
(***************************************************************************)
(* Proofs about DataMule, for every capacity, every number of packets,      *)
(* callers, faults and restarts.                                            *)
(***************************************************************************)
EXTENDS DataMule, TLAPS, SequenceTheorems

-----------------------------------------------------------------------------
(* Sequences *)

\* ToSet by positions.
LEMMA ToSetIndex ==
  ASSUME NEW S, NEW s \in Seq(S)
  PROVE  /\ Len(s) \in Nat
         /\ \A i \in 1..Len(s) : s[i] \in ToSet(s)
         /\ \A x \in ToSet(s) : \E i \in 1..Len(s) : x = s[i]
         /\ ToSet(s) \subseteq S
BY DEF ToSet

\* The elements of a concatenation are those of its parts.
LEMMA ToSetConcat ==
  ASSUME NEW S, NEW s \in Seq(S), NEW t \in Seq(S)
  PROVE  /\ s \o t \in Seq(S)
         /\ ToSet(s \o t) = ToSet(s) \cup ToSet(t)
<1>1. s \o t \in Seq(S) /\ Len(s \o t) = Len(s) + Len(t)
  OBVIOUS
<1>2. \A i \in 1..Len(s) : (s \o t)[i] = s[i]
  OBVIOUS
<1>3. \A i \in 1..Len(t) : (s \o t)[Len(s) + i] = t[i]
  OBVIOUS
<1>4. ToSet(s \o t) \subseteq ToSet(s) \cup ToSet(t)
  <2> SUFFICES ASSUME NEW i \in 1..(Len(s) + Len(t))
               PROVE  (s \o t)[i] \in ToSet(s) \cup ToSet(t)
    BY <1>1 DEF ToSet
  <2>1. CASE i \in 1..Len(s)
    BY <2>1, <1>2 DEF ToSet
  <2>2. CASE i \notin 1..Len(s)
    <3>1. i - Len(s) \in 1..Len(t) /\ Len(s) + (i - Len(s)) = i
      BY <2>2
    <3> QED BY <3>1, <1>3 DEF ToSet
  <2> QED BY <2>1, <2>2
<1>5. ToSet(s) \subseteq ToSet(s \o t)
  BY <1>1, <1>2 DEF ToSet
<1>6. ToSet(t) \subseteq ToSet(s \o t)
  <2> SUFFICES ASSUME NEW i \in 1..Len(t) PROVE t[i] \in ToSet(s \o t)
    BY ToSetIndex
  <2>1. Len(s) + i \in 1..Len(s \o t)
    BY <1>1
  <2> QED BY <2>1, <1>1, <1>3 DEF ToSet
<1> QED BY <1>1, <1>4, <1>5, <1>6

\* Appending adds one element.
LEMMA ToSetAppend ==
  ASSUME NEW S, NEW s \in Seq(S), NEW x \in S
  PROVE  /\ Append(s, x) \in Seq(S)
         /\ ToSet(Append(s, x)) = ToSet(s) \cup {x}
<1>1. Append(s, x) \in Seq(S) /\ Len(Append(s, x)) = Len(s) + 1
  OBVIOUS
<1>2. \A i \in 1..Len(s) : Append(s, x)[i] = s[i]
  OBVIOUS
<1>3. Append(s, x)[Len(s) + 1] = x
  OBVIOUS
<1>4. ToSet(Append(s, x)) \subseteq ToSet(s) \cup {x}
  <2> SUFFICES ASSUME NEW i \in 1..(Len(s) + 1)
               PROVE  Append(s, x)[i] \in ToSet(s) \cup {x}
    BY <1>1 DEF ToSet
  <2>1. CASE i \in 1..Len(s)
    BY <2>1, <1>2 DEF ToSet
  <2>2. CASE i = Len(s) + 1
    BY <2>2, <1>3
  <2> QED BY <2>1, <2>2
<1>5. ToSet(s) \subseteq ToSet(Append(s, x))
  BY <1>1, <1>2 DEF ToSet
<1>6. x \in ToSet(Append(s, x))
  BY <1>1, <1>3 DEF ToSet
<1> QED BY <1>1, <1>4, <1>5, <1>6

\* A non-empty sequence consists of its head and its tail.
LEMMA ToSetTail ==
  ASSUME NEW S, NEW s \in Seq(S), s # <<>>
  PROVE  /\ Tail(s) \in Seq(S) /\ Head(s) \in S
         /\ Len(Tail(s)) = Len(s) - 1
         /\ ToSet(s) = {Head(s)} \cup ToSet(Tail(s))
<1>1. Tail(s) \in Seq(S) /\ Head(s) \in S /\ Len(Tail(s)) = Len(s) - 1 /\ Len(s) \in Nat \ {0}
  OBVIOUS
<1>2. \A i \in 1..(Len(s) - 1) : Tail(s)[i] = s[i + 1]
  OBVIOUS
<1>3. Head(s) = s[1]
  OBVIOUS
<1>4. ToSet(s) \subseteq {Head(s)} \cup ToSet(Tail(s))
  <2> SUFFICES ASSUME NEW i \in 1..Len(s) PROVE s[i] \in {Head(s)} \cup ToSet(Tail(s))
    BY DEF ToSet
  <2>1. CASE i = 1
    BY <2>1, <1>3
  <2>2. CASE i # 1
    <3>1. i - 1 \in 1..(Len(s) - 1) /\ (i - 1) + 1 = i
      BY <2>2
    <3>2. Tail(s)[i - 1] = s[i]
      BY <3>1, <1>2
    <3>3. Tail(s)[i - 1] \in ToSet(Tail(s))
      BY <3>1, <1>1, ToSetIndex
    <3> QED BY <3>2, <3>3
  <2> QED BY <2>1, <2>2
<1>5. {Head(s)} \cup ToSet(Tail(s)) \subseteq ToSet(s)
  <2>1. Head(s) \in ToSet(s)
    BY <1>1, <1>3 DEF ToSet
  <2>2. ASSUME NEW i \in 1..(Len(s) - 1) PROVE Tail(s)[i] \in ToSet(s)
    <3>1. i + 1 \in 1..Len(s)
      BY <1>1
    <3> QED BY <3>1, <1>2 DEF ToSet
  <2> QED BY <2>1, <2>2, <1>1 DEF ToSet
<1> QED BY <1>1, <1>4, <1>5

\* Dropping the head keeps the order, and the head was the least element.
LEMMA IncreasingTail ==
  ASSUME NEW s \in Seq(Nat), s # <<>>, StrictlyIncreasing(s)
  PROVE  /\ StrictlyIncreasing(Tail(s))
         /\ \A p \in ToSet(Tail(s)) : Head(s) < p
<1>1. Len(s) \in Nat \ {0} /\ Len(Tail(s)) = Len(s) - 1 /\ DOMAIN Tail(s) = 1..(Len(s) - 1)
  OBVIOUS
<1>2. \A i \in 1..(Len(s) - 1) : Tail(s)[i] = s[i + 1] /\ i + 1 \in DOMAIN s
  OBVIOUS
<1>3. Head(s) = s[1] /\ 1 \in DOMAIN s
  OBVIOUS
<1>4. StrictlyIncreasing(Tail(s))
  BY <1>1, <1>2 DEF StrictlyIncreasing
<1>5. ASSUME NEW i \in 1..(Len(s) - 1) PROVE Head(s) < Tail(s)[i]
  BY <1>1, <1>2, <1>3 DEF StrictlyIncreasing
<1> QED BY <1>1, <1>4, <1>5 DEF ToSet

\* Appending a number above all others keeps the order.
LEMMA IncreasingAppend ==
  ASSUME NEW s \in Seq(Nat), NEW x \in Nat, StrictlyIncreasing(s),
         \A p \in ToSet(s) : p < x
  PROVE  StrictlyIncreasing(Append(s, x))
<1>1. DOMAIN Append(s, x) = 1..(Len(s) + 1) /\ DOMAIN s = 1..Len(s) /\ Len(s) \in Nat
  OBVIOUS
<1>2. \A i \in 1..Len(s) : Append(s, x)[i] = s[i] /\ s[i] < x
  BY DEF ToSet
<1>3. Append(s, x)[Len(s) + 1] = x
  OBVIOUS
<1> QED BY <1>1, <1>2, <1>3 DEF StrictlyIncreasing

-----------------------------------------------------------------------------
(* Facts about the operations *)

\* NewDataMule always ends up with room for at least one packet.
LEMMA CapacityPositive == Capacity \in Nat /\ Capacity >= 1
BY MuleAssumption DEF Capacity

\* Numbers accepted earlier are still accepted numbers one packet later.
LEMMA PacketsGrow ==
  ASSUME accepted \in Nat, accepted' = accepted + 1
  PROVE  /\ accepted' \in Nat
         /\ accepted + 1 \in Packets'
         /\ Packets \subseteq Packets'
         /\ Packets' = Packets \cup {accepted + 1}
         /\ Seq(Packets) \subseteq Seq(Packets')
<1>1. Packets' = Packets \cup {accepted + 1} /\ accepted' \in Nat
  BY DEF Packets
<1> QED BY <1>1, SeqMonotonic

\* The ring and the spool file after Spool: what enters, what leaves.
LEMMA SpoolStep ==
  ASSUME TypeOK, accepted' = accepted + 1, Spool(accepted + 1)
  PROVE  /\ buffer' \in Seq(Packets')
         /\ disk' \in Seq(Packets')
         /\ evicted' \subseteq Packets'
         /\ unspooled' \subseteq Packets'
         /\ InRing' \cup Dropped = InRing \cup {accepted + 1}
         /\ InRing' \subseteq InRing \cup {accepted + 1}
         /\ evicted' = evicted \cup Dropped
         /\ OnDisk' \cup unspooled' = OnDisk \cup unspooled \cup {accepted + 1}
<1> DEFINE p == accepted + 1
           old == IF Len(buffer) >= Capacity THEN Tail(buffer) ELSE buffer
<1>1. /\ accepted' \in Nat /\ p \in Packets' /\ Packets \subseteq Packets'
      /\ buffer \in Seq(Packets') /\ disk \in Seq(Packets')
  BY PacketsGrow DEF TypeOK
<1>2. old \in Seq(Packets') /\ ToSet(old) \cup Dropped = ToSet(buffer) /\ Dropped \subseteq Packets
  <2>1. CASE Len(buffer) >= Capacity
    <3>1. buffer \in Seq(Packets) /\ buffer # <<>>
      BY <2>1, CapacityPositive DEF TypeOK
    <3>2. Tail(buffer) \in Seq(Packets')
      BY <3>1, <1>1
    <3> QED BY <2>1, <3>1, <3>2, ToSetTail DEF Dropped
  <2>2. CASE ~(Len(buffer) >= Capacity)
    BY <2>2, <1>1 DEF Dropped
  <2> QED BY <2>1, <2>2
<1>3. buffer' = Append(old, p)
  BY DEF Spool, Buffered
<1>4. buffer' \in Seq(Packets') /\ ToSet(buffer') = ToSet(old) \cup {p}
  <2> HIDE DEF old, p
  <2> QED BY <1>1, <1>2, <1>3, ToSetAppend
<1>5. evicted' = evicted \cup Dropped /\ evicted' \subseteq Packets'
  BY <1>1, <1>2 DEF Spool, TypeOK
<1>6. /\ disk' \in Seq(Packets')
      /\ unspooled' \subseteq Packets'
      /\ OnDisk' \cup unspooled' = OnDisk \cup unspooled \cup {p}
  <2>1. CASE spoolFile = "open" /\ disk' = Append(disk, p) /\ unspooled' = unspooled
    <3>1. disk' \in Seq(Packets') /\ ToSet(disk') = ToSet(disk) \cup {p}
      BY <2>1, <1>1, ToSetAppend
    <3> QED BY <2>1, <3>1, <1>1 DEF OnDisk, TypeOK
  <2>2. CASE unspooled' = unspooled \cup {p} /\ disk' = disk
    BY <2>2, <1>1 DEF OnDisk, TypeOK
  <2> QED BY <2>1, <2>2 DEF Spool, Persist
<1>7. InRing' = ToSet(old) \cup {p} /\ InRing = ToSet(buffer)
  BY <1>4 DEF InRing
<1> QED BY <1>2, <1>4, <1>5, <1>6, <1>7

\* A failed publish call adds at most the packet it was called with.
LEMMA ReachedType ==
  ASSUME NEW S, NEW x \in S, NEW b \in BOOLEAN
  PROVE  Reached(b, x) \in Seq(S) /\ ToSet(Reached(b, x)) \subseteq {x} /\ Len(Reached(b, x)) \in Nat
BY DEF Reached, ToSet

\* What the upstream history gains by a failed flush are packets of the ring.
LEMMA FlushFailHistory ==
  ASSUME TypeOK, NEW k \in 0..(Len(buffer) - 1), NEW reached \in BOOLEAN,
         delivered' = delivered \o SubSeq(buffer, 1, k) \o Reached(reached, buffer[k + 1])
  PROVE  /\ delivered' \in Seq(Packets)
         /\ ToSet(delivered) \subseteq ToSet(delivered')
         /\ Len(delivered') >= Len(delivered) + k
<1> DEFINE u == SubSeq(buffer, 1, k)
           v == Reached(reached, buffer[k + 1])
<1>1. buffer \in Seq(Packets) /\ delivered \in Seq(Packets) /\ k \in Nat /\ k + 1 \in 1..Len(buffer)
  BY DEF TypeOK
<1>2. u \in Seq(Packets) /\ Len(u) = k
  BY <1>1
<1>3. buffer[k + 1] \in Packets
  BY <1>1
<1>4. v \in Seq(Packets) /\ Len(v) \in Nat
  BY <1>3, ReachedType
<1> DEFINE w == delivered \o u
<1> HIDE DEF u, v
<1>5. w \in Seq(Packets) /\ ToSet(w) = ToSet(delivered) \cup ToSet(u) /\ Len(w) = Len(delivered) + k
  BY <1>1, <1>2, ToSetConcat
<1>6. delivered' = w \o v
  BY DEF u, v
<1> HIDE DEF w
<1>7. w \o v \in Seq(Packets) /\ ToSet(w \o v) = ToSet(w) \cup ToSet(v)
  BY <1>4, <1>5, ToSetConcat
<1>8. Len(w \o v) = Len(w) + Len(v)
  BY <1>4, <1>5
<1>9. Len(w \o v) >= Len(delivered) + k
  BY <1>1, <1>4, <1>5, <1>8
<1> QED BY <1>5, <1>6, <1>7, <1>9

-----------------------------------------------------------------------------
(* Type correctness *)

\* NewDataMule establishes the types.
LEMMA InitTypeOK == Init => TypeOK
<1> SUFFICES ASSUME Init PROVE TypeOK
  OBVIOUS
<1>1. buffer \in Seq(Packets) /\ disk \in Seq(Packets) /\ delivered \in Seq(Packets)
  BY EmptySeq DEF Init
<1>2. spoolFile \in {"open", "closed", "none"}
  BY DEF Init
<1> QED BY <1>1, <1>2 DEF Init, TypeOK, Statuses

\* Every step keeps them.
LEMMA NextTypeOK == TypeOK /\ [Next]_vars => TypeOK'
<1> SUFFICES ASSUME TypeOK, [Next]_vars PROVE TypeOK'
  OBVIOUS
<1>1. CASE IngestForward
  <2>1. delivered' \in Seq(Packets')
    <3>1. delivered \in Seq(Packets') /\ accepted + 1 \in Packets'
      BY <1>1, PacketsGrow DEF IngestForward, TypeOK
    <3> QED BY <1>1, <3>1, ToSetAppend DEF IngestForward
  <2> QED BY <1>1, <2>1, PacketsGrow DEF IngestForward, PublishOk, fileVars, linkVars, Synced, TypeOK
<1>2. CASE IngestFail
  <2>1. PICK reached \in BOOLEAN :
          /\ PublishErr(reached)
          /\ delivered' = delivered \o Reached(reached, accepted + 1)
    BY <1>2 DEF IngestFail
  <2>2. delivered' \in Seq(Packets')
    <3>1. delivered \in Seq(Packets') /\ accepted + 1 \in Packets'
      BY <1>2, PacketsGrow DEF IngestFail, TypeOK
    <3>2. Reached(reached, accepted + 1) \in Seq(Packets')
      BY <3>1, ReachedType
    <3> QED BY <2>1, <3>1, <3>2, ToSetConcat
  <2>3. link' \in {"up", "down"} /\ faults' \in Nat
    BY <2>1 DEF PublishErr, linkVars, TypeOK
  <2>4. /\ buffer' \in Seq(Packets') /\ disk' \in Seq(Packets')
        /\ evicted' \subseteq Packets' /\ unspooled' \subseteq Packets'
    BY <1>2, SpoolStep DEF IngestFail
  <2> QED BY <1>2, <2>2, <2>3, <2>4, PacketsGrow DEF IngestFail, TypeOK, Statuses
<1>3. CASE IngestBuffer
  <2>1. /\ buffer' \in Seq(Packets') /\ disk' \in Seq(Packets')
        /\ evicted' \subseteq Packets' /\ unspooled' \subseteq Packets'
    BY <1>3, SpoolStep DEF IngestBuffer
  <2> QED BY <1>3, <2>1, PacketsGrow DEF IngestBuffer, linkVars, TypeOK
<1>4. ASSUME NEW o \in Operators, StartBlackout(o) PROVE TypeOK'
  BY <1>4 DEF StartBlackout, TypeOK, Statuses, fileVars, linkVars, Packets
<1>5. ASSUME NEW o \in Operators, EndBlackout(o) PROVE TypeOK'
  BY <1>5 DEF EndBlackout, TypeOK, Statuses, fileVars, linkVars, Packets
<1>6. ASSUME NEW o \in Operators, FlushEmpty(o) PROVE TypeOK'
  BY <1>6 DEF FlushEmpty, TypeOK, Statuses, fileVars, linkVars, Packets
<1>7. ASSUME NEW o \in Operators, FlushOk(o) PROVE TypeOK'
  <2>1. delivered' \in Seq(Packets)
    BY <1>7, ToSetConcat DEF FlushOk, TypeOK
  <2>2. /\ spoolFile' \in {"open", "closed", "none"}
        /\ disk' \in Seq(Packets) /\ unspooled' \subseteq Packets
    <3>1. CASE spoolFile = "none" /\ UNCHANGED <<spoolFile, disk, unspooled>>
      BY <3>1 DEF TypeOK
    <3>2. CASE spoolFile # "none" /\ spoolFile' = "open" /\ disk' = <<>> /\ UNCHANGED unspooled
      BY <3>2, EmptySeq DEF TypeOK
    <3>3. CASE spoolFile # "none" /\ spoolFile' = "closed" /\ UNCHANGED <<disk, unspooled>>
      BY <3>3 DEF TypeOK
    <3> QED BY <1>7, <3>1, <3>2, <3>3 DEF FlushOk, TruncateSpool
  <2>3. syncedTotal' \in Nat
    BY <1>7 DEF FlushOk, Synced, TypeOK
  <2> QED BY <1>7, <2>1, <2>2, <2>3 DEF FlushOk, PublishOk, linkVars, TypeOK, Statuses, Packets
<1>8. ASSUME NEW o \in Operators, FlushFail(o) PROVE TypeOK'
  <2>1. PICK k \in 0..(Len(buffer) - 1), reached \in BOOLEAN :
          /\ PublishErr(reached)
          /\ delivered' = delivered \o SubSeq(buffer, 1, k) \o Reached(reached, buffer[k + 1])
          /\ syncedTotal' = Synced(k)
    BY <1>8 DEF FlushFail
  <2>2. delivered' \in Seq(Packets)
    BY <2>1, FlushFailHistory
  <2>3. link' \in {"up", "down"} /\ faults' \in Nat
    BY <2>1 DEF PublishErr, linkVars, TypeOK
  <2>4. syncedTotal' \in Nat
    BY <2>1 DEF Synced, TypeOK
  <2> QED BY <1>8, <2>2, <2>3, <2>4 DEF FlushFail, fileVars, TypeOK, Packets
<1>9. CASE Close
  BY <1>9 DEF Close, TypeOK, muleVars, linkVars, Packets
<1>10. CASE Restart
  <2>1. lost' \subseteq Packets
    BY <1>10, ToSetIndex DEF Restart, TypeOK
  <2>2. spoolFile' \in {"open", "closed", "none"}
    BY <1>10 DEF Restart
  <2>3. buffer' \in Seq(Packets')
    BY <1>10, EmptySeq DEF Restart
  <2>4. /\ status' \in Statuses /\ simulatedDDIL' \in BOOLEAN /\ syncedTotal' \in Nat
    BY <1>10 DEF Restart, Statuses
  <2>6. pc' \in [Operators -> {"idle", "flush"}]
    BY <1>10 DEF Restart
  <2>7. restarts' \in Nat
    BY <1>10 DEF Restart, TypeOK
  <2>5. Packets' = Packets /\ UNCHANGED <<disk, unspooled, link, faults, accepted, delivered, evicted>>
    BY <1>10 DEF Restart, Packets, linkVars
  <2> QED BY <2>1, <2>2, <2>3, <2>4, <2>5, <2>6, <2>7 DEF TypeOK
<1>11. CASE LinkDown
  BY <1>11 DEF LinkDown, TypeOK, muleVars, fileVars, Packets
<1>12. CASE LinkUp
  BY <1>12 DEF LinkUp, TypeOK, muleVars, fileVars, Packets
<1>13. CASE UNCHANGED vars
  BY <1>13 DEF vars, muleVars, fileVars, linkVars, TypeOK, Packets
<1> QED BY <1>1, <1>2, <1>3, <1>4, <1>5, <1>6, <1>7, <1>8, <1>9, <1>10, <1>11, <1>12, <1>13
        DEF Next, Ingest, Flush

\* Every reachable state of the Data Mule is well typed, whatever the capacity
\* and however many packets, callers, faults and restarts there are.
THEOREM MuleTypeOK == Spec => []TypeOK
<1> QED BY InitTypeOK, NextTypeOK, PTL DEF Spec

-----------------------------------------------------------------------------
(* The two shapes of a step.  Ingest takes one packet, which goes upstream or   *)
(* into the ring; any other step keeps the ring or empties it, and empties it  *)
(* only into the upstream bus or into lost.                                    *)

\* What Ingest does to the packet histories, whichever branch it takes.
LEMMA IngestEffect ==
  ASSUME TypeOK, Ingest
  PROVE  /\ accepted' = accepted + 1
         /\ UNCHANGED lost
         /\ Upstream \subseteq Upstream'
         /\ \/ Spool(accepted + 1)
            \/ accepted + 1 \in Upstream' /\ UNCHANGED <<buffer, disk, unspooled, evicted>>
         /\ Len(delivered') - Len(delivered) >= syncedTotal' - syncedTotal
<1>1. CASE IngestForward
  <2>1. delivered \in Seq(Packets') /\ accepted + 1 \in Packets'
    BY <1>1, PacketsGrow DEF IngestForward, TypeOK
  <2>2. delivered' = Append(delivered, accepted + 1)
    BY <1>1 DEF IngestForward
  <2>3. Upstream' = Upstream \cup {accepted + 1}
    BY <2>1, <2>2, ToSetAppend DEF Upstream
  <2>4. Len(delivered') = Len(delivered) + 1 /\ Len(delivered) \in Nat
    BY <2>1, <2>2
  <2>5. syncedTotal' = syncedTotal + 1 /\ syncedTotal \in Nat
    BY <1>1 DEF IngestForward, Synced, TypeOK
  <2>6. Len(delivered') - Len(delivered) >= syncedTotal' - syncedTotal
    BY <2>4, <2>5
  <2> QED BY <1>1, <2>3, <2>6 DEF IngestForward, fileVars
<1>2. CASE IngestFail
  <2>1. PICK reached \in BOOLEAN : delivered' = delivered \o Reached(reached, accepted + 1)
    BY <1>2 DEF IngestFail
  <2>2. delivered \in Seq(Packets') /\ accepted + 1 \in Packets'
    BY <1>2, PacketsGrow DEF IngestFail, TypeOK
  <2>3. Reached(reached, accepted + 1) \in Seq(Packets') /\ Len(Reached(reached, accepted + 1)) \in Nat
    BY <2>2, ReachedType
  <2>4. Upstream \subseteq Upstream'
    BY <2>1, <2>2, <2>3, ToSetConcat DEF Upstream
  <2>5. Len(delivered') >= Len(delivered) /\ Len(delivered) \in Nat /\ Len(delivered') \in Nat
    BY <2>1, <2>2, <2>3
  <2>6. syncedTotal' = syncedTotal /\ syncedTotal \in Nat
    BY <1>2 DEF IngestFail, TypeOK
  <2>7. Len(delivered') - Len(delivered) >= syncedTotal' - syncedTotal
    BY <2>5, <2>6
  <2> QED BY <1>2, <2>4, <2>7 DEF IngestFail
<1>3. CASE IngestBuffer
  <2>1. Len(delivered) \in Nat /\ syncedTotal \in Nat
    BY DEF TypeOK
  <2>2. Len(delivered') - Len(delivered) >= syncedTotal' - syncedTotal
    BY <1>3, <2>1 DEF IngestBuffer
  <2> QED BY <1>3, <2>2 DEF IngestBuffer, Upstream
<1> QED BY <1>1, <1>2, <1>3 DEF Ingest

\* What all other steps do to them.
LEMMA OtherEffect ==
  ASSUME TypeOK, [Next]_vars, ~Ingest
  PROVE  /\ UNCHANGED <<accepted, evicted, unspooled>>
         /\ Upstream \subseteq Upstream'
         /\ lost \subseteq lost'
         /\ InRing \subseteq InRing' \cup Upstream' \cup lost'
         /\ \/ UNCHANGED <<buffer, disk>>
            \/ buffer' = <<>> /\ disk' \in {disk, <<>>}
         /\ \/ syncedTotal' = 0 /\ UNCHANGED delivered
            \/ Len(delivered') - Len(delivered) >= syncedTotal' - syncedTotal
<1>0. Len(delivered) \in Nat /\ syncedTotal \in Nat /\ delivered \in Seq(Packets) /\ buffer \in Seq(Packets)
  BY DEF TypeOK
<1>1. CASE UNCHANGED <<buffer, disk, unspooled, accepted, delivered, evicted, lost, syncedTotal>>
  BY <1>0, <1>1 DEF Upstream, InRing
<1>2. ASSUME NEW o \in Operators, StartBlackout(o) \/ EndBlackout(o) \/ FlushEmpty(o)
      PROVE  UNCHANGED <<buffer, disk, unspooled, accepted, delivered, evicted, lost, syncedTotal>>
  BY <1>2 DEF StartBlackout, EndBlackout, FlushEmpty, fileVars
<1>3. CASE Close \/ LinkDown \/ LinkUp \/ UNCHANGED vars
  <2>1. UNCHANGED <<buffer, disk, unspooled, accepted, delivered, evicted, lost, syncedTotal>>
    BY <1>3 DEF Close, LinkDown, LinkUp, vars, muleVars, fileVars
  <2> QED BY <2>1, <1>1
<1>4. CASE Restart
  BY <1>4 DEF Restart, Upstream, InRing
<1>5. ASSUME NEW o \in Operators, FlushOk(o)
      PROVE  /\ UNCHANGED <<accepted, evicted, unspooled, lost>>
             /\ Upstream' = Upstream \cup InRing
             /\ buffer' = <<>> /\ disk' \in {disk, <<>>}
             /\ Len(delivered') - Len(delivered) >= syncedTotal' - syncedTotal
  <2>1. delivered' = delivered \o buffer /\ syncedTotal' = syncedTotal + Len(buffer)
    BY <1>5 DEF FlushOk, Synced
  <2>2. Upstream' = Upstream \cup InRing
    BY <1>0, <2>1, ToSetConcat DEF Upstream, InRing
  <2>3. Len(delivered') = Len(delivered) + Len(buffer) /\ Len(buffer) \in Nat
    BY <1>0, <2>1
  <2>4. Len(delivered') - Len(delivered) >= syncedTotal' - syncedTotal
    BY <1>0, <2>1, <2>3
  <2> QED BY <1>5, <2>2, <2>4 DEF FlushOk, TruncateSpool
<1>6. ASSUME NEW o \in Operators, FlushFail(o)
      PROVE  /\ UNCHANGED <<buffer, disk, unspooled, accepted, evicted, lost>>
             /\ Upstream \subseteq Upstream'
             /\ Len(delivered') - Len(delivered) >= syncedTotal' - syncedTotal
  <2>1. PICK k \in 0..(Len(buffer) - 1), reached \in BOOLEAN :
          /\ delivered' = delivered \o SubSeq(buffer, 1, k) \o Reached(reached, buffer[k + 1])
          /\ syncedTotal' = Synced(k)
    BY <1>6 DEF FlushFail
  <2>2. /\ delivered' \in Seq(Packets)
        /\ ToSet(delivered) \subseteq ToSet(delivered')
        /\ Len(delivered') >= Len(delivered) + k
    BY <2>1, FlushFailHistory
  <2>3. Len(delivered') \in Nat /\ k \in Nat /\ syncedTotal' = syncedTotal + k
    <3>1. Len(buffer) \in Nat /\ k \in Nat
      BY <1>0
    <3>2. Len(delivered') \in Nat
      BY <2>2
    <3> QED BY <2>1, <3>1, <3>2 DEF Synced
  <2>4. Len(delivered') - Len(delivered) >= syncedTotal' - syncedTotal
    BY <1>0, <2>2, <2>3
  <2> QED BY <1>6, <2>2, <2>4 DEF FlushFail, fileVars, Upstream
<1>7. ASSUME NEW o \in Operators, FlushOk(o)
      PROVE  InRing \subseteq InRing' \cup Upstream' \cup lost'
  BY <1>5, <1>7
<1>8. ASSUME NEW o \in Operators, FlushFail(o)
      PROVE  InRing \subseteq InRing' \cup Upstream' \cup lost'
  BY <1>6, <1>8 DEF InRing
<1>9. ASSUME NEW o \in Operators, FlushOk(o) PROVE Upstream \subseteq Upstream' /\ lost \subseteq lost'
  BY <1>5, <1>9
<1>10. CASE \E o \in Operators : FlushOk(o)
  BY <1>5, <1>7, <1>9, <1>10
<1>11. CASE \E o \in Operators : FlushFail(o)
  BY <1>6, <1>8, <1>11
<1>12. CASE \E o \in Operators : StartBlackout(o) \/ EndBlackout(o) \/ FlushEmpty(o)
  BY <1>1, <1>2, <1>12
<1> QED BY <1>3, <1>4, <1>10, <1>11, <1>12 DEF Next, Flush

-----------------------------------------------------------------------------
(* The inductive invariant *)

\* The conjunction of the checked invariants is inductive once the ring is known
\* to be ordered: evicted packets are older than the ring only because the ring
\* drops its least element.
IInv ==
  /\ TypeOK
  /\ NoSilentLoss
  /\ Chronological
  /\ RingDropsOldest
  /\ SpoolCoversRing
  /\ SyncedIsHonest

\* The invariant holds for a fresh mule.
LEMMA InitIInv == Init => IInv
<1> SUFFICES ASSUME Init PROVE IInv
  OBVIOUS
<1>1. TypeOK
  BY InitTypeOK
<1>2. InRing = {} /\ Len(buffer) = 0 /\ DOMAIN buffer = {} /\ DOMAIN disk = {}
  BY DEF Init, InRing, ToSet
<1>3. NoSilentLoss
  BY DEF Init, NoSilentLoss, Packets
<1>4. Chronological
  BY <1>2 DEF Chronological, StrictlyIncreasing
<1>5. RingDropsOldest
  BY <1>2, CapacityPositive DEF RingDropsOldest
<1>6. SpoolCoversRing /\ SyncedIsHonest
  BY <1>2 DEF Init, SpoolCoversRing, SyncedIsHonest
<1> QED BY <1>1, <1>3, <1>4, <1>5, <1>6 DEF IInv

\* Spool keeps the ring and the file in order, the ring within its capacity,
\* and everything it drops older than what stays.
LEMMA SpoolOrder ==
  ASSUME IInv, accepted' = accepted + 1, Spool(accepted + 1)
  PROVE  Chronological' /\ RingDropsOldest'
<1> DEFINE p == accepted + 1
           old == IF Len(buffer) >= Capacity THEN Tail(buffer) ELSE buffer
<1>1. /\ TypeOK /\ accepted \in Nat /\ buffer \in Seq(Packets) /\ disk \in Seq(Packets)
      /\ evicted \subseteq Packets /\ StrictlyIncreasing(buffer) /\ StrictlyIncreasing(disk)
      /\ Len(buffer) <= Capacity /\ \A e \in evicted, q \in InRing : e < q
  BY DEF IInv, TypeOK, Chronological, RingDropsOldest
<1>2. Packets \subseteq Nat /\ (\A q \in Packets : q < p) /\ p \in Nat
  BY <1>1 DEF Packets
<1>3. buffer \in Seq(Nat) /\ disk \in Seq(Nat) /\ InRing \subseteq Packets /\ OnDisk \subseteq Packets
  BY <1>1, <1>2, SeqMonotonic, ToSetIndex DEF InRing, OnDisk
<1>4. /\ old \in Seq(Nat) /\ StrictlyIncreasing(old) /\ ToSet(old) \subseteq InRing
      /\ Len(old) + 1 <= Capacity
      /\ Dropped \subseteq InRing
      /\ \A e \in Dropped, q \in ToSet(old) : e < q
  <2>1. CASE Len(buffer) >= Capacity
    <3>1. buffer # <<>> /\ Len(buffer) = Capacity
      BY <1>1, <2>1, CapacityPositive
    <3>2. StrictlyIncreasing(Tail(buffer)) /\ \A q \in ToSet(Tail(buffer)) : Head(buffer) < q
      BY <1>1, <1>3, <3>1, IncreasingTail
    <3>3. /\ Tail(buffer) \in Seq(Nat) /\ Len(Tail(buffer)) = Len(buffer) - 1
          /\ ToSet(buffer) = {Head(buffer)} \cup ToSet(Tail(buffer))
      BY <1>3, <3>1, ToSetTail
    <3>4. old = Tail(buffer) /\ Dropped = {Head(buffer)}
      BY <2>1 DEF Dropped
    <3>5. Len(old) + 1 <= Capacity
      BY <3>1, <3>3, <3>4, CapacityPositive
    <3> HIDE DEF old
    <3> QED BY <3>2, <3>3, <3>4, <3>5 DEF InRing
  <2>2. CASE ~(Len(buffer) >= Capacity)
    <3>1. old = buffer /\ Dropped = {} /\ Len(buffer) \in Nat
      BY <1>1, <2>2 DEF Dropped
    <3>2. Len(old) + 1 <= Capacity
      BY <2>2, <3>1, CapacityPositive
    <3> HIDE DEF old
    <3> QED BY <1>1, <1>3, <3>1, <3>2 DEF InRing
  <2> QED BY <2>1, <2>2
<1>5. buffer' = Append(old, p) /\ evicted' = evicted \cup Dropped
  BY DEF Spool, Buffered
<1> HIDE DEF old, p
<1>6. StrictlyIncreasing(buffer')
  BY <1>2, <1>3, <1>4, <1>5, IncreasingAppend
<1>7. Len(buffer') <= Capacity /\ InRing' = ToSet(old) \cup {p}
  BY <1>2, <1>4, <1>5, ToSetAppend DEF InRing
<1>8. \A e \in evicted', q \in InRing' : e < q
  BY <1>1, <1>2, <1>3, <1>4, <1>5, <1>7
<1>9. StrictlyIncreasing(disk')
  <2>1. CASE disk' = Append(disk, p)
    <3>1. \A q \in ToSet(disk) : q < p
      BY <1>2, <1>3 DEF OnDisk
    <3> QED BY <1>1, <1>2, <1>3, <2>1, <3>1, IncreasingAppend
  <2>2. CASE disk' = disk
    BY <2>2, <1>1
  <2> QED BY <2>1, <2>2 DEF Spool, Persist, p
<1> QED BY <1>6, <1>7, <1>8, <1>9, CapacityPositive DEF Chronological, RingDropsOldest, Capacity

\* Every step keeps the invariant.
LEMMA NextIInv == IInv /\ [Next]_vars => IInv'
<1> SUFFICES ASSUME IInv, [Next]_vars PROVE IInv'
  OBVIOUS
<1>1. TypeOK /\ TypeOK'
  BY NextTypeOK DEF IInv
<1>2. CASE Ingest
  <2>1. /\ accepted' = accepted + 1 /\ lost' = lost /\ Upstream \subseteq Upstream'
        /\ \/ Spool(accepted + 1)
           \/ accepted + 1 \in Upstream' /\ UNCHANGED <<buffer, disk, unspooled, evicted>>
        /\ Len(delivered') - Len(delivered) >= syncedTotal' - syncedTotal
    BY <1>1, <1>2, IngestEffect
  <2>2. Packets' = Packets \cup {accepted + 1}
    BY <1>1, <2>1, PacketsGrow DEF TypeOK
  <2>3. SyncedIsHonest'
    <3>1. /\ syncedTotal \in Nat /\ syncedTotal' \in Nat /\ Len(delivered) \in Nat
          /\ Len(delivered') \in Nat /\ syncedTotal <= Len(delivered)
      BY <1>1 DEF IInv, TypeOK, SyncedIsHonest
    <3> QED BY <2>1, <3>1 DEF SyncedIsHonest
  <2>4. CASE Spool(accepted + 1)
    <3>1. /\ InRing' \cup Dropped = InRing \cup {accepted + 1}
          /\ InRing' \subseteq InRing \cup {accepted + 1}
          /\ evicted' = evicted \cup Dropped
          /\ OnDisk' \cup unspooled' = OnDisk \cup unspooled \cup {accepted + 1}
      BY <1>1, <2>1, <2>4, SpoolStep
    <3>2. NoSilentLoss'
      BY <2>1, <2>2, <3>1 DEF IInv, NoSilentLoss
    <3>3. SpoolCoversRing'
      BY <3>1 DEF IInv, SpoolCoversRing
    <3>4. Chronological' /\ RingDropsOldest'
      BY <2>1, <2>4, SpoolOrder
    <3> QED BY <1>1, <2>3, <3>2, <3>3, <3>4 DEF IInv
  <2>5. CASE accepted + 1 \in Upstream' /\ UNCHANGED <<buffer, disk, unspooled, evicted>>
    <3>1. NoSilentLoss'
      BY <2>1, <2>2, <2>5 DEF IInv, NoSilentLoss, InRing
    <3>2. Chronological' /\ RingDropsOldest' /\ SpoolCoversRing'
      BY <2>5 DEF IInv, Chronological, StrictlyIncreasing, RingDropsOldest, SpoolCoversRing,
                  InRing, OnDisk, Capacity
    <3> QED BY <1>1, <2>3, <3>1, <3>2 DEF IInv
  <2> QED BY <2>1, <2>4, <2>5
<1>3. CASE ~Ingest
  <2>1. /\ UNCHANGED <<accepted, evicted, unspooled>>
        /\ Upstream \subseteq Upstream' /\ lost \subseteq lost'
        /\ InRing \subseteq InRing' \cup Upstream' \cup lost'
        /\ \/ UNCHANGED <<buffer, disk>>
           \/ buffer' = <<>> /\ disk' \in {disk, <<>>}
        /\ \/ syncedTotal' = 0 /\ UNCHANGED delivered
           \/ Len(delivered') - Len(delivered) >= syncedTotal' - syncedTotal
    BY <1>1, <1>3, OtherEffect
  <2>2. NoSilentLoss'
    BY <2>1 DEF IInv, NoSilentLoss, Packets
  <2>3. SyncedIsHonest'
    <3>1. /\ syncedTotal \in Nat /\ syncedTotal' \in Nat /\ Len(delivered) \in Nat
          /\ Len(delivered') \in Nat /\ syncedTotal <= Len(delivered)
      BY <1>1 DEF IInv, TypeOK, SyncedIsHonest
    <3> QED BY <2>1, <3>1 DEF SyncedIsHonest
  <2>4. CASE UNCHANGED <<buffer, disk>>
    <3>1. Chronological' /\ RingDropsOldest' /\ SpoolCoversRing'
      BY <2>1, <2>4 DEF IInv, Chronological, StrictlyIncreasing, RingDropsOldest, SpoolCoversRing,
                  InRing, OnDisk, Capacity
    <3> QED BY <1>1, <2>2, <2>3, <3>1 DEF IInv
  <2>5. CASE buffer' = <<>> /\ disk' \in {disk, <<>>}
    <3>1. InRing' = {} /\ Len(buffer') = 0 /\ StrictlyIncreasing(buffer')
      BY <2>5 DEF InRing, ToSet, StrictlyIncreasing
    <3>2. StrictlyIncreasing(disk')
      BY <2>5 DEF IInv, Chronological, StrictlyIncreasing
    <3>3. RingDropsOldest' /\ SpoolCoversRing'
      BY <3>1, CapacityPositive DEF RingDropsOldest, SpoolCoversRing, Capacity
    <3> QED BY <1>1, <2>2, <2>3, <3>1, <3>2, <3>3 DEF IInv, Chronological
  <2> QED BY <2>1, <2>4, <2>5
<1> QED BY <1>2, <1>3

\* The inductive invariant holds in every reachable state.
THEOREM MuleInvariant == Spec => []IInv
<1> QED BY InitIInv, NextIInv, PTL DEF Spec

\* No accepted packet disappears silently, whatever the capacity of the ring and
\* the order of ingests, mode changes, flushes, faults and restarts.
THEOREM MuleNoSilentLoss == Spec => []NoSilentLoss
<1>1. IInv => NoSilentLoss
  BY DEF IInv
<1> QED BY <1>1, MuleInvariant, PTL

\* The backlog in memory and on disk is always in ingest order.
THEOREM MuleChronological == Spec => []Chronological
<1>1. IInv => Chronological
  BY DEF IInv
<1> QED BY <1>1, MuleInvariant, PTL

\* The ring never exceeds its capacity and drops its oldest packets only.
THEOREM MuleRingDropsOldest == Spec => []RingDropsOldest
<1>1. IInv => RingDropsOldest
  BY DEF IInv
<1> QED BY <1>1, MuleInvariant, PTL

\* Every packet in the ring is recorded on disk unless writing its record failed.
THEOREM MuleSpoolCoversRing == Spec => []SpoolCoversRing
<1>1. IInv => SpoolCoversRing
  BY DEF IInv
<1> QED BY <1>1, MuleInvariant, PTL

\* The sync counter shown to the operator never overstates what arrived.
THEOREM MuleSyncedIsHonest == Spec => []SyncedIsHonest
<1>1. IInv => SyncedIsHonest
  BY DEF IInv
<1> QED BY <1>1, MuleInvariant, PTL

-----------------------------------------------------------------------------
(* Implementation of StoreAndForward *)

\* The first k packets of the ring and the next one are the first k + 1.
LEMMA PrefixPlusOne ==
  ASSUME NEW S, NEW s \in Seq(S), NEW k \in 0..(Len(s) - 1)
  PROVE  ToSet(SubSeq(s, 1, k + 1)) = ToSet(SubSeq(s, 1, k)) \cup {s[k + 1]}
<1>1. Len(s) \in Nat /\ k \in Nat /\ k + 1 \in 1..Len(s)
  OBVIOUS
<1>2. s[k + 1] \in S /\ SubSeq(s, 1, k) \in Seq(S) /\ SubSeq(s, 1, k + 1) \in Seq(S)
  BY <1>1
<1>3. Len(SubSeq(s, 1, k)) = k /\ Len(SubSeq(s, 1, k + 1)) = k + 1
  BY <1>1
<1>4. \A i \in 1..k : SubSeq(s, 1, k)[i] = s[i]
  BY <1>1
<1>5. \A i \in 1..(k + 1) : SubSeq(s, 1, k + 1)[i] = s[i]
  BY <1>1
<1>6. ToSet(SubSeq(s, 1, k)) = {s[i] : i \in 1..k}
  <2>1. DOMAIN SubSeq(s, 1, k) = 1..k
    BY <1>2, <1>3
  <2> QED BY <2>1, <1>4 DEF ToSet
<1>7. ToSet(SubSeq(s, 1, k + 1)) = {s[i] : i \in 1..(k + 1)}
  <2>1. DOMAIN SubSeq(s, 1, k + 1) = 1..(k + 1)
    BY <1>2, <1>3
  <2> QED BY <2>1, <1>5 DEF ToSet
<1>8. 1..(k + 1) = (1..k) \cup {k + 1}
  BY <1>1
<1> QED BY <1>6, <1>7, <1>8

\* Every step of the mule is a step of the abstract queue or leaves it alone.
LEMMA StepSimulation == TypeOK /\ [Next]_vars => [SAF!Next]_SAF!vars
<1> SUFFICES ASSUME TypeOK, [Next]_vars PROVE [SAF!Next]_SAF!vars
  OBVIOUS
<1> USE DEF SAF!vars, SAF!Next
<1>0. accepted \in Nat /\ delivered \in Seq(Packets) /\ buffer \in Seq(Packets) /\ Len(buffer) \in Nat
  BY DEF TypeOK
<1>1. CASE IngestForward
  <2>1. delivered \in Seq(Packets') /\ accepted + 1 \in Packets'
    BY <1>0, <1>1, PacketsGrow DEF IngestForward
  <2>2. Upstream' = Upstream \cup {accepted + 1}
    BY <1>1, <2>1, ToSetAppend DEF IngestForward, Upstream
  <2> QED BY <1>1, <2>2 DEF IngestForward, SAF!Forward
<1>2. ASSUME accepted' = accepted + 1, Spool(accepted + 1), UNCHANGED lost,
             Upstream' \in {Upstream, Upstream \cup {accepted + 1}}
      PROVE  SAF!Hold
  <2>1. CASE Len(buffer) < Capacity
    <3>1. ~(Len(buffer) >= Capacity)
      BY <2>1, <1>0, CapacityPositive
    <3>2. buffer' = Append(buffer, accepted + 1) /\ evicted' = evicted
      BY <1>2, <3>1 DEF Spool, Buffered, Dropped
    <3> QED BY <1>2, <2>1, <3>2 DEF SAF!Hold
  <2>2. CASE ~(Len(buffer) < Capacity)
    <3>1. Len(buffer) >= Capacity
      BY <2>2, <1>0, CapacityPositive
    <3>2. buffer' = Append(Tail(buffer), accepted + 1) /\ evicted' = evicted \cup {Head(buffer)}
      BY <1>2, <3>1 DEF Spool, Buffered, Dropped
    <3>3. evicted' \cup lost' = (evicted \cup lost) \cup {Head(buffer)}
      BY <1>2, <3>2
    <3> QED BY <1>2, <2>2, <3>2, <3>3 DEF SAF!Hold
  <2> QED BY <2>1, <2>2
<1>3. CASE IngestFail
  <2>1. PICK reached \in BOOLEAN : delivered' = delivered \o Reached(reached, accepted + 1)
    BY <1>3 DEF IngestFail
  <2>2. delivered \in Seq(Packets') /\ accepted + 1 \in Packets'
    BY <1>0, <1>3, PacketsGrow DEF IngestFail
  <2>3. Reached(reached, accepted + 1) \in Seq(Packets')
    BY <2>2, ReachedType
  <2>4. ToSet(Reached(reached, accepted + 1)) = IF reached THEN {accepted + 1} ELSE {}
    BY DEF Reached, ToSet
  <2>5. Upstream' = Upstream \cup ToSet(Reached(reached, accepted + 1))
    BY <2>1, <2>2, <2>3, ToSetConcat DEF Upstream
  <2>6. Upstream' \in {Upstream, Upstream \cup {accepted + 1}}
    BY <2>4, <2>5
  <2> QED BY <1>2, <1>3, <2>6 DEF IngestFail
<1>4. CASE IngestBuffer
  BY <1>2, <1>4 DEF IngestBuffer, Upstream
<1>5. ASSUME NEW o \in Operators, FlushOk(o) PROVE SAF!Drain
  <2>1. Upstream' = Upstream \cup ToSet(buffer)
    BY <1>0, <1>5, ToSetConcat DEF FlushOk, Upstream
  <2>2. accepted' = accepted /\ buffer' = <<>> /\ evicted' \cup lost' = evicted \cup lost
    BY <1>5 DEF FlushOk
  <2> QED BY <2>1, <2>2 DEF SAF!Drain, SAF!ToSet, ToSet
<1>6. ASSUME NEW o \in Operators, FlushFail(o) PROVE SAF!Send
  <2>1. PICK k \in 0..(Len(buffer) - 1), reached \in BOOLEAN :
          delivered' = delivered \o SubSeq(buffer, 1, k) \o Reached(reached, buffer[k + 1])
    BY <1>6 DEF FlushFail
  <2> DEFINE u == SubSeq(buffer, 1, k)
             v == Reached(reached, buffer[k + 1])
             w == delivered \o u
  <2>2. k \in Nat /\ k + 1 \in 1..Len(buffer) /\ buffer[k + 1] \in Packets
    BY <1>0
  <2>3. u \in Seq(Packets)
    BY <1>0, <2>2
  <2>4. v \in Seq(Packets)
    BY <2>2, ReachedType
  <2>5. ToSet(v) = IF reached THEN {buffer[k + 1]} ELSE {}
    BY DEF Reached, ToSet
  <2>6. delivered' = w \o v
    BY <2>1
  <2>7. ToSet(SubSeq(buffer, 1, k + 1)) = ToSet(u) \cup {buffer[k + 1]}
    BY <1>0, PrefixPlusOne
  <2> HIDE DEF u, v
  <2>8. w \in Seq(Packets) /\ ToSet(w) = ToSet(delivered) \cup ToSet(u)
    BY <1>0, <2>3, ToSetConcat
  <2> HIDE DEF w
  <2>9. Upstream' = Upstream \cup ToSet(u) \cup ToSet(v)
    BY <2>4, <2>6, <2>8, ToSetConcat DEF Upstream
  <2>10. \E n \in 0..Len(buffer) : Upstream' = Upstream \cup ToSet(SubSeq(buffer, 1, n))
    <3>1. CASE reached
      <4>1. Upstream' = Upstream \cup ToSet(SubSeq(buffer, 1, k + 1))
        BY <2>5, <2>7, <2>9, <3>1
      <4>2. k + 1 \in 0..Len(buffer)
        BY <2>2
      <4> QED BY <4>1, <4>2
    <3>2. CASE ~reached
      <4>1. Upstream' = Upstream \cup ToSet(SubSeq(buffer, 1, k))
        BY <2>5, <2>9, <3>2 DEF u
      <4>2. k \in 0..Len(buffer)
        BY <2>2, <1>0
      <4> QED BY <4>1, <4>2
    <3> QED BY <3>1, <3>2
  <2>11. accepted' = accepted /\ buffer' = buffer /\ evicted' \cup lost' = evicted \cup lost
    BY <1>6 DEF FlushFail
  <2> QED BY <2>10, <2>11 DEF SAF!Send, SAF!ToSet, ToSet
<1>7. CASE Restart
  <2>1. evicted' \cup lost' = (evicted \cup lost) \cup ToSet(buffer)
    BY <1>7 DEF Restart
  <2>2. Upstream' = Upstream /\ accepted' = accepted /\ buffer' = <<>>
    BY <1>7 DEF Restart, Upstream
  <2> QED BY <2>1, <2>2 DEF SAF!Reset, SAF!ToSet, ToSet
<1>8. ASSUME NEW o \in Operators, StartBlackout(o) \/ EndBlackout(o) \/ FlushEmpty(o)
      PROVE  UNCHANGED SAF!vars
  BY <1>8 DEF StartBlackout, EndBlackout, FlushEmpty, Upstream
<1>9. CASE Close \/ LinkDown \/ LinkUp \/ UNCHANGED vars
  BY <1>9 DEF Close, LinkDown, LinkUp, vars, muleVars, Upstream
<1> QED BY <1>1, <1>3, <1>4, <1>5, <1>6, <1>7, <1>8, <1>9 DEF Next, Ingest, Flush

\* The Data Mule implements the bounded at-least-once queue of StoreAndForward:
\* no interleaving of its methods gives up a packet, or sends the held ones in an
\* order, that the abstract queue does not allow.
THEOREM MuleImplementsStoreAndForward == Spec => ImplementsStoreAndForward
<1>1. Init => SAF!Init
  BY DEF Init, SAF!Init, Upstream, ToSet
<1> QED BY <1>1, StepSimulation, MuleTypeOK, PTL DEF Spec, ImplementsStoreAndForward, SAF!Spec

\* While a blackout is simulated only the Flush of a request that was already past
\* its unlock sends packets upstream: Ingest never does.
THEOREM MuleBlackoutHolds == Spec => BlackoutHolds
<1> DEFINE A == simulatedDDIL /\ delivered' # delivered => \E o \in Operators : pc[o] = "flush"
<1>1. [Next]_vars => [A]_vars
  <2> SUFFICES ASSUME Next, simulatedDDIL, delivered' # delivered
               PROVE  \E o \in Operators : pc[o] = "flush"
    OBVIOUS
  <2>1. ASSUME NEW o \in Operators, Flush(o) PROVE pc[o] = "flush"
    BY <2>1 DEF Flush, FlushEmpty, FlushOk, FlushFail
  <2>2. CASE Ingest
    BY <2>2 DEF Ingest, IngestForward, IngestFail, IngestBuffer, Forwarding
  <2>3. ASSUME NEW o \in Operators, StartBlackout(o) \/ EndBlackout(o) PROVE FALSE
    BY <2>3 DEF StartBlackout, EndBlackout
  <2>4. CASE Close \/ Restart \/ LinkDown \/ LinkUp
    BY <2>4 DEF Close, Restart, LinkDown, LinkUp
  <2> QED BY <2>1, <2>2, <2>3, <2>4 DEF Next
<1> QED BY <1>1, PTL DEF Spec, BlackoutHolds

=============================================================================
