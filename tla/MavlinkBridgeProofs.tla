------------------------- MODULE MavlinkBridgeProofs -------------------------
(***************************************************************************)
(* Proofs about MavlinkBridge, for every set of messages of the autopilot    *)
(* and of other hosts and any number of frames, datagrams and line faults.   *)
(***************************************************************************)
EXTENDS MavlinkBridge, SequenceTheorems, TLAPS

-----------------------------------------------------------------------------
(* The status of the vehicle *)

Shape(v) ==
  /\ v = [armed |-> v.armed, status |-> v.status, alt |-> v.alt]
  /\ v.armed \in BOOLEAN
  /\ v.alt \in {0, 1}

\* What the history must add to StatusIsExplained: the altitude known now is
\* one of those known since the heartbeat.
StatusInv ==
  /\ Shape(vehicle)
  /\ altsSince \subseteq {0, 1}
  /\ vehicle.alt \in altsSince
  /\ StatusIsExplained

\* What an update of a vehicle in two of its fields is.
LEMMA Updated ==
  ASSUME NEW v, Shape(v), NEW x, NEW y
  PROVE  /\ [v EXCEPT !.armed = x, !.status = y] =
              [armed |-> x, status |-> y, alt |-> v.alt]
         /\ [v EXCEPT !.alt = x, !.status = y] =
              [armed |-> v.armed, status |-> y, alt |-> x]
<1> DEFINE p == v.armed  q == v.status  r == v.alt
<1>1. v = [armed |-> p, status |-> q, alt |-> r]
  BY DEF Shape
<1> HIDE DEF p, q, r
<1> DEFINE armed == [v EXCEPT !.armed = x]  moved == [v EXCEPT !.alt = x]
<1>2. /\ [v EXCEPT !.armed = x, !.status = y] = [armed EXCEPT !.status = y]
      /\ [v EXCEPT !.alt = x, !.status = y] = [moved EXCEPT !.status = y]
  OBVIOUS
<1>3. /\ armed = [armed |-> x, status |-> q, alt |-> r]
      /\ moved = [armed |-> p, status |-> q, alt |-> x]
  BY <1>1
<1> HIDE DEF armed, moved
<1>4. [armed EXCEPT !.status = y] = [armed |-> x, status |-> y, alt |-> r]
  BY <1>3
<1>5. [moved EXCEPT !.status = y] = [armed |-> p, status |-> y, alt |-> x]
  BY <1>3
<1> QED BY <1>2, <1>4, <1>5 DEF p, q, r

\* A decoded heartbeat settles the status by the altitude known at that moment.
LEMMA HeartbeatSettles ==
  ASSUME NEW v, Shape(v), NEW payload
  PROVE  LET w == IngestHeartbeat(v, payload) IN
         /\ Shape(w) /\ w.alt = v.alt
         /\ w.status = IF ~w.armed THEN "STANDBY" ELSE IF v.alt = 1 THEN "IN_FLIGHT" ELSE "ARMED"
<1> DEFINE a == IsArmed(payload)
<1>1. a \in BOOLEAN
  BY DEF IsArmed
<1>2. IngestHeartbeat(v, payload) =
        [armed |-> a, status |-> HeartbeatStatus(v, a), alt |-> v.alt]
  BY Updated DEF IngestHeartbeat
<1>3. HeartbeatStatus(v, a) = IF ~a THEN "STANDBY" ELSE IF v.alt = 1 THEN "IN_FLIGHT" ELSE "ARMED"
  BY DEF HeartbeatStatus, Shape
<1> HIDE DEF a
<1> QED BY <1>1, <1>2, <1>3 DEF Shape

\* A position changes the altitude, and the status of an armed vehicle in the air.
LEMMA PositionRaises ==
  ASSUME NEW v, Shape(v), NEW payload
  PROVE  LET w == IngestPosition(v, payload) IN
         /\ Shape(w) /\ w.armed = v.armed
         /\ w.status = IF v.armed /\ w.alt = 1 THEN "IN_FLIGHT" ELSE v.status
<1> DEFINE a == AltMeters(payload)
<1>1. a \in {0, 1}
  BY DEF AltMeters
<1> DEFINE y == IF v.armed /\ a > 0 THEN "IN_FLIGHT" ELSE v.status
<1>2. IngestPosition(v, payload) = [v EXCEPT !.alt = a, !.status = y]
  BY DEF IngestPosition
<1>3. y = IF v.armed /\ a = 1 THEN "IN_FLIGHT" ELSE v.status
  BY <1>1
<1> HIDE DEF a, y
<1>4. [v EXCEPT !.alt = a, !.status = y] =
        [armed |-> v.armed, status |-> y, alt |-> a]
  BY Updated
<1> QED BY <1>1, <1>2, <1>3, <1>4 DEF Shape

\* A frame of any kind keeps the status explained.
LEMMA IngestStatus ==
  ASSUME StatusInv, NEW f, IngestFrame(f)
  PROVE  StatusInv'
<1> USE DEF MsgIDHeartbeat, MsgIDGlobalPositionInt
<1> DEFINE hb == f.id = MsgIDHeartbeat /\ DecodesHeartbeat(f.payload)
           gp == f.id = MsgIDGlobalPositionInt /\ DecodesGlobalPositionInt(f.payload)
<1>1. Shape(vehicle) /\ vehicle.alt \in altsSince /\ altsSince \subseteq {0, 1}
  BY DEF StatusInv
<1>2. CASE hb
  <2>1. vehicle' = IngestHeartbeat(vehicle, f.payload) /\ altsSince' = {vehicle.alt}
    BY <1>2 DEF IngestFrame, Ingest
  <2> QED BY <1>1, <2>1, HeartbeatSettles DEF StatusInv, StatusIsExplained, Shape
<1>3. CASE gp
  <2>1. vehicle' = IngestPosition(vehicle, f.payload) /\ altsSince' = altsSince \cup {vehicle'.alt}
    BY <1>3 DEF IngestFrame, Ingest
  <2> QED BY <1>1, <2>1, PositionRaises DEF StatusInv, StatusIsExplained, Shape
<1>4. CASE ~hb /\ ~gp
  <2>1. vehicle' = vehicle /\ altsSince' = altsSince \cup {vehicle'.alt}
    BY <1>4 DEF IngestFrame, Ingest
  <2> QED BY <1>1, <2>1 DEF StatusInv, StatusIsExplained
<1> QED BY <1>2, <1>3, <1>4

\* Only a frame that is ingested changes the vehicle.
LEMMA NextStatusInv == StatusInv /\ [Next]_vars => StatusInv'
<1> SUFFICES ASSUME StatusInv, [Next]_vars PROVE StatusInv'
  OBVIOUS
<1>1. CASE UNCHANGED <<vehicle, altsSince>>
  BY <1>1 DEF StatusInv, StatusIsExplained
<1>2. ASSUME NEW d, ReadDatagram(d) PROVE StatusInv'
  BY <1>1, <1>2, IngestStatus DEF ReadDatagram
<1>3. CASE ReadLine
  BY <1>1, <1>3, IngestStatus DEF ReadLine
<1>4. ASSUME \/ AutopilotSends \/ StraySends \/ Line \/ Publish \/ TakeAddress \/ WriteCommand
             \/ (\E d \in inflight : LoseDatagram(d)) \/ (\E m \in Messages : SendOnLine(m))
             \/ UNCHANGED vars
      PROVE  UNCHANGED <<vehicle, altsSince>>
  BY <1>4 DEF AutopilotSends, StraySends, SendDatagram, Line, Publish, TakeAddress, WriteCommand,
              LoseDatagram, SendOnLine, vars
<1> QED BY <1>1, <1>2, <1>3, <1>4 DEF Next

(* The status that is published is STANDBY, ARMED or IN_FLIGHT by the last   *)
(* heartbeat and the altitudes since, for any messages over either           *)
(* transport, truncated ones included, in any order (IngestFrame).           *)
THEOREM BridgeStatusIsExplained == Spec => []StatusIsExplained
<1>1. Init => StatusInv
  BY DEF Init, StatusInv, Shape, StatusIsExplained
<1>2. StatusInv => StatusIsExplained
  BY DEF StatusInv
<1> QED BY <1>1, <1>2, NextStatusInv, PTL DEF Spec

-----------------------------------------------------------------------------
(* Frames on the wire *)

\* A symbol is a byte or a checksum, which covers bytes only.
Bytes == [b : Nat, of : {<<>>}]
Symbols == [b : Nat, of : Seq(Bytes)]

\* Of the packet whose magic byte is at place p of w: where its checksum is,
\* whether all of it has come, and whether it decodes.
LastOf(w, p) == p + HeaderLenV2 + w[p + 1].b
Whole(w, p) == p + HeaderLenV2 <= Len(w) /\ LastOf(w, p) <= Len(w)
Covered(w, p) == SubSeq(w, p + 1, LastOf(w, p) - 1)
Known(w, p) == HasCRCExtra(w[p + 2].b)
Valid(w, p) ==
  /\ Whole(w, p)
  /\ w[p].b = MagicV2
  /\ Known(w, p) => w[LastOf(w, p)] = Checksum(Covered(w, p))

\* What a part of a sequence is made of.
LEMMA Part ==
  ASSUME NEW S, NEW s \in Seq(S), NEW a \in Nat \ {0}, NEW b \in Nat, b <= Len(s), a <= b + 1
  PROVE  /\ SubSeq(s, a, b) \in Seq(S)
         /\ Len(SubSeq(s, a, b)) = b - a + 1
         /\ \A i \in 1..(b - a + 1) : SubSeq(s, a, b)[i] = s[a + i - 1]
<1>1. \A i \in a..b : s[i] \in S
  BY ElementOfSeq, LenProperties
<1> QED BY <1>1, SubSeqProperties

\* A part of a part is a part.
LEMMA PartOfPart ==
  ASSUME NEW S, NEW s \in Seq(S), NEW a \in Nat \ {0}, NEW b \in Nat, b <= Len(s), a <= b,
         NEW n \in 1..(b - a + 1)
  PROVE  SubSeq(SubSeq(s, a, b), 2, n) = SubSeq(s, a + 1, a + n - 1)
<1> DEFINE d == SubSeq(s, a, b)
<1>1. d \in Seq(S) /\ Len(d) = b - a + 1 /\ \A i \in 1..(b - a + 1) : d[i] = s[a + i - 1]
  BY Part
<1> HIDE DEF d
<1>2. /\ SubSeq(d, 2, n) \in Seq(S) /\ Len(SubSeq(d, 2, n)) = n - 1
      /\ \A i \in 1..(n - 1) : SubSeq(d, 2, n)[i] = d[i + 1]
  BY <1>1, Part
<1>3. /\ SubSeq(s, a + 1, a + n - 1) \in Seq(S) /\ Len(SubSeq(s, a + 1, a + n - 1)) = n - 1
      /\ \A i \in 1..(n - 1) : SubSeq(s, a + 1, a + n - 1)[i] = s[a + i]
  BY Part
<1>4. \A i \in 1..(n - 1) : SubSeq(d, 2, n)[i] = SubSeq(s, a + 1, a + n - 1)[i]
  BY <1>1, <1>2, <1>3
<1>5. SubSeq(d, 2, n) = SubSeq(s, a + 1, a + n - 1)
  BY <1>2, <1>3, <1>4, SeqEqual
<1> QED BY <1>5 DEF d

\* DecodeFrame on what has come from place p on, up to a place e.
LEMMA DecodesPart ==
  ASSUME NEW w \in Seq(Symbols), NEW p \in 1..Len(w), NEW e \in p..Len(w)
  PROVE  Decodes(SubSeq(w, p, e)) <=>
           p + HeaderLenV2 <= e /\ LastOf(w, p) <= e /\ Valid(w, p)
<1> DEFINE data == SubSeq(w, p, e)
<1>1. p \in Nat \ {0} /\ e \in Nat /\ p <= e /\ e <= Len(w) /\ Len(w) \in Nat
  BY LenProperties
<1>2. Len(data) = e - p + 1 /\ \A i \in 1..(e - p + 1) : data[i] = w[p + i - 1]
  BY <1>1, Part
<1> HIDE DEF data
<1>3. CASE p + HeaderLenV2 > e
  BY <1>1, <1>2, <1>3 DEF Decodes, HeaderLenV2, ChecksumLen
<1>4. CASE p + HeaderLenV2 <= e
  <2> DEFINE n == w[p + 1].b
  <2>1. data[1] = w[p] /\ data[2] = w[p + 1] /\ data[3] = w[p + 2]
    BY <1>1, <1>2, <1>4 DEF HeaderLenV2
  <2>2. w[p + 1] \in Symbols
    BY <1>1, <1>4, ElementOfSeq DEF HeaderLenV2
  <2>3. n \in Nat /\ TotalLen(data) = n + 4 /\ LastOf(w, p) = p + n + 3
    <3>1. n \in Nat
      BY <2>2 DEF Symbols
    <3>2. TotalLen(data) = 3 + n + 1 /\ LastOf(w, p) = p + 3 + n
      BY <2>1 DEF TotalLen, LastOf, HeaderLenV2, ChecksumLen
    <3> HIDE DEF n
    <3> QED BY <1>1, <3>1, <3>2
  <2> HIDE DEF n
  <2>4. CASE p + n + 3 > e
    BY <1>1, <1>2, <2>3, <2>4 DEF Decodes, data
  <2>5. CASE p + n + 3 <= e
    <3>1. data[n + 4] = w[p + n + 3]
      BY <1>1, <1>2, <2>3, <2>5
    <3>2. SubSeq(data, 2, n + 3) = SubSeq(w, p + 1, p + n + 2)
      <4>1. n + 3 \in 1..(e - p + 1) /\ p + (n + 3) - 1 = p + n + 2
        BY <1>1, <2>3, <2>5
      <4> DEFINE k == n + 3
      <4>2. k \in 1..(e - p + 1)
        BY <4>1
      <4> HIDE DEF k
      <4>3. SubSeq(data, 2, k) = SubSeq(w, p + 1, p + k - 1)
        BY <1>1, <4>2, PartOfPart DEF data
      <4> QED BY <4>1, <4>3 DEF k
    <3>3. ChecksumOK(data) <=>
            (HasCRCExtra(w[p + 2].b) => w[p + n + 3] = Checksum(SubSeq(w, p + 1, p + n + 2)))
      <4>1. TotalLen(data) - 1 = n + 3
        BY <2>3
      <4> QED BY <2>1, <2>3, <3>1, <3>2, <4>1 DEF ChecksumOK
    <3>4. Decodes(data) <=> w[p].b = MagicV2 /\ ChecksumOK(data)
      BY <1>1, <1>2, <1>4, <2>1, <2>3, <2>5 DEF Decodes, HeaderLenV2, ChecksumLen
    <3>5. Whole(w, p) /\ LastOf(w, p) - 1 = p + n + 2
      BY <1>1, <1>4, <2>3, <2>5 DEF Whole, HeaderLenV2
    <3>6. Valid(w, p) <=> w[p].b = MagicV2 /\ ChecksumOK(data)
      BY <2>3, <3>3, <3>5 DEF Valid, Known, Covered
    <3> QED BY <1>4, <2>3, <2>5, <3>4, <3>6 DEF data
  <2> QED BY <1>1, <2>3, <2>4, <2>5
<1> QED BY <1>1, <1>3, <1>4 DEF HeaderLenV2, data

\* A symbol that comes later changes no packet that had come.
LEMMA Grow ==
  ASSUME NEW w \in Seq(Symbols), NEW x \in Symbols, NEW p \in 1..Len(w), Whole(w, p)
  PROVE  LET v == Append(w, x) IN
         /\ Whole(v, p) /\ LastOf(v, p) = LastOf(w, p) /\ v[p] = w[p]
         /\ v[p + 1] = w[p + 1] /\ v[p + 2] = w[p + 2]
         /\ v[LastOf(w, p)] = w[LastOf(w, p)] /\ Covered(v, p) = Covered(w, p)
         /\ Valid(v, p) <=> Valid(w, p)
<1> DEFINE v == Append(w, x)
           n == w[p + 1].b
<1>1. /\ v \in Seq(Symbols) /\ Len(v) = Len(w) + 1 /\ Len(w) \in Nat
      /\ \A i \in 1..Len(w) : v[i] = w[i]
  BY AppendProperties, LenProperties
<1>2. p \in Nat \ {0} /\ p + 3 <= Len(w) /\ LastOf(w, p) = p + 3 + n
  BY DEF Whole, LastOf, HeaderLenV2
<1>3. w[p + 1] \in Symbols
  BY <1>1, <1>2, ElementOfSeq
<1>4. n \in Nat /\ p + 3 + n <= Len(w)
  BY <1>2, <1>3 DEF Symbols, Whole
<1> HIDE DEF v
<1>5. v[p] = w[p] /\ v[p + 1] = w[p + 1] /\ v[p + 2] = w[p + 2]
  BY <1>1, <1>2
<1>6. LastOf(v, p) = LastOf(w, p)
  BY <1>5 DEF LastOf
<1> HIDE DEF n
<1>7. Whole(v, p) /\ v[LastOf(w, p)] = w[LastOf(w, p)]
  BY <1>1, <1>2, <1>4, <1>6 DEF Whole, HeaderLenV2
<1>8. Covered(v, p) = Covered(w, p)
  <2> DEFINE a == p + 1  b == p + 2 + n
  <2>1. a \in Nat \ {0} /\ b \in Nat /\ b <= Len(w) /\ b <= Len(v) /\ a <= b + 1
    BY <1>1, <1>2, <1>4
  <2>2. \A i \in 1..(b - a + 1) : a + i - 1 \in 1..Len(w)
    BY <1>1, <2>1
  <2>3. Covered(v, p) = SubSeq(v, a, b) /\ Covered(w, p) = SubSeq(w, a, b)
    <3>1. LastOf(w, p) - 1 = b
      BY <1>2, <1>4
    <3> QED BY <1>6, <3>1 DEF Covered
  <2> HIDE DEF a, b
  <2>4. /\ SubSeq(w, a, b) \in Seq(Symbols) /\ Len(SubSeq(w, a, b)) = b - a + 1
        /\ \A i \in 1..(b - a + 1) : SubSeq(w, a, b)[i] = w[a + i - 1]
    BY <2>1, Part
  <2>5. /\ SubSeq(v, a, b) \in Seq(Symbols) /\ Len(SubSeq(v, a, b)) = b - a + 1
        /\ \A i \in 1..(b - a + 1) : SubSeq(v, a, b)[i] = v[a + i - 1]
    BY <1>1, <2>1, Part
  <2>6. \A i \in 1..(b - a + 1) : SubSeq(w, a, b)[i] = SubSeq(v, a, b)[i]
    BY <1>1, <2>2, <2>4, <2>5
  <2>7. SubSeq(w, a, b) = SubSeq(v, a, b)
    BY <2>4, <2>5, <2>6, SeqEqual
  <2> QED BY <2>3, <2>7
<1>9. Valid(v, p) <=> Valid(w, p)
  BY <1>5, <1>6, <1>7, <1>8 DEF Valid, Known
<1> QED BY <1>5, <1>6, <1>7, <1>8, <1>9 DEF v

\* Where a packet that is whole ends.
LEMMA Ends ==
  ASSUME NEW w \in Seq(Symbols), NEW p \in 1..Len(w), Whole(w, p)
  PROVE  /\ LastOf(w, p) \in Nat /\ LastOf(w, p) >= p + 3 /\ LastOf(w, p) <= Len(w)
         /\ w[p + 1].b \in Nat /\ LastOf(w, p) = p + 3 + w[p + 1].b /\ Len(w) \in Nat
         /\ w[p + 2].b \in Nat
<1>1. Len(w) \in Nat /\ p \in Nat \ {0} /\ p + 3 <= Len(w)
  BY LenProperties DEF Whole, HeaderLenV2
<1>2. w[p + 1] \in Symbols /\ w[p + 2] \in Symbols
  BY <1>1, ElementOfSeq
<1>3. w[p + 1].b \in Nat /\ w[p + 2].b \in Nat
  BY <1>2 DEF Symbols
<1>4. LastOf(w, p) = p + 3 + w[p + 1].b /\ LastOf(w, p) <= Len(w)
  BY DEF LastOf, Whole, HeaderLenV2
<1> QED BY <1>1, <1>3, <1>4

\* A valid packet with a known id: bytes, and one checksum, at its end.
LEMMA OneChecksum ==
  ASSUME NEW w \in Seq(Symbols), NEW p \in 1..Len(w), Valid(w, p), Known(w, p)
  PROVE  /\ w[LastOf(w, p)].b = 2
         /\ w[LastOf(w, p)].of # <<>>
         /\ Len(w[LastOf(w, p)].of) = LastOf(w, p) - p - 1
         /\ \A i \in (p + 1)..(LastOf(w, p) - 1) :
              w[i].of = <<>> /\ w[LastOf(w, p)].of[i - p] = w[i]
<1> DEFINE e == LastOf(w, p)
<1>1. Whole(w, p) /\ w[e] = Checksum(Covered(w, p))
  BY DEF Valid
<1>2. e \in Nat /\ e >= p + 3 /\ e <= Len(w) /\ p \in Nat \ {0} /\ Len(w) \in Nat
  BY <1>1, Ends
<1>3. Covered(w, p) = SubSeq(w, p + 1, e - 1)
  BY DEF Covered
<1> HIDE DEF e
<1>4. w[e] \in Symbols
  BY <1>2, ElementOfSeq
<1>5. w[e].b = 2 /\ w[e].of = SubSeq(w, p + 1, e - 1)
  <2>1. \A d : Checksum(d).b = 2 /\ Checksum(d).of = d
    BY DEF Checksum
  <2> QED BY <1>1, <1>3, <2>1
<1>6. w[e].of \in Seq(Bytes)
  BY <1>4 DEF Symbols
<1>7. p + 1 \in Nat \ {0} /\ e - 1 \in Nat /\ e - 1 <= Len(w) /\ p + 1 <= (e - 1) + 1
      /\ (e - 1) - (p + 1) + 1 = e - p - 1
  BY <1>2
<1>8. /\ Len(SubSeq(w, p + 1, e - 1)) = e - p - 1
      /\ \A i \in 1..(e - p - 1) : SubSeq(w, p + 1, e - 1)[i] = w[(p + 1) + i - 1]
  BY <1>7, Part
<1>9. Len(w[e].of) = e - p - 1 /\ \A i \in 1..(e - p - 1) : w[e].of[i] = w[(p + 1) + i - 1]
  BY <1>5, <1>8
<1>10. ASSUME NEW i \in (p + 1)..(e - 1)
       PROVE  w[i].of = <<>> /\ w[e].of[i - p] = w[i]
  <2>1. i - p \in 1..(e - p - 1) /\ (p + 1) + (i - p) - 1 = i
    BY <1>2
  <2>2. w[e].of[i - p] = w[i]
    BY <1>9, <2>1
  <2>3. w[i] \in Bytes
    BY <1>6, <1>9, <2>1, <2>2, ElementOfSeq
  <2> QED BY <2>2, <2>3 DEF Bytes
<1>11. w[e].of # <<>>
  BY <1>2, <1>9, EmptySeq
<1> QED BY <1>5, <1>9, <1>10, <1>11 DEF e

\* No valid packet with a known id begins inside another one: its checksum
\* would have to be a byte of the other, or the other's checksum one of its bytes.
LEMMA NoNesting ==
  ASSUME NEW w \in Seq(Symbols), NEW q \in 1..Len(w), NEW p \in 1..Len(w),
         Valid(w, q), Known(w, q), Valid(w, p), Known(w, p), q < p, p <= LastOf(w, q)
  PROVE  FALSE
<1> DEFINE c == LastOf(w, q)  e == LastOf(w, p)
<1>1. /\ c \in Nat /\ c >= q + 3 /\ c <= Len(w)
      /\ e \in Nat /\ e >= p + 3 /\ e <= Len(w)
  BY Ends DEF Valid
<1>2. /\ w[c].b = 2 /\ w[c].of # <<>> /\ Len(w[c].of) = c - q - 1
      /\ \A i \in (q + 1)..(c - 1) : w[i].of = <<>>
  BY OneChecksum
<1>3. /\ w[e].of # <<>> /\ Len(w[e].of) = e - p - 1
      /\ \A i \in (p + 1)..(e - 1) : w[i].of = <<>>
  BY OneChecksum
<1>4. w[p].b = 5
  BY DEF Valid, MagicV2
<1>5. p \in Nat /\ q \in Nat /\ q < p /\ p <= c
  OBVIOUS
<1> HIDE DEF c, e
<1>6. CASE e < c
  BY <1>1, <1>2, <1>3, <1>5, <1>6
<1>7. CASE e = c
  BY <1>1, <1>2, <1>3, <1>5, <1>7
<1>8. CASE e > c
  BY <1>1, <1>2, <1>3, <1>4, <1>5, <1>8
<1> QED BY <1>1, <1>6, <1>7, <1>8

\* What the checksum of a message covers: its length, its id and its payload.
Covers(m) ==
  [i \in 1..(Len(m.payload) + 2) |->
     Byte(IF i = 1 THEN Len(m.payload) ELSE IF i = 2 THEN m.id ELSE m.payload[i - 2])]

\* EncodeFrame sends bytes, and last the checksum.
LEMMA Encoded ==
  ASSUME NEW m \in [id : Nat, payload : Seq(Nat)]
  PROVE  /\ EncodeFrame(m) \in Seq(Symbols)
         /\ EncodeFrame(m) # <<>>
         /\ \A k \in 1..Len(EncodeFrame(m)) :
              EncodeFrame(m)[k].of # <<>> =>
                k = Len(EncodeFrame(m)) /\ EncodeFrame(m)[k] = Checksum(Covers(m))
<1> DEFINE n == Len(m.payload)
           h == <<Byte(MagicV2), Byte(n), Byte(m.id)>>
           b == [i \in 1..n |-> Byte(m.payload[i])]
           head == h \o b
<1>1. m.id \in Nat /\ m.payload \in Seq(Nat) /\ n \in Nat
  BY LenProperties
<1>2. \A k \in Nat : Byte(k) \in Bytes
  BY DEF Byte, Bytes
<1>3. \A i \in 1..n : m.payload[i] \in Nat
  BY <1>1, ElementOfSeq
<1>4. b \in Seq(Bytes) /\ Len(b) = n /\ \A i \in 1..n : b[i] = Byte(m.payload[i])
  <2>1. \A i \in 1..n : Byte(m.payload[i]) \in Bytes
    BY <1>2, <1>3
  <2> HIDE DEF n
  <2> QED BY <1>1, <2>1
<1>5. h \in Seq(Bytes) /\ Len(h) = 3 /\ h[1] = Byte(MagicV2) /\ h[2] = Byte(n) /\ h[3] = Byte(m.id)
  <2>1. Byte(MagicV2) \in Bytes /\ Byte(n) \in Bytes /\ Byte(m.id) \in Bytes
    BY <1>1, <1>2 DEF MagicV2
  <2> QED BY <2>1
<1> HIDE DEF h, b, n
<1>6. /\ head \in Seq(Bytes) /\ Len(head) = n + 3
      /\ \A i \in 1..(n + 3) : head[i] = IF i <= 3 THEN h[i] ELSE b[i - 3]
  <2>1. /\ head \in Seq(Bytes) /\ Len(head) = Len(h) + Len(b)
        /\ \A i \in 1..(Len(h) + Len(b)) : head[i] = IF i <= Len(h) THEN h[i] ELSE b[i - Len(h)]
    BY <1>4, <1>5, ConcatProperties
  <2> HIDE DEF head
  <2>2. Len(h) = 3 /\ Len(b) = n /\ 3 + n = n + 3
    BY <1>1, <1>4, <1>5
  <2> QED BY <2>1, <2>2
<1> HIDE DEF head
<1> DEFINE t == Tail(head)
<1>7. /\ t \in Seq(Bytes) /\ Len(t) = n + 2
      /\ \A i \in 1..(n + 2) : t[i] = head[i + 1]
  <2>1. head # <<>>
    BY <1>1, <1>6, EmptySeq
  <2> QED BY <1>1, <1>6, <2>1, HeadTailProperties
<1> HIDE DEF t
<1>8. t = Covers(m)
  <2>1. Covers(m) = [i \in 1..(n + 2) |-> Byte(IF i = 1 THEN n ELSE IF i = 2 THEN m.id ELSE m.payload[i - 2])]
    BY DEF Covers, n
  <2>2. \A i \in 1..(n + 2) : Covers(m)[i] = Byte(IF i = 1 THEN n ELSE IF i = 2 THEN m.id ELSE m.payload[i - 2])
    BY <2>1
  <2>3. \A i \in 1..(n + 2) : t[i] = Covers(m)[i]
    <3> SUFFICES ASSUME NEW i \in 1..(n + 2) PROVE t[i] = Covers(m)[i]
      OBVIOUS
    <3>1. t[i] = IF i + 1 <= 3 THEN h[i + 1] ELSE b[i - 2]
      BY <1>1, <1>6, <1>7
    <3>2. CASE i = 1
      <4>1. t[i] = h[2]
        BY <3>1, <3>2
      <4>2. Covers(m)[i] = Byte(n)
        BY <2>2, <3>2
      <4> QED BY <1>5, <4>1, <4>2
    <3>3. CASE i = 2
      <4>1. t[i] = h[3]
        BY <3>1, <3>3
      <4>2. Covers(m)[i] = Byte(m.id)
        BY <2>2, <3>3
      <4> QED BY <1>5, <4>1, <4>2
    <3>4. CASE i >= 3
      <4>1. i - 2 \in 1..n /\ ~(i + 1 <= 3) /\ i # 1 /\ i # 2
        BY <1>1, <3>4
      <4>2. t[i] = Byte(m.payload[i - 2])
        BY <1>4, <3>1, <4>1
      <4>3. Covers(m)[i] = Byte(m.payload[i - 2])
        BY <2>2, <4>1
      <4> QED BY <4>2, <4>3
    <3>5. i = 1 \/ i = 2 \/ i >= 3
      BY <1>1
    <3> QED BY <3>2, <3>3, <3>4, <3>5
  <2> DEFINE c == Covers(m)
  <2>4. t = [i \in 1..(n + 2) |-> t[i]]
    BY <1>7, LenProperties
  <2>5. c = [i \in 1..(n + 2) |-> c[i]]
    BY <2>1
  <2>6. \A i \in 1..(n + 2) : t[i] = c[i]
    BY <2>3
  <2> HIDE DEF c
  <2>7. t = c
    BY <2>4, <2>5, <2>6
  <2> QED BY <2>7 DEF c
<1>9. EncodeFrame(m) = Append(head, Checksum(t))
  BY DEF EncodeFrame, t, head, h, b, n
<1>10. Checksum(t) \in Symbols
  BY <1>7 DEF Checksum, Symbols
<1>11. Bytes \subseteq Symbols
  <2>1. <<>> \in Seq(Bytes)
    BY EmptySeq
  <2> QED BY <2>1 DEF Bytes, Symbols
<1>12. head \in Seq(Symbols) /\ \A i \in 1..(n + 3) : head[i].of = <<>>
  <2>1. \A i \in 1..(n + 3) : head[i] \in Bytes
    BY <1>6, ElementOfSeq
  <2>2. \A i \in 1..(n + 3) : head[i].of = <<>>
    BY <2>1 DEF Bytes
  <2> QED BY <1>6, <1>11, <2>2, SeqMonotonic
<1> DEFINE f == Append(head, Checksum(t))
<1>13. /\ f \in Seq(Symbols) /\ f # <<>> /\ Len(f) = n + 4
       /\ \A i \in 1..(n + 3) : f[i] = head[i]
       /\ f[n + 4] = Checksum(t)
  <2>1. (n + 3) + 1 = n + 4
    BY <1>1
  <2> QED BY <1>6, <1>10, <1>12, <2>1, AppendProperties
<1> HIDE DEF f
<1>14. \A k \in 1..Len(f) : f[k].of # <<>> => k = Len(f) /\ f[k] = Checksum(Covers(m))
  <2> SUFFICES ASSUME NEW k \in 1..Len(f), f[k].of # <<>>
               PROVE  k = Len(f) /\ f[k] = Checksum(Covers(m))
    OBVIOUS
  <2>1. k \notin 1..(n + 3)
    BY <1>12, <1>13
  <2>2. k = n + 4
    BY <1>1, <1>13, <2>1
  <2> QED BY <1>8, <1>13, <2>2
<1> QED BY <1>9, <1>13, <1>14 DEF f

-----------------------------------------------------------------------------
(* The decoder *)

Deliveries == [at : Nat, frame : [id : Nat, payload : Seq(Nat)]]

\* How far the decoder is done: it still looks at the magic byte of a packet.
Done == IF synced THEN pos - 1 ELSE pos

LineInv ==
  /\ wire \in Seq(Symbols)
  /\ pos \in 0..Len(wire)
  /\ synced \in BOOLEAN
  /\ synced => pos > 0 /\ wire[pos].b = MagicV2
  /\ delivered \in Seq(Deliveries)

\* A returned frame is that of a valid packet which the decoder has consumed.
IsReturned(w, done, d) ==
  /\ d.at \in 1..Len(w) /\ Valid(w, d.at) /\ LastOf(w, d.at) <= done
  /\ d.frame.id = w[d.at + 2].b
  /\ Len(d.frame.payload) = w[d.at + 1].b
  /\ \A i \in 1..Len(d.frame.payload) : d.frame.payload[i] = w[d.at + 2 + i].b

\* So is every one, and they follow one another without overlap.
ReturnedInv ==
  /\ \A i \in 1..Len(delivered) : IsReturned(wire, Done, delivered[i])
  /\ \A i, j \in 1..Len(delivered) :
       i < j => LastOf(wire, delivered[i].at) < delivered[j].at

Inside(w, p, d) == d.at <= p /\ p <= LastOf(w, d.at)

\* A magic byte the decoder has gone past began a packet that did not decode,
\* or was given up by a failed read, or belongs to a returned frame.
PastInv ==
  \A p \in 1..Done : wire[p].b = MagicV2 =>
    \/ \E i \in 1..Len(delivered) : Inside(wire, p, delivered[i])
    \/ p \in abandoned
    \/ Whole(wire, p) /\ ~Valid(wire, p)

DecoderInv == LineInv /\ ReturnedInv /\ PastInv

\* The packet NextFrame peeks at is the one that begins at pos.
LEMMA PeekedPacket ==
  ASSUME LineInv, PacketReady
  PROVE  /\ pos \in 1..Len(wire) /\ Whole(wire, pos)
         /\ pos + Needed = LastOf(wire, pos)
         /\ Packet = SubSeq(wire, pos, LastOf(wire, pos))
         /\ Decodes(Packet) <=> Valid(wire, pos)
<1> DEFINE n == wire[pos + 1].b  e == LastOf(wire, pos)
<1>1. Len(wire) \in Nat /\ pos \in 1..Len(wire) /\ wire \in Seq(Symbols)
  BY LenProperties DEF LineInv, PacketReady
<1>2. Len(wire) - pos >= 2
  BY DEF PacketReady, Available, HeaderLenV2
<1>3. n \in Nat
  <2>1. wire[pos + 1] \in Symbols
    BY <1>1, <1>2, ElementOfSeq
  <2> QED BY <2>1 DEF Symbols
<1>4. Needed = 3 + n + 1 - 1 /\ e = pos + 3 + n /\ Len(wire) - pos >= Needed
  BY DEF PacketReady, Available, Needed, LastOf, HeaderLenV2, ChecksumLen
<1>5. Packet = SubSeq(wire, pos, pos + Needed)
  BY DEF Packet
<1> HIDE DEF n
<1>6. pos + Needed = e /\ e <= Len(wire) /\ e \in pos..Len(wire) /\ pos + 3 <= e
  BY <1>1, <1>3, <1>4
<1>7. Whole(wire, pos)
  BY <1>1, <1>6 DEF Whole, HeaderLenV2
<1>8. Decodes(SubSeq(wire, pos, e)) <=> Valid(wire, pos)
  <2> HIDE DEF e
  <2>1. e = LastOf(wire, pos)
    BY DEF e
  <2>2. Decodes(SubSeq(wire, pos, e)) <=>
          pos + HeaderLenV2 <= e /\ LastOf(wire, pos) <= e /\ Valid(wire, pos)
    BY <1>1, <1>6, DecodesPart
  <2> QED BY <1>6, <2>1, <2>2 DEF HeaderLenV2
<1> QED BY <1>1, <1>5, <1>6, <1>7, <1>8

\* What DecodeFrame returns for it.
LEMMA PeekedFrame ==
  ASSUME LineInv, PacketReady
  PROVE  /\ DecodeFrame(Packet) \in [id : Nat, payload : Seq(Nat)]
         /\ DecodeFrame(Packet).id = wire[pos + 2].b
         /\ Len(DecodeFrame(Packet).payload) = wire[pos + 1].b
         /\ \A i \in 1..Len(DecodeFrame(Packet).payload) :
              DecodeFrame(Packet).payload[i] = wire[pos + 2 + i].b
<1> DEFINE n == wire[pos + 1].b  e == LastOf(wire, pos)  k == Packet
           pay == [i \in 1..n |-> k[HeaderLenV2 + i].b]
<1>1. pos \in 1..Len(wire) /\ Whole(wire, pos) /\ k = SubSeq(wire, pos, e) /\ wire \in Seq(Symbols)
  BY PeekedPacket DEF LineInv
<1>2. /\ e \in Nat /\ e <= Len(wire) /\ Len(wire) \in Nat /\ n \in Nat /\ e = pos + 3 + n
      /\ wire[pos + 2].b \in Nat /\ pos \in Nat \ {0}
  BY <1>1, Ends
<1> HIDE DEF k, e
<1>3. \A i \in 1..(e - pos + 1) : k[i] = wire[pos + i - 1]
  BY <1>1, <1>2, Part
<1>4. k[2] = wire[pos + 1] /\ k[3] = wire[pos + 2]
  BY <1>2, <1>3
<1>5. DecodeFrame(k) = [id |-> wire[pos + 2].b, payload |-> pay]
  BY <1>4 DEF DecodeFrame
<1> HIDE DEF n
<1>6. ASSUME NEW i \in 1..n
      PROVE  k[HeaderLenV2 + i].b = wire[pos + 2 + i].b /\ wire[pos + 2 + i].b \in Nat
  <2>1. 3 + i \in 1..(e - pos + 1) /\ pos + (3 + i) - 1 = pos + 2 + i /\ pos + 2 + i \in 1..Len(wire)
    BY <1>2
  <2>2. k[3 + i] = wire[pos + 2 + i]
    BY <1>3, <2>1
  <2>3. wire[pos + 2 + i] \in Symbols
    BY <1>1, <2>1, ElementOfSeq
  <2> QED BY <2>2, <2>3 DEF Symbols, HeaderLenV2
<1>7. pay \in Seq(Nat) /\ Len(pay) = n /\ \A i \in 1..n : pay[i] = wire[pos + 2 + i].b
  BY <1>2, <1>6
<1> HIDE DEF pay
<1>8. DecodeFrame(k).id = wire[pos + 2].b /\ DecodeFrame(k).payload = pay
  BY <1>5
<1> QED BY <1>2, <1>5, <1>7, <1>8 DEF n, k

\* A symbol arrives: nothing the decoder has done is affected.
LEMMA ArriveDecoderInv ==
  ASSUME DecoderInv, NEW x \in Symbols, wire' = Append(wire, x),
         UNCHANGED <<pos, synced, delivered, abandoned>>
  PROVE  DecoderInv'
<1>1. /\ wire' \in Seq(Symbols) /\ Len(wire') = Len(wire) + 1 /\ Len(wire) \in Nat
      /\ wire \in Seq(Symbols) /\ \A i \in 1..Len(wire) : wire'[i] = wire[i]
  BY AppendProperties, LenProperties DEF DecoderInv, LineInv
<1>2. LineInv'
  BY <1>1 DEF DecoderInv, LineInv
<1>3. Done' = Done /\ Done \in Int /\ Done <= Len(wire)
  BY <1>1 DEF Done, DecoderInv, LineInv
<1>4. \A p \in 1..Len(wire) : Whole(wire, p) =>
        /\ Whole(wire', p) /\ LastOf(wire', p) = LastOf(wire, p)
        /\ wire'[p + 1] = wire[p + 1] /\ wire'[p + 2] = wire[p + 2]
        /\ Valid(wire', p) <=> Valid(wire, p)
  BY <1>1, Grow
<1>5. ASSUME NEW i \in 1..Len(delivered)
      PROVE  IsReturned(wire', Done', delivered'[i])
               /\ LastOf(wire', delivered'[i].at) = LastOf(wire, delivered[i].at)
  <2> DEFINE d == delivered[i]
  <2>1. IsReturned(wire, Done, d) /\ d = delivered'[i]
    BY DEF DecoderInv, ReturnedInv
  <2> HIDE DEF d
  <2>2. d.at \in 1..Len(wire) /\ Valid(wire, d.at) /\ Whole(wire, d.at) /\ LastOf(wire, d.at) <= Done
    BY <2>1 DEF IsReturned, Valid
  <2>3. /\ Valid(wire', d.at) /\ LastOf(wire', d.at) = LastOf(wire, d.at)
        /\ wire'[d.at + 1] = wire[d.at + 1] /\ wire'[d.at + 2] = wire[d.at + 2]
    BY <1>4, <2>2
  <2>4. /\ LastOf(wire, d.at) <= Len(wire) /\ wire[d.at + 1].b \in Nat
        /\ LastOf(wire, d.at) = d.at + 3 + wire[d.at + 1].b
    BY <1>1, <2>2, Ends
  <2>5. \A j \in 1..Len(d.frame.payload) : wire'[d.at + 2 + j] = wire[d.at + 2 + j]
    <3>1. Len(d.frame.payload) = wire[d.at + 1].b
      BY <2>1 DEF IsReturned
    <3>2. \A a, l \in Nat \ {0}, n \in Nat : a + 3 + n <= l => \A j \in 1..n : a + 2 + j \in 1..l
      OBVIOUS
    <3>3. d.at \in Nat \ {0} /\ Len(wire) \in Nat \ {0} /\ d.at + 3 + wire[d.at + 1].b <= Len(wire)
      BY <1>1, <2>2, <2>4
    <3>4. \A j \in 1..Len(d.frame.payload) : d.at + 2 + j \in 1..Len(wire)
      BY <2>4, <3>1, <3>2, <3>3
    <3> QED BY <1>1, <3>4
  <2>6. IsReturned(wire', Done, d)
    <3>1. d.at \in 1..Len(wire') /\ Valid(wire', d.at) /\ LastOf(wire', d.at) <= Done
      BY <1>1, <2>2, <2>3
    <3>2. d.frame.id = wire'[d.at + 2].b /\ Len(d.frame.payload) = wire'[d.at + 1].b
      BY <2>1, <2>3 DEF IsReturned
    <3>3. \A j \in 1..Len(d.frame.payload) : d.frame.payload[j] = wire'[d.at + 2 + j].b
      BY <2>1, <2>5 DEF IsReturned
    <3> QED BY <3>1, <3>2, <3>3 DEF IsReturned
  <2> QED BY <1>3, <2>1, <2>3, <2>6
<1>6. ReturnedInv'
  BY <1>5 DEF DecoderInv, ReturnedInv
<1>7. PastInv'
  <2> SUFFICES ASSUME NEW p \in 1..Done, wire'[p].b = MagicV2
               PROVE  \/ \E i \in 1..Len(delivered') : Inside(wire', p, delivered'[i])
                      \/ p \in abandoned'
                      \/ Whole(wire', p) /\ ~Valid(wire', p)
    BY <1>3 DEF PastInv
  <2>1. p \in 1..Len(wire) /\ wire[p].b = MagicV2
    BY <1>1, <1>3
  <2>2. \/ \E i \in 1..Len(delivered) : Inside(wire, p, delivered[i])
        \/ p \in abandoned
        \/ Whole(wire, p) /\ ~Valid(wire, p)
    BY <2>1 DEF DecoderInv, PastInv
  <2> QED BY <1>4, <1>5, <2>1, <2>2 DEF Inside
<1> QED BY <1>2, <1>6, <1>7 DEF DecoderInv

\* Going further keeps what was returned, and asks about the bytes gone past.
LEMMA Advance ==
  ASSUME DecoderInv, LineInv', UNCHANGED <<wire, delivered>>, Done <= Done', abandoned \subseteq abandoned',
         \A p \in (Done + 1)..Done' : wire[p].b = MagicV2 =>
            p \in abandoned' \/ (Whole(wire, p) /\ ~Valid(wire, p))
  PROVE  DecoderInv'
<1>1. Done \in Int /\ Done' \in Int
  BY DEF Done, DecoderInv, LineInv
<1>2. \A d : d.at \in 1..Len(wire) /\ Valid(wire, d.at) => LastOf(wire, d.at) \in Nat
  BY Ends DEF DecoderInv, LineInv, Valid
<1>3. \A d : IsReturned(wire, Done, d) => IsReturned(wire, Done', d)
  <2> SUFFICES ASSUME NEW d, IsReturned(wire, Done, d) PROVE IsReturned(wire, Done', d)
    OBVIOUS
  <2>1. LastOf(wire, d.at) <= Done /\ LastOf(wire, d.at) \in Nat
    BY <1>2 DEF IsReturned
  <2>2. LastOf(wire, d.at) <= Done'
    BY <1>1, <2>1
  <2> QED BY <2>2 DEF IsReturned
<1>4. ReturnedInv'
  BY <1>3 DEF DecoderInv, ReturnedInv
<1>5. PastInv'
  <2> SUFFICES ASSUME NEW p \in 1..Done', wire[p].b = MagicV2
               PROVE  \/ \E i \in 1..Len(delivered) : Inside(wire, p, delivered[i])
                      \/ p \in abandoned'
                      \/ Whole(wire, p) /\ ~Valid(wire, p)
    BY DEF PastInv
  <2>1. p \in 1..Done \/ p \in (Done + 1)..Done'
    BY <1>1
  <2> QED BY <2>1 DEF DecoderInv, PastInv
<1> QED BY <1>4, <1>5 DEF DecoderInv

\* A packet that does not decode costs its magic byte only.
LEMMA ResyncDecoderInv ==
  ASSUME DecoderInv, Resync
  PROVE  DecoderInv'
<1>1. PacketReady /\ ~Decodes(Packet) /\ synced' = FALSE /\ UNCHANGED <<wire, pos, delivered, abandoned>>
  BY DEF Resync
<1>2. LineInv /\ synced
  BY <1>1 DEF DecoderInv, PacketReady
<1>3. pos \in 1..Len(wire) /\ Whole(wire, pos) /\ ~Valid(wire, pos)
  BY <1>1, <1>2, PeekedPacket
<1>4. LineInv'
  BY <1>1, <1>2 DEF LineInv
<1>5. Done = pos - 1 /\ Done' = pos
  BY <1>1, <1>2 DEF Done
<1>6. \A p \in (Done + 1)..Done' : p = pos
  BY <1>3, <1>5
<1>7. Done <= Done'
  BY <1>3, <1>5
<1> QED BY <1>1, <1>3, <1>4, <1>6, <1>7, Advance

\* A packet that decodes is consumed and its frame returned.
LEMMA ReturnDecoderInv ==
  ASSUME DecoderInv, ReturnFrame
  PROVE  DecoderInv'
<1> DEFINE d == [at |-> pos, frame |-> DecodeFrame(Packet)]  e == LastOf(wire, pos)
<1>1. /\ PacketReady /\ Decodes(Packet) /\ synced' = FALSE /\ pos' = pos + Needed
      /\ delivered' = Append(delivered, d) /\ UNCHANGED <<wire, abandoned>>
  BY DEF ReturnFrame
<1>2. LineInv /\ synced /\ wire \in Seq(Symbols) /\ delivered \in Seq(Deliveries)
  BY <1>1 DEF DecoderInv, PacketReady, LineInv
<1>3. pos \in 1..Len(wire) /\ Whole(wire, pos) /\ Valid(wire, pos) /\ pos' = e
  BY <1>1, <1>2, PeekedPacket
<1>4. e \in Nat /\ e >= pos + 3 /\ e <= Len(wire) /\ Len(wire) \in Nat /\ pos \in Nat \ {0}
  BY <1>2, <1>3, Ends
<1>5. d \in Deliveries /\ d.at = pos /\ IsReturned(wire, e, d)
  <2> DEFINE f == DecodeFrame(Packet)
  <2>1. /\ f \in [id : Nat, payload : Seq(Nat)] /\ f.id = wire[pos + 2].b
        /\ Len(f.payload) = wire[pos + 1].b
        /\ \A i \in 1..Len(f.payload) : f.payload[i] = wire[pos + 2 + i].b
    BY <1>1, <1>2, PeekedFrame
  <2> HIDE DEF f
  <2>2. d = [at |-> pos, frame |-> f]
    BY DEF f
  <2> HIDE DEF d
  <2>3. d \in Deliveries /\ d.at = pos /\ d.frame = f
    BY <1>4, <2>1, <2>2 DEF Deliveries
  <2>4. LastOf(wire, d.at) <= e
    BY <1>4, <2>3
  <2> QED BY <1>3, <2>1, <2>3, <2>4 DEF IsReturned
<1> HIDE DEF d, e
<1>6. /\ delivered' \in Seq(Deliveries) /\ Len(delivered') = Len(delivered) + 1 /\ Len(delivered) \in Nat
      /\ \A i \in 1..Len(delivered) : delivered'[i] = delivered[i]
      /\ delivered'[Len(delivered) + 1] = d
  BY <1>1, <1>2, <1>5, AppendProperties, LenProperties
<1>7. Done = pos - 1 /\ Done' = e
  BY <1>1, <1>2, <1>3 DEF Done
<1>8. LineInv'
  <2>1. wire' \in Seq(Symbols) /\ synced' \in BOOLEAN /\ ~synced' /\ delivered' \in Seq(Deliveries)
    BY <1>1, <1>2, <1>6
  <2>2. pos' \in 0..Len(wire')
    BY <1>1, <1>3, <1>4
  <2> QED BY <2>1, <2>2 DEF LineInv
<1>9. ASSUME NEW i \in 1..Len(delivered)
      PROVE  IsReturned(wire, e, delivered[i]) /\ LastOf(wire, delivered[i].at) < pos
  <2>1. IsReturned(wire, Done, delivered[i])
    BY DEF DecoderInv, ReturnedInv
  <2>2. LastOf(wire, delivered[i].at) \in Nat
    BY <1>2, <2>1, Ends DEF IsReturned, Valid
  <2>3. LastOf(wire, delivered[i].at) < pos /\ LastOf(wire, delivered[i].at) <= e
    <3>1. LastOf(wire, delivered[i].at) <= Done
      BY <2>1 DEF IsReturned
    <3> QED BY <1>4, <1>7, <2>2, <3>1
  <2> QED BY <2>1, <2>3 DEF IsReturned
<1>10. ReturnedInv'
  <2>1. \A i \in 1..Len(delivered') : IsReturned(wire', Done', delivered'[i])
    BY <1>1, <1>5, <1>6, <1>7, <1>9
  <2>2. \A i, j \in 1..Len(delivered') :
          i < j => LastOf(wire', delivered'[i].at) < delivered'[j].at
    <3> SUFFICES ASSUME NEW i \in 1..Len(delivered'), NEW j \in 1..Len(delivered'), i < j
                 PROVE  LastOf(wire, delivered'[i].at) < delivered'[j].at
      BY <1>1
    <3>1. i \in 1..Len(delivered) /\ (j \in 1..Len(delivered) \/ j = Len(delivered) + 1)
      BY <1>6
    <3>2. CASE j \in 1..Len(delivered)
      BY <1>6, <3>1, <3>2 DEF DecoderInv, ReturnedInv
    <3>3. CASE j = Len(delivered) + 1
      BY <1>5, <1>6, <1>9, <3>1, <3>3
    <3> QED BY <3>1, <3>2, <3>3
  <2> QED BY <2>1, <2>2 DEF ReturnedInv
<1>11. PastInv'
  <2> SUFFICES ASSUME NEW p \in 1..e, wire[p].b = MagicV2
               PROVE  \/ \E i \in 1..Len(delivered') : Inside(wire, p, delivered'[i])
                      \/ p \in abandoned
                      \/ Whole(wire, p) /\ ~Valid(wire, p)
    BY <1>1, <1>7 DEF PastInv
  <2>1. CASE p < pos
    <3>1. p \in 1..Done
      BY <1>4, <1>7, <2>1
    <3>2. \/ \E i \in 1..Len(delivered) : Inside(wire, p, delivered[i])
          \/ p \in abandoned
          \/ Whole(wire, p) /\ ~Valid(wire, p)
      BY <3>1 DEF DecoderInv, PastInv
    <3>3. \A i \in 1..Len(delivered) : i \in 1..Len(delivered')
      BY <1>6
    <3> QED BY <1>6, <3>2, <3>3
  <2>2. CASE p >= pos
    <3>1. Inside(wire, p, d)
      BY <1>5, <2>2 DEF Inside, e
    <3>2. Len(delivered) + 1 \in 1..Len(delivered')
      BY <1>6
    <3> QED BY <1>6, <3>1, <3>2
  <2> QED BY <1>4, <2>1, <2>2
<1> QED BY <1>8, <1>10, <1>11 DEF DecoderInv

\* Noise on the line is bytes and never a checksum.
LEMMA NoiseBytes == \A n \in Noise : Byte(n) \in Symbols /\ Byte(n).of = <<>>
<1>1. <<>> \in Seq(Bytes)
  BY EmptySeq
<1> QED BY <1>1, BridgeAssumption DEF Byte, Symbols

\* Every step keeps the decoder's invariant.
LEMMA NextDecoderInv == DecoderInv /\ out \in Seq(Symbols) /\ [Next]_vars => DecoderInv'
<1> SUFFICES ASSUME DecoderInv, out \in Seq(Symbols), [Next]_vars PROVE DecoderInv'
  OBVIOUS
<1>1. LineInv /\ Len(wire) \in Nat /\ pos \in Nat
  BY LenProperties DEF DecoderInv, LineInv
<1>2. CASE UNCHANGED <<wire, pos, synced, delivered, abandoned>>
  BY <1>2 DEF DecoderInv, LineInv, ReturnedInv, PastInv, Done
<1>3. CASE SkipNoise
  <2>1. /\ ~synced /\ pos + 1 <= Len(wire) /\ wire[pos + 1].b # MagicV2
        /\ pos' = pos + 1 /\ UNCHANGED <<wire, synced, delivered, abandoned>>
    BY <1>1, <1>3 DEF SkipNoise, Available
  <2>2. LineInv'
    BY <1>1, <2>1 DEF LineInv
  <2>3. Done = pos /\ Done' = pos + 1
    BY <2>1 DEF Done
  <2>4. \A p \in (Done + 1)..Done' : p = pos + 1
    BY <1>1, <2>3
  <2>5. Done <= Done'
    BY <1>1, <2>3
  <2> QED BY <2>1, <2>2, <2>4, <2>5, Advance
<1>4. CASE FindMagic
  <2>1. /\ ~synced /\ pos + 1 <= Len(wire) /\ wire[pos + 1].b = MagicV2
        /\ pos' = pos + 1 /\ synced' = TRUE /\ UNCHANGED <<wire, delivered, abandoned>>
    BY <1>1, <1>4 DEF FindMagic, Available
  <2>2. LineInv'
    BY <1>1, <2>1 DEF LineInv
  <2>3. Done = pos /\ Done' = pos
    BY <1>1, <2>1 DEF Done
  <2>4. (Done + 1)..Done' = {} /\ Done <= Done'
    BY <1>1, <2>3
  <2> QED BY <2>1, <2>2, <2>4, Advance
<1>5. CASE ReadError
  <2>1. synced /\ synced' = FALSE /\ abandoned' = abandoned \cup {pos} /\ UNCHANGED <<wire, pos, delivered>>
    BY <1>5 DEF ReadError
  <2>2. LineInv'
    BY <1>1, <2>1 DEF LineInv
  <2>3. Done = pos - 1 /\ Done' = pos
    BY <2>1 DEF Done
  <2>4. (\A p \in (Done + 1)..Done' : p = pos) /\ Done <= Done'
    BY <1>1, <2>3
  <2> QED BY <2>1, <2>2, <2>4, Advance
<1>6. CASE Line
  <2>1. \/ UNCHANGED wire
        \/ wire' = Append(wire, Head(out)) /\ out # <<>>
        \/ \E n \in Noise : wire' = Append(wire, Byte(n))
    BY <1>6 DEF Line
  <2>2. UNCHANGED <<pos, synced, delivered, abandoned>>
    BY <1>6 DEF Line
  <2>3. out # <<>> => Head(out) \in Symbols
    BY HeadTailProperties
  <2>4. \A n \in Noise : Byte(n) \in Symbols
    BY NoiseBytes
  <2> QED BY <1>2, <2>1, <2>2, <2>3, <2>4, ArriveDecoderInv
<1>7. CASE ReadLine
  <2>1. SkipNoise \/ FindMagic \/ Resync \/ ReadError \/ ReadEOF \/ ReturnFrame
    BY <1>7 DEF ReadLine
  <2>2. ReadEOF => UNCHANGED <<wire, pos, synced, delivered, abandoned>>
    BY DEF ReadEOF
  <2> QED BY <1>2, <1>3, <1>4, <1>5, <2>1, <2>2, ResyncDecoderInv, ReturnDecoderInv
<1>8. ASSUME \/ AutopilotSends \/ StraySends \/ Publish \/ TakeAddress \/ WriteCommand
             \/ (\E d \in inflight : LoseDatagram(d) \/ ReadDatagram(d))
             \/ (\E m \in Messages : SendOnLine(m))
             \/ UNCHANGED vars
      PROVE  UNCHANGED <<wire, pos, synced, delivered, abandoned>>
  BY <1>8 DEF AutopilotSends, StraySends, SendDatagram, Publish, TakeAddress, WriteCommand,
              LoseDatagram, ReadDatagram, SendOnLine, vars, decoderVars
<1> QED BY <1>2, <1>6, <1>7, <1>8 DEF Next

-----------------------------------------------------------------------------
(* The line *)

\* Of the frame going out only the last symbol is a checksum, that of the
\* message sent last.
OutInv ==
  /\ out \in Seq(Symbols)
  /\ sent \in Seq(Messages)
  /\ out # <<>> => sent # <<>>
  /\ \A k \in 1..Len(out) :
       out[k].of # <<>> => k = Len(out) /\ out[k] = Checksum(Covers(sent[Len(sent)]))

\* Every checksum that came is that of a message sent, in the order of sending
\* and each at most once; while a frame goes out its checksum has not come.
Traced(origin) ==
  /\ \A k \in 1..Len(wire) :
       wire[k].of # <<>> =>
         /\ origin[k] \in 1..Len(sent)
         /\ wire[k] = Checksum(Covers(sent[origin[k]]))
         /\ out # <<>> => origin[k] < Len(sent)
  /\ \A j, k \in 1..Len(wire) :
       j < k /\ wire[j].of # <<>> /\ wire[k].of # <<>> => origin[j] < origin[k]

OriginInv == \E origin \in [1..Len(wire) -> Nat] : Traced(origin)

\* A message goes out only when the one before is out; symbols come or are lost
\* from the front.
LEMMA NextOutInv == OutInv /\ [Next]_vars => OutInv'
<1> SUFFICES ASSUME OutInv, [Next]_vars PROVE OutInv'
  OBVIOUS
<1>1. out \in Seq(Symbols) /\ sent \in Seq(Messages) /\ Len(sent) \in Nat /\ Len(out) \in Nat
  BY LenProperties DEF OutInv
<1>2. CASE UNCHANGED <<out, sent>>
  BY <1>2 DEF OutInv
<1>3. ASSUME NEW m \in Messages, SendOnLine(m) PROVE OutInv'
  <2>1. out' = EncodeFrame(m) /\ sent' = Append(sent, m)
    BY <1>3 DEF SendOnLine
  <2>2. m \in [id : Nat, payload : Seq(Nat)]
    BY BridgeAssumption
  <2>3. sent' \in Seq(Messages) /\ sent' # <<>> /\ Len(sent') = Len(sent) + 1 /\ sent'[Len(sent')] = m
    BY <1>1, <2>1, AppendProperties
  <2>4. /\ out' \in Seq(Symbols)
        /\ \A k \in 1..Len(out') : out'[k].of # <<>> => k = Len(out') /\ out'[k] = Checksum(Covers(m))
    BY <2>1, <2>2, Encoded
  <2> QED BY <2>3, <2>4 DEF OutInv
<1>4. CASE Line
  <2>1. out # <<>> /\ UNCHANGED sent /\ (out' = Tail(out) \/ out' = out)
    BY <1>4 DEF Line
  <2>2. CASE out' = Tail(out)
    <3>1. /\ out' \in Seq(Symbols) /\ Len(out') = Len(out) - 1
          /\ \A k \in 1..Len(out') : out'[k] = out[k + 1]
      BY <1>1, <2>1, <2>2, HeadTailProperties
    <3>2. \A k \in 1..Len(out') : k + 1 \in 1..Len(out) /\ (k + 1 = Len(out) => k = Len(out'))
      BY <1>1, <3>1
    <3> QED BY <2>1, <3>1, <3>2 DEF OutInv
  <2> QED BY <1>2, <2>1, <2>2
<1>5. ASSUME \/ AutopilotSends \/ StraySends \/ ReadLine \/ Publish \/ TakeAddress \/ WriteCommand
             \/ (\E d \in inflight : LoseDatagram(d) \/ ReadDatagram(d))
             \/ UNCHANGED vars
      PROVE  UNCHANGED <<out, sent>>
  BY <1>5 DEF AutopilotSends, StraySends, SendDatagram, ReadLine, Publish, TakeAddress, WriteCommand,
              LoseDatagram, ReadDatagram, vars, lineVars
<1> QED BY <1>2, <1>3, <1>4, <1>5 DEF Next

\* At first nothing has been sent.
LEMMA InitLine == Init => DecoderInv /\ OutInv
<1> SUFFICES ASSUME Init PROVE DecoderInv /\ OutInv
  OBVIOUS
<1>1. wire = <<>> /\ pos = 0 /\ synced = FALSE /\ delivered = <<>> /\ out = <<>> /\ sent = <<>>
  BY DEF Init, DecoderInit
<1>2. /\ <<>> \in Seq(Symbols) /\ <<>> \in Seq(Messages) /\ <<>> \in Seq(Deliveries)
      /\ Len(<<>>) = 0
  BY EmptySeq
<1>3. Len(wire) = 0 /\ Len(delivered) = 0 /\ Len(out) = 0 /\ Done = 0
  BY <1>1, <1>2 DEF Done
<1>4. LineInv
  <2>1. wire \in Seq(Symbols) /\ delivered \in Seq(Deliveries) /\ synced \in BOOLEAN /\ ~synced
    BY <1>1, <1>2
  <2>2. pos \in 0..Len(wire)
    BY <1>1, <1>3
  <2> QED BY <2>1, <2>2 DEF LineInv
<1>5. ReturnedInv /\ PastInv
  BY <1>3 DEF ReturnedInv, PastInv
<1>6. OutInv
  BY <1>1, <1>2, <1>3 DEF OutInv
<1> QED BY <1>4, <1>5, <1>6 DEF DecoderInv

(* Resynchronisation loses no undamaged frame, for any messages and any      *)
(* bytes lost, added or altered on the line: none begins inside a returned   *)
(* frame whose checksum was verified, and one that was hunted past did not   *)
(* decode (NextFrame).                                                       *)
THEOREM BridgeIntactFramesArrive == Spec => []IntactFramesArrive
<1>1. Init => DecoderInv /\ OutInv
  BY InitLine
<1>2. OutInv => out \in Seq(Symbols)
  BY DEF OutInv
<1>3. DecoderInv => IntactFramesArrive
  <2> SUFFICES ASSUME DecoderInv, NEW p \in 1..pos, Intact(p), ~(synced /\ p = pos)
               PROVE  \/ \E i \in 1..Len(delivered) : delivered[i].at = p
                      \/ p \in abandoned
                      \/ Swallowed(p)
    BY DEF IntactFramesArrive
  <2>1. wire \in Seq(Symbols) /\ Len(wire) \in Nat /\ pos \in 0..Len(wire)
    BY LenProperties DEF DecoderInv, LineInv
  <2>2. p \in 1..Len(wire) /\ p \in 1..Done
    BY <2>1 DEF Done
  <2>3. Valid(wire, p) /\ Known(wire, p)
    <3> DEFINE e == Len(wire)  data == SubSeq(wire, p, e)
    <3>1. Decodes(data) /\ HasCRCExtra(data[3].b)
      BY DEF Intact
    <3>2. e \in p..Len(wire)
      BY <2>1, <2>2
    <3>3. p + HeaderLenV2 <= e /\ Valid(wire, p)
      BY <2>1, <2>2, <3>1, <3>2, DecodesPart
    <3>4. data[3] = wire[p + 2]
      <4>1. p \in Nat \ {0} /\ e \in Nat /\ e <= Len(wire) /\ p <= e + 1 /\ 3 \in 1..(e - p + 1)
            /\ p + 3 - 1 = p + 2
        BY <2>1, <2>2, <3>3 DEF HeaderLenV2
      <4>2. data[3] = wire[p + 3 - 1]
        BY <2>1, <4>1, Part
      <4> QED BY <4>1, <4>2
    <3> QED BY <3>1, <3>3, <3>4 DEF Known
  <2>4. \/ \E i \in 1..Len(delivered) : Inside(wire, p, delivered[i])
        \/ p \in abandoned
    BY <2>2, <2>3 DEF DecoderInv, PastInv, Valid
  <2>5. ASSUME NEW i \in 1..Len(delivered), Inside(wire, p, delivered[i]), delivered[i].at # p
        PROVE  Swallowed(p)
    <3> DEFINE d == delivered[i]
    <3>1. IsReturned(wire, Done, d) /\ Inside(wire, p, d) /\ d.at # p
      BY <2>5 DEF DecoderInv, ReturnedInv
    <3> HIDE DEF d
    <3>2. d.at \in 1..Len(wire) /\ Valid(wire, d.at) /\ d.at < p /\ p <= LastOf(wire, d.at)
      BY <2>2, <3>1 DEF IsReturned, Inside
    <3>3. ~Known(wire, d.at)
      BY <2>1, <2>2, <2>3, <3>2, NoNesting
    <3>4. ~HasCRCExtra(d.frame.id)
      BY <3>1, <3>3 DEF IsReturned, Known
    <3>5. LastOf(wire, d.at) = d.at + 3 + Len(d.frame.payload) /\ Len(d.frame.payload) \in Nat
      BY <2>1, <3>1, <3>2, Ends DEF Valid, IsReturned
    <3>6. p < d.at + HeaderLenV2 + Len(d.frame.payload) + ChecksumLen
      BY <2>2, <3>2, <3>5 DEF HeaderLenV2, ChecksumLen
    <3> QED BY <3>2, <3>4, <3>6 DEF Swallowed, d
  <2> QED BY <2>4, <2>5
<1> QED BY <1>1, <1>2, <1>3, NextDecoderInv, NextOutInv, PTL DEF Spec

-----------------------------------------------------------------------------
(* Where the frames come from *)

\* Every step keeps the origin of the checksums.
LEMMA NextOriginInv == LineInv /\ OutInv /\ OriginInv /\ [Next]_vars => OriginInv'
<1> SUFFICES ASSUME LineInv, OutInv, OriginInv, [Next]_vars PROVE OriginInv'
  OBVIOUS
<1>1. PICK origin \in [1..Len(wire) -> Nat] : Traced(origin)
  BY DEF OriginInv
<1>2. /\ wire \in Seq(Symbols) /\ out \in Seq(Symbols) /\ sent \in Seq(Messages)
      /\ Len(wire) \in Nat /\ Len(sent) \in Nat /\ Len(out) \in Nat
  BY LenProperties DEF LineInv, OutInv
<1>3. ASSUME UNCHANGED <<wire, sent>>, out = <<>> => out' = <<>> PROVE OriginInv'
  <2>1. Traced(origin)'
    BY <1>1, <1>3 DEF Traced
  <2> QED BY <1>3, <2>1 DEF OriginInv
<1>4. ASSUME NEW m \in Messages, SendOnLine(m) PROVE OriginInv'
  <2>1. sent' = Append(sent, m) /\ UNCHANGED wire
    BY <1>4 DEF SendOnLine, decoderVars
  <2>2. Len(sent') = Len(sent) + 1 /\ \A i \in 1..Len(sent) : sent'[i] = sent[i]
    BY <1>2, <2>1, AppendProperties
  <2>3. \A k \in 1..Len(wire) : wire[k].of # <<>> =>
          /\ origin[k] \in 1..Len(sent') /\ wire[k] = Checksum(Covers(sent'[origin[k]]))
          /\ origin[k] < Len(sent')
    <3> SUFFICES ASSUME NEW k \in 1..Len(wire), wire[k].of # <<>>
                 PROVE  /\ origin[k] \in 1..Len(sent') /\ wire[k] = Checksum(Covers(sent'[origin[k]]))
                        /\ origin[k] < Len(sent')
      OBVIOUS
    <3>1. origin[k] \in 1..Len(sent) /\ wire[k] = Checksum(Covers(sent[origin[k]]))
      BY <1>1 DEF Traced
    <3> QED BY <1>2, <2>2, <3>1
  <2>4. Traced(origin)'
    BY <1>1, <2>1, <2>3 DEF Traced
  <2> QED BY <2>1, <2>4 DEF OriginInv
<1>5. ASSUME NEW x \in Symbols, wire' = Append(wire, x), UNCHANGED sent,
             \/ x.of = <<>> /\ (out = <<>> => out' = <<>>)
             \/ /\ out # <<>> /\ out' = <<>> /\ Len(sent) > 0
                /\ x = Checksum(Covers(sent[Len(sent)]))
      PROVE  OriginInv'
  <2> DEFINE n == Len(wire)  next == [k \in 1..(n + 1) |-> IF k = n + 1 THEN Len(sent) ELSE origin[k]]
  <2>1. /\ Len(wire') = n + 1 /\ wire'[n + 1] = x /\ n \in Nat
        /\ \A i \in 1..n : wire'[i] = wire[i]
    BY <1>2, <1>5, AppendProperties
  <2>2. \A k \in 1..n : origin[k] \in Nat
    BY <1>1
  <2>3. /\ \A k \in 1..n : next[k] = origin[k]
        /\ next[n + 1] = Len(sent)
        /\ next \in [1..(n + 1) -> Nat]
    BY <1>2, <2>1, <2>2
  <2> HIDE DEF next, n
  <2>4. \A k \in 1..n : wire[k].of # <<>> =>
          /\ next[k] \in 1..Len(sent) /\ wire[k] = Checksum(Covers(sent[next[k]]))
          /\ out # <<>> => next[k] < Len(sent)
    BY <1>1, <2>3 DEF Traced, n
  <2>5. \A j, k \in 1..n :
          j < k /\ wire[j].of # <<>> /\ wire[k].of # <<>> => next[j] < next[k]
    BY <1>1, <2>3 DEF Traced, n
  <2>6. \A k \in 1..(n + 1) : k \in 1..n \/ k = n + 1
    BY <2>1
  <2>7. \A k \in 1..Len(wire') : wire'[k].of # <<>> =>
          /\ next[k] \in 1..Len(sent') /\ wire'[k] = Checksum(Covers(sent'[next[k]]))
          /\ out' # <<>> => next[k] < Len(sent')
    <3> SUFFICES ASSUME NEW k \in 1..(n + 1), wire'[k].of # <<>>
                 PROVE  /\ next[k] \in 1..Len(sent) /\ wire'[k] = Checksum(Covers(sent[next[k]]))
                        /\ out' # <<>> => next[k] < Len(sent)
      BY <1>5, <2>1
    <3>1. CASE k \in 1..n
      BY <1>5, <2>1, <2>4, <3>1
    <3>2. CASE k = n + 1
      <4>1. /\ wire'[k] = x /\ next[k] = Len(sent) /\ out' = <<>> /\ Len(sent) > 0
            /\ x = Checksum(Covers(sent[Len(sent)]))
        BY <1>5, <2>1, <2>3, <3>2
      <4> QED BY <1>2, <4>1
    <3> QED BY <2>6, <3>1, <3>2
  <2>8. \A j, k \in 1..Len(wire') :
          j < k /\ wire'[j].of # <<>> /\ wire'[k].of # <<>> => next[j] < next[k]
    <3> SUFFICES ASSUME NEW j \in 1..(n + 1), NEW k \in 1..(n + 1),
                        j < k, wire'[j].of # <<>>, wire'[k].of # <<>>
                 PROVE  next[j] < next[k]
      BY <2>1
    <3>1. j \in 1..n
      BY <2>1
    <3>2. CASE k \in 1..n
      BY <2>1, <2>5, <3>1, <3>2
    <3>3. CASE k = n + 1
      <4>1. out # <<>> /\ next[k] = Len(sent)
        BY <1>5, <2>1, <2>3, <3>3
      <4>2. wire[j].of # <<>>
        BY <2>1, <3>1
      <4> QED BY <2>4, <3>1, <4>1, <4>2
    <3> QED BY <2>6, <3>2, <3>3
  <2>9. next \in [1..Len(wire') -> Nat]
    BY <2>1, <2>3
  <2> QED BY <2>7, <2>8, <2>9 DEF OriginInv, Traced
<1>6. CASE Line
  <2>1. out # <<>> /\ UNCHANGED sent
    BY <1>6 DEF Line
  <2>2. \/ wire' = Append(wire, Head(out)) /\ out' = Tail(out)
        \/ UNCHANGED wire
        \/ \E n \in Noise : wire' = Append(wire, Byte(n))
    BY <1>6 DEF Line
  <2>3. CASE wire' = Append(wire, Head(out)) /\ out' = Tail(out)
    <3>1. Head(out) \in Symbols /\ Len(out') = Len(out) - 1 /\ out' \in Seq(Symbols) /\ 1 \in 1..Len(out)
      BY <1>2, <2>1, <2>3, HeadTailProperties, EmptySeq
    <3>2. Head(out) = out[1]
      BY <1>2, <2>1
    <3>3. CASE out[1].of = <<>>
      BY <1>5, <2>1, <2>3, <3>1, <3>2, <3>3
    <3>4. CASE out[1].of # <<>>
      <4>1. 1 = Len(out) /\ out[1] = Checksum(Covers(sent[Len(sent)])) /\ sent # <<>>
        BY <2>1, <3>1, <3>4 DEF OutInv
      <4>2. Len(out') = 0
        <5>1. Len(out) = 1
          BY <4>1
        <5> QED BY <3>1, <5>1
      <4>3. out' = <<>> /\ Len(sent) > 0
        BY <1>2, <3>1, <4>1, <4>2, EmptySeq
      <4> QED BY <1>5, <2>1, <2>3, <3>1, <3>2, <4>1, <4>3
    <3> QED BY <3>3, <3>4
  <2>4. ASSUME NEW n \in Noise, wire' = Append(wire, Byte(n)) PROVE OriginInv'
    <3>1. Byte(n) \in Symbols /\ Byte(n).of = <<>>
      BY NoiseBytes
    <3> QED BY <1>5, <2>1, <2>4, <3>1
  <2> QED BY <1>3, <2>1, <2>2, <2>3, <2>4
<1>7. ASSUME \/ AutopilotSends \/ StraySends \/ Publish \/ TakeAddress \/ WriteCommand
             \/ (\E d \in inflight : LoseDatagram(d) \/ ReadDatagram(d))
             \/ UNCHANGED vars
      PROVE  UNCHANGED <<out, sent, wire>>
  BY <1>7 DEF AutopilotSends, StraySends, SendDatagram, Publish, TakeAddress, WriteCommand,
              LoseDatagram, ReadDatagram, vars, lineVars, decoderVars
<1>8. ReadLine => UNCHANGED <<out, sent, wire>>
  BY DEF ReadLine, SkipNoise, FindMagic, Resync, ReadError, ReadEOF, ReturnFrame, lineVars
<1> QED BY <1>3, <1>4, <1>6, <1>7, <1>8 DEF Next

\* A frame with a verified checksum is the message the checksum is from.
LEMMA VerifiedFrame ==
  ASSUME NEW w \in Seq(Symbols), NEW done, NEW d \in Deliveries, IsReturned(w, done, d),
         Known(w, d.at), NEW m \in [id : Nat, payload : Seq(Nat)],
         w[LastOf(w, d.at)] = Checksum(Covers(m))
  PROVE  d.frame = m
<1> DEFINE p == d.at  e == LastOf(w, d.at)  n == Len(m.payload)  c == w[e].of
<1>1. p \in 1..Len(w) /\ Valid(w, p) /\ Whole(w, p)
  BY DEF IsReturned, Valid
<1>2. e \in Nat /\ e = p + 3 + w[p + 1].b /\ w[p + 1].b \in Nat /\ p \in Nat \ {0}
  BY <1>1, Ends
<1>3. Len(c) = e - p - 1 /\ \A i \in (p + 1)..(e - 1) : c[i - p] = w[i]
  BY <1>1, OneChecksum
<1>4. c = Covers(m)
  <2>1. \A x : Checksum(x).of = x
    BY DEF Checksum
  <2> QED BY <2>1
<1>5. n \in Nat /\ m.id \in Nat /\ m.payload \in Seq(Nat)
  BY LenProperties
<1>6. Covers(m) = [i \in 1..(n + 2) |-> Byte(IF i = 1 THEN n ELSE IF i = 2 THEN m.id ELSE m.payload[i - 2])]
  BY DEF Covers
<1>7. d.frame.id = w[p + 2].b /\ Len(d.frame.payload) = w[p + 1].b
      /\ \A i \in 1..Len(d.frame.payload) : d.frame.payload[i] = w[p + 2 + i].b
  BY DEF IsReturned
<1>8. \A x : Byte(x).b = x
  BY DEF Byte
<1> HIDE DEF p, e, n, c
<1>9. Len(c) = n + 2
  BY <1>4, <1>5, <1>6
<1>10. w[p + 1].b = n
  <2>1. \A a, b, k \in Nat : k + 2 = (a + 3 + b) - a - 1 => b = k
    OBVIOUS
  <2>2. n + 2 = (p + 3 + w[p + 1].b) - p - 1
    BY <1>2, <1>3, <1>9
  <2> QED BY <1>2, <1>5, <2>1, <2>2
<1>11. \A i \in 1..(n + 2) : c[i].b = IF i = 1 THEN n ELSE IF i = 2 THEN m.id ELSE m.payload[i - 2]
  BY <1>4, <1>6, <1>8
<1>12. \A i \in 1..(n + 2) : c[i] = w[p + i]
  <2> SUFFICES ASSUME NEW i \in 1..(n + 2) PROVE c[i] = w[p + i]
    OBVIOUS
  <2>1. p + i \in (p + 1)..(e - 1) /\ (p + i) - p = i
    BY <1>2, <1>5, <1>10
  <2> QED BY <1>3, <2>1
<1>13. d.frame.id = m.id
  <2>1. 2 \in 1..(n + 2)
    BY <1>5
  <2>2. c[2].b = m.id /\ c[2] = w[p + 2]
    BY <1>11, <1>12, <2>1
  <2> QED BY <1>7, <2>2
<1>14. d.frame.payload = m.payload
  <2>1. d.frame.payload \in Seq(Nat) /\ Len(d.frame.payload) = n
    BY <1>7, <1>10 DEF Deliveries
  <2>2. ASSUME NEW i \in 1..n PROVE d.frame.payload[i] = m.payload[i]
    <3>1. i + 2 \in 1..(n + 2) /\ i + 2 # 1 /\ i + 2 # 2 /\ (i + 2) - 2 = i /\ p + (i + 2) = p + 2 + i
      BY <1>2, <1>5
    <3>2. c[i + 2].b = m.payload[i]
      BY <1>11, <3>1
    <3>3. c[i + 2] = w[p + 2 + i]
      BY <1>12, <3>1
    <3> QED BY <1>7, <2>1, <3>2, <3>3
  <2> QED BY <1>5, <2>1, <2>2, SeqEqual DEF n
<1> QED BY <1>13, <1>14 DEF Deliveries

(* Over the serial line the vehicle's state is made of frames the autopilot  *)
(* sent, in its order and each at most once, for any messages and any bytes  *)
(* lost, added or altered on the line (NextFrame, DecodeFrame and            *)
(* IngestFrame), as long as no other bytes have the checksum of a message.   *)
THEOREM BridgeFramesAreSent == Spec => []FramesAreSent
<1> DEFINE Inv == DecoderInv /\ OutInv /\ OriginInv
<1>1. Init => Inv
  <2> SUFFICES ASSUME Init PROVE Inv
    OBVIOUS
  <2>1. OriginInv
    <3>1. Len(wire) = 0
      BY EmptySeq DEF Init, DecoderInit
    <3>2. [k \in 1..0 |-> 0] \in [1..Len(wire) -> Nat]
      BY <3>1
    <3>3. Traced([k \in 1..0 |-> 0])
      BY <3>1 DEF Traced
    <3> QED BY <3>2, <3>3 DEF OriginInv
  <2> QED BY <2>1, InitLine
<1>2. Inv /\ [Next]_vars => Inv'
  <2>1. DecoderInv => LineInv
    BY DEF DecoderInv
  <2>2. OutInv => out \in Seq(Symbols)
    BY DEF OutInv
  <2> QED BY <2>1, <2>2, NextDecoderInv, NextOutInv, NextOriginInv
<1>3. Inv => FramesAreSent
  <2> SUFFICES ASSUME Inv PROVE FramesAreSent
    OBVIOUS
  <2> DEFINE K == {i \in 1..Len(delivered) : HasCRCExtra(delivered[i].frame.id)}
  <2>1. /\ wire \in Seq(Symbols) /\ delivered \in Seq(Deliveries) /\ sent \in Seq(Messages)
        /\ Len(wire) \in Nat /\ Len(delivered) \in Nat
    BY LenProperties DEF DecoderInv, LineInv, OutInv
  <2>2. PICK origin \in [1..Len(wire) -> Nat] : Traced(origin)
    BY DEF OriginInv
  <2> DEFINE last(i) == LastOf(wire, delivered[i].at)
             place == [i \in K |-> origin[last(i)]]
  <2>3. ASSUME NEW i \in K
        PROVE  /\ delivered[i].at \in 1..Len(wire) /\ last(i) \in 1..Len(wire) /\ wire[last(i)].of # <<>>
               /\ last(i) > delivered[i].at
               /\ origin[last(i)] \in 1..Len(sent) /\ delivered[i].frame = sent[origin[last(i)]]
    <3> DEFINE d == delivered[i]  e == LastOf(wire, d.at)
    <3>1. d \in Deliveries /\ IsReturned(wire, Done, d) /\ HasCRCExtra(d.frame.id)
      BY <2>1, ElementOfSeq DEF DecoderInv, ReturnedInv
    <3>2. d.at \in 1..Len(wire) /\ Valid(wire, d.at) /\ Known(wire, d.at) /\ Whole(wire, d.at)
      BY <3>1 DEF IsReturned, Known, Valid
    <3>3. e \in Nat /\ e >= d.at + 3 /\ e <= Len(wire)
      BY <2>1, <3>2, Ends
    <3>4. wire[e].of # <<>>
      BY <2>1, <3>2, OneChecksum
    <3>5. e \in 1..Len(wire) /\ e > d.at
      BY <2>1, <3>2, <3>3
    <3>6. origin[e] \in 1..Len(sent) /\ wire[e] = Checksum(Covers(sent[origin[e]]))
      BY <2>2, <3>4, <3>5 DEF Traced
    <3>7. sent[origin[e]] \in [id : Nat, payload : Seq(Nat)]
      BY <2>1, <3>6, ElementOfSeq, BridgeAssumption
    <3> HIDE DEF d
    <3>8. d.frame = sent[origin[e]]
      BY <2>1, <3>1, <3>2, <3>6, <3>7, VerifiedFrame
    <3> QED BY <3>2, <3>4, <3>5, <3>6, <3>8 DEF d
  <2>4. ASSUME NEW i \in K, NEW j \in K, i < j
        PROVE  origin[last(i)] < origin[last(j)]
    <3>1. last(i) < delivered[j].at
      BY <2>4 DEF DecoderInv, ReturnedInv
    <3>2. /\ last(i) \in 1..Len(wire) /\ last(j) \in 1..Len(wire)
          /\ delivered[j].at \in 1..Len(wire) /\ last(j) > delivered[j].at
      BY <2>3
    <3> HIDE DEF last
    <3>3. last(i) < last(j)
      BY <2>1, <3>1, <3>2
    <3> QED BY <2>2, <2>3, <3>2, <3>3 DEF Traced
  <2> HIDE DEF last
  <2>5. place \in [K -> 1..Len(sent)]
    BY <2>3
  <2>6. \A i, j \in K : i < j => place[i] < place[j]
    BY <2>4
  <2>7. \A i \in K : delivered[i].frame = sent[place[i]]
    BY <2>3
  <2> HIDE DEF place
  <2> QED BY <2>5, <2>6, <2>7 DEF FramesAreSent
<1> QED BY <1>1, <1>2, <1>3, PTL DEF Spec

=============================================================================
