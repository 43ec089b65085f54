------------------------------- MODULE Framing -------------------------------
(***************************************************************************)
(* MAVLink v2 frames (pkg/mavlink/messages.go and crc.go).  The layout is   *)
(* scaled down: a header of three bytes (magic, payload length, message id) *)
(* for ten, payloads of one or two bytes, one checksum symbol for two bytes.*)
(* The sequence, system and component bytes are left out: no code reads     *)
(* them.  The checksum is one without collisions: it carries what it covers.*)
(***************************************************************************)
EXTENDS Naturals, Sequences

MagicV2 == 5
HeaderLenV2 == 3
ChecksumLen == 1

MsgIDHeartbeat == 0
MsgIDSysStatus == 1
MsgIDGlobalPositionInt == 2
MsgIDAttitude == 3

\* The symbols on the wire.  Where a checksum is read as something else, for
\* instance as the length of a frame that is not there, it is a byte like others.
Byte(n) == [b |-> n, of |-> <<>>]
Checksum(data) == [b |-> 2, of |-> data]

\* GetCRCExtra: the messages whose checksum can be computed (and the commands
\* and their acknowledgements, which no one sends to the bridge here).
HasCRCExtra(id) == id \in {MsgIDHeartbeat, MsgIDSysStatus, MsgIDGlobalPositionInt, MsgIDAttitude}

EncodeFrame(m) ==
  LET head == <<Byte(MagicV2), Byte(Len(m.payload)), Byte(m.id)>>
              \o [i \in 1..Len(m.payload) |-> Byte(m.payload[i])]
  IN  Append(head, Checksum(Tail(head)))

TotalLen(data) == HeaderLenV2 + data[2].b + ChecksumLen

\* Mutation of ChecksumOK: the checksum is not compared.
ChecksumOK_Skipped(data) == TRUE

\* The checksum covers all but the magic byte; that of an unknown message is
\* not looked at.
ChecksumOK(data) ==
  HasCRCExtra(data[3].b) =>
    data[TotalLen(data)] = Checksum(SubSeq(data, 2, TotalLen(data) - 1))

\* Whether DecodeFrame succeeds, and what it returns then.
Decodes(data) ==
  /\ Len(data) >= HeaderLenV2 + ChecksumLen
  /\ data[1].b = MagicV2
  /\ Len(data) >= TotalLen(data)
  /\ ChecksumOK(data)

DecodeFrame(data) ==
  [id |-> data[3].b, payload |-> [i \in 1..data[2].b |-> data[HeaderLenV2 + i].b]]
=============================================================================
