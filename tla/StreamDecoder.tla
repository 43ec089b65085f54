---------------------------- MODULE StreamDecoder ----------------------------
(***************************************************************************)
(* StreamDecoder.NextFrame (pkg/mavlink/stream.go), called in a loop by the  *)
(* read goroutine of a StreamClient on a serial line.                        *)
(*                                                                           *)
(* wire is everything that has come out of the line, pos how much of it the  *)
(* decoder has consumed; Peek looks past pos and blocks until enough has     *)
(* come.  Between two steps the decoder is either hunting or has consumed a  *)
(* magic byte (synced).                                                      *)
(***************************************************************************)
EXTENDS Framing

VARIABLES
  wire,       \* symbols received so far
  pos,        \* symbols consumed
  synced,     \* wire[pos] is a magic byte whose packet is being peeked at
  reader,     \* "reading", or "ended" once readLoop has returned
  delivered,  \* history: frames returned, with the place of their magic byte
  abandoned   \* history: places of magic bytes consumed by a call that failed

decoderVars == <<wire, pos, synced, reader, delivered, abandoned>>

DecoderInit ==
  /\ wire = <<>>
  /\ pos = 0
  /\ synced = FALSE
  /\ reader = "reading"
  /\ delivered = <<>>
  /\ abandoned = {}

-----------------------------------------------------------------------------

Available(n) == Len(wire) - pos >= n

\* ReadByte returns noise.
SkipNoise ==
  /\ reader = "reading"
  /\ ~synced
  /\ Available(1)
  /\ wire[pos + 1].b # MagicV2
  /\ pos' = pos + 1
  /\ UNCHANGED <<wire, synced, reader, delivered, abandoned>>

\* ReadByte returns the magic byte, which is consumed.
FindMagic ==
  /\ reader = "reading"
  /\ ~synced
  /\ Available(1)
  /\ wire[pos + 1].b = MagicV2
  /\ pos' = pos + 1
  /\ synced' = TRUE
  /\ UNCHANGED <<wire, reader, delivered, abandoned>>

\* What has to follow the magic byte, by the length byte in the header.
Needed == HeaderLenV2 + wire[pos + 1].b + ChecksumLen - 1

\* Both calls of Peek have returned.
PacketReady == synced /\ Available(HeaderLenV2 - 1) /\ Available(Needed)

Packet == SubSeq(wire, pos, pos + Needed)

\* Mutation of Resync: the bytes that were peeked at are discarded too.
Resync_DiscardsPacket ==
  /\ reader = "reading"
  /\ PacketReady
  /\ ~Decodes(Packet)
  /\ synced' = FALSE
  /\ pos' = pos + Needed
  /\ UNCHANGED <<wire, reader, delivered, abandoned>>

\* DecodeFrame fails: only the magic byte is given up.
Resync ==
  /\ reader = "reading"
  /\ PacketReady
  /\ ~Decodes(Packet)
  /\ synced' = FALSE
  /\ UNCHANGED <<wire, pos, reader, delivered, abandoned>>

\* DecodeFrame succeeds: Discard the packet and return the frame.
ReturnFrame ==
  /\ reader = "reading"
  /\ PacketReady
  /\ Decodes(Packet)
  /\ synced' = FALSE
  /\ pos' = pos + Needed
  /\ delivered' = Append(delivered, [at |-> pos, frame |-> DecodeFrame(Packet)])
  /\ UNCHANGED <<wire, reader, abandoned>>

\* Peek fails while it waits: the call returns an error, and the next call hunts
\* from after the magic byte.  (An error of ReadByte changes nothing.)
ReadError ==
  /\ reader = "reading"
  /\ synced
  /\ ~PacketReady
  /\ synced' = FALSE
  /\ abandoned' = abandoned \cup {pos}
  /\ UNCHANGED <<wire, pos, reader, delivered>>

\* The line is gone: readLoop returns and is not started again.
ReadEOF ==
  /\ reader = "reading"
  /\ IF synced THEN ~PacketReady ELSE ~Available(1)
  /\ reader' = "ended"
  /\ UNCHANGED <<wire, pos, synced, delivered, abandoned>>

-----------------------------------------------------------------------------

\* A whole and undamaged frame of a known message stands at place p.
Intact(p) ==
  LET data == SubSeq(wire, p, Len(wire)) IN Decodes(data) /\ HasCRCExtra(data[3].b)

\* Place p lies inside a frame of an unknown message that was returned.
Swallowed(p) ==
  \E i \in 1..Len(delivered) :
    LET d == delivered[i] IN
      /\ ~HasCRCExtra(d.frame.id)
      /\ d.at < p /\ p < d.at + HeaderLenV2 + Len(d.frame.payload) + ChecksumLen

(* Resynchronisation loses nothing: every undamaged frame the decoder has    *)
(* gone past was returned, whatever noise, lost bytes and false magic bytes  *)
(* came before it.  The exceptions are those of the code: the read failed    *)
(* in the middle of this very frame, or a false frame with an unknown id,    *)
(* whose checksum is not verified, was taken for real and covers it.         *)
IntactFramesArrive ==
  \A p \in 1..pos :
    Intact(p) /\ ~(synced /\ p = pos) =>
      \/ \E i \in 1..Len(delivered) : delivered[i].at = p
      \/ p \in abandoned
      \/ Swallowed(p)
=============================================================================
