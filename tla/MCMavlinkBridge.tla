--------------------------- MODULE MCMavlinkBridge ---------------------------
(***************************************************************************)
(* MavlinkBridge with the kinds of messages that the vehicle's state is of: *)
(* both heartbeats and a truncated one, a position on the ground and one in *)
(* the air with a magic byte in its payload, and a truncated position.      *)
(* Frames without a known checksum seed come of altered bytes.              *)
(***************************************************************************)
EXTENDS MavlinkBridge

Msg(i, p) == [id |-> i, payload |-> p]

MCMessages == {Msg(MsgIDHeartbeat, <<0>>), Msg(MsgIDHeartbeat, <<1>>), Msg(MsgIDHeartbeat, <<>>),
               Msg(MsgIDGlobalPositionInt, <<0, 0>>), Msg(MsgIDGlobalPositionInt, <<1, MagicV2>>),
               Msg(MsgIDGlobalPositionInt, <<1>>)}

\* A magic byte, and one that is an id without a checksum seed or a length.
MCNoise == {MagicV2, 4}

MCStrays == {<<Byte(0)>>, EncodeFrame(Msg(MsgIDHeartbeat, <<1>>))}
=============================================================================
