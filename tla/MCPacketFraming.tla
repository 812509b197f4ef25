-------------------------- MODULE MCPacketFraming --------------------------
(***************************************************************************)
(* PacketFraming for TLC: a header of two bytes, a packet that is only a   *)
(* header and one with two bytes of payload.                               *)
(***************************************************************************)
EXTENDS PacketFraming, SequencesExt

MCPacket == {<<2, 3>>, <<4, 2, 2, 0>>}

MCChunk == BoundedSeq(Byte, MaxRecv)
=============================================================================
