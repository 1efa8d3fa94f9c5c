------------------------- MODULE MCChunkForwarding -------------------------
(***************************************************************************)
(* ChunkForwarding on small updates, chunk numbers up to MaxChunk.          *)
(***************************************************************************)
EXTENDS ChunkForwarding

CONSTANT MaxChunk

MCChunkId == 0..MaxChunk
MCPacket == DownlinkPacket
=============================================================================
