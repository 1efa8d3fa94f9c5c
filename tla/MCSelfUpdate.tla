---------------------------- MODULE MCSelfUpdate ----------------------------
(***************************************************************************)
(* SelfUpdate for images of ImageChunks chunks, numbered up to MaxChunk.    *)
(***************************************************************************)
EXTENDS SelfUpdate

CONSTANT MaxChunk

MCChunkId == 0..MaxChunk
=============================================================================
