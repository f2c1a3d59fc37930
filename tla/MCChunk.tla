------------------------------ MODULE MCChunk ------------------------------
(* ChunkPipeline with a handful of entries and two chunk workers. *)
EXTENDS ChunkPipeline
=============================================================================
