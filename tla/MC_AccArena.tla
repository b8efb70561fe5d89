---------------------------- MODULE MC_AccArena ----------------------------
(* Model-checking instance of AccArena: CHUNK_SIZE scaled to 16 bytes,    *)
(* the real alignment 8, up to three chunks and two nested levels.        *)
EXTENDS AccArena

\* Requests no larger than ChunkSize - 7: a new chunk is always ChunkSize.
MC_SmallSizes == {1, 4, 9}
\* A request whose chunk is size+7 bytes, not a multiple of 8, then a small one.
MC_BigSizes == {2, 10}
=============================================================================
