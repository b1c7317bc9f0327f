------------------------------ MODULE ChunkPlan ------------------------------
(***************************************************************************)
(* How downloadParallelChunked cuts the Planned bytes it believes a file   *)
(* to have into NChunks ranges: ModelDownloadWorker.kt:333-346.            *)
(***************************************************************************)
EXTENDS Integers

CONSTANTS
  NChunks,   \* parallel requests: 4 to 8, by the number of bytes
  Planned    \* totalBytes: what the answer to the probe says or seems to say

(* With fewer bytes the last ranges would be empty or of negative length:  *)
(* below 50 for eight ranges, below 10 for the four of a probe's 1024.     *)
ASSUME PlanAssumption ==
  /\ NChunks \in Nat \ {0} /\ Planned \in Nat
  /\ Planned > (NChunks - 1) * (NChunks - 1)

Chunks == 0 .. NChunks - 1

ChunkSize == (Planned + NChunks - 1) \div NChunks

ChunkStart(i) == i * ChunkSize

ChunkLen(i) ==
  IF ChunkSize < Planned - ChunkStart(i) THEN ChunkSize ELSE Planned - ChunkStart(i)

(* The bytes of range i, counted from 1. *)
ChunkBytes(i) == ChunkStart(i) + 1 .. ChunkStart(i) + ChunkLen(i)
=============================================================================
