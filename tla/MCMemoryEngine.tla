--------------------------- MODULE MCMemoryEngine ---------------------------
(***************************************************************************)
(* Small instances of MemoryEngine for TLC.                                *)
(***************************************************************************)
EXTENDS MemoryEngineInvariant, TLC

CONSTANTS t1, t2, t3, r1, r2, w1, w2

\* A request that may wait; one that does not, with a batch of two.
MCJobsOne    == r1 :> <<t1>>
MCJobsBatch  == r2 :> <<t2, t3>>

WorkerSymmetry == Permutations(Worker)
=============================================================================
