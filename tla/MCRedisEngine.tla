---------------------------- MODULE MCRedisEngine ----------------------------
(***************************************************************************)
(* Small instances of RedisEngine for TLC.                                 *)
(***************************************************************************)
EXTENDS RedisEngineInvariant, TLC

CONSTANTS t1, t2, r1, r2, w1, w2, n1, n2

\* r1 and w1 live in the server n1, w2 in the standalone worker n2.
MCHome == [p \in Request \cup Worker |-> IF p = w2 THEN n2 ELSE n1]

\* A request of one job, or a batch of two.
MCJobsOne   == r1 :> <<t1>>
MCJobsBatch == r2 :> <<t1, t2>>
=============================================================================
