---------------------------- MODULE MCKeyServer ----------------------------
(***************************************************************************)
(* Small instances of KeyServer for TLC.                                   *)
(***************************************************************************)
EXTENDS KeyServerInvariant, TLC

CONSTANTS b1, m1, g1, x1, bad, n1, n2, c1, c2

\* b1 and x1 may be configured, b1 and m1 are masters, g1 is a guest, x1 a metrics
\* key, and bad has a combination that does not exist.
MCKind == [i \in Id |-> CASE i \in {b1, m1} -> AuthMaster
                          [] i = g1 -> AuthGuest
                          [] i = x1 -> MetricsMaster
                          [] OTHER -> [type |-> "metrics", role |-> "guest"]]

\* The digest of a key is as unique as its id.
MCHashKey == [i \in Id |-> <<i>>]
MCHash    == {<<i>> : i \in Id}

MCHome    == [c \in Call |-> IF c = c1 THEN n1 ELSE n2]
MCHomeOne == [c \in Call |-> n1]

\* Calls of one process are interchangeable.
CallSymmetry == Permutations(Call)

MCBootOne == <<b1>>
MCBootMetrics == <<b1, x1>>
=============================================================================
