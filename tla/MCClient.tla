------------------------------ MODULE MCClient ------------------------------
(***************************************************************************)
(* Small instances of Client for TLC.                                      *)
(***************************************************************************)
EXTENDS ClientInvariant, TLC

CONSTANTS s1, s2, A, B, m, g, e, x, y

\* m is a master, g and e are guests, x and y metrics keys; e and y are in the
\* environment of s2.
MCKind == [k \in Key |-> CASE k = m -> AuthMaster [] k \in {g, e} -> AuthGuest [] OTHER -> MetricsMaster]

MCEnv == [s \in Shell |-> IF s = s2 THEN [url |-> none, token |-> e, metrics |-> y]
                                    ELSE [url |-> none, token |-> none, metrics |-> none]]

C(op, key, other, url) == [op |-> op, key |-> key, other |-> other, url |-> url, limited |-> TRUE]

\* The commands on the configuration.
MCSaving ==
    {C("master", m, none, none), C("master", m, x, none), C("guest", g, none, none),
     C("guest", m, none, none), C("guest", g, none, B), C("metrics", none, x, none),
     C("connect", none, none, B), C("connect", g, none, A), C("set-token", m, none, none),
     C("set-metrics", none, x, none), C("set-url", none, none, B), C("logout", none, none, none),
     C("set-token", none, none, none), C("set-metrics", none, none, none),
     C("set-url", none, none, none)}

MCAsking ==
    {C("show", none, none, none), C("status", none, none, none), C("whoami", none, none, none),
     C("list", m, none, none), C("submit", none, none, none), C("fetch", none, none, A),
     C("health", none, none, none), C("run", none, none, none),
     [C("run", none, none, none) EXCEPT !.limited = FALSE],
     C("generate", none, x, none), C("revoke", none, m, none), C("revoke", m, x, none)}

MCAll == MCSaving \cup MCAsking
=============================================================================
