---------------------------- MODULE MCRateLimiter ----------------------------
(***************************************************************************)
(* A small instance of RateLimiter for TLC.                                *)
(***************************************************************************)
EXTENDS RateLimiter, TLC

CONSTANTS a, proxy, none, r1, r2

\* Requests of a through the proxy, which names a in one header and itself in the
\* other, and direct requests of a.
MCOrigin == {[peer |-> proxy, forwarded |-> a, real |-> proxy],
             [peer |-> a, forwarded |-> none, real |-> none]}

RequestSymmetry == Permutations(Request)
=============================================================================
