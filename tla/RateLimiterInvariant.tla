------------------------ MODULE RateLimiterInvariant ------------------------
(***************************************************************************)
(* An inductive invariant of RateLimiter.                                  *)
(***************************************************************************)
EXTENDS RateLimiter

Passed == 1 .. Len(passed)

\* The requests let through in the windows of a that start at s; those of them
\* that read the clock by u and were counted in a window that starts later; and
\* those that read it by u and have not been counted.
Counted(a, s) == {i \in Passed : passed[i].address = a /\ passed[i].start = s}
Late(a, u)    == {i \in Passed : passed[i].address = a /\ passed[i].by <= u /\ u < passed[i].start}
Pending(a, u) == {r \in Request : stage[r] = "arrived" /\ address[r] = a /\ stamp[r] <= u}

TypeOK ==
    /\ now \in Nat /\ requests \in Nat
    /\ stage \in [Request -> {"idle", "arrived", "admitted", "refused"}]
    /\ address \in [Request -> Address] /\ stamp \in [Request -> Nat]
    /\ clients \in [Address -> [start : Nat, count : Nat]]
    /\ passed \in Seq([address : Address, by : Nat, at : Nat, start : Nat])
    /\ swept \in [Address -> Nat] /\ overtaken \subseteq Address

\* Nothing comes from the future, and an entry of the map has a count.
Clock ==
    /\ \A r \in Request : stamp[r] <= now
    /\ \A a \in Address : /\ clients[a].start <= now /\ swept[a] <= now
                          /\ clients[a].count = 0 => clients[a] = NoWindow

\* A request is counted after the start of its window, which was not over for it.
Recorded ==
    \A i \in Passed : /\ passed[i].by <= passed[i].start + Window
                      /\ passed[i].start <= passed[i].at /\ passed[i].at <= now

\* The open window has let through what it counted, up to the limit, and no
\* window more than that.
Filled ==
    \A a \in Address : clients[a] # NoWindow =>
        LET n == Cardinality(Counted(a, clients[a].start))
        IN /\ n >= Limit \/ n >= clients[a].count
           /\ a \notin overtaken => n <= clients[a].count

\* The windows of an address start more than their length apart, each at the time
\* its first request read, and let at most the limit through; the next one will
\* start more than their length after them too.
Spaced ==
    \A i \in Passed :
        LET a == passed[i].address
            s == passed[i].start
        IN a \notin overtaken =>
              /\ Cardinality(Counted(a, s)) <= Limit
              /\ \E j \in Counted(a, s) : passed[j].by = s
              /\ \A j \in Passed : passed[j].address = a =>
                    \/ passed[j].start = s
                    \/ passed[j].start + Window < s
                    \/ s + Window < passed[j].start
              /\ IF clients[a] = NoWindow
                 THEN s + Window < swept[a]
                 ELSE s = clients[a].start \/ s + Window < clients[a].start

\* When a window starts after u, the request that opened it was none of those that
\* had read the clock by u, and of those no more can have come since.
Slow ==
    \A i \in Passed : \A u \in 0 .. passed[i].start - 1 :
        LET a == passed[i].address
        IN Cardinality(Late(a, u)) + Cardinality(Pending(a, u)) < Cardinality(Request)

\* The inductive invariant.
LInv == TypeOK /\ Clock /\ Recorded /\ Filled /\ Spaced /\ Slow /\ RefusedForCause
=============================================================================
