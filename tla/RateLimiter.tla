----------------------------- MODULE RateLimiter -----------------------------
(***************************************************************************)
(* RateLimiterMiddleware of pkg/api/middleware.go: a window and a count    *)
(* per client address behind one mutex, and a janitor that forgets the     *)
(* windows that are over.                                                  *)
(*                                                                         *)
(* A request reads the clock before it takes the mutex, so requests may be *)
(* counted in another order than they read it, and any time later.         *)
(***************************************************************************)
EXTENDS Integers, Sequences, FiniteSets

CONSTANTS
    Request,        \* the goroutines that serve requests at the same time
    Address,        \* the addresses net.ParseIP accepts
    TrustedProxy,   \* the loopback and private addresses
    Origin,         \* where requests come from: the peer and two forwarding headers
    Limit,          \* cfg.RateLimit.MaxRequests
    Window,         \* cfg.RateLimit.WindowSeconds, in ticks of the clock
    MaxTime,        \* bound: the clock stops here
    MaxRequests     \* bound on the requests served

ASSUME LimitAssumption == {Limit, Window, MaxTime, MaxRequests} \subseteq Nat
ASSUME OriginAssumption ==
    /\ Request # {} /\ Address # {} /\ TrustedProxy \subseteq Address
    /\ \A o \in Origin : o.peer \in Address

VARIABLES
    now,        \* the monotonic clock
    stage,      \* stage[r]: what became of the request r serves or served last
    address,    \* address[r]: the address it is counted under
    stamp,      \* stamp[r]: the time it read, until it is let through
    clients,    \* the map: clients[a] is NoWindow or the window of a
    requests,   \* the number of requests so far
    passed,     \* history: the requests let through, in the order they were counted: the
                \* time each read (by) and was counted (at), and the start of its window
    swept,      \* history: swept[a], the time the janitor deleted a, until a comes back
    overtaken   \* history: the addresses whose window was opened again after such a
                \* deletion by a request that had read the clock before it

history     == <<passed, swept, overtaken>>
limiterVars == <<now, stage, address, stamp, clients, requests, history>>

NoWindow == [start |-> 0, count |-> 0]

\* The chi middleware RealIP runs first and replaces the peer's address by
\* what the headers say.
RealIP(o) ==
    CASE o.real \in Address                             -> o.real
      [] o.real \notin Address /\ o.forwarded \in Address -> o.forwarded
      [] OTHER                                          -> o.peer

\* The address a request is counted under.
getClientIP(o) ==
    LET remote == RealIP(o)
    IN CASE remote \in TrustedProxy /\ o.forwarded \in Address -> o.forwarded
         [] remote \in TrustedProxy /\ o.forwarded \notin Address /\ o.real \in Address -> o.real
         [] OTHER -> remote

\* now.Sub(client.windowStart) > rl.window
isOver(start, t) == t - start > Window

Init ==
    /\ now = 0 /\ requests = 0
    /\ stage = [r \in Request |-> "idle"]
    /\ address = [r \in Request |-> CHOOSE a \in Address : TRUE]
    /\ stamp = [r \in Request |-> 0]
    /\ clients = [a \in Address |-> NoWindow]
    /\ passed = <<>>
    /\ swept = [a \in Address |-> 0]
    /\ overtaken = {}

Tick ==
    /\ now < MaxTime
    /\ now' = now + 1
    /\ UNCHANGED <<stage, address, stamp, clients, requests, history>>

\* A new request: ip := getClientIP(r); now := time.Now()
ReadClock(r, o) ==
    /\ stage[r] # "arrived" /\ requests < MaxRequests
    /\ stage' = [stage EXCEPT ![r] = "arrived"]
    /\ address' = [address EXCEPT ![r] = getClientIP(o)]
    /\ stamp' = [stamp EXCEPT ![r] = now]
    /\ requests' = requests + 1
    /\ UNCHANGED <<now, clients, history>>

\* Variant: a window that is over keeps its count.
countsOn(a, t) ==
    IF clients[a] = NoWindow \/ isOver(clients[a].start, t)
    THEN [start |-> t, count |-> clients[a].count + 1]
    ELSE [clients[a] EXCEPT !.count = @ + 1]

\* The window of a after a request that read the time t.
counted(a, t) ==
    IF clients[a] = NoWindow \/ isOver(clients[a].start, t)
    THEN [start |-> t, count |-> 1]
    ELSE [clients[a] EXCEPT !.count = @ + 1]

\* Variant: the first request over the limit is let through.
isAdmitted(count) == count <= Limit + 1

\* currentCount > rl.limit is refused, with 429.
admits(count) == count <= Limit

\* The critical section, and the decision from the count read in it.
CountRequest(r) ==
    LET ip   == address[r]
        c    == counted(ip, stamp[r])
        pass == [address |-> ip, by |-> stamp[r], at |-> now, start |-> c.start]
    IN /\ stage[r] = "arrived"
       /\ clients' = [clients EXCEPT ![ip] = c]
       /\ stage' = [stage EXCEPT ![r] = IF admits(c.count) THEN "admitted" ELSE "refused"]
       /\ passed' = IF admits(c.count) THEN Append(passed, pass) ELSE passed
       /\ overtaken' = IF clients[ip] = NoWindow /\ stamp[r] < swept[ip]
                       THEN overtaken \cup {ip} ELSE overtaken
       /\ stamp' = [stamp EXCEPT ![r] = IF admits(c.count) THEN 0 ELSE @]
       /\ swept' = [swept EXCEPT ![ip] = 0]
       /\ UNCHANGED <<now, address, requests>>

\* What the janitor finds over, with the clock read under the mutex.
expired(a) == clients[a] # NoWindow /\ isOver(clients[a].start, now)

\* One turn of the janitor.
Sweep ==
    LET gone == {a \in Address : expired(a)}
    IN /\ gone # {}
       /\ clients' = [a \in Address |-> IF a \in gone THEN NoWindow ELSE clients[a]]
       /\ swept' = [a \in Address |-> IF a \in gone THEN now ELSE swept[a]]
       /\ UNCHANGED <<now, stage, address, stamp, requests, passed, overtaken>>

Next ==
    \/ Tick \/ Sweep
    \/ \E r \in Request : CountRequest(r) \/ \E o \in Origin : ReadClock(r, o)

Spec == Init /\ [][Next]_limiterVars

-----------------------------------------------------------------------------

\* Of the requests of one address that read the clock within a window's length of
\* each other, fewer than twice the limit are let through, and at most one more
\* for each other request that is served at the same time, in whatever order they
\* get the mutex (middleware.go:318): the windows of one address start more than their
\* length apart, and only a request that read the clock before such a window was
\* opened, and still has no mutex, is counted in a later one.  A request that is
\* overtaken by the janitor there can open a window in the past, and is left out.
BurstIsBounded ==
    Limit > 0 => \A a \in Address \ overtaken : \A t \in 0 .. now :
        Cardinality({i \in 1 .. Len(passed) : /\ passed[i].address = a
                                              /\ passed[i].by \in t .. t + Window})
            < 2 * Limit + Cardinality(Request) - 1

\* Nobody is refused for the traffic of others or for his own old requests:
\* when a request gets 429 (middleware.go:339), the limit was reached by requests
\* of its own address, counted at most a window before it read the clock.
RefusedForCause ==
    \A r \in Request : stage[r] = "refused" =>
        Cardinality({i \in 1 .. Len(passed) : /\ passed[i].address = address[r]
                                              /\ passed[i].at >= stamp[r] - Window}) >= Limit
=============================================================================
