-------------------------- MODULE RateLimiterProofs --------------------------
(***************************************************************************)
(* LInv is an invariant of RateLimiter for any addresses, limit, window    *)
(* and finite number of requests at the same time; the two promises of the *)
(* limiter follow.  A request that is counted opens a window or joins the  *)
(* open one; the entries of other addresses and windows stay as they are.  *)
(***************************************************************************)
EXTENDS RateLimiterInvariant, FiniteSetTheorems, TLAPS

USE LimitAssumption DEF history

\* What a log of requests is after one more (middleware.go:349).
LEMMA Appended ==
    ASSUME NEW S, NEW s \in Seq(S), NEW e \in S
    PROVE  /\ Append(s, e) \in Seq(S) /\ Len(s) \in Nat /\ Len(Append(s, e)) = Len(s) + 1
           /\ Append(s, e)[Len(s) + 1] = e /\ \A i \in 1 .. Len(s) : Append(s, e)[i] = s[i]
           /\ 1 .. Len(s) + 1 = (1 .. Len(s)) \cup {Len(s) + 1} /\ Len(s) + 1 \notin 1 .. Len(s)
<1>1. Len(s) \in Nat
  OBVIOUS
<1>2. /\ Append(s, e) \in Seq(S) /\ Len(Append(s, e)) = Len(s) + 1
      /\ Append(s, e)[Len(s) + 1] = e /\ \A i \in 1 .. Len(s) : Append(s, e)[i] = s[i]
  OBVIOUS
<1> QED BY <1>1, <1>2

\* Part of a finite set.
LEMMA Part ==
    ASSUME NEW S, NEW T, IsFiniteSet(S), T \subseteq S
    PROVE  /\ IsFiniteSet(T) /\ Cardinality(T) \in Nat /\ Cardinality(S) \in Nat
           /\ Cardinality(T) <= Cardinality(S)
           /\ T # S => Cardinality(T) < Cardinality(S)
<1>1. IsFiniteSet(T) /\ Cardinality(T) <= Cardinality(S) /\ (Cardinality(S) = Cardinality(T) => S = T)
  BY FS_Subset
<1>2. Cardinality(T) \in Nat /\ Cardinality(S) \in Nat
  BY <1>1, FS_CardinalityType
<1> QED BY <1>1, <1>2

\* Everything that is counted is finite.
LEMMA Finite ==
    ASSUME TypeOK, IsFiniteSet(Request)
    PROVE  /\ Cardinality(Request) \in Nat
           /\ \A T \in SUBSET Passed : IsFiniteSet(T) /\ Cardinality(T) \in Nat
           /\ \A T \in SUBSET Request : IsFiniteSet(T) /\ Cardinality(T) \in Nat
<1>1. Len(passed) \in Nat
  BY DEF TypeOK
<1>2. IsFiniteSet(Passed)
  <2>1. 1 \in Int /\ Len(passed) \in Int
    BY <1>1
  <2>2. IsFiniteSet(1 .. Len(passed))
    BY <2>1, FS_Interval
  <2> QED BY <2>2 DEF Passed
<1> QED BY <1>2, Part

\* The requests that a count adds to or leaves in a set.
LEMMA OneMore ==
    ASSUME NEW S, NEW x, IsFiniteSet(S)
    PROVE  /\ Cardinality(S) \in Nat /\ IsFiniteSet(S \cup {x}) /\ IsFiniteSet(S \ {x})
           /\ x \notin S => Cardinality(S \cup {x}) = Cardinality(S) + 1
           /\ x \in S => Cardinality(S \ {x}) = Cardinality(S) - 1
<1>1. Cardinality(S) \in Nat
  BY FS_CardinalityType
<1> QED BY <1>1, FS_AddElement, FS_RemoveElement

-----------------------------------------------------------------------------
(* Steps that count nothing. *)

\* At the start nothing is counted (middleware.go:292).
LEMMA InitLInv == Init => LInv
<1> SUFFICES ASSUME Init PROVE LInv
  OBVIOUS
<1>1. (CHOOSE a \in Address : TRUE) \in Address
  BY OriginAssumption
<1>2. passed = <<>> /\ Len(passed) = 0 /\ Passed = {}
  BY DEF Init, Passed
<1>3. TypeOK
  BY <1>1, <1>2 DEF Init, TypeOK, NoWindow
<1>4. Clock
  BY DEF Init, Clock, NoWindow
<1>5. Filled
  BY DEF Init, Filled
<1> QED BY <1>2, <1>3, <1>4, <1>5 DEF LInv, Recorded, Spaced, Slow, RefusedForCause, Init

\* What the log holds.
LEMMA Logged ==
    ASSUME TypeOK
    PROVE  \A i \in Passed : /\ passed[i].address \in Address /\ passed[i].by \in Nat
                             /\ passed[i].at \in Nat /\ passed[i].start \in Nat
<1>1. ASSUME NEW S, passed \in Seq(S) PROVE \A i \in Passed : passed[i] \in S
  BY <1>1 DEF Passed
<1>2. \A i \in Passed : passed[i] \in [address : Address, by : Nat, at : Nat, start : Nat]
  BY <1>1 DEF TypeOK
<1> QED BY <1>2

\* The clock (time.Now) moves on.
LEMMA TickLInv ==
    ASSUME LInv, Tick
    PROVE  LInv'
<1>1. /\ now \in Nat /\ now' = now + 1
      /\ UNCHANGED <<stage, address, stamp, clients, requests, passed, swept, overtaken>>
  BY DEF LInv, TypeOK, Tick
<1>t. TypeOK
  BY DEF LInv
<1>2. TypeOK'
  BY <1>t, <1>1 DEF TypeOK
<1>3. Passed' = Passed
  BY <1>1 DEF Passed
<1>4. Clock'
  BY <1>1, <1>t DEF LInv, TypeOK, Clock
<1>5. Recorded'
  BY <1>1, <1>3, <1>t, Logged DEF LInv, Recorded
<1>6. \A a, s : Counted(a, s)' = Counted(a, s) /\ Late(a, s)' = Late(a, s) /\ Pending(a, s)' = Pending(a, s)
  BY <1>1, <1>3 DEF Counted, Late, Pending
<1>7. Filled' /\ Spaced'
  BY <1>1, <1>3, <1>6 DEF LInv, Filled, Spaced
<1>8. Slow'
  BY <1>1, <1>3, <1>6 DEF LInv, Slow
<1>9. RefusedForCause'
  BY <1>1 DEF LInv, RefusedForCause
<1> QED BY <1>2, <1>4, <1>5, <1>7, <1>8, <1>9 DEF LInv

\* A turn of the janitor (middleware.go:302): what it takes out is over for every
\* request that reads the clock from now on.
LEMMA SweepLInv ==
    ASSUME LInv, Sweep
    PROVE  LInv'
<1>t. TypeOK /\ Clock
  BY DEF LInv
<1> DEFINE gone == {a \in Address : expired(a)}
<1>1. /\ clients' = [a \in Address |-> IF a \in gone THEN NoWindow ELSE clients[a]]
      /\ swept' = [a \in Address |-> IF a \in gone THEN now ELSE swept[a]]
      /\ UNCHANGED <<now, stage, address, stamp, requests, passed, overtaken>>
  BY DEF Sweep
<1>g. \A a \in gone : clients[a] # NoWindow /\ clients[a].start + Window < now
  BY <1>t DEF expired, isOver, TypeOK
<1> HIDE DEF gone
<1>2. TypeOK'
  BY <1>t, <1>1 DEF TypeOK, NoWindow
<1>3. Passed' = Passed
  BY <1>1 DEF Passed
<1>4. Clock'
  BY <1>1, <1>t DEF TypeOK, Clock, NoWindow
<1>5. Recorded'
  BY <1>1, <1>3 DEF LInv, Recorded
<1>6. \A a, s : Counted(a, s)' = Counted(a, s) /\ Late(a, s)' = Late(a, s) /\ Pending(a, s)' = Pending(a, s)
  BY <1>1, <1>3 DEF Counted, Late, Pending
<1>7. Filled'
  <2>1. \A a \in Address : clients'[a] # NoWindow => clients'[a] = clients[a]
    BY <1>1
  <2> QED BY <2>1, <1>1, <1>6 DEF LInv, Filled
<1>8. Spaced'
  <2> SUFFICES ASSUME NEW i \in Passed, passed[i].address \notin overtaken
               PROVE  LET a == passed[i].address
                          s == passed[i].start
                      IN IF clients'[a] = NoWindow
                         THEN s + Window < swept'[a]
                         ELSE s = clients'[a].start \/ s + Window < clients'[a].start
    BY <1>1, <1>3, <1>6 DEF LInv, Spaced
  <2> DEFINE a == passed[i].address
             s == passed[i].start
  <2>1. a \in Address /\ s \in Nat /\ now \in Nat /\ clients[a].start \in Nat
    BY <1>t, Logged DEF TypeOK
  <2>2. IF clients[a] = NoWindow
        THEN s + Window < swept[a]
        ELSE s = clients[a].start \/ s + Window < clients[a].start
    BY DEF LInv, Spaced
  <2> HIDE DEF a, s
  <2>3. CASE a \in gone
    BY <2>1, <2>2, <2>3, <1>1, <1>g DEF a, s
  <2>4. CASE a \notin gone
    BY <2>1, <2>2, <2>4, <1>1 DEF a, s
  <2> QED BY <2>3, <2>4
<1>9. Slow'
  BY <1>1, <1>3, <1>6 DEF LInv, Slow
<1>10. RefusedForCause'
  BY <1>1 DEF LInv, RefusedForCause
<1> QED BY <1>2, <1>4, <1>5, <1>7, <1>8, <1>9, <1>10 DEF LInv

\* A request that reads the clock (middleware.go:316) after a window has started
\* is not one of those that the window was opened before.
LEMMA ReadClockLInv ==
    ASSUME LInv, IsFiniteSet(Request), NEW r \in Request, NEW o \in Origin, ReadClock(r, o)
    PROVE  LInv'
<1>t. TypeOK /\ Clock
  BY DEF LInv
<1>a. PICK ip \in Address : ip = getClientIP(o)
  BY OriginAssumption DEF getClientIP, RealIP
<1>1. /\ stage' = [stage EXCEPT ![r] = "arrived"] /\ address' = [address EXCEPT ![r] = ip]
      /\ stamp' = [stamp EXCEPT ![r] = now] /\ requests' = requests + 1 /\ stage[r] # "arrived"
      /\ UNCHANGED <<now, clients, passed, swept, overtaken>>
  BY <1>a DEF ReadClock
<1>2. TypeOK'
  BY <1>t, <1>1 DEF TypeOK
<1>3. Passed' = Passed
  BY <1>1 DEF Passed
<1>4. Clock'
  BY <1>1, <1>t DEF TypeOK, Clock
<1>5. Recorded'
  BY <1>1, <1>3 DEF LInv, Recorded
<1>6. \A a, s : Counted(a, s)' = Counted(a, s) /\ Late(a, s)' = Late(a, s)
  BY <1>1, <1>3 DEF Counted, Late
<1>7. Filled' /\ Spaced'
  BY <1>1, <1>3, <1>6 DEF LInv, Filled, Spaced
<1>8. Slow'
  <2> SUFFICES ASSUME NEW i \in Passed, NEW u \in 0 .. passed[i].start - 1
               PROVE  Pending(passed[i].address, u)' = Pending(passed[i].address, u)
    BY <1>1, <1>3, <1>6 DEF LInv, Slow
  <2>1. /\ passed[i].start \in Nat /\ passed[i].at \in Nat /\ now \in Nat
        /\ passed[i].start <= passed[i].at /\ passed[i].at <= now
    BY <1>t, Logged DEF LInv, Recorded, TypeOK
  <2>2. u \in Int /\ u < now
    BY <2>1
  <2>3. \A q \in Request : q # r => stage'[q] = stage[q] /\ address'[q] = address[q] /\ stamp'[q] = stamp[q]
    BY <1>1, <1>t DEF TypeOK
  <2>4. stamp'[r] = now /\ r \notin Pending(passed[i].address, u)
    BY <1>1, <1>t DEF TypeOK, Pending
  <2>5. ~(now <= u)
    BY <2>1, <2>2
  <2> QED BY <2>3, <2>4, <2>5, <1>1 DEF Pending
<1>9. RefusedForCause'
  BY <1>1, <1>t DEF LInv, RefusedForCause, TypeOK
<1> QED BY <1>2, <1>4, <1>5, <1>7, <1>8, <1>9 DEF LInv

-----------------------------------------------------------------------------
(* Counting a request. *)

\* A request opens a window when its address has none or the one it has is over for it.
Opens(r) == clients[address[r]] = NoWindow \/ isOver(clients[address[r]].start, stamp[r])

\* The critical section (middleware.go:318) changes what belongs to the address of r.
LEMMA Section ==
    ASSUME LInv, NEW r \in Request, CountRequest(r)
    PROVE  LET ip == address[r]
               c  == counted(ip, stamp[r])
           IN /\ ip \in Address /\ stamp[r] \in Nat /\ stamp[r] <= now
              /\ c.start \in Nat /\ c.count \in Nat \ {0} /\ c.start <= now
              /\ Opens(r) => c.start = stamp[r] /\ c.count = 1
              /\ ~Opens(r) => /\ c.start = clients[ip].start /\ c.count = clients[ip].count + 1
                              /\ clients[ip] # NoWindow /\ clients[ip].count \in Nat \ {0}
                              /\ stamp[r] <= clients[ip].start + Window
                              /\ overtaken' = overtaken
              /\ clients'[ip] = c /\ clients'[ip] # NoWindow
              /\ \A a \in Address \ {ip} : clients'[a] = clients[a] /\ swept'[a] = swept[a]
              /\ overtaken \subseteq overtaken' /\ overtaken' \subseteq overtaken \cup {ip}
              /\ stage[r] = "arrived"
              /\ \A q \in Request \ {r} : stage'[q] = stage[q] /\ stamp'[q] = stamp[q]
              /\ UNCHANGED <<now, address, requests>>
<1> DEFINE ip == address[r]
           c  == counted(ip, stamp[r])
<1>t. TypeOK /\ Clock
  BY DEF LInv
<1>1. ip \in Address /\ stamp[r] \in Nat /\ now \in Nat /\ clients[ip] \in [start : Nat, count : Nat]
  BY <1>t DEF TypeOK
<1>2. stamp[r] <= now /\ clients[ip].start <= now /\ (clients[ip].count = 0 => clients[ip] = NoWindow)
  BY <1>t, <1>1 DEF Clock
<1>3. Opens(r) => c = [start |-> stamp[r], count |-> 1]
  BY DEF Opens, counted
<1>4. ~Opens(r) => c = [clients[ip] EXCEPT !.count = @ + 1]
  BY DEF Opens, counted
<1>5. /\ Opens(r) => c.start = stamp[r] /\ c.count = 1
      /\ ~Opens(r) => c.start = clients[ip].start /\ c.count = clients[ip].count + 1
  BY <1>1, <1>3, <1>4
<1>6. /\ clients' = [clients EXCEPT ![ip] = c]
      /\ swept' = [swept EXCEPT ![ip] = 0]
      /\ overtaken' = IF clients[ip] = NoWindow /\ stamp[r] < swept[ip]
                      THEN overtaken \cup {ip} ELSE overtaken
      /\ stage[r] = "arrived" /\ UNCHANGED <<now, address, requests>>
      /\ stage' = [stage EXCEPT ![r] = IF admits(c.count) THEN "admitted" ELSE "refused"]
      /\ stamp' = [stamp EXCEPT ![r] = IF admits(c.count) THEN 0 ELSE @]
  BY DEF CountRequest
<1>7. ~Opens(r) => clients[ip] # NoWindow /\ stamp[r] <= clients[ip].start + Window
  BY <1>1 DEF Opens, isOver
<1>8. c.start \in Nat /\ c.count \in Nat \ {0} /\ c.start <= now
  BY <1>1, <1>2, <1>5
<1>9. ~Opens(r) => clients[ip].count \in Nat \ {0} /\ overtaken' = overtaken
  BY <1>1, <1>2, <1>6, <1>7
<1> HIDE DEF c
<1>10. clients'[ip] = c /\ c # NoWindow
  <2>1. clients'[ip] = c
    BY <1>1, <1>6, <1>t DEF TypeOK
  <2> QED BY <2>1, <1>8 DEF NoWindow
<1>11. /\ \A a \in Address \ {ip} : clients'[a] = clients[a] /\ swept'[a] = swept[a]
       /\ \A q \in Request \ {r} : stage'[q] = stage[q] /\ stamp'[q] = stamp[q]
  BY <1>6, <1>t DEF TypeOK
<1>12. overtaken \subseteq overtaken' /\ overtaken' \subseteq overtaken \cup {ip}
  BY <1>6
<1> QED BY <1>1, <1>2, <1>5, <1>6, <1>7, <1>8, <1>9, <1>10, <1>11, <1>12 DEF c

\* The types and the clock, whatever the decision.
LEMMA CountTypeOK ==
    ASSUME LInv, NEW r \in Request, CountRequest(r)
    PROVE  TypeOK' /\ Clock'
<1> DEFINE ip   == address[r]
           c    == counted(ip, stamp[r])
           pass == [address |-> ip, by |-> stamp[r], at |-> now, start |-> c.start]
<1>t. TypeOK /\ Clock
  BY DEF LInv
<1>1. /\ ip \in Address /\ stamp[r] \in Nat /\ c.start \in Nat /\ c.count \in Nat /\ c.start <= now
      /\ c \in [start : Nat, count : Nat]
      /\ c.count # 0 /\ clients'[ip] = c /\ UNCHANGED <<now, address, requests>>
  <2>1. /\ ip \in Address /\ stamp[r] \in Nat /\ c.start \in Nat /\ c.count \in Nat /\ c.start <= now
        /\ c.count # 0 /\ clients'[ip] = c /\ UNCHANGED <<now, address, requests>>
    BY Section
  <2>2. clients[ip] \in [start : Nat, count : Nat]
    BY <1>t, <2>1 DEF TypeOK
  <2>3. c \in [start : Nat, count : Nat]
    BY <2>1, <2>2 DEF counted
  <2> QED BY <2>1, <2>3
<1>2. /\ clients' = [clients EXCEPT ![ip] = c]
      /\ swept' = [swept EXCEPT ![ip] = 0]
      /\ overtaken' \subseteq overtaken \cup {ip}
      /\ stage' = [stage EXCEPT ![r] = IF admits(c.count) THEN "admitted" ELSE "refused"]
      /\ stamp' = [stamp EXCEPT ![r] = IF admits(c.count) THEN 0 ELSE @]
      /\ passed' = passed \/ passed' = Append(passed, pass)
  BY DEF CountRequest
<1> DEFINE R == [address : Address, by : Nat, at : Nat, start : Nat]
<1>3. pass \in R
  BY <1>1, <1>t DEF TypeOK
<1> HIDE DEF c
<1>4. passed' \in Seq(R)
  <2>1. passed \in Seq(R)
    BY <1>t DEF TypeOK
  <2> HIDE DEF R, pass
  <2> QED BY <2>1, <1>2, <1>3, Appended
<1>5. TypeOK'
  BY <1>1, <1>2, <1>4, <1>t DEF TypeOK
<1>6. Clock'
  BY <1>1, <1>2, <1>t DEF TypeOK, Clock, NoWindow
<1> QED BY <1>5, <1>6

\* With a limit of zero nothing is let through.
LEMMA NothingPasses ==
    ASSUME LInv, IsFiniteSet(Request), Limit = 0, NEW i \in Passed
    PROVE  passed[i].address \in overtaken
<1> SUFFICES ASSUME passed[i].address \notin overtaken PROVE FALSE
  OBVIOUS
<1> DEFINE C == Counted(passed[i].address, passed[i].start)
<1>1. Cardinality(C) <= 0
  BY DEF LInv, Spaced
<1>2. i \in C /\ C \subseteq Passed
  BY DEF Counted
<1>3. IsFiniteSet(C) /\ Cardinality(C) \in Nat
  BY <1>2, Finite DEF LInv
<1> HIDE DEF C
<1>4. C = {}
  BY <1>1, <1>3, FS_EmptySet
<1> QED BY <1>2, <1>4

\* A request that is refused (middleware.go:339): the open window has reached the
\* limit, with requests counted after its start.
LEMMA RefuseLInv ==
    ASSUME LInv, IsFiniteSet(Request), NEW r \in Request, CountRequest(r),
           ~admits(counted(address[r], stamp[r]).count)
    PROVE  LInv'
<1> DEFINE ip == address[r]
           c  == counted(ip, stamp[r])
<1>t. TypeOK /\ Clock
  BY DEF LInv
<1>1. TypeOK' /\ Clock'
  BY CountTypeOK
<1>2. /\ ip \in Address /\ stamp[r] \in Nat /\ stamp[r] <= now
      /\ c.start \in Nat /\ c.count \in Nat \ {0} /\ c.start <= now
      /\ Opens(r) => c.start = stamp[r] /\ c.count = 1
      /\ ~Opens(r) => /\ c.start = clients[ip].start /\ c.count = clients[ip].count + 1
                      /\ clients[ip] # NoWindow /\ clients[ip].count \in Nat \ {0}
                      /\ stamp[r] <= clients[ip].start + Window
                      /\ overtaken' = overtaken
      /\ clients'[ip] = c /\ clients'[ip] # NoWindow
      /\ \A a \in Address \ {ip} : clients'[a] = clients[a] /\ swept'[a] = swept[a]
      /\ overtaken \subseteq overtaken' /\ overtaken' \subseteq overtaken \cup {ip}
      /\ stage[r] = "arrived"
      /\ \A q \in Request \ {r} : stage'[q] = stage[q] /\ stamp'[q] = stamp[q]
      /\ UNCHANGED <<now, address, requests>>
  BY Section
<1>3. passed' = passed /\ stage'[r] = "refused" /\ stamp'[r] = stamp[r]
  BY <1>t DEF CountRequest, TypeOK
<1>4. c.count > Limit
  BY <1>2 DEF admits
<1> HIDE DEF c
<1>5. Opens(r) => Limit = 0
  BY <1>2, <1>4
<1>6. Passed' = Passed
  BY <1>3 DEF Passed
<1>7. \A a, s : Counted(a, s)' = Counted(a, s) /\ Late(a, s)' = Late(a, s)
  BY <1>3, <1>6 DEF Counted, Late
<1>8. \A a, u : Pending(a, u)' \subseteq Pending(a, u)
  <2>1. \A q \in Request : stage'[q] = "arrived" => q # r
    BY <1>3
  <2> QED BY <2>1, <1>2 DEF Pending
<1>9. \A a, s : Cardinality(Counted(a, s)) \in Nat
  <2>1. \A a, s : Counted(a, s) \subseteq Passed
    BY DEF Counted
  <2> QED BY <2>1, <1>t, Finite
<1>10. ~Opens(r) => Cardinality(Counted(ip, c.start)) >= Limit
  <2> SUFFICES ASSUME ~Opens(r) PROVE Cardinality(Counted(ip, c.start)) >= Limit
    OBVIOUS
  <2>1. Cardinality(Counted(ip, c.start)) >= Limit \/ Cardinality(Counted(ip, c.start)) >= clients[ip].count
    BY <1>2 DEF LInv, Filled
  <2>2. Cardinality(Counted(ip, c.start)) \in Nat
    BY <1>9
  <2> QED BY <2>1, <2>2, <1>2, <1>4
<1>11. Recorded'
  BY <1>2, <1>3, <1>6 DEF LInv, Recorded
<1>12. Filled'
  <2> SUFFICES ASSUME NEW a \in Address, clients'[a] # NoWindow
               PROVE  LET n == Cardinality(Counted(a, clients'[a].start))
                      IN /\ n >= Limit \/ n >= clients'[a].count
                         /\ a \notin overtaken' => n <= clients'[a].count
    BY <1>7 DEF Filled
  <2>1. CASE a # ip
    BY <2>1, <1>2 DEF LInv, Filled
  <2>2. CASE a = ip /\ ~Opens(r)
    <3>1. ip \notin overtaken => Cardinality(Counted(ip, c.start)) <= clients[ip].count
      BY <2>2, <1>2 DEF LInv, Filled
    <3>2. Cardinality(Counted(ip, c.start)) \in Nat
      BY <1>9
    <3>3. ip \notin overtaken' => Cardinality(Counted(ip, c.start)) <= c.count
      BY <3>1, <3>2, <2>2, <1>2
    <3> QED BY <3>3, <2>2, <1>2, <1>10
  <2>3. CASE a = ip /\ Opens(r)
    <3>1. ip \notin overtaken => Counted(ip, c.start) = {}
      BY <1>5, <2>3, NothingPasses DEF Counted
    <3>2. ip \notin overtaken => Cardinality(Counted(ip, c.start)) = 0
      BY <3>1, FS_EmptySet
    <3>3. Cardinality(Counted(ip, c.start)) \in Nat
      BY <1>9
    <3> QED BY <3>2, <3>3, <1>2, <1>5, <2>3
  <2> QED BY <2>1, <2>2, <2>3
<1>13. Spaced'
  <2> SUFFICES ASSUME NEW i \in Passed, passed[i].address \notin overtaken'
               PROVE  LET a == passed[i].address
                          s == passed[i].start
                      IN IF clients'[a] = NoWindow
                         THEN s + Window < swept'[a]
                         ELSE s = clients'[a].start \/ s + Window < clients'[a].start
    BY <1>2, <1>3, <1>6, <1>7 DEF LInv, Spaced
  <2>1. passed[i].address \in Address /\ passed[i].address \notin overtaken
    BY <1>2, <1>t, Logged
  <2>2. LET a == passed[i].address
            s == passed[i].start
        IN IF clients[a] = NoWindow
           THEN s + Window < swept[a]
           ELSE s = clients[a].start \/ s + Window < clients[a].start
    BY <2>1 DEF LInv, Spaced
  <2>3. CASE passed[i].address # ip
    BY <2>1, <2>2, <2>3, <1>2
  <2>4. CASE passed[i].address = ip /\ ~Opens(r)
    BY <2>2, <2>4, <1>2
  <2>5. CASE passed[i].address = ip /\ Opens(r)
    BY <2>1, <2>5, <1>5, NothingPasses
  <2> QED BY <2>3, <2>4, <2>5
<1>14. Slow'
  <2> SUFFICES ASSUME NEW i \in Passed, NEW u \in 0 .. passed[i].start - 1,
                      NEW a, a = passed[i].address
               PROVE  Cardinality(Late(a, u)) + Cardinality(Pending(a, u)') < Cardinality(Request)
    BY <1>3, <1>6, <1>7 DEF Slow
  <2> DEFINE P == Pending(a, u)
             L == Late(a, u)
  <2>1. Cardinality(L) + Cardinality(P) < Cardinality(Request)
    BY DEF LInv, Slow
  <2>2. P' \subseteq P /\ P \subseteq Request /\ L \subseteq Passed
    BY <1>8 DEF Pending, Late
  <2>3. Cardinality(P') \in Nat /\ Cardinality(P) \in Nat /\ Cardinality(P') <= Cardinality(P)
    BY <2>2, <1>t, Finite, Part
  <2>4. Cardinality(L) \in Nat /\ Cardinality(Request) \in Nat
    BY <2>2, <1>t, Finite
  <2> HIDE DEF P, L
  <2>5. Cardinality(L) + Cardinality(P') < Cardinality(Request)
    BY <2>1, <2>3, <2>4
  <2> QED BY <2>5 DEF P, L
<1>15. RefusedForCause'
  <2> SUFFICES ASSUME NEW q \in Request, stage'[q] = "refused"
               PROVE  Cardinality({i \in Passed : /\ passed[i].address = address[q]
                                                  /\ passed[i].at >= stamp'[q] - Window}) >= Limit
    BY <1>2, <1>3 DEF RefusedForCause, Passed
  <2> DEFINE A == {i \in Passed : passed[i].address = address[q] /\ passed[i].at >= stamp'[q] - Window}
  <2>1. CASE q # r
    BY <2>1, <1>2 DEF LInv, RefusedForCause, Passed
  <2>2. CASE q = r /\ Opens(r)
    <3>1. A \subseteq Passed
      OBVIOUS
    <3>2. Cardinality(A) \in Nat
      BY <3>1, <1>t, Finite
    <3> QED BY <3>2, <2>2, <1>5
  <2>3. CASE q = r /\ ~Opens(r)
    <3>1. ASSUME NEW i \in Counted(ip, c.start) PROVE i \in A
      <4>1. i \in Passed /\ passed[i].address = ip /\ passed[i].start = c.start
        BY DEF Counted
      <4>2. passed[i].at \in Nat /\ passed[i].start <= passed[i].at
        BY <4>1, <1>t, Logged DEF LInv, Recorded
      <4>3. stamp[r] - Window <= c.start
        BY <2>3, <1>2
      <4>4. passed[i].at >= stamp[r] - Window
        BY <4>1, <4>2, <4>3, <1>2
      <4> QED BY <4>1, <4>4, <2>3, <1>3
    <3>2. A \subseteq Passed /\ Counted(ip, c.start) \subseteq A
      BY <3>1
    <3> HIDE DEF A
    <3>3. IsFiniteSet(A)
      BY <3>2, <1>t, Finite
    <3>4. Cardinality(A) \in Nat /\ Cardinality(Counted(ip, c.start)) \in Nat
          /\ Cardinality(Counted(ip, c.start)) <= Cardinality(A)
      BY <3>2, <3>3, Part
    <3>5. Cardinality(A) >= Limit
      BY <3>4, <1>10, <2>3
    <3> QED BY <3>5 DEF A
  <2> QED BY <2>1, <2>2, <2>3
<1> QED BY <1>1, <1>11, <1>12, <1>13, <1>14, <1>15 DEF LInv

\* A request that is let through (middleware.go:349) is the last of the log: it is
\* one more in its window, late for the times from its stamp to its window's
\* start, and pending no more.
LEMMA AdmitLog ==
    ASSUME LInv, NEW r \in Request, CountRequest(r), admits(counted(address[r], stamp[r]).count)
    PROVE  LET ip == address[r]
               c  == counted(ip, stamp[r])
               n  == Len(passed) + 1
           IN /\ n \notin Passed /\ Passed' = Passed \cup {n}
              /\ passed'[n].address = ip /\ passed'[n].by = stamp[r]
              /\ passed'[n].at = now /\ passed'[n].start = c.start
              /\ \A i \in Passed : passed'[i] = passed[i]
              /\ stage'[r] = "admitted"
              /\ \A a, s : a = ip /\ s = c.start => Counted(a, s)' = Counted(a, s) \cup {n}
              /\ \A a, s : a # ip \/ s # c.start => Counted(a, s)' = Counted(a, s)
              /\ \A a, u : a = ip /\ stamp[r] <= u /\ u < c.start => Late(a, u)' = Late(a, u) \cup {n}
              /\ \A a, u : ~(a = ip /\ stamp[r] <= u /\ u < c.start) => Late(a, u)' = Late(a, u)
              /\ \A a, u : Pending(a, u)' = Pending(a, u) \ {r}
              /\ \A u : stamp[r] <= u => r \in Pending(ip, u)
<1> DEFINE ip   == address[r]
           c    == counted(ip, stamp[r])
           n    == Len(passed) + 1
           pass == [address |-> ip, by |-> stamp[r], at |-> now, start |-> c.start]
           R    == [address : Address, by : Nat, at : Nat, start : Nat]
<1>t. TypeOK
  BY DEF LInv
<1>1. /\ ip \in Address /\ stamp[r] \in Nat /\ c.start \in Nat
      /\ stage[r] = "arrived" /\ UNCHANGED <<now, address, requests>>
      /\ \A q \in Request \ {r} : stage'[q] = stage[q] /\ stamp'[q] = stamp[q]
  BY Section
<1>2. passed' = Append(passed, pass) /\ stage'[r] = "admitted"
  BY <1>t DEF CountRequest, TypeOK
<1>3. pass \in R /\ passed \in Seq(R)
  BY <1>1, <1>t DEF TypeOK
<1>4. /\ Len(passed) \in Nat /\ Len(passed') = n /\ passed'[n] = pass
      /\ \A i \in 1 .. Len(passed) : passed'[i] = passed[i]
      /\ 1 .. n = (1 .. Len(passed)) \cup {n} /\ n \notin 1 .. Len(passed)
  <2> HIDE DEF pass, R
  <2> QED BY <1>2, <1>3, Appended
<1>5. Passed' = Passed \cup {n} /\ n \notin Passed /\ \A i \in Passed : passed'[i] = passed[i]
  BY <1>4 DEF Passed
<1>6. /\ passed'[n].address = ip /\ passed'[n].by = stamp[r]
      /\ passed'[n].at = now /\ passed'[n].start = c.start
  BY <1>4
<1> HIDE DEF c, n, pass
<1>7. /\ \A a, s : a = ip /\ s = c.start => Counted(a, s)' = Counted(a, s) \cup {n}
      /\ \A a, s : a # ip \/ s # c.start => Counted(a, s)' = Counted(a, s)
  <2>1. \A a, s : a = ip /\ s = c.start => Counted(a, s)' = Counted(a, s) \cup {n}
    BY <1>5, <1>6 DEF Counted
  <2>2. \A a, s : a # ip \/ s # c.start => Counted(a, s)' = Counted(a, s)
    BY <1>5, <1>6 DEF Counted
  <2> QED BY <2>1, <2>2
<1>8. /\ \A a, u : a = ip /\ stamp[r] <= u /\ u < c.start => Late(a, u)' = Late(a, u) \cup {n}
      /\ \A a, u : ~(a = ip /\ stamp[r] <= u /\ u < c.start) => Late(a, u)' = Late(a, u)
  <2>1. \A a, u : a = ip /\ stamp[r] <= u /\ u < c.start => Late(a, u)' = Late(a, u) \cup {n}
    BY <1>5, <1>6 DEF Late
  <2>2. \A a, u : ~(a = ip /\ stamp[r] <= u /\ u < c.start) => Late(a, u)' = Late(a, u)
    BY <1>5, <1>6 DEF Late
  <2> QED BY <2>1, <2>2, <1>1
<1>9. \A a, u : Pending(a, u)' = Pending(a, u) \ {r}
  <2>1. r \notin {q \in Request : stage'[q] = "arrived"}
    BY <1>2
  <2> QED BY <2>1, <1>1 DEF Pending
<1>10. \A u : stamp[r] <= u => r \in Pending(ip, u)
  BY <1>1 DEF Pending
<1> QED BY <1>2, <1>5, <1>6, <1>7, <1>8, <1>9, <1>10 DEF c, n

\* A window that a request opens starts more than a window's length after the
\* others of its address, unless the janitor overtook the request.
LEMMA OpensLater ==
    ASSUME LInv, NEW r \in Request, CountRequest(r), Opens(r), address[r] \notin overtaken',
           NEW i \in Passed, passed[i].address = address[r]
    PROVE  passed[i].start + Window < stamp[r]
<1> DEFINE ip == address[r]
           s  == passed[i].start
<1>t. TypeOK /\ Clock
  BY DEF LInv
<1>1. ip \in Address /\ stamp[r] \in Nat /\ s \in Nat /\ clients[ip].start \in Nat /\ swept[ip] \in Nat
  BY <1>t, Logged DEF TypeOK
<1>2. ip \notin overtaken /\ ~(clients[ip] = NoWindow /\ stamp[r] < swept[ip])
  BY DEF CountRequest
<1>3. IF clients[ip] = NoWindow
      THEN s + Window < swept[ip]
      ELSE s = clients[ip].start \/ s + Window < clients[ip].start
  BY <1>2 DEF LInv, Spaced
<1> HIDE DEF ip, s
<1>4. clients[ip] = NoWindow \/ stamp[r] - clients[ip].start > Window
  BY DEF Opens, isOver, ip
<1>5. s + Window < stamp[r]
  BY <1>1, <1>2, <1>3, <1>4
<1> QED BY <1>5 DEF s

\* The window a request joins has let another one through, if the limit lets it pass.
LEMMA JoinsAnother ==
    ASSUME LInv, IsFiniteSet(Request), NEW r \in Request, CountRequest(r), ~Opens(r),
           admits(counted(address[r], stamp[r]).count)
    PROVE  Counted(address[r], clients[address[r]].start) # {}
<1> DEFINE ip == address[r]
           C  == Counted(ip, clients[ip].start)
<1>1. /\ ip \in Address /\ clients[ip] # NoWindow /\ clients[ip].count \in Nat \ {0}
      /\ counted(ip, stamp[r]).count = clients[ip].count + 1
  BY Section
<1>2. clients[ip].count + 1 <= Limit
  BY <1>1 DEF admits
<1>3. Cardinality(C) >= Limit \/ Cardinality(C) >= clients[ip].count
  BY <1>1 DEF LInv, Filled
<1>4. Cardinality({}) = 0
  BY FS_EmptySet
<1> QED BY <1>1, <1>2, <1>3, <1>4

\* The requests that are late or may become so are no more after one of them was
\* let through.
LEMMA AdmitSlow ==
    ASSUME LInv, IsFiniteSet(Request), NEW r \in Request, CountRequest(r),
           admits(counted(address[r], stamp[r]).count)
    PROVE  Slow'
<1>t. TypeOK
  BY DEF LInv
<1>0. PICK ip, k, n : ip = address[r] /\ k = counted(ip, stamp[r]).start /\ n = Len(passed) + 1
  OBVIOUS
<1>1. /\ n \notin Passed /\ Passed' = Passed \cup {n}
      /\ passed'[n].address = ip /\ passed'[n].by = stamp[r] /\ passed'[n].start = k
      /\ \A i \in Passed : passed'[i] = passed[i]
      /\ \A a, u : a = ip /\ stamp[r] <= u /\ u < k => Late(a, u)' = Late(a, u) \cup {n}
      /\ \A a, u : ~(a = ip /\ stamp[r] <= u /\ u < k) => Late(a, u)' = Late(a, u)
      /\ \A a, u : Pending(a, u)' = Pending(a, u) \ {r}
      /\ \A u : stamp[r] <= u => r \in Pending(ip, u)
  BY <1>0, AdmitLog
<1>2. /\ ip \in Address /\ stamp[r] \in Nat /\ k \in Nat
      /\ Opens(r) => k = stamp[r]
      /\ ~Opens(r) => k = clients[ip].start
  BY <1>0, Section
<1>3. \A a, u : /\ Late(a, u) \subseteq Passed /\ Pending(a, u) \subseteq Request
                /\ IsFiniteSet(Late(a, u)) /\ IsFiniteSet(Pending(a, u))
                /\ Cardinality(Late(a, u)) \in Nat /\ Cardinality(Pending(a, u)) \in Nat
  <2>1. \A a, u : Late(a, u) \subseteq Passed /\ Pending(a, u) \subseteq Request
    BY DEF Late, Pending
  <2> QED BY <2>1, <1>t, Finite
<1>c. Cardinality(Request) \in Nat
  BY <1>t, Finite
<1>4. ASSUME NEW a, NEW u \in Nat
      PROVE  /\ Cardinality(Late(a, u)') \in Nat /\ Cardinality(Pending(a, u)') \in Nat
             /\ Cardinality(Late(a, u)') + Cardinality(Pending(a, u)')
                  <= Cardinality(Late(a, u)) + Cardinality(Pending(a, u))
  <2> DEFINE L == Late(a, u)
             P == Pending(a, u)
  <2>0. /\ IsFiniteSet(L) /\ IsFiniteSet(P) /\ n \notin L
        /\ Cardinality(L) \in Nat /\ Cardinality(P) \in Nat
    BY <1>1, <1>3
  <2>1. P' = P \ {r}
    BY <1>1
  <2>2. CASE a = ip /\ stamp[r] <= u /\ u < k
    <3>1. L' = L \cup {n} /\ r \in P
      BY <2>2, <1>1
    <3> HIDE DEF L, P
    <3>2. Cardinality(L') = Cardinality(L) + 1
      BY <3>1, <2>0, OneMore
    <3>3. Cardinality(P') = Cardinality(P) - 1 /\ IsFiniteSet(P')
      BY <3>1, <2>0, <2>1, OneMore
    <3>4. Cardinality(P') \in Nat
      BY <3>3, FS_CardinalityType
    <3>5. /\ Cardinality(L') \in Nat /\ Cardinality(P') \in Nat
          /\ Cardinality(L') + Cardinality(P') <= Cardinality(L) + Cardinality(P)
      BY <3>2, <3>3, <3>4, <2>0
    <3> QED BY <3>5 DEF L, P
  <2>3. CASE ~(a = ip /\ stamp[r] <= u /\ u < k)
    <3>1. L' = L
      BY <2>3, <1>1
    <3> HIDE DEF L, P
    <3>2. Cardinality(P') <= Cardinality(P) /\ Cardinality(P') \in Nat
      BY <2>0, <2>1, Part
    <3>3. /\ Cardinality(L') \in Nat /\ Cardinality(P') \in Nat
          /\ Cardinality(L') + Cardinality(P') <= Cardinality(L) + Cardinality(P)
      BY <3>1, <3>2, <2>0
    <3> QED BY <3>3 DEF L, P
  <2> QED BY <2>2, <2>3
\* A window that started after u was there before.
<1>5. ASSUME NEW i \in Passed, NEW u \in Nat, u < passed[i].start, NEW a, a = passed[i].address
      PROVE  Cardinality(Late(a, u)') + Cardinality(Pending(a, u)') < Cardinality(Request)
  <2>1. passed[i].start \in Nat
    BY <1>t, Logged
  <2>2. u \in 0 .. passed[i].start - 1
    BY <2>1, <1>5
  <2>3. Cardinality(Late(a, u)) + Cardinality(Pending(a, u)) < Cardinality(Request)
    BY <2>2, <1>5 DEF LInv, Slow
  <2>4. /\ Cardinality(Late(a, u)) \in Nat /\ Cardinality(Pending(a, u)) \in Nat
        /\ Cardinality(Late(a, u)') \in Nat /\ Cardinality(Pending(a, u)') \in Nat
        /\ Cardinality(Late(a, u)') + Cardinality(Pending(a, u)')
             <= Cardinality(Late(a, u)) + Cardinality(Pending(a, u))
    BY <1>3, <1>4
  <2> DEFINE x == Cardinality(Late(a, u))
             y == Cardinality(Pending(a, u))
             z == Cardinality(Request)
             x1 == Cardinality(Late(a, u)')
             y1 == Cardinality(Pending(a, u)')
  <2> HIDE DEF x, y, z, x1, y1
  <2>5. x1 + y1 < z
    BY <2>3, <2>4, <1>c DEF x, y, z, x1, y1
  <2> QED BY <2>5 DEF x1, y1, z
\* The window that r opened is the first that starts after u.
<1>6. ASSUME NEW u \in Nat, u < k, \A i \in Passed : passed[i].address = ip => ~(u < passed[i].start)
      PROVE  Cardinality(Late(ip, u)') + Cardinality(Pending(ip, u)') < Cardinality(Request)
  <2>1. Opens(r)
    <3> SUFFICES ASSUME ~Opens(r) PROVE FALSE
      OBVIOUS
    <3>1. Counted(ip, k) # {}
      BY <1>0, <1>2, JoinsAnother
    <3> QED BY <3>1, <1>6 DEF Counted
  <2>2. Late(ip, u)' = Late(ip, u) /\ Late(ip, u) = {}
    <3>1. ~(stamp[r] <= u)
      BY <2>1, <1>2, <1>6
    <3> QED BY <3>1, <1>1, <1>6 DEF Late
  <2>3. Pending(ip, u)' \subseteq Request \ {r}
    BY <1>1, <1>3
  <2>4. IsFiniteSet(Request \ {r}) /\ Cardinality(Request \ {r}) = Cardinality(Request) - 1
    BY OneMore
  <2>5. Cardinality(Pending(ip, u)') \in Nat /\ Cardinality(Pending(ip, u)') <= Cardinality(Request \ {r})
    BY <2>3, <2>4, Part
  <2>6. Cardinality(Late(ip, u)') = 0
    BY <2>2, FS_EmptySet
  <2> QED BY <2>4, <2>5, <2>6, <1>c
<1>7. ASSUME NEW i \in Passed', NEW u \in 0 .. passed'[i].start - 1
      PROVE  Cardinality(Late(passed[i].address, u)') + Cardinality(Pending(passed[i].address, u)')
               < Cardinality(Request)
  <2>0. PICK a : a = passed'[i].address
    OBVIOUS
  <2>1. u \in Nat /\ u < passed'[i].start
    <3>1. passed'[i].start \in Nat
      BY <1>1, <1>2, <1>t, Logged
    <3> QED BY <3>1
  <2>2. CASE i \in Passed
    <3>1. Cardinality(Late(a, u)') + Cardinality(Pending(a, u)') < Cardinality(Request)
      BY <2>0, <2>1, <2>2, <1>1, <1>5
    <3> QED BY <3>1, <2>0
  <2>3. CASE i = n /\ \E j \in Passed : passed[j].address = ip /\ u < passed[j].start
    <3>1. Cardinality(Late(ip, u)') + Cardinality(Pending(ip, u)') < Cardinality(Request)
      BY <2>1, <2>3, <1>5
    <3>2. a = ip
      BY <2>0, <2>3, <1>1
    <3> QED BY <3>1, <3>2, <2>0
  <2>4. CASE i = n /\ ~\E j \in Passed : passed[j].address = ip /\ u < passed[j].start
    <3>1. Cardinality(Late(ip, u)') + Cardinality(Pending(ip, u)') < Cardinality(Request)
      BY <2>1, <2>4, <1>1, <1>6
    <3>2. a = ip
      BY <2>0, <2>4, <1>1
    <3> QED BY <3>1, <3>2, <2>0
  <2> QED BY <2>2, <2>3, <2>4, <1>1
<1> QED BY <1>7 DEF Slow

\* A window that was opened holds its first request, one that was joined holds one more.
LEMMA AdmitFilled ==
    ASSUME LInv, IsFiniteSet(Request), NEW r \in Request, CountRequest(r),
           admits(counted(address[r], stamp[r]).count)
    PROVE  /\ Filled'
           /\ \A ip, k : ip = address[r] /\ k = counted(ip, stamp[r]).start /\ ip \notin overtaken'
                           => Cardinality(Counted(ip, k)') <= Limit
<1>t. TypeOK
  BY DEF LInv
<1>0. PICK ip, k, m, n : /\ ip = address[r] /\ k = counted(ip, stamp[r]).start
                         /\ m = counted(ip, stamp[r]).count /\ n = Len(passed) + 1
  OBVIOUS
<1>1. /\ n \notin Passed /\ Counted(ip, k)' = Counted(ip, k) \cup {n}
      /\ \A a, s : a # ip \/ s # k => Counted(a, s)' = Counted(a, s)
  BY <1>0, AdmitLog
<1>2. /\ ip \in Address /\ stamp[r] \in Nat /\ k \in Nat /\ m \in Nat
      /\ Opens(r) => k = stamp[r] /\ m = 1
      /\ ~Opens(r) => /\ k = clients[ip].start /\ m = clients[ip].count + 1
                      /\ clients[ip] # NoWindow /\ clients[ip].count \in Nat
                      /\ overtaken' = overtaken
      /\ clients'[ip].start = k /\ clients'[ip].count = m
      /\ \A a \in Address \ {ip} : clients'[a] = clients[a]
      /\ overtaken \subseteq overtaken'
  BY <1>0, Section
<1>3. m <= Limit
  BY <1>0 DEF admits
<1>4. IsFiniteSet(Counted(ip, k)) /\ Cardinality(Counted(ip, k)) \in Nat /\ n \notin Counted(ip, k)
  <2>1. Counted(ip, k) \subseteq Passed
    BY DEF Counted
  <2> QED BY <2>1, <1>1, <1>t, Finite
<1>5. Cardinality(Counted(ip, k)') = Cardinality(Counted(ip, k)) + 1
  BY <1>1, <1>4, OneMore
<1>6. LET x == Cardinality(Counted(ip, k)')
      IN /\ x >= Limit \/ x >= m
         /\ ip \notin overtaken' => x <= m
  <2>1. CASE Opens(r)
    <3>1. ip \notin overtaken' => Counted(ip, k) = {}
      <4> SUFFICES ASSUME ip \notin overtaken', NEW i \in Counted(ip, k) PROVE FALSE
        OBVIOUS
      <4>1. i \in Passed /\ passed[i].address = ip /\ passed[i].start = k
        BY DEF Counted
      <4>2. k + Window < stamp[r]
        BY <4>1, <2>1, <1>0, OpensLater
      <4> QED BY <4>2, <2>1, <1>2
    <3>2. ip \notin overtaken' => Cardinality(Counted(ip, k)) = 0
      BY <3>1, FS_EmptySet
    <3> QED BY <3>2, <2>1, <1>2, <1>4, <1>5
  <2>2. CASE ~Opens(r)
    <3>1. LET x == Cardinality(Counted(ip, k))
          IN /\ x >= Limit \/ x >= clients[ip].count
             /\ ip \notin overtaken => x <= clients[ip].count
      BY <2>2, <1>2 DEF LInv, Filled
    <3> QED BY <3>1, <2>2, <1>2, <1>4, <1>5
  <2> QED BY <2>1, <2>2
<1>7. \A a \in Address \ {ip} : Counted(a, clients[a].start)' = Counted(a, clients[a].start)
  <2>1. \A a \in Address \ {ip} : \A s : Counted(a, s)' = Counted(a, s)
    BY <1>1
  <2> QED BY <2>1, <1>2
<1>8. Counted(ip, clients[ip].start)' = Counted(ip, k)'
  BY <1>2
<1>9. Filled'
  <2> SUFFICES ASSUME NEW a \in Address, clients'[a] # NoWindow
               PROVE  LET x == Cardinality(Counted(a, clients[a].start)')
                      IN /\ x >= Limit \/ x >= clients'[a].count
                         /\ a \notin overtaken' => x <= clients'[a].count
    BY DEF Filled
  <2>1. CASE a = ip
    BY <2>1, <1>2, <1>6, <1>8
  <2>2. CASE a # ip
    BY <2>2, <1>2, <1>7 DEF LInv, Filled
  <2> QED BY <2>1, <2>2
<1>10. ip \notin overtaken' => Cardinality(Counted(ip, k)') <= Limit
  BY <1>2, <1>3, <1>4, <1>5, <1>6
<1>11. \A a, s : a = ip /\ s = k => Counted(a, s)' = Counted(ip, k)'
  OBVIOUS
<1> QED BY <1>0, <1>9, <1>10, <1>11

\* The windows stay more than their length apart.
LEMMA AdmitSpaced ==
    ASSUME LInv, IsFiniteSet(Request), NEW r \in Request, CountRequest(r),
           admits(counted(address[r], stamp[r]).count)
    PROVE  Spaced'
<1>t. TypeOK
  BY DEF LInv
<1>0. PICK ip, k, n : ip = address[r] /\ k = counted(ip, stamp[r]).start /\ n = Len(passed) + 1
  OBVIOUS
<1>1. /\ n \notin Passed /\ Passed' = Passed \cup {n}
      /\ passed'[n].address = ip /\ passed'[n].by = stamp[r] /\ passed'[n].start = k
      /\ \A i \in Passed : passed'[i] = passed[i]
      /\ Counted(ip, k)' = Counted(ip, k) \cup {n}
      /\ \A a, s : a # ip \/ s # k => Counted(a, s)' = Counted(a, s)
  BY <1>0, AdmitLog
<1>2. /\ ip \in Address /\ stamp[r] \in Nat /\ k \in Nat
      /\ Opens(r) => k = stamp[r]
      /\ ~Opens(r) => k = clients[ip].start /\ clients[ip] # NoWindow /\ overtaken' = overtaken
      /\ clients'[ip].start = k /\ clients'[ip] # NoWindow
      /\ \A a \in Address \ {ip} : clients'[a] = clients[a] /\ swept'[a] = swept[a]
      /\ overtaken \subseteq overtaken' /\ overtaken' \subseteq overtaken \cup {ip}
  BY <1>0, Section
<1>3. ip \notin overtaken' => Cardinality(Counted(ip, k)') <= Limit
  BY <1>0, AdmitFilled
<1>4. ~Opens(r) => Counted(ip, k) # {}
  BY <1>0, <1>2, JoinsAnother
<1>5. \A i \in Passed : passed[i].address \in Address /\ passed[i].start \in Nat
  BY <1>t, Logged
\* What Spaced says of the windows of a that start at s.
<1> DEFINE Here(a, s) ==
              /\ Cardinality(Counted(a, s)) <= Limit
              /\ \E j \in Counted(a, s) : passed[j].by = s
           Apart(a, s) == \A j \in Passed : passed[j].address = a =>
                             \/ passed[j].start = s
                             \/ passed[j].start + Window < s
                             \/ s + Window < passed[j].start
           Open(a, s) == IF clients[a] = NoWindow
                         THEN s + Window < swept[a]
                         ELSE s = clients[a].start \/ s + Window < clients[a].start
<1>6. ASSUME NEW i \in Passed, passed[i].address \notin overtaken', NEW a, a = passed[i].address,
             NEW s, s = passed[i].start
      PROVE  Here(a, s) /\ Apart(a, s) /\ Open(a, s)
  <2>1. a \notin overtaken
    BY <1>2, <1>6
  <2> QED BY <2>1, <1>6 DEF LInv, Spaced
<1>7. ASSUME NEW a, NEW s, a # ip, a \in Address, Here(a, s), Apart(a, s), Open(a, s)
      PROVE  Here(a, s)' /\ Apart(a, s)' /\ Open(a, s)'
  <2>1. Counted(a, s)' = Counted(a, s) /\ Counted(a, s) \subseteq Passed
    BY <1>1, <1>7 DEF Counted
  <2>2. Here(a, s)'
    BY <2>1, <1>1, <1>7
  <2>3. Apart(a, s)'
    BY <1>1, <1>7
  <2>4. Open(a, s)'
    BY <1>2, <1>7
  <2> QED BY <2>2, <2>3, <2>4
\* The windows of ip that were there, when r joins one of them.
<1>8. ASSUME ~Opens(r), ip \notin overtaken', NEW s, Here(ip, s), Apart(ip, s), Open(ip, s)
      PROVE  Here(ip, s)' /\ Apart(ip, s)' /\ Open(ip, s)'
  <2>1. Counted(ip, s) \subseteq Counted(ip, s)' /\ Counted(ip, s) \subseteq Passed
    BY <1>1 DEF Counted
  <2>2. Cardinality(Counted(ip, s)') <= Limit
    <3>1. CASE s = k
      BY <3>1, <1>3, <1>8
    <3>2. CASE s # k
      BY <3>2, <1>1, <1>8
    <3> QED BY <3>1, <3>2
  <2>3. Here(ip, s)'
    BY <2>1, <2>2, <1>1, <1>8
  <2>4. PICK e \in Passed : passed[e].address = ip /\ passed[e].start = k
    BY <1>4, <1>8 DEF Counted
  <2>5. Apart(ip, s)'
    BY <2>4, <1>1, <1>8
  <2>6. Open(ip, s)'
    BY <1>2, <1>8
  <2> QED BY <2>3, <2>5, <2>6
\* The windows of ip that were there, when r opens another.
<1>9. ASSUME Opens(r), ip \notin overtaken', NEW s \in Nat, s + Window < k, Here(ip, s), Apart(ip, s)
      PROVE  Here(ip, s)' /\ Apart(ip, s)' /\ Open(ip, s)'
  <2>1. s # k
    BY <1>2, <1>9
  <2>2. Counted(ip, s)' = Counted(ip, s) /\ Counted(ip, s) \subseteq Passed
    BY <2>1, <1>1 DEF Counted
  <2>3. Here(ip, s)'
    BY <2>2, <1>1, <1>9
  <2>4. Apart(ip, s)'
    BY <1>1, <1>9
  <2>5. Open(ip, s)'
    BY <1>2, <1>9
  <2> QED BY <2>3, <2>4, <2>5
\* The window that r opens.
<1>10. ASSUME Opens(r), ip \notin overtaken'
       PROVE  Here(ip, k)' /\ Apart(ip, k)' /\ Open(ip, k)'
  <2>1. Here(ip, k)'
    <3>1. n \in Counted(ip, k)' /\ passed'[n].by = k
      BY <1>1, <1>2, <1>10
    <3> QED BY <3>1, <1>3, <1>10
  <2>2. \A j \in Passed : passed[j].address = ip => passed[j].start + Window < k
    BY <1>0, <1>2, <1>10, OpensLater
  <2>3. Apart(ip, k)'
    BY <2>2, <1>1
  <2>4. Open(ip, k)'
    BY <1>2
  <2> QED BY <2>1, <2>3, <2>4
<1> HIDE DEF Here, Apart, Open
<1>11. ASSUME NEW i \in Passed', passed'[i].address \notin overtaken', NEW a, a = passed'[i].address,
              NEW s, s = passed'[i].start
       PROVE  Here(a, s)' /\ Apart(a, s)' /\ Open(a, s)'
  <2>1. CASE i \in Passed /\ a # ip
    <3>1. a = passed[i].address /\ s = passed[i].start /\ a \in Address /\ a \notin overtaken'
      BY <2>1, <1>1, <1>5, <1>11
    <3>2. Here(a, s) /\ Apart(a, s) /\ Open(a, s)
      BY <3>1, <2>1, <1>6
    <3> QED BY <3>1, <3>2, <2>1, <1>7
  <2>2. CASE i \in Passed /\ a = ip
    <3>1. a = passed[i].address /\ s = passed[i].start /\ s \in Nat /\ a \notin overtaken'
      BY <2>2, <1>1, <1>5, <1>11
    <3>2. Here(ip, s) /\ Apart(ip, s) /\ Open(ip, s)
      BY <3>1, <2>2, <1>6
    <3>3. CASE Opens(r)
      <4>1. s + Window < k
        BY <3>1, <3>3, <2>2, <1>0, <1>2, OpensLater
      <4> QED BY <4>1, <3>1, <3>2, <3>3, <2>2, <1>9
    <3>4. CASE ~Opens(r)
      BY <3>1, <3>2, <3>4, <2>2, <1>8
    <3> QED BY <3>3, <3>4
  <2>3. CASE i = n
    <3>1. a = ip /\ s = k /\ ip \notin overtaken'
      BY <2>3, <1>1, <1>11
    <3>2. CASE Opens(r)
      BY <3>1, <3>2, <1>10
    <3>3. CASE ~Opens(r)
      <4>1. PICK e \in Passed : passed[e].address = ip /\ passed[e].start = k
        BY <3>3, <1>4 DEF Counted
      <4>2. Here(ip, k) /\ Apart(ip, k) /\ Open(ip, k)
        BY <4>1, <3>1, <1>6
      <4> QED BY <4>2, <3>1, <3>3, <1>8
    <3> QED BY <3>2, <3>3
  <2> QED BY <2>1, <2>2, <2>3, <1>1
<1> QED BY <1>11 DEF Spaced, Here, Apart, Open

\* A request that is let through leaves the invariant as it was.
LEMMA AdmitLInv ==
    ASSUME LInv, IsFiniteSet(Request), NEW r \in Request, CountRequest(r),
           admits(counted(address[r], stamp[r]).count)
    PROVE  LInv'
<1>t. TypeOK
  BY DEF LInv
<1>0. PICK ip, k, n : ip = address[r] /\ k = counted(ip, stamp[r]).start /\ n = Len(passed) + 1
  OBVIOUS
<1>1. /\ n \notin Passed /\ Passed' = Passed \cup {n}
      /\ passed'[n].by = stamp[r] /\ passed'[n].at = now /\ passed'[n].start = k
      /\ \A i \in Passed : passed'[i] = passed[i]
      /\ stage'[r] = "admitted"
  BY <1>0, AdmitLog
<1>2. /\ ip \in Address /\ stamp[r] \in Nat /\ stamp[r] <= now /\ k \in Nat /\ k <= now
      /\ Opens(r) => k = stamp[r]
      /\ ~Opens(r) => k = clients[ip].start /\ stamp[r] <= clients[ip].start + Window
      /\ \A q \in Request \ {r} : stage'[q] = stage[q] /\ stamp'[q] = stamp[q]
      /\ UNCHANGED <<now, address>>
  BY <1>0, Section
<1>3. TypeOK' /\ Clock' /\ Filled' /\ Spaced' /\ Slow'
  BY CountTypeOK, AdmitFilled, AdmitSpaced, AdmitSlow
<1>4. Recorded'
  <2>1. stamp[r] <= k + Window /\ now \in Nat
    BY <1>2, <1>t DEF TypeOK
  <2> QED BY <2>1, <1>1, <1>2 DEF LInv, Recorded
<1>5. RefusedForCause'
  <2> SUFFICES ASSUME NEW q \in Request, stage'[q] = "refused"
               PROVE  Cardinality({i \in Passed' : /\ passed'[i].address = address'[q]
                                                   /\ passed'[i].at >= stamp'[q] - Window}) >= Limit
    BY DEF RefusedForCause, Passed
  <2> DEFINE A == {i \in Passed : passed[i].address = address[q] /\ passed[i].at >= stamp[q] - Window}
             B == {i \in Passed' : passed'[i].address = address'[q] /\ passed'[i].at >= stamp'[q] - Window}
  <2>1. q # r /\ stage[q] = "refused" /\ stamp'[q] = stamp[q] /\ address'[q] = address[q]
    BY <1>1, <1>2
  <2>2. Cardinality(A) >= Limit
    BY <2>1 DEF LInv, RefusedForCause, Passed
  <2>3. A \subseteq B /\ B \subseteq Passed' /\ A \subseteq Passed
    BY <2>1, <1>1
  <2>4. IsFiniteSet(Passed) /\ IsFiniteSet(Passed \cup {n})
    <3>1. IsFiniteSet(Passed)
      BY <1>t, Finite
    <3> QED BY <3>1, OneMore
  <2> HIDE DEF A, B
  <2>5. IsFiniteSet(B)
    BY <2>3, <2>4, <1>1, FS_Subset
  <2>6. Cardinality(A) \in Nat /\ Cardinality(B) \in Nat /\ Cardinality(A) <= Cardinality(B)
    BY <2>3, <2>5, Part
  <2>7. Cardinality(B) >= Limit
    BY <2>2, <2>6
  <2> QED BY <2>7 DEF B
<1> QED BY <1>3, <1>4, <1>5 DEF LInv

\* Every step of the limiter does.
LEMMA NextLInv ==
    ASSUME LInv, [Next]_limiterVars, IsFiniteSet(Request)
    PROVE  LInv'
<1>1. CASE Tick
  BY <1>1, TickLInv
<1>2. CASE Sweep
  BY <1>2, SweepLInv
<1>3. ASSUME NEW r \in Request, CountRequest(r)
      PROVE  LInv'
  BY <1>3, RefuseLInv, AdmitLInv
<1>4. ASSUME NEW r \in Request, NEW o \in Origin, ReadClock(r, o)
      PROVE  LInv'
  BY <1>4, ReadClockLInv
<1>5. CASE UNCHANGED limiterVars
  <2>1. UNCHANGED <<now, stage, address, stamp, clients, requests, passed, swept, overtaken>>
    BY <1>5 DEF limiterVars
  <2>2. Passed' = Passed
    BY <2>1 DEF Passed
  <2>3. \A a, s : Counted(a, s)' = Counted(a, s) /\ Late(a, s)' = Late(a, s) /\ Pending(a, s)' = Pending(a, s)
    BY <2>1, <2>2 DEF Counted, Late, Pending
  <2>4. TypeOK' /\ Clock' /\ Recorded' /\ RefusedForCause'
    BY <2>1, <2>2 DEF LInv, TypeOK, Clock, Recorded, RefusedForCause
  <2>5. Filled' /\ Spaced' /\ Slow'
    BY <2>1, <2>2, <2>3 DEF LInv, Filled, Spaced, Slow
  <2> QED BY <2>4, <2>5 DEF LInv
<1> QED BY <1>1, <1>2, <1>3, <1>4, <1>5 DEF Next

-----------------------------------------------------------------------------
(* What the limiter promises. *)

\* The windows of an address are spaced, filled from their start and recorded as
\* LInv says in every reachable state of the middleware (middleware.go:291-349), for
\* any number of requests at the same time.
THEOREM LimiterInductive ==
    ASSUME IsFiniteSet(Request) PROVE Spec => []LInv
<1>1. Init => LInv
  BY InitLInv
<1>2. LInv /\ [Next]_limiterVars => LInv'
  BY NextLInv
<1> QED BY <1>1, <1>2, PTL DEF Spec

\* Nobody gets 429 for the requests of others or for his own old ones (middleware.go:339).
THEOREM RefusedForCauseHolds ==
    ASSUME IsFiniteSet(Request) PROVE Spec => []RefusedForCause
<1>1. LInv => RefusedForCause
  BY DEF LInv
<1> QED BY <1>1, LimiterInductive, PTL

\* Windows of one address that start within their length of each other are the same
\* one (middleware.go:320).
LEMMA OneWindow ==
    ASSUME LInv, NEW i \in Passed, NEW j \in Passed, passed[i].address \notin overtaken,
           passed[i].address = passed[j].address, NEW t \in Int,
           passed[i].start \in t .. t + Window, passed[j].start \in t .. t + Window
    PROVE  passed[i].start = passed[j].start
<1>1. \/ passed[j].start = passed[i].start
      \/ passed[j].start + Window < passed[i].start
      \/ passed[i].start + Window < passed[j].start
  BY DEF LInv, Spaced
<1> QED BY <1>1

\* Those of a burst that were counted in windows that start before its end.
LEMMA InTime ==
    ASSUME LInv, IsFiniteSet(Request), Limit > 0, NEW a \in Address \ overtaken, NEW t \in Nat,
           NEW A, A = {i \in Passed : /\ passed[i].address = a /\ passed[i].by \in t .. t + Window
                                      /\ passed[i].start <= t + Window}
    PROVE  Cardinality(A) \in Nat /\ Cardinality(A) < 2 * Limit
<1>t. TypeOK
  BY DEF LInv
<1>n. \A i \in Passed : passed[i].by \in Nat /\ passed[i].start \in Nat
  BY <1>t, Logged
<1> DEFINE New == {i \in A : passed[i].start \in t .. t + Window}
           Old == {i \in A : passed[i].start \in t - Window .. t - 1}
<1>1. A = New \cup Old
  <2> SUFFICES ASSUME NEW i \in A PROVE i \in New \cup Old
    OBVIOUS
  <2>1. /\ i \in Passed /\ passed[i].by \in t .. t + Window /\ passed[i].start <= t + Window
        /\ passed[i].by \in Nat /\ passed[i].start \in Nat
    BY <1>n
  <2>2. passed[i].by <= passed[i].start + Window
    BY <2>1 DEF LInv, Recorded
  <2>3. passed[i].start \in t .. t + Window \/ passed[i].start \in t - Window .. t - 1
    BY <2>1, <2>2
  <2> QED BY <2>3
<1>2. A \subseteq Passed /\ New \subseteq Passed /\ Old \subseteq Passed
  OBVIOUS
<1>3. /\ IsFiniteSet(A) /\ IsFiniteSet(New) /\ IsFiniteSet(Old)
      /\ Cardinality(A) \in Nat /\ Cardinality(New) \in Nat /\ Cardinality(Old) \in Nat
  BY <1>2, <1>t, Finite
<1>4. \A i \in Passed : passed[i].address = a =>
         LET C == Counted(a, passed[i].start)
         IN /\ IsFiniteSet(C) /\ Cardinality(C) \in Nat /\ Cardinality(C) <= Limit
            /\ \E j \in C : passed[j].by = passed[i].start
  <2>1. \A s : Counted(a, s) \subseteq Passed
    BY DEF Counted
  <2>2. \A s : IsFiniteSet(Counted(a, s)) /\ Cardinality(Counted(a, s)) \in Nat
    BY <2>1, <1>t, Finite
  <2> QED BY <2>2 DEF LInv, Spaced
<1>5. Cardinality(New) <= Limit
  <2>1. CASE New = {}
    BY <2>1, FS_EmptySet
  <2>2. CASE New # {}
    <3>1. PICK i \in New : TRUE
      BY <2>2
    <3>2. New \subseteq Counted(a, passed[i].start)
      <4> SUFFICES ASSUME NEW j \in New PROVE j \in Counted(a, passed[i].start)
        OBVIOUS
      <4>1. passed[j].start = passed[i].start
        BY <3>1, OneWindow
      <4> QED BY <4>1 DEF Counted
    <3> DEFINE C == Counted(a, passed[i].start)
    <3>3. IsFiniteSet(C) /\ Cardinality(C) \in Nat /\ Cardinality(C) <= Limit
      BY <3>1, <1>4
    <3> HIDE DEF C, New
    <3>4. Cardinality(New) <= Cardinality(C)
      BY <3>2, <3>3, Part DEF C
    <3> QED BY <3>3, <3>4, <1>3
  <2> QED BY <2>1, <2>2
<1>6. Cardinality(Old) < Limit
  <2>1. CASE Old = {}
    BY <2>1, FS_EmptySet
  <2>2. CASE Old # {}
    <3>1. PICK i \in Old : TRUE
      BY <2>2
    <3> DEFINE C == Counted(a, passed[i].start)
    <3>2. i \in Passed /\ passed[i].address = a /\ passed[i].start \in t - Window .. t - 1
      BY <3>1
    <3>3. IsFiniteSet(C) /\ Cardinality(C) \in Nat /\ Cardinality(C) <= Limit
      BY <3>2, <1>4
    <3>4. PICK o \in C : passed[o].by = passed[i].start
      BY <3>2, <1>4
    <3>5. o \notin Old
      BY <3>2, <3>4, <1>n
    <3>6. Old \subseteq C
      <4> SUFFICES ASSUME NEW j \in Old PROVE j \in C
        OBVIOUS
      <4>1. passed[j].start \in (t - Window) .. (t - Window) + Window
        OBVIOUS
      <4>2. passed[i].start \in (t - Window) .. (t - Window) + Window
        BY <3>2
      <4>3. t - Window \in Int /\ j \in Passed /\ passed[j].address = a
        OBVIOUS
      <4>4. passed[j].start = passed[i].start
        BY <4>1, <4>2, <4>3, <3>2, OneWindow
      <4> QED BY <4>3, <4>4 DEF Counted
    <3> HIDE DEF C, Old
    <3>7. Cardinality(Old) < Cardinality(C)
      BY <3>3, <3>4, <3>5, <3>6, Part
    <3> QED BY <3>3, <3>7, <1>3
  <2> QED BY <2>1, <2>2
<1> HIDE DEF New, Old
<1>7. Cardinality(New \cap Old) \in Nat
  <2>1. New \cap Old \subseteq New
    OBVIOUS
  <2> QED BY <2>1, <1>3, Part
<1>8. Cardinality(A) = Cardinality(New) + Cardinality(Old) - Cardinality(New \cap Old)
  BY <1>1, <1>3, FS_Union
<1> QED BY <1>3, <1>5, <1>6, <1>7, <1>8

\* A burst of one address (middleware.go:316-349): fewer than twice the limit in windows
\* that start before its end, and fewer late ones than requests at the same time.
LEMMA Burst ==
    ASSUME LInv, IsFiniteSet(Request)
    PROVE  BurstIsBounded
<1> SUFFICES ASSUME Limit > 0, NEW a \in Address \ overtaken, NEW t \in 0 .. now
             PROVE  Cardinality({i \in Passed : passed[i].address = a /\ passed[i].by \in t .. t + Window})
                      < 2 * Limit + Cardinality(Request) - 1
  BY DEF BurstIsBounded, Passed
<1>t. TypeOK
  BY DEF LInv
<1>0. t \in Nat
  BY <1>t DEF TypeOK
<1>1. PICK A : A = {i \in Passed : /\ passed[i].address = a /\ passed[i].by \in t .. t + Window
                                   /\ passed[i].start <= t + Window}
  OBVIOUS
<1> DEFINE B == {i \in Passed : passed[i].address = a /\ passed[i].by \in t .. t + Window}
           L == Late(a, t + Window)
<1>2. Cardinality(A) \in Nat /\ Cardinality(A) < 2 * Limit
  BY <1>0, <1>1, InTime
<1>3. B \subseteq A \cup L
  <2> SUFFICES ASSUME NEW i \in B, i \notin A PROVE i \in L
    OBVIOUS
  <2>1. i \in Passed /\ passed[i].address = a /\ passed[i].by \in t .. t + Window /\ passed[i].start \in Nat
    BY <1>t, Logged
  <2>2. ~(passed[i].start <= t + Window)
    BY <2>1, <1>1
  <2> QED BY <2>1, <2>2, <1>0 DEF Late
<1>4. A \subseteq Passed /\ L \subseteq Passed /\ B \subseteq Passed
  BY <1>1 DEF Late
<1>5. /\ IsFiniteSet(A) /\ IsFiniteSet(L) /\ Cardinality(L) \in Nat
      /\ Cardinality(B) \in Nat /\ Cardinality(Request) \in Nat
  BY <1>4, <1>t, Finite
<1>6. Cardinality(L) < Cardinality(Request)
  <2>1. CASE L = {}
    <3>1. Cardinality(L) = 0
      BY <2>1, FS_EmptySet
    <3>2. Cardinality(Request) # 0
      BY OriginAssumption, FS_EmptySet
    <3> QED BY <3>1, <3>2, <1>5
  <2>2. CASE L # {}
    <3>1. PICK i \in Passed : passed[i].address = a /\ t + Window < passed[i].start
      BY <2>2 DEF Late
    <3>2. passed[i].start \in Nat
      BY <1>t, Logged
    <3>3. t + Window \in 0 .. passed[i].start - 1
      BY <3>1, <3>2, <1>0
    <3>4. Cardinality(L) + Cardinality(Pending(a, t + Window)) < Cardinality(Request)
      BY <3>1, <3>3 DEF LInv, Slow
    <3>5. Cardinality(Pending(a, t + Window)) \in Nat
      <4>1. Pending(a, t + Window) \subseteq Request
        BY DEF Pending
      <4> QED BY <4>1, <1>t, Finite
    <3> HIDE DEF L
    <3> QED BY <3>4, <3>5, <1>5
  <2> QED BY <2>1, <2>2
<1> HIDE DEF B, L
<1>7. /\ IsFiniteSet(A \cup L) /\ Cardinality(A \cap L) \in Nat
      /\ Cardinality(A \cup L) = Cardinality(A) + Cardinality(L) - Cardinality(A \cap L)
  <2>1. A \cap L \subseteq A
    OBVIOUS
  <2> QED BY <2>1, <1>5, Part, FS_Union
<1>8. Cardinality(B) <= Cardinality(A \cup L) /\ Cardinality(A \cup L) \in Nat
  BY <1>3, <1>7, Part
<1>9. Cardinality(B) < 2 * Limit + Cardinality(Request) - 1
  BY <1>2, <1>5, <1>6, <1>7, <1>8
<1> QED BY <1>9 DEF B

\* The bound on the bursts that are let through holds for every limit, every window
\* and every number of requests that are served at the same time (middleware.go:316-349).
THEOREM BurstIsBoundedHolds ==
    ASSUME IsFiniteSet(Request) PROVE Spec => []BurstIsBounded
<1>1. LInv => BurstIsBounded
  BY Burst
<1> QED BY <1>1, LimiterInductive, PTL
=============================================================================
