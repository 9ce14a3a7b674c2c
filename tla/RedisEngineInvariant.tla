------------------------ MODULE RedisEngineInvariant ------------------------
(***************************************************************************)
(* An inductive invariant of RedisEngine: what is known of a token at each *)
(* place of its way from the handler over the list to a worker, and at     *)
(* each place of the handler that waits for it.                            *)
(***************************************************************************)
EXTENDS RedisEngineProperties

\* The places of a worker without a token, with one it has not started, and with
\* one whose verdict is not stored.
Free    == {"Loop", "Pop", "Exited"}
Fetched == {"Get", "DeqGauge", "Start"}
Busy    == {"Execute", "Finalize", "SigSet"}

\* The places of a handler before its job is in the list, and of a waiting one
\* without and with a subscription.
Unsent     == {"Idle", "Build", "EnqSet", "EnqPush"}
Looking    == {"WaitCheck", "WaitSubscribe"}
Subscribed == {"WaitRecheck", "WaitSelect", "GetSignalled", "GetTimedOut"}

\* A worker has a token and a copy as its place says; a dead process has no workers.
Holds(w) ==
    /\ pc[w] \in WorkerLabel
    /\ pc[w] \in Free => cur[w] = {}
    /\ pc[w] \notin Free => \E t \in Token : cur[w] = {t}
    /\ pc[w] \in Free \cup {"Get"} => copy[w] = 0
    /\ pc[w] = "Execute" => copy[w] = StatusProcessing
    /\ pc[w] \in {"Finalize", "SigSet", "SigPublish"} => IsFinished(copy[w])
    /\ life[Home[w]] = "down" => pc[w] = "Exited"

\* Jobs are sent in their order.
SendsInOrder(r) ==
    /\ \A i \in 1 .. Len(Jobs[r]) : /\ i < idx[r] => Jobs[r][i] \in sent
                                    /\ i > idx[r] => Jobs[r][i] \notin sent
    /\ pc[r] \in Unsent => Tok(r) \notin sent
    /\ pc[r] \in {"EnqGauge"} \cup Looking \cup Subscribed => Tok(r) \in sent

\* What an answer, a subscription and a message say about the handler.
Stands(r) ==
    /\ pc[r] \in HandlerLabel
    /\ pc[r] \in Looking \cup Subscribed => idx[r] = Len(Jobs[r])
    /\ reply[r] # "none" <=> pc[r] = "Replied"
    /\ reply[r] \notin {"none", "invalid", "refused", "broken"} =>
           idx[r] = Len(Jobs[r]) /\ Tok(r) \in sent
    /\ subs[r] # "none" <=> pc[r] \in Subscribed
    /\ inbox[r] => pc[r] \in Subscribed \cup {"Replied"}
    /\ pc[r] = "GetSignalled" \/ reply[r] = "signal" => inbox[r]

\* Only tokens that entered the list are in it or with a worker.
Accounted ==
    /\ \A i \in 1 .. Len(list) : list[i] \in sent
    /\ \A w \in Worker : cur[w] \subseteq sent

\* No token has been pushed twice by go-redis.
Single == Retries = FALSE \/ faults = 0

\* What the key of the token of w can say: not more than the worker has done, and
\* without faults the verdict before it is announced.
Follows(w) ==
    \A t \in cur[w] :
        /\ pc[w] \in Fetched => key[t] \in {0, StatusInQueue}
        /\ pc[w] \in {"DeqGauge", "Start"} => copy[w] = StatusInQueue
        /\ pc[w] \in Busy => key[t] \in {0, StatusInQueue, StatusProcessing}
        /\ pc[w] = "SigPublish" =>
               /\ key[t] \in {0, StatusInQueue, StatusProcessing, copy[w]}
               /\ faults = 0 => key[t] \in {0, copy[w]}
               /\ faults = 0 /\ t \notin removed => key[t] = copy[w]

\* Nobody writes the key of t any more.
Settled(t) ==
    /\ t \in sent /\ ~Listed(t)
    /\ \A w \in Worker : t \in cur[w] => pc[w] = "SigPublish"

\* What a waiting handler was told about is settled.
Learns(r) ==
    /\ reply[r] = "ready" => /\ IsFinished(answer[r]) /\ key[Tok(r)] \in {0, answer[r]}
                             /\ Settled(Tok(r))
    /\ inbox[r] => Settled(Tok(r))
    /\ inbox[r] /\ faults = 0 /\ Tok(r) \notin removed => IsFinished(key[Tok(r)])
    /\ reply[r] = "signal" /\ faults = 0 /\ Tok(r) \notin removed => key[Tok(r)] = answer[r]

Workers   == \A w \in Worker : Holds(w)
SendOrder == \A r \in Request : SendsInOrder(r)
Handlers  == \A r \in Request : Stands(r)
Keys      == /\ \A t \in Token \ sent : key[t] \in {0, StatusInQueue}
             /\ \A w \in Worker : Follows(w)
Answers   == \A r \in Request : Learns(r)

\* A process is not stopped by itself.
Signals == \A n \in Node : life[n] \in {"draining", "stopping"} => stops > 0

RInv ==
    /\ TypeOK /\ Workers /\ SendOrder /\ Handlers /\ Accounted /\ Signals
    /\ Single => RunOnce /\ Keys /\ Answers
    /\ StartedIsFinished /\ UnfinishedIsInFlight /\ PublishedIsHeard
=============================================================================
