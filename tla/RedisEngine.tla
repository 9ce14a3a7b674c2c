----------------------------- MODULE RedisEngine -----------------------------
(***************************************************************************)
(* Server processes and standalone workers around one Redis: the handlers  *)
(* of pkg/api/submissions.go and the pools of pkg/queue/worker.go on a     *)
(* RedisQueue.  A process may be stopped with a signal (cmd/cee/server.go) *)
(* or die at any point, and be started again.                              *)
(*                                                                         *)
(* Unlike with the in-memory queue, a worker decodes a copy of the job:    *)
(* only the key in Redis carries its progress back to the handler.         *)
(***************************************************************************)
EXTENDS RedisQueue

CONSTANTS
    Jobs,        \* Jobs[r]: the sequence of tokens request r submits
    Waits,       \* the requests that ask for ?wait=true
    Verdicts,    \* the statuses the executor may return
    Callback,    \* the tokens submitted with a callback_url
    Impatient,   \* the requests whose client may disconnect
    Removable,   \* the tokens that may be deleted, or outlive their TTL
    MaxStops,    \* bound on the SIGTERMs sent
    MaxCrashes   \* bound on the processes killed

ASSUME RedisJobsAssumption ==
    /\ Jobs \in [Request -> Seq(Token)]
    /\ \A r \in Request : Len(Jobs[r]) > 0
    /\ \A r, s \in Request : \A i \in 1 .. Len(Jobs[r]), j \in 1 .. Len(Jobs[s]) :
            Jobs[r][i] = Jobs[s][j] => r = s /\ i = j
    /\ \A r \in Waits : Len(Jobs[r]) = 1
ASSUME RedisVerdictsAssumption == Verdicts \subseteq {s \in Status : IsFinished(s)}
ASSUME RedisBoundsAssumption == MaxStops \in Nat /\ MaxCrashes \in Nat

VARIABLES
    idx,         \* idx[r]: the position in Jobs[r] the handler has reached
    gone,        \* the requests whose context is cancelled
    reply,       \* reply[r]: how r was answered
    answer,      \* answer[r]: the status in the answer to a waiting request
    life,        \* life[n]: the life of process n
    stops,       \* the number of SIGTERMs so far
    crashes,     \* the number of crashes so far
    pending,     \* the callbacks under way, with the process that sends them
    delivered,   \* the tokens whose callback arrived
    sent,        \* history: the tokens that entered the list
    removed      \* history: the tokens whose key was deleted or expired

requestVars == <<idx, gone, reply, answer>>
nodeVars    == <<life, stops, crashes>>
engineVars  == <<requestVars, nodeVars, pending, delivered, sent, removed>>
vars        == <<redisVars, engineVars>>

HandlerLabel == {"Idle", "Build", "EnqSet", "EnqPush", "EnqGauge", "WaitCheck",
                 "WaitSubscribe", "WaitRecheck", "WaitSelect", "GetSignalled",
                 "GetTimedOut", "Replied"}
WorkerLabel  == {"Loop", "Pop", "Get", "DeqGauge", "Start", "Execute", "Finalize",
                 "SigSet", "SigPublish", "Exited"}
Reply == {"none", "invalid", "refused", "token", "ready", "signal", "timeout", "gone", "broken"}

Tok(r) == Jobs[r][idx[r]]

\* The context of the worker pool of w is done.
Cancelled(w) == life[Home[w]] = "stopping"

Init ==
    /\ RedisInit
    /\ pc = [p \in Thread |-> IF p \in Worker THEN "Loop" ELSE "Idle"]
    /\ idx = [r \in Request |-> 1] /\ gone = {}
    /\ reply = [r \in Request |-> "none"] /\ answer = [r \in Request |-> 0]
    /\ life = [n \in Node |-> "up"] /\ stops = 0 /\ crashes = 0
    /\ pending = {} /\ delivered = {} /\ sent = {} /\ removed = {}

Respond(r, how, s) ==
    /\ reply' = [reply EXCEPT ![r] = how]
    /\ answer' = [answer EXCEPT ![r] = s]

-----------------------------------------------------------------------------
(* The handlers. *)

Receive(r) ==
    /\ life[Home[r]] = "up" /\ pc[r] = "Idle"
    /\ Goto(r, "Build")
    /\ UNCHANGED <<list, key, subs, inbox, missed, gauge, faults, copy, cur, engineVars>>

RejectRequest(r) ==
    /\ pc[r] = "Build"
    /\ Goto(r, "Replied") /\ Respond(r, "invalid", 0)
    /\ UNCHANGED <<list, key, subs, inbox, missed, gauge, faults, copy, cur>>
    /\ UNCHANGED <<idx, gone, nodeVars, pending, delivered, sent, removed>>

BuildJobs(r) ==
    /\ pc[r] = "Build"
    /\ Goto(r, "EnqSet")
    /\ UNCHANGED <<list, key, subs, inbox, missed, gauge, faults, copy, cur, engineVars>>

HandlerSet(r) == r \notin gone /\ EnqueueSet(r, Tok(r)) /\ UNCHANGED engineVars

HandlerPush(r) ==
    /\ r \notin gone
    /\ EnqueuePush(r, Tok(r))
    /\ sent' = sent \cup {Tok(r)}
    /\ UNCHANGED <<requestVars, nodeVars, pending, delivered, removed>>

\* Variant: the error of Enqueue is dropped and the tokens are answered.
HandlerIgnoresRefusal(r) ==
    /\ r \in gone /\ pc[r] \in {"EnqSet", "EnqPush"}
    /\ Goto(r, "Replied") /\ Respond(r, "token", 0)
    /\ UNCHANGED <<list, key, subs, inbox, missed, gauge, faults, copy, cur, sent>>
    /\ UNCHANGED <<idx, gone, nodeVars, pending, delivered, removed>>

\* A command of Enqueue fails, at once when the request's context is done.
HandlerRefused(r) ==
    /\ \/ EnqueueSetFails(r, Tok(r)) /\ UNCHANGED sent
       \/ /\ EnqueuePushFails(r, Tok(r))
          /\ sent' = IF list' = list THEN sent ELSE sent \cup {Tok(r)}
       \/ /\ r \in gone /\ pc[r] \in {"EnqSet", "EnqPush"}
          /\ Goto(r, "Replied")
          /\ UNCHANGED <<list, key, subs, inbox, missed, gauge, faults, copy, cur, sent>>
    /\ Respond(r, "refused", 0)
    /\ UNCHANGED <<idx, gone, nodeVars, pending, delivered, removed>>

\* Variant: one job too many.
HandlerOneMoreJob(r) ==
    /\ idx[r] <= Len(Jobs[r])
    /\ UpdateMetrics(r, r \in gone, "EnqGauge", "EnqSet")
    /\ idx' = [idx EXCEPT ![r] = @ + 1]
    /\ UNCHANGED <<gone, reply, answer, nodeVars, pending, delivered, sent, removed>>

HandlerNextJob(r) ==
    /\ idx[r] < Len(Jobs[r])
    /\ UpdateMetrics(r, r \in gone, "EnqGauge", "EnqSet")
    /\ idx' = [idx EXCEPT ![r] = @ + 1]
    /\ UNCHANGED <<gone, reply, answer, nodeVars, pending, delivered, sent, removed>>

HandlerAwaits(r) ==
    /\ idx[r] = Len(Jobs[r]) /\ r \in Waits
    /\ UpdateMetrics(r, r \in gone, "EnqGauge", "WaitCheck")
    /\ UNCHANGED engineVars

HandlerTokens(r) ==
    /\ idx[r] = Len(Jobs[r]) /\ r \notin Waits
    /\ UpdateMetrics(r, r \in gone, "EnqGauge", "Replied")
    /\ Respond(r, "token", 0)
    /\ UNCHANGED <<idx, gone, nodeVars, pending, delivered, sent, removed>>

\* Variant: any key counts as a result.
HandlerLookFound(r) ==
    /\ pc[r] \in {"WaitCheck", "WaitRecheck"} /\ key[Tok(r)] # 0
    /\ Respond(r, "ready", key[Tok(r)])
    /\ subs' = [subs EXCEPT ![r] = "none"]
    /\ Goto(r, "Replied")
    /\ UNCHANGED <<list, key, inbox, missed, gauge, faults, copy, cur>>
    /\ UNCHANGED <<idx, gone, nodeVars, pending, delivered, sent, removed>>

\* The first and the second look.
HandlerLookFinished(r) ==
    /\ pc[r] \in {"WaitCheck", "WaitRecheck"}
    /\ \E s \in Status : Got(Tok(r), s) /\ IsFinished(s) /\ Respond(r, "ready", s)
    /\ subs' = [subs EXCEPT ![r] = "none"]
    /\ Goto(r, "Replied")
    /\ UNCHANGED <<list, key, inbox, missed, gauge, copy, cur>>
    /\ UNCHANGED <<idx, gone, nodeVars, pending, delivered, sent, removed>>

\* Variant: no second look.
HandlerSkipsLook(r) ==
    /\ \/ /\ pc[r] = "WaitCheck" /\ Goto(r, "WaitSubscribe")
          /\ \E s \in Status \cup {0} : Got(Tok(r), s) /\ ~IsFinished(s)
       \/ pc[r] = "WaitRecheck" /\ Goto(r, "WaitSelect") /\ UNCHANGED faults
    /\ UNCHANGED <<list, key, subs, inbox, missed, gauge, copy, cur, engineVars>>

HandlerLookPending(r) ==
    /\ \/ pc[r] = "WaitCheck" /\ Goto(r, "WaitSubscribe")
       \/ pc[r] = "WaitRecheck" /\ Goto(r, "WaitSelect")
    /\ \E s \in Status \cup {0} : Got(Tok(r), s) /\ ~IsFinished(s)
    /\ UNCHANGED <<list, key, subs, inbox, missed, gauge, copy, cur, engineVars>>

\* Variant: the handler stores its own job object again to renew the TTL.
HandlerRenews(r) ==
    /\ pc[r] = "WaitSubscribe"
    /\ key' = [key EXCEPT ![Tok(r)] = StatusInQueue]
    /\ subs' = [subs EXCEPT ![r] = "sent"]
    /\ Goto(r, "WaitRecheck")
    /\ UNCHANGED <<list, inbox, missed, gauge, faults, copy, cur, engineVars>>

HandlerSubscribe(r) == WaitSubscribe(r) /\ UNCHANGED engineVars

HandlerSignalled(r) == inbox[r] /\ WaitWake(r, "GetSignalled") /\ UNCHANGED engineVars

\* Variant: no timer.
HandlerWaitsForever(r) == inbox[r] /\ WaitWake(r, "GetTimedOut") /\ UNCHANGED engineVars

HandlerTimeout(r) == WaitWake(r, "GetTimedOut") /\ UNCHANGED engineVars

\* The GET after the select; its answer, or else the handler's own job object,
\* which still says In Queue.
HandlerLastLook(r) ==
    /\ pc[r] \in {"GetSignalled", "GetTimedOut"}
    /\ \E s \in Status \cup {0} :
          /\ Got(Tok(r), s)
          /\ Respond(r, IF pc[r] = "GetSignalled" THEN "signal" ELSE "timeout",
                        IF s = 0 THEN StatusInQueue ELSE s)
    /\ subs' = [subs EXCEPT ![r] = "none"]
    /\ Goto(r, "Replied")
    /\ UNCHANGED <<list, key, inbox, missed, gauge, copy, cur>>
    /\ UNCHANGED <<idx, gone, nodeVars, pending, delivered, sent, removed>>

\* ctx.Done in the select, or any command under the cancelled context.
HandlerAbandoned(r) ==
    /\ r \in gone
    /\ pc[r] \in {"WaitCheck", "WaitSubscribe", "WaitRecheck", "WaitSelect",
                  "GetSignalled", "GetTimedOut"}
    /\ subs' = [subs EXCEPT ![r] = "none"]
    /\ Goto(r, "Replied") /\ Respond(r, "gone", StatusInQueue)
    /\ UNCHANGED <<list, key, inbox, missed, gauge, faults, copy, cur>>
    /\ UNCHANGED <<idx, gone, nodeVars, pending, delivered, sent, removed>>

ClientGone(r) ==
    /\ r \in Impatient \ gone /\ pc[r] \notin {"Idle", "Replied"}
    /\ gone' = gone \cup {r}
    /\ UNCHANGED <<redisVars, idx, reply, answer, nodeVars, pending, delivered, sent, removed>>

Handler(r) ==
    \/ RejectRequest(r) \/ BuildJobs(r) \/ HandlerSet(r) \/ HandlerPush(r) \/ HandlerRefused(r)
    \/ HandlerNextJob(r) \/ HandlerAwaits(r) \/ HandlerTokens(r)
    \/ HandlerLookFinished(r) \/ HandlerLookPending(r) \/ HandlerSubscribe(r)
    \/ HandlerSignalled(r) \/ HandlerLastLook(r) \/ HandlerAbandoned(r)

-----------------------------------------------------------------------------
(* The workers. *)

\* Variant: the context is not looked at.
WorkerIgnoresStop(w) ==
    /\ pc[w] = "Loop"
    /\ Goto(w, "Pop")
    /\ UNCHANGED <<list, key, subs, inbox, missed, gauge, faults, copy, cur, engineVars>>

WorkerLoop(w) ==
    /\ pc[w] = "Loop"
    /\ Goto(w, IF Cancelled(w) THEN "Exited" ELSE "Pop")
    /\ UNCHANGED <<list, key, subs, inbox, missed, gauge, faults, copy, cur, engineVars>>

\* A BRPOP that is in flight when the context is cancelled runs to its end.
WorkerDequeue(w) ==
    /\ \/ DequeuePop(w) \/ DequeueNothing(w, Cancelled(w))
       \/ DequeueGet(w, Cancelled(w)) \/ DequeueDrop(w, Cancelled(w))
       \/ UpdateMetrics(w, Cancelled(w), "DeqGauge", "Start")
    /\ UNCHANGED engineVars

StartJob(w) ==
    /\ pc[w] = "Start"
    /\ copy' = [copy EXCEPT ![w] = StatusProcessing]
    /\ \E t \in cur[w] : UpdateSubmission(w, t, Cancelled(w))
    /\ Goto(w, "Execute")
    /\ UNCHANGED <<list, subs, inbox, missed, gauge, cur, engineVars>>

\* The scan, the executor and the comparison of outputs settle on a status.
ExecuteJob(w) ==
    /\ pc[w] = "Execute"
    /\ \E s \in Verdicts \cup {StatusInternalError} : copy' = [copy EXCEPT ![w] = s]
    /\ Goto(w, "Finalize")
    /\ UNCHANGED <<list, key, subs, inbox, missed, gauge, faults, cur, engineVars>>

FinalizeJob(w) ==
    /\ pc[w] = "Finalize"
    /\ pending' = pending \cup {<<Home[w], t>> : t \in cur[w] \cap Callback}
    /\ Goto(w, "SigSet")
    /\ UNCHANGED <<list, key, subs, inbox, missed, gauge, faults, copy, cur>>
    /\ UNCHANGED <<requestVars, nodeVars, delivered, sent, removed>>

WorkerSignal(w) ==
    /\ SignalSet(w) \/ SignalPublish(w, {r \in Request : Tok(r) \in cur[w]})
    /\ UNCHANGED engineVars

RunWorker(w) ==
    \/ WorkerLoop(w) \/ WorkerDequeue(w) \/ StartJob(w)
    \/ ExecuteJob(w) \/ FinalizeJob(w) \/ WorkerSignal(w)

-----------------------------------------------------------------------------
(* Callbacks, DELETE, TTL and the processes. *)

SendCallback(n, t) ==
    /\ <<n, t>> \in pending
    /\ pending' = pending \ {<<n, t>>}
    /\ delivered' \in {delivered, delivered \cup {t}}
    /\ UNCHANGED <<redisVars, requestVars, nodeVars, sent, removed>>

\* DELETE of a token somebody knows, or the end of the TTL.
RemoveSubmission(t) ==
    /\ t \in Removable
    /\ DropKey(t)
    /\ removed' = removed \cup {t}
    /\ UNCHANGED <<requestVars, nodeVars, pending, delivered, sent>>

SigTerm(n) ==
    /\ life[n] = "up" /\ stops < MaxStops
    /\ life' = [life EXCEPT ![n] = "draining"] /\ stops' = stops + 1
    /\ UNCHANGED <<redisVars, requestVars, crashes, pending, delivered, sent, removed>>

ShutdownReturns(n) ==
    /\ life[n] = "draining" /\ life' = [life EXCEPT ![n] = "stopping"]
    /\ UNCHANGED <<redisVars, requestVars, stops, crashes, pending, delivered, sent, removed>>

\* Process n is no more: its workers, its handlers and its callbacks end where
\* they are.
Vanish(n) ==
    /\ life' = [life EXCEPT ![n] = "down"]
    /\ pc' = [p \in Thread |->
                IF Home[p] # n THEN pc[p]
                ELSE IF p \in Worker THEN "Exited"
                ELSE IF pc[p] = "Idle" THEN "Idle" ELSE "Replied"]
    /\ reply' = [r \in Request |->
                IF Home[r] = n /\ pc[r] \notin {"Idle", "Replied"} THEN "broken" ELSE reply[r]]
    /\ subs' = [r \in Request |-> IF Home[r] = n THEN "none" ELSE subs[r]]
    /\ cur' = [w \in Worker |-> IF Home[w] = n THEN {} ELSE cur[w]]
    /\ copy' = [w \in Worker |-> IF Home[w] = n THEN 0 ELSE copy[w]]
    /\ gauge' = [gauge EXCEPT ![n] = 0]
    /\ pending' = {c \in pending : c[1] # n}
    /\ UNCHANGED <<list, key, inbox, missed, faults, idx, gone, answer, stops, delivered, sent,
                   removed>>

\* Variant: Stop does not wait for the workers.
ExitAtOnce(n) ==
    /\ life[n] = "stopping"
    /\ Vanish(n)
    /\ UNCHANGED crashes

\* Stop has seen all workers leave; q.Close and the end of main.
ProcessExit(n) ==
    /\ life[n] = "stopping" /\ \A w \in Worker : Home[w] = n => pc[w] = "Exited"
    /\ Vanish(n)
    /\ UNCHANGED crashes

Crash(n) ==
    /\ life[n] # "down" /\ crashes < MaxCrashes
    /\ Vanish(n)
    /\ crashes' = crashes + 1

Restart(n) ==
    /\ life[n] = "down"
    /\ life' = [life EXCEPT ![n] = "up"]
    /\ pc' = [p \in Thread |-> IF p \in Worker /\ Home[p] = n THEN "Loop" ELSE pc[p]]
    /\ UNCHANGED <<list, key, subs, inbox, missed, gauge, faults, copy, cur>>
    /\ UNCHANGED <<requestVars, stops, crashes, pending, delivered, sent, removed>>

Next ==
    \/ \E r \in Request : \/ Receive(r) \/ Handler(r) \/ HandlerTimeout(r) \/ ClientGone(r)
                          \/ SubscribeTakesEffect(r) /\ UNCHANGED engineVars
    \/ \E w \in Worker : RunWorker(w)
    \/ \E t \in Token : RemoveSubmission(t) \/ \E n \in Node : SendCallback(n, t)
    \/ \E n \in Node : \/ SigTerm(n) \/ ShutdownReturns(n) \/ ProcessExit(n)
                       \/ Crash(n) \/ Restart(n)

Spec == Init /\ [][Next]_vars

\* The scheduler, Redis, the 30 second timer and the 10 seconds of Shutdown come
\* round.  Nobody owes us a request, a removal, a signal or a restart.
Fairness ==
    /\ \A r \in Request : WF_vars(Handler(r)) /\ WF_vars(HandlerTimeout(r))
    /\ \A w \in Worker : WF_vars(RunWorker(w))
    /\ \A n \in Node : WF_vars(ShutdownReturns(n)) /\ WF_vars(ProcessExit(n))

FairSpec == Spec /\ Fairness
=============================================================================
