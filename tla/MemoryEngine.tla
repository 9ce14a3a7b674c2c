---------------------------- MODULE MemoryEngine ----------------------------
(***************************************************************************)
(* The server process when it runs without Redis: the submission handlers  *)
(* of pkg/api/submissions.go and the worker pool of pkg/queue/worker.go    *)
(* around one MemoryQueue, and the shutdown sequence of cmd/cee/server.go. *)
(*                                                                         *)
(* A request posts the jobs Jobs[r] and either waits for its only job      *)
(* (?wait=true) or answers with the tokens.  POST /submissions without     *)
(* wait and POST /submissions/batch have the same control: build every     *)
(* job, enqueue them in order, stop at the first refusal.                  *)
(***************************************************************************)
EXTENDS MemoryQueue

CONSTANTS
    Jobs,        \* Jobs[r]: the sequence of tokens request r submits
    Waits,       \* the requests that ask for ?wait=true
    Verdicts,    \* the statuses the executor may return
    Expecting,   \* the tokens submitted with an expected_output
    Rejected,    \* the tokens whose source the static scan rejects
    Callback,    \* the tokens submitted with a callback_url
    Impatient,   \* the requests whose client may disconnect
    Deletable,   \* the tokens somebody may DELETE
    Expirable,   \* the tokens that may outlive the TTL
    Stoppable    \* whether SIGINT or SIGTERM may arrive

ASSUME JobsAssumption ==
    /\ Jobs \in [Request -> Seq(Token)]
    /\ \A r \in Request : Len(Jobs[r]) > 0
    /\ \A r, s \in Request : \A i \in 1 .. Len(Jobs[r]), j \in 1 .. Len(Jobs[s]) :
            Jobs[r][i] = Jobs[s][j] => r = s /\ i = j
ASSUME WaitsAssumption ==
    Waits \subseteq Request /\ \A r \in Waits : Len(Jobs[r]) = 1
ASSUME StoppableAssumption == Stoppable \in BOOLEAN
ASSUME VerdictsAssumption == Verdicts \subseteq {s \in Status : IsFinished(s)}

VARIABLES
    idx,        \* idx[r]: the position in Jobs[r] the handler has reached
    cur,        \* cur[w]: the jobs worker w holds (none or one)
    gone,       \* the requests whose context is cancelled
    reply,      \* reply[r]: how r was answered ("none" while it is served)
    answer,     \* answer[r]: the status in the answer to a waiting request
    callback,   \* callback[t]: the goroutine that reports t to its callback_url
    phase,      \* the life of the process
    sent,       \* history: the tokens that entered the channel
    removed     \* history: the tokens deleted or evicted from the store

requestVars == <<idx, gone, reply, answer>>
engineVars  == <<requestVars, cur, callback, phase, sent, removed>>
vars        == <<queueVars, engineVars>>

HandlerLabel == {"Idle", "Build", "Enqueue", "EnqSend", "EnqCount", "EnqLoad", "EnqGauge",
                 "WaitCheck", "WaitRegister", "WaitRecheck", "WaitUnregister",
                 "WaitSelect", "WaitGet", "Replied"}
WorkerLabel  == {"Loop", "Dequeue", "DeqCount", "DeqProcessing", "DeqLoadSize",
                 "DeqGaugeSize", "DeqLoadProc", "DeqGaugeProc", "Start", "Execute",
                 "Finalize", "SigProcessing", "SigCount", "SigLoad", "SigGauge",
                 "SigStore", "SigNotify", "SigSend", "Exited"}
Reply == {"none", "invalid", "refused", "token", "ready", "signal", "timeout", "gone"}

\* The token the handler of r is at.
Tok(r) == Jobs[r][idx[r]]

\* The context of the worker pool is done.
Cancelled == phase \in {"stopping", "closed"}

Init ==
    /\ QueueInit
    /\ pc = [p \in Thread |-> IF p \in Worker THEN "Loop" ELSE "Idle"]
    /\ idx = [r \in Request |-> 1] /\ gone = {}
    /\ reply = [r \in Request |-> "none"] /\ answer = [r \in Request |-> 0]
    /\ cur = [w \in Worker |-> {}]
    /\ callback = [t \in Token |-> "none"]
    /\ phase = "serving" /\ sent = {} /\ removed = {}

Respond(r, how, s) ==
    /\ reply' = [reply EXCEPT ![r] = how]
    /\ answer' = [answer EXCEPT ![r] = s]

-----------------------------------------------------------------------------
(* The handlers: CreateSubmission and CreateBatchSubmission. *)

\* server.Shutdown closes the listener first: requests arrive while serving.
Receive(r) ==
    /\ phase = "serving" /\ pc[r] = "Idle"
    /\ Goto(r, "Build")
    /\ UNCHANGED <<content, signals, counters, gauges, reg, engineVars>>

\* Undecodable body, batch of 0 or more than 20, or buildJobFromRequest fails
\* for one of the jobs: 422, and no job of the request is enqueued.
RejectRequest(r) ==
    /\ pc[r] = "Build"
    /\ Goto(r, "Replied") /\ Respond(r, "invalid", 0)
    /\ UNCHANGED <<content, signals, counters, gauges, reg, idx, gone, cur, callback, phase, sent, removed>>

BuildJobs(r) ==
    /\ pc[r] = "Build"
    /\ Goto(r, "Enqueue")
    /\ UNCHANGED <<content, signals, counters, gauges, reg, engineVars>>

HandlerStore(r) == EnqueueStore(r, Tok(r)) /\ UNCHANGED engineVars

HandlerSend(r) ==
    /\ EnqueueSend(r, Tok(r))
    /\ sent' = sent \cup {Tok(r)}
    /\ UNCHANGED <<requestVars, cur, callback, phase, removed>>

\* Variant: the error of Enqueue is dropped and the tokens are answered.
HandlerIgnoresRefusal(r) ==
    /\ EnqueueRefused(r, r \in gone)
    /\ Respond(r, "token", 0)
    /\ UNCHANGED <<idx, gone, cur, callback, phase, sent, removed>>

HandlerRefused(r) ==
    /\ EnqueueRefused(r, r \in gone)
    /\ Respond(r, "refused", 0)
    /\ UNCHANGED <<idx, gone, cur, callback, phase, sent, removed>>

HandlerCount(r) == EnqueueCount(r) /\ UNCHANGED engineVars
HandlerLoad(r)  == EnqueueLoad(r) /\ UNCHANGED engineVars

\* Enqueue returns: on to the next job of the batch, ...
HandlerNextJob(r) ==
    /\ idx[r] < Len(Jobs[r])
    /\ EnqueueGauge(r, "Enqueue")
    /\ idx' = [idx EXCEPT ![r] = @ + 1]
    /\ UNCHANGED <<gone, reply, answer, cur, callback, phase, sent, removed>>

\* ... or wait for the result, or answer with the tokens.
HandlerAwaits(r) ==
    /\ idx[r] = Len(Jobs[r]) /\ r \in Waits
    /\ EnqueueGauge(r, "WaitCheck")
    /\ UNCHANGED engineVars

HandlerTokens(r) ==
    /\ idx[r] = Len(Jobs[r]) /\ r \notin Waits
    /\ EnqueueGauge(r, "Replied")
    /\ Respond(r, "token", 0)
    /\ UNCHANGED <<idx, gone, cur, callback, phase, sent, removed>>

HandlerReady(r) ==
    /\ WaitCheckFinished(r, Tok(r))
    /\ Respond(r, "ready", Seen(Tok(r)))
    /\ UNCHANGED <<idx, gone, cur, callback, phase, sent, removed>>

HandlerPending(r) == WaitCheckPending(r, Tok(r)) /\ UNCHANGED engineVars
HandlerRegister(r) == WaitRegister(r, Tok(r)) /\ UNCHANGED engineVars

HandlerRecheckFinished(r) ==
    /\ WaitRecheckFinished(r, Tok(r))
    /\ answer' = [answer EXCEPT ![r] = Seen(Tok(r))]
    /\ UNCHANGED <<idx, gone, reply, cur, callback, phase, sent, removed>>

HandlerRecheckPending(r) == WaitRecheckPending(r, Tok(r)) /\ UNCHANGED engineVars

HandlerUnregister(r) ==
    /\ WaitUnregister(r, Tok(r))
    /\ reply' = [reply EXCEPT ![r] = "ready"]
    /\ UNCHANGED <<idx, gone, answer, cur, callback, phase, sent, removed>>

HandlerSignalled(r) ==
    /\ WaitReceive(r, Tok(r))
    /\ Respond(r, "signal", mailbox[Tok(r)])
    /\ UNCHANGED <<idx, gone, cur, callback, phase, sent, removed>>

\* The 30 second timer: give up, look once more, and answer with whatever is
\* there, or with the handler's own job object when the entry is gone.
HandlerTimeout(r) == WaitGiveUp(r, Tok(r), "WaitGet") /\ UNCHANGED engineVars

HandlerLastLook(r) ==
    /\ WaitLastLook(r)
    /\ Respond(r, "timeout", IF Seen(Tok(r)) = 0 THEN status[Tok(r)] ELSE Seen(Tok(r)))
    /\ UNCHANGED <<idx, gone, cur, callback, phase, sent, removed>>

HandlerAbandoned(r) ==
    /\ r \in gone
    /\ WaitGiveUp(r, Tok(r), "Replied")
    /\ Respond(r, "gone", status[Tok(r)])
    /\ UNCHANGED <<idx, gone, cur, callback, phase, sent, removed>>

\* The client disconnects: net/http cancels the request's context.
ClientGone(r) ==
    /\ r \in Impatient \ gone /\ pc[r] \notin {"Idle", "Replied"}
    /\ gone' = gone \cup {r}
    /\ UNCHANGED <<queueVars, idx, reply, answer, cur, callback, phase, sent, removed>>

\* Everything a handler does by itself; the timer and the client are apart.
Handler(r) ==
    \/ RejectRequest(r) \/ BuildJobs(r)
    \/ HandlerStore(r) \/ HandlerSend(r) \/ HandlerRefused(r)
    \/ HandlerCount(r) \/ HandlerLoad(r) \/ HandlerNextJob(r)
    \/ HandlerAwaits(r) \/ HandlerTokens(r)
    \/ HandlerReady(r) \/ HandlerPending(r) \/ HandlerRegister(r)
    \/ HandlerRecheckFinished(r) \/ HandlerRecheckPending(r) \/ HandlerUnregister(r)
    \/ HandlerSignalled(r) \/ HandlerAbandoned(r) \/ HandlerLastLook(r)

-----------------------------------------------------------------------------
(* The workers: workerLoop, processJob, finalizeJob. *)

\* Variant: a worker that finds the channel empty leaves.
WorkerLeavesWhenIdle(w) ==
    /\ pc[w] = "Loop"
    /\ Goto(w, IF Cancelled \/ jobs = <<>> THEN "Exited" ELSE "Dequeue")
    /\ UNCHANGED <<content, signals, counters, gauges, reg, engineVars>>

WorkerLoop(w) ==
    /\ pc[w] = "Loop"
    /\ Goto(w, IF Cancelled THEN "Exited" ELSE "Dequeue")
    /\ UNCHANGED <<content, signals, counters, gauges, reg, engineVars>>

\* Variant: an error of Dequeue is retried without a look at the context.
WorkerRetries(w) ==
    /\ pc[w] = "Dequeue" /\ Cancelled
    /\ Goto(w, "Dequeue")
    /\ UNCHANGED <<content, signals, counters, gauges, reg, engineVars>>

\* Variant: a worker drops the job it has just taken when the context is done.
WorkerDropsJob(w) ==
    /\ pc[w] \in {"Dequeue", "Start"} /\ Cancelled
    /\ Goto(w, "Exited")
    /\ cur' = [cur EXCEPT ![w] = {}]
    /\ UNCHANGED <<content, signals, counters, gauges, reg, requestVars, callback, phase, sent, removed>>

\* Dequeue with the context done: select may still take a job that is there.
WorkerCancelled(w) ==
    /\ pc[w] = "Dequeue" /\ Cancelled
    /\ Goto(w, "Exited")
    /\ UNCHANGED <<content, signals, counters, gauges, reg, engineVars>>

WorkerReceive(w) ==
    /\ DequeueReceive(w)
    /\ cur' = [cur EXCEPT ![w] = {Head(jobs)}]
    /\ UNCHANGED <<requestVars, callback, phase, sent, removed>>

WorkerDequeueSteps(w) ==
    /\ \/ DequeueCount(w) \/ DequeueProcessing(w)
       \/ DequeueLoadSize(w) \/ DequeueGaugeSize(w)
       \/ DequeueLoadProcessing(w) \/ DequeueGaugeProcessing(w, "Start")
    /\ UNCHANGED engineVars

\* Variant: the callback is started with the job, not after it.
StartJobAndCallback(w) ==
    /\ pc[w] = "Start"
    /\ \E t \in cur[w] :
          /\ status' = [status EXCEPT ![t] = StatusProcessing]
          /\ UpdateStore(t)
          /\ callback' = [callback EXCEPT ![t] = "pending"]
    /\ Goto(w, "Execute")
    /\ UNCHANGED <<jobs, closed, snap, signals, counters, gauges, reg, requestVars, cur, phase, sent, removed>>

\* SetStatus(Processing) and UpdateSubmission.  One step: a DELETE between the
\* two has the effect of a DELETE before them.
StartJob(w) ==
    /\ pc[w] = "Start"
    /\ \E t \in cur[w] :
          /\ status' = [status EXCEPT ![t] = StatusProcessing]
          /\ UpdateStore(t)
    /\ Goto(w, "Execute")
    /\ UNCHANGED <<jobs, closed, snap, signals, counters, gauges, reg, engineVars>>

\* One write of the verdict under the job's lock.
SetVerdict(w, t, s) ==
    /\ pc[w] = "Execute"
    /\ status' = [status EXCEPT ![t] = s]
    /\ Goto(w, "Finalize")
    /\ UNCHANGED <<jobs, closed, store, snap, signals, counters, gauges, reg, engineVars>>

ScanRejects(w) == \E t \in cur[w] \cap Rejected : SetVerdict(w, t, StatusCompilationError)

ExecuteFails(w) == \E t \in cur[w] \ Rejected : SetVerdict(w, t, StatusInternalError)

\* The executor's verdict stands, unless it is Accepted and CompareOutput says
\* that the output is not the expected one.
ExecuteReturns(w) ==
    \E t \in cur[w] \ Rejected, v \in Verdicts :
        \/ SetVerdict(w, t, v)
        \/ /\ t \in Expecting /\ v = StatusAccepted
           /\ SetVerdict(w, t, StatusWrongAnswer)

FinalizeJob(w) ==
    /\ pc[w] = "Finalize"
    /\ \E t \in cur[w] :
          callback' = [callback EXCEPT ![t] = IF t \in Callback THEN "pending" ELSE @]
    /\ Goto(w, "SigProcessing")
    /\ UNCHANGED <<content, signals, counters, gauges, reg, requestVars, cur, phase, sent, removed>>

WorkerSignalSteps(w) ==
    /\ \E t \in cur[w] :
          \/ SignalProcessing(w) \/ SignalCount(w, t)
          \/ SignalLoad(w) \/ SignalGauge(w) \/ SignalStore(w, t)
    /\ UNCHANGED engineVars

\* SignalCompleted returns, and with it processJob: the job is let go of.
WorkerNotify(w) ==
    \E t \in cur[w] :
        /\ SignalNotify(w, t, "Loop")
        /\ cur' = [cur EXCEPT ![w] = IF t \in listeners THEN @ ELSE {}]
        /\ UNCHANGED <<requestVars, callback, phase, sent, removed>>

WorkerSendResult(w) ==
    \E t \in cur[w] :
        /\ SignalSend(w, t, "Loop")
        /\ cur' = [cur EXCEPT ![w] = {}]
        /\ UNCHANGED <<requestVars, callback, phase, sent, removed>>

RunWorker(w) ==
    \/ WorkerLoop(w) \/ WorkerCancelled(w) \/ WorkerReceive(w) \/ WorkerDequeueSteps(w)
    \/ StartJob(w) \/ ScanRejects(w) \/ ExecuteFails(w) \/ ExecuteReturns(w)
    \/ FinalizeJob(w) \/ WorkerSignalSteps(w) \/ WorkerNotify(w) \/ WorkerSendResult(w)

-----------------------------------------------------------------------------
(* Callbacks, DELETE, TTL cleanup and the life of the process. *)

\* sendCallback: one PUT, or none (the URL is refused now, or the PUT fails).
SendCallback(t) ==
    /\ callback[t] = "pending"
    /\ \E end \in {"delivered", "dropped"} : callback' = [callback EXCEPT ![t] = end]
    /\ UNCHANGED <<queueVars, requestVars, cur, phase, sent, removed>>

\* Somebody outside has the token: from an answer, or from the callback.
Known(t) ==
    \/ callback[t] = "delivered"
    \/ \E r \in Request : /\ reply[r] \in {"token", "ready", "signal", "timeout"}
                          /\ \E i \in 1 .. Len(Jobs[r]) : Jobs[r][i] = t

DeleteSubmission(t) ==
    /\ t \in Deletable /\ Known(t)
    /\ RemoveEntry(t)
    /\ removed' = removed \cup {t}
    /\ UNCHANGED <<requestVars, cur, callback, phase, sent>>

Cleanup(t) ==
    /\ t \in Expirable
    /\ CleanupExpired(t)
    /\ removed' = removed \cup {t}
    /\ UNCHANGED <<requestVars, cur, callback, phase, sent>>

\* SIGINT or SIGTERM: Shutdown stops accepting and waits for the handlers ...
SigTerm ==
    /\ Stoppable
    /\ phase = "serving" /\ phase' = "draining"
    /\ UNCHANGED <<queueVars, requestVars, cur, callback, sent, removed>>

\* ... at most 10 seconds; then workerPool.Stop cancels the workers' context.
ShutdownReturns ==
    /\ phase = "draining" /\ phase' = "stopping"
    /\ UNCHANGED <<queueVars, requestVars, cur, callback, sent, removed>>

\* Variant: Stop does not wait for the workers.
CloseAtOnce ==
    /\ phase = "stopping"
    /\ phase' = "closed"
    /\ Close
    /\ UNCHANGED <<requestVars, cur, callback, sent, removed>>

\* wg.Wait returns, Stop returns, and q.Close runs.
CloseQueue ==
    /\ phase = "stopping" /\ \A w \in Worker : pc[w] = "Exited"
    /\ phase' = "closed"
    /\ Close
    /\ UNCHANGED <<requestVars, cur, callback, sent, removed>>

\* main returns: every goroutine that is left dies where it is.
ProcessExit ==
    /\ phase = "closed" /\ phase' = "exited"
    /\ UNCHANGED <<queueVars, requestVars, cur, callback, sent, removed>>

Alive == phase # "exited"

Terminated == ~Alive /\ UNCHANGED vars

Next ==
    \/ \E r \in Request : Alive /\ (Receive(r) \/ Handler(r) \/ HandlerTimeout(r) \/ ClientGone(r))
    \/ \E w \in Worker : Alive /\ RunWorker(w)
    \/ \E t \in Token : Alive /\ (SendCallback(t) \/ DeleteSubmission(t) \/ Cleanup(t))
    \/ SigTerm \/ ShutdownReturns \/ CloseQueue \/ ProcessExit
    \/ Terminated

Spec == Init /\ [][Next]_vars

\* The scheduler runs every goroutine that can run.  Nobody owes us a request,
\* a disconnection, a DELETE, a signal, or the end of a 30 second timer.
Fairness ==
    /\ \A r \in Request : WF_vars(Alive /\ Handler(r))
    /\ \A w \in Worker : WF_vars(Alive /\ RunWorker(w))
    /\ \A t \in Token : WF_vars(Alive /\ SendCallback(t))
    /\ WF_vars(ShutdownReturns) /\ WF_vars(CloseQueue) /\ WF_vars(ProcessExit)

FairSpec == Spec /\ Fairness
=============================================================================
