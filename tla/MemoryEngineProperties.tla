----------------------- MODULE MemoryEngineProperties -----------------------
(***************************************************************************)
(* What the process without Redis promises its clients.                    *)
(***************************************************************************)
EXTENDS MemoryEngine

TypeOK ==
    /\ QueueTypeOK
    /\ pc \in [Thread -> HandlerLabel \cup WorkerLabel]
    /\ idx \in [Request -> Nat]
    /\ \A r \in Request : idx[r] \in 1 .. Len(Jobs[r])
    /\ cur \in [Worker -> SUBSET Token]
    /\ gone \subseteq Request
    /\ reply \in [Request -> Reply] /\ answer \in [Request -> Status \cup {0}]
    /\ callback \in [Token -> {"none", "pending", "delivered", "dropped"}]
    /\ phase \in {"serving", "draining", "stopping", "closed", "exited"}
    /\ sent \subseteq Token /\ removed \subseteq Token

Queued(t) == \E i \in 1 .. Len(jobs) : jobs[i] = t
Held(t)   == \E w \in Worker : t \in cur[w]
Done(t)   == IsFinished(status[t]) /\ snap[t] = status[t]

\* A job that entered the channel (memory.go:98) is there once, or with one
\* worker, or finished with its result recorded: no interleaving of handlers
\* and workers loses it, doubles it, or gives it to two workers, and one that
\* waits in the channel has not been run.
ExactlyOnce ==
    /\ \A i, j \in 1 .. Len(jobs) : jobs[i] = jobs[j] => i = j
    /\ \A v, w \in Worker : cur[v] \cap cur[w] # {} => v = w
    /\ \A w \in Worker : \A t \in cur[w] : ~Queued(t)
    /\ \A t \in Token : Queued(t) => t \in sent /\ status[t] = StatusInQueue
    /\ \A t \in sent : Queued(t) \/ Held(t) \/ Done(t)

\* An answer that is not an error covers every job of the request: a client
\* that got tokens or a result (submissions.go:46, 48, 112) has no job that
\* the queue refused or never saw.
AcknowledgedWasSent ==
    \A r \in Request : reply[r] \notin {"none", "invalid", "refused"} =>
        \A i \in 1 .. Len(Jobs[r]) : Jobs[r][i] \in sent

\* A handler blocked in WaitForResult (memory.go:201) on a job that is over
\* has its result in the channel: the look after registering the listener and
\* the store before the notification leave no window.  (A job whose entry was
\* deleted or evicted in between is the exception.)
NoLostWakeup ==
    \A r \in Request :
        /\ pc[r] = "WaitSelect"
        /\ Tok(r) \notin removed
        /\ IsFinished(status[Tok(r)]) /\ ~Held(Tok(r))
        => mailbox[Tok(r)] # 0

\* What ?wait=true answers before its timer is the job's final verdict, by
\* whichever of its three ways the handler learnt of it (memory.go:187, 195, 203).
AnswersAreFinal ==
    \A r \in Request : reply[r] \in {"ready", "signal"} =>
        IsFinished(answer[r]) /\ answer[r] = status[Tok(r)]

\* Every listener in the map belongs to a handler that still waits: timeouts,
\* disconnections and results that come at the same time leak none.
ListenersOwned ==
    \A t \in listeners : \E r \in Request :
        Tok(r) = t /\ pc[r] \in {"WaitRecheck", "WaitUnregister", "WaitSelect"}

Handlers(labels) == {r \in Request : pc[r] \in labels}
Workers(labels)  == {w \in Worker : pc[w] \in labels}

\* The counters of GetStats count what they say, up to the goroutines that
\* stand between a channel or status operation and the counter that goes with
\* it: nothing drifts, whatever the interleaving.
StatsExact ==
    /\ inQueue = Len(jobs) - Cardinality(Handlers({"EnqCount"}))
                           + Cardinality(Workers({"DeqCount"}))
    /\ processing = Cardinality(Workers({"DeqLoadSize", "DeqGaugeSize", "DeqLoadProc",
                        "DeqGaugeProc", "Start", "Execute", "Finalize", "SigProcessing"}))
    /\ completed + failed = Cardinality({t \in sent : IsFinished(status[t])})
                           - Cardinality(Workers({"Finalize", "SigProcessing", "SigCount"}))

\* Whoever is told of a result by the callback finds that result with
\* GET /submissions/{token}, unless the entry was deleted or evicted: the
\* callback goroutine (worker.go:167) overtakes SignalCompleted, never the verdict.
CallbackSeesResult ==
    \A t \in Token \ removed : callback[t] # "none" =>
        IsFinished(Seen(t)) /\ Seen(t) = status[t]

\* A submission that GET shows as queued or processing is on its way, or was
\* refused by the queue: no other way leaves it unfinished (memory.go:95, worker.go:93).
UnfinishedIsInFlight ==
    \A t \in Token : Seen(t) # 0 /\ ~IsFinished(Seen(t)) =>
        \/ Queued(t) \/ Held(t)
        \/ \E r \in Request : Tok(r) = t /\ (pc[r] = "EnqSend" \/ reply[r] = "refused")

\* The queue closes (memory.go:213) only over jobs that never started: a job
\* that a worker took is finished and stored before, even one that select gave
\* the worker after the cancellation.
StartedIsFinished ==
    closed => \A t \in sent : Queued(t) \/ Done(t)

\* What a reader of the store sees of a submission only moves forward, and a
\* verdict once seen is never replaced, although two objects (the job and its
\* snapshot) take turns behind the entry.
FinalIsFinal ==
    [][\A t \in Token : Seen(t) # 0 /\ Seen(t)' # 0 =>
            /\ Stage(Seen(t)) <= Stage(Seen(t)')
            /\ IsFinished(Seen(t)) => Seen(t)' = Seen(t)]_vars

\* Unless the process is told to stop, a job in the channel gets a verdict.
EveryJobFinishes ==
    \A t \in Token : t \in sent ~> IsFinished(status[t]) \/ phase # "serving"

\* A waiting handler is answered by the result alone, no timer needed: unless
\* the entry is removed or the workers are cancelled, it does not stay blocked.
WaiterAnswered ==
    \A r \in Request : pc[r] = "WaitSelect" ~>
        pc[r] = "Replied" \/ Tok(r) \in removed \/ phase # "serving"

\* Stop returns and the process ends: no worker outlives the cancellation,
\* whatever it was doing (worker.go:57, server.go:64).
StopTerminates == phase = "stopping" ~> phase = "exited"

-----------------------------------------------------------------------------
(* The engine as an implementation of SubmissionLifecycle. *)

Place(t) ==
    CASE Held(t)                               -> "taken"
      [] ~Held(t) /\ Queued(t)                 -> "queued"
      [] ~Held(t) /\ ~Queued(t) /\ t \in sent  -> "out"
      [] OTHER                                 -> "new"

Lifecycle == INSTANCE SubmissionLifecycle WITH
    MayLose <- FALSE,
    place   <- [t \in Token |-> Place(t)],
    work    <- [t \in Token |-> IF Held(t) THEN status[t] ELSE 0],
    view    <- [t \in Token |-> Seen(t)]

\* Every step of handlers, workers, janitor and shutdown is a step of the
\* promised lifecycle or does not show: with the in-memory queue a job that was
\* taken is let go of only with a verdict, and readers see where the job object is.
ImplementsLifecycle == Lifecycle!LifeSpec
=============================================================================
