----------------------- MODULE MemoryEngineInvariant -----------------------
(***************************************************************************)
(* An inductive invariant of MemoryEngine.  It ties the position of every  *)
(* goroutine to the shared state it relies on; the safety properties of    *)
(* MemoryEngineProperties follow from it (MemoryEngineProofs).             *)
(***************************************************************************)
EXTENDS MemoryEngineProperties

BeforeSend == {"Idle", "Build", "Enqueue", "EnqSend"}
Enqueued   == {"EnqCount", "EnqLoad", "EnqGauge"}
Looking    == {"WaitCheck", "WaitRegister"}
Registered == {"WaitRecheck", "WaitUnregister", "WaitSelect"}
Waiting    == Looking \cup Registered \cup {"WaitGet"}

Free      == {"Loop", "Dequeue", "Exited"}
Taken     == {"DeqCount", "DeqProcessing", "DeqLoadSize", "DeqGaugeSize",
              "DeqLoadProc", "DeqGaugeProc", "Start"}
Judged    == {"Finalize", "SigProcessing", "SigCount", "SigLoad", "SigGauge", "SigStore"}
Signalled == {"SigNotify", "SigSend"}

\* Handlers are in handler code and workers in worker code, and a handler has
\* answered exactly when it is done.
Labels ==
    /\ \A r \in Request : pc[r] \in HandlerLabel
    /\ \A w \in Worker : pc[w] \in WorkerLabel
    /\ \A r \in Request : reply[r] = "none" <=> pc[r] # "Replied"
    /\ \A r \in Request : pc[r] \in Waiting => r \in Waits

\* A handler sends its jobs in order, each once.
SendOrder ==
    \A r \in Request : \A i \in 1 .. Len(Jobs[r]) :
        /\ i < idx[r] => Jobs[r][i] \in sent
        /\ i > idx[r] => Jobs[r][i] \notin sent
        /\ i = idx[r] /\ pc[r] \in BeforeSend => Jobs[r][i] \notin sent
        /\ i = idx[r] /\ pc[r] \in Enqueued \cup Waiting => Jobs[r][i] \in sent

\* A request with a positive answer has sent its last job.
AnswerOrder ==
    \A r \in Request : pc[r] \in Waiting \/ reply[r] \notin {"none", "invalid", "refused"} =>
        idx[r] = Len(Jobs[r]) /\ Tok(r) \in sent

\* The channel holds each job once, and only jobs that nobody has taken.
Channel ==
    /\ \A i, j \in 1 .. Len(jobs) : jobs[i] = jobs[j] => i = j
    /\ \A t \in Token : Queued(t) => t \in sent /\ status[t] = StatusInQueue

\* A worker holds one job exactly while it is past Dequeue, no two the same
\* one, and the job is as far as the worker is.
Holding ==
    /\ \A w \in Worker : pc[w] \in Free <=> cur[w] = {}
    /\ \A w \in Worker : \A t, u \in cur[w] : t = u
    /\ \A v, w \in Worker : cur[v] \cap cur[w] # {} => v = w
    /\ \A w \in Worker : \A t \in cur[w] :
          /\ t \in sent /\ ~Queued(t)
          /\ pc[w] \in Taken => status[t] = StatusInQueue
          /\ pc[w] = "Execute" => status[t] = StatusProcessing
          /\ pc[w] \in Judged => IsFinished(status[t])
          /\ pc[w] \in Signalled => Done(t)

\* Results exist for jobs that were sent, and a snapshot is of a finished job.
Results ==
    /\ \A t \in Token \ sent : status[t] = StatusInQueue
    /\ \A t \in Token : snap[t] # 0 => Done(t)
    /\ \A t \in Token : store[t] = "snapshot" => snap[t] # 0
    /\ \A t \in Token : callback[t] # "none" => IsFinished(status[t])

\* Every job that was sent is queued, held or over.
Accounted == \A t \in sent : Queued(t) \/ Held(t) \/ Done(t)

\* An entry is there from the send on, until it is removed.
Entries ==
    /\ \A t \in sent \ removed : store[t] # "none"
    /\ \A r \in Request : pc[r] = "EnqSend" /\ Tok(r) \notin removed => store[Tok(r)] # "none"

\* An entry without a job in the channel is being sent, or was refused.
Leftovers ==
    \A t \in Token \ sent : store[t] # "none" =>
        \E r \in Request : Tok(r) = t /\ (pc[r] = "EnqSend" \/ reply[r] = "refused")

\* A listener is gone before its channel is used.
Listening ==
    /\ \A t \in listeners : t \in sent /\ mailbox[t] = 0
    /\ \A w \in Worker : pc[w] = "SigSend" => cur[w] \cap listeners = {}
    /\ \A t \in Token : mailbox[t] # 0 => t \in sent /\ Done(t) /\ mailbox[t] = status[t]

\* Before it registers, nothing has been sent to a handler; after, it has its
\* listener or will have its result.
Wakeup ==
    \A r \in Request :
        /\ pc[r] \in Looking \cup Enqueued =>
              mailbox[Tok(r)] = 0 /\ \A w \in Worker : pc[w] = "SigSend" => Tok(r) \notin cur[w]
        /\ pc[r] = "WaitRecheck" => Tok(r) \in listeners \/ Done(Tok(r))
        /\ pc[r] = "WaitSelect" /\ Tok(r) \notin removed =>
              \/ Tok(r) \in listeners /\ (Queued(Tok(r)) \/ Held(Tok(r)))
              \/ \E w \in Worker : pc[w] = "SigSend" /\ Tok(r) \in cur[w]
              \/ mailbox[Tok(r)] # 0

\* What a handler has learnt of its job is the verdict.
Answers ==
    /\ AnswersAreFinal
    /\ \A r \in Request : pc[r] = "WaitUnregister" =>
          IsFinished(answer[r]) /\ answer[r] = status[Tok(r)]

\* The queue closes after the workers.
Closing ==
    /\ closed <=> phase \in {"closed", "exited"}
    /\ closed => \A w \in Worker : pc[w] = "Exited"

\* The inductive invariant.
IInv ==
    /\ TypeOK /\ Labels /\ SendOrder /\ AnswerOrder /\ Channel /\ Holding /\ Results
    /\ Accounted /\ Entries /\ Leftovers /\ ListenersOwned /\ Listening
    /\ Wakeup /\ Answers /\ Closing
=============================================================================
