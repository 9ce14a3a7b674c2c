---------------------------- MODULE MemoryQueue ----------------------------
(***************************************************************************)
(* The in-memory queue of pkg/queue/memory.go: a buffered channel of jobs, *)
(* a sync.Map of submissions (the result cache), a sync.Map of listeners   *)
(* for ?wait=true, four atomic counters and two Prometheus gauges.         *)
(*                                                                         *)
(* A method of the queue is a sequence of steps of the goroutine p that    *)
(* calls it; a step is one operation on shared state, so the steps of      *)
(* different goroutines interleave as the Go scheduler may interleave      *)
(* them.  The operators below are those steps; a module that extends this  *)
(* one gives them to its handlers and workers.                             *)
(***************************************************************************)
EXTENDS Submission, Sequences, FiniteSets

CONSTANTS
    Token,      \* submission tokens: one uuid for every job ever built
    Request,    \* the goroutines that serve submission requests
    Worker,     \* the goroutines of the worker pool
    Capacity    \* the channel's buffer size (bufferSize)

ASSUME CapacityAssumption == Capacity \in Nat \ {0}
ASSUME ThreadAssumption   == Request \cap Worker = {}

Thread == Request \cup Worker

VARIABLES
    jobs,            \* the channel: tokens, in order
    closed,          \* closed flag and closed channel (Close sets both)
    status,          \* status[t]: the Status field of the job object of t
    store,           \* store[t]: the entry of t: none, the job object, or a snapshot of it
    snap,            \* snap[t]: the status in the snapshot of t (0 before there is one)
    listeners,       \* the tokens with a registered listener channel
    mailbox,         \* mailbox[t]: the status in t's listener channel (0 when empty)
    inQueue, processing, completed, failed,    \* the counters behind /statistics
    queueSize, queueProcessing,                \* the gauges behind /metrics
    pc,              \* pc[p]: where goroutine p is
    reg              \* reg[p]: the counter p loaded and is about to publish

content  == <<jobs, closed, status, store, snap>>
signals  == <<listeners, mailbox>>
counters == <<inQueue, processing, completed, failed>>
gauges   == <<queueSize, queueProcessing>>
queueVars == <<content, signals, counters, gauges, pc, reg>>

QueueInit ==
    /\ jobs = <<>> /\ closed = FALSE
    /\ status = [t \in Token |-> StatusInQueue]
    /\ store = [t \in Token |-> "none"]
    /\ snap = [t \in Token |-> 0]
    /\ listeners = {} /\ mailbox = [t \in Token |-> 0]
    /\ inQueue = 0 /\ processing = 0 /\ completed = 0 /\ failed = 0
    /\ queueSize = 0 /\ queueProcessing = 0
    /\ reg = [p \in Thread |-> 0]

QueueTypeOK ==
    /\ jobs \in Seq(Token) /\ closed \in BOOLEAN
    /\ status \in [Token -> Status]
    /\ store \in [Token -> {"none", "job", "snapshot"}]
    /\ snap \in [Token -> Status \cup {0}]
    /\ listeners \subseteq Token /\ mailbox \in [Token -> Status \cup {0}]
    /\ inQueue \in Int /\ processing \in Int /\ completed \in Int /\ failed \in Int
    /\ queueSize \in Int /\ queueProcessing \in Int
    /\ reg \in [Thread -> Int]

Goto(p, label) == pc' = [pc EXCEPT ![p] = label]

\* GetSubmission: the status a reader of the store sees for t, 0 when t is
\* not there.  The job object is read under its lock, a snapshot never changes.
Seen(t) ==
    CASE store[t] = "none"     -> 0
      [] store[t] = "job"      -> status[t]
      [] store[t] = "snapshot" -> snap[t]

(***************************************************************************)
(* Enqueue.  The store entry is written before the channel operation and   *)
(* is not taken back when that operation is refused.  The check of closed  *)
(* and the write of the entry are one step: Close touches neither the      *)
(* entry nor the job, so the order of the two cannot be observed.          *)
(***************************************************************************)
EnqueueStore(p, t) ==
    /\ pc[p] = "Enqueue" /\ ~closed
    /\ status' = [status EXCEPT ![t] = StatusInQueue]
    /\ store' = [store EXCEPT ![t] = "job"]
    /\ Goto(p, "EnqSend")
    /\ UNCHANGED <<jobs, closed, snap, signals, counters, gauges, reg>>

EnqueueSend(p, t) ==
    /\ pc[p] = "EnqSend" /\ ~closed /\ Len(jobs) < Capacity
    /\ jobs' = Append(jobs, t)
    /\ Goto(p, "EnqCount")
    /\ UNCHANGED <<closed, status, store, snap, signals, counters, gauges, reg>>

\* Enqueue returns an error, or panics on the closed channel and is recovered:
\* the caller answers 500 either way.  With the context done and room in the
\* buffer, select takes either case.
EnqueueRefused(p, done) ==
    /\ \/ pc[p] = "Enqueue" /\ closed
       \/ pc[p] = "EnqSend" /\ closed
       \/ pc[p] = "EnqSend" /\ done
       \/ pc[p] = "EnqSend" /\ Len(jobs) = Capacity
    /\ Goto(p, "Replied")
    /\ UNCHANGED <<content, signals, counters, gauges, reg>>

EnqueueCount(p) ==
    /\ pc[p] = "EnqCount"
    /\ inQueue' = inQueue + 1
    /\ Goto(p, "EnqLoad")
    /\ UNCHANGED <<content, signals, processing, completed, failed, gauges, reg>>

EnqueueLoad(p) ==
    /\ pc[p] = "EnqLoad"
    /\ reg' = [reg EXCEPT ![p] = inQueue]
    /\ Goto(p, "EnqGauge")
    /\ UNCHANGED <<content, signals, counters, gauges>>

EnqueueGauge(p, return) ==
    /\ pc[p] = "EnqGauge"
    /\ queueSize' = reg[p]
    /\ Goto(p, return)
    /\ UNCHANGED <<content, signals, counters, queueProcessing, reg>>

(***************************************************************************)
(* Dequeue: the receive, then two counters and two gauges, one by one.     *)
(***************************************************************************)
\* Variant: the job is read and left in the channel.
DequeuePeek(p) ==
    /\ pc[p] = "Dequeue" /\ jobs # <<>>
    /\ Goto(p, "DeqCount")
    /\ UNCHANGED <<content, signals, counters, gauges, reg>>

DequeueReceive(p) ==
    /\ pc[p] = "Dequeue" /\ jobs # <<>>
    /\ jobs' = Tail(jobs)
    /\ Goto(p, "DeqCount")
    /\ UNCHANGED <<closed, status, store, snap, signals, counters, gauges, reg>>

DequeueCount(p) ==
    /\ pc[p] = "DeqCount"
    /\ inQueue' = inQueue - 1
    /\ Goto(p, "DeqProcessing")
    /\ UNCHANGED <<content, signals, processing, completed, failed, gauges, reg>>

DequeueProcessing(p) ==
    /\ pc[p] = "DeqProcessing"
    /\ processing' = processing + 1
    /\ Goto(p, "DeqLoadSize")
    /\ UNCHANGED <<content, signals, inQueue, completed, failed, gauges, reg>>

DequeueLoadSize(p) ==
    /\ pc[p] = "DeqLoadSize"
    /\ reg' = [reg EXCEPT ![p] = inQueue]
    /\ Goto(p, "DeqGaugeSize")
    /\ UNCHANGED <<content, signals, counters, gauges>>

DequeueGaugeSize(p) ==
    /\ pc[p] = "DeqGaugeSize"
    /\ queueSize' = reg[p]
    /\ Goto(p, "DeqLoadProc")
    /\ UNCHANGED <<content, signals, counters, queueProcessing, reg>>

DequeueLoadProcessing(p) ==
    /\ pc[p] = "DeqLoadProc"
    /\ reg' = [reg EXCEPT ![p] = processing]
    /\ Goto(p, "DeqGaugeProc")
    /\ UNCHANGED <<content, signals, counters, gauges>>

DequeueGaugeProcessing(p, return) ==
    /\ pc[p] = "DeqGaugeProc"
    /\ queueProcessing' = reg[p]
    /\ Goto(p, return)
    /\ UNCHANGED <<content, signals, counters, queueSize, reg>>

(***************************************************************************)
(* SignalCompleted: counters, gauge, snapshot into the store, and only     *)
(* then the listener.  The snapshot and the write of it are one step: the  *)
(* job no longer changes.  So are the send and the close of the channel:   *)
(* its buffer of one is empty and its reader takes the value first.        *)
(***************************************************************************)
\* Variant: the processing counter is not taken back.
SignalForgets(p) ==
    /\ pc[p] = "SigProcessing"
    /\ Goto(p, "SigCount")
    /\ UNCHANGED <<content, signals, counters, gauges, reg>>

SignalProcessing(p) ==
    /\ pc[p] = "SigProcessing"
    /\ processing' = processing - 1
    /\ Goto(p, "SigCount")
    /\ UNCHANGED <<content, signals, inQueue, completed, failed, gauges, reg>>

SignalCount(p, t) ==
    /\ pc[p] = "SigCount"
    /\ \/ /\ status[t] = StatusAccepted
          /\ completed' = completed + 1 /\ UNCHANGED failed
       \/ /\ status[t] # StatusAccepted
          /\ failed' = failed + 1 /\ UNCHANGED completed
    /\ Goto(p, "SigLoad")
    /\ UNCHANGED <<content, signals, inQueue, processing, gauges, reg>>

SignalLoad(p) ==
    /\ pc[p] = "SigLoad"
    /\ reg' = [reg EXCEPT ![p] = processing]
    /\ Goto(p, "SigGauge")
    /\ UNCHANGED <<content, signals, counters, gauges>>

SignalGauge(p) ==
    /\ pc[p] = "SigGauge"
    /\ queueProcessing' = reg[p]
    /\ Goto(p, "SigStore")
    /\ UNCHANGED <<content, signals, counters, queueSize, reg>>

\* Variant: the snapshot was taken before the verdict.
SignalStoreStale(p, t) ==
    /\ pc[p] = "SigStore"
    /\ snap' = [snap EXCEPT ![t] = StatusProcessing]
    /\ store' = [store EXCEPT ![t] = "snapshot"]
    /\ Goto(p, "SigNotify")
    /\ UNCHANGED <<jobs, closed, status, signals, counters, gauges, reg>>

SignalStore(p, t) ==
    /\ pc[p] = "SigStore"
    /\ snap' = [snap EXCEPT ![t] = status[t]]
    /\ store' = [store EXCEPT ![t] = "snapshot"]
    /\ Goto(p, "SigNotify")
    /\ UNCHANGED <<jobs, closed, status, signals, counters, gauges, reg>>

\* Variant: the listener is taken out and not told.
SignalNobody(p, t, return) ==
    /\ pc[p] = "SigNotify"
    /\ listeners' = listeners \ {t}
    /\ Goto(p, return)
    /\ UNCHANGED <<content, mailbox, counters, gauges, reg>>

\* Variant: Load in place of LoadAndDelete.
SignalKeepsListener(p, t, return) ==
    /\ pc[p] = "SigNotify"
    /\ Goto(p, IF t \in listeners THEN "SigSend" ELSE return)
    /\ UNCHANGED <<content, signals, counters, gauges, reg>>

\* listeners.LoadAndDelete
SignalNotify(p, t, return) ==
    /\ pc[p] = "SigNotify"
    /\ listeners' = listeners \ {t}
    /\ Goto(p, IF t \in listeners THEN "SigSend" ELSE return)
    /\ UNCHANGED <<content, mailbox, counters, gauges, reg>>

SignalSend(p, t, return) ==
    /\ pc[p] = "SigSend"
    /\ mailbox' = [mailbox EXCEPT ![t] = snap[t]]
    /\ Goto(p, return)
    /\ UNCHANGED <<content, listeners, counters, gauges, reg>>

(***************************************************************************)
(* WaitForResult: look, register a listener, look again, then wait for the *)
(* listener's channel, the timer or the request's context.                 *)
(***************************************************************************)
\* Variant: any entry counts as a result.
WaitCheckFound(p, t) ==
    /\ pc[p] = "WaitCheck" /\ Seen(t) # 0
    /\ Goto(p, "Replied")
    /\ UNCHANGED <<content, signals, counters, gauges, reg>>

WaitCheckFinished(p, t) ==
    /\ pc[p] = "WaitCheck" /\ IsFinished(Seen(t))
    /\ Goto(p, "Replied")
    /\ UNCHANGED <<content, signals, counters, gauges, reg>>

WaitCheckPending(p, t) ==
    /\ pc[p] = "WaitCheck" /\ ~IsFinished(Seen(t))
    /\ Goto(p, "WaitRegister")
    /\ UNCHANGED <<content, signals, counters, gauges, reg>>

WaitRegister(p, t) ==
    /\ pc[p] = "WaitRegister"
    /\ listeners' = listeners \cup {t}
    /\ Goto(p, "WaitRecheck")
    /\ UNCHANGED <<content, mailbox, counters, gauges, reg>>

WaitRecheckFinished(p, t) ==
    /\ pc[p] = "WaitRecheck" /\ IsFinished(Seen(t))
    /\ Goto(p, "WaitUnregister")
    /\ UNCHANGED <<content, signals, counters, gauges, reg>>

WaitRecheckPending(p, t) ==
    /\ pc[p] = "WaitRecheck" /\ ~IsFinished(Seen(t))
    /\ Goto(p, "WaitSelect")
    /\ UNCHANGED <<content, signals, counters, gauges, reg>>

WaitUnregister(p, t) ==
    /\ pc[p] = "WaitUnregister"
    /\ listeners' = listeners \ {t}
    /\ Goto(p, "Replied")
    /\ UNCHANGED <<content, mailbox, counters, gauges, reg>>

WaitReceive(p, t) ==
    /\ pc[p] = "WaitSelect" /\ mailbox[t] # 0
    /\ Goto(p, "Replied")
    /\ UNCHANGED <<content, signals, counters, gauges, reg>>

\* The timer or the context wins the select.  The delete of the listener is
\* part of the step: a signal that slips in between is one that came just
\* before a select with two cases ready, which took the other one.
WaitGiveUp(p, t, return) ==
    /\ pc[p] = "WaitSelect"
    /\ listeners' = listeners \ {t}
    /\ Goto(p, return)
    /\ UNCHANGED <<content, mailbox, counters, gauges, reg>>

WaitLastLook(p) ==
    /\ pc[p] = "WaitGet"
    /\ Goto(p, "Replied")
    /\ UNCHANGED <<content, signals, counters, gauges, reg>>

(***************************************************************************)
(* The other operations.                                                   *)
(***************************************************************************)
\* UpdateSubmission stores the job object, whether or not an entry is there.
UpdateStore(t) == store' = [store EXCEPT ![t] = "job"]

\* DeleteSubmission, and the deletion of an expired entry by cleanupExpired.
RemoveEntry(t) ==
    /\ store[t] # "none"
    /\ store' = [store EXCEPT ![t] = "none"]
    /\ UNCHANGED <<jobs, closed, status, snap, signals, counters, gauges, pc, reg>>

\* A pass of cleanupExpired comes to the entry of t: only a finished one goes.
\* (Close stops the ticker; a pass that is under way outlives it.)
CleanupExpired(t) ==
    /\ IsFinished(Seen(t))
    /\ RemoveEntry(t)

Close ==
    /\ closed' = TRUE
    /\ UNCHANGED <<jobs, status, store, snap, signals, counters, gauges, pc, reg>>
=============================================================================
