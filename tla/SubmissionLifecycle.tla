------------------------- MODULE SubmissionLifecycle -------------------------
(***************************************************************************)
(* What a queue of pkg/queue/queue.go promises of each submission, however *)
(* it is built: a job enters the queue at most once, one worker at most    *)
(* takes it, and what GetSubmission shows is what the job had reached, or  *)
(* nothing.  Both engines implement this specification; the one around     *)
(* Redis may lose a job, the one in memory may not.                        *)
(***************************************************************************)
EXTENDS Submission

CONSTANTS
    Token,      \* the submissions
    MayLose     \* whether a job may be lost on its way

VARIABLES
    place,      \* place[t]: not queued yet, queued, with a worker, or done with
    work,       \* work[t]: the status the worker's job object has, 0 without a worker
    view        \* view[t]: the status a reader is shown, 0 for "not found"

lifeVars == <<place, work, view>>

LifeInit ==
    /\ place = [t \in Token |-> "new"]
    /\ work = [t \in Token |-> 0]
    /\ view = [t \in Token |-> 0]

\* Enqueue stores the job before it is queued, ...
Post(t) ==
    /\ place[t] = "new"
    /\ view' = [view EXCEPT ![t] = StatusInQueue]
    /\ UNCHANGED <<place, work>>

\* ... and then queues it.
Accept(t) ==
    /\ place[t] = "new"
    /\ place' = [place EXCEPT ![t] = "queued"]
    /\ UNCHANGED <<work, view>>

Take(t) ==
    /\ place[t] = "queued"
    /\ place' = [place EXCEPT ![t] = "taken"]
    /\ work' = [work EXCEPT ![t] = StatusInQueue]
    /\ UNCHANGED view

\* The worker moves on, and what it reaches is shown at once or not.
Advance(t, s) ==
    /\ place[t] = "taken"
    /\ work' = [work EXCEPT ![t] = s]
    /\ view' \in {view, [view EXCEPT ![t] = s]}
    /\ UNCHANGED place

Start(t)     == work[t] = StatusInQueue /\ Advance(t, StatusProcessing)
Decide(t, s) == work[t] = StatusProcessing /\ IsFinished(s) /\ Advance(t, s)

\* A verdict is stored for good, also over an entry that was removed.
Publish(t) ==
    /\ IsFinished(work[t])
    /\ view' = [view EXCEPT ![t] = work[t]]
    /\ UNCHANGED <<place, work>>

\* The worker is done with its job.  A crash takes the jobs of a whole process.
Release(S) ==
    /\ \A t \in S : \/ place[t] = "taken" /\ IsFinished(work[t])
                    \/ place[t] \in {"queued", "taken"} /\ MayLose
    /\ place' = [t \in Token |-> IF t \in S THEN "out" ELSE place[t]]
    /\ work' = [t \in Token |-> IF t \in S THEN 0 ELSE work[t]]
    /\ UNCHANGED view

\* DELETE, or the end of the TTL.
Remove(t) ==
    /\ view' = [view EXCEPT ![t] = 0]
    /\ UNCHANGED <<place, work>>

LifeNext ==
    \/ \E t \in Token : \/ Post(t) \/ Accept(t) \/ Take(t) \/ Start(t) \/ Publish(t) \/ Remove(t)
                        \/ \E s \in Status : Decide(t, s)
    \/ \E S \in SUBSET Token : Release(S)

LifeSpec == LifeInit /\ [][LifeNext]_lifeVars

-----------------------------------------------------------------------------

\* What a reader is shown is never ahead of the worker: nothing but In Queue before a
\* worker has the job, then at most what the worker has reached, and a verdict only
\* when it is the one of the worker.
LifeInv ==
    /\ place \in [Token -> {"new", "queued", "taken", "out"}]
    /\ work \in [Token -> Status \cup {0}] /\ view \in [Token -> Status \cup {0}]
    /\ \A t \in Token :
          /\ place[t] = "taken" <=> work[t] # 0
          /\ place[t] \in {"new", "queued"} => view[t] \in {0, StatusInQueue}
          /\ place[t] = "taken" => \/ view[t] \in {0, work[t]}
                                   \/ ~IsFinished(view[t]) /\ view[t] < work[t]

\* As long as there is something to see, it moves forward, and a verdict stays.
OnlyForward ==
    [][\A t \in Token : view[t] # 0 /\ view'[t] # 0 =>
            /\ Stage(view[t]) <= Stage(view'[t])
            /\ IsFinished(view[t]) => view'[t] = view[t]]_lifeVars
=============================================================================
