------------------------ MODULE RedisEngineProperties ------------------------
(***************************************************************************)
(* What the cluster around one Redis promises its clients, and under which *)
(* faults it does.                                                         *)
(***************************************************************************)
EXTENDS RedisEngine

TypeOK ==
    /\ RedisTypeOK
    /\ pc \in [Thread -> HandlerLabel \cup WorkerLabel]
    /\ idx \in [Request -> Nat] /\ \A r \in Request : idx[r] \in 1 .. Len(Jobs[r])
    /\ gone \subseteq Request
    /\ reply \in [Request -> Reply] /\ answer \in [Request -> Status \cup {0}]
    /\ life \in [Node -> {"up", "draining", "stopping", "down"}]
    /\ stops \in 0 .. MaxStops /\ crashes \in 0 .. MaxCrashes
    /\ pending \subseteq Node \X Token /\ delivered \subseteq Token
    /\ sent \subseteq Token /\ removed \subseteq Token

Listed(t) == \E i \in 1 .. Len(list) : list[i] = t
Held(t)   == \E w \in Worker : t \in cur[w]

\* No command has failed and no process has died.
Calm == faults = 0 /\ crashes = 0

\* A token is in the list once or with one worker, never both, and is not in
\* the list again once its job was started: whatever fails or dies, no job is
\* run twice (redis.go:60, 70).  A repeated LPUSH is the one exception, and is
\* excluded by Retries = FALSE.
RunOnce ==
    /\ \A i, j \in 1 .. Len(list) : list[i] = list[j] => i = j
    /\ \A v, w \in Worker : cur[v] \cap cur[w] # {} => v = w
    /\ \A t \in Token : Listed(t) => ~Held(t) /\ key[t] \in {0, StatusInQueue}

\* An answer of ?wait=true that came from a look at the key is the verdict that
\* the key keeps; one that came from the message is, too, unless the store of
\* the result failed (redis.go:147 ignores the error and publishes) or the key
\* is gone.
AnswersAreFinal ==
    \A r \in Request :
        \/ reply[r] = "ready"
        \/ reply[r] = "signal" /\ faults = 0 /\ Tok(r) \notin removed
        => IsFinished(answer[r]) /\ key[Tok(r)] \in {0, answer[r]}

\* A positive answer covers every job of the request, whichever command failed.
AcknowledgedWasSent ==
    \A r \in Request : reply[r] \notin {"none", "invalid", "refused", "broken"} =>
        \A i \in 1 .. Len(Jobs[r]) : Jobs[r][i] \in sent

\* A submission shown as Processing is being processed: a stopped process ends
\* only when its workers have stored what they started (worker.go:57).  Only a
\* crash or a failing command leaves one behind.
StartedIsFinished ==
    Calm => \A t \in Token : key[t] = StatusProcessing => Held(t)

\* A submission shown as unfinished is on its way or was refused, as long as
\* nothing fails, dies or is stopped.  (A stop can lose a queued job: the GET
\* after a BRPOP runs under the cancelled context, redis.go:86.)
UnfinishedIsInFlight ==
    Calm /\ stops = 0 => \A t \in Token : key[t] # 0 /\ ~IsFinished(key[t]) =>
        \/ Listed(t) \/ Held(t)
        \/ \E r \in Request : Tok(r) = t /\ (pc[r] = "EnqPush" \/ reply[r] = "refused")

\* A handler that waits (redis.go:173) for a result that is stored and announced has
\* the message, unless PUBLISH was executed while its SUBSCRIBE was still on its way:
\* redis.go:160 does not wait for the confirmation.  The second GET (redis.go:165)
\* covers all other orders of SET, PUBLISH, SUBSCRIBE and GET.
PublishedIsHeard ==
    Calm => \A r \in Request :
        pc[r] = "WaitSelect" /\ IsFinished(key[Tok(r)]) /\ ~Held(Tok(r)) =>
            inbox[r] \/ r \in missed

\* In a cluster that is left alone every queued job gets its verdict.
EveryJobFinishes ==
    \A t \in Token : t \in sent ~>
        IsFinished(key[t]) \/ t \in removed \/ ~Calm \/ stops > 0

\* Every request is answered or its connection breaks, whatever fails: no
\* handler hangs on a result that a dead worker took with it.
RequestsEnd == \A r \in Request : pc[r] = "Build" ~> pc[r] = "Replied"

\* A stopped process comes to its end although Stop waits for every worker.
StopsEnd == \A n \in Node : life[n] = "draining" ~> life[n] = "down"

\* What a GET of a submission's key shows moves forward, and a verdict once shown is
\* never replaced, although handlers and workers of several processes store whole copies of
\* the job under the same key (redis.go:56, 119).  (Without the repeated LPUSH of RunOnce.)
FinalIsFinal ==
    [][\A t \in Token : key[t] # 0 /\ key'[t] # 0 =>
            /\ Stage(key[t]) <= Stage(key'[t])
            /\ IsFinished(key[t]) => key'[t] = key[t]]_vars

-----------------------------------------------------------------------------
(* The cluster as an implementation of SubmissionLifecycle. *)

Place(t) ==
    CASE Held(t)                               -> "taken"
      [] ~Held(t) /\ Listed(t)                 -> "queued"
      [] ~Held(t) /\ ~Listed(t) /\ t \in sent  -> "out"
      [] OTHER                                 -> "new"

\* The status in the copy of the worker that popped t; before it has read the
\* key it knows the token only.
Work(t) ==
    IF ~Held(t) THEN 0
    ELSE LET w == CHOOSE w \in Worker : t \in cur[w]
         IN IF copy[w] = 0 THEN StatusInQueue ELSE copy[w]

Lifecycle == INSTANCE SubmissionLifecycle WITH
    MayLose <- TRUE,
    place   <- [t \in Token |-> Place(t)],
    work    <- [t \in Token |-> Work(t)],
    view    <- key

\* Whatever fails, dies or is stopped, the cluster does no more than lose jobs:
\* every command is a step of the promised lifecycle or does not show, so that
\* no job is queued or taken a second time and the key never shows what the
\* worker's copy has not reached.  (Without the repeated LPUSH of RunOnce.)
ImplementsLifecycle == Lifecycle!LifeSpec
=============================================================================
