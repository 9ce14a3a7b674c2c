----------------------------- MODULE RedisQueue -----------------------------
(***************************************************************************)
(* The Redis queue of pkg/queue/redis.go: a list of tokens, one key with a *)
(* TTL per submission and one pub/sub channel per submission, shared by    *)
(* all server and worker processes.                                        *)
(*                                                                         *)
(* A method is a sequence of Redis commands, each atomic, issued by the    *)
(* goroutine p.  A command can fail: Redis is unreachable, or the answer   *)
(* is lost after the command took effect, or go-redis repeats a command    *)
(* whose answer was lost.  At most MaxFaults commands do.                  *)
(***************************************************************************)
EXTENDS Submission, Sequences, FiniteSets

CONSTANTS
    Token,       \* submission tokens
    Request,     \* the goroutines that serve submission requests
    Worker,      \* the goroutines of the worker pools
    Node,        \* the processes: servers and standalone workers
    Home,        \* Home[p]: the process goroutine p belongs to
    MaxFaults,   \* bound on failing commands
    Retries      \* whether go-redis may repeat a command that took effect

ASSUME RedisThreadAssumption == Request \cap Worker = {}
ASSUME HomeAssumption == Home \in [Request \cup Worker -> Node]
ASSUME FaultsAssumption == MaxFaults \in Nat /\ Retries \in BOOLEAN

Thread == Request \cup Worker

VARIABLES
    list,     \* cee:submissions; LPUSH at the end, BRPOP from the front
    key,      \* key[t]: the status in submission:<t>, 0 when there is no such key
    subs,     \* subs[r]: the subscription of r: none, sent, or active
    inbox,    \* inbox[r]: whether the subscription of r has a message
    missed,   \* history: the requests whose message came while SUBSCRIBE was on its way
    gauge,    \* gauge[n]: cee_queue_size as process n exports it
    faults,   \* the number of commands that failed
    copy,     \* copy[w]: the status of the job object worker w decoded (0: none)
    cur,      \* cur[w]: the token worker w popped (none or one)
    pc        \* pc[p]: where goroutine p is

redisVars == <<list, key, subs, inbox, missed, gauge, faults, copy, cur, pc>>

RedisInit ==
    /\ list = <<>> /\ key = [t \in Token |-> 0]
    /\ subs = [r \in Request |-> "none"] /\ inbox = [r \in Request |-> FALSE] /\ missed = {}
    /\ gauge = [n \in Node |-> 0] /\ faults = 0
    /\ copy = [w \in Worker |-> 0] /\ cur = [w \in Worker |-> {}]

RedisTypeOK ==
    /\ list \in Seq(Token) /\ key \in [Token -> Status \cup {0}]
    /\ subs \in [Request -> {"none", "sent", "active"}] /\ inbox \in [Request -> BOOLEAN]
    /\ missed \subseteq Request
    /\ gauge \in [Node -> Nat] /\ faults \in 0 .. MaxFaults
    /\ copy \in [Worker -> Status \cup {0}] /\ cur \in [Worker -> SUBSET Token]

Goto(p, label) == pc' = [pc EXCEPT ![p] = label]

\* A command fails.
Fault == faults < MaxFaults /\ faults' = faults + 1

\* SET submission:<t>: done, or (with an error) not done.
SetKey(t, s) == key' = [key EXCEPT ![t] = s] /\ UNCHANGED faults
SetLost      == Fault /\ UNCHANGED key

(***************************************************************************)
(* Enqueue: SET, then LPUSH, then LLEN for the gauge.  The key stays when  *)
(* the LPUSH fails.                                                        *)
(***************************************************************************)
EnqueueSet(p, t) ==
    /\ pc[p] = "EnqSet"
    /\ SetKey(t, StatusInQueue)
    /\ Goto(p, "EnqPush")
    /\ UNCHANGED <<list, subs, inbox, missed, gauge, copy, cur>>

EnqueueSetFails(p, t) ==
    /\ pc[p] = "EnqSet" /\ Fault
    /\ key' \in {key, [key EXCEPT ![t] = StatusInQueue]}
    /\ Goto(p, "Replied")
    /\ UNCHANGED <<list, subs, inbox, missed, gauge, copy, cur>>

EnqueuePush(p, t) ==
    /\ pc[p] = "EnqPush"
    /\ \/ list' = Append(list, t) /\ UNCHANGED faults
       \/ Retries /\ Fault /\ list' = list \o <<t, t>>
    /\ Goto(p, "EnqGauge")
    /\ UNCHANGED <<key, subs, inbox, missed, gauge, copy, cur>>

EnqueuePushFails(p, t) ==
    /\ pc[p] = "EnqPush" /\ Fault
    /\ list' \in {list, Append(list, t)}
    /\ Goto(p, "Replied")
    /\ UNCHANGED <<key, subs, inbox, missed, gauge, copy, cur>>

\* updateMetrics: LLEN fails for sure when the context is done.  It is one step
\* with the Set of the gauge: nothing but the gauge depends on their order.
UpdateMetrics(p, done, label, return) ==
    /\ pc[p] = label
    /\ \/ ~done /\ gauge' = [gauge EXCEPT ![Home[p]] = Len(list)] /\ UNCHANGED faults
       \/ ~done /\ Fault /\ UNCHANGED gauge
       \/ done /\ UNCHANGED <<gauge, faults>>
    /\ Goto(p, return)
    /\ UNCHANGED <<list, key, subs, inbox, missed, copy, cur>>

(***************************************************************************)
(* Dequeue: BRPOP for two seconds, again and again; then GET, under the    *)
(* pool's context.  A token whose GET fails or finds nothing is dropped.   *)
(***************************************************************************)
\* Variant: BRPOP leaves the token to the next caller.
DequeuePeek(w) ==
    /\ pc[w] = "Pop" /\ list # <<>>
    /\ cur' = [cur EXCEPT ![w] = {Head(list)}]
    /\ Goto(w, "Get")
    /\ UNCHANGED <<list, key, subs, inbox, missed, gauge, copy, faults>>

DequeuePop(w) ==
    /\ pc[w] = "Pop" /\ list # <<>>
    /\ list' = Tail(list)
    /\ cur' = [cur EXCEPT ![w] = {Head(list)}]
    /\ Goto(w, "Get")
    /\ UNCHANGED <<key, subs, inbox, missed, gauge, copy, faults>>

\* Variant: the token of a slow answer is thrown away.
DequeueForgets(w, cancelled) ==
    /\ pc[w] = "Pop"
    /\ list' = IF list = <<>> THEN list ELSE Tail(list)
    /\ Goto(w, "Loop")
    /\ UNCHANGED <<key, subs, inbox, missed, gauge, faults, copy, cur>>

\* Nothing for two seconds, a context that is done before the command is sent,
\* an error, or an answer that is lost with its token.
DequeueNothing(w, cancelled) ==
    /\ pc[w] = "Pop"
    /\ \/ (list = <<>> \/ cancelled) /\ UNCHANGED <<list, faults>>
       \/ Fault /\ UNCHANGED list
       \/ Fault /\ list # <<>> /\ list' = Tail(list)
    /\ Goto(w, "Loop")
    /\ UNCHANGED <<key, subs, inbox, missed, gauge, copy, cur>>

DequeueGet(w, cancelled) ==
    /\ pc[w] = "Get" /\ ~cancelled
    /\ \E t \in cur[w] :
          key[t] # 0 /\ copy' = [copy EXCEPT ![w] = key[t]]
    /\ Goto(w, "DeqGauge")
    /\ UNCHANGED <<list, key, subs, inbox, missed, gauge, faults, cur>>

DequeueDrop(w, cancelled) ==
    /\ pc[w] = "Get"
    /\ \/ cancelled /\ UNCHANGED faults
       \/ Fault
       \/ (\E t \in cur[w] : key[t] = 0) /\ UNCHANGED faults
    /\ cur' = [cur EXCEPT ![w] = {}]
    /\ Goto(w, "Loop")
    /\ UNCHANGED <<list, key, subs, inbox, missed, gauge, copy>>

(***************************************************************************)
(* UpdateSubmission and SignalCompleted: errors are ignored.               *)
(***************************************************************************)
\* SET under the pool's context, which fails for sure once that is done.
UpdateSubmission(w, t, cancelled) ==
    \/ ~cancelled /\ SetKey(t, copy'[w])
    \/ ~cancelled /\ SetLost
    \/ cancelled /\ UNCHANGED <<key, faults>>

SignalSet(w) ==
    /\ pc[w] = "SigSet"
    /\ \E t \in cur[w] : SetKey(t, copy[w]) \/ SetLost
    /\ Goto(w, "SigPublish")
    /\ UNCHANGED <<list, subs, inbox, missed, gauge, copy, cur>>

\* PUBLISH reaches those of the waiting handlers R whose subscription is
\* active now, and nobody else.
SignalPublish(w, R) ==
    /\ pc[w] = "SigPublish"
    /\ \/ /\ inbox' = [r \in Request |-> inbox[r] \/ (r \in R /\ subs[r] = "active")]
          /\ missed' = missed \cup {r \in R : subs[r] = "sent"}
          /\ UNCHANGED faults
       \/ Fault /\ UNCHANGED <<inbox, missed>>
    /\ cur' = [cur EXCEPT ![w] = {}]
    /\ copy' = [copy EXCEPT ![w] = 0]
    /\ Goto(w, "Loop")
    /\ UNCHANGED <<list, key, subs, gauge>>

(***************************************************************************)
(* WaitForResult: GET, SUBSCRIBE, GET, then wait.  Subscribe writes the    *)
(* command on a connection of its own and does not read the confirmation:  *)
(* the GET that follows may be served first.                               *)
(***************************************************************************)
\* What a GET of the waiting handler may give: the key, or nothing on error.
Got(t, s) == (s = key[t] /\ UNCHANGED faults) \/ (s = 0 /\ Fault)

WaitSubscribe(r) ==
    /\ pc[r] = "WaitSubscribe"
    /\ subs' = [subs EXCEPT ![r] = "sent"]
    /\ Goto(r, "WaitRecheck")
    /\ UNCHANGED <<list, key, inbox, missed, gauge, faults, copy, cur>>

\* Redis executes the SUBSCRIBE.
SubscribeTakesEffect(r) ==
    /\ subs[r] = "sent"
    /\ subs' = [subs EXCEPT ![r] = "active"]
    /\ UNCHANGED <<list, key, inbox, missed, gauge, faults, copy, cur, pc>>

WaitWake(r, label) ==
    /\ pc[r] = "WaitSelect"
    /\ Goto(r, label)
    /\ UNCHANGED <<list, key, subs, inbox, missed, gauge, faults, copy, cur>>

(***************************************************************************)
(* DeleteSubmission, and the TTL, which every SET starts again.            *)
(***************************************************************************)
DropKey(t) ==
    /\ key[t] # 0
    /\ key' = [key EXCEPT ![t] = 0]
    /\ UNCHANGED <<list, subs, inbox, missed, gauge, faults, copy, cur, pc>>
=============================================================================
