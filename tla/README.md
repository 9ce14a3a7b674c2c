# cee.io: a TLA+ development

cee.io is a code execution engine. A client posts source code over HTTP, a worker
runs it in a sandbox, and the client gets the result by waiting (`?wait=true`), by
polling `GET /submissions/{token}` or by a callback. This directory models the part
of it that is concurrent and stateful, checks it with TLC on small instances and
proves its main safety properties with TLAPS. Paths are relative to the repository.

## 1. The system

| Component | Source | State it keeps | Operations that change it |
| --- | --- | --- | --- |
| In-memory queue | `pkg/queue/memory.go` | a buffered channel of jobs, the result store, the listeners of waiting requests, four counters, two gauges, a closed flag | Enqueue, Dequeue, UpdateSubmission, SignalCompleted, WaitForResult, DeleteSubmission, cleanupExpired, Close |
| Redis queue | `pkg/queue/redis.go` | a Redis list, one key with a TTL per submission, a pub/sub channel per submission | the same interface |
| Worker pool | `pkg/queue/worker.go` | one goroutine per worker, its context, a wait group, callback goroutines | workerLoop, processJob, finalizeJob, sendCallback, Stop |
| Submission handlers | `pkg/api/submissions.go` | a goroutine per request | CreateSubmission, CreateBatchSubmission, DeleteSubmission; the GETs read |
| Server lifecycle | `cmd/cee/server.go` | the order of Shutdown, Stop and Close | SIGTERM, Shutdown (10 s), the deferred calls |
| Key store | `pkg/auth/store.go` | keys by id and by hash, in memory and in Redis | CreateKey, UpsertKey, RevokeKey, Bootstrap, hydrate |
| Authentication | `pkg/api/middleware.go`, `pkg/api/auth.go`, `pkg/auth/key.go` | the permission matrix (constant) | GenerateKey, RevokeKey |
| Rate limiter | `pkg/api/middleware.go` | a window and a count per client | each request, the janitor |
| Executors | `pkg/executor/*` | the counter of box ids; per execution a directory, box or container, its files, a command | Execute of the three executors |
| Archives | `pkg/utils/zip.go` | the entries unpacked so far | ExtractZipFromBase64 |
| Command line client | `cmd/cee/{config,auth,keys,exec,info}.go` | one file, `~/.cee/config.json`: address, token, metrics key, role | login, logout, connect, set-*; the other commands read it and ask a server |
| Scan, utilities, registry, configuration | `pkg/utils/{base64,compare}.go`, `pkg/security`, `pkg/languages`, `pkg/config` | none worth a model, or constants | |

Handlers and workers meet only in the queue: a handler enqueues and possibly waits, a
worker dequeues, runs, stores the result and signals. With `REDIS_URL` set, server
processes and standalone workers (`cee worker`) share the queue and the keys through one
Redis; without it a server is alone. Every request passes the key middleware, which
reads the key store; only the key handlers and the start of a server write it. The hard
behaviour:

- handlers, workers, callbacks, the TTL janitor and DELETE interleave at every access
  to the channel, the store, the listener map and the counters;
- a waiting handler must not miss a result that is produced while it gets ready to wait;
- a timer, a disconnection and a late result race for the same listener;
- the store entry exists before the queue accepts the job, and after it was deleted;
- shutdown cancels workers that may hold a job, and closes a channel that handlers
  may still send to;
- with Redis every step of a method is a command that can fail or lose its answer, a
  process can die between any two of them, and a message reaches only those who
  are subscribed at that moment;
- a command in a sandbox ends, overruns, is killed, loses its connection or is cut by
  the shutdown, and each executor learns of it in its own way; a sandbox must go
  whichever way its execution ends;
- a request reads the clock before it takes the limiter's mutex, so windows meet requests
  out of order, and a janitor removes windows in between;
- commands of the client run at the same time in several terminals over one file
  without a lock, can be interrupted at any point, and mix it with the environment;
- every server answers from its own cache of the keys, written before or after Redis and
  read back only at the next start.

What makes each component correct: the **queue** runs an accepted job exactly once and
tells a waiter about it; its **store** shows a result that never changes; its
**counters** never drift. A **handler** answers 201 only for jobs the queue took. The
**pool** finishes what it started before the queue closes, and stops. The **key store**
never loses an active key or the last master, and a revoked key stays revoked. The
**limiter** bounds what an address gets through in a window's time and refuses nobody
for others. The **client** stores next to a token it verified the role the server gave
it, no command that starts after a logout brings back what that cleared, a save keeps
what its command does not set, and a command with a timeout ends. (A command that was
under way can undo a logout, and a token that was typed keeps the old role.) An
**executor** returns a verdict of the program and never of its own failure, and removes
the sandbox it opened.

## 2. Modules

| Module | Models |
| --- | --- |
| `Submission` | the status table and `IsFinished` |
| `MemoryQueue` | the queue's state, and its methods as steps of the goroutine that calls them |
| `MemoryEngine` | handlers, workers, callbacks, DELETE, cleanup and shutdown around one `MemoryQueue`; `Next`, `Spec`, `FairSpec` |
| `SubmissionLifecycle` | what both queues promise of one submission, without goroutines or commands: queued once, taken once, and a reader is shown what the job had reached |
| `SubmissionLifecycleProofs` | what every implementation of it shows its readers |
| `MemoryEngineProperties` | what the engine promises, and its mapping to `SubmissionLifecycle` |
| `MemoryEngineInvariant` | the inductive invariant |
| `MCMemoryEngine` | instances for TLC |
| `MemoryEngineProofs` | the theorems about it: its safety, the exactness of the counters of `/statistics`, and that it implements `SubmissionLifecycle` |
| `RedisQueue` | the list, the keys with a TTL and the subscriptions, and the methods of the Redis queue as sequences of commands |
| `RedisEngine` | servers and standalone workers around one `RedisQueue`: handlers, pools, callbacks, DELETE and TTL, stops, crashes, restarts |
| `RedisEngineInvariant` | the inductive invariant `RInv` of the cluster |
| `RedisEngineProofs`, `RedisEngineRefinement` | proofs about `RedisEngine`: its safety, and that it implements `SubmissionLifecycle` |
| `RedisEngineProperties`, `MCRedisEngine` | what the cluster promises, its mapping to `SubmissionLifecycle`, and instances for TLC |
| `Credential` | kinds of keys, permissions and the checks of the middlewares |
| `KeyStore` | the memory store, the Redis store, hydrate and one turn of bootstrap |
| `KeyServer` | requests (with and without a key, key creation, revocation) and the life of the servers over `KeyStore` |
| `KeyServerProperties`, `KeyServerInvariant`, `MCKeyServer` | promises, inductive invariant, instances |
| `KeyServerProofs` | the theorems about it |
| `Verdict` | what each executor learns of the end of a command, and `Parse` |
| `Executor` | workers running submissions through one of the executors: sandbox, files, archive, checks, compiler, program, removal |
| `ExecutorProperties`, `ExecutorInvariant`, `MCExecutor` | promises, inductive invariant, instances |
| `ExecutorProofs` | the theorems about it |
| `RateLimiter`, `MCRateLimiter` | requests, windows, the janitor and the address a request counts for; promises and instance |
| `RateLimiterInvariant`, `RateLimiterProofs` | its inductive invariant and the theorems about it |
| `Client` | terminals running commands over one configuration file and a server |
| `ClientProperties`, `ClientInvariant`, `MCClient` | promises, inductive invariant, instance |
| `ClientProofs` | the theorems about it |

**Correspondence.** `pc[p]` is the place of goroutine `p` in the code; a step is one
access to shared state (a channel operation, a `sync.Map` call, one atomic add, load or
gauge set). Accesses are merged only where nobody can see between them; the comment at
the definition says why. A `*SubmissionJob` is its status: `status[t]` is the object's
field, `snap[t]` the snapshot that `SignalCompleted` puts in its place, and `store[t]`
which of the two the entry points to, so that `Seen(t)` is what `GetSubmission`
returns. `mailbox[t]` is the buffered listener channel. `sent` and `removed` are history
variables that no guard reads. A definition called *Variant* in a comment is an
alternative form of the definition below it, kept to see that the properties notice
the difference; no specification uses it.

In `RedisQueue` a step is one Redis command. A worker works on `copy[w]`, the object it
decoded; `key[t]` is what everybody else sees. `subs[r]` is `sent` between the call of
`Subscribe` and its execution by Redis, which comes at any time after it
(`SubscribeTakesEffect`); `missed` is history, the requests whose message was published
in between. `cur[w]` is the token a worker popped and has not finished.

In `KeyStore`, `entry[n]`, `hash[n]` and `byHash[n]` are the two maps of the cache of
process `n` (both maps share the key object, so a revocation shows in both), and `meta`
and `all` are Redis. A call reads the caller's key once, at the middleware, and acts on
that copy although the key may be revoked meanwhile, as the code does. `kept`, `retired`
and `revokedOn` are history. The critical sections of the store's mutex are single steps.

In `Executor` a step is one call that may fail or be overtaken by the cancellation of the
pool: the opening of the sandbox, the files, one entry of an archive, the start and the
end of a command. `using[w]` differs from `engine` after the fall-back of a missing image.
`box[w]` is what the deferred calls will remove, a box of isolate by its ticket, and
`sandboxes` what exists on the host, a box by its id. `end`, `built`, `lost`, `lapped` and
`stranded` are history: how the program really ended, whether the compiler exited with 0,
whether some report differed from what happened, whether box ids came round during an
execution, and which sandboxes an opening that failed left on the host: the removal is
deferred only after `isolate --init` or the create of a container succeeded, and a
cancelled one may have done its work (`OpeningFails`).

The refinement maps each engine to `place` (where the job is), `work` (the status of the
object its worker has) and `view` (what a reader is shown). In memory `view` is `Seen`,
which follows the worker's object at once or shows the snapshot; with Redis it is the key.
`MayLose` is the only difference: with Redis a job may go out of the system without a
verdict, in memory never. A removed entry may come back, as the code stores it again.

In `RateLimiter` a request is two steps, the clock (with the address) and the critical
section with the decision; `Sweep` is one turn of the janitor, with the clock read under
the mutex as in the code. `clients[a]` with count 0 is a missing entry. `passed` is the
log of the requests that were let through, with the clock each read, the clock when it was
counted and the start of its window, and `swept` and `overtaken` find the requests the
janitor overtook; all three are history.
`RealIP` of chi runs before `getClientIP` and has already replaced the peer's address.

In `Client` a step ends at each access to the file, the truncation and the write of a
save apart, and at each answer. `text` and `file` are the file: what does not parse
says nothing. `cfg[s]` is the command's copy of the configuration, `cmd[s]` its arguments.
`GiveUp` is a timeout, a lost connection or a status the command does not expect;
`Interrupt` ends a command anywhere. `cee run` is refused, runs in an executor of its own
(place `local`, which nothing obliges to end) or asks a server; `limited` says whether its
`--timeout` leaves that request a timeout. The server is what the client sees of `KeyServer`:
`active` keys, and the two calls that change them. `base` (the file as it
was when the command read it), `entered` and `gone` are history.

**Abstractions.** Source, output and limits of a job are dropped. The executor returns
any status of `Verdicts`, or fails; `CompareOutput` may say either; the static scan
rejects the tokens in `Rejected`; a callback is delivered or dropped. Timers are steps
that may come at any time: `HandlerTimeout` (30 s), `ShutdownReturns` (10 s, or all
handlers done), `Cleanup` (any finished entry of `Expirable`). A send on the closed
channel panics and is recovered by the router, which is an `EnqueueRefused`. The branch
of `Dequeue` for a closed channel cannot be reached in the server, because `Close` runs
after `Stop` (`Closing` in the invariant), and is not an action. The unlocked read of
the job in the handler's fallback (`submissions.go:44`) is modelled for the status only.

With Redis, a failing command either took effect or not, and at most `MaxFaults` fail;
`Retries` adds the repetition of an LPUSH by go-redis. `RemoveSubmission` stands for DELETE
and for the TTL. The pool's context makes the commands of a cancelled worker fail. The
fall-back to the in-memory queue when Redis does not answer at the start leads to the
other engine and is not an action. A key is its id, kind, digest and status; ids and
digests of random keys are never drawn twice, and the configured tokens are different
from each other and stay the same over restarts (`KeyAssumption`). `LastUsedAt` is written
by `TouchKey` and read by nobody. `cee:keys:hash:*` is written and never read. Login and
verify ask what `/api/capabilities` asks and are the same endpoint here.

A submission of `Executor` is its shape (multi-file or not, compiled or not, archive, run
script, expected output). An archive is a sequence of sizes and kinds; a path that leaves
the directory is a kind. Removals succeed: the code ignores their errors. One orphaned
container stands for all of them. The limits that differ between the executors are one
"late". `unzip` in the container refuses unsafe
paths and knows no limits, as in the code. The engines above use an executor only as a
choice of verdicts; `Verdicts` and `ExecuteFails` cover what `Executor` returns.

## 3. Runs

Constants: `Capacity = 1` makes the buffer full with two jobs. One waiting request, or a
batch of two, against two workers are the smallest instances in which each race of
section 1 can happen. The 10000 slots, 20 jobs and 4 workers of the code add no new
kind of step. `Verdicts = {3}` is enough with `ExecuteFails`, `ScanRejects` and the
wrong answer: the code only tells Accepted from the rest.

| Run | Instance | Checks | Shows |
| --- | --- | --- | --- |
| `engine` | 1 waiting request with callback and expected output, 2 workers, timer, disconnection, DELETE, shutdown, fair | `IInv`, `AnswersAreFinal`, `StartedIsFinished`, `CallbackSeesResult`, `ImplementsLifecycle`, `EveryJobFinishes`, `WaiterAnswered`, `StopTerminates` | the refinement; the look, register, look protocol and its three ways out; results are stored before the queue closes and never change; progress without the timer, and `Stop` returns; the invariant of the proofs |
| `pool` | a batch of two, 2 workers, DELETE, expiry, shutdown | `ExactlyOnce`, `StatsExact`, `AcknowledgedWasSent`, `UnfinishedIsInFlight` | no job lost or doubled, no drift of the counters, partial refusal of a batch |
| `redis_chaos` | 1 waiting request with callback; a server and a worker process; one failing command, one crash, one stop, a subscription that takes effect at any time, DELETE/TTL, disconnection | `RunOnce`, `AnswersAreFinal`, `StartedIsFinished`, `ImplementsLifecycle` | safety whatever happens; the refinement |
| `redis_batch` | a batch of two, 2 processes, two failing or repeated commands, one crash | `RInv`, `AcknowledgedWasSent`, `UnfinishedIsInFlight` | a 201 is honest, nothing is lost before the first fault; the invariant of the proofs |
| `redis_live` | 1 waiting request, 2 processes, one fault, one stop, one crash, fair | `PublishedIsHeard`, `EveryJobFinishes`, `RequestsEnd`, `StopsEnd` | nobody hangs; a message is missed only by a subscription that it overtook |
| `keys_guard` | a configured master and metrics key, a master and a guest to create, a combination that does not exist; every endpoint, 2 callers, no Redis | `CapabilitiesAreExact`, `MasterRemains`, `RevokedIsRefused` | listed permissions and checks agree; the guard under concurrent DELETEs |
| `keys_redis` | 2 servers on one Redis, one failing command, restarts | `KInv`, `IssuedIsDurable`, `RevocationIsDurable` | the cache, Redis and what clients were told; the invariant of the proofs |
| `keys_restart` | 1 server with Redis, 1 caller | `IssuedKeysSurvive` is violated | issued keys do not survive a restart |
| `executor` | 2 workers, 7 shapes, each executor the host may offer, shutdown | `XInv`, `SandboxesOwned`, `UnpackedWhole`, `VerdictIsEarned` | sandboxes over every way out, also of a failed opening; the limit of archives; verdicts under races of deadline, end and shutdown; the invariant of the proofs |
| `executor_accepted` | isolate, 2 shapes | `AcceptedExitedWithZero` is violated | a failure of isolate is read as success |
| `limiter` | 2 requests at a time, 7 in all, of one address, direct and behind a proxy; limit 2, window 1, 5 instants | `BurstIsBounded`, `RefusedForCause` | what the fixed windows really bound, and that refusals have a cause |
| `client` | 2 terminals, one with a token and a metrics key in its environment; 2 servers, 5 keys, 3 of 27 commands, fair | `CInv`, `FileIsCoherent`, `LogoutSticks`, `KeepsTheRest`, `CommandsEnd` | the configuration under concurrent, interrupted and overlapping commands; the invariant of the proofs |

`IInv`, `RInv`, `KInv`, `CInv` and `XInv` include the types, `IInv` also
`ListenersOwned`, `KInv` `IndexAgrees`, and `IInv` implies `NoLostWakeup`: these are not
checked a second time. `ImplementsLifecycle` forbids what `FinalIsFinal` does (a reader
who was shown a verdict is shown that one or nothing).

With Redis, two processes and one or two jobs are the smallest cluster in which a job
changes hands; one fault, one stop and one crash each can hit every command. Two
callers and two masters are the smallest race for the last master. The number of keys
bounds the number of creations. Workers of one pool and callers of one process are
interchangeable, hence the symmetry sets of `pool`, `keys_guard` and `executor`.

`executor`: two box ids and three allocations let one execution be lapped while the other
is not (`MaxBoxes` bounds the allocations; the other executors need no bound). A limit of
two bytes and two entries has archives at, below and above it. Exit codes 0 and 1 and one
signal tell all branches of Execute apart; the table in `Parse` is copied, not checked.

`limiter`: seven requests and five instants hold three windows of one address that start
more than a window apart, a sweep between them, and a request that reads the clock in one
and is counted two windows later. That is what the bound of `BurstIsBounded` is about: with
one less the property fails, and `2 x limit` alone, the bound when requests never wait for the
mutex, fails from six requests on. The inductive invariant `LInv` was checked on the same
instance. A second address changes nothing for the first, which the proof shows.

`client`: a command in flight, a logout and a later command, or a login with a metrics key,
a login as guest and a `connect` at the same time are three commands; with four (two
million states) the invariants and `KeepsTheRest` hold as well. Servers other than `Home`
refuse every key. An address is taken without its trailing slashes and can be empty with
`set-url`; `--url` with slashes only, which the client takes for an address, is not among
the commands.

Deadlock is not checked where `Stoppable = FALSE`, because an idle server has nothing to do,
nor in the executor runs, which end at `MaxBoxes` or with a panicked process, nor in
`limiter` and `client`, which end at their bounds. The other runs end in the exited
process, which stutters.

**Fairness** (`engine`): weak fairness of each handler's own steps, of each
worker, of each callback and of the steps of shutdown, because the Go scheduler runs
every goroutine that can run and each of these steps stays enabled until taken. The
executor is assumed to return (every implementation sets a wall time limit). None is
assumed of clients, signals, DELETE, the janitor or the 30 s timer, so that
`WaiterAnswered` does not lean on the timer.

`redis_live` assumes the same of handlers, workers and the stop of a process, and weak
fairness of the 30 s timer, because with pub/sub it is the timer that ends a wait for a
message that was lost or never sent. Restarts, crashes and faults are not assumed;
`EveryJobFinishes` speaks of runs without them, `RequestsEnd` and `StopsEnd` of all.

`client` assumes fairness of the steps a process takes by itself, `Truncate` and `Write`,
and of the timeouts of the HTTP clients (`GiveUp`), none of answers, executors, typing and
interrupts. Three commands have no timeout and are not promised to end (`HasTimeout`, place
`local`): `cee health`, a `cee run` that asks a server with a `--timeout` below -14, to
which `exec.go:413` adds 15 s and which Go takes for none, and a `cee run` on this host,
which ends when the executor returns.

**Disagreements.** Two have a run:

- `executor_accepted`: docs/api.md:126 "Process exited with code 0", but
  `isolate.go:226` drops the error of isolate and `isolate.go:252` starts from exit code
  0, so a command that was killed by a signal, cut or never started counts as 0.
- `keys_restart`: store.go:172 "Redis-backed persistence", but the digest is not in the
  stored record (`key.go:55`) and hydrated keys cannot be found by their token.

Seven more follow from the models and have no run of their own:

- README.md:365 "Delete submission from cache", but `worker.go:93` and `memory.go:173`
  store it again (`Publish` of the lifecycle needs no entry);
- README.md:26 "instant response on `?wait=true`", but `redis.go:160` does not wait
  until the subscription is in force, and a message that overtakes it reaches nobody
  (`missed`, the exception of `PublishedIsHeard`);
- middleware.go:290 "sliding window", but windows are fixed and nearly twice the limit
  passes around a boundary, and more with requests that wait for the mutex
  (`BurstIsBounded`);
- README.md:363 "wait for completed result", but after 30 s (`memory.go:204`) the
  handler answers 201 with an unfinished submission (reply `timeout`);
- GUIDE.md:389 "protected by last-master lockout guard", but after a restart with Redis
  `store.go:141` counts a hydrated master without a digest, which is why `MasterRemains`
  speaks of servers without Redis;
- metrics.go:32 "Current number of submissions waiting in queue", but the load and the
  set of the gauge at `memory.go:100` are two steps, and two goroutines can publish in
  the wrong order;
- docs/api.md:136 "Internal Error: Sandbox or runner failure", but when the exec of
  `unzip` fails `docker.go:270` reads a missing result and the panic ends the process
  (`UnzipPanics`).

## 4. Proofs

`MemoryEngineProofs` proves, for every set of requests, workers and tokens, every
capacity, and every choice of the other constants that meets the assumptions:

`Spec => []P` for `TypeOK`, `IInv`, `ExactlyOnce`, `AcknowledgedWasSent`, `NoLostWakeup`,
`AnswersAreFinal`, `ListenersOwned`, `CallbackSeesResult`, `UnfinishedIsInFlight` and
`StartedIsFinished`, and the action property `FinalIsFinal`.

Assumptions: a positive capacity; handlers and workers are different goroutines; a token
belongs to one place of one request (uuid); a waiting request has one job; the executor
returns a finished status.

The argument. None of the properties is inductive: that a waiter is woken depends on
where the worker of its job is, and that a result is final depends on who may still
write the job. `IInv` therefore says, for each label, what the goroutine there may rely
on: `Holding` ties the status of a job to the progress of its worker, `Wakeup` says that
a waiter has its listener while its job is under way, or a result on its way or in its
channel, `SendOrder` and `AnswerOrder` say which jobs of a request were sent, `Results`
that a snapshot agrees with its job, `Entries` and `Leftovers` why an entry is there,
`Closing` that the workers are gone when the channel is closed. One lemma per action
shows that it preserves `IInv`, one step per conjunct it can disturb; the steps that only
move counters and gauges share `QuietPreserves`. The properties follow from `IInv` alone,
except `FinalIsFinal`, which needs one more fact per step: the status of a job only moves
forward (`StatusMoves`), and what a reader sees is that status (`SeenIsStatus`).

It also proves `Spec => []StatsExact` for finitely many requests and workers.
`HandlerMoves` and `WorkerMoves` say that a step changes the number of goroutines at a set
of places by what its own goroutine leaves and enters; `IInv` gives that a job that is sent
was not sent before and that a verdict is a job's first. Eight steps change what is counted
and have lemmas, all others move nobody across a border (`HandlerExact`, `WorkerExact`).

And it proves `Spec => ImplementsLifecycle` from the same assumptions:
`IInv` makes each step that moves a job one step of the lifecycle, with one lemma for each
(`StorePosts`, `SendAccepts`, `ReceiveTakes`, `StartStarts`, `VerdictDecides`,
`SnapshotPublishes`, `LettingGoReleases`, `RemovalRemoves`), and every other step a
stutter. That a worker never meets a verdict it did not give, and that a snapshot is put
in place of an entry that shows the same or nothing, is where the invariant is needed.

`RedisEngineProofs` proves, for every set of processes, requests, workers and tokens, and
any number of failing commands, stops and crashes: `Spec => []P` for `TypeOK`, `RInv`,
`AcknowledgedWasSent`, `StartedIsFinished`, `UnfinishedIsInFlight` and `PublishedIsHeard`;
for `RunOnce` and `AnswersAreFinal` if go-redis repeats no LPUSH (`Retries = FALSE`), and
the model breaks these two otherwise. Assumptions as above, and that every goroutine
belongs to a process.

The argument. With Redis nobody sees the worker's object, so the invariant relates
three things: where the token is (`Accounted`, `RunOnce`), what its worker knows (`Holds`)
and what the key may say by then (`Follows`). `Settled` is the point after which nobody
writes a key: its token is out of the list and its worker only announces it. A verdict in
a key makes it settled (`FinishedIsSettled`), which is why an answer stays true
(`Learns`). The parts that need a token to be in one place hold only while no token was
pushed twice (`Single`), and each lemma shows that this was so before a step if it is so
after it; `StartedIsFinished`, `UnfinishedIsInFlight` and `PublishedIsHeard` are carried
by the same steps as long as the system is calm. There is one lemma per command;
`PostedPreserves`, `PushedPreserves`, `PoppedPreserves`, `WrittenPreserves` and
`VanishPreserves` stand for those that can fail in several ways.

`RedisEngineRefinement` proves `Spec => ImplementsLifecycle` for `Retries = FALSE`: the
cluster takes the same steps of the lifecycle as the engine in memory, with the failing
commands and the crashes as releases or stutters. The worker's copy is In Queue at the
GET only by `Follows`, and `RunOnce` before and after a step makes it the only copy.

`SubmissionLifecycleProofs` proves of the lifecycle itself, for any submissions and
whatever is lost, that what a reader is shown moves forward and a verdict stays
(`OnlyForward`): by `LifeInv` the view is never ahead of the worker. The cluster inherits
it: `RedisFinalIsFinal` is `Spec => FinalIsFinal`, the refinement followed by that theorem
(`Inherited`). It needs no look at a Redis command, and says what the engine in memory has a
proof of its own for, since there the same is asked of two objects behind one entry.

`KeyServerProofs` proves, for every set of processes, callers, keys and configured tokens,
with and without Redis and for any number of faults: `Spec => []P` for `TypeOK`, `KInv`,
`IndexAgrees`, `RevokedIsRefused`, `IssuedIsDurable`, `RevocationIsDurable`,
`MasterRemains` and `CapabilitiesAreExact`. Assumptions: finitely many ids; digests are
injective (SHA-256 of different tokens); configured keys have the role master.

`KInv` is needed because the promises lean on each other: that a revoked key is refused
needs the index to lead from a digest to the key it belongs to (`IndexAgrees`) and the
digest in the cache to be the key's own or empty (`OwnDigest`); that a creation succeeds
and is durable needs a fresh id, in no cache and not in Redis until its own pipeline
(`Fresh`), and what a call may rely on between its two steps (`Progress`); `Masters` needs
the state of Bootstrap before the server listens. The heart of `MasterRemains` is
`AnotherMaster`: a count above one leaves a different active master, which is a fact
about finite sets. Actions that give a process a new cache (start, end) share
`NewCachePreserves`, the two outcomes of the write after a revocation `StatusPreserves`.
`CapabilitiesAreExact` follows from `Exact`, which adds that a call between its two steps
has passed its middleware (`AdmitsExact`), so that what remains is a comparison of the
permissions of a role with each check.

`ClientProofs` proves, for every set of terminals, addresses, keys, environments and
commands: `Spec => []P` for `CInv`, `FileIsCoherent` and `LogoutSticks`, and the action
property `KeepsTheRest`. Assumption: `ClientAssumption` (the values are those of the
command line). The file alone is not inductive, because what a command saves is a copy it
read long before: `Copies` says of every copy that is still to be saved that it fits
together, keeps what its command does not set and holds nothing a logout cleared, `Places`
that only saving commands get there, and `Cleared` that no running command and no
environment brings back what is gone. `OthersKeep` is the lemma for the other terminals.

`ExecutorProofs` proves, for every set of workers, submissions, archives, exit codes and
signals, every limit and number of box ids, and each executor: `Spec => []P` for `XInv`,
`SandboxesOwned`, `UnpackedWhole` and `VerdictIsEarned`. Assumptions: `ExecutorAssumption`
and `EndingAssumption` (the values are those of the code).

The argument. A box of isolate exists under an id that comes round, so that its worker is
its owner only until it is lapped: `Boxes` ties the tickets that are held to the host
(`Held`), to each other (`Apart`) and to the counter (`Recent`), and two tickets less than
a round apart have different ids (`TicketsDiffer`). Every action leaves the sandboxes
alone, returns one, acquires one or fails to open one (`BoxesStay`, `BoxesReturn`,
`BoxesAcquire`, `OpeningFailsPreserves`); what a failed opening strands has an id that no
execution holds (`NewTicketDiffers`). The rest
speaks of one execution at a time: `Unpacking` says what is on the disk after each entry
of an archive, `Executing` what is known of the end of the compiler and the program at
each place. `StepPreserves` reduces the invariant to the worker that moved; early returns,
refusals, moves and verdicts have a lemma each. The action property `ReturnsWithVerdict`
(every way out of Execute has a finished status, `StepEnds`) is what the engines assume of an
executor (`VerdictsAssumption`, `RedisVerdictsAssumption`).

`RateLimiterProofs` proves, for every set of addresses, proxies and origins, every limit,
window and clock, and any finite number of requests at the same time: `Spec => []P` for
`LInv`, `BurstIsBounded` and `RefusedForCause`. Assumptions: `LimitAssumption`,
`OriginAssumption` (a peer has an address), `IsFiniteSet(Request)`.

The argument. `Filled` ties the count of the open window to the log, `Recorded` an entry
of the log to its window, and `Spaced` says of an address that no request of it was
overtaken by the janitor that its windows start more than their length apart, at the
time their first request read. So two windows at most start where a burst can reach
them, and of the older one the request that opened it is outside the burst (`InTime`):
fewer than twice the limit. What else the burst got through was counted in a window that
starts after it. `Slow` counts those together with the requests that can still become
such: a request that reads the clock later is none of them, one that is let through
leaves the second set for the first (`AdmitSlow`), and the request that opens the first
such window was not among them, which leaves fewer than there are requests at the same
time. Counting a request is split into refusal (`RefuseLInv`), joining a window and
opening one (`JoinsAnother`, `OpensLater`).

Model-checked only: the liveness properties `EveryJobFinishes`, `WaiterAnswered`,
`StopTerminates`, `RequestsEnd`, `StopsEnd` and `CommandsEnd` (fairness and ENABLED are
outside the prover). Proved and not in a run, because a run checks something stronger:
`TypeOK`, `NoLostWakeup`, `IndexAgrees`, `FinalIsFinal` and `OnlyForward`; `LInv` and
`ReturnsWithVerdict` hold on the instances of `limiter` and `executor`.

## 5. Not modelled, and the plan

The two engines and their common specification, the key management, the executors, the
rate limiter and the client are done. What is left that could be modelled is the clamping
of limits in `buildJobFromRequest`, a comparison per limit.

Left out for good: the sandboxes and containers themselves, HTTP and JSON formatting, the
patterns of the static scan, the language table, the command line client's output. The
server side of the client's requests is `KeyServer`; a request that is served after the
client gave up, and a write that the system cuts in the middle, are not steps of `Client`.
