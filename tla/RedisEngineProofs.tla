-------------------------- MODULE RedisEngineProofs --------------------------
(***************************************************************************)
(* RInv is an invariant of RedisEngine, for any number of processes,       *)
(* requests, workers and jobs and any number of failing commands, stops    *)
(* and crashes; the safety properties of the cluster follow.  Steps that   *)
(* leave the list, the keys and the workers' tokens alone share the        *)
(* lemmas QuietHandler, QuietWorker and QuietNode; every other action has  *)
(* a lemma of its own, with one step per conjunct.                         *)
(***************************************************************************)
EXTENDS RedisEngineInvariant, TLAPS

USE DEF redisVars, engineVars, requestVars, nodeVars, Goto, Respond, Thread, Status, Reply,
        HandlerLabel, WorkerLabel, Unsent, Looking, Subscribed, Free, Fetched, Busy, IsFinished,
        StatusInQueue, StatusProcessing, StatusInternalError, Fault, RedisTypeOK

\* The token a handler is at is a token, and no other handler is at it: every job
\* has its own uuid (submissions.go:252).
LEMMA TokFacts ==
    ASSUME TypeOK
    PROVE  \A r \in Request : /\ Tok(r) \in Token
                              /\ idx[r] \in 1 .. Len(Jobs[r])
                              /\ \A s \in Request : Tok(r) = Tok(s) => r = s
BY RedisJobsAssumption DEF TypeOK, Tok

\* Handlers and workers are different goroutines.
LEMMA Apart == \A r \in Request, w \in Worker : r # w
BY RedisThreadAssumption

\* Faults are only counted up, so no token was pushed twice before either.
LEMMA SingleBefore ==
    ASSUME TypeOK, faults' \in {faults, faults + 1}
    PROVE  /\ Single' => Single
           /\ faults' = 0 => faults = 0
BY DEF Single, TypeOK

\* A key with a verdict is not written again (redis.go:147): its token is out of
\* the list and its worker, if there is one, only announces it.
LEMMA FinishedIsSettled ==
    ASSUME RInv, Single, NEW t \in Token, IsFinished(key[t])
    PROVE  Settled(t)
<1> USE DEF RInv
<1>1. t \in sent
  BY DEF Keys
<1>2. ~Listed(t)
  BY DEF RunOnce
<1>3. ASSUME NEW w \in Worker, t \in cur[w] PROVE pc[w] = "SigPublish"
  <2>1. Holds(w) /\ Follows(w)
    BY DEF Workers, Keys
  <2>2. pc[w] \in WorkerLabel \ (Free \cup Fetched \cup Busy)
    BY <1>3, <2>1 DEF Holds, Follows
  <2> QED BY <2>2
<1> QED BY <1>1, <1>2, <1>3 DEF Settled

-----------------------------------------------------------------------------
(* Steps that leave the list, the keys and the tokens of the workers alone. *)

\* A handler goes on or answers (submissions.go:28-60).
LEMMA QuietHandler ==
    ASSUME RInv, TypeOK', NEW r \in Request, pc[r] # "Replied",
           UNCHANGED <<list, key, copy, cur, inbox, missed, life, stops, crashes, sent, removed>>,
           faults' \in {faults, faults + 1},
           \A s \in Request : s # r =>
               /\ pc'[s] = pc[s] /\ idx'[s] = idx[s] /\ subs'[s] = subs[s]
               /\ reply'[s] = reply[s] /\ answer'[s] = answer[s],
           \A w \in Worker : pc'[w] = pc[w],
           SendsInOrder(r)', Stands(r)',
           inbox[r] \/ pc[r] = "EnqPush" \/ reply'[r] \in {"ready", "signal"} => idx'[r] = idx[r],
           pc[r] = "EnqPush" => reply'[r] = "refused",
           reply'[r] = "ready" => IsFinished(answer'[r]) /\ key[Tok(r)] = answer'[r],
           reply'[r] = "signal" /\ faults' = faults => key[Tok(r)] \in {0, answer'[r]},
           pc'[r] = "WaitSelect" /\ faults' = faults => ~IsFinished(key[Tok(r)']) 
    PROVE  RInv'
<1> USE DEF RInv
<1>a. \A s \in Request : s # r => Tok(s)' = Tok(s)
  BY DEF Tok
<1>b. idx'[r] = idx[r] => Tok(r)' = Tok(r)
  BY DEF Tok
<1>c. /\ Single' => Single
      /\ faults' = 0 => faults = 0 /\ faults' = faults
  BY SingleBefore DEF TypeOK
<1>d. \A t : (Settled(t)' <=> Settled(t)) /\ (Listed(t)' <=> Listed(t)) /\ (Held(t)' <=> Held(t))
  BY DEF Settled, Listed, Held
<1>1. Workers'
  BY DEF Workers, Holds
<1>2. SendOrder'
  BY <1>a DEF SendOrder, SendsInOrder
<1>3. Handlers'
  BY <1>a DEF Handlers, Stands
<1>4. Accounted' /\ Signals'
  BY DEF Accounted, Signals
<1>5. ASSUME Single' PROVE RunOnce' /\ Keys' /\ Answers'
  <2>1. RunOnce /\ Keys /\ Answers
    BY <1>5, <1>c
  <2>2. RunOnce'
    BY <2>1, <1>d DEF RunOnce
  <2>3. Keys'
    BY <2>1, <1>c DEF Keys, Follows
  <2>4. ASSUME NEW s \in Request, s # r PROVE Learns(s)'
    BY <2>1, <2>4, <1>a, <1>c, <1>d DEF Answers, Learns
  <2>5. Learns(r)'
    <3>1. Learns(r)
      BY <2>1 DEF Answers
    <3>2. inbox[r] => Tok(r)' = Tok(r)
      BY <1>b
    <3>3. reply'[r] = "ready" => Settled(Tok(r)) /\ Tok(r)' = Tok(r)
      BY <1>5, <1>b, <1>c, FinishedIsSettled, TokFacts
    <3>4. reply'[r] = "signal" => inbox[r]
      BY DEF Stands
    <3>5. reply'[r] = "signal" /\ faults' = 0 /\ Tok(r)' \notin removed' => key'[Tok(r)'] = answer'[r]
      BY <3>1, <3>2, <3>4, <1>c DEF Learns
    <3> QED BY <3>1, <3>2, <3>3, <3>5, <1>c, <1>d DEF Learns
  <2> QED BY <2>2, <2>3, <2>4, <2>5 DEF Answers
<1>6. StartedIsFinished'
  BY <1>c, <1>d DEF StartedIsFinished, Calm
<1>7. UnfinishedIsInFlight'
  <2> SUFFICES ASSUME Calm', stops' = 0, NEW t \in Token, key[t] # 0, ~IsFinished(key[t]),
                      ~Listed(t), ~Held(t)
               PROVE  \E s \in Request : Tok(s)' = t /\ (pc'[s] = "EnqPush" \/ reply'[s] = "refused")
    BY <1>d DEF UnfinishedIsInFlight
  <2>1. Calm /\ stops = 0
    BY <1>c DEF Calm
  <2>2. PICK s \in Request : Tok(s) = t /\ (pc[s] = "EnqPush" \/ reply[s] = "refused")
    BY <2>1 DEF UnfinishedIsInFlight
  <2>3. s = r => pc[r] = "EnqPush"
    BY <2>2 DEF Handlers, Stands
  <2> QED BY <2>2, <2>3, <1>a, <1>b
<1>8. PublishedIsHeard'
  <2> SUFFICES ASSUME Calm', NEW s \in Request, pc'[s] = "WaitSelect",
                      IsFinished(key[Tok(s)']), ~Held(Tok(s)')
               PROVE  inbox[s] \/ s \in missed
    BY <1>d DEF PublishedIsHeard
  <2>1. Calm /\ faults' = faults
    BY <1>c DEF Calm
  <2>2. s # r
    BY <2>1
  <2> QED BY <2>1, <2>2, <1>a DEF PublishedIsHeard
<1> QED BY <1>1, <1>2, <1>3, <1>4, <1>5, <1>6, <1>7, <1>8

\* A worker goes on without letting go of a verdict (worker.go:77, 96-117).
LEMMA QuietWorker ==
    ASSUME RInv, TypeOK', NEW w \in Worker, pc[w] # "SigPublish",
           UNCHANGED <<list, key, cur, subs, inbox, missed, idx, reply, answer, life, stops, crashes,
                       sent, removed>>,
           faults' \in {faults, faults + 1},
           \A r \in Request : pc'[r] = pc[r],
           \A v \in Worker : v # w => pc'[v] = pc[v] /\ copy'[v] = copy[v],
           Holds(w)', Single' => Follows(w)'
    PROVE  RInv'
<1> USE DEF RInv
<1>a. \A r \in Request : Tok(r)' = Tok(r)
  BY DEF Tok
<1>c. /\ Single' => Single
      /\ faults' = 0 => faults = 0
  BY SingleBefore
<1>d. \A t : (Settled(t) => Settled(t)') /\ (Listed(t)' <=> Listed(t)) /\ (Held(t)' <=> Held(t))
  BY DEF Settled, Listed, Held
<1>1. Workers'
  BY DEF Workers, Holds
<1>2. SendOrder' /\ Handlers'
  BY <1>a DEF SendOrder, SendsInOrder, Handlers, Stands
<1>3. Accounted' /\ Signals'
  BY DEF Accounted, Signals
<1>4. ASSUME Single' PROVE RunOnce' /\ Keys' /\ Answers'
  <2>1. RunOnce /\ Keys /\ Answers
    BY <1>4, <1>c
  <2>2. RunOnce'
    BY <2>1, <1>d DEF RunOnce
  <2>3. Keys'
    BY <2>1, <1>4, <1>c DEF Keys, Follows
  <2>4. Answers'
    BY <2>1, <1>a, <1>c, <1>d DEF Answers, Learns
  <2> QED BY <2>2, <2>3, <2>4
<1>5. StartedIsFinished'
  BY <1>c, <1>d DEF StartedIsFinished, Calm
<1>6. UnfinishedIsInFlight'
  <2>1. Calm' => Calm
    BY <1>c DEF Calm
  <2> QED BY <2>1, <1>a, <1>d DEF UnfinishedIsInFlight
<1>7. PublishedIsHeard'
  BY <1>a, <1>c, <1>d DEF PublishedIsHeard, Calm
<1> QED BY <1>1, <1>2, <1>3, <1>4, <1>5, <1>6, <1>7

\* A client, a process or a callback does something that no job notices
\* (server.go:131, worker.go:167).
LEMMA QuietNode ==
    ASSUME RInv, TypeOK', Workers', Handlers', Signals', stops <= stops',
           UNCHANGED <<list, key, faults, copy, cur, inbox, missed, idx, reply, answer, crashes,
                       sent, removed>>,
           \A r \in Request : pc'[r] = pc[r],
           \A w \in Worker : pc'[w] = pc[w] \/ cur[w] = {}
    PROVE  RInv'
<1> USE DEF RInv
<1>a. \A r \in Request : Tok(r)' = Tok(r)
  BY DEF Tok
<1>b. (Calm' <=> Calm) /\ (Single' <=> Single) /\ (stops' = 0 => stops = 0)
  BY DEF Calm, Single, TypeOK
<1>c. \A t : (Settled(t) => Settled(t)') /\ (Listed(t)' <=> Listed(t)) /\ (Held(t)' <=> Held(t))
  BY DEF Settled, Listed, Held
<1>1. SendOrder' /\ Accounted'
  BY <1>a DEF SendOrder, SendsInOrder, Accounted
<1>2. ASSUME Single PROVE RunOnce' /\ Keys' /\ Answers'
  <2>1. RunOnce'
    BY <1>2, <1>c DEF RunOnce
  <2>2. Keys'
    BY <1>2 DEF Keys, Follows
  <2>3. Answers'
    BY <1>2, <1>a, <1>c DEF Answers, Learns
  <2> QED BY <2>1, <2>2, <2>3
<1>3. StartedIsFinished'
  BY <1>b, <1>c DEF StartedIsFinished
<1>4. UnfinishedIsInFlight'
  BY <1>a, <1>b, <1>c DEF UnfinishedIsInFlight
<1>5. PublishedIsHeard'
  BY <1>a, <1>b, <1>c DEF PublishedIsHeard
<1> QED BY <1>1, <1>2, <1>3, <1>4, <1>5, <1>b

\* What every step of a handler may use.
LEMMA HandlerFacts ==
    ASSUME RInv, NEW r \in Request
    PROVE  /\ TypeOK /\ SendsInOrder(r) /\ Stands(r)
           /\ r \in Thread /\ \A w \in Worker : r # w
           /\ idx[r] \in 1 .. Len(Jobs[r]) /\ Len(Jobs[r]) \in Nat /\ Tok(r) \in Token
           /\ \A i, j \in 1 .. Len(Jobs[r]) : Jobs[r][i] = Jobs[r][j] => i = j
           /\ Tok(r) = Jobs[r][idx[r]] /\ (idx'[r] = idx[r] => Tok(r)' = Tok(r))
           /\ Home[r] \in Node /\ Len(list) \in Nat
<1>1. TypeOK /\ SendsInOrder(r) /\ Stands(r)
  BY DEF RInv, SendOrder, Handlers
<1>2. Jobs[r] \in Seq(Token) /\ idx[r] \in 1 .. Len(Jobs[r])
  BY <1>1, RedisJobsAssumption DEF TypeOK
<1>3. Tok(r) \in Token
  BY <1>2 DEF Tok
<1>4. \A i, j \in 1 .. Len(Jobs[r]) : Jobs[r][i] = Jobs[r][j] => i = j
  BY RedisJobsAssumption
<1>5. Home[r] \in Node /\ Len(list) \in Nat
  BY <1>1, HomeAssumption DEF TypeOK
<1> QED BY <1>1, <1>2, <1>3, <1>4, <1>5, Apart DEF Tok

\* An Enqueue keeps the type of the keys (redis.go:56).
LEMMA QueuedKeyType ==
    ASSUME NEW f \in [Token -> Status \cup {0}], NEW t \in Token
    PROVE  [f EXCEPT ![t] = StatusInQueue] \in [Token -> Status \cup {0}]
OBVIOUS

\* An answer has its type.
LEMMA RespondTypes ==
    ASSUME TypeOK, NEW r \in Request, NEW how \in Reply, NEW s \in Status \cup {0},
           Respond(r, how, s)
    PROVE  reply' \in [Request -> Reply] /\ answer' \in [Request -> Status \cup {0}]
BY DEF TypeOK

\* updateMetrics touches the gauge and can fail (redis.go:183).
LEMMA MetricsFacts ==
    ASSUME TypeOK, NEW p \in Thread, NEW done \in BOOLEAN, NEW label, NEW return,
           UpdateMetrics(p, done, label, return)
    PROVE  /\ gauge' \in [Node -> Nat]
           /\ faults' \in 0 .. MaxFaults /\ faults' \in {faults, faults + 1}
<1>1. Home[p] \in Node /\ Len(list) \in Nat /\ MaxFaults \in Nat
  BY HomeAssumption, FaultsAssumption DEF TypeOK
<1> QED BY <1>1 DEF UpdateMetrics, TypeOK

\* A request arrives (submissions.go:20).
LEMMA ReceivePreserves ==
    ASSUME RInv, NEW r \in Request, Receive(r)
    PROVE  RInv'
<1> USE DEF Receive
<1>a. /\ TypeOK /\ SendsInOrder(r) /\ Stands(r)
      /\ r \in Thread /\ \A w \in Worker : r # w
      /\ idx[r] \in 1 .. Len(Jobs[r]) /\ Len(Jobs[r]) \in Nat /\ Tok(r) \in Token
      /\ \A i, j \in 1 .. Len(Jobs[r]) : Jobs[r][i] = Jobs[r][j] => i = j
      /\ Tok(r) = Jobs[r][idx[r]] /\ (idx'[r] = idx[r] => Tok(r)' = Tok(r))
      /\ Home[r] \in Node /\ Len(list) \in Nat /\ MaxFaults \in Nat
  BY HandlerFacts, FaultsAssumption
<1>1. TypeOK'
  BY <1>a DEF TypeOK
<1>2. SendsInOrder(r)' /\ Stands(r)'
  BY <1>a DEF SendsInOrder, Stands, TypeOK
<1>3. /\ faults' \in {faults, faults + 1}
      /\ \A s \in Request : s # r =>
              /\ pc'[s] = pc[s] /\ idx'[s] = idx[s] /\ subs'[s] = subs[s]
              /\ reply'[s] = reply[s] /\ answer'[s] = answer[s]
      /\ \A w \in Worker : pc'[w] = pc[w]
  BY <1>a DEF TypeOK
<1>4. /\ inbox[r] \/ reply'[r] \in {"ready", "signal"} => idx'[r] = idx[r]
      /\ reply'[r] = "ready" => IsFinished(answer'[r]) /\ key[Tok(r)] = answer'[r]
      /\ reply'[r] = "signal" /\ faults' = faults => key[Tok(r)] \in {0, answer'[r]}
      /\ pc'[r] = "WaitSelect" /\ faults' = faults => ~IsFinished(key[Tok(r)'])
  BY <1>a DEF TypeOK, Stands
<1> QED BY <1>a, <1>1, <1>2, <1>3, <1>4, QuietHandler DEF TypeOK, Stands

\* A 422 answer (submissions.go:28).
LEMMA RejectPreserves ==
    ASSUME RInv, NEW r \in Request, RejectRequest(r)
    PROVE  RInv'
<1> USE DEF RejectRequest
<1>a. /\ TypeOK /\ SendsInOrder(r) /\ Stands(r)
      /\ r \in Thread /\ \A w \in Worker : r # w
      /\ idx[r] \in 1 .. Len(Jobs[r]) /\ Len(Jobs[r]) \in Nat /\ Tok(r) \in Token
      /\ \A i, j \in 1 .. Len(Jobs[r]) : Jobs[r][i] = Jobs[r][j] => i = j
      /\ Tok(r) = Jobs[r][idx[r]] /\ (idx'[r] = idx[r] => Tok(r)' = Tok(r))
      /\ Home[r] \in Node /\ Len(list) \in Nat /\ MaxFaults \in Nat
  BY HandlerFacts, FaultsAssumption
<1>1. TypeOK'
  BY <1>a DEF TypeOK
<1>2. SendsInOrder(r)' /\ Stands(r)'
  BY <1>a DEF SendsInOrder, Stands, TypeOK
<1>3. /\ faults' \in {faults, faults + 1}
      /\ \A s \in Request : s # r =>
              /\ pc'[s] = pc[s] /\ idx'[s] = idx[s] /\ subs'[s] = subs[s]
              /\ reply'[s] = reply[s] /\ answer'[s] = answer[s]
      /\ \A w \in Worker : pc'[w] = pc[w]
  BY <1>a DEF TypeOK
<1>4. /\ inbox[r] \/ reply'[r] \in {"ready", "signal"} => idx'[r] = idx[r]
      /\ reply'[r] = "ready" => IsFinished(answer'[r]) /\ key[Tok(r)] = answer'[r]
      /\ reply'[r] = "signal" /\ faults' = faults => key[Tok(r)] \in {0, answer'[r]}
      /\ pc'[r] = "WaitSelect" /\ faults' = faults => ~IsFinished(key[Tok(r)'])
  BY <1>a DEF TypeOK, Stands
<1> QED BY <1>a, <1>1, <1>2, <1>3, <1>4, QuietHandler DEF TypeOK, Stands

\* The jobs of a request get their tokens (submissions.go:252).
LEMMA BuildPreserves ==
    ASSUME RInv, NEW r \in Request, BuildJobs(r)
    PROVE  RInv'
<1> USE DEF BuildJobs
<1>a. /\ TypeOK /\ SendsInOrder(r) /\ Stands(r)
      /\ r \in Thread /\ \A w \in Worker : r # w
      /\ idx[r] \in 1 .. Len(Jobs[r]) /\ Len(Jobs[r]) \in Nat /\ Tok(r) \in Token
      /\ \A i, j \in 1 .. Len(Jobs[r]) : Jobs[r][i] = Jobs[r][j] => i = j
      /\ Tok(r) = Jobs[r][idx[r]] /\ (idx'[r] = idx[r] => Tok(r)' = Tok(r))
      /\ Home[r] \in Node /\ Len(list) \in Nat /\ MaxFaults \in Nat
  BY HandlerFacts, FaultsAssumption
<1>1. TypeOK'
  BY <1>a DEF TypeOK
<1>2. SendsInOrder(r)' /\ Stands(r)'
  BY <1>a DEF SendsInOrder, Stands, TypeOK
<1>3. /\ faults' \in {faults, faults + 1}
      /\ \A s \in Request : s # r =>
              /\ pc'[s] = pc[s] /\ idx'[s] = idx[s] /\ subs'[s] = subs[s]
              /\ reply'[s] = reply[s] /\ answer'[s] = answer[s]
      /\ \A w \in Worker : pc'[w] = pc[w]
  BY <1>a DEF TypeOK
<1>4. /\ inbox[r] \/ reply'[r] \in {"ready", "signal"} => idx'[r] = idx[r]
      /\ reply'[r] = "ready" => IsFinished(answer'[r]) /\ key[Tok(r)] = answer'[r]
      /\ reply'[r] = "signal" /\ faults' = faults => key[Tok(r)] \in {0, answer'[r]}
      /\ pc'[r] = "WaitSelect" /\ faults' = faults => ~IsFinished(key[Tok(r)'])
  BY <1>a DEF TypeOK, Stands
<1> QED BY <1>a, <1>1, <1>2, <1>3, <1>4, QuietHandler DEF TypeOK, Stands

\* The next job of a batch (submissions.go:119).
LEMMA NextJobPreserves ==
    ASSUME RInv, NEW r \in Request, HandlerNextJob(r)
    PROVE  RInv'
<1> USE DEF HandlerNextJob, UpdateMetrics
<1>a. /\ TypeOK /\ SendsInOrder(r) /\ Stands(r)
      /\ r \in Thread /\ \A w \in Worker : r # w
      /\ idx[r] \in 1 .. Len(Jobs[r]) /\ Len(Jobs[r]) \in Nat /\ Tok(r) \in Token
      /\ \A i, j \in 1 .. Len(Jobs[r]) : Jobs[r][i] = Jobs[r][j] => i = j
      /\ Tok(r) = Jobs[r][idx[r]] /\ (idx'[r] = idx[r] => Tok(r)' = Tok(r))
      /\ Home[r] \in Node /\ Len(list) \in Nat /\ MaxFaults \in Nat
  BY HandlerFacts, FaultsAssumption
<1>0. /\ gauge' \in [Node -> Nat] /\ faults' \in 0 .. MaxFaults /\ faults' \in {faults, faults + 1}
      /\ pc[r] = "EnqGauge" /\ pc' = [pc EXCEPT ![r] = "EnqSet"]
  <2>1. gauge \in [Node -> Nat] /\ faults \in 0 .. MaxFaults
    BY <1>a DEF TypeOK
  <2>2. gauge' \in [Node -> Nat]
    BY <1>a, <2>1
  <2>3. faults' \in 0 .. MaxFaults /\ faults' \in {faults, faults + 1}
    BY <1>a, <2>1
  <2> QED BY <2>2, <2>3
<1>1. TypeOK'
  <2>1. idx' \in [Request -> Nat] /\ \A s \in Request : idx'[s] \in 1 .. Len(Jobs[s])
    <3>1. idx[r] + 1 \in 1 .. Len(Jobs[r])
      BY <1>a
    <3>2. idx' = [idx EXCEPT ![r] = idx[r] + 1]
      OBVIOUS
    <3> QED BY <1>a, <3>1, <3>2 DEF TypeOK
  <2>2. pc' \in [Thread -> HandlerLabel \cup WorkerLabel]
    BY <1>a, <1>0 DEF TypeOK
  <2> QED BY <1>a, <1>0, <2>1, <2>2 DEF TypeOK
<1>2. SendsInOrder(r)' /\ Stands(r)'
  <2>1. idx'[r] = idx[r] + 1 /\ pc'[r] = "EnqSet" /\ Tok(r)' = Jobs[r][idx[r] + 1]
    BY <1>a, <1>0 DEF TypeOK, Tok
  <2>2. SendsInOrder(r)'
    <3>1. \A i \in 1 .. Len(Jobs[r]) : /\ i < idx[r] + 1 => Jobs[r][i] \in sent
                                       /\ i > idx[r] => Jobs[r][i] \notin sent
      BY <1>a, <1>0 DEF SendsInOrder
    <3> QED BY <1>a, <2>1, <3>1 DEF SendsInOrder
  <2>3. Stands(r)'
    BY <1>a, <1>0, <2>1 DEF Stands
  <2> QED BY <2>2, <2>3
<1>3. /\ faults' \in {faults, faults + 1}
      /\ \A s \in Request : s # r =>
              /\ pc'[s] = pc[s] /\ idx'[s] = idx[s] /\ subs'[s] = subs[s]
              /\ reply'[s] = reply[s] /\ answer'[s] = answer[s]
      /\ \A w \in Worker : pc'[w] = pc[w]
  BY <1>a, <1>0 DEF TypeOK
<1>4. /\ inbox[r] \/ reply'[r] \in {"ready", "signal"} => idx'[r] = idx[r]
      /\ reply'[r] = "ready" => IsFinished(answer'[r]) /\ key[Tok(r)] = answer'[r]
      /\ reply'[r] = "signal" /\ faults' = faults => key[Tok(r)] \in {0, answer'[r]}
      /\ pc'[r] = "WaitSelect" /\ faults' = faults => ~IsFinished(key[Tok(r)'])
  BY <1>a, <1>0 DEF TypeOK, Stands
<1> QED BY <1>a, <1>1, <1>2, <1>3, <1>4, QuietHandler DEF TypeOK, Stands

\* The handler goes on to wait (submissions.go:41).
LEMMA AwaitsPreserves ==
    ASSUME RInv, NEW r \in Request, HandlerAwaits(r)
    PROVE  RInv'
<1> USE DEF HandlerAwaits, UpdateMetrics
<1>a. /\ TypeOK /\ SendsInOrder(r) /\ Stands(r)
      /\ r \in Thread /\ \A w \in Worker : r # w
      /\ idx[r] \in 1 .. Len(Jobs[r]) /\ Len(Jobs[r]) \in Nat /\ Tok(r) \in Token
      /\ \A i, j \in 1 .. Len(Jobs[r]) : Jobs[r][i] = Jobs[r][j] => i = j
      /\ Tok(r) = Jobs[r][idx[r]] /\ (idx'[r] = idx[r] => Tok(r)' = Tok(r))
      /\ Home[r] \in Node /\ Len(list) \in Nat /\ MaxFaults \in Nat
  BY HandlerFacts, FaultsAssumption
<1>0. /\ gauge' \in [Node -> Nat] /\ faults' \in 0 .. MaxFaults /\ faults' \in {faults, faults + 1}
      /\ pc[r] = "EnqGauge" /\ pc' = [pc EXCEPT ![r] = "WaitCheck"]
  BY <1>a DEF TypeOK
<1>1. TypeOK'
  BY <1>a, <1>0, SMTT(30) DEF TypeOK
<1>2. SendsInOrder(r)' /\ Stands(r)'
  BY <1>a, <1>0 DEF SendsInOrder, Stands, TypeOK
<1>3. /\ faults' \in {faults, faults + 1}
      /\ \A s \in Request : s # r =>
              /\ pc'[s] = pc[s] /\ idx'[s] = idx[s] /\ subs'[s] = subs[s]
              /\ reply'[s] = reply[s] /\ answer'[s] = answer[s]
      /\ \A w \in Worker : pc'[w] = pc[w]
  BY <1>a, <1>0 DEF TypeOK
<1>4. /\ inbox[r] \/ reply'[r] \in {"ready", "signal"} => idx'[r] = idx[r]
      /\ reply'[r] = "ready" => IsFinished(answer'[r]) /\ key[Tok(r)] = answer'[r]
      /\ reply'[r] = "signal" /\ faults' = faults => key[Tok(r)] \in {0, answer'[r]}
      /\ pc'[r] = "WaitSelect" /\ faults' = faults => ~IsFinished(key[Tok(r)'])
  BY <1>a, <1>0 DEF TypeOK, Stands
<1> QED BY <1>a, <1>1, <1>2, <1>3, <1>4, QuietHandler DEF TypeOK, Stands

\* A 201 with the tokens (submissions.go:58).
LEMMA TokensPreserves ==
    ASSUME RInv, NEW r \in Request, HandlerTokens(r)
    PROVE  RInv'
<1> USE DEF HandlerTokens, UpdateMetrics
<1>a. /\ TypeOK /\ SendsInOrder(r) /\ Stands(r)
      /\ r \in Thread /\ \A w \in Worker : r # w
      /\ idx[r] \in 1 .. Len(Jobs[r]) /\ Len(Jobs[r]) \in Nat /\ Tok(r) \in Token
      /\ \A i, j \in 1 .. Len(Jobs[r]) : Jobs[r][i] = Jobs[r][j] => i = j
      /\ Tok(r) = Jobs[r][idx[r]] /\ (idx'[r] = idx[r] => Tok(r)' = Tok(r))
      /\ Home[r] \in Node /\ Len(list) \in Nat /\ MaxFaults \in Nat
  BY HandlerFacts, FaultsAssumption
<1>0. /\ gauge' \in [Node -> Nat] /\ faults' \in 0 .. MaxFaults /\ faults' \in {faults, faults + 1}
  BY <1>a, MetricsFacts
<1>b. pc[r] = "EnqGauge" /\ pc' = [pc EXCEPT ![r] = "Replied"]
  OBVIOUS
<1>1. TypeOK'
  <2>1. reply' \in [Request -> Reply] /\ answer' \in [Request -> Status \cup {0}]
    <3>1. "token" \in Reply /\ 0 \in Status \cup {0}
      OBVIOUS
    <3> QED BY <1>a, <3>1, RespondTypes
  <2>2. pc' \in [Thread -> HandlerLabel \cup WorkerLabel]
    BY <1>a, <1>b DEF TypeOK
  <2> QED BY <1>a, <1>0, <2>1, <2>2 DEF TypeOK
<1>2. SendsInOrder(r)' /\ Stands(r)'
  BY <1>a, <1>0, <1>b DEF SendsInOrder, Stands, TypeOK
<1>3. /\ faults' \in {faults, faults + 1}
      /\ \A s \in Request : s # r =>
              /\ pc'[s] = pc[s] /\ idx'[s] = idx[s] /\ subs'[s] = subs[s]
              /\ reply'[s] = reply[s] /\ answer'[s] = answer[s]
      /\ \A w \in Worker : pc'[w] = pc[w]
  BY <1>a, <1>0, <1>b DEF TypeOK
<1>4. /\ inbox[r] \/ reply'[r] \in {"ready", "signal"} => idx'[r] = idx[r]
      /\ reply'[r] = "ready" => IsFinished(answer'[r]) /\ key[Tok(r)] = answer'[r]
      /\ reply'[r] = "signal" /\ faults' = faults => key[Tok(r)] \in {0, answer'[r]}
      /\ pc'[r] = "WaitSelect" /\ faults' = faults => ~IsFinished(key[Tok(r)'])
  BY <1>a, <1>0, <1>b DEF TypeOK, Stands
<1> QED BY <1>a, <1>1, <1>2, <1>3, <1>4, QuietHandler DEF TypeOK, Stands

\* A look that finds the verdict (redis.go:154, 165).
LEMMA FinishedPreserves ==
    ASSUME RInv, NEW r \in Request, HandlerLookFinished(r)
    PROVE  RInv'
<1> USE DEF HandlerLookFinished, Got
<1>a. /\ TypeOK /\ SendsInOrder(r) /\ Stands(r)
      /\ r \in Thread /\ \A w \in Worker : r # w
      /\ idx[r] \in 1 .. Len(Jobs[r]) /\ Len(Jobs[r]) \in Nat /\ Tok(r) \in Token
      /\ \A i, j \in 1 .. Len(Jobs[r]) : Jobs[r][i] = Jobs[r][j] => i = j
      /\ Tok(r) = Jobs[r][idx[r]] /\ (idx'[r] = idx[r] => Tok(r)' = Tok(r))
      /\ Home[r] \in Node /\ Len(list) \in Nat /\ MaxFaults \in Nat
  BY HandlerFacts, FaultsAssumption
<1>1. TypeOK'
  <2>1. reply' \in [Request -> Reply] /\ answer' \in [Request -> Status \cup {0}]
    <3>1. "ready" \in Reply /\ Status \subseteq Status \cup {0}
      OBVIOUS
    <3> QED BY <1>a, <3>1, RespondTypes
  <2>2. pc' \in [Thread -> HandlerLabel \cup WorkerLabel] /\ faults' \in 0 .. MaxFaults
    BY <1>a DEF TypeOK
  <2> QED BY <1>a, <2>1, <2>2 DEF TypeOK
<1>2. SendsInOrder(r)' /\ Stands(r)'
  BY <1>a DEF SendsInOrder, Stands, TypeOK
<1>3. /\ faults' \in {faults, faults + 1}
      /\ \A s \in Request : s # r =>
              /\ pc'[s] = pc[s] /\ idx'[s] = idx[s] /\ subs'[s] = subs[s]
              /\ reply'[s] = reply[s] /\ answer'[s] = answer[s]
      /\ \A w \in Worker : pc'[w] = pc[w]
  BY <1>a DEF TypeOK
<1>4. /\ inbox[r] \/ reply'[r] \in {"ready", "signal"} => idx'[r] = idx[r]
      /\ reply'[r] = "ready" => IsFinished(answer'[r]) /\ key[Tok(r)] = answer'[r]
      /\ reply'[r] = "signal" /\ faults' = faults => key[Tok(r)] \in {0, answer'[r]}
      /\ pc'[r] = "WaitSelect" /\ faults' = faults => ~IsFinished(key[Tok(r)'])
  BY <1>a DEF TypeOK, Stands
<1> QED BY <1>a, <1>1, <1>2, <1>3, <1>4, QuietHandler DEF TypeOK, Stands

\* A look that finds none (redis.go:154, 165).
LEMMA PendingPreserves ==
    ASSUME RInv, NEW r \in Request, HandlerLookPending(r)
    PROVE  RInv'
<1> USE DEF HandlerLookPending, Got
<1>a. /\ TypeOK /\ SendsInOrder(r) /\ Stands(r)
      /\ r \in Thread /\ \A w \in Worker : r # w
      /\ idx[r] \in 1 .. Len(Jobs[r]) /\ Len(Jobs[r]) \in Nat /\ Tok(r) \in Token
      /\ \A i, j \in 1 .. Len(Jobs[r]) : Jobs[r][i] = Jobs[r][j] => i = j
      /\ Tok(r) = Jobs[r][idx[r]] /\ (idx'[r] = idx[r] => Tok(r)' = Tok(r))
      /\ Home[r] \in Node /\ Len(list) \in Nat /\ MaxFaults \in Nat
  BY HandlerFacts, FaultsAssumption
<1>0. /\ faults' \in 0 .. MaxFaults /\ faults' \in {faults, faults + 1}
      /\ faults' = faults => ~IsFinished(key[Tok(r)])
      /\ \/ pc[r] = "WaitCheck" /\ pc' = [pc EXCEPT ![r] = "WaitSubscribe"]
         \/ pc[r] = "WaitRecheck" /\ pc' = [pc EXCEPT ![r] = "WaitSelect"]
  BY <1>a DEF TypeOK
<1>1. TypeOK'
  <2>1. pc' \in [Thread -> HandlerLabel \cup WorkerLabel]
    BY <1>a, <1>0 DEF TypeOK
  <2> QED BY <1>a, <1>0, <2>1 DEF TypeOK
<1>2. SendsInOrder(r)' /\ Stands(r)'
  BY <1>a, <1>0 DEF SendsInOrder, Stands, TypeOK
<1>3. /\ faults' \in {faults, faults + 1}
      /\ \A s \in Request : s # r =>
              /\ pc'[s] = pc[s] /\ idx'[s] = idx[s] /\ subs'[s] = subs[s]
              /\ reply'[s] = reply[s] /\ answer'[s] = answer[s]
      /\ \A w \in Worker : pc'[w] = pc[w]
  BY <1>a, <1>0 DEF TypeOK
<1>4. /\ inbox[r] \/ reply'[r] \in {"ready", "signal"} => idx'[r] = idx[r]
      /\ reply'[r] = "ready" => IsFinished(answer'[r]) /\ key[Tok(r)] = answer'[r]
      /\ reply'[r] = "signal" /\ faults' = faults => key[Tok(r)] \in {0, answer'[r]}
      /\ pc'[r] = "WaitSelect" /\ faults' = faults => ~IsFinished(key[Tok(r)'])
  BY <1>a, <1>0 DEF TypeOK, Stands
<1> QED BY <1>a, <1>1, <1>2, <1>3, <1>4, QuietHandler DEF TypeOK, Stands

\* SUBSCRIBE (redis.go:160).
LEMMA SubscribePreserves ==
    ASSUME RInv, NEW r \in Request, HandlerSubscribe(r)
    PROVE  RInv'
<1> USE DEF HandlerSubscribe, WaitSubscribe
<1>a. /\ TypeOK /\ SendsInOrder(r) /\ Stands(r)
      /\ r \in Thread /\ \A w \in Worker : r # w
      /\ idx[r] \in 1 .. Len(Jobs[r]) /\ Len(Jobs[r]) \in Nat /\ Tok(r) \in Token
      /\ \A i, j \in 1 .. Len(Jobs[r]) : Jobs[r][i] = Jobs[r][j] => i = j
      /\ Tok(r) = Jobs[r][idx[r]] /\ (idx'[r] = idx[r] => Tok(r)' = Tok(r))
      /\ Home[r] \in Node /\ Len(list) \in Nat /\ MaxFaults \in Nat
  BY HandlerFacts, FaultsAssumption
<1>1. TypeOK'
  BY <1>a DEF TypeOK
<1>0. /\ pc[r] = "WaitSubscribe" /\ pc'[r] = "WaitRecheck"
      /\ subs'[r] = "sent"
  BY <1>a DEF TypeOK
<1>2. SendsInOrder(r)' /\ Stands(r)'
  <2>1. SendsInOrder(r)'
    BY <1>a, <1>0 DEF SendsInOrder
  <2>2. Stands(r)'
    BY <1>a, <1>0 DEF Stands, SendsInOrder
  <2> QED BY <2>1, <2>2
<1>3. /\ faults' \in {faults, faults + 1}
      /\ \A s \in Request : s # r =>
              /\ pc'[s] = pc[s] /\ idx'[s] = idx[s] /\ subs'[s] = subs[s]
              /\ reply'[s] = reply[s] /\ answer'[s] = answer[s]
      /\ \A w \in Worker : pc'[w] = pc[w]
  BY <1>a DEF TypeOK
<1>4. /\ inbox[r] \/ reply'[r] \in {"ready", "signal"} => idx'[r] = idx[r]
      /\ reply'[r] = "ready" => IsFinished(answer'[r]) /\ key[Tok(r)] = answer'[r]
      /\ reply'[r] = "signal" /\ faults' = faults => key[Tok(r)] \in {0, answer'[r]}
      /\ pc'[r] = "WaitSelect" /\ faults' = faults => ~IsFinished(key[Tok(r)'])
  BY <1>a DEF TypeOK, Stands
<1> QED BY <1>a, <1>1, <1>2, <1>3, <1>4, QuietHandler DEF TypeOK, Stands

\* The message wakes the handler (redis.go:174).
LEMMA SignalledPreserves ==
    ASSUME RInv, NEW r \in Request, HandlerSignalled(r)
    PROVE  RInv'
<1> USE DEF HandlerSignalled, WaitWake
<1>a. /\ TypeOK /\ SendsInOrder(r) /\ Stands(r)
      /\ r \in Thread /\ \A w \in Worker : r # w
      /\ idx[r] \in 1 .. Len(Jobs[r]) /\ Len(Jobs[r]) \in Nat /\ Tok(r) \in Token
      /\ \A i, j \in 1 .. Len(Jobs[r]) : Jobs[r][i] = Jobs[r][j] => i = j
      /\ Tok(r) = Jobs[r][idx[r]] /\ (idx'[r] = idx[r] => Tok(r)' = Tok(r))
      /\ Home[r] \in Node /\ Len(list) \in Nat /\ MaxFaults \in Nat
  BY HandlerFacts, FaultsAssumption
<1>1. TypeOK'
  BY <1>a DEF TypeOK
<1>2. SendsInOrder(r)' /\ Stands(r)'
  BY <1>a DEF SendsInOrder, Stands, TypeOK
<1>3. /\ faults' \in {faults, faults + 1}
      /\ \A s \in Request : s # r =>
              /\ pc'[s] = pc[s] /\ idx'[s] = idx[s] /\ subs'[s] = subs[s]
              /\ reply'[s] = reply[s] /\ answer'[s] = answer[s]
      /\ \A w \in Worker : pc'[w] = pc[w]
  BY <1>a DEF TypeOK
<1>4. /\ inbox[r] \/ reply'[r] \in {"ready", "signal"} => idx'[r] = idx[r]
      /\ reply'[r] = "ready" => IsFinished(answer'[r]) /\ key[Tok(r)] = answer'[r]
      /\ reply'[r] = "signal" /\ faults' = faults => key[Tok(r)] \in {0, answer'[r]}
      /\ pc'[r] = "WaitSelect" /\ faults' = faults => ~IsFinished(key[Tok(r)'])
  BY <1>a DEF TypeOK, Stands
<1> QED BY <1>a, <1>1, <1>2, <1>3, <1>4, QuietHandler DEF TypeOK, Stands

\* The timer wakes the handler (redis.go:176).
LEMMA TimeoutPreserves ==
    ASSUME RInv, NEW r \in Request, HandlerTimeout(r)
    PROVE  RInv'
<1> USE DEF HandlerTimeout, WaitWake
<1>a. /\ TypeOK /\ SendsInOrder(r) /\ Stands(r)
      /\ r \in Thread /\ \A w \in Worker : r # w
      /\ idx[r] \in 1 .. Len(Jobs[r]) /\ Len(Jobs[r]) \in Nat /\ Tok(r) \in Token
      /\ \A i, j \in 1 .. Len(Jobs[r]) : Jobs[r][i] = Jobs[r][j] => i = j
      /\ Tok(r) = Jobs[r][idx[r]] /\ (idx'[r] = idx[r] => Tok(r)' = Tok(r))
      /\ Home[r] \in Node /\ Len(list) \in Nat /\ MaxFaults \in Nat
  BY HandlerFacts, FaultsAssumption
<1>1. TypeOK'
  BY <1>a DEF TypeOK
<1>2. SendsInOrder(r)' /\ Stands(r)'
  BY <1>a DEF SendsInOrder, Stands, TypeOK
<1>3. /\ faults' \in {faults, faults + 1}
      /\ \A s \in Request : s # r =>
              /\ pc'[s] = pc[s] /\ idx'[s] = idx[s] /\ subs'[s] = subs[s]
              /\ reply'[s] = reply[s] /\ answer'[s] = answer[s]
      /\ \A w \in Worker : pc'[w] = pc[w]
  BY <1>a DEF TypeOK
<1>4. /\ inbox[r] \/ reply'[r] \in {"ready", "signal"} => idx'[r] = idx[r]
      /\ reply'[r] = "ready" => IsFinished(answer'[r]) /\ key[Tok(r)] = answer'[r]
      /\ reply'[r] = "signal" /\ faults' = faults => key[Tok(r)] \in {0, answer'[r]}
      /\ pc'[r] = "WaitSelect" /\ faults' = faults => ~IsFinished(key[Tok(r)'])
  BY <1>a DEF TypeOK, Stands
<1> QED BY <1>a, <1>1, <1>2, <1>3, <1>4, QuietHandler DEF TypeOK, Stands

\* The look after that (redis.go:175, 177, submissions.go:44).
LEMMA LastLookPreserves ==
    ASSUME RInv, NEW r \in Request, HandlerLastLook(r)
    PROVE  RInv'
<1> USE DEF HandlerLastLook, Got
<1>a. /\ TypeOK /\ SendsInOrder(r) /\ Stands(r)
      /\ r \in Thread /\ \A w \in Worker : r # w
      /\ idx[r] \in 1 .. Len(Jobs[r]) /\ Len(Jobs[r]) \in Nat /\ Tok(r) \in Token
      /\ \A i, j \in 1 .. Len(Jobs[r]) : Jobs[r][i] = Jobs[r][j] => i = j
      /\ Tok(r) = Jobs[r][idx[r]] /\ (idx'[r] = idx[r] => Tok(r)' = Tok(r))
      /\ Home[r] \in Node /\ Len(list) \in Nat /\ MaxFaults \in Nat
  BY HandlerFacts, FaultsAssumption
<1>1. TypeOK'
  BY <1>a, SMTT(30) DEF TypeOK
<1>2. SendsInOrder(r)' /\ Stands(r)'
  BY <1>a DEF SendsInOrder, Stands, TypeOK
<1>3. /\ faults' \in {faults, faults + 1}
      /\ \A s \in Request : s # r =>
              /\ pc'[s] = pc[s] /\ idx'[s] = idx[s] /\ subs'[s] = subs[s]
              /\ reply'[s] = reply[s] /\ answer'[s] = answer[s]
      /\ \A w \in Worker : pc'[w] = pc[w]
  BY <1>a DEF TypeOK
<1>4. /\ inbox[r] \/ reply'[r] \in {"ready", "signal"} => idx'[r] = idx[r]
      /\ reply'[r] = "ready" => IsFinished(answer'[r]) /\ key[Tok(r)] = answer'[r]
      /\ reply'[r] = "signal" /\ faults' = faults => key[Tok(r)] \in {0, answer'[r]}
      /\ pc'[r] = "WaitSelect" /\ faults' = faults => ~IsFinished(key[Tok(r)'])
  BY <1>a DEF TypeOK, Stands
<1> QED BY <1>a, <1>1, <1>2, <1>3, <1>4, QuietHandler DEF TypeOK, Stands

\* The client is gone (redis.go:178).
LEMMA AbandonedPreserves ==
    ASSUME RInv, NEW r \in Request, HandlerAbandoned(r)
    PROVE  RInv'
<1> USE DEF HandlerAbandoned
<1>a. /\ TypeOK /\ SendsInOrder(r) /\ Stands(r)
      /\ r \in Thread /\ \A w \in Worker : r # w
      /\ idx[r] \in 1 .. Len(Jobs[r]) /\ Len(Jobs[r]) \in Nat /\ Tok(r) \in Token
      /\ \A i, j \in 1 .. Len(Jobs[r]) : Jobs[r][i] = Jobs[r][j] => i = j
      /\ Tok(r) = Jobs[r][idx[r]] /\ (idx'[r] = idx[r] => Tok(r)' = Tok(r))
      /\ Home[r] \in Node /\ Len(list) \in Nat /\ MaxFaults \in Nat
  BY HandlerFacts, FaultsAssumption
<1>1. TypeOK'
  <2>1. reply' \in [Request -> Reply] /\ answer' \in [Request -> Status \cup {0}]
    <3>1. "gone" \in Reply /\ StatusInQueue \in Status \cup {0}
      OBVIOUS
    <3> QED BY <1>a, <3>1, RespondTypes
  <2>2. /\ pc' \in [Thread -> HandlerLabel \cup WorkerLabel]
        /\ subs' \in [Request -> {"none", "sent", "active"}]
    BY <1>a DEF TypeOK
  <2> QED BY <1>a, <2>1, <2>2 DEF TypeOK
<1>2. SendsInOrder(r)' /\ Stands(r)'
  BY <1>a DEF SendsInOrder, Stands, TypeOK
<1>3. /\ faults' \in {faults, faults + 1}
      /\ \A s \in Request : s # r =>
              /\ pc'[s] = pc[s] /\ idx'[s] = idx[s] /\ subs'[s] = subs[s]
              /\ reply'[s] = reply[s] /\ answer'[s] = answer[s]
      /\ \A w \in Worker : pc'[w] = pc[w]
  BY <1>a DEF TypeOK
<1>4. /\ inbox[r] \/ reply'[r] \in {"ready", "signal"} => idx'[r] = idx[r]
      /\ reply'[r] = "ready" => IsFinished(answer'[r]) /\ key[Tok(r)] = answer'[r]
      /\ reply'[r] = "signal" /\ faults' = faults => key[Tok(r)] \in {0, answer'[r]}
      /\ pc'[r] = "WaitSelect" /\ faults' = faults => ~IsFinished(key[Tok(r)'])
  BY <1>a DEF TypeOK, Stands
<1> QED BY <1>a, <1>1, <1>2, <1>3, <1>4, QuietHandler DEF TypeOK, Stands

\* A client disconnects (submissions.go:32, 42), or Redis executes a SUBSCRIBE.
LEMMA ClientPreserves ==
    ASSUME RInv, NEW r \in Request,
           ClientGone(r) \/ (SubscribeTakesEffect(r) /\ UNCHANGED engineVars)
    PROVE  RInv'
<1>a. TypeOK /\ Workers /\ Handlers /\ Signals
  BY DEF RInv
<1>b. \A s \in Request : Tok(s)' = Tok(s)
  BY DEF Tok, ClientGone, SubscribeTakesEffect
<1>c. /\ UNCHANGED <<list, key, faults, copy, cur, inbox, missed, idx, reply, answer, crashes, sent,
                     removed, pc, gauge, life, stops, pending, delivered>>
      /\ gone' \subseteq gone \cup {r}
      /\ subs' = subs \/ (subs[r] = "sent" /\ subs' = [subs EXCEPT ![r] = "active"])
  BY DEF ClientGone, SubscribeTakesEffect
<1>1. TypeOK'
  BY <1>a, <1>c DEF TypeOK
<1>2. Workers' /\ Signals'
  BY <1>a, <1>c DEF Workers, Holds, Signals
<1>3. Handlers'
  BY <1>a, <1>b, <1>c, SMTT(30) DEF Handlers, Stands, TypeOK
<1> QED BY <1>a, <1>c, <1>1, <1>2, <1>3, QuietNode DEF TypeOK

\* A callback is delivered or dropped (worker.go:167), or a process is told to stop
\* (server.go:131).
LEMMA NodePreserves ==
    ASSUME RInv, NEW n \in Node,
           \/ SigTerm(n) \/ ShutdownReturns(n)
           \/ \E t \in Token : SendCallback(n, t)
    PROVE  RInv'
<1>a. TypeOK /\ Workers /\ Handlers /\ Signals /\ MaxStops \in Nat
  BY RedisBoundsAssumption DEF RInv
<1>b. \A s \in Request : Tok(s)' = Tok(s)
  BY DEF Tok, SigTerm, ShutdownReturns, SendCallback
<1>c. /\ UNCHANGED <<redisVars, requestVars, crashes, sent, removed>>
      /\ \/ UNCHANGED nodeVars /\ pending' \subseteq pending /\ delivered' \subseteq Token
         \/ /\ UNCHANGED <<pending, delivered>>
            /\ \/ stops' = stops + 1 /\ stops < MaxStops /\ life' = [life EXCEPT ![n] = "draining"]
               \/ stops' = stops /\ life[n] = "draining" /\ life' = [life EXCEPT ![n] = "stopping"]
  BY <1>a DEF SigTerm, ShutdownReturns, SendCallback, TypeOK
<1>1. TypeOK'
  <2>1. CASE UNCHANGED nodeVars
    BY <1>a, <1>c, <2>1 DEF TypeOK
  <2>2. CASE UNCHANGED <<pending, delivered>>
    <3>1. life' \in [Node -> {"up", "draining", "stopping", "down"}] /\ stops' \in 0 .. MaxStops
      BY <1>a, <1>c DEF TypeOK
    <3> QED BY <1>a, <1>c, <2>2, <3>1 DEF TypeOK
  <2> QED BY <1>c, <2>1, <2>2
<1>2. Workers'
  <2>1. \A m \in Node : life'[m] = "down" => life[m] = "down"
    BY <1>a, <1>c DEF TypeOK
  <2>2. \A w \in Worker : Home[w] \in Node
    BY HomeAssumption
  <2> QED BY <1>a, <1>c, <2>1, <2>2 DEF Workers, Holds
<1>3. Signals'
  BY <1>a, <1>c DEF Signals, TypeOK
<1>4. Handlers'
  BY <1>a, <1>b, <1>c DEF Handlers, Stands
<1>5. stops <= stops' /\ \A r \in Request : pc'[r] = pc[r]
  BY <1>a, <1>c DEF TypeOK
<1> QED BY <1>a, <1>c, <1>1, <1>2, <1>3, <1>4, <1>5, QuietNode

\* A process comes up again, with workers that have nothing (server.go:60).
LEMMA RestartPreserves ==
    ASSUME RInv, NEW n \in Node, Restart(n)
    PROVE  RInv'
<1> USE DEF Restart
<1>a. TypeOK /\ Workers /\ Handlers /\ Signals
  BY DEF RInv
<1>b. \A s \in Request : Tok(s)' = Tok(s)
  BY DEF Tok
<1>c. \A r \in Request : pc'[r] = pc[r]
  BY Apart DEF TypeOK
<1>d. \A w \in Worker : \/ Home[w] # n /\ pc'[w] = pc[w]
                        \/ Home[w] = n /\ pc[w] = "Exited" /\ pc'[w] = "Loop"
  BY <1>a DEF Workers, Holds
<1>1. TypeOK'
  <2>1. pc' \in [Thread -> HandlerLabel \cup WorkerLabel]
    BY <1>a DEF TypeOK
  <2>2. life' \in [Node -> {"up", "draining", "stopping", "down"}]
    BY <1>a DEF TypeOK
  <2> QED BY <1>a, <2>1, <2>2 DEF TypeOK
<1>2. Workers'
  BY <1>a, <1>d DEF Workers, Holds, TypeOK
<1>3. Signals' /\ stops' = stops
  BY <1>a DEF Signals, TypeOK
<1>4. Handlers'
  BY <1>a, <1>b, <1>c DEF Handlers, Stands
<1>5. \A w \in Worker : pc'[w] = pc[w] \/ cur[w] = {}
  BY <1>a, <1>d DEF Workers, Holds
<1> QED BY <1>a, <1>c, <1>1, <1>2, <1>3, <1>4, <1>5, QuietNode DEF TypeOK

\* What every step of a worker may use.
LEMMA WorkerFacts ==
    ASSUME RInv, NEW w \in Worker
    PROVE  /\ TypeOK /\ Holds(w) /\ w \in Thread /\ \A r \in Request : r # w
           /\ (Single => Follows(w) /\ RunOnce) /\ MaxFaults \in Nat
           /\ \A t \in cur[w] : t \in Token /\ key[t] \in Status \cup {0}
<1>1. TypeOK /\ Holds(w) /\ (Single => Follows(w) /\ RunOnce)
  BY DEF RInv, Workers, Keys
<1> QED BY <1>1, Apart, FaultsAssumption DEF TypeOK

\* A worker looks at its context (worker.go:68).
LEMMA LoopPreserves ==
    ASSUME RInv, NEW w \in Worker, WorkerLoop(w)
    PROVE  RInv'
<1> USE DEF WorkerLoop, Cancelled
<1>a. /\ TypeOK /\ Holds(w) /\ w \in Thread /\ \A r \in Request : r # w
      /\ (Single => Follows(w) /\ RunOnce) /\ MaxFaults \in Nat
      /\ \A t \in cur[w] : t \in Token /\ key[t] \in Status \cup {0}
  BY WorkerFacts
<1>1. TypeOK'
  BY <1>a DEF TypeOK
<1>2. /\ faults' \in {faults, faults + 1}
      /\ \A r \in Request : pc'[r] = pc[r]
      /\ \A v \in Worker : v # w => pc'[v] = pc[v] /\ copy'[v] = copy[v]
  BY <1>a DEF TypeOK
<1>3. Holds(w)'
  BY <1>a DEF Holds, TypeOK
<1>4. Single' => Follows(w)'
  BY <1>a, <1>2, SingleBefore DEF Holds, Follows, TypeOK
<1> QED BY <1>a, <1>1, <1>2, <1>3, <1>4, QuietWorker DEF TypeOK

\* BRPOP brings nothing (redis.go:71).
LEMMA NothingPreserves ==
    ASSUME RInv, NEW w \in Worker, DequeueNothing(w, Cancelled(w)), UNCHANGED engineVars, list' = list
    PROVE  RInv'
<1> USE DEF DequeueNothing
<1>a. /\ TypeOK /\ Holds(w) /\ w \in Thread /\ \A r \in Request : r # w
      /\ (Single => Follows(w) /\ RunOnce) /\ MaxFaults \in Nat
      /\ \A t \in cur[w] : t \in Token /\ key[t] \in Status \cup {0}
  BY WorkerFacts
<1>1. TypeOK'
  BY <1>a DEF TypeOK
<1>2. /\ faults' \in {faults, faults + 1}
      /\ \A r \in Request : pc'[r] = pc[r]
      /\ \A v \in Worker : v # w => pc'[v] = pc[v] /\ copy'[v] = copy[v]
  BY <1>a DEF TypeOK
<1>3. Holds(w)'
  BY <1>a DEF Holds, TypeOK
<1>4. Single' => Follows(w)'
  BY <1>a, <1>2, SingleBefore DEF Holds, Follows, TypeOK
<1> QED BY <1>a, <1>1, <1>2, <1>3, <1>4, QuietWorker DEF TypeOK

\* The worker decodes its copy (redis.go:86).
LEMMA GetPreserves ==
    ASSUME RInv, NEW w \in Worker, DequeueGet(w, Cancelled(w)), UNCHANGED engineVars
    PROVE  RInv'
<1> USE DEF DequeueGet, Cancelled
<1>a. /\ TypeOK /\ Holds(w) /\ w \in Thread /\ \A r \in Request : r # w
      /\ (Single => Follows(w) /\ RunOnce) /\ MaxFaults \in Nat
      /\ \A t \in cur[w] : t \in Token /\ key[t] \in Status \cup {0}
  BY WorkerFacts
<1>1. TypeOK'
  BY <1>a DEF TypeOK
<1>2. /\ faults' \in {faults, faults + 1}
      /\ \A r \in Request : pc'[r] = pc[r]
      /\ \A v \in Worker : v # w => pc'[v] = pc[v] /\ copy'[v] = copy[v]
  BY <1>a DEF TypeOK
<1>3. Holds(w)'
  BY <1>a DEF Holds, TypeOK
<1>4. Single' => Follows(w)'
  BY <1>a, <1>2, SingleBefore DEF Holds, Follows, TypeOK
<1> QED BY <1>a, <1>1, <1>2, <1>3, <1>4, QuietWorker DEF TypeOK

\* The gauge after a pop (redis.go:91).
LEMMA GaugePreserves ==
    ASSUME RInv, NEW w \in Worker, UpdateMetrics(w, Cancelled(w), "DeqGauge", "Start"), UNCHANGED engineVars
    PROVE  RInv'
<1> USE DEF UpdateMetrics, Cancelled
<1>a. /\ TypeOK /\ Holds(w) /\ w \in Thread /\ \A r \in Request : r # w
      /\ (Single => Follows(w) /\ RunOnce) /\ MaxFaults \in Nat
      /\ \A t \in cur[w] : t \in Token /\ key[t] \in Status \cup {0}
  BY WorkerFacts
<1>1. TypeOK'
  BY <1>a DEF TypeOK
<1>2. /\ faults' \in {faults, faults + 1}
      /\ \A r \in Request : pc'[r] = pc[r]
      /\ \A v \in Worker : v # w => pc'[v] = pc[v] /\ copy'[v] = copy[v]
  BY <1>a DEF TypeOK
<1>3. Holds(w)'
  BY <1>a DEF Holds, TypeOK
<1>4. Single' => Follows(w)'
  BY <1>a, <1>2, SingleBefore DEF Holds, Follows, TypeOK
<1> QED BY <1>a, <1>1, <1>2, <1>3, <1>4, QuietWorker DEF TypeOK

\* A worker settles on a verdict (worker.go:111).
LEMMA ExecutePreserves ==
    ASSUME RInv, NEW w \in Worker, ExecuteJob(w)
    PROVE  RInv'
<1> USE DEF ExecuteJob
<1>a. /\ TypeOK /\ Holds(w) /\ w \in Thread /\ \A r \in Request : r # w
      /\ (Single => Follows(w) /\ RunOnce) /\ MaxFaults \in Nat
      /\ \A t \in cur[w] : t \in Token /\ key[t] \in Status \cup {0}
  BY WorkerFacts
<1>0. \E s \in Status : IsFinished(s) /\ copy' = [copy EXCEPT ![w] = s]
  <2>1. \A s \in Verdicts \cup {StatusInternalError} : s \in Status /\ IsFinished(s)
    <3>1. Verdicts \subseteq {s \in Status : IsFinished(s)}
      BY RedisVerdictsAssumption
    <3>2. \A s \in {x \in Status : IsFinished(x)} : s \in Status /\ IsFinished(s)
      OBVIOUS
    <3>3. StatusInternalError \in Status /\ IsFinished(StatusInternalError)
      OBVIOUS
    <3> QED BY <3>1, <3>2, <3>3
  <2> QED BY <2>1
<1>1. TypeOK'
  BY <1>a, <1>0 DEF TypeOK
<1>2. /\ faults' \in {faults, faults + 1}
      /\ \A r \in Request : pc'[r] = pc[r]
      /\ \A v \in Worker : v # w => pc'[v] = pc[v] /\ copy'[v] = copy[v]
  BY <1>a DEF TypeOK
<1>3. Holds(w)'
  BY <1>a, <1>0 DEF Holds, TypeOK
<1>4. Single' => Follows(w)'
  BY <1>a, <1>2, SingleBefore DEF Holds, Follows, TypeOK
<1> QED BY <1>a, <1>1, <1>2, <1>3, <1>4, QuietWorker DEF TypeOK

\* The callback of a job is started (worker.go:160).
LEMMA FinalizePreserves ==
    ASSUME RInv, NEW w \in Worker, FinalizeJob(w)
    PROVE  RInv'
<1> USE DEF FinalizeJob
<1>a. /\ TypeOK /\ Holds(w) /\ w \in Thread /\ \A r \in Request : r # w
      /\ (Single => Follows(w) /\ RunOnce) /\ MaxFaults \in Nat
      /\ \A t \in cur[w] : t \in Token /\ key[t] \in Status \cup {0}
  BY WorkerFacts
<1>1. TypeOK'
  <2>1. Home[w] \in Node
    BY HomeAssumption
  <2>2. pending' \subseteq Node \X Token
    BY <1>a, <2>1 DEF TypeOK
  <2>3. pc' \in [Thread -> HandlerLabel \cup WorkerLabel]
    BY <1>a DEF TypeOK
  <2> QED BY <1>a, <2>2, <2>3 DEF TypeOK
<1>2. /\ faults' \in {faults, faults + 1}
      /\ \A r \in Request : pc'[r] = pc[r]
      /\ \A v \in Worker : v # w => pc'[v] = pc[v] /\ copy'[v] = copy[v]
  BY <1>a DEF TypeOK
<1>3. Holds(w)'
  BY <1>a DEF Holds, TypeOK
<1>4. Single' => Follows(w)'
  BY <1>a, <1>2, SingleBefore DEF Holds, Follows, TypeOK
<1> QED BY <1>a, <1>1, <1>2, <1>3, <1>4, QuietWorker DEF TypeOK

-----------------------------------------------------------------------------
(* Steps of a handler that write to Redis. *)

\* LPUSH (redis.go:60): the elements of a sequence after Append, and that Append of
\* a new element keeps them distinct.
LEMMA AppendElements ==
    ASSUME NEW S, NEW q \in Seq(S), NEW e \in S
    PROVE  /\ Append(q, e) \in Seq(S) /\ Append(q, e) # q
           /\ \A u : (\E i \in 1 .. Len(Append(q, e)) : Append(q, e)[i] = u)
                       <=> (\E i \in 1 .. Len(q) : q[i] = u) \/ u = e
           /\ /\ \A i, j \in 1 .. Len(q) : q[i] = q[j] => i = j
              /\ \A i \in 1 .. Len(q) : q[i] # e
              => \A i, j \in 1 .. Len(Append(q, e)) : Append(q, e)[i] = Append(q, e)[j] => i = j
<1>1. /\ Append(q, e) \in Seq(S) /\ Len(Append(q, e)) = Len(q) + 1
      /\ Append(q, e)[Len(q) + 1] = e
      /\ \A i \in 1 .. Len(q) : Append(q, e)[i] = q[i]
  OBVIOUS
<1>2. Len(q) \in Nat
  OBVIOUS
<1> QED BY <1>1, <1>2

\* What a repeated LPUSH leaves.
LEMMA TwiceElements ==
    ASSUME NEW S, NEW q \in Seq(S), NEW e \in S
    PROVE  /\ q \o <<e, e>> \in Seq(S)
           /\ \A i \in 1 .. Len(q \o <<e, e>>) :
                  \/ \E j \in 1 .. Len(q) : (q \o <<e, e>>)[i] = q[j]
                  \/ (q \o <<e, e>>)[i] = e
<1>1. /\ q \o <<e, e>> \in Seq(S) /\ Len(q \o <<e, e>>) = Len(q) + 2 /\ Len(q) \in Nat
      /\ \A i \in 1 .. Len(q) : (q \o <<e, e>>)[i] = q[i]
      /\ (q \o <<e, e>>)[Len(q) + 1] = e /\ (q \o <<e, e>>)[Len(q) + 2] = e
  OBVIOUS
<1> QED BY <1>1

\* SET of Enqueue (redis.go:56) by a handler whose job is nowhere yet.
LEMMA PostedPreserves ==
    ASSUME RInv, TypeOK', NEW r \in Request, pc[r] = "EnqSet",
           key' \in {key, [key EXCEPT ![Tok(r)] = StatusInQueue]},
           UNCHANGED <<list, copy, cur, inbox, missed, subs, idx, life, stops, crashes, sent, removed>>,
           faults' \in {faults, faults + 1},
           \A s \in Request : s # r => pc'[s] = pc[s] /\ reply'[s] = reply[s] /\ answer'[s] = answer[s],
           \A w \in Worker : pc'[w] = pc[w],
           \/ pc'[r] = "EnqPush" /\ reply'[r] = reply[r]
           \/ pc'[r] = "Replied" /\ reply'[r] = "refused"
    PROVE  RInv'
<1> USE DEF RInv
<1>a. \A s \in Request : Tok(s)' = Tok(s)
  BY DEF Tok
<1>b. SendsInOrder(r) /\ Stands(r) /\ Tok(r) \in Token /\ idx[r] \in 1 .. Len(Jobs[r])
  BY HandlerFacts
<1>c. /\ Single' => Single
      /\ faults' = 0 => faults = 0
  BY SingleBefore
<1>d. \A t : (Settled(t)' <=> Settled(t)) /\ (Listed(t)' <=> Listed(t)) /\ (Held(t)' <=> Held(t))
  BY DEF Settled, Listed, Held
<1>e. Tok(r) \notin sent /\ ~Listed(Tok(r)) /\ ~Held(Tok(r)) /\ ~inbox[r] /\ reply[r] = "none"
  BY <1>b DEF SendsInOrder, Stands, Accounted, Listed, Held
<1>f. /\ \A t \in Token : t # Tok(r) => key'[t] = key[t]
      /\ key'[Tok(r)] \in {key[Tok(r)], StatusInQueue}
  BY <1>b DEF TypeOK
<1>1. Workers'
  BY DEF Workers, Holds
<1>2. SendOrder'
  BY <1>a, <1>b DEF SendOrder, SendsInOrder
<1>3. Handlers'
  BY <1>a, <1>b, <1>e DEF Handlers, Stands
<1>4. Accounted' /\ Signals'
  BY DEF Accounted, Signals
<1>5. ASSUME Single' PROVE RunOnce' /\ Keys' /\ Answers'
  <2>1. RunOnce /\ Keys /\ Answers
    BY <1>5, <1>c
  <2>2. RunOnce'
    BY <2>1, <1>d, <1>e, <1>f DEF RunOnce
  <2>3. Keys'
    <3>1. \A t \in Token \ sent' : key'[t] \in {0, StatusInQueue}
      BY <2>1, <1>b, <1>e, <1>f DEF Keys
    <3>2. ASSUME NEW w \in Worker PROVE Follows(w)'
      <4>1. \A t \in cur[w] : key'[t] = key[t]
        BY <1>e, <1>f DEF Held, TypeOK
      <4> QED BY <4>1, <2>1, <1>c DEF Keys, Follows
    <3> QED BY <3>1, <3>2 DEF Keys
  <2>4. ASSUME NEW s \in Request, s # r PROVE Learns(s)'
    <3>1. Learns(s) /\ Tok(s) # Tok(r) /\ Tok(s) \in Token
      BY <2>1, <2>4, TokFacts DEF Answers
    <3> QED BY <3>1, <2>4, <1>a, <1>c, <1>d, <1>f DEF Learns
  <2>5. Learns(r)'
    BY <1>e DEF Learns
  <2> QED BY <2>2, <2>3, <2>4, <2>5 DEF Answers
<1>6. StartedIsFinished'
  BY <1>b, <1>c, <1>d, <1>f DEF StartedIsFinished, Calm
<1>7. UnfinishedIsInFlight'
  <2> SUFFICES ASSUME Calm', stops' = 0, NEW t \in Token, key'[t] # 0, ~IsFinished(key'[t]),
                      ~Listed(t), ~Held(t)
               PROVE  \E s \in Request : Tok(s)' = t /\ (pc'[s] = "EnqPush" \/ reply'[s] = "refused")
    BY <1>d DEF UnfinishedIsInFlight
  <2>1. CASE t = Tok(r)
    BY <2>1, <1>a
  <2>2. CASE t # Tok(r)
    <3>1. PICK s \in Request : Tok(s) = t /\ (pc[s] = "EnqPush" \/ reply[s] = "refused")
      BY <2>2, <1>c, <1>f DEF UnfinishedIsInFlight, Calm
    <3> QED BY <3>1, <2>2, <1>a
  <2> QED BY <2>1, <2>2
<1>8. PublishedIsHeard'
  <2> SUFFICES ASSUME Calm', NEW s \in Request, pc'[s] = "WaitSelect",
                      IsFinished(key'[Tok(s)']), ~Held(Tok(s)')
               PROVE  inbox[s] \/ s \in missed
    BY <1>d DEF PublishedIsHeard
  <2>1. s # r /\ Tok(s) # Tok(r) /\ Tok(s) \in Token
    BY TokFacts
  <2> QED BY <2>1, <1>a, <1>c, <1>f DEF PublishedIsHeard, Calm
<1> QED BY <1>1, <1>2, <1>3, <1>4, <1>5, <1>6, <1>7, <1>8

\* LPUSH (redis.go:60) of a token that was never in the list; a repeated one is the
\* end of Single.
LEMMA PushedPreserves ==
    ASSUME RInv, TypeOK', NEW r \in Request, pc[r] = "EnqPush",
           \/ list' = Append(list, Tok(r))
           \/ list' = list \o <<Tok(r), Tok(r)>> /\ Retries = TRUE /\ faults' = faults + 1,
           sent' = sent \cup {Tok(r)},
           UNCHANGED <<key, copy, cur, inbox, missed, subs, idx, life, stops, crashes, removed>>,
           faults' \in {faults, faults + 1},
           \A s \in Request : s # r => pc'[s] = pc[s] /\ reply'[s] = reply[s] /\ answer'[s] = answer[s],
           \A w \in Worker : pc'[w] = pc[w],
           \/ pc'[r] = "EnqGauge" /\ reply'[r] = reply[r]
           \/ pc'[r] = "Replied" /\ reply'[r] = "refused"
    PROVE  RInv'
<1> USE DEF RInv
<1>a. \A s \in Request : Tok(s)' = Tok(s)
  BY DEF Tok
<1>b. SendsInOrder(r) /\ Stands(r) /\ Tok(r) \in Token /\ idx[r] \in 1 .. Len(Jobs[r])
      /\ \A i, j \in 1 .. Len(Jobs[r]) : Jobs[r][i] = Jobs[r][j] => i = j
      /\ Tok(r) = Jobs[r][idx[r]]
  BY HandlerFacts
<1>c. /\ Single' => Single
      /\ faults' = 0 => faults = 0
      /\ Single' => list' = Append(list, Tok(r))
  BY SingleBefore DEF Single, TypeOK
<1>d. \A t : Held(t)' <=> Held(t)
  BY DEF Held
<1>e. Tok(r) \notin sent /\ ~Listed(Tok(r)) /\ ~Held(Tok(r)) /\ ~inbox[r] /\ reply[r] = "none"
  BY <1>b DEF SendsInOrder, Stands, Accounted, Listed, Held
<1>f. list \in Seq(Token)
  BY DEF TypeOK
<1>g. Single' => \A t : Listed(t)' <=> Listed(t) \/ t = Tok(r)
  <2>1. \A t : (\E i \in 1 .. Len(Append(list, Tok(r))) : Append(list, Tok(r))[i] = t)
                   <=> (\E i \in 1 .. Len(list) : list[i] = t) \/ t = Tok(r)
    BY <1>b, <1>f, AppendElements
  <2>2. Single' => list' = Append(list, Tok(r))
    BY <1>c
  <2> QED BY <2>1, <2>2 DEF Listed
<1>1. Workers' /\ Signals'
  BY DEF Workers, Holds, Signals
<1>2. SendOrder'
  <2>1. ASSUME NEW s \in Request, s # r PROVE SendsInOrder(s)'
    <3>1. \A i \in 1 .. Len(Jobs[s]) : Jobs[s][i] # Tok(r)
      BY <2>1, <1>b, RedisJobsAssumption
    <3>2. Tok(s) # Tok(r) /\ SendsInOrder(s)
      BY <2>1, TokFacts DEF SendOrder
    <3> QED BY <3>1, <3>2, <2>1, <1>a DEF SendsInOrder
  <2>2. SendsInOrder(r)'
    <3>1. \A i \in 1 .. Len(Jobs[r]) : i # idx[r] => Jobs[r][i] # Tok(r)
      BY <1>b
    <3>2. idx'[r] = idx[r]
      OBVIOUS
    <3> QED BY <3>1, <3>2, <1>a, <1>b DEF SendsInOrder
  <2> QED BY <2>1, <2>2 DEF SendOrder
<1>3. Handlers'
  BY <1>a, <1>b, <1>e DEF Handlers, Stands
<1>4. Accounted'
  <2>1. \A i \in 1 .. Len(list') : list'[i] \in sent'
    <3>1. CASE list' = Append(list, Tok(r))
      BY <3>1, <1>b, <1>f, AppendElements DEF Accounted
    <3>2. CASE list' = list \o <<Tok(r), Tok(r)>>
      BY <3>2, <1>b, <1>f, TwiceElements DEF Accounted
    <3> QED BY <3>1, <3>2
  <2> QED BY <2>1 DEF Accounted
<1>5. ASSUME Single' PROVE RunOnce' /\ Keys' /\ Answers'
  <2>1. RunOnce /\ Keys /\ Answers /\ list' = Append(list, Tok(r))
    BY <1>5, <1>c
  <2>2. RunOnce'
    <3>1. \A i, j \in 1 .. Len(list') : list'[i] = list'[j] => i = j
      BY <2>1, <1>b, <1>e, <1>f, AppendElements DEF RunOnce, Listed
    <3>2. key[Tok(r)] \in {0, StatusInQueue}
      BY <2>1, <1>b, <1>e DEF Keys
    <3> QED BY <3>1, <3>2, <2>1, <1>5, <1>d, <1>e, <1>g DEF RunOnce
  <2>3. Keys'
    BY <2>1, <1>c DEF Keys, Follows
  <2>4. \A t : t # Tok(r) /\ Settled(t) => Settled(t)'
    BY <1>5, <1>g DEF Settled
  <2>5. ASSUME NEW s \in Request, s # r PROVE Learns(s)'
    <3>1. Learns(s) /\ Tok(s) # Tok(r) /\ Tok(s) \in Token
      BY <2>1, <2>5, TokFacts DEF Answers
    <3> QED BY <3>1, <2>4, <2>5, <1>a, <1>c DEF Learns
  <2>6. Learns(r)'
    BY <1>e DEF Learns
  <2> QED BY <2>2, <2>3, <2>5, <2>6 DEF Answers
<1>6. StartedIsFinished'
  BY <1>c, <1>d DEF StartedIsFinished, Calm
<1>7. UnfinishedIsInFlight'
  <2> SUFFICES ASSUME Calm', stops' = 0, NEW t \in Token, key[t] # 0, ~IsFinished(key[t]),
                      ~Listed(t)', ~Held(t)
               PROVE  \E s \in Request : Tok(s)' = t /\ (pc'[s] = "EnqPush" \/ reply'[s] = "refused")
    BY <1>d DEF UnfinishedIsInFlight
  <2>1. Calm /\ Single'
    BY <1>c DEF Calm, Single
  <2>2. t # Tok(r) /\ ~Listed(t)
    BY <2>1, <1>g
  <2>3. PICK s \in Request : Tok(s) = t /\ (pc[s] = "EnqPush" \/ reply[s] = "refused")
    BY <2>1, <2>2 DEF UnfinishedIsInFlight
  <2> QED BY <2>2, <2>3, <1>a
<1>8. PublishedIsHeard'
  BY <1>a, <1>c, <1>d DEF PublishedIsHeard, Calm
<1> QED BY <1>1, <1>2, <1>3, <1>4, <1>5, <1>6, <1>7, <1>8

\* The job is stored (redis.go:56).
LEMMA SetPreserves ==
    ASSUME RInv, NEW r \in Request, HandlerSet(r)
    PROVE  RInv'
<1> USE DEF HandlerSet, EnqueueSet, SetKey
<1>a. /\ TypeOK /\ SendsInOrder(r) /\ Stands(r)
      /\ r \in Thread /\ \A w \in Worker : r # w
      /\ Tok(r) \in Token /\ (idx'[r] = idx[r] => Tok(r)' = Tok(r)) /\ MaxFaults \in Nat
  BY HandlerFacts, FaultsAssumption
<1>1. TypeOK'
  BY <1>a DEF TypeOK
<1>2. /\ pc'[r] = "EnqPush" /\ faults' \in {faults, faults + 1}
      /\ \A s \in Request : s # r => pc'[s] = pc[s]
      /\ \A w \in Worker : pc'[w] = pc[w]
  BY <1>a DEF TypeOK
<1> QED BY <1>1, <1>2, PostedPreserves

\* The job is queued (redis.go:60).
LEMMA PushPreserves ==
    ASSUME RInv, NEW r \in Request, HandlerPush(r)
    PROVE  RInv'
<1> USE DEF HandlerPush, EnqueuePush
<1>a. /\ TypeOK /\ SendsInOrder(r) /\ Stands(r)
      /\ r \in Thread /\ \A w \in Worker : r # w
      /\ Tok(r) \in Token /\ (idx'[r] = idx[r] => Tok(r)' = Tok(r)) /\ MaxFaults \in Nat
  BY HandlerFacts, FaultsAssumption
<1>1. TypeOK'
  <2>1. list' \in Seq(Token)
    <3>1. list \in Seq(Token)
      BY <1>a DEF TypeOK
    <3>2. Append(list, Tok(r)) \in Seq(Token) /\ list \o <<Tok(r), Tok(r)>> \in Seq(Token)
      BY <1>a, <3>1, AppendElements, TwiceElements
    <3> QED BY <3>2
  <2>2. faults' \in 0 .. MaxFaults /\ sent' \subseteq Token
    BY <1>a DEF TypeOK
  <2>3. pc' \in [Thread -> HandlerLabel \cup WorkerLabel]
    BY <1>a DEF TypeOK
  <2> QED BY <1>a, <2>1, <2>2, <2>3 DEF TypeOK
<1>2. /\ pc[r] = "EnqPush" /\ pc'[r] = "EnqGauge" /\ faults' \in {faults, faults + 1}
      /\ \A s \in Request : s # r => pc'[s] = pc[s]
      /\ \A w \in Worker : pc'[w] = pc[w]
  BY <1>a DEF TypeOK
<1>3. \/ list' = Append(list, Tok(r))
      \/ list' = list \o <<Tok(r), Tok(r)>> /\ Retries = TRUE /\ faults' = faults + 1
  BY FaultsAssumption
<1> QED BY <1>1, <1>2, <1>3, PushedPreserves

\* Enqueue returns an error (submissions.go:32).
LEMMA RefusedPreserves ==
    ASSUME RInv, NEW r \in Request, HandlerRefused(r)
    PROVE  RInv'
<1> USE DEF HandlerRefused
<1>a. /\ TypeOK /\ SendsInOrder(r) /\ Stands(r)
      /\ r \in Thread /\ \A w \in Worker : r # w
      /\ Tok(r) \in Token /\ (idx'[r] = idx[r] => Tok(r)' = Tok(r)) /\ MaxFaults \in Nat
  BY HandlerFacts, FaultsAssumption
<1>0. /\ pc' = [pc EXCEPT ![r] = "Replied"] /\ faults' \in 0 .. MaxFaults
      /\ reply' = [reply EXCEPT ![r] = "refused"] /\ answer' = [answer EXCEPT ![r] = 0]
      /\ UNCHANGED <<subs, inbox, missed, gauge, copy, cur, idx, gone, nodeVars, pending, delivered, removed>>
      /\ faults' \in {faults, faults + 1}
  BY <1>a DEF EnqueueSetFails, EnqueuePushFails, TypeOK
<1>b. /\ pc'[r] = "Replied" /\ reply'[r] = "refused"
      /\ \A s \in Request : s # r => pc'[s] = pc[s] /\ reply'[s] = reply[s] /\ answer'[s] = answer[s]
      /\ \A w \in Worker : pc'[w] = pc[w]
  BY <1>a, <1>0 DEF TypeOK
<1>c. ASSUME list' \in Seq(Token), key' \in [Token -> Status \cup {0}], sent' \subseteq Token
      PROVE  TypeOK'
  <2>1. reply' \in [Request -> Reply] /\ answer' \in [Request -> Status \cup {0}]
    <3>1. "refused" \in Reply /\ 0 \in Status \cup {0}
      OBVIOUS
    <3> QED BY <1>a, <1>0, <3>1, RespondTypes
  <2>2. pc' \in [Thread -> HandlerLabel \cup WorkerLabel]
    BY <1>a, <1>0 DEF TypeOK
  <2> QED BY <1>a, <1>0, <1>c, <2>1, <2>2 DEF TypeOK
<1>1. CASE EnqueueSetFails(r, Tok(r)) /\ UNCHANGED sent
  <2>1. /\ key' \in {key, [key EXCEPT ![Tok(r)] = StatusInQueue]} /\ list' = list
        /\ pc[r] = "EnqSet" /\ sent' = sent
    BY <1>1 DEF EnqueueSetFails
  <2>2. TypeOK'
    <3>1. list' \in Seq(Token) /\ sent' \subseteq Token /\ key \in [Token -> Status \cup {0}]
      BY <2>1, <1>a DEF TypeOK
    <3>2. [key EXCEPT ![Tok(r)] = StatusInQueue] \in [Token -> Status \cup {0}]
      BY <3>1, <1>a, QueuedKeyType
    <3>3. key' \in [Token -> Status \cup {0}]
      BY <2>1, <3>1, <3>2
    <3> QED BY <3>1, <3>3, <1>c
  <2> QED BY <2>1, <2>2, <1>0, <1>b, PostedPreserves
<1>2. CASE /\ EnqueuePushFails(r, Tok(r)) /\ list' # list
           /\ sent' = IF list' = list THEN sent ELSE sent \cup {Tok(r)}
  <2>1. list' = Append(list, Tok(r)) /\ key' = key /\ pc[r] = "EnqPush" /\ sent' = sent \cup {Tok(r)}
    BY <1>2 DEF EnqueuePushFails
  <2>2. TypeOK'
    <3>1. list' \in Seq(Token) /\ sent' \subseteq Token
      BY <2>1, <1>a, AppendElements DEF TypeOK
    <3> QED BY <2>1, <3>1, <1>a, <1>c DEF TypeOK
  <2> QED BY <2>1, <2>2, <1>0, <1>b, PushedPreserves
<1>3. CASE pc[r] \in {"EnqSet", "EnqPush"} /\ list' = list /\ key' = key /\ sent' = sent
  <2>1. TypeOK'
    BY <1>3, <1>a, <1>c DEF TypeOK
  <2>2. SendsInOrder(r)' /\ Stands(r)'
    BY <1>3, <1>0, <1>a, <1>b DEF SendsInOrder, Stands, TypeOK
  <2> QED BY <2>1, <2>2, <1>3, <1>0, <1>a, <1>b, QuietHandler DEF Stands
<1> QED BY <1>1, <1>2, <1>3 DEF EnqueuePushFails

-----------------------------------------------------------------------------
(* Steps of a worker that write to Redis. *)

\* BRPOP (redis.go:70): what Tail leaves of a sequence.
LEMMA TailElements ==
    ASSUME NEW S, NEW q \in Seq(S), q # <<>>
    PROVE  /\ Tail(q) \in Seq(S) /\ Head(q) \in S
           /\ \A u : (\E i \in 1 .. Len(q) : q[i] = u)
                      <=> (\E i \in 1 .. Len(Tail(q)) : Tail(q)[i] = u) \/ u = Head(q)
           /\ (\A i, j \in 1 .. Len(q) : q[i] = q[j] => i = j) =>
                  /\ \A i, j \in 1 .. Len(Tail(q)) : Tail(q)[i] = Tail(q)[j] => i = j
                  /\ \A i \in 1 .. Len(Tail(q)) : Tail(q)[i] # Head(q)
<1>1. /\ Tail(q) \in Seq(S) /\ Head(q) \in S /\ Len(Tail(q)) = Len(q) - 1
      /\ Head(q) = q[1] /\ Len(q) >= 1 /\ Len(q) \in Nat
      /\ \A i \in 1 .. Len(q) - 1 : Tail(q)[i] = q[i + 1]
  OBVIOUS
<1>2. ASSUME NEW u, NEW i \in 1 .. Len(q), q[i] = u, u # Head(q)
      PROVE  \E j \in 1 .. Len(Tail(q)) : Tail(q)[j] = u
  <2>1. i - 1 \in 1 .. Len(q) - 1 /\ (i - 1) + 1 = i
    BY <1>1, <1>2
  <2> QED BY <1>1, <1>2, <2>1
<1>3. ASSUME NEW u, NEW i \in 1 .. Len(Tail(q)), Tail(q)[i] = u
      PROVE  \E j \in 1 .. Len(q) : q[j] = u
  <2>1. i + 1 \in 1 .. Len(q)
    BY <1>1
  <2> QED BY <1>1, <1>3, <2>1
<1>4. \E i \in 1 .. Len(q) : q[i] = Head(q)
  BY <1>1
<1>5. ASSUME \A i, j \in 1 .. Len(q) : q[i] = q[j] => i = j
      PROVE  /\ \A i, j \in 1 .. Len(Tail(q)) : Tail(q)[i] = Tail(q)[j] => i = j
             /\ \A i \in 1 .. Len(Tail(q)) : Tail(q)[i] # Head(q)
  <2>1. ASSUME NEW i \in 1 .. Len(Tail(q)), NEW j \in 1 .. Len(Tail(q)), Tail(q)[i] = Tail(q)[j]
        PROVE  i = j
    <3>1. i + 1 \in 1 .. Len(q) /\ j + 1 \in 1 .. Len(q) /\ q[i + 1] = q[j + 1]
      BY <1>1, <2>1
    <3>2. i + 1 = j + 1
      BY <1>5, <3>1
    <3> QED BY <1>1, <3>2
  <2>2. ASSUME NEW i \in 1 .. Len(Tail(q)) PROVE Tail(q)[i] # Head(q)
    <3>1. i + 1 \in 1 .. Len(q) /\ 1 \in 1 .. Len(q) /\ i + 1 # 1
      BY <1>1
    <3>2. q[i + 1] # q[1]
      BY <1>5, <3>1
    <3> QED BY <1>1, <3>2
  <2> QED BY <2>1, <2>2
<1> QED BY <1>1, <1>2, <1>3, <1>4, <1>5

\* What the list is after BRPOP (redis.go:70).
LEMMA PoppedElements ==
    ASSUME list \in Seq(Token), list # <<>>, list' = Tail(list), NEW h, h = Head(list)
    PROVE  /\ list' \in Seq(Token) /\ h \in Token
           /\ \A t : Listed(t) <=> Listed(t)' \/ t = h
           /\ (\A i, j \in 1 .. Len(list) : list[i] = list[j] => i = j) =>
                  /\ \A i, j \in 1 .. Len(list') : list'[i] = list'[j] => i = j
                  /\ ~Listed(h)'
<1>1. /\ Tail(list) \in Seq(Token) /\ Head(list) \in Token
      /\ \A u : (\E i \in 1 .. Len(list) : list[i] = u)
                 <=> (\E i \in 1 .. Len(Tail(list)) : Tail(list)[i] = u) \/ u = Head(list)
      /\ (\A i, j \in 1 .. Len(list) : list[i] = list[j] => i = j) =>
             /\ \A i, j \in 1 .. Len(Tail(list)) : Tail(list)[i] = Tail(list)[j] => i = j
             /\ \A i \in 1 .. Len(Tail(list)) : Tail(list)[i] # Head(list)
  BY TailElements
<1>2. \A t : Listed(t)' <=> \E i \in 1 .. Len(Tail(list)) : Tail(list)[i] = t
  BY DEF Listed
<1> QED BY <1>1, <1>2 DEF Listed

\* A worker takes the front of the list, or it is lost with the answer (redis.go:70).
LEMMA PoppedPreserves ==
    ASSUME RInv, NEW w \in Worker, pc[w] = "Pop", list # <<>>, list' = Tail(list),
           UNCHANGED <<key, subs, inbox, missed, gauge, copy, engineVars>>,
           \/ /\ cur' = [cur EXCEPT ![w] = {Head(list)}] /\ faults' = faults
              /\ pc' = [pc EXCEPT ![w] = "Get"]
           \/ cur' = cur /\ Fault /\ pc' = [pc EXCEPT ![w] = "Loop"]
    PROVE  RInv'
<1> USE DEF RInv
<1>a. /\ TypeOK /\ Holds(w) /\ w \in Thread /\ \A r \in Request : r # w
      /\ (Single => Follows(w) /\ RunOnce) /\ MaxFaults \in Nat
  BY WorkerFacts
<1>b. \A r \in Request : Tok(r)' = Tok(r) /\ pc'[r] = pc[r]
  BY <1>a DEF Tok, TypeOK
<1>c. faults' \in {faults, faults + 1} /\ (Single' => Single) /\ (faults' = 0 => faults = 0)
  BY SingleBefore
<1>0. PICK h : h = Head(list)
  OBVIOUS
<1>d. /\ list' \in Seq(Token) /\ h \in Token
      /\ \A t : Listed(t) <=> Listed(t)' \/ t = h
      /\ RunOnce => /\ \A i, j \in 1 .. Len(list') : list'[i] = list'[j] => i = j
                    /\ ~Listed(h)'
  <2>1. list \in Seq(Token)
    BY <1>a DEF TypeOK
  <2>2. RunOnce => \A i, j \in 1 .. Len(list) : list[i] = list[j] => i = j
    BY DEF RunOnce
  <2> QED BY <2>1, <2>2, <1>0, PoppedElements
<1>e. cur[w] = {} /\ cur'[w] \subseteq {h} /\ \A v \in Worker : v # w => cur'[v] = cur[v]
  BY <1>a, <1>0 DEF Holds, TypeOK
<1>f. /\ \A v \in Worker : v # w => pc'[v] = pc[v]
      /\ \/ pc'[w] = "Get" /\ cur'[w] = {h}
         \/ pc'[w] = "Loop" /\ cur'[w] = {} /\ faults' # 0
  <2>1. \A v \in Worker : v # w => pc'[v] = pc[v]
    BY <1>a DEF TypeOK
  <2>2. CASE cur' = cur /\ Fault /\ pc' = [pc EXCEPT ![w] = "Loop"]
    BY <2>1, <2>2, <1>a, <1>e DEF TypeOK
  <2>3. CASE cur' = [cur EXCEPT ![w] = {h}] /\ pc' = [pc EXCEPT ![w] = "Get"]
    <3>1. cur \in [Worker -> SUBSET Token] /\ pc \in [Thread -> HandlerLabel \cup WorkerLabel]
      BY <1>a DEF TypeOK
    <3>2. cur'[w] = {h} /\ pc'[w] = "Get"
      BY <2>3, <3>1, <1>a
    <3> QED BY <2>1, <3>2
  <2> QED BY <2>2, <2>3, <1>0
<1>g. \A t : (Held(t) => Held(t)') /\ (Held(t)' => Held(t) \/ t = h)
  BY <1>e DEF Held
<1>1. TypeOK'
  <2>1. cur' \in [Worker -> SUBSET Token] /\ faults' \in 0 .. MaxFaults
    <3>1. cur \in [Worker -> SUBSET Token] /\ faults \in 0 .. MaxFaults /\ {h} \in SUBSET Token
      BY <1>a, <1>d DEF TypeOK
    <3>2. cur' \in [Worker -> SUBSET Token]
      BY <3>1, <1>0
    <3>3. faults' \in 0 .. MaxFaults
      BY <3>1, <1>a
    <3> QED BY <3>2, <3>3
  <2>2. pc' \in [Thread -> HandlerLabel \cup WorkerLabel]
    <3>1. pc \in [Thread -> HandlerLabel \cup WorkerLabel]
      BY <1>a DEF TypeOK
    <3> QED BY <3>1
  <2> QED BY <1>a, <1>d, <2>1, <2>2 DEF TypeOK
<1>2. Workers'
  BY <1>a, <1>d, <1>e, <1>f DEF Workers, Holds
<1>3. SendOrder' /\ Handlers' /\ Signals'
  BY <1>b DEF SendOrder, SendsInOrder, Handlers, Stands, Signals
<1>4. Accounted'
  <2>1. \A t : Listed(t) => t \in sent
    BY DEF Accounted, Listed
  <2>2. \A i \in 1 .. Len(list') : list'[i] \in sent
    BY <2>1, <1>d DEF Listed
  <2>3. \A v \in Worker : cur'[v] \subseteq sent
    BY <2>1, <1>d, <1>e DEF Accounted
  <2> QED BY <2>2, <2>3 DEF Accounted
<1>5. ASSUME Single' PROVE RunOnce' /\ Keys' /\ Answers'
  <2>1. RunOnce /\ Keys /\ Answers
    BY <1>5, <1>c
  <2>2. Listed(h) /\ ~Held(h) /\ key[h] \in {0, StatusInQueue}
    BY <2>1, <1>d DEF RunOnce
  <2>3. RunOnce'
    <3>1. ASSUME NEW u \in Worker, NEW v \in Worker, cur'[u] \cap cur'[v] # {} PROVE u = v
      <4>1. \A x \in Worker : h \notin cur[x]
        BY <2>2 DEF Held
      <4> QED BY <4>1, <3>1, <2>1, <1>e DEF RunOnce
    <3>2. ASSUME NEW t \in Token, Listed(t)' PROVE ~Held(t)' /\ key[t] \in {0, StatusInQueue}
      <4>1. Listed(t) /\ t # h
        BY <3>2, <2>1, <1>d
      <4>2. ~Held(t) /\ key[t] \in {0, StatusInQueue}
        BY <4>1, <2>1 DEF RunOnce
      <4> QED BY <4>1, <4>2, <1>g
    <3> QED BY <3>1, <3>2, <2>1 DEF RunOnce
  <2>4. Keys'
    <3>1. ASSUME NEW v \in Worker PROVE Follows(v)'
      <4>1. CASE v = w
        BY <4>1, <2>2, <1>f DEF Follows
      <4>2. CASE v # w
        BY <4>2, <2>1, <1>c, <1>e, <1>f DEF Keys, Follows
      <4> QED BY <4>1, <4>2
    <3> QED BY <3>1, <2>1 DEF Keys
  <2>5. \A t : Settled(t) => Settled(t)'
    BY <2>2, <1>d, <1>e, <1>f DEF Settled
  <2>6. Answers'
    BY <2>1, <2>5, <1>b, <1>c DEF Answers, Learns
  <2> QED BY <2>3, <2>4, <2>6
<1>6. StartedIsFinished'
  BY <1>c, <1>g DEF StartedIsFinished, Calm
<1>7. UnfinishedIsInFlight'
  <2> SUFFICES ASSUME Calm', stops' = 0, NEW t \in Token, key[t] # 0, ~IsFinished(key[t])
               PROVE  \/ Listed(t)' \/ Held(t)'
                      \/ \E s \in Request : Tok(s)' = t /\ (pc'[s] = "EnqPush" \/ reply[s] = "refused")
    BY DEF UnfinishedIsInFlight
  <2>1. Calm /\ stops = 0
    BY <1>c DEF Calm
  <2>2. h \in cur'[w]
    BY <1>f DEF Calm
  <2>3. CASE Listed(t)
    BY <2>2, <2>3, <1>d DEF Held
  <2>4. CASE Held(t)
    BY <2>4, <1>g
  <2>5. CASE \E s \in Request : Tok(s) = t /\ (pc[s] = "EnqPush" \/ reply[s] = "refused")
    BY <2>5, <1>b
  <2> QED BY <2>1, <2>3, <2>4, <2>5 DEF UnfinishedIsInFlight
<1>8. PublishedIsHeard'
  BY <1>b, <1>c, <1>g DEF PublishedIsHeard, Calm
<1> QED BY <1>1, <1>2, <1>3, <1>4, <1>5, <1>6, <1>7, <1>8

\* A popped token whose key cannot be read is dropped (redis.go:87).
LEMMA DropPreserves ==
    ASSUME RInv, NEW w \in Worker, DequeueDrop(w, Cancelled(w)), UNCHANGED engineVars
    PROVE  RInv'
<1> USE DEF RInv, DequeueDrop
<1>a. /\ TypeOK /\ Holds(w) /\ w \in Thread /\ \A r \in Request : r # w
      /\ (Single => Follows(w) /\ RunOnce) /\ MaxFaults \in Nat
      /\ \A t \in cur[w] : t \in Token /\ key[t] \in Status \cup {0}
  BY WorkerFacts
<1>t. PICK t \in Token : cur[w] = {t}
  BY <1>a DEF Holds
<1>b. \A r \in Request : Tok(r)' = Tok(r) /\ pc'[r] = pc[r]
  BY <1>a DEF Tok, TypeOK
<1>0. /\ faults' \in {faults, faults + 1} /\ faults' \in 0 .. MaxFaults
      /\ faults' = 0 => Cancelled(w) \/ key[t] = 0
  BY <1>a, <1>t DEF TypeOK
<1>c. (Single' => Single) /\ (faults' = 0 => faults = 0)
  BY <1>0, SingleBefore
<1>d. /\ pc'[w] = "Loop" /\ cur'[w] = {}
      /\ \A v \in Worker : v # w => pc'[v] = pc[v] /\ cur'[v] = cur[v]
  BY <1>a DEF TypeOK
<1>e. /\ \A u : Listed(u)' <=> Listed(u)
      /\ \A u : Held(u)' => Held(u)
      /\ \A u : Held(u) /\ u # t => Held(u)'
  BY <1>d, <1>t DEF Listed, Held
<1>1. TypeOK'
  <2>1. cur' \in [Worker -> SUBSET Token] /\ pc' \in [Thread -> HandlerLabel \cup WorkerLabel]
    BY <1>a DEF TypeOK
  <2> QED BY <1>a, <1>0, <2>1 DEF TypeOK
<1>2. Workers'
  BY <1>a, <1>d DEF Workers, Holds
<1>3. SendOrder' /\ Handlers' /\ Signals' /\ Accounted'
  BY <1>b, <1>d DEF SendOrder, SendsInOrder, Handlers, Stands, Signals, Accounted
<1>4. ASSUME Single' PROVE RunOnce' /\ Keys' /\ Answers'
  <2>1. RunOnce /\ Keys /\ Answers
    BY <1>4, <1>c
  <2>2. RunOnce'
    BY <2>1, <1>d, <1>e DEF RunOnce
  <2>3. Keys'
    BY <2>1, <1>c, <1>d DEF Keys, Follows
  <2>4. \A u : Settled(u) => Settled(u)'
    BY <1>d, <1>e DEF Settled
  <2> QED BY <2>1, <2>2, <2>3, <2>4, <1>b, <1>c DEF Answers, Learns
<1>5. Calm' => Calm /\ Single /\ (key[t] = 0 \/ stops # 0) /\ key[t] \in {0, StatusInQueue}
  <2> SUFFICES ASSUME Calm' PROVE Calm /\ Single /\ (key[t] = 0 \/ stops # 0) /\ key[t] \in {0, StatusInQueue}
    OBVIOUS
  <2>1. Calm /\ Single
    BY <1>c DEF Calm, Single
  <2>2. Cancelled(w) => stops # 0
    <3>1. Home[w] \in Node
      BY HomeAssumption
    <3> QED BY <3>1 DEF Cancelled, Signals
  <2>3. Cancelled(w) \/ key[t] = 0
    BY <1>0 DEF Calm
  <2>4. key[t] \in {0, StatusInQueue}
    BY <2>1, <1>a, <1>t DEF Follows
  <2> QED BY <2>1, <2>2, <2>3, <2>4
<1>6. StartedIsFinished'
  BY <1>5, <1>e DEF StartedIsFinished
<1>7. UnfinishedIsInFlight'
  BY <1>5, <1>b, <1>e DEF UnfinishedIsInFlight
<1>8. PublishedIsHeard'
  BY <1>5, <1>b, <1>e DEF PublishedIsHeard
<1> QED BY <1>1, <1>2, <1>3, <1>4, <1>6, <1>7, <1>8

\* A worker that has the token t, and no verdict that is announced, writes its key
\* (worker.go:93, redis.go:147) or fails to.
LEMMA WrittenPreserves ==
    ASSUME RInv, TypeOK', NEW w \in Worker, NEW t \in Token, cur[w] = {t}, pc[w] # "SigPublish",
           UNCHANGED <<list, subs, inbox, missed, cur, engineVars>>,
           faults' \in {faults, faults + 1},
           \A u \in Token : u # t => key'[u] = key[u],
           \A r \in Request : pc'[r] = pc[r],
           \A v \in Worker : v # w => pc'[v] = pc[v] /\ copy'[v] = copy[v],
           Holds(w)', Single' => Follows(w)'
    PROVE  RInv'
<1> USE DEF RInv
<1>b. \A r \in Request : Tok(r)' = Tok(r)
  BY DEF Tok
<1>c. (Single' => Single) /\ (faults' = 0 => faults = 0)
  BY SingleBefore
<1>d. /\ \A u : (Listed(u)' <=> Listed(u)) /\ (Held(u)' <=> Held(u)) /\ (Settled(u) => Settled(u)')
      /\ Held(t) /\ ~Settled(t) /\ t \in sent
  BY DEF Listed, Held, Settled, Accounted
<1>2. Workers'
  BY DEF Workers, Holds
<1>3. SendOrder' /\ Handlers' /\ Signals' /\ Accounted'
  BY <1>b DEF SendOrder, SendsInOrder, Handlers, Stands, Signals, Accounted
<1>4. ASSUME Single' PROVE RunOnce' /\ Keys' /\ Answers'
  <2>1. RunOnce /\ Keys /\ Answers
    BY <1>4, <1>c
  <2>2. RunOnce'
    BY <2>1, <1>d DEF RunOnce
  <2>3. Keys'
    <3>1. ASSUME NEW v \in Worker, v # w PROVE Follows(v)'
      <4>1. t \notin cur[v] /\ cur[v] \subseteq Token
        BY <2>1, <3>1 DEF RunOnce, TypeOK
      <4> QED BY <4>1, <3>1, <2>1, <1>c DEF Keys, Follows
    <3> QED BY <3>1, <2>1, <1>4, <1>d DEF Keys
  <2>4. Answers'
    <3>1. ASSUME NEW r \in Request PROVE Learns(r)'
      <4>1. Learns(r) /\ Tok(r) \in Token /\ (Settled(Tok(r)) => Tok(r) # t)
        BY <2>1, <1>d, TokFacts DEF Answers
      <4>2. Settled(Tok(r)) => key'[Tok(r)'] = key[Tok(r)]
        BY <4>1, <1>b
      <4>3. reply[r] = "ready" \/ inbox[r] => Settled(Tok(r))
        BY <4>1 DEF Learns
      <4>4. reply[r] = "signal" => inbox[r]
        BY DEF Handlers, Stands
      <4> QED BY <4>1, <4>2, <4>3, <4>4, <1>b, <1>c, <1>d DEF Learns
    <3> QED BY <3>1 DEF Answers
  <2> QED BY <2>2, <2>3, <2>4
<1>5. StartedIsFinished'
  BY <1>c, <1>d DEF StartedIsFinished, Calm
<1>6. UnfinishedIsInFlight'
  BY <1>b, <1>c, <1>d DEF UnfinishedIsInFlight, Calm
<1>7. PublishedIsHeard'
  <2>1. \A r \in Request : Tok(r) \in Token
    BY TokFacts
  <2> QED BY <2>1, <1>b, <1>c, <1>d DEF PublishedIsHeard, Calm
<1> QED BY <1>2, <1>3, <1>4, <1>5, <1>6, <1>7

\* A job is started (worker.go:92).
LEMMA StartPreserves ==
    ASSUME RInv, NEW w \in Worker, StartJob(w)
    PROVE  RInv'
<1> USE DEF StartJob
<1>a. /\ TypeOK /\ Holds(w) /\ w \in Thread /\ \A r \in Request : r # w
      /\ (Single => Follows(w) /\ RunOnce) /\ MaxFaults \in Nat
      /\ \A t \in cur[w] : t \in Token /\ key[t] \in Status \cup {0}
  BY WorkerFacts
<1>t. PICK t \in Token : cur[w] = {t}
  BY <1>a DEF Holds
<1>0. /\ copy' = [copy EXCEPT ![w] = StatusProcessing] /\ faults' \in {faults, faults + 1}
      /\ faults' \in 0 .. MaxFaults /\ key' \in {key, [key EXCEPT ![t] = StatusProcessing]}
  BY <1>a, <1>t DEF UpdateSubmission, SetKey, SetLost, TypeOK
<1>1. TypeOK'
  <2>1. copy' \in [Worker -> Status \cup {0}]
    BY <1>a, <1>0 DEF TypeOK
  <2>3. key' \in [Token -> Status \cup {0}]
    <3>1. key \in [Token -> Status \cup {0}] /\ StatusProcessing \in Status
      BY <1>a DEF TypeOK
    <3> QED BY <3>1, <1>0
  <2>2. pc' \in [Thread -> HandlerLabel \cup WorkerLabel]
    BY <1>a DEF TypeOK
  <2> QED BY <1>a, <1>0, <2>1, <2>2, <2>3 DEF TypeOK
<1>2. /\ \A r \in Request : pc'[r] = pc[r]
      /\ \A v \in Worker : v # w => pc'[v] = pc[v] /\ copy'[v] = copy[v]
      /\ pc'[w] = "Execute" /\ copy'[w] = StatusProcessing
      /\ \A u \in Token : u # t => key'[u] = key[u]
      /\ key'[t] \in {key[t], StatusProcessing}
  BY <1>a, <1>0 DEF TypeOK
<1>3. Holds(w)'
  BY <1>a, <1>2 DEF Holds
<1>4. Single' => Follows(w)'
  BY <1>a, <1>t, <1>0, <1>2, SingleBefore DEF Follows
<1> QED BY <1>t, <1>0, <1>1, <1>2, <1>3, <1>4, WrittenPreserves

\* The verdict is stored (redis.go:147).
LEMMA StorePreserves ==
    ASSUME RInv, NEW w \in Worker, SignalSet(w), UNCHANGED engineVars
    PROVE  RInv'
<1> USE DEF SignalSet
<1>a. /\ TypeOK /\ Holds(w) /\ w \in Thread /\ \A r \in Request : r # w
      /\ (Single => Follows(w) /\ RunOnce) /\ MaxFaults \in Nat
      /\ \A t \in cur[w] : t \in Token /\ key[t] \in Status \cup {0}
  BY WorkerFacts
<1>t. PICK t \in Token : cur[w] = {t}
  BY <1>a DEF Holds
<1>0. /\ faults' \in {faults, faults + 1} /\ faults' \in 0 .. MaxFaults
      /\ \/ key' = [key EXCEPT ![t] = copy[w]]
         \/ key' = key /\ faults' # 0
  BY <1>a, <1>t DEF SetKey, SetLost, TypeOK
<1>1. TypeOK'
  <2>1. key' \in [Token -> Status \cup {0}]
    BY <1>a, <1>0 DEF TypeOK
  <2>2. pc' \in [Thread -> HandlerLabel \cup WorkerLabel]
    BY <1>a DEF TypeOK
  <2> QED BY <1>a, <1>0, <2>1, <2>2 DEF TypeOK
<1>2. /\ \A r \in Request : pc'[r] = pc[r]
      /\ \A v \in Worker : v # w => pc'[v] = pc[v] /\ copy'[v] = copy[v]
      /\ pc'[w] = "SigPublish" /\ copy'[w] = copy[w]
      /\ \A u \in Token : u # t => key'[u] = key[u]
      /\ key'[t] = copy[w] \/ (key'[t] = key[t] /\ faults' # 0)
  BY <1>a, <1>0 DEF TypeOK
<1>3. Holds(w)'
  BY <1>a, <1>2 DEF Holds
<1>4. Single' => Follows(w)'
  BY <1>a, <1>t, <1>0, <1>2, SingleBefore DEF Follows
<1> QED BY <1>t, <1>0, <1>1, <1>2, <1>3, <1>4, WrittenPreserves

\* The verdict is announced (redis.go:150) to those who subscribed.
LEMMA PublishPreserves ==
    ASSUME RInv, NEW w \in Worker, SignalPublish(w, {r \in Request : Tok(r) \in cur[w]}),
           UNCHANGED engineVars
    PROVE  RInv'
<1> USE DEF RInv, SignalPublish
<1>a. /\ TypeOK /\ Holds(w) /\ w \in Thread /\ \A r \in Request : r # w
      /\ (Single => Follows(w) /\ RunOnce) /\ MaxFaults \in Nat
      /\ \A t \in cur[w] : t \in Token /\ key[t] \in Status \cup {0}
  BY WorkerFacts
<1>t. PICK t \in Token : cur[w] = {t}
  BY <1>a DEF Holds
<1>b. \A r \in Request : Tok(r)' = Tok(r) /\ pc'[r] = pc[r] /\ Tok(r) \in Token
  BY <1>a, TokFacts DEF Tok, TypeOK
<1>0. /\ faults' \in {faults, faults + 1} /\ faults' \in 0 .. MaxFaults
      /\ \A r \in Request : inbox'[r] \in BOOLEAN /\ (inbox[r] => inbox'[r])
      /\ \A r \in Request : inbox'[r] => inbox[r] \/ (Tok(r) = t /\ subs[r] = "active")
      /\ \A r \in Request : faults' = faults /\ Tok(r) = t /\ subs[r] = "active" => inbox'[r]
      /\ \A r \in Request : faults' = faults /\ Tok(r) = t /\ subs[r] = "sent" => r \in missed'
      /\ inbox' \in [Request -> BOOLEAN] /\ missed \subseteq missed' /\ missed' \subseteq Request
  <2>1. /\ inbox \in [Request -> BOOLEAN] /\ missed \subseteq Request
        /\ faults \in 0 .. MaxFaults
    BY <1>a DEF TypeOK
  <2>2. CASE Fault /\ UNCHANGED <<inbox, missed>>
    BY <2>1, <2>2, <1>a
  <2>3. CASE /\ inbox' = [r \in Request |-> inbox[r] \/ (r \in {s \in Request : Tok(s) \in cur[w]}
                                                                 /\ subs[r] = "active")]
             /\ missed' = missed \cup {r \in {s \in Request : Tok(s) \in cur[w]} : subs[r] = "sent"}
             /\ UNCHANGED faults
    <3>1. \A r \in Request : inbox'[r] <=> inbox[r] \/ (Tok(r) = t /\ subs[r] = "active")
      BY <2>3, <1>t
    <3>2. inbox' \in [Request -> BOOLEAN]
      BY <2>1, <2>3
    <3>3. /\ \A r \in Request : Tok(r) = t /\ subs[r] = "sent" => r \in missed'
          /\ missed \subseteq missed' /\ missed' \subseteq Request
      BY <2>1, <2>3, <1>t
    <3> QED BY <2>1, <2>3, <3>1, <3>2, <3>3
  <2> QED BY <2>2, <2>3
<1>c. (Single' => Single) /\ (faults' = 0 => faults = 0)
  BY <1>0, SingleBefore
<1>d. /\ pc[w] = "SigPublish" /\ pc'[w] = "Loop" /\ cur'[w] = {} /\ copy'[w] = 0
      /\ \A v \in Worker : v # w => pc'[v] = pc[v] /\ cur'[v] = cur[v] /\ copy'[v] = copy[v]
  BY <1>a DEF TypeOK
<1>e. /\ \A u : Listed(u)' <=> Listed(u)
      /\ \A u : Held(u)' => Held(u)
      /\ \A u : Held(u) /\ u # t => Held(u)'
  BY <1>d, <1>t DEF Listed, Held
<1>f. \A u : Settled(u) => Settled(u)'
  BY <1>d, <1>e DEF Settled
<1>1. TypeOK'
  <2>1. cur' \in [Worker -> SUBSET Token] /\ copy' \in [Worker -> Status \cup {0}]
    BY <1>a DEF TypeOK
  <2>2. pc' \in [Thread -> HandlerLabel \cup WorkerLabel]
    BY <1>a DEF TypeOK
  <2> QED BY <1>a, <1>0, <2>1, <2>2 DEF TypeOK
<1>2. Workers'
  BY <1>a, <1>d DEF Workers, Holds
<1>3. SendOrder' /\ Signals' /\ Accounted'
  BY <1>b, <1>d DEF SendOrder, SendsInOrder, Signals, Accounted
<1>4. Handlers'
  BY <1>b, <1>0 DEF Handlers, Stands
<1>5. ASSUME Single' PROVE RunOnce' /\ Keys' /\ Answers'
  <2>1. RunOnce /\ Keys /\ Answers
    BY <1>5, <1>c
  <2>2. RunOnce'
    BY <2>1, <1>d, <1>e DEF RunOnce
  <2>3. Keys'
    BY <2>1, <1>c, <1>d DEF Keys, Follows
  <2>4. /\ Settled(t) /\ (faults = 0 /\ t \notin removed => IsFinished(key[t]))
    <3>1. t \in sent /\ ~Listed(t)
      BY <2>1, <1>t DEF Accounted, RunOnce, Held
    <3>2. \A v \in Worker : t \in cur[v] => v = w
      BY <2>1, <1>t DEF RunOnce
    <3>3. faults = 0 /\ t \notin removed => IsFinished(key[t])
      BY <2>1, <1>a, <1>t, <1>d DEF Keys, Follows, Holds
    <3> QED BY <3>1, <3>2, <3>3, <1>d DEF Settled
  <2>5. ASSUME NEW r \in Request PROVE Learns(r)'
    <3>1. Learns(r) /\ Stands(r)
      BY <2>1 DEF Answers, Handlers
    <3>2. inbox'[r] => Settled(Tok(r)) /\ (faults = 0 /\ Tok(r) \notin removed => IsFinished(key[Tok(r)]))
      BY <3>1, <2>4, <1>0 DEF Learns
    <3> QED BY <3>1, <3>2, <1>b, <1>c, <1>f DEF Learns, Stands
  <2> QED BY <2>2, <2>3, <2>5 DEF Answers
<1>6. Calm' => Calm /\ faults' = faults /\ (key[t] = 0 \/ IsFinished(key[t]))
  <2> SUFFICES ASSUME Calm' PROVE Calm /\ faults' = faults /\ (key[t] = 0 \/ IsFinished(key[t]))
    OBVIOUS
  <2>1. Calm /\ Single /\ faults' = faults
    BY <1>c DEF Calm, Single
  <2>2. key[t] \in {0, copy[w]} /\ IsFinished(copy[w])
    BY <2>1, <1>a, <1>t, <1>d DEF Follows, Holds, Calm
  <2> QED BY <2>1, <2>2
<1>7. StartedIsFinished'
  BY <1>6, <1>e DEF StartedIsFinished
<1>8. UnfinishedIsInFlight'
  BY <1>6, <1>b, <1>e DEF UnfinishedIsInFlight
<1>9. PublishedIsHeard'
  <2> SUFFICES ASSUME Calm', NEW r \in Request, pc[r] = "WaitSelect",
                      IsFinished(key[Tok(r)]), ~Held(Tok(r))'
               PROVE  inbox'[r] \/ r \in missed'
    BY <1>b DEF PublishedIsHeard
  <2>1. CASE Tok(r) = t
    <3>1. subs[r] \in {"sent", "active"}
      BY DEF Handlers, Stands, Subscribed, TypeOK
    <3> QED BY <2>1, <3>1, <1>0, <1>6
  <2>2. CASE Tok(r) # t
    <3>1. ~Held(Tok(r))
      BY <2>2, <1>b, <1>e
    <3> QED BY <3>1, <1>0, <1>6 DEF PublishedIsHeard
  <2> QED BY <2>1, <2>2
<1> QED BY <1>1, <1>2, <1>3, <1>4, <1>5, <1>7, <1>8, <1>9

\* A worker tries to pop (redis.go:70).
LEMMA PopPreserves ==
    ASSUME RInv, NEW w \in Worker, DequeuePop(w) \/ DequeueNothing(w, Cancelled(w)),
           UNCHANGED engineVars
    PROVE  RInv'
<1>1. CASE DequeuePop(w)
  BY <1>1, PoppedPreserves DEF DequeuePop
<1>2. CASE DequeueNothing(w, Cancelled(w)) /\ list' = list
  BY <1>2, NothingPreserves
<1>3. CASE DequeueNothing(w, Cancelled(w)) /\ list' # list
  <2>1. Fault /\ list # <<>> /\ list' = Tail(list)
    BY <1>3 DEF DequeueNothing
  <2>2. pc[w] = "Pop" /\ pc' = [pc EXCEPT ![w] = "Loop"] /\ UNCHANGED <<key, subs, inbox, missed, gauge, copy, cur>>
    BY <1>3 DEF DequeueNothing
  <2> QED BY <2>1, <2>2, PoppedPreserves
<1> QED BY <1>1, <1>2, <1>3

-----------------------------------------------------------------------------
(* Removals, and processes that end. *)

\* A key is deleted or expires (redis.go:122): whatever was said about it stays
\* true of a token without a key.
LEMMA RemovePreserves ==
    ASSUME RInv, NEW t \in Token, RemoveSubmission(t)
    PROVE  RInv'
<1> USE DEF RInv, RemoveSubmission, DropKey
<1>b. \A r \in Request : Tok(r)' = Tok(r) /\ Tok(r) \in Token
  BY TokFacts DEF Tok
<1>c. (Single' <=> Single) /\ (Calm' <=> Calm)
  BY DEF Single, Calm
<1>d. /\ key'[t] = 0 /\ t \in removed'
      /\ \A u \in Token : u # t => key'[u] = key[u] /\ (u \in removed' <=> u \in removed)
  BY DEF TypeOK
<1>e. \A u : (Listed(u)' <=> Listed(u)) /\ (Held(u)' <=> Held(u)) /\ (Settled(u)' <=> Settled(u))
  BY DEF Listed, Held, Settled
<1>1. TypeOK'
  <2>1. key' \in [Token -> Status \cup {0}]
    BY DEF TypeOK
  <2> QED BY <2>1 DEF TypeOK
<1>2. Workers' /\ SendOrder' /\ Handlers' /\ Signals' /\ Accounted'
  BY <1>b DEF Workers, Holds, SendOrder, SendsInOrder, Handlers, Stands, Signals, Accounted
<1>3. ASSUME Single PROVE RunOnce' /\ Keys' /\ Answers'
  <2>1. RunOnce /\ Keys /\ Answers
    BY <1>3
  <2>2. RunOnce'
    BY <2>1, <1>d, <1>e DEF RunOnce
  <2>3. Keys'
    <3>1. ASSUME NEW w \in Worker PROVE Follows(w)'
      <4>1. Follows(w) /\ cur[w] \subseteq Token
        BY <2>1 DEF Keys, TypeOK
      <4> QED BY <4>1, <1>d DEF Follows
    <3>2. \A u \in Token \ sent : key'[u] \in {0, StatusInQueue}
      BY <2>1, <1>d DEF Keys
    <3> QED BY <3>1, <3>2 DEF Keys
  <2>4. Answers'
    BY <2>1, <1>b, <1>d, <1>e DEF Answers, Learns
  <2> QED BY <2>2, <2>3, <2>4
<1>4. StartedIsFinished'
  BY <1>c, <1>d, <1>e DEF StartedIsFinished
<1>5. UnfinishedIsInFlight'
  BY <1>b, <1>c, <1>d, <1>e DEF UnfinishedIsInFlight
<1>6. PublishedIsHeard'
  BY <1>b, <1>c, <1>d, <1>e DEF PublishedIsHeard
<1> QED BY <1>1, <1>2, <1>3, <1>4, <1>5, <1>6, <1>c

\* A process ends with everything it holds (server.go:165), by itself only when its
\* workers hold nothing.
LEMMA VanishPreserves ==
    ASSUME RInv, NEW n \in Node, Vanish(n), crashes' \in 0 .. MaxCrashes,
           Calm' => /\ Calm /\ stops # 0
                    /\ \A w \in Worker : Home[w] = n => cur[w] = {}
    PROVE  RInv'
<1> USE DEF RInv, Vanish
<1>b. \A r \in Request : Tok(r)' = Tok(r)
  BY DEF Tok
<1>c. (Single' <=> Single) /\ stops' = stops
  BY DEF Single
<1>d. /\ \A w \in Worker : w \in Thread /\ Home[w] \in Node
      /\ \A r \in Request : r \in Thread /\ Home[r] \in Node /\ r \notin Worker
  BY HomeAssumption, RedisThreadAssumption
<1>e. \A w \in Worker :
         \/ Home[w] = n /\ pc'[w] = "Exited" /\ cur'[w] = {} /\ copy'[w] = 0
         \/ Home[w] # n /\ pc'[w] = pc[w] /\ cur'[w] = cur[w] /\ copy'[w] = copy[w]
  BY <1>d
<1>f. \A r \in Request :
         \/ Home[r] # n /\ pc'[r] = pc[r] /\ reply'[r] = reply[r] /\ subs'[r] = subs[r]
         \/ /\ pc[r] \in {"Idle", "Replied"} /\ pc'[r] = pc[r] /\ reply'[r] = reply[r]
            /\ subs'[r] = "none"
         \/ /\ pc[r] \notin {"Idle", "Replied"} /\ pc'[r] = "Replied" /\ reply'[r] = "broken"
            /\ subs'[r] = "none"
  BY <1>d
<1>g. /\ \A u : (Listed(u)' <=> Listed(u)) /\ (Held(u)' => Held(u))
      /\ Calm' => \A u : Held(u)' <=> Held(u)
  <2>1. \A u : (Listed(u)' <=> Listed(u)) /\ (Held(u)' => Held(u))
    BY <1>e DEF Listed, Held
  <2>2. Calm' => \A w \in Worker : cur'[w] = cur[w]
    BY <1>e
  <2> QED BY <2>1, <2>2 DEF Held
<1>h. \A u : Settled(u) => Settled(u)'
  BY <1>e, <1>g DEF Settled
<1>1. TypeOK'
  <2>1. pc' \in [Thread -> HandlerLabel \cup WorkerLabel] /\ reply' \in [Request -> Reply]
    BY DEF TypeOK
  <2>2. subs' \in [Request -> {"none", "sent", "active"}] /\ gauge' \in [Node -> Nat]
    BY DEF TypeOK
  <2>3. cur' \in [Worker -> SUBSET Token] /\ copy' \in [Worker -> Status \cup {0}]
    BY DEF TypeOK
  <2>4. life' \in [Node -> {"up", "draining", "stopping", "down"}] /\ pending' \subseteq Node \X Token
    BY DEF TypeOK
  <2> QED BY <2>1, <2>2, <2>3, <2>4 DEF TypeOK
<1>2. Workers'
  BY <1>d, <1>e DEF Workers, Holds, TypeOK
<1>3. SendOrder' /\ Accounted'
  BY <1>b, <1>e, <1>f DEF SendOrder, SendsInOrder, Accounted
<1>4. Signals'
  BY DEF Signals, TypeOK
<1>5. Handlers'
  <2>1. ASSUME NEW r \in Request PROVE Stands(r)'
    <3>1. Stands(r)
      BY DEF Handlers
    <3> QED BY <3>1, <1>b, <1>f DEF Stands
  <2> QED BY <2>1 DEF Handlers
<1>6. ASSUME Single PROVE RunOnce' /\ Keys' /\ Answers'
  <2>1. RunOnce /\ Keys /\ Answers
    BY <1>6
  <2>2. RunOnce'
    BY <2>1, <1>e, <1>g DEF RunOnce
  <2>3. Keys'
    <3>1. ASSUME NEW w \in Worker PROVE Follows(w)'
      <4>1. Follows(w)
        BY <2>1 DEF Keys
      <4> QED BY <4>1, <1>e DEF Follows
    <3> QED BY <3>1, <2>1 DEF Keys
  <2>4. Answers'
    BY <2>1, <1>b, <1>f, <1>h DEF Answers, Learns
  <2> QED BY <2>2, <2>3, <2>4
<1>7. StartedIsFinished'
  BY <1>g DEF StartedIsFinished
<1>8. UnfinishedIsInFlight'
  BY <1>c DEF UnfinishedIsInFlight
<1>9. PublishedIsHeard'
  BY <1>b, <1>f, <1>g DEF PublishedIsHeard
<1> QED BY <1>1, <1>2, <1>3, <1>4, <1>5, <1>6, <1>7, <1>8, <1>9, <1>c

\* A stopped process ends after its workers, a dying one at once (worker.go:57).
LEMMA EndPreserves ==
    ASSUME RInv, NEW n \in Node, ProcessExit(n) \/ Crash(n)
    PROVE  RInv'
<1>a. TypeOK /\ Workers /\ Signals /\ MaxCrashes \in Nat
  BY RedisBoundsAssumption DEF RInv
<1>1. CASE ProcessExit(n)
  <2>1. \A w \in Worker : Home[w] = n => cur[w] = {}
    BY <1>1, <1>a DEF ProcessExit, Workers, Holds
  <2>2. stops # 0 /\ crashes' = crashes /\ faults' = faults /\ Vanish(n)
    BY <1>1, <1>a DEF ProcessExit, Signals, Vanish
  <2>3. crashes' \in 0 .. MaxCrashes /\ (Calm' => Calm)
    BY <2>2, <1>a DEF TypeOK, Calm
  <2> QED BY <2>1, <2>2, <2>3, VanishPreserves
<1>2. CASE Crash(n)
  <2>1. Vanish(n) /\ crashes' \in 0 .. MaxCrashes /\ crashes' # 0
    BY <1>2, <1>a DEF Crash, TypeOK
  <2> QED BY <2>1, VanishPreserves DEF Calm
<1> QED BY <1>1, <1>2

-----------------------------------------------------------------------------
(* The invariant. *)

LEMMA InitRInv == Init => RInv
<1> SUFFICES ASSUME Init PROVE RInv
  OBVIOUS
<1> USE DEF Init, RedisInit
<1>a. /\ \A r \in Request : r \in Thread /\ r \notin Worker /\ pc[r] = "Idle"
      /\ \A w \in Worker : w \in Thread /\ Home[w] \in Node /\ pc[w] = "Loop"
  BY HomeAssumption, RedisThreadAssumption
<1>b. /\ \A r \in Request : idx[r] = 1 /\ 1 \in 1 .. Len(Jobs[r]) /\ Len(Jobs[r]) \in Nat
      /\ \A r \in Request : Tok(r) \in Token
  BY RedisJobsAssumption DEF Tok
<1>c. \A u : ~Listed(u) /\ ~Held(u)
  BY DEF Listed, Held
<1>1. TypeOK
  <2>1. RedisTypeOK
    BY FaultsAssumption
  <2> QED BY <2>1, <1>b, RedisBoundsAssumption DEF TypeOK
<1>2. Workers
  BY <1>a DEF Workers, Holds
<1>3. SendOrder
  BY <1>a, <1>b DEF SendOrder, SendsInOrder
<1>4. Handlers /\ Accounted /\ Signals
  BY <1>a DEF Handlers, Stands, Accounted, Signals
<1>5. RunOnce /\ Keys /\ Answers
  BY <1>c DEF RunOnce, Keys, Follows, Answers, Learns
<1>6. StartedIsFinished /\ UnfinishedIsInFlight /\ PublishedIsHeard
  BY <1>a, <1>b DEF StartedIsFinished, UnfinishedIsInFlight, PublishedIsHeard
<1> QED BY <1>1, <1>2, <1>3, <1>4, <1>5, <1>6 DEF RInv

\* A step that changes nothing.
LEMMA StutterPreserves == RInv /\ UNCHANGED vars => RInv'
<1> SUFFICES ASSUME RInv, UNCHANGED vars PROVE RInv'
  OBVIOUS
<1> USE DEF RInv, vars
<1>a. /\ TypeOK' /\ (\A r \in Request : Tok(r)' = Tok(r)) /\ (Calm' <=> Calm) /\ (Single' <=> Single)
      /\ \A u : (Listed(u)' <=> Listed(u)) /\ (Held(u)' <=> Held(u)) /\ (Settled(u)' <=> Settled(u))
  BY DEF TypeOK, Tok, Calm, Single, Listed, Held, Settled
<1>1. Workers' /\ SendOrder' /\ Handlers' /\ Accounted' /\ Signals'
  BY <1>a DEF Workers, Holds, SendOrder, SendsInOrder, Handlers, Stands, Accounted, Signals
<1>2. Single' => RunOnce' /\ Keys' /\ Answers'
  BY <1>a DEF RunOnce, Keys, Follows, Answers, Learns
<1>3. StartedIsFinished' /\ UnfinishedIsInFlight' /\ PublishedIsHeard'
  BY <1>a DEF StartedIsFinished, UnfinishedIsInFlight, PublishedIsHeard
<1> QED BY <1>a, <1>1, <1>2, <1>3

LEMMA NextRInv == RInv /\ [Next]_vars => RInv'
<1> SUFFICES ASSUME RInv, [Next]_vars PROVE RInv'
  OBVIOUS
<1>1. ASSUME NEW r \in Request, Receive(r) \/ Handler(r) PROVE RInv'
  BY <1>1, ReceivePreserves, RejectPreserves, BuildPreserves, SetPreserves, PushPreserves,
     RefusedPreserves, NextJobPreserves, AwaitsPreserves, TokensPreserves, FinishedPreserves,
     PendingPreserves, SubscribePreserves, SignalledPreserves, LastLookPreserves,
     AbandonedPreserves DEF Handler
<1>2. ASSUME NEW r \in Request,
             \/ HandlerTimeout(r) \/ ClientGone(r)
             \/ SubscribeTakesEffect(r) /\ UNCHANGED engineVars
      PROVE  RInv'
  BY <1>2, TimeoutPreserves, ClientPreserves
<1>3. ASSUME NEW w \in Worker, RunWorker(w) PROVE RInv'
  <2>1. CASE WorkerDequeue(w)
    BY <2>1, PopPreserves, GetPreserves, DropPreserves, GaugePreserves DEF WorkerDequeue
  <2>2. CASE WorkerSignal(w)
    BY <2>2, StorePreserves, PublishPreserves DEF WorkerSignal
  <2> QED BY <1>3, <2>1, <2>2, LoopPreserves, StartPreserves, ExecutePreserves, FinalizePreserves
          DEF RunWorker
<1>4. ASSUME NEW t \in Token, RemoveSubmission(t) \/ \E n \in Node : SendCallback(n, t) PROVE RInv'
  BY <1>4, RemovePreserves, NodePreserves
<1>5. ASSUME NEW n \in Node,
             SigTerm(n) \/ ShutdownReturns(n) \/ ProcessExit(n) \/ Crash(n) \/ Restart(n)
      PROVE  RInv'
  BY <1>5, NodePreserves, EndPreserves, RestartPreserves
<1>6. CASE UNCHANGED vars
  BY <1>6, StutterPreserves
<1> QED BY <1>1, <1>2, <1>3, <1>4, <1>5, <1>6 DEF Next

-----------------------------------------------------------------------------
(* The safety of the cluster. *)

\* RInv holds in every reachable state of the cluster.
THEOREM RedisInductive == Spec => []RInv
<1>1. Init => RInv
  BY InitRInv
<1>2. RInv /\ [Next]_vars => RInv'
  BY NextRInv
<1> QED BY <1>1, <1>2, PTL DEF Spec

\* Type correctness of the cluster.
THEOREM RedisTypeCorrect == Spec => []TypeOK
<1>1. RInv => TypeOK
  BY DEF RInv
<1> QED BY <1>1, RedisInductive, PTL

\* Whatever fails, dies or is stopped, a submission is queued once and run once,
\* as long as go-redis repeats no LPUSH that took effect (redis.go:60, 70).
THEOREM RunOnceHolds == ASSUME Retries = FALSE PROVE Spec => []RunOnce
<1>1. RInv => RunOnce
  BY DEF RInv, Single
<1> QED BY <1>1, RedisInductive, PTL

\* An answer of ?wait=true that says finished is the verdict that stays in the
\* key (redis.go:147, 160, 176), as long as go-redis repeats no LPUSH.
THEOREM RedisAnswersHold == ASSUME Retries = FALSE PROVE Spec => []AnswersAreFinal
<1>1. RInv => AnswersAreFinal
  <2> SUFFICES ASSUME RInv, NEW r \in Request,
                      \/ reply[r] = "ready"
                      \/ reply[r] = "signal" /\ faults = 0 /\ Tok(r) \notin removed
               PROVE  IsFinished(answer[r]) /\ key[Tok(r)] \in {0, answer[r]}
    BY DEF AnswersAreFinal
  <2>1. Learns(r) /\ Stands(r)
    BY DEF RInv, Single, Answers, Handlers
  <2>2. CASE reply[r] = "ready"
    BY <2>1, <2>2 DEF Learns
  <2>3. CASE reply[r] = "signal" /\ faults = 0 /\ Tok(r) \notin removed
    BY <2>1, <2>3 DEF Learns, Stands
  <2> QED BY <2>2, <2>3
<1> QED BY <1>1, RedisInductive, PTL

\* A positive answer covers every job of the request (submissions.go:46, 48, 112),
\* whichever command failed and whoever died.
THEOREM RedisAcknowledgedHolds == Spec => []AcknowledgedWasSent
<1>1. RInv => AcknowledgedWasSent
  <2> SUFFICES ASSUME RInv, NEW r \in Request,
                      reply[r] \notin {"none", "invalid", "refused", "broken"},
                      NEW i \in 1 .. Len(Jobs[r])
               PROVE  Jobs[r][i] \in sent
    BY DEF AcknowledgedWasSent
  <2>1. /\ idx[r] = Len(Jobs[r]) /\ Jobs[r][idx[r]] \in sent
        /\ i < idx[r] => Jobs[r][i] \in sent
    BY DEF RInv, Handlers, Stands, SendOrder, SendsInOrder, Tok
  <2>2. i < idx[r] \/ i = idx[r]
    BY <2>1, RedisJobsAssumption
  <2> QED BY <2>1, <2>2
<1> QED BY <1>1, RedisInductive, PTL

\* Without a crash or a failing command nothing stays in Processing when the workers
\* have stopped (worker.go:57, 92, 129).
THEOREM RedisStartedHolds == Spec => []StartedIsFinished
<1>1. RInv => StartedIsFinished
  BY DEF RInv
<1> QED BY <1>1, RedisInductive, PTL

\* Without a crash, a stop or a failing command what is unfinished is on its way
\* (redis.go:60, 86).
THEOREM RedisInFlightHolds == Spec => []UnfinishedIsInFlight
<1>1. RInv => UnfinishedIsInFlight
  BY DEF RInv
<1> QED BY <1>1, RedisInductive, PTL

\* A handler that waits for a verdict that is stored and announced has the message,
\* or PUBLISH was executed while its SUBSCRIBE was on its way (redis.go:160-176).
THEOREM PublishedHolds == Spec => []PublishedIsHeard
<1>1. RInv => PublishedIsHeard
  BY DEF RInv
<1> QED BY <1>1, RedisInductive, PTL
=============================================================================
