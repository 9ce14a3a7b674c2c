------------------------ MODULE RedisEngineRefinement ------------------------
(***************************************************************************)
(* The cluster around one Redis implements SubmissionLifecycle, for any    *)
(* number of processes, requests, workers, jobs, failing commands, stops   *)
(* and crashes, as long as go-redis repeats no LPUSH.  There is one lemma  *)
(* per step of the lifecycle, for the commands that take it.               *)
(***************************************************************************)
EXTENDS RedisEngineProofs

USE DEF redisVars, engineVars, requestVars, nodeVars, Goto, Respond, Thread, Status, Reply,
        HandlerLabel, WorkerLabel, Unsent, Looking, Subscribed, Free, Fetched, Busy, IsFinished,
        StatusInQueue, StatusProcessing, StatusInternalError, Fault, RedisTypeOK,
        Lifecycle!Status, Lifecycle!IsFinished, Lifecycle!StatusInQueue, Lifecycle!StatusProcessing

\* What place, work and view are made of.
lifeBase == <<list, cur, copy, sent, key>>

\* The status a worker with the copy s has reached.
Reached(s) == IF s = 0 THEN StatusInQueue ELSE s

\* Only one worker has a token, so that work speaks of its copy; before a step, ...
LEMMA WorkBefore ==
    ASSUME RunOnce
    PROVE  \A t \in Token : /\ ~Held(t) => Work(t) = 0
                            /\ \A w \in Worker : t \in cur[w] => Work(t) = Reached(copy[w])
<1> SUFFICES ASSUME NEW t \in Token, NEW w \in Worker, t \in cur[w] PROVE Work(t) = Reached(copy[w])
  BY DEF Work
<1>1. \A v \in Worker : t \in cur[v] => v = w
  BY DEF RunOnce
<1>2. (CHOOSE v \in Worker : t \in cur[v]) = w
  BY <1>1
<1> QED BY <1>2 DEF Work, Held, Reached

\* ... and after it.
LEMMA WorkAfter ==
    ASSUME RunOnce'
    PROVE  \A t \in Token : /\ ~Held(t)' => Work(t)' = 0
                            /\ \A w \in Worker : t \in cur'[w] => Work(t)' = Reached(copy'[w])
<1> SUFFICES ASSUME NEW t \in Token, NEW w \in Worker, t \in cur'[w] PROVE Work(t)' = Reached(copy'[w])
  BY DEF Work
<1>1. \A v \in Worker : t \in cur'[v] => v = w
  BY DEF RunOnce
<1>2. (CHOOSE v \in Worker : t \in cur'[v]) = w
  BY <1>1
<1> QED BY <1>2 DEF Work, Held, Reached

\* A step of one worker does not show in the work of the tokens of the others.
LEMMA OtherWork ==
    ASSUME RunOnce, RunOnce', NEW w \in Worker,
           \A v \in Worker : v # w => cur'[v] = cur[v] /\ copy'[v] = copy[v]
    PROVE  \A u \in Token : u \notin cur[w] /\ u \notin cur'[w] =>
               (Held(u)' <=> Held(u)) /\ Work(u)' = Work(u)
<1> SUFFICES ASSUME NEW u \in Token, u \notin cur[w], u \notin cur'[w]
             PROVE  (Held(u)' <=> Held(u)) /\ Work(u)' = Work(u)
  OBVIOUS
<1>1. Held(u)' <=> Held(u)
  BY DEF Held
<1>2. CASE Held(u)
  <2>1. PICK v \in Worker : u \in cur[v]
    BY <1>2 DEF Held
  <2>2. v # w /\ u \in cur'[v] /\ copy'[v] = copy[v]
    BY <2>1
  <2> QED BY <1>1, <2>1, <2>2, WorkBefore, WorkAfter
<1>3. CASE ~Held(u)
  BY <1>1, <1>3, WorkBefore, WorkAfter
<1> QED BY <1>2, <1>3

\* A step that does not touch them does not show.
LEMMA BaseStutters ==
    ASSUME UNCHANGED lifeBase
    PROVE  UNCHANGED Lifecycle!lifeVars
BY DEF lifeBase, Lifecycle!lifeVars, Place, Work, Held, Listed

\* The initial states map to the initial states of the lifecycle.
LEMMA InitMaps ==
    ASSUME Init
    PROVE  Lifecycle!LifeInit
<1>1. \A t \in Token : ~Held(t) /\ ~Listed(t) /\ t \notin sent /\ key[t] = 0
  BY DEF Init, RedisInit, Held, Listed
<1>2. key = [t \in Token |-> 0]
  BY DEF Init, RedisInit
<1> QED BY <1>1, <1>2 DEF Lifecycle!LifeInit, Place, Work

\* What the invariant says of the token a handler is about to send.
LEMMA UnsentToken ==
    ASSUME RInv, NEW r \in Request, pc[r] \in {"EnqSet", "EnqPush"}
    PROVE  /\ Tok(r) \in Token \ sent /\ ~Listed(Tok(r)) /\ ~Held(Tok(r))
           /\ Place(Tok(r)) = "new" /\ Work(Tok(r)) = 0
<1>1. Tok(r) \in Token /\ Tok(r) \notin sent
  BY TokFacts DEF RInv, SendOrder, SendsInOrder
<1>2. ~Listed(Tok(r)) /\ ~Held(Tok(r))
  BY <1>1 DEF RInv, Accounted, Listed, Held
<1> QED BY <1>1, <1>2 DEF Place, Work

\* SET before LPUSH (redis.go:55): Post, unless the command did not take effect.
LEMMA SetPosts ==
    ASSUME RInv, NEW r \in Request, pc[r] = "EnqSet",
           key' \in {key, [key EXCEPT ![Tok(r)] = StatusInQueue]}, UNCHANGED <<list, cur, copy, sent>>
    PROVE  Lifecycle!Post(Tok(r)) \/ UNCHANGED lifeBase
<1>1. Place(Tok(r)) = "new"
  BY UnsentToken
<1>2. \A u \in Token : Place(u)' = Place(u) /\ Work(u)' = Work(u)
  BY DEF Place, Work, Held, Listed
<1>3. CASE key' = [key EXCEPT ![Tok(r)] = StatusInQueue]
  BY <1>1, <1>2, <1>3, TokFacts DEF Lifecycle!Post, RInv
<1>4. CASE key' = key
  BY <1>4 DEF lifeBase
<1> QED BY <1>3, <1>4

\* LPUSH (redis.go:60): Accept.
LEMMA PushAccepts ==
    ASSUME RInv, NEW r \in Request, pc[r] = "EnqPush", list' = Append(list, Tok(r)),
           sent' = sent \cup {Tok(r)}, UNCHANGED <<key, cur, copy>>
    PROVE  Lifecycle!Accept(Tok(r))
<1> DEFINE t == Tok(r)
<1>1. t \in Token /\ ~Held(t) /\ Place(t) = "new"
  BY UnsentToken
<1>2. list \in Seq(Token)
  BY DEF RInv, TypeOK
<1>3. \A u \in Token : Listed(u)' <=> Listed(u) \/ u = t
  BY <1>1, <1>2, AppendElements DEF Listed
<1>4. \A u \in Token : (Held(u)' <=> Held(u)) /\ Work(u)' = Work(u)
  BY DEF Held, Work
<1>5. \A u \in Token : Place(u)' = IF u = t THEN "queued" ELSE Place(u)
  BY <1>1, <1>3, <1>4 DEF Place
<1> QED BY <1>1, <1>4, <1>5 DEF Lifecycle!Accept

\* BRPOP (redis.go:70): Take.
LEMMA PopTakes ==
    ASSUME RInv, RunOnce, RunOnce', NEW w \in Worker, DequeuePop(w), UNCHANGED engineVars
    PROVE  \E t \in Token : Lifecycle!Take(t)
<1> USE DEF DequeuePop
<1>a. list \in Seq(Token) /\ list # <<>> /\ cur \in [Worker -> SUBSET Token] /\ Holds(w)
  BY DEF RInv, TypeOK, Workers
<1>b. PICK t \in Token : t = Head(list)
  BY <1>a, TailElements
<1>1. /\ cur'[w] = {t} /\ cur[w] = {} /\ copy[w] = 0 /\ copy' = copy /\ key' = key
      /\ \A v \in Worker : v # w => cur'[v] = cur[v] /\ copy'[v] = copy[v]
  BY <1>a, <1>b DEF Holds
<1>2. /\ Listed(t)
      /\ \A u \in Token : Listed(u)' <=> Listed(u) /\ u # t
  <2>1. \A i, j \in 1 .. Len(list) : list[i] = list[j] => i = j
    BY DEF RunOnce
  <2>2. /\ \A u : Listed(u) <=> Listed(u)' \/ u = t
        /\ ~Listed(t)'
    BY <2>1, <1>a, <1>b, PoppedElements
  <2> QED BY <2>2
<1>3. ~Held(t) /\ Held(t)' /\ Work(t)' = StatusInQueue
  <2>1. ~Held(t)
    BY <1>2 DEF RunOnce
  <2>2. Held(t)'
    BY <1>1 DEF Held
  <2> QED BY <2>1, <2>2, <1>1, WorkAfter DEF Reached
<1>4. \A u \in Token : u # t => (Held(u)' <=> Held(u)) /\ Work(u)' = Work(u)
  BY <1>1, OtherWork
<1>5. \A u \in Token : Place(u)' = IF u = t THEN "taken" ELSE Place(u)
  BY <1>2, <1>3, <1>4 DEF Place
<1>6. Place(t) = "queued"
  BY <1>2, <1>3 DEF Place
<1> QED BY <1>1, <1>3, <1>4, <1>5, <1>6 DEF Lifecycle!Take

\* An answer of BRPOP that is lost with its token (redis.go:70): Release.
LEMMA LostPopReleases ==
    ASSUME RInv, RunOnce, list # <<>>, list' = Tail(list), UNCHANGED <<key, cur, copy, sent>>
    PROVE  \E t \in Token : Lifecycle!Release({t})
<1>a. list \in Seq(Token)
  BY DEF RInv, TypeOK
<1>b. PICK t \in Token : t = Head(list)
  BY <1>a, TailElements
<1>2. /\ Listed(t)
      /\ \A u \in Token : Listed(u)' <=> Listed(u) /\ u # t
  <2>1. \A i, j \in 1 .. Len(list) : list[i] = list[j] => i = j
    BY DEF RunOnce
  <2>2. /\ \A u : Listed(u) <=> Listed(u)' \/ u = t
        /\ ~Listed(t)'
    BY <2>1, <1>a, <1>b, PoppedElements
  <2> QED BY <2>2
<1>3. ~Held(t) /\ t \in sent
  BY <1>2 DEF RunOnce, RInv, Accounted, Listed
<1>4. \A u \in Token : (Held(u)' <=> Held(u)) /\ Work(u)' = Work(u)
  BY DEF Held, Work
<1>5. \A u \in Token : Place(u)' = IF u = t THEN "out" ELSE Place(u)
  BY <1>2, <1>3, <1>4 DEF Place
<1>6. Place(t) = "queued" /\ Work(t) = 0
  BY <1>2, <1>3 DEF Place, Work
<1> QED BY <1>4, <1>5, <1>6 DEF Lifecycle!Release

\* A worker lets go of its token: after the announcement, or because its key cannot be
\* read (redis.go:86, 150): Release.
LEMMA LettingGoReleases ==
    ASSUME RInv, RunOnce, RunOnce', NEW w \in Worker, pc[w] \in {"Get", "SigPublish"},
           cur' = [cur EXCEPT ![w] = {}], UNCHANGED <<list, sent, key>>,
           \A v \in Worker : v # w => copy'[v] = copy[v]
    PROVE  \E t \in Token : Lifecycle!Release({t})
<1>a. cur \in [Worker -> SUBSET Token] /\ Holds(w)
  BY DEF RInv, TypeOK, Workers
<1>b. PICK t \in Token : cur[w] = {t}
  BY <1>a DEF Holds
<1>1. cur'[w] = {} /\ \A v \in Worker : v # w => cur'[v] = cur[v]
  BY <1>a
<1>2. Held(t) /\ ~Held(t)' /\ ~Listed(t) /\ t \in sent
  <2>1. Held(t)
    BY <1>b DEF Held
  <2>2. \A v \in Worker : t \in cur[v] => v = w
    BY <1>b DEF RunOnce
  <2>3. ~Held(t)'
    BY <2>2, <1>1 DEF Held
  <2> QED BY <2>1, <2>3, <1>b DEF RunOnce, RInv, Accounted
<1>3. \A u \in Token : u # t => (Held(u)' <=> Held(u)) /\ Work(u)' = Work(u)
  BY <1>b, <1>1, OtherWork
<1>4. \A u \in Token : (Listed(u)' <=> Listed(u))
  BY DEF Listed
<1>5. \A u \in Token : Place(u)' = IF u = t THEN "out" ELSE Place(u)
  BY <1>2, <1>3, <1>4 DEF Place
<1>6. Place(t) = "taken" /\ Work(t)' = 0
  BY <1>2, WorkAfter DEF Place
<1> QED BY <1>3, <1>5, <1>6 DEF Lifecycle!Release

\* A worker moves on with its token.
LEMMA HolderMoves ==
    ASSUME RInv, RunOnce, RunOnce', NEW w \in Worker, NEW t \in Token, cur[w] = {t}, NEW s \in Status,
           copy' = [copy EXCEPT ![w] = s], UNCHANGED <<list, cur, sent>>
    PROVE  /\ Place(t) = "taken" /\ Work(t) = Reached(copy[w]) /\ Work(t)' = s
           /\ \A u \in Token : Place(u)' = Place(u) /\ (u # t => Work(u)' = Work(u))
<1>1. \A v \in Worker : cur'[v] = cur[v] /\ (v # w => copy'[v] = copy[v])
  BY DEF RInv, TypeOK
<1>2. copy'[w] = s /\ s # 0
  BY DEF RInv, TypeOK
<1>3. Held(t) /\ Work(t) = Reached(copy[w]) /\ Work(t)' = s
  BY <1>2, WorkBefore, WorkAfter DEF Held, Reached
<1>4. \A u \in Token : u # t => Work(u)' = Work(u)
  BY <1>1, OtherWork
<1> QED BY <1>3, <1>4 DEF Place, Held, Listed

\* The decoded copy says In Queue (redis.go:86): the GET does not show.
LEMMA GetStutters ==
    ASSUME RInv, RunOnce, RunOnce', Retries = FALSE, NEW w \in Worker,
           DequeueGet(w, Cancelled(w)), UNCHANGED engineVars
    PROVE  UNCHANGED Lifecycle!lifeVars
<1> USE DEF DequeueGet
<1>1. PICK t \in Token : cur[w] = {t}
  BY DEF RInv, Workers, Holds
<1>2. copy[w] = 0 /\ copy' = [copy EXCEPT ![w] = StatusInQueue]
  BY <1>1 DEF RInv, Single, Keys, Follows, Workers, Holds
<1>u. UNCHANGED <<list, cur, sent>> /\ StatusInQueue \in Status
  OBVIOUS
<1>3. \A u \in Token : Place(u)' = Place(u) /\ Work(u)' = Work(u)
  <2> HIDE DEF DequeueGet
  <2>1. /\ Work(t) = Reached(copy[w]) /\ Work(t)' = StatusInQueue
        /\ \A u \in Token : Place(u)' = Place(u) /\ (u # t => Work(u)' = Work(u))
    BY <1>1, <1>2, <1>u, HolderMoves
  <2>2. Work(t)' = Work(t)
    BY <2>1, <1>2 DEF Reached
  <2> QED BY <2>1, <2>2
<1> QED BY <1>3 DEF Lifecycle!lifeVars

\* The job is marked and its key is written (worker.go:92): Start.
LEMMA StartStarts ==
    ASSUME RInv, RunOnce, RunOnce', Retries = FALSE, NEW w \in Worker, StartJob(w)
    PROVE  \E t \in Token : Lifecycle!Start(t)
<1> USE DEF StartJob
<1>1. PICK t \in Token : cur[w] = {t}
  BY DEF RInv, Workers, Holds
<1>2. copy[w] = StatusInQueue /\ copy' = [copy EXCEPT ![w] = StatusProcessing]
  BY <1>1 DEF RInv, Single, Keys, Follows
<1>3. key' \in {key, [key EXCEPT ![t] = StatusProcessing]}
  BY <1>1, <1>2 DEF UpdateSubmission, SetKey, SetLost, RInv, TypeOK
<1>u. UNCHANGED <<list, cur, sent>> /\ StatusProcessing \in Status
  OBVIOUS
<1>4. /\ Place(t) = "taken" /\ Work(t) = StatusInQueue /\ Work(t)' = StatusProcessing
      /\ \A u \in Token : Place(u)' = Place(u) /\ (u # t => Work(u)' = Work(u))
  <2> HIDE DEF StartJob
  <2>1. /\ Place(t) = "taken" /\ Work(t) = Reached(copy[w]) /\ Work(t)' = StatusProcessing
        /\ \A u \in Token : Place(u)' = Place(u) /\ (u # t => Work(u)' = Work(u))
    BY <1>1, <1>2, <1>u, HolderMoves
  <2> QED BY <2>1, <1>2 DEF Reached
<1> QED BY <1>3, <1>4 DEF Lifecycle!Start, Lifecycle!Advance

\* The verdict (worker.go:111), which the key does not show yet: Decide.
LEMMA ExecuteDecides ==
    ASSUME RInv, RunOnce, RunOnce', NEW w \in Worker, ExecuteJob(w)
    PROVE  \E t \in Token, s \in Status : Lifecycle!Decide(t, s)
<1> USE DEF ExecuteJob
<1>1. PICK t \in Token : cur[w] = {t}
  BY DEF RInv, Workers, Holds
<1>2. PICK s \in Status : IsFinished(s) /\ copy' = [copy EXCEPT ![w] = s]
  <2>1. PICK s \in Verdicts \cup {StatusInternalError} : copy' = [copy EXCEPT ![w] = s]
    OBVIOUS
  <2>2. s \in Status /\ IsFinished(s)
    BY RedisVerdictsAssumption
  <2> QED BY <2>1, <2>2
<1>3. copy[w] = StatusProcessing
  BY DEF RInv, Workers, Holds
<1>u. UNCHANGED <<list, cur, sent>> /\ s \in Status
  BY <1>2
<1>4. /\ Place(t) = "taken" /\ Work(t) = StatusProcessing /\ Work(t)' = s
      /\ \A u \in Token : Place(u)' = Place(u) /\ (u # t => Work(u)' = Work(u))
  <2> HIDE DEF ExecuteJob
  <2>1. /\ Place(t) = "taken" /\ Work(t) = Reached(copy[w]) /\ Work(t)' = s
        /\ \A u \in Token : Place(u)' = Place(u) /\ (u # t => Work(u)' = Work(u))
    BY <1>1, <1>2, <1>u, HolderMoves
  <2> QED BY <2>1, <1>3 DEF Reached
<1> QED BY <1>2, <1>4 DEF Lifecycle!Decide, Lifecycle!Advance

\* The verdict is stored (redis.go:147): Publish, unless the command fails.
LEMMA StorePublishes ==
    ASSUME RInv, RunOnce, NEW w \in Worker, SignalSet(w), UNCHANGED engineVars
    PROVE  \/ \E t \in Token : Lifecycle!Publish(t)
           \/ UNCHANGED lifeBase
<1> USE DEF SignalSet
<1>1. PICK t \in Token : cur[w] = {t}
  BY DEF RInv, Workers, Holds
<1>2. IsFinished(copy[w]) /\ Work(t) = copy[w]
  BY <1>1, WorkBefore DEF RInv, Workers, Holds, Reached
<1>3. CASE key' = key
  BY <1>3 DEF lifeBase
<1>4. CASE key' = [key EXCEPT ![t] = copy[w]]
  <2>1. \A u \in Token : Place(u)' = Place(u) /\ Work(u)' = Work(u)
    BY DEF Place, Work, Held, Listed
  <2> QED BY <2>1, <1>2, <1>4 DEF Lifecycle!Publish
<1> QED BY <1>1, <1>3, <1>4 DEF SetKey, SetLost

\* DELETE and the end of the TTL (redis.go:122): Remove.
LEMMA RemovalRemoves ==
    ASSUME NEW t \in Token, RemoveSubmission(t)
    PROVE  Lifecycle!Remove(t)
<1>1. \A u \in Token : Place(u)' = Place(u) /\ Work(u)' = Work(u)
  BY DEF RemoveSubmission, DropKey, Place, Work, Held, Listed
<1> QED BY <1>1 DEF RemoveSubmission, DropKey, Lifecycle!Remove

\* A process that ends takes the tokens of its workers with it: Release.
LEMMA VanishReleases ==
    ASSUME RInv, RunOnce, RunOnce', NEW n \in Node, Vanish(n)
    PROVE  \E S \in SUBSET Token : Lifecycle!Release(S)
<1> USE DEF Vanish
<1> DEFINE S == {t \in Token : \E w \in Worker : Home[w] = n /\ t \in cur[w]}
<1>1. \A w \in Worker : \/ Home[w] = n /\ cur'[w] = {}
                        \/ Home[w] # n /\ cur'[w] = cur[w] /\ copy'[w] = copy[w]
  OBVIOUS
<1>2. \A t \in S : Held(t) /\ ~Held(t)' /\ ~Listed(t) /\ t \in sent
  <2> SUFFICES ASSUME NEW t \in S PROVE Held(t) /\ ~Held(t)' /\ ~Listed(t) /\ t \in sent
    OBVIOUS
  <2>1. PICK w \in Worker : Home[w] = n /\ t \in cur[w]
    OBVIOUS
  <2>2. \A v \in Worker : t \in cur[v] => v = w
    BY <2>1 DEF RunOnce
  <2>3. Held(t) /\ ~Held(t)'
    BY <2>1, <2>2, <1>1 DEF Held
  <2> QED BY <2>1, <2>3 DEF RunOnce, RInv, Accounted
<1>3. \A u \in Token \ S : (Held(u)' <=> Held(u)) /\ Work(u)' = Work(u)
  <2> SUFFICES ASSUME NEW u \in Token \ S PROVE (Held(u)' <=> Held(u)) /\ Work(u)' = Work(u)
    OBVIOUS
  <2>1. \A w \in Worker : u \in cur[w] => Home[w] # n
    OBVIOUS
  <2>2. \A w \in Worker : u \in cur'[w] <=> u \in cur[w]
    BY <2>1, <1>1
  <2>3. CASE Held(u)
    <3>1. PICK w \in Worker : u \in cur[w]
      BY <2>3 DEF Held
    <3>2. u \in cur'[w] /\ copy'[w] = copy[w]
      BY <3>1, <2>1, <1>1
    <3> QED BY <2>3, <3>1, <3>2, WorkBefore, WorkAfter DEF Held
  <2>4. CASE ~Held(u)
    <3>1. ~Held(u)'
      BY <2>2, <2>4 DEF Held
    <3> QED BY <2>4, <3>1, WorkBefore, WorkAfter
  <2> QED BY <2>3, <2>4
<1>4. \A u \in Token : Listed(u)' <=> Listed(u)
  BY DEF Listed
<1>5. /\ \A u \in Token : Place(u)' = IF u \in S THEN "out" ELSE Place(u)
      /\ \A u \in Token : Work(u)' = IF u \in S THEN 0 ELSE Work(u)
      /\ \A u \in S : Place(u) = "taken"
  BY <1>2, <1>3, <1>4, WorkAfter DEF Place
<1>6. Lifecycle!Release(S)
  BY <1>5 DEF Lifecycle!Release
<1> QED BY <1>6

-----------------------------------------------------------------------------
(* The steps of each actor. *)

\* A handler sets a key, pushes, or does not show.
LEMMA HandlerMaps ==
    ASSUME RInv, Retries = FALSE, NEW r \in Request,
           \/ Receive(r) \/ Handler(r) \/ HandlerTimeout(r) \/ ClientGone(r)
           \/ SubscribeTakesEffect(r) /\ UNCHANGED engineVars
    PROVE  [Lifecycle!LifeNext]_Lifecycle!lifeVars
<1>1. Tok(r) \in Token
  BY TokFacts DEF RInv
<1>2. CASE HandlerSet(r)
  <2>1. Lifecycle!Post(Tok(r)) \/ UNCHANGED lifeBase
    BY <1>2, SetPosts DEF HandlerSet, EnqueueSet, SetKey
  <2> QED BY <2>1, <1>1, BaseStutters DEF Lifecycle!LifeNext
<1>3. CASE HandlerPush(r)
  <2>1. Lifecycle!Accept(Tok(r))
    BY <1>3, PushAccepts DEF HandlerPush, EnqueuePush
  <2> QED BY <2>1, <1>1 DEF Lifecycle!LifeNext
<1>4. CASE HandlerRefused(r)
  <2>1. CASE EnqueueSetFails(r, Tok(r)) /\ UNCHANGED sent
    <3>1. Lifecycle!Post(Tok(r)) \/ UNCHANGED lifeBase
      BY <2>1, SetPosts DEF EnqueueSetFails
    <3> QED BY <3>1, <1>1, BaseStutters DEF Lifecycle!LifeNext
  <2>2. CASE EnqueuePushFails(r, Tok(r)) /\ list' = list /\ sent' = sent
    <3>1. UNCHANGED lifeBase
      BY <2>2 DEF EnqueuePushFails, lifeBase
    <3> QED BY <3>1, BaseStutters
  <2>3. CASE EnqueuePushFails(r, Tok(r)) /\ list' # list /\ sent' = sent \cup {Tok(r)}
    <3>1. Lifecycle!Accept(Tok(r))
      BY <2>3, PushAccepts DEF EnqueuePushFails
    <3> QED BY <3>1, <1>1 DEF Lifecycle!LifeNext
  <2>4. CASE UNCHANGED <<list, key, subs, inbox, missed, gauge, faults, copy, cur, sent>>
    BY <2>4, BaseStutters DEF lifeBase
  <2> QED BY <1>4, <2>1, <2>2, <2>3, <2>4 DEF HandlerRefused
<1>5. CASE UNCHANGED lifeBase
  BY <1>5, BaseStutters
<1>6. HandlerSet(r) \/ HandlerPush(r) \/ HandlerRefused(r) \/ UNCHANGED lifeBase
  BY DEF Receive, Handler, RejectRequest, BuildJobs, HandlerNextJob, HandlerAwaits, HandlerTokens,
         UpdateMetrics, HandlerLookFinished, HandlerLookPending, HandlerSubscribe, WaitSubscribe,
         HandlerSignalled, WaitWake, HandlerLastLook, HandlerAbandoned, HandlerTimeout, ClientGone,
         SubscribeTakesEffect, lifeBase
<1> QED BY <1>2, <1>3, <1>4, <1>5, <1>6

\* A worker takes, starts, decides, publishes, releases, or does not show.
LEMMA WorkerMaps ==
    ASSUME RInv, RunOnce, RunOnce', Retries = FALSE, NEW w \in Worker, RunWorker(w)
    PROVE  [Lifecycle!LifeNext]_Lifecycle!lifeVars
<1>1. CASE DequeuePop(w) /\ UNCHANGED engineVars
  BY <1>1, PopTakes DEF Lifecycle!LifeNext
<1>2. CASE DequeueNothing(w, Cancelled(w)) /\ UNCHANGED engineVars
  <2>1. CASE list' = list
    BY <1>2, <2>1, BaseStutters DEF DequeueNothing, lifeBase
  <2>2. CASE list' # list
    <3>1. \E t \in Token : Lifecycle!Release({t})
      BY <1>2, <2>2, LostPopReleases DEF DequeueNothing
    <3> QED BY <3>1 DEF Lifecycle!LifeNext
  <2> QED BY <2>1, <2>2
<1>3. CASE DequeueGet(w, Cancelled(w)) /\ UNCHANGED engineVars
  BY <1>3, GetStutters
<1>4. CASE \/ DequeueDrop(w, Cancelled(w)) /\ UNCHANGED engineVars
           \/ SignalPublish(w, {r \in Request : Tok(r) \in cur[w]}) /\ UNCHANGED engineVars
  <2>1. /\ pc[w] \in {"Get", "SigPublish"} /\ cur' = [cur EXCEPT ![w] = {}]
        /\ UNCHANGED <<list, sent, key>> /\ \A v \in Worker : v # w => copy'[v] = copy[v]
    BY <1>4 DEF DequeueDrop, SignalPublish, RInv, TypeOK
  <2>2. \E t \in Token : Lifecycle!Release({t})
    BY <2>1, LettingGoReleases
  <2> QED BY <2>2 DEF Lifecycle!LifeNext
<1>5. CASE StartJob(w)
  BY <1>5, StartStarts DEF Lifecycle!LifeNext
<1>6. CASE ExecuteJob(w)
  BY <1>6, ExecuteDecides DEF Lifecycle!LifeNext
<1>7. CASE SignalSet(w) /\ UNCHANGED engineVars
  BY <1>7, StorePublishes, BaseStutters DEF Lifecycle!LifeNext
<1>8. CASE \/ UpdateMetrics(w, Cancelled(w), "DeqGauge", "Start") /\ UNCHANGED engineVars
           \/ WorkerLoop(w) \/ FinalizeJob(w)
  <2>1. UNCHANGED lifeBase
    BY <1>8 DEF UpdateMetrics, WorkerLoop, FinalizeJob, lifeBase
  <2> QED BY <2>1, BaseStutters
<1> QED BY <1>1, <1>2, <1>3, <1>4, <1>5, <1>6, <1>7, <1>8 DEF RunWorker, WorkerDequeue, WorkerSignal

\* Every step of the cluster is a step of the lifecycle or does not show.
LEMMA NextMaps ==
    ASSUME RInv, RInv', Retries = FALSE, [Next]_vars
    PROVE  [Lifecycle!LifeNext]_Lifecycle!lifeVars
<1>a. RunOnce /\ RunOnce'
  BY DEF RInv, Single
<1>1. ASSUME NEW t \in Token, RemoveSubmission(t)
      PROVE  [Lifecycle!LifeNext]_Lifecycle!lifeVars
  BY <1>1, RemovalRemoves DEF Lifecycle!LifeNext
<1>2. ASSUME NEW n \in Node, ProcessExit(n) \/ Crash(n)
      PROVE  [Lifecycle!LifeNext]_Lifecycle!lifeVars
  BY <1>2, <1>a, VanishReleases DEF ProcessExit, Crash, Lifecycle!LifeNext
<1>3. CASE \/ \E n \in Node : \/ \E t \in Token : SendCallback(n, t)
                              \/ SigTerm(n) \/ ShutdownReturns(n) \/ Restart(n)
           \/ UNCHANGED vars
  <2>1. UNCHANGED lifeBase
    BY <1>3 DEF SendCallback, SigTerm, ShutdownReturns, Restart, vars, lifeBase
  <2> QED BY <2>1, BaseStutters
<1> QED BY <1>1, <1>2, <1>3, <1>a, HandlerMaps, WorkerMaps DEF Next

\* Whatever fails, dies or is stopped, the cluster (redis.go, worker.go, submissions.go)
\* does what queue.go promises of each submission, and at worst loses jobs.
THEOREM ClusterImplementsLifecycle == ASSUME Retries = FALSE PROVE Spec => ImplementsLifecycle
<1>1. Init => Lifecycle!LifeInit
  BY InitMaps
<1>2. RInv /\ RInv' /\ [Next]_vars => [Lifecycle!LifeNext]_Lifecycle!lifeVars
  BY NextMaps
<1> QED BY <1>1, <1>2, RedisInductive, PTL DEF Spec, ImplementsLifecycle, Lifecycle!LifeSpec

-----------------------------------------------------------------------------
(* What the cluster inherits from the lifecycle. *)

Inherited == INSTANCE SubmissionLifecycleProofs WITH
    MayLose <- TRUE,
    place   <- [t \in Token |-> Place(t)],
    work    <- [t \in Token |-> Work(t)],
    view    <- key

\* The lifecycle the theorem below is about is the one that the cluster implements.
LEMMA SameLifecycle == Lifecycle!LifeSpec => Inherited!LifeSpec
<1> USE DEF Inherited!Status, Inherited!IsFinished, Inherited!StatusInQueue, Inherited!StatusProcessing
<1>1. Lifecycle!LifeInit => Inherited!LifeInit
  BY DEF Lifecycle!LifeInit, Inherited!LifeInit
<1>2. [Lifecycle!LifeNext]_Lifecycle!lifeVars => [Inherited!LifeNext]_Inherited!lifeVars
  <2>1. \A t \in Token : Lifecycle!Post(t) => Inherited!Post(t)
    BY DEF Lifecycle!Post, Inherited!Post
  <2>2. \A t \in Token : Lifecycle!Accept(t) => Inherited!Accept(t)
    BY DEF Lifecycle!Accept, Inherited!Accept
  <2>3. \A t \in Token : Lifecycle!Take(t) => Inherited!Take(t)
    BY DEF Lifecycle!Take, Inherited!Take
  <2>4. \A t \in Token : \A s : Lifecycle!Advance(t, s) => Inherited!Advance(t, s)
    BY DEF Lifecycle!Advance, Inherited!Advance
  <2>5. \A t \in Token : Lifecycle!Start(t) => Inherited!Start(t)
    BY <2>4 DEF Lifecycle!Start, Inherited!Start
  <2>6. \A t \in Token, s \in Status : Lifecycle!Decide(t, s) => Inherited!Decide(t, s)
    BY <2>4 DEF Lifecycle!Decide, Inherited!Decide
  <2>7. \A t \in Token : Lifecycle!Publish(t) => Inherited!Publish(t)
    BY DEF Lifecycle!Publish, Inherited!Publish
  <2>8. \A t \in Token : Lifecycle!Remove(t) => Inherited!Remove(t)
    BY DEF Lifecycle!Remove, Inherited!Remove
  <2>9. \A S \in SUBSET Token : Lifecycle!Release(S) => Inherited!Release(S)
    BY DEF Lifecycle!Release, Inherited!Release
  <2>10. UNCHANGED Lifecycle!lifeVars => UNCHANGED Inherited!lifeVars
    BY DEF Lifecycle!lifeVars, Inherited!lifeVars
  <2> QED BY <2>1, <2>2, <2>3, <2>5, <2>6, <2>7, <2>8, <2>9, <2>10
          DEF Lifecycle!LifeNext, Inherited!LifeNext
<1> QED BY <1>1, <1>2, PTL DEF Lifecycle!LifeSpec, Inherited!LifeSpec

\* Whatever fails, dies or is stopped, a key never shows a step back or a second
\* verdict (redis.go:56, 119, worker.go:92, 129).
THEOREM RedisFinalIsFinal == ASSUME Retries = FALSE PROVE Spec => FinalIsFinal
<1> DEFINE Forward == \A t \in Token : key[t] # 0 /\ key'[t] # 0 =>
                         /\ Stage(key[t]) <= Stage(key'[t])
                         /\ IsFinished(key[t]) => key'[t] = key[t]
           Promised == \A t \in Token : key[t] # 0 /\ key'[t] # 0 =>
                         /\ Inherited!Stage(key[t]) <= Inherited!Stage(key'[t])
                         /\ Inherited!IsFinished(key[t]) => key'[t] = key[t]
<1>1. Spec => [][Promised]_Inherited!lifeVars
  BY ClusterImplementsLifecycle, SameLifecycle, Inherited!LifecycleOnlyForward, PTL
     DEF ImplementsLifecycle, Inherited!OnlyForward
<1>2. RInv /\ [Promised]_Inherited!lifeVars => [Forward]_vars
  <2> SUFFICES ASSUME RInv, [Promised]_Inherited!lifeVars PROVE Forward
    OBVIOUS
  <2>1. CASE Promised
    BY <2>1 DEF Inherited!Stage, Inherited!IsFinished, Inherited!StatusProcessing, Stage
  <2>2. CASE key' = key
    <3>0. key \in [Token -> 0 .. 14]
      <4>1. TypeOK
        BY DEF RInv
      <4>2. Status \cup {0} = 0 .. 14
        OBVIOUS
      <4> QED BY <4>1, <4>2 DEF TypeOK
    <3>1. \A t \in Token : Stage(key[t]) \in Int
      BY <3>0 DEF Stage
    <3> QED BY <2>2, <3>1
  <2> QED BY <2>1, <2>2 DEF Inherited!lifeVars
<1> QED BY <1>1, <1>2, RedisInductive, PTL DEF FinalIsFinal
=============================================================================
