------------------------- MODULE MemoryEngineProofs -------------------------
(***************************************************************************)
(* IInv is an invariant of MemoryEngine, for any number of requests,       *)
(* workers and jobs, any buffer size and any verdicts; the safety          *)
(* properties of the engine follow, the exactness of its counters and the  *)
(* lifecycle it implements.  There is one lemma per action that            *)
(* touches what IInv speaks of, with one step per conjunct; the actions    *)
(* that only move counters and gauges share the lemma QuietPreserves.      *)
(***************************************************************************)
EXTENDS MemoryEngineInvariant, FiniteSetTheorems, TLAPS

USE DEF queueVars, engineVars, requestVars, content, signals, counters, gauges, Goto, Respond,
        Thread, Status, Reply, HandlerLabel, WorkerLabel, BeforeSend, Enqueued, Looking, Registered,
        Waiting, Free, Taken, Judged, Signalled

\* A channel send (memory.go:98): the elements of a sequence after Append, and
\* that Append of a new element keeps them distinct.
LEMMA AppendElements ==
    ASSUME NEW S, NEW s \in Seq(S), NEW e \in S
    PROVE  /\ Append(s, e) \in Seq(S)
           /\ \A u : (\E i \in 1 .. Len(Append(s, e)) : Append(s, e)[i] = u)
                       <=> (\E i \in 1 .. Len(s) : s[i] = u) \/ u = e
           /\ /\ \A i, j \in 1 .. Len(s) : s[i] = s[j] => i = j
              /\ \A i \in 1 .. Len(s) : s[i] # e
              => \A i, j \in 1 .. Len(Append(s, e)) : Append(s, e)[i] = Append(s, e)[j] => i = j
<1>1. /\ Append(s, e) \in Seq(S) /\ Len(Append(s, e)) = Len(s) + 1
      /\ Append(s, e)[Len(s) + 1] = e
      /\ \A i \in 1 .. Len(s) : Append(s, e)[i] = s[i]
  OBVIOUS
<1>2. Len(s) \in Nat
  OBVIOUS
<1> QED BY <1>1, <1>2

\* A channel receive (memory.go:111): what Tail leaves of a sequence without
\* duplicates.
LEMMA TailElements ==
    ASSUME NEW S, NEW s \in Seq(S), s # <<>>,
           \A i, j \in 1 .. Len(s) : s[i] = s[j] => i = j
    PROVE  /\ Tail(s) \in Seq(S) /\ Head(s) \in S
           /\ \A u : (\E i \in 1 .. Len(Tail(s)) : Tail(s)[i] = u)
                       <=> (\E i \in 1 .. Len(s) : s[i] = u) /\ u # Head(s)
           /\ \A i, j \in 1 .. Len(Tail(s)) : Tail(s)[i] = Tail(s)[j] => i = j
           /\ \E i \in 1 .. Len(s) : s[i] = Head(s)
<1>1. /\ Tail(s) \in Seq(S) /\ Head(s) \in S /\ Len(Tail(s)) = Len(s) - 1
      /\ Head(s) = s[1] /\ Len(s) >= 1 /\ Len(s) \in Nat
      /\ \A i \in 1 .. Len(s) - 1 : Tail(s)[i] = s[i + 1]
  OBVIOUS
<1>2. ASSUME NEW u, NEW i \in 1 .. Len(s), s[i] = u, u # Head(s)
      PROVE  \E j \in 1 .. Len(Tail(s)) : Tail(s)[j] = u
  <2>1. i - 1 \in 1 .. Len(s) - 1 /\ (i - 1) + 1 = i
    BY <1>1, <1>2
  <2> QED BY <1>1, <1>2, <2>1
<1>3. ASSUME NEW u, NEW i \in 1 .. Len(Tail(s)), Tail(s)[i] = u
      PROVE  (\E j \in 1 .. Len(s) : s[j] = u) /\ u # Head(s)
  <2>1. i + 1 \in 1 .. Len(s) /\ i + 1 # 1 /\ s[i + 1] = u /\ 1 \in 1 .. Len(s)
    BY <1>1, <1>3
  <2> QED BY <1>1, <2>1
<1>4. ASSUME NEW i \in 1 .. Len(Tail(s)), NEW j \in 1 .. Len(Tail(s)), Tail(s)[i] = Tail(s)[j]
      PROVE  i = j
  <2>1. i + 1 \in 1 .. Len(s) /\ j + 1 \in 1 .. Len(s) /\ s[i + 1] = s[j + 1]
    BY <1>1, <1>4
  <2>2. i + 1 = j + 1
    BY <2>1
  <2> QED BY <2>2, <1>1
<1> QED BY <1>1, <1>2, <1>3, <1>4

\* The token a handler is at is a token, and no other handler is at it: every job
\* has its own uuid (submissions.go:252).
LEMMA TokFacts ==
    ASSUME TypeOK
    PROVE  \A r \in Request : /\ Tok(r) \in Token
                              /\ idx[r] \in 1 .. Len(Jobs[r])
                              /\ \A s \in Request : Tok(r) = Tok(s) => r = s
BY JobsAssumption DEF TypeOK, Tok

\* A step of handler r that is not registered, or whose token has no listener,
\* leaves every listener with its owner.
LEMMA ListenersStay ==
    ASSUME TypeOK, ListenersOwned, NEW r \in Request, listeners' \subseteq listeners,
           pc[r] \in Registered => Tok(r) \notin listeners',
           \A s \in Request : s # r => Tok(s)' = Tok(s) /\ pc'[s] = pc[s]
    PROVE  ListenersOwned'
<1> SUFFICES ASSUME NEW t \in listeners'
             PROVE  \E s \in Request : Tok(s)' = t /\ pc'[s] \in Registered
  BY DEF ListenersOwned
<1>1. PICK s \in Request : Tok(s) = t /\ pc[s] \in Registered
  BY DEF ListenersOwned
<1> QED BY <1>1

\* A step of a handler r that is not about to send and has not answered leaves
\* every entry without a job with the request it came from.
LEMMA LeftoversStay ==
    ASSUME Leftovers, NEW r \in Request, pc[r] # "EnqSend", reply[r] = "none",
           sent \subseteq sent', store' = store,
           \A s \in Request : s # r => Tok(s)' = Tok(s) /\ pc'[s] = pc[s] /\ reply'[s] = reply[s]
    PROVE  Leftovers'
<1> SUFFICES ASSUME NEW t \in Token \ sent', store[t] # "none"
             PROVE  \E s \in Request : Tok(s)' = t /\ (pc'[s] = "EnqSend" \/ reply'[s] = "refused")
  BY DEF Leftovers
<1>1. PICK s \in Request : Tok(s) = t /\ (pc[s] = "EnqSend" \/ reply[s] = "refused")
  BY DEF Leftovers
<1> QED BY <1>1

\* What GetSubmission (memory.go:125) finds, in the job object or in its
\* snapshot, is the status of the job.
LEMMA SeenIsStatus ==
    ASSUME IInv, NEW t \in Token, Seen(t) # 0
    PROVE  Seen(t) = status[t]
BY DEF IInv, TypeOK, QueueTypeOK, Results, Done, Seen

\* A 422 answer (submissions.go:28) preserves IInv.
LEMMA RejectPreserves ==
    ASSUME IInv, NEW r \in Request, RejectRequest(r)
    PROVE  IInv'
<1> USE ThreadAssumption DEF IInv, RejectRequest
<1>a. \A s \in Request : Tok(s) \in Token /\ \A u \in Request : Tok(s) = Tok(u) => s = u
  BY TokFacts
<1>b. \A s \in Request : Tok(s)' = Tok(s)
  BY DEF Tok
<1>c. \A u : Queued(u)' <=> Queued(u)
  BY DEF Queued
<1>1. TypeOK'
  BY <1>a DEF TypeOK, QueueTypeOK
<1>2. Labels' /\ SendOrder' /\ AnswerOrder'
  <2>1. Labels'
    BY DEF Labels, TypeOK, QueueTypeOK
  <2>2. SendOrder'
    BY DEF SendOrder, Labels, TypeOK, QueueTypeOK
  <2>3. AnswerOrder'
    BY <1>a, <1>b DEF AnswerOrder, Labels, TypeOK, QueueTypeOK
  <2> QED BY <2>1, <2>2, <2>3
<1>3. Channel' /\ Holding' /\ Results' /\ Accounted'
  BY <1>c DEF Channel, TypeOK, QueueTypeOK, Holding, Done, Labels, Results, Accounted, Held
<1>4. Entries'
  BY <1>a, <1>b DEF Entries, Labels, TypeOK, QueueTypeOK
<1>5. Leftovers'
  <2>1. pc[r] # "EnqSend" /\ reply[r] = "none" /\ sent \subseteq sent' /\ store' = store
    BY DEF TypeOK, Labels
  <2>2. \A s \in Request : s # r => Tok(s)' = Tok(s) /\ pc'[s] = pc[s] /\ reply'[s] = reply[s]
    BY <1>b DEF TypeOK
  <2> QED BY <2>1, <2>2, LeftoversStay
<1>6. ListenersOwned'
  BY <1>b, ListenersStay DEF TypeOK
<1>7. Listening'
  BY <1>a, <1>b DEF Listening, Done, Labels, TypeOK, QueueTypeOK
<1>8. Wakeup'
  BY <1>a, <1>b, <1>c DEF Wakeup, Held, Done, Labels, TypeOK, QueueTypeOK
<1>9. Answers' /\ Closing'
  BY <1>a, <1>b DEF Answers, AnswersAreFinal, Labels, TypeOK, QueueTypeOK, Closing
<1> QED BY <1>1, <1>2, <1>3, <1>4, <1>5, <1>6, <1>7, <1>8, <1>9 DEF IInv

\* Enqueue writes the entry (memory.go:94).
LEMMA StorePreserves ==
    ASSUME IInv, NEW r \in Request, HandlerStore(r)
    PROVE  IInv'
<1> USE ThreadAssumption DEF IInv, HandlerStore, EnqueueStore
<1>a. \A s \in Request : Tok(s) \in Token /\ \A u \in Request : Tok(s) = Tok(u) => s = u
  BY TokFacts
<1>b. \A s \in Request : Tok(s)' = Tok(s)
  BY DEF Tok
<1>c. \A u : Queued(u)' <=> Queued(u)
  BY DEF Queued
<1>u. Tok(r) \notin sent
  BY TokFacts DEF SendOrder, Tok
<1>v. status' = status
  BY <1>a, <1>u DEF Results, TypeOK, QueueTypeOK
<1>1. TypeOK'
  BY <1>a, <1>v DEF TypeOK, QueueTypeOK
<1>2. Labels' /\ SendOrder' /\ AnswerOrder'
  BY <1>a, <1>b, <1>v DEF Labels, TypeOK, QueueTypeOK, SendOrder, AnswerOrder
<1>3. Channel'
  BY <1>c, <1>v DEF Channel, TypeOK, QueueTypeOK
<1>4. Holding'
  BY <1>c, <1>v DEF Holding, Done, Labels, TypeOK, QueueTypeOK
<1>5. Results' /\ Accounted'
  BY <1>c, <1>u, <1>v DEF Results, Done, TypeOK, QueueTypeOK, Accounted, Held
<1>6. Entries' /\ Leftovers'
  BY <1>a, <1>b, <1>u, <1>v DEF Entries, Labels, TypeOK, QueueTypeOK, Leftovers
<1>7. ListenersOwned'
  BY <1>b, ListenersStay DEF TypeOK
<1>8. Listening'
  BY <1>a, <1>b, <1>v DEF Listening, Done, Labels, TypeOK, QueueTypeOK
<1>9. Wakeup'
  BY <1>a, <1>b, <1>c, <1>v DEF Wakeup, Held, Done, Labels, TypeOK, QueueTypeOK
<1>10. Answers' /\ Closing'
  BY <1>a, <1>b, <1>v DEF Answers, AnswersAreFinal, Labels, TypeOK, QueueTypeOK, Closing
<1> QED BY <1>1, <1>2, <1>3, <1>4, <1>5, <1>6, <1>7, <1>8, <1>9, <1>10 DEF IInv

\* Enqueue sends the job (memory.go:98).
LEMMA SendPreserves ==
    ASSUME IInv, NEW r \in Request, HandlerSend(r)
    PROVE  IInv'
<1> USE ThreadAssumption DEF IInv, HandlerSend, EnqueueSend
<1>a. \A s \in Request : Tok(s) \in Token /\ \A u \in Request : Tok(s) = Tok(u) => s = u
  BY TokFacts
<1>b. \A s \in Request : Tok(s)' = Tok(s)
  BY DEF Tok
<1>u. Tok(r) \notin sent
  BY <1>a, TokFacts DEF SendOrder, Tok
<1>d. \A u : Queued(u)' <=> Queued(u) \/ u = Tok(r)
  <2>1. jobs \in Seq(Token) /\ Tok(r) \in Token /\ jobs' = Append(jobs, Tok(r))
    BY <1>a DEF TypeOK, QueueTypeOK
  <2> QED BY <2>1, AppendElements DEF Queued
<1>e. \A i, j \in 1 .. Len(jobs') : jobs'[i] = jobs'[j] => i = j
  <2>1. \A i \in 1 .. Len(jobs) : jobs[i] # Tok(r)
    BY <1>u, <1>a DEF Channel, Queued
  <2> QED BY <1>a, <2>1, AppendElements DEF Channel, TypeOK, QueueTypeOK
<1>1. TypeOK'
  BY <1>a, <1>u, AppendElements DEF TypeOK, QueueTypeOK
<1>2. Labels' /\ SendOrder' /\ AnswerOrder'
  BY <1>a, <1>b, <1>u, JobsAssumption, TokFacts DEF Labels, TypeOK, QueueTypeOK, SendOrder,
     Tok, AnswerOrder
<1>3. Channel' /\ Holding' /\ Results' /\ Accounted'
  BY <1>d, <1>e, <1>u DEF Channel, TypeOK, QueueTypeOK, Results, Holding, Done, Labels,
     Accounted, Held
<1>4. Entries' /\ Leftovers'
  BY <1>a, <1>b, <1>u DEF Entries, Labels, TypeOK, QueueTypeOK, Leftovers
<1>5. ListenersOwned'
  BY <1>b, ListenersStay DEF TypeOK
<1>6. Listening'
  BY <1>a, <1>b, <1>u DEF Listening, Done, Labels, TypeOK, QueueTypeOK
<1>7. Wakeup'
  BY <1>a, <1>b, <1>u, <1>d DEF Wakeup, Listening, Holding, Held, Done, Labels, TypeOK, QueueTypeOK
<1>8. Answers' /\ Closing'
  BY <1>a, <1>b, <1>u DEF Answers, AnswersAreFinal, Labels, TypeOK, QueueTypeOK, Closing
<1> QED BY <1>1, <1>2, <1>3, <1>4, <1>5, <1>6, <1>7, <1>8 DEF IInv

\* Enqueue is refused (memory.go:90, 102, 104).
LEMMA RefusedPreserves ==
    ASSUME IInv, NEW r \in Request, HandlerRefused(r)
    PROVE  IInv'
<1> USE ThreadAssumption DEF IInv, HandlerRefused, EnqueueRefused
<1>a. \A s \in Request : Tok(s) \in Token /\ \A u \in Request : Tok(s) = Tok(u) => s = u
  BY TokFacts
<1>b. \A s \in Request : Tok(s)' = Tok(s)
  BY DEF Tok
<1>c. \A u : Queued(u)' <=> Queued(u)
  BY DEF Queued
<1>1. TypeOK'
  BY <1>a DEF TypeOK, QueueTypeOK
<1>2. Labels' /\ SendOrder' /\ AnswerOrder'
  BY <1>a, <1>b DEF Labels, TypeOK, QueueTypeOK, SendOrder, AnswerOrder
<1>3. Channel' /\ Holding' /\ Results' /\ Accounted'
  BY <1>c DEF Channel, TypeOK, QueueTypeOK, Holding, Done, Labels, Results, Accounted, Held
<1>4. Entries' /\ Leftovers'
  BY <1>a, <1>b DEF Entries, Labels, TypeOK, QueueTypeOK, Leftovers
<1>5. ListenersOwned'
  BY <1>b, ListenersStay DEF TypeOK
<1>6. Listening'
  BY <1>a, <1>b DEF Listening, Done, Labels, TypeOK, QueueTypeOK
<1>7. Wakeup'
  BY <1>a, <1>b, <1>c DEF Wakeup, Held, Done, Labels, TypeOK, QueueTypeOK
<1>8. Answers' /\ Closing'
  BY <1>a, <1>b DEF Answers, AnswersAreFinal, Labels, TypeOK, QueueTypeOK, Closing
<1> QED BY <1>1, <1>2, <1>3, <1>4, <1>5, <1>6, <1>7, <1>8 DEF IInv

\* A batch goes on to its next job (submissions.go:104).
LEMMA NextJobPreserves ==
    ASSUME IInv, NEW r \in Request, HandlerNextJob(r)
    PROVE  IInv'
<1> USE ThreadAssumption DEF IInv, HandlerNextJob, EnqueueGauge
<1>a. \A s \in Request : Tok(s) \in Token /\ \A u \in Request : Tok(s) = Tok(u) => s = u
  BY TokFacts
<1>c. \A u : Queued(u)' <=> Queued(u)
  BY DEF Queued
<1>b. \A s \in Request : s # r => Tok(s)' = Tok(s)
  BY DEF Tok
<1>d. Tok(r)' \in Token \ sent /\ Tok(r)' # Tok(r)
  <2>1. idx'[r] = idx[r] + 1 /\ idx[r] + 1 \in 1 .. Len(Jobs[r]) /\ idx[r] + 1 > idx[r]
        /\ idx[r] \in 1 .. Len(Jobs[r]) /\ idx[r] # idx[r] + 1
    BY JobsAssumption DEF TypeOK
  <2> QED BY <2>1, JobsAssumption DEF Tok, SendOrder
<1>1. TypeOK'
  BY <1>a, <1>b, <1>d, JobsAssumption DEF TypeOK, QueueTypeOK
<1>2. Labels' /\ SendOrder' /\ AnswerOrder'
  BY <1>a, <1>b, <1>d, JobsAssumption, WaitsAssumption DEF Labels, TypeOK, QueueTypeOK,
     SendOrder, Tok, AnswerOrder
<1>3. Channel' /\ Holding' /\ Results' /\ Accounted'
  BY <1>b, <1>c, <1>d DEF Channel, TypeOK, QueueTypeOK, Holding, Done, Labels, Results,
     Accounted, Held
<1>4. Entries'
  BY <1>a, <1>b, <1>d DEF Entries, Labels, TypeOK, QueueTypeOK
<1>5. Leftovers'
  <2>1. pc[r] # "EnqSend" /\ reply[r] = "none" /\ sent \subseteq sent' /\ store' = store
    BY DEF TypeOK, Labels
  <2>2. \A s \in Request : s # r => Tok(s)' = Tok(s) /\ pc'[s] = pc[s] /\ reply'[s] = reply[s]
    BY <1>b DEF TypeOK
  <2> QED BY <2>1, <2>2, LeftoversStay
<1>6. ListenersOwned'
  BY <1>b, ListenersStay DEF TypeOK
<1>7. Listening'
  BY <1>a, <1>b, <1>d, WaitsAssumption DEF Listening, Done, Labels, TypeOK, QueueTypeOK
<1>8. Wakeup'
  BY <1>a, <1>c, <1>b, <1>d DEF Wakeup, Held, Done, Labels, TypeOK, QueueTypeOK
<1>9. Answers'
  <2> SUFFICES ASSUME NEW s \in Request
               PROVE  /\ reply'[s] \in {"ready", "signal"} =>
                            IsFinished(answer'[s]) /\ answer'[s] = status'[Tok(s)']
                      /\ pc'[s] = "WaitUnregister" =>
                            IsFinished(answer'[s]) /\ answer'[s] = status'[Tok(s)']
    BY DEF Answers, AnswersAreFinal
  <2>1. CASE s = r
    BY <2>1 DEF TypeOK, Labels
  <2>2. CASE s # r
    <3>1. Tok(s)' = Tok(s) /\ pc'[s] = pc[s]
      BY <2>2, <1>b DEF TypeOK
    <3> QED BY <3>1 DEF Answers, AnswersAreFinal
  <2> QED BY <2>1, <2>2
<1>10. Closing'
  BY <1>b, <1>d DEF Closing, Labels, TypeOK, QueueTypeOK
<1> QED BY <1>1, <1>2, <1>3, <1>4, <1>5, <1>6, <1>7, <1>8, <1>9, <1>10 DEF IInv

\* Enqueue returns to a handler that waits (submissions.go:41).
LEMMA AwaitsPreserves ==
    ASSUME IInv, NEW r \in Request, HandlerAwaits(r)
    PROVE  IInv'
<1> USE ThreadAssumption DEF IInv, HandlerAwaits, EnqueueGauge
<1>a. \A s \in Request : Tok(s) \in Token /\ \A u \in Request : Tok(s) = Tok(u) => s = u
  BY TokFacts
<1>b. \A s \in Request : Tok(s)' = Tok(s)
  BY DEF Tok
<1>c. \A u : Queued(u)' <=> Queued(u)
  BY DEF Queued
<1>1. TypeOK'
  BY <1>a DEF TypeOK, QueueTypeOK
<1>2. Labels' /\ SendOrder' /\ AnswerOrder'
  BY <1>a, <1>b, TokFacts DEF Labels, TypeOK, QueueTypeOK, SendOrder, AnswerOrder, Tok
<1>3. Channel' /\ Holding' /\ Results' /\ Accounted'
  BY <1>c DEF Channel, TypeOK, QueueTypeOK, Holding, Done, Labels, Results, Accounted, Held
<1>4. Entries'
  BY <1>a, <1>b DEF Entries, Labels, TypeOK, QueueTypeOK
<1>5. Leftovers'
  <2>1. pc[r] # "EnqSend" /\ reply[r] = "none" /\ sent \subseteq sent' /\ store' = store
    BY DEF TypeOK, Labels
  <2>2. \A s \in Request : s # r => Tok(s)' = Tok(s) /\ pc'[s] = pc[s] /\ reply'[s] = reply[s]
    BY <1>b DEF TypeOK
  <2> QED BY <2>1, <2>2, LeftoversStay
<1>6. ListenersOwned'
  BY <1>b, ListenersStay DEF TypeOK
<1>7. Listening'
  BY <1>a, <1>b DEF Listening, Done, Labels, TypeOK, QueueTypeOK
<1>8. Wakeup'
  BY <1>a, <1>b, <1>c DEF Wakeup, Held, Done, Labels, TypeOK, QueueTypeOK
<1>9. Answers' /\ Closing'
  BY <1>a, <1>b DEF Answers, AnswersAreFinal, Labels, TypeOK, QueueTypeOK, Closing
<1> QED BY <1>1, <1>2, <1>3, <1>4, <1>5, <1>6, <1>7, <1>8, <1>9 DEF IInv

\* Enqueue returns and the tokens are answered (submissions.go:48, 112).
LEMMA TokensPreserves ==
    ASSUME IInv, NEW r \in Request, HandlerTokens(r)
    PROVE  IInv'
<1> USE ThreadAssumption DEF IInv, HandlerTokens, EnqueueGauge
<1>a. \A s \in Request : Tok(s) \in Token /\ \A u \in Request : Tok(s) = Tok(u) => s = u
  BY TokFacts
<1>b. \A s \in Request : Tok(s)' = Tok(s)
  BY DEF Tok
<1>c. \A u : Queued(u)' <=> Queued(u)
  BY DEF Queued
<1>1. TypeOK'
  BY <1>a DEF TypeOK, QueueTypeOK
<1>2. Labels' /\ SendOrder' /\ AnswerOrder'
  BY <1>a, <1>b, TokFacts DEF Labels, TypeOK, QueueTypeOK, SendOrder, AnswerOrder, Tok
<1>3. Channel' /\ Holding' /\ Results' /\ Accounted'
  BY <1>c DEF Channel, TypeOK, QueueTypeOK, Holding, Done, Labels, Results, Accounted, Held
<1>4. Entries'
  BY <1>a, <1>b DEF Entries, Labels, TypeOK, QueueTypeOK
<1>5. Leftovers'
  <2>1. pc[r] # "EnqSend" /\ reply[r] = "none" /\ sent \subseteq sent' /\ store' = store
    BY DEF TypeOK, Labels
  <2>2. \A s \in Request : s # r => Tok(s)' = Tok(s) /\ pc'[s] = pc[s] /\ reply'[s] = reply[s]
    BY <1>b DEF TypeOK
  <2> QED BY <2>1, <2>2, LeftoversStay
<1>6. ListenersOwned'
  BY <1>b, ListenersStay DEF TypeOK
<1>7. Listening'
  BY <1>a, <1>b DEF Listening, Done, Labels, TypeOK, QueueTypeOK
<1>8. Wakeup'
  BY <1>a, <1>b, <1>c DEF Wakeup, Held, Done, Labels, TypeOK, QueueTypeOK
<1>9. Answers' /\ Closing'
  BY <1>a, <1>b DEF Answers, AnswersAreFinal, Labels, TypeOK, QueueTypeOK, Closing
<1> QED BY <1>1, <1>2, <1>3, <1>4, <1>5, <1>6, <1>7, <1>8, <1>9 DEF IInv

\* WaitForResult finds the job finished at once (memory.go:186).
LEMMA ReadyPreserves ==
    ASSUME IInv, NEW r \in Request, HandlerReady(r)
    PROVE  IInv'
<1> USE ThreadAssumption DEF IInv, HandlerReady, WaitCheckFinished
<1>a. \A s \in Request : Tok(s) \in Token /\ \A u \in Request : Tok(s) = Tok(u) => s = u
  BY TokFacts
<1>b. \A s \in Request : Tok(s)' = Tok(s)
  BY DEF Tok
<1>c. \A u : Queued(u)' <=> Queued(u)
  BY DEF Queued
<1>1. TypeOK'
  BY <1>a DEF TypeOK, QueueTypeOK, Seen
<1>2. Labels' /\ SendOrder' /\ AnswerOrder'
  BY <1>a, <1>b DEF Labels, TypeOK, QueueTypeOK, SendOrder, AnswerOrder
<1>3. Channel' /\ Holding' /\ Results' /\ Accounted'
  BY <1>c DEF Channel, TypeOK, QueueTypeOK, Holding, Done, Labels, Results, Accounted, Held
<1>4. Entries'
  BY <1>a, <1>b DEF Entries, Labels, TypeOK, QueueTypeOK
<1>5. Leftovers'
  <2>1. /\ pc[r] # "EnqSend" /\ reply[r] = "none"
        /\ \A s \in Request : s # r => pc'[s] = pc[s] /\ reply'[s] = reply[s]
    BY DEF TypeOK, Labels
  <2> QED BY <1>b, <2>1, LeftoversStay
<1>6. ListenersOwned'
  BY <1>b, ListenersStay DEF TypeOK
<1>7. Listening'
  BY <1>a, <1>b DEF Listening, Done, Labels, TypeOK, QueueTypeOK
<1>8. Wakeup'
  BY <1>a, <1>b, <1>c DEF Wakeup, Held, Done, Labels, TypeOK, QueueTypeOK
<1>9. Answers'
  <2>1. IsFinished(Seen(Tok(r))) /\ Seen(Tok(r)) = status[Tok(r)]
    BY <1>a, SeenIsStatus DEF IsFinished, StatusProcessing
  <2> QED BY <1>a, <1>b, <2>1 DEF Answers, AnswersAreFinal, TypeOK, Labels
<1>10. Closing'
  BY DEF Closing, Labels, TypeOK, QueueTypeOK
<1> QED BY <1>1, <1>2, <1>3, <1>4, <1>5, <1>6, <1>7, <1>8, <1>9, <1>10 DEF IInv

\* WaitForResult registers its listener (memory.go:191).
LEMMA RegisterPreserves ==
    ASSUME IInv, NEW r \in Request, HandlerRegister(r)
    PROVE  IInv'
<1> USE ThreadAssumption DEF IInv, HandlerRegister, WaitRegister
<1>a. \A s \in Request : Tok(s) \in Token /\ \A u \in Request : Tok(s) = Tok(u) => s = u
  BY TokFacts
<1>b. \A s \in Request : Tok(s)' = Tok(s)
  BY DEF Tok
<1>c. \A u : Queued(u)' <=> Queued(u)
  BY DEF Queued
<1>1. TypeOK'
  BY <1>a DEF TypeOK, QueueTypeOK
<1>2. Labels' /\ SendOrder' /\ AnswerOrder'
  BY <1>a, <1>b DEF Labels, TypeOK, QueueTypeOK, SendOrder, AnswerOrder
<1>3. Channel' /\ Holding' /\ Results' /\ Accounted'
  BY <1>c DEF Channel, TypeOK, QueueTypeOK, Holding, Done, Labels, Results, Accounted, Held
<1>4. Entries' /\ Leftovers' /\ ListenersOwned' /\ Listening'
  BY <1>a, <1>b DEF Entries, Labels, TypeOK, QueueTypeOK, Leftovers, ListenersOwned, Listening,
     Done, Wakeup, AnswerOrder
<1>5. Wakeup'
  BY <1>a, <1>b, <1>c DEF Wakeup, Held, Done, Labels, TypeOK, QueueTypeOK, Listening
<1>6. Answers' /\ Closing'
  BY <1>a, <1>b DEF Answers, AnswersAreFinal, Labels, TypeOK, QueueTypeOK, Closing
<1> QED BY <1>1, <1>2, <1>3, <1>4, <1>5, <1>6 DEF IInv

\* The second look of WaitForResult finds the job finished (memory.go:193).
LEMMA RecheckFinishedPreserves ==
    ASSUME IInv, NEW r \in Request, HandlerRecheckFinished(r)
    PROVE  IInv'
<1> USE ThreadAssumption DEF IInv, HandlerRecheckFinished, WaitRecheckFinished
<1>a. \A s \in Request : Tok(s) \in Token /\ \A u \in Request : Tok(s) = Tok(u) => s = u
  BY TokFacts
<1>b. \A s \in Request : Tok(s)' = Tok(s)
  BY DEF Tok
<1>c. \A u : Queued(u)' <=> Queued(u)
  BY DEF Queued
<1>1. TypeOK'
  BY <1>a DEF TypeOK, QueueTypeOK, Seen
<1>2. Labels' /\ SendOrder' /\ AnswerOrder'
  BY <1>a, <1>b DEF Labels, TypeOK, QueueTypeOK, SendOrder, AnswerOrder
<1>3. Channel' /\ Holding' /\ Results' /\ Accounted'
  BY <1>c DEF Channel, TypeOK, QueueTypeOK, Holding, Done, Labels, Results, Accounted, Held
<1>4. Entries' /\ Leftovers' /\ ListenersOwned' /\ Listening'
  BY <1>a, <1>b DEF Entries, Labels, TypeOK, QueueTypeOK, Leftovers, ListenersOwned, Listening,
     Done
<1>5. Wakeup'
  BY <1>a, <1>b, <1>c DEF Wakeup, Held, Done, Labels, TypeOK, QueueTypeOK
<1>6. Answers'
  <2>1. IsFinished(Seen(Tok(r))) /\ Seen(Tok(r)) = status[Tok(r)]
    BY <1>a, SeenIsStatus DEF IsFinished, StatusProcessing
  <2> QED BY <1>a, <1>b, <2>1 DEF Answers, AnswersAreFinal, TypeOK, Labels
<1>7. Closing'
  BY DEF Closing, Labels, TypeOK, QueueTypeOK
<1> QED BY <1>1, <1>2, <1>3, <1>4, <1>5, <1>6, <1>7 DEF IInv

\* The second look of WaitForResult does not (memory.go:193).
LEMMA RecheckPendingPreserves ==
    ASSUME IInv, NEW r \in Request, HandlerRecheckPending(r)
    PROVE  IInv'
<1> USE ThreadAssumption DEF IInv, HandlerRecheckPending, WaitRecheckPending, Seen
<1>a. \A s \in Request : Tok(s) \in Token /\ \A u \in Request : Tok(s) = Tok(u) => s = u
  BY TokFacts
<1>b. \A s \in Request : Tok(s)' = Tok(s)
  BY DEF Tok
<1>c. \A u : Queued(u)' <=> Queued(u)
  BY DEF Queued
<1>1. TypeOK'
  BY <1>a DEF TypeOK, QueueTypeOK
<1>2. Labels' /\ SendOrder' /\ AnswerOrder'
  BY <1>a, <1>b DEF Labels, TypeOK, QueueTypeOK, SendOrder, AnswerOrder
<1>3. Channel' /\ Holding' /\ Results' /\ Accounted'
  BY <1>c DEF Channel, TypeOK, QueueTypeOK, Holding, Done, Labels, Results, Accounted, Held
<1>4. Entries' /\ Leftovers' /\ ListenersOwned' /\ Listening'
  BY <1>a, <1>b DEF Entries, Labels, TypeOK, QueueTypeOK, Leftovers, ListenersOwned, Listening,
     Done
<1>5. Wakeup'
  BY <1>a, <1>b, <1>c DEF Wakeup, Held, Done, Labels, TypeOK, QueueTypeOK, Results, Entries, AnswerOrder, Accounted
<1>6. Answers' /\ Closing'
  BY <1>a, <1>b DEF Answers, AnswersAreFinal, Labels, TypeOK, QueueTypeOK, Closing
<1> QED BY <1>1, <1>2, <1>3, <1>4, <1>5, <1>6 DEF IInv

\* WaitForResult takes its listener back (memory.go:194).
LEMMA UnregisterPreserves ==
    ASSUME IInv, NEW r \in Request, HandlerUnregister(r)
    PROVE  IInv'
<1> USE ThreadAssumption DEF IInv, HandlerUnregister, WaitUnregister
<1>a. \A s \in Request : Tok(s) \in Token /\ \A u \in Request : Tok(s) = Tok(u) => s = u
  BY TokFacts
<1>b. \A s \in Request : Tok(s)' = Tok(s)
  BY DEF Tok
<1>c. \A u : Queued(u)' <=> Queued(u)
  BY DEF Queued
<1>1. TypeOK'
  BY <1>a DEF TypeOK, QueueTypeOK
<1>2. Labels' /\ SendOrder' /\ AnswerOrder'
  BY <1>a, <1>b DEF Labels, TypeOK, QueueTypeOK, SendOrder, AnswerOrder
<1>3. Channel' /\ Holding' /\ Results' /\ Accounted'
  BY <1>c DEF Channel, TypeOK, QueueTypeOK, Holding, Done, Labels, Results, Accounted, Held
<1>4. Entries'
  BY <1>a, <1>b DEF Entries, Labels, TypeOK, QueueTypeOK
<1>5. Leftovers'
  <2>1. pc[r] # "EnqSend" /\ reply[r] = "none" /\ sent \subseteq sent' /\ store' = store
    BY DEF TypeOK, Labels
  <2>2. \A s \in Request : s # r => Tok(s)' = Tok(s) /\ pc'[s] = pc[s] /\ reply'[s] = reply[s]
    BY <1>b DEF TypeOK
  <2> QED BY <2>1, <2>2, LeftoversStay
<1>6. ListenersOwned' /\ Listening'
  BY <1>a, <1>b DEF ListenersOwned, Labels, TypeOK, QueueTypeOK, Listening, Done
<1>7. Wakeup'
  BY <1>a, <1>b, <1>c DEF Wakeup, Held, Done, Labels, TypeOK, QueueTypeOK
<1>8. Answers' /\ Closing'
  BY <1>a, <1>b DEF Answers, AnswersAreFinal, Labels, TypeOK, QueueTypeOK, Closing
<1> QED BY <1>1, <1>2, <1>3, <1>4, <1>5, <1>6, <1>7, <1>8 DEF IInv

\* WaitForResult receives the result (memory.go:202).
LEMMA SignalledPreserves ==
    ASSUME IInv, NEW r \in Request, HandlerSignalled(r)
    PROVE  IInv'
<1> USE ThreadAssumption DEF IInv, HandlerSignalled, WaitReceive
<1>a. \A s \in Request : Tok(s) \in Token /\ \A u \in Request : Tok(s) = Tok(u) => s = u
  BY TokFacts
<1>b. \A s \in Request : Tok(s)' = Tok(s)
  BY DEF Tok
<1>c. \A u : Queued(u)' <=> Queued(u)
  BY DEF Queued
<1>1. TypeOK'
  BY <1>a DEF TypeOK, QueueTypeOK
<1>2. Labels' /\ SendOrder' /\ AnswerOrder'
  BY <1>a, <1>b DEF Labels, TypeOK, QueueTypeOK, SendOrder, AnswerOrder
<1>3. Channel' /\ Holding' /\ Results' /\ Accounted'
  BY <1>c DEF Channel, TypeOK, QueueTypeOK, Holding, Done, Labels, Results, Accounted, Held
<1>4. Entries'
  BY <1>a, <1>b DEF Entries, Labels, TypeOK, QueueTypeOK
<1>5. Leftovers'
  <2>1. /\ pc[r] # "EnqSend" /\ reply[r] = "none"
        /\ \A s \in Request : s # r => pc'[s] = pc[s] /\ reply'[s] = reply[s]
    BY DEF TypeOK, Labels
  <2> QED BY <1>b, <2>1, LeftoversStay
<1>6. ListenersOwned'
  BY <1>b, ListenersStay DEF TypeOK, Listening
<1>7. Listening'
  BY <1>a, <1>b DEF Listening, Done, Labels, TypeOK, QueueTypeOK
<1>8. Wakeup'
  BY <1>a, <1>b, <1>c DEF Wakeup, Held, Done, Labels, TypeOK, QueueTypeOK
<1>9. Answers' /\ Closing'
  BY <1>a, <1>b DEF Answers, AnswersAreFinal, Labels, TypeOK, QueueTypeOK, Listening, Done,
     Closing
<1> QED BY <1>1, <1>2, <1>3, <1>4, <1>5, <1>6, <1>7, <1>8, <1>9 DEF IInv

\* The timer of WaitForResult fires (memory.go:204).
LEMMA TimeoutPreserves ==
    ASSUME IInv, NEW r \in Request, HandlerTimeout(r)
    PROVE  IInv'
<1> USE ThreadAssumption DEF IInv, HandlerTimeout, WaitGiveUp
<1>a. \A s \in Request : Tok(s) \in Token /\ \A u \in Request : Tok(s) = Tok(u) => s = u
  BY TokFacts
<1>b. \A s \in Request : Tok(s)' = Tok(s)
  BY DEF Tok
<1>c. \A u : Queued(u)' <=> Queued(u)
  BY DEF Queued
<1>1. TypeOK'
  BY <1>a DEF TypeOK, QueueTypeOK
<1>2. Labels' /\ SendOrder' /\ AnswerOrder'
  BY <1>a, <1>b DEF Labels, TypeOK, QueueTypeOK, SendOrder, AnswerOrder
<1>3. Channel' /\ Holding' /\ Results' /\ Accounted'
  BY <1>c DEF Channel, TypeOK, QueueTypeOK, Holding, Done, Labels, Results, Accounted, Held
<1>4. Entries' /\ Leftovers' /\ ListenersOwned' /\ Listening'
  BY <1>a, <1>b DEF Entries, Labels, TypeOK, QueueTypeOK, Leftovers, ListenersOwned, Listening,
     Done
<1>5. Wakeup'
  BY <1>a, <1>b, <1>c DEF Wakeup, Held, Done, Labels, TypeOK, QueueTypeOK
<1>6. Answers' /\ Closing'
  BY <1>a, <1>b DEF Answers, AnswersAreFinal, Labels, TypeOK, QueueTypeOK, Closing
<1> QED BY <1>1, <1>2, <1>3, <1>4, <1>5, <1>6 DEF IInv

\* The look after the timer (memory.go:206).
LEMMA LastLookPreserves ==
    ASSUME IInv, NEW r \in Request, HandlerLastLook(r)
    PROVE  IInv'
<1> USE ThreadAssumption DEF IInv, HandlerLastLook, WaitLastLook, Seen
<1>a. \A s \in Request : Tok(s) \in Token /\ \A u \in Request : Tok(s) = Tok(u) => s = u
  BY TokFacts
<1>b. \A s \in Request : Tok(s)' = Tok(s)
  BY DEF Tok
<1>c. \A u : Queued(u)' <=> Queued(u)
  BY DEF Queued
<1>1. TypeOK'
  BY <1>a DEF TypeOK, QueueTypeOK
<1>2. Labels' /\ SendOrder' /\ AnswerOrder'
  <2>1. Labels'
    BY DEF Labels, TypeOK, QueueTypeOK
  <2>2. SendOrder'
    BY DEF SendOrder, Labels, TypeOK, QueueTypeOK
  <2>3. AnswerOrder'
    BY <1>a, <1>b DEF AnswerOrder, Labels, TypeOK, QueueTypeOK
  <2> QED BY <2>1, <2>2, <2>3
<1>3. Channel' /\ Holding' /\ Results' /\ Accounted'
  BY <1>c DEF Channel, TypeOK, QueueTypeOK, Holding, Done, Labels, Results, Accounted, Held
<1>4. Entries'
  BY <1>a, <1>b DEF Entries, Labels, TypeOK, QueueTypeOK
<1>5. Leftovers'
  <2>1. /\ pc[r] # "EnqSend" /\ reply[r] = "none"
        /\ \A s \in Request : s # r => pc'[s] = pc[s] /\ reply'[s] = reply[s]
    BY DEF TypeOK, Labels
  <2> QED BY <1>b, <2>1, LeftoversStay
<1>6. ListenersOwned'
  BY <1>b, ListenersStay DEF TypeOK
<1>7. Listening'
  BY <1>a, <1>b DEF Listening, Done, Labels, TypeOK, QueueTypeOK
<1>8. Wakeup'
  BY <1>a, <1>b, <1>c DEF Wakeup, Held, Done, Labels, TypeOK, QueueTypeOK
<1>9. Answers' /\ Closing'
  BY <1>a, <1>b DEF Answers, AnswersAreFinal, Labels, TypeOK, QueueTypeOK, Closing
<1> QED BY <1>1, <1>2, <1>3, <1>4, <1>5, <1>6, <1>7, <1>8, <1>9 DEF IInv

\* The context of a waiting request is done (memory.go:207).
LEMMA AbandonedPreserves ==
    ASSUME IInv, NEW r \in Request, HandlerAbandoned(r)
    PROVE  IInv'
<1> USE ThreadAssumption DEF IInv, HandlerAbandoned, WaitGiveUp
<1>a. \A s \in Request : Tok(s) \in Token /\ \A u \in Request : Tok(s) = Tok(u) => s = u
  BY TokFacts
<1>b. \A s \in Request : Tok(s)' = Tok(s)
  BY DEF Tok
<1>c. \A u : Queued(u)' <=> Queued(u)
  BY DEF Queued
<1>1. TypeOK'
  BY <1>a DEF TypeOK, QueueTypeOK
<1>2. Labels' /\ SendOrder' /\ AnswerOrder'
  <2>1. Labels'
    BY DEF Labels, TypeOK, QueueTypeOK
  <2>2. SendOrder'
    BY DEF SendOrder, Labels, TypeOK, QueueTypeOK
  <2>3. AnswerOrder'
    BY <1>a, <1>b DEF AnswerOrder, Labels, TypeOK, QueueTypeOK
  <2> QED BY <2>1, <2>2, <2>3
<1>3. Channel' /\ Holding' /\ Results' /\ Accounted'
  BY <1>c DEF Channel, TypeOK, QueueTypeOK, Holding, Done, Labels, Results, Accounted, Held
<1>4. Entries'
  BY <1>a, <1>b DEF Entries, Labels, TypeOK, QueueTypeOK
<1>5. Leftovers'
  <2>1. pc[r] # "EnqSend" /\ reply[r] = "none" /\ sent \subseteq sent' /\ store' = store
    BY DEF TypeOK, Labels
  <2>2. \A s \in Request : s # r => Tok(s)' = Tok(s) /\ pc'[s] = pc[s] /\ reply'[s] = reply[s]
    BY <1>b DEF TypeOK
  <2> QED BY <2>1, <2>2, LeftoversStay
<1>6. ListenersOwned' /\ Listening'
  BY <1>a, <1>b DEF ListenersOwned, Labels, TypeOK, QueueTypeOK, Listening, Done
<1>7. Wakeup'
  BY <1>a, <1>b, <1>c DEF Wakeup, Held, Done, Labels, TypeOK, QueueTypeOK
<1>8. Answers' /\ Closing'
  BY <1>a, <1>b DEF Answers, AnswersAreFinal, Labels, TypeOK, QueueTypeOK, Closing
<1> QED BY <1>1, <1>2, <1>3, <1>4, <1>5, <1>6, <1>7, <1>8 DEF IInv

\* A worker receives a job (memory.go:111).
LEMMA ReceivePreserves ==
    ASSUME IInv, NEW w \in Worker, WorkerReceive(w)
    PROVE  IInv'
<1> USE ThreadAssumption DEF IInv, WorkerReceive, DequeueReceive
<1>a. \A s \in Request : Tok(s) \in Token /\ \A u \in Request : Tok(s) = Tok(u) => s = u
  BY TokFacts
<1>b. \A s \in Request : Tok(s)' = Tok(s)
  BY DEF Tok
<1>d. /\ jobs' \in Seq(Token) /\ Head(jobs) \in Token /\ Queued(Head(jobs))
      /\ \A u : Queued(u)' <=> Queued(u) /\ u # Head(jobs)
      /\ \A i, j \in 1 .. Len(jobs') : jobs'[i] = jobs'[j] => i = j
  <2>1. jobs \in Seq(Token) /\ jobs # <<>> /\ jobs' = Tail(jobs)
        /\ \A i, j \in 1 .. Len(jobs) : jobs[i] = jobs[j] => i = j
    BY DEF TypeOK, QueueTypeOK, Channel
  <2>2. /\ Tail(jobs) \in Seq(Token) /\ Head(jobs) \in Token
        /\ \A u : (\E i \in 1 .. Len(Tail(jobs)) : Tail(jobs)[i] = u)
                    <=> (\E i \in 1 .. Len(jobs) : jobs[i] = u) /\ u # Head(jobs)
        /\ \A i, j \in 1 .. Len(Tail(jobs)) : Tail(jobs)[i] = Tail(jobs)[j] => i = j
        /\ \E i \in 1 .. Len(jobs) : jobs[i] = Head(jobs)
    BY <2>1, TailElements, Zenon
  <2> QED BY <2>1, <2>2, Zenon DEF Queued
<1>1. TypeOK'
  BY <1>a, <1>d DEF TypeOK, QueueTypeOK
<1>2. Labels' /\ SendOrder' /\ AnswerOrder'
  BY <1>a, <1>b, <1>d DEF Labels, TypeOK, QueueTypeOK, SendOrder, AnswerOrder
<1>3. Channel'
  BY <1>d DEF Channel, TypeOK, QueueTypeOK
<1>4. Holding'
  <2>1. Head(jobs) \in sent /\ status[Head(jobs)] = StatusInQueue
        /\ \A v \in Worker : Head(jobs) \notin cur[v]
    BY <1>d DEF Channel, Holding
  <2>2. /\ cur'[w] = {Head(jobs)} /\ cur[w] = {} /\ pc'[w] = "DeqCount"
        /\ \A v \in Worker : v # w => cur'[v] = cur[v] /\ pc'[v] = pc[v]
    BY DEF TypeOK, Holding
  <2> QED BY <1>d, <2>1, <2>2 DEF Holding, Done
<1>5. Results' /\ Accounted'
  BY <1>d DEF Results, Done, TypeOK, QueueTypeOK, Accounted, Held, Holding
<1>6. Entries' /\ Leftovers' /\ ListenersOwned' /\ Listening'
  BY <1>a, <1>b, <1>d DEF Entries, Labels, TypeOK, QueueTypeOK, Leftovers, ListenersOwned,
     Listening, Done
<1>7. Wakeup'
  BY <1>a, <1>b, <1>d DEF Wakeup, Held, Done, Labels, TypeOK, QueueTypeOK, Holding
<1>8. Answers' /\ Closing'
  BY <1>a, <1>b, <1>d DEF Answers, AnswersAreFinal, Labels, TypeOK, QueueTypeOK, Closing
<1> QED BY <1>1, <1>2, <1>3, <1>4, <1>5, <1>6, <1>7, <1>8 DEF IInv

\* processJob marks the job as processing (worker.go:92).
LEMMA StartPreserves ==
    ASSUME IInv, NEW w \in Worker, StartJob(w)
    PROVE  IInv'
<1> USE ThreadAssumption DEF IInv, StartJob, UpdateStore, StatusProcessing, StatusInQueue, IsFinished
<1>a. \A s \in Request : Tok(s) \in Token /\ \A u \in Request : Tok(s) = Tok(u) => s = u
  BY TokFacts
<1>b. \A s \in Request : Tok(s)' = Tok(s)
  BY DEF Tok
<1>c. \A u : Queued(u)' <=> Queued(u)
  BY DEF Queued
<1>1. TypeOK'
  BY <1>a DEF TypeOK, QueueTypeOK
<1>2. Labels' /\ SendOrder' /\ AnswerOrder'
  BY <1>a, <1>b DEF Labels, TypeOK, QueueTypeOK, SendOrder, AnswerOrder
<1>3. Channel' /\ Holding' /\ Results' /\ Accounted'
  BY <1>c DEF Channel, TypeOK, QueueTypeOK, Holding, Done, Labels, Results, Accounted, Held
<1>4. Entries' /\ Leftovers' /\ ListenersOwned' /\ Listening'
  BY <1>a, <1>b DEF Entries, Labels, TypeOK, QueueTypeOK, Holding, Leftovers, ListenersOwned,
     Listening, Done, Results
<1>5. Wakeup'
  BY <1>a, <1>b, <1>c DEF Wakeup, Held, Done, Labels, TypeOK, QueueTypeOK, Holding
<1>6. Answers' /\ Closing'
  BY <1>a, <1>b DEF Answers, AnswersAreFinal, Labels, TypeOK, QueueTypeOK, Holding, Closing
<1> QED BY <1>1, <1>2, <1>3, <1>4, <1>5, <1>6 DEF IInv

\* processJob writes a verdict (worker.go:101, 118, 129).
LEMMA VerdictPreserves ==
    ASSUME IInv, NEW w \in Worker, NEW t \in cur[w], NEW v \in Status, IsFinished(v), SetVerdict(w, t, v)
    PROVE  IInv'
<1> USE ThreadAssumption DEF IInv, SetVerdict, StatusProcessing, StatusInQueue, IsFinished
<1>a. \A s \in Request : Tok(s) \in Token /\ \A u \in Request : Tok(s) = Tok(u) => s = u
  BY TokFacts
<1>b. \A s \in Request : Tok(s)' = Tok(s)
  BY DEF Tok
<1>c. \A u : Queued(u)' <=> Queued(u)
  BY DEF Queued
<1>1. TypeOK'
  BY <1>a DEF TypeOK, QueueTypeOK
<1>2. Labels' /\ SendOrder' /\ AnswerOrder'
  BY <1>a, <1>b DEF Labels, TypeOK, QueueTypeOK, SendOrder, AnswerOrder
<1>3. Channel' /\ Holding' /\ Results' /\ Accounted'
  BY <1>c DEF Channel, TypeOK, QueueTypeOK, Holding, Done, Labels, Results, Accounted, Held
<1>4. Entries' /\ Leftovers' /\ ListenersOwned' /\ Listening'
  BY <1>a, <1>b DEF Entries, Labels, TypeOK, QueueTypeOK, Holding, Leftovers, ListenersOwned,
     Listening, Done, Results
<1>5. Wakeup'
  BY <1>a, <1>b, <1>c DEF Wakeup, Held, Done, Labels, TypeOK, QueueTypeOK, Holding
<1>6. Answers' /\ Closing'
  BY <1>a, <1>b DEF Answers, AnswersAreFinal, Labels, TypeOK, QueueTypeOK, Holding, Closing
<1> QED BY <1>1, <1>2, <1>3, <1>4, <1>5, <1>6 DEF IInv

\* finalizeJob starts the callback (worker.go:166).
LEMMA FinalizePreserves ==
    ASSUME IInv, NEW w \in Worker, FinalizeJob(w)
    PROVE  IInv'
<1> USE ThreadAssumption DEF IInv, FinalizeJob
<1>a. \A s \in Request : Tok(s) \in Token /\ \A u \in Request : Tok(s) = Tok(u) => s = u
  BY TokFacts
<1>b. \A s \in Request : Tok(s)' = Tok(s)
  BY DEF Tok
<1>c. \A u : Queued(u)' <=> Queued(u)
  BY DEF Queued
<1>1. TypeOK'
  BY <1>a DEF TypeOK, QueueTypeOK
<1>2. Labels' /\ SendOrder' /\ AnswerOrder'
  BY <1>a, <1>b DEF Labels, TypeOK, QueueTypeOK, SendOrder, AnswerOrder
<1>3. Channel' /\ Holding' /\ Results' /\ Accounted'
  BY <1>c DEF Channel, TypeOK, QueueTypeOK, Holding, Done, Labels, Results, Accounted, Held
<1>4. Entries' /\ Leftovers' /\ ListenersOwned' /\ Listening'
  BY <1>a, <1>b DEF Entries, Labels, TypeOK, QueueTypeOK, Leftovers, ListenersOwned, Listening,
     Done
<1>5. Wakeup'
  BY <1>a, <1>b, <1>c DEF Wakeup, Held, Done, Labels, TypeOK, QueueTypeOK
<1>6. Answers' /\ Closing'
  BY <1>a, <1>b DEF Answers, AnswersAreFinal, Labels, TypeOK, QueueTypeOK, Closing
<1> QED BY <1>1, <1>2, <1>3, <1>4, <1>5, <1>6 DEF IInv

\* SignalCompleted stores the snapshot (memory.go:172).
LEMMA SnapshotPreserves ==
    ASSUME IInv, NEW w \in Worker, NEW t \in cur[w], SignalStore(w, t), UNCHANGED engineVars
    PROVE  IInv'
<1> USE ThreadAssumption DEF IInv, SignalStore
<1>a. \A s \in Request : Tok(s) \in Token /\ \A u \in Request : Tok(s) = Tok(u) => s = u
  BY TokFacts
<1>b. \A s \in Request : Tok(s)' = Tok(s)
  BY DEF Tok
<1>c. \A u : Queued(u)' <=> Queued(u)
  BY DEF Queued
<1>1. TypeOK'
  BY <1>a DEF TypeOK, QueueTypeOK
<1>2. Labels' /\ SendOrder' /\ AnswerOrder'
  BY <1>a, <1>b DEF Labels, TypeOK, QueueTypeOK, SendOrder, AnswerOrder
<1>3. Channel' /\ Holding' /\ Results' /\ Accounted'
  BY <1>c DEF Channel, TypeOK, QueueTypeOK, Holding, Done, Labels, Results, IsFinished,
     StatusProcessing, Accounted, Held
<1>4. Entries' /\ Leftovers' /\ ListenersOwned' /\ Listening'
  BY <1>a, <1>b DEF Entries, Labels, TypeOK, QueueTypeOK, Holding, Leftovers, ListenersOwned,
     Listening, Done
<1>5. Wakeup'
  BY <1>a, <1>b, <1>c DEF Wakeup, Held, Done, Labels, TypeOK, QueueTypeOK
<1>6. Answers' /\ Closing'
  BY <1>a, <1>b DEF Answers, AnswersAreFinal, Labels, TypeOK, QueueTypeOK, Closing
<1> QED BY <1>1, <1>2, <1>3, <1>4, <1>5, <1>6 DEF IInv

\* SignalCompleted takes the listener out of the map (memory.go:175).
LEMMA NotifyPreserves ==
    ASSUME IInv, NEW w \in Worker, WorkerNotify(w)
    PROVE  IInv'
<1> USE ThreadAssumption DEF IInv, WorkerNotify, SignalNotify
<1>a. \A s \in Request : Tok(s) \in Token /\ \A u \in Request : Tok(s) = Tok(u) => s = u
  BY TokFacts
<1>b. \A s \in Request : Tok(s)' = Tok(s)
  BY DEF Tok
<1>c. \A u : Queued(u)' <=> Queued(u)
  BY DEF Queued
<1>1. TypeOK'
  BY <1>a DEF TypeOK, QueueTypeOK
<1>2. Labels' /\ SendOrder' /\ AnswerOrder'
  BY <1>a, <1>b DEF Labels, TypeOK, QueueTypeOK, SendOrder, AnswerOrder
<1>3. Channel' /\ Holding' /\ Results' /\ Accounted'
  BY <1>c DEF Channel, TypeOK, QueueTypeOK, Holding, Done, Labels, Results, Accounted, Held
<1>4. Entries' /\ Leftovers' /\ ListenersOwned' /\ Listening'
  BY <1>a, <1>b DEF Entries, Labels, TypeOK, QueueTypeOK, Leftovers, ListenersOwned, Listening,
     Done, Holding
<1>5. Wakeup'
  <2> SUFFICES ASSUME NEW s \in Request
               PROVE  /\ pc[s] \in Looking \cup Enqueued =>
                            /\ mailbox'[Tok(s)] = 0
                            /\ \A v \in Worker : pc'[v] = "SigSend" => Tok(s) \notin cur'[v]
                      /\ pc[s] = "WaitRecheck" => Tok(s) \in listeners' \/ Done(Tok(s))
                      /\ pc[s] = "WaitSelect" /\ Tok(s) \notin removed =>
                            \/ Tok(s) \in listeners' /\ (Queued(Tok(s)) \/ Held(Tok(s))')
                            \/ \E v \in Worker : pc'[v] = "SigSend" /\ Tok(s) \in cur'[v]
                            \/ mailbox'[Tok(s)] # 0
    <3>1. \A q \in Request : pc'[q] = pc[q] /\ (Held(Tok(q))' <=> \E v \in Worker : Tok(q) \in cur'[v])
      BY <1>b DEF TypeOK, Held
    <3>2. \A q \in Request : Done(Tok(q))' <=> Done(Tok(q))
      BY <1>b DEF Done
    <3> QED BY <1>b, <1>c, <3>1, <3>2 DEF Wakeup
  <2>1. PICK t \in cur[w] : SignalNotify(w, t, "Loop")
               /\ cur' = [cur EXCEPT ![w] = IF t \in listeners THEN @ ELSE {}]
    OBVIOUS
  <2>2. Done(t) /\ cur[w] = {t} /\ \A v \in Worker : t \in cur[v] => v = w
    BY <2>1 DEF Holding, SignalNotify
  <2>3. CASE t \in listeners
    <3>1. cur' = cur /\ pc' = [pc EXCEPT ![w] = "SigSend"]
      BY <2>1, <2>3 DEF SignalNotify, TypeOK
    <3>2. Tok(s) = t => pc[s] \in Registered
      BY <2>3, <1>a DEF ListenersOwned
    <3>3. Held(Tok(s))' <=> Held(Tok(s))
      BY <1>b, <3>1 DEF Held
    <3>4. /\ pc[w] = "SigNotify" /\ pc'[w] = "SigSend" /\ mailbox' = mailbox
          /\ \A v \in Worker : v # w => pc'[v] = pc[v]
          /\ Tok(s) # t => (Tok(s) \in listeners' <=> Tok(s) \in listeners)
      BY <2>1, <3>1 DEF SignalNotify, TypeOK
    <3>5. CASE Tok(s) = t
      BY <2>2, <3>1, <3>2, <3>4, <3>5
    <3>6. CASE Tok(s) # t
      BY <2>2, <3>1, <3>3, <3>4, <3>6 DEF Wakeup
    <3> QED BY <3>5, <3>6
  <2>4. CASE t \notin listeners
    <3>1. cur' = [cur EXCEPT ![w] = {}] /\ pc' = [pc EXCEPT ![w] = "Loop"]
          /\ listeners' = listeners /\ mailbox' = mailbox
      <4>1. listeners \ {t} = listeners
        BY <2>4
      <4> QED BY <2>1, <2>4, <4>1 DEF SignalNotify
    <3>2. Tok(s) # t /\ Held(Tok(s)) => Held(Tok(s))'
      BY <1>b, <2>2, <3>1 DEF Held, TypeOK
    <3>3. pc[s] = "WaitSelect" /\ Tok(s) \notin removed /\ Tok(s) = t => mailbox[t] # 0
      BY <2>1, <2>2, <2>4 DEF Wakeup, SignalNotify
    <3> QED BY <2>2, <2>4, <3>1, <3>2, <3>3 DEF Wakeup, TypeOK
  <2> QED BY <2>3, <2>4
<1>6. Answers' /\ Closing'
  BY <1>a, <1>b DEF Answers, AnswersAreFinal, Labels, TypeOK, QueueTypeOK, Closing
<1> QED BY <1>1, <1>2, <1>3, <1>4, <1>5, <1>6 DEF IInv

\* SignalCompleted sends the result (memory.go:178).
LEMMA SendResultPreserves ==
    ASSUME IInv, NEW w \in Worker, WorkerSendResult(w)
    PROVE  IInv'
<1> USE ThreadAssumption DEF IInv, WorkerSendResult, SignalSend
<1>a. \A s \in Request : Tok(s) \in Token /\ \A u \in Request : Tok(s) = Tok(u) => s = u
  BY TokFacts
<1>b. \A s \in Request : Tok(s)' = Tok(s)
  BY DEF Tok
<1>c. \A u : Queued(u)' <=> Queued(u)
  BY DEF Queued
<1>1. TypeOK'
  BY <1>a DEF TypeOK, QueueTypeOK
<1>2. Labels' /\ SendOrder' /\ AnswerOrder'
  BY <1>a, <1>b DEF Labels, TypeOK, QueueTypeOK, SendOrder, AnswerOrder
<1>3. Channel' /\ Holding' /\ Results' /\ Accounted'
  BY <1>c DEF Channel, TypeOK, QueueTypeOK, Holding, Done, Labels, Results, Accounted, Held
<1>4. Entries' /\ Leftovers' /\ ListenersOwned' /\ Listening'
  BY <1>a, <1>b DEF Entries, Labels, TypeOK, QueueTypeOK, Leftovers, ListenersOwned, Listening,
     Done, Holding
<1>5. Wakeup'
  <2> SUFFICES ASSUME NEW s \in Request
               PROVE  /\ pc[s] \in Looking \cup Enqueued =>
                            /\ mailbox'[Tok(s)] = 0
                            /\ \A v \in Worker : pc'[v] = "SigSend" => Tok(s) \notin cur'[v]
                      /\ pc[s] = "WaitRecheck" => Tok(s) \in listeners' \/ Done(Tok(s))
                      /\ pc[s] = "WaitSelect" /\ Tok(s) \notin removed =>
                            \/ Tok(s) \in listeners' /\ (Queued(Tok(s)) \/ Held(Tok(s))')
                            \/ \E v \in Worker : pc'[v] = "SigSend" /\ Tok(s) \in cur'[v]
                            \/ mailbox'[Tok(s)] # 0
    <3>1. \A q \in Request : pc'[q] = pc[q] /\ (Held(Tok(q))' <=> \E v \in Worker : Tok(q) \in cur'[v])
      BY <1>b DEF TypeOK, Held
    <3>2. \A q \in Request : Done(Tok(q))' <=> Done(Tok(q))
      BY <1>b DEF Done
    <3> QED BY <1>b, <1>c, <3>1, <3>2 DEF Wakeup
  <2>1. PICK t \in cur[w] : SignalSend(w, t, "Loop") /\ cur' = [cur EXCEPT ![w] = {}]
    OBVIOUS
  <2>2. /\ Done(t) /\ cur[w] = {t} /\ t \in Token
        /\ \A v \in Worker : t \in cur[v] => v = w
    BY <2>1 DEF Holding, SignalSend, TypeOK
  <2>3. mailbox'[t] # 0 /\ \A u \in Token : u # t => mailbox'[u] = mailbox[u]
    BY <2>1, <2>2 DEF Done, SignalSend, TypeOK, QueueTypeOK, IsFinished, StatusProcessing
  <2>4. Tok(s) # t /\ Held(Tok(s)) => Held(Tok(s))'
    BY <1>b, <2>1, <2>2 DEF Held, TypeOK
  <2>5. CASE Tok(s) = t
    BY <2>1, <2>2, <2>3, <2>5 DEF Wakeup, SignalSend, TypeOK
  <2>6. CASE Tok(s) # t
    BY <1>a, <2>1, <2>2, <2>3, <2>4, <2>6 DEF Wakeup, SignalSend, TypeOK
  <2> QED BY <2>5, <2>6
<1>6. Answers' /\ Closing'
  BY <1>a, <1>b DEF Answers, AnswersAreFinal, Labels, TypeOK, QueueTypeOK, Closing
<1> QED BY <1>1, <1>2, <1>3, <1>4, <1>5, <1>6 DEF IInv

\* The callback goroutine ends (worker.go:180).
LEMMA CallbackPreserves ==
    ASSUME IInv, NEW t \in Token, SendCallback(t)
    PROVE  IInv'
<1> USE ThreadAssumption DEF IInv, SendCallback
<1>a. \A s \in Request : Tok(s) \in Token /\ \A u \in Request : Tok(s) = Tok(u) => s = u
  BY TokFacts
<1>b. \A s \in Request : Tok(s)' = Tok(s)
  BY DEF Tok
<1>c. \A u : Queued(u)' <=> Queued(u)
  BY DEF Queued
<1>1. TypeOK'
  BY <1>a DEF TypeOK, QueueTypeOK
<1>2. Labels' /\ SendOrder' /\ AnswerOrder'
  BY <1>a, <1>b DEF Labels, TypeOK, QueueTypeOK, SendOrder, AnswerOrder
<1>3. Channel' /\ Holding' /\ Results' /\ Accounted'
  BY <1>c DEF Channel, TypeOK, QueueTypeOK, Holding, Done, Labels, Results, Accounted, Held
<1>4. Entries' /\ Leftovers' /\ ListenersOwned' /\ Listening'
  BY <1>a, <1>b DEF Entries, Labels, TypeOK, QueueTypeOK, Leftovers, ListenersOwned, Listening,
     Done
<1>5. Wakeup'
  BY <1>a, <1>b, <1>c DEF Wakeup, Held, Done, Labels, TypeOK, QueueTypeOK
<1>6. Answers' /\ Closing'
  BY <1>a, <1>b DEF Answers, AnswersAreFinal, Labels, TypeOK, QueueTypeOK, Closing
<1> QED BY <1>1, <1>2, <1>3, <1>4, <1>5, <1>6 DEF IInv

\* DeleteSubmission or cleanupExpired removes an entry (memory.go:80, 140).
LEMMA RemovePreserves ==
    ASSUME IInv, NEW t \in Token, RemoveEntry(t), removed' = removed \cup {t},
           UNCHANGED <<requestVars, cur, callback, phase, sent>>
    PROVE  IInv'
<1> USE ThreadAssumption DEF IInv, RemoveEntry
<1>a. \A s \in Request : Tok(s) \in Token /\ \A u \in Request : Tok(s) = Tok(u) => s = u
  BY TokFacts
<1>b. \A s \in Request : Tok(s)' = Tok(s)
  BY DEF Tok
<1>c. \A u : Queued(u)' <=> Queued(u)
  BY DEF Queued
<1>1. TypeOK'
  BY <1>a DEF TypeOK, QueueTypeOK
<1>2. Labels' /\ SendOrder' /\ AnswerOrder'
  <2>1. Labels'
    BY DEF Labels, TypeOK, QueueTypeOK
  <2>2. SendOrder'
    BY DEF SendOrder, Labels, TypeOK, QueueTypeOK
  <2>3. AnswerOrder'
    BY <1>a, <1>b DEF AnswerOrder, Labels, TypeOK, QueueTypeOK
  <2> QED BY <2>1, <2>2, <2>3
<1>3. Channel' /\ Holding' /\ Results' /\ Accounted'
  BY <1>c DEF Channel, TypeOK, QueueTypeOK, Holding, Done, Labels, Results, Accounted, Held
<1>4. Entries' /\ Leftovers' /\ ListenersOwned' /\ Listening'
  BY <1>a, <1>b DEF Entries, Labels, TypeOK, QueueTypeOK, Leftovers, ListenersOwned, Listening,
     Done
<1>5. Wakeup'
  BY <1>a, <1>b, <1>c DEF Wakeup, Held, Done, Labels, TypeOK, QueueTypeOK
<1>6. Answers' /\ Closing'
  BY <1>a, <1>b DEF Answers, AnswersAreFinal, Labels, TypeOK, QueueTypeOK, Closing
<1> QED BY <1>1, <1>2, <1>3, <1>4, <1>5, <1>6 DEF IInv

\* Close, after the workers have exited (server.go:64, 68).
LEMMA ClosePreserves ==
    ASSUME IInv, CloseQueue
    PROVE  IInv'
<1> USE ThreadAssumption DEF IInv, CloseQueue, Close
<1>a. \A s \in Request : Tok(s) \in Token /\ \A u \in Request : Tok(s) = Tok(u) => s = u
  BY TokFacts
<1>b. \A s \in Request : Tok(s)' = Tok(s)
  BY DEF Tok
<1>c. \A u : Queued(u)' <=> Queued(u)
  BY DEF Queued
<1>1. TypeOK'
  BY <1>a DEF TypeOK, QueueTypeOK
<1>2. Labels' /\ SendOrder' /\ AnswerOrder'
  BY <1>a, <1>b DEF Labels, TypeOK, QueueTypeOK, SendOrder, AnswerOrder
<1>3. Channel' /\ Holding' /\ Results' /\ Accounted'
  BY <1>c DEF Channel, TypeOK, QueueTypeOK, Holding, Done, Labels, Results, Accounted, Held
<1>4. Entries' /\ Leftovers' /\ ListenersOwned' /\ Listening'
  BY <1>a, <1>b DEF Entries, Labels, TypeOK, QueueTypeOK, Leftovers, ListenersOwned, Listening,
     Done
<1>5. Wakeup'
  BY <1>a, <1>b, <1>c DEF Wakeup, Held, Done, Labels, TypeOK, QueueTypeOK
<1>6. Answers' /\ Closing'
  BY <1>a, <1>b DEF Answers, AnswersAreFinal, Labels, TypeOK, QueueTypeOK, Closing
<1> QED BY <1>1, <1>2, <1>3, <1>4, <1>5, <1>6 DEF IInv

\* A disconnecting client, or a step of the shutdown that leaves the queue alone.
LEMMA PhasePreserves ==
    ASSUME IInv, gone' \subseteq Request,
           phase' \in {"serving", "draining", "stopping", "closed", "exited"},
           closed <=> phase' \in {"closed", "exited"},
           UNCHANGED <<queueVars, idx, reply, answer, cur, callback, sent, removed>>
    PROVE  IInv'
<1> USE ThreadAssumption DEF IInv, TypeOK
<1>a. \A s \in Request : Tok(s) \in Token /\ \A u \in Request : Tok(s) = Tok(u) => s = u
  BY TokFacts
<1>b. \A s \in Request : Tok(s)' = Tok(s)
  BY DEF Tok
<1>c. \A u : Queued(u)' <=> Queued(u)
  BY DEF Queued
<1>1. TypeOK'
  BY <1>a DEF TypeOK, QueueTypeOK
<1>2. Labels' /\ SendOrder' /\ AnswerOrder'
  BY <1>a, <1>b DEF Labels, TypeOK, QueueTypeOK, SendOrder, AnswerOrder
<1>3. Channel' /\ Holding' /\ Results' /\ Accounted'
  BY <1>c DEF Channel, TypeOK, QueueTypeOK, Holding, Done, Labels, Results, Accounted, Held
<1>4. Entries' /\ Leftovers' /\ ListenersOwned' /\ Listening'
  BY <1>a, <1>b DEF Entries, Labels, TypeOK, QueueTypeOK, Leftovers, ListenersOwned, Listening,
     Done
<1>5. Wakeup'
  BY <1>a, <1>b, <1>c DEF Wakeup, Held, Done, Labels, TypeOK, QueueTypeOK
<1>6. Answers' /\ Closing'
  BY <1>a, <1>b DEF Answers, AnswersAreFinal, Labels, TypeOK, QueueTypeOK, Closing
<1> QED BY <1>1, <1>2, <1>3, <1>4, <1>5, <1>6 DEF IInv

\* Goroutine p moves to b within a group of labels that IInv does not tell
\* apart, and touches counters and gauges only.
Quiet(p, b) ==
    /\ pc' = [pc EXCEPT ![p] = b]
    /\ \/ {pc[p], b} \subseteq {"Idle", "Build", "Enqueue"}
       \/ {pc[p], b} \subseteq Enqueued
       \/ {pc[p], b} \subseteq Looking
       \/ pc[p] # "Exited" /\ {pc[p], b} \subseteq Free
       \/ {pc[p], b} \subseteq Taken
       \/ {pc[p], b} \subseteq Judged
    /\ UNCHANGED <<content, signals, engineVars>>
    /\ inQueue' \in Int /\ processing' \in Int /\ completed' \in Int /\ failed' \in Int
    /\ queueSize' \in Int /\ queueProcessing' \in Int /\ reg' \in [Thread -> Int]

\* A step that moves a counter, a gauge or nothing but the goroutine.
LEMMA QuietPreserves ==
    ASSUME IInv, NEW p \in Thread, NEW b, Quiet(p, b)
    PROVE  IInv'
<1> USE ThreadAssumption DEF IInv
<1>a. \A s \in Request : Tok(s) \in Token /\ \A u \in Request : Tok(s) = Tok(u) => s = u
  BY TokFacts
<1>u. UNCHANGED <<content, signals, engineVars>>
  BY DEF Quiet
<1>b. \A s \in Request : Tok(s)' = Tok(s)
  BY <1>u DEF Tok
<1>c. \A u : Queued(u)' <=> Queued(u)
  BY <1>u DEF Queued
<1>1. TypeOK'
  BY <1>a DEF TypeOK, QueueTypeOK, Quiet
<1>2. Labels'
  BY DEF Labels, TypeOK, QueueTypeOK, Quiet
<1>d. \A q \in Thread :
        /\ pc'[q] \in BeforeSend <=> pc[q] \in BeforeSend
        /\ pc'[q] \in Enqueued <=> pc[q] \in Enqueued
        /\ pc'[q] \in Looking <=> pc[q] \in Looking
        /\ pc'[q] \in Waiting <=> pc[q] \in Waiting
        /\ pc'[q] \in Free <=> pc[q] \in Free
        /\ pc'[q] \in Taken <=> pc[q] \in Taken
        /\ pc'[q] \in Judged <=> pc[q] \in Judged
        /\ pc'[q] \in Signalled <=> pc[q] \in Signalled
  <2>1. ASSUME NEW q \in Thread, q # p PROVE pc'[q] = pc[q]
    BY <2>1 DEF TypeOK, Quiet
  <2>2. pc'[p] = b
    BY DEF TypeOK, Quiet
  <2>3. /\ b \in BeforeSend <=> pc[p] \in BeforeSend
        /\ b \in Enqueued <=> pc[p] \in Enqueued
        /\ b \in Looking <=> pc[p] \in Looking
        /\ b \in Waiting <=> pc[p] \in Waiting
    BY DEF Quiet
  <2>4. /\ b \in Free <=> pc[p] \in Free
        /\ b \in Taken <=> pc[p] \in Taken
        /\ b \in Judged <=> pc[p] \in Judged
        /\ b \in Signalled <=> pc[p] \in Signalled
    BY DEF Quiet
  <2> HIDE DEF BeforeSend, Enqueued, Looking, Waiting, Free, Taken, Judged, Signalled
  <2> QED BY <2>1, <2>2, <2>3, <2>4
<1>e. \A q \in Thread :
        /\ pc'[q] = "EnqSend" <=> pc[q] = "EnqSend"
        /\ pc'[q] = "WaitRecheck" <=> pc[q] = "WaitRecheck"
        /\ pc'[q] = "WaitUnregister" <=> pc[q] = "WaitUnregister"
        /\ pc'[q] = "WaitSelect" <=> pc[q] = "WaitSelect"
        /\ pc'[q] = "Execute" <=> pc[q] = "Execute"
        /\ pc'[q] = "SigSend" <=> pc[q] = "SigSend"
        /\ pc[q] = "Exited" => pc'[q] = "Exited"
  BY DEF TypeOK, QueueTypeOK, Quiet
<1>t. \A q : q \in Request \/ q \in Worker => q \in Thread
  OBVIOUS
<1> HIDE DEF Thread, BeforeSend, Enqueued, Looking, Waiting, Free, Taken, Judged, Signalled,
             HandlerLabel, WorkerLabel, Status, Reply
<1>3. SendOrder'
  BY <1>d, <1>t, <1>u DEF SendOrder
<1>4. AnswerOrder'
  BY <1>b, <1>d, <1>t, <1>u DEF AnswerOrder
<1>5. Channel'
  BY <1>c, <1>u DEF Channel
<1>6. Holding'
  BY <1>c, <1>d, <1>e, <1>t, <1>u DEF Holding, Done
<1>7. Results'
  BY <1>u DEF Results, Done
<1>8. Accounted'
  BY <1>c, <1>u DEF Accounted, Held, Done
<1>9. Entries'
  BY <1>b, <1>e, <1>t, <1>u DEF Entries
<1>10. Leftovers'
  BY <1>b, <1>e, <1>t, <1>u DEF Leftovers
<1>11. ListenersOwned'
  BY <1>b, <1>e, <1>t, <1>u DEF ListenersOwned
<1>12. Listening'
  BY <1>e, <1>t, <1>u DEF Listening, Done
<1>13. Wakeup'
  BY <1>a, <1>b, <1>c, <1>d, <1>e, <1>t, <1>u DEF Wakeup, Held, Done
<1>14. Answers' /\ Closing'
  BY <1>b, <1>e, <1>t, <1>u DEF Answers, AnswersAreFinal, Closing
<1> QED BY <1>1, <1>2, <1>3, <1>4, <1>5, <1>6, <1>7, <1>8, <1>9, <1>10, <1>11, <1>12, <1>13, <1>14 DEF IInv

\* IInv holds when the server starts.
LEMMA InitIInv == Init => IInv
<1> SUFFICES ASSUME Init PROVE IInv
  OBVIOUS
<1> USE ThreadAssumption DEF Init, QueueInit
<1>a. \A r \in Request : Tok(r) \in Token
  BY JobsAssumption DEF Tok
<1>b. \A u : ~Queued(u)
  BY DEF Queued
<1>1. TypeOK
  <2>1. QueueTypeOK
    <3>1. jobs \in Seq(Token)
      OBVIOUS
    <3>2. /\ status \in [Token -> Status] /\ store \in [Token -> {"none", "job", "snapshot"}]
          /\ snap \in [Token -> Status \cup {0}] /\ mailbox \in [Token -> Status \cup {0}]
      BY DEF StatusInQueue
    <3>3. reg \in [Thread -> Int]
      OBVIOUS
    <3>4. closed \in BOOLEAN /\ listeners \subseteq Token
      OBVIOUS
    <3>5. /\ inQueue \in Int /\ processing \in Int /\ completed \in Int /\ failed \in Int
          /\ queueSize \in Int /\ queueProcessing \in Int
      OBVIOUS
    <3> QED BY <3>1, <3>2, <3>3, <3>4, <3>5, Zenon DEF QueueTypeOK
  <2>2. \A r \in Request : idx[r] \in 1 .. Len(Jobs[r])
    BY JobsAssumption
  <2>3. pc \in [Thread -> HandlerLabel \cup WorkerLabel]
    OBVIOUS
  <2> QED BY <2>1, <2>2, <2>3 DEF TypeOK
<1>2. Labels /\ SendOrder /\ AnswerOrder
  BY DEF Labels, SendOrder, AnswerOrder
<1>3. Channel /\ Holding /\ Results /\ Accounted
  BY <1>b DEF Channel, Holding, Results, Accounted
<1>4. Entries /\ Leftovers /\ ListenersOwned /\ Listening
  BY <1>a DEF Entries, Leftovers, ListenersOwned, Listening
<1>5. Wakeup /\ Answers /\ Closing
  BY <1>a DEF Wakeup, Answers, AnswersAreFinal, Closing
<1> QED BY <1>1, <1>2, <1>3, <1>4, <1>5 DEF IInv

\* Every step of a handler and of its client preserves IInv.
LEMMA HandlerIInv ==
    ASSUME IInv, NEW r \in Request, Receive(r) \/ Handler(r) \/ HandlerTimeout(r) \/ ClientGone(r)
    PROVE  IInv'
<1>t. TypeOK
  BY DEF IInv
<1>1. CASE Receive(r)
  <2>1. Quiet(r, "Build")
    BY <1>1, <1>t DEF Quiet, Receive, TypeOK, QueueTypeOK
  <2> QED BY <2>1, QuietPreserves
<1>2. CASE BuildJobs(r)
  <2>1. Quiet(r, "Enqueue")
    BY <1>2, <1>t DEF Quiet, BuildJobs, TypeOK, QueueTypeOK
  <2> QED BY <2>1, QuietPreserves
<1>3. CASE HandlerCount(r)
  <2>1. Quiet(r, "EnqLoad")
    BY <1>3, <1>t DEF Quiet, HandlerCount, EnqueueCount, TypeOK, QueueTypeOK
  <2> QED BY <2>1, QuietPreserves
<1>4. CASE HandlerLoad(r)
  <2>1. Quiet(r, "EnqGauge")
    BY <1>4, <1>t DEF Quiet, HandlerLoad, EnqueueLoad, TypeOK, QueueTypeOK
  <2> QED BY <2>1, QuietPreserves
<1>5. CASE HandlerPending(r)
  <2>1. Quiet(r, "WaitRegister")
    BY <1>5, <1>t DEF Quiet, HandlerPending, WaitCheckPending, TypeOK, QueueTypeOK
  <2> QED BY <2>1, QuietPreserves
<1>6. CASE ClientGone(r)
  BY <1>6, <1>t, PhasePreserves DEF ClientGone, IInv, Closing, TypeOK
<1>7. CASE RejectRequest(r) \/ HandlerStore(r) \/ HandlerSend(r) \/ HandlerRefused(r)
           \/ HandlerNextJob(r) \/ HandlerAwaits(r) \/ HandlerTokens(r)
  BY <1>7, RejectPreserves, StorePreserves, SendPreserves, RefusedPreserves,
     NextJobPreserves, AwaitsPreserves, TokensPreserves
<1>8. CASE HandlerReady(r) \/ HandlerRegister(r) \/ HandlerRecheckFinished(r)
           \/ HandlerRecheckPending(r) \/ HandlerUnregister(r) \/ HandlerSignalled(r)
  BY <1>8, ReadyPreserves, RegisterPreserves, RecheckFinishedPreserves,
     RecheckPendingPreserves, UnregisterPreserves, SignalledPreserves
<1>9. CASE HandlerTimeout(r) \/ HandlerLastLook(r) \/ HandlerAbandoned(r)
  BY <1>9, TimeoutPreserves, LastLookPreserves, AbandonedPreserves
<1> QED BY <1>1, <1>2, <1>3, <1>4, <1>5, <1>6, <1>7, <1>8, <1>9 DEF Handler

\* Every step of a worker preserves IInv.
LEMMA WorkerIInv ==
    ASSUME IInv, NEW w \in Worker, RunWorker(w)
    PROVE  IInv'
<1>t. TypeOK /\ cur[w] \subseteq Token
  BY DEF IInv, TypeOK
<1>1. CASE WorkerLoop(w) \/ WorkerCancelled(w)
  <2>1. Quiet(w, "Exited") \/ Quiet(w, "Dequeue")
    BY <1>1, <1>t DEF Quiet, WorkerLoop, WorkerCancelled, TypeOK, QueueTypeOK
  <2> QED BY <2>1, QuietPreserves
<1>2. CASE WorkerReceive(w)
  BY <1>2, ReceivePreserves
<1>3. CASE WorkerDequeueSteps(w)
  <2>1. CASE DequeueCount(w)
    <3>1. Quiet(w, "DeqProcessing")
      BY <1>3, <2>1, <1>t DEF Quiet, WorkerDequeueSteps, DequeueCount, TypeOK, QueueTypeOK
    <3> QED BY <3>1, QuietPreserves
  <2>2. CASE DequeueProcessing(w)
    <3>1. Quiet(w, "DeqLoadSize")
      BY <1>3, <2>2, <1>t DEF Quiet, WorkerDequeueSteps, DequeueProcessing, TypeOK, QueueTypeOK
    <3> QED BY <3>1, QuietPreserves
  <2>3. CASE DequeueLoadSize(w)
    <3>1. Quiet(w, "DeqGaugeSize")
      BY <1>3, <2>3, <1>t DEF Quiet, WorkerDequeueSteps, DequeueLoadSize, TypeOK, QueueTypeOK
    <3> QED BY <3>1, QuietPreserves
  <2>4. CASE DequeueGaugeSize(w)
    <3>1. Quiet(w, "DeqLoadProc")
      BY <1>3, <2>4, <1>t DEF Quiet, WorkerDequeueSteps, DequeueGaugeSize, TypeOK, QueueTypeOK
    <3> QED BY <3>1, QuietPreserves
  <2>5. CASE DequeueLoadProcessing(w)
    <3>1. Quiet(w, "DeqGaugeProc")
      BY <1>3, <2>5, <1>t DEF Quiet, WorkerDequeueSteps, DequeueLoadProcessing, TypeOK, QueueTypeOK
    <3> QED BY <3>1, QuietPreserves
  <2>6. CASE DequeueGaugeProcessing(w, "Start")
    <3>1. Quiet(w, "Start")
      BY <1>3, <2>6, <1>t DEF Quiet, WorkerDequeueSteps, DequeueGaugeProcessing, TypeOK, QueueTypeOK
    <3> QED BY <3>1, QuietPreserves
  <2> QED BY <1>3, <2>1, <2>2, <2>3, <2>4, <2>5, <2>6 DEF WorkerDequeueSteps
<1>4. CASE StartJob(w)
  BY <1>4, StartPreserves
<1>5. CASE ScanRejects(w)
  BY <1>5, VerdictPreserves
  DEF ScanRejects, StatusCompilationError, IsFinished, StatusProcessing
<1>6. CASE ExecuteFails(w)
  BY <1>6, VerdictPreserves DEF ExecuteFails, StatusInternalError, IsFinished, StatusProcessing
<1>7. CASE ExecuteReturns(w)
  <2>1. PICK t \in cur[w], v \in Verdicts :
            SetVerdict(w, t, v) \/ SetVerdict(w, t, StatusWrongAnswer)
    BY <1>7 DEF ExecuteReturns
  <2>2. /\ v \in Status /\ IsFinished(v)
        /\ StatusWrongAnswer \in Status /\ IsFinished(StatusWrongAnswer)
    BY VerdictsAssumption DEF StatusWrongAnswer, IsFinished, StatusProcessing
  <2> QED BY <2>1, <2>2, VerdictPreserves
<1>8. CASE FinalizeJob(w)
  BY <1>8, FinalizePreserves
<1>9. CASE WorkerSignalSteps(w)
  <2>1. PICK t \in cur[w] : \/ SignalProcessing(w) \/ SignalCount(w, t)
                            \/ SignalLoad(w) \/ SignalGauge(w) \/ SignalStore(w, t)
    BY <1>9 DEF WorkerSignalSteps
  <2>2. UNCHANGED engineVars
    BY <1>9 DEF WorkerSignalSteps
  <2>3. CASE SignalProcessing(w)
    <3>1. Quiet(w, "SigCount")
      BY <2>2, <2>3, <1>t DEF Quiet, SignalProcessing, TypeOK, QueueTypeOK
    <3> QED BY <3>1, QuietPreserves
  <2>4. CASE SignalCount(w, t)
    <3>1. Quiet(w, "SigLoad")
      BY <2>2, <2>4, <1>t DEF Quiet, SignalCount, TypeOK, QueueTypeOK
    <3> QED BY <3>1, QuietPreserves
  <2>5. CASE SignalLoad(w)
    <3>1. Quiet(w, "SigGauge")
      BY <2>2, <2>5, <1>t DEF Quiet, SignalLoad, TypeOK, QueueTypeOK
    <3> QED BY <3>1, QuietPreserves
  <2>6. CASE SignalGauge(w)
    <3>1. Quiet(w, "SigStore")
      BY <2>2, <2>6, <1>t DEF Quiet, SignalGauge, TypeOK, QueueTypeOK
    <3> QED BY <3>1, QuietPreserves
  <2>7. CASE SignalStore(w, t)
    BY <2>2, <2>7, SnapshotPreserves
  <2> QED BY <2>1, <2>3, <2>4, <2>5, <2>6, <2>7
<1>10. CASE WorkerNotify(w) \/ WorkerSendResult(w)
  BY <1>10, NotifyPreserves, SendResultPreserves
<1> QED BY <1>1, <1>2, <1>3, <1>4, <1>5, <1>6, <1>7, <1>8, <1>9, <1>10 DEF RunWorker

\* IInv is inductive.
LEMMA NextIInv == IInv /\ [Next]_vars => IInv'
<1> SUFFICES ASSUME IInv, [Next]_vars PROVE IInv'
  OBVIOUS
<1>1. ASSUME NEW r \in Request, Receive(r) \/ Handler(r) \/ HandlerTimeout(r) \/ ClientGone(r)
      PROVE  IInv'
  BY <1>1, HandlerIInv
<1>2. ASSUME NEW w \in Worker, RunWorker(w) PROVE IInv'
  BY <1>2, WorkerIInv
<1>3. ASSUME NEW t \in Token, SendCallback(t) PROVE IInv'
  BY <1>3, CallbackPreserves
<1>4. ASSUME NEW t \in Token, DeleteSubmission(t) \/ Cleanup(t) PROVE IInv'
  BY <1>4, RemovePreserves DEF DeleteSubmission, Cleanup, CleanupExpired
<1>5. CASE SigTerm \/ ShutdownReturns \/ ProcessExit
  BY <1>5, PhasePreserves DEF SigTerm, ShutdownReturns, ProcessExit, IInv, Closing, TypeOK
<1>6. CASE CloseQueue
  BY <1>6, ClosePreserves
<1>7. CASE UNCHANGED vars
  BY <1>7, PhasePreserves DEF vars, IInv, Closing, TypeOK
<1> QED BY <1>1, <1>2, <1>3, <1>4, <1>5, <1>6, <1>7 DEF Next, Terminated

\* IInv holds in every reachable state of the process.
THEOREM Invariance == Spec => []IInv
<1>1. Init => IInv
  BY InitIInv
<1>2. IInv /\ [Next]_vars => IInv'
  BY NextIInv
<1> QED BY <1>1, <1>2, PTL DEF Spec

\* Type correctness of the engine.
THEOREM TypeCorrect == Spec => []TypeOK
<1>1. IInv => TypeOK
  BY DEF IInv
<1> QED BY <1>1, Invariance, PTL

\* No job that entered the channel is lost, doubled or run by two workers,
\* for any number of handlers and workers and any buffer (memory.go:98, 111).
THEOREM ExactlyOnceHolds == Spec => []ExactlyOnce
<1>1. IInv => ExactlyOnce
  BY DEF IInv, ExactlyOnce, Channel, Holding, Accounted
<1> QED BY <1>1, Invariance, PTL

\* A positive answer covers every job of the request (submissions.go:46, 48, 112).
THEOREM AcknowledgedHolds == Spec => []AcknowledgedWasSent
<1>1. IInv => AcknowledgedWasSent
  <2> SUFFICES ASSUME IInv, NEW r \in Request, reply[r] \notin {"none", "invalid", "refused"},
                      NEW i \in 1 .. Len(Jobs[r])
               PROVE  Jobs[r][i] \in sent
    BY DEF AcknowledgedWasSent
  <2>1. idx[r] = Len(Jobs[r]) /\ Jobs[r][idx[r]] \in sent
    BY DEF IInv, AnswerOrder, Tok
  <2>2. i < idx[r] \/ i = idx[r]
    BY <2>1, JobsAssumption
  <2> QED BY <2>1, <2>2 DEF IInv, SendOrder
<1> QED BY <1>1, Invariance, PTL

\* WaitForResult and SignalCompleted never miss each other: a handler that
\* blocks on a finished job has its result in the channel (memory.go:173-181, 191-202).
THEOREM NoLostWakeupHolds == Spec => []NoLostWakeup
<1>1. IInv => NoLostWakeup
  <2> SUFFICES ASSUME IInv, NEW r \in Request, pc[r] = "WaitSelect", Tok(r) \notin removed,
                      IsFinished(status[Tok(r)]), ~Held(Tok(r))
               PROVE  mailbox[Tok(r)] # 0
    BY DEF NoLostWakeup
  <2>1. Tok(r) \in Token
    BY TokFacts DEF IInv
  <2>2. ~Queued(Tok(r))
    BY <2>1 DEF IInv, Channel, IsFinished, StatusInQueue, StatusProcessing
  <2>3. ~\E w \in Worker : Tok(r) \in cur[w]
    BY DEF Held
  <2> QED BY <2>2, <2>3 DEF IInv, Wakeup
<1> QED BY <1>1, Invariance, PTL

\* What ?wait=true answers before its timer is the final verdict, and no
\* listener outlives its handler (memory.go:185-211).
THEOREM AnswersHold == Spec => [](AnswersAreFinal /\ ListenersOwned)
<1>1. IInv => AnswersAreFinal /\ ListenersOwned
  BY DEF IInv, Answers
<1> QED BY <1>1, Invariance, PTL

\* Who is told of a result by the callback finds it with GET (worker.go:166-170).
THEOREM CallbackHolds == Spec => []CallbackSeesResult
<1>1. IInv => CallbackSeesResult
  <2> SUFFICES ASSUME IInv, NEW t \in Token \ removed, callback[t] # "none"
               PROVE  IsFinished(Seen(t)) /\ Seen(t) = status[t]
    BY DEF CallbackSeesResult
  <2>1. IsFinished(status[t])
    BY DEF IInv, Results
  <2>2. t \in sent
    BY <2>1 DEF IInv, Results, IsFinished, StatusInQueue, StatusProcessing
  <2>3. store[t] \in {"job", "snapshot"}
    BY <2>2 DEF IInv, Entries, TypeOK, QueueTypeOK
  <2> QED BY <2>1, <2>3 DEF IInv, Results, Done, Seen
<1> QED BY <1>1, Invariance, PTL

\* A submission shown as unfinished is under way or was refused
\* (memory.go:95, worker.go:93).
THEOREM InFlightHolds == Spec => []UnfinishedIsInFlight
<1>1. IInv => UnfinishedIsInFlight
  <2> SUFFICES ASSUME IInv, NEW t \in Token, Seen(t) # 0, ~IsFinished(Seen(t))
               PROVE  \/ Queued(t) \/ Held(t)
                      \/ \E r \in Request : Tok(r) = t /\ (pc[r] = "EnqSend" \/ reply[r] = "refused")
    BY DEF UnfinishedIsInFlight
  <2>1. store[t] # "none" /\ ~IsFinished(status[t])
    BY SeenIsStatus DEF Seen
  <2>2. CASE t \in sent
    BY <2>1, <2>2 DEF IInv, Accounted, Done
  <2>3. CASE t \notin sent
    BY <2>1, <2>3 DEF IInv, Leftovers
  <2> QED BY <2>2, <2>3
<1> QED BY <1>1, Invariance, PTL

\* The queue closes only over jobs that never started (server.go:64, 68).
THEOREM StartedHolds == Spec => []StartedIsFinished
<1>1. IInv => StartedIsFinished
  <2> SUFFICES ASSUME IInv, closed PROVE \A t \in sent : Queued(t) \/ Done(t)
    BY DEF StartedIsFinished
  <2>1. \A w \in Worker : cur[w] = {}
    BY DEF IInv, Closing, Holding
  <2> QED BY <2>1 DEF IInv, Accounted, Held
<1> QED BY <1>1, Invariance, PTL

\* A step of the engine moves the status of a job only forward, and never
\* changes a verdict.
LEMMA StatusMoves ==
    ASSUME IInv, [Next]_vars, NEW t \in Token
    PROVE  /\ Stage(status[t]) <= Stage(status'[t])
           /\ IsFinished(status[t]) => status'[t] = status[t]
<1> USE DEF Stage, IsFinished, StatusProcessing, StatusInQueue
<1>t. status \in [Token -> Status] /\ status[t] \in Int
  BY DEF IInv, TypeOK, QueueTypeOK
<1>0. CASE status' = status
  BY <1>0, <1>t
<1>1. ASSUME NEW r \in Request, HandlerStore(r)
      PROVE  status' = status
  <2>1. Tok(r) \in Token \ sent
    BY <1>1, TokFacts DEF IInv, SendOrder, Tok, HandlerStore, EnqueueStore
  <2> QED BY <1>1, <1>t, <2>1 DEF IInv, Results, HandlerStore, EnqueueStore
<1>2. ASSUME NEW w \in Worker, StartJob(w)
      PROVE  \E u \in cur[w] : status[u] = StatusInQueue /\ status' = [status EXCEPT ![u] = StatusProcessing]
  BY <1>2 DEF StartJob, IInv, Holding
<1>3. ASSUME NEW w \in Worker, NEW u \in cur[w], NEW v \in Status, IsFinished(v), SetVerdict(w, u, v)
      PROVE  status[u] = StatusProcessing /\ status' = [status EXCEPT ![u] = v]
  BY <1>3 DEF SetVerdict, IInv, Holding
<1>4. ASSUME NEW w \in Worker, ScanRejects(w) \/ ExecuteFails(w) \/ ExecuteReturns(w)
      PROVE  \E u \in cur[w], v \in Status : IsFinished(v) /\ SetVerdict(w, u, v)
  BY <1>4, VerdictsAssumption
  DEF ScanRejects, ExecuteFails, ExecuteReturns, StatusCompilationError,
      StatusInternalError, StatusWrongAnswer
<1>5. \/ status' = status
      \/ \E r \in Request : HandlerStore(r)
      \/ \E w \in Worker : StartJob(w) \/ ScanRejects(w) \/ ExecuteFails(w) \/ ExecuteReturns(w)
  <2>1. ASSUME NEW r \in Request, Receive(r) \/ Handler(r) \/ HandlerTimeout(r) \/ ClientGone(r)
        PROVE  HandlerStore(r) \/ status' = status
    BY <2>1 DEF Handler, Receive, RejectRequest, BuildJobs, HandlerSend, EnqueueSend,
       HandlerRefused, EnqueueRefused, HandlerCount, EnqueueCount, HandlerLoad, EnqueueLoad,
       HandlerNextJob, HandlerAwaits, HandlerTokens, EnqueueGauge, HandlerReady,
       WaitCheckFinished, HandlerPending, WaitCheckPending, HandlerRegister, WaitRegister,
       HandlerRecheckFinished, WaitRecheckFinished, HandlerRecheckPending, WaitRecheckPending,
       HandlerUnregister, WaitUnregister, HandlerSignalled, WaitReceive, HandlerTimeout,
       HandlerAbandoned, WaitGiveUp, HandlerLastLook, WaitLastLook, ClientGone
  <2>2. ASSUME NEW w \in Worker, RunWorker(w)
        PROVE  StartJob(w) \/ ScanRejects(w) \/ ExecuteFails(w) \/ ExecuteReturns(w) \/ status' = status
    BY <2>2 DEF RunWorker, WorkerLoop, WorkerCancelled, WorkerReceive, DequeueReceive,
       WorkerDequeueSteps, DequeueCount, DequeueProcessing, DequeueLoadSize, DequeueGaugeSize,
       DequeueLoadProcessing, DequeueGaugeProcessing, FinalizeJob, WorkerSignalSteps,
       SignalProcessing, SignalCount, SignalLoad, SignalGauge, SignalStore, WorkerNotify,
       SignalNotify, WorkerSendResult, SignalSend
  <2>3. ASSUME NEW u \in Token, SendCallback(u) \/ DeleteSubmission(u) \/ Cleanup(u)
        PROVE  status' = status
    BY <2>3 DEF SendCallback, DeleteSubmission, Cleanup, CleanupExpired, RemoveEntry
  <2>4. CASE SigTerm \/ ShutdownReturns \/ CloseQueue \/ ProcessExit \/ UNCHANGED vars
    BY <2>4 DEF SigTerm, ShutdownReturns, CloseQueue, Close, ProcessExit, vars
  <2> QED BY <2>1, <2>2, <2>3, <2>4 DEF Next, Terminated
<1> QED BY <1>t, <1>0, <1>1, <1>2, <1>3, <1>4, <1>5

\* What a reader sees of a submission only moves forward, and a verdict once
\* seen stays (queue.go:63, memory.go:172, worker.go:92, 129).
THEOREM FinalIsFinalHolds == Spec => FinalIsFinal
<1>1. ASSUME IInv, IInv', [Next]_vars, NEW t \in Token, Seen(t) # 0, Seen(t)' # 0
      PROVE  /\ Stage(Seen(t)) <= Stage(Seen(t)')
             /\ IsFinished(Seen(t)) => Seen(t)' = Seen(t)
  <2>1. Seen(t) = status[t]
    BY <1>1, SeenIsStatus
  <2>2. Seen(t)' = status'[t]
    BY <1>1 DEF IInv, TypeOK, QueueTypeOK, Results, Done, Seen
  <2> QED BY <1>1, <2>1, <2>2, StatusMoves
<1>2. IInv /\ IInv' /\ [Next]_vars =>
        [\A t \in Token : Seen(t) # 0 /\ Seen(t)' # 0 =>
            /\ Stage(Seen(t)) <= Stage(Seen(t)')
            /\ IsFinished(Seen(t)) => Seen(t)' = Seen(t)]_vars
  BY <1>1
<1> QED BY <1>2, Invariance, PTL DEF Spec, FinalIsFinal

-----------------------------------------------------------------------------
(* The counters of GetStats: a goroutine that moves between two places changes the
   number of goroutines there by one, and IInv says which jobs it sends, takes and
   judges. *)

\* The places StatsExact counts goroutines at, and the finished jobs.
Busy    == {"DeqLoadSize", "DeqGaugeSize", "DeqLoadProc", "DeqGaugeProc", "Start", "Execute",
            "Finalize", "SigProcessing"}
Ending  == {"Finalize", "SigProcessing", "SigCount"}
Settled == {t \in sent : IsFinished(status[t])}

\* Whether e is one of the elements of S, as a number.
In(e, S) == IF e \in S THEN 1 ELSE 0

\* StatsExact, with the fact that keeps its sets finite.
Exact ==
    /\ inQueue = Len(jobs) - Cardinality(Handlers({"EnqCount"})) + Cardinality(Workers({"DeqCount"}))
    /\ processing = Cardinality(Workers(Busy))
    /\ completed + failed = Cardinality(Settled) - Cardinality(Workers(Ending))
    /\ IsFiniteSet(sent)

\* Sets that differ in x at most: the counters move by one (memory.go:99, 116).
LEMMA JoinOrLeave ==
    ASSUME NEW S, NEW T, NEW x, IsFiniteSet(S), T \ {x} = S \ {x}
    PROVE  /\ IsFiniteSet(T) /\ Cardinality(S) \in Nat /\ Cardinality(T) \in Nat
           /\ Cardinality(T) = Cardinality(S) + In(x, T) - In(x, S)
<1>1. /\ IsFiniteSet(S \ {x})
      /\ Cardinality(S \ {x}) = IF x \in S THEN Cardinality(S) - 1 ELSE Cardinality(S)
  BY FS_RemoveElement
<1>2. Cardinality(S) \in Nat
  BY FS_CardinalityType
<1>3. CASE x \in T
  <2>1. T = (S \ {x}) \cup {x} /\ x \notin S \ {x}
    BY <1>3
  <2>2. IsFiniteSet(T) /\ Cardinality(T) = Cardinality(S \ {x}) + 1
    BY <1>1, <2>1, FS_AddElement
  <2>3. Cardinality(T) \in Nat
    BY <2>2, FS_CardinalityType
  <2> QED BY <1>1, <1>2, <1>3, <2>2, <2>3 DEF In
<1>4. CASE x \notin T
  <2>1. T = S \ {x}
    BY <1>4
  <2>2. Cardinality(T) \in Nat
    BY <1>1, <2>1, FS_CardinalityType
  <2> QED BY <1>1, <1>2, <1>4, <2>1, <2>2 DEF In
<1> QED BY <1>3, <1>4

\* A step of a handler moves only itself.
LEMMA HandlerMoves ==
    ASSUME TypeOK, IsFiniteSet(Request), IsFiniteSet(Worker), NEW r \in Request, NEW b,
           pc' = [pc EXCEPT ![r] = b]
    PROVE  /\ \A L : Workers(L)' = Workers(L) /\ Cardinality(Workers(L)) \in Nat
           /\ \A L : /\ Cardinality(Handlers(L)) \in Nat /\ Cardinality(Handlers(L)') \in Nat
                     /\ Cardinality(Handlers(L)') = Cardinality(Handlers(L)) + In(b, L) - In(pc[r], L)
<1>1. pc'[r] = b /\ \A q \in Thread : q # r => pc'[q] = pc[q]
  BY DEF TypeOK
<1>2. ASSUME NEW L PROVE Workers(L)' = Workers(L) /\ Cardinality(Workers(L)) \in Nat
  <2>1. IsFiniteSet(Workers(L))
    BY FS_Subset DEF Workers
  <2> QED BY <2>1, <1>1, ThreadAssumption, FS_CardinalityType DEF Workers
<1>3. ASSUME NEW L
      PROVE  /\ Cardinality(Handlers(L)) \in Nat /\ Cardinality(Handlers(L)') \in Nat
             /\ Cardinality(Handlers(L)') = Cardinality(Handlers(L)) + In(b, L) - In(pc[r], L)
  <2>1. IsFiniteSet(Handlers(L))
    BY FS_Subset DEF Handlers
  <2>2. Handlers(L)' \ {r} = Handlers(L) \ {r}
    BY <1>1 DEF Handlers
  <2>3. (r \in Handlers(L)' <=> b \in L) /\ (r \in Handlers(L) <=> pc[r] \in L)
    BY <1>1 DEF Handlers
  <2>4. In(r, Handlers(L)') = In(b, L) /\ In(r, Handlers(L)) = In(pc[r], L)
    BY <2>3 DEF In
  <2> QED BY <2>1, <2>2, <2>4, JoinOrLeave
<1> QED BY <1>2, <1>3

\* So does a step of a worker.
LEMMA WorkerMoves ==
    ASSUME TypeOK, IsFiniteSet(Request), IsFiniteSet(Worker), NEW w \in Worker, NEW b,
           pc' = [pc EXCEPT ![w] = b]
    PROVE  /\ \A L : Handlers(L)' = Handlers(L) /\ Cardinality(Handlers(L)) \in Nat
           /\ \A L : /\ Cardinality(Workers(L)) \in Nat /\ Cardinality(Workers(L)') \in Nat
                     /\ Cardinality(Workers(L)') = Cardinality(Workers(L)) + In(b, L) - In(pc[w], L)
<1>1. pc'[w] = b /\ \A q \in Thread : q # w => pc'[q] = pc[q]
  BY DEF TypeOK
<1>2. ASSUME NEW L PROVE Handlers(L)' = Handlers(L) /\ Cardinality(Handlers(L)) \in Nat
  <2>1. IsFiniteSet(Handlers(L))
    BY FS_Subset DEF Handlers
  <2> QED BY <2>1, <1>1, ThreadAssumption, FS_CardinalityType DEF Handlers
<1>3. ASSUME NEW L
      PROVE  /\ Cardinality(Workers(L)) \in Nat /\ Cardinality(Workers(L)') \in Nat
             /\ Cardinality(Workers(L)') = Cardinality(Workers(L)) + In(b, L) - In(pc[w], L)
  <2>1. IsFiniteSet(Workers(L))
    BY FS_Subset DEF Workers
  <2>2. Workers(L)' \ {w} = Workers(L) \ {w}
    BY <1>1 DEF Workers
  <2>3. (w \in Workers(L)' <=> b \in L) /\ (w \in Workers(L) <=> pc[w] \in L)
    BY <1>1 DEF Workers
  <2>4. In(w, Workers(L)') = In(b, L) /\ In(w, Workers(L)) = In(pc[w], L)
    BY <2>3 DEF In
  <2> QED BY <2>1, <2>2, <2>4, JoinOrLeave
<1> QED BY <1>2, <1>3

\* The numbers are numbers.
LEMMA Numbers ==
    ASSUME TypeOK, IsFiniteSet(sent)
    PROVE  /\ Len(jobs) \in Nat /\ Cardinality(Settled) \in Nat
           /\ inQueue \in Int /\ processing \in Int /\ completed \in Int /\ failed \in Int
<1>1. IsFiniteSet(Settled)
  BY FS_Subset DEF Settled
<1> QED BY <1>1, FS_CardinalityType DEF TypeOK, QueueTypeOK

\* A step that moves no goroutine, no job and no counter.
LEMMA StillExact ==
    ASSUME Exact, UNCHANGED <<inQueue, processing, completed, failed, pc, sent, status>>,
           Len(jobs') = Len(jobs)
    PROVE  Exact'
BY DEF Exact, Handlers, Workers, Settled

\* A step of a handler other than the send and the count.
LEMMA HandlerExact ==
    ASSUME IInv, Exact, IsFiniteSet(Request), IsFiniteSet(Worker), NEW r \in Request, NEW b,
           pc' = [pc EXCEPT ![r] = b], pc[r] # "EnqCount", b # "EnqCount",
           UNCHANGED <<jobs, counters, sent>>, Settled' = Settled
    PROVE  Exact'
<1>1. In(b, {"EnqCount"}) = 0 /\ In(pc[r], {"EnqCount"}) = 0
  BY DEF In
<1>t. TypeOK
  BY DEF IInv
<1>a. \A L : /\ Cardinality(Handlers(L)) \in Nat
            /\ Cardinality(Handlers(L)') = Cardinality(Handlers(L)) + In(b, L) - In(pc[r], L)
  BY <1>t, HandlerMoves
<1>2. Cardinality(Handlers({"EnqCount"})') = Cardinality(Handlers({"EnqCount"}))
  BY <1>1, <1>a
<1>3. \A L : Workers(L)' = Workers(L)
  BY <1>t, HandlerMoves
<1> QED BY <1>2, <1>3 DEF Exact

\* A step of a worker that does not change what is counted.
LEMMA WorkerExact ==
    ASSUME IInv, Exact, IsFiniteSet(Request), IsFiniteSet(Worker), NEW w \in Worker, NEW b,
           pc' = [pc EXCEPT ![w] = b],
           b = "DeqCount" <=> pc[w] = "DeqCount",
           b \in Busy <=> pc[w] \in Busy, b \in Ending <=> pc[w] \in Ending,
           UNCHANGED <<jobs, counters, sent>>, Settled' = Settled
    PROVE  Exact'
<1>1. /\ In(b, {"DeqCount"}) = In(pc[w], {"DeqCount"}) /\ In(b, Busy) = In(pc[w], Busy)
      /\ In(b, Ending) = In(pc[w], Ending)
      /\ \A L : In(pc[w], L) \in Int
  BY DEF In
<1>t. TypeOK
  BY DEF IInv
<1>a. \A L : /\ Cardinality(Workers(L)) \in Nat
            /\ Cardinality(Workers(L)') = Cardinality(Workers(L)) + In(b, L) - In(pc[w], L)
  BY <1>t, WorkerMoves
<1>2. /\ Cardinality(Workers({"DeqCount"})') = Cardinality(Workers({"DeqCount"}))
      /\ Cardinality(Workers(Busy)') = Cardinality(Workers(Busy))
      /\ Cardinality(Workers(Ending)') = Cardinality(Workers(Ending))
  <2>1. ASSUME NEW L, In(b, L) = In(pc[w], L)
        PROVE  Cardinality(Workers(L)') = Cardinality(Workers(L))
    BY <2>1, <1>1, <1>a
  <2> QED BY <1>1, <2>1
<1>3. \A L : Handlers(L)' = Handlers(L)
  BY <1>t, WorkerMoves
<1> QED BY <1>2, <1>3 DEF Exact

\* The send (memory.go:98): a job more in the channel, and a handler that has
\* not counted it yet.
LEMMA SendExact ==
    ASSUME IInv, Exact, IsFiniteSet(Request), IsFiniteSet(Worker), NEW r \in Request, HandlerSend(r)
    PROVE  Exact'
<1>t. TypeOK
  BY DEF IInv
<1>1. /\ pc[r] = "EnqSend" /\ pc' = [pc EXCEPT ![r] = "EnqCount"]
      /\ jobs' = Append(jobs, Tok(r)) /\ sent' = sent \cup {Tok(r)}
      /\ UNCHANGED <<counters, status>>
  BY DEF HandlerSend, EnqueueSend
<1>2. Tok(r) \in Token \ sent /\ ~IsFinished(status[Tok(r)])
  BY <1>1, TokFacts DEF IInv, SendOrder, Results, Tok, IsFinished, StatusInQueue, StatusProcessing
<1>3. Settled' = Settled
  BY <1>1, <1>2 DEF Settled
<1>4. IsFiniteSet(sent')
  BY <1>1, FS_AddElement DEF Exact
<1>5. Len(jobs') = Len(jobs) + 1 /\ Len(jobs) \in Nat
  BY <1>1, <1>2, <1>t DEF TypeOK, QueueTypeOK
<1>6. In("EnqCount", {"EnqCount"}) = 1 /\ In(pc[r], {"EnqCount"}) = 0
  BY <1>1 DEF In
<1>7. /\ Cardinality(Handlers({"EnqCount"})) \in Nat
      /\ Cardinality(Handlers({"EnqCount"})') = Cardinality(Handlers({"EnqCount"})) + 1
  <2>1. \A L : /\ Cardinality(Handlers(L)) \in Nat
              /\ Cardinality(Handlers(L)') = Cardinality(Handlers(L)) + In("EnqCount", L) - In(pc[r], L)
    BY <1>t, <1>1, HandlerMoves
  <2> QED BY <2>1, <1>6
<1>8. \A L : Workers(L)' = Workers(L) /\ Cardinality(Workers(L)) \in Nat
  BY <1>t, <1>1, HandlerMoves
<1>9. inQueue' = Len(jobs') - Cardinality(Handlers({"EnqCount"})') + Cardinality(Workers({"DeqCount"})')
  BY <1>1, <1>5, <1>7, <1>8 DEF Exact
<1> QED BY <1>1, <1>3, <1>4, <1>8, <1>9 DEF Exact

\* The counter of Enqueue (memory.go:99).
LEMMA CountExact ==
    ASSUME IInv, Exact, IsFiniteSet(Request), IsFiniteSet(Worker), NEW r \in Request, HandlerCount(r)
    PROVE  Exact'
<1>t. TypeOK
  BY DEF IInv
<1>1. /\ pc[r] = "EnqCount" /\ pc' = [pc EXCEPT ![r] = "EnqLoad"] /\ inQueue' = inQueue + 1
      /\ UNCHANGED <<jobs, processing, completed, failed, sent, status>>
  BY DEF HandlerCount, EnqueueCount
<1>2. In("EnqLoad", {"EnqCount"}) = 0 /\ In(pc[r], {"EnqCount"}) = 1
  BY <1>1 DEF In
<1>3. /\ Cardinality(Handlers({"EnqCount"})) \in Nat
      /\ Cardinality(Handlers({"EnqCount"})') = Cardinality(Handlers({"EnqCount"})) - 1
  <2>1. \A L : /\ Cardinality(Handlers(L)) \in Nat
              /\ Cardinality(Handlers(L)') = Cardinality(Handlers(L)) + In("EnqLoad", L) - In(pc[r], L)
    BY <1>t, <1>1, HandlerMoves
  <2> QED BY <2>1, <1>2
<1>4. \A L : Workers(L)' = Workers(L) /\ Cardinality(Workers(L)) \in Nat
  BY <1>t, <1>1, HandlerMoves
<1>5. Settled' = Settled
  BY <1>1 DEF Settled
<1>6. inQueue' = Len(jobs') - Cardinality(Handlers({"EnqCount"})') + Cardinality(Workers({"DeqCount"})')
  BY <1>t, <1>1, <1>3, <1>4, Numbers DEF Exact
<1> QED BY <1>1, <1>4, <1>5, <1>6 DEF Exact

\* The receive (memory.go:111) and the first counter of Dequeue (memory.go:115).
LEMMA ReceiveExact ==
    ASSUME IInv, Exact, IsFiniteSet(Request), IsFiniteSet(Worker), NEW w \in Worker,
           WorkerReceive(w) \/ (DequeueCount(w) /\ UNCHANGED engineVars)
    PROVE  Exact'
<1>t. TypeOK
  BY DEF IInv
<1> DEFINE b == IF pc[w] = "Dequeue" THEN "DeqCount" ELSE "DeqProcessing"
<1>1. /\ pc' = [pc EXCEPT ![w] = b] /\ UNCHANGED <<processing, completed, failed, sent, status>>
      /\ \/ pc[w] = "Dequeue" /\ inQueue' = inQueue /\ jobs # <<>> /\ jobs' = Tail(jobs)
         \/ pc[w] = "DeqCount" /\ inQueue' = inQueue - 1 /\ jobs' = jobs
  BY DEF WorkerReceive, DequeueReceive, DequeueCount
<1>2. /\ In(b, {"DeqCount"}) - In(pc[w], {"DeqCount"}) = IF pc[w] = "Dequeue" THEN 1 ELSE 0 - 1
      /\ In(b, Busy) = 0 /\ In(pc[w], Busy) = 0 /\ In(b, Ending) = 0 /\ In(pc[w], Ending) = 0
  BY <1>1 DEF In, Busy, Ending
<1> HIDE DEF b
<1>3. \A L : /\ Cardinality(Workers(L)) \in Nat
             /\ Cardinality(Workers(L)') = Cardinality(Workers(L)) + In(b, L) - In(pc[w], L)
             /\ In(b, L) \in Int /\ In(pc[w], L) \in Int
             /\ Handlers(L)' = Handlers(L) /\ Cardinality(Handlers(L)) \in Nat
  <2>1. \A L : In(b, L) \in Int /\ In(pc[w], L) \in Int
    BY DEF In
  <2> QED BY <2>1, <1>t, <1>1, WorkerMoves
<1>4. /\ Cardinality(Workers(Busy)') = Cardinality(Workers(Busy))
      /\ Cardinality(Workers(Ending)') = Cardinality(Workers(Ending))
  BY <1>2, <1>3
<1>5. Cardinality(Workers({"DeqCount"})') = Cardinality(Workers({"DeqCount"}))
                                               + IF pc[w] = "Dequeue" THEN 1 ELSE 0 - 1
  BY <1>2, <1>3
<1>6. Len(jobs') = IF pc[w] = "Dequeue" THEN Len(jobs) - 1 ELSE Len(jobs)
  BY <1>1, <1>t DEF TypeOK, QueueTypeOK
<1>7. Settled' = Settled
  BY <1>1 DEF Settled
<1>8. Handlers({"EnqCount"})' = Handlers({"EnqCount"}) /\ Cardinality(Handlers({"EnqCount"})) \in Nat
      /\ Cardinality(Workers({"DeqCount"})) \in Nat
  BY <1>3
<1>9. inQueue' = Len(jobs') - Cardinality(Handlers({"EnqCount"})') + Cardinality(Workers({"DeqCount"})')
  <2>1. Len(jobs) \in Nat /\ inQueue \in Int
    BY <1>t, Numbers DEF Exact
  <2> QED BY <2>1, <1>1, <1>5, <1>6, <1>8 DEF Exact
<1> QED BY <1>1, <1>4, <1>7, <1>9 DEF Exact

\* The counter of jobs being processed, up (memory.go:116) and down (memory.go:163).
LEMMA ProcessingExact ==
    ASSUME IInv, Exact, IsFiniteSet(Request), IsFiniteSet(Worker), NEW w \in Worker,
           DequeueProcessing(w) \/ SignalProcessing(w), UNCHANGED engineVars
    PROVE  Exact'
<1>t. TypeOK
  BY DEF IInv
<1> DEFINE b == IF pc[w] = "DeqProcessing" THEN "DeqLoadSize" ELSE "SigCount"
<1>1. /\ pc' = [pc EXCEPT ![w] = b] /\ UNCHANGED <<jobs, inQueue, completed, failed, sent, status>>
      /\ \/ pc[w] = "DeqProcessing" /\ processing' = processing + 1
         \/ pc[w] = "SigProcessing" /\ processing' = processing - 1
  BY DEF DequeueProcessing, SignalProcessing
<1>2. /\ In(b, Busy) - In(pc[w], Busy) = IF pc[w] = "DeqProcessing" THEN 1 ELSE 0 - 1
      /\ In(b, {"DeqCount"}) = 0 /\ In(pc[w], {"DeqCount"}) = 0 /\ In(b, Ending) = In(pc[w], Ending)
  BY <1>1 DEF In, Busy, Ending
<1> HIDE DEF b
<1>3. \A L : /\ Cardinality(Workers(L)) \in Nat
             /\ Cardinality(Workers(L)') = Cardinality(Workers(L)) + In(b, L) - In(pc[w], L)
             /\ In(b, L) \in Int /\ In(pc[w], L) \in Int
             /\ Handlers(L)' = Handlers(L)
  <2>1. \A L : In(b, L) \in Int /\ In(pc[w], L) \in Int
    BY DEF In
  <2> QED BY <2>1, <1>t, <1>1, WorkerMoves
<1>4. /\ Cardinality(Workers({"DeqCount"})') = Cardinality(Workers({"DeqCount"}))
      /\ Cardinality(Workers(Ending)') = Cardinality(Workers(Ending))
  <2>1. ASSUME NEW L, In(b, L) = In(pc[w], L)
        PROVE  Cardinality(Workers(L)') = Cardinality(Workers(L))
    BY <2>1, <1>3
  <2> QED BY <1>2, <2>1
<1>5. Cardinality(Workers(Busy)') = Cardinality(Workers(Busy))
                                       + IF pc[w] = "DeqProcessing" THEN 1 ELSE 0 - 1
  BY <1>2, <1>3
<1>6. Settled' = Settled
  BY <1>1 DEF Settled
<1>7. processing' = Cardinality(Workers(Busy)')
  <2>1. processing \in Int
    BY <1>t, Numbers DEF Exact
  <2>2. processing = Cardinality(Workers(Busy))
    BY DEF Exact
  <2> QED BY <2>1, <2>2, <1>1, <1>5
<1>8. Handlers({"EnqCount"})' = Handlers({"EnqCount"})
  BY <1>3
<1>9. inQueue' = Len(jobs') - Cardinality(Handlers({"EnqCount"})') + Cardinality(Workers({"DeqCount"})')
  BY <1>1, <1>4, <1>8 DEF Exact
<1>10. completed' + failed' = Cardinality(Settled') - Cardinality(Workers(Ending)') /\ IsFiniteSet(sent')
  BY <1>1, <1>4, <1>6 DEF Exact
<1> QED BY <1>7, <1>9, <1>10 DEF Exact

\* The verdict (worker.go:102, 119, 130, 148): a finished job more, and a worker that has not
\* counted it yet.
LEMMA VerdictExact ==
    ASSUME IInv, Exact, IsFiniteSet(Request), IsFiniteSet(Worker), NEW w \in Worker,
           NEW t \in cur[w], NEW v \in Status, IsFinished(v), SetVerdict(w, t, v)
    PROVE  Exact'
<1>t. TypeOK
  BY DEF IInv
<1>1. /\ pc[w] = "Execute" /\ pc' = [pc EXCEPT ![w] = "Finalize"] /\ UNCHANGED <<jobs, counters, sent>>
      /\ t \in sent /\ status[t] = StatusProcessing /\ status' = [status EXCEPT ![t] = v]
  BY DEF SetVerdict, IInv, Holding
<1>2. /\ Settled' \ {t} = Settled \ {t} /\ t \in Settled' /\ t \notin Settled
  BY <1>1, <1>t DEF Settled, IsFinished, StatusProcessing, TypeOK, QueueTypeOK
<1>3. IsFiniteSet(Settled)
  BY FS_Subset DEF Settled, Exact
<1>4. In(t, Settled') = 1 /\ In(t, Settled) = 0
  BY <1>2 DEF In
<1>5. Cardinality(Settled) \in Nat /\ Cardinality(Settled') = Cardinality(Settled) + 1
  BY <1>2, <1>3, <1>4, JoinOrLeave
<1>6. /\ In("Finalize", {"DeqCount"}) = 0 /\ In(pc[w], {"DeqCount"}) = 0
      /\ In("Finalize", Busy) = 1 /\ In(pc[w], Busy) = 1
      /\ In("Finalize", Ending) = 1 /\ In(pc[w], Ending) = 0
  BY <1>1 DEF In, Busy, Ending
<1>7. \A L : /\ Cardinality(Workers(L)) \in Nat
             /\ Cardinality(Workers(L)') = Cardinality(Workers(L)) + In("Finalize", L) - In(pc[w], L)
             /\ Handlers(L)' = Handlers(L)
  BY <1>t, <1>1, WorkerMoves
<1>8. /\ Cardinality(Workers({"DeqCount"})') = Cardinality(Workers({"DeqCount"}))
      /\ Cardinality(Workers(Busy)') = Cardinality(Workers(Busy))
      /\ Cardinality(Workers(Ending)') = Cardinality(Workers(Ending)) + 1
  BY <1>6, <1>7
<1>9. completed' + failed' = Cardinality(Settled') - Cardinality(Workers(Ending)')
  <2>1. Cardinality(Workers(Ending)) \in Nat
    BY <1>7
  <2> QED BY <2>1, <1>1, <1>5, <1>8 DEF Exact
<1> QED BY <1>1, <1>7, <1>8, <1>9 DEF Exact

\* The counter of verdicts (memory.go:166, 168).
LEMMA SignalCountExact ==
    ASSUME IInv, Exact, IsFiniteSet(Request), IsFiniteSet(Worker), NEW w \in Worker, NEW t,
           SignalCount(w, t), UNCHANGED engineVars
    PROVE  Exact'
<1>t. TypeOK
  BY DEF IInv
<1>n. completed \in Int /\ failed \in Int /\ Cardinality(Settled) \in Nat
  BY <1>t, Numbers DEF Exact
<1>1. /\ pc[w] = "SigCount" /\ pc' = [pc EXCEPT ![w] = "SigLoad"]
      /\ UNCHANGED <<jobs, inQueue, processing, sent, status>>
      /\ \/ completed' = completed + 1 /\ failed' = failed
         \/ completed' = completed /\ failed' = failed + 1
  BY DEF SignalCount
<1>2. /\ In("SigLoad", {"DeqCount"}) = 0 /\ In(pc[w], {"DeqCount"}) = 0
      /\ In("SigLoad", Busy) = 0 /\ In(pc[w], Busy) = 0
      /\ In("SigLoad", Ending) = 0 /\ In(pc[w], Ending) = 1
  BY <1>1 DEF In, Busy, Ending
<1>3. \A L : /\ Cardinality(Workers(L)) \in Nat
             /\ Cardinality(Workers(L)') = Cardinality(Workers(L)) + In("SigLoad", L) - In(pc[w], L)
             /\ Handlers(L)' = Handlers(L)
  BY <1>t, <1>1, WorkerMoves
<1>4. /\ Cardinality(Workers({"DeqCount"})') = Cardinality(Workers({"DeqCount"}))
      /\ Cardinality(Workers(Busy)') = Cardinality(Workers(Busy))
      /\ Cardinality(Workers(Ending)') = Cardinality(Workers(Ending)) - 1
  BY <1>2, <1>3
<1>5. completed' + failed' = completed + failed + 1
  BY <1>n, <1>1
<1>6. Settled' = Settled
  BY <1>1 DEF Settled
<1>7. completed' + failed' = Cardinality(Settled') - Cardinality(Workers(Ending)')
  <2>1. Cardinality(Workers(Ending)) \in Nat
    BY <1>3
  <2> QED BY <2>1, <1>n, <1>4, <1>5, <1>6 DEF Exact
<1> QED BY <1>1, <1>3, <1>4, <1>6, <1>7 DEF Exact

\* Every step of a handler keeps the counters exact.
LEMMA HandlerStepExact ==
    ASSUME IInv, Exact, IsFiniteSet(Request), IsFiniteSet(Worker), NEW r \in Request,
           Receive(r) \/ Handler(r) \/ HandlerTimeout(r) \/ ClientGone(r)
    PROVE  Exact'
<1>1. CASE HandlerStore(r)
  <2>1. Tok(r) \notin sent
    BY <1>1, TokFacts DEF HandlerStore, EnqueueStore, IInv, SendOrder, Tok
  <2>2. /\ pc' = [pc EXCEPT ![r] = "EnqSend"] /\ pc[r] # "EnqCount" /\ UNCHANGED <<jobs, counters, sent>>
        /\ status' = [status EXCEPT ![Tok(r)] = StatusInQueue]
    BY <1>1 DEF HandlerStore, EnqueueStore
  <2>3. Settled' = Settled
    BY <2>1, <2>2 DEF Settled, IInv, TypeOK, QueueTypeOK
  <2> QED BY <2>2, <2>3, HandlerExact
<1>2. CASE HandlerSend(r)
  BY <1>2, SendExact
<1>3. CASE HandlerCount(r)
  BY <1>3, CountExact
<1>4. CASE ClientGone(r)
  BY <1>4, StillExact DEF ClientGone
<1>5. CASE Receive(r) \/ RejectRequest(r) \/ BuildJobs(r)
           \/ HandlerRefused(r) \/ HandlerLoad(r)
  <2>1. PICK b \in HandlerLabel \ {"EnqCount"} : pc' = [pc EXCEPT ![r] = b]
    BY <1>5 DEF Receive, RejectRequest, BuildJobs, HandlerRefused, EnqueueRefused, HandlerLoad, EnqueueLoad
  <2>2. pc[r] # "EnqCount" /\ UNCHANGED <<jobs, counters, sent, status>>
    BY <1>5 DEF Receive, RejectRequest, BuildJobs, HandlerRefused, EnqueueRefused, HandlerLoad, EnqueueLoad
  <2> QED BY <2>1, <2>2, HandlerExact DEF Settled
<1>6. CASE HandlerNextJob(r) \/ HandlerAwaits(r) \/ HandlerTokens(r) \/ HandlerReady(r)
  <2>1. PICK b \in HandlerLabel \ {"EnqCount"} : pc' = [pc EXCEPT ![r] = b]
    BY <1>6 DEF HandlerNextJob, EnqueueGauge, HandlerAwaits, HandlerTokens, HandlerReady, WaitCheckFinished
  <2>2. pc[r] # "EnqCount" /\ UNCHANGED <<jobs, counters, sent, status>>
    BY <1>6 DEF HandlerNextJob, EnqueueGauge, HandlerAwaits, HandlerTokens, HandlerReady, WaitCheckFinished
  <2> QED BY <2>1, <2>2, HandlerExact DEF Settled
<1>7. CASE HandlerPending(r) \/ HandlerRegister(r) \/ HandlerRecheckFinished(r)
           \/ HandlerRecheckPending(r) \/ HandlerUnregister(r)
  <2>1. PICK b \in HandlerLabel \ {"EnqCount"} : pc' = [pc EXCEPT ![r] = b]
    BY <1>7 DEF HandlerPending, WaitCheckPending, HandlerRegister, WaitRegister, HandlerRecheckFinished,
        WaitRecheckFinished, HandlerRecheckPending, WaitRecheckPending, HandlerUnregister, WaitUnregister
  <2>2. pc[r] # "EnqCount" /\ UNCHANGED <<jobs, counters, sent, status>>
    BY <1>7 DEF HandlerPending, WaitCheckPending, HandlerRegister, WaitRegister, HandlerRecheckFinished,
        WaitRecheckFinished, HandlerRecheckPending, WaitRecheckPending, HandlerUnregister, WaitUnregister
  <2> QED BY <2>1, <2>2, HandlerExact DEF Settled
<1>8. CASE HandlerSignalled(r) \/ HandlerTimeout(r) \/ HandlerLastLook(r)
           \/ HandlerAbandoned(r)
  <2>1. PICK b \in HandlerLabel \ {"EnqCount"} : pc' = [pc EXCEPT ![r] = b]
    BY <1>8 DEF HandlerSignalled, WaitReceive, HandlerTimeout, WaitGiveUp, HandlerLastLook,
        WaitLastLook, HandlerAbandoned
  <2>2. pc[r] # "EnqCount" /\ UNCHANGED <<jobs, counters, sent, status>>
    BY <1>8 DEF HandlerSignalled, WaitReceive, HandlerTimeout, WaitGiveUp, HandlerLastLook,
        WaitLastLook, HandlerAbandoned
  <2> QED BY <2>1, <2>2, HandlerExact DEF Settled
<1> QED BY <1>1, <1>2, <1>3, <1>4, <1>5, <1>6, <1>7, <1>8 DEF Handler

\* Every step of a worker keeps the counters exact.
LEMMA WorkerStepExact ==
    ASSUME IInv, Exact, IsFiniteSet(Request), IsFiniteSet(Worker), NEW w \in Worker, RunWorker(w)
    PROVE  Exact'
<1> USE DEF Busy, Ending
<1>1. CASE WorkerLoop(w) \/ WorkerCancelled(w)
  <2>1. PICK b \in {"Exited", "Dequeue"} : pc' = [pc EXCEPT ![w] = b]
    BY <1>1 DEF WorkerLoop, WorkerCancelled
  <2>2. pc[w] \in {"Loop", "Dequeue"} /\ UNCHANGED <<jobs, counters, sent, status>>
    BY <1>1 DEF WorkerLoop, WorkerCancelled
  <2> QED BY <2>1, <2>2, WorkerExact DEF Settled
<1>2. CASE WorkerReceive(w) \/ (DequeueCount(w) /\ UNCHANGED engineVars)
  BY <1>2, ReceiveExact
<1>3. CASE DequeueProcessing(w) /\ UNCHANGED engineVars
  BY <1>3, ProcessingExact
<1>4. CASE /\ \/ DequeueLoadSize(w) \/ DequeueGaugeSize(w)
              \/ DequeueLoadProcessing(w) \/ DequeueGaugeProcessing(w, "Start")
           /\ UNCHANGED engineVars
  <2>1. PICK b \in {"DeqGaugeSize", "DeqLoadProc", "DeqGaugeProc", "Start"} : pc' = [pc EXCEPT ![w] = b]
    BY <1>4 DEF DequeueLoadSize, DequeueGaugeSize, DequeueLoadProcessing, DequeueGaugeProcessing
  <2>2. /\ pc[w] \in {"DeqLoadSize", "DeqGaugeSize", "DeqLoadProc", "DeqGaugeProc"}
        /\ UNCHANGED <<jobs, counters, sent, status>>
    BY <1>4 DEF DequeueLoadSize, DequeueGaugeSize, DequeueLoadProcessing, DequeueGaugeProcessing
  <2> QED BY <2>1, <2>2, WorkerExact DEF Settled
<1>5. CASE StartJob(w)
  <2>1. PICK t \in cur[w] : status' = [status EXCEPT ![t] = StatusProcessing]
    BY <1>5 DEF StartJob
  <2>2. /\ pc' = [pc EXCEPT ![w] = "Execute"] /\ pc[w] = "Start" /\ UNCHANGED <<jobs, counters, sent>>
    BY <1>5 DEF StartJob
  <2>3. status[t] = StatusInQueue
    BY <2>2 DEF IInv, Holding
  <2>4. Settled' = Settled
    BY <2>1, <2>2, <2>3 DEF Settled, IsFinished, StatusProcessing, StatusInQueue, IInv, TypeOK, QueueTypeOK
  <2> QED BY <2>2, <2>4, WorkerExact
<1>6. CASE ScanRejects(w) \/ ExecuteFails(w)
  BY <1>6, VerdictExact DEF ScanRejects, ExecuteFails, StatusCompilationError, StatusInternalError,
     IsFinished, StatusProcessing
<1>7. CASE ExecuteReturns(w)
  <2>1. PICK t \in cur[w], v \in Verdicts :
            SetVerdict(w, t, v) \/ SetVerdict(w, t, StatusWrongAnswer)
    BY <1>7 DEF ExecuteReturns
  <2>2. /\ v \in Status /\ IsFinished(v)
        /\ StatusWrongAnswer \in Status /\ IsFinished(StatusWrongAnswer)
    BY VerdictsAssumption DEF StatusWrongAnswer, IsFinished, StatusProcessing
  <2> QED BY <2>1, <2>2, VerdictExact
<1>8. CASE FinalizeJob(w)
  <2>1. /\ pc' = [pc EXCEPT ![w] = "SigProcessing"] /\ pc[w] = "Finalize"
        /\ UNCHANGED <<jobs, counters, sent, status>>
    BY <1>8 DEF FinalizeJob
  <2> QED BY <2>1, WorkerExact DEF Settled
<1>9. CASE WorkerSignalSteps(w)
  <2>1. PICK t \in cur[w] : \/ SignalProcessing(w) \/ SignalCount(w, t)
                            \/ SignalLoad(w) \/ SignalGauge(w) \/ SignalStore(w, t)
    BY <1>9 DEF WorkerSignalSteps
  <2>2. UNCHANGED engineVars
    BY <1>9 DEF WorkerSignalSteps
  <2>3. CASE SignalProcessing(w)
    BY <2>2, <2>3, ProcessingExact
  <2>4. CASE SignalCount(w, t)
    BY <2>2, <2>4, SignalCountExact
  <2>5. CASE SignalLoad(w) \/ SignalGauge(w) \/ SignalStore(w, t)
    <3>1. PICK b \in {"SigGauge", "SigStore", "SigNotify"} : pc' = [pc EXCEPT ![w] = b]
      BY <2>5 DEF SignalLoad, SignalGauge, SignalStore
    <3>2. pc[w] \in {"SigLoad", "SigGauge", "SigStore"} /\ UNCHANGED <<jobs, counters, sent, status>>
      BY <2>2, <2>5 DEF SignalLoad, SignalGauge, SignalStore
    <3> QED BY <3>1, <3>2, WorkerExact DEF Settled
  <2> QED BY <2>1, <2>3, <2>4, <2>5
<1>10. CASE WorkerNotify(w) \/ WorkerSendResult(w)
  <2>1. PICK b \in {"SigSend", "Loop"} : pc' = [pc EXCEPT ![w] = b]
    BY <1>10 DEF WorkerNotify, WorkerSendResult, SignalNotify, SignalSend
  <2>2. pc[w] \in {"SigNotify", "SigSend"} /\ UNCHANGED <<jobs, counters, sent, status>>
    BY <1>10 DEF WorkerNotify, WorkerSendResult, SignalNotify, SignalSend
  <2> QED BY <2>1, <2>2, WorkerExact DEF Settled
<1> QED BY <1>1, <1>2, <1>3, <1>4, <1>5, <1>6, <1>7, <1>8, <1>9, <1>10 DEF RunWorker, WorkerDequeueSteps

\* Every step of the process does.
LEMMA NextExact ==
    ASSUME IInv, Exact, IsFiniteSet(Request), IsFiniteSet(Worker), [Next]_vars
    PROVE  Exact'
<1>1. ASSUME NEW r \in Request, Receive(r) \/ Handler(r) \/ HandlerTimeout(r) \/ ClientGone(r)
      PROVE  Exact'
  BY <1>1, HandlerStepExact
<1>2. ASSUME NEW w \in Worker, RunWorker(w) PROVE Exact'
  BY <1>2, WorkerStepExact
<1>3. ASSUME NEW t \in Token, SendCallback(t) \/ DeleteSubmission(t) \/ Cleanup(t) PROVE Exact'
  BY <1>3, StillExact DEF SendCallback, DeleteSubmission, Cleanup, CleanupExpired, RemoveEntry
<1>4. CASE SigTerm \/ ShutdownReturns \/ ProcessExit \/ CloseQueue \/ UNCHANGED vars
  BY <1>4, StillExact DEF SigTerm, ShutdownReturns, ProcessExit, CloseQueue, Close, vars
<1> QED BY <1>1, <1>2, <1>3, <1>4 DEF Next, Terminated

\* At the start there is nothing to count.
LEMMA InitExact == Init => Exact
<1> SUFFICES ASSUME Init PROVE Exact
  OBVIOUS
<1>1. /\ Handlers({"EnqCount"}) = {} /\ Workers({"DeqCount"}) = {} /\ Workers(Busy) = {}
      /\ Workers(Ending) = {} /\ Settled = {} /\ sent = {}
  BY ThreadAssumption DEF Init, Handlers, Workers, Settled, Busy, Ending
<1>2. /\ inQueue = 0 /\ processing = 0 /\ completed = 0 /\ failed = 0 /\ Len(jobs) = 0
  BY DEF Init, QueueInit
<1>3. IsFiniteSet({}) /\ Cardinality({}) = 0
  BY FS_EmptySet
<1>4. /\ Cardinality(Handlers({"EnqCount"})) = 0 /\ Cardinality(Workers({"DeqCount"})) = 0
      /\ Cardinality(Workers(Busy)) = 0 /\ Cardinality(Workers(Ending)) = 0
      /\ Cardinality(Settled) = 0 /\ IsFiniteSet(sent)
  BY <1>1, <1>3
<1> QED BY <1>2, <1>4 DEF Exact

\* The counters behind /statistics (memory.go:99, 115, 116, 163, 166, 168) count
\* what they say, up to the goroutines between an operation and its counter,
\* for any finite number of requests and workers.
THEOREM StatsExactHolds ==
    ASSUME IsFiniteSet(Request), IsFiniteSet(Worker)
    PROVE  Spec => []StatsExact
<1>1. IInv /\ Exact /\ [Next]_vars => Exact'
  BY NextExact
<1>2. Exact => StatsExact
  BY DEF Exact, StatsExact, Busy, Ending, Settled
<1> QED BY <1>1, <1>2, InitExact, Invariance, PTL DEF Spec

-----------------------------------------------------------------------------
(* The engine implements SubmissionLifecycle: one lemma per step of the lifecycle,
   for the actions that take it; what they may assume comes from IInv.  All other
   actions leave the channel, the workers' jobs and the store alone and do not show. *)

\* What place, work and view are made of.
lifeBase == <<jobs, cur, sent, status, store, snap>>

\* What the invariant says of the token a handler is about to send.
LEMMA UnsentToken ==
    ASSUME IInv, NEW r \in Request, pc[r] \in {"Enqueue", "EnqSend"}
    PROVE  /\ Tok(r) \in Token \ sent /\ ~Queued(Tok(r)) /\ ~Held(Tok(r))
           /\ status[Tok(r)] = StatusInQueue
<1>1. Tok(r) \in Token \ sent
  BY TokFacts DEF IInv, SendOrder, Tok
<1>2. ~Queued(Tok(r)) /\ ~Held(Tok(r)) /\ status[Tok(r)] = StatusInQueue
  BY <1>1 DEF IInv, Channel, Holding, Held, Results
<1> QED BY <1>1, <1>2

\* A step that does not touch them does not show.
LEMMA BaseStutters ==
    ASSUME UNCHANGED lifeBase
    PROVE  UNCHANGED Lifecycle!lifeVars
BY DEF lifeBase, Lifecycle!lifeVars, Place, Held, Queued, Seen

\* The initial states map to the initial states of the lifecycle.
LEMMA InitMaps ==
    ASSUME Init
    PROVE  Lifecycle!LifeInit
<1>1. \A t \in Token : ~Held(t) /\ ~Queued(t) /\ t \notin sent /\ Seen(t) = 0
  BY DEF Init, QueueInit, Held, Queued, Seen
<1> QED BY <1>1 DEF Lifecycle!LifeInit, Place

\* The entry is written before the send (memory.go:95): Post.
LEMMA StorePosts ==
    ASSUME IInv, NEW r \in Request, HandlerStore(r)
    PROVE  Lifecycle!Post(Tok(r))
<1> DEFINE t == Tok(r)
<1>1. t \in Token \ sent /\ ~Queued(t) /\ ~Held(t) /\ status[t] = StatusInQueue
  BY UnsentToken DEF HandlerStore, EnqueueStore
<1>2. /\ UNCHANGED <<jobs, cur, sent, snap>> /\ status' = status
      /\ store' = [store EXCEPT ![t] = "job"]
  BY <1>1 DEF HandlerStore, EnqueueStore, IInv, TypeOK, QueueTypeOK
<1>3. \A u \in Token : Seen(u)' = IF u = t THEN StatusInQueue ELSE Seen(u)
  BY <1>1, <1>2 DEF Seen, IInv, TypeOK, QueueTypeOK
<1>4. \A u \in Token : Held(u)' = Held(u) /\ Place(u)' = Place(u)
  BY <1>2 DEF Place, Held, Queued
<1>5. Place(t) = "new"
  BY <1>1 DEF Place
<1> QED BY <1>1, <1>2, <1>3, <1>4, <1>5 DEF Lifecycle!Post, Lifecycle!StatusInQueue, StatusInQueue

\* The channel send (memory.go:98): Accept.
LEMMA SendAccepts ==
    ASSUME IInv, NEW r \in Request, HandlerSend(r)
    PROVE  Lifecycle!Accept(Tok(r))
<1> DEFINE t == Tok(r)
<1>1. t \in Token \ sent /\ ~Queued(t) /\ ~Held(t)
  BY UnsentToken DEF HandlerSend, EnqueueSend
<1>2. /\ UNCHANGED <<cur, status, store, snap>> /\ sent' = sent \cup {t}
      /\ jobs' = Append(jobs, t) /\ jobs \in Seq(Token)
  BY DEF HandlerSend, EnqueueSend, IInv, TypeOK, QueueTypeOK
<1>3. \A u \in Token : Queued(u)' <=> Queued(u) \/ u = t
  BY <1>1, <1>2, AppendElements DEF Queued
<1>4. \A u \in Token : (Held(u)' <=> Held(u)) /\ Seen(u)' = Seen(u)
  BY <1>2 DEF Held, Seen
<1>5. \A u \in Token : Place(u)' = IF u = t THEN "queued" ELSE Place(u)
  BY <1>1, <1>2, <1>3, <1>4 DEF Place
<1>6. Place(t) = "new"
  BY <1>1 DEF Place
<1> QED BY <1>1, <1>2, <1>4, <1>5, <1>6 DEF Lifecycle!Accept

\* The receive of a worker (memory.go:111): Take.
LEMMA ReceiveTakes ==
    ASSUME IInv, NEW w \in Worker, WorkerReceive(w)
    PROVE  \E t \in Token : Lifecycle!Take(t)
<1>0. PICK t \in Token : t = Head(jobs)
  BY TailElements DEF WorkerReceive, DequeueReceive, IInv, TypeOK, QueueTypeOK, Channel
<1>1. /\ UNCHANGED <<sent, status, store, snap>>
      /\ cur' = [cur EXCEPT ![w] = {t}] /\ jobs' = Tail(jobs) /\ jobs # <<>> /\ jobs \in Seq(Token)
      /\ cur \in [Worker -> SUBSET Token] /\ cur[w] = {}
  BY <1>0 DEF WorkerReceive, DequeueReceive, IInv, TypeOK, QueueTypeOK, Holding
<1>2. /\ Queued(t)
      /\ \A u \in Token : Queued(u)' <=> Queued(u) /\ u # t
  BY <1>0, <1>1, TailElements DEF Queued, IInv, Channel
<1>3. t \in sent /\ ~Held(t) /\ status[t] = StatusInQueue
  BY <1>2 DEF IInv, Channel, Holding, Held
<1>4. \A u \in Token : (Held(u)' <=> Held(u) \/ u = t) /\ Seen(u)' = Seen(u)
  BY <1>1 DEF Held, Seen
<1>5. \A u \in Token : Place(u)' = IF u = t THEN "taken" ELSE Place(u)
  BY <1>1, <1>2, <1>3, <1>4 DEF Place
<1>6. Place(t) = "queued"
  BY <1>2, <1>3 DEF Place
<1> QED BY <1>1, <1>2, <1>3, <1>4, <1>5, <1>6
        DEF Lifecycle!Take, Lifecycle!StatusInQueue, StatusInQueue

\* SetStatus(Processing) of a worker and the store of the job (worker.go:92): Start.
LEMMA StartStarts ==
    ASSUME IInv, NEW w \in Worker, StartJob(w)
    PROVE  \E t \in Token : Lifecycle!Start(t)
<1>1. PICK t \in cur[w] : /\ status' = [status EXCEPT ![t] = StatusProcessing]
                          /\ store' = [store EXCEPT ![t] = "job"]
  BY DEF StartJob, UpdateStore
<1>2. UNCHANGED <<jobs, cur, sent, snap>>
  BY DEF StartJob
<1>3. t \in Token /\ Held(t) /\ status[t] = StatusInQueue
  BY DEF StartJob, IInv, TypeOK, Holding, Held
<1>4. \A u \in Token : (Held(u)' <=> Held(u)) /\ Place(u)' = Place(u)
  BY <1>2 DEF Held, Queued, Place
<1>5. \A u \in Token : Seen(u)' = IF u = t THEN StatusProcessing ELSE Seen(u)
  BY <1>1, <1>2, <1>3 DEF Seen, IInv, TypeOK, QueueTypeOK
<1>6. Place(t) = "taken"
  BY <1>3 DEF Place
<1>7. \A u \in Token : status'[u] = IF u = t THEN StatusProcessing ELSE status[u]
  BY <1>1, <1>3 DEF IInv, TypeOK, QueueTypeOK
<1> QED BY <1>3, <1>4, <1>5, <1>6, <1>7
        DEF Lifecycle!Start, Lifecycle!Advance, Lifecycle!StatusInQueue, Lifecycle!StatusProcessing,
            StatusInQueue, StatusProcessing

\* The verdict (worker.go:99, 107, 121): Decide.  The entry is the job itself or was
\* removed; it cannot be a snapshot yet.
LEMMA VerdictDecides ==
    ASSUME IInv, NEW w \in Worker, NEW t \in cur[w], NEW s \in Status, IsFinished(s), SetVerdict(w, t, s)
    PROVE  t \in Token /\ Lifecycle!Decide(t, s)
<1>1. t \in Token /\ Held(t) /\ status[t] = StatusProcessing
  BY DEF SetVerdict, IInv, TypeOK, Holding, Held
<1>2. UNCHANGED <<jobs, cur, sent, store, snap>> /\ status' = [status EXCEPT ![t] = s]
  BY DEF SetVerdict
<1>3. store[t] # "snapshot"
  BY <1>1 DEF IInv, Results, Done, IsFinished, StatusProcessing
<1>4. \A u \in Token : (Held(u)' <=> Held(u)) /\ Place(u)' = Place(u)
  BY <1>2 DEF Held, Queued, Place
<1>5. \A u \in Token : status'[u] = IF u = t THEN s ELSE status[u]
  BY <1>2 DEF IInv, TypeOK, QueueTypeOK
<1>6. \/ \A u \in Token : Seen(u)' = Seen(u)
      \/ \A u \in Token : Seen(u)' = IF u = t THEN s ELSE Seen(u)
  <2>1. CASE store[t] = "none"
    BY <2>1, <1>2, <1>5 DEF Seen
  <2>2. CASE store[t] = "job"
    BY <2>2, <1>2, <1>5 DEF Seen
  <2> QED BY <2>1, <2>2, <1>1, <1>3 DEF IInv, TypeOK, QueueTypeOK
<1>7. Place(t) = "taken"
  BY <1>1 DEF Place
<1> QED BY <1>1, <1>4, <1>5, <1>6, <1>7
        DEF Lifecycle!Decide, Lifecycle!Advance, Lifecycle!IsFinished, IsFinished,
            Lifecycle!StatusProcessing, StatusProcessing

\* The snapshot (memory.go:173), also over an entry that was removed: Publish.
LEMMA SnapshotPublishes ==
    ASSUME IInv, NEW w \in Worker, NEW t \in cur[w], SignalStore(w, t), UNCHANGED engineVars
    PROVE  t \in Token /\ Lifecycle!Publish(t)
<1>1. t \in Token /\ Held(t) /\ IsFinished(status[t])
  BY DEF SignalStore, IInv, TypeOK, Holding, Held
<1>2. /\ UNCHANGED <<jobs, cur, sent, status>>
      /\ snap' = [snap EXCEPT ![t] = status[t]] /\ store' = [store EXCEPT ![t] = "snapshot"]
  BY DEF SignalStore
<1>3. \A u \in Token : (Held(u)' <=> Held(u)) /\ Place(u)' = Place(u)
  BY <1>2 DEF Held, Queued, Place
<1>4. \A u \in Token : Seen(u)' = IF u = t THEN status[t] ELSE Seen(u)
  BY <1>1, <1>2 DEF Seen, IInv, TypeOK, QueueTypeOK
<1> QED BY <1>1, <1>2, <1>3, <1>4 DEF Lifecycle!Publish, Lifecycle!IsFinished, IsFinished,
            Lifecycle!StatusProcessing, StatusProcessing

\* A worker lets go of its job only once it has a verdict (memory.go:176): Release.
LEMMA LettingGoReleases ==
    ASSUME IInv, NEW w \in Worker, NEW t \in cur[w], pc[w] \in {"SigNotify", "SigSend"},
           cur' = [cur EXCEPT ![w] = {}], UNCHANGED <<jobs, sent, status, store, snap>>
    PROVE  Lifecycle!Release({t})
<1>1. t \in Token /\ Held(t) /\ ~Queued(t) /\ t \in sent /\ IsFinished(status[t])
  BY DEF IInv, TypeOK, Holding, Held, Done
<1>2. \A u \in Token : Held(u)' <=> Held(u) /\ u # t
  <2>1. \A u \in Token, v \in Worker : u \in cur'[v] <=> u \in cur[v] /\ v # w
    BY DEF IInv, TypeOK
  <2>2. \A v \in Worker : t \in cur[v] => v = w
    BY DEF IInv, Holding
  <2>3. \A u \in cur[w] : u = t
    BY DEF IInv, Holding
  <2> QED BY <2>1, <2>2, <2>3 DEF Held
<1>3. \A u \in Token : Seen(u)' = Seen(u) /\ (Queued(u)' <=> Queued(u))
  BY DEF Seen, Queued
<1>4. \A u \in Token : Place(u)' = IF u = t THEN "out" ELSE Place(u)
  BY <1>1, <1>2, <1>3 DEF Place
<1>5. Place(t) = "taken"
  BY <1>1 DEF Place
<1> QED BY <1>1, <1>2, <1>3, <1>4, <1>5 DEF Lifecycle!Release, Lifecycle!IsFinished, IsFinished,
            Lifecycle!StatusProcessing, StatusProcessing

\* DELETE and the end of the TTL (memory.go:127, 146): Remove.
LEMMA RemovalRemoves ==
    ASSUME IInv, NEW t \in Token, DeleteSubmission(t) \/ Cleanup(t)
    PROVE  Lifecycle!Remove(t)
<1>1. UNCHANGED <<jobs, cur, sent, status, snap>> /\ store' = [store EXCEPT ![t] = "none"]
  BY DEF DeleteSubmission, Cleanup, CleanupExpired, RemoveEntry
<1>2. \A u \in Token : (Held(u)' <=> Held(u)) /\ Place(u)' = Place(u)
  BY <1>1 DEF Held, Queued, Place
<1>3. \A u \in Token : Seen(u)' = IF u = t THEN 0 ELSE Seen(u)
  BY <1>1 DEF Seen, IInv, TypeOK, QueueTypeOK
<1> QED BY <1>1, <1>2, <1>3 DEF Lifecycle!Remove

-----------------------------------------------------------------------------
(* The steps of each actor. *)

\* A handler stores, sends, or does not show.
LEMMA HandlerMaps ==
    ASSUME IInv, NEW r \in Request, Receive(r) \/ Handler(r) \/ HandlerTimeout(r) \/ ClientGone(r)
    PROVE  [Lifecycle!LifeNext]_Lifecycle!lifeVars
<1>1. HandlerStore(r) \/ HandlerSend(r) \/ UNCHANGED lifeBase
  BY DEF Handler, Receive, RejectRequest, BuildJobs, lifeBase,
     HandlerRefused, EnqueueRefused, HandlerCount, EnqueueCount, HandlerLoad, EnqueueLoad,
     HandlerNextJob, HandlerAwaits, HandlerTokens, EnqueueGauge, HandlerReady,
     WaitCheckFinished, HandlerPending, WaitCheckPending, HandlerRegister, WaitRegister,
     HandlerRecheckFinished, WaitRecheckFinished, HandlerRecheckPending, WaitRecheckPending,
     HandlerUnregister, WaitUnregister, HandlerSignalled, WaitReceive, HandlerTimeout,
     HandlerAbandoned, WaitGiveUp, HandlerLastLook, WaitLastLook, ClientGone
<1>2. CASE HandlerStore(r)
  <2>1. Tok(r) \in Token /\ Lifecycle!Post(Tok(r))
    BY <1>2, StorePosts, TokFacts DEF IInv
  <2> QED BY <2>1 DEF Lifecycle!LifeNext
<1>3. CASE HandlerSend(r)
  <2>1. Tok(r) \in Token /\ Lifecycle!Accept(Tok(r))
    BY <1>3, SendAccepts, TokFacts DEF IInv
  <2> QED BY <2>1 DEF Lifecycle!LifeNext
<1>4. CASE UNCHANGED lifeBase
  BY <1>4, BaseStutters
<1> QED BY <1>1, <1>2, <1>3, <1>4

\* A worker takes, starts, decides, publishes, releases, or does not show.
LEMMA WorkerMaps ==
    ASSUME IInv, NEW w \in Worker, RunWorker(w)
    PROVE  [Lifecycle!LifeNext]_Lifecycle!lifeVars
<1>1. CASE WorkerReceive(w)
  BY <1>1, ReceiveTakes DEF Lifecycle!LifeNext
<1>2. CASE StartJob(w)
  BY <1>2, StartStarts DEF Lifecycle!LifeNext
<1>3. CASE ScanRejects(w) \/ ExecuteFails(w) \/ ExecuteReturns(w)
  <2>1. PICK t \in cur[w], s \in Status : IsFinished(s) /\ SetVerdict(w, t, s)
    BY <1>3, VerdictsAssumption
    DEF ScanRejects, ExecuteFails, ExecuteReturns, IsFinished, StatusProcessing,
        StatusCompilationError, StatusInternalError, StatusWrongAnswer
  <2>2. t \in Token /\ Lifecycle!Decide(t, s) /\ s \in Lifecycle!Status
    BY <2>1, VerdictDecides DEF Lifecycle!Status
  <2> QED BY <2>2 DEF Lifecycle!LifeNext
<1>4. CASE WorkerSignalSteps(w)
  <2>1. PICK t \in cur[w] : \/ SignalProcessing(w) \/ SignalCount(w, t)
                            \/ SignalLoad(w) \/ SignalGauge(w) \/ SignalStore(w, t)
    BY <1>4 DEF WorkerSignalSteps
  <2>2. CASE SignalStore(w, t)
    <3>1. t \in Token /\ Lifecycle!Publish(t)
      BY <1>4, <2>2, SnapshotPublishes DEF WorkerSignalSteps
    <3> QED BY <3>1 DEF Lifecycle!LifeNext
  <2>3. CASE SignalProcessing(w) \/ SignalCount(w, t) \/ SignalLoad(w) \/ SignalGauge(w)
    <3>1. UNCHANGED lifeBase
      BY <1>4, <2>3
      DEF WorkerSignalSteps, SignalProcessing, SignalCount, SignalLoad, SignalGauge, lifeBase
    <3> QED BY <3>1, BaseStutters
  <2> QED BY <2>1, <2>2, <2>3
<1>5. CASE WorkerNotify(w)
  <2>1. PICK t \in cur[w] : /\ SignalNotify(w, t, "Loop")
                            /\ cur' = [cur EXCEPT ![w] = IF t \in listeners THEN @ ELSE {}]
                            /\ UNCHANGED sent
    BY <1>5 DEF WorkerNotify
  <2>2. CASE t \in listeners
    <3>1. UNCHANGED lifeBase
      BY <2>1, <2>2 DEF SignalNotify, lifeBase, IInv, TypeOK
    <3> QED BY <3>1, BaseStutters
  <2>3. CASE t \notin listeners
    <3>1. t \in Token /\ Lifecycle!Release({t})
      BY <2>1, <2>3, LettingGoReleases DEF SignalNotify, IInv, TypeOK
    <3> QED BY <3>1 DEF Lifecycle!LifeNext
  <2> QED BY <2>2, <2>3
<1>6. CASE WorkerSendResult(w)
  <2>1. PICK t \in cur[w] : /\ SignalSend(w, t, "Loop")
                            /\ cur' = [cur EXCEPT ![w] = {}] /\ UNCHANGED sent
    BY <1>6 DEF WorkerSendResult
  <2>2. t \in Token /\ Lifecycle!Release({t})
    BY <2>1, LettingGoReleases DEF SignalSend, IInv, TypeOK
  <2> QED BY <2>2 DEF Lifecycle!LifeNext
<1>7. CASE WorkerLoop(w) \/ WorkerCancelled(w) \/ WorkerDequeueSteps(w) \/ FinalizeJob(w)
  <2>1. UNCHANGED lifeBase
    BY <1>7 DEF WorkerLoop, WorkerCancelled, WorkerDequeueSteps, DequeueCount, DequeueProcessing,
       DequeueLoadSize, DequeueGaugeSize, DequeueLoadProcessing, DequeueGaugeProcessing,
       FinalizeJob, lifeBase
  <2> QED BY <2>1, BaseStutters
<1> QED BY <1>1, <1>2, <1>3, <1>4, <1>5, <1>6, <1>7 DEF RunWorker

\* Every step of the engine is a step of the lifecycle or does not show.
LEMMA NextMaps ==
    ASSUME IInv, [Next]_vars
    PROVE  [Lifecycle!LifeNext]_Lifecycle!lifeVars
<1>1. ASSUME NEW t \in Token, DeleteSubmission(t) \/ Cleanup(t)
      PROVE  [Lifecycle!LifeNext]_Lifecycle!lifeVars
  BY <1>1, RemovalRemoves DEF Lifecycle!LifeNext
<1>2. CASE \/ \E t \in Token : SendCallback(t)
           \/ SigTerm \/ ShutdownReturns \/ CloseQueue \/ ProcessExit \/ UNCHANGED vars
  <2>1. UNCHANGED lifeBase
    BY <1>2 DEF SendCallback, SigTerm, ShutdownReturns, CloseQueue, Close, ProcessExit, vars, lifeBase
  <2> QED BY <2>1, BaseStutters
<1> QED BY <1>1, <1>2, HandlerMaps, WorkerMaps DEF Next, Terminated

\* The engine without Redis (memory.go, worker.go, submissions.go) implements what
\* queue.go promises of each submission, and loses no job.
THEOREM EngineImplementsLifecycle == Spec => ImplementsLifecycle
<1>1. Init => Lifecycle!LifeInit
  BY InitMaps
<1>2. IInv /\ [Next]_vars => [Lifecycle!LifeNext]_Lifecycle!lifeVars
  BY NextMaps
<1> QED BY <1>1, <1>2, Invariance, PTL DEF Spec, ImplementsLifecycle, Lifecycle!LifeSpec
=============================================================================
