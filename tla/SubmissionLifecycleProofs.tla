---------------------- MODULE SubmissionLifecycleProofs ----------------------
(***************************************************************************)
(* What every queue that implements SubmissionLifecycle shows its readers, *)
(* for any submissions, whether or not jobs may be lost.                   *)
(***************************************************************************)
EXTENDS SubmissionLifecycle, TLAPS

\* Every step of the lifecycle keeps the view behind the worker.
LEMMA LifeInductive == LifeInv /\ [LifeNext]_lifeVars => LifeInv'
<1> SUFFICES ASSUME LifeInv, [LifeNext]_lifeVars PROVE LifeInv'
  OBVIOUS
<1> USE DEF LifeInv, Status, IsFinished, StatusInQueue, StatusProcessing
<1>1. ASSUME NEW t \in Token, Post(t) PROVE LifeInv'
  BY <1>1 DEF Post
<1>2. ASSUME NEW t \in Token, Accept(t) PROVE LifeInv'
  BY <1>2 DEF Accept
<1>3. ASSUME NEW t \in Token, Take(t) PROVE LifeInv'
  BY <1>3 DEF Take
<1>4. ASSUME NEW t \in Token, Start(t) PROVE LifeInv'
  BY <1>4 DEF Start, Advance
<1>5. ASSUME NEW t \in Token, NEW s \in Status, Decide(t, s) PROVE LifeInv'
  BY <1>5 DEF Decide, Advance
<1>6. ASSUME NEW t \in Token, Publish(t) PROVE LifeInv'
  BY <1>6 DEF Publish
<1>7. ASSUME NEW t \in Token, Remove(t) PROVE LifeInv'
  BY <1>7 DEF Remove
<1>8. ASSUME NEW S \in SUBSET Token, Release(S) PROVE LifeInv'
  BY <1>8 DEF Release
<1>9. CASE UNCHANGED lifeVars
  BY <1>9 DEF lifeVars
<1> QED BY <1>1, <1>2, <1>3, <1>4, <1>5, <1>6, <1>7, <1>8, <1>9 DEF LifeNext

\* No queue that implements the lifecycle shows a reader a step back or a second
\* verdict (queue.go:59), whichever jobs it loses.
THEOREM LifecycleOnlyForward == LifeSpec => OnlyForward
<1>0. LifeInit => LifeInv
  BY DEF LifeInit, LifeInv, StatusInQueue
<1>1. ASSUME LifeInv, [LifeNext]_lifeVars, NEW t \in Token, view[t] # 0, view'[t] # 0
      PROVE  /\ Stage(view[t]) <= Stage(view'[t])
             /\ IsFinished(view[t]) => view'[t] = view[t]
  <2> USE <1>1 DEF LifeInv, Status, Stage, IsFinished, StatusInQueue, StatusProcessing
  <2>1. ASSUME NEW u \in Token, Post(u) \/ Remove(u) \/ Publish(u)
        PROVE  /\ Stage(view[t]) <= Stage(view'[t])
               /\ IsFinished(view[t]) => view'[t] = view[t]
    BY <2>1 DEF Post, Remove, Publish
  <2>2. ASSUME NEW u \in Token, NEW s \in Status, Start(u) \/ Decide(u, s)
        PROVE  /\ Stage(view[t]) <= Stage(view'[t])
               /\ IsFinished(view[t]) => view'[t] = view[t]
    BY <2>2 DEF Start, Decide, Advance
  <2>3. ASSUME view' = view
        PROVE  /\ Stage(view[t]) <= Stage(view'[t])
               /\ IsFinished(view[t]) => view'[t] = view[t]
    BY <2>3
  <2>4. \/ \E u \in Token : Post(u) \/ Remove(u) \/ Publish(u)
        \/ \E u \in Token, s \in Status : Start(u) \/ Decide(u, s)
        \/ view' = view
    BY DEF LifeNext, lifeVars, Accept, Take, Release
  <2> QED BY <2>1, <2>2, <2>3, <2>4
<1>2. LifeInv /\ [LifeNext]_lifeVars =>
        [\A t \in Token : view[t] # 0 /\ view'[t] # 0 =>
          /\ Stage(view[t]) <= Stage(view'[t])
          /\ IsFinished(view[t]) => view'[t] = view[t]]_lifeVars
  BY <1>1
<1> QED BY <1>0, <1>2, LifeInductive, PTL DEF LifeSpec, OnlyForward
=============================================================================
