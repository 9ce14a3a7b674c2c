--------------------------- MODULE ExecutorProofs ---------------------------
(***************************************************************************)
(* XInv is an invariant of Executor, for any number of workers and boxes,  *)
(* any archives, limits and exit codes; the properties of an execution     *)
(* follow.  The sandboxes are treated once per way an action may change    *)
(* them: not at all, one more, one less.                                   *)
(***************************************************************************)
EXTENDS ExecutorInvariant, TLAPS

USE DEF poolVars, boxVars, zipVars, cmdVars, GoTo, At, Proceed, Boxes

-----------------------------------------------------------------------------
(* Tickets and sandboxes. *)

\* Two tickets less than a round apart have different boxes (isolate.go:34).
LEMMA TicketsDiffer ==
    ASSUME NEW a \in Nat, NEW b \in Nat, a < b, b - a < BoxIds
    PROVE  BoxID(a) # BoxID(b)
<1> DEFINE p == a \div BoxIds
           q == b \div BoxIds
<1>1. BoxIds \in Nat /\ BoxIds > 0
  BY ExecutorAssumption
<1>2. /\ p \in Int /\ q \in Int
      /\ a = BoxIds * p + (a % BoxIds) /\ b = BoxIds * q + (b % BoxIds)
  BY <1>1
<1> SUFFICES ASSUME a % BoxIds = b % BoxIds
             PROVE  FALSE
  BY DEF BoxID
<1> HIDE DEF p, q
<1>3. b - a = BoxIds * (q - p)
  BY <1>1, <1>2
<1>4. q - p \in Int
  BY <1>2
<1>5. CASE q - p <= 0
  <2>1. BoxIds * (q - p) <= 0
    BY <1>1, <1>4, <1>5
  <2> QED BY <2>1, <1>3
<1>6. CASE q - p >= 1
  <2>1. BoxIds * (q - p) >= BoxIds
    BY <1>1, <1>4, <1>6
  <2> QED BY <2>1, <1>1, <1>3
<1> QED BY <1>4, <1>5, <1>6

LEMMA NewTicketDiffers ==
    ASSUME NEW c \in Nat, NEW n \in 1 .. c, c + 1 - n < BoxIds
    PROVE  BoxID(n) # BoxID(c + 1)
<1>1. n \in Nat /\ c + 1 \in Nat /\ n < c + 1
  OBVIOUS
<1> QED BY <1>1, TicketsDiffer

\* What the operating system knows a sandbox by: a box by its id, the others by
\* the worker's own name.
LEMMA SandboxFacts ==
    /\ Sandbox(<<>>) = <<>>
    /\ \A w : Sandbox(<<"dir", w>>) = <<"dir", w>> /\ Sandbox(<<"container", w>>) = <<"container", w>>
    /\ \A n : Sandbox(<<"box", n>>) = <<"box", BoxID(n)>>
BY DEF Sandbox

LEMMA PairFacts ==
    /\ \A a, b : <<a, b>> # <<>>
    /\ \A a, b, c, d : <<a, b>> = <<c, d>> => a = c /\ b = d
OBVIOUS

\* A worker has nothing, a directory or a container of its own name, or a box.
LEMMA BoxCases ==
    ASSUME Boxes, NEW w \in Worker, box[w] # <<>>
    PROVE  \/ box[w] = <<"dir", w>> /\ Sandbox(box[w]) = <<"dir", w>>
           \/ box[w] = <<"container", w>> /\ Sandbox(box[w]) = <<"container", w>>
           \/ \E n \in 1 .. counter : /\ box[w] = <<"box", n>> /\ Sandbox(box[w]) = <<"box", BoxID(n)>>
                                      /\ ~lapped => counter - n < BoxIds
BY SandboxFacts DEF Held, Apart, Recent

\* Workers that have sandboxes have different ones.
LEMMA SandboxesDiffer ==
    ASSUME TypeOK, Boxes, ~lapped, NEW v \in Worker, NEW w \in Worker,
           box[v] # <<>>, Sandbox(box[v]) = Sandbox(box[w])
    PROVE  v = w
<1>1. box[w] # <<>>
  <2>1. Sandbox(box[v]) # <<>>
    BY BoxCases, PairFacts
  <2> QED BY <2>1, SandboxFacts
<1>2. CASE box[v] = <<"dir", v>> \/ box[v] = <<"container", v>>
  BY <1>1, <1>2, BoxCases, PairFacts, SandboxFacts
<1>3. CASE \E n \in 1 .. counter : box[v] = <<"box", n>>
  <2>1. PICK m \in 1 .. counter : /\ box[v] = <<"box", m>> /\ Sandbox(box[v]) = <<"box", BoxID(m)>>
                                  /\ counter - m < BoxIds
    BY <1>3, BoxCases, PairFacts
  <2>2. PICK n \in 1 .. counter : /\ box[w] = <<"box", n>> /\ Sandbox(box[w]) = <<"box", BoxID(n)>>
                                  /\ counter - n < BoxIds
    BY <1>1, <2>1, BoxCases, PairFacts
  <2>3. BoxID(m) = BoxID(n)
    BY <2>1, <2>2, PairFacts
  <2>4. m \in Nat /\ n \in Nat /\ BoxIds \in Nat /\ counter \in Nat
    BY ExecutorAssumption DEF TypeOK
  <2>5. m = n
    BY <2>1, <2>2, <2>3, <2>4, TicketsDiffer
  <2> QED BY <2>1, <2>2, <2>5 DEF Held, Apart, Recent
<1> QED BY <1>2, <1>3, BoxCases

\* A step that opens and closes no sandbox.
LEMMA BoxesStay ==
    ASSUME TypeOK, Boxes, UNCHANGED <<counter, sandboxes, stranded, lapped, box>>,
           \A w \in Worker : pc'[w] \in Outside <=> pc[w] \in Outside
    PROVE  Boxes'
BY DEF Held, Apart, Recent, Owned, Sandbox

\* Return of an execution (isolate.go:51, docker.go:114, process.go:39): its own
\* sandbox is the only one that goes.
LEMMA BoxesReturn ==
    ASSUME TypeOK, Boxes, NEW w \in Worker, UNCHANGED <<counter, stranded, lapped>>,
           pc' = [pc EXCEPT ![w] = "Idle"], box' = [box EXCEPT ![w] = <<>>],
           sandboxes' = sandboxes \ {Sandbox(box[w])}
    PROVE  Boxes'
<1>1. /\ box'[w] = <<>> /\ \A v \in Worker : v # w => box'[v] = box[v] /\ pc'[v] = pc[v]
      /\ pc'[w] = "Idle"
  BY DEF TypeOK, Held
<1>2. ASSUME ~lapped
      PROVE  sandboxes' \ stranded' = Owned'
  <2>1. sandboxes \ stranded = {Sandbox(box[v]) : v \in {u \in Worker : box[u] # <<>>}}
    BY <1>2 DEF Recent, Owned
  <2>2. Owned' = {Sandbox(box'[v]) : v \in {u \in Worker : box'[u] # <<>>}}
    BY DEF Owned, Sandbox
  <2>3. \A v \in Worker : box[v] # <<>> /\ Sandbox(box[v]) = Sandbox(box[w]) => v = w
    BY <1>2, SandboxesDiffer
  <2> QED BY <1>1, <2>1, <2>2, <2>3
<1>3. /\ \A v \in Worker : /\ box'[v] \in {<<>>, <<"dir", v>>, <<"container", v>>}
                                            \cup {<<"box", n>> : n \in 1 .. counter'}
                           /\ box'[v] = <<>> <=> pc'[v] \in Outside
  BY <1>1 DEF Held, Outside
<1>4. \A u, v \in Worker : box'[u] = box'[v] /\ box'[u] # <<>> => u = v
  BY <1>1 DEF Held, Apart, Recent
<1>5. ~lapped => \A v \in Worker, n \in 1 .. counter : box'[v] = <<"box", n>> => counter - n < BoxIds
  BY <1>1, PairFacts DEF Held, Apart, Recent
<1>6. DOMAIN box' = Worker
  BY DEF Held, Apart, Recent
<1> QED BY <1>2, <1>3, <1>4, <1>5, <1>6 DEF Held, Apart, Recent

\* A ticket is drawn (isolate.go:35): those in use stay less than a round behind,
\* unless a worker was lapped.
LEMMA BoxesCount ==
    ASSUME TypeOK, Boxes, counter' = counter + 1, lapped' = (lapped \/ Lap), ~lapped'
    PROVE  ~lapped /\ \A w \in Worker, n \in 1 .. counter : box[w] = <<"box", n>> => counter' - n < BoxIds
<1>1. ~lapped /\ ~Lap
  OBVIOUS
<1> SUFFICES ASSUME NEW w \in Worker, NEW n \in 1 .. counter, box[w] = <<"box", n>>
             PROVE  counter' - n < BoxIds
  BY <1>1
<1>2. box[w] # <<>> /\ box[w][1] = "box" /\ box[w][2] = n
  BY PairFacts
<1>3. ~(counter + 1 - n >= BoxIds)
  BY <1>1, <1>2 DEF Lap
<1> QED BY <1>3, ExecutorAssumption DEF TypeOK

\* An execution gets a sandbox (isolate.go:43, docker.go:104, process.go:36): a
\* directory or container, or the box of a new ticket.
LEMMA BoxesAcquire ==
    ASSUME TypeOK, Boxes, NEW w \in Worker, NEW b, NEW l \in Label \ Outside, pc[w] = "Open",
           pc' = [pc EXCEPT ![w] = l], box' = [box EXCEPT ![w] = b],
           sandboxes' = sandboxes \cup {Sandbox(b)}, stranded' = stranded \ {Sandbox(b)},
           \/ b \in {<<"dir", w>>, <<"container", w>>} /\ UNCHANGED <<counter, lapped>>
           \/ b = <<"box", counter + 1>> /\ counter' = counter + 1 /\ lapped' = (lapped \/ Lap)
    PROVE  Boxes'
<1>1. /\ box'[w] = b /\ \A v \in Worker : v # w => box'[v] = box[v] /\ pc'[v] = pc[v]
      /\ pc'[w] = l /\ l \notin Outside /\ b # <<>> /\ box[w] = <<>>
      /\ DOMAIN box' = Worker
  <2>1. b # <<>>
    BY PairFacts
  <2>2. DOMAIN box = Worker /\ box[w] = <<>> /\ l \notin Outside
    BY DEF Held, Outside
  <2>3. box'[w] = b /\ DOMAIN box' = Worker /\ \A v \in Worker : v # w => box'[v] = box[v]
    BY <2>2
  <2>4. pc'[w] = l /\ \A v \in Worker : v # w => pc'[v] = pc[v]
    BY DEF TypeOK
  <2> QED BY <2>1, <2>2, <2>3, <2>4
<1>2. counter' \in Nat /\ counter <= counter' /\ counter \in Nat
  BY DEF TypeOK
<1>3. ASSUME ~lapped'
      PROVE  sandboxes' \ stranded' = Owned'
  <2>1. sandboxes \ stranded = {Sandbox(box[v]) : v \in {u \in Worker : box[u] # <<>>}}
    BY <1>3 DEF Recent, Owned
  <2>2. Owned' = {Sandbox(box'[v]) : v \in {u \in Worker : box'[u] # <<>>}}
    BY DEF Owned, Sandbox
  <2> QED BY <1>1, <2>1, <2>2
<1>4. \A v \in Worker : /\ box'[v] \in {<<>>, <<"dir", v>>, <<"container", v>>}
                                          \cup {<<"box", n>> : n \in 1 .. counter'}
                        /\ box'[v] = <<>> <=> pc'[v] \in Outside
  <2>1. b \in {<<>>, <<"dir", w>>, <<"container", w>>} \cup {<<"box", n>> : n \in 1 .. counter'}
    BY <1>2
  <2>2. 1 .. counter \subseteq 1 .. counter'
    BY <1>2
  <2> QED BY <1>1, <2>1, <2>2 DEF Held, Apart, Recent
<1>5. ASSUME NEW v \in Worker, v # w
      PROVE  box[v] # b
  <2>1. CASE b \in {<<"dir", w>>, <<"container", w>>}
    BY <1>5, <2>1, PairFacts DEF Held, Apart, Recent
  <2>2. CASE b = <<"box", counter + 1>>
    <3>1. \A n \in 1 .. counter : n # counter + 1
      BY <1>2
    <3> QED BY <2>2, <3>1, PairFacts DEF Held, Apart, Recent
  <2> QED BY <2>1, <2>2
<1>6. \A u, v \in Worker : box'[u] = box'[v] /\ box'[u] # <<>> => u = v
  BY <1>1, <1>5 DEF Held, Apart, Recent
<1>7. ASSUME ~lapped', NEW v \in Worker, NEW n \in 1 .. counter', box'[v] = <<"box", n>>
      PROVE  counter' - n < BoxIds
  <2>1. CASE v = w
    <3>1. b = <<"box", n>>
      BY <1>1, <1>7, <2>1
    <3>2. counter' = counter + 1 /\ n = counter + 1
      BY <3>1, PairFacts
    <3> QED BY <1>2, <3>2, ExecutorAssumption
  <2>2. CASE v # w
    <3>1. box[v] = <<"box", n>> /\ n \in 1 .. counter
      BY <1>1, <1>7, <2>2, PairFacts DEF Held, Apart, Recent
    <3> QED BY <1>7, <3>1, BoxesCount, PairFacts DEF Held, Apart, Recent
  <2> QED BY <2>1, <2>2
<1>8. Held'
  BY <1>1, <1>4 DEF Held
<1>9. Apart'
  BY <1>6 DEF Apart
<1>10. Recent'
  BY <1>3, <1>7 DEF Recent
<1> QED BY <1>8, <1>9, <1>10

-----------------------------------------------------------------------------
(* One execution among the others. *)

\* A step of the execution of w: nothing of the others changes.
OnlyAt(w) ==
    \A v \in Worker : v # w =>
        /\ pc'[v] = pc[v] /\ job'[v] = job[v] /\ using'[v] = using[v]
        /\ disk'[v] = disk[v] /\ total'[v] = total[v]
        /\ end'[v] = end[v] /\ built'[v] = built[v] /\ verdict'[v] = verdict[v]
        /\ v \in running' <=> v \in running
        /\ v \in lost' <=> v \in lost

\* It is enough to look at the execution that made the step.
LEMMA StepPreserves ==
    ASSUME XInv, NEW w \in Worker, OnlyAt(w), TypeOK', Boxes', Unpacking(w)', Executing(w)'
    PROVE  XInv'
<1> SUFFICES ASSUME NEW v \in Worker, v # w
             PROVE  Unpacking(v)' /\ Executing(v)'
  BY DEF XInv
<1>1. Unpacking(v)'
  <2>1. /\ pc'[v] = pc[v] /\ job'[v] = job[v] /\ disk'[v] = disk[v] /\ total'[v] = total[v]
        /\ v \in lost' <=> v \in lost
    BY DEF OnlyAt
  <2>2. Unpacking(v)
    BY DEF XInv
  <2>3. Whole(v)'
    BY <2>1, <2>2 DEF Unpacking, Whole, Archived
  <2> QED BY <2>1, <2>2, <2>3 DEF Unpacking, Archived
<1>2. Executing(v)'
  BY DEF XInv, Executing, OnlyAt, Earned
<1> QED BY <1>1, <1>2

\* The deferred cleanup (isolate.go:51, docker.go:114, process.go:39) runs on every
\* way out: a verdict that is earned may be returned.
LEMMA ReturnPreserves ==
    ASSUME XInv, NEW w \in Worker, NEW s \in Outcome, Return(w, s), pc[w] # "Idle",
           disk' \in [Worker -> Seq(Nat)], total' \in [Worker -> Nat],
           running' \subseteq Worker, lost' \subseteq Worker,
           end' \in [Worker -> Ending], built' \in [Worker -> BOOLEAN],
           OnlyAt(w), w \notin running', Archived(w) => total'[w] <= MaxZipSize + 1,
           w \notin lost' => Earned(w)'
    PROVE  XInv'
<1>1. /\ pc' = [pc EXCEPT ![w] = "Idle"] /\ verdict' = [verdict EXCEPT ![w] = s]
      /\ UNCHANGED <<poolVars, counter, stranded, lapped, using, job>>
      /\ sandboxes' = sandboxes \ {Sandbox(box[w])} /\ box' = [box EXCEPT ![w] = <<>>]
  BY DEF Return
<1>2. TypeOK'
  BY <1>1 DEF XInv, TypeOK, Label
<1>3. Boxes'
  BY <1>1, BoxesReturn DEF XInv
<1>4. pc'[w] = "Idle" /\ job'[w] = job[w]
  BY <1>1 DEF XInv, TypeOK
<1>5. Unpacking(w)'
  BY <1>4 DEF Unpacking, Empty, Whole, Archived, Command
<1>6. Executing(w)'
  BY <1>4 DEF Executing
<1> QED BY <1>2, <1>3, <1>5, <1>6, StepPreserves

\* A way out before the program was started (parser.go has no part in it): an
\* internal or a compilation error says nothing of the program.
LEMMA EarlyPreserves ==
    ASSUME XInv, NEW w \in Worker, NEW s \in {StatusInternalError, StatusCompilationError},
           Return(w, s), pc[w] # "Idle",
           disk' \in [Worker -> Seq(Nat)], total' \in [Worker -> Nat], built' \in [Worker -> BOOLEAN],
           \A v \in Worker : v # w => disk'[v] = disk[v] /\ total'[v] = total[v] /\ built'[v] = built[v],
           running' = running \ {w}, lost' \in {lost, lost \cup {w}}, end' = end,
           Archived(w) => total'[w] <= MaxZipSize + 1
    PROVE  XInv'
<1>1. s \in Outcome
  BY DEF Outcome, Status, IsFinished, StatusProcessing, StatusInternalError, StatusCompilationError
<1>2. /\ running' \subseteq Worker /\ lost' \subseteq Worker /\ end' \in [Worker -> Ending]
      /\ w \notin running'
  BY DEF XInv, TypeOK
<1>3. OnlyAt(w)
  BY DEF XInv, TypeOK, OnlyAt, Return
<1>4. verdict'[w] = s /\ end'[w].how = "unstarted"
  BY DEF XInv, TypeOK, Return, Executing
<1>5. Earned(w)'
  BY <1>4 DEF Earned, StatusInternalError, StatusCompilationError, StatusAccepted, StatusWrongAnswer
<1> QED BY <1>1, <1>2, <1>3, <1>5, ReturnPreserves

\* Execute goes on with a command (docker.go:163, isolate.go:99, process.go:94):
\* what it runs on is whole, and built if it had to be.
LEMMA MovePreserves ==
    ASSUME XInv, NEW w \in Worker, NEW l \in Command, Proceed(w, l), pc[w] \notin Outside,
           disk' \in [Worker -> Seq(Nat)], total' = total, built' \in [Worker -> BOOLEAN],
           \A v \in Worker : v # w => disk'[v] = disk[v] /\ built'[v] = built[v],
           running' = running \ {w}, lost' \in {lost, lost \cup {w}}, end' = end,
           Archived(w) =>
               /\ total[w] <= MaxZipSize + 1
               /\ w \notin lost' => disk'[w] = [i \in 1 .. Len(job[w].archive) |-> Size(job[w].archive[i])],
           l = "Run" /\ w \notin lost' /\ job[w].compiles => built'[w] \/ using[w] = "isolate"
    PROVE  XInv'
<1>1. /\ pc' = [pc EXCEPT ![w] = l]
      /\ UNCHANGED <<engine, cancelled, panicked, counter, sandboxes, stranded, lapped, box, using>>
      /\ UNCHANGED <<job, verdict>>
  OBVIOUS
<1>2. TypeOK'
  BY <1>1 DEF XInv, TypeOK, Command, Label
<1>3. Boxes'
  <2>1. \A v \in Worker : pc'[v] \in Outside <=> pc[v] \in Outside
    BY <1>1 DEF XInv, TypeOK, Outside, Command
  <2> QED BY <1>1, <2>1, BoxesStay DEF XInv
<1>4. pc'[w] = l /\ OnlyAt(w)
  BY <1>1 DEF XInv, TypeOK, OnlyAt
<1>5. Unpacking(w)'
  BY <1>1, <1>4 DEF Unpacking, Empty, Whole, Archived, Command, Size
<1>6. Executing(w)'
  BY <1>1, <1>4 DEF XInv, Executing, Command, Outside
<1> QED BY <1>2, <1>3, <1>4, <1>5, <1>6, StepPreserves

\* Only a worker at a command has one under way.
LEMMA NothingRuns ==
    ASSUME XInv, NEW w \in Worker, pc[w] \notin Command
    PROVE  w \notin running /\ running = running \ {w}
BY DEF XInv, Executing

\* Such a way out that has changed nothing else.
LEMMA RefusedPreserves ==
    ASSUME XInv, NEW w \in Worker, NEW s \in {StatusInternalError, StatusCompilationError},
           Return(w, s), pc[w] # "Idle", pc[w] \notin Command, UNCHANGED <<zipVars, cmdVars>>
    PROVE  XInv'
<1>1. /\ disk' \in [Worker -> Seq(Nat)] /\ total' \in [Worker -> Nat] /\ built' \in [Worker -> BOOLEAN]
      /\ \A v \in Worker : v # w => disk'[v] = disk[v] /\ total'[v] = total[v] /\ built'[v] = built[v]
      /\ running' = running \ {w} /\ lost' \in {lost, lost \cup {w}} /\ end' = end
  BY NothingRuns DEF XInv, TypeOK
<1>2. Archived(w) => total'[w] <= MaxZipSize + 1
  BY DEF XInv, Unpacking, Whole
<1> QED BY <1>1, <1>2, EarlyPreserves

-----------------------------------------------------------------------------
(* Opening the sandbox. *)

LEMMA BeginPreserves ==
    ASSUME XInv, NEW w \in Worker, NEW s \in Submissions, Begin(w, s)
    PROVE  XInv'
<1>0. [how |-> "unstarted", code |-> 0] \in Ending /\ <<>> \in Seq(Nat) /\ "Open" \in Label
  BY DEF Ending, Label
<1>1. TypeOK'
  BY <1>0 DEF XInv, TypeOK, Begin, Engine
<1>2. Boxes'
  <2>1. \A v \in Worker : pc'[v] \in Outside <=> pc[v] \in Outside
    BY DEF XInv, TypeOK, Outside, Begin
  <2> QED BY <2>1, BoxesStay DEF XInv, Begin
<1>3. OnlyAt(w)
  BY DEF XInv, TypeOK, OnlyAt, Begin
<1>4. /\ pc'[w] = "Open" /\ disk'[w] = <<>> /\ total'[w] = 0 /\ w \notin running'
      /\ end'[w].how = "unstarted" /\ verdict'[w] = 0
  BY NothingRuns DEF XInv, TypeOK, Begin, Command
<1>5. Unpacking(w)' /\ Executing(w)'
  BY <1>4, ExecutorAssumption DEF Unpacking, Executing, Whole, Command
<1> QED BY <1>1, <1>2, <1>3, <1>5, StepPreserves

LEMMA MakeBoxDirFailsPreserves ==
    ASSUME XInv, NEW w \in Worker, MakeBoxDirFails(w)
    PROVE  XInv'
<1>1. pc[w] = "Open" /\ pc[w] \notin Command
  BY DEF MakeBoxDirFails, Command
<1> QED BY <1>1, RefusedPreserves DEF MakeBoxDirFails

\* A sandbox is there: the files come next, or the start of the container.
LEMMA AcquirePreserves ==
    ASSUME XInv, NEW w \in Worker, NEW b, NEW l \in {"Started", "Files"}, At(w, "Open"),
           Acquire(w, b), GoTo(w, l),
           \/ b \in {<<"dir", w>>, <<"container", w>>} /\ UNCHANGED <<counter, lapped>>
           \/ b = <<"box", counter + 1>> /\ counter' = counter + 1 /\ lapped' = (lapped \/ Lap)
    PROVE  XInv'
<1>1. TypeOK'
  <2>1. counter' \in Nat /\ lapped' \in BOOLEAN
    <3>1. CASE UNCHANGED <<counter, lapped>>
      BY <3>1 DEF XInv, TypeOK
    <3>2. CASE counter' = counter + 1 /\ lapped' = (lapped \/ Lap)
      BY <3>2 DEF XInv, TypeOK
    <3> QED BY <3>1, <3>2
  <2>2. pc' \in [Worker -> Label]
    BY DEF XInv, TypeOK, Label
  <2> QED BY <2>1, <2>2 DEF XInv, TypeOK, Acquire
<1>2. Boxes'
  <2>1. l \in Label \ Outside
    BY DEF Label, Outside
  <2> QED BY <2>1, BoxesAcquire DEF XInv, Acquire
<1>3. OnlyAt(w)
  BY DEF XInv, TypeOK, OnlyAt, Acquire
<1>4. pc'[w] = l
  BY DEF XInv, TypeOK
<1>5. Unpacking(w)' /\ Executing(w)'
  BY <1>4, NothingRuns DEF XInv, Unpacking, Executing, Whole, Archived, Acquire, Empty, Command
<1> QED BY <1>1, <1>2, <1>3, <1>5, StepPreserves

\* An opening that fails (isolate.go:43, docker.go:104) may leave a container without
\* a name among the workers, or the box of a new ticket: nobody else has either.
LEMMA OpeningFailsPreserves ==
    ASSUME XInv, NEW w \in Worker, NEW b, At(w, "Open"), OpeningFails(w, b),
           \/ b = <<"orphan", "container">> /\ UNCHANGED <<counter, lapped>>
           \/ b = Sandbox(<<"box", counter + 1>>) /\ counter' = counter + 1 /\ lapped' = (lapped \/ Lap)
    PROVE  XInv'
<1>1. TypeOK'
  <2>1. counter' \in Nat /\ lapped' \in BOOLEAN
    <3>1. CASE UNCHANGED <<counter, lapped>>
      BY <3>1 DEF XInv, TypeOK
    <3>2. CASE counter' = counter + 1 /\ lapped' = (lapped \/ Lap)
      BY <3>2 DEF XInv, TypeOK
    <3> QED BY <3>1, <3>2
  <2>2. pc' \in [Worker -> Label] /\ verdict' \in [Worker -> Outcome \cup {0}]
    BY DEF XInv, TypeOK, Label, OpeningFails, Outcome, Status, IsFinished, StatusProcessing,
           StatusInternalError
  <2> QED BY <2>1, <2>2 DEF XInv, TypeOK, OpeningFails
<1>2. Boxes'
  <2>0. box' = box /\ counter \in Nat /\ counter <= counter' /\ counter' \in Nat
    BY <1>1 DEF XInv, TypeOK, OpeningFails
  <2>1. \A v \in Worker : pc'[v] \in Outside <=> pc[v] \in Outside
    BY DEF XInv, TypeOK, Outside, OpeningFails
  <2>2. Held'
    <3>1. 1 .. counter \subseteq 1 .. counter'
      BY <2>0
    <3> QED BY <2>0, <2>1, <3>1 DEF XInv, Held
  <2>3. Apart'
    BY <2>0 DEF XInv, Apart
  <2>4. Recent'
    <3> SUFFICES ASSUME ~lapped'
                 PROVE  Recent'
      BY DEF Recent
    <3>1. ~lapped /\ \A v \in Worker, n \in 1 .. counter : box[v] = <<"box", n>> => counter' - n < BoxIds
      <4>1. CASE UNCHANGED <<counter, lapped>>
        BY <4>1 DEF XInv, Recent
      <4>2. CASE counter' = counter + 1 /\ lapped' = (lapped \/ Lap)
        BY <4>2, BoxesCount DEF XInv
      <4> QED BY <4>1, <4>2
    <3>2. ASSUME NEW v \in Worker, NEW n \in 1 .. counter', box[v] = <<"box", n>>
          PROVE  n \in 1 .. counter
      <4>1. /\ box[v] # <<>> /\ box[v] # <<"dir", v>> /\ box[v] # <<"container", v>>
        BY <3>2, PairFacts
      <4>2. PICK m \in 1 .. counter : box[v] = <<"box", m>>
        BY <4>1, BoxCases DEF XInv
      <4> QED BY <3>2, <4>2, PairFacts
    <3>3. ASSUME NEW v \in Worker, box[v] # <<>>
          PROVE  Sandbox(box[v]) # b
      <4>1. CASE b = <<"orphan", "container">>
        BY <3>3, <4>1, BoxCases, PairFacts DEF XInv
      <4>2. CASE b = Sandbox(<<"box", counter + 1>>) /\ counter' = counter + 1
        <5>1. b = <<"box", BoxID(counter + 1)>>
          BY <4>2, SandboxFacts
        <5>2. CASE \E n \in 1 .. counter : box[v] = <<"box", n>>
          <6>1. PICK n \in 1 .. counter : box[v] = <<"box", n>>
            BY <5>2
          <6>2. counter + 1 - n < BoxIds
            <7>1. counter' - n < BoxIds
              BY <3>1, <6>1
            <7> QED BY <2>0, <4>2, <7>1, ExecutorAssumption
          <6>3. BoxID(n) # BoxID(counter + 1)
            BY <2>0, <6>2, NewTicketDiffers
          <6> QED BY <5>1, <6>1, <6>3, SandboxFacts, PairFacts
        <5>3. CASE ~\E n \in 1 .. counter : box[v] = <<"box", n>>
          BY <3>3, <5>1, <5>3, BoxCases, PairFacts DEF XInv
        <5> QED BY <5>2, <5>3
      <4> QED BY <4>1, <4>2
    <3>4. sandboxes' \ stranded' = Owned'
      <4>1. sandboxes \ stranded = {Sandbox(box[v]) : v \in {u \in Worker : box[u] # <<>>}}
        BY <3>1 DEF XInv, Recent, Owned
      <4>2. Owned' = {Sandbox(box[v]) : v \in {u \in Worker : box[u] # <<>>}}
        BY <2>0 DEF Owned, Sandbox
      <4>3. b \notin sandboxes \ stranded
        BY <3>3, <4>1
      <4>4. PICK left \in {{}, {b}} : sandboxes' = sandboxes \cup left /\ stranded' = stranded \cup left
        BY DEF OpeningFails
      <4>5. sandboxes' \ stranded' = sandboxes \ stranded
        BY <4>3, <4>4
      <4> QED BY <4>1, <4>2, <4>5
    <3> QED BY <2>0, <3>1, <3>2, <3>4 DEF Recent
  <2> QED BY <2>2, <2>3, <2>4
<1>3. OnlyAt(w)
  BY DEF XInv, TypeOK, OnlyAt, OpeningFails
<1>4. pc'[w] = "Idle" /\ verdict'[w] = StatusInternalError
  BY DEF XInv, TypeOK, OpeningFails
<1>5. total[w] = 0 /\ w \notin running /\ end[w].how = "unstarted"
  BY NothingRuns DEF XInv, Unpacking, Executing, Empty, Command
<1>6. Unpacking(w)'
  BY <1>4, <1>5, ExecutorAssumption DEF Unpacking, Whole, Empty, Command, OpeningFails
<1>7. Executing(w)'
  BY <1>4, <1>5 DEF Executing, Earned, OpeningFails, StatusInternalError, StatusCompilationError,
                    StatusAccepted, StatusWrongAnswer
<1> QED BY <1>1, <1>2, <1>3, <1>6, <1>7, StepPreserves

LEMMA ImageMissingPreserves ==
    ASSUME XInv, NEW w \in Worker, ImageMissing(w)
    PROVE  XInv'
<1>1. TypeOK'
  BY DEF XInv, TypeOK, Engine, ImageMissing
<1>2. Boxes'
  BY BoxesStay DEF XInv, ImageMissing
<1>3. OnlyAt(w)
  BY DEF XInv, TypeOK, OnlyAt, ImageMissing
<1>4. pc'[w] = "Open"
  BY DEF ImageMissing
<1>5. Unpacking(w)' /\ Executing(w)'
  BY <1>4, NothingRuns DEF XInv, Unpacking, Executing, Whole, Archived, Empty, Command, ImageMissing
<1> QED BY <1>1, <1>2, <1>3, <1>5, StepPreserves

\* From one place before the first command to another (docker.go:120, docker.go:131,
\* isolate.go:62, process.go:50): the sandbox is there and nothing is unpacked yet.
LEMMA AdvancePreserves ==
    ASSUME XInv, NEW w \in Worker, NEW l \in {"Files", "Extract"}, GoTo(w, l), pc[w] \in {"Started", "Files"},
           UNCHANGED <<poolVars, boxVars, job, verdict, zipVars, running, end, built>>,
           lost' \in {lost, lost \cup {w}}, l = "Extract" => Archived(w)
    PROVE  XInv'
<1>1. TypeOK'
  BY DEF XInv, TypeOK, Label
<1>2. Boxes'
  <2>1. \A v \in Worker : pc'[v] \in Outside <=> pc[v] \in Outside
    BY DEF XInv, TypeOK, Outside
  <2> QED BY <2>1, BoxesStay DEF XInv
<1>3. OnlyAt(w)
  BY DEF XInv, TypeOK, OnlyAt
<1>4. pc'[w] = l /\ disk[w] = <<>> /\ total[w] = 0 /\ w \notin running
  BY NothingRuns DEF XInv, TypeOK, Unpacking, Empty, Command
<1>5. Unpacking(w)'
  <2>1. Archived(w) => job[w].archive \in Seq(Entry) /\ Len(job[w].archive) \in Nat
    BY ExecutorAssumption DEF XInv, TypeOK, Archived, Shape
  <2> QED BY <1>4, <2>1, ExecutorAssumption DEF Unpacking, Whole, Archived, Empty, Command
<1>6. Executing(w)'
  BY <1>4 DEF XInv, Executing, Command
<1> QED BY <1>1, <1>2, <1>3, <1>5, <1>6, StepPreserves

LEMMA ContainerStartPreserves ==
    ASSUME XInv, NEW w \in Worker, ContainerStart(w)
    PROVE  XInv'
<1>1. total[w] = 0 /\ pc[w] = "Started" /\ running = running \ {w}
  BY NothingRuns DEF XInv, Unpacking, Empty, ContainerStart, Command
<1>2. CASE GoTo(w, "Files") /\ UNCHANGED <<poolVars, boxVars, job, verdict>>
  BY <1>1, <1>2, AdvancePreserves DEF ContainerStart
<1>3. CASE Return(w, StatusInternalError)
  BY <1>1, <1>3, RefusedPreserves DEF ContainerStart, Command
<1> QED BY <1>2, <1>3 DEF ContainerStart

-----------------------------------------------------------------------------
(* Source and additional files. *)

\* An archive is a sequence of entries, with a size each.
LEMMA ArchiveFacts ==
    ASSUME TypeOK, NEW w \in Worker, Archived(w)
    PROVE  /\ job[w].archive \in Seq(Entry) /\ Len(job[w].archive) \in Nat
           /\ \A i \in 1 .. Len(job[w].archive) :
                 /\ job[w].archive[i] \in Entry
                 /\ job[w].archive[i].size \in Nat /\ Size(job[w].archive[i]) \in Nat
<1>1. job[w].archive \in Seq(Entry)
  BY ExecutorAssumption DEF TypeOK, Shape, Archived
<1>2. Len(job[w].archive) \in Nat /\ \A i \in 1 .. Len(job[w].archive) : job[w].archive[i] \in Entry
  BY <1>1
<1>3. \A e \in Entry : e.size \in Nat /\ Size(e) \in Nat
  BY DEF Entry, Size
<1> QED BY <1>1, <1>2, <1>3

\* The first command (docker.go:163, isolate.go:99, process.go:94) is the program
\* only when there is nothing to compile.
LEMMA AfterFilesMoves ==
    ASSUME NEW w \in Worker, AfterFiles(w)
    PROVE  \E l \in Command : GoTo(w, l) /\ (l = "Run" => ~job[w].compiles)
BY DEF AfterFiles, Command

LEMMA WriteFilesPreserves ==
    ASSUME XInv, NEW w \in Worker, WriteFiles(w)
    PROVE  XInv'
<1>1. pc[w] = "Files" /\ UNCHANGED zipVars /\ pc[w] \notin Command /\ pc[w] \notin Outside
  BY DEF WriteFiles, Command, Outside
<1>2. CASE Return(w, StatusInternalError) /\ UNCHANGED cmdVars
  BY <1>1, <1>2, RefusedPreserves
<1>3. ASSUME IF Archived(w) THEN GoTo(w, "Extract") ELSE AfterFiles(w),
             IF using[w] = "docker" /\ ~job[w].multi THEN MayLose(w) ELSE UNCHANGED cmdVars,
             UNCHANGED <<poolVars, boxVars, job, verdict>>
      PROVE  XInv'
  <2>1. lost' \in {lost, lost \cup {w}} /\ UNCHANGED <<running, end, built>>
    BY <1>3 DEF MayLose
  <2>2. CASE Archived(w)
    BY <1>1, <1>3, <2>1, <2>2, AdvancePreserves
  <2>3. CASE ~Archived(w)
    <3>1. PICK l \in Command : GoTo(w, l) /\ (l = "Run" => ~job[w].compiles)
      BY <1>3, <2>3, AfterFilesMoves
    <3>2. Proceed(w, l)
      BY <1>3, <3>1
    <3>3. /\ disk' \in [Worker -> Seq(Nat)] /\ built' \in [Worker -> BOOLEAN]
          /\ total' = total /\ end' = end /\ running' = running \ {w}
          /\ \A v \in Worker : v # w => disk'[v] = disk[v] /\ built'[v] = built[v]
      BY <1>1, <2>1, NothingRuns DEF XInv, TypeOK
    <3> QED BY <1>1, <2>1, <2>3, <3>1, <3>2, <3>3, MovePreserves
  <2> QED BY <2>2, <2>3
<1> QED BY <1>2, <1>3 DEF WriteFiles

\* io.Copy through the LimitReader (zip.go:71): within the limit an entry is copied
\* in full, and past it one byte more than the limit is there.
LEMMA CopiedFacts ==
    ASSUME XInv, NEW w \in Worker, NEW n \in Nat, total[w] <= MaxZipSize
    PROVE  /\ Copied(w, n) \in Nat
           /\ total[w] + Copied(w, n) <= MaxZipSize => Copied(w, n) = n
           /\ total[w] + Copied(w, n) <= MaxZipSize + 1
<1>1. total[w] \in Nat /\ MaxZipSize \in Nat
  BY ExecutorAssumption DEF XInv, TypeOK
<1> QED BY <1>1 DEF Copied

LEMMA ExtractEntryPreserves ==
    ASSUME XInv, NEW w \in Worker, ExtractEntry(w)
    PROVE  XInv'
<1> DEFINE a == job[w].archive
           e == a[Len(disk[w]) + 1]
           n == IF e.kind = "dir" THEN 0 ELSE Copied(w, e.size)
<1>1. /\ pc[w] = "Extract" /\ Archived(w) /\ total[w] <= MaxZipSize
      /\ total[w] \in Nat /\ MaxZipSize \in Nat /\ disk[w] \in Seq(Nat)
      /\ \A i \in 1 .. Len(disk[w]) : disk[w][i] = Size(a[i])
  BY ExecutorAssumption DEF XInv, TypeOK, Unpacking, ExtractEntry
<1>2. Len(disk[w]) < Len(a) /\ Len(disk[w]) \in Nat /\ Len(a) \in Nat
  BY <1>1, ArchiveFacts DEF XInv, ExtractEntry
<1>3. Len(disk[w]) + 1 \in 1 .. Len(a)
  BY <1>2
<1>4. e \in Entry /\ e.size \in Nat
  BY <1>1, <1>3, ArchiveFacts DEF XInv
<1>5. /\ n \in Nat /\ total[w] + n <= MaxZipSize + 1
      /\ total[w] + n <= MaxZipSize => n = Size(e)
  <2> HIDE DEF e
  <2>1. CASE e.kind = "dir"
    BY <1>1, <2>1 DEF Size
  <2>2. CASE e.kind # "dir"
    <3>1. n = Copied(w, e.size) /\ Size(e) = e.size
      BY <2>2 DEF Size
    <3> HIDE DEF n
    <3> QED BY <1>1, <1>4, <3>1, CopiedFacts
  <2> QED BY <2>1, <2>2
<1>6. /\ disk' = [disk EXCEPT ![w] = Append(disk[w], n)]
      /\ total' = [total EXCEPT ![w] = total[w] + n]
      /\ UNCHANGED cmdVars
      /\ IF total[w] + n > MaxZipSize THEN ExtractFails(w)
         ELSE UNCHANGED <<poolVars, boxVars, pc, job, verdict>>
  BY DEF ExtractEntry
<1> HIDE DEF n
<1>7. /\ disk' \in [Worker -> Seq(Nat)] /\ total' \in [Worker -> Nat]
      /\ total'[w] = total[w] + n /\ disk'[w] = Append(disk[w], n)
      /\ \A v \in Worker : v # w => disk'[v] = disk[v] /\ total'[v] = total[v]
  BY <1>1, <1>5, <1>6 DEF XInv, TypeOK
<1>8. CASE total[w] + n > MaxZipSize
  <2>1. PICK s \in {StatusInternalError, StatusCompilationError} : Return(w, s)
    BY <1>6, <1>8 DEF ExtractFails
  <2>2. /\ running' = running \ {w} /\ lost' = lost /\ end' = end /\ built' = built
        /\ built' \in [Worker -> BOOLEAN] /\ pc[w] # "Idle"
    BY <1>1, <1>6, NothingRuns DEF XInv, TypeOK, Command
  <2> QED BY <1>5, <1>7, <2>1, <2>2, EarlyPreserves
<1>9. CASE ~(total[w] + n > MaxZipSize)
  <2>1. UNCHANGED <<poolVars, boxVars, pc, job, verdict, cmdVars>>
    BY <1>6, <1>9
  <2>2. total[w] + n <= MaxZipSize /\ n = Size(e)
    BY <1>1, <1>5, <1>9
  <2>3. TypeOK'
    BY <1>7, <2>1 DEF XInv, TypeOK
  <2>4. Boxes'
    BY <2>1, BoxesStay DEF XInv
  <2>5. OnlyAt(w)
    BY <1>7, <2>1 DEF OnlyAt
  <2>6. Unpacking(w)'
    <3>1. /\ Len(disk'[w]) = Len(disk[w]) + 1 /\ disk'[w][Len(disk[w]) + 1] = n
          /\ \A i \in 1 .. Len(disk[w]) : disk'[w][i] = disk[w][i]
      BY <1>1, <1>5, <1>7
    <3>2. \A i \in 1 .. Len(disk'[w]) : disk'[w][i] = Size(a[i])
      <4> SUFFICES ASSUME NEW i \in 1 .. Len(disk'[w])
                   PROVE  disk'[w][i] = Size(a[i])
        OBVIOUS
      <4>1. CASE i = Len(disk[w]) + 1
        BY <2>2, <3>1, <4>1
      <4>2. CASE i \in 1 .. Len(disk[w])
        BY <1>1, <3>1, <4>2
      <4> QED BY <1>2, <3>1, <4>1, <4>2
    <3>3. Len(disk'[w]) <= Len(a)
      BY <1>2, <3>1
    <3>4. /\ pc'[w] = "Extract" /\ Archived(w)' /\ total'[w] <= MaxZipSize /\ job'[w].archive = a
          /\ total'[w] \in Nat
      BY <1>1, <1>7, <2>1, <2>2 DEF Archived
    <3> HIDE DEF a, e
    <3>5. Whole(w)'
      BY <1>1, <3>4 DEF Whole, Command
    <3> QED BY <3>2, <3>3, <3>4, <3>5 DEF Unpacking, Empty
  <2>7. Executing(w)'
    BY <2>1 DEF XInv, Executing, Earned
  <2> QED BY <2>3, <2>4, <2>5, <2>6, <2>7, StepPreserves
<1> QED BY <1>8, <1>9

LEMMA ExtractErrorPreserves ==
    ASSUME XInv, NEW w \in Worker, ExtractError(w)
    PROVE  XInv'
<1>1. PICK s \in {StatusInternalError, StatusCompilationError} : Return(w, s)
  BY DEF ExtractError, ExtractFails
<1>2. pc[w] # "Idle" /\ pc[w] \notin Command /\ UNCHANGED <<zipVars, cmdVars>>
  BY DEF ExtractError, Command
<1> QED BY <1>1, <1>2, RefusedPreserves

LEMMA ExtractDonePreserves ==
    ASSUME XInv, NEW w \in Worker, ExtractDone(w)
    PROVE  XInv'
<1>1. /\ pc[w] = "Extract" /\ pc[w] # "Idle" /\ pc[w] \notin Command /\ pc[w] \notin Outside
      /\ UNCHANGED <<zipVars, cmdVars>>
  BY DEF ExtractDone, Command, Outside
<1>2. CASE Return(w, StatusCompilationError)
  BY <1>1, <1>2, RefusedPreserves
<1>3. ASSUME AfterFiles(w), UNCHANGED <<poolVars, boxVars, job, verdict>>
      PROVE  XInv'
  <2>1. PICK l \in Command : GoTo(w, l) /\ (l = "Run" => ~job[w].compiles)
    BY <1>3, AfterFilesMoves
  <2>2. Proceed(w, l)
    BY <1>3, <2>1
  <2>3. /\ disk' \in [Worker -> Seq(Nat)] /\ built' \in [Worker -> BOOLEAN]
        /\ total' = total /\ end' = end /\ running' = running \ {w} /\ lost' = lost
        /\ \A v \in Worker : v # w => disk'[v] = disk[v] /\ built'[v] = built[v]
    BY <1>1, NothingRuns DEF XInv, TypeOK
  <2>4. disk[w] = [i \in 1 .. Len(job[w].archive) |-> Size(job[w].archive[i])]
    <3>1. /\ disk[w] \in Seq(Nat) /\ Len(disk[w]) = Len(job[w].archive)
          /\ \A i \in 1 .. Len(disk[w]) : disk[w][i] = Size(job[w].archive[i])
      BY <1>1 DEF XInv, TypeOK, Unpacking, ExtractDone
    <3> QED BY <3>1
  <2>5. Archived(w) => total[w] <= MaxZipSize + 1
    BY DEF XInv, Unpacking, Whole
  <2>6. disk'[w] = disk[w]
    BY <1>1
  <2> QED BY <1>1, <2>1, <2>2, <2>3, <2>4, <2>5, <2>6, MovePreserves
<1> QED BY <1>2, <1>3 DEF ExtractDone

\* unzip in the container (docker.go:268): a part of the archive only with an end
\* that was not seen.
LEMMA CopyPreserves ==
    ASSUME XInv, NEW w \in Worker, CopyAdditionalFiles(w)
    PROVE  XInv'
<1> DEFINE a == job[w].archive
<1>1. pc[w] = "Extract" /\ pc[w] # "Idle" /\ pc[w] \notin Command /\ pc[w] \notin Outside
  BY DEF CopyAdditionalFiles, Command, Outside
<1>2. CASE ExtractFails(w) /\ UNCHANGED <<zipVars, cmdVars>>
  <2>1. PICK s \in {StatusInternalError, StatusCompilationError} : Return(w, s)
    BY <1>2 DEF ExtractFails
  <2> QED BY <1>1, <1>2, <2>1, RefusedPreserves
<1>3. ASSUME NEW n \in 0 .. Len(a), disk' = [disk EXCEPT ![w] = [i \in 1 .. n |-> Size(a[i])]],
             lost' = IF n = Len(a) THEN lost ELSE lost \cup {w}, AfterFiles(w),
             UNCHANGED <<poolVars, boxVars, total, job, verdict, running, end, built>>
      PROVE  XInv'
  <2>0. Archived(w) /\ total[w] <= MaxZipSize /\ total[w] \in Nat /\ MaxZipSize \in Nat
    BY <1>1, ExecutorAssumption DEF XInv, TypeOK, Unpacking
  <2>1. PICK l \in Command : GoTo(w, l) /\ (l = "Run" => ~job[w].compiles)
    BY <1>3, AfterFilesMoves
  <2>2. Proceed(w, l)
    BY <1>3, <2>1
  <2>3. [i \in 1 .. n |-> Size(a[i])] \in Seq(Nat)
    <3>1. Len(a) \in Nat /\ \A i \in 1 .. Len(a) : Size(a[i]) \in Nat
      BY <2>0, ArchiveFacts DEF XInv
    <3>2. n \in Nat /\ \A i \in 1 .. n : Size(a[i]) \in Nat
      BY <3>1
    <3> QED BY <3>2
  <2>4. /\ disk' \in [Worker -> Seq(Nat)] /\ built' \in [Worker -> BOOLEAN]
        /\ total' = total /\ end' = end /\ running' = running \ {w}
        /\ \A v \in Worker : v # w => disk'[v] = disk[v] /\ built'[v] = built[v]
        /\ disk'[w] = [i \in 1 .. n |-> Size(a[i])]
    BY <1>1, <1>3, <2>3, NothingRuns DEF XInv, TypeOK
  <2>5. lost' \in {lost, lost \cup {w}} /\ (w \notin lost' => n = Len(a))
    BY <1>3
  <2>6. total[w] <= MaxZipSize + 1
    BY <2>0
  <2>7. w \notin lost' => disk'[w] = [i \in 1 .. Len(a) |-> Size(a[i])]
    BY <2>4, <2>5
  <2> QED BY <1>1, <2>1, <2>2, <2>4, <2>5, <2>6, <2>7, MovePreserves
<1> QED BY <1>2, <1>3 DEF CopyAdditionalFiles

-----------------------------------------------------------------------------
(* Commands. *)

\* A record of an ending is its two fields.
LEMMA EndingFacts ==
    ASSUME NEW e \in Ending
    PROVE  /\ e.how \in {"exit", "signal", "late", "cut", "dropped", "unstarted"} /\ e.code \in 0 .. 255
           /\ e.how = "exit" /\ e.code = 0 => e = [how |-> "exit", code |-> 0]
           /\ e.how = "signal" => e.code \in 1 .. 64
<1>a. (\A c \in Exits : c \in 0 .. 255) /\ (\A c \in Signals : c \in 1 .. 64)
  BY EndingAssumption
<1>b. (\A c \in {0, 1} : c \in 0 .. 255) /\ (\A c \in 1 .. 64 : c \in 0 .. 255)
  OBVIOUS
<1>1. CASE e \in [how : {"exit"}, code : Exits \cup {0, 1}]
  <2>1. e.how = "exit" /\ e.code \in Exits \cup {0, 1}
    BY <1>1
  <2>2. e = [how |-> e.how, code |-> e.code]
    BY <1>1
  <2>3. e.code \in 0 .. 255
    BY <1>a, <1>b, <2>1
  <2> QED BY <2>1, <2>2, <2>3
<1>2. CASE e \in [how : {"signal"}, code : Signals]
  <2>1. e.how = "signal" /\ e.code \in Signals
    BY <1>2
  <2>2. e.code \in 1 .. 64
    BY <1>a, <2>1
  <2>3. e.code \in 0 .. 255
    BY <1>b, <2>2
  <2> QED BY <2>1, <2>2, <2>3
<1>3. CASE e \in [how : {"late", "cut", "dropped", "unstarted"}, code : {0}]
  BY <1>3
<1> QED BY <1>1, <1>2, <1>3 DEF Ending

\* ResultParser.Parse (parser.go:19) on a report that says how the program ended.
LEMMA ParseFacts ==
    ASSUME NEW e \in Ending, NEW raw, NEW wrong \in BOOLEAN, Faithful(e, raw)
    PROVE  /\ Parse(raw, wrong) \in {StatusAccepted, StatusWrongAnswer} <=> e = [how |-> "exit", code |-> 0]
           /\ e.how = "late" => Parse(raw, wrong) = StatusTimeLimitExceeded
           /\ Parse(raw, wrong) # StatusCompilationError
<1> USE DEF Parse, FailureStatus, StatusAccepted, StatusWrongAnswer, StatusTimeLimitExceeded,
            StatusCompilationError, StatusRuntimeErrorSIGSEGV, StatusRuntimeErrorSIGFPE,
            StatusRuntimeErrorSIGABRT, StatusRuntimeErrorSIGXFSZ, StatusRuntimeErrorNZEC
<1>1. CASE e.how = "exit"
  <2>1. raw.timedOut = FALSE /\ raw.code = e.code
    BY <1>1 DEF Faithful
  <2>2. CASE e.code = 0
    BY <1>1, <2>1, <2>2, EndingFacts
  <2>3. CASE e.code # 0
    BY <1>1, <2>1, <2>3
  <2> QED BY <2>2, <2>3
<1>2. CASE e.how = "signal"
  <2>1. raw.timedOut = FALSE /\ raw.code = 128 + e.code
    BY <1>2 DEF Faithful
  <2>2. e.code \in 1 .. 64
    BY <1>2, EndingFacts
  <2>3. raw.code # 0
    BY <2>1, <2>2
  <2> QED BY <1>2, <2>1, <2>3
<1>3. CASE e.how = "late"
  <2>1. raw.timedOut = TRUE
    BY <1>3 DEF Faithful
  <2> QED BY <1>3, <2>1
<1> QED BY <1>1, <1>2, <1>3 DEF Faithful

LEMMA ParseOutcome == \A raw, wrong : Parse(raw, wrong) \in Outcome
BY DEF Outcome, Status, IsFinished, StatusProcessing, Parse, FailureStatus, StatusAccepted, StatusWrongAnswer,
       StatusTimeLimitExceeded, StatusRuntimeErrorSIGSEGV, StatusRuntimeErrorSIGFPE,
       StatusRuntimeErrorSIGABRT, StatusRuntimeErrorSIGXFSZ, StatusRuntimeErrorNZEC

\* A compiler that is reported right and with exit code 0 exited with 0, except
\* that the meta file of isolate has no code for a late one (isolate.go:252).
LEMMA CompilerFacts ==
    ASSUME NEW e \in Ending, NEW g \in Engine, NEW done, NEW raw \in Reports(g, e, done),
           Faithful(e, raw), raw.code = 0
    PROVE  e = [how |-> "exit", code |-> 0] \/ g = "isolate"
<1>1. CASE e.how = "exit"
  BY <1>1, EndingFacts DEF Faithful
<1>2. CASE e.how = "signal"
  BY <1>2, EndingFacts DEF Faithful
<1>3. CASE e.how = "late"
  BY <1>3 DEF Engine, Reports, ProcessReports, DockerReports, Late, Exited
<1> QED BY <1>1, <1>2, <1>3 DEF Faithful

\* What a report does to the execution (docker.go:190, isolate.go:130,
\* process.go:139): the next command, or the verdict.
LEMMA SettlePreserves ==
    ASSUME XInv, NEW w \in Worker, NEW e \in Ending, Settle(w, e),
           e.how = "exit" => e.code \in Codes(w)
    PROVE  XInv'
<1> DEFINE b == built[w] \/ (pc[w] = "Compile" /\ e = [how |-> "exit", code |-> 0])
<1>1. PICK raw \in Reports(using[w], e, cancelled) :
         /\ Continue(w, raw)
         /\ lost' = IF Faithful(e, raw) /\ (pc[w] \in {"Compile", "Run"} \/ e.how = "exit")
                    THEN lost ELSE lost \cup {w}
  BY DEF Settle
<1>2. /\ lost' \in {lost, lost \cup {w}}
      /\ w \notin lost' => w \notin lost /\ Faithful(e, raw)
  BY <1>1
<1>3. pc[w] \in Command /\ pc[w] # "Idle" /\ pc[w] \notin Outside /\ pc[w] \notin Empty
  BY <1>1 DEF Continue, Checked, Compiled, Ran, Command, Outside, Empty
<1>4. /\ end' = (IF pc[w] = "Run" THEN [end EXCEPT ![w] = e] ELSE end)
      /\ built' = [built EXCEPT ![w] = b]
      /\ running' = running \ {w} /\ UNCHANGED zipVars
  BY DEF Settle
<1>5. b \in BOOLEAN
  OBVIOUS
<1>6. built[w] \/ (pc[w] = "Compile" /\ e = [how |-> "exit", code |-> 0]) => b
  OBVIOUS
<1> HIDE DEF b
<1>7. /\ disk' \in [Worker -> Seq(Nat)] /\ total' \in [Worker -> Nat] /\ total' = total
      /\ disk'[w] = disk[w]
      /\ \A v \in Worker : v # w => disk'[v] = disk[v] /\ total'[v] = total[v]
  BY <1>4 DEF XInv, TypeOK
<1>8. /\ built' \in [Worker -> BOOLEAN] /\ built'[w] = b
      /\ \A v \in Worker : v # w => built'[v] = built[v]
  BY <1>4, <1>5 DEF XInv, TypeOK
<1>9. Archived(w) =>
          /\ total[w] <= MaxZipSize + 1 /\ total'[w] <= MaxZipSize + 1
          /\ w \notin lost' => disk'[w] = [i \in 1 .. Len(job[w].archive) |-> Size(job[w].archive[i])]
  BY <1>2, <1>3, <1>7 DEF XInv, Unpacking, Whole
<1>10. ASSUME pc[w] # "Run", Return(w, StatusCompilationError)
       PROVE  XInv'
  BY <1>2, <1>3, <1>4, <1>7, <1>8, <1>9, <1>10, EarlyPreserves
<1>11. ASSUME pc[w] # "Run", NEW l \in Command, Proceed(w, l),
              l = "Run" /\ w \notin lost' /\ job[w].compiles => b \/ using[w] = "isolate"
       PROVE  XInv'
  <2>1. end' = end
    BY <1>4, <1>11
  <2>2. l = "Run" /\ w \notin lost' /\ job[w].compiles => built'[w] \/ using[w] = "isolate"
    BY <1>8, <1>11
  <2> QED BY <1>2, <1>3, <1>4, <1>7, <1>8, <1>9, <1>11, <2>1, <2>2, MovePreserves
<1>12. CASE pc[w] = "CheckRun"
  BY <1>1, <1>10, <1>11, <1>12 DEF Continue, Checked, Compiled, Ran, Command
<1>13. CASE pc[w] = "CheckCompile"
  <2>1. Proceed(w, IF raw.code = 0 THEN "Compile" ELSE "Run")
    BY <1>1, <1>13 DEF Continue, Checked, Compiled, Ran
  <2>2. CASE raw.code = 0
    BY <1>11, <1>13, <2>1, <2>2 DEF Command
  <2>3. CASE raw.code # 0
    <3>1. Proceed(w, "Run") /\ pc[w] # "Run" /\ "Run" \in Command
      BY <1>13, <2>1, <2>3 DEF Command
    <3>2. w \notin lost' => e.how = "exit" /\ raw.code = e.code
      BY <1>1, <1>13 DEF Faithful
    <3>3. w \notin lost' => ~job[w].compiles
      BY <1>13, <2>3, <3>2 DEF Codes
    <3> QED BY <1>11, <3>1, <3>3
  <2> QED BY <2>2, <2>3
<1>14. CASE pc[w] = "Compile"
  <2>1. using[w] \in Engine
    BY DEF XInv, TypeOK
  <2>2. raw.code = 0 /\ w \notin lost' => b \/ using[w] = "isolate"
    BY <1>2, <1>6, <1>14, <2>1, CompilerFacts
  <2>3. IF raw.code = 0 THEN Proceed(w, "Run") ELSE Return(w, StatusCompilationError)
    BY <1>1, <1>14 DEF Continue, Checked, Compiled, Ran
  <2>4. pc[w] # "Run" /\ "Run" \in Command
    BY <1>14 DEF Command
  <2> QED BY <1>10, <1>11, <2>2, <2>3, <2>4
<1>15. CASE pc[w] = "Run"
  <2>1. PICK wrong \in BOOLEAN : (wrong => job[w].expects) /\ Return(w, Parse(raw, wrong))
    BY <1>1, <1>15 DEF Continue, Checked, Compiled, Ran
  <2>2. Parse(raw, wrong) \in Outcome
    BY ParseOutcome
  <2>3. end' = [end EXCEPT ![w] = e]
    BY <1>4, <1>15
  <2>4. /\ end' \in [Worker -> Ending] /\ end'[w] = e /\ verdict'[w] = Parse(raw, wrong)
        /\ running' \subseteq Worker /\ lost' \subseteq Worker /\ w \notin running'
        /\ job' = job /\ using' = using
    BY <1>2, <1>4, <2>1, <2>3 DEF XInv, TypeOK, Return
  <2>5. OnlyAt(w)
    BY <1>2, <1>4, <1>7, <1>8, <2>1, <2>3 DEF XInv, TypeOK, OnlyAt, Return
  <2>6. ASSUME w \notin lost'
        PROVE  Earned(w)'
    <3>1. /\ e.how # "unstarted" /\ Parse(raw, wrong) # StatusCompilationError
          /\ Parse(raw, wrong) \in {StatusAccepted, StatusWrongAnswer} <=> e = [how |-> "exit", code |-> 0]
          /\ e.how = "late" => Parse(raw, wrong) = StatusTimeLimitExceeded
      BY <1>2, <2>6, ParseFacts DEF Faithful
    <3>2. job[w].compiles => built[w] \/ using[w] = "isolate"
      BY <1>2, <1>15, <2>6 DEF XInv, Executing
    <3>3. job'[w].compiles => built'[w] \/ using'[w] = "isolate"
      BY <1>6, <1>8, <2>4, <3>2
    <3> QED BY <2>4, <3>1, <3>3 DEF Earned
  <2> QED BY <1>3, <1>7, <1>8, <1>9, <2>1, <2>2, <2>4, <2>5, <2>6, ReturnPreserves
<1> QED BY <1>3, <1>12, <1>13, <1>14, <1>15 DEF Command

LEMMA StartCommandPreserves ==
    ASSUME XInv, NEW w \in Worker, StartCommand(w)
    PROVE  XInv'
<1>1. TypeOK'
  BY DEF XInv, TypeOK, StartCommand
<1>2. Boxes'
  BY BoxesStay DEF XInv, StartCommand
<1>3. OnlyAt(w)
  BY DEF XInv, TypeOK, OnlyAt, StartCommand
<1>4. pc[w] \in Command /\ Unpacking(w) /\ Executing(w)
  BY DEF XInv, StartCommand
<1>5. Unpacking(w)'
  BY <1>4 DEF Unpacking, Whole, Archived, StartCommand
<1>6. Executing(w)'
  BY <1>4 DEF Executing, Earned, StartCommand
<1> QED BY <1>1, <1>2, <1>3, <1>5, <1>6, StepPreserves

LEMMA StartFailsPreserves ==
    ASSUME XInv, NEW w \in Worker, StartFails(w)
    PROVE  XInv'
<1>1. [how |-> "unstarted", code |-> 0] \in Ending
  BY DEF Ending
<1> QED BY <1>1, SettlePreserves DEF StartFails

LEMMA ExecFailsPreserves ==
    ASSUME XInv, NEW w \in Worker, ExecFails(w)
    PROVE  XInv'
<1>1. /\ pc[w] \in Command /\ pc[w] # "Idle" /\ pc[w] \notin Outside
      /\ lost' = lost \cup {w} /\ UNCHANGED <<zipVars, end, built>>
  BY DEF ExecFails, Command, Outside
<1>2. /\ disk' \in [Worker -> Seq(Nat)] /\ total' \in [Worker -> Nat] /\ built' \in [Worker -> BOOLEAN]
      /\ \A v \in Worker : v # w => disk'[v] = disk[v] /\ total'[v] = total[v] /\ built'[v] = built[v]
      /\ running' = running \ {w} /\ lost' \in {lost, lost \cup {w}} /\ end' = end /\ total' = total
  BY <1>1 DEF XInv, TypeOK, ExecFails
<1>3. Archived(w) => total[w] <= MaxZipSize + 1 /\ total'[w] <= MaxZipSize + 1
  BY <1>2 DEF XInv, Unpacking, Whole
<1>4. ASSUME NEW s \in {StatusInternalError, StatusCompilationError}, Return(w, s)
      PROVE  XInv'
  BY <1>1, <1>2, <1>3, <1>4, EarlyPreserves
<1>5. CASE Proceed(w, "Run")
  <2>1. "Run" \in Command /\ w \in lost'
    BY <1>1 DEF Command
  <2> QED BY <1>1, <1>2, <1>3, <1>5, <2>1, MovePreserves
<1> QED BY <1>4, <1>5 DEF ExecFails

LEMMA CommandEndsPreserves ==
    ASSUME XInv, NEW w \in Worker, NEW e \in Ending, CommandEnds(w, e)
    PROVE  XInv'
BY SettlePreserves DEF CommandEnds

\* A panic (docker.go:270) or Stop (worker.go:56) by itself changes no execution.
LEMMA PoolStepPreserves ==
    ASSUME XInv, cancelled' \in BOOLEAN, panicked' \in BOOLEAN, engine' = engine,
           UNCHANGED <<boxVars, zipVars, cmdVars, pc, job, verdict>>
    PROVE  XInv'
<1>1. TypeOK'
  BY DEF XInv, TypeOK
<1>2. Boxes'
  BY BoxesStay DEF XInv
<1>3. ASSUME NEW v \in Worker
      PROVE  Unpacking(v)' /\ Executing(v)'
  <2>1. Unpacking(v)'
    BY DEF XInv, Unpacking, Whole, Archived
  <2>2. Executing(v)'
    BY DEF XInv, Executing, Earned
  <2> QED BY <2>1, <2>2
<1> QED BY <1>1, <1>2, <1>3 DEF XInv

-----------------------------------------------------------------------------
(* The theorems. *)

LEMMA InitXInv == Init => XInv
<1> SUFFICES ASSUME Init
             PROVE  XInv
  OBVIOUS
<1>1. engine \in Engine
  BY DEF Init, NewExecutor, Engine
<1>2. (CHOOSE s \in Submissions : TRUE) \in Submissions
  BY ExecutorAssumption
<1>3. [how |-> "unstarted", code |-> 0] \in Ending /\ <<>> \in Seq(Nat) /\ "Idle" \in Label
  BY DEF Ending, Label
<1>4. TypeOK
  BY <1>1, <1>2, <1>3 DEF Init, TypeOK
<1>5. Boxes
  BY DEF Init, Held, Apart, Recent, Owned, Outside
<1>6. ASSUME NEW w \in Worker
      PROVE  Unpacking(w) /\ Executing(w)
  BY ExecutorAssumption DEF Init, Unpacking, Whole, Executing, Empty, Command
<1> QED BY <1>4, <1>5, <1>6 DEF XInv

LEMMA NextXInv == XInv /\ [Next]_vars => XInv'
<1> SUFFICES ASSUME XInv, [Next]_vars
             PROVE  XInv'
  OBVIOUS
<1>1. CASE UNCHANGED vars
  BY <1>1, PoolStepPreserves DEF vars, XInv, TypeOK
<1>2. ASSUME NEW w \in Worker, \E s \in Submissions : Begin(w, s)
      PROVE  XInv'
  BY <1>2, BeginPreserves
<1>3. ASSUME NEW w \in Worker,
             MakeBoxDirFails(w) \/ MakeBoxDir(w) \/ IsolateInit(w) \/ IsolateInitFails(w)
      PROVE  XInv'
  <2>1. CASE MakeBoxDirFails(w)
    BY <2>1, MakeBoxDirFailsPreserves
  <2>2. CASE MakeBoxDir(w)
    BY <2>2, AcquirePreserves DEF MakeBoxDir
  <2>3. CASE IsolateInit(w)
    BY <2>3, AcquirePreserves DEF IsolateInit
  <2>4. CASE IsolateInitFails(w)
    BY <2>4, OpeningFailsPreserves DEF IsolateInitFails
  <2> QED BY <1>3, <2>1, <2>2, <2>3, <2>4
<1>4. ASSUME NEW w \in Worker,
             ContainerCreate(w) \/ ContainerCreateFails(w) \/ ImageMissing(w) \/ ContainerStart(w)
      PROVE  XInv'
  <2>1. CASE ContainerCreate(w)
    BY <2>1, AcquirePreserves DEF ContainerCreate
  <2>2. CASE ContainerCreateFails(w)
    BY <2>2, OpeningFailsPreserves DEF ContainerCreateFails
  <2> QED BY <1>4, <2>1, <2>2, ImageMissingPreserves, ContainerStartPreserves
<1>5. ASSUME NEW w \in Worker,
             \/ WriteFiles(w) \/ ExtractEntry(w) \/ ExtractError(w) \/ ExtractDone(w)
             \/ CopyAdditionalFiles(w)
      PROVE  XInv'
  BY <1>5, WriteFilesPreserves, ExtractEntryPreserves, ExtractErrorPreserves, ExtractDonePreserves,
     CopyPreserves
<1>6. ASSUME NEW w \in Worker, UnzipPanics(w)
      PROVE  XInv'
  BY <1>6, PoolStepPreserves DEF UnzipPanics, XInv, TypeOK
<1>7. ASSUME NEW w \in Worker, StartCommand(w) \/ StartFails(w) \/ ExecFails(w)
      PROVE  XInv'
  BY <1>7, StartCommandPreserves, StartFailsPreserves, ExecFailsPreserves
<1>8. ASSUME NEW w \in Worker, \E e \in Ending : CommandEnds(w, e)
      PROVE  XInv'
  BY <1>8, CommandEndsPreserves
<1>9. CASE Cancel
  BY <1>9, PoolStepPreserves DEF Cancel, XInv, TypeOK
<1> QED BY <1>1, <1>2, <1>3, <1>4, <1>5, <1>6, <1>7, <1>8, <1>9 DEF Next

\* XInv is an invariant of the executors.
THEOREM ExecutorInductive == Spec => []XInv
<1>1. Init => XInv
  BY InitXInv
<1>2. XInv /\ [Next]_vars => XInv'
  BY NextXInv
<1> QED BY <1>1, <1>2, PTL DEF Spec

\* Every variable keeps its type (pkg/executor/executor.go:53).
THEOREM ExecutorTypeCorrect == Spec => []TypeOK
<1>1. XInv => TypeOK
  BY DEF XInv
<1> QED BY <1>1, ExecutorInductive, PTL

\* An execution that got its sandbox leaves nothing behind, and nobody shares the
\* sandbox or has it removed, however many workers and box ids there are
\* (isolate.go:34).  What is left is what failed openings left (isolate.go:45,
\* docker.go:108), and nobody is taken for its owner.
THEOREM SandboxesOwnedHolds == Spec => []SandboxesOwned
<1>1. XInv => SandboxesOwned
  <2> SUFFICES ASSUME XInv, ~lapped
               PROVE  /\ \A b \in sandboxes \ stranded : \E w \in Worker : Sandbox(box[w]) = b
                      /\ \A w \in Worker : pc[w] \notin {"Idle", "Open"} => Sandbox(box[w]) \in sandboxes \ stranded
                      /\ \A v, w \in Worker : Sandbox(box[v]) = Sandbox(box[w]) /\ box[v] # <<>> => v = w
    BY DEF SandboxesOwned
  <2>1. sandboxes \ stranded = {Sandbox(box[w]) : w \in {v \in Worker : box[v] # <<>>}}
    BY DEF XInv, Recent, Owned
  <2>2. \A w \in Worker : pc[w] \notin {"Idle", "Open"} => box[w] # <<>>
    BY DEF XInv, Held, Outside
  <2>3. \A v, w \in Worker : Sandbox(box[v]) = Sandbox(box[w]) /\ box[v] # <<>> => v = w
    BY SandboxesDiffer DEF XInv
  <2> QED BY <2>1, <2>2, <2>3
<1> QED BY <1>1, ExecutorInductive, PTL

\* An archive is unpacked as a whole or refused, for any archive and any limits
\* (zip.go:71).
THEOREM UnpackedWholeHolds == Spec => []UnpackedWhole
<1>1. XInv => UnpackedWhole
  BY DEF XInv, UnpackedWhole, Unpacking
<1> QED BY <1>1, ExecutorInductive, PTL

\* A verdict on a program whose commands were reported as they ended is earned by
\* it, whatever codes and signals there are (parser.go:19).
THEOREM VerdictIsEarnedHolds == Spec => []VerdictIsEarned
<1>1. XInv => VerdictIsEarned
  BY DEF XInv, VerdictIsEarned, Executing
<1> QED BY <1>1, ExecutorInductive, PTL

\* Every step leaves the executions where they are, moves one on, or ends one with
\* a finished status.
LEMMA StepEnds ==
    ASSUME [Next]_vars
    PROVE  \/ pc' = pc
           \/ \E w \in Worker, l \in Label \ {"Idle"} : GoTo(w, l)
           \/ \E w \in Worker, s \in Outcome : GoTo(w, "Idle") /\ verdict' = [verdict EXCEPT ![w] = s]
<1> DEFINE Moves(w) == \/ \E l \in Label \ {"Idle"} : GoTo(w, l)
                       \/ \E s \in Outcome : GoTo(w, "Idle") /\ verdict' = [verdict EXCEPT ![w] = s]
<1>o. {StatusInternalError, StatusCompilationError} \subseteq Outcome
  BY DEF Outcome, Status, IsFinished, StatusProcessing, StatusInternalError, StatusCompilationError
<1>r. ASSUME NEW w \in Worker, NEW s \in Outcome, Return(w, s) PROVE Moves(w)
  BY <1>r DEF Return
<1>a. ASSUME NEW w \in Worker, AfterFiles(w) PROVE Moves(w)
  BY <1>a DEF AfterFiles, Label, Command
<1>f. ASSUME NEW w \in Worker, ExtractFails(w) PROVE Moves(w)
  BY <1>f, <1>o, <1>r DEF ExtractFails
<1>1. ASSUME NEW w \in Worker, \E s \in Submissions : Begin(w, s)
      PROVE  Moves(w)
  BY <1>1 DEF Begin, Label
<1>2. ASSUME NEW w \in Worker, MakeBoxDir(w) \/ IsolateInit(w) \/ ContainerCreate(w)
      PROVE  Moves(w)
  BY <1>2 DEF MakeBoxDir, IsolateInit, ContainerCreate, Label
<1>3. ASSUME NEW w \in Worker, MakeBoxDirFails(w) \/ IsolateInitFails(w) \/ ContainerCreateFails(w)
      PROVE  Moves(w)
  BY <1>3, <1>o, <1>r DEF MakeBoxDirFails, IsolateInitFails, ContainerCreateFails, OpeningFails
<1>4. ASSUME NEW w \in Worker, ContainerStart(w) \/ WriteFiles(w)
      PROVE  Moves(w)
  <2>1. CASE ContainerStart(w)
    <3>1. GoTo(w, "Files") \/ Return(w, StatusInternalError)
      BY <2>1 DEF ContainerStart
    <3> QED BY <3>1, <1>o, <1>r DEF Label, Command
  <2>2. CASE WriteFiles(w)
    <3>1. GoTo(w, "Extract") \/ AfterFiles(w) \/ Return(w, StatusInternalError)
      BY <2>2 DEF WriteFiles
    <3> QED BY <3>1, <1>a, <1>o, <1>r DEF Label
  <2> QED BY <1>4, <2>1, <2>2
<1>5. ASSUME NEW w \in Worker,
             ExtractEntry(w) \/ ExtractError(w) \/ ExtractDone(w) \/ CopyAdditionalFiles(w)
      PROVE  pc' = pc \/ Moves(w)
  <2>1. CASE ExtractEntry(w) \/ ExtractError(w)
    <3>1. pc' = pc \/ ExtractFails(w)
      BY <2>1 DEF ExtractEntry, ExtractError
    <3> QED BY <3>1, <1>f
  <2>2. CASE ExtractDone(w) \/ CopyAdditionalFiles(w)
    <3>1. Return(w, StatusCompilationError) \/ AfterFiles(w) \/ ExtractFails(w)
      BY <2>2 DEF ExtractDone, CopyAdditionalFiles
    <3> QED BY <3>1, <1>a, <1>f, <1>o, <1>r
  <2> QED BY <1>5, <2>1, <2>2
<1>6. ASSUME NEW w \in Worker, NEW e, Settle(w, e)
      PROVE  Moves(w)
  <2>1. PICK raw : Continue(w, raw)
    BY <1>6 DEF Settle
  <2>2. CASE Checked(w, raw) \/ Compiled(w, raw)
    <3>1. \/ \E l \in {"CheckCompile", "Compile", "Run"} : GoTo(w, l)
          \/ Return(w, StatusCompilationError)
      BY <2>2 DEF Checked, Compiled
    <3> QED BY <3>1, <1>o, <1>r DEF Label, Command
  <2>3. CASE Ran(w, raw)
    <3>1. PICK wrong : Return(w, Parse(raw, wrong))
      BY <2>3 DEF Ran
    <3>2. Parse(raw, wrong) \in Outcome
      BY ParseOutcome
    <3> QED BY <3>1, <3>2, <1>r
  <2> QED BY <2>1, <2>2, <2>3 DEF Continue
<1>7. ASSUME NEW w \in Worker, ExecFails(w)
      PROVE  Moves(w)
  <2>1. Return(w, StatusCompilationError) \/ GoTo(w, "Run") \/ Return(w, StatusInternalError)
    BY <1>7 DEF ExecFails
  <2> QED BY <2>1, <1>o, <1>r DEF Label, Command
<1>8. ASSUME NEW w \in Worker, StartFails(w) \/ \E e \in Ending : CommandEnds(w, e)
      PROVE  Moves(w)
  BY <1>8, <1>6 DEF StartFails, CommandEnds
<1>9. ASSUME NEW w \in Worker, ImageMissing(w) \/ UnzipPanics(w) \/ StartCommand(w)
      PROVE  pc' = pc
  BY <1>9 DEF ImageMissing, UnzipPanics, StartCommand
<1>10. ASSUME Cancel \/ UNCHANGED vars PROVE pc' = pc
  BY <1>10 DEF Cancel, vars
<1> HIDE DEF Moves
<1>11. pc' = pc \/ \E w \in Worker : Moves(w)
  <2>1. CASE Cancel \/ UNCHANGED vars
    BY <2>1, <1>10
  <2>2. ASSUME NEW w \in Worker,
               \/ \E s \in Submissions : Begin(w, s)
               \/ MakeBoxDirFails(w) \/ MakeBoxDir(w) \/ IsolateInit(w) \/ IsolateInitFails(w)
               \/ ContainerCreate(w) \/ ContainerCreateFails(w) \/ ImageMissing(w) \/ ContainerStart(w)
               \/ WriteFiles(w) \/ ExtractEntry(w) \/ ExtractError(w) \/ ExtractDone(w)
               \/ CopyAdditionalFiles(w) \/ UnzipPanics(w)
               \/ StartCommand(w) \/ StartFails(w) \/ ExecFails(w)
               \/ \E e \in Ending : CommandEnds(w, e)
        PROVE  pc' = pc \/ Moves(w)
    BY <2>2, <1>1, <1>2, <1>3, <1>4, <1>5, <1>7, <1>8, <1>9
  <2> QED BY <2>1, <2>2 DEF Next
<1> QED BY <1>11 DEF Moves

\* Whatever fails, Execute returns with a status past Processing (executor.go:53,
\* parser.go:19): what the two engines assume of the verdicts they are given.
THEOREM ExecutorReturnsWithVerdict == Spec => ReturnsWithVerdict
<1>1. ASSUME TypeOK, [Next]_vars, NEW w \in Worker, pc[w] # "Idle", pc'[w] = "Idle"
      PROVE  verdict'[w] \in Outcome
  <2>1. pc \in [Worker -> Label] /\ verdict \in [Worker -> Outcome \cup {0}]
    BY <1>1 DEF TypeOK
  <2>2. CASE \E v \in Worker, l \in Label \ {"Idle"} : GoTo(v, l)
    BY <1>1, <2>1, <2>2
  <2>3. CASE \E v \in Worker, s \in Outcome : GoTo(v, "Idle") /\ verdict' = [verdict EXCEPT ![v] = s]
    <3>1. PICK v \in Worker, s \in Outcome : GoTo(v, "Idle") /\ verdict' = [verdict EXCEPT ![v] = s]
      BY <2>3
    <3>2. v = w
      BY <1>1, <2>1, <3>1
    <3> QED BY <2>1, <3>1, <3>2
  <2> QED BY <1>1, <2>2, <2>3, StepEnds
<1>2. TypeOK /\ [Next]_vars =>
        [\A w \in Worker : pc[w] # "Idle" /\ pc'[w] = "Idle" => verdict'[w] \in Outcome]_vars
  BY <1>1
<1> QED BY <1>2, ExecutorTypeCorrect, PTL DEF Spec, ReturnsWithVerdict
=============================================================================
