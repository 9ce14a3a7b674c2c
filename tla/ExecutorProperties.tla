------------------------- MODULE ExecutorProperties -------------------------
(***************************************************************************)
(* What an execution promises, and something that docs/api.md says of a    *)
(* verdict and the executors do not keep.                                  *)
(***************************************************************************)
EXTENDS Executor

TypeOK ==
    /\ engine \in Engine /\ cancelled \in BOOLEAN /\ panicked \in BOOLEAN
    /\ counter \in Nat /\ lapped \in BOOLEAN /\ using \in [Worker -> Engine]
    /\ pc \in [Worker -> Label] /\ job \in [Worker -> Submissions]
    /\ disk \in [Worker -> Seq(Nat)] /\ total \in [Worker -> Nat]
    /\ running \subseteq Worker /\ lost \subseteq Worker
    /\ end \in [Worker -> Ending] /\ built \in [Worker -> BOOLEAN]
    /\ verdict \in [Worker -> Outcome \cup {0}]

\* Once its sandbox is open no way out of Execute, early or late, leaves the directory,
\* box or container behind, and nobody shares the sandbox of a running execution or
\* removes it under it.  What is left on the host without an owner was left by an opening
\* that failed, before the removal is deferred (isolate.go:44, docker.go:104).  This holds
\* as long as the process lives and no execution lives through as many allocations of a
\* box as there are box ids (isolate.go:34).
SandboxesOwned ==
    ~lapped /\ ~panicked =>
        /\ \A b \in sandboxes \ stranded : \E w \in Worker : Sandbox(box[w]) = b
        /\ \A w \in Worker : pc[w] \notin {"Idle", "Open"} => Sandbox(box[w]) \in sandboxes \ stranded
        /\ \A v, w \in Worker : Sandbox(box[v]) = Sandbox(box[w]) /\ box[v] # <<>> => v = w

\* An archive of additional files is unpacked as a whole or refused: a file that
\* is cut off by the size limit is never compiled or run, and at most one byte
\* more than the limit is written (zip.go:71).
Whole(w) ==
    Archived(w) =>
        /\ total[w] <= MaxZipSize + 1
        /\ pc[w] \in Command /\ w \notin lost =>
               disk[w] = [i \in 1 .. Len(job[w].archive) |-> Size(job[w].archive[i])]

UnpackedWhole == \A w \in Worker : Whole(w)

\* A verdict is earned by the program, for an execution whose commands were
\* reported as they ended: Accepted and Wrong Answer by an exit code 0 of the
\* program and by nothing else, Time Limit Exceeded by the deadline, Compilation
\* Error before the program was started, and a program that had to be compiled
\* was compiled.  (With isolate a late compiler counts as a good one.)
Earned(w) ==
    LET ran  == end[w].how # "unstarted"
        zero == end[w] = [how |-> "exit", code |-> 0]
    IN  /\ verdict[w] \in {StatusAccepted, StatusWrongAnswer} <=> ran /\ zero
        /\ ran /\ end[w].how = "late" => verdict[w] = StatusTimeLimitExceeded
        /\ verdict[w] = StatusCompilationError => ~ran
        /\ ran /\ job[w].compiles => built[w] \/ using[w] = "isolate"

VerdictIsEarned == \A w \in Worker \ lost : verdict[w] # 0 => Earned(w)

\* Execute returns with a status past Processing on every way out, so that the
\* worker stores a finished submission, wakes the waiting request and counts the job
\* as ended (worker.go:129, memory.go:166).  The engines assume this of an executor.
ReturnsWithVerdict ==
    [][\A w \in Worker : pc[w] # "Idle" /\ pc'[w] = "Idle" => verdict'[w] \in Outcome]_vars

-----------------------------------------------------------------------------
(* What the repository says of itself and the code does not do. *)

\* docs/api.md:126 "Accepted | Process exited with code 0".
AcceptedExitedWithZero ==
    \A w \in Worker : verdict[w] = StatusAccepted =>
        end[w] = [how |-> "exit", code |-> 0]
=============================================================================
