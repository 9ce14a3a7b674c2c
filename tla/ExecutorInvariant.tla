-------------------------- MODULE ExecutorInvariant --------------------------
(***************************************************************************)
(* An inductive invariant of Executor: which sandbox an execution has,     *)
(* what is unpacked and what was built at each place of Execute.           *)
(***************************************************************************)
EXTENDS ExecutorProperties

\* The places before the sandbox is there, and before anything is unpacked.
Outside == {"Idle", "Open"}
Empty   == {"Open", "Started", "Files"}

\* The sandboxes of the workers that have one.
Owned == {Sandbox(box[w]) : w \in {v \in Worker : box[v] # <<>>}}

\* An execution past its opening has a sandbox, and nobody else the same one.
Held ==
    /\ DOMAIN box = Worker
    /\ \A w \in Worker :
          /\ box[w] \in {<<>>, <<"dir", w>>, <<"container", w>>}
                           \cup {<<"box", n>> : n \in 1 .. counter}
          /\ box[w] = <<>> <=> pc[w] \in Outside
Apart == \A v, w \in Worker : box[v] = box[w] /\ box[v] # <<>> => v = w

\* While nobody was lapped, the tickets in use are less than a round behind the
\* counter, and what exists is what the executions have and what failed openings left.
Recent ==
    ~lapped => /\ \A w \in Worker, n \in 1 .. counter : box[w] = <<"box", n>> => counter - n < BoxIds
               /\ sandboxes \ stranded = Owned

Boxes == Held /\ Apart /\ Recent

\* What is unpacked is a prefix of the archive, of its full length per entry.
Unpacking(w) ==
    /\ pc[w] \in Empty => disk[w] = <<>> /\ total[w] = 0
    /\ pc[w] = "Extract" =>
           /\ Archived(w) /\ total[w] <= MaxZipSize
           /\ Len(disk[w]) <= Len(job[w].archive)
           /\ \A i \in 1 .. Len(disk[w]) : disk[w][i] = Size(job[w].archive[i])
    /\ Whole(w)

\* There is no verdict before the end, and nothing is run that was not built.
Executing(w) ==
    /\ pc[w] # "Idle" => verdict[w] = 0 /\ end[w].how = "unstarted"
    /\ w \in running => pc[w] \in Command
    /\ pc[w] = "Run" /\ w \notin lost /\ job[w].compiles => built[w] \/ using[w] = "isolate"
    /\ verdict[w] # 0 /\ w \notin lost => Earned(w)

XInv == TypeOK /\ Boxes /\ \A w \in Worker : Unpacking(w) /\ Executing(w)
=============================================================================
