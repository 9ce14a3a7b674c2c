------------------------------ MODULE Executor ------------------------------
(***************************************************************************)
(* The workers of one pool running submissions through one of the three    *)
(* executors of pkg/executor: open a sandbox, put the files into it,       *)
(* compile, run, read the result, remove the sandbox.  Archives are        *)
(* unpacked entry by entry as in pkg/utils/zip.go.                         *)
(*                                                                         *)
(* A submission is its shape: an ordinary program or a multi-file one,     *)
(* whether there is something to compile, its archive of additional files  *)
(* and whether that has a run script, and whether an output is expected.   *)
(***************************************************************************)
EXTENDS Verdict, Sequences

CONSTANTS
    Worker,
    Configured,      \* EXECUTOR_TYPE
    Submissions,     \* the shapes of the submissions
    NoArchive,
    BoxIds,          \* the number of isolate box ids (1000)
    MaxZipEntries, MaxZipSize,
    MaxBoxes         \* bound: isolate boxes allocated in a behaviour

Entry == [kind : {"file", "dir", "unsafe"}, size : Nat]
Shape == [multi : BOOLEAN, compiles : BOOLEAN, archive : Seq(Entry) \cup {NoArchive},
          script : BOOLEAN, expects : BOOLEAN]

\* buildJobFromRequest refuses a multi-file program without an archive.
ASSUME ExecutorAssumption ==
    /\ Submissions \subseteq Shape /\ Submissions # {}
    /\ \A s \in Submissions : s.multi => s.archive # NoArchive
    /\ NoArchive \notin Seq(Entry)
    /\ BoxIds \in Nat \ {0} /\ MaxZipEntries \in Nat /\ MaxZipSize \in Nat /\ MaxBoxes \in Nat

VARIABLES
    engine,      \* the executor of the process
    cancelled,   \* whether Stop has cancelled the context of the pool
    panicked,    \* whether the process has died of a panic
    counter,     \* globalBoxCounter
    sandboxes,   \* the directories, boxes and containers that exist
    pc, job,     \* per worker: the place in Execute and the submission
    using,       \* using[w]: the executor that runs the submission
    stranded,    \* history: the sandboxes left by openings that failed
    lapped,      \* history: whether a box id was reached again during an execution
    box,         \* box[w]: the sandbox w will remove, or <<>>; a box by its ticket
    disk,        \* disk[w]: the sizes of the entries unpacked so far
    total,       \* total[w]: totalExtractedBytes
    running,     \* the workers with a command under way
    end,         \* history: how the program of w ended, unstarted before
    built,       \* history: whether the compiler of w exited with 0
    lost,        \* history: the workers to whom a report did not say how a command ended
    verdict      \* verdict[w]: the status of the last submission of w, or 0

poolVars == <<engine, cancelled, panicked>>
boxVars  == <<counter, sandboxes, stranded, lapped, box, using>>
zipVars  == <<disk, total>>
cmdVars  == <<running, end, built, lost>>
vars     == <<poolVars, boxVars, zipVars, cmdVars, pc, job, verdict>>

Engine  == {"isolate", "docker", "process"}
Command == {"CheckRun", "CheckCompile", "Compile", "Run"}
Label   == {"Idle", "Open", "Started", "Files", "Extract"} \cup Command

\* The status of what Execute returns; an error is an internal error (worker.go:113).
Outcome == {s \in Status : IsFinished(s)}

\* NewExecutor for the type t, on a host with or without isolate, the Docker
\* socket and a working client.
NewExecutor(t, isolate, socket, client) ==
    CASE t = "isolate" -> IF isolate THEN "isolate" ELSE "none"
      [] t = "docker"  -> IF socket /\ client THEN "docker" ELSE "none"
      [] t = "process" -> "process"
      [] OTHER         -> IF isolate THEN "isolate"
                          ELSE IF socket /\ client THEN "docker" ELSE "process"

Init ==
    /\ \E isolate, socket, client \in BOOLEAN :
            engine = NewExecutor(Configured, isolate, socket, client)
    /\ engine # "none" /\ cancelled = FALSE /\ panicked = FALSE
    /\ counter = 0 /\ sandboxes = {} /\ stranded = {} /\ lapped = FALSE
    /\ box = [w \in Worker |-> <<>>] /\ using = [w \in Worker |-> engine]
    /\ pc = [w \in Worker |-> "Idle"]
    /\ job = [w \in Worker |-> CHOOSE s \in Submissions : TRUE]
    /\ disk = [w \in Worker |-> <<>>] /\ total = [w \in Worker |-> 0]
    /\ running = {} /\ lost = {}
    /\ end = [w \in Worker |-> [how |-> "unstarted", code |-> 0]]
    /\ built = [w \in Worker |-> FALSE] /\ verdict = [w \in Worker |-> 0]

At(w, label) == ~panicked /\ pc[w] = label
GoTo(w, label) == pc' = [pc EXCEPT ![w] = label]

\* allocateBoxID: the counter after one atomic addition, the ticket, modulo the
\* number of boxes.
BoxID(ticket) == ticket % BoxIds

\* The name under which the operating system knows the sandbox b.
Sandbox(b) == IF b # <<>> /\ b[1] = "box" THEN <<"box", BoxID(b[2])>> ELSE b

\* Execute returns; its deferred calls remove the sandbox.
Return(w, status) ==
    /\ GoTo(w, "Idle") /\ verdict' = [verdict EXCEPT ![w] = status]
    /\ sandboxes' = sandboxes \ {Sandbox(box[w])} /\ box' = [box EXCEPT ![w] = <<>>]
    /\ UNCHANGED <<poolVars, counter, stranded, lapped, using, job>>

\* A worker hands a submission to the executor.
Begin(w, s) ==
    /\ At(w, "Idle") /\ counter < MaxBoxes
    /\ GoTo(w, "Open")
    /\ job' = [job EXCEPT ![w] = s] /\ using' = [using EXCEPT ![w] = engine]
    /\ disk' = [disk EXCEPT ![w] = <<>>] /\ total' = [total EXCEPT ![w] = 0]
    /\ end' = [end EXCEPT ![w] = [how |-> "unstarted", code |-> 0]]
    /\ built' = [built EXCEPT ![w] = FALSE] /\ lost' = lost \ {w}
    /\ verdict' = [verdict EXCEPT ![w] = 0]
    /\ UNCHANGED <<poolVars, counter, sandboxes, stranded, lapped, box, running>>

-----------------------------------------------------------------------------
(* The sandbox. *)

\* A box that an earlier --init left under the same id is made anew.
Acquire(w, b) ==
    /\ sandboxes' = sandboxes \cup {Sandbox(b)} /\ stranded' = stranded \ {Sandbox(b)}
    /\ box' = [box EXCEPT ![w] = b]
    /\ UNCHANGED <<poolVars, zipVars, cmdVars, using, job, verdict>>

\* Execute returns before its removal is deferred.  What was to create the sandbox b
\* was killed by the cancelled context, or its answer was lost, or it failed half way:
\* b may be there, and nobody knows it.
OpeningFails(w, b) ==
    /\ GoTo(w, "Idle") /\ verdict' = [verdict EXCEPT ![w] = StatusInternalError]
    /\ \E left \in {{}, {b}} : sandboxes' = sandboxes \cup left /\ stranded' = stranded \cup left
    /\ UNCHANGED <<poolVars, zipVars, cmdVars, box, using, job>>

MakeBoxDirFails(w) ==
    /\ At(w, "Open") /\ using[w] = "process"
    /\ Return(w, StatusInternalError)
    /\ UNCHANGED <<zipVars, cmdVars>>

MakeBoxDir(w) ==
    /\ At(w, "Open") /\ using[w] = "process"
    /\ Acquire(w, <<"dir", w>>) /\ GoTo(w, "Files")
    /\ UNCHANGED <<counter, lapped>>

Lap == \E v \in Worker : box[v] # <<>> /\ box[v][1] = "box" /\ counter + 1 - box[v][2] >= BoxIds

IsolateInit(w) ==
    /\ At(w, "Open") /\ using[w] = "isolate" /\ ~cancelled
    /\ counter' = counter + 1 /\ lapped' = (lapped \/ Lap)
    /\ Acquire(w, <<"box", counter + 1>>) /\ GoTo(w, "Files")

IsolateInitFails(w) ==
    /\ At(w, "Open") /\ using[w] = "isolate"
    /\ counter' = counter + 1 /\ lapped' = (lapped \/ Lap)
    /\ OpeningFails(w, Sandbox(<<"box", counter + 1>>))

ContainerCreate(w) ==
    /\ At(w, "Open") /\ using[w] = "docker" /\ ~cancelled
    /\ Acquire(w, <<"container", w>>) /\ GoTo(w, "Started")
    /\ UNCHANGED <<counter, lapped>>

\* One container without an owner stands for all of them.
ContainerCreateFails(w) ==
    /\ At(w, "Open") /\ using[w] = "docker"
    /\ OpeningFails(w, <<"orphan", "container">>)
    /\ UNCHANGED <<counter, lapped>>

\* Without the image the submission goes to a process executor.
ImageMissing(w) ==
    /\ At(w, "Open") /\ using[w] = "docker" /\ ~cancelled
    /\ using' = [using EXCEPT ![w] = "process"]
    /\ UNCHANGED <<poolVars, zipVars, cmdVars, counter, sandboxes, stranded, lapped, box, pc, job, verdict>>

\* Variant: the container is removed only once it was started.
ContainerStartLeaks(w) ==
    /\ At(w, "Started")
    /\ \/ /\ ~cancelled /\ GoTo(w, "Files") /\ UNCHANGED <<poolVars, boxVars, job, verdict>>
       \/ /\ GoTo(w, "Idle") /\ verdict' = [verdict EXCEPT ![w] = StatusInternalError]
          /\ box' = [box EXCEPT ![w] = <<>>]
          /\ UNCHANGED <<poolVars, counter, sandboxes, stranded, lapped, using, job>>
    /\ UNCHANGED <<zipVars, cmdVars>>

ContainerStart(w) ==
    /\ At(w, "Started")
    /\ \/ ~cancelled /\ GoTo(w, "Files") /\ UNCHANGED <<poolVars, boxVars, job, verdict>>
       \/ Return(w, StatusInternalError)
    /\ UNCHANGED <<zipVars, cmdVars>>

-----------------------------------------------------------------------------
(* Source and additional files. *)

\* The first command once all files are there.  The container is asked for the
\* scripts of a multi-file program; the others look at the directory.
AfterFiles(w) ==
    LET s == job[w]
    IN  IF s.multi /\ using[w] = "docker" THEN GoTo(w, "CheckRun")
        ELSE GoTo(w, IF s.compiles THEN "Compile" ELSE "Run")

Archived(w) == job[w].archive # NoArchive

\* A command whose report was not read right may have left its files half done.
MayLose(w) == lost' \in {lost, lost \cup {w}} /\ UNCHANGED <<running, end, built>>

\* The source and the standard input; a multi-file program has its archive only.
\* The container gets the source through a command.
WriteFiles(w) ==
    /\ At(w, "Files")
    /\ \/ /\ IF Archived(w) THEN GoTo(w, "Extract") ELSE AfterFiles(w)
          /\ IF using[w] = "docker" /\ ~job[w].multi THEN MayLose(w) ELSE UNCHANGED cmdVars
          /\ UNCHANGED <<poolVars, boxVars, job, verdict>>
       \/ ~job[w].multi /\ Return(w, StatusInternalError) /\ UNCHANGED cmdVars
    /\ UNCHANGED zipVars

\* A multi-file program with an archive that is no good did not compile.
ExtractFails(w) == Return(w, IF job[w].multi THEN StatusCompilationError ELSE StatusInternalError)

\* Variant: the reader stops at the bytes that are left.
CopiedExactly(w, size) == IF size <= MaxZipSize - total[w] THEN size ELSE MaxZipSize - total[w]

\* io.Copy from a LimitReader that lets one byte more than the rest through.
Copied(w, size) == IF size <= MaxZipSize - total[w] THEN size ELSE MaxZipSize - total[w] + 1

\* What is on the disk when the entry e was unpacked.
Size(e) == IF e.kind = "dir" THEN 0 ELSE e.size

\* ExtractZipFromBase64, one entry.
ExtractEntry(w) ==
    LET a == job[w].archive
        e == a[Len(disk[w]) + 1]
    IN  /\ At(w, "Extract") /\ using[w] # "docker"
        /\ Len(a) <= MaxZipEntries /\ Len(disk[w]) < Len(a)
        /\ e.kind # "unsafe"
        /\ LET n == IF e.kind = "dir" THEN 0 ELSE Copied(w, e.size)
           IN  /\ disk' = [disk EXCEPT ![w] = Append(@, n)]
               /\ total' = [total EXCEPT ![w] = @ + n]
               /\ IF total[w] + n > MaxZipSize THEN ExtractFails(w)
                  ELSE UNCHANGED <<poolVars, boxVars, pc, job, verdict>>
        /\ UNCHANGED cmdVars

\* A malformed archive, too many entries, a path that leaves the directory, or
\* an error of the file system, also from the input file that isolate writes next.
ExtractError(w) ==
    /\ At(w, "Extract") /\ using[w] # "docker"
    /\ ExtractFails(w) /\ UNCHANGED <<zipVars, cmdVars>>

\* All entries are there; without a run script a multi-file program ends here.
ExtractDone(w) ==
    /\ At(w, "Extract") /\ using[w] # "docker"
    /\ Len(disk[w]) = Len(job[w].archive) /\ Len(disk[w]) <= MaxZipEntries
    /\ IF job[w].multi /\ ~job[w].script THEN Return(w, StatusCompilationError)
       ELSE AfterFiles(w) /\ UNCHANGED <<poolVars, boxVars, job, verdict>>
    /\ UNCHANGED <<zipVars, cmdVars>>

\* copyAdditionalFiles: unzip inside the container.  A command whose end was not
\* seen counts as a good one, with what it had unpacked by then.
CopyAdditionalFiles(w) ==
    LET a == job[w].archive
    IN  /\ At(w, "Extract") /\ using[w] = "docker"
        /\ \/ /\ ~cancelled
              /\ \E n \in 0 .. Len(a) :
                    /\ \A i \in 1 .. n : a[i].kind # "unsafe"
                    /\ disk' = [disk EXCEPT ![w] = [i \in 1 .. n |-> Size(a[i])]]
                    /\ lost' = IF n = Len(a) THEN lost ELSE lost \cup {w}
              /\ AfterFiles(w)
              /\ UNCHANGED <<poolVars, boxVars, total, job, verdict, running, end, built>>
           \/ ExtractFails(w) /\ UNCHANGED <<zipVars, cmdVars>>

\* A failing exec of unzip has no result, and the error message reads it.
UnzipPanics(w) ==
    /\ At(w, "Extract") /\ using[w] = "docker"
    /\ panicked' = TRUE
    /\ UNCHANGED <<engine, cancelled, boxVars, zipVars, cmdVars, pc, job, verdict>>

-----------------------------------------------------------------------------
(* Commands: the two checks for scripts, the compiler, the program. *)

Proceed(w, label) == GoTo(w, label) /\ UNCHANGED <<poolVars, boxVars, job, verdict>>

\* What Execute does with the report of a check, of the compiler, of the program.
\* The compiler is asked for its exit code only, also when it was late.
Checked(w, raw) ==
    \/ /\ pc[w] = "CheckRun"
       /\ IF raw.code = 0 THEN Proceed(w, "CheckCompile") ELSE Return(w, StatusCompilationError)
    \/ pc[w] = "CheckCompile" /\ Proceed(w, IF raw.code = 0 THEN "Compile" ELSE "Run")

Compiled(w, raw) ==
    /\ pc[w] = "Compile"
    /\ IF raw.code = 0 THEN Proceed(w, "Run") ELSE Return(w, StatusCompilationError)

Ran(w, raw) ==
    /\ pc[w] = "Run"
    /\ \E wrong \in BOOLEAN : (wrong => job[w].expects) /\ Return(w, Parse(raw, wrong))

Continue(w, raw) == Checked(w, raw) \/ Compiled(w, raw) \/ Ran(w, raw)

\* A check that does not come to its end says nothing of the script.
Settle(w, e) ==
    /\ \E raw \in Reports(using[w], e, cancelled) :
          /\ Continue(w, raw)
          /\ lost' = IF Faithful(e, raw) /\ (pc[w] \in {"Compile", "Run"} \/ e.how = "exit")
                     THEN lost ELSE lost \cup {w}
    /\ end' = IF pc[w] = "Run" THEN [end EXCEPT ![w] = e] ELSE end
    /\ built' = [built EXCEPT ![w] = @ \/ (pc[w] = "Compile" /\ e = [how |-> "exit", code |-> 0])]
    /\ running' = running \ {w}
    /\ UNCHANGED zipVars

StartCommand(w) ==
    /\ ~panicked /\ pc[w] \in Command /\ w \notin running /\ ~cancelled
    /\ running' = running \cup {w}
    /\ UNCHANGED <<poolVars, boxVars, zipVars, end, built, lost, pc, job, verdict>>

\* A host command that does not start, for instance under a cancelled context,
\* leaves an error (process) or no meta file (isolate).
StartFails(w) ==
    /\ ~panicked /\ pc[w] \in Command /\ w \notin running /\ using[w] # "docker"
    /\ Settle(w, [how |-> "unstarted", code |-> 0])

\* runCommand returns an error.  Only the compiler and the program pass it on.
ExecFails(w) ==
    /\ ~panicked /\ pc[w] \in Command /\ w \notin running /\ using[w] = "docker"
    /\ \/ pc[w] = "CheckRun" /\ Return(w, StatusCompilationError)
       \/ pc[w] = "CheckCompile" /\ Proceed(w, "Run")
       \/ pc[w] \in {"Compile", "Run"} /\ Return(w, StatusInternalError)
    /\ lost' = lost \cup {w}
    /\ UNCHANGED <<zipVars, running, end, built>>

\* The exit codes of the command of w; the checks find what the archive has.
Codes(w) ==
    CASE pc[w] = "CheckRun"     -> {IF job[w].script THEN 0 ELSE 1}
      [] pc[w] = "CheckCompile" -> {IF job[w].compiles THEN 0 ELSE 1}
      [] OTHER                  -> Exits

CommandEnds(w, e) ==
    /\ ~panicked /\ w \in running
    /\ e.how = "exit" => e.code \in Codes(w)
    /\ e.how = "cut" => cancelled
    /\ e.how = "dropped" => using[w] = "docker"
    /\ e.how # "unstarted"
    /\ Settle(w, e)

\* Stop cancels the context under which everything runs.
Cancel ==
    /\ ~panicked /\ ~cancelled /\ cancelled' = TRUE
    /\ UNCHANGED <<engine, panicked, boxVars, zipVars, cmdVars, pc, job, verdict>>

Next ==
    \/ \E w \in Worker :
          \/ \E s \in Submissions : Begin(w, s)
          \/ MakeBoxDir(w) \/ MakeBoxDirFails(w) \/ IsolateInit(w) \/ IsolateInitFails(w)
          \/ ContainerCreate(w) \/ ContainerCreateFails(w) \/ ImageMissing(w) \/ ContainerStart(w)
          \/ WriteFiles(w) \/ ExtractEntry(w) \/ ExtractError(w) \/ ExtractDone(w)
          \/ CopyAdditionalFiles(w) \/ UnzipPanics(w)
          \/ StartCommand(w) \/ StartFails(w) \/ ExecFails(w)
          \/ \E e \in Ending : CommandEnds(w, e)
    \/ Cancel

Spec == Init /\ [][Next]_vars
=============================================================================
