------------------------------ MODULE Verdict ------------------------------
(***************************************************************************)
(* From the end of a command to a status: what each executor learns of it  *)
(* (process.go and signal_unix.go, docker.go, isolate.go) and what the     *)
(* parser makes of that (parser.go).                                       *)
(*                                                                         *)
(* A command exits, is killed by a signal, is still running at its time    *)
(* limit (late), is cut by the cancelled context of the pool, loses its    *)
(* connection to the daemon, or was never started.                         *)
(***************************************************************************)
EXTENDS Submission

CONSTANTS
    Exits,       \* the exit codes of compilers and programs
    Signals      \* the signals that kill the shell of a command

ASSUME EndingAssumption == Exits \subseteq 0 .. 255 /\ Signals \subseteq 1 .. 64

Ending == [how : {"exit"}, code : Exits \cup {0, 1}] \cup [how : {"signal"}, code : Signals]
            \cup [how : {"late", "cut", "dropped", "unstarted"}, code : {0}]

\* RawExecution, without its text and times.
Raw == [code : 0 .. 255, timedOut : BOOLEAN]

Exited(c) == [code |-> c, timedOut |-> FALSE]
Late(c)   == [code |-> c, timedOut |-> TRUE]

\* exec.Cmd with its own process group, and extractExitCode.  A killed group
\* shows SIGKILL; an error that is not an ExitError counts as 124 or 1; the
\* deadline may pass between the exit and the look at it.  An exit with 0 whose
\* context is done by then, late or cancelled (done), is such an error.
ProcessReports(e, done) ==
    CASE e.how = "exit"      -> {Exited(e.code), Late(e.code)}
                                  \cup (IF e.code = 0 THEN {Late(124)} ELSE {})
                                  \cup (IF e.code = 0 /\ done THEN {Exited(1)} ELSE {})
      [] e.how = "signal"    -> {Exited(128 + e.code), Late(128 + e.code)}
      [] e.how = "late"      -> {Late(137), Late(124)}
      [] e.how = "cut"       -> {Exited(137), Exited(1)}
      [] OTHER               -> {Exited(1)}

\* runCommand: the deadline and the cancelled pool are the same branch; an
\* inspection that fails, or that finds the command still running after its
\* stream broke, counts as exit code 0; of an end and a deadline that are both
\* there the select takes either.
DockerReports(e) ==
    CASE e.how = "exit"      -> {Exited(e.code), Exited(0), Late(124)}
      [] e.how = "signal"    -> {Exited(128 + e.code), Exited(0), Late(124)}
      [] e.how = "dropped"   -> {Exited(0)}
      [] OTHER               -> {Late(124)}

\* runIsolate and parseIsolateMeta: the meta file has an exit code only when the
\* command exited, and a status TO only when it was late; without the file, or
\* without the line, both have their zero value.  The error of the isolate
\* command itself is dropped.
IsolateReports(e) ==
    CASE e.how = "exit"      -> {Exited(e.code), Exited(0)}
      [] e.how = "late"      -> {Late(0), Exited(0)}
      [] OTHER               -> {Exited(0)}

Reports(engine, e, done) ==
    CASE engine = "process" -> ProcessReports(e, done)
      [] engine = "docker"  -> DockerReports(e)
      [] engine = "isolate" -> IsolateReports(e)

\* The report says how the command ended.
Faithful(e, raw) ==
    /\ e.how \in {"exit", "signal", "late"}
    /\ raw.timedOut = (e.how = "late")
    /\ e.how = "exit" => raw.code = e.code
    /\ e.how = "signal" => raw.code = 128 + e.code

\* Variant: the code is taken for the id of a status.
StatusByCode(code) == code

\* What an exit code other than zero stands for; the shell reports a signal as
\* 128 plus its number.
FailureStatus(code) ==
    CASE code \in {137, 9}  -> StatusTimeLimitExceeded
      [] code \in {139, 11} -> StatusRuntimeErrorSIGSEGV
      [] code \in {136, 8}  -> StatusRuntimeErrorSIGFPE
      [] code \in {134, 6}  -> StatusRuntimeErrorSIGABRT
      [] code \in {153, 25} -> StatusRuntimeErrorSIGXFSZ
      [] OTHER              -> StatusRuntimeErrorNZEC

\* Variant: the exit code is looked at before the deadline.
ParseCodeFirst(raw, wrong) ==
    IF raw.code = 0 THEN IF wrong THEN StatusWrongAnswer ELSE StatusAccepted
    ELSE IF raw.timedOut THEN StatusTimeLimitExceeded ELSE FailureStatus(raw.code)

\* ResultParser.Parse; wrong is the outcome of CompareOutput.
Parse(raw, wrong) ==
    IF raw.timedOut THEN StatusTimeLimitExceeded
    ELSE IF raw.code # 0 THEN FailureStatus(raw.code)
    ELSE IF wrong THEN StatusWrongAnswer ELSE StatusAccepted
=============================================================================
