----------------------------- MODULE Submission -----------------------------
(***************************************************************************)
(* The status of a submission (pkg/languages/statuses.go) and the only     *)
(* test the queues and handlers apply to it (pkg/queue/queue.go).          *)
(***************************************************************************)
EXTENDS Integers

StatusInQueue             == 1
StatusProcessing          == 2
StatusAccepted            == 3
StatusWrongAnswer         == 4
StatusTimeLimitExceeded   == 5
StatusCompilationError    == 6
StatusRuntimeErrorSIGSEGV == 7
StatusRuntimeErrorSIGXFSZ == 8
StatusRuntimeErrorSIGFPE  == 9
StatusRuntimeErrorSIGABRT == 10
StatusRuntimeErrorNZEC    == 11
StatusInternalError       == 13

\* The status table: ids 1 to 14.
Status == 1 .. 14

\* SubmissionJob.IsFinished: the status id is past Processing.
IsFinished(s) == s > StatusProcessing

\* How far a submission has come: absent, queued, processing, finished.
Stage(s) == IF IsFinished(s) THEN 3 ELSE s
=============================================================================
