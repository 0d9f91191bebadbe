--------------------------- MODULE MCSubmission ----------------------------
(* Instances of Submission for TLC.                                          *)
EXTENDS Submission, TLC

CONSTANTS s1, s2, s3

\* Two callers that wait: SubmitSync for a task, Cooperate for a service.
WaitThread == {s2, s3}
WaitCall == s2 :> "sync" @@ s3 :> "cooperate"
WaitKind == s2 :> "task" @@ s3 :> "service"

\* Submit, for a service, next to a caller that waits.
PairThread == {s1, s2}
PairCall == s1 :> "submit" @@ s2 :> "sync"
PairKind == s1 :> "service" @@ s2 :> "task"

\* The same pair, with two tasks.
TaskKind == [t \in PairThread |-> "task"]
============================================================================
