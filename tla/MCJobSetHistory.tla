--------------------------- MODULE MCJobSetHistory ---------------------------
(* Instances of JobSetHistory for TLC. *)
EXTENDS JobSetHistory

OneJob == <<1>>
TwoReplicas == <<2>>
TwoRJobs == <<1, 1>>

NoDependencies == [i \in RJobs |-> {}]
SecondAfterFirstReady == <<{}, {[rjob |-> 1, status |-> "Ready"]}>>
SecondAfterFirstComplete == <<{}, {[rjob |-> 1, status |-> "Complete"]}>>

NoRules == <<>>
EveryAction ==
  <<[action |-> "RestartJob", reasons |-> {"BackoffLimitExceeded"}, targets |-> {1}],
    [action |-> "FailJobSet", reasons |-> {"PodFailurePolicy"}, targets |-> {1}],
    [action |-> "RestartJobSetAndIgnoreMaxRestarts", reasons |-> {"PodFailurePolicy"}, targets |-> {}],
    [action |-> "RestartJobAndIgnoreMaxRestarts", reasons |-> {"DeadlineExceeded"}, targets |-> {}]>>

=============================================================================
