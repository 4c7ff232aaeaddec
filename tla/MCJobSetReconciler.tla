------------------------- MODULE MCJobSetReconciler -------------------------
(* Instances of JobSetReconciler for TLC. *)
EXTENDS JobSetReconciler

OneJob == <<1>>
TwoReplicas == <<2>>
TwoRJobs == <<1, 1>>

NoDependencies == [i \in RJobs |-> {}]

NoRules == <<>>

=============================================================================
