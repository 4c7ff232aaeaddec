--------------------------- MODULE RestartBarrier ---------------------------
(***************************************************************************)
(* What in-place restart promises the workers of a JobSet, without the     *)
(* controller, the agents and the annotations that bring it about: they    *)
(* run in numbered attempts, all in the same one, and an attempt is left   *)
(* only when every worker of it has stopped.                               *)
(***************************************************************************)
EXTENDS Integers

CONSTANT Pods

VARIABLES
  attempt,   \* the attempt in which workers are started, -1 before the first
  running,   \* running[p]: the attempt in which the worker of p runs, or -1
  ran,       \* ran[p]: the last attempt in which it has run, or -1
  off        \* the user has opted out, and nothing is promised any more

vars == <<attempt, running, ran, off>>

Init ==
  /\ attempt = -1 /\ off = FALSE
  /\ running = [p \in Pods |-> -1] /\ ran = [p \in Pods |-> -1]

\* The worker of p is started, in an attempt that it has not run in.
Run(p) ==
  /\ running[p] = -1 /\ ran[p] < attempt
  /\ running' = [running EXCEPT ![p] = attempt]
  /\ ran' = [ran EXCEPT ![p] = attempt]
  /\ UNCHANGED <<attempt, off>>

\* The worker of p ends, fails or is told to stop.
Stop(p) ==
  /\ running' = [running EXCEPT ![p] = -1]
  /\ UNCHANGED <<attempt, ran, off>>

\* All workers have stopped, and the next attempt begins.
Advance ==
  /\ \A p \in Pods : running[p] = -1
  /\ attempt' = attempt + 1
  /\ UNCHANGED <<running, ran, off>>

OptOut == ~off /\ off' = TRUE /\ UNCHANGED <<attempt, running, ran>>
Unprotected == off /\ off' = TRUE

Next == Advance \/ OptOut \/ Unprotected \/ \E p \in Pods : Run(p) \/ Stop(p)

Spec == Init /\ [][Next]_vars

=============================================================================
