------------------------ MODULE MCExclusivePlacement ------------------------
(* Two Jobs of one priority and two domains; the second Job is a leader alone. *)
EXTENDS ExclusivePlacement

OneFollower == [j \in Jobs |-> IF j = "a" THEN {1} ELSE {}]
SamePriority == [j \in Jobs |-> 0]
=============================================================================
