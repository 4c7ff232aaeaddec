------------------------- MODULE MCSchedulingObjects -------------------------
(***************************************************************************)
(* One Job; a gang for the JobSet, the same without a gang, and a PodGroup *)
(* of its own for the Job with fields that the server drops.               *)
(***************************************************************************)
EXTENDS SchedulingObjects

Gangs == {"gang", "basic", "perjob"}
GangTemplate == [c \in Configs |-> [j \in Jobs |-> IF c = "perjob" THEN "job" ELSE "top"]]
GangPolicy == [c \in Configs |-> IF c = "basic" THEN "Basic" ELSE "Gang"]
GatedFields == [c \in Configs |-> c # "basic"]
ActiveOrSuspended == [suspend : BOOLEAN, config : {"gang"}, size : {1}]

====
