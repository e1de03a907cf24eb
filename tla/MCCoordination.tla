--------------------------- MODULE MCCoordination ---------------------------
(* An instance of Coordination for TLC.  The first agent has three tasks   *)
(* that may depend on each other, in chains, joins, loops and overlapping  *)
(* cycles; the second has an old one and one that nobody defines, and all  *)
(* that can happen to a task happens to them.                              *)
EXTENDS Coordination

Lists == <<{<<>>, <<2>>, <<3>>, <<2, 3>>, <<3, 2>>},
           {<<>>, <<1>>, <<3>>, <<1, 3>>},
           {<<>>, <<1>>, <<2>>, <<3>>}>>

Completed(outcome, age) ==
  [kind |-> "task_completed", age |-> age, outcome |-> outcome, artifacts |-> TRUE]
Started == [kind |-> "task_started", age |-> 20, attempt |-> 3]
Progress ==
  [kind |-> "progress_updated", age |-> 20, progress |-> 50, blocker |-> FALSE,
   next_action |-> TRUE]
Doubt ==
  [kind |-> "reflection_recorded", age |-> 0, confidence |-> "low", evidence |-> TRUE,
   next_action |-> TRUE]
Error == [kind |-> "error_observed", age |-> 20, next_action |-> TRUE]

MCKeys == {<<1, 1>>, <<1, 2>>, <<1, 3>>, <<2, 1>>, <<2, 2>>}
MCDefinitions ==
  [k \in MCKeys |->
     IF k = <<2, 2>> THEN {}
     ELSE IF k = <<2, 1>> THEN {[depends_on |-> <<>>, goal |-> 1, age |-> 20]}
     ELSE {[depends_on |-> list, goal |-> IF k[2] = 3 THEN 0 ELSE 1, age |-> 0] :
             list \in Lists[k[2]]}]
MCEvents ==
  [k \in MCKeys |-> CASE k[1] = 1 -> {Completed("succeeded", 0)}
                      [] k = <<2, 1>> -> {Started, Progress}
                      [] OTHER -> {Doubt, Error, Completed("partial", 20)}]
MCGoals == {<<1, 1>>, <<2, 1>>}
=============================================================================
