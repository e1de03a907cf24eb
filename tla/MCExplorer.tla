----------------------------- MODULE MCExplorer -----------------------------
(* An instance of Timeline and Explorer for TLC: four events, three of     *)
(* them in the last second before the epoch of the clock and two of these  *)
(* at the same instant.                                                    *)
EXTENDS Explorer

CONSTANTS a1, l1, l2

MCEnvelope ==
  [id \in 1..4 |->
     [kind        |-> <<"lesson_learned", "agent_status_changed", "lesson_learned",
                        "goal_declared">>[id],
      agent       |-> a1,
      occurred_at |-> <<1, 1, 0, 2>>[id],
      session     |-> <<1, 2, 1, None>>[id]]]
MCLessonRank == [k \in {a1} \X {l1, l2} |-> IF k[2] = l1 THEN 1 ELSE 2]
=============================================================================
