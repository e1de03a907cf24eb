------------------------------ MODULE MCStore ------------------------------
(***************************************************************************)
(* Small instances of Store for TLC.  Identifiers are model values that    *)
(* are only ever compared for equality, so permuting the agents, the task  *)
(* ids or the event ids is a symmetry.                                     *)
(***************************************************************************)
EXTENDS Store, TLC

Symmetry ==
  Permutations(Agents) \cup Permutations(TaskIds) \cup Permutations(EventIds)
=============================================================================
