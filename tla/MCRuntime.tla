----------------------------- MODULE MCRuntime -----------------------------
(* Small instances of RuntimeMonitor for TLC.                              *)
EXTENDS RuntimeMonitor, TLC

CONSTANTS a1, a2, p1, p2

(* The row of process p1 has the id that agent a2 bears.                   *)
MCRowId == [p \in Pids |-> IF p = p1 THEN a2 ELSE "process:openai:2"]

(* Agents are interchangeable only while no process row has one's id, and  *)
(* pids never are.                                                         *)
Symmetry == Permutations(HookIds) \cup (IF Pids = {} THEN Permutations(Agents) ELSE {})
=============================================================================
