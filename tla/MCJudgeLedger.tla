---------------------------- MODULE MCJudgeLedger ----------------------------
(* JudgeLedger on small instances. *)
EXTENDS JudgeLedger, TLC

AgentSymmetry == Permutations(Agents)
=============================================================================
