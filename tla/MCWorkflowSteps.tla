-------------------------- MODULE MCWorkflowSteps --------------------------
(* Instances of WorkflowSteps for TLC.                                        *)
EXTENDS WorkflowSteps, TLC

\* The runs are 1 and 2, the contexts of run 1 are 11, 12, ...
RunOfContext == [x \in Context |-> x \div 10]

CallSymmetry == Permutations(Call)
=============================================================================
