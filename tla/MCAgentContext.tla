--------------------------- MODULE MCAgentContext ---------------------------
(* Instances of AgentContext for TLC.                                         *)
EXTENDS AgentContext, TLC

T1 == [id |-> "t1", name |-> "tool"]
K1 == [id |-> "k1", name |-> "submit_checkpoint"]

ToolResponses == {<<T1>>, <<K1>>}
CheckpointResponses == {<<K1>>}
NoRawEvents == {}

ContextSymmetry == Permutations(Owner)
=============================================================================
