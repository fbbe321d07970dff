----------------------------- MODULE MCRunStore -----------------------------
(* Instances of RunStore and AgentView for TLC.                               *)
EXTENDS AgentView, TLC

T1 == [id |-> "t1", name |-> "tool"]
K1 == [id |-> "k1", name |-> "submit_checkpoint"]
K2 == [id |-> "k2", name |-> "submit_checkpoint"]

\* A tool call, two checkpoint requests, a checkpoint request beside a tool
\* call, and a response that repeats an id.
LogResponses == {<<T1>>, <<K1>>, <<K2>>, <<K1, T1>>, <<T1, T1>>}
AnyResponses == LogResponses \cup {<<>>}
NoResponses == {}

RawResult == {[type |-> "tool_result", call |-> "t1"]}
NoRawEvents == {}

OwnerSymmetry == Permutations(Owner)
=============================================================================
