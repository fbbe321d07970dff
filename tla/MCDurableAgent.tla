--------------------------- MODULE MCDurableAgent ---------------------------
(* Instances of DurableAgent for TLC.                                         *)
EXTENDS DurableAgent, TLC

ExampleResponses == {<<WriteFile>>, <<SubmitCheckpoint>>}
NoRawEvents == {}

\* Processes of a kind are only told apart by their owner ids.
ProcessSymmetry == Permutations(Creator) \cup Permutations(Resumer)
=============================================================================
