--------------------------- MODULE MCResumeWorker ---------------------------
(* Instances of ResumeWorker for TLC.                                         *)
EXTENDS ResumeWorker, TLC

\* A worker that runs two handlers at once, and one that runs one
Limits == "w1" :> 2 @@ "w2" :> 1
=============================================================================
