--------------------------- MODULE DllmAlgorithm ----------------------------
(***************************************************************************)
(* The denoising algorithm of the server: the one that its arguments name  *)
(* (get_algorithm), JointThreshold or LowConfidence.                       *)
(***************************************************************************)
EXTENDS JointThreshold

VARIABLE algorithm  \* DllmConfig.algorithm

LC == INSTANCE LowConfidence

algorithmVars == <<vars, algorithm>>

\* LowConfidence has no post-edit state, and no flag either: it makes its last pass
\* always, as if something had changed.
AlgorithmInit ==
  \/ /\ algorithm = "JointThreshold"
     /\ Init
  \/ /\ algorithm = "LowConfidence"
     /\ LC!Init
     /\ postEdit = [i \in Batch |-> 0]
     /\ finished = [i \in Batch |-> FALSE]
     /\ changed = TRUE

AlgorithmNext ==
  \/ algorithm = "JointThreshold" /\ Next /\ UNCHANGED algorithm
  \/ algorithm = "LowConfidence" /\ LC!Next /\ UNCHANGED <<postEdit, finished, changed, algorithm>>

\* run is one thread whose forward passes return.  This is weak fairness of
\* AlgorithmNext written out: a step is enabled until run is done, and every step
\* changes pc.
Fairness == <>[](pc = "done") \/ []<><<TRUE>>_pc

AlgorithmSpec == AlgorithmInit /\ [][AlgorithmNext]_algorithmVars /\ Fairness

-----------------------------------------------------------------------------
\* run returns whatever the model predicts, even when it predicts masks for ever or
\* undoes its own edits: both algorithms count their iterations.
RunReturns == <>returned

=============================================================================
