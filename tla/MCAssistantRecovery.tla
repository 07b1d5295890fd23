------------------------ MODULE MCAssistantRecovery -------------------------
(* Instances of AssistantRecovery for TLC.                                 *)
EXTENDS AssistantRecovery, TLC

\* Texts are interchangeable in the invariants.
Symmetry == Permutations(Text)
=============================================================================
