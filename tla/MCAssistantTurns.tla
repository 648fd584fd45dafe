--------------------------- MODULE MCAssistantTurns ---------------------------
(* Instances of AssistantTurns for TLC. *)
EXTENDS AssistantTurns
=============================================================================
