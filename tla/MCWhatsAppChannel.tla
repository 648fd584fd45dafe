-------------------------- MODULE MCWhatsAppChannel --------------------------
(* Instances of WhatsAppChannel for TLC. *)
EXTENDS WhatsAppChannel

CONSTANTS ana, bea, salon, m4

(* m4 is the salon's, the others are of one client. *)
MCFrom == [m \in Messages |-> IF m = m4 THEN salon ELSE ana]
MCEarlier == <<ana>>
MCElsewhere == <<bea>>
=============================================================================
