----------------------------- MODULE MCToolLoop -----------------------------
(* ToolLoop on small instances: read-only calls and two side effects.      *)
EXTENDS ToolLoop

MCCalls == {"lookup", "probe", "confirm", "install"}
MCSideEffects == {"confirm", "install"}
MCResults == {"found", "nothing"}

=============================================================================
