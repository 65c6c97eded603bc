--------------------------- MODULE MCCoexistence ---------------------------
(* Coexistence with two game threads that connect and present. *)
EXTENDS Coexistence

=============================================================================
