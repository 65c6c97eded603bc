--------------------------- MODULE MCHookInstall ---------------------------
(* HookInstall with two game threads, imports of up to three sites where two fit. *)
EXTENDS HookInstall

=============================================================================
