--------------------------- MODULE MCTestPattern ----------------------------
(***************************************************************************)
(* Model checking TestPattern: the whole chain of performance mode with    *)
(* two generated frames, over two cycles.                                  *)
(***************************************************************************)
EXTENDS TestPattern

=============================================================================
