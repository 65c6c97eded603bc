----------------------------- MODULE MCNvnHooks -----------------------------
(***************************************************************************)
(* Model checking NvnHooks.                                                *)
(***************************************************************************)
EXTENDS NvnHooks, TLC

\* Game threads, windows, builders, textures and layouts are interchangeable.
Symmetry ==
  Permutations(Threads) \cup Permutations(Windows) \cup Permutations(Builders)
    \cup Permutations(Textures) \cup Permutations(Layouts)

=============================================================================
