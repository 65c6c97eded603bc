----------------------------- MODULE MCExecutor -----------------------------
(***************************************************************************)
(* Model checking ExecutorClient, with the facts of the chain that the     *)
(* proofs about its other caller rest on, in every configuration.          *)
(***************************************************************************)
EXTENDS ExecutorClient, TLC

CONSTANTS a, b

MCImage == {a, b}
MCSymmetry == Permutations(MCImage)

Of(performance, frames) ==
  INSTANCE DataFlow WITH Performance <- performance, GeneratedFrames <- frames

ASSUME ChainFacts ==
  \A performance \in BOOLEAN, frames \in 1 .. 3 :
    LET chain == Of(performance, frames)!Chain
        cycle == Of(performance, frames)!Cycle
    IN /\ Of(performance, frames)!WellFormed(chain, Of(performance, frames)!Stages, cycle)
       /\ Of(performance, frames)!RefetchesAtOnce(chain)
       /\ Of(performance, frames)!Flows(chain, Of(performance, frames)!Images, cycle)
       /\ Of(performance, frames)!CleanFrom(chain, cycle)

=============================================================================
