------------------------------ MODULE Schedule ------------------------------
(***************************************************************************)
(* The order the chain is run in (backend::schedule): the dispatches of    *)
(* each stage, the number of real frames after which the variants repeat,  *)
(* and the number of frames that must go in before one comes out whole.    *)
(***************************************************************************)
EXTENDS ChainGraph

MaxFrameCycle == 64

Count(d) == Len(Chain[d].variants)
VariantAt(d, frame) == Chain[d].variants[(frame % Count(d)) + 1]

\* lay_out_stages: the stages follow each other, and each has its dispatches.
Stages == [s \in 0 .. GeneratedFrames |->
             SelectSeq([d \in DOMAIN Chain |-> d], LAMBDA d : Chain[d].stage = s)]
InOrder ==
  /\ Chain[1].stage = 0
  /\ \A d \in 2 .. Len(Chain) :
       Chain[d].stage - Chain[d - 1].stage \in {0, 1}
  /\ \A s \in DOMAIN Stages : Stages[s] # <<>>

\* combine_cycle: the least common multiple of the variant counts, unless it is
\* too large, which is refused as a cycle of 0.
IsCycle(n) == \A d \in DOMAIN Chain : n % Count(d) = 0
Cycle ==
  IF \E n \in 1 .. MaxFrameCycle : IsCycle(n)
  THEN CHOOSE n \in 1 .. MaxFrameCycle : IsCycle(n) /\ \A m \in 1 .. n - 1 : ~ IsCycle(m)
  ELSE 0

\* run_frame, over the first two cycles: what is stored before a dispatch, and
\* the frames in which some dispatch fetches an image nothing has filled.
FrameStores ==
  [f \in 0 .. 2 * Cycle - 1 |-> UNION {VariantAt(d, f).storages : d \in DOMAIN Chain}]
Before(d, frame) ==
  (UNION {FrameStores[f] : f \in 0 .. frame - 1})
    \cup UNION {VariantAt(e, frame).storages : e \in 1 .. d - 1}
Unclean ==
  {f \in 0 .. 2 * Cycle - 1 : \E d \in DOMAIN Chain :
     \E i \in VariantAt(d, f).textures : Role(i) = "internal" /\ i \notin Before(d, f)}

\* measure_warmup.  Mutant: the last unclean frame itself.
WarmupFramesShort ==
  IF Unclean = {} THEN 0 ELSE CHOOSE f \in Unclean : \A g \in Unclean : g <= f
WarmupFrames ==
  IF Unclean = {} THEN 0 ELSE 1 + CHOOSE f \in Unclean : \A g \in Unclean : g <= f
Settles == \A f \in Unclean : f < Cycle

Scheduled == Valid /\ InOrder /\ Cycle # 0 /\ Settles

=============================================================================
