----------------------------- MODULE ChainGraph -----------------------------
(***************************************************************************)
(* The frame generation chain, as graph::build lays it out: the images of  *)
(* the chain and its dispatches in order, each with one variant per frame  *)
(* of its cycle.  A variant names the images a dispatch fetches and the    *)
(* images it stores; extents, formats, samplers and constants are left out.*)
(*                                                                         *)
(* An image is its name, its pyramid level, the slot or the generated      *)
(* frame it belongs to, and its place in a group of its likes.             *)
(***************************************************************************)
EXTENDS Integers, Sequences, SequencesExt

CONSTANTS
  Performance,      \* Config::performance
  GeneratedFrames   \* Config::generated_frames

ASSUME PerformanceAssumption == Performance \in BOOLEAN
ASSUME GeneratedFramesAssumption == GeneratedFrames \in 1 .. 3

PyramidLevels == 7
RefinedLevels == 3
TemporalDepth == 2
\* Mutant: the finest level keeps no more frames than the rest.
BaseTemporalDepthTwo == 2
BaseTemporalDepth == 3
Width == IF Performance THEN 1 ELSE 2

Group(name, level, slot, size) == {<<name, level, slot, i>> : i \in 0 .. size - 1}
One(name, level, slot) == Group(name, level, slot, 1)

History(slot) == One("history", 0, slot)
Generated(frame) == One("generated", 0, frame)
Black == One("black", 0, 0)
Mip(level) == One("mip", level, 0)
Depth(level) == IF level = 0 THEN BaseTemporalDepth ELSE TemporalDepth
Retained(level, slot) == Group("retained", level, slot, 2 * Width)
BetaPyramid(level) == One("beta_pyramid", level, 0)
GammaResult(step, frame) == IF step < 0 THEN Black ELSE One("gamma_result", step, frame)
DeltaResult(half, step, frame) == IF step < 0 THEN Black ELSE One(half, step, frame)

Role(image) ==
  CASE image[1] = "history" -> "history"
    [] image[1] = "generated" -> "generated"
    [] image[1] = "black" -> "constant"
    [] OTHER -> "internal"

Variant(textures, storages) == [textures |-> textures, storages |-> storages]
Dispatch(name, stage, variants) == [name |-> name, stage |-> stage, variants |-> variants]
Always(name, stage, textures, storages) ==
  Dispatch(name, stage, <<Variant(textures, storages)>>)

-----------------------------------------------------------------------------
(***************************************************************************)
(* The prepass, once per real frame.                                       *)
(***************************************************************************)
Mipmaps ==
  Dispatch("mipmaps", 0,
    [p \in 1 .. 2 |-> Variant(History(p - 1), UNION {Mip(l) : l \in 0 .. PyramidLevels - 1})])

Alpha(level) ==
  LET first   == Group("alpha_first", level, 0, Width)
      second  == Group("alpha_second", level, 0, Width)
      refined == Group("alpha_refined", level, 0, 2 * Width)
  IN << Always("alpha.0", 0, Mip(level), first),
        Always("alpha.1", 0, first, second),
        Always("alpha.2", 0, second, refined),
        Dispatch("alpha.3", 0,
          [p \in 1 .. Depth(level) |-> Variant(refined, Retained(level, p - 1))]) >>

\* The finest level's features of a frame and of the two before it.
Ages(frame) ==
  UNION {Retained(0, (frame + BaseTemporalDepth - age) % BaseTemporalDepth) : age \in 0 .. 2}

Beta ==
  LET first    == Group("beta_first", 0, 0, 2)
      scratch0 == Group("beta_scratch0", 0, 0, 2)
      scratch1 == Group("beta_scratch1", 0, 0, 2)
  IN << Dispatch("beta.0", 0,
          [p \in 1 .. BaseTemporalDepth |-> Variant(Ages(p - 1), first)]),
        Always("beta.1", 0, first, scratch0),
        Always("beta.2", 0, scratch0, scratch1),
        Always("beta.3", 0, scratch1, scratch0),
        Always("beta.4", 0, scratch0, UNION {BetaPyramid(l) : l \in 0 .. PyramidLevels - 2}) >>

-----------------------------------------------------------------------------
(***************************************************************************)
(* One generated frame: from the coarsest level of the pyramid to the      *)
(* finest, and the second half of the chain at the last three.             *)
(***************************************************************************)
\* A level's features of this frame and of the one before it.
Pair(level, phase) ==
  Retained(level, (phase + Depth(level) - 1) % Depth(level)) \cup Retained(level, phase)
OfPair(level, more, storages) ==
  [p \in 1 .. Depth(level) |-> Variant(Pair(level, p - 1) \cup more, storages)]

Guide(step) == BetaPyramid(IF step = 0 THEN PyramidLevels - 2 ELSE PyramidLevels - 1 - step)

Gamma(frame, step) ==
  LET level    == PyramidLevels - 1 - step
      stage    == frame + 1
      coarser  == GammaResult(step - 1, frame)
      estimate == Group("gamma_estimate", step, frame, 3)
      scratch0 == Group("gamma_scratch0", step, frame, 2 * Width)
      scratch1 == Group("gamma_scratch1", step, frame, 2 * Width)
  IN << Dispatch("gamma.0", stage, OfPair(level, coarser, estimate)),
        Always("gamma.1", stage, estimate, scratch0),
        Always("gamma.2", stage, scratch0, scratch1),
        Always("gamma.3", stage, scratch1, scratch0),
        Always("gamma.4", stage, scratch0 \cup coarser \cup Guide(step), GammaResult(step, frame)) >>

Delta(frame, step) ==
  LET level     == PyramidLevels - 1 - step
      stage     == frame + 1
      refined   == step - (PyramidLevels - RefinedLevels)
      previous0 == DeltaResult("delta_result0", refined - 1, frame)
      previous1 == DeltaResult("delta_result1", refined - 1, frame)
      occlusion == Group("delta_occlusion", step, frame, 3)
      mask      == Group("delta_mask", step, frame, Width)
      scratch0  == Group("delta_scratch0", step, frame, 2 * Width)
      scratch1  == Group("delta_scratch1", step, frame, 2 * Width)
      narrow0   == Group("delta_scratch0", step, frame, Width)
      narrow1   == Group("delta_scratch1", step, frame, Width)
  IN << Dispatch("delta.0", stage, OfPair(level, previous0, occlusion)),
        Dispatch("delta.5", stage, OfPair(level, GammaResult(step - 1, frame) \cup previous0, mask)),
        Always("delta.1", stage, occlusion, scratch0),
        Always("delta.2", stage, scratch0, scratch1),
        Always("delta.3", stage, scratch1, scratch0),
        Always("delta.4", stage, scratch0 \cup previous0 \cup Guide(step),
               DeltaResult("delta_result0", refined, frame)),
        Always("delta.6", stage, mask, narrow0),
        Always("delta.7", stage, narrow0, narrow1),
        Always("delta.8", stage, narrow1, narrow0),
        Always("delta.9", stage, narrow0 \cup previous1,
               DeltaResult("delta_result1", refined, frame)) >>

Level(frame, step) ==
  Gamma(frame, step)
    \o IF step + RefinedLevels < PyramidLevels THEN <<>> ELSE Delta(frame, step)

Generate(frame) ==
  Dispatch("generate", frame + 1,
    [p \in 1 .. 2 |-> Variant(
       UNION {History(2 - p), History(p - 1),
              GammaResult(PyramidLevels - 1, frame),
              DeltaResult("delta_result0", RefinedLevels - 1, frame),
              DeltaResult("delta_result1", RefinedLevels - 1, frame)},
       Generated(frame))])

Prepass ==
  <<Mipmaps>> \o FlattenSeq([s \in 1 .. PyramidLevels |-> Alpha(PyramidLevels - s)]) \o Beta
GeneratedFrame(frame) ==
  FlattenSeq([s \in 1 .. PyramidLevels |-> Level(frame, s - 1)]) \o <<Generate(frame)>>

Chain == Prepass \o FlattenSeq([f \in 1 .. GeneratedFrames |-> GeneratedFrame(f - 1)])

Images ==
  UNION {UNION {v.textures \cup v.storages : v \in ToSet(Chain[d].variants)} : d \in DOMAIN Chain}

-----------------------------------------------------------------------------
\* graph::validate: a real frame is never written, a generated frame is never
\* read and only "generate" writes it, and every dispatch has a stage.
Valid ==
  \A d \in DOMAIN Chain :
    /\ Chain[d].variants # <<>>
    /\ Chain[d].stage <= GeneratedFrames
    /\ \A v \in ToSet(Chain[d].variants) :
         /\ \A i \in v.textures : Role(i) # "generated"
         /\ \A i \in v.storages :
              /\ Role(i) # "history"
              /\ Role(i) = "generated" => Chain[d].name = "generate"

=============================================================================
