------------------------------- MODULE Binding -------------------------------
(***************************************************************************)
(* What makes a cache one the backend runs, and what one dispatch binds:   *)
(* cache::validate and graph::validate, backend::accept, describe and bind *)
(* as operators on a cache                                                 *)
(*   [images, generated, uniforms, variants, dispatches, passes].          *)
(* A dispatch is [name, block, first, count]: its slot of the chain, its   *)
(* module and its variants.                                                *)
(* Images, variants and passes are positions of these sequences.  Extents, *)
(* formats, workgroups and the bytes of modules are left out: a pass       *)
(* "loads" when its module is what its entry records.                      *)
(***************************************************************************)
EXTENDS Integers, Sequences, FiniteSets, FiniteSetsExt

CONSTANTS
  MaxTextures,   \* max_texture_slots
  MaxStorages    \* max_storage_slots

Elements(s) == {s[k] : k \in DOMAIN s}

None == -1               \* no_descriptor, no_uniform_buffer, no sampler of its own
MaxUniforms == 1         \* max_uniform_slots
HistoryImages == 2       \* history_image_count
IntroducedSampler == 3   \* after the three of graph::Sampler

\* A directory without a manifest.
NoCache == [images |-> <<>>, generated |-> 0, uniforms |-> 0, variants |-> <<>>,
            dispatches |-> <<>>, passes |-> <<>>]

Imported(c, i) == c.images[i].role \in {"history", "generated"}
VariantsOf(d) == d.first .. d.first + d.count - 1
Reached(v) == Elements(v.textures) \cup Elements(v.storages)

-----------------------------------------------------------------------------
(***************************************************************************)
(* What cache::read has checked of a manifest.                             *)
(***************************************************************************)
ValidVariant(c, d, v) ==
  /\ v.textures \in Seq(DOMAIN c.images) /\ v.storages \in Seq(DOMAIN c.images)
  /\ v.uniform \in {None} \cup 0 .. c.uniforms - 1
  /\ \A i \in Elements(v.textures) : c.images[i].role # "generated"
  /\ \A i \in Elements(v.storages) :
       /\ c.images[i].role # "history"
       /\ c.images[i].role = "generated" => d.name = "generate"

ValidGraph(c) ==
  /\ Len(c.images) > HistoryImages + c.generated
  /\ \A i \in DOMAIN c.images :
       /\ i <= HistoryImages <=> c.images[i].role = "history"
       /\ i \in HistoryImages + 1 .. HistoryImages + c.generated
            <=> c.images[i].role = "generated"
  /\ \A k \in DOMAIN c.dispatches :
       LET d == c.dispatches[k]
       IN /\ d.first \in Nat /\ d.count \in Nat \ {0}
          /\ VariantsOf(d) \subseteq DOMAIN c.variants
          /\ \A v \in VariantsOf(d) : ValidVariant(c, d, c.variants[v])

ValidSlot(p, s) ==
  \/ /\ s.kind = "uniform"
     /\ s.slot \in 0 .. p.uniforms - 1 /\ s.ordinal \in 0 .. p.uniforms - 1
  \/ /\ s.kind = "texture"
     /\ s.slot \in 0 .. p.textureSlots - 1 /\ s.ordinal \in 0 .. p.textures - 1
     /\ s.sampler = None \/ s.sampler < p.samplers
  \/ /\ s.kind = "storage"
     /\ s.slot \in 0 .. p.storages - 1 /\ s.ordinal \in 0 .. p.storages - 1

ValidPass(p) ==
  /\ p.slots # <<>>
  /\ Len(p.slots) = p.textureSlots + p.storages + p.uniforms
  /\ p.textureSlots >= p.textures
  /\ \A k \in DOMAIN p.slots : ValidSlot(p, p.slots[k])

SameInterface(p, v) ==
  /\ p.textures = Len(v.textures)
  /\ p.storages = Len(v.storages)
  /\ p.samplers = Len(v.samplers)
  /\ p.uniforms = IF v.uniform = None THEN 0 ELSE 1

\* The first pass that holds the module of a dispatch.
PassesOf(c, d) == {p \in DOMAIN c.passes : c.passes[p].block = d.block}
PassOf(c, d) == Min(PassesOf(c, d))

ValidManifest(c) ==
  /\ \A p \in DOMAIN c.passes : ValidPass(c.passes[p])
  /\ ValidGraph(c)
  /\ \A k \in DOMAIN c.dispatches :
       LET d == c.dispatches[k]
       IN /\ PassesOf(c, d) # {}
          /\ \A v \in VariantsOf(d) :
               SameInterface(c.passes[PassOf(c, d)], c.variants[v])

-----------------------------------------------------------------------------
(***************************************************************************)
(* accept: the executor has room for every pass, the modules are what the  *)
(* manifest says, no image rounds away and the chain is in the budget.     *)
(***************************************************************************)
Runnable(p) ==
  /\ p.textureSlots <= MaxTextures
  /\ p.storages <= MaxStorages
  /\ p.uniforms <= MaxUniforms
  /\ p.loads

OwnedBytes(c) ==
  MapThenSumSet(LAMBDA i : c.images[i].bytes, {i \in DOMAIN c.images : ~ Imported(c, i)})

Accepted(c, budget) ==
  /\ \A p \in DOMAIN c.passes : Runnable(c.passes[p])
  /\ \A i \in DOMAIN c.images : c.images[i].bytes # 0
  /\ OwnedBytes(c) <= budget

-----------------------------------------------------------------------------
(***************************************************************************)
(* describe: an image has a descriptor for each way some variant reaches   *)
(* it, numbered in the order of the images.                                *)
(***************************************************************************)
Describable(c) == \A v \in DOMAIN c.variants : Reached(c.variants[v]) \subseteq DOMAIN c.images

Sampled(c) == UNION {Elements(c.variants[v].textures) : v \in DOMAIN c.variants}
Stored(c) == UNION {Elements(c.variants[v].storages) : v \in DOMAIN c.variants}

\* Mutant: an image takes one number however many descriptors it has.
FirstDescriptorByImage(c, i) == Cardinality((Sampled(c) \cup Stored(c)) \cap 1 .. i - 1)
FirstDescriptor(c, i) ==
  Cardinality(Sampled(c) \cap 1 .. i - 1) + Cardinality(Stored(c) \cap 1 .. i - 1)
SampledDescriptor(c, i) == IF i \in Sampled(c) THEN FirstDescriptor(c, i) ELSE None
StorageDescriptor(c, i) ==
  IF i \in Stored(c)
  THEN FirstDescriptor(c, i) + (IF i \in Sampled(c) THEN 1 ELSE 0)
  ELSE None
DescriptorCount(c) == Cardinality(Sampled(c)) + Cardinality(Stored(c))

-----------------------------------------------------------------------------
(***************************************************************************)
(* bind: the variant of a dispatch in a real frame, and what it puts into  *)
(* which slot.                                                             *)
(***************************************************************************)
VariantOf(c, d, phase) == c.variants[d.first + (phase % d.count)]

SlotsOf(p, kind) == {k \in DOMAIN p.slots : p.slots[k].kind = kind}

SamplerOf(v, s) == IF s.sampler = None THEN IntroducedSampler ELSE v.samplers[s.sampler + 1]

SlotBinds(c, p, v, s) ==
  \/ /\ s.kind = "texture"
     /\ s.ordinal < Len(v.textures) /\ s.slot < MaxTextures
     /\ s.sampler # None =>
          s.sampler < Len(v.samplers) /\ SamplerOf(v, s) < IntroducedSampler
     /\ SampledDescriptor(c, v.textures[s.ordinal + 1]) # None
  \/ /\ s.kind = "storage"
     /\ s.ordinal < Len(v.storages) /\ s.slot < MaxStorages
     /\ StorageDescriptor(c, v.storages[s.ordinal + 1]) # None
  \/ /\ s.kind = "uniform"
     /\ v.uniform # None /\ v.uniform < c.uniforms

Binds(c, d, phase) ==
  LET v == VariantOf(c, d, phase)
      p == c.passes[PassOf(c, d)]
  IN /\ SameInterface(p, v)
     /\ p.textureSlots <= MaxTextures
     /\ p.storages <= MaxStorages
     /\ p.uniforms <= MaxUniforms
     /\ \A k \in DOMAIN p.slots : SlotBinds(c, p, v, p.slots[k])
     /\ Cardinality(SlotsOf(p, "texture")) = p.textureSlots
     /\ Cardinality(SlotsOf(p, "storage")) = p.storages
     /\ Cardinality(SlotsOf(p, "uniform")) <= 1

\* The handles put into the slots: a later one of the same slot replaces an
\* earlier one.
LastOf(p, kind, n) == Max({k \in SlotsOf(p, kind) : p.slots[k].slot = n})
Bound(c, d, phase) ==
  LET v == VariantOf(c, d, phase)
      p == c.passes[PassOf(c, d)]
      Filled(kind) == {p.slots[k].slot : k \in SlotsOf(p, kind)}
  IN [textures |-> [n \in Filled("texture") |->
                      LET s == p.slots[LastOf(p, "texture", n)]
                      IN [descriptor |-> SampledDescriptor(c, v.textures[s.ordinal + 1]),
                          sampler |-> SamplerOf(v, s)]],
      storages |-> [n \in Filled("storage") |->
                      StorageDescriptor(c, v.storages[p.slots[LastOf(p, "storage", n)].ordinal + 1])],
      uniform |-> IF Filled("uniform") = {} THEN None ELSE v.uniform]

=============================================================================
