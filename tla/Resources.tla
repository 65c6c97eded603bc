------------------------------ MODULE Resources ------------------------------
(***************************************************************************)
(* Turning a cache into GPU objects: load_cache and measure_cache of the   *)
(* test-pattern app, which make a Device and then the Resources of the     *)
(* backend (runtime/backend/src/device.cpp), down to their destruction.    *)
(* deko3d is external: it chooses the sizes and alignments of images and   *)
(* may fail whatever it is asked to create, map or load.                   *)
(***************************************************************************)
EXTENDS Arena, Binding

CONSTANTS
  Caches,            \* the caches that may be on the memory card
  Budgets,           \* memory_budget_bytes
  Alignments,        \* what deko3d may align an image to
  Padding,           \* bytes an image may take on top of its pixels
  CodeSizes,         \* the code sizes of modules
  CodeAlignment,     \* DK_SHADER_CODE_ALIGNMENT
  CodeTail,          \* DK_SHADER_CODE_UNUSABLE_SIZE
  Samplers,          \* sampler_descriptor_count
  UniformStride      \* uniform_buffer_stride

Sized(c) == \A i \in DOMAIN c.images : i \in Nat \ {0} /\ c.images[i].bytes \in Nat

\* The alignments are powers of two, and none is larger than a page.
ASSUME ResourcesAssumption ==
  /\ \A a \in Alignments \cup {CodeAlignment, 1} : a \in Nat \ {0} /\ MaxBlock % a = 0
  /\ CodeTail \in Nat /\ CodeSizes \subseteq Nat /\ Padding \in Nat
  /\ \A c \in Caches : Sized(c)

VARIABLES
  cache,         \* the cache
  own,           \* own_imported_images
  budget,        \* memory_budget_bytes
  stage,         \* where measure_cache and create are
  alive,         \* the objects of deko3d that exist
  imageArena,    \* the arena of the images
  images,        \* the images placed in it, in order
  codeArena,     \* the arena of the modules
  code,          \* the modules placed in it, in order
  imageBytes,    \* allocation_: the bytes of all images, without gaps
  table,         \* the descriptors written to the descriptor memory
  modules        \* modules_: how many are loaded

vars == <<cache, own, budget, stage, alive, imageArena, images, codeArena, code,
          imageBytes, table, modules>>
options == <<cache, own, budget>>
layout == <<imageArena, images, codeArena, code, imageBytes>>

Owned(i) == own \/ ~ Imported(cache, i)

Init ==
  /\ cache = NoCache
  /\ own = FALSE
  /\ budget = 0
  /\ stage = "idle"
  /\ alive = {}
  /\ imageArena = EmptyArena
  /\ images = <<>>
  /\ codeArena = EmptyArena
  /\ code = <<>>
  /\ imageBytes = 0
  /\ table = {}
  /\ modules = 0

Goto(s) == stage' = s

-----------------------------------------------------------------------------
(***************************************************************************)
(* run measures one directory after another.  measure_cache: load_cache,   *)
(* and the device with its queue.                                          *)
(***************************************************************************)
Measure(c) ==
  /\ stage = "idle"
  /\ Goto("read")
  /\ cache' = c
  /\ own' \in BOOLEAN
  /\ budget' \in Budgets
  /\ UNCHANGED <<alive, layout, table, modules>>

Return == Goto("idle") /\ cache' = NoCache /\ own' = FALSE /\ budget' = 0

LoadCache ==
  /\ stage = "read"
  /\ \/ ValidManifest(cache) /\ Accepted(cache, budget) /\ Goto("device") /\ UNCHANGED options
     \/ ~ (ValidManifest(cache) /\ Accepted(cache, budget)) /\ Return
  /\ UNCHANGED <<alive, layout, table, modules>>

\* Device::create.  A device whose queue fails is destroyed again.
CreateDevice ==
  /\ stage = "device"
  /\ \/ alive' = {"device", "queue"} /\ Goto("describe") /\ UNCHANGED options
     \/ alive' = {} /\ Return
  /\ UNCHANGED <<layout, table, modules>>

-----------------------------------------------------------------------------
(***************************************************************************)
(* Resources::create.  Wherever it fails it destroys what there is.        *)
(***************************************************************************)
Blocks == {"imageMemory", "descriptorMemory", "uniformMemory", "codeMemory"}

Destroy ==
  /\ alive' = alive \ Blocks
  /\ imageArena' = EmptyArena
  /\ images' = <<>>
  /\ codeArena' = EmptyArena
  /\ code' = <<>>
  /\ imageBytes' = 0
  /\ table' = {}
  /\ modules' = 0

Fail ==
  /\ Goto("released")
  /\ Destroy
  /\ UNCHANGED options

Describe ==
  /\ stage = "describe"
  /\ \/ /\ Describable(cache)
        /\ Goto("images")
        /\ UNCHANGED <<options, alive, layout, table, modules>>
     \/ ~ Describable(cache) /\ Fail

\* lay_out_images: the owned images in order, and then the test for overflow.
NextImage(i) ==
  /\ i \in DOMAIN cache.images
  /\ Owned(i)
  /\ \A k \in DOMAIN images : images[k].image < i
  /\ \A j \in 1 .. i - 1 : Owned(j) => \E k \in DOMAIN images : images[k].image = j
AllPlaced == \A i \in DOMAIN cache.images : ~ NextImage(i)

LayOutImage ==
  /\ stage = "images"
  /\ \E i \in DOMAIN cache.images, padding \in 0 .. Padding, alignment \in Alignments :
       LET size == cache.images[i].bytes + padding
       IN /\ NextImage(i)
          /\ images' = Append(images, [image |-> i, offset |-> Offset(imageArena, size, alignment),
                                       size |-> size, alignment |-> alignment])
          /\ imageArena' = Place(imageArena, size, alignment)
          /\ imageBytes' = imageBytes + size
  /\ UNCHANGED <<options, stage, alive, codeArena, code, table, modules>>

LaidOutImages ==
  /\ stage = "images" /\ AllPlaced
  /\ \/ /\ ~ imageArena.overflowed
        /\ Goto("modules")
        /\ UNCHANGED <<options, alive, layout, table, modules>>
     \/ imageArena.overflowed /\ Fail

\* lay_out_modules.  That a module is one was checked by accept.
LayOutModule ==
  /\ stage = "modules" /\ Len(code) < Len(cache.passes)
  /\ \E size \in CodeSizes :
       /\ code' = Append(code, [offset |-> Offset(codeArena, size, CodeAlignment),
                                size |-> size, alignment |-> CodeAlignment])
       /\ codeArena' = Place(codeArena, size, CodeAlignment)
  /\ UNCHANGED <<options, stage, alive, imageArena, images, imageBytes, table, modules>>

\* The tail the GPU may prefetch, and the budget.  Nothing is created so far.
DescriptorSize == DescriptorCount(cache) + Samplers
UniformSize == cache.uniforms * UniformStride
Total(arena) ==
  imageBytes + RoundUp(DescriptorSize, Page) + RoundUp(UniformSize, Page) + BlockSize(arena)

WithTail(arena) == Place(arena, CodeTail, 1)

LaidOutModules ==
  /\ stage = "modules" /\ Len(code) = Len(cache.passes)
  /\ LET arena == WithTail(codeArena)
     IN \/ /\ ~ arena.overflowed /\ Total(arena) <= budget
           /\ codeArena' = arena
           /\ Goto("imageMemory")
           /\ UNCHANGED <<options, alive, imageArena, images, code, imageBytes, table, modules>>
        \/ (arena.overflowed \/ Total(arena) > budget) /\ Fail

\* create_block, which deko3d may always refuse.
CreateBlock(block, size, next) ==
  /\ stage = block
  /\ \/ /\ Creatable(size)
        /\ alive' = alive \cup {block}
        /\ Goto(next)
        /\ UNCHANGED <<options, layout, table, modules>>
     \/ Fail

CreateImages == CreateBlock("imageMemory", BlockSize(imageArena), "descriptorMemory")
CreateDescriptors == CreateBlock("descriptorMemory", DescriptorSize, "write")
CreateUniforms == CreateBlock("uniformMemory", UniformSize, "codeMemory")
CreateCode == CreateBlock("codeMemory", BlockSize(codeArena), "load")

\* write_descriptors, for the images that are owned.
Entries(i) ==
  {[at |-> SampledDescriptor(cache, i), image |-> i, use |-> "sampled"],
   [at |-> StorageDescriptor(cache, i), image |-> i, use |-> "storage"]}
Descriptors ==
  {e \in UNION {Entries(i) : i \in {j \in DOMAIN cache.images : Owned(j)}} : e.at # None}
WriteDescriptors ==
  /\ stage = "write"
  /\ \/ /\ table' = Descriptors
        /\ IF cache.uniforms # 0 THEN Goto("uniformMemory") ELSE Goto("codeMemory")
        /\ UNCHANGED <<options, alive, layout, modules>>
     \/ Fail

\* load_modules.  Mutant: a module that fails is the end of create.
LoadModuleKeeps ==
  /\ stage = "load" /\ modules < Len(cache.passes)
  /\ \/ /\ modules' = modules + 1
        /\ UNCHANGED <<options, stage, alive, layout, table>>
     \/ Goto("released") /\ UNCHANGED <<options, alive, layout, table, modules>>
LoadModule ==
  /\ stage = "load" /\ modules < Len(cache.passes)
  /\ \/ /\ modules' = modules + 1
        /\ UNCHANGED <<options, stage, alive, layout, table>>
     \/ Fail

\* The end of create, which forgets the layout: the model keeps it to compare.
Created ==
  /\ stage = "load" /\ modules = Len(cache.passes)
  /\ Goto("created")
  /\ UNCHANGED <<options, alive, layout, table, modules>>

CreateResources ==
  \/ Describe
  \/ LayOutImage
  \/ LaidOutImages
  \/ LayOutModule
  \/ LaidOutModules
  \/ CreateImages
  \/ CreateDescriptors
  \/ WriteDescriptors
  \/ CreateUniforms
  \/ CreateCode
  \/ LoadModule
  \/ Created

-----------------------------------------------------------------------------
(***************************************************************************)
(* measure_cache returns: its resources go first, then its device.         *)
(***************************************************************************)
DestroyResources ==
  /\ stage = "created"
  /\ Goto("released")
  /\ Destroy
  /\ UNCHANGED options

\* Device::destroy waits for the queue.
DestroyDevice ==
  /\ stage = "released"
  /\ alive' = alive \ {"queue", "device"}
  /\ Return
  /\ UNCHANGED <<layout, table, modules>>

MeasureCache ==
  \/ LoadCache
  \/ CreateDevice
  \/ CreateResources
  \/ DestroyResources
  \/ DestroyDevice

Next == (\E c \in Caches : Measure(c)) \/ MeasureCache

Spec == Init /\ [][Next]_vars

-----------------------------------------------------------------------------
Disjoint(p, q) == p.offset + p.size <= q.offset \/ q.offset + q.size <= p.offset

PlacedIn(block, size, placed) ==
  block \in alive =>
    \A k \in DOMAIN placed :
      /\ placed[k].offset % placed[k].alignment = 0
      /\ placed[k].offset + placed[k].size <= size
      /\ \A j \in 1 .. k - 1 : Disjoint(placed[j], placed[k])

\* In a block that exists, images and modules lie where their alignment allows,
\* inside the block, and apart from each other; behind the modules there is room
\* for what the GPU may not execute.  (An arena that overflowed hands out
\* offsets of 0: layout.cpp 70-73, and lay_out_images and lay_out_modules.)
PlacedApart ==
  /\ PlacedIn("imageMemory", BlockSize(imageArena), images)
  /\ PlacedIn("codeMemory", BlockSize(codeArena) - CodeTail, code)

-----------------------------------------------------------------------------
\* What the descriptor of an image holds once it is written.
Holds(at, i, use) ==
  Owned(i) => {e \in table : e.at = at} = {[at |-> at, image |-> i, use |-> use]}

\* Everything a dispatch binds in a frame is there and is what its module means.
Ready(d, phase) ==
  LET v == VariantOf(cache, d, phase)
      p == cache.passes[PassOf(cache, d)]
      b == Bound(cache, d, phase)
  IN /\ PassOf(cache, d) <= modules
     /\ \A k \in SlotsOf(p, "texture") :
          LET s == p.slots[k]
          IN Holds(b.textures[s.slot].descriptor, v.textures[s.ordinal + 1], "sampled")
     /\ \A k \in SlotsOf(p, "storage") :
          LET s == p.slots[k]
          IN Holds(b.storages[s.slot], v.storages[s.ordinal + 1], "storage")
     /\ b.uniform # None => "uniformMemory" \in alive

Dispatches == {cache.dispatches[k] : k \in DOMAIN cache.dispatches}
Phases == 0 .. 2 * Max({d.count : d \in Dispatches})

\* If create succeeds, every dispatch that binds, in every frame, reaches modules
\* that are loaded, uniform buffers that exist and the descriptors of exactly the
\* images its variant names.  (describe, bind, write_descriptors and load_modules
\* number, find, write and load the same things separately.)
ReadyToRecord ==
  stage = "created" =>
    \A d \in Dispatches, phase \in Phases : Binds(cache, d, phase) => Ready(d, phase)

\* Wherever create fails, and once the resources are destroyed, no block, module
\* or descriptor is left, and in the end no device or queue either (destroy, which
\* undoes whatever part of create was done).
NothingLeft ==
  /\ stage \in {"released", "idle"} => alive \cap Blocks = {} /\ table = {} /\ modules = 0
  /\ stage = "idle" => alive = {}

-----------------------------------------------------------------------------
(***************************************************************************)
(* The inductive invariant behind PlacedApart: what an arena placed ends   *)
(* where the next begins, as long as it has not overflowed; with an arena  *)
(* that has, create does not get as far as a block.                        *)
(***************************************************************************)
Laying == {"images", "modules"}
Filling == {"imageMemory", "descriptorMemory", "write", "uniformMemory", "codeMemory",
            "load", "created"}
Stages == {"idle", "read", "device", "describe", "released"} \cup Laying \cup Filling

Arenas == [used : 0 .. MaxBlock, overflowed : BOOLEAN]
Placement == [offset : Nat, size : Nat, alignment : Nat \ {0}]
ImagePlacement == [image : Nat, offset : Nat, size : Nat, alignment : Nat \ {0}]

TypeOK ==
  /\ Sized(cache)
  /\ stage \in Stages
  /\ alive \subseteq {"device", "queue"} \cup Blocks
  /\ imageArena \in Arenas /\ images \in Seq(ImagePlacement)
  /\ codeArena \in Arenas /\ code \in Seq(Placement)

Below(placed, end) ==
  \A k \in DOMAIN placed :
    /\ placed[k].offset % placed[k].alignment = 0
    /\ placed[k].offset + placed[k].size <= end
    /\ \A j \in 1 .. k - 1 : placed[j].offset + placed[j].size <= placed[k].offset

ImagesInv ==
  /\ imageArena.overflowed \/ Below(images, imageArena.used)
  /\ stage \in Filling \cup {"modules"} => ~ imageArena.overflowed

CodeInv ==
  /\ stage \notin Filling => codeArena.overflowed \/ Below(code, codeArena.used)
  /\ stage \in Filling => ~ codeArena.overflowed /\ Below(code, codeArena.used - CodeTail)

BlocksInv ==
  /\ stage \notin Filling => alive \cap Blocks = {} /\ table = {} /\ modules = 0
  /\ stage \in {"idle", "read", "device"} => alive = {}

IInv == TypeOK /\ ImagesInv /\ CodeInv /\ BlocksInv /\ NothingLeft

-----------------------------------------------------------------------------
(***************************************************************************)
(* The inductive invariant behind ReadyToRecord: what was read and         *)
(* described is what is written and loaded.                                *)
(***************************************************************************)
ReadyInv ==
  /\ stage \in {"device", "describe"} \cup Laying \cup Filling => ValidManifest(cache)
  /\ stage \in {"uniformMemory", "codeMemory", "load", "created"} => table = Descriptors
  /\ stage \in {"codeMemory", "load", "created"} /\ cache.uniforms # 0 =>
       "uniformMemory" \in alive
  /\ stage = "created" => modules = Len(cache.passes)

\* No pass has two entries for one slot.  The preparation writes none that has, but
\* no check of the backend refuses one, and bind would let the later entry win.
IsSequence(s) == s \in Seq(Elements(s))
OneEntryEach(slots) ==
  /\ IsSequence(slots)
  /\ \A j, k \in DOMAIN slots :
       slots[j].kind = slots[k].kind /\ slots[j].slot = slots[k].slot => j = k
Unambiguous(ps) == IsSequence(ps) /\ \A n \in DOMAIN ps : OneEntryEach(ps[n].slots)

=============================================================================
