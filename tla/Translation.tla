----------------------------- MODULE Translation -----------------------------
(***************************************************************************)
(* From a shader module to the entry of its pass: lsfg::translate::to_glsl *)
(* and what lsfg::prepare::run makes of its result.  SPIRV-Cross is        *)
(* external: it lists the pairs of an image and a sampler the code uses    *)
(* (an image read without a sampler is paired with one it introduces), the *)
(* storage images and the uniform buffers, and it may fail.                *)
(***************************************************************************)
EXTENDS Reflection

CONSTANT Limits   \* uam_limits: [textures, storages, uniforms, storageBuffers]

BindingRange == 16
UniformBase == 0
SamplerBase == 16
ImageBase == 32
StorageBase == 48

Introduced == 0      \* in place of a sampler's variable
NoSampler == -1      \* cache::introduced_sampler
MaxSlot == 255

Refuse(error) == [error |-> error]
Accept(value) == [error |-> "ok", value |-> value]

-----------------------------------------------------------------------------
(***************************************************************************)
(* to_glsl.                                                                *)
(***************************************************************************)
CheckBeforeTranslating(m) ==
  /\ m.compute /\ ~ m.push /\ ~ m.specialised
  /\ Count(m, {"storage_buffer"}) <= Limits.storageBuffers
  /\ Count(m, {"storage_image"}) <= Limits.storages
  /\ Count(m, {"uniform_buffer"}) <= Limits.uniforms
  /\ Count(m, Images) <= Limits.textures

\* The variables SPIRV-Cross lists, in the order of their declarations, whether
\* or not they have a binding.
Listed(those) == InOrder(those, Ascending(those))
StorageImages(m) == Listed({k \in DOMAIN m.variables : m.variables[k].type = "storage_image"})
UniformBuffers(m) == Listed({k \in DOMAIN m.variables : IsUniformBuffer(m.variables[k])})

BindingOf(m, k) == IF m.variables[k].binding = Undecorated THEN 0 ELSE m.variables[k].binding

\* A slot of the GLSL and the bindings the module had for what is in it, which
\* are read before place overwrites them.
Assign(m, kind, variables) ==
  [k \in DOMAIN variables |-> [kind |-> kind, slot |-> k - 1, binding |-> BindingOf(m, variables[k])]]
AssignTextures(m) ==
  [k \in DOMAIN m.uses |->
     LET use == m.uses[k]
     IN [kind |-> "texture", slot |-> k - 1, binding |-> BindingOf(m, use.image),
         introduced |-> use.sampler = Introduced,
         samplerBinding |-> IF use.sampler = Introduced THEN 0 ELSE BindingOf(m, use.sampler)]]

ToGlsl(m) ==
  LET storages == StorageImages(m)
      uniforms == UniformBuffers(m)
  IN CASE ~ m.magic                      -> Refuse("invalid_argument")
       [] m.magic /\ m.scan # "ok"       -> Refuse(m.scan)
       [] m.magic /\ m.scan = "ok" /\ ~ CheckBeforeTranslating(m) -> Refuse("unsupported")
       [] OTHER ->
            IF \/ Len(m.uses) > Limits.textures
               \/ Len(storages) > Limits.storages
               \/ Len(uniforms) > Limits.uniforms
            THEN Refuse("unsupported")
            ELSE Accept(AssignTextures(m) \o Assign(m, "storage", storages)
                          \o Assign(m, "uniform", uniforms))

-----------------------------------------------------------------------------
(***************************************************************************)
(* prepare: where a resource sits among the ones of its kind, from its     *)
(* binding alone.                                                          *)
(***************************************************************************)
InRange(binding, base) == binding >= base /\ binding < base + BindingRange
OrdinalOf(binding, base) == binding - base

Base == [texture |-> ImageBase, storage |-> StorageBase, uniform |-> UniformBase]
Known(a) ==
  /\ a.slot <= MaxSlot
  /\ InRange(a.binding, Base[a.kind])
  /\ a.kind = "texture" => a.introduced \/ InRange(a.samplerBinding, SamplerBase)

\* Mutant: a texture's place is that of its slot.
SlotEntryBySlot(a) ==
  [kind |-> a.kind, slot |-> a.slot,
   ordinal |-> IF a.kind = "texture" THEN a.slot ELSE OrdinalOf(a.binding, Base[a.kind]),
   sampler |-> IF a.kind = "texture" /\ ~ a.introduced
               THEN OrdinalOf(a.samplerBinding, SamplerBase) ELSE NoSampler]
SlotEntry(a) ==
  [kind |-> a.kind, slot |-> a.slot, ordinal |-> OrdinalOf(a.binding, Base[a.kind]),
   sampler |-> IF a.kind = "texture" /\ ~ a.introduced
               THEN OrdinalOf(a.samplerBinding, SamplerBase) ELSE NoSampler]

DescribeSlots(assignments) ==
  IF \A k \in DOMAIN assignments : Known(assignments[k])
  THEN Accept([k \in DOMAIN assignments |-> SlotEntry(assignments[k])])
  ELSE Refuse("shader_interface_mismatch")

\* The entry of a pass.  What counts as declared comes from the module itself,
\* the number of texture slots from its translation.
PassEntry(m, block, slots) ==
  [block |-> block,
   textures |-> Count(m, Images),
   storages |-> Count(m, {"storage_image"}),
   samplers |-> Count(m, {"sampler"}),
   uniforms |-> Count(m, {"uniform_buffer"}),
   textureSlots |-> Len(m.uses),
   slots |-> slots,
   loads |-> TRUE]

=============================================================================
