----------------------------- MODULE Reflection -----------------------------
(***************************************************************************)
(* What lsfg::spirv::inspect finds in a shader module, as operators on a   *)
(* module                                                                  *)
(*   [magic, scan, compute, float16, push, specialised, variables, uses]:  *)
(* whether it begins as SPIR-V does and what scanning its words comes to,  *)
(* what it declares, and the pairs of an image and a sampler its code uses.*)
(* A variable is what its declaration and its decorations say:             *)
(*   [type, class, lengths, set, binding],                                 *)
(* its lengths those of the arrays around its type, from the outside in,   *)
(* 0 for one that has no literal.  Opcodes, ids and words are left out.    *)
(***************************************************************************)
EXTENDS Integers, Sequences, FiniteSets, FiniteSetsExt, SequencesExt

CONSTANT Number   \* how many numbers a std::uint32_t has

Undecorated == -1      \* no DescriptorSet, or no Binding
MaxNesting == 8        \* array types resolve_array looks through

Images == {"separate_image", "sampled_image"}
Opaque == Images \cup {"storage_image", "sampler"}

\* The order in which inspect hands the bindings out is left out: whoever reads
\* them counts.  Without decorations a variable is no binding at all.
Bindings(m) ==
  {k \in DOMAIN m.variables :
     m.variables[k].set # Undecorated \/ m.variables[k].binding # Undecorated}

\* resolve_array.
Resolved(v) == Len(v.lengths) < MaxNesting
ArraySize(v) ==
  LET size[n \in 0 .. Len(v.lengths)] ==
        IF n = 0 THEN 1 ELSE (size[n - 1] * Max({1, v.lengths[n]})) % Number
  IN IF Resolved(v) THEN size[Len(v.lengths)] ELSE 1

IsStorageBuffer(v) ==
  v.type = "buffer_block" \/ (v.type \in {"block", "struct"} /\ v.class = "storage_buffer")
IsUniformBuffer(v) == v.type = "block" /\ v.class = "uniform"

Kind(v) ==
  CASE ~ Resolved(v)       -> "unknown"
    [] v.type \in Opaque   -> v.type
    [] IsStorageBuffer(v)  -> "storage_buffer"
    [] IsUniformBuffer(v)  -> "uniform_buffer"
    [] OTHER               -> "unknown"

\* count_descriptors, for the bindings of some kinds: an array has as many as elements.
DescriptorsOf(m, kinds) ==
  UNION {{k} \X (1 .. ArraySize(m.variables[k])) :
           k \in {k \in Bindings(m) : Kind(m.variables[k]) \in kinds}}
Count(m, kinds) == Cardinality(DescriptorsOf(m, kinds)) % Number

\* What std::sort makes of a set: the n-th is the one with n - 1 before it.
InOrder(S, before) ==
  [n \in 1 .. Cardinality(S) |->
     CHOOSE k \in S : Cardinality({j \in S : <<j, k>> \in before}) = n - 1]
Ascending(S) == {p \in S \X S : p[1] < p[2]}

=============================================================================
