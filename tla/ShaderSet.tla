------------------------------ MODULE ShaderSet ------------------------------
(***************************************************************************)
(* The shaders of a DLL: lsfg::pe::enumerate_resources, which walks its    *)
(* resource directory, and lsfg::shaders, which finds the two blocks of    *)
(* shaders among the resources and names the ones the chain needs.         *)
(*                                                                         *)
(* A DLL is [header, directory]: what reading its headers comes to, and    *)
(* the entries of the resource directory.  A directory is [entries] and a  *)
(* data entry [inside, data]; an entry is [named, id, child].  What a      *)
(* resource holds is a module, or [magic] for bytes that are none.         *)
(***************************************************************************)
EXTENDS Reflection

CONSTANTS
  Chain,              \* chain: the slots of the chain, in order
  MinimumBlock,       \* minimum_block_size
  PerformanceOffset,  \* performance_offset
  MaxResources        \* max_resources

\* The chain as it is: name, place in a block, whether performance mode has a
\* shader of its own.
Slot(name, block, performance) == [name |-> name, block |-> block, performance |-> performance]
ChainSlots ==
  << Slot("mipmaps", 1, FALSE),
     Slot("alpha.0", 13, TRUE), Slot("alpha.1", 14, TRUE), Slot("alpha.2", 15, TRUE),
     Slot("alpha.3", 16, TRUE),
     Slot("beta.0", 21, TRUE), Slot("beta.1", 22, TRUE), Slot("beta.2", 23, TRUE),
     Slot("beta.3", 24, TRUE), Slot("beta.4", 25, TRUE),
     Slot("gamma.0", 3, TRUE), Slot("gamma.1", 5, TRUE), Slot("gamma.2", 6, TRUE),
     Slot("gamma.3", 7, TRUE), Slot("gamma.4", 8, TRUE),
     Slot("delta.0", 3, TRUE), Slot("delta.1", 9, TRUE), Slot("delta.2", 10, TRUE),
     Slot("delta.3", 11, TRUE), Slot("delta.4", 12, TRUE), Slot("delta.5", 4, TRUE),
     Slot("delta.6", 17, TRUE), Slot("delta.7", 18, TRUE), Slot("delta.8", 19, TRUE),
     Slot("delta.9", 20, TRUE),
     Slot("generate", 2, FALSE) >>

RcData == 10   \* resource_type_rcdata

Failed(error) == [error |-> error]
Ok(value) == [error |-> "ok", value |-> value]

-----------------------------------------------------------------------------
(***************************************************************************)
(* pe: the types, in them the ids, in them the languages.  The walk is told*)
(* by the nodes it comes to an end at, in its order, each with the ids on  *)
(* the way there; the first that is no resource ends it.                   *)
(***************************************************************************)
IsDirectory(child) == "entries" \in DOMAIN child

\* The loop of walk_directory.  Entries with a name instead of a number come
\* first and are skipped.
Numbered(directory) == SelectSeq(directory.entries, LAMBDA entry : ~ entry.named)
Children(node) ==
  [k \in DOMAIN Numbered(node.child) |->
     LET entry == Numbered(node.child)[k]
     IN [path |-> Append(node.path, entry.id), child |-> entry.child]]

\* One level further down; data met on the way stays where it is.
Descend(nodes) ==
  FlattenSeq([k \in DOMAIN nodes |->
                IF IsDirectory(nodes[k].child) THEN Children(nodes[k]) ELSE <<nodes[k]>>])
Leaves(dll) == Descend(Descend(Descend(<<[path |-> <<>>, child |-> dll.directory]>>)))

\* walk_directory's switch and walk_data_entry, when they have found k - 1 resources.
LeafError(k, leaf) ==
  CASE IsDirectory(leaf.child)     -> "unsupported"
    [] ~ IsDirectory(leaf.child) /\ (Len(leaf.path) < 3 \/ ~ leaf.child.inside) -> "io_error"
    [] OTHER                       -> IF k > MaxResources THEN "unsupported" ELSE "ok"

Enumerate(dll) ==
  LET leaves == Leaves(dll)
      Bad    == {k \in DOMAIN leaves : LeafError(k, leaves[k]) # "ok"}
  IN CASE dll.header # "ok" -> Failed(dll.header)
       [] dll.header = "ok" /\ Bad # {} -> Failed(LeafError(Min(Bad), leaves[Min(Bad)]))
       [] OTHER ->
            Ok([k \in DOMAIN leaves |->
                  [type |-> leaves[k].path[1], id |-> leaves[k].path[2],
                   data |-> leaves[k].child.data]])

-----------------------------------------------------------------------------
(***************************************************************************)
(* shaders: the SPIR-V resources are two consecutive blocks of one size,   *)
(* and exactly one of them declares Float16.                               *)
(***************************************************************************)
Shaders(resources) ==
  {k \in DOMAIN resources : resources[k].type = RcData /\ resources[k].data.magic}

\* Their places in the table, by their ids.  The sort leaves open which of two with
\* the same id comes first, and the next test refuses them.
ById(resources) ==
  LET modules == Shaders(resources)
  IN InOrder(modules, {p \in modules \X modules :
                         LET a == resources[p[1]].id
                             b == resources[p[2]].id
                         IN a < b \/ (a = b /\ p[1] < p[2])})
Consecutive(resources, sorted) ==
  \A k \in 2 .. Len(sorted) : resources[sorted[k]].id = resources[sorted[k - 1]].id + 1

Half(sorted, size, block) == {sorted[k] : k \in block * size + 1 .. (block + 1) * size}
DeclaresFloat16(resources, sorted, size, block) ==
  \E k \in Half(sorted, size, block) : resources[k].data.float16

Identify(resources) ==
  LET sorted == ById(resources)
      size   == Len(sorted) \div 2
      Declares(block) == DeclaresFloat16(resources, sorted, size, block)
      low    == IF Declares(0) THEN 0 ELSE 1
      Module(k) == resources[sorted[k]].data
      Bad    == {k \in DOMAIN sorted : Module(k).scan # "ok" \/ ~ Module(k).compute}
  IN CASE \/ sorted = <<>> \/ ~ Consecutive(resources, sorted)
          \/ Len(sorted) % 2 # 0 \/ size < MinimumBlock
            -> Failed("shader_set_unknown")
       [] Bad # {} ->
            Failed(LET m == Module(Min(Bad))
                   IN IF m.scan = "ok" THEN "shader_set_unknown" ELSE m.scan)
       [] Bad = {} /\ Declares(0) = Declares(1)
            -> Failed("shader_set_unknown")
       [] OTHER
            -> Ok([first |-> resources[sorted[1]].id, size |-> size,
                   low |-> low, high |-> 1 - low])

\* resource_id_for.  Mutant: always the block of low precision.
ResourceIdInLow(set, precision, block) == set.first + set.low * set.size + block
ResourceIdFor(set, precision, block) ==
  set.first + (IF precision = "low" THEN set.low ELSE set.high) * set.size + block

\* block_index_of, and the first lines of the loop of required_modules.
BlockIndexOf(performance, slot) ==
  slot.block + (IF performance /\ slot.performance THEN PerformanceOffset ELSE 0)

\* required_modules: in the order of the blocks, each once.
RequiredModules(set, precision, performance) ==
  LET blocks == {BlockIndexOf(performance, Chain[k]) : k \in DOMAIN Chain}
  IN IF set.size < MinimumBlock \/ \E b \in blocks : b >= set.size
     THEN Failed("shader_set_unknown")
     ELSE Ok([k \in 1 .. Cardinality(blocks) |->
                LET b == InOrder(blocks, Ascending(blocks))[k]
                IN [block |-> b, id |-> ResourceIdFor(set, precision, b)]])

=============================================================================
