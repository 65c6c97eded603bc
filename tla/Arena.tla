-------------------------------- MODULE Arena --------------------------------
(***************************************************************************)
(* Placing allocations one after another in a memory block                 *)
(* (backend::Arena and create_block), as operators on values.              *)
(***************************************************************************)
EXTENDS Integers

CONSTANTS
  Page,       \* memory_block_alignment
  MaxBlock,   \* max_memory_block_bytes
  Word        \* the numbers of a std::uint64_t

ASSUME ArenaAssumption ==
  /\ Page \in Nat \ {0}
  /\ MaxBlock \in Nat
  /\ Word \in Nat
  /\ MaxBlock < Word

PowerOfTwo(n) == \E k \in 0 .. 31 : n = 2 ^ k

\* (n + mask) & ~mask, for the mask of a power of two.
RoundUp(n, alignment) == ((n + alignment - 1) \div alignment) * alignment

-----------------------------------------------------------------------------
EmptyArena == [used |-> 0, overflowed |-> FALSE]

\* The difference is an unsigned one.
Fits(arena, size, alignment) ==
  /\ PowerOfTwo(alignment)
  /\ size <= (MaxBlock - RoundUp(arena.used, alignment)) % Word

\* Where place puts an allocation, and the arena it leaves.  An overflow stays,
\* whatever fits afterwards.  Mutant: what fits makes up for what did not.
Offset(arena, size, alignment) ==
  IF Fits(arena, size, alignment) THEN RoundUp(arena.used, alignment) ELSE 0
PlaceForgets(arena, size, alignment) ==
  IF Fits(arena, size, alignment)
  THEN [used |-> RoundUp(arena.used, alignment) + size, overflowed |-> FALSE]
  ELSE [arena EXCEPT !.overflowed = TRUE]
Place(arena, size, alignment) ==
  IF Fits(arena, size, alignment)
  THEN [arena EXCEPT !.used = RoundUp(arena.used, alignment) + size]
  ELSE [arena EXCEPT !.overflowed = TRUE]

BlockSize(arena) == IF arena.overflowed THEN 0 ELSE RoundUp(arena.used, Page)

\* What create_block asks of the device, if it asks at all.
Creatable(size) == RoundUp(size, Page) \in 1 .. MaxBlock

=============================================================================
