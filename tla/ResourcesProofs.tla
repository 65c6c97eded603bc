--------------------------- MODULE ResourcesProofs ---------------------------
(***************************************************************************)
(* Whatever the sizes, alignments and failures, what lies in a block that  *)
(* exists lies apart, and a failure leaves nothing.                        *)
(***************************************************************************)
EXTENDS Resources, SequenceTheorems, FiniteSetTheorems, WellFoundedInduction, TLAPS

(***************************************************************************)
(* Rounding up, and what an arena does with it.                            *)
(***************************************************************************)
LEMMA RoundedUp ==
  ASSUME NEW n \in Nat, NEW a \in Nat \ {0}
  PROVE  /\ RoundUp(n, a) \in Nat
         /\ n <= RoundUp(n, a)
         /\ RoundUp(n, a) % a = 0
         /\ a = 1 => RoundUp(n, a) = n
<1> DEFINE k == (n + a - 1) \div a
<1>1. k \in Nat /\ k * a <= n + a - 1 /\ n + a - 1 < k * a + a
  OBVIOUS
<1>2. k * a \in Nat /\ (k * a) % a = 0
  BY <1>1
<1>3. QED
  BY <1>1, <1>2 DEF RoundUp

LEMMA RoundedBelow ==
  ASSUME NEW n \in Nat, NEW a \in Nat \ {0}, n <= MaxBlock, MaxBlock % a = 0
  PROVE  RoundUp(n, a) <= MaxBlock
<1> DEFINE k == (n + a - 1) \div a
           q == MaxBlock \div a
<1>1. k \in Nat /\ k * a <= n + a - 1
  OBVIOUS
<1>2. q \in Nat /\ MaxBlock = q * a
  BY ArenaAssumption
<1>3. k * a < (q + 1) * a
  BY <1>1, <1>2
<1>4. k <= q
  <2>1. SUFFICES ASSUME k >= q + 1 PROVE FALSE
    BY <1>1, <1>2
  <2>2. k * a >= (q + 1) * a
    BY <2>1, <1>1, <1>2
  <2>3. QED
    BY <2>2, <1>1, <1>2, <1>3
<1>5. k * a <= q * a
  BY <1>4, <1>1, <1>2
<1>6. QED
  BY <1>5, <1>2 DEF RoundUp

(***************************************************************************)
(* An allocation that fits goes behind the others, and one that does not   *)
(* leaves the arena overflowed.                                            *)
(***************************************************************************)
LEMMA Placing ==
  ASSUME NEW P, NEW placed \in Seq(P), NEW arena \in Arenas,
         \A q \in P : q.offset \in Nat /\ q.size \in Nat,
         NEW size \in Nat, NEW a \in Nat \ {0}, MaxBlock % a = 0,
         NEW p \in P,
         p.offset = Offset(arena, size, a), p.size = size, p.alignment = a,
         arena.overflowed \/ Below(placed, arena.used)
  PROVE  /\ Place(arena, size, a) \in Arenas
         /\ \/ Place(arena, size, a).overflowed
            \/ Below(Append(placed, p), Place(arena, size, a).used)
<1> DEFINE start == RoundUp(arena.used, a)
           after == Place(arena, size, a)
<1>1. /\ arena.used \in Nat /\ arena.used <= MaxBlock /\ arena.overflowed \in BOOLEAN
      /\ MaxBlock \in Nat /\ Word \in Nat /\ MaxBlock < Word
  BY ArenaAssumption DEF Arenas
<1>2. start \in Nat /\ arena.used <= start /\ start % a = 0 /\ start <= MaxBlock
  BY <1>1, RoundedUp, RoundedBelow
<1>3. CASE Fits(arena, size, a)
  <2> HIDE DEF start
  <2>1. after = [used |-> start + size, overflowed |-> arena.overflowed]
    BY <1>3 DEF Place, Arenas, start
  <2>2. start + size <= MaxBlock
    <3>1. size <= (MaxBlock - start) % Word
      BY <1>3 DEF Fits, start
    <3>2. (MaxBlock - start) % Word = MaxBlock - start
      <4>1. MaxBlock - start \in Nat /\ MaxBlock - start < Word
        BY <1>1, <1>2
      <4>2. \A n \in Nat : n < Word => n % Word = n
        BY <1>1
      <4>3. QED
        BY <4>1, <4>2
    <3>3. QED
      BY <3>1, <3>2, <1>1, <1>2
  <2>3. after \in Arenas
    BY <2>1, <2>2, <1>1, <1>2 DEF Arenas
  <2>4. p.offset = start
    BY <1>3 DEF Offset, start
  <2>5. ASSUME Below(placed, arena.used)
        PROVE  Below(Append(placed, p), start + size)
    <3>1. SUFFICES ASSUME NEW k \in DOMAIN Append(placed, p)
                   PROVE  /\ Append(placed, p)[k].offset % Append(placed, p)[k].alignment = 0
                          /\ Append(placed, p)[k].offset + Append(placed, p)[k].size <= start + size
                          /\ \A j \in 1 .. k - 1 :
                               Append(placed, p)[j].offset + Append(placed, p)[j].size
                                 <= Append(placed, p)[k].offset
      BY DEF Below
    <3>2. /\ Len(placed) \in Nat /\ DOMAIN placed = 1 .. Len(placed)
          /\ k \in 1 .. Len(placed) + 1
          /\ \A j \in 1 .. Len(placed) : Append(placed, p)[j] = placed[j] /\ placed[j] \in P
          /\ Append(placed, p)[Len(placed) + 1] = p
      OBVIOUS
    <3>3. CASE k \in 1 .. Len(placed)
      <4>1. /\ placed[k].offset % placed[k].alignment = 0
            /\ placed[k].offset + placed[k].size <= arena.used
            /\ \A j \in 1 .. k - 1 : placed[j].offset + placed[j].size <= placed[k].offset
        BY <2>5, <3>2, <3>3 DEF Below
      <4>2. placed[k].offset + placed[k].size <= start + size
        BY <4>1, <3>2, <3>3, <1>1, <1>2
      <4>3. QED
        BY <4>1, <4>2, <3>2, <3>3
    <3>4. CASE k = Len(placed) + 1
      <4>1. \A j \in 1 .. k - 1 : placed[j].offset + placed[j].size <= start
        <5>1. TAKE j \in 1 .. k - 1
        <5>2. j \in DOMAIN placed /\ placed[j] \in P
          BY <3>2, <3>4
        <5>3. placed[j].offset + placed[j].size <= arena.used
          BY <5>2, <2>5 DEF Below
        <5>4. QED
          BY <5>2, <5>3, <1>1, <1>2
      <4>2. QED
        BY <4>1, <3>2, <3>4, <2>4, <1>2
    <3>5. QED
      BY <3>2, <3>3, <3>4
  <2>6. QED
    BY <2>1, <2>3, <2>5
<1>4. CASE ~ Fits(arena, size, a)
  <2>1. after = [used |-> arena.used, overflowed |-> TRUE]
    BY <1>4 DEF Place, Arenas
  <2>2. QED
    BY <2>1, <1>1 DEF Arenas
<1>5. QED
  BY <1>3, <1>4

-----------------------------------------------------------------------------
USE DEF Blocks, Laying, Filling, Stages, Goto, options, layout

LEMMA Initial == Init => IInv
<1>1. \A P : << >> \in Seq(P)
  OBVIOUS
<1>2. EmptyArena \in Arenas /\ ~ EmptyArena.overflowed
  BY ArenaAssumption DEF EmptyArena, Arenas
<1>3. \A end : Below(<< >>, end)
  BY DEF Below
<1>4. Sized(NoCache)
  BY DEF Sized, NoCache
<1>5. QED
  BY <1>1, <1>2, <1>3, <1>4 DEF Init, IInv, TypeOK, ImagesInv, CodeInv, BlocksInv, NothingLeft

\* A failure destroys whatever there is.
LEMMA Failing == IInv /\ Fail => IInv'
<1> SUFFICES ASSUME IInv, Fail PROVE IInv'
  OBVIOUS
<1>1. \A P : << >> \in Seq(P)
  OBVIOUS
<1>2. EmptyArena \in Arenas /\ ~ EmptyArena.overflowed
  BY ArenaAssumption DEF EmptyArena, Arenas
<1>3. \A end : Below(<< >>, end)
  BY DEF Below
<1>4. /\ stage' = "released" /\ cache' = cache /\ alive' = alive \ Blocks
      /\ imageArena' = EmptyArena /\ images' = << >>
      /\ codeArena' = EmptyArena /\ code' = << >> /\ table' = {} /\ modules' = 0
  BY DEF Fail, Destroy
<1>5. TypeOK'
  BY <1>1, <1>2, <1>4 DEF IInv, TypeOK
<1>6. ImagesInv' /\ CodeInv'
  BY <1>2, <1>3, <1>4 DEF ImagesInv, CodeInv, Below
<1>7. BlocksInv' /\ NothingLeft'
  BY <1>4 DEF BlocksInv, NothingLeft
<1>8. QED
  BY <1>5, <1>6, <1>7 DEF IInv

\* A step between two stages that leaves the layout alone.
LEMMA Moving ==
  ASSUME IInv, stage' \in Stages, alive' \subseteq {"device", "queue"} \cup Blocks,
         Sized(cache'), UNCHANGED layout,
         stage \in Filling <=> stage' \in Filling,
         stage' = "modules" => ~ imageArena.overflowed,
         BlocksInv', NothingLeft'
  PROVE  IInv'
<1>1. TypeOK'
  BY DEF IInv, TypeOK
<1>2. ImagesInv'
  BY DEF IInv, ImagesInv, Below
<1>3. CodeInv'
  BY DEF IInv, CodeInv, Below
<1>4. QED
  BY <1>1, <1>2, <1>3 DEF IInv

\* measure_cache begins with any cache.
LEMMA Beginning ==
  ASSUME IInv, NEW c, Sized(c), Measure(c)
  PROVE  IInv'
<1>1. BlocksInv' /\ NothingLeft'
  BY DEF Measure, IInv, BlocksInv, NothingLeft
<1>2. stage = "idle" /\ stage' = "read" /\ cache' = c /\ UNCHANGED <<alive, layout>>
  BY DEF Measure
<1>3. Sized(cache') /\ alive' \subseteq {"device", "queue"} \cup Blocks
  BY <1>2 DEF IInv, TypeOK
<1>4. QED
  BY <1>1, <1>2, <1>3, Moving

LEMMA Resting == IInv /\ UNCHANGED vars => IInv'
<1> SUFFICES ASSUME IInv, UNCHANGED vars PROVE IInv'
  OBVIOUS
<1>1. BlocksInv' /\ NothingLeft'
  BY DEF vars, IInv, BlocksInv, NothingLeft
<1>2. QED
  BY <1>1, Moving DEF vars, IInv, TypeOK, ImagesInv

LEMMA Running == IInv /\ MeasureCache => IInv'
<1> SUFFICES ASSUME IInv, MeasureCache PROVE IInv'
  OBVIOUS
<1>0. Sized(NoCache)
  BY DEF Sized, NoCache
<1>1. CASE LoadCache
  <2>1. BlocksInv' /\ NothingLeft'
    BY <1>1 DEF LoadCache, Return, IInv, BlocksInv, NothingLeft
  <2>2. QED
    BY <1>0, <1>1, <2>1, Moving DEF LoadCache, Return, IInv, TypeOK
<1>2. CASE CreateDevice
  <2>1. BlocksInv' /\ NothingLeft'
    <3>1. {"device", "queue"} \cap Blocks = {}
      OBVIOUS
    <3>2. /\ table' = {} /\ modules' = 0
          /\ \/ alive' = {"device", "queue"} /\ stage' = "describe"
             \/ alive' = {} /\ stage' = "idle"
      BY <1>2 DEF CreateDevice, Return, IInv, BlocksInv
    <3>3. QED
      BY <3>1, <3>2 DEF BlocksInv, NothingLeft
  <2>2. QED
    BY <1>0, <1>2, <2>1, Moving DEF CreateDevice, Return, IInv, TypeOK
<1>3. CASE Describe
  <2>1. CASE Fail
    BY <2>1, Failing
  <2>2. CASE ~ Fail
    <3>1. BlocksInv' /\ NothingLeft'
      BY <1>3, <2>2 DEF Describe, IInv, BlocksInv, NothingLeft
    <3>2. QED
      BY <1>3, <2>2, <3>1, Moving DEF Describe, IInv, TypeOK
  <2>3. QED
    BY <2>1, <2>2
<1>4. CASE LayOutImage
  <2>1. PICK i \in DOMAIN cache.images, padding \in 0 .. Padding, alignment \in Alignments :
          LET size == cache.images[i].bytes + padding
          IN /\ images' = Append(images,
                            [image |-> i, offset |-> Offset(imageArena, size, alignment),
                             size |-> size, alignment |-> alignment])
             /\ imageArena' = Place(imageArena, size, alignment)
    BY <1>4 DEF LayOutImage
  <2> DEFINE size == cache.images[i].bytes + padding
             p == [image |-> i, offset |-> Offset(imageArena, size, alignment),
                   size |-> size, alignment |-> alignment]
  <2>2. i \in Nat /\ size \in Nat /\ alignment \in Nat \ {0} /\ MaxBlock % alignment = 0
    <3>1. Sized(cache)
      BY DEF IInv, TypeOK
    <3>2. i \in Nat /\ cache.images[i].bytes \in Nat
      BY <3>1 DEF Sized
    <3>3. padding \in Nat
      BY ResourcesAssumption
    <3>4. QED
      BY <3>2, <3>3, ResourcesAssumption
  <2>3. imageArena \in Arenas /\ images \in Seq(ImagePlacement)
    BY DEF IInv, TypeOK
  <2>4. p \in ImagePlacement
    <3>1. RoundUp(imageArena.used, alignment) \in Nat
      BY <2>2, <2>3, RoundedUp, ArenaAssumption DEF Arenas
    <3>2. QED
      BY <2>2, <3>1 DEF ImagePlacement, Offset
  <2>5. imageArena' \in Arenas /\ (imageArena'.overflowed \/ Below(images', imageArena'.used))
    <3> HIDE DEF size
    <3>1. \A q \in ImagePlacement : q.offset \in Nat /\ q.size \in Nat
      BY DEF ImagePlacement
    <3>2. imageArena.overflowed \/ Below(images, imageArena.used)
      BY DEF IInv, ImagesInv
    <3>3. /\ Place(imageArena, size, alignment) \in Arenas
          /\ \/ Place(imageArena, size, alignment).overflowed
             \/ Below(Append(images, p), Place(imageArena, size, alignment).used)
      BY <2>2, <2>3, <2>4, <3>1, <3>2, Placing
    <3>4. QED
      BY <2>1, <3>3 DEF size
  <2>6. images' \in Seq(ImagePlacement)
    BY <2>1, <2>3, <2>4
  <2>7. /\ stage = "images" /\ stage' = stage
        /\ UNCHANGED <<cache, alive, codeArena, code, table, modules>>
    BY <1>4 DEF LayOutImage
  <2>8. TypeOK'
    BY <2>5, <2>6, <2>7 DEF IInv, TypeOK
  <2>9. ImagesInv' /\ CodeInv' /\ BlocksInv' /\ NothingLeft'
    BY <2>5, <2>7 DEF IInv, ImagesInv, CodeInv, BlocksInv, NothingLeft, Below
  <2>10. QED
    BY <2>8, <2>9 DEF IInv
<1>5. CASE LaidOutImages
  <2>1. CASE Fail
    BY <2>1, Failing
  <2>2. CASE ~ Fail
    <3>1. BlocksInv' /\ NothingLeft'
      BY <1>5, <2>2 DEF LaidOutImages, IInv, BlocksInv, NothingLeft
    <3>2. QED
      BY <1>5, <2>2, <3>1, Moving DEF LaidOutImages, IInv, TypeOK
  <2>3. QED
    BY <2>1, <2>2
<1>6. CASE LayOutModule
  <2>1. PICK size \in CodeSizes :
          /\ code' = Append(code, [offset |-> Offset(codeArena, size, CodeAlignment),
                                   size |-> size, alignment |-> CodeAlignment])
          /\ codeArena' = Place(codeArena, size, CodeAlignment)
    BY <1>6 DEF LayOutModule
  <2> DEFINE p == [offset |-> Offset(codeArena, size, CodeAlignment),
                   size |-> size, alignment |-> CodeAlignment]
  <2>2. size \in Nat /\ CodeAlignment \in Nat \ {0} /\ MaxBlock % CodeAlignment = 0
    BY ResourcesAssumption
  <2>3. codeArena \in Arenas /\ code \in Seq(Placement)
    BY DEF IInv, TypeOK
  <2>4. p \in Placement
    <3>1. RoundUp(codeArena.used, CodeAlignment) \in Nat
      BY <2>2, <2>3, RoundedUp, ArenaAssumption DEF Arenas
    <3>2. QED
      BY <2>2, <3>1 DEF Placement, Offset
  <2>5. /\ stage = "modules" /\ stage' = stage
        /\ UNCHANGED <<cache, alive, imageArena, images, table, modules>>
    BY <1>6 DEF LayOutModule
  <2>6. codeArena' \in Arenas /\ (codeArena'.overflowed \/ Below(code', codeArena'.used))
    <3>1. \A q \in Placement : q.offset \in Nat /\ q.size \in Nat
      BY DEF Placement
    <3>2. codeArena.overflowed \/ Below(code, codeArena.used)
      BY <2>5 DEF IInv, CodeInv
    <3>3. /\ Place(codeArena, size, CodeAlignment) \in Arenas
          /\ \/ Place(codeArena, size, CodeAlignment).overflowed
             \/ Below(Append(code, p), Place(codeArena, size, CodeAlignment).used)
      BY <2>2, <2>3, <2>4, <3>1, <3>2, Placing
    <3>4. QED
      BY <2>1, <3>3
  <2>7. code' \in Seq(Placement)
    BY <2>1, <2>3, <2>4
  <2>8. TypeOK'
    BY <2>5, <2>6, <2>7 DEF IInv, TypeOK
  <2>9. ImagesInv' /\ CodeInv' /\ BlocksInv' /\ NothingLeft'
    BY <2>5, <2>6 DEF IInv, ImagesInv, CodeInv, BlocksInv, NothingLeft, Below
  <2>10. QED
    BY <2>8, <2>9 DEF IInv
<1>7. CASE LaidOutModules
  <2>1. CASE Fail
    BY <2>1, Failing
  <2>2. CASE ~ Fail
    <3>1. /\ stage = "modules" /\ stage' = "imageMemory"
          /\ ~ Place(codeArena, CodeTail, 1).overflowed
          /\ codeArena' = Place(codeArena, CodeTail, 1)
          /\ UNCHANGED <<cache, alive, imageArena, images, code, table, modules>>
      BY <1>7, <2>2 DEF LaidOutModules, WithTail
    <3>2. codeArena \in Arenas /\ CodeTail \in Nat /\ MaxBlock % 1 = 0
      BY ResourcesAssumption DEF IInv, TypeOK
    <3>3. /\ codeArena' = [codeArena EXCEPT !.used = codeArena.used + CodeTail]
          /\ ~ codeArena.overflowed /\ ~ codeArena'.overflowed
          /\ codeArena'.used - CodeTail = codeArena.used
      <4>1. codeArena.used \in Nat /\ RoundUp(codeArena.used, 1) = codeArena.used
        BY <3>2, RoundedUp, ArenaAssumption DEF Arenas
      <4>2. QED
        BY <3>1, <3>2, <4>1 DEF Place, Arenas
    <3>4. codeArena' \in Arenas
      <4>1. PICK placed \in Seq(Placement) : Below(placed, codeArena.used)
        <5>1. << >> \in Seq(Placement) /\ Below(<< >>, codeArena.used)
          BY DEF Below
        <5>2. QED
          BY <5>1
      <4>2. PICK tail \in Placement : /\ tail.offset = Offset(codeArena, CodeTail, 1)
                                     /\ tail.size = CodeTail /\ tail.alignment = 1
        <5>1. Offset(codeArena, CodeTail, 1) \in Nat
          BY <3>2, RoundedUp, ArenaAssumption DEF Arenas, Offset
        <5>2. [offset |-> Offset(codeArena, CodeTail, 1), size |-> CodeTail, alignment |-> 1]
                \in Placement
          BY <5>1, <3>2 DEF Placement
        <5>3. QED
          BY <5>2
      <4>3. \A q \in Placement : q.offset \in Nat /\ q.size \in Nat
        BY DEF Placement
      <4>4. 1 \in Nat \ {0}
        OBVIOUS
      <4>5. /\ Place(codeArena, CodeTail, 1) \in Arenas
            /\ \/ Place(codeArena, CodeTail, 1).overflowed
               \/ Below(Append(placed, tail), Place(codeArena, CodeTail, 1).used)
        BY <3>2, <4>1, <4>2, <4>3, <4>4, Placing
      <4>6. QED
        BY <3>1, <4>5
    <3>5. Below(code, codeArena.used)
      BY <3>1, <3>3 DEF IInv, CodeInv
    <3>6. TypeOK'
      BY <3>1, <3>4 DEF IInv, TypeOK
    <3>7. ImagesInv' /\ CodeInv'
      BY <3>1, <3>3, <3>5 DEF IInv, ImagesInv, CodeInv, Below
    <3>8. BlocksInv' /\ NothingLeft'
      BY <3>1 DEF BlocksInv, NothingLeft
    <3>9. QED
      BY <3>6, <3>7, <3>8 DEF IInv
  <2>3. QED
    BY <2>1, <2>2
<1>8. ASSUME NEW block \in Blocks, NEW size, NEW next \in Filling,
             block \in Filling, CreateBlock(block, size, next)
      PROVE  IInv'
  <2>1. CASE Fail
    BY <2>1, Failing
  <2>2. CASE ~ Fail
    <3>1. BlocksInv' /\ NothingLeft'
      BY <1>8, <2>2 DEF CreateBlock, BlocksInv, NothingLeft
    <3>2. QED
      BY <1>8, <2>2, <3>1, Moving DEF CreateBlock, IInv, TypeOK
  <2>3. QED
    BY <2>1, <2>2
<1>9. CASE CreateImages \/ CreateDescriptors \/ CreateUniforms \/ CreateCode
  BY <1>8, <1>9 DEF CreateImages, CreateDescriptors, CreateUniforms, CreateCode
<1>10. CASE WriteDescriptors \/ LoadModule \/ Created
  <2>1. CASE Fail
    BY <2>1, Failing
  <2>2. CASE ~ Fail
    <3>1. BlocksInv' /\ NothingLeft'
      BY <1>10, <2>2 DEF WriteDescriptors, LoadModule, Created, BlocksInv, NothingLeft
    <3>2. QED
      BY <1>10, <2>2, <3>1, Moving DEF WriteDescriptors, LoadModule, Created, IInv, TypeOK
  <2>3. QED
    BY <2>1, <2>2
<1>11. CASE DestroyResources
  BY <1>11, Failing DEF DestroyResources, Fail
<1>12. CASE DestroyDevice
  <2>1. BlocksInv' /\ NothingLeft'
    BY <1>12 DEF DestroyDevice, Return, IInv, TypeOK, BlocksInv, NothingLeft
  <2>2. QED
    BY <1>0, <1>12, <2>1, Moving DEF DestroyDevice, Return, IInv, TypeOK
<1>13. QED
  BY <1>1, <1>2, <1>3, <1>4, <1>5, <1>6, <1>7, <1>9, <1>10, <1>11, <1>12
     DEF MeasureCache, CreateResources

LEMMA Inductive == IInv /\ [Next]_vars => IInv'
<1> SUFFICES ASSUME IInv, [Next]_vars PROVE IInv'
  OBVIOUS
<1>1. ASSUME NEW c \in Caches, Measure(c)
      PROVE  IInv'
  BY <1>1, Beginning, ResourcesAssumption
<1>2. CASE MeasureCache
  BY <1>2, Running
<1>3. CASE UNCHANGED vars
  BY <1>3, Resting
<1>4. QED
  BY <1>1, <1>2, <1>3 DEF Next

\* IInv holds in every state of the program: what is placed and what is left
\* behind, for any cache, sizes, alignments, budget and failures of deko3d
\* (Resources::create and destroy).
THEOREM Invariance == Spec => []IInv
<1>1. Init => IInv
  BY Initial
<1>2. IInv /\ [Next]_vars => IInv'
  BY Inductive
<1>3. QED
  BY <1>1, <1>2, PTL DEF Spec

\* An arena that did not overflow ends inside its block.
LEMMA Apart == IInv => PlacedApart
<1> SUFFICES ASSUME IInv PROVE PlacedApart
  OBVIOUS
<1>1. ASSUME NEW arena \in Arenas, ~ arena.overflowed
      PROVE  arena.used <= BlockSize(arena) /\ arena.used \in Nat /\ BlockSize(arena) \in Nat
  BY <1>1, RoundedUp, ArenaAssumption DEF Arenas, BlockSize
<1>2. ASSUME NEW P, NEW placed \in Seq(P), NEW block, NEW size \in Int, NEW end \in Int,
             \A q \in P : q.offset \in Nat /\ q.size \in Nat,
             Below(placed, end), end <= size
      PROVE  PlacedIn(block, size, placed)
  <2>1. SUFFICES ASSUME NEW k \in DOMAIN placed
                 PROVE  /\ placed[k].offset % placed[k].alignment = 0
                        /\ placed[k].offset + placed[k].size <= size
                        /\ \A j \in 1 .. k - 1 : Disjoint(placed[j], placed[k])
    BY DEF PlacedIn
  <2>2. /\ placed[k].offset % placed[k].alignment = 0
        /\ placed[k].offset + placed[k].size <= end
        /\ \A j \in 1 .. k - 1 : placed[j].offset + placed[j].size <= placed[k].offset
    BY <1>2 DEF Below
  <2>3. placed[k].offset \in Nat /\ placed[k].size \in Nat
    BY <1>2
  <2>4. QED
    BY <2>2, <2>3, <1>2 DEF Disjoint
<1>3. PlacedIn("imageMemory", BlockSize(imageArena), images)
  <2>1. CASE stage \in Filling
    <3>1. ~ imageArena.overflowed /\ Below(images, imageArena.used)
      BY <2>1 DEF IInv, ImagesInv
    <3>2. imageArena \in Arenas /\ images \in Seq(ImagePlacement)
      BY DEF IInv, TypeOK
    <3>3. \A q \in ImagePlacement : q.offset \in Nat /\ q.size \in Nat
      BY DEF ImagePlacement
    <3>4. /\ imageArena.used <= BlockSize(imageArena)
          /\ imageArena.used \in Int /\ BlockSize(imageArena) \in Int
      BY <1>1, <3>1, <3>2
    <3>5. QED
      BY <1>2, <3>1, <3>2, <3>3, <3>4
  <2>2. CASE stage \notin Filling
    BY <2>2 DEF IInv, BlocksInv, PlacedIn
  <2>3. QED
    BY <2>1, <2>2
<1>4. PlacedIn("codeMemory", BlockSize(codeArena) - CodeTail, code)
  <2>1. CASE stage \in Filling
    <3>1. ~ codeArena.overflowed /\ Below(code, codeArena.used - CodeTail)
      BY <2>1 DEF IInv, CodeInv
    <3>2. codeArena \in Arenas /\ code \in Seq(Placement)
      BY DEF IInv, TypeOK
    <3>3. \A q \in Placement : q.offset \in Nat /\ q.size \in Nat
      BY DEF Placement
    <3>4. /\ codeArena.used - CodeTail <= BlockSize(codeArena) - CodeTail
          /\ codeArena.used - CodeTail \in Int /\ BlockSize(codeArena) - CodeTail \in Int
      BY <1>1, <3>1, <3>2, ResourcesAssumption
    <3>5. QED
      BY <1>2, <3>1, <3>2, <3>3, <3>4
  <2>2. CASE stage \notin Filling
    BY <2>2 DEF IInv, BlocksInv, PlacedIn
  <2>3. QED
    BY <2>1, <2>2
<1>5. QED
  BY <1>3, <1>4 DEF PlacedApart

\* In a block that exists, images and modules lie aligned, inside the block and
\* apart from each other, with the unusable tail behind the modules
\* (layout.cpp 62-86, lay_out_images and lay_out_modules).
THEOREM AllPlacedApart == Spec => []PlacedApart
BY Apart, Invariance, PTL

\* Wherever create fails, and once the resources are destroyed, no block, module
\* or descriptor is left, and in the end no device (Resources::destroy).
THEOREM NothingLeftBehind == Spec => []NothingLeft
<1>1. IInv => NothingLeft
  BY DEF IInv
<1>2. QED
  BY <1>1, Invariance, PTL

-----------------------------------------------------------------------------
(***************************************************************************)
(* Counting and choosing: the images that have a descriptor before one,    *)
(* and the first pass of a module.                                         *)
(***************************************************************************)
\* Any numbers have a smallest one, which Min is.
LEMMA Smallest ==
  ASSUME NEW T \in SUBSET Nat, T # {}
  PROVE  Min(T) \in T /\ \A n \in T : Min(T) <= n
<1> DEFINE Upto(n) == 0 .. n
           ups == {Upto(n) : n \in T}
<1>1. ups \subseteq FiniteSubsetsOf(Nat)
  <2>1. ASSUME NEW n \in Nat PROVE IsFiniteSet(0 .. n)
    BY FS_Interval
  <2>2. QED
    BY <2>1 DEF FiniteSubsetsOf
<1>2. PICK x \in ups : \A y \in ups : ~ (<<y, x>> \in StrictSubsetOrdering(Nat))
  <2>1. IsWellFoundedOn(StrictSubsetOrdering(Nat), FiniteSubsetsOf(Nat))
    BY FS_StrictSubsetOrderingWellFounded
  <2>2. ups # {}
    OBVIOUS
  <2>3. QED
    BY <1>1, <2>1, <2>2, WFMin
<1>3. PICK m \in T : x = Upto(m)
  OBVIOUS
<1>4. \A n \in T : m <= n
  <2>1. SUFFICES ASSUME NEW n \in T, n < m PROVE FALSE
    OBVIOUS
  <2>2. Upto(n) \subseteq Upto(m) /\ Upto(n) # Upto(m) /\ Upto(m) \subseteq Nat
    <3>1. m \in Upto(m) /\ m \notin Upto(n)
      BY <2>1
    <3>2. QED
      BY <2>1, <3>1
  <2>3. <<Upto(n), Upto(m)>> \in StrictSubsetOrdering(Nat)
    BY <2>2 DEF StrictSubsetOrdering
  <2>4. QED
    BY <2>3, <1>2, <1>3
<1>5. QED
  BY <1>4 DEF Min

LEMMA CountedBelow ==
  ASSUME NEW S, NEW i \in Nat, NEW j \in Nat, 0 < i, i < j
  PROVE  /\ Cardinality(S \cap 1 .. i - 1) \in Nat /\ Cardinality(S \cap 1 .. j - 1) \in Nat
         /\ Cardinality(S \cap 1 .. j - 1)
              >= Cardinality(S \cap 1 .. i - 1) + (IF i \in S THEN 1 ELSE 0)
<1> DEFINE below == S \cap 1 .. i - 1
           more == below \cup (IF i \in S THEN {i} ELSE {})
           above == S \cap 1 .. j - 1
<1>1. IsFiniteSet(1 .. i - 1) /\ IsFiniteSet(1 .. j - 1)
  BY FS_Interval
<1>2. IsFiniteSet(below) /\ IsFiniteSet(above)
  BY <1>1, FS_Subset
<1>3. Cardinality(below) \in Nat /\ Cardinality(above) \in Nat
  BY <1>2, FS_CardinalityType
<1>4. more \in SUBSET above
  OBVIOUS
<1>5. Cardinality(more) <= Cardinality(above)
  BY <1>2, <1>4, FS_Subset
<1>6. CASE i \in S
  <2>1. i \notin below /\ more = below \cup {i}
    BY <1>6
  <2>2. Cardinality(more) = Cardinality(below) + 1
    BY <2>1, <1>2, FS_AddElement
  <2>3. QED
    BY <2>2, <1>3, <1>5, <1>6
<1>7. CASE i \notin S
  <2>1. more = below
    BY <1>7
  <2>2. QED
    BY <2>1, <1>3, <1>5, <1>7
<1>8. QED
  BY <1>6, <1>7

(***************************************************************************)
(* Each image has numbers of its own: those of a later one begin behind.   *)
(***************************************************************************)
LEMMA Numbering ==
  ASSUME NEW c, NEW i \in Nat, NEW j \in Nat, 0 < i, i < j
  PROVE  /\ FirstDescriptor(c, i) \in Nat /\ FirstDescriptor(c, j) \in Nat
         /\ FirstDescriptor(c, j) >= FirstDescriptor(c, i)
              + (IF i \in Sampled(c) THEN 1 ELSE 0) + (IF i \in Stored(c) THEN 1 ELSE 0)
<1> DEFINE Before(S, n) == Cardinality(S \cap 1 .. n - 1)
           s == IF i \in Sampled(c) THEN 1 ELSE 0
           t == IF i \in Stored(c) THEN 1 ELSE 0
<1>1. /\ Before(Sampled(c), i) \in Nat /\ Before(Sampled(c), j) \in Nat
      /\ Before(Sampled(c), j) >= Before(Sampled(c), i) + s
  BY CountedBelow
<1>2. /\ Before(Stored(c), i) \in Nat /\ Before(Stored(c), j) \in Nat
      /\ Before(Stored(c), j) >= Before(Stored(c), i) + t
  BY CountedBelow
<1>3. /\ FirstDescriptor(c, i) = Before(Sampled(c), i) + Before(Stored(c), i)
      /\ FirstDescriptor(c, j) = Before(Sampled(c), j) + Before(Stored(c), j)
  BY DEF FirstDescriptor
<1>4. s \in Nat /\ t \in Nat
  OBVIOUS
<1> HIDE DEF Before, s, t
<1>5. FirstDescriptor(c, j) >= FirstDescriptor(c, i) + s + t
  BY <1>1, <1>2, <1>3, <1>4
<1>6. QED
  BY <1>1, <1>2, <1>3, <1>5 DEF s, t

\* No number stands for two images or for two uses of one.
LEMMA OneNumberEach ==
  ASSUME NEW c, NEW i \in Nat \ {0}, NEW j \in Nat \ {0}
  PROVE  /\ i \in Sampled(c) => SampledDescriptor(c, i) # None
         /\ i \in Stored(c) => StorageDescriptor(c, i) # None
         /\ i \in Sampled(c) /\ SampledDescriptor(c, i) = SampledDescriptor(c, j) => i = j
         /\ i \in Stored(c) /\ StorageDescriptor(c, i) = StorageDescriptor(c, j) => i = j
         /\ i \in Sampled(c) => SampledDescriptor(c, i) # StorageDescriptor(c, j)
<1>1. ASSUME NEW k \in Nat \ {0} PROVE FirstDescriptor(c, k) \in Nat
  <2>1. 0 < k /\ k < k + 1 /\ k + 1 \in Nat
    OBVIOUS
  <2>2. QED
    BY <2>1, Numbering
<1>2. ASSUME NEW k \in Nat \ {0}, NEW l \in Nat \ {0}, k < l
      PROVE  FirstDescriptor(c, l) >= FirstDescriptor(c, k)
               + (IF k \in Sampled(c) THEN 1 ELSE 0) + (IF k \in Stored(c) THEN 1 ELSE 0)
  BY <1>2, Numbering
<1>3. FirstDescriptor(c, i) \in Nat /\ FirstDescriptor(c, j) \in Nat
  BY <1>1
<1>4. i < j => FirstDescriptor(c, j) >= FirstDescriptor(c, i)
               + (IF i \in Sampled(c) THEN 1 ELSE 0) + (IF i \in Stored(c) THEN 1 ELSE 0)
  BY <1>2
<1>5. j < i => FirstDescriptor(c, i) >= FirstDescriptor(c, j)
               + (IF j \in Sampled(c) THEN 1 ELSE 0) + (IF j \in Stored(c) THEN 1 ELSE 0)
  BY <1>2
<1>6. i < j \/ j < i \/ i = j
  OBVIOUS
<1>7. QED
  BY <1>3, <1>4, <1>5, <1>6 DEF SampledDescriptor, StorageDescriptor, None

\* What is written for an owned image is what bind reaches it by.
LEMMA WrittenFor ==
  ASSUME Sized(cache), table = Descriptors, NEW i \in DOMAIN cache.images
  PROVE  /\ i \in Sampled(cache) => Holds(SampledDescriptor(cache, i), i, "sampled")
         /\ i \in Stored(cache) => Holds(StorageDescriptor(cache, i), i, "storage")
<1>1. \A j \in DOMAIN cache.images : j \in Nat \ {0}
  BY DEF Sized
<1>2. ASSUME Owned(i), i \in Sampled(cache)
      PROVE  {e \in table : e.at = SampledDescriptor(cache, i)}
               = {[at |-> SampledDescriptor(cache, i), image |-> i, use |-> "sampled"]}
  <2> DEFINE entry == [at |-> SampledDescriptor(cache, i), image |-> i, use |-> "sampled"]
  <2>1. entry \in table
    BY <1>1, <1>2, OneNumberEach DEF Descriptors, Entries
  <2>2. ASSUME NEW e \in table, e.at = SampledDescriptor(cache, i) PROVE e = entry
    <3>1. PICK j \in DOMAIN cache.images : e \in Entries(j)
      BY DEF Descriptors
    <3>2. CASE e = [at |-> SampledDescriptor(cache, j), image |-> j, use |-> "sampled"]
      BY <1>1, <1>2, <2>2, <3>2, OneNumberEach
    <3>3. CASE e = [at |-> StorageDescriptor(cache, j), image |-> j, use |-> "storage"]
      BY <1>1, <1>2, <2>2, <3>3, OneNumberEach
    <3>4. QED
      BY <3>1, <3>2, <3>3 DEF Entries
  <2>3. QED
    BY <2>1, <2>2
<1>3. ASSUME Owned(i), i \in Stored(cache)
      PROVE  {e \in table : e.at = StorageDescriptor(cache, i)}
               = {[at |-> StorageDescriptor(cache, i), image |-> i, use |-> "storage"]}
  <2> DEFINE entry == [at |-> StorageDescriptor(cache, i), image |-> i, use |-> "storage"]
  <2>1. entry \in table
    BY <1>1, <1>3, OneNumberEach DEF Descriptors, Entries
  <2>2. ASSUME NEW e \in table, e.at = StorageDescriptor(cache, i) PROVE e = entry
    <3>1. PICK j \in DOMAIN cache.images : e \in Entries(j) /\ e.at # None
      BY DEF Descriptors
    <3>2. CASE e = [at |-> SampledDescriptor(cache, j), image |-> j, use |-> "sampled"]
      <4>1. j \in Sampled(cache)
        BY <3>1, <3>2 DEF SampledDescriptor
      <4>2. QED
        BY <1>1, <1>3, <2>2, <3>2, <4>1, OneNumberEach
    <3>3. CASE e = [at |-> StorageDescriptor(cache, j), image |-> j, use |-> "storage"]
      BY <1>1, <1>3, <2>2, <3>3, OneNumberEach
    <3>4. QED
      BY <3>1, <3>2, <3>3 DEF Entries
  <2>3. QED
    BY <2>1, <2>2
<1>4. QED
  BY <1>2, <1>3 DEF Holds

(***************************************************************************)
(* What bind finds for a dispatch of a valid manifest.                     *)
(***************************************************************************)
LEMMA PassFound ==
  ASSUME NEW c, ValidManifest(c), IsSequence(c.passes), NEW k \in DOMAIN c.dispatches
  PROVE  /\ PassOf(c, c.dispatches[k]) \in 1 .. Len(c.passes)
         /\ DOMAIN c.passes = 1 .. Len(c.passes)
<1>1. DOMAIN c.passes = 1 .. Len(c.passes) /\ Len(c.passes) \in Nat
  BY DEF IsSequence
<1>2. PassesOf(c, c.dispatches[k]) \subseteq 1 .. Len(c.passes)
  BY <1>1 DEF PassesOf
<1>3. PassesOf(c, c.dispatches[k]) # {}
  BY DEF ValidManifest
<1>4. PassesOf(c, c.dispatches[k]) \in SUBSET Nat
  BY <1>1, <1>2
<1>5. PassOf(c, c.dispatches[k]) \in PassesOf(c, c.dispatches[k])
  BY <1>3, <1>4, Smallest DEF PassOf
<1>6. QED
  BY <1>1, <1>2, <1>5

LEMMA VariantFound ==
  ASSUME NEW c, ValidManifest(c), NEW k \in DOMAIN c.dispatches, NEW phase \in Nat
  PROVE  LET d == c.dispatches[k]
             v == VariantOf(c, d, phase)
         IN /\ \E n \in DOMAIN c.variants : v = c.variants[n]
            /\ ValidVariant(c, d, v)
            /\ SameInterface(c.passes[PassOf(c, d)], v)
<1> DEFINE d == c.dispatches[k]
           n == d.first + (phase % d.count)
<1>1. ValidGraph(c) /\ \A m \in VariantsOf(d) : SameInterface(c.passes[PassOf(c, d)], c.variants[m])
  BY DEF ValidManifest
<1>2. /\ d.first \in Nat /\ d.count \in Nat \ {0}
      /\ VariantsOf(d) \subseteq DOMAIN c.variants
      /\ \A m \in VariantsOf(d) : ValidVariant(c, d, c.variants[m])
  BY <1>1 DEF ValidGraph
<1>3. n \in VariantsOf(d)
  <2>1. phase % d.count \in 0 .. d.count - 1
    BY <1>2
  <2>2. QED
    BY <2>1, <1>2 DEF VariantsOf
<1>4. VariantOf(c, d, phase) = c.variants[n]
  BY DEF VariantOf
<1>5. QED
  BY <1>1, <1>2, <1>3, <1>4

\* The entry of a slot is the last of it.
LEMMA OnlyEntry ==
  ASSUME NEW c, Unambiguous(c.passes), NEW n \in DOMAIN c.passes, NEW kind,
         NEW k \in SlotsOf(c.passes[n], kind)
  PROVE  LastOf(c.passes[n], kind, c.passes[n].slots[k].slot) = k
<1> DEFINE p == c.passes[n]
           same == {j \in SlotsOf(p, kind) : p.slots[j].slot = p.slots[k].slot}
<1>1. k \in DOMAIN p.slots /\ p.slots[k].kind = kind
  BY DEF SlotsOf
<1>2. k \in Nat
  BY <1>1 DEF Unambiguous, OneEntryEach, IsSequence
<1>3. same = {k}
  BY <1>1 DEF Unambiguous, OneEntryEach, SlotsOf
<1>4. Max({k}) = k
  BY <1>2 DEF Max
<1>5. QED
  BY <1>3, <1>4 DEF LastOf

LEMMA MadeReady ==
  ASSUME Sized(cache), ReadyInv, Unambiguous(cache.passes)
  PROVE  ReadyToRecord
<1> SUFFICES ASSUME stage = "created", NEW k \in DOMAIN cache.dispatches, NEW phase \in Phases
             PROVE  Ready(cache.dispatches[k], phase)
  BY DEF ReadyToRecord, Dispatches
<1> DEFINE d == cache.dispatches[k]
           v == VariantOf(cache, d, phase)
           p == cache.passes[PassOf(cache, d)]
           b == Bound(cache, d, phase)
<1>1. /\ ValidManifest(cache) /\ table = Descriptors /\ modules = Len(cache.passes)
      /\ cache.uniforms # 0 => "uniformMemory" \in alive
  BY DEF ReadyInv
<1>2. phase \in Nat
  BY DEF Phases
<1>3. PassOf(cache, d) \in 1 .. Len(cache.passes) /\ PassOf(cache, d) \in DOMAIN cache.passes
  BY <1>1, PassFound DEF Unambiguous
<1>4. /\ \E n \in DOMAIN cache.variants : v = cache.variants[n]
      /\ ValidVariant(cache, d, v)
      /\ SameInterface(p, v)
  BY <1>1, <1>2, VariantFound
<1>5. ValidPass(p)
  BY <1>1, <1>3 DEF ValidManifest
<1>6. PassOf(cache, d) <= modules
  BY <1>1, <1>3
<1>7. ASSUME NEW j \in SlotsOf(p, "texture")
      PROVE  Holds(b.textures[p.slots[j].slot].descriptor, v.textures[p.slots[j].ordinal + 1],
                   "sampled")
  <2> DEFINE s == p.slots[j]
             image == v.textures[s.ordinal + 1]
  <2>1. s.ordinal \in 0 .. p.textures - 1
    BY <1>5 DEF SlotsOf, ValidPass, ValidSlot
  <2>2. s.ordinal + 1 \in DOMAIN v.textures /\ image \in DOMAIN cache.images
    <3>1. v.textures \in Seq(DOMAIN cache.images) /\ p.textures = Len(v.textures)
      BY <1>4 DEF SameInterface, ValidVariant
    <3>2. QED
      BY <2>1, <3>1
  <2>3. image \in Sampled(cache)
    <3>1. image \in Elements(v.textures)
      BY <2>2 DEF Elements
    <3>2. QED
      BY <3>1, <1>4 DEF Sampled
  <2>4. LastOf(p, "texture", s.slot) = j
    BY <1>3, OnlyEntry
  <2>5. b.textures[s.slot].descriptor = SampledDescriptor(cache, image)
    BY <2>4 DEF Bound
  <2>6. QED
    BY <2>2, <2>3, <2>5, <1>1, WrittenFor
<1>8. ASSUME NEW j \in SlotsOf(p, "storage")
      PROVE  Holds(b.storages[p.slots[j].slot], v.storages[p.slots[j].ordinal + 1], "storage")
  <2> DEFINE s == p.slots[j]
             image == v.storages[s.ordinal + 1]
  <2>1. s.ordinal \in 0 .. p.storages - 1
    BY <1>5 DEF SlotsOf, ValidPass, ValidSlot
  <2>2. s.ordinal + 1 \in DOMAIN v.storages /\ image \in DOMAIN cache.images
    <3>1. v.storages \in Seq(DOMAIN cache.images) /\ p.storages = Len(v.storages)
      BY <1>4 DEF SameInterface, ValidVariant
    <3>2. QED
      BY <2>1, <3>1
  <2>3. image \in Stored(cache)
    <3>1. image \in Elements(v.storages)
      BY <2>2 DEF Elements
    <3>2. QED
      BY <3>1, <1>4 DEF Stored
  <2>4. LastOf(p, "storage", s.slot) = j
    BY <1>3, OnlyEntry
  <2>5. b.storages[s.slot] = StorageDescriptor(cache, image)
    BY <2>4 DEF Bound
  <2>6. QED
    BY <2>2, <2>3, <2>5, <1>1, WrittenFor
<1>9. b.uniform # None => "uniformMemory" \in alive
  <2>1. b.uniform # None => b.uniform = v.uniform
    BY DEF Bound
  <2>2. v.uniform \in {None} \cup 0 .. cache.uniforms - 1
    BY <1>4 DEF ValidVariant
  <2>3. v.uniform # None => cache.uniforms # 0
    BY <2>2
  <2>4. QED
    BY <2>1, <2>3, <1>1
<1>10. QED
  BY <1>6, <1>7, <1>8, <1>9 DEF Ready

(***************************************************************************)
(* What was read and described stays what is written and loaded.           *)
(***************************************************************************)
LEMMA ReadyAtFirst == Init => ReadyInv
BY DEF Init, ReadyInv

LEMMA ReadyPreserved ==
  ASSUME ReadyInv, [(\E c : Measure(c)) \/ MeasureCache]_vars
  PROVE  ReadyInv'
<1>1. CASE \E c : Measure(c)
  BY <1>1 DEF Measure, ReadyInv
<1>2. CASE LoadCache
  BY <1>2 DEF LoadCache, Return, ReadyInv
<1>3. CASE CreateDevice
  BY <1>3 DEF CreateDevice, Return, ReadyInv
<1>0. UNCHANGED <<cache, own>> => Descriptors' = Descriptors
  BY DEF Descriptors, Entries, Owned
<1>4. ASSUME Fail PROVE ReadyInv'
  BY <1>4 DEF Fail, ReadyInv
<1>5. CASE Describe
  BY <1>4, <1>5 DEF Describe, ReadyInv
<1>6. CASE LayOutImage
  BY <1>6 DEF LayOutImage, ReadyInv
<1>7. CASE LaidOutImages
  BY <1>4, <1>7 DEF LaidOutImages, ReadyInv
<1>8. CASE LayOutModule
  BY <1>8 DEF LayOutModule, ReadyInv
<1>9. CASE LaidOutModules
  BY <1>4, <1>9 DEF LaidOutModules, ReadyInv
<1>10. CASE CreateImages
  BY <1>4, <1>10 DEF CreateImages, CreateBlock, ReadyInv
<1>11. CASE CreateDescriptors
  BY <1>4, <1>11 DEF CreateDescriptors, CreateBlock, ReadyInv
<1>12. CASE WriteDescriptors
  BY <1>0, <1>4, <1>12 DEF WriteDescriptors, ReadyInv
<1>13. CASE CreateUniforms
  BY <1>4, <1>13, <1>0 DEF CreateUniforms, CreateBlock, ReadyInv
<1>14. CASE CreateCode
  BY <1>4, <1>14, <1>0 DEF CreateCode, CreateBlock, ReadyInv
<1>15. CASE LoadModule
  BY <1>4, <1>15, <1>0 DEF LoadModule, ReadyInv
<1>16. CASE Created
  BY <1>16, <1>0 DEF Created, ReadyInv
<1>17. CASE DestroyResources
  BY <1>17 DEF DestroyResources, ReadyInv
<1>18. CASE DestroyDevice
  BY <1>18 DEF DestroyDevice, Return, ReadyInv
<1>19. CASE UNCHANGED vars
  BY <1>0, <1>19 DEF vars, ReadyInv
<1>20. QED
  BY <1>1, <1>2, <1>3, <1>5, <1>6, <1>7, <1>8, <1>9, <1>10, <1>11, <1>12, <1>13, <1>14, <1>15,
     <1>16, <1>17, <1>18, <1>19 DEF MeasureCache, CreateResources

\* ReadyInv holds in every state of the program.
LEMMA ReadyInvariance == Spec => []ReadyInv
<1>1. ReadyInv /\ [Next]_vars => ReadyInv'
  BY ReadyPreserved DEF Next
<1>2. QED
  BY <1>1, ReadyAtFirst, PTL DEF Spec

\* Whatever the cache, the sizes and the failures: once create succeeded, each
\* dispatch in each frame reaches modules that are loaded, uniform buffers that
\* exist and the descriptors of exactly the images its variant names, if no pass
\* has two entries for one slot, which is what the preparation sees to and no
\* check of the backend (describe, bind, write_descriptors and load_modules).
THEOREM AllReadyToRecord == Spec => [](Unambiguous(cache.passes) => ReadyToRecord)
<1>1. IInv /\ ReadyInv => (Unambiguous(cache.passes) => ReadyToRecord)
  BY MadeReady DEF IInv, TypeOK
<1>2. QED
  BY <1>1, Invariance, ReadyInvariance, PTL

=============================================================================
