-------------------------- MODULE DeploymentProofs --------------------------
(***************************************************************************)
(* Whatever the DLL, the candidates and the compiler, a candidate that is  *)
(* refused leaves its directory alone; whatever the card holds, what the   *)
(* test-pattern app makes of it lies apart and is given back; what was     *)
(* prepared is of high precision and binds what its modules declare; and a *)
(* DLL the chain was written for is prepared.                              *)
(***************************************************************************)
EXTENDS Deployment, ResourcesProofs

LEMMA Turns ==
  /\ P!Configs = 1 .. Len(Candidates)
  /\ Len(Candidates) \in Nat \ {0}
<1>1. /\ DOMAIN Candidates = 1 .. Len(Candidates) /\ Len(Candidates) \in Nat
      /\ Candidates # << >>
  BY DeploymentAssumption
<1>2. Len(Candidates) # 0
  BY <1>1, EmptySeq, DeploymentAssumption
<1>3. QED
  BY <1>1, <1>2 DEF P!Configs

LEMMA CardsAtFirst == DeploymentInit => CardInv
<1> SUFFICES ASSUME DeploymentInit PROVE CardInv
  OBVIOUS
<1>1. PICK left \in {NoCache} \cup Inherited : card = [c \in P!Configs |-> left]
  BY DEF DeploymentInit, P!Init, P!NoCache, NoCache
<1>2. Sized(left)
  BY <1>1, DeploymentAssumption DEF Sized, NoCache
<1>3. /\ step = "idle" /\ config = 1 /\ earlier = card
      /\ result = [c \in P!Configs |-> "untried"]
  BY DEF DeploymentInit, P!Init
<1>4. QED
  BY <1>1, <1>2, <1>3, Turns DEF CardInv, RefusedKeepsCard, InTurn

\* The turn of a candidate ends: it was refused, or its directory was written to.
LEMMA Finishing ==
  ASSUME CardInv, InTurn, NEW outcome, NEW next \in {"over", P!Following},
         P!Finish(outcome, next),
         DOMAIN card' = P!Configs,
         Sized(card'[config]),
         \A c \in P!Configs : c # config => card'[c] = card[c],
         \/ outcome \in {"prepared", "card"}
         \/ step # "verify" /\ card'[config] = card[config]
  PROVE  CardInv'
<1>1. /\ config \in 1 .. Len(Candidates) /\ Len(Candidates) \in Nat \ {0}
      /\ P!Configs = 1 .. Len(Candidates)
  BY Turns DEF CardInv
<1>2. /\ result' = [result EXCEPT ![config] = outcome] /\ earlier' = earlier
      /\ step' = next /\ config' = IF next = "begin" THEN config + 1 ELSE config
  BY DEF P!Finish
<1>3. next \in {"over", "begin"} /\ (next = "begin" => config + 1 <= Len(Candidates))
  BY <1>1 DEF P!Following
<1>4. config' \in P!Configs
  BY <1>1, <1>2, <1>3
<1>5. DOMAIN result' = P!Configs /\ result'[config] = outcome
      /\ \A c \in P!Configs : c # config => result'[c] = result[c]
  BY <1>1, <1>2 DEF CardInv
<1>6. \A c \in P!Configs : Sized(card'[c])
  <2> TAKE c \in P!Configs
  <2>1. CASE c = config
    BY <2>1
  <2>2. CASE c # config
    BY <2>2 DEF CardInv
  <2>3. QED
    BY <2>1, <2>2
<1>7. step' \in {"begin", "modules", "verify"} =>
        \A c \in P!Configs : c >= config' => result'[c] = "untried"
  BY <1>1, <1>2, <1>3, <1>5 DEF CardInv, InTurn
<1>8. RefusedKeepsCard'
  <2>1. SUFFICES ASSUME NEW c \in P!Configs
                 PROVE  result'[c] \in {"prepared", "card"} \/ card'[c] = earlier'[c]
    BY DEF RefusedKeepsCard, P!Configs
  <2>2. CASE c # config
    BY <2>2, <1>2, <1>5 DEF CardInv, RefusedKeepsCard
  <2>3. CASE c = config
    <3>1. result[config] = "untried"
      BY <1>1 DEF CardInv
    <3>2. step # "verify" => card[config] = earlier[config]
      BY <2>3, <3>1 DEF CardInv, RefusedKeepsCard
    <3>3. QED
      BY <2>3, <3>2, <1>2, <1>5
  <2>4. QED
    BY <2>2, <2>3
<1>9. QED
  BY <1>2, <1>3, <1>4, <1>5, <1>6, <1>7, <1>8 DEF CardInv, InTurn, P!Configs

\* A refusal.
LEMMA GivingUp ==
  ASSUME CardInv, step \in {"begin", "modules"}, NEW error, P!GiveUp(error)
  PROVE  CardInv'
<1>1. P!Finish(error, P!Following) /\ card' = card
  BY DEF P!GiveUp
<1>2. Sized(card'[config]) /\ DOMAIN card' = P!Configs
  BY <1>1 DEF CardInv
<1>3. QED
  BY <1>1, <1>2, Finishing DEF InTurn

\* A step of a turn that leaves the directories alone.
LEMMA Proceeding ==
  ASSUME CardInv, InTurn, step # "verify", step' \in {"begin", "modules"},
         UNCHANGED <<card, config, result, earlier>>
  PROVE  CardInv'
BY DEF CardInv, RefusedKeepsCard, InTurn, P!Configs

LEMMA Preparations == CardInv /\ P!Next => CardInv'
<1> SUFFICES ASSUME CardInv, P!Next PROVE CardInv'
  OBVIOUS
<1>1. CASE P!Open
  BY <1>1 DEF P!Open, CardInv, RefusedKeepsCard, InTurn, P!Configs
<1>2. CASE P!Survey
  <2>1. CASE \E error : P!GiveUp(error)
    BY <1>2, <2>1, GivingUp DEF P!Survey
  <2>2. CASE ~ \E error : P!GiveUp(error)
    <3>1. /\ step = "begin" /\ step' = "modules"
          /\ UNCHANGED <<card, config, result, earlier>>
      BY <1>2, <2>2 DEF P!Survey
    <3>2. QED
      BY <3>1, Proceeding DEF InTurn
  <2>3. QED
    BY <2>1, <2>2
<1>3. CASE P!TranslateModule
  <2>1. CASE \E error : P!GiveUp(error)
    BY <1>3, <2>1, GivingUp DEF P!TranslateModule
  <2>2. CASE ~ \E error : P!GiveUp(error)
    <3>1. /\ step = "modules" /\ UNCHANGED <<card, step, config, result, earlier>>
      BY <1>3, <2>2 DEF P!TranslateModule
    <3>2. QED
      BY <3>1, Proceeding DEF InTurn
  <2>3. QED
    BY <2>1, <2>2
<1>4. CASE P!Write
  <2>1. step = "modules" /\ config \in P!Configs /\ DOMAIN card = P!Configs
    BY <1>4 DEF P!Write, P!Translated, CardInv
  <2>2. CASE \E error : P!GiveUp(error)
    BY <2>1, <2>2, GivingUp
  <2>3. CASE /\ card' = [card EXCEPT ![config] = P!Contents]
             /\ step' = "verify"
             /\ UNCHANGED <<config, result, earlier>>
    <3>1. Sized(P!Contents)
      <4>1. Sized(Candidates[config].graph)
        BY <2>1, DeploymentAssumption DEF P!Configs
      <4>2. P!Contents.images = Candidates[config].graph.images
        BY DEF P!Contents, P!Graph
      <4>3. QED
        BY <4>1, <4>2 DEF Sized
    <3>2. DOMAIN card' = P!Configs /\ card'[config] = P!Contents
          /\ \A c \in P!Configs : c # config => card'[c] = card[c]
      BY <2>1, <2>3
    <3>3. \A c \in P!Configs : Sized(card'[c])
      <4> TAKE c \in P!Configs
      <4>1. CASE c = config
        BY <4>1, <3>1, <3>2
      <4>2. CASE c # config
        BY <4>2, <3>2 DEF CardInv
      <4>3. QED
        BY <4>1, <4>2
    <3>4. RefusedKeepsCard'
      BY <2>1, <2>3, <3>2 DEF CardInv, RefusedKeepsCard, P!Configs
    <3>5. QED
      BY <2>1, <2>3, <3>2, <3>3, <3>4 DEF CardInv, InTurn, P!Configs
  <2>4. CASE /\ \E left \in {card[config], NoCache} : card' = [card EXCEPT ![config] = left]
             /\ P!Finish("card", P!Following)
    <3>1. Sized(NoCache)
      BY DEF Sized, NoCache
    <3>2. /\ DOMAIN card' = P!Configs /\ Sized(card'[config])
          /\ \A c \in P!Configs : c # config => card'[c] = card[c]
      BY <2>1, <2>4, <3>1 DEF CardInv
    <3>3. QED
      BY <2>1, <2>4, <3>2, Finishing DEF InTurn
  <2>5. QED
    BY <1>4, <2>2, <2>3, <2>4 DEF P!Write, P!NoCache, NoCache
<1>5. CASE P!ReadBack
  <2>1. /\ step = "verify" /\ card' = card
        /\ \E outcome \in {"prepared", "card"}, next \in {"over", P!Following} :
             P!Finish(outcome, next)
    BY <1>5 DEF P!ReadBack, P!Succeed, P!GiveUp
  <2>2. Sized(card'[config]) /\ DOMAIN card' = P!Configs
    BY <2>1 DEF CardInv
  <2>3. QED
    BY <2>1, <2>2, Finishing DEF InTurn
<1>6. CASE P!Close
  <2>1. /\ step' = "idle" /\ config' = 1 /\ card' = card /\ earlier' = card
        /\ result' = [c \in P!Configs |-> "untried"]
    BY <1>6 DEF P!Close
  <2>2. QED
    BY <2>1, Turns DEF CardInv, RefusedKeepsCard, InTurn, P!Configs
<1>7. QED
  BY <1>1, <1>2, <1>3, <1>4, <1>5, <1>6 DEF P!Next

LEMMA CardsUntouched == CardInv /\ UNCHANGED preparation => CardInv'
BY DEF CardInv, RefusedKeepsCard, InTurn, preparation, P!Configs

LEMMA Deploying == CardInv /\ IInv /\ [DeploymentNext]_allVars => CardInv' /\ IInv'
<1> SUFFICES ASSUME CardInv, IInv, [DeploymentNext]_allVars PROVE CardInv' /\ IInv'
  OBVIOUS
<1>1. CASE Preparing
  BY <1>1, Preparations, Resting DEF Preparing
<1>2. CASE Measuring
  <2>1. CardInv'
    BY <1>2, CardsUntouched DEF Measuring
  <2>2. ASSUME NEW c \in OnCard PROVE Sized(c)
    BY <2>2, ResourcesAssumption DEF OnCard, CardInv
  <2>3. IInv'
    BY <1>2, <2>2, Beginning, Running DEF Measuring
  <2>4. QED
    BY <2>1, <2>3
<1>3. CASE UNCHANGED allVars
  BY <1>3, CardsUntouched, Resting DEF allVars
<1>4. QED
  BY <1>1, <1>2, <1>3 DEF DeploymentNext

\* CardInv and IInv hold in every state of the two apps, for any DLLs, candidates,
\* inherited caches and outcomes of the compiler, the card and deko3d
\* (prepare_dll, cache::write, measure_cache).
THEOREM DeploymentInvariance == DeploymentSpec => [](CardInv /\ IInv)
<1>1. DeploymentInit => CardInv /\ IInv
  BY CardsAtFirst, Initial DEF DeploymentInit
<1>2. CardInv /\ IInv /\ [DeploymentNext]_allVars => (CardInv /\ IInv)'
  BY Deploying
<1>3. QED
  BY <1>1, <1>2, PTL DEF DeploymentSpec

\* A candidate the preparation app refuses leaves its directory as it was when the
\* app was started (apps/prepare main.cpp, cache_store.cpp write).
THEOREM RefusalKeepsCard == DeploymentSpec => []RefusedKeepsCard
<1>1. CardInv => RefusedKeepsCard
  BY DEF CardInv
<1>2. QED
  BY <1>1, DeploymentInvariance, PTL

\* Over the caches the preparation app writes, too, whatever DLL they come from,
\* what lies in a block that exists lies apart (lay_out_images, lay_out_modules).
THEOREM PlacedApartOnAnyCard == DeploymentSpec => []PlacedApart
<1>1. IInv => PlacedApart
  BY Apart
<1>2. QED
  BY <1>1, DeploymentInvariance, PTL

\* And no failure of the test-pattern app leaves anything (Resources::destroy).
THEOREM NothingLeftOnAnyCard == DeploymentSpec => []NothingLeft
<1>1. IInv => NothingLeft
  BY DEF IInv
<1>2. QED
  BY <1>1, DeploymentInvariance, PTL

\* Every dispatch of a cache that create accepted reaches what its variant names, also
\* of the caches the preparation app writes and of those on the card before it, if
\* no pass has two entries for one slot (describe, bind, write_descriptors).
THEOREM ReadyOnAnyCard == DeploymentSpec => [](Unambiguous(cache.passes) => ReadyToRecord)
<1>1. DeploymentInit => ReadyInv
  BY ReadyAtFirst DEF DeploymentInit
<1>2. ReadyInv /\ [DeploymentNext]_allVars => ReadyInv'
  <2> SUFFICES ASSUME ReadyInv, [DeploymentNext]_allVars PROVE ReadyInv'
    OBVIOUS
  <2>1. [(\E c : Measure(c)) \/ MeasureCache]_vars
    BY DEF DeploymentNext, Preparing, Measuring, allVars
  <2>2. QED
    BY <2>1, ReadyPreserved
<1>3. CardInv /\ IInv /\ ReadyInv => (Unambiguous(cache.passes) => ReadyToRecord)
  BY MadeReady DEF IInv, TypeOK
<1>4. QED
  BY <1>1, <1>2, <1>3, DeploymentInvariance, PTL DEF DeploymentSpec

-----------------------------------------------------------------------------
(***************************************************************************)
(* The entries the preparation app writes: one for each slot.              *)
(***************************************************************************)
\* A list of n things is a sequence.
LEMMA Listing ==
  ASSUME NEW X, NEW n \in Nat, NEW s \in [1 .. n -> X]
  PROVE  IsSequence(s) /\ DOMAIN s = 1 .. n /\ Len(s) = n
<1>1. s \in [1 .. n -> Elements(s)]
  BY DEF Elements
<1>2. QED
  BY <1>1 DEF IsSequence

\* The same of a sequence of some set.
LEMMA InSequence ==
  ASSUME NEW X, NEW s \in Seq(X)
  PROVE  IsSequence(s)
<1>1. s \in [1 .. Len(s) -> Elements(s)] /\ Len(s) \in Nat
  BY DEF Elements
<1>2. QED
  BY <1>1 DEF IsSequence

\* Three lists one after the other, with the slots of three kinds counted from 0.
LEMMA Joined ==
  ASSUME NEW r, NEW s, NEW t, IsSequence(r), IsSequence(s), IsSequence(t),
         \A k \in DOMAIN r : r[k].kind = "texture" /\ r[k].slot = k - 1,
         \A k \in DOMAIN s : s[k].kind = "storage" /\ s[k].slot = k - 1,
         \A k \in DOMAIN t : t[k].kind = "uniform" /\ t[k].slot = k - 1
  PROVE  OneEntryEach(r \o s \o t)
<1> DEFINE all == r \o s \o t
           a == Len(r)
           b == Len(r) + Len(s)
           X == Elements(r) \cup Elements(s) \cup Elements(t)
<1>1. r \in Seq(X) /\ s \in Seq(X) /\ t \in Seq(X)
  BY DEF IsSequence
<1> HIDE DEF X
<1>2. /\ all \in Seq(X)
      /\ Len(r) \in Nat /\ Len(s) \in Nat /\ Len(t) \in Nat
      /\ DOMAIN all = 1 .. b + Len(t) /\ Len(all) = b + Len(t)
  BY <1>1
<1>3. \A k \in DOMAIN all :
        \/ k \in 1 .. a /\ all[k] = r[k]
        \/ k \in a + 1 .. b /\ all[k] = s[k - a]
        \/ k \in b + 1 .. b + Len(t) /\ all[k] = t[k - b]
  BY <1>1
<1>4. \A k \in DOMAIN all :
        \/ all[k].kind = "texture" /\ all[k].slot = k - 1
        \/ all[k].kind = "storage" /\ all[k].slot = k - a - 1
        \/ all[k].kind = "uniform" /\ all[k].slot = k - b - 1
  <2> TAKE k \in DOMAIN all
  <2>1. CASE k \in 1 .. a /\ all[k] = r[k]
    BY <2>1, <1>1, <1>2
  <2>2. CASE k \in a + 1 .. b /\ all[k] = s[k - a]
    <3>1. k - a \in DOMAIN s
      BY <2>2, <1>1, <1>2
    <3>2. QED
      BY <3>1, <2>2
  <2>3. CASE k \in b + 1 .. b + Len(t) /\ all[k] = t[k - b]
    <3>1. k - b \in DOMAIN t
      BY <2>3, <1>1, <1>2
    <3>2. QED
      BY <3>1, <2>3
  <2>4. QED
    BY <1>3, <2>1, <2>2, <2>3
<1>5. \A j, k \in DOMAIN all :
        all[j].kind = all[k].kind /\ all[j].slot = all[k].slot => j = k
  <2> HIDE DEF all, a, b
  <2>1. a \in Nat /\ b \in Nat /\ \A k \in DOMAIN all : k \in Nat
    BY <1>2 DEF a, b
  <2>2. QED
    BY <1>4, <2>1
<1>6. IsSequence(all)
  BY <1>2, InSequence
<1>7. QED
  BY <1>5, <1>6 DEF OneEntryEach

\* The instance's Cardinality and Min are ours.
LEMMA Instanced ==
  /\ \A S : P!Cardinality(S) = Cardinality(S)
  /\ \A S : P!Min(S) = Min(S)
<1>1. ASSUME NEW S PROVE P!Cardinality(S) = Cardinality(S)
  BY DEF P!Cardinality, Cardinality
<1>2. ASSUME NEW S PROVE P!Min(S) = Min(S)
  BY DEF P!Min, Min
<1>3. QED
  BY <1>1, <1>2

-----------------------------------------------------------------------------
(***************************************************************************)
(* Sorting: in a finite set that is totally ordered, each element has a    *)
(* place of its own, and each place its element.                           *)
(***************************************************************************)
TotalOrder(S, before) ==
  \A x, y, z \in S :
    /\ <<x, x>> \notin before
    /\ x = y \/ <<x, y>> \in before \/ <<y, x>> \in before
    /\ <<x, y>> \in before /\ <<y, z>> \in before => <<x, z>> \in before
Preceding(S, before, x) == {j \in S : <<j, x>> \in before}
PlaceIn(S, before, x) == Cardinality(Preceding(S, before, x))

LEMMA PlaceType ==
  ASSUME NEW S, IsFiniteSet(S), NEW before, TotalOrder(S, before), NEW x \in S
  PROVE  /\ PlaceIn(S, before, x) \in 0 .. Cardinality(S) - 1
         /\ Cardinality(S) \in Nat \ {0}
         /\ IsFiniteSet(Preceding(S, before, x))
<1> DEFINE low == Preceding(S, before, x)
<1>1. low \in SUBSET S /\ x \notin low
  BY DEF Preceding, TotalOrder
<1>2. IsFiniteSet(low) /\ Cardinality(low) \in Nat
  BY <1>1, FS_Subset, FS_CardinalityType
<1>3. Cardinality(low \cup {x}) = Cardinality(low) + 1
  BY <1>1, <1>2, FS_AddElement
<1>4. Cardinality(low \cup {x}) <= Cardinality(S)
  BY <1>1, FS_Subset
<1>5. Cardinality(S) \in Nat
  BY FS_CardinalityType
<1>6. QED
  BY <1>2, <1>3, <1>4, <1>5 DEF PlaceIn

LEMMA PlaceGrows ==
  ASSUME NEW S, IsFiniteSet(S), NEW before, TotalOrder(S, before),
         NEW x \in S, NEW y \in S, <<x, y>> \in before
  PROVE  PlaceIn(S, before, x) < PlaceIn(S, before, y)
<1> DEFINE low == Preceding(S, before, x)
           high == Preceding(S, before, y)
<1>1. low \cup {x} \in SUBSET high /\ x \notin low
  BY DEF Preceding, TotalOrder
<1>2. IsFiniteSet(low) /\ IsFiniteSet(high) /\ Cardinality(low) \in Nat /\ Cardinality(high) \in Nat
  BY PlaceType, FS_CardinalityType
<1>3. Cardinality(low \cup {x}) = Cardinality(low) + 1
  BY <1>1, <1>2, FS_AddElement
<1>4. Cardinality(low \cup {x}) <= Cardinality(high)
  BY <1>1, <1>2, FS_Subset
<1>5. QED
  BY <1>2, <1>3, <1>4 DEF PlaceIn

LEMMA PlaceTaken ==
  ASSUME NEW S, IsFiniteSet(S), NEW before, TotalOrder(S, before)
  PROVE  /\ \A x, y \in S : PlaceIn(S, before, x) = PlaceIn(S, before, y) => x = y
         /\ \A n \in 1 .. Cardinality(S) : \E x \in S : PlaceIn(S, before, x) = n - 1
<1> DEFINE places == 0 .. Cardinality(S) - 1
           f == [x \in S |-> PlaceIn(S, before, x)]
<1>1. ASSUME NEW x \in S, NEW y \in S, PlaceIn(S, before, x) = PlaceIn(S, before, y) PROVE x = y
  <2>1. PlaceIn(S, before, x) \in Nat /\ PlaceIn(S, before, y) \in Nat
    BY PlaceType
  <2>2. <<x, y>> \notin before /\ <<y, x>> \notin before
    BY <1>1, <2>1, PlaceGrows
  <2>3. QED
    BY <2>2 DEF TotalOrder
<1>2. Cardinality(S) \in Nat
  BY FS_CardinalityType
<1>3. IsFiniteSet(places) /\ Cardinality(places) = Cardinality(S)
  BY <1>2, FS_Interval
<1>4. f \in Injection(S, places)
  <2>1. f \in [S -> places]
    BY PlaceType
  <2>2. \A x, y \in S : f[x] = f[y] => x = y
    BY <1>1
  <2>3. QED
    BY <2>1, <2>2 DEF Injection, IsInjective
<1>5. f \in Surjection(S, places)
  BY <1>3, <1>4, FS_Injection
<1>6. \A n \in places : \E x \in S : PlaceIn(S, before, x) = n
  BY <1>5 DEF Surjection
<1>7. ASSUME NEW n \in 1 .. Cardinality(S) PROVE \E x \in S : PlaceIn(S, before, x) = n - 1
  <2>1. n - 1 \in places
    BY <1>2
  <2>2. QED
    BY <2>1, <1>6
<1>8. QED
  BY <1>1, <1>7

\* What InOrder makes of it.
LEMMA Sorted ==
  ASSUME NEW S, IsFiniteSet(S), NEW before, TotalOrder(S, before)
  PROVE  LET sorted == P!InOrder(S, before)
         IN /\ IsSequence(sorted) /\ Len(sorted) = Cardinality(S)
            /\ DOMAIN sorted = 1 .. Cardinality(S) /\ Cardinality(S) \in Nat
            /\ \A n \in DOMAIN sorted : sorted[n] \in S /\ PlaceIn(S, before, sorted[n]) = n - 1
            /\ \A x \in S : x = sorted[PlaceIn(S, before, x) + 1]
<1> DEFINE sorted == P!InOrder(S, before)
           Is(n, k) == P!Cardinality({j \in S : <<j, k>> \in before}) = n - 1
           Nth(n) == CHOOSE k \in S : Is(n, k)
<1>1. Cardinality(S) \in Nat
  BY FS_CardinalityType
<1>2. sorted = [n \in 1 .. Cardinality(S) |-> Nth(n)]
  BY Instanced DEF P!InOrder
<1>3. ASSUME NEW n \in 1 .. Cardinality(S)
      PROVE  Nth(n) \in S /\ PlaceIn(S, before, Nth(n)) = n - 1
  <2>1. \A k \in S : Is(n, k) <=> PlaceIn(S, before, k) = n - 1
    BY Instanced DEF PlaceIn, Preceding
  <2>2. \E k \in S : Is(n, k)
    BY <2>1, PlaceTaken
  <2> HIDE DEF Is
  <2>3. Nth(n) \in S /\ Is(n, Nth(n))
    BY <2>2
  <2>4. QED
    BY <2>1, <2>3
<1> HIDE DEF Nth
<1>4. sorted \in [1 .. Cardinality(S) -> S]
  BY <1>2, <1>3
<1>5. \A n \in 1 .. Cardinality(S) : sorted[n] \in S /\ PlaceIn(S, before, sorted[n]) = n - 1
  BY <1>2, <1>3
<1>6. ASSUME NEW x \in S PROVE x = sorted[PlaceIn(S, before, x) + 1]
  <2> DEFINE n == PlaceIn(S, before, x) + 1
  <2>1. n \in 1 .. Cardinality(S) /\ PlaceIn(S, before, x) = n - 1
    BY PlaceType
  <2>2. QED
    BY <2>1, <1>5, PlaceTaken
<1>7. QED
  BY <1>1, <1>4, <1>5, <1>6, Listing

\* SPIRV-Cross lists the storage images and uniform buffers of a module.
LEMMA Listed ==
  ASSUME NEW m, IsSequence(m.variables)
  PROVE  IsSequence(P!StorageImages(m)) /\ IsSequence(P!UniformBuffers(m))
<1>1. IsFiniteSet(DOMAIN m.variables)
  <2>1. DOMAIN m.variables = 1 .. Len(m.variables) /\ Len(m.variables) \in Nat
    BY DEF IsSequence
  <2>2. QED
    BY <2>1, FS_Interval
<1>2. ASSUME NEW those \in SUBSET DOMAIN m.variables
      PROVE  IsSequence(P!Listed(those))
  <2>1. IsFiniteSet(those)
    BY <1>1, FS_Subset
  <2>2. TotalOrder(those, P!Ascending(those))
    BY <1>1 DEF TotalOrder, P!Ascending, IsSequence
  <2>3. QED
    BY <2>1, <2>2, Sorted DEF P!Listed
<1>3. QED
  BY <1>2 DEF P!StorageImages, P!UniformBuffers

\* The lists to_glsl assigns slots from.
LEMMA Assigned ==
  ASSUME NEW m, IsSequence(m.variables), IsSequence(m.uses)
  PROVE  LET r == P!AssignTextures(m)
             s == P!Assign(m, "storage", P!StorageImages(m))
             t == P!Assign(m, "uniform", P!UniformBuffers(m))
         IN /\ IsSequence(r) /\ \A k \in DOMAIN r : r[k].kind = "texture" /\ r[k].slot = k - 1
            /\ IsSequence(s) /\ \A k \in DOMAIN s : s[k].kind = "storage" /\ s[k].slot = k - 1
            /\ IsSequence(t) /\ \A k \in DOMAIN t : t[k].kind = "uniform" /\ t[k].slot = k - 1
            /\ Len(r) = Len(m.uses) /\ Len(s) = Len(P!StorageImages(m))
            /\ Len(t) = Len(P!UniformBuffers(m))
<1> DEFINE r == P!AssignTextures(m)
<1>1. /\ DOMAIN m.uses = 1 .. Len(m.uses) /\ Len(m.uses) \in Nat
      /\ IsSequence(P!StorageImages(m)) /\ IsSequence(P!UniformBuffers(m))
  BY Listed DEF IsSequence
<1>2. /\ IsSequence(r) /\ \A k \in DOMAIN r : r[k].kind = "texture" /\ r[k].slot = k - 1
      /\ Len(r) = Len(m.uses)
  <2>1. /\ DOMAIN r = 1 .. Len(m.uses)
        /\ r \in [1 .. Len(m.uses) -> Elements(r)]
    BY <1>1 DEF P!AssignTextures, Elements
  <2>2. IsSequence(r) /\ Len(r) = Len(m.uses)
    BY <1>1, <2>1, Listing
  <2>3. QED
    BY <2>2 DEF P!AssignTextures
<1>3. ASSUME NEW kind, NEW variables, IsSequence(variables)
      PROVE  /\ IsSequence(P!Assign(m, kind, variables))
             /\ Len(P!Assign(m, kind, variables)) = Len(variables)
             /\ \A k \in DOMAIN P!Assign(m, kind, variables) :
                  /\ P!Assign(m, kind, variables)[k].kind = kind
                  /\ P!Assign(m, kind, variables)[k].slot = k - 1
  <2>1. DOMAIN variables = 1 .. Len(variables) /\ Len(variables) \in Nat
    BY <1>3 DEF IsSequence
  <2>2. P!Assign(m, kind, variables)
          \in [1 .. Len(variables) -> Elements(P!Assign(m, kind, variables))]
    BY <2>1 DEF P!Assign, Elements
  <2>3. /\ IsSequence(P!Assign(m, kind, variables))
        /\ Len(P!Assign(m, kind, variables)) = Len(variables)
    BY <2>1, <2>2, Listing
  <2>4. QED
    BY <2>3 DEF P!Assign
<1>4. QED
  BY <1>1, <1>2, <1>3

\* What is left of a module that none of the checks refuses.
LEMMA Assignments ==
  ASSUME NEW m, P!Slots(m).error = "ok"
  PROVE  LET all == P!AssignTextures(m) \o P!Assign(m, "storage", P!StorageImages(m))
                      \o P!Assign(m, "uniform", P!UniformBuffers(m))
         IN /\ m.magic
            /\ ~ (Len(m.uses) > Limits.textures)
            /\ P!Count(m, {"storage_image"}) <= Limits.storages
            /\ \A k \in DOMAIN all : P!Known(all[k])
            /\ P!Slots(m).value = [k \in DOMAIN all |-> P!SlotEntry(all[k])]
<1> DEFINE all == P!AssignTextures(m) \o P!Assign(m, "storage", P!StorageImages(m))
                    \o P!Assign(m, "uniform", P!UniformBuffers(m))
<1>1. P!ToGlsl(m).error = "ok" /\ P!Slots(m) = P!DescribeSlots(P!ToGlsl(m).value)
  BY DEF P!Slots, P!Refuse
<1>2. m.magic /\ P!ToGlsl(m).value = all /\ P!CheckBeforeTranslating(m)
  BY <1>1 DEF P!ToGlsl, P!Refuse, P!Accept
<1>3. ~ (Len(m.uses) > Limits.textures)
  BY <1>1, <1>2 DEF P!ToGlsl, P!Refuse
<1> HIDE DEF all
<1>4. P!DescribeSlots(all).error = "ok"
  BY <1>1, <1>2
<1>5. /\ P!DescribeSlots(all).value = [k \in DOMAIN all |-> P!SlotEntry(all[k])]
      /\ \A k \in DOMAIN all : P!Known(all[k])
  BY <1>4 DEF P!DescribeSlots, P!Refuse, P!Accept
<1>6. QED
  BY <1>1, <1>2, <1>3, <1>5 DEF all, P!CheckBeforeTranslating

\* The slots a module is translated to.
LEMMA SlotsOnce ==
  ASSUME NEW m, m.magic => IsSequence(m.variables) /\ IsSequence(m.uses),
         P!Slots(m).error = "ok"
  PROVE  OneEntryEach(P!Slots(m).value)
<1> DEFINE r == P!AssignTextures(m)
           s == P!Assign(m, "storage", P!StorageImages(m))
           t == P!Assign(m, "uniform", P!UniformBuffers(m))
           all == r \o s \o t
           slots == [k \in DOMAIN all |-> P!SlotEntry(all[k])]
<1>1. m.magic /\ P!Slots(m).value = slots
  BY Assignments
<1>2. OneEntryEach(all)
  <2>1. /\ IsSequence(r) /\ \A k \in DOMAIN r : r[k].kind = "texture" /\ r[k].slot = k - 1
        /\ IsSequence(s) /\ \A k \in DOMAIN s : s[k].kind = "storage" /\ s[k].slot = k - 1
        /\ IsSequence(t) /\ \A k \in DOMAIN t : t[k].kind = "uniform" /\ t[k].slot = k - 1
    BY <1>1, Assigned
  <2> HIDE DEF r, s, t
  <2>2. QED
    BY <2>1, Joined
<1> HIDE DEF all
<1>3. /\ DOMAIN slots = DOMAIN all
      /\ \A k \in DOMAIN all : slots[k].kind = all[k].kind /\ slots[k].slot = all[k].slot
  BY DEF P!SlotEntry
<1>4. IsSequence(slots)
  <2>1. DOMAIN all = 1 .. Len(all) /\ Len(all) \in Nat
    BY <1>2 DEF OneEntryEach, IsSequence
  <2>2. slots \in [1 .. Len(all) -> Elements(slots)]
    BY <2>1 DEF Elements
  <2>3. QED
    BY <2>1, <2>2, Listing
<1> HIDE DEF slots
<1>5. OneEntryEach(slots)
  BY <1>2, <1>3, <1>4 DEF OneEntryEach
<1>6. QED
  BY <1>1, <1>5

(***************************************************************************)
(* And so the directories hold no other, if they held none before.         *)
(***************************************************************************)
LEMMA NoPasses == Unambiguous(<<>>)
BY DEF Unambiguous, IsSequence, Elements

LEMMA OneMore ==
  ASSUME NEW ps, Unambiguous(ps), NEW p, OneEntryEach(p.slots)
  PROVE  Unambiguous(Append(ps, p))
<1>1. ps \in Seq(Elements(ps) \cup {p}) /\ Len(ps) \in Nat
  BY DEF Unambiguous, IsSequence
<1>2. Append(ps, p) \in Seq(Elements(ps) \cup {p})
  BY <1>1
<1>3. IsSequence(Append(ps, p))
  BY <1>2, InSequence
<1>4. ASSUME NEW n \in DOMAIN Append(ps, p) PROVE OneEntryEach(Append(ps, p)[n].slots)
  <2>1. CASE n = Len(ps) + 1
    BY <2>1, <1>1
  <2>2. CASE n # Len(ps) + 1
    <3>1. n \in DOMAIN ps /\ Append(ps, p)[n] = ps[n]
      BY <2>2, <1>1
    <3>2. QED
      BY <3>1 DEF Unambiguous
  <2>3. QED
    BY <2>1, <2>2
<1>5. QED
  BY <1>3, <1>4 DEF Unambiguous

LEMMA DllKept == DllInv /\ [DeploymentNext]_allVars => DllInv'
<1> SUFFICES ASSUME DllInv, [DeploymentNext]_allVars PROVE DllInv'
  OBVIOUS
<1>1. CASE P!Survey
  <2>1. CASE \E error : P!GiveUp(error)
    BY <2>1 DEF P!GiveUp, P!Finish, P!Following, DllInv
  <2>2. CASE ~ \E error : P!GiveUp(error)
    BY <1>1, <2>2 DEF P!Survey, DllInv, P!Walked
  <2>3. QED
    BY <2>1, <2>2
<1>2. CASE P!TranslateModule
  <2>1. CASE \E error : P!GiveUp(error)
    BY <2>1 DEF P!GiveUp, P!Finish, P!Following, DllInv
  <2>2. CASE ~ \E error : P!GiveUp(error)
    BY <1>2, <2>2 DEF P!TranslateModule, DllInv, P!Walked
  <2>3. QED
    BY <2>1, <2>2
<1>3. CASE P!Write
  BY <1>3 DEF P!Write, P!Translated, P!GiveUp, P!Finish, P!Following, DllInv, P!Walked
<1>4. CASE P!Open \/ P!ReadBack \/ P!Close
  BY <1>4 DEF P!Open, P!ReadBack, P!Close, P!GiveUp, P!Succeed, P!Finish, P!Following, DllInv
<1>5. CASE UNCHANGED <<dll, step>>
  BY <1>5 DEF DllInv, P!Walked
<1>6. QED
  BY <1>1, <1>2, <1>3, <1>4, <1>5 DEF DeploymentNext, Preparing, Measuring, P!Next, preparation, allVars

LEMMA EntriesAtFirst ==
  ASSUME \A c \in Caches \cup Inherited : Unambiguous(c.passes), DeploymentInit
  PROVE  EntriesInv
<1>1. Unambiguous(NoCache.passes)
  BY NoPasses DEF NoCache
<1>2. PICK left \in {NoCache} \cup Inherited : card = [c \in P!Configs |-> left]
  BY DEF DeploymentInit, P!Init, P!NoCache, NoCache
<1>3. QED
  BY <1>1, <1>2, NoPasses DEF EntriesInv, DeploymentInit, P!Init, Init

\* A round of prepare::run.
LEMMA EntriesTranslated ==
  ASSUME DllInv, EntriesInv, P!TranslateModule
  PROVE  Unambiguous(passes')
<1> DEFINE request == requests[Len(passes) + 1]
           found == P!FindResource(P!Table, request.id)
           m == P!Table[Min(found)].data
<1>1. CASE \E error : P!GiveUp(error)
  BY <1>1, NoPasses DEF P!GiveUp, P!Finish
<1>2. CASE /\ found # {} /\ P!Slots(m).error = "ok"
           /\ passes' = Append(passes, P!PassEntry(m, request.block, P!Slots(m).value))
  <2>1. /\ IsSequence(P!Table)
        /\ \A k \in DOMAIN P!Table :
             P!Table[k].data.magic =>
               IsSequence(P!Table[k].data.variables) /\ IsSequence(P!Table[k].data.uses)
    BY DllsAssumption DEF DllInv, P!Table, P!Walked, P!TranslateModule, Readable
  <2>2. found \in SUBSET DOMAIN P!Table /\ DOMAIN P!Table \subseteq Nat
    BY <2>1 DEF P!FindResource, IsSequence
  <2>3. Min(found) \in DOMAIN P!Table
    BY <1>2, <2>2, Smallest
  <2>4. OneEntryEach(P!Slots(m).value)
    BY <1>2, <2>1, <2>3, SlotsOnce
  <2>5. QED
    BY <1>2, <2>4, OneMore DEF P!PassEntry, EntriesInv
<1>3. QED
  BY <1>1, <1>2, Instanced DEF P!TranslateModule

\* A cache is measured to the end.
LEMMA CacheKept ==
  ASSUME MeasureCache
  PROVE  cache' = cache \/ cache' = NoCache
<1>1. CASE LoadCache \/ CreateDevice \/ DestroyDevice
  BY <1>1 DEF LoadCache, CreateDevice, DestroyDevice, Return, options
<1>2. CASE CreateResources
  BY <1>2 DEF CreateResources, Describe, LayOutImage, LaidOutImages, LayOutModule,
              LaidOutModules, CreateImages, CreateDescriptors, WriteDescriptors, CreateUniforms,
              CreateCode, CreateBlock, LoadModule, Created, Fail, options
<1>3. CASE DestroyResources
  BY <1>3 DEF DestroyResources, options
<1>4. QED
  BY <1>1, <1>2, <1>3 DEF MeasureCache

LEMMA EntriesPreserved ==
  ASSUME CardInv, DllInv, EntriesInv, \A c \in Caches : Unambiguous(c.passes),
         [DeploymentNext]_allVars
  PROVE  EntriesInv'
<1> USE DEF P!Configs
<1>1. CASE Preparing
  <2>1. cache' = cache /\ P!Next
    BY <1>1 DEF Preparing, vars
  <2>2. CASE P!Open
    BY <2>1, <2>2 DEF P!Open, P!locals, EntriesInv, P!Walked
  <2>3. ASSUME NEW outcome, NEW next, P!Finish(outcome, next), next # "modules",
               \A c \in P!Configs : Unambiguous(card'[c].passes)
        PROVE  EntriesInv'
    BY <2>1, <2>3, NoPasses DEF P!Finish, EntriesInv
  <2>4. ASSUME NEW error, P!GiveUp(error) PROVE EntriesInv'
    BY <2>3, <2>4 DEF P!GiveUp, P!Following, EntriesInv
  <2>5. CASE P!Survey
    <3>1. CASE step' = "modules" /\ UNCHANGED <<card, dll, passes>> /\ P!Walked.error = "ok"
      BY <2>1, <3>1 DEF EntriesInv, P!Walked
    <3>2. QED
      BY <2>4, <2>5, <3>1 DEF P!Survey
  <2>6. CASE P!TranslateModule
    <3>1. CASE UNCHANGED <<card, dll, step>>
      BY <2>1, <2>6, <3>1, EntriesTranslated DEF EntriesInv, P!Walked
    <3>2. QED
      BY <2>4, <2>6, <3>1 DEF P!TranslateModule
  <2>7. CASE P!Write
    <3>1. ASSUME NEW cache2, Unambiguous(cache2.passes), card' = [card EXCEPT ![config] = cache2]
          PROVE  \A c \in P!Configs : Unambiguous(card'[c].passes)
      BY <3>1 DEF CardInv, EntriesInv
    <3>2. CASE /\ card' = [card EXCEPT ![config] = P!Contents] /\ step' = "verify"
               /\ UNCHANGED <<dll, passes>>
      <4>1. Unambiguous(P!Contents.passes)
        BY DEF EntriesInv, P!Contents
      <4>2. QED
        BY <2>1, <3>1, <3>2, <4>1 DEF EntriesInv
    <3>3. CASE /\ \E left \in {card[config], P!NoCache} : card' = [card EXCEPT ![config] = left]
               /\ P!Finish("card", P!Following)
      <4>1. Unambiguous(card[config].passes) /\ Unambiguous(P!NoCache.passes)
        BY NoPasses DEF CardInv, EntriesInv, P!NoCache
      <4>2. QED
        BY <2>3, <3>1, <3>3, <4>1 DEF P!Following
    <3>4. QED
      BY <2>4, <2>7, <3>2, <3>3 DEF P!Write, P!locals
  <2>8. CASE P!ReadBack
    BY <2>3, <2>4, <2>8 DEF P!ReadBack, P!Succeed, P!Following, EntriesInv
  <2>9. CASE P!Close
    BY <2>1, <2>9, NoPasses DEF P!Close, EntriesInv
  <2>10. QED
    BY <2>1, <2>2, <2>5, <2>6, <2>7, <2>8, <2>9 DEF P!Next
<1>2. CASE Measuring
  <2>1. UNCHANGED <<card, dll, step, passes>>
    BY <1>2 DEF Measuring, preparation
  <2>2. \/ cache' = cache
        \/ cache' = NoCache
        \/ \E c \in OnCard : cache' = c
    BY <1>2, CacheKept DEF Measuring, Measure
  <2>3. Unambiguous(cache'.passes)
    BY <2>2, NoPasses DEF OnCard, EntriesInv, NoCache
  <2>4. QED
    BY <2>1, <2>3 DEF EntriesInv, P!Walked
<1>3. CASE UNCHANGED allVars
  BY <1>3 DEF allVars, preparation, vars, EntriesInv, P!Walked
<1>4. QED
  BY <1>1, <1>2, <1>3 DEF DeploymentNext

\* Whatever the DLL and whatever fails on the way: every dispatch of a cache the
\* preparation app wrote reaches, once create has accepted it, what its variant
\* names, in every frame, as long as the caches that came from elsewhere have one
\* entry for each slot (to_glsl, describe_slots; describe, bind, write_descriptors).
THEOREM WrittenIsReady ==
  ASSUME \A c \in Caches \cup Inherited : Unambiguous(c.passes)
  PROVE  DeploymentSpec => []ReadyToRecord
<1>1. DeploymentInit => DllInv /\ EntriesInv
  BY EntriesAtFirst DEF DeploymentInit, P!Init, DllInv
<1>2. CardInv /\ DllInv /\ EntriesInv /\ [DeploymentNext]_allVars => (DllInv /\ EntriesInv)'
  BY EntriesPreserved, DllKept
<1>3. EntriesInv => Unambiguous(cache.passes)
  BY DEF EntriesInv
<1>4. QED
  BY <1>1, <1>2, <1>3, DeploymentInvariance, ReadyOnAnyCard, PTL DEF DeploymentSpec

-----------------------------------------------------------------------------
(***************************************************************************)
(* The two halves of a shader set.                                         *)
(***************************************************************************)
TableTyped(rs) == IsSequence(rs) /\ \A k \in DOMAIN rs : rs[k].id \in Nat

\* The sorted copy identify makes.
LEMMA ShadersSorted ==
  ASSUME NEW rs, TableTyped(rs)
  PROVE  LET sorted == P!ById(rs)
         IN /\ IsSequence(sorted) /\ Len(sorted) = Cardinality(ShaderAt(rs))
            /\ DOMAIN sorted = 1 .. Len(sorted) /\ Len(sorted) \in Nat
            /\ \A n \in DOMAIN sorted :
                 /\ sorted[n] \in ShaderAt(rs)
                 /\ \A m \in DOMAIN sorted : sorted[m] = sorted[n] => m = n
            /\ \A x \in ShaderAt(rs) : \E n \in DOMAIN sorted : x = sorted[n]
<1> DEFINE S == ShaderAt(rs)
           before == {p \in S \X S : LET a == rs[p[1]].id
                                         b == rs[p[2]].id
                                     IN a < b \/ (a = b /\ p[1] < p[2])}
<1>1. P!ById(rs) = P!InOrder(S, before)
  BY DEF P!ById, P!Shaders, ShaderAt
<1>2. DOMAIN rs = 1 .. Len(rs) /\ Len(rs) \in Nat
  BY DEF TableTyped, IsSequence
<1>3. IsFiniteSet(S)
  <2>1. S \in SUBSET (1 .. Len(rs))
    BY <1>2 DEF ShaderAt
  <2>2. IsFiniteSet(1 .. Len(rs))
    BY <1>2, FS_Interval
  <2>3. QED
    BY <2>1, <2>2, FS_Subset
<1>4. TotalOrder(S, before)
  BY <1>2 DEF TotalOrder, TableTyped, ShaderAt
<1>5. \A x \in S : PlaceIn(S, before, x) + 1 \in 1 .. Cardinality(S)
  BY <1>3, <1>4, PlaceType
<1> HIDE DEF before, S
<1>6. QED
  BY <1>1, <1>3, <1>4, <1>5, Sorted DEF S

\* Consecutive ids count the places.
LEMMA IdsCount ==
  ASSUME NEW rs, TableTyped(rs), P!Consecutive(rs, P!ById(rs))
  PROVE  LET sorted == P!ById(rs)
         IN \A n \in DOMAIN sorted :
              /\ rs[sorted[n]].id = rs[sorted[1]].id + n - 1
              /\ Position(rs, sorted[n]) = n - 1
<1> DEFINE sorted == P!ById(rs)
           id(n) == rs[sorted[n]].id
           wrong == {n \in DOMAIN sorted : id(n) # id(1) + n - 1}
<1>1. /\ DOMAIN sorted = 1 .. Len(sorted) /\ Len(sorted) \in Nat
      /\ Len(sorted) = Cardinality(ShaderAt(rs))
      /\ \A n \in DOMAIN sorted : sorted[n] \in ShaderAt(rs)
      /\ \A x \in ShaderAt(rs) : \E n \in DOMAIN sorted : x = sorted[n]
      /\ \A m, n \in DOMAIN sorted : sorted[m] = sorted[n] => m = n
  BY ShadersSorted
<1>2. \A n \in DOMAIN sorted : id(n) \in Nat
  BY <1>1 DEF TableTyped, ShaderAt
<1>3. \A n \in 2 .. Len(sorted) : id(n) = id(n - 1) + 1
  BY DEF P!Consecutive
<1> HIDE DEF sorted, id
<1>4. wrong = {}
  <2>1. SUFFICES ASSUME wrong # {} PROVE FALSE
    OBVIOUS
  <2>2. wrong \in SUBSET Nat
    BY <1>1
  <2>3. PICK n \in wrong : \A m \in wrong : n <= m
    BY <2>1, <2>2, Smallest
  <2>4. n \in 1 .. Len(sorted) /\ n # 1
    BY <1>1, <1>2
  <2>5. n - 1 \in DOMAIN sorted /\ n - 1 \notin wrong
    BY <2>3, <2>4, <1>1
  <2>6. QED
    BY <2>4, <2>5, <1>1, <1>2, <1>3
<1>5. \A n \in DOMAIN sorted : id(n) = id(1) + n - 1
  BY <1>4
<1>6. ASSUME NEW n \in DOMAIN sorted PROVE Position(rs, sorted[n]) = n - 1
  <2> DEFINE low == {x \in ShaderAt(rs) : rs[x].id < rs[sorted[n]].id}
             f == [m \in 1 .. n - 1 |-> sorted[m]]
  <2>1. \A m \in DOMAIN sorted : id(m) < id(n) <=> m < n
    <3> TAKE m \in DOMAIN sorted
    <3>1. id(m) = id(1) + m - 1 /\ id(n) = id(1) + n - 1
      BY <1>5
    <3>2. m \in Nat /\ n \in Nat /\ 1 \in DOMAIN sorted
      BY <1>1
    <3>3. id(1) \in Nat
      BY <1>2, <3>2
    <3>4. QED
      BY <3>1, <3>2, <3>3
  <2>2. f \in Bijection(1 .. n - 1, low)
    <3>1. \A m \in 1 .. n - 1 : m \in DOMAIN sorted /\ sorted[m] \in low
      BY <1>1, <2>1 DEF id
    <3>2. f \in [1 .. n - 1 -> low]
      BY <3>1
    <3>3. \A x \in low : \E m \in 1 .. n - 1 : f[m] = x
      BY <1>1, <2>1 DEF id
    <3>4. \A l, m \in 1 .. n - 1 : f[l] = f[m] => l = m
      BY <1>1, <3>1
    <3> HIDE DEF f, low
    <3>5. f \in Injection(1 .. n - 1, low)
      BY <3>2, <3>4 DEF Injection, IsInjective
    <3>6. f \in Surjection(1 .. n - 1, low)
      BY <3>2, <3>3 DEF Surjection
    <3>7. QED
      BY <3>5, <3>6 DEF Bijection
  <2>3. Cardinality(low) = Cardinality(1 .. n - 1)
    <3>1. IsFiniteSet(1 .. n - 1)
      BY <1>1, FS_Interval
    <3>2. ExistsBijection(1 .. n - 1, low)
      BY <2>2 DEF ExistsBijection
    <3>3. QED
      BY <3>1, <3>2, FS_Bijection
  <2>4. Cardinality(1 .. n - 1) = n - 1
    BY <1>1, FS_Interval
  <2>5. QED
    BY <2>3, <2>4 DEF Position
<1>7. QED
  BY <1>5, <1>6 DEF sorted, id

LEMMA Halves ==
  ASSUME NEW size \in Nat \ {0}, NEW half \in {0, 1}, NEW b \in 0 .. size - 1
  PROVE  (half * size + b) \div size = half /\ (half * size + b) % size = b
<1>1. b % size = b /\ b \div size = 0
  OBVIOUS
<1>2. (size + b) % size = b /\ (size + b) \div size = 1
  OBVIOUS
<1>3. CASE half = 0
  BY <1>1, <1>3
<1>4. CASE half = 1
  BY <1>2, <1>4
<1>5. QED
  BY <1>3, <1>4

\* What identify has tested when it succeeds.
LEMMA Identified ==
  ASSUME NEW rs, P!Identify(rs).error = "ok"
  PROVE  LET sorted == P!ById(rs)
             size == Len(sorted) \div 2
             Declares(half) == P!DeclaresFloat16(rs, sorted, size, half)
             low == IF Declares(0) THEN 0 ELSE 1
         IN /\ P!Consecutive(rs, sorted) /\ Len(sorted) % 2 = 0 /\ sorted # <<>>
            /\ Declares(0) # Declares(1)
            /\ P!Identify(rs).value
                 = [first |-> rs[sorted[1]].id, size |-> size, low |-> low, high |-> 1 - low]
<1> DEFINE sorted == P!ById(rs)
           Declares(half) == P!DeclaresFloat16(rs, sorted, Len(sorted) \div 2, half)
<1> HIDE DEF sorted
<1>1. Declares(0) \in BOOLEAN /\ Declares(1) \in BOOLEAN
  BY DEF P!DeclaresFloat16
<1>2. QED
  BY <1>1, Zenon DEF P!Identify, P!Failed, P!Ok, sorted

\* What identify finds is so: the shader with the id that stands for a block in the
\* half of high precision is at that place of that half, and none there declares
\* Float16.
LEMMA HighFound ==
  ASSUME NEW rs, TableTyped(rs), P!Identify(rs).error = "ok",
         NEW block \in 0 .. P!Identify(rs).value.size - 1, NEW k \in ShaderAt(rs),
         rs[k].id = P!ResourceIdFor(P!Identify(rs).value, "high", block)
  PROVE  /\ Position(rs, k) % HalfSize(rs) = block
         /\ \A j \in ShaderAt(rs) : SameHalf(rs, j, k) => ~ rs[j].data.float16
<1> DEFINE sorted == P!ById(rs)
           size == Len(sorted) \div 2
           Declares(half) == P!DeclaresFloat16(rs, sorted, size, half)
           low == IF Declares(0) THEN 0 ELSE 1
           high == 1 - low
<1>1. /\ DOMAIN sorted = 1 .. Len(sorted) /\ Len(sorted) \in Nat
      /\ Len(sorted) = Cardinality(ShaderAt(rs))
      /\ \A n \in DOMAIN sorted : sorted[n] \in ShaderAt(rs)
      /\ \A x \in ShaderAt(rs) : \E n \in DOMAIN sorted : x = sorted[n]
  BY ShadersSorted
<1>2. /\ P!Consecutive(rs, sorted) /\ Len(sorted) % 2 = 0 /\ sorted # <<>>
      /\ Declares(0) # Declares(1)
      /\ P!Identify(rs).value
           = [first |-> rs[sorted[1]].id, size |-> size, low |-> low, high |-> high]
  BY Identified, Zenon
<1>3. \A n \in DOMAIN sorted :
        rs[sorted[n]].id = rs[sorted[1]].id + n - 1 /\ Position(rs, sorted[n]) = n - 1
  BY <1>2, IdsCount
<1>4. HalfSize(rs) = size
  BY <1>1 DEF HalfSize
<1>5. PICK n \in DOMAIN sorted : k = sorted[n]
  BY <1>1
<1>6. /\ size \in Nat \ {0} /\ Len(sorted) = 2 * size
      /\ high \in {0, 1} /\ ~ Declares(high)
      /\ block \in 0 .. size - 1
  <2>1. Len(sorted) # 0
    <3>1. IsSequence(sorted)
      BY ShadersSorted
    <3>2. sorted \in Seq(Elements(sorted))
      BY <3>1 DEF IsSequence
    <3> HIDE DEF sorted
    <3>3. QED
      BY <3>2, <1>2, EmptySeq
  <2>2. block \in 0 .. size - 1
    BY <1>2
  <2>3. high \in {0, 1} /\ ~ Declares(high)
    <3>1. Declares(0) \in BOOLEAN /\ Declares(1) \in BOOLEAN
      BY DEF P!DeclaresFloat16
    <3> HIDE DEF Declares
    <3>2. CASE Declares(0)
      <4>1. high = 1
        BY <3>2
      <4>2. ~ Declares(1)
        BY <1>2, <3>1, <3>2, Zenon
      <4> HIDE DEF high
      <4>3. QED
        BY <4>1, <4>2
    <3>3. CASE ~ Declares(0)
      <4>1. high = 0
        BY <3>3
      <4> HIDE DEF high
      <4>2. QED
        BY <3>3, <4>1
    <3>4. QED
      BY <3>2, <3>3
  <2>4. size \in Nat \ {0} /\ Len(sorted) = 2 * size
    <3> HIDE DEF sorted
    <3>1. QED
      BY <1>1, <1>2, <2>1
  <2>5. QED
    BY <2>2, <2>3, <2>4
<1>7. rs[sorted[1]].id \in Nat
  BY <1>1, <1>5 DEF TableTyped, ShaderAt
<1>8. Position(rs, k) = high * size + block
  <2>1. rs[k].id = rs[sorted[1]].id + high * size + block
    BY <1>2 DEF P!ResourceIdFor
  <2> HIDE DEF sorted, size, high
  <2>2. n - 1 = high * size + block
    <3> DEFINE before == high * size
    <3>1. before \in Nat
      BY <1>6
    <3> HIDE DEF before
    <3>2. /\ rs[k].id = rs[sorted[1]].id + n - 1
          /\ rs[k].id = rs[sorted[1]].id + before + block
      BY <1>3, <1>5, <2>1 DEF before
    <3>3. n \in Nat
      BY <1>1, <1>5
    <3>4. n - 1 = before + block
      <4>1. ASSUME NEW i \in Nat, NEW l \in Nat, NEW b \in Nat, l = i + n - 1, l = i + before + b
            PROVE  n - 1 = before + b
        BY <3>1, <3>3, <4>1
      <4>2. block \in Nat /\ rs[k].id \in Nat
        BY DEF TableTyped, ShaderAt
      <4>3. QED
        BY <4>1, <4>2, <3>2, <1>7
    <3>5. QED
      BY <3>4 DEF before
  <2>3. QED
    BY <2>2, <1>3, <1>5
<1> HIDE DEF size, high
<1>9. ASSUME NEW j \in ShaderAt(rs), SameHalf(rs, j, k) PROVE ~ rs[j].data.float16
  <2>1. PICK m \in DOMAIN sorted : j = sorted[m]
    BY <1>1
  <2>2. Position(rs, j) = m - 1 /\ (m - 1) \div size = high
    BY <1>3, <1>4, <1>6, <1>8, <1>9, <2>1, Halves DEF SameHalf
  <2> HIDE DEF sorted
  <2>3. m \in high * size + 1 .. (high + 1) * size
    <3>1. m - 1 \in 0 .. 2 * size - 1
      BY <1>1, <1>6
    <3>2. CASE m - 1 < size
      <4>1. m - 1 \in 0 .. size - 1
        BY <3>1, <3>2, <1>6
      <4>2. (0 * size + (m - 1)) \div size = 0
        BY <4>1, <1>6, Halves
      <4>3. high = 0
        BY <4>1, <4>2, <2>2, <1>6
      <4>4. QED
        BY <4>1, <4>3, <1>6
    <3>3. CASE m - 1 >= size
      <4>1. m - 1 - size \in 0 .. size - 1
        BY <3>1, <3>3, <1>6
      <4>2. (1 * size + (m - 1 - size)) \div size = 1
        BY <4>1, <1>6, Halves
      <4>3. high = 1
        BY <4>1, <4>2, <2>2, <3>1, <1>6
      <4>4. QED
        BY <4>1, <4>3, <1>6
    <3>4. QED
      BY <3>1, <3>2, <3>3, <1>6
  <2>4. QED
    BY <1>6, <2>1, <2>3 DEF P!DeclaresFloat16, P!Half, sorted
<1> HIDE DEF sorted
<1>10. (high * size + block) % size = block
  BY <1>6, Halves
<1>11. QED
  BY <1>4, <1>8, <1>9, <1>10

\* The modules required of it.
LEMMA Required ==
  ASSUME NEW set, set.size \in Nat, NEW performance,
         P!RequiredModules(set, "high", performance).error = "ok"
  PROVE  LET needed == P!RequiredModules(set, "high", performance).value
         IN /\ IsSequence(needed)
            /\ \A n \in DOMAIN needed :
                 /\ needed[n].block \in 0 .. set.size - 1
                 /\ needed[n].id = P!ResourceIdFor(set, "high", needed[n].block)
            /\ \A n \in DOMAIN needed : \E s \in DOMAIN Chain :
                 needed[n].block = P!BlockIndexOf(performance, Chain[s])
            /\ \A s \in DOMAIN Chain : \E n \in DOMAIN needed :
                 needed[n].block = P!BlockIndexOf(performance, Chain[s])
<1> DEFINE Block(k) == P!BlockIndexOf(performance, Chain[k])
           blocks == {Block(k) : k \in DOMAIN Chain}
           order == P!InOrder(blocks, P!Ascending(blocks))
           needed == [n \in 1 .. P!Cardinality(blocks) |->
                        [block |-> order[n], id |-> P!ResourceIdFor(set, "high", order[n])]]
<1>1. /\ P!RequiredModules(set, "high", performance).value = needed
      /\ ~ \E b \in blocks : b >= set.size
  BY DEF P!RequiredModules, P!Failed, P!Ok
<1>2. blocks \subseteq 0 .. set.size - 1
  <2>1. \A k \in DOMAIN Chain : Block(k) \in Nat
    BY DeploymentAssumption DEF P!BlockIndexOf
  <2> HIDE DEF Block
  <2>2. \A b \in blocks : b \in Nat /\ ~ b >= set.size
    BY <1>1, <2>1
  <2> HIDE DEF blocks
  <2>3. QED
    BY <2>2
<1>3. IsFiniteSet(blocks)
  <2>1. IsFiniteSet(0 .. set.size - 1)
    BY FS_Interval
  <2> HIDE DEF blocks
  <2>2. QED
    BY <1>2, <2>1, FS_Subset
<1>4. TotalOrder(blocks, P!Ascending(blocks))
  <2> HIDE DEF blocks
  <2>1. QED
    BY <1>2 DEF TotalOrder, P!Ascending
<1> HIDE DEF blocks
<1>5. /\ P!Cardinality(blocks) \in Nat
      /\ \A n \in 1 .. P!Cardinality(blocks) : order[n] \in blocks
  BY <1>3, <1>4, Sorted, Instanced
<1>6. \A b \in blocks : \E n \in 1 .. P!Cardinality(blocks) : b = order[n]
  <2>1. SUFFICES ASSUME NEW b \in blocks
                 PROVE  \E n \in 1 .. P!Cardinality(blocks) : b = order[n]
    OBVIOUS
  <2> DEFINE place == PlaceIn(blocks, P!Ascending(blocks), b)
  <2>2. b = order[place + 1]
    BY <1>3, <1>4, Sorted
  <2>3. place \in 0 .. Cardinality(blocks) - 1 /\ Cardinality(blocks) \in Nat
    BY <1>3, <1>4, PlaceType
  <2> HIDE DEF place
  <2>4. place + 1 \in 1 .. P!Cardinality(blocks)
    BY <2>3, Instanced
  <2>5. QED
    BY <2>2, <2>4
<1> HIDE DEF order
<1>7. IsSequence(needed)
  <2>1. needed \in [1 .. P!Cardinality(blocks) -> Elements(needed)]
    BY DEF Elements
  <2>2. QED
    BY <1>5, <2>1, Listing
<1>8. ASSUME NEW n \in DOMAIN needed
      PROVE  /\ needed[n].block \in 0 .. set.size - 1
             /\ needed[n].id = P!ResourceIdFor(set, "high", needed[n].block)
  <2>1. n \in 1 .. P!Cardinality(blocks)
    BY <1>8
  <2>2. needed[n] = [block |-> order[n], id |-> P!ResourceIdFor(set, "high", order[n])]
    BY <2>1
  <2> HIDE DEF needed
  <2>3. order[n] \in 0 .. set.size - 1
    BY <1>2, <1>5, <2>1
  <2>4. QED
    BY <2>2, <2>3
<1>9. /\ \A n \in DOMAIN needed : needed[n].block \in blocks
      /\ \A b \in blocks : \E n \in DOMAIN needed : needed[n].block = b
  BY <1>5, <1>6
<1> HIDE DEF needed
<1>10. QED
  BY <1>1, <1>7, <1>8, <1>9 DEF blocks

LEMMA TableListed == DllInv /\ step = "modules" => TableTyped(P!Table)
BY DllsAssumption DEF DllInv, TableTyped, P!Table, P!Walked

(***************************************************************************)
(* Every pass comes from the half of high precision.                       *)
(***************************************************************************)
\* A round of prepare::run.
LEMMA RequestsTranslated ==
  ASSUME DllInv, RequestsInv, P!TranslateModule, ~ \E error : P!GiveUp(error)
  PROVE  RequestsInv'
<1> DEFINE request == requests[Len(passes) + 1]
           found == P!FindResource(P!Table, request.id)
           k == Min(found)
           m == P!Table[k].data
           set == P!Identify(P!Table)
<1>1. /\ found # {} /\ P!Slots(m).error = "ok"
      /\ passes' = Append(passes, P!PassEntry(m, request.block, P!Slots(m).value))
      /\ used' = Append(used, k)
      /\ UNCHANGED <<step, requests, dll>>
  BY Instanced DEF P!TranslateModule
<1>2. step = "modules" /\ Len(passes) < Len(requests)
  BY DEF P!TranslateModule
<1>3. TableTyped(P!Table)
  BY <1>2, TableListed
<1>4. k \in found
  <2>1. found \in SUBSET Nat
    BY <1>3 DEF TableTyped, IsSequence, P!FindResource
  <2>2. QED
    BY <1>1, <2>1, Smallest
<1>5. m.magic
  BY <1>1 DEF P!Slots, P!ToGlsl, P!Refuse
<1>6. k \in ShaderAt(P!Table) /\ P!Table[k].id = request.id
  BY <1>4, <1>5 DEF P!FindResource, ShaderAt
<1>7. /\ set.error = "ok" /\ request.block \in 0 .. set.value.size - 1
      /\ request.id = P!ResourceIdFor(set.value, "high", request.block)
  <2>1. Len(passes) + 1 \in DOMAIN requests
    BY <1>2 DEF RequestsInv, IsSequence
  <2>2. QED
    BY <1>2, <2>1 DEF RequestsInv
<1>8. /\ Position(P!Table, k) % HalfSize(P!Table) = request.block
      /\ \A j \in ShaderAt(P!Table) : SameHalf(P!Table, j, k) => ~ P!Table[j].data.float16
  BY <1>3, <1>6, <1>7, HighFound
<1>9. /\ passes \in Seq(Elements(passes)) /\ used \in Seq(Elements(used))
      /\ Len(used) = Len(passes)
  BY DEF RequestsInv, IsSequence
<1>10. P!Table' = P!Table
  BY <1>1 DEF P!Table, P!Walked
<1>11. HighPrecisionModules'
  <2> HIDE DEF k, request
  <2>1. SUFFICES ASSUME NEW n \in DOMAIN used'
                 PROVE  /\ used'[n] \in ShaderAt(P!Table)
                        /\ Position(P!Table, used'[n]) % HalfSize(P!Table) = passes'[n].block
                        /\ \A j \in ShaderAt(P!Table) :
                             SameHalf(P!Table, j, used'[n]) => ~ P!Table[j].data.float16
    BY <1>10 DEF HighPrecisionModules
  <2>2. CASE n = Len(used) + 1
    <3>1. used'[n] = k /\ passes'[n].block = request.block
      BY <1>1, <1>9, <2>2 DEF P!PassEntry
    <3>2. QED
      BY <3>1, <1>6, <1>8
  <2>3. CASE n # Len(used) + 1
    <3>1. n \in DOMAIN used /\ used'[n] = used[n] /\ passes'[n] = passes[n]
      BY <1>1, <1>9, <2>1, <2>3
    <3>2. QED
      BY <3>1 DEF RequestsInv, HighPrecisionModules
  <2>4. QED
    BY <2>2, <2>3
<1>12. IsSequence(passes)' /\ IsSequence(used)' /\ Len(used') = Len(passes')
  <2> HIDE DEF k, m, request
  <2> DEFINE pass == P!PassEntry(m, request.block, P!Slots(m).value)
  <2>1. /\ passes' \in Seq(Elements(passes) \cup {pass})
        /\ used' \in Seq(Elements(used) \cup {k})
        /\ Len(used') = Len(passes')
    BY <1>1, <1>9
  <2>2. QED
    BY <2>1, InSequence
<1>13. QED
  BY <1>1, <1>2, <1>10, <1>11, <1>12 DEF RequestsInv

\* The requests of prepare::run.
LEMMA RequestsFound ==
  ASSUME DllInv, RequestsInv, P!Survey, ~ \E error : P!GiveUp(error)
  PROVE  RequestsInv'
<1> DEFINE set == P!Identify(P!Table)
           needed == P!RequiredModules(set.value, "high", P!Performance)
<1>1. /\ P!Walked.error = "ok" /\ set.error = "ok" /\ needed.error = "ok"
      /\ requests' = needed.value /\ UNCHANGED <<dll, passes, used>>
  BY DEF P!Survey
<1>2. TableTyped(P!Table)
  BY <1>1, DllsAssumption DEF DllInv, TableTyped, P!Table, P!Walked
<1>3. set.value.size \in Nat
  <2>1. Len(P!ById(P!Table)) \in Nat
    BY <1>2, ShadersSorted
  <2>2. \E first, low, high :
          set.value = [first |-> first, size |-> Len(P!ById(P!Table)) \div 2,
                       low |-> low, high |-> high]
    BY <1>1, Identified
  <2>3. QED
    BY <2>1, <2>2
<1>4. /\ IsSequence(requests')
      /\ \A n \in DOMAIN requests' :
           /\ requests'[n].block \in 0 .. set.value.size - 1
           /\ requests'[n].id = P!ResourceIdFor(set.value, "high", requests'[n].block)
  <2> HIDE DEF set
  <2>1. QED
    BY <1>1, <1>3, Required
<1>5. P!Table' = P!Table
  BY <1>1 DEF P!Table, P!Walked
<1>6. HighPrecisionModules'
  BY <1>1, <1>5 DEF RequestsInv, HighPrecisionModules
<1>7. QED
  BY <1>1, <1>4, <1>5, <1>6 DEF RequestsInv

LEMMA RequestsKept ==
  ASSUME DllInv, RequestsInv, [DeploymentNext]_allVars
  PROVE  RequestsInv'
<1>1. ASSUME passes' = <<>>, used' = <<>>, step' # "modules" PROVE RequestsInv'
  BY <1>1 DEF RequestsInv, HighPrecisionModules, IsSequence, Elements
<1>2. ASSUME UNCHANGED <<passes, used, requests, dll>>, step' # "modules" \/ step' = step
      PROVE  RequestsInv'
  BY <1>2 DEF RequestsInv, HighPrecisionModules, P!Table, P!Walked
<1>3. CASE \E error : P!GiveUp(error)
  BY <1>1, <1>3 DEF P!GiveUp, P!Finish, P!Following
<1>4. CASE P!Survey /\ ~ \E error : P!GiveUp(error)
  BY <1>4, RequestsFound
<1>5. CASE P!TranslateModule /\ ~ \E error : P!GiveUp(error)
  BY <1>5, RequestsTranslated
<1>6. CASE P!Open
  BY <1>2, <1>6 DEF P!Open, P!locals
<1>7. CASE P!Write
  BY <1>1, <1>2, <1>3, <1>7 DEF P!Write, P!Finish, P!Following, P!locals
<1>8. CASE P!ReadBack
  BY <1>1, <1>3, <1>8 DEF P!ReadBack, P!Succeed, P!Finish, P!Following
<1>9. CASE P!Close
  BY <1>1, <1>9 DEF P!Close
<1>10. CASE UNCHANGED preparation
  BY <1>2, <1>10 DEF preparation
<1>11. QED
  BY <1>3, <1>4, <1>5, <1>6, <1>7, <1>8, <1>9, <1>10
     DEF DeploymentNext, Preparing, Measuring, P!Next, allVars

\* Whatever the DLL: every pass the preparation app makes comes from the shader its
\* dispatches ask for, in the half of which no shader declares Float16 (identify,
\* resource_id_for, required_modules, find_resource).
THEOREM HighPrecisionOnly == DeploymentSpec => []HighPrecisionModules
<1>1. DeploymentInit => DllInv /\ RequestsInv
  BY DEF DeploymentInit, P!Init, DllInv, RequestsInv, HighPrecisionModules, IsSequence, Elements
<1>2. DllInv /\ RequestsInv /\ [DeploymentNext]_allVars => (DllInv /\ RequestsInv)'
  BY DllKept, RequestsKept
<1>3. RequestsInv => HighPrecisionModules
  BY DEF RequestsInv
<1>4. QED
  BY <1>1, <1>2, <1>3, PTL DEF DeploymentSpec

-----------------------------------------------------------------------------
(***************************************************************************)
(* What a module is bound to.                                              *)
(***************************************************************************)
\* Numbers below the size of a set, one for each element: the number of an element is
\* how many elements have a smaller one.
LEMMA Ranked ==
  ASSUME NEW S, IsFiniteSet(S), NEW n \in Nat, n <= Cardinality(S),
         NEW f \in [S -> 0 .. n - 1], \A j, k \in S : f[j] = f[k] => j = k,
         NEW k \in S
  PROVE  Cardinality({j \in S : f[j] < f[k]}) = f[k]
<1>1. IsFiniteSet(0 .. n - 1) /\ Cardinality(0 .. n - 1) = n
  BY FS_Interval
<1>2. f \in Injection(S, 0 .. n - 1)
  BY DEF Injection, IsInjective
<1>3. Cardinality(S) = n /\ f \in Surjection(S, 0 .. n - 1)
  <2>1. Cardinality(S) <= n /\ Cardinality(S) \in Nat
    BY <1>1, <1>2, FS_Injection, FS_CardinalityType
  <2>2. Cardinality(S) = n
    BY <2>1
  <2>3. QED
    BY <1>1, <1>2, <2>2, FS_Injection
<1> DEFINE low == {j \in S : f[j] < f[k]}
           below == 0 .. f[k] - 1
           g == [j \in low |-> f[j]]
<1>4. f[k] \in 0 .. n - 1
  OBVIOUS
<1>5. g \in Bijection(low, below)
  <2>1. g \in [low -> below]
    BY <1>4
  <2>2. \A i, j \in low : g[i] = g[j] => i = j
    OBVIOUS
  <2>3. \A x \in below : \E j \in low : g[j] = x
    <3> SUFFICES ASSUME NEW x \in below PROVE \E j \in low : g[j] = x
      OBVIOUS
    <3>1. x \in 0 .. n - 1 /\ x < f[k]
      BY <1>4
    <3>2. PICK j \in S : f[j] = x
      BY <1>3, <3>1 DEF Surjection
    <3>3. QED
      BY <3>1, <3>2
  <2>4. QED
    BY <2>1, <2>2, <2>3 DEF Bijection, Injection, Surjection, IsInjective
<1>6. IsFiniteSet(low)
  BY FS_Subset
<1>7. Cardinality(low) = Cardinality(below)
  BY <1>5, <1>6, FS_Bijection DEF ExistsBijection
<1>8. Cardinality(below) = f[k]
  BY <1>4, FS_Interval
<1>9. QED
  BY <1>7, <1>8

\* No arrays: one descriptor.
LEMMA Plain ==
  ASSUME NEW v, v.lengths = <<>>
  PROVE  P!Resolved(v) /\ P!ArraySize(v) = 1
<1>1. Len(v.lengths) = 0
  BY EmptySeq
<1>2. P!Resolved(v)
  BY <1>1 DEF P!Resolved, P!MaxNesting
<1>3. P!ArraySize(v) = 1
  <2> DEFINE Sizes(size) ==
               [n \in 0 .. Len(v.lengths) |->
                  IF n = 0 THEN 1 ELSE (size[n - 1] * P!Max({1, v.lengths[n]})) % Number]
             found == CHOOSE size : size = Sizes(size)
  <2>1. \A size : Sizes(size) = [n \in 0 .. 0 |-> 1]
    BY <1>1
  <2>2. found = Sizes(found)
    BY <2>1
  <2>3. found[0] = 1
    BY <2>1, <2>2
  <2>4. P!ArraySize(v) = found[Len(v.lengths)]
    BY <1>2 DEF P!ArraySize
  <2>5. QED
    BY <1>1, <2>3, <2>4
<1>4. QED
  BY <1>2, <1>3

\* The variables of a module that have one of some types.
Typed(m, types) == {k \in DOMAIN m.variables : m.variables[k].type \in types}

LEMMA TypedFinite ==
  ASSUME NEW m, IsSequence(m.variables), NEW types
  PROVE  IsFiniteSet(Typed(m, types)) /\ Cardinality(Typed(m, types)) \in Nat
<1>1. IsFiniteSet(DOMAIN m.variables)
  BY FS_Interval DEF IsSequence
<1>2. IsFiniteSet(Typed(m, types))
  BY <1>1, FS_Subset DEF Typed
<1>3. QED
  BY <1>2, FS_CardinalityType

\* A clean module has one descriptor for each binding.
LEMMA CleanCount ==
  ASSUME NEW m, IsSequence(m.variables), Clean(m), NEW kinds
  PROVE  LET those == {k \in DOMAIN m.variables : P!Kind(m.variables[k]) \in kinds}
         IN /\ IsFiniteSet(those) /\ Cardinality(those) \in Nat
            /\ P!Count(m, kinds) = Cardinality(those) % Number
<1> DEFINE those == {k \in DOMAIN m.variables : P!Kind(m.variables[k]) \in kinds}
           pairs == P!DescriptorsOf(m, kinds)
           f == [k \in those |-> <<k, 1>>]
<1>1. ASSUME NEW k \in DOMAIN m.variables
      PROVE  k \in P!Bindings(m) /\ P!ArraySize(m.variables[k]) = 1
  <2>1. m.variables[k].set = 0 /\ m.variables[k].lengths = <<>>
    BY DEF Clean
  <2>2. QED
    BY <2>1, Plain DEF P!Bindings, P!Undecorated
<1>2. pairs = {<<k, 1>> : k \in those}
  <2>1. {k \in P!Bindings(m) : P!Kind(m.variables[k]) \in kinds} = those
    BY <1>1 DEF P!Bindings
  <2>2. pairs = UNION {{k} \X (1 .. P!ArraySize(m.variables[k])) : k \in those}
    BY <2>1 DEF P!DescriptorsOf
  <2>3. \A k \in those : {k} \X (1 .. P!ArraySize(m.variables[k])) = {<<k, 1>>}
    <3>1. ASSUME NEW k \in those
          PROVE  {k} \X (1 .. P!ArraySize(m.variables[k])) = {<<k, 1>>}
      <4>1. P!ArraySize(m.variables[k]) = 1
        BY <1>1
      <4>2. 1 .. 1 = {1}
        OBVIOUS
      <4>3. QED
        BY <4>1, <4>2
    <3>2. QED
      BY <3>1
  <2>4. QED
    BY <2>2, <2>3
<1>3. IsFiniteSet(those) /\ Cardinality(those) \in Nat
  <2>1. IsFiniteSet(DOMAIN m.variables)
    BY FS_Interval DEF IsSequence
  <2>2. IsFiniteSet(those)
    BY <2>1, FS_Subset
  <2>3. QED
    BY <2>2, FS_CardinalityType
<1> HIDE DEF those, pairs
<1>4. f \in Bijection(those, pairs)
  BY <1>2 DEF Bijection, Injection, Surjection, IsInjective
<1>5. Cardinality(pairs) = Cardinality(those)
  BY <1>3, <1>4, FS_Bijection DEF ExistsBijection
<1>6. P!Count(m, kinds) = Cardinality(those) % Number
  BY <1>5, Instanced DEF P!Count, pairs
<1>7. QED
  BY <1>3, <1>6 DEF those

\* It counts no more descriptors than it has such variables.
LEMMA CleanCounts ==
  ASSUME NEW m, IsSequence(m.variables), Clean(m), NEW types \in SUBSET P!Opaque
  PROVE  P!Count(m, types) \in Nat /\ P!Count(m, types) <= Cardinality(Typed(m, types))
<1>1. ASSUME NEW k \in DOMAIN m.variables
      PROVE  P!Kind(m.variables[k]) \in types <=> m.variables[k].type \in types
  <2>1. P!Resolved(m.variables[k])
    BY Plain DEF Clean
  <2>2. CASE m.variables[k].type \in P!Opaque
    <3>1. P!Kind(m.variables[k]) = m.variables[k].type
      BY <2>1, <2>2 DEF P!Kind, P!IsStorageBuffer, P!IsUniformBuffer, P!Opaque, P!Images
    <3>2. QED
      BY <3>1
  <2>3. CASE m.variables[k].type \notin P!Opaque
    <3>1. P!Kind(m.variables[k]) \in {"storage_buffer", "uniform_buffer", "unknown"}
      BY <2>1, <2>3 DEF P!Kind
    <3>2. P!Kind(m.variables[k]) \notin P!Opaque
      BY <3>1 DEF P!Opaque, P!Images
    <3>3. QED
      BY <2>3, <3>2
  <2>4. QED
    BY <2>2, <2>3
<1>2. {k \in DOMAIN m.variables : P!Kind(m.variables[k]) \in types} = Typed(m, types)
  BY <1>1 DEF Typed
<1>3. /\ Cardinality(Typed(m, types)) \in Nat
      /\ P!Count(m, types) = Cardinality(Typed(m, types)) % Number
  BY <1>2, CleanCount
<1>4. \A x \in Nat : x % Number \in Nat /\ x % Number <= x
  BY DeploymentAssumption
<1>5. QED
  BY <1>3, <1>4

\* Where a module's slots are, and what is in them.
Textures(m) == Len(m.uses)
Storages(m) == Len(P!StorageImages(m))
Uniforms(m) == Len(P!UniformBuffers(m))

LEMMA Placed ==
  ASSUME NEW m, m.magic => Readable(m), P!Slots(m).error = "ok"
  PROVE  LET slots == P!Slots(m).value
         IN /\ Textures(m) \in Nat /\ Storages(m) \in Nat /\ Uniforms(m) \in Nat
            /\ DOMAIN slots = 1 .. Textures(m) + Storages(m) + Uniforms(m)
            /\ Len(slots) = Textures(m) + Storages(m) + Uniforms(m)
            /\ \A k \in 1 .. Textures(m) :
                 LET a == P!AssignTextures(m)[k]
                 IN P!Known(a) /\ slots[k] = P!SlotEntry(a)
            /\ \A k \in 1 .. Storages(m) :
                 LET a == P!Assign(m, "storage", P!StorageImages(m))[k]
                 IN P!Known(a) /\ slots[Textures(m) + k] = P!SlotEntry(a)
            /\ \A k \in 1 .. Uniforms(m) :
                 LET a == P!Assign(m, "uniform", P!UniformBuffers(m))[k]
                 IN P!Known(a) /\ slots[Textures(m) + Storages(m) + k] = P!SlotEntry(a)
<1> DEFINE r == P!AssignTextures(m)
           s == P!Assign(m, "storage", P!StorageImages(m))
           t == P!Assign(m, "uniform", P!UniformBuffers(m))
           all == r \o s \o t
           slots == P!Slots(m).value
           X == Elements(r) \cup Elements(s) \cup Elements(t)
<1>1. /\ m.magic /\ \A k \in DOMAIN all : P!Known(all[k])
      /\ slots = [k \in DOMAIN all |-> P!SlotEntry(all[k])]
  BY Assignments
<1>2. /\ IsSequence(r) /\ IsSequence(s) /\ IsSequence(t)
      /\ Len(r) = Textures(m) /\ Len(s) = Storages(m) /\ Len(t) = Uniforms(m)
  BY <1>1, Assigned DEF Readable, Textures, Storages, Uniforms
<1> HIDE DEF r, s, t, slots
<1>3. r \in Seq(X) /\ s \in Seq(X) /\ t \in Seq(X)
  BY <1>2 DEF IsSequence
<1> HIDE DEF X
<1>4. /\ Len(r) \in Nat /\ Len(s) \in Nat /\ Len(t) \in Nat
      /\ DOMAIN all = 1 .. Len(r) + Len(s) + Len(t)
      /\ \A k \in 1 .. Len(r) : all[k] = r[k]
      /\ \A k \in 1 .. Len(s) : all[Len(r) + k] = s[k]
      /\ \A k \in 1 .. Len(t) : all[Len(r) + Len(s) + k] = t[k]
  BY <1>3
<1> HIDE DEF all
<1>5. DOMAIN slots = 1 .. Len(r) + Len(s) + Len(t)
  BY <1>1, <1>4
<1>6. Len(slots) = Len(r) + Len(s) + Len(t)
  <2>1. slots \in [1 .. Len(r) + Len(s) + Len(t) -> Elements(slots)]
    BY <1>1, <1>5 DEF Elements
  <2>2. Len(r) + Len(s) + Len(t) \in Nat
    BY <1>4
  <2>3. QED
    BY <2>1, <2>2, Listing
<1>7. \A k \in DOMAIN all : P!Known(all[k]) /\ slots[k] = P!SlotEntry(all[k])
  BY <1>1
<1>8. /\ \A k \in 1 .. Len(r) : k \in DOMAIN all
      /\ \A k \in 1 .. Len(s) : Len(r) + k \in DOMAIN all
      /\ \A k \in 1 .. Len(t) : Len(r) + Len(s) + k \in DOMAIN all
  BY <1>4
<1>9. /\ \A k \in 1 .. Len(r) : P!Known(r[k]) /\ slots[k] = P!SlotEntry(r[k])
      /\ \A k \in 1 .. Len(s) : P!Known(s[k]) /\ slots[Len(r) + k] = P!SlotEntry(s[k])
      /\ \A k \in 1 .. Len(t) : P!Known(t[k]) /\ slots[Len(r) + Len(s) + k] = P!SlotEntry(t[k])
  BY <1>4, <1>7, <1>8
<1>10. QED
  BY <1>2, <1>4, <1>5, <1>6, <1>9 DEF r, s, t, slots

\* Bindings are numbers, and one in the range of its kind is the module's own.
LEMMA BindingsAreNumbers ==
  ASSUME NEW m, Readable(m), NEW k \in DOMAIN m.variables
  PROVE  /\ P!BindingOf(m, k) \in Nat
         /\ P!BindingOf(m, k) # 0 => P!BindingOf(m, k) = m.variables[k].binding
BY DEF P!BindingOf, Readable, P!Undecorated

\* The slots of each kind, told by the module's own uses and variables.
TextureEntry(m, k) ==
  LET use == m.uses[k]
      s == P!Slots(m).value[k]
  IN /\ s.kind = "texture" /\ s.slot = k - 1
     /\ P!BindingOf(m, use.image) >= P!ImageBase
     /\ s.ordinal = P!BindingOf(m, use.image) - P!ImageBase
     /\ use.sampler = P!Introduced => s.sampler = None
     /\ use.sampler # P!Introduced =>
          /\ P!BindingOf(m, use.sampler) >= P!SamplerBase
          /\ s.sampler = P!BindingOf(m, use.sampler) - P!SamplerBase
StorageEntry(m, k) ==
  LET image == P!StorageImages(m)[k]
      s == P!Slots(m).value[Textures(m) + k]
  IN /\ s.kind = "storage" /\ s.slot = k - 1
     /\ P!BindingOf(m, image) >= P!StorageBase
     /\ s.ordinal = P!BindingOf(m, image) - P!StorageBase
UniformEntry(m, k) ==
  LET s == P!Slots(m).value[Textures(m) + Storages(m) + k]
  IN s.kind = "uniform" /\ s.slot = k - 1

LEMMA TextureEntries ==
  ASSUME NEW m, m.magic => Readable(m), P!Slots(m).error = "ok"
  PROVE  \A k \in 1 .. Textures(m) : TextureEntry(m, k)
<1> DEFINE slots == P!Slots(m).value
<1>1. DOMAIN m.uses = 1 .. Textures(m)
  BY Assignments DEF Readable, IsSequence, Textures
<1>2. ASSUME NEW k \in 1 .. Textures(m) PROVE TextureEntry(m, k)
  <2> DEFINE a == P!AssignTextures(m)[k]
             use == m.uses[k]
  <2>1. P!Known(a) /\ slots[k] = P!SlotEntry(a)
    BY Placed
  <2>2. a = [kind |-> "texture", slot |-> k - 1, binding |-> P!BindingOf(m, use.image),
             introduced |-> use.sampler = P!Introduced,
             samplerBinding |-> IF use.sampler = P!Introduced THEN 0
                                ELSE P!BindingOf(m, use.sampler)]
    BY <1>1 DEF P!AssignTextures
  <2> HIDE DEF a, use, slots
  <2>3. /\ slots[k].kind = "texture" /\ slots[k].slot = k - 1
        /\ slots[k].ordinal = P!BindingOf(m, use.image) - P!ImageBase
    BY <2>1, <2>2 DEF P!SlotEntry, P!OrdinalOf, P!Base
  <2>4. P!BindingOf(m, use.image) >= P!ImageBase
    BY <2>1, <2>2 DEF P!Known, P!InRange, P!Base
  <2>5. a.kind = "texture" /\ (a.introduced <=> use.sampler = P!Introduced)
    BY <2>2, Zenon
  <2>6. use.sampler # P!Introduced => a.samplerBinding = P!BindingOf(m, use.sampler)
    BY <2>2
  <2>7. use.sampler = P!Introduced => slots[k].sampler = None
    BY <2>1, <2>5 DEF P!SlotEntry, P!NoSampler, None
  <2>8. use.sampler # P!Introduced =>
          /\ P!BindingOf(m, use.sampler) >= P!SamplerBase
          /\ slots[k].sampler = P!BindingOf(m, use.sampler) - P!SamplerBase
    BY <2>1, <2>5, <2>6 DEF P!Known, P!InRange, P!SlotEntry, P!OrdinalOf
  <2>9. QED
    BY <2>3, <2>4, <2>7, <2>8 DEF use, slots, TextureEntry
<1>3. QED
  BY <1>2

LEMMA StorageEntries ==
  ASSUME NEW m, m.magic => Readable(m), P!Slots(m).error = "ok"
  PROVE  \A k \in 1 .. Storages(m) : StorageEntry(m, k)
<1> DEFINE slots == P!Slots(m).value
<1>1. DOMAIN P!StorageImages(m) = 1 .. Storages(m)
  BY Assignments, Listed DEF Readable, IsSequence, Storages
<1>2. ASSUME NEW k \in 1 .. Storages(m) PROVE StorageEntry(m, k)
  <2> DEFINE a == P!Assign(m, "storage", P!StorageImages(m))[k]
             n == Textures(m) + k
  <2>1. P!Known(a) /\ slots[n] = P!SlotEntry(a)
    BY Placed
  <2>2. a = [kind |-> "storage", slot |-> k - 1,
             binding |-> P!BindingOf(m, P!StorageImages(m)[k])]
    BY <1>1 DEF P!Assign
  <2> HIDE DEF a, slots, n
  <2>3. /\ slots[n].kind = "storage" /\ slots[n].slot = k - 1
        /\ slots[n].ordinal = P!BindingOf(m, P!StorageImages(m)[k]) - P!StorageBase
        /\ P!BindingOf(m, P!StorageImages(m)[k]) >= P!StorageBase
    BY <2>1, <2>2 DEF P!SlotEntry, P!OrdinalOf, P!Base, P!Known, P!InRange
  <2>4. QED
    BY <2>3 DEF n, slots, StorageEntry
<1>3. QED
  BY <1>2

LEMMA UniformEntries ==
  ASSUME NEW m, m.magic => Readable(m), P!Slots(m).error = "ok"
  PROVE  \A k \in 1 .. Uniforms(m) : UniformEntry(m, k)
<1> DEFINE slots == P!Slots(m).value
<1>1. DOMAIN P!UniformBuffers(m) = 1 .. Uniforms(m)
  BY Assignments, Listed DEF Readable, IsSequence, Uniforms
<1>2. ASSUME NEW k \in 1 .. Uniforms(m) PROVE UniformEntry(m, k)
  <2> DEFINE a == P!Assign(m, "uniform", P!UniformBuffers(m))[k]
             n == Textures(m) + Storages(m) + k
  <2>1. slots[n] = P!SlotEntry(a)
    BY Placed
  <2>2. a.kind = "uniform" /\ a.slot = k - 1
    BY <1>1 DEF P!Assign
  <2> HIDE DEF a, slots, n
  <2>3. slots[n].kind = "uniform" /\ slots[n].slot = k - 1
    BY <2>1, <2>2 DEF P!SlotEntry
  <2>4. QED
    BY <2>3 DEF n, slots, UniformEntry
<1>3. QED
  BY <1>2

(***************************************************************************)
(* A pass in a manifest that was found valid.                              *)
(***************************************************************************)
MadeFrom(p, m) ==
  /\ m.magic => Readable(m)
  /\ P!Slots(m).error = "ok"
  /\ p = P!PassEntry(m, p.block, P!Slots(m).value)

GraphTyped(c) ==
  /\ c.uniforms \in Nat
  /\ \A n \in DOMAIN c.variants : c.variants[n].samplers \in Seq(0 .. IntroducedSampler - 1)

LEMMA Made ==
  ASSUME NEW p, NEW m, MadeFrom(p, m)
  PROVE  /\ Readable(m) /\ P!Slots(m).error = "ok" /\ p.slots = P!Slots(m).value
         /\ p.textures = P!Count(m, P!Images)
         /\ p.storages = P!Count(m, {"storage_image"})
         /\ p.samplers = P!Count(m, {"sampler"})
         /\ p.textureSlots = Textures(m)
<1>1. m.magic
  BY Assignments DEF MadeFrom
<1>2. QED
  BY <1>1 DEF MadeFrom, P!PassEntry, Textures

\* The places of the slots of a kind.
LEMMA KindsPlaced ==
  ASSUME NEW p, NEW m, MadeFrom(p, m)
  PROVE  /\ SlotsOf(p, "texture") = 1 .. Textures(m)
         /\ SlotsOf(p, "storage") = Textures(m) + 1 .. Textures(m) + Storages(m)
         /\ SlotsOf(p, "uniform") = Textures(m) + Storages(m) + 1
                                      .. Textures(m) + Storages(m) + Uniforms(m)
<1>1. /\ Textures(m) \in Nat /\ Storages(m) \in Nat /\ Uniforms(m) \in Nat
      /\ DOMAIN p.slots = 1 .. Textures(m) + Storages(m) + Uniforms(m)
  BY Made, Placed
<1>2. \A k \in 1 .. Textures(m) : p.slots[k].kind = "texture"
  BY Made, TextureEntries DEF TextureEntry
<1>3. \A k \in 1 .. Storages(m) : p.slots[Textures(m) + k].kind = "storage"
  BY Made, StorageEntries DEF StorageEntry
<1>4. \A k \in 1 .. Uniforms(m) : p.slots[Textures(m) + Storages(m) + k].kind = "uniform"
  BY Made, UniformEntries DEF UniformEntry
<1>5. ASSUME NEW n \in DOMAIN p.slots
      PROVE  /\ n <= Textures(m) => p.slots[n].kind = "texture"
             /\ Textures(m) < n /\ n <= Textures(m) + Storages(m) => p.slots[n].kind = "storage"
             /\ Textures(m) + Storages(m) < n => p.slots[n].kind = "uniform"
  <2>1. CASE n <= Textures(m)
    BY <2>1, <1>1, <1>2
  <2>2. CASE Textures(m) < n /\ n <= Textures(m) + Storages(m)
    <3>1. n - Textures(m) \in 1 .. Storages(m) /\ Textures(m) + (n - Textures(m)) = n
      BY <2>2, <1>1
    <3>2. p.slots[Textures(m) + (n - Textures(m))].kind = "storage"
      BY <3>1, <1>3
    <3>3. QED
      BY <3>1, <3>2, <2>2, <1>1
  <2>3. CASE Textures(m) + Storages(m) < n
    <3>1. /\ n - Textures(m) - Storages(m) \in 1 .. Uniforms(m)
          /\ Textures(m) + Storages(m) + (n - Textures(m) - Storages(m)) = n
      BY <2>3, <1>1
    <3>2. p.slots[Textures(m) + Storages(m) + (n - Textures(m) - Storages(m))].kind = "uniform"
      BY <3>1, <1>4
    <3>3. QED
      BY <3>1, <3>2, <2>3, <1>1
  <2>4. QED
    BY <2>1, <2>2, <2>3, <1>1
<1>6. \A n \in DOMAIN p.slots :
        /\ n \in Nat /\ 1 <= n /\ n <= Textures(m) + Storages(m) + Uniforms(m)
        /\ p.slots[n].kind = "texture" <=> n <= Textures(m)
        /\ p.slots[n].kind = "storage" <=> Textures(m) < n /\ n <= Textures(m) + Storages(m)
        /\ p.slots[n].kind = "uniform" <=> Textures(m) + Storages(m) < n
  BY <1>1, <1>5
<1>7. SlotsOf(p, "texture") = 1 .. Textures(m)
  BY <1>1, <1>6 DEF SlotsOf
<1>8. SlotsOf(p, "storage") = Textures(m) + 1 .. Textures(m) + Storages(m)
  BY <1>1, <1>6 DEF SlotsOf
<1>9. SlotsOf(p, "uniform") = Textures(m) + Storages(m) + 1
                                .. Textures(m) + Storages(m) + Uniforms(m)
  BY <1>1, <1>6 DEF SlotsOf
<1>10. QED
  BY <1>7, <1>8, <1>9

\* What a pass counts is what its variants have, and its slots are as many.
LEMMA Interface ==
  ASSUME NEW c, ValidManifest(c), IsSequence(c.passes), GraphTyped(c),
         NEW k \in DOMAIN c.dispatches, NEW phase \in Nat,
         NEW m, MadeFrom(c.passes[PassOf(c, c.dispatches[k])], m)
  PROVE  LET d == c.dispatches[k]
             p == c.passes[PassOf(c, d)]
             v == VariantOf(c, d, phase)
         IN /\ ValidPass(p) /\ ValidVariant(c, d, v) /\ SameInterface(p, v)
            /\ \E n \in DOMAIN c.variants : v = c.variants[n]
            /\ v.samplers \in Seq(0 .. IntroducedSampler - 1)
            /\ p.textures \in Nat /\ p.samplers \in Nat
            /\ p.storages = Storages(m) /\ p.uniforms = Uniforms(m) /\ p.uniforms \in {0, 1}
<1> DEFINE d == c.dispatches[k]
           p == c.passes[PassOf(c, d)]
           v == VariantOf(c, d, phase)
<1>1. PassOf(c, d) \in DOMAIN c.passes
  BY PassFound
<1>2. /\ \E n \in DOMAIN c.variants : v = c.variants[n]
      /\ ValidVariant(c, d, v) /\ SameInterface(p, v)
  BY VariantFound
<1>3. ValidPass(p)
  BY <1>1 DEF ValidManifest
<1>4. MadeFrom(p, m)
  OBVIOUS
<1> HIDE DEF p, v, d
<1>5. v.samplers \in Seq(0 .. IntroducedSampler - 1)
  BY <1>2 DEF GraphTyped
<1>6. /\ p.textures \in Nat /\ p.samplers \in Nat /\ p.storages \in Nat
      /\ p.uniforms \in {0, 1}
  <2>1. v.textures \in Seq(DOMAIN c.images) /\ v.storages \in Seq(DOMAIN c.images)
    BY <1>2 DEF ValidVariant
  <2>2. Len(v.textures) \in Nat /\ Len(v.storages) \in Nat /\ Len(v.samplers) \in Nat
    BY <1>5, <2>1
  <2>3. QED
    BY <1>2, <2>2 DEF SameInterface
<1>7. /\ Textures(m) \in Nat /\ Storages(m) \in Nat /\ Uniforms(m) \in Nat
      /\ Len(p.slots) = Textures(m) + Storages(m) + Uniforms(m)
      /\ DOMAIN p.slots = 1 .. Textures(m) + Storages(m) + Uniforms(m)
      /\ p.textureSlots = Textures(m)
  BY <1>4, Made, Placed
<1>8. Storages(m) + Uniforms(m) = p.storages + p.uniforms
  <2>1. Len(p.slots) = p.textureSlots + p.storages + p.uniforms
    BY <1>3 DEF ValidPass
  <2>2. p.uniforms \in Nat /\ p.storages \in Nat
    BY <1>6
  <2>3. Textures(m) + p.storages + p.uniforms = Textures(m) + Storages(m) + Uniforms(m)
    BY <2>1, <1>7
  <2>4. Textures(m) \in Nat /\ Storages(m) \in Nat /\ Uniforms(m) \in Nat
    BY <1>7
  <2>5. QED
    BY <2>2, <2>3, <2>4
<1>9. Storages(m) <= p.storages
  <2>1. CASE Storages(m) = 0
    BY <2>1, <1>6
  <2>2. CASE Storages(m) # 0
    <3>1. /\ Textures(m) + Storages(m) \in DOMAIN p.slots
          /\ Storages(m) \in 1 .. Storages(m)
      BY <2>2, <1>7
    <3>2. /\ p.slots[Textures(m) + Storages(m)].kind = "storage"
          /\ p.slots[Textures(m) + Storages(m)].slot = Storages(m) - 1
      BY <3>1, <1>4, Made, StorageEntries DEF StorageEntry
    <3>3. p.slots[Textures(m) + Storages(m)].slot \in 0 .. p.storages - 1
      BY <3>1, <3>2, <1>3 DEF ValidPass, ValidSlot
    <3>4. QED
      BY <3>2, <3>3, <1>6, <1>7
  <2>3. QED
    BY <2>1, <2>2
<1>10. Uniforms(m) <= p.uniforms
  <2>1. CASE Uniforms(m) = 0
    BY <2>1, <1>6
  <2>2. CASE Uniforms(m) # 0
    <3> DEFINE last == Textures(m) + Storages(m) + Uniforms(m)
    <3>1. last \in DOMAIN p.slots /\ Uniforms(m) \in 1 .. Uniforms(m)
      BY <2>2, <1>7
    <3>2. p.slots[last].kind = "uniform" /\ p.slots[last].slot = Uniforms(m) - 1
      BY <3>1, <1>4, Made, UniformEntries DEF UniformEntry
    <3>3. p.slots[last].slot \in 0 .. p.uniforms - 1
      BY <3>1, <3>2, <1>3 DEF ValidPass, ValidSlot
    <3>4. QED
      BY <3>2, <3>3, <1>6, <1>7
  <2>3. QED
    BY <2>1, <2>2
<1>11. p.storages = Storages(m) /\ p.uniforms = Uniforms(m)
  BY <1>6, <1>7, <1>8, <1>9, <1>10
<1>12. QED
  BY <1>2, <1>3, <1>5, <1>6, <1>11 DEF p, v, d

\* An image a variant names has a descriptor for it.
LEMMA DescriptorsExist ==
  ASSUME NEW c, Sized(c), NEW n \in DOMAIN c.variants, NEW i \in DOMAIN c.images
  PROVE  /\ i \in Elements(c.variants[n].textures) => SampledDescriptor(c, i) # None
         /\ i \in Elements(c.variants[n].storages) => StorageDescriptor(c, i) # None
<1>1. i \in Nat /\ 0 < i /\ i + 1 \in Nat /\ i < i + 1
  BY DEF Sized
<1>2. Cardinality(Sampled(c) \cap 1 .. i - 1) \in Nat /\ Cardinality(Stored(c) \cap 1 .. i - 1) \in Nat
  BY <1>1, CountedBelow
<1>3. FirstDescriptor(c, i) \in Nat
  BY <1>2 DEF FirstDescriptor
<1>4. /\ i \in Elements(c.variants[n].textures) => i \in Sampled(c)
      /\ i \in Elements(c.variants[n].storages) => i \in Stored(c)
  BY DEF Sampled, Stored
<1>5. QED
  BY <1>3, <1>4 DEF SampledDescriptor, StorageDescriptor, None

\* bind finds something for every slot of a pass that was made from a module.
LEMMA BindsEvery ==
  ASSUME NEW c, ValidManifest(c), IsSequence(c.passes), GraphTyped(c), Sized(c),
         NEW k \in DOMAIN c.dispatches, NEW phase \in Nat,
         NEW m, MadeFrom(c.passes[PassOf(c, c.dispatches[k])], m)
  PROVE  Binds(c, c.dispatches[k], phase)
<1> DEFINE d == c.dispatches[k]
           p == c.passes[PassOf(c, d)]
           v == VariantOf(c, d, phase)
<1>1. /\ ValidPass(p) /\ ValidVariant(c, d, v) /\ SameInterface(p, v)
      /\ \E n \in DOMAIN c.variants : v = c.variants[n]
      /\ v.samplers \in Seq(0 .. IntroducedSampler - 1)
      /\ p.textures \in Nat /\ p.samplers \in Nat
      /\ p.storages = Storages(m) /\ p.uniforms = Uniforms(m) /\ p.uniforms \in {0, 1}
  BY Interface
<1>2. MadeFrom(p, m)
  OBVIOUS
<1>3. Binds(c, d, phase) <=>
        /\ SameInterface(p, v)
        /\ p.textureSlots <= MaxTextures
        /\ p.storages <= MaxStorages
        /\ p.uniforms <= MaxUniforms
        /\ \A j \in DOMAIN p.slots : SlotBinds(c, p, v, p.slots[j])
        /\ Cardinality(SlotsOf(p, "texture")) = p.textureSlots
        /\ Cardinality(SlotsOf(p, "storage")) = p.storages
        /\ Cardinality(SlotsOf(p, "uniform")) <= 1
  BY DEF Binds
<1>4. \E n \in DOMAIN c.variants : v = c.variants[n]
  BY <1>1
<1> HIDE DEF p, v, d
<1>5. /\ Textures(m) \in Nat /\ Storages(m) \in Nat /\ Uniforms(m) \in Nat
      /\ p.textureSlots = Textures(m)
      /\ p.slots = P!Slots(m).value
      /\ DOMAIN p.slots = 1 .. Textures(m) + Storages(m) + Uniforms(m)
  BY <1>2, Made, Placed
<1>6. p.textureSlots <= MaxTextures /\ p.storages <= MaxStorages /\ p.uniforms <= MaxUniforms
  <2>1. ~ (Len(m.uses) > Limits.textures) /\ P!Count(m, {"storage_image"}) <= Limits.storages
    BY <1>2, Made, Assignments
  <2>2. p.storages = P!Count(m, {"storage_image"})
    BY <1>2, Made
  <2>3. Limits.textures \in Nat /\ Limits.storages \in Nat
    BY LimitsAssumption
  <2>4. p.textureSlots <= Limits.textures /\ p.storages <= Limits.storages
    BY <2>1, <2>2, <2>3, <1>5 DEF Textures
  <2>5. QED
    BY <2>3, <2>4, <1>1, <1>5, LimitsAssumption DEF MaxUniforms
<1>7. /\ v.textures \in Seq(DOMAIN c.images) /\ v.storages \in Seq(DOMAIN c.images)
      /\ p.textures = Len(v.textures) /\ p.storages = Len(v.storages)
      /\ p.samplers = Len(v.samplers)
  BY <1>1 DEF ValidVariant, SameInterface
<1>8. ASSUME NEW j \in DOMAIN p.slots PROVE SlotBinds(c, p, v, p.slots[j])
  <2> DEFINE s == p.slots[j]
  <2>1. ValidSlot(p, s)
    BY <1>1 DEF ValidPass
  <2>2. CASE s.kind = "texture"
    <3>1. j \in SlotsOf(p, "texture")
      BY <2>2 DEF SlotsOf
    <3>2. j \in 1 .. Textures(m)
      BY <3>1, <1>2, KindsPlaced
    <3>3. TextureEntry(m, j) /\ s = P!Slots(m).value[j]
      BY <3>2, <1>2, <1>5, Made, TextureEntries
    <3>4. s.sampler = None \/ s.sampler \in Nat
      <4>1. Readable(m) /\ j \in DOMAIN m.uses
        BY <1>2, <3>2, Made DEF Textures, Readable, IsSequence
      <4>2. m.uses[j].sampler # P!Introduced => P!BindingOf(m, m.uses[j].sampler) \in Nat
        BY <4>1, BindingsAreNumbers DEF Readable
      <4>3. QED
        BY <3>3, <4>2 DEF TextureEntry, P!SamplerBase
    <3> HIDE DEF s
    <3>5. /\ s.slot \in 0 .. p.textureSlots - 1 /\ s.ordinal \in 0 .. p.textures - 1
          /\ s.sampler = None \/ s.sampler < p.samplers
      BY <2>1, <2>2 DEF ValidSlot
    <3>6. s.ordinal < Len(v.textures) /\ s.slot < MaxTextures
      <4>1. p.textureSlots \in Nat /\ p.textures \in Nat /\ MaxTextures \in Nat
        BY <1>1, <1>5, LimitsAssumption
      <4>2. s.ordinal < p.textures /\ s.slot < p.textureSlots /\ s.slot \in Nat
        BY <3>5, <4>1
      <4>3. QED
        BY <4>1, <4>2, <1>6, <1>7
    <3>7. s.sampler # None =>
            s.sampler < Len(v.samplers) /\ SamplerOf(v, s) < IntroducedSampler
      <4> SUFFICES ASSUME s.sampler # None
                   PROVE  s.sampler < Len(v.samplers) /\ SamplerOf(v, s) < IntroducedSampler
        OBVIOUS
      <4>1. s.sampler < Len(v.samplers) /\ s.sampler + 1 \in DOMAIN v.samplers
        BY <3>4, <3>5, <1>1, <1>7
      <4>2. v.samplers[s.sampler + 1] \in 0 .. IntroducedSampler - 1
        <5> DEFINE X == 0 .. IntroducedSampler - 1
        <5>1. v.samplers \in Seq(X)
          BY <1>1
        <5> HIDE DEF X
        <5>2. v.samplers[s.sampler + 1] \in X
          BY <4>1, <5>1
        <5>3. QED
          BY <5>2 DEF X
      <4>3. QED
        BY <4>1, <4>2 DEF SamplerOf, IntroducedSampler
    <3>8. SampledDescriptor(c, v.textures[s.ordinal + 1]) # None
      <4>1. s.ordinal + 1 \in DOMAIN v.textures
        BY <3>5, <1>1, <1>7
      <4>2. /\ v.textures[s.ordinal + 1] \in DOMAIN c.images
            /\ v.textures[s.ordinal + 1] \in Elements(v.textures)
        BY <4>1, <1>7 DEF Elements
      <4>3. QED
        BY <4>2, <1>4, DescriptorsExist
    <3>9. QED
      BY <2>2, <3>6, <3>7, <3>8 DEF SlotBinds, s
  <2>3. CASE s.kind = "storage"
    <3> HIDE DEF s
    <3>1. s.slot \in 0 .. p.storages - 1 /\ s.ordinal \in 0 .. p.storages - 1
      BY <2>1, <2>3 DEF ValidSlot
    <3>2. s.ordinal < Len(v.storages) /\ s.slot < MaxStorages
      <4>1. p.storages \in Nat /\ MaxStorages \in Nat
        BY <1>1, <1>5, LimitsAssumption
      <4>2. s.ordinal < p.storages /\ s.slot < p.storages /\ s.slot \in Nat
        BY <3>1, <4>1
      <4>3. QED
        BY <4>1, <4>2, <1>6, <1>7
    <3>3. s.ordinal + 1 \in DOMAIN v.storages
      BY <3>1, <1>1, <1>5, <1>7
    <3>4. /\ v.storages[s.ordinal + 1] \in DOMAIN c.images
          /\ v.storages[s.ordinal + 1] \in Elements(v.storages)
      BY <3>3, <1>7 DEF Elements
    <3>5. StorageDescriptor(c, v.storages[s.ordinal + 1]) # None
      BY <3>4, <1>4, DescriptorsExist
    <3>6. QED
      BY <2>3, <3>2, <3>5 DEF SlotBinds, s
  <2>4. CASE s.kind = "uniform"
    <3> HIDE DEF s
    <3>1. s.slot \in 0 .. p.uniforms - 1
      BY <2>1, <2>4 DEF ValidSlot
    <3>2. v.uniform # None
      BY <3>1, <1>1 DEF SameInterface
    <3>3. v.uniform \in 0 .. c.uniforms - 1
      BY <3>2, <1>1 DEF ValidVariant
    <3>4. v.uniform < c.uniforms
      BY <3>3 DEF GraphTyped
    <3>5. QED
      BY <2>4, <3>2, <3>3, <3>4 DEF SlotBinds, s
  <2>5. QED
    BY <2>1, <2>2, <2>3, <2>4 DEF ValidSlot
<1>9. /\ Cardinality(SlotsOf(p, "texture")) = p.textureSlots
      /\ Cardinality(SlotsOf(p, "storage")) = p.storages
      /\ Cardinality(SlotsOf(p, "uniform")) <= 1
  <2>1. /\ SlotsOf(p, "texture") = 1 .. Textures(m)
        /\ SlotsOf(p, "storage") = Textures(m) + 1 .. Textures(m) + Storages(m)
        /\ SlotsOf(p, "uniform") = Textures(m) + Storages(m) + 1
                                     .. Textures(m) + Storages(m) + Uniforms(m)
    BY <1>2, KindsPlaced
  <2>2. \A a, n \in Nat : Cardinality(a + 1 .. a + n) = n
    <3>1. ASSUME NEW a \in Nat, NEW n \in Nat PROVE Cardinality(a + 1 .. a + n) = n
      <4>1. Cardinality(a + 1 .. a + n) = IF a + 1 > a + n THEN 0 ELSE (a + n) - (a + 1) + 1
        BY FS_Interval
      <4>2. QED
        BY <4>1
    <3>2. QED
      BY <3>1
  <2>3. /\ Cardinality(0 + 1 .. 0 + Textures(m)) = Textures(m)
        /\ Cardinality(Textures(m) + 1 .. Textures(m) + Storages(m)) = Storages(m)
        /\ Cardinality(Textures(m) + Storages(m) + 1
                         .. Textures(m) + Storages(m) + Uniforms(m)) = Uniforms(m)
    <3>1. 0 \in Nat /\ Textures(m) + Storages(m) \in Nat
      BY <1>5
    <3>2. Cardinality(0 + 1 .. 0 + Textures(m)) = Textures(m)
      BY <2>2, <3>1, <1>5
    <3>3. Cardinality(Textures(m) + 1 .. Textures(m) + Storages(m)) = Storages(m)
      BY <2>2, <1>5
    <3>4. Cardinality(Textures(m) + Storages(m) + 1
                       .. Textures(m) + Storages(m) + Uniforms(m)) = Uniforms(m)
      BY <2>2, <3>1, <1>5
    <3>5. QED
      BY <3>2, <3>3, <3>4
  <2>4. 0 + 1 .. 0 + Textures(m) = 1 .. Textures(m)
    BY <1>5
  <2>5. QED
    BY <2>1, <2>3, <2>4, <1>1, <1>5
<1>10. QED
  BY <1>1, <1>3, <1>6, <1>8, <1>9 DEF d

\* What bind puts into each slot.
LEMMA BoundTo ==
  ASSUME NEW c, Unambiguous(c.passes), NEW d, PassOf(c, d) \in DOMAIN c.passes, NEW phase,
         NEW m, MadeFrom(c.passes[PassOf(c, d)], m)
  PROVE  LET p == c.passes[PassOf(c, d)]
             v == VariantOf(c, d, phase)
             b == Bound(c, d, phase)
         IN /\ DOMAIN b.textures = 0 .. Textures(m) - 1
            /\ \A j \in 1 .. Textures(m) :
                 b.textures[j - 1] =
                   [descriptor |-> SampledDescriptor(c, v.textures[p.slots[j].ordinal + 1]),
                    sampler |-> SamplerOf(v, p.slots[j])]
            /\ \A j \in 1 .. Storages(m) :
                 b.storages[j - 1] =
                   StorageDescriptor(c, v.storages[p.slots[Textures(m) + j].ordinal + 1])
            /\ b.uniform = IF Uniforms(m) = 0 THEN None ELSE v.uniform
<1> DEFINE p == c.passes[PassOf(c, d)]
           v == VariantOf(c, d, phase)
           b == Bound(c, d, phase)
           Filled(kind) == {p.slots[k].slot : k \in SlotsOf(p, kind)}
<1>1. MadeFrom(p, m)
  OBVIOUS
<1>2. /\ b.textures = [n \in Filled("texture") |->
                        LET s == p.slots[LastOf(p, "texture", n)]
                        IN [descriptor |-> SampledDescriptor(c, v.textures[s.ordinal + 1]),
                            sampler |-> SamplerOf(v, s)]]
      /\ b.storages = [n \in Filled("storage") |->
                        StorageDescriptor(c,
                          v.storages[p.slots[LastOf(p, "storage", n)].ordinal + 1])]
      /\ b.uniform = IF Filled("uniform") = {} THEN None ELSE v.uniform
  BY DEF Bound
<1>3. \A kind : \A n \in SlotsOf(p, kind) : LastOf(p, kind, p.slots[n].slot) = n
  BY OnlyEntry
<1> HIDE DEF p, v, b
<1>4. /\ SlotsOf(p, "texture") = 1 .. Textures(m)
      /\ SlotsOf(p, "storage") = Textures(m) + 1 .. Textures(m) + Storages(m)
      /\ SlotsOf(p, "uniform") = Textures(m) + Storages(m) + 1
                                   .. Textures(m) + Storages(m) + Uniforms(m)
  BY <1>1, KindsPlaced
<1>5. Textures(m) \in Nat /\ Storages(m) \in Nat /\ Uniforms(m) \in Nat
  BY <1>1, Made, Placed
<1>6. \A j \in 1 .. Textures(m) : p.slots[j].slot = j - 1
  BY <1>1, Made, TextureEntries DEF TextureEntry
<1>7. \A j \in 1 .. Storages(m) : p.slots[Textures(m) + j].slot = j - 1
  BY <1>1, Made, StorageEntries DEF StorageEntry
<1>8. Filled("texture") = 0 .. Textures(m) - 1
  <2>1. \A n \in 0 .. Textures(m) - 1 : n + 1 \in 1 .. Textures(m) /\ (n + 1) - 1 = n
    BY <1>5
  <2>2. \A n \in 0 .. Textures(m) - 1 : n \in Filled("texture")
    <3>1. ASSUME NEW n \in 0 .. Textures(m) - 1 PROVE n \in Filled("texture")
      <4>1. n + 1 \in SlotsOf(p, "texture") /\ p.slots[n + 1].slot = n
        BY <2>1, <1>4, <1>6
      <4>2. QED
        BY <4>1
    <3>2. QED
      BY <3>1
  <2>3. Filled("texture") \subseteq 0 .. Textures(m) - 1
    BY <1>4, <1>5, <1>6
  <2>4. QED
    BY <2>2, <2>3
<1>9. ASSUME NEW j \in 1 .. Textures(m)
      PROVE  b.textures[j - 1] =
               [descriptor |-> SampledDescriptor(c, v.textures[p.slots[j].ordinal + 1]),
                sampler |-> SamplerOf(v, p.slots[j])]
  <2>1. j \in SlotsOf(p, "texture") /\ p.slots[j].slot = j - 1
    BY <1>4, <1>6
  <2>2. j - 1 \in Filled("texture") /\ LastOf(p, "texture", j - 1) = j
    BY <2>1, <1>3
  <2>3. QED
    BY <2>2, <1>2
<1>10. ASSUME NEW j \in 1 .. Storages(m)
       PROVE  b.storages[j - 1] =
                StorageDescriptor(c, v.storages[p.slots[Textures(m) + j].ordinal + 1])
  <2>1. Textures(m) + j \in SlotsOf(p, "storage") /\ p.slots[Textures(m) + j].slot = j - 1
    BY <1>4, <1>5, <1>7
  <2>2. j - 1 \in Filled("storage") /\ LastOf(p, "storage", j - 1) = Textures(m) + j
    BY <2>1, <1>3
  <2>3. QED
    BY <2>2, <1>2
<1>11. Filled("uniform") = {} <=> Uniforms(m) = 0
  <2>1. SlotsOf(p, "uniform") = {} <=> Uniforms(m) = 0
    <3>1. CASE Uniforms(m) = 0
      BY <3>1, <1>4, <1>5
    <3>2. CASE Uniforms(m) # 0
      <4>1. Textures(m) + Storages(m) + 1 \in SlotsOf(p, "uniform")
        BY <3>2, <1>4, <1>5
      <4>2. QED
        BY <3>2, <4>1
    <3>3. QED
      BY <3>1, <3>2
  <2>2. QED
    BY <2>1
<1>12. b.uniform = IF Uniforms(m) = 0 THEN None ELSE v.uniform
  BY <1>2, <1>11
<1>13. DOMAIN b.textures = 0 .. Textures(m) - 1
  BY <1>2, <1>8
<1>14. QED
  BY <1>9, <1>10, <1>12, <1>13 DEF p, v, b

(***************************************************************************)
(* Clean modules.                                                          *)
(***************************************************************************)
\* If the variables of a type all have ordinals below their number, the ordinal of one
\* is its rank.
LEMMA RankIsOrdinal ==
  ASSUME NEW m, Readable(m), Clean(m), NEW type, NEW base \in Nat \ {0}, NEW n \in Nat,
         n <= Cardinality(Typed(m, {type})),
         \A k \in Typed(m, {type}) : P!BindingOf(m, k) - base \in 0 .. n - 1,
         NEW k \in Typed(m, {type})
  PROVE  Rank(m, k) = P!BindingOf(m, k) - base
<1> DEFINE S == Typed(m, {type})
           f == [j \in S |-> P!BindingOf(m, j) - base]
<1>1. ASSUME NEW j \in S
      PROVE  /\ j \in DOMAIN m.variables /\ m.variables[j].type = type
             /\ m.variables[j].binding \in Nat
             /\ P!BindingOf(m, j) = m.variables[j].binding
             /\ f[j] = m.variables[j].binding - base
             /\ f[j] \in 0 .. n - 1
  <2>1. j \in DOMAIN m.variables /\ m.variables[j].type = type
    BY DEF Typed
  <2>2. P!BindingOf(m, j) - base \in 0 .. n - 1 /\ P!BindingOf(m, j) \in Nat
    BY <2>1, BindingsAreNumbers
  <2>3. P!BindingOf(m, j) # 0
    BY <2>2
  <2>4. QED
    BY <2>1, <2>2, <2>3, BindingsAreNumbers
<1>2. f \in [S -> 0 .. n - 1]
  BY <1>1
<1>3. \A i, j \in S : f[i] = f[j] => i = j
  <2>1. ASSUME NEW i \in S, NEW j \in S, f[i] = f[j] PROVE i = j
    <3>1. m.variables[i].binding = m.variables[j].binding
      <4>1. /\ m.variables[i].binding \in Nat /\ f[i] = m.variables[i].binding - base
            /\ m.variables[j].binding \in Nat /\ f[j] = m.variables[j].binding - base
        BY <1>1
      <4> HIDE DEF f
      <4>2. m.variables[i].binding - base = m.variables[j].binding - base
        BY <2>1, <4>1
      <4>3. QED
        BY <4>1, <4>2
    <3>2. QED
      BY <3>1, <1>1 DEF Clean
  <2>2. QED
    BY <2>1
<1>4. IsFiniteSet(S)
  BY TypedFinite DEF Readable
<1>5. k \in S
  OBVIOUS
<1>6. \A j \in S : f[j] < f[k] <=> m.variables[j].binding < m.variables[k].binding
  <2>1. ASSUME NEW j \in S
        PROVE  f[j] < f[k] <=> m.variables[j].binding < m.variables[k].binding
    <3>1. /\ m.variables[k].binding \in Nat /\ f[k] = m.variables[k].binding - base
          /\ m.variables[j].binding \in Nat /\ f[j] = m.variables[j].binding - base
      BY <1>1, <1>5
    <3> HIDE DEF f
    <3>2. QED
      BY <3>1
  <2>2. QED
    BY <2>1
<1>7. f[k] = P!BindingOf(m, k) - base /\ n <= Cardinality(S)
  BY <1>5
<1> HIDE DEF f, S
<1>8. Cardinality({j \in S : f[j] < f[k]}) = f[k]
  BY <1>2, <1>3, <1>4, <1>5, <1>7, Ranked
<1>9. {j \in S : f[j] < f[k]}
        = {j \in DOMAIN m.variables : /\ m.variables[j].type = m.variables[k].type
                                      /\ m.variables[j].binding < m.variables[k].binding}
  BY <1>5, <1>6 DEF Typed, S
<1>10. QED
  BY <1>7, <1>8, <1>9 DEF Rank

\* The storage images SPIRV-Cross lists are all there are.
LEMMA StoragesListed ==
  ASSUME NEW m, Readable(m)
  PROVE  /\ DOMAIN P!StorageImages(m) = 1 .. Storages(m) /\ Storages(m) \in Nat
         /\ \A n \in 1 .. Storages(m) : P!StorageImages(m)[n] \in Typed(m, {"storage_image"})
         /\ \A k \in Typed(m, {"storage_image"}) :
              \E n \in 1 .. Storages(m) : P!StorageImages(m)[n] = k
<1> DEFINE those == Typed(m, {"storage_image"})
           before == P!Ascending(those)
           sorted == P!InOrder(those, before)
<1>1. P!StorageImages(m) = sorted
  BY DEF P!StorageImages, P!Listed, Typed
<1>2. IsFiniteSet(those) /\ those \subseteq Nat
  <2>1. those \subseteq DOMAIN m.variables /\ DOMAIN m.variables \subseteq Nat
    BY DEF Typed, Readable, IsSequence
  <2>2. QED
    BY <2>1, TypedFinite DEF Readable
<1>3. TotalOrder(those, before)
  BY <1>2 DEF TotalOrder, P!Ascending
<1> HIDE DEF those, before
<1>4. /\ IsSequence(sorted) /\ Len(sorted) = Cardinality(those)
      /\ DOMAIN sorted = 1 .. Cardinality(those) /\ Cardinality(those) \in Nat
      /\ \A n \in DOMAIN sorted : sorted[n] \in those
      /\ \A x \in those : x = sorted[PlaceIn(those, before, x) + 1]
  BY <1>2, <1>3, Sorted
<1>5. \A x \in those : PlaceIn(those, before, x) + 1 \in 1 .. Cardinality(those)
  <2>1. ASSUME NEW x \in those PROVE PlaceIn(those, before, x) + 1 \in 1 .. Cardinality(those)
    <3>1. PlaceIn(those, before, x) \in 0 .. Cardinality(those) - 1
      BY <1>2, <1>3, PlaceType
    <3>2. QED
      BY <3>1, <1>4
  <2>2. QED
    BY <2>1
<1>6. Storages(m) = Cardinality(those)
  BY <1>1, <1>4 DEF Storages
<1> HIDE DEF sorted
<1>7. QED
  BY <1>1, <1>4, <1>5, <1>6 DEF those

\* What a clean module reaches is what its variant has at that place.
LEMMA ReachesDeclared ==
  ASSUME NEW c, ValidManifest(c), Unambiguous(c.passes), GraphTyped(c),
         NEW k \in DOMAIN c.dispatches, NEW phase \in Nat,
         NEW m, MadeFrom(c.passes[PassOf(c, c.dispatches[k])], m), Clean(m)
  PROVE  AsDeclared(c, c.dispatches[k], phase, m)
<1> DEFINE d == c.dispatches[k]
           p == c.passes[PassOf(c, d)]
           v == VariantOf(c, d, phase)
           b == Bound(c, d, phase)
           T == Typed(m, {"separate_image"})
           S == Typed(m, {"sampler"})
           I == Typed(m, {"storage_image"})
<1>0. IsSequence(c.passes)
  BY DEF Unambiguous
<1>1. MadeFrom(p, m) /\ PassOf(c, d) \in DOMAIN c.passes
  BY <1>0, PassFound
<1>2. /\ ValidPass(p) /\ SameInterface(p, v)
      /\ p.textures \in Nat /\ p.samplers \in Nat
      /\ p.storages = Storages(m) /\ p.uniforms = Uniforms(m) /\ p.uniforms \in {0, 1}
  BY <1>0, Interface
<1>3. /\ DOMAIN b.textures = 0 .. Textures(m) - 1
      /\ \A j \in 1 .. Textures(m) :
           b.textures[j - 1] =
             [descriptor |-> SampledDescriptor(c, v.textures[p.slots[j].ordinal + 1]),
              sampler |-> SamplerOf(v, p.slots[j])]
      /\ \A j \in 1 .. Storages(m) :
           b.storages[j - 1] =
             StorageDescriptor(c, v.storages[p.slots[Textures(m) + j].ordinal + 1])
      /\ b.uniform = IF Uniforms(m) = 0 THEN None ELSE v.uniform
  <2>1. PassOf(c, d) \in DOMAIN c.passes /\ MadeFrom(c.passes[PassOf(c, d)], m)
    BY <1>1
  <2> HIDE DEF d
  <2>2. QED
    BY <2>1, BoundTo
<1>4. AsDeclared(c, d, phase, m) <=>
        /\ \A u \in DOMAIN m.uses :
             b.textures[u - 1] =
               [descriptor |-> SampledDescriptor(c, v.textures[Rank(m, m.uses[u].image) + 1]),
                sampler |-> IF m.uses[u].sampler = P!Introduced THEN IntroducedSampler
                            ELSE v.samplers[Rank(m, m.uses[u].sampler) + 1]]
        /\ \A j \in DOMAIN P!StorageImages(m) :
             b.storages[j - 1]
               = StorageDescriptor(c, v.storages[Rank(m, P!StorageImages(m)[j]) + 1])
        /\ P!UniformBuffers(m) # <<>> <=> b.uniform # None
  BY DEF AsDeclared
<1> HIDE DEF p, v, b, d
<1>5. /\ Readable(m) /\ p.slots = P!Slots(m).value
      /\ p.textures = P!Count(m, P!Images)
      /\ p.storages = P!Count(m, {"storage_image"})
      /\ p.samplers = P!Count(m, {"sampler"})
      /\ p.textureSlots = Textures(m)
      /\ DOMAIN p.slots = 1 .. Textures(m) + Storages(m) + Uniforms(m)
      /\ Textures(m) \in Nat /\ Storages(m) \in Nat /\ Uniforms(m) \in Nat
  BY <1>1, Made, Placed
<1>6. /\ DOMAIN m.uses = 1 .. Textures(m)
      /\ \A u \in DOMAIN m.uses :
           /\ m.uses[u].image \in T
           /\ m.uses[u].sampler = P!Introduced \/ m.uses[u].sampler \in S
  BY <1>5 DEF Readable, IsSequence, Textures, Typed
<1>7. \A u \in 1 .. Textures(m) : TextureEntry(m, u)
  BY <1>1, Made, TextureEntries
<1>8. /\ \A x \in T : \E u \in 1 .. Textures(m) : m.uses[u].image = x
      /\ \A x \in S : \E u \in 1 .. Textures(m) :
           m.uses[u].sampler = x /\ m.uses[u].sampler # P!Introduced
  <2>1. ASSUME NEW x \in T \cup S
        PROVE  \E u \in 1 .. Textures(m) : x \in {m.uses[u].image, m.uses[u].sampler}
    BY <2>1, <1>6 DEF Clean, Typed, P!Images
  <2>2. /\ T \cap S = {} /\ P!Introduced \notin T \cup S
    BY <1>5 DEF Typed, Readable, IsSequence, P!Introduced
  <2>3. QED
    BY <2>1, <2>2, <1>6
<1>9. \A u \in 1 .. Textures(m) :
        /\ u \in DOMAIN p.slots
        /\ p.slots[u].ordinal \in 0 .. p.textures - 1
        /\ p.slots[u].sampler = None \/ p.slots[u].sampler < p.samplers
  <2>1. ASSUME NEW u \in 1 .. Textures(m)
        PROVE  /\ u \in DOMAIN p.slots
               /\ p.slots[u].ordinal \in 0 .. p.textures - 1
               /\ p.slots[u].sampler = None \/ p.slots[u].sampler < p.samplers
    <3>1. u \in DOMAIN p.slots
      BY <1>5
    <3>2. p.slots[u].kind = "texture"
      BY <1>5, <1>7 DEF TextureEntry
    <3>3. ValidSlot(p, p.slots[u])
      BY <3>1, <1>2 DEF ValidPass
    <3>4. QED
      BY <3>1, <3>2, <3>3 DEF ValidSlot
  <2>2. QED
    BY <2>1
<1>10. /\ p.textures <= Cardinality(T)
       /\ p.samplers <= Cardinality(S)
       /\ p.storages <= Cardinality(I)
  <2>1. P!Images \in SUBSET P!Opaque /\ {"sampler"} \in SUBSET P!Opaque
        /\ {"storage_image"} \in SUBSET P!Opaque
    BY DEF P!Images, P!Opaque
  <2>2. Typed(m, P!Images) = T
    <3>1. ASSUME NEW x \in Typed(m, P!Images) PROVE x \in T
      <4>1. \E u \in 1 .. Textures(m) : x \in {m.uses[u].image, m.uses[u].sampler}
        BY <3>1, <1>6 DEF Clean, Typed
      <4>2. x \notin S /\ x # P!Introduced
        BY <3>1, <1>5 DEF Typed, P!Images, P!Introduced, Readable, IsSequence
      <4>3. QED
        BY <4>1, <4>2, <1>6
    <3>2. T \subseteq Typed(m, P!Images)
      BY DEF Typed, P!Images
    <3>3. QED
      BY <3>1, <3>2
  <2>3. QED
    BY <2>1, <2>2, <1>5, CleanCounts DEF Readable
<1>11. \A x \in T : P!BindingOf(m, x) - P!ImageBase \in 0 .. p.textures - 1
  <2>1. ASSUME NEW x \in T PROVE P!BindingOf(m, x) - P!ImageBase \in 0 .. p.textures - 1
    <3>1. PICK u \in 1 .. Textures(m) : m.uses[u].image = x
      BY <1>8
    <3>2. p.slots[u].ordinal = P!BindingOf(m, x) - P!ImageBase
      BY <3>1, <1>5, <1>7 DEF TextureEntry
    <3>3. QED
      BY <3>2, <1>9
  <2>2. QED
    BY <2>1
<1>12. \A x \in S : P!BindingOf(m, x) - P!SamplerBase \in 0 .. p.samplers - 1
  <2>1. ASSUME NEW x \in S PROVE P!BindingOf(m, x) - P!SamplerBase \in 0 .. p.samplers - 1
    <3>1. PICK u \in 1 .. Textures(m) : m.uses[u].sampler = x /\ m.uses[u].sampler # P!Introduced
      BY <1>8
    <3>2. /\ P!BindingOf(m, x) >= P!SamplerBase
          /\ p.slots[u].sampler = P!BindingOf(m, x) - P!SamplerBase
      BY <3>1, <1>5, <1>7 DEF TextureEntry
    <3>3. P!BindingOf(m, x) \in Nat
      BY <1>5, BindingsAreNumbers DEF Typed
    <3>4. p.slots[u].sampler \in Nat /\ p.slots[u].sampler # None
      BY <3>2, <3>3 DEF P!SamplerBase, None
    <3>5. p.slots[u].sampler \in 0 .. p.samplers - 1
      BY <3>4, <1>2, <1>9
    <3>6. QED
      BY <3>2, <3>5
  <2>2. QED
    BY <2>1
<1>13. \A j \in 1 .. Storages(m) :
         /\ P!StorageImages(m)[j] \in I
         /\ p.slots[Textures(m) + j].ordinal
              = P!BindingOf(m, P!StorageImages(m)[j]) - P!StorageBase
         /\ p.slots[Textures(m) + j].ordinal \in 0 .. p.storages - 1
  <2>1. ASSUME NEW j \in 1 .. Storages(m)
        PROVE  /\ P!StorageImages(m)[j] \in I
               /\ p.slots[Textures(m) + j].ordinal
                    = P!BindingOf(m, P!StorageImages(m)[j]) - P!StorageBase
               /\ p.slots[Textures(m) + j].ordinal \in 0 .. p.storages - 1
    <3>1. /\ p.slots[Textures(m) + j].kind = "storage"
          /\ p.slots[Textures(m) + j].ordinal
               = P!BindingOf(m, P!StorageImages(m)[j]) - P!StorageBase
      BY <1>1, <1>5, Made, StorageEntries DEF StorageEntry
    <3>2. Textures(m) + j \in DOMAIN p.slots
      BY <1>5
    <3>3. p.slots[Textures(m) + j].ordinal \in 0 .. p.storages - 1
      BY <3>1, <3>2, <1>2 DEF ValidPass, ValidSlot
    <3>4. QED
      BY <3>1, <3>3, <1>5, StoragesListed
  <2>2. QED
    BY <2>1
<1>14. \A x \in I : P!BindingOf(m, x) - P!StorageBase \in 0 .. p.storages - 1
  <2>1. ASSUME NEW x \in I PROVE P!BindingOf(m, x) - P!StorageBase \in 0 .. p.storages - 1
    <3>1. PICK j \in 1 .. Storages(m) : P!StorageImages(m)[j] = x
      BY <1>5, StoragesListed
    <3>2. QED
      BY <3>1, <1>13
  <2>2. QED
    BY <2>1
<1>15. P!ImageBase \in Nat \ {0} /\ P!SamplerBase \in Nat \ {0} /\ P!StorageBase \in Nat \ {0}
  BY DEF P!ImageBase, P!SamplerBase, P!StorageBase
<1>16. \A x \in T : Rank(m, x) = P!BindingOf(m, x) - P!ImageBase
  BY <1>2, <1>5, <1>10, <1>11, <1>15, RankIsOrdinal
<1>17. \A x \in S : Rank(m, x) = P!BindingOf(m, x) - P!SamplerBase
  BY <1>2, <1>5, <1>10, <1>12, <1>15, RankIsOrdinal
<1>18. \A x \in I : Rank(m, x) = P!BindingOf(m, x) - P!StorageBase
  BY <1>2, <1>5, <1>10, <1>14, <1>15, RankIsOrdinal
<1> HIDE DEF T, S, I
<1>19. ASSUME NEW u \in DOMAIN m.uses
       PROVE  b.textures[u - 1] =
                [descriptor |-> SampledDescriptor(c, v.textures[Rank(m, m.uses[u].image) + 1]),
                 sampler |-> IF m.uses[u].sampler = P!Introduced THEN IntroducedSampler
                             ELSE v.samplers[Rank(m, m.uses[u].sampler) + 1]]
  <2>1. u \in 1 .. Textures(m) /\ m.uses[u].image \in T
    BY <1>6
  <2>2. p.slots[u].ordinal = Rank(m, m.uses[u].image)
    BY <2>1, <1>5, <1>7, <1>16 DEF TextureEntry
  <2>3. CASE m.uses[u].sampler = P!Introduced
    <3>1. p.slots[u].sampler = None
      BY <2>1, <2>3, <1>5, <1>7 DEF TextureEntry
    <3>2. SamplerOf(v, p.slots[u]) = IntroducedSampler
      BY <3>1 DEF SamplerOf
    <3>3. QED
      BY <2>1, <2>2, <2>3, <3>2, <1>3
  <2>4. CASE m.uses[u].sampler # P!Introduced
    <3>1. /\ p.slots[u].sampler = Rank(m, m.uses[u].sampler)
          /\ P!BindingOf(m, m.uses[u].sampler) - P!SamplerBase \in 0 .. p.samplers - 1
      BY <2>1, <2>4, <1>5, <1>6, <1>7, <1>12, <1>17 DEF TextureEntry
    <3>2. p.slots[u].sampler # None
      BY <3>1, <2>1, <2>4, <1>2, <1>5, <1>7 DEF TextureEntry, None
    <3>3. SamplerOf(v, p.slots[u]) = v.samplers[Rank(m, m.uses[u].sampler) + 1]
      BY <3>1, <3>2 DEF SamplerOf
    <3>4. QED
      BY <2>1, <2>2, <2>4, <3>3, <1>3
  <2>5. QED
    BY <2>3, <2>4
<1>20. \A j \in DOMAIN P!StorageImages(m) :
         b.storages[j - 1] = StorageDescriptor(c, v.storages[Rank(m, P!StorageImages(m)[j]) + 1])
  <2>1. ASSUME NEW j \in DOMAIN P!StorageImages(m)
        PROVE  b.storages[j - 1]
                 = StorageDescriptor(c, v.storages[Rank(m, P!StorageImages(m)[j]) + 1])
    <3>1. j \in 1 .. Storages(m)
      BY <1>5, StoragesListed
    <3>2. p.slots[Textures(m) + j].ordinal = Rank(m, P!StorageImages(m)[j])
      BY <3>1, <1>13, <1>18
    <3>3. QED
      BY <3>1, <3>2, <1>3
  <2>2. QED
    BY <2>1
<1>21. P!UniformBuffers(m) # <<>> <=> b.uniform # None
  <2>1. P!UniformBuffers(m) # <<>> <=> Uniforms(m) # 0
    BY <1>5, Listed, EmptySeq DEF Readable, IsSequence, Uniforms
  <2>2. Uniforms(m) # 0 => v.uniform # None
    BY <1>2 DEF SameInterface
  <2>3. QED
    BY <2>1, <2>2, <1>3
<1>22. QED
  BY <1>4, <1>19, <1>20, <1>21 DEF d

(***************************************************************************)
(* The passes of the directory just written, and the modules they were     *)
(* made from.                                                              *)
(***************************************************************************)
\* validate is the same for both apps.
LEMMA OneValidate == ASSUME NEW c PROVE P!ValidManifest(c) <=> ValidManifest(c)
<1>1. \A s : P!Elements(s) = Elements(s)
  BY DEF P!Elements, Elements
<1>2. \A p, s : P!ValidSlot(p, s) <=> ValidSlot(p, s)
  BY DEF P!ValidSlot, ValidSlot, P!None, None
<1>3. \A p : P!ValidPass(p) <=> ValidPass(p)
  BY <1>2 DEF P!ValidPass, ValidPass
<1>4. \A d, v : P!ValidVariant(c, d, v) <=> ValidVariant(c, d, v)
  BY <1>1 DEF P!ValidVariant, ValidVariant, P!None, None
<1>5. \A d : P!VariantsOf(d) = VariantsOf(d)
  BY DEF P!VariantsOf, VariantsOf
<1>6. P!ValidGraph(c) <=> ValidGraph(c)
  BY <1>4, <1>5 DEF P!ValidGraph, ValidGraph, P!HistoryImages, HistoryImages
<1>7. \A d : P!PassesOf(c, d) = PassesOf(c, d) /\ P!PassOf(c, d) = PassOf(c, d)
  BY Instanced DEF P!PassesOf, PassesOf, P!PassOf, PassOf
<1>8. \A p, v : P!SameInterface(p, v) <=> SameInterface(p, v)
  BY DEF P!SameInterface, SameInterface, P!None, None
<1>9. QED
  BY <1>3, <1>5, <1>6, <1>7, <1>8 DEF P!ValidManifest, ValidManifest

\* A round of prepare::run.
LEMMA PassesTranslated ==
  ASSUME DllInv, RequestsInv, PassesInv, P!TranslateModule, ~ \E error : P!GiveUp(error)
  PROVE  PassesInv'
<1> DEFINE request == requests[Len(passes) + 1]
           found == P!FindResource(P!Table, request.id)
           k == Min(found)
           m == P!Table[k].data
           pass == P!PassEntry(m, request.block, P!Slots(m).value)
<1>1. /\ found # {} /\ P!Slots(m).error = "ok"
      /\ passes' = Append(passes, pass)
      /\ used' = Append(used, k)
      /\ UNCHANGED <<step, dll>> /\ step = "modules"
  BY Instanced DEF P!TranslateModule
<1>2. TableTyped(P!Table)
  BY <1>1, TableListed
<1>3. k \in DOMAIN P!Table
  <2>1. found \in SUBSET Nat /\ found \subseteq DOMAIN P!Table
    BY <1>2 DEF TableTyped, IsSequence, P!FindResource
  <2>2. QED
    BY <1>1, <2>1, Smallest
<1>4. P!Table' = P!Table
  BY <1>1 DEF P!Table, P!Walked
<1>5. /\ passes \in Seq(Elements(passes)) /\ used \in Seq(Elements(used))
      /\ Len(used) = Len(passes)
  BY DEF RequestsInv, IsSequence
<1>6. pass.block = request.block
  BY DEF P!PassEntry
<1>7. pass = P!PassEntry(m, pass.block, P!Slots(m).value)
  BY <1>6
<1>8. ASSUME NEW n \in DOMAIN passes'
      PROVE  LET module == P!Table[used'[n]].data
             IN /\ used'[n] \in DOMAIN P!Table
                /\ P!Slots(module).error = "ok"
                /\ passes'[n] = P!PassEntry(module, passes'[n].block, P!Slots(module).value)
  <2>1. CASE n = Len(passes) + 1
    <3>1. passes'[n] = pass /\ used'[n] = k
      <4> HIDE DEF pass, k
      <4>1. QED
        BY <1>1, <1>5, <2>1
    <3>2. passes'[n] = P!PassEntry(m, passes'[n].block, P!Slots(m).value)
      BY <3>1, <1>7
    <3>3. QED
      BY <3>1, <3>2, <1>1, <1>3
  <2>2. CASE n # Len(passes) + 1
    <3>1. n \in DOMAIN passes /\ passes'[n] = passes[n] /\ used'[n] = used[n]
      <4> HIDE DEF pass, k
      <4>1. QED
        BY <1>1, <1>5, <2>2
    <3>2. QED
      BY <3>1 DEF PassesInv
  <2>3. QED
    BY <2>1, <2>2
<1>9. \A x : P!Slots(x)' = P!Slots(x)
  OBVIOUS
<1>10. QED
  BY <1>1, <1>4, <1>8 DEF PassesInv

LEMMA PassesKept ==
  ASSUME CardInv, DllInv, RequestsInv, PassesInv, [DeploymentNext]_allVars
  PROVE  PassesInv'
<1>1. ASSUME passes' = <<>>, step' # "verify" PROVE PassesInv'
  BY <1>1 DEF PassesInv
<1>2. ASSUME UNCHANGED <<passes, used, dll>>, step' = "modules" \/ step \notin {"modules", "verify"},
             step' # "verify"
      PROVE  PassesInv'
  BY <1>2 DEF PassesInv, P!Table, P!Walked
<1>3. CASE \E error : P!GiveUp(error)
  BY <1>1, <1>3 DEF P!GiveUp, P!Finish, P!Following
<1>4. CASE P!Survey /\ ~ \E error : P!GiveUp(error)
  BY <1>2, <1>4 DEF P!Survey
<1>5. CASE P!TranslateModule /\ ~ \E error : P!GiveUp(error)
  BY <1>5, PassesTranslated
<1>6. CASE P!Open
  BY <1>2, <1>6 DEF P!Open, P!locals
<1>7. CASE P!Write
  <2>1. CASE \E outcome : P!Finish(outcome, P!Following)
    BY <1>1, <2>1 DEF P!Finish, P!Following
  <2>2. CASE /\ P!ValidManifest(P!Contents)
             /\ card' = [card EXCEPT ![config] = P!Contents]
             /\ step' = "verify" /\ UNCHANGED <<dll, config, passes, used>>
    <3>1. card'[config] = P!Contents /\ ValidManifest(P!Contents)
      BY <2>2, OneValidate DEF CardInv
    <3>2. P!Contents' = P!Contents /\ P!Table' = P!Table
      BY <2>2 DEF P!Contents, P!Graph, P!Dispatch, P!Performance, P!Table, P!Walked
    <3>3. (card[config] = P!Contents /\ ValidManifest(P!Contents))'
      BY <2>2, <3>1, <3>2
    <3>4. QED
      BY <2>2, <3>2, <3>3 DEF PassesInv
  <2>3. QED
    BY <1>3, <1>7, <2>1, <2>2 DEF P!Write, P!locals
<1>8. CASE P!ReadBack
  BY <1>1, <1>3, <1>8 DEF P!ReadBack, P!Succeed, P!Finish, P!Following
<1>9. CASE P!Close
  BY <1>1, <1>9 DEF P!Close
<1>10. CASE UNCHANGED preparation
  <2>1. UNCHANGED <<passes, used, dll, step, card, config>>
    BY <1>10 DEF preparation
  <2>2. P!Contents' = P!Contents /\ P!Table' = P!Table
    BY <2>1 DEF P!Contents, P!Graph, P!Dispatch, P!Performance, P!Table, P!Walked
  <2>3. QED
    BY <2>1, <2>2 DEF PassesInv
<1>11. QED
  BY <1>3, <1>4, <1>5, <1>6, <1>7, <1>8, <1>9, <1>10
     DEF DeploymentNext, Preparing, Measuring, P!Next, allVars

\* What holds of the passes, so that a directory just written is bound as declared.
LEMMA VerifiedBinds ==
  ASSUME CardInv, DllInv, RequestsInv, PassesInv
  PROVE  BoundAsDeclared
<1> SUFFICES ASSUME step = "verify" PROVE BoundAsDeclared
  BY DEF BoundAsDeclared
<1> DEFINE c == card[config]
           rs == P!Table
<1>1. c = P!Contents /\ ValidManifest(c) /\ c.passes = passes
  BY DEF PassesInv, P!Contents
<1>2. config \in DOMAIN Candidates /\ Sized(c)
  BY DEF CardInv, P!Configs
<1>3. GraphTyped(c)
  <2>1. /\ c.variants = Candidates[config].graph.variants
        /\ c.uniforms = Candidates[config].graph.uniforms
    BY <1>1 DEF P!Contents, P!Graph
  <2>2. QED
    BY <1>2, <2>1, GraphsAssumption DEF GraphTyped
<1>4. IsSequence(passes) /\ IsSequence(used) /\ Len(used) = Len(passes)
  BY DEF RequestsInv
<1>5. ASSUME NEW p \in DOMAIN passes PROVE MadeFrom(c.passes[p], rs[used[p]].data)
  <2> DEFINE m == rs[used[p]].data
  <2>1. /\ used[p] \in DOMAIN rs /\ P!Slots(m).error = "ok"
        /\ passes[p] = P!PassEntry(m, passes[p].block, P!Slots(m).value)
    BY DEF PassesInv
  <2>2. m.magic => Readable(m)
    BY <2>1, DllsAssumption DEF DllInv, P!Table, P!Walked
  <2> HIDE DEF m
  <2>3. MadeFrom(passes[p], m)
    BY <2>1, <2>2 DEF MadeFrom
  <2>4. QED
    BY <2>3, <1>1 DEF m
<1> HIDE DEF rs
<1>6. Unambiguous(c.passes)
  <2>1. ASSUME NEW p \in DOMAIN passes PROVE OneEntryEach(c.passes[p].slots)
    <3> DEFINE m == rs[used[p]].data
    <3>1. MadeFrom(c.passes[p], m)
      BY <1>5
    <3> HIDE DEF m
    <3>2. /\ Readable(m) /\ P!Slots(m).error = "ok"
          /\ c.passes[p].slots = P!Slots(m).value
      BY <3>1, Made
    <3>3. QED
      BY <3>2, SlotsOnce DEF Readable
  <2>2. QED
    BY <2>1, <1>1, <1>4 DEF Unambiguous
<1>7. ASSUME NEW k \in DOMAIN c.dispatches, NEW phase \in 0 .. 2 * c.dispatches[k].count
      PROVE  LET d == c.dispatches[k]
                 p == PassOf(c, d)
                 m == rs[used[p]].data
             IN /\ Binds(c, d, phase)
                /\ DOMAIN Bound(c, d, phase).textures = 0 .. c.passes[p].textureSlots - 1
                /\ Clean(m) => AsDeclared(c, d, phase, m)
  <2> DEFINE d == c.dispatches[k]
             p == PassOf(c, d)
             m == rs[used[p]].data
  <2>1. phase \in Nat
    BY <1>1, <1>7 DEF ValidManifest, ValidGraph
  <2>2. IsSequence(c.passes)
    BY <1>1, <1>4
  <2> HIDE DEF c
  <2>3. p \in DOMAIN c.passes
    BY <1>1, <1>7, <2>2, PassFound
  <2>4. MadeFrom(c.passes[p], m)
    BY <2>3, <1>1, <1>5
  <2> HIDE DEF m
  <2>5. Binds(c, d, phase)
    BY <1>1, <1>2, <1>3, <1>7, <2>1, <2>2, <2>4, BindsEvery
  <2>6. DOMAIN Bound(c, d, phase).textures = 0 .. c.passes[p].textureSlots - 1
    <3>1. c.passes[p].textureSlots = Textures(m)
      BY <2>4, Made
    <3>2. DOMAIN Bound(c, d, phase).textures = 0 .. Textures(m) - 1
      BY <1>6, <2>3, <2>4, BoundTo
    <3>3. QED
      BY <3>1, <3>2
  <2>7. Clean(m) => AsDeclared(c, d, phase, m)
    BY <1>1, <1>3, <1>6, <1>7, <2>1, <2>4, ReachesDeclared
  <2>8. QED
    BY <2>5, <2>6, <2>7 DEF m
<1>8. QED
  BY <1>7 DEF BoundAsDeclared, rs

\* Whatever the DLL: every dispatch of a cache the preparation app wrote binds
\* something to every slot of its module, and a clean module reaches through each use
\* and each store the image, with the sampler, that stands in its variant where its own
\* binding stands among its likes (to_glsl, describe_slots, inspect, validate, bind).
THEOREM BoundOnAnyDll == DeploymentSpec => []BoundAsDeclared
<1>1. DeploymentInit => CardInv /\ DllInv /\ RequestsInv /\ PassesInv
  <2>1. DeploymentInit => DllInv /\ RequestsInv
    BY DEF DeploymentInit, P!Init, DllInv, RequestsInv, HighPrecisionModules, IsSequence, Elements
  <2>2. DeploymentInit => PassesInv
    BY DEF DeploymentInit, P!Init, PassesInv
  <2>3. QED
    BY <2>1, <2>2, CardsAtFirst
<1>2. DllInv /\ RequestsInv /\ [DeploymentNext]_allVars => (DllInv /\ RequestsInv)'
  BY DllKept, RequestsKept
<1>3. CardInv /\ DllInv /\ RequestsInv /\ PassesInv /\ [DeploymentNext]_allVars => PassesInv'
  BY PassesKept
<1>4. CardInv /\ DllInv /\ RequestsInv /\ PassesInv => BoundAsDeclared
  BY VerifiedBinds
<1>5. QED
  BY <1>1, <1>2, <1>3, <1>4, DeploymentInvariance, PTL DEF DeploymentSpec

-----------------------------------------------------------------------------
(***************************************************************************)
(* A module that has what a variant has is translated, and its entry is    *)
(* one that validate accepts.                                              *)
(***************************************************************************)
\* As many variables of a type as its bindings fill.
LEMMA DenseCount ==
  ASSUME NEW m, IsSequence(m.variables), Clean(m), NEW type, NEW base \in Nat, NEW n \in Nat,
         Dense(m, type, base, n)
  PROVE  /\ Cardinality(Typed(m, {type})) = n
         /\ \A k \in Typed(m, {type}) : m.variables[k].binding \in base .. base + n - 1
         /\ \A b \in base .. base + n - 1 :
              \E k \in Typed(m, {type}) : m.variables[k].binding = b
<1> DEFINE those == Typed(m, {type})
           filled == base .. base + n - 1
           f == [k \in those |-> m.variables[k].binding]
<1>1. {m.variables[k].binding : k \in those} = filled
  <2>1. those = {j \in DOMAIN m.variables : m.variables[j].type = type}
    BY DEF Typed
  <2>2. QED
    BY <2>1 DEF Dense
<1>2. IsFiniteSet(those)
  BY TypedFinite
<1>3. IsFiniteSet(filled) /\ Cardinality(filled) = n
  <2>1. base \in Int /\ base + n - 1 \in Int
    OBVIOUS
  <2>2. /\ IsFiniteSet(base .. base + n - 1)
        /\ Cardinality(base .. base + n - 1)
             = IF base > base + n - 1 THEN 0 ELSE (base + n - 1) - base + 1
    BY <2>1, FS_Interval
  <2>3. n = IF base > base + n - 1 THEN 0 ELSE (base + n - 1) - base + 1
    OBVIOUS
  <2>4. QED
    BY <2>2, <2>3
<1>4. \A j, k \in those : m.variables[j].binding = m.variables[k].binding => j = k
  BY DEF Clean, Typed
<1> HIDE DEF those, filled
<1>5. f \in Bijection(those, filled)
  <2>1. f \in [those -> filled]
    BY <1>1
  <2>2. \A b \in filled : \E k \in those : f[k] = b
    BY <1>1
  <2>3. \A j, k \in those : f[j] = f[k] => j = k
    BY <1>4
  <2>4. QED
    BY <2>1, <2>2, <2>3 DEF Bijection, Injection, Surjection, IsInjective
<1>6. Cardinality(those) = n
  BY <1>2, <1>3, <1>5, FS_Bijection DEF ExistsBijection
<1>7. QED
  BY <1>1, <1>6 DEF those, filled

\* The kinds of the variables of a module that fits.
FitTypes == {"separate_image", "sampler", "storage_image", "block"}
KindOf(type) == IF type = "block" THEN "uniform_buffer" ELSE type

LEMMA FitKinds ==
  ASSUME NEW m, NEW v, ModuleFits(m, v), NEW k \in DOMAIN m.variables
  PROVE  /\ m.variables[k].type \in FitTypes
         /\ P!Kind(m.variables[k]) = KindOf(m.variables[k].type)
         /\ P!IsUniformBuffer(m.variables[k]) <=> m.variables[k].type = "block"
<1>1. /\ m.variables[k].type \in FitTypes
      /\ m.variables[k].type = "block" => m.variables[k].class = "uniform"
  BY DEF ModuleFits, FitTypes
<1>2. P!Resolved(m.variables[k])
  BY Plain DEF ModuleFits, Clean
<1>3. P!IsUniformBuffer(m.variables[k]) <=> m.variables[k].type = "block"
  BY <1>1 DEF P!IsUniformBuffer
<1>4. m.variables[k].type = "block" => ~ P!IsStorageBuffer(m.variables[k])
  BY <1>1 DEF P!IsStorageBuffer
<1>5. CASE m.variables[k].type = "block"
  <2>1. P!Kind(m.variables[k]) = "uniform_buffer"
    BY <1>2, <1>3, <1>4, <1>5 DEF P!Kind, P!Opaque, P!Images
  <2>2. QED
    BY <2>1, <1>1, <1>3, <1>5 DEF KindOf
<1>6. CASE m.variables[k].type # "block"
  <2>1. m.variables[k].type \in P!Opaque
    BY <1>1, <1>6 DEF FitTypes, P!Opaque, P!Images
  <2>2. P!Kind(m.variables[k]) = m.variables[k].type
    BY <2>1, <1>2 DEF P!Kind, P!IsStorageBuffer, P!IsUniformBuffer, P!Opaque, P!Images
  <2>3. QED
    BY <2>2, <1>1, <1>3, <1>6 DEF KindOf
<1>7. QED
  BY <1>5, <1>6

\* A variant of a graph, as graph::build makes them.
VariantTyped(v) ==
  /\ v.textures \in Seq(Elements(v.textures)) /\ v.storages \in Seq(Elements(v.storages))
  /\ v.storages # <<>>
  /\ v.samplers \in Seq(0 .. IntroducedSampler - 1)
  /\ Len(v.samplers) <= MaxDispatchSamplers

LEMMA FitNumbers ==
  ASSUME NEW m, Readable(m), NEW v, VariantTyped(v), ModuleFits(m, v)
  PROVE  /\ Len(v.textures) \in Nat /\ Len(v.storages) \in Nat \ {0} /\ Len(v.samplers) \in 0 .. 2
         /\ Len(v.textures) <= P!BindingRange
         /\ Len(v.textures) < Number /\ Len(v.storages) < Number
         /\ Len(v.samplers) < Number /\ 1 < Number
         /\ Len(v.storages) <= P!BindingRange
<1>1. Len(v.textures) \in Nat /\ Len(v.storages) \in Nat /\ Len(v.samplers) \in Nat
  BY DEF VariantTyped
<1>2. Len(v.storages) # 0
  BY EmptySeq DEF VariantTyped
<1>3. Len(v.samplers) \in 0 .. 2 /\ Len(v.samplers) < Number /\ 1 < Number
  <2>1. Len(v.samplers) <= 2
    BY DEF VariantTyped, MaxDispatchSamplers
  <2>2. 2 < Number /\ Number \in Nat
    BY LimitsAssumption, DeploymentAssumption DEF MaxDispatchSamplers
  <2> DEFINE n == Len(v.samplers)
  <2>3. n \in Nat /\ n <= 2
    BY <1>1, <2>1
  <2> HIDE DEF n
  <2>4. n \in 0 .. 2 /\ n < Number /\ 1 < Number
    BY <2>2, <2>3
  <2>5. QED
    BY <2>4 DEF n
<1>4. /\ Len(v.textures) < Number /\ Len(v.storages) < Number
      /\ Len(v.storages) <= P!BindingRange
  <2>1. /\ Len(v.textures) <= Limits.textures /\ Len(v.storages) <= Limits.storages
    BY DEF ModuleFits
  <2>2. /\ Limits.textures < Number /\ Limits.textures \in Nat
        /\ Limits.storages < Number /\ Limits.storages \in Nat
        /\ Limits.storages <= P!BindingRange
    BY LimitsAssumption
  <2>3. QED
    BY <1>1, <2>1, <2>2, DeploymentAssumption DEF P!BindingRange
<1>5. Len(v.textures) <= P!BindingRange
  <2>1. SUFFICES ASSUME Len(v.textures) > 16 PROVE FALSE
    BY <1>1 DEF P!BindingRange
  <2>2. /\ Dense(m, "separate_image", 32, Len(v.textures))
        /\ Dense(m, "storage_image", 48, Len(v.storages)) /\ Clean(m)
    BY DEF ModuleFits
  <2>3. PICK j \in Typed(m, {"separate_image"}) : m.variables[j].binding = 48
    <3>1. 48 \in 32 .. 32 + Len(v.textures) - 1
      BY <1>1, <2>1
    <3> DEFINE n == Len(v.textures)
    <3>2. n \in Nat /\ Dense(m, "separate_image", 32, n) /\ 48 \in 32 .. 32 + n - 1
      BY <1>1, <2>2, <3>1
    <3>3. IsSequence(m.variables) /\ Clean(m) /\ 32 \in Nat
      BY <2>2 DEF Readable
    <3> HIDE DEF n
    <3>4. QED
      BY <3>2, <3>3, DenseCount
  <2>4. PICK k \in Typed(m, {"storage_image"}) : m.variables[k].binding = 48
    <3>1. 48 \in 48 .. 48 + Len(v.storages) - 1
      BY <1>1, <1>2
    <3>2. QED
      BY <1>1, <2>2, <3>1, DenseCount DEF Readable
  <2>5. j = k
    BY <2>2, <2>3, <2>4 DEF Clean, Typed
  <2>6. QED
    BY <2>3, <2>4, <2>5 DEF Typed
<1>6. QED
  BY <1>1, <1>2, <1>3, <1>4, <1>5

\* What it counts is what the variant has.
LEMMA FitCounts ==
  ASSUME NEW m, Readable(m), NEW v, VariantTyped(v), ModuleFits(m, v)
  PROVE  /\ P!Count(m, P!Images) = Len(v.textures)
         /\ P!Count(m, {"storage_image"}) = Len(v.storages)
         /\ P!Count(m, {"sampler"}) = Len(v.samplers)
         /\ P!Count(m, {"uniform_buffer"}) = IF v.uniform = None THEN 0 ELSE 1
         /\ P!Count(m, {"storage_buffer"}) = 0
         /\ Cardinality(Typed(m, {"separate_image"})) = Len(v.textures)
         /\ Cardinality(Typed(m, {"storage_image"})) = Len(v.storages)
         /\ Cardinality(Typed(m, {"block"})) = IF v.uniform = None THEN 0 ELSE 1
<1> DEFINE of(kinds) == {k \in DOMAIN m.variables : P!Kind(m.variables[k]) \in kinds}
           blocks == IF v.uniform = None THEN 0 ELSE 1
<1>1. ASSUME NEW kinds PROVE P!Count(m, kinds) = Cardinality(of(kinds)) % Number
  <2>1. IsSequence(m.variables) /\ Clean(m)
    BY DEF Readable, ModuleFits
  <2>2. QED
    BY <2>1, CleanCount
<1>2. \A k \in DOMAIN m.variables :
        /\ m.variables[k].type \in FitTypes
        /\ P!Kind(m.variables[k]) = KindOf(m.variables[k].type)
  BY FitKinds
<1>3. of(P!Images) = Typed(m, {"separate_image"})
  BY <1>2 DEF Typed, P!Images, KindOf, FitTypes
<1>4. /\ of({"storage_image"}) = Typed(m, {"storage_image"})
      /\ of({"sampler"}) = Typed(m, {"sampler"})
      /\ of({"uniform_buffer"}) = Typed(m, {"block"})
      /\ of({"storage_buffer"}) = {}
  BY <1>2 DEF Typed, KindOf, FitTypes
<1>5. /\ Len(v.textures) \in Nat /\ Len(v.storages) \in Nat /\ Len(v.samplers) \in Nat
      /\ Len(v.textures) < Number /\ Len(v.storages) < Number
      /\ Len(v.samplers) < Number /\ 1 < Number /\ Number \in Nat
  BY FitNumbers, DeploymentAssumption
<1>6. /\ Cardinality(Typed(m, {"separate_image"})) = Len(v.textures)
      /\ Cardinality(Typed(m, {"storage_image"})) = Len(v.storages)
      /\ Cardinality(Typed(m, {"sampler"})) = Len(v.samplers)
      /\ Cardinality(Typed(m, {"block"})) = blocks
  <2>1. blocks \in Nat
    OBVIOUS
  <2>2. /\ Dense(m, "block", 0, blocks)
        /\ Dense(m, "sampler", 16, Len(v.samplers))
        /\ Dense(m, "separate_image", 32, Len(v.textures))
        /\ Dense(m, "storage_image", 48, Len(v.storages))
        /\ Clean(m) /\ IsSequence(m.variables)
    BY DEF ModuleFits, Readable
  <2> HIDE DEF blocks
  <2>3. QED
    BY <1>5, <2>1, <2>2, DenseCount
<1>7. Cardinality({}) = 0
  BY FS_EmptySet
<1>8. \A x \in Nat : x < Number => x % Number = x
  BY <1>5
<1>9. /\ 0 % Number = 0 /\ Len(v.textures) % Number = Len(v.textures)
      /\ Len(v.storages) % Number = Len(v.storages)
      /\ Len(v.samplers) % Number = Len(v.samplers)
      /\ blocks % Number = blocks
  <2>1. blocks \in {0, 1} /\ 0 \in Nat /\ 1 \in Nat
    OBVIOUS
  <2>2. 0 % Number = 0 /\ 1 % Number = 1
    <3>1. 0 < Number
      BY <1>5
    <3>2. QED
      BY <1>5, <1>8, <3>1
  <2> HIDE DEF blocks
  <2>3. QED
    BY <1>5, <1>8, <2>1, <2>2
<1> HIDE DEF of, blocks
<1>10. QED
  BY <1>1, <1>3, <1>4, <1>6, <1>7, <1>9 DEF blocks

\* What SPIRV-Cross lists of some variables.
LEMMA ListedThose ==
  ASSUME NEW m, IsSequence(m.variables), NEW those \in SUBSET DOMAIN m.variables
  PROVE  /\ IsSequence(P!Listed(those)) /\ Len(P!Listed(those)) = Cardinality(those)
         /\ Cardinality(those) \in Nat
         /\ DOMAIN P!Listed(those) = 1 .. Cardinality(those)
         /\ \A n \in DOMAIN P!Listed(those) : P!Listed(those)[n] \in those
<1>1. DOMAIN m.variables = 1 .. Len(m.variables) /\ Len(m.variables) \in Nat
  BY DEF IsSequence
<1>2. IsFiniteSet(those)
  <2>1. IsFiniteSet(DOMAIN m.variables)
    BY <1>1, FS_Interval
  <2>2. QED
    BY <2>1, FS_Subset
<1>3. TotalOrder(those, P!Ascending(those))
  BY <1>1 DEF TotalOrder, P!Ascending
<1>4. QED
  BY <1>2, <1>3, Sorted DEF P!Listed

LEMMA FitLists ==
  ASSUME NEW m, Readable(m), NEW v, VariantTyped(v), ModuleFits(m, v)
  PROVE  /\ Textures(m) \in Nat /\ Textures(m) <= Limits.textures
         /\ DOMAIN m.uses = 1 .. Textures(m)
         /\ Storages(m) = Len(v.storages)
         /\ DOMAIN P!StorageImages(m) = 1 .. Storages(m)
         /\ \A n \in 1 .. Storages(m) : P!StorageImages(m)[n] \in Typed(m, {"storage_image"})
         /\ Uniforms(m) = IF v.uniform = None THEN 0 ELSE 1
         /\ DOMAIN P!UniformBuffers(m) = 1 .. Uniforms(m)
         /\ \A n \in 1 .. Uniforms(m) : P!UniformBuffers(m)[n] \in Typed(m, {"block"})
<1>1. Textures(m) \in Nat /\ Textures(m) <= Limits.textures /\ DOMAIN m.uses = 1 .. Textures(m)
  BY DEF Readable, IsSequence, ModuleFits, Textures
<1>2. P!StorageImages(m) = P!Listed(Typed(m, {"storage_image"}))
  BY DEF P!StorageImages, Typed
<1>3. P!UniformBuffers(m) = P!Listed(Typed(m, {"block"}))
  <2>1. {k \in DOMAIN m.variables : P!IsUniformBuffer(m.variables[k])} = Typed(m, {"block"})
    BY FitKinds DEF Typed
  <2>2. QED
    BY <2>1 DEF P!UniformBuffers
<1>4. \A types : Typed(m, types) \in SUBSET DOMAIN m.variables
  BY DEF Typed
<1>5. /\ Cardinality(Typed(m, {"storage_image"})) = Len(v.storages)
      /\ Cardinality(Typed(m, {"block"})) = IF v.uniform = None THEN 0 ELSE 1
  BY FitCounts
<1>6. IsSequence(m.variables)
  BY DEF Readable
<1>7. /\ Storages(m) = Cardinality(Typed(m, {"storage_image"}))
      /\ DOMAIN P!StorageImages(m) = 1 .. Storages(m)
      /\ \A n \in 1 .. Storages(m) : P!StorageImages(m)[n] \in Typed(m, {"storage_image"})
  BY <1>2, <1>4, <1>6, ListedThose DEF Storages
<1>8. /\ Uniforms(m) = Cardinality(Typed(m, {"block"}))
      /\ DOMAIN P!UniformBuffers(m) = 1 .. Uniforms(m)
      /\ \A n \in 1 .. Uniforms(m) : P!UniformBuffers(m)[n] \in Typed(m, {"block"})
  BY <1>3, <1>4, <1>6, ListedThose DEF Uniforms
<1>9. QED
  BY <1>1, <1>5, <1>7, <1>8

\* The bindings of its variables.
LEMMA FitBindings ==
  ASSUME NEW m, Readable(m), NEW v, VariantTyped(v), ModuleFits(m, v), NEW k
  PROVE  /\ k \in Typed(m, {"separate_image"}) =>
              P!BindingOf(m, k) \in 32 .. 32 + Len(v.textures) - 1
         /\ k \in Typed(m, {"sampler"}) =>
              P!BindingOf(m, k) \in 16 .. 16 + Len(v.samplers) - 1
         /\ k \in Typed(m, {"storage_image"}) =>
              P!BindingOf(m, k) \in 48 .. 48 + Len(v.storages) - 1
         /\ k \in Typed(m, {"block"}) => P!BindingOf(m, k) = 0 /\ v.uniform # None
<1> DEFINE blocks == IF v.uniform = None THEN 0 ELSE 1
           t == Len(v.textures)
           s == Len(v.storages)
           p == Len(v.samplers)
<1>1. t \in Nat /\ s \in Nat /\ p \in Nat /\ blocks \in Nat
  BY FitNumbers
<1>2. /\ Dense(m, "block", 0, blocks) /\ Dense(m, "sampler", 16, p)
      /\ Dense(m, "separate_image", 32, t) /\ Dense(m, "storage_image", 48, s)
      /\ Clean(m) /\ IsSequence(m.variables)
  BY DEF ModuleFits, Readable
<1>3. /\ blocks = 0 => v.uniform = None
      /\ blocks \in {0, 1}
  OBVIOUS
<1> HIDE DEF blocks, t, s, p
<1>4. ASSUME NEW base \in Nat, NEW n \in Nat, m.variables[k].binding \in base .. base + n - 1
      PROVE  P!BindingOf(m, k) = m.variables[k].binding
  BY <1>4 DEF P!BindingOf, P!Undecorated
<1>5. /\ k \in Typed(m, {"separate_image"}) => m.variables[k].binding \in 32 .. 32 + t - 1
      /\ k \in Typed(m, {"sampler"}) => m.variables[k].binding \in 16 .. 16 + p - 1
      /\ k \in Typed(m, {"storage_image"}) => m.variables[k].binding \in 48 .. 48 + s - 1
      /\ k \in Typed(m, {"block"}) => m.variables[k].binding \in 0 .. 0 + blocks - 1
  <2>1. 32 \in Nat /\ 16 \in Nat /\ 48 \in Nat /\ 0 \in Nat
    OBVIOUS
  <2>2. QED
    BY <1>1, <1>2, <2>1, DenseCount
<1>6. /\ k \in Typed(m, {"separate_image"}) => P!BindingOf(m, k) = m.variables[k].binding
      /\ k \in Typed(m, {"sampler"}) => P!BindingOf(m, k) = m.variables[k].binding
      /\ k \in Typed(m, {"storage_image"}) => P!BindingOf(m, k) = m.variables[k].binding
      /\ k \in Typed(m, {"block"}) => P!BindingOf(m, k) = m.variables[k].binding
  <2>1. 32 \in Nat /\ 16 \in Nat /\ 48 \in Nat /\ 0 \in Nat
    OBVIOUS
  <2>2. QED
    BY <1>1, <1>4, <1>5, <2>1
<1>7. k \in Typed(m, {"block"}) => m.variables[k].binding = 0 /\ blocks # 0
  BY <1>3, <1>5
<1>8. QED
  BY <1>3, <1>5, <1>6, <1>7 DEF t, s, p, blocks

\* None of the checks on the way to the entry of its pass refuses it.
LEMMA FitKnown ==
  ASSUME NEW m, Readable(m), NEW v, VariantTyped(v), ModuleFits(m, v)
  PROVE  /\ \A k \in DOMAIN P!AssignTextures(m) : P!Known(P!AssignTextures(m)[k])
         /\ \A k \in DOMAIN P!Assign(m, "storage", P!StorageImages(m)) :
              P!Known(P!Assign(m, "storage", P!StorageImages(m))[k])
         /\ \A k \in DOMAIN P!Assign(m, "uniform", P!UniformBuffers(m)) :
              P!Known(P!Assign(m, "uniform", P!UniformBuffers(m))[k])
<1>1. /\ Len(v.textures) \in Nat /\ Len(v.textures) <= 16
      /\ Len(v.storages) \in Nat /\ Len(v.storages) <= 16
      /\ Len(v.samplers) \in 0 .. 2
  BY FitNumbers DEF P!BindingRange
<1>2. /\ Limits.textures \in Nat /\ Limits.textures <= 255
      /\ Limits.storages \in Nat /\ Limits.storages <= 255
  BY LimitsAssumption DEF P!MaxSlot
<1>3. /\ Textures(m) \in Nat /\ Textures(m) <= Limits.textures /\ DOMAIN m.uses = 1 .. Textures(m)
      /\ Storages(m) = Len(v.storages) /\ Uniforms(m) \in {0, 1}
      /\ DOMAIN P!StorageImages(m) = 1 .. Storages(m)
      /\ \A n \in 1 .. Storages(m) : P!StorageImages(m)[n] \in Typed(m, {"storage_image"})
      /\ DOMAIN P!UniformBuffers(m) = 1 .. Uniforms(m)
      /\ \A n \in 1 .. Uniforms(m) : P!UniformBuffers(m)[n] \in Typed(m, {"block"})
  BY FitLists
<1>4. ASSUME NEW k \in DOMAIN P!AssignTextures(m) PROVE P!Known(P!AssignTextures(m)[k])
  <2> DEFINE a == P!AssignTextures(m)[k]
             use == m.uses[k]
  <2>1. k \in 1 .. Textures(m) /\ k \in DOMAIN m.uses
    BY <1>3 DEF P!AssignTextures
  <2>2. a = [kind |-> "texture", slot |-> k - 1, binding |-> P!BindingOf(m, use.image),
             introduced |-> use.sampler = P!Introduced,
             samplerBinding |-> IF use.sampler = P!Introduced THEN 0
                                ELSE P!BindingOf(m, use.sampler)]
    BY <2>1 DEF P!AssignTextures
  <2>3. /\ use.image \in Typed(m, {"separate_image"})
        /\ use.sampler = P!Introduced \/ use.sampler \in Typed(m, {"sampler"})
    BY <2>1 DEF Readable, Typed
  <2> HIDE DEF a, use
  <2> DEFINE paired == use.sampler # P!Introduced
  <2>4. a.introduced <=> ~ paired
    BY <2>2, Zenon
  <2> HIDE DEF paired
  <2>5. a.slot <= 255
    <3>1. k - 1 <= 255
      BY <1>2, <1>3, <2>1
    <3>2. a.slot = k - 1
      BY <2>2
    <3>3. QED
      BY <3>1, <3>2
  <2>6. P!BindingOf(m, use.image) >= 32 /\ P!BindingOf(m, use.image) < 32 + 16
    <3>1. P!BindingOf(m, use.image) \in 32 .. 32 + Len(v.textures) - 1
      BY <2>3, FitBindings
    <3>2. QED
      BY <1>1, <3>1
  <2>7. a.introduced \/ (a.samplerBinding >= 16 /\ a.samplerBinding < 16 + 16)
    <3>1. CASE ~ paired
      BY <2>4, <3>1, Zenon
    <3>2. CASE paired
      <4>1. P!BindingOf(m, use.sampler) \in 16 .. 16 + Len(v.samplers) - 1
        BY <2>3, <3>2, FitBindings DEF paired
      <4>2. a.samplerBinding = P!BindingOf(m, use.sampler)
        BY <2>2, <3>2 DEF paired
      <4>3. a.samplerBinding >= 16 /\ a.samplerBinding < 16 + 16
        <5> DEFINE b == P!BindingOf(m, use.sampler)
                   n == Len(v.samplers)
        <5>1. b \in 16 .. 16 + n - 1 /\ n \in 0 .. 2
          BY <1>1, <4>1
        <5> HIDE DEF b, n
        <5>2. b >= 16 /\ b < 16 + 16
          BY <5>1
        <5>3. QED
          BY <4>2, <5>2 DEF b
      <4>4. QED
        BY <4>3, Zenon
    <3>3. QED
      BY <3>1, <3>2, Zenon
  <2>8. a.kind = "texture" /\ a.binding = P!BindingOf(m, use.image)
    BY <2>2
  <2>9. P!InRange(a.binding, P!Base[a.kind])
    BY <2>6, <2>8 DEF P!InRange, P!Base, P!ImageBase, P!BindingRange
  <2>10. P!Known(a)
    <3>1. a.introduced \/ P!InRange(a.samplerBinding, P!SamplerBase)
      BY <2>7, Zenon DEF P!InRange, P!SamplerBase, P!BindingRange
    <3>2. a.slot <= P!MaxSlot
      BY <2>5 DEF P!MaxSlot
    <3>3. QED
      BY <2>9, <3>1, <3>2, Zenon DEF P!Known
  <2>11. QED
    BY <2>10 DEF a
<1>5. ASSUME NEW k \in DOMAIN P!Assign(m, "storage", P!StorageImages(m))
      PROVE  P!Known(P!Assign(m, "storage", P!StorageImages(m))[k])
  <2> DEFINE image == P!StorageImages(m)[k]
             a == P!Assign(m, "storage", P!StorageImages(m))[k]
  <2>1. k \in 1 .. Storages(m)
    BY <1>3 DEF P!Assign
  <2>2. a = [kind |-> "storage", slot |-> k - 1, binding |-> P!BindingOf(m, image)]
    BY <1>3, <2>1 DEF P!Assign
  <2> HIDE DEF a
  <2>3. P!BindingOf(m, image) \in 48 .. 48 + Len(v.storages) - 1
    BY <1>3, <2>1, FitBindings
  <2> HIDE DEF image
  <2>4. P!InRange(a.binding, P!Base[a.kind])
    BY <1>1, <2>2, <2>3 DEF P!InRange, P!Base, P!StorageBase, P!BindingRange
  <2>5. a.slot <= 255 /\ a.kind # "texture"
    BY <1>1, <1>3, <2>1, <2>2
  <2>6. QED
    BY <2>4, <2>5 DEF P!Known, P!MaxSlot, a
<1>6. ASSUME NEW k \in DOMAIN P!Assign(m, "uniform", P!UniformBuffers(m))
      PROVE  P!Known(P!Assign(m, "uniform", P!UniformBuffers(m))[k])
  <2> DEFINE block == P!UniformBuffers(m)[k]
             a == P!Assign(m, "uniform", P!UniformBuffers(m))[k]
  <2>1. k \in 1 .. Uniforms(m)
    BY <1>3 DEF P!Assign
  <2>2. a = [kind |-> "uniform", slot |-> k - 1, binding |-> P!BindingOf(m, block)]
    BY <1>3, <2>1 DEF P!Assign
  <2> HIDE DEF a
  <2>3. P!BindingOf(m, block) = 0
    BY <1>3, <2>1, FitBindings
  <2> HIDE DEF block
  <2>4. P!InRange(a.binding, P!Base[a.kind])
    BY <2>2, <2>3 DEF P!InRange, P!Base, P!UniformBase, P!BindingRange
  <2>5. a.slot <= 255 /\ a.kind # "texture"
    BY <1>3, <2>1, <2>2
  <2>6. QED
    BY <2>4, <2>5 DEF P!Known, P!MaxSlot, a
<1>7. QED
  BY <1>4, <1>5, <1>6

LEMMA FitSlots ==
  ASSUME NEW m, Readable(m), NEW v, VariantTyped(v), ModuleFits(m, v),
         m.magic, m.scan = "ok", m.compute
  PROVE  P!Slots(m).error = "ok"
<1> DEFINE r == P!AssignTextures(m)
           s == P!Assign(m, "storage", P!StorageImages(m))
           t == P!Assign(m, "uniform", P!UniformBuffers(m))
           all == r \o s \o t
           X == Elements(r) \cup Elements(s) \cup Elements(t)
<1>1. /\ Textures(m) \in Nat /\ Textures(m) <= Limits.textures
      /\ Storages(m) = Len(v.storages)
      /\ Uniforms(m) = IF v.uniform = None THEN 0 ELSE 1
  BY FitLists
<1>2. /\ Limits.textures \in 1 .. 255 /\ Limits.storages \in 1 .. 255
      /\ Limits.uniforms \in 1 .. 255 /\ Limits.storageBuffers \in 1 .. 255
  BY LimitsAssumption DEF P!MaxSlot
<1>3. /\ Len(v.textures) \in Nat /\ Len(v.textures) <= Limits.textures
      /\ Len(v.storages) \in Nat /\ Len(v.storages) <= Limits.storages
  BY FitNumbers DEF ModuleFits
<1>4. P!CheckBeforeTranslating(m)
  <2>1. ~ m.push /\ ~ m.specialised
    BY DEF ModuleFits
  <2>2. /\ P!Count(m, {"storage_buffer"}) <= Limits.storageBuffers
        /\ P!Count(m, {"storage_image"}) <= Limits.storages
        /\ P!Count(m, {"uniform_buffer"}) <= Limits.uniforms
        /\ P!Count(m, P!Images) <= Limits.textures
    <3>1. 0 <= Limits.storageBuffers /\ 0 <= Limits.uniforms /\ 1 <= Limits.uniforms
      BY <1>2
    <3>2. QED
      BY <1>3, <3>1, FitCounts
  <2>3. QED
    BY <2>1, <2>2 DEF P!CheckBeforeTranslating
<1>5. /\ ~ (Len(m.uses) > Limits.textures)
      /\ ~ (Len(P!StorageImages(m)) > Limits.storages)
      /\ ~ (Len(P!UniformBuffers(m)) > Limits.uniforms)
  <2> DEFINE T == Textures(m)
             S == Storages(m)
             U == Uniforms(m)
  <2>1. T \in Nat /\ T <= Limits.textures /\ S \in Nat /\ S <= Limits.storages /\ U \in {0, 1}
    BY <1>1, <1>3
  <2> HIDE DEF T, S, U
  <2>2. ~ (T > Limits.textures) /\ ~ (S > Limits.storages) /\ ~ (U > Limits.uniforms)
    BY <1>2, <2>1
  <2>3. QED
    BY <2>2 DEF T, S, U, Textures, Storages, Uniforms
<1>6. P!ToGlsl(m) = P!Accept(all)
  BY <1>4, <1>5 DEF P!ToGlsl
<1>7. /\ IsSequence(r) /\ IsSequence(s) /\ IsSequence(t)
  BY Assigned DEF Readable
<1>8. /\ \A k \in DOMAIN r : P!Known(r[k])
      /\ \A k \in DOMAIN s : P!Known(s[k])
      /\ \A k \in DOMAIN t : P!Known(t[k])
  BY FitKnown
<1> HIDE DEF r, s, t
<1>9. r \in Seq(X) /\ s \in Seq(X) /\ t \in Seq(X)
  BY <1>7 DEF IsSequence
<1>10. \A x \in X : P!Known(x)
  BY <1>8 DEF Elements
<1> HIDE DEF X
<1>11. \A k \in DOMAIN all : P!Known(all[k])
  <2>1. all \in Seq(X)
    BY <1>9
  <2>2. \A k \in DOMAIN all : all[k] \in X
    <3> HIDE DEF all
    <3>1. QED
      BY <2>1
  <2>3. QED
    BY <1>10, <2>2
<1> HIDE DEF all
<1>12. P!DescribeSlots(all).error = "ok"
  BY <1>11 DEF P!DescribeSlots, P!Accept
<1>13. P!ToGlsl(m).error = "ok" /\ P!ToGlsl(m).value = all
  BY <1>6 DEF P!Accept
<1>14. QED
  BY <1>12, <1>13 DEF P!Slots

\* Every image of a clean module is in some use.
LEMMA UsesEnough ==
  ASSUME NEW m, Readable(m), Clean(m)
  PROVE  Cardinality(Typed(m, {"separate_image"})) <= Textures(m)
<1> DEFINE those == Typed(m, {"separate_image"})
           n == Textures(m)
           reached == {m.uses[u].image : u \in 1 .. n}
           f == [u \in 1 .. n |-> m.uses[u].image]
<1>1. DOMAIN m.uses = 1 .. n /\ n \in Nat
  BY DEF Readable, IsSequence, Textures
<1>2. those \subseteq reached
  <2>1. SUFFICES ASSUME NEW k \in those PROVE k \in reached
    OBVIOUS
  <2>2. k \in DOMAIN m.variables /\ m.variables[k].type = "separate_image"
    BY DEF Typed
  <2>3. PICK u \in DOMAIN m.uses : k = m.uses[u].image \/ k = m.uses[u].sampler
    BY <2>2 DEF Clean, P!Images
  <2>4. k # m.uses[u].sampler
    <3>1. k # P!Introduced
      BY <2>2 DEF Readable, IsSequence, P!Introduced
    <3>2. QED
      BY <2>2, <2>3, <3>1 DEF Readable
  <2>5. QED
    BY <1>1, <2>3, <2>4
<1>3. f \in Surjection(1 .. n, reached)
  BY DEF Surjection
<1>4. IsFiniteSet(1 .. n) /\ Cardinality(1 .. n) = n
  BY <1>1, FS_Interval
<1> HIDE DEF those, reached, f, n
<1>5. IsFiniteSet(reached) /\ Cardinality(reached) <= n
  BY <1>3, <1>4, FS_Surjection
<1>6. Cardinality(those) <= Cardinality(reached)
  BY <1>2, <1>5, FS_Subset
<1>7. Cardinality(reached) \in Nat /\ Cardinality(those) \in Nat
  BY <1>2, <1>5, FS_Subset, FS_CardinalityType
<1>8. QED
  BY <1>1, <1>5, <1>6, <1>7 DEF those, n

\* And validate finds nothing wrong with its entry.
LEMMA FitPass ==
  ASSUME NEW m, Readable(m), NEW v, VariantTyped(v), ModuleFits(m, v),
         NEW p, MadeFrom(p, m)
  PROVE  ValidPass(p) /\ SameInterface(p, v)
<1> DEFINE S == Storages(m)
           T == Textures(m)
           U == Uniforms(m)
<1>1. /\ p.slots = P!Slots(m).value
      /\ p.textures = P!Count(m, P!Images) /\ p.storages = P!Count(m, {"storage_image"})
      /\ p.samplers = P!Count(m, {"sampler"}) /\ p.uniforms = P!Count(m, {"uniform_buffer"})
      /\ p.textureSlots = T
  <2>1. p.uniforms = P!Count(m, {"uniform_buffer"})
    BY DEF MadeFrom, P!PassEntry
  <2>2. QED
    BY <2>1, Made
<1>2. SameInterface(p, v)
  BY <1>1, FitCounts DEF SameInterface
<1>3. /\ T \in Nat /\ S \in Nat \ {0} /\ U \in {0, 1}
      /\ p.storages = S /\ p.uniforms = U
      /\ p.textures = Len(v.textures) /\ p.samplers = Len(v.samplers)
      /\ Len(v.textures) \in Nat /\ Len(v.samplers) \in Nat
      /\ Len(v.storages) = S
  <2>1. /\ Len(v.textures) \in Nat /\ Len(v.storages) \in Nat \ {0} /\ Len(v.samplers) \in 0 .. 2
    BY FitNumbers
  <2>2. /\ Textures(m) \in Nat /\ Storages(m) = Len(v.storages)
        /\ Uniforms(m) = IF v.uniform = None THEN 0 ELSE 1
    BY FitLists
  <2>3. QED
    BY <1>1, <2>1, <2>2, FitCounts
<1>4. /\ DOMAIN p.slots = 1 .. T + S + U /\ Len(p.slots) = T + S + U
      /\ \A k \in 1 .. T : TextureEntry(m, k)
      /\ \A k \in 1 .. S : StorageEntry(m, k)
  BY <1>1, Placed, TextureEntries, StorageEntries DEF MadeFrom
<1>5. \A k \in 1 .. U : /\ p.slots[T + S + k].kind = "uniform"
                        /\ p.slots[T + S + k].slot = 0
                        /\ p.slots[T + S + k].ordinal = 0
  <2>1. SUFFICES ASSUME NEW k \in 1 .. U
                 PROVE  /\ p.slots[T + S + k].kind = "uniform"
                        /\ p.slots[T + S + k].slot = 0
                        /\ p.slots[T + S + k].ordinal = 0
    OBVIOUS
  <2> DEFINE a == P!Assign(m, "uniform", P!UniformBuffers(m))[k]
             block == P!UniformBuffers(m)[k]
  <2>2. k = 1
    BY <1>3
  <2>3. p.slots[T + S + k] = P!SlotEntry(a)
    BY <1>1, Placed DEF MadeFrom
  <2>4. k \in DOMAIN P!UniformBuffers(m) /\ block \in Typed(m, {"block"})
    BY FitLists
  <2>5. a = [kind |-> "uniform", slot |-> k - 1, binding |-> P!BindingOf(m, block)]
    BY <2>4 DEF P!Assign
  <2>6. P!BindingOf(m, block) = 0
    BY <2>4, FitBindings
  <2> HIDE DEF a, block
  <2>7. P!SlotEntry(a).kind = "uniform" /\ P!SlotEntry(a).slot = 0
        /\ P!SlotEntry(a).ordinal = 0
    BY <2>2, <2>5, <2>6 DEF P!SlotEntry, P!OrdinalOf, P!Base, P!UniformBase
  <2>8. QED
    BY <2>3, <2>7
<1> HIDE DEF S, T, U
<1>6. \A k \in 1 .. T : ValidSlot(p, p.slots[k])
  <2>1. SUFFICES ASSUME NEW k \in 1 .. T PROVE ValidSlot(p, p.slots[k])
    OBVIOUS
  <2> DEFINE use == m.uses[k]
             s == p.slots[k]
             b == P!BindingOf(m, use.image)
             c == P!BindingOf(m, use.sampler)
  <2>2. /\ s.kind = "texture" /\ s.slot = k - 1 /\ s.ordinal = b - 32
        /\ use.sampler = P!Introduced => s.sampler = None
        /\ use.sampler # P!Introduced => s.sampler = c - 16
    BY <1>1, <1>4 DEF TextureEntry, P!ImageBase, P!SamplerBase
  <2>3. k \in DOMAIN m.uses
    BY FitLists DEF T
  <2>4. /\ use.image \in Typed(m, {"separate_image"})
        /\ use.sampler = P!Introduced \/ use.sampler \in Typed(m, {"sampler"})
    BY <2>3 DEF Readable, Typed
  <2>5. /\ b \in 32 .. 32 + Len(v.textures) - 1
        /\ use.sampler # P!Introduced => c \in 16 .. 16 + Len(v.samplers) - 1
    BY <2>4, FitBindings
  <2> HIDE DEF s, use, b, c
  <2>6. s.slot \in 0 .. p.textureSlots - 1 /\ s.ordinal \in 0 .. p.textures - 1
    BY <1>1, <1>3, <2>2, <2>5
  <2>7. s.sampler = None \/ s.sampler < p.samplers
    BY <1>3, <2>2, <2>5
  <2>8. QED
    BY <2>2, <2>6, <2>7 DEF ValidSlot, s
<1>7. \A k \in 1 .. S : ValidSlot(p, p.slots[T + k])
  <2>1. SUFFICES ASSUME NEW k \in 1 .. S PROVE ValidSlot(p, p.slots[T + k])
    OBVIOUS
  <2> DEFINE s == p.slots[T + k]
             b == P!BindingOf(m, P!StorageImages(m)[k])
  <2>2. s.kind = "storage" /\ s.slot = k - 1 /\ s.ordinal = b - 48
    BY <1>1, <1>4 DEF StorageEntry, P!StorageBase, T
  <2>3. b \in 48 .. 48 + Len(v.storages) - 1
    <3>1. P!StorageImages(m)[k] \in Typed(m, {"storage_image"})
      BY FitLists DEF S
    <3>2. QED
      BY <3>1, FitBindings
  <2> HIDE DEF s, b
  <2>4. s.slot \in 0 .. p.storages - 1 /\ s.ordinal \in 0 .. p.storages - 1
    BY <1>3, <2>2, <2>3
  <2>5. QED
    BY <2>2, <2>4 DEF ValidSlot, s
<1>8. \A k \in 1 .. U : ValidSlot(p, p.slots[T + S + k])
  <2>1. SUFFICES ASSUME NEW k \in 1 .. U PROVE ValidSlot(p, p.slots[T + S + k])
    OBVIOUS
  <2>2. 0 \in 0 .. p.uniforms - 1
    BY <1>3
  <2>3. QED
    BY <1>5, <2>2 DEF ValidSlot
<1>9. ASSUME NEW n \in DOMAIN p.slots PROVE ValidSlot(p, p.slots[n])
  <2>1. n \in 1 .. T + S + U
    BY <1>4
  <2>2. CASE n <= T
    BY <1>3, <1>6, <2>1, <2>2
  <2>3. CASE T < n /\ n <= T + S
    <3>1. n - T \in 1 .. S /\ T + (n - T) = n
      BY <1>3, <2>1, <2>3
    <3>2. ValidSlot(p, p.slots[T + (n - T)])
      BY <1>7, <3>1
    <3>3. QED
      BY <3>1, <3>2
  <2>4. CASE T + S < n
    <3>1. n - T - S \in 1 .. U /\ T + S + (n - T - S) = n
      BY <1>3, <2>1, <2>4
    <3>2. ValidSlot(p, p.slots[T + S + (n - T - S)])
      BY <1>8, <3>1
    <3>3. QED
      BY <3>1, <3>2
  <2>5. QED
    BY <1>3, <2>1, <2>2, <2>3, <2>4
<1>10. p.slots # <<>>
  <2>1. Len(p.slots) # 0
    BY <1>3, <1>4
  <2>2. QED
    BY <2>1, EmptySeq
<1>11. p.textureSlots >= p.textures
  <2>1. Clean(m)
    BY DEF ModuleFits
  <2>2. p.textures <= T
    BY <1>3, <2>1, UsesEnough, FitCounts DEF T
  <2>3. QED
    BY <1>1, <1>3, <2>2
<1>12. Len(p.slots) = p.textureSlots + p.storages + p.uniforms
  BY <1>1, <1>3, <1>4
<1>13. QED
  BY <1>2, <1>9, <1>10, <1>11, <1>12 DEF ValidPass

-----------------------------------------------------------------------------
(***************************************************************************)
(* A shader set as the chain was written for is found.                     *)
(***************************************************************************)
LEMMA Largest ==
  ASSUME NEW T \in SUBSET Nat, IsFiniteSet(T), T # {}
  PROVE  Max(T) \in T /\ \A n \in T : n <= Max(T)
<1> DEFINE Above(n) == Cardinality({k \in T : k > n})
           counts == {Above(n) : n \in T}
<1>1. ASSUME NEW n \in T PROVE IsFiniteSet({k \in T : k > n}) /\ Above(n) \in Nat
  <2>1. IsFiniteSet({k \in T : k > n})
    BY FS_Subset
  <2>2. QED
    BY <2>1, FS_CardinalityType
<1>2. counts \in SUBSET Nat /\ counts # {}
  BY <1>1
<1>3. PICK x \in T : \A n \in T : Above(x) <= Above(n)
  <2> HIDE DEF Above
  <2>1. Min(counts) \in counts /\ \A c \in counts : Min(counts) <= c
    BY <1>2, Smallest
  <2>2. QED
    BY <2>1
<1>4. \A n \in T : n <= x
  <2>1. SUFFICES ASSUME NEW n \in T, n > x PROVE FALSE
    OBVIOUS
  <2> DEFINE low == {k \in T : k > n}
             high == {k \in T : k > x}
  <2>2. low \in SUBSET high /\ n \in high /\ n \notin low
    <3>1. \A k \in T : k \in Nat
      OBVIOUS
    <3>2. \A k \in T : k > n => k > x
      BY <2>1, <3>1
    <3>3. ~ (n > n)
      BY <3>1
    <3>4. QED
      BY <2>1, <3>2, <3>3
  <2>3. IsFiniteSet(high) /\ Above(x) \in Nat /\ Above(n) \in Nat
    BY <1>1
  <2>4. Cardinality(low) <= Cardinality(high) /\ Cardinality(high) # Cardinality(low)
    BY <2>2, <2>3, FS_Subset
  <2>5. QED
    BY <1>3, <2>3, <2>4
<1>5. QED
  BY <1>3, <1>4 DEF Max

\* The sorted copy goes up.
LEMMA ShadersAscend ==
  ASSUME NEW rs, TableTyped(rs), NEW a \in DOMAIN P!ById(rs), NEW b \in DOMAIN P!ById(rs), a < b
  PROVE  rs[P!ById(rs)[a]].id <= rs[P!ById(rs)[b]].id
<1> DEFINE S == ShaderAt(rs)
           before == {p \in S \X S : LET x == rs[p[1]].id
                                         y == rs[p[2]].id
                                     IN x < y \/ (x = y /\ p[1] < p[2])}
           sorted == P!ById(rs)
<1>1. sorted = P!InOrder(S, before)
  BY DEF P!ById, P!Shaders, ShaderAt
<1>2. DOMAIN rs = 1 .. Len(rs) /\ Len(rs) \in Nat
  BY DEF TableTyped, IsSequence
<1>3. IsFiniteSet(S)
  <2>1. S \in SUBSET (1 .. Len(rs))
    BY <1>2 DEF ShaderAt
  <2>2. IsFiniteSet(1 .. Len(rs))
    BY <1>2, FS_Interval
  <2>3. QED
    BY <2>1, <2>2, FS_Subset
<1>4. TotalOrder(S, before)
  BY <1>2 DEF TotalOrder, TableTyped, ShaderAt
<1>5. /\ sorted[a] \in S /\ sorted[b] \in S
      /\ PlaceIn(S, before, sorted[a]) = a - 1 /\ PlaceIn(S, before, sorted[b]) = b - 1
      /\ a \in Nat /\ b \in Nat
  <2> HIDE DEF S, before
  <2>1. QED
    BY <1>1, <1>3, <1>4, Sorted
<1>6. <<sorted[b], sorted[a]>> \notin before
  <2> HIDE DEF S, before
  <2>1. QED
    BY <1>3, <1>4, <1>5, PlaceGrows
<1>7. rs[sorted[a]].id \in Nat /\ rs[sorted[b]].id \in Nat
  BY <1>5 DEF TableTyped, ShaderAt
<1>8. ~ (rs[sorted[b]].id < rs[sorted[a]].id)
  BY <1>5, <1>6
<1>9. QED
  BY <1>7, <1>8

LEMMA FitConsecutive ==
  ASSUME NEW rs, TableTyped(rs), NEW performance, SetFits(rs, performance)
  PROVE  /\ P!Consecutive(rs, P!ById(rs))
         /\ Len(P!ById(rs)) = 2 * HalfSize(rs)
         /\ HalfSize(rs) \in Nat \ {0} /\ HalfSize(rs) >= MinimumBlock
<1> DEFINE shaders == ShaderAt(rs)
           ids == {rs[k].id : k \in shaders}
           half == HalfSize(rs)
           sorted == P!ById(rs)
           id(n) == rs[sorted[n]].id
<1>1. /\ shaders # {} /\ Cardinality(ids) = Cardinality(shaders)
      /\ Max(ids) - Min(ids) + 1 = 2 * half /\ half >= MinimumBlock
  BY DEF SetFits
<1>2. /\ DOMAIN sorted = 1 .. Len(sorted) /\ Len(sorted) \in Nat
      /\ Len(sorted) = Cardinality(shaders)
      /\ \A n \in DOMAIN sorted : sorted[n] \in shaders
      /\ \A x \in shaders : \E n \in DOMAIN sorted : x = sorted[n]
      /\ \A m, n \in DOMAIN sorted : sorted[m] = sorted[n] => m = n
  BY ShadersSorted
<1>3. \A k \in shaders : rs[k].id \in Nat
  BY DEF TableTyped, ShaderAt
<1>4. IsFiniteSet(shaders) /\ Cardinality(shaders) \in Nat
  <2>1. shaders \in SUBSET (1 .. Len(rs)) /\ Len(rs) \in Nat
    BY DEF TableTyped, IsSequence, ShaderAt
  <2>2. IsFiniteSet(1 .. Len(rs))
    BY <2>1, FS_Interval
  <2>3. IsFiniteSet(shaders)
    BY <2>1, <2>2, FS_Subset
  <2>4. QED
    BY <2>3, FS_CardinalityType
<1>5. half = Cardinality(shaders) \div 2
  BY DEF HalfSize
<1> HIDE DEF sorted, shaders, half
<1>6. /\ IsFiniteSet(ids)
      /\ \A j, k \in shaders : rs[j].id = rs[k].id => j = k
  <2> DEFINE f == [k \in shaders |-> rs[k].id]
  <2>1. f \in Surjection(shaders, ids)
    BY DEF Surjection
  <2>2. IsFiniteSet(ids) /\ f \in Injection(shaders, ids)
    <3> HIDE DEF f, ids
    <3>1. QED
      BY <1>1, <1>4, <2>1, FS_Surjection
  <2>3. QED
    BY <2>2 DEF Injection, IsInjective
<1>7. ids \in SUBSET Nat /\ ids # {}
  BY <1>1, <1>3
<1> HIDE DEF ids
<1>8. /\ Min(ids) \in ids /\ Max(ids) \in ids
      /\ \A n \in ids : Min(ids) <= n /\ n <= Max(ids)
  BY <1>6, <1>7, Smallest, Largest
<1>9. ids = Min(ids) .. Max(ids) /\ Cardinality(shaders) = 2 * half /\ half \in Nat \ {0}
  <2> DEFINE low == Min(ids)
             high == Max(ids)
             c == Cardinality(shaders)
  <2>1. low \in Nat /\ high \in Nat /\ low <= high
    BY <1>7, <1>8
  <2>2. ids \in SUBSET (low .. high)
    BY <1>7, <1>8
  <2>3. c \in Nat /\ half = c \div 2 /\ Cardinality(ids) = c /\ high - low + 1 = 2 * half
    BY <1>1, <1>4, <1>5
  <2> HIDE DEF low, high, c
  <2>4. IsFiniteSet(low .. high) /\ Cardinality(low .. high) = high - low + 1
    <3>1. Cardinality(low .. high) = IF low > high THEN 0 ELSE high - low + 1
      BY <2>1, FS_Interval
    <3>2. IsFiniteSet(low .. high)
      BY <2>1, FS_Interval
    <3>3. QED
      BY <2>1, <3>1, <3>2
  <2>5. c <= high - low + 1
    BY <2>2, <2>3, <2>4, FS_Subset
  <2>6. half \in Nat /\ 2 * half <= c
    BY <2>3
  <2>7. c = high - low + 1 /\ c = 2 * half
    BY <2>1, <2>3, <2>5, <2>6
  <2>8. ids = low .. high
    BY <2>2, <2>3, <2>4, <2>7, FS_Subset
  <2>9. half # 0
    BY <2>1, <2>3
  <2>10. QED
    BY <2>6, <2>7, <2>8, <2>9 DEF low, high, c
<1>10. ASSUME NEW n \in 2 .. Len(sorted) PROVE id(n) = id(n - 1) + 1
  <2>1. n \in DOMAIN sorted /\ n - 1 \in DOMAIN sorted /\ n \in Nat /\ n - 1 < n
    BY <1>2
  <2>2. id(n) \in ids /\ id(n - 1) \in ids /\ id(n) \in Nat /\ id(n - 1) \in Nat
    BY <1>2, <1>3, <2>1 DEF ids
  <2>3. id(n - 1) < id(n)
    <3>1. id(n - 1) <= id(n)
      BY <2>1, ShadersAscend DEF sorted
    <3>2. id(n - 1) # id(n)
      BY <1>2, <1>6, <2>1
    <3>3. QED
      BY <2>2, <3>1, <3>2
  <2>4. id(n - 1) + 1 \in ids
    <3>1. Min(ids) <= id(n - 1) /\ id(n) <= Max(ids) /\ Min(ids) \in Nat /\ Max(ids) \in Nat
      BY <1>7, <1>8, <2>2
    <3>2. id(n - 1) + 1 \in Min(ids) .. Max(ids)
      <4> HIDE DEF id
      <4>1. QED
        BY <2>2, <2>3, <3>1
    <3>3. QED
      BY <1>9, <3>2
  <2>5. PICK x \in shaders : rs[x].id = id(n - 1) + 1
    BY <2>4 DEF ids
  <2>6. PICK j \in DOMAIN sorted : x = sorted[j]
    BY <1>2
  <2>7. id(j) = id(n - 1) + 1 /\ j \in Nat
    BY <1>2, <2>5, <2>6
  <2>8. ~ (j < n)
    <3>1. SUFFICES ASSUME j < n PROVE FALSE
      OBVIOUS
    <3>2. id(j) <= id(n - 1)
      <4>1. CASE j = n - 1
        BY <2>2, <4>1
      <4>2. CASE j # n - 1
        <5>1. j < n - 1
          BY <2>1, <2>7, <3>1, <4>2
        <5>2. QED
          BY <2>1, <5>1, ShadersAscend DEF sorted
      <4>3. QED
        BY <4>1, <4>2
    <3>3. QED
      <4> HIDE DEF id
      <4>1. QED
        BY <2>2, <2>7, <3>2
  <2>9. id(n) <= id(j)
    <3>1. CASE j = n
      BY <2>2, <3>1
    <3>2. CASE j # n
      <4>1. n < j
        BY <2>1, <2>7, <2>8, <3>2
      <4>2. QED
        BY <2>1, <4>1, ShadersAscend DEF sorted
    <3>3. QED
      BY <3>1, <3>2
  <2> HIDE DEF id
  <2>10. QED
    BY <2>2, <2>3, <2>7, <2>9
<1>11. P!Consecutive(rs, sorted)
  BY <1>10 DEF P!Consecutive
<1>12. QED
  BY <1>1, <1>2, <1>9, <1>11 DEF sorted, half

\* The places of the two halves.
LEMMA HalfPlaces ==
  ASSUME NEW half \in Nat \ {0}, NEW n \in 1 .. 2 * half
  PROVE  /\ (n - 1) \div half \in {0, 1}
         /\ (n - 1) \div half = 0 <=> n \in 0 * half + 1 .. (0 + 1) * half
         /\ (n - 1) \div half = 1 <=> n \in 1 * half + 1 .. (1 + 1) * half
<1>1. CASE n <= half
  <2>1. n - 1 \in 0 .. half - 1
    BY <1>1
  <2>2. (0 * half + (n - 1)) \div half = 0
    BY <2>1, Halves
  <2>3. (n - 1) \div half = 0
    BY <2>1, <2>2
  <2>4. QED
    BY <2>3, <1>1
<1>2. CASE n > half
  <2>1. n - 1 - half \in 0 .. half - 1
    BY <1>2
  <2>2. (1 * half + (n - 1 - half)) \div half = 1
    BY <2>1, Halves
  <2>3. 1 * half + (n - 1 - half) = n - 1
    OBVIOUS
  <2>4. (n - 1) \div half = 1
    BY <2>2, <2>3
  <2>5. QED
    BY <2>4, <1>2
<1>3. QED
  BY <1>1, <1>2

\* Where the shaders of a set that fits stand.
LEMMA FitPlaces ==
  ASSUME NEW rs, TableTyped(rs), NEW performance, SetFits(rs, performance)
  PROVE  LET sorted == P!ById(rs)
         IN /\ DOMAIN sorted = 1 .. 2 * HalfSize(rs)
            /\ HalfSize(rs) \in Nat \ {0}
            /\ \A n \in DOMAIN sorted :
                 /\ sorted[n] \in ShaderAt(rs)
                 /\ Position(rs, sorted[n]) = n - 1
                 /\ rs[sorted[n]].id = rs[sorted[1]].id + n - 1
            /\ \A x \in ShaderAt(rs) : \E n \in DOMAIN sorted : x = sorted[n]
            /\ \A x \in ShaderAt(rs) : Position(rs, x) \div HalfSize(rs) \in {0, 1}
<1> DEFINE sorted == P!ById(rs)
           half == HalfSize(rs)
<1>1. P!Consecutive(rs, sorted) /\ Len(sorted) = 2 * half /\ half \in Nat \ {0}
  BY FitConsecutive
<1>2. /\ DOMAIN sorted = 1 .. Len(sorted)
      /\ \A n \in DOMAIN sorted : sorted[n] \in ShaderAt(rs)
      /\ \A x \in ShaderAt(rs) : \E n \in DOMAIN sorted : x = sorted[n]
  BY ShadersSorted
<1>3. \A n \in DOMAIN sorted :
        rs[sorted[n]].id = rs[sorted[1]].id + n - 1 /\ Position(rs, sorted[n]) = n - 1
  BY <1>1, IdsCount
<1>4. ASSUME NEW x \in ShaderAt(rs) PROVE Position(rs, x) \div half \in {0, 1}
  <2>1. PICK n \in DOMAIN sorted : x = sorted[n]
    BY <1>2
  <2>2. n \in 1 .. 2 * half /\ Position(rs, x) = n - 1
    BY <1>1, <1>2, <1>3, <2>1
  <2> HIDE DEF half
  <2>3. QED
    BY <1>1, <2>2, HalfPlaces
<1> HIDE DEF sorted, half
<1>5. QED
  BY <1>1, <1>2, <1>3, <1>4 DEF sorted, half

\* What declares_float16 says of a half.
LEMMA FitDeclares ==
  ASSUME NEW rs, TableTyped(rs), NEW performance, SetFits(rs, performance), NEW b \in {0, 1}
  PROVE  P!DeclaresFloat16(rs, P!ById(rs), HalfSize(rs), b)
           <=> \E j \in ShaderAt(rs) :
                 Position(rs, j) \div HalfSize(rs) = b /\ rs[j].data.float16
<1> DEFINE sorted == P!ById(rs)
           half == HalfSize(rs)
           places == b * half + 1 .. (b + 1) * half
<1>1. /\ DOMAIN sorted = 1 .. 2 * half /\ half \in Nat \ {0}
      /\ \A n \in DOMAIN sorted : sorted[n] \in ShaderAt(rs) /\ Position(rs, sorted[n]) = n - 1
      /\ \A x \in ShaderAt(rs) : \E n \in DOMAIN sorted : x = sorted[n]
  BY FitPlaces
<1> HIDE DEF sorted, half
<1>2. \A n \in 1 .. 2 * half : (n - 1) \div half = b <=> n \in places
  <2>1. SUFFICES ASSUME NEW n \in 1 .. 2 * half PROVE (n - 1) \div half = b <=> n \in places
    OBVIOUS
  <2>2. CASE b = 0
    BY <1>1, <2>2, HalfPlaces
  <2>3. CASE b = 1
    BY <1>1, <2>3, HalfPlaces
  <2>4. QED
    BY <2>2, <2>3
<1>3. places \subseteq 1 .. 2 * half
  <2>1. CASE b = 0
    BY <1>1, <2>1
  <2>2. CASE b = 1
    BY <1>1, <2>2
  <2>3. QED
    BY <2>1, <2>2
<1>4. P!DeclaresFloat16(rs, sorted, half, b) <=> \E n \in places : rs[sorted[n]].data.float16
  BY DEF P!DeclaresFloat16, P!Half
<1> HIDE DEF places
<1>5. ASSUME NEW n \in places, rs[sorted[n]].data.float16
      PROVE  \E j \in ShaderAt(rs) : Position(rs, j) \div half = b /\ rs[j].data.float16
  <2>1. n \in DOMAIN sorted /\ (n - 1) \div half = b
    BY <1>1, <1>2, <1>3
  <2>2. sorted[n] \in ShaderAt(rs) /\ Position(rs, sorted[n]) \div half = b
    BY <1>1, <2>1
  <2>3. QED
    BY <1>5, <2>2
<1>6. ASSUME NEW j \in ShaderAt(rs), Position(rs, j) \div half = b, rs[j].data.float16
      PROVE  \E n \in places : rs[sorted[n]].data.float16
  <2>1. PICK n \in DOMAIN sorted : j = sorted[n]
    BY <1>1
  <2>2. n \in places
    BY <1>1, <1>2, <1>6, <2>1
  <2>3. QED
    BY <1>6, <2>1, <2>2
<1>7. QED
  BY <1>4, <1>5, <1>6 DEF sorted, half

\* identify finds it, and its modules are the ones the chain needs.
LEMMA FitIdentified ==
  ASSUME NEW rs, TableTyped(rs), NEW performance, SetFits(rs, performance)
  PROVE  /\ P!Identify(rs).error = "ok"
         /\ P!Identify(rs).value.size = HalfSize(rs)
         /\ P!RequiredModules(P!Identify(rs).value, "high", performance).error = "ok"
<1> DEFINE sorted == P!ById(rs)
           half == HalfSize(rs)
           Declares(b) == P!DeclaresFloat16(rs, sorted, half, b)
           Bad == {n \in DOMAIN sorted : rs[sorted[n]].data.scan # "ok" \/ ~ rs[sorted[n]].data.compute}
<1>1. /\ P!Consecutive(rs, sorted) /\ Len(sorted) = 2 * half
      /\ half \in Nat \ {0} /\ half >= MinimumBlock
  BY FitConsecutive
<1>2. \A n \in DOMAIN sorted : sorted[n] \in ShaderAt(rs)
  BY FitPlaces
<1>3. Bad = {}
  BY <1>2 DEF SetFits
<1>4. Declares(0) # Declares(1)
  <2> DEFINE At(k) == Position(rs, k) \div half
             Low(b) == \E j \in ShaderAt(rs) : At(j) = b /\ rs[j].data.float16
  <2>1. PICK k \in ShaderAt(rs) : Low(At(k))
    BY DEF SetFits, SameHalf
  <2>2. PICK l \in ShaderAt(rs) : ~ Low(At(l))
    BY DEF SetFits, SameHalf
  <2>3. At(k) \in {0, 1} /\ At(l) \in {0, 1}
    BY FitPlaces
  <2>4. \A b \in {0, 1} : Declares(b) <=> Low(b)
    BY FitDeclares
  <2> HIDE DEF At, Low, Declares
  <2>5. Low(0) <=> ~ Low(1)
    <3>1. CASE At(k) = 0
      <4>1. At(l) = 1
        BY <2>1, <2>2, <2>3, <3>1
      <4>2. QED
        BY <2>1, <2>2, <3>1, <4>1
    <3>2. CASE At(k) = 1
      <4>1. At(l) = 0
        BY <2>1, <2>2, <2>3, <3>2
      <4>2. QED
        BY <2>1, <2>2, <3>2, <4>1
    <3>3. QED
      BY <2>3, <3>1, <3>2
  <2>6. (Declares(0) <=> Low(0)) /\ (Declares(1) <=> Low(1))
    BY <2>4
  <2>7. Declares(0) <=> ~ Declares(1)
    BY <2>5, <2>6
  <2>8. QED
    BY <2>7
<1>5. sorted # <<>>
  <2>1. Len(sorted) # 0 /\ Len(<<>>) = 0
    BY <1>1
  <2>2. QED
    BY <2>1
<1>6. Len(sorted) % 2 = 0 /\ Len(sorted) \div 2 = half /\ ~ (half < MinimumBlock)
  <2>1. (2 * half) % 2 = 0 /\ (2 * half) \div 2 = half
    BY <1>1
  <2>2. ~ (half < MinimumBlock)
    BY <1>1, DeploymentAssumption
  <2>3. QED
    BY <1>1, <2>1, <2>2
<1> HIDE DEF sorted, half, Bad
<1> DEFINE low == IF Declares(0) THEN 0 ELSE 1
           set == [first |-> rs[sorted[1]].id, size |-> half, low |-> low, high |-> 1 - low]
<1>7. P!Identify(rs) = P!Ok(set)
  BY <1>1, <1>3, <1>4, <1>5, <1>6, Zenon DEF P!Identify, sorted, half, Bad
<1>8. P!Identify(rs).error = "ok" /\ P!Identify(rs).value = set
  BY <1>7 DEF P!Ok
<1>9. set.size = half
  OBVIOUS
<1> HIDE DEF set
<1>10. P!RequiredModules(set, "high", performance).error = "ok"
  <2>1. \A s \in DOMAIN Chain : P!BlockIndexOf(performance, Chain[s]) < half
    BY DEF P!BlockIndexOf, SetFits, half
  <2>2. \A s \in DOMAIN Chain : P!BlockIndexOf(performance, Chain[s]) \in Nat
    BY DeploymentAssumption DEF P!BlockIndexOf
  <2>3. \A s \in DOMAIN Chain : ~ (P!BlockIndexOf(performance, Chain[s]) >= half)
    BY <1>1, <2>1, <2>2
  <2>4. QED
    BY <1>6, <1>9, <2>3 DEF P!RequiredModules, P!Ok
<1>11. QED
  BY <1>8, <1>9, <1>10 DEF half

\* Two shaders at the same place of a half without Float16 are the same.
LEMMA FitUnique ==
  ASSUME NEW rs, TableTyped(rs), NEW performance, SetFits(rs, performance),
         NEW j \in ShaderAt(rs), NEW k \in ShaderAt(rs),
         Position(rs, j) % HalfSize(rs) = Position(rs, k) % HalfSize(rs),
         \A x \in ShaderAt(rs) : SameHalf(rs, x, j) => ~ rs[x].data.float16,
         \A x \in ShaderAt(rs) : SameHalf(rs, x, k) => ~ rs[x].data.float16
  PROVE  j = k
<1> DEFINE sorted == P!ById(rs)
           half == HalfSize(rs)
           At(x) == Position(rs, x) \div half
<1>1. /\ DOMAIN sorted = 1 .. 2 * half /\ half \in Nat \ {0}
      /\ \A n \in DOMAIN sorted : Position(rs, sorted[n]) = n - 1
      /\ \A x \in ShaderAt(rs) : \E n \in DOMAIN sorted : x = sorted[n]
      /\ \A x \in ShaderAt(rs) : At(x) \in {0, 1}
  BY FitPlaces
<1>2. At(j) = At(k)
  <2>1. PICK x \in ShaderAt(rs), y \in ShaderAt(rs) : At(y) = At(x) /\ rs[y].data.float16
    BY DEF SetFits, SameHalf
  <2>2. At(y) # At(j) /\ At(y) # At(k)
    BY <2>1 DEF SameHalf
  <2> HIDE DEF At
  <2>3. QED
    BY <1>1, <2>2
<1>3. PICK m \in DOMAIN sorted, n \in DOMAIN sorted : j = sorted[m] /\ k = sorted[n]
  BY <1>1
<1>4. /\ m \in 1 .. 2 * half /\ n \in 1 .. 2 * half
      /\ (m - 1) \div half = (n - 1) \div half /\ (m - 1) % half = (n - 1) % half
  BY <1>1, <1>2, <1>3
<1> HIDE DEF half, sorted, At
<1>5. ASSUME NEW p \in Nat, NEW q \in Nat, p \div half = q \div half, p % half = q % half
      PROVE  p = q
  <2>1. p = (half * (p \div half)) + (p % half)
    BY <1>1
  <2>2. q = (half * (q \div half)) + (q % half)
    BY <1>1
  <2> DEFINE c == p \div half
             r == p % half
  <2>3. p = half * c + r /\ q = half * c + r
    BY <1>5, <2>1, <2>2
  <2> HIDE DEF c, r
  <2>4. QED
    BY <2>3
<1>6. m - 1 \in Nat /\ n - 1 \in Nat
  BY <1>1, <1>4
<1>7. m - 1 = n - 1
  BY <1>4, <1>5, <1>6
<1>8. QED
  BY <1>3, <1>4, <1>7

\* A shader that stands where a dispatch asks for one is the one it stands for.
LEMMA FitShader ==
  ASSUME NEW rs, TableTyped(rs), NEW performance, SetFits(rs, performance),
         NEW d, NEW k \in ShaderAt(rs),
         Position(rs, k) % HalfSize(rs) = P!BlockIndexOf(performance, Chain[d.slot]),
         \A j \in ShaderAt(rs) : SameHalf(rs, j, k) => ~ rs[j].data.float16
  PROVE  ShaderOf(rs, performance, d) = k
<1> DEFINE Stands(x) ==
             /\ Position(rs, x) % HalfSize(rs)
                  = Chain[d.slot].block
                      + (IF performance /\ Chain[d.slot].performance THEN PerformanceOffset ELSE 0)
             /\ \A j \in ShaderAt(rs) : SameHalf(rs, j, x) => ~ rs[j].data.float16
           s == ShaderOf(rs, performance, d)
<1>1. s = CHOOSE x \in ShaderAt(rs) : Stands(x)
  BY DEF ShaderOf
<1>2. Stands(k)
  BY DEF P!BlockIndexOf
<1>3. s \in ShaderAt(rs) /\ Stands(s)
  <2> HIDE DEF Stands, s
  <2>1. QED
    BY <1>1, <1>2
<1>4. Position(rs, s) % HalfSize(rs) = Position(rs, k) % HalfSize(rs)
  BY <1>2, <1>3
<1>5. QED
  BY <1>2, <1>3, <1>4, FitUnique

\* What the chain asks for is in the table, and find_resource comes to it.
LEMMA FitFound ==
  ASSUME NEW rs, TableTyped(rs), NEW performance, SetFits(rs, performance),
         NEW block \in 0 .. HalfSize(rs) - 1
  PROVE  LET id == P!ResourceIdFor(P!Identify(rs).value, "high", block)
             found == P!FindResource(rs, id)
             k == Min(found)
         IN /\ found # {} /\ k \in ShaderAt(rs)
            /\ Position(rs, k) % HalfSize(rs) = block
            /\ \A j \in ShaderAt(rs) : SameHalf(rs, j, k) => ~ rs[j].data.float16
<1> DEFINE set == P!Identify(rs).value
           id == P!ResourceIdFor(set, "high", block)
           found == P!FindResource(rs, id)
           sorted == P!ById(rs)
           half == HalfSize(rs)
           k == Min(found)
<1>1. P!Identify(rs).error = "ok" /\ set.size = half
  BY FitIdentified
<1>2. /\ DOMAIN sorted = 1 .. 2 * half /\ half \in Nat \ {0}
      /\ \A n \in DOMAIN sorted :
           sorted[n] \in ShaderAt(rs) /\ rs[sorted[n]].id = rs[sorted[1]].id + n - 1
  BY FitPlaces
<1>3. set.first = rs[sorted[1]].id /\ set.high \in {0, 1}
  <2> DEFINE low == IF P!DeclaresFloat16(rs, sorted, Len(sorted) \div 2, 0) THEN 0 ELSE 1
  <2>1. set = [first |-> rs[sorted[1]].id, size |-> Len(sorted) \div 2, low |-> low,
               high |-> 1 - low]
    BY <1>1, Identified
  <2>2. low \in {0, 1}
    OBVIOUS
  <2> HIDE DEF low
  <2>3. 1 - low \in {0, 1}
    BY <2>2
  <2>4. QED
    BY <2>1, <2>3
<1>4. PICK n \in DOMAIN sorted : rs[sorted[n]].id = id
  <2> DEFINE place == set.high * half + block + 1
  <2>1. id = rs[sorted[1]].id + set.high * half + block
    BY <1>1, <1>3 DEF P!ResourceIdFor
  <2>2. place \in 1 .. 2 * half /\ set.high * half \in Nat
    <3>1. CASE set.high = 0
      BY <1>2, <3>1
    <3>2. CASE set.high = 1
      BY <1>2, <3>2
    <3>3. QED
      BY <1>3, <3>1, <3>2
  <2>3. rs[sorted[1]].id \in Nat
    BY <1>2 DEF TableTyped, ShaderAt
  <2>4. rs[sorted[place]].id = rs[sorted[1]].id + place - 1
    <3> HIDE DEF place
    <3>1. QED
      BY <1>2, <2>2
  <2> DEFINE before == set.high * half
  <2>5. rs[sorted[place]].id = id
    <3>1. rs[sorted[1]].id + (before + block + 1) - 1 = rs[sorted[1]].id + before + block
      <4> HIDE DEF before
      <4>1. before \in Nat /\ block \in Nat
        BY <2>2 DEF before
      <4>2. QED
        BY <2>3, <4>1
    <3>2. QED
      BY <2>1, <2>4, <3>1
  <2> HIDE DEF place
  <2>6. QED
    BY <1>2, <2>2, <2>5
<1>5. sorted[n] \in found
  BY <1>2, <1>4 DEF P!FindResource, ShaderAt
<1>6. k \in found
  <2>1. found \in SUBSET Nat
    BY DEF TableTyped, IsSequence, P!FindResource
  <2>2. QED
    BY <1>5, <2>1, Smallest
<1>7. k \in ShaderAt(rs) /\ rs[k].id = id
  <2>1. k \in DOMAIN rs /\ rs[k].type = P!RcData /\ rs[k].id = id
    BY <1>6 DEF P!FindResource
  <2>2. id \in {rs[x].id : x \in ShaderAt(rs)}
    BY <1>2, <1>4
  <2>3. QED
    BY <2>1, <2>2 DEF SetFits
<1> HIDE DEF k, half, set
<1>8. /\ Position(rs, k) % HalfSize(rs) = block
      /\ \A j \in ShaderAt(rs) : SameHalf(rs, j, k) => ~ rs[j].data.float16
  BY <1>1, <1>7, HighFound DEF half, set
<1>9. QED
  BY <1>5, <1>7, <1>8 DEF k, set

-----------------------------------------------------------------------------
(***************************************************************************)
(* And it is prepared.                                                     *)
(***************************************************************************)
\* The variants of a dispatch of a candidate.
LEMMA FitVariants ==
  ASSUME NEW c \in DOMAIN Candidates, NEW n \in DOMAIN Candidates[c].graph.dispatches
  PROVE  LET graph == Candidates[c].graph
             d == graph.dispatches[n]
         IN /\ d.slot \in DOMAIN Chain
            /\ d.first \in VariantsOf(d)
            /\ \A v \in VariantsOf(d) : VariantTyped(graph.variants[v])
<1> DEFINE graph == Candidates[c].graph
           d == graph.dispatches[n]
           built == Built(graph)
           e == built.dispatches[n]
<1>1. ValidGraph(built) /\ d.slot \in DOMAIN Chain
  BY GraphsAssumption
<1>2. /\ n \in DOMAIN built.dispatches /\ e.first = d.first /\ e.count = d.count
      /\ built.variants = graph.variants
  BY DEF Built
<1>3. VariantsOf(e) = VariantsOf(d)
  BY <1>2 DEF VariantsOf
<1> HIDE DEF built, e
<1>4. /\ d.first \in Nat /\ d.count \in Nat \ {0}
      /\ VariantsOf(d) \subseteq DOMAIN graph.variants
      /\ \A v \in VariantsOf(d) : ValidVariant(built, e, graph.variants[v])
  BY <1>1, <1>2, <1>3 DEF ValidGraph, e
<1>5. d.first \in VariantsOf(d)
  BY <1>4 DEF VariantsOf
<1>6. ASSUME NEW v \in VariantsOf(d) PROVE VariantTyped(graph.variants[v])
  <2> DEFINE w == graph.variants[v]
  <2>1. v \in DOMAIN graph.variants
    BY <1>4
  <2>2. /\ w.storages # <<>> /\ w.samplers \in Seq(0 .. IntroducedSampler - 1)
        /\ Len(w.samplers) <= MaxDispatchSamplers
    BY <2>1, GraphsAssumption
  <2>3. w.textures \in Seq(DOMAIN built.images) /\ w.storages \in Seq(DOMAIN built.images)
    BY <1>4 DEF ValidVariant
  <2> HIDE DEF w
  <2>4. IsSequence(w.textures) /\ IsSequence(w.storages)
    BY <2>3, InSequence
  <2>5. VariantTyped(w)
    BY <2>2, <2>4 DEF VariantTyped, IsSequence
  <2>6. QED
    BY <2>5 DEF w
<1>7. QED
  BY <1>1, <1>5, <1>6

\* The module a dispatch asks for has what each of its variants has.
LEMMA FitModule ==
  ASSUME DllInv, NEW c \in DOMAIN Candidates, DllFits(Candidates[c]),
         NEW k \in ShaderAt(P!Table), NEW block,
         Position(P!Table, k) % HalfSize(P!Table) = block,
         \A j \in ShaderAt(P!Table) : SameHalf(P!Table, j, k) => ~ P!Table[j].data.float16
  PROVE  LET m == P!Table[k].data
             graph == Candidates[c].graph
         IN /\ Readable(m) /\ m.magic /\ m.scan = "ok" /\ m.compute
            /\ \A n \in DOMAIN graph.dispatches :
                 LET d == graph.dispatches[n]
                 IN P!BlockIndexOf(Candidates[c].performance, Chain[d.slot]) = block =>
                      \A v \in VariantsOf(d) : ModuleFits(m, graph.variants[v])
<1> DEFINE rs == P!Table
           m == rs[k].data
           performance == Candidates[c].performance
           graph == Candidates[c].graph
<1>1. /\ P!Walked.error = "ok" /\ SetFits(rs, performance)
      /\ \A n \in DOMAIN graph.dispatches :
           LET d == graph.dispatches[n]
           IN \A v \in VariantsOf(d) :
                ModuleFits(rs[ShaderOf(rs, performance, d)].data, graph.variants[v])
  BY DEF DllFits
<1>2. TableTyped(rs) /\ \A j \in DOMAIN rs : rs[j].data.magic => Readable(rs[j].data)
  BY <1>1, DllsAssumption DEF DllInv, TableTyped, P!Table, P!Walked
<1>3. k \in DOMAIN rs /\ m.magic
  BY DEF ShaderAt
<1> HIDE DEF rs
<1>4. m.scan = "ok" /\ m.compute
  BY <1>1 DEF SetFits, rs
<1>5. ASSUME NEW n \in DOMAIN graph.dispatches,
             P!BlockIndexOf(performance, Chain[graph.dispatches[n].slot]) = block
      PROVE  ShaderOf(rs, performance, graph.dispatches[n]) = k
  BY <1>1, <1>2, <1>5, FitShader DEF rs
<1>6. QED
  BY <1>1, <1>2, <1>3, <1>4, <1>5 DEF rs

\* And is translated.
LEMMA FitTranslated ==
  ASSUME DllInv, NEW c \in DOMAIN Candidates, DllFits(Candidates[c]),
         NEW k \in ShaderAt(P!Table), NEW s \in DOMAIN Chain,
         Position(P!Table, k) % HalfSize(P!Table)
           = P!BlockIndexOf(Candidates[c].performance, Chain[s]),
         \A j \in ShaderAt(P!Table) : SameHalf(P!Table, j, k) => ~ P!Table[j].data.float16
  PROVE  \E v : /\ VariantTyped(v) /\ ModuleFits(P!Table[k].data, v)
                /\ Readable(P!Table[k].data)
                /\ P!Slots(P!Table[k].data).error = "ok"
<1> DEFINE m == P!Table[k].data
           graph == Candidates[c].graph
<1>1. PICK n \in DOMAIN graph.dispatches : graph.dispatches[n].slot = s
  BY GraphsAssumption
<1> DEFINE d == graph.dispatches[n]
           v == graph.variants[d.first]
<1>2. d.first \in VariantsOf(d) /\ VariantTyped(v)
  BY FitVariants
<1>3. /\ Readable(m) /\ m.magic /\ m.scan = "ok" /\ m.compute
      /\ \A u \in VariantsOf(d) : ModuleFits(m, graph.variants[u])
  BY <1>1, FitModule
<1>4. ModuleFits(m, v)
  BY <1>2, <1>3
<1> HIDE DEF m, v
<1>5. P!Slots(m).error = "ok"
  BY <1>2, <1>3, <1>4, FitSlots
<1>6. QED
  BY <1>2, <1>3, <1>4, <1>5 DEF m

\* What the passes of a DLL that fits are, while they are made.
LEMMA FitPasses ==
  ASSUME CardInv, DllInv, RequestsInv, PassesInv, FitInv, step = "modules",
         DllFits(Candidates[config])
  PROVE  /\ \A s \in DOMAIN Chain : \E n \in DOMAIN requests :
              requests[n].block = P!BlockIndexOf(P!Performance, Chain[s])
         /\ \A n \in DOMAIN requests : \E s \in DOMAIN Chain :
              requests[n].block = P!BlockIndexOf(P!Performance, Chain[s])
         /\ \A n \in DOMAIN requests : requests[n].block \in 0 .. HalfSize(P!Table) - 1
         /\ \A p \in DOMAIN passes :
              LET m == P!Table[used[p]].data
                  graph == Candidates[config].graph
              IN /\ Readable(m) /\ MadeFrom(passes[p], m)
                 /\ ValidPass(passes[p])
                 /\ \A n \in DOMAIN graph.dispatches :
                      LET d == graph.dispatches[n]
                      IN P!BlockIndexOf(P!Performance, Chain[d.slot]) = passes[p].block =>
                           \A v \in VariantsOf(d) : SameInterface(passes[p], graph.variants[v])
<1> DEFINE rs == P!Table
           performance == P!Performance
           graph == Candidates[config].graph
           set == P!Identify(rs)
<1>1. config \in DOMAIN Candidates /\ performance = Candidates[config].performance
  BY DEF CardInv, P!Configs, P!Performance
<1>2. SetFits(rs, performance)
  BY <1>1 DEF DllFits
<1>3. TableTyped(rs)
  BY TableListed
<1>4. set.error = "ok" /\ set.value.size = HalfSize(rs) /\ HalfSize(rs) \in Nat \ {0}
  BY <1>2, <1>3, FitIdentified, FitConsecutive
<1>5. /\ P!RequiredModules(set.value, "high", performance).error = "ok"
      /\ requests = P!RequiredModules(set.value, "high", performance).value
      /\ \A p \in DOMAIN passes :
           p \in DOMAIN requests /\ passes[p].block = requests[p].block
  BY DEF FitInv
<1>6. /\ \A s \in DOMAIN Chain : \E n \in DOMAIN requests :
           requests[n].block = P!BlockIndexOf(performance, Chain[s])
      /\ \A n \in DOMAIN requests : \E s \in DOMAIN Chain :
           requests[n].block = P!BlockIndexOf(performance, Chain[s])
      /\ \A n \in DOMAIN requests : requests[n].block \in 0 .. HalfSize(rs) - 1
  <2>1. set.value.size \in Nat
    BY <1>4
  <2> HIDE DEF set, performance, rs
  <2>2. QED
    BY <1>4, <1>5, <2>1, Required
<1> HIDE DEF set
<1>7. ASSUME NEW p \in DOMAIN passes
      PROVE  LET m == rs[used[p]].data
             IN /\ Readable(m) /\ MadeFrom(passes[p], m)
                /\ ValidPass(passes[p])
                /\ \A n \in DOMAIN graph.dispatches :
                     LET d == graph.dispatches[n]
                     IN P!BlockIndexOf(performance, Chain[d.slot]) = passes[p].block =>
                          \A v \in VariantsOf(d) : SameInterface(passes[p], graph.variants[v])
  <2> DEFINE k == used[p]
             m == rs[k].data
  <2>1. p \in DOMAIN used
    BY DEF RequestsInv, IsSequence
  <2>2. /\ k \in ShaderAt(rs) /\ Position(rs, k) % HalfSize(rs) = passes[p].block
        /\ \A j \in ShaderAt(rs) : SameHalf(rs, j, k) => ~ rs[j].data.float16
    BY <2>1 DEF RequestsInv, HighPrecisionModules
  <2>3. PICK s \in DOMAIN Chain : passes[p].block = P!BlockIndexOf(performance, Chain[s])
    BY <1>5, <1>6
  <2>4. PICK v : VariantTyped(v) /\ ModuleFits(m, v) /\ Readable(m)
    BY <1>1, <2>2, <2>3, FitTranslated
  <2>5. MadeFrom(passes[p], m)
    BY <2>4 DEF PassesInv, MadeFrom
  <2>6. ValidPass(passes[p])
    <3> HIDE DEF m
    <3>1. QED
      BY <2>4, <2>5, FitPass
  <2>7. ASSUME NEW n \in DOMAIN graph.dispatches,
               P!BlockIndexOf(performance, Chain[graph.dispatches[n].slot]) = passes[p].block,
               NEW u \in VariantsOf(graph.dispatches[n])
        PROVE  SameInterface(passes[p], graph.variants[u])
    <3>1. ModuleFits(m, graph.variants[u])
      BY <1>1, <2>2, <2>7, FitModule
    <3>2. VariantTyped(graph.variants[u])
      BY <1>1, FitVariants
    <3> HIDE DEF m, graph
    <3>3. QED
      BY <2>4, <2>5, <3>1, <3>2, FitPass
  <2>8. QED
    BY <2>4, <2>5, <2>6, <2>7
<1>8. QED
  BY <1>6, <1>7

\* validate accepts what was made of it.
LEMMA FitValid ==
  ASSUME CardInv, DllInv, RequestsInv, PassesInv, FitInv, P!Translated,
         DllFits(Candidates[config])
  PROVE  P!ValidManifest(P!Contents)
<1> DEFINE c == P!Contents
           graph == Candidates[config].graph
           built == Built(graph)
<1>1. step = "modules" /\ Len(passes) = Len(requests)
  BY DEF P!Translated
<1>2. config \in DOMAIN Candidates
  BY DEF CardInv, P!Configs
<1>3. /\ c.images = graph.images /\ c.generated = graph.generated
      /\ c.uniforms = graph.uniforms /\ c.variants = graph.variants /\ c.passes = passes
      /\ c.dispatches = [k \in DOMAIN graph.dispatches |-> P!Dispatch(graph.dispatches[k])]
  BY DEF P!Contents, P!Graph
<1>4. /\ DOMAIN c.dispatches = DOMAIN graph.dispatches
      /\ \A k \in DOMAIN graph.dispatches :
           LET d == c.dispatches[k]
               e == graph.dispatches[k]
           IN /\ d.first = e.first /\ d.count = e.count /\ d.name = Chain[e.slot].name
              /\ d.block = P!BlockIndexOf(P!Performance, Chain[e.slot])
  <2> HIDE DEF c, graph
  <2>1. DOMAIN c.dispatches = DOMAIN graph.dispatches
    BY <1>3
  <2>2. ASSUME NEW k \in DOMAIN graph.dispatches
        PROVE  LET d == c.dispatches[k]
                   e == graph.dispatches[k]
               IN /\ d.first = e.first /\ d.count = e.count /\ d.name = Chain[e.slot].name
                  /\ d.block = P!BlockIndexOf(P!Performance, Chain[e.slot])
    <3>1. c.dispatches[k] = P!Dispatch(graph.dispatches[k])
      BY <1>3
    <3>2. QED
      BY <3>1 DEF P!Dispatch
  <2>3. QED
    BY <2>1, <2>2
<1>5. ValidGraph(c)
  <2>1. ValidGraph(built)
    BY <1>2, GraphsAssumption
  <2>2. /\ built.images = graph.images /\ built.generated = graph.generated
        /\ built.uniforms = graph.uniforms /\ built.variants = graph.variants
        /\ DOMAIN built.dispatches = DOMAIN graph.dispatches
        /\ \A k \in DOMAIN graph.dispatches :
             LET d == built.dispatches[k]
                 e == graph.dispatches[k]
             IN d.first = e.first /\ d.count = e.count /\ d.name = Chain[e.slot].name
    BY DEF Built
  <2> HIDE DEF c, built, graph
  <2>3. Len(c.images) > HistoryImages + c.generated
    BY <1>3, <2>1, <2>2 DEF ValidGraph
  <2>4. \A i \in DOMAIN c.images :
          /\ i <= HistoryImages <=> c.images[i].role = "history"
          /\ i \in HistoryImages + 1 .. HistoryImages + c.generated
               <=> c.images[i].role = "generated"
    BY <1>3, <2>1, <2>2 DEF ValidGraph
  <2>5. ASSUME NEW k \in DOMAIN c.dispatches
        PROVE  LET d == c.dispatches[k]
               IN /\ d.first \in Nat /\ d.count \in Nat \ {0}
                  /\ VariantsOf(d) \subseteq DOMAIN c.variants
                  /\ \A v \in VariantsOf(d) : ValidVariant(c, d, c.variants[v])
    <3> DEFINE d == c.dispatches[k]
               b == built.dispatches[k]
    <3>1. k \in DOMAIN built.dispatches /\ d.first = b.first /\ d.count = b.count /\ d.name = b.name
      BY <1>4, <2>2
    <3>2. /\ b.first \in Nat /\ b.count \in Nat \ {0}
          /\ VariantsOf(b) \subseteq DOMAIN built.variants
          /\ \A v \in VariantsOf(b) : ValidVariant(built, b, built.variants[v])
      BY <2>1, <3>1 DEF ValidGraph
    <3> HIDE DEF d, b
    <3>3. VariantsOf(d) = VariantsOf(b)
      BY <3>1 DEF VariantsOf
    <3>4. \A v : ValidVariant(built, b, v) => ValidVariant(c, d, v)
      BY <1>3, <2>2, <3>1 DEF ValidVariant
    <3>5. QED
      BY <1>3, <2>2, <3>1, <3>2, <3>3, <3>4 DEF d
  <2>6. QED
    BY <2>3, <2>4, <2>5 DEF ValidGraph
<1>6. DOMAIN passes = DOMAIN requests /\ DOMAIN passes \in SUBSET Nat
  BY <1>1 DEF RequestsInv, IsSequence
<1>7. \A p \in DOMAIN passes : passes[p].block = requests[p].block
  BY <1>1 DEF FitInv
<1>8. /\ \A s \in DOMAIN Chain : \E n \in DOMAIN requests :
           requests[n].block = P!BlockIndexOf(P!Performance, Chain[s])
      /\ \A p \in DOMAIN passes :
           /\ ValidPass(passes[p])
           /\ \A n \in DOMAIN graph.dispatches :
                LET d == graph.dispatches[n]
                IN P!BlockIndexOf(P!Performance, Chain[d.slot]) = passes[p].block =>
                     \A v \in VariantsOf(d) : SameInterface(passes[p], graph.variants[v])
  BY <1>1, FitPasses
<1>9. ASSUME NEW k \in DOMAIN c.dispatches
      PROVE  LET d == c.dispatches[k]
             IN /\ PassesOf(c, d) # {}
                /\ \A v \in VariantsOf(d) :
                     SameInterface(c.passes[PassOf(c, d)], c.variants[v])
  <2> DEFINE d == c.dispatches[k]
             e == graph.dispatches[k]
  <2>1. k \in DOMAIN graph.dispatches /\ e.slot \in DOMAIN Chain
    BY <1>2, <1>4, FitVariants
  <2>2. /\ d.first = e.first /\ d.count = e.count
        /\ d.block = P!BlockIndexOf(P!Performance, Chain[e.slot])
    BY <1>4, <2>1
  <2>3. VariantsOf(d) = VariantsOf(e)
    BY <2>2 DEF VariantsOf
  <2> HIDE DEF c, d
  <2>4. PassesOf(c, d) = {p \in DOMAIN passes : passes[p].block = d.block}
    BY <1>3 DEF PassesOf
  <2>6. PICK n \in DOMAIN requests : requests[n].block = d.block
    BY <1>8, <2>1, <2>2
  <2>7. n \in PassesOf(c, d)
    BY <1>6, <1>7, <2>4, <2>6
  <2>8. PassOf(c, d) \in PassesOf(c, d)
    BY <1>6, <2>4, <2>7, Smallest DEF PassOf
  <2>9. \A v \in VariantsOf(e) : SameInterface(passes[PassOf(c, d)], graph.variants[v])
    BY <1>8, <2>1, <2>2, <2>4, <2>8
  <2>10. QED
    BY <1>3, <2>3, <2>7, <2>9 DEF d
<1> HIDE DEF c
<1>10. ValidManifest(c)
  BY <1>3, <1>5, <1>8, <1>9 DEF ValidManifest
<1>11. QED
  BY <1>10, OneValidate DEF c

\* What fits depends on the DLL alone.
LEMMA SameFit ==
  ASSUME dll' = dll
  PROVE  P!Table' = P!Table /\ \A c \in P!Configs : DllFits(Candidates[c])' <=> DllFits(Candidates[c])
<1>1. P!Table' = P!Table /\ P!Walked' = P!Walked
  BY DEF P!Table, P!Walked
<1>2. QED
  BY <1>1 DEF DllFits

\* A turn ends: with one of the outcomes a DLL that fits may have, or it does not fit.
LEMMA FitFinished ==
  ASSUME CardInv, FitInv, NEW outcome, NEW next \in {"over", "begin"}, P!Finish(outcome, next),
         \/ outcome \in {"untried", "prepared", "card", "compiler"}
         \/ ~ DllFits(Candidates[config])
  PROVE  FitInv'
<1>1. /\ result' = [result EXCEPT ![config] = outcome] /\ dll' = dll /\ step' # "modules"
      /\ config \in P!Configs /\ DOMAIN result = P!Configs
  BY DEF P!Finish, CardInv
<1>2. ASSUME NEW c \in P!Configs,
             result'[c] \notin {"untried", "prepared", "card", "compiler"}
      PROVE  ~ DllFits(Candidates[c])'
  <2>1. ~ DllFits(Candidates[c])
    <3>1. CASE c = config
      BY <1>1, <1>2, <3>1
    <3>2. CASE c # config
      BY <1>1, <1>2, <3>2 DEF FitInv, FitIsPrepared
    <3>3. QED
      BY <3>1, <3>2
  <2>2. QED
    BY <1>1, <2>1, SameFit
<1>3. FitIsPrepared'
  BY <1>2 DEF FitIsPrepared, P!Configs
<1>4. QED
  BY <1>1, <1>3 DEF FitInv

LEMMA FitGivenUp ==
  ASSUME CardInv, FitInv, NEW error, P!GiveUp(error),
         error = "compiler" \/ error = "card" \/ ~ DllFits(Candidates[config])
  PROVE  FitInv'
<1>1. P!Finish(error, P!Following) /\ P!Following \in {"over", "begin"}
  BY DEF P!GiveUp, P!Following
<1>2. QED
  BY <1>1, FitFinished

\* A step that decides nothing.
LEMMA FitUndecided ==
  ASSUME FitInv, UNCHANGED <<dll, result>>
  PROVE  FitIsPrepared'
<1>1. \A c \in P!Configs : DllFits(Candidates[c])' <=> DllFits(Candidates[c])
  BY SameFit
<1>2. QED
  BY <1>1 DEF FitInv, FitIsPrepared, P!Configs

\* identify and required_modules.
LEMMA FitSurveyed ==
  ASSUME CardInv, DllInv, PassesInv, FitInv, P!Survey
  PROVE  FitInv'
<1> DEFINE set == IF P!Walked.error = "ok" THEN P!Identify(P!Table) ELSE P!Walked
           needed == IF set.error = "ok" THEN P!RequiredModules(set.value, "high", P!Performance)
                     ELSE set
<1>1. step = "begin" /\ config \in DOMAIN Candidates
  BY DEF P!Survey, CardInv, P!Configs
<1>2. CASE needed.error = "ok"
  <2>1. /\ requests' = needed.value /\ step' = "modules"
        /\ UNCHANGED <<dll, config, passes, result>>
    BY <1>2 DEF P!Survey
  <2>2. /\ P!Walked.error = "ok" /\ set.error = "ok" /\ set = P!Identify(P!Table)
        /\ needed = P!RequiredModules(P!Identify(P!Table).value, "high", P!Performance)
    <3>1. set.error = "ok"
      BY <1>2
    <3>2. P!Walked.error = "ok"
      BY <3>1
    <3>3. QED
      BY <3>1, <3>2
  <2> HIDE DEF needed, set
  <2>3. passes' = <<>>
    BY <1>1, <2>1 DEF PassesInv
  <2>4. P!Table' = P!Table /\ P!Performance' = P!Performance
    BY <2>1 DEF P!Table, P!Walked, P!Performance
  <2>5. FitIsPrepared'
    BY <2>1, FitUndecided
  <2>6. /\ P!RequiredModules(P!Identify(P!Table').value, "high", P!Performance').error = "ok"
        /\ requests' = P!RequiredModules(P!Identify(P!Table').value, "high", P!Performance').value
    BY <1>2, <2>1, <2>2, <2>4
  <2>7. QED
    BY <2>3, <2>5, <2>6 DEF FitInv
<1>3. CASE needed.error # "ok"
  <2>1. P!GiveUp(needed.error)
    BY <1>3 DEF P!Survey
  <2>2. ASSUME DllFits(Candidates[config]) PROVE FALSE
    <3>1. P!Walked.error = "ok" /\ SetFits(P!Table, P!Performance)
      BY <2>2 DEF DllFits, P!Performance
    <3>2. TableTyped(P!Table)
      BY <3>1, DllsAssumption DEF DllInv, TableTyped, P!Table, P!Walked
    <3>3. /\ P!Identify(P!Table).error = "ok"
          /\ P!RequiredModules(P!Identify(P!Table).value, "high", P!Performance).error = "ok"
      BY <3>1, <3>2, FitIdentified
    <3>4. QED
      BY <1>3, <3>1, <3>3
  <2> HIDE DEF needed
  <2>3. QED
    BY <2>1, <2>2, FitGivenUp
<1>4. QED
  BY <1>2, <1>3

\* A round of prepare::run.
LEMMA FitRound ==
  ASSUME CardInv, DllInv, RequestsInv, PassesInv, FitInv, P!TranslateModule
  PROVE  FitInv'
<1> DEFINE n == Len(passes) + 1
           request == requests[n]
           found == P!FindResource(P!Table, request.id)
           k == Min(found)
           m == P!Table[k].data
           slots == P!Slots(m)
<1>1. /\ step = "modules" /\ Len(passes) < Len(requests)
      /\ config \in DOMAIN Candidates
  BY DEF P!TranslateModule, CardInv, P!Configs
<1>2. n \in DOMAIN requests /\ passes \in Seq(Elements(passes)) /\ Len(passes) \in Nat
  BY <1>1 DEF RequestsInv, IsSequence
<1>3. ASSUME DllFits(Candidates[config]) PROVE found # {} /\ slots.error = "ok"
  <2> DEFINE set == P!Identify(P!Table)
  <2>1. SetFits(P!Table, P!Performance) /\ TableTyped(P!Table)
    BY <1>1, <1>3, TableListed DEF DllFits, P!Performance
  <2>2. /\ request.id = P!ResourceIdFor(set.value, "high", request.block)
        /\ request.block \in 0 .. HalfSize(P!Table) - 1
    BY <1>1, <1>2, <1>3, FitPasses DEF RequestsInv
  <2>3. PICK s \in DOMAIN Chain : request.block = P!BlockIndexOf(P!Performance, Chain[s])
    BY <1>1, <1>2, <1>3, FitPasses
  <2> HIDE DEF set, request
  <2>4. /\ found # {} /\ k \in ShaderAt(P!Table)
        /\ Position(P!Table, k) % HalfSize(P!Table) = request.block
        /\ \A j \in ShaderAt(P!Table) : SameHalf(P!Table, j, k) => ~ P!Table[j].data.float16
    BY <2>1, <2>2, FitFound DEF set
  <2> HIDE DEF k
  <2>5. Position(P!Table, k) % HalfSize(P!Table)
          = P!BlockIndexOf(Candidates[config].performance, Chain[s])
    BY <2>3, <2>4 DEF P!Performance
  <2>6. slots.error = "ok"
    BY <1>1, <1>3, <2>4, <2>5, FitTranslated
  <2>7. QED
    BY <2>4, <2>6
<1>4. CASE found = {} /\ P!GiveUp("shader_set_unknown")
  BY <1>3, <1>4, FitGivenUp
<1>5. CASE slots.error # "ok" /\ P!GiveUp(slots.error)
  <2>1. ~ DllFits(Candidates[config])
    BY <1>3, <1>5
  <2> HIDE DEF slots
  <2>2. QED
    BY <1>5, <2>1, FitGivenUp
<1>6. CASE P!GiveUp("compiler")
  BY <1>6, FitGivenUp
<1> DEFINE pass == P!PassEntry(m, request.block, slots.value)
<1>7. CASE passes' = Append(passes, pass) /\ UNCHANGED <<dll, step, config, requests, result>>
  <2>1. FitIsPrepared'
    BY <1>7, FitUndecided
  <2>2. P!Table' = P!Table /\ P!Performance' = P!Performance
    BY <1>7 DEF P!Table, P!Walked, P!Performance
  <2>3. pass.block = request.block
    BY DEF P!PassEntry
  <2> HIDE DEF pass
  <2>4. \A p \in DOMAIN passes' :
          \/ p = n /\ passes'[p] = pass
          \/ p \in DOMAIN passes /\ passes'[p] = passes[p]
    BY <1>2, <1>7
  <2>5. \A p \in DOMAIN passes' : p \in DOMAIN requests /\ passes'[p].block = requests[p].block
    <3>1. SUFFICES ASSUME NEW p \in DOMAIN passes'
                   PROVE  p \in DOMAIN requests /\ passes'[p].block = requests[p].block
      OBVIOUS
    <3>2. CASE p = n /\ passes'[p] = pass
      BY <1>2, <2>3, <3>2
    <3>3. CASE p \in DOMAIN passes /\ passes'[p] = passes[p]
      BY <1>1, <3>3 DEF FitInv
    <3>4. QED
      BY <2>4, <3>2, <3>3
  <2>6. /\ P!RequiredModules(P!Identify(P!Table').value, "high", P!Performance').error = "ok"
        /\ requests' = P!RequiredModules(P!Identify(P!Table').value, "high", P!Performance').value
    BY <1>1, <1>7, <2>2 DEF FitInv
  <2>7. QED
    BY <1>7, <2>1, <2>5, <2>6 DEF FitInv
<1>8. QED
  BY <1>4, <1>5, <1>6, <1>7, Instanced DEF P!TranslateModule

LEMMA FitKept ==
  ASSUME CardInv, DllInv, RequestsInv, PassesInv, FitInv, [DeploymentNext]_allVars
  PROVE  FitInv'
<1>1. ASSUME UNCHANGED <<dll, result>>, step' # "modules" PROVE FitInv'
  BY <1>1, FitUndecided DEF FitInv
<1>2. CASE P!Survey
  BY <1>2, FitSurveyed
<1>3. CASE P!TranslateModule
  BY <1>3, FitRound
<1>4. CASE P!Write
  <2>1. CASE ~ P!ValidManifest(P!Contents) /\ P!GiveUp("refused")
    <3>1. ~ DllFits(Candidates[config])
      BY <1>4, <2>1, FitValid DEF P!Write
    <3>2. QED
      BY <2>1, <3>1, FitGivenUp
  <2>2. CASE step' = "verify" /\ UNCHANGED <<dll, result>>
    BY <1>1, <2>2
  <2>3. CASE P!Finish("card", P!Following)
    BY <2>3, FitFinished DEF P!Following
  <2>4. QED
    BY <1>4, <2>1, <2>2, <2>3 DEF P!Write
<1>5. CASE P!ReadBack
  <2>1. CASE P!GiveUp("card")
    BY <2>1, FitGivenUp
  <2>2. CASE P!Succeed
    <3>1. PICK next \in {P!Following, "over"} : P!Finish("prepared", next)
      BY <2>2 DEF P!Succeed
    <3>2. next \in {"over", "begin"}
      BY DEF P!Following
    <3>3. QED
      BY <3>1, <3>2, FitFinished
  <2>3. QED
    BY <1>5, <2>1, <2>2 DEF P!ReadBack
<1>6. CASE P!Open
  BY <1>1, <1>6 DEF P!Open
<1>7. CASE P!Close
  <2>1. step' = "idle" /\ result' = [c \in P!Configs |-> "untried"]
    BY <1>7 DEF P!Close
  <2>2. QED
    BY <2>1 DEF FitInv, FitIsPrepared, P!Configs
<1>8. CASE UNCHANGED preparation
  <2>1. UNCHANGED <<dll, result, step, config, requests, passes>>
    BY <1>8 DEF preparation
  <2>2. FitIsPrepared'
    BY <2>1, FitUndecided
  <2>3. P!Table' = P!Table /\ P!Performance' = P!Performance
    BY <2>1 DEF P!Table, P!Walked, P!Performance
  <2>4. QED
    BY <2>1, <2>2, <2>3 DEF FitInv
<1>9. QED
  BY <1>2, <1>3, <1>4, <1>5, <1>6, <1>7, <1>8
     DEF DeploymentNext, Preparing, Measuring, P!Next, allVars

\* Whatever the candidates: a DLL that is what the chain was written for is refused by
\* none of the checks between its directory and the manifest; only SPIRV-Cross, the
\* compiler or the card can fail it (enumerate, identify, required_modules,
\* find_resource, check_before_translating, to_glsl, describe_slots, validate).
THEOREM FitIsAlwaysPrepared == DeploymentSpec => []FitIsPrepared
<1>1. DeploymentInit => CardInv /\ DllInv /\ RequestsInv /\ PassesInv /\ FitInv
  <2>1. DeploymentInit => DllInv /\ RequestsInv
    BY DEF DeploymentInit, P!Init, DllInv, RequestsInv, HighPrecisionModules, IsSequence, Elements
  <2>2. DeploymentInit => PassesInv
    BY DEF DeploymentInit, P!Init, PassesInv
  <2>3. DeploymentInit => FitInv
    BY DEF DeploymentInit, P!Init, FitInv, FitIsPrepared, P!Configs
  <2>4. QED
    BY <2>1, <2>2, <2>3, CardsAtFirst
<1>2. DllInv /\ RequestsInv /\ [DeploymentNext]_allVars => (DllInv /\ RequestsInv)'
  BY DllKept, RequestsKept
<1>3. CardInv /\ DllInv /\ RequestsInv /\ PassesInv /\ [DeploymentNext]_allVars => PassesInv'
  BY PassesKept
<1>4. CardInv /\ DllInv /\ RequestsInv /\ PassesInv /\ FitInv /\ [DeploymentNext]_allVars => FitInv'
  BY FitKept
<1>5. FitInv => FitIsPrepared
  BY DEF FitInv
<1>6. QED
  BY <1>1, <1>2, <1>3, <1>4, <1>5, DeploymentInvariance, PTL DEF DeploymentSpec

=============================================================================
