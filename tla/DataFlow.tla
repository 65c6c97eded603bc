------------------------------ MODULE DataFlow ------------------------------
(***************************************************************************)
(* What the dispatches of the chain hand on to each other, whoever runs    *)
(* them: when an image is fetched again after it was stored again, and the *)
(* real frames each image derives from.  Nothing here is a step of the     *)
(* program: these are facts of the chain, which has six configurations.    *)
(* The proofs about the app that runs the chain rest on them.  They take   *)
(* the chain and what derives from it as parameters, so that each of these *)
(* is computed once.                                                       *)
(***************************************************************************)
EXTENDS Schedule

NotWritten == -1

IsSequence(s) == Len(s) \in Nat /\ DOMAIN s = 1 .. Len(s)
Run(dispatch, frame) == dispatch.variants[(frame % Len(dispatch.variants)) + 1]

PartOf(chain, stage) ==
  /\ IsSequence(stage)
  /\ \A k \in DOMAIN stage : stage[k] \in DOMAIN chain /\ stage[k] = stage[1] + k - 1

\* Every dispatch has its variants, none is a copy, and a stage is a part of the
\* chain without gaps.
WellFormed(chain, stages, cycle) ==
  /\ cycle \in Nat \ {0}
  /\ IsSequence(chain)
  /\ \A d \in DOMAIN chain :
       /\ chain[d].name # "copy"
       /\ IsSequence(chain[d].variants) /\ Len(chain[d].variants) > 0
  /\ \A s \in 0 .. GeneratedFrames : PartOf(chain, stages[s])

-----------------------------------------------------------------------------
(***************************************************************************)
(* An image fetched, then stored, then fetched again may still be in the   *)
(* texture cache.  Unless the second fetch comes right behind the store,   *)
(* another barrier may have cleared the hazard without invalidating.       *)
(***************************************************************************)
Fetches(chain) ==
  UNION {UNION {{<<i, d>> : i \in v.textures} : v \in ToSet(chain[d].variants)} : d \in DOMAIN chain}
Stores(chain) ==
  UNION {UNION {{<<i, d>> : i \in v.storages} : v \in ToSet(chain[d].variants)} : d \in DOMAIN chain}

StoredJustBefore(chain, d, image) ==
  d > 1 /\ \A v \in ToSet(chain[d - 1].variants) : image \in v.storages

RefetchesAtOnce(chain) ==
  LET fetches == Fetches(chain)
      stores  == Stores(chain)
  IN \A f \in fetches :
       \/ StoredJustBefore(chain, f[2], f[1])
       \/ \A b \in 1 .. f[2] - 1 :
            <<f[1], b>> \in stores => \A a \in 1 .. b - 1 : <<f[1], a>> \notin fetches

-----------------------------------------------------------------------------
(***************************************************************************)
(* The real frames an image derives from once a frame has run: at most     *)
(* these, and all of these unless it is scratch.                           *)
(***************************************************************************)
Since(n, frame) == {IF f < 0 THEN NotWritten ELSE f : f \in frame - n .. frame}
Scratch ==
  {"gamma_estimate", "gamma_scratch0", "gamma_scratch1", "delta_occlusion", "delta_mask",
   "delta_scratch0", "delta_scratch1", "delta_result0", "delta_result1"}

AtMost(image, frame) ==
  CASE image[1] \in {"history", "black"} -> {}
    [] image[1] \in {"mip", "alpha_first", "alpha_second", "alpha_refined"} -> Since(0, frame)
    [] image[1] = "retained" -> Since(0, frame - ((frame - image[3]) % Depth(image[2])))
    [] OTHER -> Since(TemporalDepth, frame)
AtLeast(image, frame) ==
  IF image[1] \in Scratch \/ (image[1] = "generated" /\ frame < 0)
  THEN {}
  ELSE AtMost(image, frame)

\* The image of the frame before is within the bounds of this one.
Carried(image, frame) ==
  /\ AtMost(image, frame - 1) \subseteq AtMost(image, frame)
  /\ AtLeast(image, frame) \subseteq AtLeast(image, frame - 1)

StoredBefore(chain, d, frame, image) ==
  \E k \in 1 .. d - 1 : image \in Run(chain[d - k], frame).storages
StoredIn(chain, frame, image) ==
  \E d \in DOMAIN chain : image \in Run(chain[d], frame).storages

\* Each dispatch keeps what it stores within the bounds, given that what it fetches is.
FlowsAt(chain, d, frame) ==
  LET v   == Run(chain[d], frame)
      own == IF chain[d].name = "mipmaps" THEN {frame} ELSE {}
  IN /\ \A j \in v.textures : Carried(j, frame) \/ StoredBefore(chain, d, frame, j)
     /\ \A i \in v.storages :
          /\ AtLeast(i, frame) \subseteq own \cup UNION {AtLeast(j, frame) : j \in v.textures}
          /\ own \cup (UNION {AtMost(j, frame) : j \in v.textures}) \subseteq AtMost(i, frame)

Initially(image) == IF Role(image) = "internal" THEN {NotWritten} ELSE {}

Flows(chain, images, cycle) ==
  /\ \A g \in 0 .. GeneratedFrames - 1 : Generated(g) \subseteq images
  /\ \A image \in images :
       /\ AtLeast(image, -1) \subseteq Initially(image)
       /\ Initially(image) \subseteq AtMost(image, -1)
  /\ \A frame \in 0 .. 2 * cycle :
       /\ \A d \in DOMAIN chain : FlowsAt(chain, d, frame)
       /\ \A image \in images : Carried(image, frame) \/ StoredIn(chain, frame, image)

\* Exactly the frames before this depth fetch what nobody stored.
FetchesStored(chain, d, frame, image) ==
  \/ Role(image) # "internal"
  \/ StoredBefore(chain, d, frame, image)
  \/ \E f \in 0 .. frame - 1 : StoredIn(chain, f, image)
CleanFrom(chain, cycle) ==
  \A frame \in 0 .. 2 * cycle - 1 :
    frame >= TemporalDepth <=>
      \A d \in DOMAIN chain : \A image \in Run(chain[d], frame).textures :
        FetchesStored(chain, d, frame, image)

=============================================================================
