----------------------------- MODULE Deployment -----------------------------
(***************************************************************************)
(* The way of a shader from the DLL to the GPU: the preparation app, and   *)
(* then the test-pattern app, which measures the caches that are on the    *)
(* card.  Only one of them runs at a time, and all that passes between     *)
(* them is the card.                                                       *)
(***************************************************************************)
EXTENDS Resources

CONSTANTS
  Number, Limits, Chain, MinimumBlock, PerformanceOffset, MaxResources, Dlls, Inherited,
  Candidates,
  Measured   \* bound: the DLLs whose caches are measured, too

ASSUME DeploymentAssumption ==
  /\ Number \in Nat \ {0, 1} /\ MinimumBlock \in Nat
  /\ Candidates \in Seq({Candidates[c] : c \in DOMAIN Candidates}) /\ Candidates # <<>>
  /\ \A c \in DOMAIN Candidates : Sized(Candidates[c].graph)
  /\ \A c \in Inherited : Sized(c)
  /\ IsSequence(Chain) /\ \A s \in DOMAIN Chain : Chain[s].block \in Nat
  /\ PerformanceOffset \in Nat

VARIABLES card, dll, step, config, requests, passes, used, result, earlier

P == INSTANCE Preparation

MaxDispatchSamplers == 2   \* max_dispatch_samplers

\* What graph::build makes runs every slot of the chain and nothing else, stores
\* something in every variant, names the samplers of enum graph::Sampler and the
\* buffers of uniform_buffer_count, and is what graph::validate accepts.
Built(graph) ==
  [images |-> graph.images, generated |-> graph.generated, uniforms |-> graph.uniforms,
   variants |-> graph.variants,
   dispatches |->
     [k \in DOMAIN graph.dispatches |->
        LET d == graph.dispatches[k]
        IN [name |-> Chain[d.slot].name, first |-> d.first, count |-> d.count]]]
ASSUME GraphsAssumption ==
  \A c \in DOMAIN Candidates :
    LET graph == Candidates[c].graph
    IN /\ {graph.dispatches[k].slot : k \in DOMAIN graph.dispatches} = DOMAIN Chain
       /\ graph.uniforms \in Nat
       /\ \A v \in DOMAIN graph.variants :
            /\ graph.variants[v].storages # <<>>
            /\ graph.variants[v].samplers \in Seq(0 .. IntroducedSampler - 1)
            /\ Len(graph.variants[v].samplers) <= MaxDispatchSamplers
       /\ ValidGraph(Built(graph))

\* uam_limits leaves no module with more than the executor has room for, than a
\* slot can tell apart, or than there are storage bindings.
ASSUME LimitsAssumption ==
  /\ DOMAIN Limits = {"textures", "storages", "uniforms", "storageBuffers"}
  /\ \A kind \in DOMAIN Limits : Limits[kind] \in 1 .. P!MaxSlot /\ Limits[kind] < Number
  /\ MaxDispatchSamplers < Number
  /\ MaxTextures \in Nat /\ Limits.textures <= MaxTextures
  /\ MaxStorages \in Nat /\ Limits.storages <= MaxStorages
  /\ Limits.storages <= P!BindingRange

\* What a module declares and uses comes in lists, and what SPIRV-Cross pairs are
\* images without a sampler of their own and samplers.
Readable(m) ==
  /\ IsSequence(m.variables) /\ IsSequence(m.uses)
  /\ \A k \in DOMAIN m.variables : m.variables[k].binding \in Nat \cup {P!Undecorated}
  /\ \A u \in DOMAIN m.uses :
       LET Is(k, type) == k \in DOMAIN m.variables /\ m.variables[k].type = type
       IN /\ Is(m.uses[u].image, "separate_image")
          /\ m.uses[u].sampler = P!Introduced \/ Is(m.uses[u].sampler, "sampler")

\* The resources of a DLL come in a list, too.
ASSUME DllsAssumption ==
  \A d \in Dlls :
    P!Enumerate(d).error = "ok" =>
      LET rs == P!Enumerate(d).value
      IN /\ IsSequence(rs)
         /\ \A k \in DOMAIN rs :
              /\ rs[k].id \in Nat
              /\ rs[k].data.magic => Readable(rs[k].data)

preparation == <<card, dll, step, config, requests, passes, used, result, earlier>>
allVars == <<preparation, vars>>

DeploymentInit == P!Init /\ Init

Preparing == stage = "idle" /\ P!Next /\ UNCHANGED vars

\* cache_directories: those of the DLL, and others.
OnCard == {card[c] : c \in P!Configs} \cup Caches
Measuring ==
  /\ step = "idle" /\ dll \in Measured
  /\ (\E c \in OnCard : Measure(c)) \/ MeasureCache
  /\ UNCHANGED preparation

DeploymentNext == Preparing \/ Measuring

DeploymentSpec == DeploymentInit /\ [][DeploymentNext]_allVars

-----------------------------------------------------------------------------
\* A module that keeps to the one descriptor set, declares no arrays and uses all
\* it declares.
Clean(m) ==
  /\ \A k \in DOMAIN m.variables : m.variables[k].set = 0 /\ m.variables[k].lengths = <<>>
  /\ \A j, k \in DOMAIN m.variables :
       m.variables[j].binding = m.variables[k].binding => j = k
  /\ \A k \in DOMAIN m.variables :
       m.variables[k].type \in P!Images \cup {"sampler"} =>
         \E u \in DOMAIN m.uses : k \in {m.uses[u].image, m.uses[u].sampler}

\* Where a variable sits among the ones of its type.
Rank(m, k) ==
  Cardinality({j \in DOMAIN m.variables : /\ m.variables[j].type = m.variables[k].type
                                          /\ m.variables[j].binding < m.variables[k].binding})

\* What the code of a module reaches is what its variant has at that place.
AsDeclared(c, d, phase, m) ==
  LET v == VariantOf(c, d, phase)
      b == Bound(c, d, phase)
      storages == P!StorageImages(m)
  IN /\ \A u \in DOMAIN m.uses :
          LET use == m.uses[u]
          IN b.textures[u - 1] =
               [descriptor |-> SampledDescriptor(c, v.textures[Rank(m, use.image) + 1]),
                sampler |-> IF use.sampler = P!Introduced THEN IntroducedSampler
                            ELSE v.samplers[Rank(m, use.sampler) + 1]]
     /\ \A k \in DOMAIN storages :
          b.storages[k - 1] = StorageDescriptor(c, v.storages[Rank(m, storages[k]) + 1])
     /\ P!UniformBuffers(m) # <<>> <=> b.uniform # None

\* Every dispatch of a cache the app wrote binds something to every slot of its
\* module in every frame, whatever the DLL; and what each fetch and each store of
\* a clean module reaches is the image, with the sampler, that stands in the
\* variant where the module's own binding stands among its likes.  (Bindings
\* become slots and ordinals in to_glsl and describe_slots, counts come from
\* inspect, validate compares no more than counts, and bind goes the way back.)
BoundAsDeclared ==
  step = "verify" =>
    LET c  == card[config]
        rs == P!Table
    IN \A k \in DOMAIN c.dispatches :
         LET d == c.dispatches[k]
             p == PassOf(c, d)
             m == rs[used[p]].data
         IN \A phase \in 0 .. 2 * d.count :
              /\ Binds(c, d, phase)
              /\ DOMAIN Bound(c, d, phase).textures = 0 .. c.passes[p].textureSlots - 1
              /\ Clean(m) => AsDeclared(c, d, phase, m)

-----------------------------------------------------------------------------
\* The shaders of a DLL, and where one stands among them.
ShaderAt(rs) == {k \in DOMAIN rs : rs[k].type = P!RcData /\ rs[k].data.magic}
Position(rs, k) == Cardinality({j \in ShaderAt(rs) : rs[j].id < rs[k].id})
HalfSize(rs) == Cardinality(ShaderAt(rs)) \div 2
SameHalf(rs, j, k) ==
  Position(rs, j) \div HalfSize(rs) = Position(rs, k) \div HalfSize(rs)

\* Every pass is made from a shader of the half that declares no Float16, and from
\* the one at the place in that half its dispatches ask for: the chain never runs
\* the other precision's shader or a neighbour's.  (identify finds the halves in a
\* sorted copy, resource_id_for computes an id, find_resource looks it up in the
\* table as it was, where other types and languages have the same ids.)
HighPrecisionModules ==
  LET rs == P!Table
  IN \A n \in DOMAIN used :
       LET k == used[n]
       IN /\ k \in ShaderAt(rs)
          /\ Position(rs, k) % HalfSize(rs) = passes[n].block
          /\ \A j \in ShaderAt(rs) : SameHalf(rs, j, k) => ~ rs[j].data.float16

-----------------------------------------------------------------------------
\* A shader set as the chain was written for, told without the code's own steps.
SetFits(rs, performance) ==
  LET shaders == ShaderAt(rs)
      ids == {rs[k].id : k \in shaders}
      half == HalfSize(rs)
      Low(k) == \E j \in shaders : SameHalf(rs, j, k) /\ rs[j].data.float16
  IN /\ shaders # {} /\ Cardinality(ids) = Cardinality(shaders)
     /\ \A k \in DOMAIN rs : rs[k].type = P!RcData /\ rs[k].id \in ids => k \in shaders
     /\ Max(ids) - Min(ids) + 1 = 2 * half
     /\ half >= MinimumBlock
     /\ \A s \in DOMAIN Chain :
          Chain[s].block + (IF performance /\ Chain[s].performance THEN PerformanceOffset ELSE 0) < half
     /\ \A k \in shaders : rs[k].data.scan = "ok" /\ rs[k].data.compute
     /\ \E k \in shaders : Low(k)
     /\ \E k \in shaders : ~ Low(k)

\* A module declares what a variant has, densely from each base, and uses it all.
Dense(m, type, base, n) ==
  {m.variables[k].binding : k \in {j \in DOMAIN m.variables : m.variables[j].type = type}}
    = base .. base + n - 1
ModuleFits(m, v) ==
  /\ Clean(m) /\ ~ m.push /\ ~ m.specialised
  /\ \A k \in DOMAIN m.variables :
       LET type == m.variables[k].type
       IN /\ type \in {"separate_image", "sampler", "storage_image", "block"}
          /\ type = "block" => m.variables[k].class = "uniform"
  /\ Dense(m, "block", 0, IF v.uniform = None THEN 0 ELSE 1)
  /\ Dense(m, "sampler", 16, Len(v.samplers))
  /\ Dense(m, "separate_image", 32, Len(v.textures))
  /\ Dense(m, "storage_image", 48, Len(v.storages))
  /\ Len(m.uses) <= Limits.textures
  /\ Len(v.textures) <= Limits.textures /\ Len(v.storages) <= Limits.storages

\* The shader a dispatch of a candidate stands for.
ShaderOf(rs, performance, d) ==
  CHOOSE k \in ShaderAt(rs) :
    /\ Position(rs, k) % HalfSize(rs)
         = Chain[d.slot].block
             + (IF performance /\ Chain[d.slot].performance THEN PerformanceOffset ELSE 0)
    /\ \A j \in ShaderAt(rs) : SameHalf(rs, j, k) => ~ rs[j].data.float16

DllFits(candidate) ==
  LET rs == P!Table
  IN /\ P!Walked.error = "ok"
     /\ SetFits(rs, candidate.performance)
     /\ \A n \in DOMAIN candidate.graph.dispatches :
          LET d == candidate.graph.dispatches[n]
              m == rs[ShaderOf(rs, candidate.performance, d)].data
          IN \A v \in VariantsOf(d) : ModuleFits(m, candidate.graph.variants[v])

\* A DLL that is what the chain was written for is refused by none of the checks on
\* the way (enumerate, identify, required_modules, check_before_translating,
\* to_glsl, describe_slots, validate): only the compiler or the card can fail it.
FitIsPrepared ==
  \A c \in P!Configs :
    result[c] \notin {"untried", "prepared", "card", "compiler"} => ~ DllFits(Candidates[c])

-----------------------------------------------------------------------------
\* A candidate that is refused costs nothing: its directory holds what it held
\* when the app was started, and so does that of one not tried yet (prepare::run
\* fails before write is called, and write validates before it removes anything).
RefusedKeepsCard ==
  \A c \in P!Configs :
    \/ result[c] \in {"prepared", "card"}
    \/ c = config /\ step = "verify"
    \/ card[c] = earlier[c]

\* The inductive invariant behind it: the directory of a candidate is left alone
\* until that candidate's turn, which comes once.
InTurn == step \in {"begin", "modules", "verify"}
CardInv ==
  /\ config \in P!Configs
  /\ DOMAIN card = P!Configs /\ DOMAIN result = P!Configs
  /\ \A c \in P!Configs : Sized(card[c])
  /\ InTurn => \A c \in P!Configs : c >= config => result[c] = "untried"
  /\ step = "idle" => config = 1 /\ \A c \in P!Configs : result[c] = "untried"
  /\ RefusedKeepsCard

\* The DLL is the one the app was started with, and its resources have been walked
\* from when its modules are translated.
DllInv ==
  /\ dll \in Dlls
  /\ step \in {"modules", "verify"} => P!Walked.error = "ok"

\* The inductive invariant behind ReadyToRecord over what the app wrote: to_glsl
\* hands out each slot of a kind once, and nothing after it changes an entry.
EntriesInv ==
  /\ Unambiguous(passes)
  /\ \A c \in P!Configs : Unambiguous(card[c].passes)
  /\ Unambiguous(cache.passes)

\* And the one behind HighPrecisionModules: a request names a block below the size
\* of the halves and the id that goes with it in the half of high precision.
RequestsInv ==
  /\ IsSequence(passes) /\ IsSequence(used) /\ Len(used) = Len(passes)
  /\ step = "modules" =>
       LET set == P!Identify(P!Table)
       IN /\ set.error = "ok"
          /\ IsSequence(requests)
          /\ \A n \in DOMAIN requests :
               /\ requests[n].block \in 0 .. set.value.size - 1
               /\ requests[n].id = P!ResourceIdFor(set.value, "high", requests[n].block)
  /\ HighPrecisionModules

\* And the one behind BoundAsDeclared: each pass is the entry of the module it was
\* made from, and what was written to the directory is what was prepared.
PassesInv ==
  /\ \A n \in DOMAIN passes :
       LET m == P!Table[used[n]].data
       IN /\ used[n] \in DOMAIN P!Table
          /\ P!Slots(m).error = "ok"
          /\ passes[n] = P!PassEntry(m, passes[n].block, P!Slots(m).value)
  /\ step \notin {"modules", "verify"} => passes = <<>>
  /\ step = "verify" => card[config] = P!Contents /\ ValidManifest(P!Contents)

\* And the one behind FitIsPrepared: the requests are for the modules of the chain,
\* and the passes are made for them in their order.
FitInv ==
  /\ step = "modules" =>
       LET needed == P!RequiredModules(P!Identify(P!Table).value, "high", P!Performance)
       IN /\ needed.error = "ok" /\ requests = needed.value
          /\ \A n \in DOMAIN passes :
               n \in DOMAIN requests /\ passes[n].block = requests[n].block
  /\ FitIsPrepared

=============================================================================
