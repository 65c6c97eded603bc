# lsfg-nx: TLA+ models, model checking and proofs

lsfg-nx brings frame generation to Switch games.  A *plugin* (an NRO that
SaltyNX loads into the game's process) gets between a game and its graphics
API, observes how it presents, and reports to an *overlay* in another process.
A *preparation app* translates shaders into a *cache* on the memory card; the
*backend* loads the cache and runs the chain of compute passes that makes the
frames; the *test-pattern app* runs that backend by itself.  Presentation of
generated frames inside a game is not in the code yet.

This directory holds the TLA+ modules that model the system, the configurations
under which TLC checks them, and theorems that TLAPS proves about them.
`PROJECT.json` lists components, runs, mutants, hazards, findings and theorems,
and maps every definition that models code to its lines under `src/`.

    tlc -workers 2 -config MCReportRing.cfg MCReportRing.tla     (any run)
    tlapm ReportProofs.tla                                       (the proofs)

## 1. The system

### Components, their state and what is hard about each

| Component | State | Operations | What is hard |
|---|---|---|---|
| Report transport (`common/protocol`, `plugin/report.cpp`) | `ReportBlock` in shared memory: cursors, drop count, slots; `g_report_lock` | `Session`, `print`, `push_report`, `initialize` | two processes, one without a lock; a full ring; a game that dies in `print` |
| Overlay (`overlay/.../main.cpp`) | the peeked view, the log file | `drain_reports`, once per overlay | killed or refused between write and consume; a game that prints while it drains |
| Hook installer (`plugin/deferred.cpp`, `imports.cpp`, `nvn_hooks.cpp`) | relocations, import slots, `g_fired`, `g_bootstrap`, `g_chain` | arm, trigger, redirect, look-up | threads meet in the trigger; hooks become reachable slot by slot, by stores without a barrier; writes are refused half way |
| Driver session capture (`plugin/nv_session.cpp`, `nv_service.c`) | trampoline, `g_session`, reference count | arm, the connect hook, borrow, exit | partial patches; a session captured while it is borrowed |
| Coexistence probe (`plugin/coexistence.cpp`) | a device and what was created from it | `run` on a worker thread | every creation fails; the GPU may still work on what is to be destroyed |
| Graphics hooks and presentation instruments (`plugin/nvn_hooks.cpp`, `instrument/`) | texture log, staged list, swapchain map, timeline, trace, one lock | one hook per API call | calls of several threads overlap; ticks are read outside the lock; one word of indices for all windows |
| Cache store (`common/cache-store`) | manifest and modules on the card | `write`, `read` | killed, failing or powerless between two file operations, read at any time |
| Image graph (`common/image-graph`) | images, dispatches, variants | `build`, `validate` | which slot holds which frame's features |
| Schedule and executor (`backend/schedule.cpp`, `executor.cpp`) | command list, hazards | create, begin, record, barrier, upload, download, run | which dispatches need a barrier and which a cache invalidation |
| Test-pattern app (`apps/test-pattern`) | the lists it runs | `main` | the whole chain over its warm-up and cycles |
| Device and resources, layout (`backend/device.cpp`, `layout.cpp`) | GPU memory blocks, descriptors | create, destroy | partial failure, arena overflow |
| Cache loading and binding (`backend/cache_load.cpp`, `binding.cpp`) | none | load, bind | agreement of manifest, graph and modules |
| Preparation pipeline (`apps/prepare`, `common/prepare`, `pe`, `shader-set`, `spirv`, `translate`) | the directories on the card, the table of resources | `prepare_dll`, `prepare::run`, `enumerate_resources`, `identify`, `required_modules`, `inspect`, `to_glsl` | two views of one module that only agree in counts; ids that are looked up again; a refusal at any of a dozen checks |
| Cache format, `dksh`, profiles, image files, hashes, logging, inspection tool | none or single-threaded | parse, compare, serialise | bytes, not states |

### How they interact

* The game's threads call the plugin through import slots the hook installer
  rewrote; the hooks share one `Observations` block under a spinlock, and print
  through a `Session`, another spinlock.
* The plugin and the overlay share the `ReportBlock`; nothing else.  The
  memory belongs to SaltyNX and outlives the game.
* The probe runs on its own thread, on the driver session the connect hook
  captured, next to the game's own use of the GPU.
* The preparation app and a reader of the cache share files: what a shader of the
  DLL binds becomes slots and ordinals in a manifest, and the backend finds its
  way back from those to the images of the graph.
* The executor turns the graph and schedule into command lists; the GPU runs
  them asynchronously, out of order between barriers, with its own texture cache.

## 2. The modules

| Module | What it models | Composes |
|---|---|---|
| `ReportQueue` | abstract promise of the transport: a bounded queue, refusals counted, taken only once logged | |
| `ReportRing` | ring, producers' lock, overlay's drain, one shared access per action | implements `ReportQueue` |
| `ReportRestart` | games that die anywhere and the next one's `initialize` | extends `ReportRing` |
| `ReportProofs` | theorems about the ring in one game, and across games | extends `ReportRestart` |
| `HookInstall` | arming, the trigger, redirection, look-ups | |
| `HookInstallProofs` | theorems about `HookInstall` | |
| `NvSession` | patching, capturing and borrowing the driver session | |
| `Coexistence` | the probe, its worker, its GPU job | extends `NvSession` |
| `CoexistenceProofs` | theorems about both | |
| `Presentation` | the instruments, as operators on values | |
| `NvnHooks` | the graphics hooks over several game threads | extends `Presentation` |
| `NvnHooksProofs` | theorems about `NvnHooks` | |
| `CacheStore` | writer, reader, file system with failures | |
| `CacheStoreProofs` | theorems about `CacheStore` | |
| `ChainGraph` | images, dispatches and variants of the chain | |
| `Schedule` | order, cycle and warm-up | extends `ChainGraph` |
| `DataFlow` | facts of the chain: what its dispatches hand on to each other | extends `Schedule` |
| `Executor` | the executor's list and hazards | |
| `ExecutorClient` | any caller of it | extends `Executor` |
| `TestPattern` | the app, the GPU, its texture cache | extends `Executor`, `DataFlow` |
| `ExecutorProofs` | theorems about both callers of the executor | extends `ExecutorClient`, `TestPattern` |
| `Arena` | placing allocations in a memory block, as operators on values | |
| `Binding` | which caches are accepted, the descriptor layout, what a dispatch binds, as operators on a cache | |
| `Resources` | loading a cache, creating and destroying device and resources | extends `Arena`, `Binding` |
| `ResourcesProofs` | theorems about `Resources` | |
| `Reflection` | what `spirv::inspect` finds in a module, as operators on it | |
| `ShaderSet` | the walk of the resource directory, the two halves of the shaders, the modules a chain needs | extends `Reflection` |
| `Translation` | from a module to the slots of its pass: `to_glsl`, `describe_slots` | extends `Reflection` |
| `Preparation` | the app: candidate after candidate, `prepare::run`, `cache::write` | extends `ShaderSet`, `Translation`, `Binding` |
| `Deployment` | the preparation app and then the test-pattern app, by way of the card | `Resources`, and `Preparation` as an instance |
| `DeploymentProofs` | theorems about `Deployment` | extends `ResourcesProofs` |

`MC*` modules only extend one of these, with symmetry sets, model images or model caches.

### How state and actions correspond to the code

**Report ring.**  One action is one access to the shared block, so `push_report`
is `LoadCursors`, `SetLength`, `CopyText`, `Publish` (or `CountDrop`) between
`BeginSession` and `EndSession`, and `drain_reports` is `PeekLine`, `WriteLine`,
`Flush`, `LoadConsume`, `StoreConsume`.  A line is a number; a slot keeps apart
who wrote its length and who wrote its text, so a torn slot is a state.  The
sequence numbers are compared modulo `Wrap`, as the code's unsigned difference
is.  The overlay drains once, before its first screen: the first empty peek
(`PeekNothing`) ends the drain, and from then on the overlay is `"shown"` and takes
nothing until it is closed (`CloseOverlay`) and another one opened.  `StopDrain` is the
overlay ended while it drains or a write that fails; its leftover may be in the log cut
off.

**Hook installer.**  An address is `"null"`, `"original"` or `"hook"`.  Every write of
a slot, relocation or global is an action; game threads call trigger, bootstrap
loader and look-up at any time.  A refused write is a disjunct of the action that makes it.
The slots and `g_bootstrap` are plain variables, stored to without release or barrier
while other threads run: `unseen` has the stores each thread does not see yet, `SeeStore`
shows it one of them, in any order, and `SlotOf` and `LoaderOf` are what it reads
meanwhile.  A thread in `bootstrap_loader` that does not see `g_bootstrap` calls null
(`"crashed"`).  The references of a symbol that are neither GLOB_DAT nor JUMP_SLOT
relocations (`ignored`) are bound to the game's own function and stay so.

**Driver session and probe.**  Handles are numbers in the order the game gets
them.  `FindTarget` to `WriteBranch` are the three writes of `arm`, each may be
refused.  The worker goes through the stages of `run`; `alive` is what it has
created.  The GPU finishes, faults or never ends.

**Graphics hooks.**  One action is one section under the observation lock, or one
call of the game's function where other threads can tell when it happens.  The
clock advances between any two steps; hooks that read it before taking the lock
carry the tick in `arg`.  The game and driver are external and keep the rule
that calls changing one object are not made at once.  A texture is its layout.
`Indices` are those the game handles, and only some of them have a bit in the timeline's
word (`Trackable`).  A change of the interval is two actions, since the game's function
makes it effective (`SetInterval`) before the hook takes the lock and starts the pacing
afresh (`ObserveInterval`), with presents of other threads before, between and after.

**Cache store.**  A file holds the number of the rewrite it is from, is `Absent`
or `Torn`.  Each rewrite counts as different content: two rewrites of the same
shaders would match each other, which only makes more loads succeed.  `card` has
everything the memory card may hold of a file should the power be lost: a change adds to
it and takes nothing away, so the older whole contents stay possible, until a good `fsync`
leaves the one form.  `Flush` may also do nothing, since its result is ignored, and it
secures no entry of the directory, so a file that was created, removed or renamed may be
what it was before.  After `LosePower` each file by itself is one of the forms in `card`.

**Chain, schedule, executor.**  `ChainGraph` builds the dispatches with the images
each variant fetches and stores; `Executor` records them with the hazards of
`record` and `barrier`; `TestPattern` runs the lists of the app.  GPU and texture
cache are external.  An image holds the set of real frames whose mip levels it
was computed from, `NotWritten` for memory never written.

**Cache to resources.**  A cache is a record of images, variants, dispatches and
passes; a module is a pass that `loads` or not.  `Binding` has `cache::validate`,
`graph::validate`, `accept`, `describe` and `bind` as operators on it.  `stage` says where
`measure_cache` and `Resources::create` are; each placement, block, mapping and
module is an action, with its failure as a disjunct that runs `Destroy`.  The
model keeps the placements after `create` forgets them, to compare.  deko3d is
external: it picks the size and alignment of an image and may fail anything.

**DLL to card.**  A DLL is its resource directory, with modules in its data; a
module is its declarations (type, class, array lengths, set, binding), the pairs of
image and sampler its code uses, and what scanning its words comes to.
`Enumerate`, `Identify`, `RequiredModules`, `ToGlsl` and `DescribeSlots` are operators
that return a value or the error of the first check that refuses.  The steps of the app
are actions: `Survey` (everything before the loop over the modules), one
`TranslateModule` per module, `Write`, `ReadBack`, and `Close` at any moment.
SPIRV-Cross and uam are external: one lists the uses of a module, either may refuse
any module.  `used` remembers which resource each pass was made from.  `Write` is one
step here because `CacheStore` has its inside.  `Deployment` puts that app before
`Resources`: what is measured is what the card holds.

## 3. What is checked

Every property below is checked by TLC and has a mutant: a plausible bug in the
mapped code (a dropped check, an off-by-one, a missing reset) that makes TLC find
the property violated under the same configuration.

| Run | Properties | What it shows |
|---|---|---|
| `report_ring` | `UnreadIntact` `ConsumedIsLogged` `NothingUnaccounted` | a slot the overlay may read is never rewritten; a line leaves the ring only when it is whole in the log; every line is published, counted or in hand |
| | `ImplementsQueue` | the ring refines `ReportQueue` |
| | `GameNeverBlocked` `Delivered` | a printing thread gets out whatever the overlay does; a running drain takes every line published before its first empty peek, those included that the game publishes while it drains |
| `report_restart` | `CleanAfterRestart` `RefusedOnlyWhenFull` `LoggedWhole` | a game that starts while no drain is open has a sound ring, whatever state its predecessor died in |
| `hooks` | `EveryHookChains` `InstalledOnce` `ArmedWhereFound` `TriggerReturns` | a hook a thread can reach has the game's function to go on to, in whatever order it sees the stores, with one exception (section 5); one installation; armed means armed at every GLOB_DAT and JUMP_SLOT site, and nowhere else; nobody is stuck in the trigger |
| `hook_missing` | `MissingIsExact` *violated* | two first look-ups at once count the unexported queries twice |
| `coexistence` | `HookCanReturn` `ServiceOverCapturedSession` `SubmittedStaysAlive` `ParentsOutlive` `VerdictAfterJob` `GivesBackOrKeeps` `ProbeEnds` | nothing the GPU may still use is destroyed; children go before parents; the probe runs once, ends, and gives back or keeps everything |
| `cache_store` | `LoadedIsOneRewrite` `NeverOlder` `InterruptedLeavesNone` | what loads is one rewrite, not older than the last verified one that the card held one module of in no older form; an interruption leaves no manifest |
| `cache_not_removed` | `ManifestDescribesModules` *violated* | an ignored failure of `std::remove` leaves the old manifest over new modules |
| `executor` | `IInv` | any caller, any dispatches: the hazards tell of every command since the last wait, and conflicting commands have a wait between them; at the start, `ChainFacts`: the facts of the chain the proofs rest on, in all six configurations |
| `test_pattern` | `NoRace` `FetchesFresh` `BarriersNeeded` `TemporalWindow` `WarmupExact` | on the real chain: no race, no stale texel, no superfluous barrier, each result from exactly the last three real frames, and unwritten memory in exactly the warm-up |
| `deployment` | `PlacedApart` `ReadyToRecord` `NothingLeft` | what lies in a block lies apart; after a successful creation every dispatch, in every frame, finds the descriptors of exactly its images, its module and its uniform buffer; a failure anywhere leaves nothing |
| | `BoundAsDeclared` | each fetch and store of a module reaches the image, with the sampler, that stands in the variant where the module's own binding stands among its likes, although no check compares more than counts |
| | `HighPrecisionModules` `FitIsPrepared` | every pass is made of the shader its dispatches ask for, of the half without Float16; a DLL that is what the chain was written for is refused by no check |
| | `RefusedKeepsCard` | a candidate that is refused leaves its directory as it was |
| `presentation` | `MapsOwnTextures` `FaultsExact` `BlocksMeasured` `IntervalsComparable` | a window is mapped to its own current textures; a fault is counted if, and only if, the index is trackable and the game does not hold the texture; samples measure an acquire in progress, and the clock readings of two successive presents of one window, with no change of the interval since the earlier was counted but one that has yet to reach the lock |
| `trace_order` | `TraceInCallOrder` *violated* | a call that blocks is traced behind calls that began after it |

The three violated ones are findings: each quotes the comment that the code does
not live up to (`PROJECT.json`, `findings`).  None of them affects the other
properties: `NoRace` and the rest do not read the query count; `cache::read`
still refuses the mixed cache by its hashes; the trace is only printed.

### Bounds, and why they are enough

* `report_ring`: 2 threads, 2 slots, 5 lines.  The ring fills, overflows,
  and every slot is used three times; two threads are enough because the lock
  lets one in; `Wrap` is larger than the lines printed, so the sequences do not
  come round, which 64-bit ones do not either.  One drain cut short, at any step.
  85942 states.
* `report_restart`: three games, one thread each; a cursor left ahead by an
  overlapping drain would let the overlay log for ever, hence `MaxLog`.  541809 states.
* `hooks`: 0 to 3 import sites against a `MaxSites` of 2, so too many, too few and
  the right number occur; 0 or 1 ignored reference of either symbol (`MaxIgnored`), since
  any number leads the same way; one function of the table, since entries are
  independent.  Two threads: one that installs, one that sees its stores in any order.
  935588 states.
* `coexistence`: 3 services, so one before, at and after the captured one.
* `cache_store`: 2 modules and 2 rewrites: a module before and after a cut, a first
  cache and one that is replaced.  One module may then be older and the other not,
  beside either manifest.  502867 states.
* `executor`: 2 images, 4 commands: a fetch and a store of each on both sides of
  a barrier.  The proof removes these bounds.  `ChainFacts` has none to remove:
  `Performance` and `GeneratedFrames` take six pairs of values, and it evaluates every one.
* `test_pattern`: nothing is scaled down but the configuration: performance mode,
  two generated frames, 166 dispatches, 13 real frames.  With `Performance =
  FALSE` groups of images only get wider.
* `deployment`: a chain of four slots over three modules, in two configurations, one of
  them with a second image to estimate from, so that a module is shared by dispatches, a
  slot has a shader of its own in performance mode, and a variant has up to three
  images with two samplers and one that translation introduces.  229 DLLs, each the one
  the chain was made for but for one thing: the halves swapped, short, gapped, reversed
  or both of one precision; the id of a shader under another type, another language or
  a name; a data entry outside the file; and of one module every order of uses, sparse,
  permuted and colliding bindings, arrays up to the depth that is looked through, a
  number that overflows (`Number` is 16 where the code has 2^32), each kind of
  declaration that is not supported.  Bindings keep their real bases and ranges.  A
  card may begin with a cache of another version.
  The caches of one DLL are measured as well (`Measured`), and with them one sound cache
  and six that disagree with themselves in one place, as
  `tests/backend_tests.cpp` makes them.  For those a page has 4 and a block 12 bytes, so that
  images of 1 to 3 bytes, aligned to 1 or 4, fit, leave gaps or overflow, and a later
  one fits behind one that did not; modules of 1 or 6; budgets below, around and above
  the plans.  Imported images owned or not.
* `presentation`: 2 threads, windows, builders, textures, layouts and indices; at
  most 4 calls that set up (texture, list, window, and one more of them) and 3
  others; two moments in time, 30 ticks apart, so that a duration is 0 or 1 µs
  after the truncation of `ticks_to_us`.  `IndexBits` is 1 (32 in the code), so of the
  indices 0 and 1 the second cannot be tracked.  Capacities of 1 make a log of two
  textures evict and a list of two overflow.  Tracing is off there and on in
  `trace_order`.  1385038 states.

`CHECK_DEADLOCK FALSE` stands in a configuration where the system may stop: the
game may make no further call (`hooks`, `hook_missing`, `presentation`,
`trace_order`), the probe is over (`coexistence`), the app ends (`test_pattern`,
`deployment`).

### Fairness

* A thread inside a `Session` and a running drain keep running (`ReportRing`):
  both are ordinary threads with no wait but the spinlock.  Nobody is made to
  print, to open the overlay, or to close it.
* A game thread inside the trigger keeps running (`HookInstall`), unless a null call has
  ended the game; it waits for nobody.  No store is made to become visible.
* The probe's worker keeps running (`Coexistence`): its only wait has a timeout.
  The GPU has no fairness.

## 4. What is proved

TLAPS checks these for every value of the constants that satisfies the named
assumptions, and without the bounds' help.

**`ReportProofs`** (any threads, ring size, `Wrap`, lines, with `Slots < Wrap`,
`MaxLines < Wrap`).  `Invariance` proves `IInv`, from which `TypeCorrect`,
`UnreadNeverOverwritten`, `NeverTorn`, `NoAcceptedLineLost` and `AllAccounted` follow.
None of the properties is inductive: that a slot between the cursors stays intact
needs that the one thread writing works on the slot *after* the last unread one,
that there is room for it (`ProducerInv`), that it is one thread (`LockInv`), and
that cursors never drift apart by more than a ring (`WindowInv`), for otherwise
two sequence numbers share a slot (`SameSlotApart`, by `MultiplesApart`).
`NoAcceptedLineLost` needs `DrainInv`: between peek and consume the overlay is
at the oldest unread line, and what it is about to consume is in the log.
`Implementation` proves that `Spec` implements `ReportQueue` under the mapping
(unread lines, drops including one not yet counted, log): `CopyText` and the like
stutter, `Publish` is `Accept`, the test that finds the ring full is `Refuse`.

Across games, of any number: `StartsClean`, `RefusesOnlyWhenFull`
and `LogsWhole` from `RestartInv`: the soundness of the ring (`RingInv`, the part of
`IInv` that does not speak of the log) is preserved by every step of the ring
(`RingStep`) and established by a restart while no drain runs.  The types must
survive also when one did, when nothing else holds; `LinesInHand` carries them.

**`ExecutorProofs`** (any images, any caller that copies only untouched images).
`RaceFree` from `IInv == TypeOK /\ Covers /\ NoRace`.  `NoRace` alone is not
inductive, since `record` decides from the hazard sets and not from the list;
`Covers` says that the sets tell of every command since the last wait.  One lemma,
`Recording`, treats every append: it is enough that a command without a wait
conflicts with no hazard, and that the hazards afterwards include its accesses.

The same module proves `AppRaceFree` and `AppBarriersNeeded` of `TestPattern`, for
either mode and every `GeneratedFrames` of the chain.  That no barrier is superfluous
needs more than `Covers`: while the app records, the hazards are *exactly* the accesses
since the last wait (`Exact`), so that a command that waits meets one of them
(`RecordingExactly`).  An arbitrary caller does not keep `Exact`, since `barrier` clears
hazards where it is asked to; the app calls it nowhere.  Its copies wait for nothing and
must not meet a hazard: `AppInv` says what has been uploaded so far, and the one fact of
the chain that is used is that the two uploaded images differ.

What the chain does to the images is in three more theorems about `TestPattern`,
`AppFetchesFresh`, `AppTemporalWindow` and `AppWarmupExact`, also for every
configuration, and whatever fails on the way.  The chain is a value that is computed, not
a parameter, and no backend here can evaluate 166 dispatches.  The theorems therefore have
facts of the chain as hypotheses (`DataFlow`): about single dispatches and what precedes
them in a frame, never about the executor, the GPU or its caches.  TLC evaluates them in
`MCExecutor` as the assumption `ChainFacts`, for each of the six values of the constants;
so every instance satisfies them.

| Fact | What it says of the chain | Used by |
|---|---|---|
| `WellFormed` | every dispatch has a variant, a stage is a part of the chain without gaps | all three |
| `RefetchesAtOnce` | an image fetched, stored and fetched again is stored by the dispatch just before that fetch, in every variant | `AppFetchesFresh` |
| `Flows` | for each dispatch in each frame of two cycles: if what it fetches lies between two bounds (`AtLeast`, `AtMost`), so does what it stores | the other two |
| `CleanFrom` | frames 0 and 1, and no others, fetch what nobody has stored | the other two |

The invariants they need:

* `ListInv`: what is in the list is `begin` and then, one command each, what the job has
  to do, each with the images and the waits `record` gives it.  The GPU is within it.
* `CacheInv`: while the GPU runs a list, a cached image was fetched by an earlier command
  of *this* list, since `begin` invalidates, and a stale one was fetched and then stored.
  For `FetchesFresh` take a command that fetches a stale image: by `RefetchesAtOnce`
  the command just before it stored it, so that the hazard is still set, the command
  waits, and the wait invalidates.  Without that fact the property would be false: some
  other barrier may have cleared the hazard without invalidating.
* `DataInv`: an image the list has stored is within the bounds of this frame, any other
  within those of the frame before.  The bounds say of each image which real frames it
  may and must derive from; for the scratch images of gamma and delta the lower bound is
  left empty, since no result needs it.  For a generated image the two bounds meet, which is `TemporalWindow`; before
  frame 0 the window reaches into memory nobody wrote, and that this is over when
  `measure_warmup` says (`WarmupIsDepth`) is `WarmupExact`.

**`ResourcesProofs`** (any caches, sizes, budgets, failures, any alignments that divide
`MaxBlock`; `max_memory_block_bytes` is a whole number of pages, so alignments of up
to a page do).  `AllPlacedApart` and `NothingLeftBehind` from `IInv`.  `PlacedApart` speaks only
of blocks that exist, so it says nothing while the arena fills; `IInv` adds that an arena
either overflowed or has everything it placed end at or before `used` and begin
after its predecessor (`ImagesInv`, `CodeInv`), and that with an overflow, which is
never taken back, `create` does not reach a block.  Once the tail is placed, `used -
CodeTail` bounds the modules.  `Placing` is the one lemma about `Arena::place`; it needs
that rounding up stays below `MaxBlock` (`RoundedBelow`), for otherwise the unsigned
difference wraps and anything fits.

`AllReadyToRecord` needs `ReadyInv`: what each stage of `create` has written stays as
it was written, and is what `Descriptors` computes from the cache.  That a dispatch then
finds in every phase what its variant names is about numbers: `describe` counts
the descriptors of a kind below each image (`CountedBelow`, `Numbering`,
`OneNumberEach`), so two images never share one, and `bind` finds the *first* entry of a
slot, the *first* pass of a block (`PassFound`, `VariantFound`, `OnlyEntry`), where the
first exists because a set of numbers that is not empty has a smallest (`Smallest`,
from the strict subsets of a finite set being well-founded).  Its hypothesis is
`Unambiguous(cache.passes)`, one entry for each slot of a kind: nothing the backend
checks refuses a cache with two.

**`HookInstallProofs`** (any threads, imports, sites and functions, with
`nvnDeviceGetProcAddress` not among the functions of the table, which
`nvn_hooks.cpp` handles apart).  `HooksHaveAWayOn`, `InstallsAtMostOnce` and
`ArmedMeansEverySite` from `IInv`.  `ArmInv` says what has been rewritten where `arm`
is; `QuietInv` that nothing runs before the game does; `InstallerInv` that at most one
thread is past the exchange, from which a restored slot stays restored;
`LoaderInv` that no slot of the loader is hooked before `g_bootstrap` is stored.  That
order is the installer's own; for the other threads there is `UnseenInv`: what a thread
may not see yet was stored by another after the exchange, and what it reads instead is
what the game's loader had bound.  A slot of the trigger that is restored but not seen so
still leads through the thunk to a function stored before the game ran; a slot of the
loader not seen leads to the game's own loader; only `g_bootstrap` has no good value
before.

**`CoexistenceProofs`** (any threads and connections, every failure).  All six safety
properties of the probe and the session from `IInv`.  `WorkerInv` has one line for each
stage of `run`: what has been created is always the first so many resources
(`FirstOf`), the service is initialised exactly while the device is among them, and the
job may run only from `submitted` on.  `LastFirst` shows that the common cleanup
then takes the last of them, and `SessionInv` that `borrow`'s two loads cannot disagree,
because a session, once seen by `CheckCaptured`, never changes.

**`NvnHooksProofs`** (any threads, windows, builders, textures, layouts, indices,
capacities and clock; `Textures` is finite, and `None` none of the windows, builders,
textures and layouts).  `MapsOwn`, `FaultsAreExact`, `BlocksAreMeasured` and `IntervalsAreComparable`
are action properties or say what a step may never do, and each needs to know what a
call carried into the section it is in: `ArgInv` says what every kind of call has in
hand, `RuleInv` that calls changing one object are not in progress at once, which is what
the game promises.  `ListInv` relates the staged list to what the game gave its
builder, `LogInv` the texture log to how each texture was built last; `HeldInv`
the timeline's indices to the trackable ones the game holds, `PaceInv` the last present
kept to the one counted last, and to the changes of the interval: as long as it is kept,
none took effect since it was counted whose hook has come to the lock (`ChangePending`);
and `OpenInv` an acquire kept open to a thread that is still in it.  `IInv` was checked by
TLC on the 1385038 states of the run before it was proved.

**`CacheStoreProofs`** (any modules and rewrites, kills, failing operations, losses of
power).  `LoadsOneRewrite`, `LoadsNoneOlder` and `InterruptionLeavesNone` from `IInv`:
`WriterInv` says which modules are of the current rewrite at which step, `ReaderInv` that
what a reader has loaded so far is of the manifest's rewrite.  For `NeverOlder`, `CardInv`
says that every file is among what the card may hold of it, and that *one* module is held
by nothing, not even the card, in a form older than `durable` (`NotBefore`).  One is
enough, since a reader compares every module with the manifest, and no more is true: an
ignored failure of `fsync` leaves the older contents of the others possible.  A reader
past that module has a manifest that new, one before it will compare.  Where *every*
`fsync` of a rewrite fails, an older manifest may come back over its own older modules,
and loads: `durable` does not count such a rewrite.

**`DeploymentProofs`** (any DLLs, chain, candidates, limits and compiler).
`RefusalKeepsCard` from `CardInv`: a directory is left alone until its
candidate's turn, which comes once.  `DeploymentInvariance` adds that every cache the
app leaves has images with sizes, which is what the invariant of `Resources` asks
of a cache, so that `PlacedApartOnAnyCard` and `NothingLeftOnAnyCard` hold of whatever was
prepared.

`WrittenIsReady` then rids `ReadyToRecord` of that hypothesis for what the preparation
app writes: `to_glsl` hands out each slot of a kind once and `describe_slots` keeps it so
(`SlotsOnce`), hence every pass and every directory is unambiguous (`EntriesInv`), and
only caches that came from elsewhere need to be.

`HighPrecisionOnly`: `identify` works on a sorted copy, which the model describes as
`InOrder`, the n-th being the one with n - 1 before it.  In a total order of a finite set
the places are 1 to its size and each is taken once (`PlaceGrows`, `PlaceTaken`,
`Sorted`), so that consecutive ids count the places (`IdsCount`, by the
smallest counterexample), and what `resource_id_for` computes is the id of the shader at
that place of the right half, which no other resource of that type that is a module
carries (`HighFound`).  `RequestsInv` carries that from `required_modules` to the
rounds of the loop.

`BoundOnAnyDll`: no check compares more of a module with its variant than totals, yet
each use of a clean module reaches its own image.  `PassesInv` says that each pass is the
entry of the module it was made from, and that the directory last written to holds what
was prepared and `validate` accepted.  The slots of a kind then stand together in the
list of a pass (`Placed`, `KindsPlaced`) and are counted from 0, so that
the totals `validate` compares are those of the variant (`Interface`).  The ordinals
`describe_slots` computes from bindings are below the number of variables of
the type and all differ, which leaves each the place of its own variable among its likes
(`Ranked`, `RankIsOrdinal`, `CleanCounts`); that nothing was turned away for want of a
texture, a sampler or a slot is `BindsEvery`, and `ReachesDeclared` puts them together.

`FitIsAlwaysPrepared` is the other direction: the checks on the way from the DLL to the
manifest refuse no more than they should.  `DllFits` says what the chain was written for
without the code's own steps, by sets of ids and of bindings.  As many different ids as
shaders between the smallest and the largest leave no gap (`FitConsecutive`), so
`identify` and `required_modules` succeed (`FitIdentified`); the half without Float16
is the only one, so the shader `find_resource` comes to first is the one the dispatch
stands for (`FitFound`, `FitUnique`, `FitShader`).  A module whose bindings fill the
range of its variant has as many descriptors as the variant (`DenseCount`,
`FitCounts`), which keeps it below every ceiling and inside every base of
`describe_slots` (`FitKnown`, `FitSlots`), and `validate` finds nothing wrong with its entry
(`FitPass`).  `FitInv` adds that the requests are those of the chain and the passes are made
in their order, so that none is missing when the manifest is validated (`FitValid`).
TLC checked `FitInv` on 43373 states of the run `deployment` before it was proved.

The assumptions are that a DLL's table of resources and a module's declarations are
lists, ids and bindings numbers, and that what SPIRV-Cross pairs are images without
a sampler of their own and samplers (`DllsAssumption`, `Readable`); that the chain
is a list of numbered blocks (`DeploymentAssumption`); that what `graph::build` makes runs
every slot of the chain, stores something in every variant (`image_graph.cpp` 96), names
at most two samplers of its `enum`, and is accepted by `graph::validate`, which
`build` ends with (`GraphsAssumption`); and that the compiler's ceilings are not above
the executor's (`LimitsAssumption`: 32 and 8 in both `translate.hpp` 33 and
`layout.hpp` 38), nor above the 16 bindings of a kind for storage images.  TLC evaluates
each of them for the chain, the graphs and the DLLs of the run `deployment`.

Every invariant and action property of a passing run is stated by a theorem.  Left to TLC:
liveness (`GameNeverBlocked`, `Delivered`, `TriggerReturns`, `ProbeEnds`), which TLAPS
cannot conclude from fairness (`ENABLED`); the facts of `DataFlow`, which are computed
from a graph and which TLC evaluates completely; and the three properties the code
violates.

## 5. What is not modelled, and why

* Serialisation, profiles, hashes, codecs, image comparison: sequential functions of
  bytes, with unit tests of their own.  Of the pipeline: the scan of the words of a
  SPIR-V module and the headers of the DLL (their outcome is an input of the model), the
  patch of image formats in `prepare.cpp`, and the header of a compiled module (`dksh.cpp`).
* IPC marshalling (`nv_service.c` 67-331), SaltyNX, libnx, the game and the driver:
  external, modelled only as far as the code depends on them.
* The import survey, dumps, wording of reports, printing, the overlay's screens.
* Of the instruments: the statistics of submits, waits and acquire-to-present, the
  histogram, the outliers.  Reports read the observations without their lock
  (`report.cpp` 125); a person reads them, so no property is stated.
* Data races on plain variables.  The ARMv8 build makes an atomic access of every aligned
  word, and may show the stores of one core to another in any order.  Both are modelled
  where code that can run at once with the store depends on it: `g_bootstrap`
  (`nvn_hooks.cpp` 617) and the slots (`imports.cpp` 391) become visible to each thread
  one by one, in any order.  `EveryHookChains` therefore has an exception: a thread that
  sees a slot of the loader and not `g_bootstrap` calls null.  What `arm` stores is stored
  before the game runs.  `g_proc_address` and `g_chain` are stored before the hook that
  reads them is returned to the game, whose threads hand addresses on by means that order
  memory; of `g_queries` the flag is tested and set in two actions, and a query not
  seen yet is null, which the hooks test for and leave its field 0.  The
  session and result of the connect hook are atomics in the code, with acquire and
  release.
* `BorrowedMemoryBlock` and the path for images that are imported: nothing calls them
  yet.  Without ownership the descriptors of imported images are never written, and
  `ReadyToRecord` is stated for owned images.  The contents of uniform buffers and
  samplers; `write_uniform_buffers` gives up silently when the block is not mapped
  (`device.cpp` 303), which no state of the model shows.
* A thread that loses the exchange in the trigger goes on to the game while the winner
  still installs, and may look a function up unhooked (`deferred.cpp` 117); a worker
  thread that fails to start is not tried again (`nvn_hooks.cpp` 416).  Both steps are in
  the models; the code means them, and a miss costs observations.  A game that closes
  its own driver session after it was captured (`nv_session.cpp` 148) is seen by no code of
  the plugin.
* Three hazards the code has no defence against are in the models, and the properties are
  stated so as not to claim one.  The null call above.  A present that reads the clock
  (`nvn_hooks.cpp` 397), while another thread's change of the interval takes effect and
  its hook resets the pacing, and that then takes the lock and leaves the older reading:
  the next interval spans the change, and `IntervalsComparable` counts changes from when
  the earlier present was counted.  A line printed after the first empty peek, which waits
  for the drain of the next overlay; `Delivered` speaks of running drains.
* Two hazards are known to be uncovered by design: an overlay in the middle of a
  drain while a new game initialises the block (`consume_report` stores a cursor
  that is too far on), and a caller of the executor that fetches an image whose
  stores an unrelated barrier has cleared without invalidating.  The first is a
  step of `ReportRestart`; the second cannot happen on the shipped chain, which
  `AppFetchesFresh` proves (what its chain fetches, stores and fetches again, it fetches
  again at once).

## 6. Plan

1. *Core of the plugin* (done): report transport, hook installer, session and
   probe, graphics hooks.
2. *Core of the backend* (done): chain, schedule, executor, test pattern, cache store.
3. *Resources, cache loading and binding* (done): arena, layout, acceptance and
   binding as operators; creation and destruction with a failure at every step.
4. *Preparation* (done): from the DLL to the card, and from the card to the GPU.
5. *Proofs* (done): transport and its restarts, hooks of both kinds, probe, cache
   store, executor, what the app's chain does with it, resources, and the card.
6. *What remains*: the executor's and staging buffers' own creation on top of
   `Resources`; importing images, once presentation calls it; the control and status
   blocks of `protocol.hpp`, once a process writes them.
