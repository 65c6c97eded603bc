------------------------------ MODULE NvnHooks ------------------------------
(***************************************************************************)
(* The hooks on a game's graphics calls (nvn_hooks.cpp), as several game   *)
(* threads go through them.  A hook calls the game's own function and      *)
(* takes what it saw into the observations of Presentation.tla, under one  *)
(* lock; some read the clock before that, outside the lock.  One action is *)
(* one section under the lock, or one call of the game's function where    *)
(* other threads can tell when it happens.                                 *)
(*                                                                         *)
(* The game and the driver behind it are external.  The game obeys the     *)
(* API's rule that calls which change one object are not made at once: two *)
(* acquires of a window, two presents to it, or anything while the object  *)
(* is initialised.  It may present an index it does not hold, which is     *)
(* what the sequence faults are there to show, or one that is none.        *)
(***************************************************************************)
EXTENDS Presentation

CONSTANTS
  Threads,        \* game threads
  Windows,
  Builders,
  Textures,
  Layouts,        \* what a texture can be built as
  Indices,        \* texture indices the game handles, trackable or not
  TracePerKind,   \* trace_per_kind
  ClockStep,      \* ticks between two moments the model tells apart
  MaxClock,       \* bound on the clock
  MaxSetups,      \* bound on the calls that build a texture, a list or a window
  MaxCalls        \* bound on the other calls

ASSUME TracePerKindAssumption == TracePerKind \in Nat
ASSUME ClockAssumption == ClockStep \in Nat \ {0} /\ MaxClock \in Nat
ASSUME MaxCallsAssumption == MaxSetups \in Nat /\ MaxCalls \in Nat
ASSUME TexturesAssumption == IsFiniteSet(Textures)
ASSUME NoneAssumption == None \notin Windows \cup Builders \cup Textures \cup Layouts

VARIABLES
  clock,          \* the system counter
  setups, calls,  \* calls the game has made, for the bounds
  pc,             \* where each thread is in a hook
  arg,            \* what it was called with, and the tick it has read
  built,          \* the game's textures: how each was built last
  listed,         \* the textures each window builder was given last
  windows,        \* windows that have been initialised
  held,           \* texture indices the game holds of each window
  textures,       \* Observations::textures
  staged,         \* g_staged
  swapchain,      \* Observations::swapchain
  replacements,   \* Observations::swapchain_replacements
  timeline,       \* Observations::timeline
  trace,          \* Observations::trace
  traced,         \* g_traced
  stray,          \* history: indices acquired of a window that is not mapped,
                  \* or held when their window was initialised again
  previous,       \* history: the last present that was counted
  counted         \* history: one was, since a change of the interval last took effect

gameVars == <<clock, setups, calls, built, listed, windows, held>>
threadVars == <<pc, arg>>
obsVars == <<textures, staged, swapchain, replacements, timeline>>
traceVars == <<trace, traced>>
historyVars == <<stray, previous, counted>>
vars == <<gameVars, threadVars, obsVars, traceVars, historyVars>>

Idle == [object |-> None, with |-> None, index |-> -1, tick |-> 0]
Steps == {"game", "recording", "staging", "initialising", "adopting", "pacing",
          "beginning", "acquiring", "ending", "presenting", "showing", "waiting"}
Simple == {"set_num_active_textures", "submit_commands", "fence_sync", "finish"}
Kinds == Simple \cup {"builder_set_textures", "initialize", "set_present_interval",
                      "acquire_texture", "sync_wait", "present_texture"}
NotStaged == [builder |-> None, handles |-> <<>>, overflowed |-> FALSE]

Init ==
  /\ clock = ClockStep
  /\ setups = 0
  /\ calls = 0
  /\ pc = [t \in Threads |-> "game"]
  /\ arg = [t \in Threads |-> Idle]
  /\ built = [x \in Textures |-> None]
  /\ listed = [b \in Builders |-> <<>>]
  /\ windows = {}
  /\ held = [w \in Windows |-> {}]
  /\ textures = EmptyLog
  /\ staged = NotStaged
  /\ swapchain = NoSwapchain
  /\ replacements = 0
  /\ timeline = NoTimeline
  /\ trace = <<>>
  /\ traced = [k \in Kinds |-> 0]
  /\ stray = {}
  /\ previous = [window |-> None, tick |-> 0]
  /\ counted = FALSE

-----------------------------------------------------------------------------
\* Time goes on between any two steps.
Tick ==
  /\ clock + ClockStep <= MaxClock
  /\ clock' = clock + ClockStep
  /\ UNCHANGED <<setups, calls, built, listed, windows, held, threadVars, obsVars,
                 traceVars, historyVars>>

\* t calls a function of the API and is then at step s of its hook.
Enter(t, s, a) ==
  /\ pc[t] = "game"
  /\ pc' = [pc EXCEPT ![t] = s]
  /\ arg' = [arg EXCEPT ![t] = a]
  /\ UNCHANGED clock

SetUp(t, s, a) ==
  /\ Enter(t, s, a)
  /\ setups < MaxSetups
  /\ setups' = setups + 1
  /\ UNCHANGED calls

Call(t, s, a) ==
  /\ Enter(t, s, a)
  /\ calls < MaxCalls
  /\ calls' = calls + 1
  /\ UNCHANGED setups

Goto(t, s) ==
  /\ pc' = [pc EXCEPT ![t] = s]
  /\ UNCHANGED <<clock, setups, calls>>

Return(t) ==
  /\ Goto(t, "game")
  /\ arg' = [arg EXCEPT ![t] = Idle]

\* A thread is at one of these steps with the object.
Busy(object, steps) ==
  \E t \in Threads : pc[t] \in steps /\ object \in {arg[t].object, arg[t].with}

\* should_trace and push, under the lock.
Trace(kind, tick) ==
  IF traced[kind] < TracePerKind
  THEN /\ traced' = [traced EXCEPT ![kind] = @ + 1]
       /\ trace' = Push(trace, kind, tick)
  ELSE UNCHANGED traceVars

-----------------------------------------------------------------------------
(***************************************************************************)
(* texture_initialize: a texture of any layout is built, or fails to be,   *)
(* and what the builder says of it is recorded.                            *)
(***************************************************************************)
BuildTexture(t, x) ==
  /\ ~Busy(x, Steps)
  /\ \A b \in Builders : Busy(b, {"initialising", "adopting"}) =>
                           \A i \in DOMAIN listed[b] : listed[b][i] # x
  /\ \E layout \in Layouts :
       /\ SetUp(t, "recording", [Idle EXCEPT !.object = x])
       /\ built' = [built EXCEPT ![x] = layout]
  /\ UNCHANGED <<listed, windows, held, obsVars, traceVars, historyVars>>

RecordTexture(t) ==
  /\ pc[t] = "recording"
  /\ LET x == arg[t].object
     IN  textures' = Record(textures, [texture |-> x, layout |-> built[x]])
  /\ Return(t)
  /\ UNCHANGED <<built, listed, windows, held, staged, swapchain, replacements,
                 timeline, traceVars, historyVars>>

\* The game's function fails and nothing is recorded; a texture whose record is
\* in the log does not fail to be built again.
FailTexture(t) ==
  /\ pc[t] = "recording"
  /\ EntriesOf(textures, arg[t].object) = {}
  /\ built' = [built EXCEPT ![arg[t].object] = None]
  /\ Return(t)
  /\ UNCHANGED <<listed, windows, held, obsVars, traceVars, historyVars>>

-----------------------------------------------------------------------------
(***************************************************************************)
(* window_builder_set_textures: the list is staged until a window is made  *)
(* from it.                                                                *)
(***************************************************************************)
Built == {x \in Textures : built[x] # None /\ ~Busy(x, {"recording"})}

Lists == UNION {[1 .. n -> Built] : n \in 0 .. MapCapacity + 1}

SetTextures(t, b) ==
  /\ ~Busy(b, Steps)
  /\ \E list \in Lists : listed' = [listed EXCEPT ![b] = list]
  /\ SetUp(t, "staging", [Idle EXCEPT !.object = b])
  /\ UNCHANGED <<built, windows, held, obsVars, traceVars, historyVars>>

\* An over-long list is cut off at the map's capacity, and marked.
Stage(builder, list) ==
  LET overflowed == Len(list) > MapCapacity
  IN  [builder |-> builder,
       handles |-> IF overflowed THEN SubSeq(list, 1, MapCapacity) ELSE list,
       overflowed |-> overflowed]

StageTextures(t) ==
  /\ pc[t] = "staging"
  /\ staged' = Stage(arg[t].object, listed[arg[t].object])
  /\ Trace("builder_set_textures", clock)
  /\ Return(t)
  /\ UNCHANGED <<built, listed, windows, held, textures, swapchain, replacements,
                 timeline, historyVars>>

-----------------------------------------------------------------------------
(***************************************************************************)
(* window_initialize: the window is made, the call is traced, and if the   *)
(* staged textures are this builder's the swapchain is mapped.             *)
(***************************************************************************)
InitializeWindow(t, w, b) ==
  /\ ~Busy(w, Steps)
  /\ ~Busy(b, Steps)
  /\ \A i \in DOMAIN listed[b] : listed[b][i] \in Built
  /\ SetUp(t, "initialising", [Idle EXCEPT !.object = w, !.with = b])
  /\ windows' = windows \cup {w}
  /\ held' = [held EXCEPT ![w] = {}]
  /\ stray' = stray \cup held[w]
  /\ UNCHANGED <<built, listed, obsVars, traceVars, previous, counted>>

\* If the game's function has failed there is no window, and nothing to adopt.
TraceInitialize(t) ==
  /\ pc[t] = "initialising"
  /\ Trace("initialize", clock)
  /\ \/ Goto(t, "adopting") /\ UNCHANGED <<arg, windows>>
     \/ Return(t) /\ windows' = windows \ {arg[t].object}
  /\ UNCHANGED <<built, listed, held, obsVars, historyVars>>

\* Mutant: the last list staged is taken for any window.
AdoptableByAny(b) ==
  staged.handles # <<>> /\ ~staged.overflowed

\* What is staged can be mapped for a window made from builder b.
Adoptable(b) ==
  staged.builder = b /\ staged.handles # <<>> /\ ~staged.overflowed

AdoptSwapchain(t) ==
  /\ pc[t] = "adopting"
  /\ IF Adoptable(arg[t].with)
     THEN /\ replacements' = IF swapchain.window # None THEN replacements + 1
                             ELSE replacements
          /\ swapchain' = Adopt(arg[t].object, staged.handles, textures)
          /\ timeline' = ResetIntervals(timeline)
          /\ stray' = stray \cup UNION {held[w] : w \in Windows}
     ELSE UNCHANGED <<replacements, swapchain, timeline, stray>>
  /\ Return(t)
  /\ UNCHANGED <<built, listed, windows, held, textures, staged, traceVars, previous, counted>>

-----------------------------------------------------------------------------
(***************************************************************************)
(* window_set_present_interval: the game's function changes the interval   *)
(* and returns; only then does the pacing start afresh, under the lock and *)
(* whichever window it was.  Presents may come in between.                 *)
(***************************************************************************)
SetInterval(t, w) ==
  /\ w \in windows
  /\ ~Busy(w, {"initialising", "adopting", "pacing"})
  /\ Call(t, "pacing", [Idle EXCEPT !.object = w])
  /\ counted' = FALSE
  /\ UNCHANGED <<built, listed, windows, held, obsVars, traceVars, stray, previous>>

ObserveInterval(t) ==
  /\ pc[t] = "pacing"
  /\ timeline' = ResetIntervals(timeline)
  /\ Trace("set_present_interval", clock)
  /\ Return(t)
  /\ UNCHANGED <<built, listed, windows, held, textures, staged, swapchain,
                 replacements, historyVars>>

-----------------------------------------------------------------------------
(***************************************************************************)
(* window_acquire_texture: the clock is read before the first section      *)
(* under the lock, and that tick is the one traced at the end.             *)
(***************************************************************************)
Acquire(t, w) ==
  /\ w \in windows
  /\ ~Busy(w, {"initialising", "adopting", "beginning", "acquiring", "ending"})
  /\ Call(t, "beginning", [Idle EXCEPT !.object = w, !.tick = clock])
  /\ UNCHANGED <<built, listed, windows, held, obsVars, traceVars, historyVars>>

BeginAcquire(t) ==
  /\ pc[t] = "beginning"
  /\ timeline' = OnAcquireBegin(timeline, arg[t].tick)
  /\ Goto(t, "acquiring") /\ UNCHANGED arg
  /\ UNCHANGED <<built, listed, windows, held, textures, staged, swapchain,
                 replacements, traceVars, historyVars>>

\* The driver gives out an index of the window that is free, or fails.
AcquireTexture(t) ==
  /\ pc[t] = "acquiring"
  /\ LET w == arg[t].object
         shown == {arg[u].index : u \in {v \in Threads :
                     pc[v] \in {"presenting", "showing"} /\ arg[v].object = w}}
     IN  \E index \in (Indices \ (held[w] \cup shown)) \cup {-1} :
           arg' = [arg EXCEPT ![t].index = index]
  /\ Goto(t, "ending")
  /\ UNCHANGED <<built, listed, windows, held, obsVars, traceVars, historyVars>>

EndAcquire(t) ==
  /\ pc[t] = "ending"
  /\ LET w == arg[t].object
         got == {arg[t].index} \ {-1}
     IN  /\ timeline' = OnAcquireEnd(timeline, clock, arg[t].index)
         /\ held' = [held EXCEPT ![w] = @ \cup got]
         /\ stray' = IF w = swapchain.window THEN stray ELSE stray \cup got
  /\ Trace("acquire_texture", arg[t].tick)
  /\ Return(t)
  /\ UNCHANGED <<built, listed, windows, textures, staged, swapchain,
                 replacements, previous, counted>>

-----------------------------------------------------------------------------
(***************************************************************************)
(* queue_present_texture: a present to a window other than the mapped one  *)
(* is foreign and is only counted.                                         *)
(***************************************************************************)
Present(t, w, index) ==
  /\ w \in windows
  /\ ~Busy(w, {"initialising", "adopting", "presenting", "showing"})
  /\ Call(t, "presenting",
          [Idle EXCEPT !.object = w, !.index = index, !.tick = clock])
  /\ UNCHANGED <<built, listed, windows, held, obsVars, traceVars, historyVars>>

Foreign(w) == swapchain.window \notin {None, w}

ObservePresent(t) ==
  /\ pc[t] = "presenting"
  /\ LET w == arg[t].object
     IN  /\ IF Foreign(w)
            THEN UNCHANGED <<timeline, previous, counted>>
            ELSE /\ timeline' = OnPresent(timeline, arg[t].tick, arg[t].index)
                 /\ previous' = [window |-> w, tick |-> arg[t].tick]
                 /\ counted' = TRUE
         /\ held' = [held EXCEPT ![w] = @ \ {arg[t].index}]
  /\ Trace("present_texture", arg[t].tick)
  /\ Goto(t, "showing") /\ UNCHANGED arg
  /\ UNCHANGED <<built, listed, windows, textures, staged, swapchain,
                 replacements, stray>>

PresentTexture(t) ==
  /\ pc[t] = "showing"
  /\ Return(t)
  /\ UNCHANGED <<built, listed, windows, held, obsVars, traceVars, historyVars>>

-----------------------------------------------------------------------------
(***************************************************************************)
(* sync_wait reads the clock on both sides of the wait; the hooks of the   *)
(* other calls read it once, under the lock.                               *)
(***************************************************************************)
SyncWait(t) ==
  /\ Call(t, "waiting", [Idle EXCEPT !.tick = clock])
  /\ UNCHANGED <<built, listed, windows, held, obsVars, traceVars, historyVars>>

ObserveWait(t) ==
  /\ pc[t] = "waiting"
  /\ Trace("sync_wait", arg[t].tick)
  /\ Return(t)
  /\ UNCHANGED <<built, listed, windows, held, obsVars, historyVars>>

\* They change nothing but the trace, so the bound on calls leaves them out.
SimpleCall(t, kind) ==
  /\ pc[t] = "game"
  /\ Trace(kind, clock)
  /\ UNCHANGED <<gameVars, threadVars, obsVars, historyVars>>

-----------------------------------------------------------------------------
InHook(t) ==
  \/ RecordTexture(t) \/ FailTexture(t) \/ StageTextures(t)
  \/ TraceInitialize(t) \/ AdoptSwapchain(t)
  \/ ObserveInterval(t)
  \/ BeginAcquire(t) \/ AcquireTexture(t) \/ EndAcquire(t)
  \/ ObservePresent(t) \/ PresentTexture(t)
  \/ ObserveWait(t)

Game(t) ==
  \/ \E x \in Textures : BuildTexture(t, x)
  \/ \E b \in Builders : SetTextures(t, b)
  \/ \E w \in Windows, b \in Builders : InitializeWindow(t, w, b)
  \/ \E w \in Windows : SetInterval(t, w) \/ Acquire(t, w)
  \/ \E w \in Windows, i \in Indices : Present(t, w, i)
  \/ SyncWait(t)
  \/ \E kind \in Simple : SimpleCall(t, kind)

Next == Tick \/ \E t \in Threads : Game(t) \/ InHook(t)

Spec == Init /\ [][Next]_vars

-----------------------------------------------------------------------------
Adopted == swapchain'.window # None
           /\ (replacements' # replacements \/ swapchain.window = None)

\* A mapped window is mapped to its own textures as the game built them last,
\* although lists are staged by one call and adopted by another: the list is
\* the one its builder was given, every texture the log still has is known by
\* its latest layout, and none is missing while the log was never full.
MapsOwnTextures ==
  [][\A t \in Threads :
       pc[t] = "adopting" /\ pc'[t] = "game" /\ Adopted =>
         LET b == arg[t].with
             map == swapchain'
         IN  /\ map.window = arg[t].object
             /\ map.handles = listed[b]
             /\ \A i \in DOMAIN map.handles :
                  LET x == map.handles[i]
                  IN  /\ map.layouts[i] \in {None, built[x]}
                      /\ Cardinality({y \in Textures : built[y] # None}) <= LogCapacity
                           => map.layouts[i] # None]_vars

\* The mapped window's present at the moment the hook looks at it.
Looks(t) ==
  /\ pc[t] = "presenting" /\ pc'[t] = "showing"
  /\ arg[t].object = swapchain.window

\* A present of a trackable index to the mapped window counts as a fault if the
\* game does not hold the texture, and only then, although the one set of held
\* indices takes the acquires of every window; an index acquired of another
\* window, or lost when its window was initialised again, may hide a fault.  A
\* present of any other index, held or not, is never one.
FaultsExact ==
  [][\A t \in Threads : Looks(t) =>
       LET index == arg[t].index
           unheld == Trackable(index) /\ index \notin held[swapchain.window]
           fault == timeline'.faults # timeline.faults
       IN  /\ fault => unheld
           /\ unheld /\ index \notin stray => fault]_vars

\* A time taken for an acquire is the time of an acquire that is in progress,
\* however acquires, presents and changes of the interval overlap: with no
\* other acquire, its own.
BlocksMeasured ==
  [][\A t \in Threads :
       pc[t] = "ending" /\ pc'[t] = "game"
         /\ timeline'.block # timeline.block =>
           \E u \in Threads :
             /\ pc[u] \in {"acquiring", "ending"}
             /\ timeline'.block = Sample(timeline.block, clock - arg[u].tick)]_vars

\* A change of some window's interval that its hook has yet to take note of.
ChangePending == \E t \in Threads : pc[t] = "pacing"

\* A present interval of the mapped window is the time between the clock readings of
\* two successive presents that were counted, both to that window; and no change of
\* the interval took effect since the earlier one was counted, but for one whose
\* hook has not got to the lock yet.  A change may still lie in the interval if it
\* took effect while the earlier present was between its clock reading and the lock:
\* the intervals are reset then, and the reading from before is stored after.
IntervalsComparable ==
  [][\A t \in Threads : Looks(t) /\ timeline'.interval # timeline.interval =>
       /\ previous.window = swapchain.window
       /\ timeline'.interval
            = Sample(timeline.interval, arg[t].tick - previous.tick)
       /\ counted \/ ChangePending]_vars

\* "The first calls in call order.": a call traced before another began no
\* later than it.
TraceInCallOrder ==
  \A i, j \in DOMAIN trace : i < j => trace[i].tick <= trace[j].tick

-----------------------------------------------------------------------------
(***************************************************************************)
(* The inductive invariant behind the four properties.  It has a part for  *)
(* each thing the hooks keep, and one for what the game's rule gives: who  *)
(* may be in which hook at the same time.                                  *)
(***************************************************************************)
Objects == Windows \cup Builders \cup Textures \cup {None}
Held == SUBSET (Indices \cup {-1})
Args == [object : Objects, with : Objects, index : Indices \cup {-1}, tick : Nat]
Samples == [count : Nat, sum : Int]
Timelines ==
  [block : Samples, interval : Samples, begin : Nat, open : BOOLEAN, present : Nat,
   held : Held, faults : Nat]

TypeOK ==
  /\ clock \in Nat
  /\ pc \in [Threads -> Steps]
  /\ arg \in [Threads -> Args]
  /\ built \in [Textures -> Layouts \cup {None}]
  /\ listed \in [Builders -> Seq(Textures)]
  /\ held \in [Windows -> Held]
  /\ timeline \in Timelines
  /\ counted \in BOOLEAN
  /\ swapchain.window \in Windows \cup {None}

Initialising == {"initialising", "adopting"}
OnWindow == Initialising \cup {"pacing", "beginning", "acquiring", "ending",
                               "presenting", "showing"}

\* What a hook was called with.
ArgInv ==
  \A t \in Threads :
    /\ arg[t].tick <= clock
    /\ pc[t] = "recording" => arg[t].object \in Textures /\ built[arg[t].object] # None
    /\ pc[t] = "staging" => arg[t].object \in Builders
    /\ pc[t] \in OnWindow => arg[t].object \in Windows
    /\ IF pc[t] \in Initialising THEN arg[t].with \in Builders ELSE arg[t].with = None

\* The game's rule: a window that is initialised and its builder are nobody else's,
\* and one object is not built, staged or presented by two.
Uses(t) == {arg[t].object, arg[t].with} \ {None}
RuleInv ==
  \A t, u \in Threads : t # u =>
    /\ pc[t] \in Initialising => Uses(t) \cap Uses(u) = {}
    /\ pc[t] = pc[u] /\ pc[t] \in {"recording", "staging", "presenting"} =>
         arg[t].object # arg[u].object

\* The staged list is its builder's, unless that is about to be staged anew; and
\* what a window is being made of is built.
ListInv ==
  /\ \A b \in Builders :
       \/ staged.builder # b \/ staged.overflowed
       \/ \E t \in Threads : pc[t] = "staging" /\ arg[t].object = b
       \/ staged.handles = listed[b]
  /\ \A t \in Threads : pc[t] \in Initialising =>
       \A i \in DOMAIN listed[arg[t].with] : listed[arg[t].with][i] \in Built

\* The log has a texture once, as it was built last; only a full one forgets.
LogOK(log) ==
  /\ log \in [records : Seq([texture : Textures, layout : Layouts]),
              next : 0 .. LogCapacity - 1]
  /\ Len(log.records) <= LogCapacity
  /\ Len(log.records) < LogCapacity => log.next = Len(log.records)
  /\ \A i, j \in DOMAIN log.records :
       log.records[i].texture = log.records[j].texture => i = j
LogInv ==
  /\ LogOK(textures)
  /\ \A i \in DOMAIN textures.records :
       LET x == textures.records[i].texture
       IN  built[x] # None /\ (x \in Built => textures.records[i].layout = built[x])
  /\ \A x \in Built :
       EntriesOf(textures, x) # {} \/ Len(textures.records) = LogCapacity

\* The one set of held indices has the trackable ones of the mapped window, and but
\* for them only strays.
HeldInv ==
  /\ timeline.held \subseteq stray \cup UNION {held[w] : w \in Windows}
  /\ \A i \in timeline.held : Trackable(i)
  /\ swapchain.window # None =>
       /\ \A i \in held[swapchain.window] : Trackable(i) => i \in timeline.held
       /\ timeline.held \subseteq held[swapchain.window] \cup stray
  /\ \A t \in Threads : pc[t] \in Initialising => held[arg[t].object] = {}

\* The last present is the one counted last, of the mapped window, no later than the
\* next one, and forgotten when a change of the interval is taken note of.
PaceInv ==
  /\ timeline.present <= clock
  /\ timeline.present # 0 =>
       /\ timeline.present = previous.tick
       /\ swapchain.window # None => previous.window = swapchain.window
       /\ counted \/ ChangePending
  /\ \A t \in Threads : pc[t] = "presenting" /\ arg[t].object = swapchain.window =>
       timeline.present <= arg[t].tick

\* An acquire that is open is somebody's.
OpenInv ==
  timeline.open =>
    \E t \in Threads : pc[t] \in {"acquiring", "ending"} /\ arg[t].tick = timeline.begin

IInv ==
  /\ TypeOK /\ ArgInv /\ RuleInv /\ ListInv /\ LogInv /\ HeldInv /\ PaceInv /\ OpenInv

=============================================================================
