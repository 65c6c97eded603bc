--------------------------- MODULE NvnHooksProofs ---------------------------
(***************************************************************************)
(* Proofs about NvnHooks: the four properties of what the hooks keep, for  *)
(* any number of threads, windows, builders and textures, any capacities   *)
(* and any number of calls.                                                *)
(*                                                                         *)
(* None of the four is inductive.  Each rests on what the game's rule      *)
(* leaves the other threads to do meanwhile (RuleInv), and on how what the *)
(* hooks keep relates to what the game did: ListInv and LogInv for the     *)
(* map, HeldInv for faults, PaceInv for intervals, OpenInv for blocks.     *)
(***************************************************************************)
EXTENDS NvnHooks, FiniteSetTheorems, SequenceTheorems, TLAPS

-----------------------------------------------------------------------------
(***************************************************************************)
(* The methods of PresentTimeline, field by field.                         *)
(***************************************************************************)
LEMMA SampleType ==
  ASSUME NEW stat \in Samples, NEW ticks \in Int
  PROVE  Sample(stat, ticks) \in Samples
<1>1. Micros(ticks) \in Int
  BY TickFrequencyAssumption DEF Micros
<1>. QED  BY <1>1 DEF Sample, Samples

LEMMA AcquireBegun ==
  ASSUME NEW old \in Timelines, NEW tick \in Nat
  PROVE  LET new == OnAcquireBegin(old, tick)
         IN  /\ new \in Timelines
             /\ new.begin = tick /\ new.open
             /\ new.block = old.block /\ new.interval = old.interval
             /\ new.present = old.present /\ new.held = old.held /\ new.faults = old.faults
  BY DEF OnAcquireBegin, Timelines

LEMMA AcquireEnded ==
  ASSUME NEW old \in Timelines, NEW tick \in Nat, NEW index \in Indices \cup {-1}
  PROVE  LET new == OnAcquireEnd(old, tick, index)
         IN  /\ new \in Timelines
             /\ new.block = IF old.open /\ tick >= old.begin
                            THEN Sample(old.block, tick - old.begin) ELSE old.block
             /\ ~ new.open
             /\ new.held = IF Trackable(index) THEN old.held \cup {index} ELSE old.held
             /\ new.begin = old.begin /\ new.interval = old.interval
             /\ new.present = old.present /\ new.faults = old.faults
<1>1. Sample(old.block, tick - old.begin) \in Samples
  BY SampleType DEF Timelines
<1>2. old.held \cup {index} \in Held
  BY DEF Timelines, Held
<1>. QED  BY <1>1, <1>2 DEF OnAcquireEnd, Timelines

LEMMA Presented ==
  ASSUME NEW old \in Timelines, NEW tick \in Nat, NEW index \in Indices \cup {-1}
  PROVE  LET new == OnPresent(old, tick, index)
             late == old.present # 0 /\ tick < old.present
         IN  /\ new \in Timelines
             /\ new.interval = IF old.present # 0 /\ ~ late
                               THEN Sample(old.interval, tick - old.present)
                               ELSE old.interval
             /\ new.present = tick
             /\ new.block = old.block /\ new.begin = old.begin /\ new.open = old.open
<1>1. Sample(old.interval, tick - old.present) \in Samples
  BY SampleType DEF Timelines
<1> DEFINE late == old.present # 0 /\ tick < old.present
           faults == old.faults + (IF Trackable(index) /\ index \notin old.held THEN 1 ELSE 0)
                       + (IF late THEN 1 ELSE 0)
           left == IF Trackable(index) THEN old.held \ {index} ELSE old.held
           interval == IF old.present # 0 /\ ~ late
                       THEN Sample(old.interval, tick - old.present) ELSE old.interval
<1>2. left \in Held
  BY DEF Timelines, Held
<1>3. faults \in Nat /\ interval \in Samples
  BY <1>1 DEF Timelines
<1>4. OnPresent(old, tick, index) =
        [old EXCEPT !.faults = faults, !.held = left,
                    !.interval = interval, !.present = tick]
  BY DEF OnPresent
<1> HIDE DEF faults, interval, left
<1>5. /\ OnPresent(old, tick, index) \in Timelines
      /\ OnPresent(old, tick, index).faults = faults
      /\ OnPresent(old, tick, index).held = left
      /\ OnPresent(old, tick, index).interval = interval
      /\ OnPresent(old, tick, index).present = tick
      /\ OnPresent(old, tick, index).block = old.block
      /\ OnPresent(old, tick, index).begin = old.begin
      /\ OnPresent(old, tick, index).open = old.open
  BY <1>2, <1>3, <1>4 DEF Timelines
<1>. QED  BY <1>5 DEF interval

LEMMA PresentedHeld ==
  ASSUME NEW old \in Timelines, NEW tick \in Nat, NEW index \in Indices \cup {-1}
  PROVE  LET new == OnPresent(old, tick, index)
             late == old.present # 0 /\ tick < old.present
             missed == Trackable(index) /\ index \notin old.held
         IN  /\ ~ late => new.faults = old.faults + (IF missed THEN 1 ELSE 0)
             /\ Trackable(index) => new.held = old.held \ {index}
             /\ ~ Trackable(index) => new.held = old.held
<1> DEFINE late == old.present # 0 /\ tick < old.present
           missed == Trackable(index) /\ index \notin old.held
           one == IF missed THEN 1 ELSE 0
<1>1. OnPresent(old, tick, index).faults = old.faults + one + (IF late THEN 1 ELSE 0)
  BY DEF OnPresent, Timelines
<1>2. OnPresent(old, tick, index).held
        = IF Trackable(index) THEN old.held \ {index} ELSE old.held
  BY DEF OnPresent, Timelines
<1>3. old.faults + one \in Nat
  BY DEF Timelines
<1>. QED  BY <1>1, <1>2, <1>3

LEMMA Reset ==
  ASSUME NEW old \in Timelines
  PROVE  LET new == ResetIntervals(old)
         IN  /\ new \in Timelines
             /\ new.present = 0 /\ new.begin = 0 /\ ~ new.open
             /\ new.held = old.held /\ new.faults = old.faults
             /\ new.block = NoSamples /\ new.interval = NoSamples
<1>1. NoSamples \in Samples
  BY DEF NoSamples, Samples
<1>. QED  BY <1>1 DEF ResetIntervals, Timelines

-----------------------------------------------------------------------------
(***************************************************************************)
(* The texture log.                                                        *)
(***************************************************************************)
LEMMA SmallRemainder ==
  ASSUME NEW n \in Nat, NEW k \in Nat, n < k
  PROVE  n % k = n
<1> DEFINE q == n \div k
<1>1. q \in Int /\ n = k * q + (n % k) /\ n % k \in 0 .. k - 1
  OBVIOUS
<1>2. CASE q >= 1
  <2>1. k * (q - 1) >= 0
    BY <1>1, <1>2
  <2>. QED  BY <1>1, <2>1
<1>3. CASE q <= -1
  <2>1. k * (-1 - q) >= 0
    BY <1>1, <1>3
  <2>. QED  BY <1>1, <2>1
<1>4. CASE q = 0
  BY <1>1, <1>4
<1>. QED  BY <1>1, <1>2, <1>3, <1>4

LEMMA EntryType ==
  ASSUME NEW log, LogOK(log), NEW i \in DOMAIN log.records
  PROVE  log.records[i] \in [texture : Textures, layout : Layouts]
<1>1. log.records \in Seq([texture : Textures, layout : Layouts])
  BY DEF LogOK
<1>2. i \in 1 .. Len(log.records)
  BY <1>1, LenProperties
<1>. QED  BY <1>1, <1>2, ElementOfSeq

\* A record replaces the texture's own, or takes the entry at next: what it drops
\* it drops from a full log.
LEMMA Recorded ==
  ASSUME NEW log, LogOK(log), NEW record \in [texture : Textures, layout : Layouts]
  PROVE  LET new == Record(log, record)
         IN  /\ LogOK(new)
             /\ Len(log.records) <= Len(new.records)
             /\ \E i \in DOMAIN new.records : new.records[i] = record
             /\ \A i \in DOMAIN new.records :
                  \/ new.records[i] = record
                  \/ /\ i \in DOMAIN log.records /\ new.records[i] = log.records[i]
                     /\ log.records[i].texture # record.texture
             /\ \A i \in DOMAIN log.records :
                  \/ log.records[i].texture = record.texture
                  \/ i \in DOMAIN new.records /\ new.records[i] = log.records[i]
                  \/ Len(new.records) = LogCapacity
<1> DEFINE R == [texture : Textures, layout : Layouts]
           n == Len(log.records)
           at == EntriesOf(log, record.texture)
<1>1. /\ log.records \in Seq(R) /\ n \in Nat /\ DOMAIN log.records = 1 .. n
      /\ n <= LogCapacity /\ log.next \in 0 .. LogCapacity - 1
      /\ n < LogCapacity => log.next = n
      /\ LogCapacity \in Nat \ {0}
  BY LogCapacityAssumption DEF LogOK
<1>E. \A i \in 1 .. n : log.records[i] \in R
  BY <1>1, ElementOfSeq
<1>2. CASE at # {}
  <2> DEFINE recs == [i \in DOMAIN log.records |->
                        IF i \in at THEN record ELSE log.records[i]]
  <2>1. Record(log, record) = [log EXCEPT !.records = recs]
    BY <1>2 DEF Record
  <2>2. Record(log, record) = [records |-> recs, next |-> log.next]
    BY <2>1 DEF LogOK
  <2>3. recs \in Seq(R) /\ Len(recs) = n /\ DOMAIN recs = 1 .. n
    <3>1. recs \in [1 .. n -> R]
      BY <1>1, <1>E
    <3>. QED  BY <1>1, <3>1, LenProperties, IsASeq
  <2>4. \A i \in 1 .. n : recs[i] = IF i \in at THEN record ELSE log.records[i]
    BY <1>1
  <2>5. \A i \in 1 .. n : i \in at <=> log.records[i].texture = record.texture
    BY <1>1 DEF EntriesOf
  <2> HIDE DEF recs, at
  <2>6. \A i, j \in 1 .. n : recs[i].texture = recs[j].texture => i = j
    BY <1>1, <2>4, <2>5 DEF LogOK
  <2>7. \E i \in 1 .. n : recs[i] = record
    BY <1>1, <1>2, <2>4 DEF at, EntriesOf
  <2>8. \A i \in 1 .. n :
          \/ recs[i] = record
          \/ recs[i] = log.records[i] /\ log.records[i].texture # record.texture
    BY <2>4, <2>5
  <2>9. LogOK(Record(log, record))
    BY <1>1, <2>2, <2>3, <2>6 DEF LogOK
  <2>. QED  BY <1>1, <2>2, <2>3, <2>4, <2>5, <2>7, <2>8, <2>9
<1>3. CASE at = {}
  <2> DEFINE size == IF n = LogCapacity THEN n ELSE n + 1
             recs == [i \in 1 .. size |-> IF i = log.next + 1 THEN record ELSE log.records[i]]
  <2>1. Record(log, record) = [records |-> recs, next |-> (log.next + 1) % LogCapacity]
    BY <1>3 DEF Record, Insert
  <2>3. size \in Nat /\ n <= size /\ size <= LogCapacity /\ log.next + 1 \in 1 .. size
    BY <1>1
  <2>4. \A i \in 1 .. size : i # log.next + 1 => i \in 1 .. n
    BY <1>1
  <2>5. recs \in Seq(R) /\ Len(recs) = size /\ DOMAIN recs = 1 .. size
    <3>1. recs \in [1 .. size -> R]
      BY <1>E, <2>4
    <3>. QED  BY <2>3, <3>1, LenProperties, IsASeq
  <2>6. \A i \in 1 .. size : recs[i] = IF i = log.next + 1 THEN record ELSE log.records[i]
    OBVIOUS
  <2>7. \A i \in 1 .. n : log.records[i].texture # record.texture
    BY <1>1, <1>3 DEF EntriesOf
  <2>8. /\ (log.next + 1) % LogCapacity \in 0 .. LogCapacity - 1
        /\ size < LogCapacity => (log.next + 1) % LogCapacity = size
    <3>1. CASE log.next + 1 = LogCapacity
      <4>1. (log.next + 1) % LogCapacity = 0
        BY <1>1, <3>1
      <4>. QED  BY <1>1, <2>3, <3>1, <4>1
    <3>2. CASE log.next + 1 < LogCapacity
      <4>1. (log.next + 1) % LogCapacity = log.next + 1
        BY <1>1, <3>2, SmallRemainder
      <4>. QED  BY <1>1, <2>3, <3>2, <4>1
    <3>. QED  BY <1>1, <3>1, <3>2
  <2>9. n < LogCapacity => \A i \in 1 .. n : i \in 1 .. size /\ i # log.next + 1
    BY <1>1
  <2>10. n = LogCapacity => size = LogCapacity
    OBVIOUS
  <2> HIDE DEF recs, at, size
  <2>11. \A i, j \in 1 .. size : recs[i].texture = recs[j].texture => i = j
    BY <1>1, <2>4, <2>6, <2>7 DEF LogOK
  <2>12. LogOK(Record(log, record))
    BY <2>1, <2>3, <2>5, <2>8, <2>11 DEF LogOK
  <2>. QED  BY <1>1, <2>1, <2>3, <2>4, <2>5, <2>6, <2>7, <2>9, <2>10, <2>12
<1>. QED  BY <1>2, <1>3

\* find: what the texture's one entry says.
LEMMA FoundLayout ==
  ASSUME NEW log, LogOK(log), NEW x
  PROVE  \/ EntriesOf(log, x) = {} /\ Find(log, x) = None
         \/ \E i \in DOMAIN log.records :
              log.records[i].texture = x /\ Find(log, x) = log.records[i].layout
<1>1. CASE EntriesOf(log, x) = {}
  BY <1>1 DEF Find
<1>2. CASE EntriesOf(log, x) # {}
  <2>1. PICK k \in EntriesOf(log, x) : TRUE
    BY <1>2
  <2>2. EntriesOf(log, x) = {k} /\ k \in Nat
    BY <2>1 DEF EntriesOf, LogOK
  <2>3. (CHOOSE i \in EntriesOf(log, x) : \A j \in EntriesOf(log, x) : i <= j) = k
    BY <2>2
  <2>. QED  BY <1>2, <2>1, <2>3 DEF Find, EntriesOf
<1>. QED  BY <1>1, <1>2

\* A full log and a texture it has forgotten are more textures than it has room for.
LEMMA FullLog ==
  ASSUME NEW log, LogOK(log), Len(log.records) = LogCapacity,
         NEW S \in SUBSET Textures,
         \A i \in DOMAIN log.records : log.records[i].texture \in S,
         NEW x \in S, EntriesOf(log, x) = {}
  PROVE  Cardinality(S) > LogCapacity
<1> DEFINE f == [i \in 1 .. LogCapacity + 1 |->
                   IF i <= LogCapacity THEN log.records[i].texture ELSE x]
<1>1. /\ LogCapacity \in Nat \ {0} /\ DOMAIN log.records = 1 .. LogCapacity
      /\ log.records \in Seq([texture : Textures, layout : Layouts])
  BY LogCapacityAssumption DEF LogOK
<1>2. \A i \in 1 .. LogCapacity : log.records[i].texture \in S \ {x}
  BY <1>1 DEF EntriesOf
<1>3. f \in [1 .. LogCapacity + 1 -> S]
  BY <1>1, <1>2
<1>4. \A i, j \in 1 .. LogCapacity + 1 : f[i] = f[j] => i = j
  BY <1>1, <1>2 DEF LogOK
<1>5. f \in Injection(1 .. LogCapacity + 1, S)
  BY <1>3, <1>4 DEF Injection, IsInjective
<1>6. IsFiniteSet(S) /\ Cardinality(S) \in Nat
  BY TexturesAssumption, FS_Subset, FS_CardinalityType
<1>7. Cardinality(1 .. LogCapacity + 1) = LogCapacity + 1
  BY <1>1, FS_Interval
<1>8. Cardinality(1 .. LogCapacity + 1) <= Cardinality(S)
  BY <1>5, <1>6, FS_Injection
<1>. QED  BY <1>1, <1>6, <1>7, <1>8

-----------------------------------------------------------------------------
(***************************************************************************)
(* Calls and hooks as steps of one thread.                                 *)
(***************************************************************************)
\* A call takes its thread from the game into a hook.
LEMMA Entered ==
  ASSUME NEW t \in Threads, NEW s \in Steps, NEW a \in Args, TypeOK, Enter(t, s, a)
  PROVE  /\ pc[t] = "game" /\ clock' = clock
         /\ pc' \in [Threads -> Steps] /\ arg' \in [Threads -> Args]
         /\ pc'[t] = s /\ arg'[t] = a
         /\ \A u \in Threads \ {t} : pc'[u] = pc[u] /\ arg'[u] = arg[u]
  BY DEF TypeOK, Enter

\* A hook goes on, or returns.
LEMMA GoneOn ==
  ASSUME NEW t \in Threads, NEW s \in Steps, TypeOK, Goto(t, s)
  PROVE  /\ clock' = clock /\ pc' \in [Threads -> Steps] /\ pc'[t] = s
         /\ \A u \in Threads \ {t} : pc'[u] = pc[u]
  BY DEF TypeOK, Goto

LEMMA Returned ==
  ASSUME NEW t \in Threads, TypeOK, Return(t)
  PROVE  /\ clock' = clock /\ pc'[t] = "game" /\ arg'[t] = Idle
         /\ pc' \in [Threads -> Steps] /\ arg' \in [Threads -> Args]
         /\ \A u \in Threads \ {t} : pc'[u] = pc[u] /\ arg'[u] = arg[u]
<1>1. Idle \in Args
  BY DEF Idle, Args, Objects
<1>2. clock' = clock /\ pc' \in [Threads -> Steps] /\ pc'[t] = "game"
      /\ \A u \in Threads \ {t} : pc'[u] = pc[u]
  BY GoneOn DEF Return, Steps
<1>. QED  BY <1>1, <1>2 DEF Return, TypeOK

\* The arguments of the calls.
LEMMA ArgTypes ==
  ASSUME TypeOK
  PROVE  /\ \A x \in Objects : [Idle EXCEPT !.object = x] \in Args
         /\ \A w, b \in Objects : [Idle EXCEPT !.object = w, !.with = b] \in Args
         /\ \A w \in Objects : [Idle EXCEPT !.object = w, !.tick = clock] \in Args
         /\ \A w \in Objects, i \in Indices :
              [Idle EXCEPT !.object = w, !.index = i, !.tick = clock] \in Args
         /\ [Idle EXCEPT !.tick = clock] \in Args
  BY DEF TypeOK, Idle, Args, Objects

\* Texture lists are lists of textures that are built.
LEMMA ListTypes ==
  ASSUME NEW list \in Lists
  PROVE  list \in Seq(Textures) /\ \A i \in DOMAIN list : list[i] \in Built
<1>1. PICK n \in 0 .. MapCapacity + 1 : list \in [1 .. n -> Built]
  BY DEF Lists
<1>2. n \in Nat /\ Built \subseteq Textures
  BY <1>1, MapCapacityAssumption DEF Built
<1>. QED  BY <1>1, <1>2, SeqDef

LEMMA InitTypes == Init => TypeOK
<1> SUFFICES ASSUME Init  PROVE TypeOK
  OBVIOUS
<1>1. Idle \in Args /\ NoTimeline \in Timelines
  BY DEF Idle, Args, Objects, NoTimeline, NoSamples, Timelines, Samples, Held
<1>2. counted \in BOOLEAN
  BY DEF Init
<1>. QED  BY <1>1, <1>2, ClockAssumption DEF Init, TypeOK, Steps, Held, NoSwapchain

-----------------------------------------------------------------------------
LEMMA TypeStep == TypeOK /\ ArgInv /\ [Next]_vars => TypeOK'
<1> SUFFICES ASSUME TypeOK, ArgInv, [Next]_vars  PROVE TypeOK'
  OBVIOUS
<1>T. /\ clock \in Nat /\ pc \in [Threads -> Steps] /\ arg \in [Threads -> Args]
      /\ built \in [Textures -> Layouts \cup {None}] /\ listed \in [Builders -> Seq(Textures)]
      /\ held \in [Windows -> Held] /\ timeline \in Timelines
      /\ swapchain.window \in Windows \cup {None} /\ counted \in BOOLEAN
  BY DEF TypeOK
<1>A. \A t \in Threads :
        arg[t].tick \in Nat /\ arg[t].index \in Indices \cup {-1} /\ arg[t].object \in Objects
  BY <1>T DEF Args
<1>1. CASE UNCHANGED vars
  BY <1>T, <1>1 DEF TypeOK, vars, gameVars, threadVars, obsVars, historyVars
<1>2. CASE Tick
  BY <1>T, <1>2, ClockAssumption DEF TypeOK, Tick, threadVars, obsVars, historyVars
<1>3. ASSUME NEW t \in Threads, Game(t)  PROVE TypeOK'
  <2>1. ASSUME NEW x \in Textures, BuildTexture(t, x)  PROVE TypeOK'
    <3>1. x \in Objects /\ "recording" \in Steps
      BY DEF Objects, Steps
    <3>2. Enter(t, "recording", [Idle EXCEPT !.object = x])
      BY <2>1 DEF BuildTexture, SetUp
    <3>3. built' \in [Textures -> Layouts \cup {None}]
      BY <1>T, <2>1 DEF BuildTexture
    <3>. QED  BY <1>T, <2>1, <3>1, <3>2, <3>3, Entered, ArgTypes DEF TypeOK, BuildTexture, obsVars, historyVars
  <2>2. ASSUME NEW b \in Builders, SetTextures(t, b)  PROVE TypeOK'
    <3>1. b \in Objects /\ "staging" \in Steps
      BY DEF Objects, Steps
    <3>2. Enter(t, "staging", [Idle EXCEPT !.object = b])
      BY <2>2 DEF SetTextures, SetUp
    <3>3. listed' \in [Builders -> Seq(Textures)]
      BY <1>T, <2>2, ListTypes DEF SetTextures
    <3>. QED  BY <1>T, <2>2, <3>1, <3>2, <3>3, Entered, ArgTypes DEF TypeOK, SetTextures, obsVars, historyVars
  <2>3. ASSUME NEW w \in Windows, NEW b \in Builders, InitializeWindow(t, w, b)  PROVE TypeOK'
    <3>1. w \in Objects /\ b \in Objects /\ "initialising" \in Steps
      BY DEF Objects, Steps
    <3>2. Enter(t, "initialising", [Idle EXCEPT !.object = w, !.with = b])
      BY <2>3 DEF InitializeWindow, SetUp
    <3>3. held' \in [Windows -> Held]
      BY <1>T, <2>3 DEF InitializeWindow, Held
    <3>. QED
      BY <1>T, <2>3, <3>1, <3>2, <3>3, Entered, ArgTypes DEF TypeOK, InitializeWindow, obsVars, historyVars
  <2>4. ASSUME NEW w \in Windows, SetInterval(t, w)  PROVE TypeOK'
    <3>1. w \in Objects /\ "pacing" \in Steps
      BY DEF Objects, Steps
    <3>2. Enter(t, "pacing", [Idle EXCEPT !.object = w])
      BY <2>4 DEF SetInterval, Call
    <3>. QED  BY <1>T, <2>4, <3>1, <3>2, Entered, ArgTypes DEF TypeOK, SetInterval, obsVars, historyVars
  <2>5. ASSUME NEW w \in Windows, Acquire(t, w)  PROVE TypeOK'
    <3>1. w \in Objects /\ "beginning" \in Steps
      BY DEF Objects, Steps
    <3>2. Enter(t, "beginning", [Idle EXCEPT !.object = w, !.tick = clock])
      BY <2>5 DEF Acquire, Call
    <3>. QED  BY <1>T, <2>5, <3>1, <3>2, Entered, ArgTypes DEF TypeOK, Acquire, obsVars, historyVars
  <2>6. ASSUME NEW w \in Windows, NEW i \in Indices, Present(t, w, i)  PROVE TypeOK'
    <3>1. w \in Objects /\ "presenting" \in Steps
      BY DEF Objects, Steps
    <3>2. Enter(t, "presenting", [Idle EXCEPT !.object = w, !.index = i, !.tick = clock])
      BY <2>6 DEF Present, Call
    <3>. QED  BY <1>T, <2>6, <3>1, <3>2, Entered, ArgTypes DEF TypeOK, Present, obsVars, historyVars
  <2>7. CASE SyncWait(t)
    <3>1. Enter(t, "waiting", [Idle EXCEPT !.tick = clock]) /\ "waiting" \in Steps
      BY <2>7 DEF SyncWait, Call, Steps
    <3>. QED  BY <1>T, <2>7, <3>1, Entered, ArgTypes DEF TypeOK, SyncWait, obsVars, historyVars
  <2>8. ASSUME NEW kind \in Simple, SimpleCall(t, kind)  PROVE TypeOK'
    BY <1>T, <2>8 DEF TypeOK, SimpleCall, gameVars, threadVars, obsVars, historyVars
  <2>. QED  BY <1>3, <2>1, <2>2, <2>3, <2>4, <2>5, <2>6, <2>7, <2>8 DEF Game
<1>4. ASSUME NEW t \in Threads, InHook(t)  PROVE TypeOK'
  <2>1. CASE RecordTexture(t)
    BY <1>T, <2>1, Returned DEF TypeOK, RecordTexture, historyVars
  <2>2. CASE FailTexture(t)
    BY <1>T, <2>2, Returned DEF TypeOK, FailTexture, obsVars, historyVars
  <2>3. CASE StageTextures(t)
    BY <1>T, <2>3, Returned DEF TypeOK, StageTextures, historyVars
  <2>4. CASE TraceInitialize(t)
    <3>1. CASE Goto(t, "adopting") /\ UNCHANGED <<arg, windows>>
      BY <1>T, <2>4, <3>1, GoneOn DEF TypeOK, TraceInitialize, obsVars, Steps, historyVars
    <3>2. CASE Return(t)
      BY <1>T, <2>4, <3>2, Returned DEF TypeOK, TraceInitialize, obsVars, historyVars
    <3>. QED  BY <2>4, <3>1, <3>2 DEF TraceInitialize
  <2>5. CASE AdoptSwapchain(t)
    <3>1. arg[t].object \in Windows
      BY <2>5 DEF ArgInv, AdoptSwapchain, OnWindow, Initialising
    <3>2. timeline' \in Timelines /\ swapchain'.window \in Windows \cup {None}
      BY <1>T, <2>5, <3>1, Reset DEF AdoptSwapchain, Adopt
    <3>. QED  BY <1>T, <2>5, <3>2, Returned DEF TypeOK, AdoptSwapchain, historyVars
  <2>6. CASE ObserveInterval(t)
    BY <1>T, <2>6, Returned, Reset DEF TypeOK, ObserveInterval, historyVars
  <2>7. CASE BeginAcquire(t)
    BY <1>T, <1>A, <2>7, GoneOn, AcquireBegun DEF TypeOK, BeginAcquire, Steps, historyVars
  <2>8. CASE AcquireTexture(t)
    <3>1. PICK index \in Indices \cup {-1} : arg' = [arg EXCEPT ![t].index = index]
      BY <2>8 DEF AcquireTexture
    <3>2. arg' \in [Threads -> Args]
      BY <1>T, <3>1 DEF Args
    <3>. QED  BY <1>T, <2>8, <3>2, GoneOn DEF TypeOK, AcquireTexture, obsVars, Steps, historyVars
  <2>9. CASE EndAcquire(t)
    <3>1. {arg[t].index} \ {-1} \in Held
      BY <1>A DEF Held
    <3>2. timeline' \in Timelines
      BY <1>T, <1>A, <2>9, AcquireEnded DEF EndAcquire
    <3>3. held' \in [Windows -> Held]
      BY <1>T, <2>9, <3>1 DEF EndAcquire, Held
    <3>. QED  BY <1>T, <2>9, <3>2, <3>3, Returned DEF TypeOK, EndAcquire, historyVars
  <2>10. CASE ObservePresent(t)
    <3>1. timeline' \in Timelines
      BY <1>T, <1>A, <2>10, Presented DEF ObservePresent
    <3>2. held' \in [Windows -> Held]
      BY <1>T, <2>10 DEF ObservePresent, Held
    <3>. QED  BY <1>T, <2>10, <3>1, <3>2, GoneOn DEF TypeOK, ObservePresent, Steps, historyVars
  <2>11. CASE PresentTexture(t)
    BY <1>T, <2>11, Returned DEF TypeOK, PresentTexture, obsVars, historyVars
  <2>12. CASE ObserveWait(t)
    BY <1>T, <2>12, Returned DEF TypeOK, ObserveWait, obsVars, historyVars
  <2>. QED  BY <1>4, <2>1, <2>2, <2>3, <2>4, <2>5, <2>6, <2>7, <2>8, <2>9, <2>10, <2>11, <2>12
            DEF InHook
<1>. QED  BY <1>1, <1>2, <1>3, <1>4 DEF Next

-----------------------------------------------------------------------------
\* What a hook was called with stays while it goes on.
LEMMA ArgStep == TypeOK /\ ArgInv /\ RuleInv /\ [Next]_vars => ArgInv'
<1> SUFFICES ASSUME TypeOK, ArgInv, RuleInv, [Next]_vars  PROVE ArgInv'
  OBVIOUS
<1>T. /\ clock \in Nat /\ pc \in [Threads -> Steps] /\ arg \in [Threads -> Args]
      /\ built \in [Textures -> Layouts \cup {None}]
  BY DEF TypeOK
<1>1. CASE UNCHANGED vars
  BY <1>1 DEF ArgInv, vars, gameVars, threadVars
<1>2. CASE Tick
  <2>1. \A u \in Threads : arg[u].tick \in Nat /\ arg[u].tick <= clock
    BY <1>T DEF ArgInv, Args
  <2>2. clock' \in Nat /\ clock <= clock'
    BY <1>T, <1>2, ClockAssumption DEF Tick
  <2>. QED  BY <1>T, <1>2, <2>1, <2>2 DEF ArgInv, Tick, threadVars
<1>3. ASSUME NEW t \in Threads, NEW s \in Steps, NEW a \in Args, Enter(t, s, a),
             a.tick = 0 \/ a.tick = clock,
             s = "recording" => a.object \in Textures /\ built'[a.object] # None,
             s = "staging" => a.object \in Builders,
             s \in OnWindow => a.object \in Windows,
             IF s \in Initialising THEN a.with \in Builders ELSE a.with = None,
             \A x \in Textures : built[x] # None => built'[x] # None
      PROVE  ArgInv'
  <2>1. /\ clock' = clock /\ pc'[t] = s /\ arg'[t] = a
        /\ \A u \in Threads \ {t} : pc'[u] = pc[u] /\ arg'[u] = arg[u]
    BY <1>3, Entered
  <2>2. ASSUME NEW u \in Threads \ {t}
        PROVE  /\ arg'[u].tick <= clock'
               /\ pc'[u] = "recording" => arg'[u].object \in Textures /\ built'[arg'[u].object] # None
               /\ pc'[u] = "staging" => arg'[u].object \in Builders
               /\ pc'[u] \in OnWindow => arg'[u].object \in Windows
               /\ IF pc'[u] \in Initialising THEN arg'[u].with \in Builders ELSE arg'[u].with = None
    BY <1>3, <2>1 DEF ArgInv
  <2>3. a.tick <= clock
    BY <1>T, <1>3
  <2>. QED  BY <1>3, <2>1, <2>2, <2>3 DEF ArgInv
<1>4. ASSUME NEW t \in Threads, Game(t)  PROVE ArgInv'
  <2>1. ASSUME NEW x \in Textures, BuildTexture(t, x)  PROVE ArgInv'
    <3>1. PICK layout \in Layouts :
            /\ SetUp(t, "recording", [Idle EXCEPT !.object = x])
            /\ built' = [built EXCEPT ![x] = layout]
      BY <2>1 DEF BuildTexture
    <3>2. \A y \in Textures : built[y] # None => built'[y] # None
      BY <1>T, <3>1, NoneAssumption
    <3>3. built'[x] # None
      BY <1>T, <3>1, NoneAssumption
    <3>. QED  BY <1>3, <3>1, <3>2, <3>3, ArgTypes
              DEF SetUp, Steps, Objects, OnWindow, Initialising, Idle
  <2>2. ASSUME NEW b \in Builders, SetTextures(t, b)  PROVE ArgInv'
    <3> DEFINE a == [Idle EXCEPT !.object = b]
    <3>1. a \in Args /\ a.tick = 0 /\ a.object = b /\ a.with = None
      BY ArgTypes DEF Idle, Objects
    <3>2. Enter(t, "staging", a) /\ built' = built
      BY <2>2 DEF SetTextures, SetUp
    <3> HIDE DEF a
    <3>. QED  BY <1>3, <3>1, <3>2 DEF Steps, OnWindow, Initialising
  <2>3. ASSUME NEW w \in Windows, NEW b \in Builders, InitializeWindow(t, w, b)  PROVE ArgInv'
    <3> DEFINE a == [Idle EXCEPT !.object = w, !.with = b]
    <3>1. a \in Args /\ a.tick = 0 /\ a.object = w /\ a.with = b
      BY ArgTypes DEF Idle, Objects
    <3>2. Enter(t, "initialising", a) /\ built' = built
      BY <2>3 DEF InitializeWindow, SetUp
    <3> HIDE DEF a
    <3>. QED  BY <1>3, <3>1, <3>2 DEF Steps, Initialising
  <2>4. ASSUME NEW w \in Windows, SetInterval(t, w)  PROVE ArgInv'
    BY <1>3, <2>4, ArgTypes DEF SetInterval, Call, Steps, Objects, Initialising, Idle
  <2>5. ASSUME NEW w \in Windows, Acquire(t, w)  PROVE ArgInv'
    BY <1>3, <2>5, ArgTypes DEF Acquire, Call, Steps, Objects, Initialising, Idle
  <2>6. ASSUME NEW w \in Windows, NEW i \in Indices, Present(t, w, i)  PROVE ArgInv'
    BY <1>3, <2>6, ArgTypes DEF Present, Call, Steps, Objects, Initialising, Idle
  <2>7. CASE SyncWait(t)
    <3> DEFINE a == [Idle EXCEPT !.tick = clock]
    <3>1. Enter(t, "waiting", a) /\ a \in Args /\ a.tick = clock /\ a.with = None
      BY <2>7, ArgTypes DEF SyncWait, Call, Idle
    <3>2. built' = built
      BY <2>7 DEF SyncWait
    <3> HIDE DEF a
    <3>. QED  BY <1>3, <3>1, <3>2 DEF Steps, OnWindow, Initialising
  <2>8. ASSUME NEW kind \in Simple, SimpleCall(t, kind)  PROVE ArgInv'
    BY <2>8 DEF SimpleCall, gameVars, threadVars, ArgInv
  <2>. QED  BY <1>4, <2>1, <2>2, <2>3, <2>4, <2>5, <2>6, <2>7, <2>8 DEF Game
<1>5. ASSUME NEW t \in Threads, Return(t),
             \A x \in Textures \ {arg[t].object} : built'[x] = built[x],
             pc[t] # "recording" => built' = built
      PROVE  ArgInv'
  <2>1. /\ clock' = clock /\ pc'[t] = "game" /\ arg'[t] = Idle
        /\ \A u \in Threads \ {t} : pc'[u] = pc[u] /\ arg'[u] = arg[u]
    BY <1>5, Returned
  <2>2. ASSUME NEW u \in Threads \ {t}, pc[u] = "recording"
        PROVE  built'[arg[u].object] # None
    <3>1. pc[t] = "recording" => arg[t].object # arg[u].object
      BY <2>2 DEF RuleInv
    <3>2. arg[u].object \in Textures /\ built[arg[u].object] # None
      BY <2>2 DEF ArgInv
    <3>. QED  BY <1>5, <3>1, <3>2
  <2>3. Idle.tick <= clock /\ Idle.with = None
    BY <1>T DEF Idle
  <2>. QED  BY <2>1, <2>2, <2>3 DEF ArgInv, OnWindow, Initialising
<1>6. ASSUME NEW t \in Threads, NEW s \in OnWindow, Goto(t, s), built' = built,
             pc[t] \in OnWindow, s \in Initialising <=> pc[t] \in Initialising,
             arg' \in [Threads -> Args],
             \A u \in Threads : /\ arg'[u].object = arg[u].object
                                /\ arg'[u].with = arg[u].with /\ arg'[u].tick = arg[u].tick
      PROVE  ArgInv'
  <2>1. s \in Steps
    BY DEF OnWindow, Initialising, Steps
  <2>2. /\ clock' = clock /\ pc'[t] = s
        /\ \A u \in Threads \ {t} : pc'[u] = pc[u]
    BY <1>6, <2>1, GoneOn
  <2>. QED  BY <1>6, <2>2 DEF ArgInv, OnWindow, Initialising
<1>7. ASSUME NEW t \in Threads, InHook(t)  PROVE ArgInv'
  <2>1. CASE RecordTexture(t)
    BY <1>5, <2>1 DEF RecordTexture
  <2>2. CASE FailTexture(t)
    BY <1>T, <1>5, <2>2 DEF FailTexture
  <2>3. CASE StageTextures(t)
    BY <1>5, <2>3 DEF StageTextures
  <2>4. CASE TraceInitialize(t)
    <3>1. CASE Goto(t, "adopting") /\ UNCHANGED <<arg, windows>>
      BY <1>T, <1>6, <2>4, <3>1 DEF TraceInitialize, OnWindow, Initialising
    <3>2. CASE Return(t)
      BY <1>5, <2>4, <3>2 DEF TraceInitialize
    <3>. QED  BY <2>4, <3>1, <3>2 DEF TraceInitialize
  <2>5. CASE AdoptSwapchain(t)
    BY <1>5, <2>5 DEF AdoptSwapchain
  <2>6. CASE ObserveInterval(t)
    BY <1>5, <2>6 DEF ObserveInterval
  <2>7. CASE BeginAcquire(t)
    BY <1>T, <1>6, <2>7 DEF BeginAcquire, OnWindow, Initialising
  <2>8. CASE AcquireTexture(t)
    <3>1. PICK index \in Indices \cup {-1} : arg' = [arg EXCEPT ![t].index = index]
      BY <2>8 DEF AcquireTexture
    <3>2. /\ arg' \in [Threads -> Args]
          /\ \A u \in Threads : /\ arg'[u].object = arg[u].object
                                /\ arg'[u].with = arg[u].with /\ arg'[u].tick = arg[u].tick
      BY <1>T, <3>1 DEF Args
    <3>. QED  BY <1>6, <2>8, <3>2 DEF AcquireTexture, OnWindow, Initialising
  <2>9. CASE EndAcquire(t)
    BY <1>5, <2>9 DEF EndAcquire
  <2>10. CASE ObservePresent(t)
    BY <1>T, <1>6, <2>10 DEF ObservePresent, OnWindow, Initialising
  <2>11. CASE PresentTexture(t)
    BY <1>5, <2>11 DEF PresentTexture
  <2>12. CASE ObserveWait(t)
    BY <1>5, <2>12 DEF ObserveWait
  <2>. QED  BY <1>7, <2>1, <2>2, <2>3, <2>4, <2>5, <2>6, <2>7, <2>8, <2>9, <2>10, <2>11, <2>12
            DEF InHook
<1>. QED  BY <1>1, <1>2, <1>4, <1>7 DEF Next

-----------------------------------------------------------------------------
\* The game's rule, as the guards of its calls have it, holds while hooks overlap.
LEMMA RuleStep == TypeOK /\ RuleInv /\ [Next]_vars => RuleInv'
<1> SUFFICES ASSUME TypeOK, RuleInv, [Next]_vars  PROVE RuleInv'
  OBVIOUS
<1> DEFINE Alone == {"recording", "staging", "presenting"}
<1>T. pc \in [Threads -> Steps] /\ arg \in [Threads -> Args]
  BY DEF TypeOK
<1>B. ASSUME NEW object, ~ Busy(object, Steps), NEW u \in Threads
      PROVE  object \notin {arg[u].object, arg[u].with}
  BY <1>T, <1>B DEF Busy
<1>1. CASE UNCHANGED vars
  BY <1>1 DEF RuleInv, Uses, vars, threadVars
<1>2. CASE Tick
  BY <1>2 DEF RuleInv, Uses, Tick, threadVars
<1>3. ASSUME NEW t \in Threads, NEW s \in Steps, NEW a \in Args, Enter(t, s, a),
             \A u \in Threads \ {t} :
               /\ s \in Initialising \/ pc[u] \in Initialising =>
                    ({a.object, a.with} \ {None}) \cap Uses(u) = {}
               /\ s = pc[u] /\ s \in Alone => a.object # arg[u].object
      PROVE  RuleInv'
  <2>1. /\ pc'[t] = s /\ arg'[t] = a
        /\ \A u \in Threads \ {t} : pc'[u] = pc[u] /\ arg'[u] = arg[u]
    BY <1>3, Entered
  <2>2. /\ Uses(t)' = {a.object, a.with} \ {None}
        /\ \A u \in Threads \ {t} : Uses(u)' = Uses(u)
    BY <2>1 DEF Uses
  <2> SUFFICES ASSUME NEW u \in Threads, NEW v \in Threads, u # v
               PROVE  /\ pc'[u] \in Initialising => Uses(u)' \cap Uses(v)' = {}
                      /\ pc'[u] = pc'[v] /\ pc'[u] \in Alone => arg'[u].object # arg'[v].object
    BY DEF RuleInv
  <2>3. CASE u = t
    BY <1>3, <2>1, <2>2, <2>3
  <2>4. CASE v = t
    BY <1>3, <2>1, <2>2, <2>4
  <2>5. CASE u # t /\ v # t
    BY <2>1, <2>2, <2>5 DEF RuleInv
  <2>. QED  BY <2>3, <2>4, <2>5
<1>4. ASSUME NEW t \in Threads, Game(t)  PROVE RuleInv'
  <2>1. ASSUME NEW x \in Textures, BuildTexture(t, x)  PROVE RuleInv'
    <3>1. x \in Objects /\ "recording" \in Steps
      BY DEF Objects, Steps
    <3>2. Enter(t, "recording", [Idle EXCEPT !.object = x]) /\ ~ Busy(x, Steps)
      BY <2>1 DEF BuildTexture, SetUp
    <3>3. \A u \in Threads : x \notin {arg[u].object, arg[u].with}
      BY <1>B, <3>2
    <3> DEFINE a == [Idle EXCEPT !.object = x]
    <3>4. a \in Args /\ a.object = x /\ a.with = None
      BY <3>1, ArgTypes DEF Idle
    <3>5. Enter(t, "recording", a)
      BY <3>2
    <3> HIDE DEF a
    <3>. QED  BY <1>3, <3>1, <3>3, <3>4, <3>5 DEF Uses, Initialising
  <2>2. ASSUME NEW b \in Builders, SetTextures(t, b)  PROVE RuleInv'
    <3>1. b \in Objects /\ "staging" \in Steps
      BY DEF Objects, Steps
    <3>2. Enter(t, "staging", [Idle EXCEPT !.object = b]) /\ ~ Busy(b, Steps)
      BY <2>2 DEF SetTextures, SetUp
    <3>3. \A u \in Threads : b \notin {arg[u].object, arg[u].with}
      BY <1>B, <3>2
    <3> DEFINE a == [Idle EXCEPT !.object = b]
    <3>4. a \in Args /\ a.object = b /\ a.with = None
      BY <3>1, ArgTypes DEF Idle
    <3>5. Enter(t, "staging", a)
      BY <3>2
    <3> HIDE DEF a
    <3>. QED  BY <1>3, <3>1, <3>3, <3>4, <3>5 DEF Uses, Initialising
  <2>3. ASSUME NEW w \in Windows, NEW b \in Builders, InitializeWindow(t, w, b)  PROVE RuleInv'
    <3>1. w \in Objects /\ b \in Objects /\ "initialising" \in Steps
      BY DEF Objects, Steps
    <3>2. /\ Enter(t, "initialising", [Idle EXCEPT !.object = w, !.with = b])
          /\ ~ Busy(w, Steps) /\ ~ Busy(b, Steps)
      BY <2>3 DEF InitializeWindow, SetUp
    <3>3. \A u \in Threads : /\ w \notin {arg[u].object, arg[u].with}
                             /\ b \notin {arg[u].object, arg[u].with}
      BY <1>B, <3>2
    <3> DEFINE a == [Idle EXCEPT !.object = w, !.with = b]
    <3>4. a \in Args /\ a.object = w /\ a.with = b
      BY <3>1, ArgTypes DEF Idle
    <3>5. Enter(t, "initialising", a)
      BY <3>2
    <3> HIDE DEF a
    <3>. QED  BY <1>3, <3>1, <3>3, <3>4, <3>5 DEF Uses, Initialising
  <2>4. ASSUME NEW w \in Windows, SetInterval(t, w)  PROVE RuleInv'
    <3>1. w \in Objects /\ "pacing" \in Steps
      BY DEF Objects, Steps
    <3>2. Enter(t, "pacing", [Idle EXCEPT !.object = w])
      BY <2>4 DEF SetInterval, Call
    <3>3. \A u \in Threads : pc[u] \in Initialising => w \notin {arg[u].object, arg[u].with}
      BY <2>4 DEF SetInterval, Busy, Initialising
    <3> DEFINE a == [Idle EXCEPT !.object = w]
    <3>4. a \in Args /\ a.object = w /\ a.with = None
      BY <3>1, ArgTypes DEF Idle
    <3>5. Enter(t, "pacing", a)
      BY <3>2
    <3> HIDE DEF a
    <3>. QED  BY <1>3, <3>1, <3>3, <3>4, <3>5 DEF Uses, Initialising
  <2>5. ASSUME NEW w \in Windows, Acquire(t, w)  PROVE RuleInv'
    <3>1. w \in Objects /\ "beginning" \in Steps
      BY DEF Objects, Steps
    <3>2. Enter(t, "beginning", [Idle EXCEPT !.object = w, !.tick = clock])
      BY <2>5 DEF Acquire, Call
    <3>3. \A u \in Threads : pc[u] \in Initialising => w \notin {arg[u].object, arg[u].with}
      BY <2>5 DEF Acquire, Busy, Initialising
    <3> DEFINE a == [Idle EXCEPT !.object = w, !.tick = clock]
    <3>4. a \in Args /\ a.object = w /\ a.with = None
      BY <3>1, ArgTypes DEF Idle
    <3>5. Enter(t, "beginning", a)
      BY <3>2
    <3> HIDE DEF a
    <3>. QED  BY <1>3, <3>1, <3>3, <3>4, <3>5 DEF Uses, Initialising
  <2>6. ASSUME NEW w \in Windows, NEW i \in Indices, Present(t, w, i)  PROVE RuleInv'
    <3>1. w \in Objects /\ "presenting" \in Steps
      BY DEF Objects, Steps
    <3>2. Enter(t, "presenting", [Idle EXCEPT !.object = w, !.index = i, !.tick = clock])
      BY <2>6 DEF Present, Call
    <3>3. \A u \in Threads : pc[u] \in Initialising \cup {"presenting"} =>
            w \notin {arg[u].object, arg[u].with}
      BY <2>6 DEF Present, Busy, Initialising
    <3> DEFINE a == [Idle EXCEPT !.object = w, !.index = i, !.tick = clock]
    <3>4. a \in Args /\ a.object = w /\ a.with = None
      BY <3>1, ArgTypes DEF Idle
    <3>5. Enter(t, "presenting", a)
      BY <3>2
    <3> HIDE DEF a
    <3>. QED  BY <1>3, <3>1, <3>3, <3>4, <3>5 DEF Uses, Initialising
  <2>7. CASE SyncWait(t)
    <3>1. Enter(t, "waiting", [Idle EXCEPT !.tick = clock]) /\ "waiting" \in Steps
      BY <2>7 DEF SyncWait, Call, Steps
    <3>. QED  BY <1>3, <3>1, ArgTypes DEF Uses, Idle, Initialising
  <2>8. ASSUME NEW kind \in Simple, SimpleCall(t, kind)  PROVE RuleInv'
    BY <2>8 DEF SimpleCall, threadVars, RuleInv, Uses
  <2>. QED  BY <1>4, <2>1, <2>2, <2>3, <2>4, <2>5, <2>6, <2>7, <2>8 DEF Game
<1>5. ASSUME NEW t \in Threads, Return(t)  PROVE RuleInv'
  <2>1. /\ pc'[t] = "game" /\ arg'[t] = Idle
        /\ \A u \in Threads \ {t} : pc'[u] = pc[u] /\ arg'[u] = arg[u]
    BY <1>5, Returned
  <2>2. Uses(t)' = {} /\ \A u \in Threads \ {t} : Uses(u)' = Uses(u)
    BY <2>1 DEF Uses, Idle
  <2>. QED  BY <2>1, <2>2 DEF RuleInv, Initialising
<1>6. ASSUME NEW t \in Threads, NEW s \in Steps \ Alone, Goto(t, s),
             s \in Initialising => pc[t] \in Initialising,
             \A u \in Threads : arg'[u].object = arg[u].object /\ arg'[u].with = arg[u].with
      PROVE  RuleInv'
  <2>1. pc'[t] = s /\ \A u \in Threads \ {t} : pc'[u] = pc[u]
    BY <1>6, GoneOn
  <2>2. \A u \in Threads : Uses(u)' = Uses(u)
    BY <1>6 DEF Uses
  <2>. QED  BY <1>6, <2>1, <2>2 DEF RuleInv
<1>7. ASSUME NEW t \in Threads, InHook(t)  PROVE RuleInv'
  <2>1. CASE TraceInitialize(t)
    BY <1>5, <1>6, <2>1 DEF TraceInitialize, Steps, Initialising
  <2>2. CASE BeginAcquire(t)
    BY <1>6, <2>2 DEF BeginAcquire, Steps, Initialising
  <2>3. CASE AcquireTexture(t)
    <3>1. PICK index \in Indices \cup {-1} : arg' = [arg EXCEPT ![t].index = index]
      BY <2>3 DEF AcquireTexture
    <3>2. \A u \in Threads : arg'[u].object = arg[u].object /\ arg'[u].with = arg[u].with
      BY <1>T, <3>1 DEF Args
    <3>. QED  BY <1>6, <2>3, <3>2 DEF AcquireTexture, Steps, Initialising
  <2>4. CASE ObservePresent(t)
    BY <1>6, <2>4 DEF ObservePresent, Steps, Initialising
  <2>5. ASSUME Return(t)  PROVE RuleInv'
    BY <1>5, <2>5
  <2>. QED
    BY <1>7, <2>1, <2>2, <2>3, <2>4, <2>5
    DEF InHook, RecordTexture, FailTexture, StageTextures, AdoptSwapchain, ObserveInterval,
        EndAcquire, PresentTexture, ObserveWait
<1>. QED  BY <1>1, <1>2, <1>4, <1>7 DEF Next

-----------------------------------------------------------------------------
\* A call takes its thread into a hook, and leaves what the hooks keep alone.
LEMMA GameFrame ==
  ASSUME NEW t \in Threads, TypeOK, Game(t)
  PROVE  /\ UNCHANGED <<obsVars, previous>>
         /\ UNCHANGED counted \/ pc'[t] = "pacing"
         /\ \/ UNCHANGED <<gameVars, threadVars, stray>>
            \/ /\ pc[t] = "game" /\ clock' = clock
               /\ pc'[t] \notin {"acquiring", "ending"}
               /\ pc'[t] = "presenting" => arg'[t].tick = clock
               /\ \A u \in Threads \ {t} : pc'[u] = pc[u] /\ arg'[u] = arg[u]
<1> DEFINE Kept == UNCHANGED <<obsVars, previous>> /\ (UNCHANGED counted \/ pc'[t] = "pacing")
           Moved == /\ pc[t] = "game" /\ clock' = clock
                    /\ pc'[t] \notin {"acquiring", "ending"}
                    /\ pc'[t] = "presenting" => arg'[t].tick = clock
                    /\ \A u \in Threads \ {t} : pc'[u] = pc[u] /\ arg'[u] = arg[u]
<1>1. ASSUME NEW s \in Steps \ {"acquiring", "ending"}, NEW a, Enter(t, s, a),
             s = "presenting" => a.tick = clock
      PROVE  Moved
  BY <1>1 DEF Enter, TypeOK
<1>2. ASSUME NEW x \in Textures, BuildTexture(t, x)
      PROVE  Moved /\ Kept
  BY <1>1, <1>2 DEF BuildTexture, SetUp, Steps, historyVars
<1>3. ASSUME NEW b \in Builders, SetTextures(t, b)
      PROVE  Moved /\ Kept
  BY <1>1, <1>3 DEF SetTextures, SetUp, Steps, historyVars
<1>4. ASSUME NEW w \in Windows, NEW b \in Builders, InitializeWindow(t, w, b)
      PROVE  Moved /\ Kept
  BY <1>1, <1>4 DEF InitializeWindow, SetUp, Steps
<1>5. ASSUME NEW w \in Windows, SetInterval(t, w) \/ Acquire(t, w)
      PROVE  Moved /\ Kept
  <2>1. Moved
    BY <1>1, <1>5 DEF SetInterval, Acquire, Call, Steps
  <2>2. CASE SetInterval(t, w)
    <3>1. pc'[t] = "pacing" /\ UNCHANGED <<obsVars, previous>> /\ ~ counted'
      BY <2>2 DEF SetInterval, Call, Enter, TypeOK
    <3>. QED  BY <2>1, <3>1
  <2>3. CASE Acquire(t, w)
    <3>1. UNCHANGED <<obsVars, previous, counted>>
      BY <2>3 DEF Acquire, historyVars
    <3>. QED  BY <2>1, <3>1
  <2>. QED  BY <1>5, <2>2, <2>3
<1>6. ASSUME NEW w \in Windows, NEW i \in Indices, Present(t, w, i)
      PROVE  Moved /\ Kept
  <2> DEFINE a == [Idle EXCEPT !.object = w, !.index = i, !.tick = clock]
  <2>1. Enter(t, "presenting", a)
    BY <1>6 DEF Present, Call
  <2>2. a.tick = clock
    BY DEF Idle
  <2>3. Kept
    BY <1>6 DEF Present, historyVars
  <2> HIDE DEF a
  <2>4. Moved
    BY <1>1, <2>1, <2>2 DEF Steps
  <2>. QED  BY <2>3, <2>4
<1>7. ASSUME SyncWait(t)  PROVE Moved /\ Kept
  <2>1. Enter(t, "waiting", [Idle EXCEPT !.tick = clock])
    BY <1>7 DEF SyncWait, Call
  <2>2. Kept
    BY <1>7 DEF SyncWait, historyVars
  <2>3. Moved
    BY <1>1, <2>1 DEF Steps
  <2>. QED  BY <2>2, <2>3
<1>8. ASSUME NEW kind \in Simple, SimpleCall(t, kind)
      PROVE  Kept /\ UNCHANGED <<gameVars, threadVars, stray>>
  BY <1>8 DEF SimpleCall, historyVars
<1>9. \/ Moved /\ Kept
      \/ Kept /\ UNCHANGED <<gameVars, threadVars, stray>>
  <2> HIDE DEF Moved, Kept
  <2>. QED  BY <1>2, <1>3, <1>4, <1>5, <1>6, <1>7, <1>8 DEF Game
<1>. QED  BY <1>9

\* The acquire that is open stays somebody's until it is over.
LEMMA OpenStep == TypeOK /\ ArgInv /\ OpenInv /\ [Next]_vars => OpenInv'
<1> SUFFICES ASSUME TypeOK, ArgInv, OpenInv, [Next]_vars  PROVE OpenInv'
  OBVIOUS
<1>T. /\ pc \in [Threads -> Steps] /\ arg \in [Threads -> Args] /\ timeline \in Timelines
      /\ \A u \in Threads : arg[u].tick \in Nat /\ arg[u].index \in Indices \cup {-1}
  BY DEF TypeOK, Args
<1>1. CASE UNCHANGED <<pc, arg, timeline>>
  BY <1>1 DEF OpenInv
<1>2. ASSUME NEW t \in Threads, Game(t)  PROVE OpenInv'
  BY <1>2, GameFrame DEF OpenInv, obsVars, gameVars, threadVars
<1>3. ASSUME NEW t \in Threads, Return(t), UNCHANGED timeline, pc[t] \notin {"acquiring", "ending"}
      PROVE  OpenInv'
  BY <1>3, Returned DEF OpenInv
<1>4. ASSUME NEW t \in Threads, NEW s \in Steps, Goto(t, s),
             UNCHANGED timeline, UNCHANGED arg, pc[t] \notin {"acquiring", "ending"}
      PROVE  OpenInv'
  BY <1>4, GoneOn DEF OpenInv
<1>5. ASSUME NEW t \in Threads, InHook(t)  PROVE OpenInv'
  <2>1. CASE RecordTexture(t)
    BY <1>3, <2>1 DEF RecordTexture
  <2>2. CASE FailTexture(t)
    BY <1>3, <2>2 DEF FailTexture, obsVars
  <2>3. CASE StageTextures(t)
    BY <1>3, <2>3 DEF StageTextures
  <2>4. CASE TraceInitialize(t)
    BY <1>3, <1>4, <2>4 DEF TraceInitialize, obsVars, Steps
  <2>5. CASE AdoptSwapchain(t)
    <3>1. CASE Adoptable(arg[t].with)
      BY <1>T, <2>5, <3>1, Reset DEF AdoptSwapchain, OpenInv
    <3>2. CASE ~ Adoptable(arg[t].with)
      BY <1>3, <2>5, <3>2 DEF AdoptSwapchain
    <3>. QED  BY <3>1, <3>2
  <2>6. CASE ObserveInterval(t)
    BY <1>T, <2>6, Reset DEF ObserveInterval, OpenInv
  <2>7. CASE BeginAcquire(t)
    <3>1. pc'[t] = "acquiring" /\ arg' = arg /\ timeline'.begin = arg[t].tick
      BY <1>T, <2>7, GoneOn, AcquireBegun DEF BeginAcquire, Steps
    <3>. QED  BY <3>1 DEF OpenInv
  <2>8. CASE AcquireTexture(t)
    <3>1. PICK index \in Indices \cup {-1} : arg' = [arg EXCEPT ![t].index = index]
      BY <2>8 DEF AcquireTexture
    <3>2. \A u \in Threads : arg'[u].tick = arg[u].tick
      BY <1>T, <3>1 DEF Args
    <3>3. pc'[t] = "ending" /\ \A u \in Threads \ {t} : pc'[u] = pc[u]
      BY <2>8, GoneOn DEF AcquireTexture, Steps
    <3>. QED  BY <2>8, <3>2, <3>3 DEF AcquireTexture, obsVars, OpenInv
  <2>9. CASE EndAcquire(t)
    <3>1. clock \in Nat
      BY DEF TypeOK
    <3>. QED  BY <1>T, <2>9, <3>1, AcquireEnded DEF EndAcquire, OpenInv
  <2>10. CASE ObservePresent(t)
    <3>1. timeline'.open = timeline.open /\ timeline'.begin = timeline.begin
      BY <1>T, <2>10, Presented DEF ObservePresent
    <3>2. arg' = arg /\ pc[t] = "presenting" /\ \A u \in Threads \ {t} : pc'[u] = pc[u]
      BY <2>10, GoneOn DEF ObservePresent, Steps
    <3>. QED  BY <3>1, <3>2 DEF OpenInv
  <2>11. CASE PresentTexture(t)
    BY <1>3, <2>11 DEF PresentTexture, obsVars
  <2>12. CASE ObserveWait(t)
    BY <1>3, <2>12 DEF ObserveWait, obsVars
  <2>. QED  BY <1>5, <2>1, <2>2, <2>3, <2>4, <2>5, <2>6, <2>7, <2>8, <2>9, <2>10, <2>11, <2>12
            DEF InHook
<1>6. CASE Tick
  BY <1>1, <1>6 DEF Tick, threadVars, obsVars
<1>7. CASE UNCHANGED vars
  BY <1>1, <1>7 DEF vars, threadVars, obsVars
<1>. QED  BY <1>2, <1>5, <1>6, <1>7 DEF Next

\* The last present counted is the mapped window's, and no present to that window
\* which is still to be counted was made before it.
LEMMA PaceStep == TypeOK /\ ArgInv /\ RuleInv /\ PaceInv /\ [Next]_vars => PaceInv'
<1> SUFFICES ASSUME TypeOK, ArgInv, RuleInv, PaceInv, [Next]_vars  PROVE PaceInv'
  OBVIOUS
<1>T. /\ pc \in [Threads -> Steps] /\ arg \in [Threads -> Args] /\ timeline \in Timelines
      /\ swapchain.window \in Windows \cup {None} /\ clock \in Nat
      /\ \A u \in Threads : arg[u].tick \in Nat /\ arg[u].index \in Indices \cup {-1}
      /\ timeline.present \in Nat /\ counted \in BOOLEAN
  BY DEF TypeOK, Args, Timelines
<1>1. CASE UNCHANGED <<pc, arg, timeline, previous, counted, swapchain, clock>>
  BY <1>1 DEF PaceInv, ChangePending
<1>2. ASSUME NEW t \in Threads, Game(t)  PROVE PaceInv'
  <2>1. UNCHANGED <<timeline, swapchain, previous>> /\ (UNCHANGED counted \/ pc'[t] = "pacing")
    BY <1>2, GameFrame DEF obsVars
  <2>2. CASE UNCHANGED <<gameVars, threadVars, stray>>
    <3>1. pc'[t] = "pacing" => ChangePending'
      BY DEF ChangePending
    <3>2. UNCHANGED counted \/ ChangePending'
      BY <2>1, <3>1
    <3>3. ChangePending' = ChangePending /\ UNCHANGED <<pc, arg, clock>>
      BY <2>2 DEF ChangePending, gameVars, threadVars
    <3>. QED  BY <2>1, <3>2, <3>3 DEF PaceInv
  <2>3. CASE /\ pc[t] = "game" /\ clock' = clock
             /\ pc'[t] = "presenting" => arg'[t].tick = clock
             /\ \A u \in Threads \ {t} : pc'[u] = pc[u] /\ arg'[u] = arg[u]
    <3>1. ChangePending => ChangePending'
      BY <2>3 DEF ChangePending
    <3>2. UNCHANGED counted \/ ChangePending'
      BY <2>1 DEF ChangePending
    <3>. QED  BY <2>1, <2>3, <3>1, <3>2 DEF PaceInv
  <2>. QED  BY <1>2, <2>2, <2>3, GameFrame
\* A hook that neither maps a window nor counts a present.
<1>3. ASSUME NEW t \in Threads, clock' = clock, pc[t] # "pacing", pc'[t] # "presenting",
             \A u \in Threads \ {t} : pc'[u] = pc[u] /\ arg'[u] = arg[u],
             timeline'.present = timeline.present, UNCHANGED <<previous, counted, swapchain>>
      PROVE  PaceInv'
  <2>1. ChangePending => ChangePending'
    BY <1>3 DEF ChangePending
  <2>. QED  BY <1>3, <2>1 DEF PaceInv
\* One that starts the pacing afresh.
<1>4. ASSUME clock' = clock, timeline'.present = 0, arg' \in [Threads -> Args]
      PROVE  PaceInv'
  <2>1. \A u \in Threads : arg'[u].tick \in Nat
    BY <1>4 DEF Args
  <2>. QED  BY <1>T, <1>4, <2>1 DEF PaceInv
<1>5. ASSUME NEW t \in Threads, InHook(t)  PROVE PaceInv'
  <2>1. CASE RecordTexture(t)
    BY <1>3, <2>1, Returned DEF RecordTexture, historyVars
  <2>2. CASE FailTexture(t)
    BY <1>3, <2>2, Returned DEF FailTexture, obsVars, historyVars
  <2>3. CASE StageTextures(t)
    BY <1>3, <2>3, Returned DEF StageTextures, historyVars
  <2>4. CASE TraceInitialize(t)
    BY <1>3, <2>4, Returned, GoneOn DEF TraceInitialize, obsVars, historyVars, Steps
  <2>5. CASE AdoptSwapchain(t)
    <3>1. CASE Adoptable(arg[t].with)
      BY <1>T, <1>4, <2>5, <3>1, Reset, Returned DEF AdoptSwapchain
    <3>2. CASE ~ Adoptable(arg[t].with)
      BY <1>3, <2>5, <3>2, Returned DEF AdoptSwapchain, historyVars
    <3>. QED  BY <3>1, <3>2
  <2>6. CASE ObserveInterval(t)
    BY <1>T, <1>4, <2>6, Reset, Returned DEF ObserveInterval
  <2>7. CASE BeginAcquire(t)
    <3>1. timeline'.present = timeline.present
      BY <1>T, <2>7, AcquireBegun DEF BeginAcquire
    <3>2. /\ clock' = clock /\ pc[t] = "beginning" /\ pc'[t] = "acquiring" /\ arg' = arg
          /\ \A u \in Threads \ {t} : pc'[u] = pc[u]
      BY <2>7, GoneOn DEF BeginAcquire, Steps
    <3>3. UNCHANGED <<previous, counted, swapchain>>
      BY <2>7 DEF BeginAcquire, historyVars
    <3>. QED  BY <1>3, <3>1, <3>2, <3>3
  <2>8. CASE AcquireTexture(t)
    <3>1. \A u \in Threads \ {t} : arg'[u] = arg[u]
      BY <1>T, <2>8 DEF AcquireTexture
    <3>. QED  BY <1>3, <2>8, <3>1, GoneOn DEF AcquireTexture, obsVars, historyVars, Steps
  <2>9. CASE EndAcquire(t)
    <3>1. timeline'.present = timeline.present
      BY <1>T, <2>9, AcquireEnded DEF EndAcquire
    <3>. QED  BY <1>3, <2>9, <3>1, Returned DEF EndAcquire
  <2>10. CASE ObservePresent(t)
    <3>1. /\ pc[t] = "presenting" /\ pc'[t] = "showing" /\ arg' = arg /\ clock' = clock
          /\ swapchain' = swapchain
          /\ \A u \in Threads \ {t} : pc'[u] = pc[u]
      BY <2>10, GoneOn DEF ObservePresent, Steps
    <3>2. CASE Foreign(arg[t].object)
      BY <1>3, <2>10, <3>1, <3>2 DEF ObservePresent
    <3>3. CASE ~ Foreign(arg[t].object)
      <4>1. timeline'.present = arg[t].tick
            /\ previous' = [window |-> arg[t].object, tick |-> arg[t].tick] /\ counted' = TRUE
        BY <1>T, <2>10, <3>3, Presented DEF ObservePresent
      <4>2. arg[t].object \in Windows /\ arg[t].tick <= clock
        BY <3>1 DEF ArgInv, OnWindow
      <4>3. swapchain.window # None => swapchain.window = arg[t].object
        BY <3>3 DEF Foreign
      <4>4. \A u \in Threads : pc'[u] = "presenting" => arg[u].object # arg[t].object
        BY <3>1 DEF RuleInv
      <4>5. None \notin Windows
        BY NoneAssumption
      <4>6. \A u \in Threads : pc'[u] = "presenting" => arg[u].object # swapchain.window
        BY <3>1, <4>3, <4>4, <4>5 DEF ArgInv, OnWindow
      <4>. QED  BY <3>1, <4>1, <4>2, <4>3, <4>6 DEF PaceInv
    <3>. QED  BY <3>2, <3>3
  <2>11. CASE PresentTexture(t)
    BY <1>3, <2>11, Returned DEF PresentTexture, obsVars, historyVars
  <2>12. CASE ObserveWait(t)
    BY <1>3, <2>12, Returned DEF ObserveWait, obsVars, historyVars
  <2>. QED  BY <1>5, <2>1, <2>2, <2>3, <2>4, <2>5, <2>6, <2>7, <2>8, <2>9, <2>10, <2>11, <2>12
            DEF InHook
<1>6. CASE Tick
  <2>1. clock' \in Nat /\ clock <= clock'
    BY <1>T, <1>6, ClockAssumption DEF Tick
  <2>. QED  BY <1>T, <1>6, <2>1 DEF Tick, threadVars, obsVars, historyVars, PaceInv, ChangePending
<1>7. CASE UNCHANGED vars
  BY <1>1, <1>7 DEF vars, gameVars, threadVars, obsVars, historyVars
<1>. QED  BY <1>2, <1>5, <1>6, <1>7 DEF Next

\* The held set has the mapped window's indices, and only strays besides: an index
\* goes in and out with the window's own, and what a new map does not cover strays.
LEMMA HeldStep == TypeOK /\ ArgInv /\ RuleInv /\ HeldInv /\ [Next]_vars => HeldInv'
<1> SUFFICES ASSUME TypeOK, ArgInv, RuleInv, HeldInv, [Next]_vars  PROVE HeldInv'
  OBVIOUS
<1>T. /\ timeline \in Timelines /\ held \in [Windows -> Held]
      /\ swapchain.window \in Windows \cup {None}
      /\ \A u \in Threads : arg[u].tick \in Nat /\ arg[u].index \in Indices \cup {-1}
  BY DEF TypeOK, Args
<1>W. \A u \in Threads : pc[u] \in OnWindow => arg[u].object \in Windows
  BY DEF ArgInv
\* A step of a thread that leaves the indices alone.
<1>1. ASSUME UNCHANGED <<held, stray, swapchain>>, timeline'.held = timeline.held,
             \A u \in Threads : pc'[u] \in Initialising =>
               pc[u] \in Initialising /\ arg'[u].object = arg[u].object
      PROVE  HeldInv'
  BY <1>1 DEF HeldInv
<1>2. ASSUME NEW t \in Threads, Game(t)  PROVE HeldInv'
  <2>1. ASSUME NEW w \in Windows, NEW b \in Builders, InitializeWindow(t, w, b)  PROVE HeldInv'
    <3> DEFINE a == [Idle EXCEPT !.object = w, !.with = b]
    <3>1. /\ held' = [held EXCEPT ![w] = {}] /\ stray' = stray \cup held[w]
          /\ swapchain' = swapchain /\ timeline' = timeline
      BY <2>1 DEF InitializeWindow, obsVars
    <3>2. Enter(t, "initialising", a) /\ a.object = w
      BY <2>1 DEF InitializeWindow, SetUp, Idle
    <3>3. \A u \in Threads \ {t} : pc'[u] = pc[u] /\ arg'[u] = arg[u]
      BY <3>2 DEF Enter
    <3>4. arg'[t].object = w
      <4> HIDE DEF a
      <4>. QED  BY <3>2 DEF Enter, TypeOK
    <3>5. \A v \in Windows : held'[v] = IF v = w THEN {} ELSE held[v]
      BY <1>T, <3>1
    <3>6. UNION {held[v] : v \in Windows} \subseteq held[w] \cup UNION {held'[v] : v \in Windows}
      BY <3>5
    <3>7. \A u \in Threads : pc'[u] \in Initialising => held'[arg'[u].object] = {}
      <4>1. ASSUME NEW u \in Threads \ {t}, pc[u] \in Initialising
            PROVE  held'[arg[u].object] = {}
        BY <1>W, <3>5, <4>1 DEF HeldInv, OnWindow
      <4>. QED  BY <3>3, <3>4, <3>5, <4>1
    <3>8. timeline'.held \subseteq stray' \cup UNION {held'[v] : v \in Windows}
      BY <3>1, <3>6 DEF HeldInv
    <3>. QED  BY <1>T, <3>1, <3>5, <3>7, <3>8 DEF HeldInv
  <2>2. ASSUME NEW s \in Steps \ Initialising, NEW a, Enter(t, s, a), UNCHANGED <<held, stray>>
        PROVE  HeldInv'
    <3>1. \A u \in Threads : pc'[u] \in Initialising =>
            pc[u] \in Initialising /\ arg'[u].object = arg[u].object
      BY <2>2 DEF Enter, TypeOK
    <3>. QED  BY <1>1, <1>2, <2>2, <3>1, GameFrame DEF obsVars
  <2>3. ASSUME NEW x \in Textures, BuildTexture(t, x)  PROVE HeldInv'
    BY <2>2, <2>3 DEF BuildTexture, SetUp, historyVars, Steps, Initialising
  <2>4. ASSUME NEW b \in Builders, SetTextures(t, b)  PROVE HeldInv'
    BY <2>2, <2>4 DEF SetTextures, SetUp, historyVars, Steps, Initialising
  <2>5. ASSUME NEW w \in Windows, SetInterval(t, w) \/ Acquire(t, w)  PROVE HeldInv'
    BY <2>2, <2>5 DEF SetInterval, Acquire, Call, historyVars, Steps, Initialising
  <2>6. ASSUME NEW w \in Windows, NEW i \in Indices, Present(t, w, i)  PROVE HeldInv'
    BY <2>2, <2>6 DEF Present, Call, historyVars, Steps, Initialising
  <2>7. CASE SyncWait(t)
    BY <2>2, <2>7 DEF SyncWait, Call, historyVars, Steps, Initialising
  <2>8. ASSUME NEW kind \in Simple, SimpleCall(t, kind)  PROVE HeldInv'
    BY <1>1, <2>8 DEF SimpleCall, gameVars, threadVars, obsVars, historyVars
  <2>. QED  BY <1>2, <2>1, <2>3, <2>4, <2>5, <2>6, <2>7, <2>8 DEF Game
<1>3. ASSUME NEW t \in Threads, InHook(t)  PROVE HeldInv'
  <2>1. ASSUME Return(t), UNCHANGED <<held, stray, swapchain>>, timeline'.held = timeline.held
        PROVE  HeldInv'
    BY <1>1, <2>1, Returned DEF Initialising
  <2>2. ASSUME NEW s \in Steps, Goto(t, s), UNCHANGED <<held, stray, swapchain>>,
               timeline'.held = timeline.held,
               \A u \in Threads : arg'[u].object = arg[u].object,
               s \in Initialising => pc[t] \in Initialising
        PROVE  HeldInv'
    BY <1>1, <2>2, GoneOn
  <2>3. CASE RecordTexture(t)
    BY <2>1, <2>3 DEF RecordTexture, historyVars
  <2>4. CASE FailTexture(t)
    BY <2>1, <2>4 DEF FailTexture, obsVars, historyVars
  <2>5. CASE StageTextures(t)
    BY <2>1, <2>5 DEF StageTextures, historyVars
  <2>6. CASE TraceInitialize(t)
    BY <2>1, <2>2, <2>6 DEF TraceInitialize, obsVars, historyVars, Steps, Initialising
  <2>7. CASE AdoptSwapchain(t)
    <3>1. CASE Adoptable(arg[t].with)
      <4>1. /\ held' = held /\ stray' = stray \cup UNION {held[w] : w \in Windows}
            /\ swapchain'.window = arg[t].object /\ timeline'.held = timeline.held
        BY <1>T, <2>7, <3>1, Reset DEF AdoptSwapchain, Adopt
      <4>2. arg[t].object \in Windows /\ held[arg[t].object] = {}
        BY <1>W, <2>7 DEF AdoptSwapchain, HeldInv, OnWindow, Initialising
      <4>3. \A u \in Threads : pc'[u] \in Initialising =>
              pc[u] \in Initialising /\ arg'[u].object = arg[u].object
        BY <2>7, Returned DEF AdoptSwapchain, Initialising
      <4>. QED  BY <4>1, <4>2, <4>3 DEF HeldInv
    <3>2. CASE ~ Adoptable(arg[t].with)
      BY <2>1, <2>7, <3>2 DEF AdoptSwapchain, historyVars
    <3>. QED  BY <3>1, <3>2
  <2>8. CASE ObserveInterval(t)
    BY <1>T, <2>1, <2>8, Reset DEF ObserveInterval, historyVars
  <2>9. CASE BeginAcquire(t)
    <3>1. timeline'.held = timeline.held
      BY <1>T, <2>9, AcquireBegun DEF BeginAcquire
    <3>. QED  BY <2>2, <2>9, <3>1 DEF BeginAcquire, historyVars, Steps, Initialising
  <2>10. CASE AcquireTexture(t)
    <3>1. PICK index \in Indices \cup {-1} : arg' = [arg EXCEPT ![t].index = index]
      BY <2>10 DEF AcquireTexture
    <3>2. \A u \in Threads : arg'[u].object = arg[u].object
      BY <3>1 DEF TypeOK, Args
    <3>. QED  BY <2>2, <2>10, <3>2 DEF AcquireTexture, obsVars, historyVars, Steps, Initialising
  <2>11. CASE EndAcquire(t)
    <3> DEFINE w == arg[t].object
               got == {arg[t].index} \ {-1}
    <3>1. w \in Windows /\ got \in Held /\ clock \in Nat
      BY <1>T, <1>W, <2>11 DEF EndAcquire, OnWindow, Held, TypeOK
    <3>2. /\ timeline'.held = timeline.held \cup {i \in got : Trackable(i)}
          /\ swapchain' = swapchain
          /\ stray' = IF w = swapchain.window THEN stray ELSE stray \cup got
      <4>1. timeline'.held = IF Trackable(arg[t].index) THEN timeline.held \cup {arg[t].index}
                             ELSE timeline.held
        BY <1>T, <2>11, <3>1, AcquireEnded DEF EndAcquire
      <4>2. Trackable(arg[t].index) => arg[t].index # -1
        BY IndexBitsAssumption DEF Trackable
      <4>. QED  BY <2>11, <4>1, <4>2 DEF EndAcquire
    <3>3. \A v \in Windows : held'[v] = IF v = w THEN held[v] \cup got ELSE held[v]
      BY <1>T, <2>11 DEF EndAcquire
    <3>4. ASSUME NEW u \in Threads, pc'[u] \in Initialising  PROVE held'[arg'[u].object] = {}
      <4>1. pc[t] = "ending" /\ u # t /\ pc[u] \in Initialising /\ arg'[u] = arg[u]
        BY <2>11, <3>4, Returned DEF EndAcquire, Initialising
      <4>2. arg[u].object \in Windows /\ held[arg[u].object] = {}
        BY <1>W, <4>1 DEF HeldInv, OnWindow
      <4>3. arg[u].object # w
        BY <3>1, <4>1, <4>2, NoneAssumption DEF RuleInv, Uses
      <4>. QED  BY <3>3, <4>1, <4>2, <4>3
    <3> HIDE DEF w, got
    <3>5. /\ UNION {held[v] : v \in Windows} \subseteq UNION {held'[v] : v \in Windows}
          /\ got \subseteq UNION {held'[v] : v \in Windows}
      BY <3>1, <3>3
    <3>6. timeline'.held \subseteq stray' \cup UNION {held'[v] : v \in Windows}
      BY <3>2, <3>5 DEF HeldInv
    <3>. QED  BY <1>T, <3>1, <3>2, <3>3, <3>4, <3>6 DEF HeldInv
  <2>12. CASE ObservePresent(t)
    <3> DEFINE w == arg[t].object
               i == arg[t].index
    <3>1. w \in Windows /\ i \in Indices \cup {-1}
      BY <1>T, <1>W, <2>12 DEF ObservePresent, OnWindow
    <3>2. UNCHANGED <<swapchain, stray>>
      BY <2>12 DEF ObservePresent
    <3>3. \A v \in Windows : held'[v] = IF v = w THEN held[v] \ {i} ELSE held[v]
      BY <1>T, <2>12 DEF ObservePresent
    <3>4. ASSUME NEW u \in Threads, pc'[u] \in Initialising  PROVE held'[arg'[u].object] = {}
      <4>1. pc[u] \in Initialising /\ arg'[u] = arg[u]
        BY <2>12, <3>4, GoneOn DEF ObservePresent, Initialising, Steps
      <4>2. arg[u].object \in Windows /\ held[arg[u].object] = {}
        BY <1>W, <4>1 DEF HeldInv, OnWindow
      <4>. QED  BY <3>3, <4>1, <4>2
    <3>5. Foreign(w) => timeline' = timeline
      BY <2>12 DEF ObservePresent
    <3>6. ASSUME ~ Foreign(w)
          PROVE  timeline'.held = IF Trackable(i) THEN timeline.held \ {i} ELSE timeline.held
      <4>1. timeline' = OnPresent(timeline, arg[t].tick, i) /\ arg[t].tick \in Nat
        BY <1>T, <2>12, <3>6 DEF ObservePresent
      <4>2. timeline \in Timelines
        BY <1>T
      <4> HIDE DEF i
      <4>3. /\ Trackable(i) => timeline'.held = timeline.held \ {i}
            /\ ~ Trackable(i) => timeline'.held = timeline.held
        BY <3>1, <4>1, <4>2, PresentedHeld
      <4>. QED  BY <4>3
    <3> HIDE DEF w, i
    <3>7. CASE Foreign(w)
      <4>1. swapchain.window \in Windows \ {w}
        BY <1>T, <3>7 DEF Foreign
      <4>2. held'[swapchain.window] = held[swapchain.window]
        BY <3>3, <4>1
      <4>3. held[swapchain.window] \subseteq UNION {held'[v] : v \in Windows}
        BY <4>1, <4>2
      <4>4. timeline'.held \subseteq stray' \cup UNION {held'[v] : v \in Windows}
        BY <3>2, <3>5, <3>7, <4>1, <4>3, NoneAssumption DEF HeldInv
      <4>. QED  BY <3>2, <3>4, <3>5, <3>7, <4>2, <4>4 DEF HeldInv
    <3>8. CASE ~ Foreign(w)
      <4>1. UNION {held[v] : v \in Windows} \subseteq {i} \cup UNION {held'[v] : v \in Windows}
        BY <3>3
      <4>2. timeline'.held \subseteq stray' \cup UNION {held'[v] : v \in Windows}
        BY <3>2, <3>6, <3>8, <4>1 DEF HeldInv
      <4>3. swapchain.window # None => swapchain.window = w
        BY <3>8 DEF Foreign
      <4>. QED  BY <3>1, <3>2, <3>3, <3>4, <3>6, <3>8, <4>2, <4>3 DEF HeldInv
    <3>. QED  BY <3>7, <3>8
  <2>13. CASE PresentTexture(t)
    BY <2>1, <2>13 DEF PresentTexture, obsVars, historyVars
  <2>14. CASE ObserveWait(t)
    BY <2>1, <2>14 DEF ObserveWait, obsVars, historyVars
  <2>. QED  BY <1>3, <2>3, <2>4, <2>5, <2>6, <2>7, <2>8, <2>9, <2>10, <2>11, <2>12, <2>13, <2>14
            DEF InHook
<1>4. CASE Tick
  BY <1>1, <1>4 DEF Tick, threadVars, obsVars, historyVars
<1>5. CASE UNCHANGED vars
  BY <1>1, <1>5 DEF vars, gameVars, threadVars, obsVars, historyVars
<1>. QED  BY <1>2, <1>3, <1>4, <1>5 DEF Next

\* A texture that is built stays so, unless the step is a call that builds it.
LEMMA BuiltKept ==
  ASSUME NEW t \in Threads, \A u \in Threads \ {t} : pc'[u] = pc[u] /\ arg'[u] = arg[u],
         pc'[t] # "recording", \A x \in Built : built'[x] = built[x]
  PROVE  Built \subseteq Built'
  BY DEF Built, Busy

\* What is staged is its builder's list: a list given anew is not adopted before it is
\* staged, and its textures are not built again before it is adopted.
LEMMA ListStep == TypeOK /\ ArgInv /\ RuleInv /\ ListInv /\ [Next]_vars => ListInv'
<1> SUFFICES ASSUME TypeOK, ArgInv, RuleInv, ListInv, [Next]_vars  PROVE ListInv'
  OBVIOUS
<1>T. /\ pc \in [Threads -> Steps] /\ arg \in [Threads -> Args]
      /\ built \in [Textures -> Layouts \cup {None}] /\ listed \in [Builders -> Seq(Textures)]
  BY DEF TypeOK
<1>W. \A u \in Threads : pc[u] \in Initialising => arg[u].with \in Builders
  BY DEF ArgInv
<1>0. CASE UNCHANGED <<pc, arg, built, listed, staged>>
  BY <1>0 DEF ListInv, Built, Busy
\* A step that leaves the lists alone and does not stage one.
<1>1. ASSUME NEW t \in Threads, \A u \in Threads \ {t} : pc'[u] = pc[u] /\ arg'[u] = arg[u],
             pc[t] # "staging", UNCHANGED <<listed, staged>>, Built \subseteq Built',
             pc'[t] \in Initialising => pc[t] \in Initialising /\ arg'[t].with = arg[t].with
      PROVE  ListInv'
  <2>1. ASSUME NEW u \in Threads, pc'[u] \in Initialising,
               NEW i \in DOMAIN listed'[arg'[u].with]
        PROVE  listed'[arg'[u].with][i] \in Built'
    <3>1. pc[u] \in Initialising /\ arg'[u].with = arg[u].with
      BY <1>1, <2>1
    <3>. QED  BY <1>1, <2>1, <3>1 DEF ListInv
  <2>2. ASSUME NEW b \in Builders
        PROVE  \/ staged'.builder # b \/ staged'.overflowed
               \/ \E u \in Threads : pc'[u] = "staging" /\ arg'[u].object = b
               \/ staged'.handles = listed'[b]
    BY <1>1 DEF ListInv
  <2>. QED  BY <2>1, <2>2 DEF ListInv
<1>2. ASSUME NEW t \in Threads, NEW s \in Steps \ Initialising, NEW a, Enter(t, s, a),
             s # "recording", UNCHANGED <<built, listed, staged>>
      PROVE  ListInv'
  <2>1. /\ pc[t] = "game" /\ pc'[t] = s
        /\ \A u \in Threads \ {t} : pc'[u] = pc[u] /\ arg'[u] = arg[u]
    BY <1>2 DEF Enter, TypeOK
  <2>2. Built \subseteq Built'
    BY <1>2, <2>1, BuiltKept
  <2>. QED  BY <1>1, <1>2, <2>1, <2>2
<1>3. ASSUME NEW t \in Threads, Game(t)  PROVE ListInv'
  <2>1. ASSUME NEW x \in Textures, BuildTexture(t, x)  PROVE ListInv'
    <3>1. PICK layout \in Layouts :
            /\ SetUp(t, "recording", [Idle EXCEPT !.object = x])
            /\ built' = [built EXCEPT ![x] = layout]
      BY <2>1 DEF BuildTexture
    <3> DEFINE a == [Idle EXCEPT !.object = x]
    <3>2. Enter(t, "recording", a) /\ a.object = x /\ a.with = None
      BY <3>1 DEF SetUp, Idle
    <3> HIDE DEF a
    <3>3. /\ pc[t] = "game" /\ pc'[t] = "recording" /\ arg'[t] = a
          /\ \A u \in Threads \ {t} : pc'[u] = pc[u] /\ arg'[u] = arg[u]
      BY <3>2 DEF Enter, TypeOK
    <3>4. Built \ {x} \subseteq Built'
      <4>1. ASSUME NEW y \in Built \ {x}  PROVE y \in Built'
        <5>1. y \in Textures /\ built'[y] # None
          BY <1>T, <3>1, <4>1 DEF Built
        <5>2. y \notin {a.object, a.with}
          BY <3>2, <4>1, <5>1, NoneAssumption
        <5>. QED  BY <3>3, <4>1, <5>1, <5>2 DEF Built, Busy
      <4>. QED  BY <4>1
    <3>5. UNCHANGED <<listed, staged>>
      BY <2>1 DEF BuildTexture, obsVars
    <3>6. ASSUME NEW u \in Threads, pc'[u] \in Initialising,
                 NEW i \in DOMAIN listed'[arg'[u].with]
          PROVE  listed'[arg'[u].with][i] \in Built'
      <4>1. u # t /\ pc[u] \in Initialising /\ arg'[u] = arg[u] /\ arg[u].with \in Builders
        BY <1>W, <3>3, <3>6 DEF Initialising
      <4>2. Busy(arg[u].with, Initialising)
        BY <4>1 DEF Busy
      <4>3. listed[arg[u].with][i] # x
        BY <2>1, <3>5, <3>6, <4>1, <4>2 DEF BuildTexture, Initialising
      <4>. QED  BY <3>4, <3>5, <3>6, <4>1, <4>3 DEF ListInv
    <3>7. ASSUME NEW b \in Builders
          PROVE  \/ staged'.builder # b \/ staged'.overflowed
                 \/ \E u \in Threads : pc'[u] = "staging" /\ arg'[u].object = b
                 \/ staged'.handles = listed'[b]
      BY <3>3, <3>5 DEF ListInv
    <3>. QED  BY <3>6, <3>7 DEF ListInv
  <2>2. ASSUME NEW b \in Builders, SetTextures(t, b)  PROVE ListInv'
    <3> DEFINE a == [Idle EXCEPT !.object = b]
    <3>1. Enter(t, "staging", a) /\ a.object = b
      BY <2>2 DEF SetTextures, SetUp, Idle
    <3> HIDE DEF a
    <3>2. /\ pc[t] = "game" /\ pc'[t] = "staging" /\ arg'[t].object = b
          /\ \A u \in Threads \ {t} : pc'[u] = pc[u] /\ arg'[u] = arg[u]
      BY <3>1 DEF Enter, TypeOK
    <3>3. built' = built /\ staged' = staged
      BY <2>2 DEF SetTextures, obsVars
    <3>4. Built \subseteq Built'
      BY <3>2, <3>3, BuiltKept
    <3>5. \A c \in Builders \ {b} : listed'[c] = listed[c]
      BY <1>T, <2>2 DEF SetTextures
    <3>6. \A u \in Threads : arg[u].with # b
      BY <1>T, <2>2 DEF SetTextures, Busy
    <3>7. ASSUME NEW u \in Threads, pc'[u] \in Initialising,
                 NEW i \in DOMAIN listed'[arg'[u].with]
          PROVE  listed'[arg'[u].with][i] \in Built'
      <4>1. u # t /\ pc[u] \in Initialising /\ arg'[u] = arg[u] /\ arg[u].with \in Builders
        BY <1>W, <3>2, <3>7 DEF Initialising
      <4>2. listed'[arg'[u].with] = listed[arg[u].with]
        BY <3>5, <3>6, <4>1
      <4>. QED  BY <3>4, <3>7, <4>1, <4>2 DEF ListInv
    <3>8. ASSUME NEW c \in Builders
          PROVE  \/ staged'.builder # c \/ staged'.overflowed
                 \/ \E u \in Threads : pc'[u] = "staging" /\ arg'[u].object = c
                 \/ staged'.handles = listed'[c]
      BY <3>2, <3>3, <3>5 DEF ListInv
    <3>. QED  BY <3>7, <3>8 DEF ListInv
  <2>3. ASSUME NEW w \in Windows, NEW b \in Builders, InitializeWindow(t, w, b)  PROVE ListInv'
    <3> DEFINE a == [Idle EXCEPT !.object = w, !.with = b]
    <3>1. Enter(t, "initialising", a) /\ a.with = b
      BY <2>3 DEF InitializeWindow, SetUp, Idle
    <3> HIDE DEF a
    <3>2. /\ pc[t] = "game" /\ pc'[t] = "initialising" /\ arg'[t].with = b
          /\ \A u \in Threads \ {t} : pc'[u] = pc[u] /\ arg'[u] = arg[u]
      BY <3>1 DEF Enter, TypeOK
    <3>3. UNCHANGED <<built, listed, staged>> /\ \A i \in DOMAIN listed[b] : listed[b][i] \in Built
      BY <2>3 DEF InitializeWindow, obsVars
    <3>4. Built \subseteq Built'
      BY <3>2, <3>3, BuiltKept
    <3>5. ASSUME NEW u \in Threads, pc'[u] \in Initialising,
                 NEW i \in DOMAIN listed'[arg'[u].with]
          PROVE  listed'[arg'[u].with][i] \in Built'
      BY <3>2, <3>3, <3>4, <3>5 DEF ListInv
    <3>6. ASSUME NEW c \in Builders
          PROVE  \/ staged'.builder # c \/ staged'.overflowed
                 \/ \E u \in Threads : pc'[u] = "staging" /\ arg'[u].object = c
                 \/ staged'.handles = listed'[c]
      BY <3>2, <3>3 DEF ListInv
    <3>. QED  BY <3>5, <3>6 DEF ListInv
  <2>4. ASSUME NEW w \in Windows, SetInterval(t, w) \/ Acquire(t, w)  PROVE ListInv'
    BY <1>2, <2>4 DEF SetInterval, Acquire, Call, obsVars, Steps, Initialising
  <2>5. ASSUME NEW w \in Windows, NEW i \in Indices, Present(t, w, i)  PROVE ListInv'
    BY <1>2, <2>5 DEF Present, Call, obsVars, Steps, Initialising
  <2>6. CASE SyncWait(t)
    BY <1>2, <2>6 DEF SyncWait, Call, obsVars, Steps, Initialising
  <2>7. ASSUME NEW kind \in Simple, SimpleCall(t, kind)  PROVE ListInv'
    BY <1>0, <2>7 DEF SimpleCall, gameVars, threadVars, obsVars
  <2>. QED  BY <1>3, <2>1, <2>2, <2>3, <2>4, <2>5, <2>6, <2>7 DEF Game
<1>4. ASSUME NEW t \in Threads, InHook(t)  PROVE ListInv'
  <2>1. ASSUME Return(t), pc[t] # "staging", UNCHANGED <<listed, staged>>,
               \A x \in Built : built'[x] = built[x]
        PROVE  ListInv'
    <3>1. pc'[t] = "game" /\ \A u \in Threads \ {t} : pc'[u] = pc[u] /\ arg'[u] = arg[u]
      BY <2>1, Returned
    <3>2. Built \subseteq Built'
      BY <2>1, <3>1, BuiltKept
    <3>. QED  BY <1>1, <2>1, <3>1, <3>2 DEF Initialising
  <2>2. ASSUME NEW s \in Steps, Goto(t, s), pc[t] # "staging", s # "recording",
               UNCHANGED <<built, listed, staged>>,
               \A u \in Threads \ {t} : arg'[u] = arg[u],
               s \in Initialising => pc[t] \in Initialising /\ arg' = arg
        PROVE  ListInv'
    <3>1. pc'[t] = s /\ \A u \in Threads \ {t} : pc'[u] = pc[u] /\ arg'[u] = arg[u]
      BY <2>2, GoneOn
    <3>2. Built \subseteq Built'
      BY <2>2, <3>1, BuiltKept
    <3>. QED  BY <1>1, <2>2, <3>1, <3>2
  <2>3. CASE RecordTexture(t)
    BY <2>1, <2>3 DEF RecordTexture
  <2>4. CASE FailTexture(t)
    <3>1. \A x \in Built : x # arg[t].object
      BY <2>4 DEF FailTexture, Built, Busy
    <3>2. \A x \in Built : built'[x] = built[x]
      BY <1>T, <2>4, <3>1 DEF FailTexture, Built
    <3>. QED  BY <2>1, <2>4, <3>2 DEF FailTexture, obsVars
  <2>5. CASE StageTextures(t)
    <3>1. /\ pc[t] = "staging" /\ pc'[t] = "game"
          /\ \A u \in Threads \ {t} : pc'[u] = pc[u] /\ arg'[u] = arg[u]
      BY <2>5, Returned DEF StageTextures
    <3>2. UNCHANGED <<built, listed>>
      BY <2>5 DEF StageTextures
    <3>3. Built \subseteq Built'
      BY <3>1, <3>2, BuiltKept
    <3>4. /\ staged'.builder = arg[t].object
          /\ staged'.overflowed \/ staged'.handles = listed[arg[t].object]
      BY <2>5 DEF StageTextures, Stage
    <3>5. ASSUME NEW u \in Threads, pc'[u] \in Initialising,
                 NEW i \in DOMAIN listed'[arg'[u].with]
          PROVE  listed'[arg'[u].with][i] \in Built'
      BY <3>1, <3>2, <3>3, <3>5 DEF ListInv, Initialising
    <3>6. ASSUME NEW c \in Builders
          PROVE  \/ staged'.builder # c \/ staged'.overflowed
                 \/ \E u \in Threads : pc'[u] = "staging" /\ arg'[u].object = c
                 \/ staged'.handles = listed'[c]
      BY <3>2, <3>4
    <3>. QED  BY <3>5, <3>6 DEF ListInv
  <2>6. CASE TraceInitialize(t)
    BY <2>1, <2>2, <2>6 DEF TraceInitialize, obsVars, Steps, Initialising
  <2>7. CASE AdoptSwapchain(t)
    BY <2>1, <2>7 DEF AdoptSwapchain
  <2>8. CASE ObserveInterval(t)
    BY <2>1, <2>8 DEF ObserveInterval
  <2>9. CASE BeginAcquire(t)
    BY <2>2, <2>9 DEF BeginAcquire, Steps, Initialising
  <2>10. CASE AcquireTexture(t)
    <3>1. \A u \in Threads \ {t} : arg'[u] = arg[u]
      BY <1>T, <2>10 DEF AcquireTexture
    <3>. QED  BY <2>2, <2>10, <3>1 DEF AcquireTexture, obsVars, Steps, Initialising
  <2>11. CASE EndAcquire(t)
    BY <2>1, <2>11 DEF EndAcquire
  <2>12. CASE ObservePresent(t)
    BY <2>2, <2>12 DEF ObservePresent, Steps, Initialising
  <2>13. CASE PresentTexture(t)
    BY <2>1, <2>13 DEF PresentTexture, obsVars
  <2>14. CASE ObserveWait(t)
    BY <2>1, <2>14 DEF ObserveWait, obsVars
  <2>. QED  BY <1>4, <2>3, <2>4, <2>5, <2>6, <2>7, <2>8, <2>9, <2>10, <2>11, <2>12, <2>13, <2>14
            DEF InHook
<1>5. CASE Tick
  BY <1>0, <1>5 DEF Tick, threadVars, obsVars
<1>6. CASE UNCHANGED vars
  BY <1>0, <1>6 DEF vars, gameVars, threadVars, obsVars
<1>. QED  BY <1>3, <1>4, <1>5, <1>6 DEF Next

\* The log says how each texture was built last, and has each one that is built unless
\* it was full: a record comes to it before the texture can be listed.
LEMMA LogStep == TypeOK /\ ArgInv /\ RuleInv /\ LogInv /\ [Next]_vars => LogInv'
<1> SUFFICES ASSUME TypeOK, ArgInv, RuleInv, LogInv, [Next]_vars  PROVE LogInv'
  OBVIOUS
<1> DEFINE Said(log) == \A i \in DOMAIN log.records :
                          LET x == log.records[i].texture
                          IN  built[x] # None /\ (x \in Built => log.records[i].layout = built[x])
           Complete(log) == \A x \in Built :
                              EntriesOf(log, x) # {} \/ Len(log.records) = LogCapacity
<1>T. /\ pc \in [Threads -> Steps] /\ arg \in [Threads -> Args]
      /\ built \in [Textures -> Layouts \cup {None}]
  BY DEF TypeOK
<1>L. /\ \A i \in DOMAIN textures.records : textures.records[i].texture \in Textures
      /\ LogOK(textures) /\ Said(textures) /\ Complete(textures)
  <2>1. LogOK(textures) /\ Said(textures) /\ Complete(textures)
    BY DEF LogInv
  <2>. QED  BY <2>1, EntryType
<1>R. \A u \in Threads : pc[u] = "recording" =>
        /\ arg[u].object \in Textures /\ built[arg[u].object] # None /\ arg[u].with = None
  BY DEF ArgInv, Initialising
\* A step that leaves the textures alone.
<1>1. ASSUME UNCHANGED <<built, textures>>,
             \A x \in Textures : Busy(x, {"recording"})' <=> Busy(x, {"recording"})
      PROVE  LogInv'
  <2>1. Built' = Built
    BY <1>1 DEF Built
  <2>. QED  BY <1>1, <2>1 DEF LogInv
<1>2. ASSUME NEW t \in Threads, pc[t] # "recording", pc'[t] # "recording",
             \A u \in Threads \ {t} : pc'[u] = pc[u] /\ arg'[u] = arg[u],
             UNCHANGED <<built, textures>>
      PROVE  LogInv'
  BY <1>1, <1>2 DEF Busy
<1>3. ASSUME NEW t \in Threads, NEW s \in Steps \ {"recording"}, NEW a, Enter(t, s, a),
             UNCHANGED <<built, textures>>
      PROVE  LogInv'
  BY <1>2, <1>3 DEF Enter, TypeOK
<1>4. ASSUME NEW t \in Threads, Game(t)  PROVE LogInv'
  <2>1. ASSUME NEW x \in Textures, BuildTexture(t, x)  PROVE LogInv'
    <3>1. PICK layout \in Layouts :
            /\ SetUp(t, "recording", [Idle EXCEPT !.object = x])
            /\ built' = [built EXCEPT ![x] = layout]
      BY <2>1 DEF BuildTexture
    <3> DEFINE a == [Idle EXCEPT !.object = x]
    <3>2. Enter(t, "recording", a) /\ a.object = x /\ a.with = None
      BY <3>1 DEF SetUp, Idle
    <3> HIDE DEF a
    <3>3. /\ pc[t] = "game" /\ pc'[t] = "recording" /\ arg'[t] = a
          /\ \A u \in Threads \ {t} : pc'[u] = pc[u] /\ arg'[u] = arg[u]
      BY <3>2 DEF Enter, TypeOK
    <3>4. /\ built'[x] # None
          /\ \A y \in Textures \ {x} : built'[y] = built[y]
      BY <1>T, <3>1, NoneAssumption
    <3>5. Built' \subseteq Built \ {x}
      BY <3>2, <3>3, <3>4 DEF Built, Busy
    <3>6. textures' = textures
      BY <2>1 DEF BuildTexture, obsVars
    <3>7. \A i \in DOMAIN textures'.records :
            LET y == textures'.records[i].texture
            IN  built'[y] # None /\ (y \in Built' => textures'.records[i].layout = built'[y])
      BY <1>L, <3>4, <3>5, <3>6
    <3>8. \A y \in Built' : EntriesOf(textures', y) # {} \/ Len(textures'.records) = LogCapacity
      BY <1>L, <3>5, <3>6
    <3>. QED  BY <1>L, <3>6, <3>7, <3>8 DEF LogInv
  <2>2. ASSUME NEW b \in Builders, SetTextures(t, b)  PROVE LogInv'
    BY <1>3, <2>2 DEF SetTextures, SetUp, obsVars, Steps
  <2>3. ASSUME NEW w \in Windows, NEW b \in Builders, InitializeWindow(t, w, b)  PROVE LogInv'
    BY <1>3, <2>3 DEF InitializeWindow, SetUp, obsVars, Steps
  <2>4. ASSUME NEW w \in Windows, SetInterval(t, w) \/ Acquire(t, w)  PROVE LogInv'
    BY <1>3, <2>4 DEF SetInterval, Acquire, Call, obsVars, Steps
  <2>5. ASSUME NEW w \in Windows, NEW i \in Indices, Present(t, w, i)  PROVE LogInv'
    BY <1>3, <2>5 DEF Present, Call, obsVars, Steps
  <2>6. CASE SyncWait(t)
    BY <1>3, <2>6 DEF SyncWait, Call, obsVars, Steps
  <2>7. ASSUME NEW kind \in Simple, SimpleCall(t, kind)  PROVE LogInv'
    BY <1>1, <2>7 DEF SimpleCall, gameVars, threadVars, obsVars, Busy
  <2>. QED  BY <1>4, <2>1, <2>2, <2>3, <2>4, <2>5, <2>6, <2>7 DEF Game
<1>5. ASSUME NEW t \in Threads, InHook(t)  PROVE LogInv'
  <2>1. ASSUME Return(t), pc[t] # "recording", UNCHANGED <<built, textures>>
        PROVE  LogInv'
    BY <1>2, <2>1, Returned
  <2>2. ASSUME NEW s \in Steps \ {"recording"}, Goto(t, s), pc[t] # "recording",
               UNCHANGED <<built, textures>>, \A u \in Threads \ {t} : arg'[u] = arg[u]
        PROVE  LogInv'
    BY <1>2, <2>2, GoneOn
  \* What a thread that returns from texture_initialize leaves built.
  <2>3. ASSUME Return(t), pc[t] = "recording",
               \A y \in Textures \ {arg[t].object} : built'[y] = built[y]
        PROVE  \A y \in Textures \ {arg[t].object} : y \in Built' <=> y \in Built
    <3>1. pc'[t] = "game" /\ \A u \in Threads \ {t} : pc'[u] = pc[u] /\ arg'[u] = arg[u]
      BY <2>3, Returned
    <3>2. ASSUME NEW y \in Textures \ {arg[t].object}
          PROVE  Busy(y, {"recording"})' <=> Busy(y, {"recording"})
      BY <1>R, <2>3, <3>1, NoneAssumption DEF Busy
    <3>. QED  BY <2>3, <3>2 DEF Built
  <2>4. CASE RecordTexture(t)
    <3> DEFINE x == arg[t].object
               record == [texture |-> x, layout |-> built[x]]
    <3>1. /\ pc[t] = "recording" /\ Return(t) /\ built' = built
          /\ textures' = Record(textures, record)
      BY <2>4 DEF RecordTexture
    <3>2. x \in Textures /\ built[x] # None
      BY <1>R, <3>1
    <3>3. record \in [texture : Textures, layout : Layouts]
      BY <1>T, <3>2
    <3>4. \A y \in Textures \ {x} : y \in Built' <=> y \in Built
      BY <2>3, <3>1
    <3>5. /\ LogOK(textures') /\ Len(textures.records) <= Len(textures'.records)
          /\ \E i \in DOMAIN textures'.records : textures'.records[i] = record
          /\ \A i \in DOMAIN textures'.records :
               \/ textures'.records[i] = record
               \/ /\ i \in DOMAIN textures.records /\ textures'.records[i] = textures.records[i]
                  /\ textures.records[i].texture # record.texture
          /\ \A i \in DOMAIN textures.records :
               \/ textures.records[i].texture = record.texture
               \/ i \in DOMAIN textures'.records /\ textures'.records[i] = textures.records[i]
               \/ Len(textures'.records) = LogCapacity
      BY <1>L, <3>1, <3>3, Recorded
    <3>6. record.texture = x /\ record.layout = built[x]
      OBVIOUS
    <3> HIDE DEF x, record
    <3>7. ASSUME NEW i \in DOMAIN textures'.records
          PROVE  LET y == textures'.records[i].texture
                 IN  built'[y] # None /\ (y \in Built' => textures'.records[i].layout = built'[y])
      <4>1. CASE textures'.records[i] = record
        BY <3>1, <3>2, <3>6, <4>1
      <4>2. CASE /\ i \in DOMAIN textures.records /\ textures'.records[i] = textures.records[i]
                 /\ textures.records[i].texture # x
        BY <1>L, <3>1, <3>4, <4>2
      <4>. QED  BY <3>5, <3>6, <4>1, <4>2
    <3>8. ASSUME NEW y \in Built'
          PROVE  EntriesOf(textures', y) # {} \/ Len(textures'.records) = LogCapacity
      <4>1. CASE y = x
        BY <3>5, <3>6, <4>1 DEF EntriesOf
      <4>2. CASE y # x
        <5>1. y \in Built
          BY <3>4, <3>8, <4>2 DEF Built
        <5>2. CASE EntriesOf(textures, y) # {}
          BY <3>5, <3>6, <4>2, <5>2 DEF EntriesOf
        <5>3. CASE Len(textures.records) = LogCapacity
          <6>1. textures'.records \in Seq([texture : Textures, layout : Layouts])
                /\ Len(textures'.records) <= LogCapacity
            BY <3>5 DEF LogOK
          <6>2. Len(textures'.records) \in Nat
            BY <6>1, LenProperties
          <6>. QED  BY <3>5, <5>3, <6>1, <6>2, LogCapacityAssumption
        <5>. QED  BY <1>L, <5>1, <5>2, <5>3
      <4>. QED  BY <4>1, <4>2
    <3>. QED  BY <3>5, <3>7, <3>8 DEF LogInv
  <2>5. CASE FailTexture(t)
    <3> DEFINE x == arg[t].object
    <3>1. /\ pc[t] = "recording" /\ Return(t) /\ textures' = textures
          /\ built' = [built EXCEPT ![x] = None] /\ EntriesOf(textures, x) = {}
      BY <2>5 DEF FailTexture, obsVars
    <3>2. x \in Textures
      BY <1>R, <3>1
    <3>3. built'[x] = None /\ \A y \in Textures \ {x} : built'[y] = built[y]
      BY <1>T, <3>1, <3>2
    <3>4. \A y \in Textures \ {x} : y \in Built' <=> y \in Built
      BY <2>3, <3>1, <3>3
    <3>5. x \notin Built'
      BY <3>3 DEF Built
    <3>6. \A i \in DOMAIN textures.records : textures.records[i].texture # x
      BY <3>1 DEF EntriesOf
    <3> HIDE DEF x
    <3>7. \A i \in DOMAIN textures'.records :
            LET y == textures'.records[i].texture
            IN  built'[y] # None /\ (y \in Built' => textures'.records[i].layout = built'[y])
      BY <1>L, <3>1, <3>3, <3>4, <3>6
    <3>8. \A y \in Built' : EntriesOf(textures', y) # {} \/ Len(textures'.records) = LogCapacity
      <4>1. Built' \subseteq Textures
        BY DEF Built
      <4>. QED  BY <1>L, <3>1, <3>4, <3>5, <4>1
    <3>. QED  BY <1>L, <3>1, <3>7, <3>8 DEF LogInv
  <2>6. CASE StageTextures(t)
    BY <2>1, <2>6 DEF StageTextures
  <2>7. CASE TraceInitialize(t)
    BY <2>1, <2>2, <2>7 DEF TraceInitialize, obsVars, Steps
  <2>8. CASE AdoptSwapchain(t)
    BY <2>1, <2>8 DEF AdoptSwapchain
  <2>9. CASE ObserveInterval(t)
    BY <2>1, <2>9 DEF ObserveInterval
  <2>10. CASE BeginAcquire(t)
    BY <2>2, <2>10 DEF BeginAcquire, Steps
  <2>11. CASE AcquireTexture(t)
    <3>1. \A u \in Threads \ {t} : arg'[u] = arg[u]
      BY <1>T, <2>11 DEF AcquireTexture
    <3>. QED  BY <2>2, <2>11, <3>1 DEF AcquireTexture, obsVars, Steps
  <2>12. CASE EndAcquire(t)
    BY <2>1, <2>12 DEF EndAcquire
  <2>13. CASE ObservePresent(t)
    BY <2>2, <2>13 DEF ObservePresent, Steps
  <2>14. CASE PresentTexture(t)
    BY <2>1, <2>14 DEF PresentTexture, obsVars
  <2>15. CASE ObserveWait(t)
    BY <2>1, <2>15 DEF ObserveWait, obsVars
  <2>. QED  BY <1>5, <2>4, <2>5, <2>6, <2>7, <2>8, <2>9, <2>10, <2>11, <2>12, <2>13, <2>14, <2>15
            DEF InHook
<1>6. CASE Tick
  BY <1>1, <1>6 DEF Tick, threadVars, obsVars, Busy
<1>7. CASE UNCHANGED vars
  BY <1>1, <1>7 DEF vars, gameVars, threadVars, obsVars, Busy
<1>. QED  BY <1>4, <1>5, <1>6, <1>7 DEF Next

-----------------------------------------------------------------------------
LEMMA HooksInit == Init => IInv
<1> SUFFICES ASSUME Init  PROVE IInv
  OBVIOUS
<1>1. TypeOK
  BY InitTypes
<1>2. \A t \in Threads : pc[t] = "game" /\ arg[t] = Idle
  BY DEF Init
<1>3. ArgInv
  BY <1>2, ClockAssumption DEF ArgInv, Init, Idle, OnWindow, Initialising
<1>4. RuleInv
  BY <1>2 DEF RuleInv, Initialising
<1>5. ListInv
  BY <1>2, NoneAssumption DEF ListInv, Init, NotStaged, Initialising
<1>6. LogInv
  <2>1. /\ textures.records = <<>> /\ textures.next = 0 /\ textures = [records |-> <<>>, next |-> 0]
        /\ Len(<<>>) = 0 /\ DOMAIN <<>> = {}
    BY DEF Init, EmptyLog
  <2>2. LogOK(textures)
    BY <2>1, LogCapacityAssumption DEF LogOK
  <2>3. Built = {}
    BY DEF Init, Built
  <2>. QED  BY <2>1, <2>2, <2>3 DEF LogInv
<1>7. HeldInv
  BY <1>2 DEF HeldInv, Init, NoTimeline, NoSwapchain, Initialising
<1>8. PaceInv
  BY <1>2, ClockAssumption DEF PaceInv, Init, NoTimeline, NoSwapchain
<1>9. OpenInv
  BY DEF OpenInv, Init, NoTimeline
<1>. QED  BY <1>1, <1>3, <1>4, <1>5, <1>6, <1>7, <1>8, <1>9 DEF IInv

\* The inductive invariant: however hooks of different threads overlap, what they keep
\* (nvn_hooks.cpp, presentation.cpp) relates to what the game did as IInv says.
THEOREM HooksInvariance == Spec => []IInv
<1>1. Init => IInv
  BY HooksInit
<1>2. IInv /\ [Next]_vars => IInv'
  BY TypeStep, ArgStep, RuleStep, ListStep, LogStep, HeldStep, PaceStep, OpenStep DEF IInv
<1>. QED  BY <1>1, <1>2, PTL DEF Spec

\* The types of what the hooks and the game keep.
THEOREM HooksTyped == Spec => []TypeOK
<1>1. IInv => TypeOK
  BY DEF IInv
<1>. QED  BY <1>1, HooksInvariance, PTL

-----------------------------------------------------------------------------
\* A thread that is in a hook moves by its own step only.
LEMMA OwnStep ==
  ASSUME NEW t \in Threads, TypeOK, [Next]_vars, pc[t] # "game", pc'[t] # pc[t]
  PROVE  InHook(t)
<1>1. ASSUME NEW u \in Threads, Game(u)  PROVE pc'[t] = pc[t]
  BY <1>1, GameFrame DEF threadVars
<1>2. ASSUME NEW u \in Threads \ {t}, NEW s \in Steps, Goto(u, s)  PROVE pc'[t] = pc[t]
  BY <1>2, GoneOn
<1>3. ASSUME NEW u \in Threads \ {t}, InHook(u)  PROVE pc'[t] = pc[t]
  BY <1>2, <1>3
  DEF InHook, RecordTexture, FailTexture, StageTextures, TraceInitialize, AdoptSwapchain,
      ObserveInterval, BeginAcquire, AcquireTexture, EndAcquire, ObservePresent,
      PresentTexture, ObserveWait, Return, Steps
<1>4. ~ Tick /\ ~ UNCHANGED vars
  BY DEF Tick, vars, threadVars
<1>. QED  BY <1>1, <1>3, <1>4 DEF Next

LEMMA Looked ==
  ASSUME NEW t \in Threads, IInv, [Next]_vars, Looks(t)
  PROVE  /\ arg[t].object = swapchain.window /\ swapchain.window \in Windows
         /\ timeline \in Timelines /\ arg[t].tick \in Nat
         /\ timeline.present <= arg[t].tick
         /\ timeline.present # 0 =>
              /\ timeline.present = previous.tick /\ previous.window = swapchain.window
              /\ counted \/ ChangePending
         /\ timeline' = OnPresent(timeline, arg[t].tick, arg[t].index)
         /\ arg[t].index \in Indices \cup {-1}
<1>1. TypeOK /\ ArgInv /\ PaceInv /\ pc[t] = "presenting" /\ pc'[t] = "showing"
  BY DEF IInv, Looks
<1>2. ObservePresent(t)
  BY <1>1, OwnStep
  DEF InHook, RecordTexture, FailTexture, StageTextures, TraceInitialize, AdoptSwapchain,
      ObserveInterval, BeginAcquire, AcquireTexture, EndAcquire, PresentTexture, ObserveWait
<1>3. arg[t].object = swapchain.window /\ swapchain.window \in Windows
  BY <1>1 DEF ArgInv, OnWindow, Looks
<1>4. swapchain.window # None
  BY <1>3, NoneAssumption
<1>5. timeline' = OnPresent(timeline, arg[t].tick, arg[t].index)
  BY <1>2, <1>3 DEF ObservePresent, Foreign
<1>6. arg[t].tick \in Nat /\ arg[t].index \in Indices \cup {-1} /\ timeline \in Timelines
  BY <1>1 DEF TypeOK, Args
<1>. QED  BY <1>1, <1>3, <1>4, <1>5, <1>6 DEF PaceInv

\* swapchain_replacements and SwapchainMap (nvn_hooks.cpp): a window is mapped to the
\* textures its builder was given, each known as it was built last, for any number of
\* builders, textures and threads, and none is missing from a log that has room.
THEOREM MapsOwn == Spec => MapsOwnTextures
<1>1. ASSUME IInv, [Next]_vars, NEW t \in Threads,
             pc[t] = "adopting", pc'[t] = "game", Adopted
      PROVE  LET b == arg[t].with
                 map == swapchain'
             IN  /\ map.window = arg[t].object
                 /\ map.handles = listed[b]
                 /\ \A i \in DOMAIN map.handles :
                      LET x == map.handles[i]
                      IN  /\ map.layouts[i] \in {None, built[x]}
                          /\ Cardinality({y \in Textures : built[y] # None}) <= LogCapacity
                               => map.layouts[i] # None
  <2> DEFINE b == arg[t].with
             S == {y \in Textures : built[y] # None}
  <2>1. TypeOK /\ ArgInv /\ RuleInv /\ ListInv /\ LogInv
    BY <1>1 DEF IInv
  <2>2. AdoptSwapchain(t)
    BY <1>1, <2>1, OwnStep
    DEF InHook, RecordTexture, FailTexture, StageTextures, TraceInitialize,
        ObserveInterval, BeginAcquire, AcquireTexture, EndAcquire, ObservePresent,
        PresentTexture, ObserveWait
  <2>3. Adoptable(b)
    BY <1>1, <2>2 DEF AdoptSwapchain, Adopted
  <2>4. swapchain' = Adopt(arg[t].object, staged.handles, textures)
    BY <2>2, <2>3 DEF AdoptSwapchain
  <2>5. b \in Builders /\ b # None
    BY <1>1, <2>1, NoneAssumption DEF ArgInv, Initialising
  <2>6. \A u \in Threads : pc[u] = "staging" => arg[u].object # b
    <3>1. ASSUME NEW u \in Threads, pc[u] = "staging"  PROVE arg[u].object # b
      <4>1. u # t /\ Uses(t) \cap Uses(u) = {}
        BY <1>1, <2>1, <3>1 DEF RuleInv, Initialising
      <4>. QED  BY <2>5, <4>1 DEF Uses
    <3>. QED  BY <3>1
  <2>7. staged.handles = listed[b]
    BY <2>1, <2>3, <2>5, <2>6 DEF ListInv, Adoptable
  <2>8. /\ swapchain'.window = arg[t].object /\ swapchain'.handles = listed[b]
        /\ \A i \in DOMAIN listed[b] : swapchain'.layouts[i] = Find(textures, listed[b][i])
    BY <2>4, <2>7 DEF Adopt
  <2>9. ASSUME NEW i \in DOMAIN listed[b]
        PROVE  /\ Find(textures, listed[b][i]) \in {None, built[listed[b][i]]}
               /\ Cardinality(S) <= LogCapacity => Find(textures, listed[b][i]) # None
    <3> DEFINE x == listed[b][i]
    <3>1. x \in Built /\ x \in S
      BY <1>1, <2>1, <2>9 DEF ListInv, Initialising, Built
    <3>2. LogOK(textures)
      BY <2>1 DEF LogInv
    <3>3. \A j \in DOMAIN textures.records :
            /\ textures.records[j].texture \in S
            /\ textures.records[j].texture = x => textures.records[j].layout = built[x]
      <4>1. \A j \in DOMAIN textures.records :
              textures.records[j] \in [texture : Textures, layout : Layouts]
        BY <3>2, EntryType
      <4>2. \A j \in DOMAIN textures.records :
              LET y == textures.records[j].texture
              IN  built[y] # None /\ (y \in Built => textures.records[j].layout = built[y])
        BY <2>1 DEF LogInv
      <4>3. \A j \in DOMAIN textures.records : textures.records[j].texture \in S
        BY <4>1, <4>2
      <4>. QED  BY <3>1, <4>2, <4>3
    <3>4. Find(textures, x) \in {None, built[x]}
      BY <3>2, <3>3, FoundLayout
    <3>5. ASSUME Find(textures, x) = None  PROVE ~ (Cardinality(S) <= LogCapacity)
      <4>1. EntriesOf(textures, x) = {}
        BY <3>1, <3>2, <3>3, <3>5, FoundLayout
      <4>2. Len(textures.records) = LogCapacity
        BY <2>1, <3>1, <4>1 DEF LogInv
      <4>3. S \in SUBSET Textures
        OBVIOUS
      <4> HIDE DEF S, x
      <4>4. Cardinality(S) > LogCapacity
        BY <3>1, <3>2, <3>3, <4>1, <4>2, <4>3, FullLog
      <4>5. Cardinality(S) \in Nat
        BY <4>3, TexturesAssumption, FS_Subset, FS_CardinalityType
      <4>. QED  BY <4>4, <4>5, LogCapacityAssumption
    <3>. QED  BY <3>4, <3>5
  <2>. QED  BY <2>8, <2>9
<1>2. IInv /\ [Next]_vars =>
        [\A t \in Threads :
           pc[t] = "adopting" /\ pc'[t] = "game" /\ Adopted =>
             LET b == arg[t].with
                 map == swapchain'
             IN  /\ map.window = arg[t].object
                 /\ map.handles = listed[b]
                 /\ \A i \in DOMAIN map.handles :
                      LET x == map.handles[i]
                      IN  /\ map.layouts[i] \in {None, built[x]}
                          /\ Cardinality({y \in Textures : built[y] # None}) <= LogCapacity
                               => map.layouts[i] # None]_vars
  BY <1>1
<1>. QED  BY <1>2, HooksInvariance, PTL DEF Spec, MapsOwnTextures

\* on_present (presentation.cpp): a present of the mapped window counts as a fault only
\* if its index is trackable and the game does not hold it, and if so, unless a stray
\* hides it, for any windows, indices and threads; other indices never count.
THEOREM FaultsAreExact == Spec => FaultsExact
<1>1. ASSUME IInv, [Next]_vars, NEW t \in Threads, Looks(t)
      PROVE  LET index == arg[t].index
                 unheld == Trackable(index) /\ index \notin held[swapchain.window]
                 fault == timeline'.faults # timeline.faults
             IN  /\ fault => unheld
                 /\ unheld /\ index \notin stray => fault
  <2> DEFINE index == arg[t].index
             missed == Trackable(index) /\ index \notin timeline.held
  <2>1. /\ swapchain.window \in Windows /\ timeline \in Timelines
        /\ arg[t].tick \in Nat /\ timeline.present <= arg[t].tick
        /\ timeline' = OnPresent(timeline, arg[t].tick, index)
        /\ index \in Indices \cup {-1}
    BY <1>1, Looked
  <2>2. timeline.present \in Nat /\ timeline.faults \in Nat
    BY <2>1 DEF Timelines
  <2>3. timeline'.faults = timeline.faults + (IF missed THEN 1 ELSE 0)
    BY <2>1, <2>2, PresentedHeld
  <2>4. timeline'.faults # timeline.faults <=> missed
    BY <2>2, <2>3
  <2>5. /\ \A i \in held[swapchain.window] : Trackable(i) => i \in timeline.held
        /\ timeline.held \subseteq held[swapchain.window] \cup stray
    BY <1>1, <2>1, NoneAssumption DEF IInv, HeldInv
  <2>. QED  BY <2>4, <2>5
<1>2. IInv /\ [Next]_vars =>
        [\A t \in Threads : Looks(t) =>
           LET index == arg[t].index
               unheld == Trackable(index) /\ index \notin held[swapchain.window]
               fault == timeline'.faults # timeline.faults
           IN  /\ fault => unheld
               /\ unheld /\ index \notin stray => fault]_vars
  BY <1>1
<1>. QED  BY <1>2, HooksInvariance, PTL DEF Spec, FaultsExact

\* on_acquire_end (presentation.cpp): a time taken for an acquire is that of an acquire
\* some thread is still in, however many threads acquire at once.
THEOREM BlocksAreMeasured == Spec => BlocksMeasured
<1>1. ASSUME IInv, [Next]_vars, NEW t \in Threads,
             pc[t] = "ending", pc'[t] = "game", timeline'.block # timeline.block
      PROVE  \E u \in Threads :
               /\ pc[u] \in {"acquiring", "ending"}
               /\ timeline'.block = Sample(timeline.block, clock - arg[u].tick)
  <2>1. TypeOK /\ OpenInv
    BY <1>1 DEF IInv
  <2>2. EndAcquire(t)
    BY <1>1, <2>1, OwnStep
    DEF InHook, RecordTexture, FailTexture, StageTextures, TraceInitialize, AdoptSwapchain,
        ObserveInterval, BeginAcquire, AcquireTexture, ObservePresent, PresentTexture,
        ObserveWait
  <2>3. clock \in Nat /\ timeline \in Timelines /\ arg[t].index \in Indices \cup {-1}
    BY <2>1 DEF TypeOK, Args
  <2>4. timeline' = OnAcquireEnd(timeline, clock, arg[t].index)
    BY <2>2 DEF EndAcquire
  <2>5. timeline.open /\ timeline'.block = Sample(timeline.block, clock - timeline.begin)
    BY <1>1, <2>3, <2>4, AcquireEnded
  <2>. QED  BY <2>1, <2>5 DEF OpenInv
<1>2. IInv /\ [Next]_vars =>
        [\A t \in Threads :
           pc[t] = "ending" /\ pc'[t] = "game" /\ timeline'.block # timeline.block =>
             \E u \in Threads :
               /\ pc[u] \in {"acquiring", "ending"}
               /\ timeline'.block = Sample(timeline.block, clock - arg[u].tick)]_vars
  BY <1>1
<1>. QED  BY <1>2, HooksInvariance, PTL DEF Spec, BlocksMeasured

\* on_present and reset_intervals (presentation.cpp): an interval of the mapped window is
\* the time between the clock readings of two successive presents to it, and since the
\* earlier was counted no change of the interval took effect but one still to be noted;
\* for any number of threads, presents and changes, whichever way they overlap.
THEOREM IntervalsAreComparable == Spec => IntervalsComparable
<1>1. ASSUME IInv, [Next]_vars, NEW t \in Threads, Looks(t),
             timeline'.interval # timeline.interval
      PROVE  /\ previous.window = swapchain.window
             /\ timeline'.interval
                  = Sample(timeline.interval, arg[t].tick - previous.tick)
             /\ counted \/ ChangePending
  <2>1. /\ timeline \in Timelines /\ arg[t].tick \in Nat /\ arg[t].index \in Indices \cup {-1}
        /\ timeline' = OnPresent(timeline, arg[t].tick, arg[t].index)
        /\ timeline.present # 0 =>
             /\ timeline.present = previous.tick /\ previous.window = swapchain.window
             /\ counted \/ ChangePending
    BY <1>1, Looked
  <2>2. /\ timeline.present # 0
        /\ timeline'.interval = Sample(timeline.interval, arg[t].tick - timeline.present)
    BY <1>1, <2>1, Presented
  <2>. QED  BY <2>1, <2>2
<1>2. IInv /\ [Next]_vars =>
        [\A t \in Threads : Looks(t) /\ timeline'.interval # timeline.interval =>
           /\ previous.window = swapchain.window
           /\ timeline'.interval
                = Sample(timeline.interval, arg[t].tick - previous.tick)
           /\ counted \/ ChangePending]_vars
  BY <1>1
<1>. QED  BY <1>2, HooksInvariance, PTL DEF Spec, IntervalsComparable

=============================================================================
