---------------------------- MODULE Presentation ----------------------------
(***************************************************************************)
(* What the hooks keep of a game's presentation (presentation.hpp and      *)
(* presentation.cpp): the textures the game built, the swapchain they were *)
(* found to belong to, the pacing of acquires and presents, and a trace of *)
(* the first calls.  Each is a value; the operators are its methods.       *)
(*                                                                         *)
(* Left out: the statistics of submits, sync waits and acquire-to-present, *)
(* the histogram and the outliers, which are fed as the two modelled ones  *)
(* are and read by nothing but the report; counters of calls; of a         *)
(* texture's record everything but its layout; and whether a map's layouts *)
(* are all known and the same, which is read off the map.                  *)
(***************************************************************************)
EXTENDS Integers, Sequences, FiniteSets

CONSTANTS
  TickFrequency,  \* tick_frequency
  LogCapacity,    \* TextureLog::capacity
  MapCapacity,    \* SwapchainMap::capacity
  TraceCapacity,  \* EventTrace::capacity
  IndexBits,      \* index_bits
  None            \* no window, builder, texture or layout

ASSUME TickFrequencyAssumption == TickFrequency \in Nat \ {0}
ASSUME LogCapacityAssumption == LogCapacity \in Nat \ {0}
ASSUME MapCapacityAssumption == MapCapacity \in Nat \ {0}
ASSUME TraceCapacityAssumption == TraceCapacity \in Nat
ASSUME IndexBitsAssumption == IndexBits \in Nat

-----------------------------------------------------------------------------
(***************************************************************************)
(* TextureLog: a ring of records in which a texture built again keeps its  *)
(* entry.  next is zero-based, as in the code.                             *)
(***************************************************************************)
EmptyLog == [records |-> <<>>, next |-> 0]

EntriesOf(log, texture) ==
  {i \in DOMAIN log.records : log.records[i].texture = texture}

\* The record takes the entry at next, the oldest one once the log is full.
Insert(log, record) ==
  LET n == Len(log.records)
      size == IF n = LogCapacity THEN n ELSE n + 1
  IN  [records |-> [i \in 1 .. size |->
                      IF i = log.next + 1 THEN record ELSE log.records[i]],
       next |-> (log.next + 1) % LogCapacity]

Record(log, record) ==
  LET at == EntriesOf(log, record.texture)
  IN  IF at = {} THEN Insert(log, record)
      ELSE [log EXCEPT !.records = [i \in DOMAIN @ |->
                                      IF i \in at THEN record ELSE @[i]]]

\* The layout of the first entry for the texture.
Find(log, texture) ==
  LET at == EntriesOf(log, texture)
  IN  IF at = {} THEN None
      ELSE log.records[CHOOSE i \in at : \A j \in at : i <= j].layout

-----------------------------------------------------------------------------
(***************************************************************************)
(* SwapchainMap: the textures of a window and what the log knew of them.   *)
(***************************************************************************)
NoSwapchain == [window |-> None, handles |-> <<>>, layouts |-> <<>>]

Adopt(window, handles, log) ==
  [window  |-> window,
   handles |-> handles,
   layouts |-> [i \in DOMAIN handles |-> Find(log, handles[i])]]

-----------------------------------------------------------------------------
(***************************************************************************)
(* PresentTimeline.  A tick of zero stands for "never".                    *)
(***************************************************************************)
Micros(ticks) == (ticks * 1000000) \div TickFrequency

NoSamples == [count |-> 0, sum |-> 0]
Sample(stat, ticks) == [count |-> stat.count + 1, sum |-> stat.sum + Micros(ticks)]

NoTimeline ==
  [block |-> NoSamples, interval |-> NoSamples, begin |-> 0, open |-> FALSE,
   present |-> 0, held |-> {}, faults |-> 0]

OnAcquireBegin(timeline, tick) ==
  [timeline EXCEPT !.begin = tick, !.open = TRUE]

\* The held indices are the bits of one word, which has no room for any other.
Trackable(index) == index \in 0 .. IndexBits - 1

\* index is -1 if the acquire failed.
OnAcquireEnd(timeline, tick, index) ==
  [timeline EXCEPT
     !.block = IF timeline.open /\ tick >= timeline.begin
               THEN Sample(@, tick - timeline.begin) ELSE @,
     !.open = FALSE,
     !.held = IF Trackable(index) THEN @ \cup {index} ELSE @]

\* A fault for a trackable texture that is not held, another for a tick that goes back.
OnPresent(timeline, tick, index) ==
  LET late == timeline.present # 0 /\ tick < timeline.present
      unheld == Trackable(index) /\ index \notin timeline.held
  IN  [timeline EXCEPT
         !.faults = @ + (IF unheld THEN 1 ELSE 0) + (IF late THEN 1 ELSE 0),
         !.held = IF Trackable(index) THEN @ \ {index} ELSE @,
         !.interval = IF timeline.present # 0 /\ ~late
                      THEN Sample(@, tick - timeline.present) ELSE @,
         !.present = tick]

\* Mutants: the reset takes the held indices along, leaves an acquire open, or
\* keeps the last present.
ResetIntervalsAndHeld(timeline) ==
  [timeline EXCEPT !.block = NoSamples, !.interval = NoSamples,
                   !.present = 0, !.begin = 0, !.open = FALSE, !.held = {}]

ResetIntervalsLeftOpen(timeline) ==
  [timeline EXCEPT !.block = NoSamples, !.interval = NoSamples,
                   !.present = 0, !.begin = 0]

ResetIntervalsOnlySamples(timeline) ==
  [timeline EXCEPT !.block = NoSamples, !.interval = NoSamples,
                   !.begin = 0, !.open = FALSE]

ResetIntervals(timeline) ==
  [timeline EXCEPT !.block = NoSamples, !.interval = NoSamples,
                   !.present = 0, !.begin = 0, !.open = FALSE]

-----------------------------------------------------------------------------
\* EventTrace: the events that no longer fit are dropped.
Push(trace, kind, tick) ==
  IF Len(trace) = TraceCapacity THEN trace
  ELSE Append(trace, [kind |-> kind, tick |-> tick])

=============================================================================
