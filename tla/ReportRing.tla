---------------------------- MODULE ReportRing -----------------------------
(***************************************************************************)
(* The report ring: printing threads of the game on one side, the overlay  *)
(* process that drains the ring into the log file on the other, and a      *)
(* ReportBlock in shared memory between them.                              *)
(*                                                                         *)
(* The producers are serialised by a spinlock private to the game process  *)
(* (Session in report.cpp).  The overlay takes no lock: it is kept away    *)
(* from the slots being written only by the two cursors.  One action is    *)
(* one access to the shared block, so every interleaving of the two        *)
(* processes at that grain is a behaviour of this module.                  *)
(*                                                                         *)
(* A line is a number, its place in the order of printing; the characters  *)
(* are left out.  A slot keeps apart the line that wrote its length and    *)
(* the line that wrote its text, so that a torn slot is visible.           *)
(***************************************************************************)
EXTENDS Integers, Sequences, FiniteSets

CONSTANTS
  Threads,    \* game threads that print reports
  NoThread,   \* the value of an unlocked g_report_lock
  Slots,      \* report_slot_count
  Wrap,       \* number of values of a 64-bit sequence
  MaxLines,   \* bound on printed lines
  MaxStops    \* bound on drains cut short

ASSUME NoThreadAssumption == NoThread \notin Threads
ASSUME SlotsAssumption == Slots \in Nat \ {0}
ASSUME WrapAssumption == Wrap \in Nat /\ Slots < Wrap
ASSUME MaxLinesAssumption == MaxLines \in Nat /\ MaxLines < Wrap
ASSUME MaxStopsAssumption == MaxStops \in Nat

VARIABLES
  write,      \* ReportBlock::write_sequence
  read,       \* ReportBlock::read_sequence
  dropped,    \* ReportBlock::dropped
  slots,      \* ReportBlock::slots
  lock,       \* g_report_lock: the thread inside a Session, or NoThread
  pc,         \* where each thread is inside Session::print
  next,       \* push_report's local: the sequence it is about to write
  line,       \* the line each thread is pushing
  opc,        \* where drain_reports is
  view,       \* the string_view peek_report returned: its sequence and length
  pending,    \* what fwrite left in the stdio buffer
  oread,      \* consume_report's local: the cursor it loaded
  log,        \* what has reached the log file
  printed,    \* history: number of lines printed so far
  accepted,   \* history: lines published, in order
  stops       \* history: number of drains cut short

blockVars == <<write, read, dropped, slots>>
threadVars == <<lock, pc, next, line>>
overlayVars == <<opc, view, pending, oread>>
history == <<printed, accepted, stops>>
vars == <<blockVars, threadVars, overlayVars, log, history>>

ThreadSteps == {"idle", "session", "full", "room", "sized", "copied"}
\* An overlay is "shown" from the end of its one drain until it is closed.
OverlaySteps ==
  {"closed", "draining", "peeked", "written", "flushed", "consuming", "shown"}

Line == 1 .. MaxLines

\* An entry of the log: a line written in full, with the length of one line
\* and the text of another if the slot was torn, or cut off by an error.
Whole(length, text) == [length |-> length, text |-> text, cut |-> FALSE]
Cut(entry) == [length |-> entry.length, text |-> entry.text, cut |-> TRUE]
Entry == [length : 0 .. MaxLines, text : 0 .. MaxLines, cut : BOOLEAN]
NoEntry == Whole(0, 0)

SlotIndex(sequence) == sequence % Slots

\* The unsigned subtraction next - read of push_report.
Distance(later, earlier) ==
  IF later >= earlier THEN later - earlier ELSE later - earlier + Wrap

Init ==
  /\ write = 0
  /\ read = 0
  /\ dropped = 0
  /\ slots = [i \in 0 .. Slots - 1 |-> [length |-> 0, text |-> 0]]
  /\ lock = NoThread
  /\ pc = [t \in Threads |-> "idle"]
  /\ next = [t \in Threads |-> 0]
  /\ line = [t \in Threads |-> 0]
  /\ opc = "closed"
  /\ view = [sequence |-> 0, length |-> 0]
  /\ pending = NoEntry
  /\ oread = 0
  /\ log = <<>>
  /\ printed = 0
  /\ accepted = <<>>
  /\ stops = 0

-----------------------------------------------------------------------------
(***************************************************************************)
(* The game's threads: Session and push_report.                            *)
(***************************************************************************)
BeginSession(t) ==
  /\ pc[t] = "idle"
  /\ lock = NoThread
  /\ lock' = t
  /\ pc' = [pc EXCEPT ![t] = "session"]
  /\ UNCHANGED <<blockVars, next, line, overlayVars, log, history>>

\* Mutant: the ring is taken to hold one line more than it does.
FullOneLate == Distance(write, read) > Slots
Full == Distance(write, read) >= Slots

\* Session::print reaches push_report, which loads both cursors.
LoadCursors(t) ==
  /\ pc[t] = "session"
  /\ printed < MaxLines
  /\ printed' = printed + 1
  /\ line' = [line EXCEPT ![t] = printed + 1]
  /\ next' = [next EXCEPT ![t] = write]
  /\ pc' = [pc EXCEPT ![t] = IF Full THEN "full" ELSE "room"]
  /\ UNCHANGED <<blockVars, lock, overlayVars, log, accepted, stops>>

\* Mutants: a drop is not counted, or waits for room instead.
CountDropSilently(t) ==
  /\ pc[t] = "full"
  /\ pc' = [pc EXCEPT ![t] = "session"]
  /\ UNCHANGED <<blockVars, lock, next, line, overlayVars, log, history>>
CountDropWaits(t) ==
  /\ pc[t] = "full"
  /\ Distance(write, read) < Slots
  /\ pc' = [pc EXCEPT ![t] = "room"]
  /\ UNCHANGED <<blockVars, lock, next, line, overlayVars, log, history>>

CountDrop(t) ==
  /\ pc[t] = "full"
  /\ dropped' = dropped + 1
  /\ pc' = [pc EXCEPT ![t] = "session"]
  /\ UNCHANGED <<write, read, slots, lock, next, line, overlayVars, log, history>>

SetLength(t) ==
  /\ pc[t] = "room"
  /\ slots' = [slots EXCEPT ![SlotIndex(next[t])].length = line[t]]
  /\ pc' = [pc EXCEPT ![t] = "sized"]
  /\ UNCHANGED <<write, read, dropped, lock, next, line, overlayVars, log, history>>

CopyText(t) ==
  /\ pc[t] = "sized"
  /\ slots' = [slots EXCEPT ![SlotIndex(next[t])].text = line[t]]
  /\ pc' = [pc EXCEPT ![t] = "copied"]
  /\ UNCHANGED <<write, read, dropped, lock, next, line, overlayVars, log, history>>

Publish(t) ==
  /\ pc[t] = "copied"
  /\ write' = next[t] + 1
  /\ accepted' = Append(accepted, line[t])
  /\ pc' = [pc EXCEPT ![t] = "session"]
  /\ UNCHANGED <<read, dropped, slots, lock, next, line, overlayVars, log,
                 printed, stops>>

EndSession(t) ==
  /\ pc[t] = "session"
  /\ lock' = NoThread
  /\ pc' = [pc EXCEPT ![t] = "idle"]
  /\ UNCHANGED <<blockVars, next, line, overlayVars, log, history>>

Producer(t) ==
  \/ BeginSession(t)
  \/ LoadCursors(t)
  \/ CountDrop(t)
  \/ SetLength(t)
  \/ CopyText(t)
  \/ Publish(t)
  \/ EndSession(t)

-----------------------------------------------------------------------------
(***************************************************************************)
(* The overlay: drain_reports, with peek_report and consume_report.  It is  *)
(* called once, before the overlay's first screen, and not again while the *)
(* overlay is shown.                                                       *)
(***************************************************************************)
OpenOverlay ==
  /\ opc = "closed"
  /\ opc' = "draining"
  /\ UNCHANGED <<blockVars, threadVars, view, pending, oread, log, history>>

\* peek_report finds a line: the view points into the slot, it is no copy.
PeekLine ==
  /\ opc = "draining"
  /\ read # write
  /\ slots[SlotIndex(read)].length # 0
  /\ view' = [sequence |-> read, length |-> slots[SlotIndex(read)].length]
  /\ opc' = "peeked"
  /\ UNCHANGED <<blockVars, threadVars, pending, oread, log, history>>

\* Mutant: the last unread line is taken for the end of the ring.
PeekNothingEarly ==
  /\ opc = "draining"
  /\ write - read <= 1
  /\ opc' = "shown"
  /\ UNCHANGED <<blockVars, threadVars, view, pending, oread, log, history>>

\* peek_report returns an empty view: the drain is over, the log is closed and the
\* block unmapped; the overlay goes on to its screen.
PeekNothing ==
  /\ opc = "draining"
  /\ read = write \/ slots[SlotIndex(read)].length = 0
  /\ opc' = "shown"
  /\ UNCHANGED <<blockVars, threadVars, view, pending, oread, log, history>>

WriteLine ==
  /\ opc = "peeked"
  /\ pending' = Whole(view.length, slots[SlotIndex(view.sequence)].text)
  /\ opc' = "written"
  /\ UNCHANGED <<blockVars, threadVars, view, oread, log, history>>

\* Mutant: the result of fflush is not looked at.
FlushUnchecked ==
  /\ opc = "written"
  /\ log' \in {log, Append(log, pending)}
  /\ opc' = "flushed"
  /\ UNCHANGED <<blockVars, threadVars, view, pending, oread, history>>

Flush ==
  /\ opc = "written"
  /\ log' = Append(log, pending)
  /\ opc' = "flushed"
  /\ UNCHANGED <<blockVars, threadVars, view, pending, oread, history>>

LoadConsume ==
  /\ opc = "flushed"
  /\ oread' = read
  /\ opc' = IF read # write THEN "consuming" ELSE "draining"
  /\ UNCHANGED <<blockVars, threadVars, view, pending, log, history>>

StoreConsume ==
  /\ opc = "consuming"
  /\ read' = oread + 1
  /\ opc' = "draining"
  /\ UNCHANGED <<write, dropped, slots, threadVars, view, pending, oread, log, history>>

\* A drain runs: the block is mapped.
Draining == opc \notin {"closed", "shown"}

\* fwrite or fflush fails, and the overlay is shown all the same; or the overlay
\* is ended while it drains.  What was in the stdio buffer reaches the file not at
\* all, in part, or whole.
StopDrain ==
  /\ Draining
  /\ stops < MaxStops
  /\ stops' = stops + 1
  /\ opc' \in {"closed", "shown"}
  /\ \/ log' = log
     \/ opc = "written" /\ log' \in {Append(log, Cut(pending)), Append(log, pending)}
     \/ opc = "peeked" /\ log' = Append(log, Cut(
          Whole(view.length, slots[SlotIndex(view.sequence)].text)))
  /\ UNCHANGED <<blockVars, threadVars, view, pending, oread, printed, accepted>>

CloseOverlay ==
  /\ opc = "shown"
  /\ opc' = "closed"
  /\ UNCHANGED <<blockVars, threadVars, view, pending, oread, log, history>>

\* A drain that nothing interrupts.
DrainStep ==
  \/ PeekLine
  \/ PeekNothing
  \/ WriteLine
  \/ Flush
  \/ LoadConsume
  \/ StoreConsume

Overlay == OpenOverlay \/ DrainStep \/ StopDrain \/ CloseOverlay

Next == Overlay \/ \E t \in Threads : Producer(t)

Spec == Init /\ [][Next]_vars

\* A game thread inside a Session keeps running, whatever the overlay does; a drain
\* keeps running until its first empty peek.  Nothing makes a thread print, and
\* nothing makes a user open the overlay or close it.
HoldsSession(t) == pc[t] # "idle"
Fairness ==
  /\ \A t \in Threads : WF_vars(HoldsSession(t) /\ Producer(t))
  /\ WF_vars(DrainStep)

FairSpec == Spec /\ Fairness

-----------------------------------------------------------------------------
(***************************************************************************)
(* Properties.                                                             *)
(***************************************************************************)
\* Every variable of the ring, its producers and its consumer has its type.
TypeOK ==
  /\ write \in Nat
  /\ read \in Nat
  /\ dropped \in Nat
  /\ slots \in [0 .. Slots - 1 -> [length : 0 .. MaxLines, text : 0 .. MaxLines]]
  /\ lock \in Threads \cup {NoThread}
  /\ pc \in [Threads -> ThreadSteps]
  /\ next \in [Threads -> Nat]
  /\ line \in [Threads -> 0 .. MaxLines]
  /\ opc \in OverlaySteps
  /\ view \in [sequence : Nat, length : 0 .. MaxLines]
  /\ pending \in Entry
  /\ oread \in Nat
  /\ log \in Seq(Entry)
  /\ printed \in 0 .. MaxLines
  /\ accepted \in Seq(Line)
  /\ stops \in 0 .. MaxStops

\* No slot between the cursors is ever rewritten: what the overlay may still
\* read holds the line published there, length and text, although no lock
\* keeps the game's threads out of the block while it reads.
UnreadIntact ==
  \A n \in read .. write - 1 :
    slots[SlotIndex(n)] = [length |-> accepted[n + 1], text |-> accepted[n + 1]]

\* No line of the log is the length of one report with the text of another.
NoTornLine == \A i \in 1 .. Len(log) : log[i].length = log[i].text

\* A line leaves the ring only after it is in the log in full, so no crash of
\* the overlay and no failed write loses an accepted line.
ConsumedIsLogged ==
  \A n \in 1 .. read : \E i \in 1 .. Len(log) : log[i] = Whole(accepted[n], accepted[n])

\* Every printed line is accounted for: published, counted as dropped, or in
\* the hands of the one thread inside a Session.
InHand == IF \E t \in Threads : pc[t] \notin {"idle", "session"} THEN 1 ELSE 0
NothingUnaccounted == printed = Len(accepted) + dropped + InHand

\* A thread that has entered a Session leaves it again or is about to print
\* more, however long the overlay stalls: "never blocks the game".
GameNeverBlocked ==
  \A t \in Threads : (pc[t] # "idle") ~> (pc[t] = "idle")

\* A drain that runs takes every line published before its first empty peek, those
\* included that the game publishes between two of its peeks, unless it is cut
\* short.  Nothing is said of an overlay that is shown: the lines published after
\* its drain wait for the drain of the next one.
Delivered ==
  \A n \in Line, k \in 0 .. MaxStops :
    (Draining /\ write >= n /\ stops = k) ~> (read >= n \/ stops > k)

\* The lines of a history between two cursors, and the entries of a log.
Between(r, w, lines) == [i \in 1 .. w - r |-> lines[r + i]]
Entries(l) == [i \in 1 .. Len(l) |-> [line |-> l[i].text, cut |-> l[i].cut]]

\* The unread lines; the drops, with the one a thread has yet to count; the log.
UnreadLines == Between(read, write, accepted)
Lost == IF \E t \in Threads : pc[t] = "full" THEN dropped + 1 ELSE dropped
Journal == Entries(log)

Queue == INSTANCE ReportQueue WITH
  queue <- UnreadLines, lost <- Lost, journal <- Journal

\* The ring, its lock and the two processes implement the bounded queue whose
\* lines are taken only once recorded.
ImplementsQueue == Queue!Spec

-----------------------------------------------------------------------------
(***************************************************************************)
(* The inductive invariant of ReportRingProofs.                            *)
(***************************************************************************)
\* The spinlock is held exactly by the thread inside a Session.
LockInv == \A t \in Threads : (lock = t) <=> (pc[t] # "idle")

\* The unread lines fit the ring, so the unsigned subtraction never wraps.
WindowInv ==
  /\ read <= write
  /\ write - read <= Slots
  /\ write = Len(accepted)

\* A thread past the test for room still has the slot after the newest unread
\* line to itself, and has written there what its place in push_report says.
SlotOwned(t) ==
  /\ pc[t] \in {"room", "sized", "copied"} =>
       /\ next[t] = write
       /\ write - read < Slots
       /\ line[t] \in Line
  /\ pc[t] \in {"sized", "copied"} => slots[SlotIndex(write)].length = line[t]
  /\ pc[t] = "copied" => slots[SlotIndex(write)].text = line[t]

ProducerInv == \A t \in Threads : SlotOwned(t)

\* A thread that is pushing pushes a line.
LinesInHand ==
  \A t \in Threads : pc[t] \in {"room", "sized", "copied"} => line[t] \in Line

\* From peek to consume the overlay works on the oldest unread line.
DrainInv ==
  /\ opc \in {"peeked", "written", "flushed", "consuming"} =>
       /\ read < write
       /\ view = [sequence |-> read, length |-> accepted[read + 1]]
  /\ opc = "written" => pending = Whole(accepted[read + 1], accepted[read + 1])
  /\ opc \in {"flushed", "consuming"} =>
       \E i \in 1 .. Len(log) : log[i] = Whole(accepted[read + 1], accepted[read + 1])
  /\ opc = "consuming" => oread = read

\* What holds of the block and the two processes whatever was printed before.
RingInv ==
  /\ TypeOK
  /\ LockInv
  /\ WindowInv
  /\ UnreadIntact
  /\ ProducerInv
  /\ DrainInv

IInv ==
  /\ RingInv
  /\ NoTornLine
  /\ ConsumedIsLogged
  /\ NothingUnaccounted

=============================================================================
