---------------------------- MODULE ReportQueue ----------------------------
(***************************************************************************)
(* What the report transport promises the plugin and the reader of the     *)
(* log, without its ring, cursors, lock or processes.                      *)
(*                                                                         *)
(* A line the plugin prints is either accepted into a bounded queue or     *)
(* refused and counted.  Lines leave the queue oldest first, and only once *)
(* they are in the log in full.  A line may be in the log more than once,  *)
(* or cut off before it is there in full, because the overlay can stop or  *)
(* fail between writing a line and taking it off the queue.                *)
(***************************************************************************)
EXTENDS Naturals, Sequences

CONSTANTS
  Slots,      \* lines the queue holds
  Line        \* the lines that can be printed

VARIABLES
  queue,      \* accepted lines not yet taken, oldest first
  lost,       \* number of lines refused because the queue was full
  journal     \* the log: which line, and whether it was cut off

queueVars == <<queue, lost, journal>>

Init ==
  /\ queue = <<>>
  /\ lost = 0
  /\ journal = <<>>

Accept(l) ==
  /\ Len(queue) < Slots
  /\ queue' = Append(queue, l)
  /\ UNCHANGED <<lost, journal>>

Refuse ==
  /\ Len(queue) = Slots
  /\ lost' = lost + 1
  /\ UNCHANGED <<queue, journal>>

Record(cut) ==
  /\ queue # <<>>
  /\ journal' = Append(journal, [line |-> Head(queue), cut |-> cut])
  /\ UNCHANGED <<queue, lost>>

Take ==
  /\ queue # <<>>
  /\ \E i \in 1 .. Len(journal) : journal[i] = [line |-> Head(queue), cut |-> FALSE]
  /\ queue' = Tail(queue)
  /\ UNCHANGED <<lost, journal>>

Next ==
  \/ \E l \in Line : Accept(l)
  \/ Refuse
  \/ \E cut \in BOOLEAN : Record(cut)
  \/ Take

Spec == Init /\ [][Next]_queueVars

=============================================================================
