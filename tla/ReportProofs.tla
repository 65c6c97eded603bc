---------------------------- MODULE ReportProofs ----------------------------
(***************************************************************************)
(* Proofs about ReportRing, for every set of threads, ring size and bound, *)
(* and at the end about ReportRestart, for any number of games.            *)
(*                                                                         *)
(* UnreadIntact is not inductive: it needs to know that the one thread     *)
(* writing a slot writes the slot after the newest unread line (LockInv,   *)
(* ProducerInv), that this slot is not one of the unread ones (WindowInv   *)
(* and the arithmetic of SameSlotApart), and that the overlay's view stays *)
(* on the oldest unread line until it is consumed (DrainInv).              *)
(***************************************************************************)
EXTENDS ReportRestart, SequenceTheorems, TLAPS

-----------------------------------------------------------------------------
(***************************************************************************)
(* Arithmetic of slot indexes.                                             *)
(***************************************************************************)
\* A sequence maps to a slot of the ring.
LEMMA SlotInRing ==
  ASSUME NEW n \in Nat
  PROVE  SlotIndex(n) \in 0 .. Slots - 1
  BY SlotsAssumption DEF SlotIndex

\* Division with remainder by the ring size.
LEMMA Division ==
  ASSUME NEW n \in Nat
  PROVE  n = Slots * (n \div Slots) + (n % Slots) /\ n \div Slots \in Int
  BY SlotsAssumption

\* Two different multiples of the ring size are at least a ring apart.
LEMMA MultiplesApart ==
  ASSUME NEW p \in Int, NEW q \in Int, Slots * p < Slots * q
  PROVE  Slots * q - Slots * p >= Slots
<1>1. p < q
  <2>1. CASE q <= p
    <3>1. Slots * (p - q) >= 0
      BY <2>1, SlotsAssumption
    <3>. QED  BY <3>1, SlotsAssumption
  <2>. QED  BY <2>1
<1>2. Slots * (q - p - 1) >= 0
  BY <1>1, SlotsAssumption
<1>. QED  BY <1>2, SlotsAssumption

\* Two sequences less than a ring apart have different slots.
LEMMA SameSlotApart ==
  ASSUME NEW m \in Nat, NEW n \in Nat, m < n, n - m < Slots
  PROVE  SlotIndex(m) # SlotIndex(n)
<1>. SUFFICES ASSUME m % Slots = n % Slots  PROVE FALSE
  BY DEF SlotIndex
<1>. DEFINE p == m \div Slots
            q == n \div Slots
<1>1. /\ m = Slots * p + (m % Slots) /\ p \in Int
      /\ n = Slots * q + (n % Slots) /\ q \in Int
      /\ m % Slots \in Int
  BY Division, SlotInRing, SlotsAssumption DEF SlotIndex
<1>. HIDE DEF p, q
<1>2. n - m = Slots * q - Slots * p
  BY <1>1, SlotsAssumption
<1>3. Slots * p < Slots * q
  BY <1>1, <1>2, SlotsAssumption
<1>. QED  BY <1>1, <1>2, <1>3, MultiplesApart, SlotsAssumption

\* Where the cursors are in order, the unsigned subtraction is the plain one.
LEMMA DistanceInOrder ==
  ASSUME NEW w \in Nat, NEW r \in Nat, r <= w
  PROVE  Distance(w, r) = w - r
  BY DEF Distance

-----------------------------------------------------------------------------
\* The initial state satisfies the inductive invariant.
LEMMA InitIInv == Init => IInv
<1>. SUFFICES ASSUME Init  PROVE IInv
  OBVIOUS
<1>1. TypeOK
  BY SlotsAssumption, MaxLinesAssumption, MaxStopsAssumption
     DEF Init, TypeOK, ThreadSteps, OverlaySteps, NoEntry, Whole, Entry
<1>2. LockInv /\ WindowInv /\ ProducerInv /\ DrainInv
  BY NoThreadAssumption, SlotsAssumption
     DEF Init, LockInv, WindowInv, ProducerInv, SlotOwned, DrainInv
<1>3. UnreadIntact /\ NoTornLine /\ ConsumedIsLogged /\ NothingUnaccounted
  BY DEF Init, UnreadIntact, NoTornLine, ConsumedIsLogged, NothingUnaccounted, InHand
<1>. QED  BY <1>1, <1>2, <1>3 DEF IInv, RingInv

-----------------------------------------------------------------------------
\* Every step preserves the types, also of a ring that is not sound.
LEMMA TypeStep == TypeOK /\ LinesInHand /\ [Next]_vars => TypeOK'
<1>. SUFFICES ASSUME TypeOK, LinesInHand, [Next]_vars  PROVE TypeOK'
  OBVIOUS
<1>0. TypeOK
  OBVIOUS
<1>. USE DEF TypeOK, ThreadSteps, OverlaySteps
<1>1. ASSUME NEW t \in Threads, BeginSession(t)  PROVE TypeOK'
  BY <1>0, <1>1 DEF BeginSession, blockVars, overlayVars, history
<1>2. ASSUME NEW t \in Threads, LoadCursors(t)  PROVE TypeOK'
  BY <1>0, <1>2, MaxLinesAssumption DEF LoadCursors, blockVars, overlayVars
<1>3. ASSUME NEW t \in Threads, CountDrop(t)  PROVE TypeOK'
  BY <1>0, <1>3 DEF CountDrop, overlayVars, history
<1>4. ASSUME NEW t \in Threads, SetLength(t)  PROVE TypeOK'
  BY <1>0, <1>4 DEF SetLength, overlayVars, history
<1>5. ASSUME NEW t \in Threads, CopyText(t)  PROVE TypeOK'
  BY <1>0, <1>5 DEF CopyText, overlayVars, history
<1>6. ASSUME NEW t \in Threads, Publish(t)  PROVE TypeOK'
  BY <1>0, <1>6 DEF Publish, overlayVars, LinesInHand
<1>7. ASSUME NEW t \in Threads, EndSession(t)  PROVE TypeOK'
  BY <1>0, <1>7 DEF EndSession, blockVars, overlayVars, history
<1>8. CASE OpenOverlay \/ CloseOverlay
  BY <1>0, <1>8 DEF OpenOverlay, CloseOverlay, blockVars, threadVars, history
<1>9. CASE PeekLine
  BY <1>0, <1>9, SlotInRing DEF PeekLine, blockVars, threadVars, history
<1>10. CASE PeekNothing
  BY <1>0, <1>10 DEF PeekNothing, blockVars, threadVars, history
<1>11. CASE WriteLine
  BY <1>0, <1>11, SlotInRing DEF WriteLine, blockVars, threadVars, history, Whole, Entry
<1>12. CASE Flush
  BY <1>0, <1>12 DEF Flush, blockVars, threadVars, history
<1>13. CASE LoadConsume
  BY <1>0, <1>13 DEF LoadConsume, blockVars, threadVars, history
<1>14. CASE StoreConsume
  BY <1>0, <1>14 DEF StoreConsume, threadVars, history
<1>15. CASE StopDrain
  <2>1. Cut(pending) \in Entry
    BY <1>0 DEF Cut, Entry
  <2>2. Cut(Whole(view.length, slots[SlotIndex(view.sequence)].text)) \in Entry
    BY <1>0, SlotInRing DEF Cut, Whole, Entry
  <2>3. log' = log \/ \E e \in Entry : log' = Append(log, e)
    BY <1>0, <1>15, <2>1, <2>2 DEF StopDrain
  <2>4. log' \in Seq(Entry)
    <3>1. log \in Seq(Entry)
      BY <1>0
    <3>2. ASSUME NEW e \in Entry  PROVE Append(log, e) \in Seq(Entry)
      BY <3>1
    <3>. QED  BY <2>3, <3>1, <3>2
  <2>. QED
    BY <1>0, <1>15, <2>4, MaxStopsAssumption DEF StopDrain, blockVars, threadVars
<1>16. CASE UNCHANGED vars
  BY <1>0, <1>16 DEF vars, blockVars, threadVars, overlayVars, history
<1>. QED
  BY <1>1, <1>2, <1>3, <1>4, <1>5, <1>6, <1>7, <1>8, <1>9, <1>10, <1>11, <1>12,
     <1>13, <1>14, <1>15, <1>16 DEF Next, Overlay, DrainStep, Producer

-----------------------------------------------------------------------------
(***************************************************************************)
(* Steps are of four kinds: the overlay leaves the threads alone, and a    *)
(* thread leaves the overlay alone.                                        *)
(***************************************************************************)
\* The overlay never touches the write cursor, a slot, or a thread.
LEMMA OverlayFrame ==
  ASSUME Overlay
  PROVE  UNCHANGED <<write, slots, dropped, lock, pc, next, line, printed, accepted>>
  BY DEF Overlay, DrainStep, CloseOverlay, OpenOverlay, PeekLine, PeekNothing, WriteLine, Flush,
         LoadConsume, StoreConsume, StopDrain, blockVars, threadVars, history

\* A thread never touches the read cursor, the log, or the overlay.
LEMMA ProducerFrame ==
  ASSUME NEW t \in Threads, Producer(t)
  PROVE  UNCHANGED <<read, opc, view, pending, oread, log, stops>>
  BY DEF Producer, BeginSession, LoadCursors, CountDrop, SetLength, CopyText,
         Publish, EndSession, blockVars, overlayVars, history

\* Only one thread is inside a Session.
LEMMA OneSession ==
  ASSUME LockInv, NEW t \in Threads, NEW u \in Threads,
         pc[t] # "idle", pc[u] # "idle"
  PROVE  t = u
  BY DEF LockInv

-----------------------------------------------------------------------------
\* Every step preserves the agreement of the spinlock and the Sessions.
LEMMA LockStep == RingInv /\ [Next]_vars => LockInv'
<1>. SUFFICES ASSUME RingInv, [Next]_vars  PROVE LockInv'
  OBVIOUS
<1>0. TypeOK /\ LockInv
  BY DEF RingInv
<1>1. CASE Overlay
  BY <1>0, <1>1, OverlayFrame DEF LockInv
<1>2. ASSUME NEW t \in Threads, Producer(t)  PROVE LockInv'
  <2>1. CASE BeginSession(t)
    BY <1>0, <2>1, NoThreadAssumption DEF BeginSession, LockInv, TypeOK
  <2>2. CASE EndSession(t)
    BY <1>0, <2>2, NoThreadAssumption DEF EndSession, LockInv, TypeOK
  <2>3. CASE LoadCursors(t) \/ CountDrop(t) \/ SetLength(t) \/ CopyText(t) \/ Publish(t)
    <3>1. lock' = lock /\ pc[t] # "idle"
      BY <2>3 DEF LoadCursors, CountDrop, SetLength, CopyText, Publish
    <3>2. \E s \in ThreadSteps \ {"idle"} : pc' = [pc EXCEPT ![t] = s]
      BY <2>3 DEF LoadCursors, CountDrop, SetLength, CopyText, Publish, ThreadSteps
    <3>. QED  BY <1>0, <3>1, <3>2 DEF LockInv, TypeOK
  <2>. QED  BY <1>2, <2>1, <2>2, <2>3 DEF Producer
<1>3. CASE UNCHANGED vars
  BY <1>0, <1>3 DEF vars, threadVars, LockInv
<1>. QED  BY <1>1, <1>2, <1>3 DEF Next

-----------------------------------------------------------------------------
\* Every step keeps the unread lines within the ring.
LEMMA WindowStep == RingInv /\ [Next]_vars => WindowInv'
<1>. SUFFICES ASSUME RingInv, [Next]_vars  PROVE WindowInv'
  OBVIOUS
<1>0. TypeOK /\ WindowInv /\ ProducerInv /\ DrainInv
  BY DEF RingInv
<1>1. CASE Overlay
  <2>1. CASE StoreConsume
    <3>1. read' = read + 1 /\ read < write
      BY <1>0, <2>1 DEF StoreConsume, DrainInv
    <3>2. write' = write /\ accepted' = accepted
      BY <1>1, OverlayFrame
    <3>3. read \in Nat /\ write \in Nat
      BY <1>0 DEF TypeOK
    <3>. QED  BY <1>0, <3>1, <3>2, <3>3, SlotsAssumption DEF WindowInv
  <2>2. CASE ~ StoreConsume
    <3>1. read' = read
      BY <1>1, <2>2 DEF Overlay, DrainStep, CloseOverlay, OpenOverlay, PeekLine, PeekNothing,
         WriteLine, Flush, LoadConsume, StopDrain, blockVars
    <3>. QED  BY <1>0, <1>1, <3>1, OverlayFrame DEF WindowInv
  <2>. QED  BY <2>1, <2>2
<1>2. ASSUME NEW t \in Threads, Producer(t)  PROVE WindowInv'
  <2>1. CASE Publish(t)
    <3>1. write' = write + 1 /\ write - read < Slots /\ Len(accepted') = Len(accepted) + 1
      BY <1>0, <2>1 DEF Publish, ProducerInv, SlotOwned, TypeOK
    <3>2. read' = read
      BY <1>2, ProducerFrame
    <3>3. read \in Nat /\ write \in Nat
      BY <1>0 DEF TypeOK
    <3>. QED  BY <1>0, <3>1, <3>2, <3>3, SlotsAssumption DEF WindowInv
  <2>2. CASE ~ Publish(t)
    <3>1. write' = write /\ accepted' = accepted
      BY <1>2, <2>2 DEF Producer, BeginSession, LoadCursors, CountDrop, SetLength,
         CopyText, EndSession, blockVars, history
    <3>. QED  BY <1>0, <1>2, <3>1, ProducerFrame DEF WindowInv
  <2>. QED  BY <2>1, <2>2
<1>3. CASE UNCHANGED vars
  BY <1>0, <1>3 DEF vars, blockVars, history, WindowInv
<1>. QED  BY <1>1, <1>2, <1>3 DEF Next

-----------------------------------------------------------------------------
\* Every step keeps the unread lines as they were published.
LEMMA UnreadStep == RingInv /\ [Next]_vars => UnreadIntact'
<1>. SUFFICES ASSUME RingInv, [Next]_vars  PROVE UnreadIntact'
  OBVIOUS
<1>0. UnreadIntact /\ WindowInv /\ ProducerInv /\ DrainInv
  BY DEF RingInv
<1>T. /\ read \in Nat /\ write \in Nat /\ accepted \in Seq(Line)
      /\ slots \in [0 .. Slots - 1 -> [length : 0 .. MaxLines, text : 0 .. MaxLines]]
      /\ next \in [Threads -> Nat] /\ line \in [Threads -> 0 .. MaxLines]
  BY DEF RingInv, TypeOK
<1>1. CASE Overlay
  <2>1. read' = read \/ (read' = read + 1 /\ read < write)
    BY <1>0, <1>1 DEF Overlay, DrainStep, CloseOverlay, OpenOverlay, PeekLine, PeekNothing,
       WriteLine, Flush, LoadConsume, StoreConsume, StopDrain, blockVars, DrainInv
  <2>2. write' = write /\ slots' = slots /\ accepted' = accepted
    BY <1>1, OverlayFrame
  <2>. QED  BY <1>0, <1>T, <2>1, <2>2 DEF UnreadIntact
<1>2. ASSUME NEW t \in Threads, Producer(t)  PROVE UnreadIntact'
  <2>0. read' = read
    BY <1>2, ProducerFrame
  <2>1. CASE SetLength(t) \/ CopyText(t)
    <3>1. /\ next[t] = write /\ write - read < Slots
          /\ write' = write /\ accepted' = accepted
      BY <1>0, <2>1 DEF SetLength, CopyText, ProducerInv, SlotOwned, history
    <3>2. \A n \in read .. write - 1 : slots'[SlotIndex(n)] = slots[SlotIndex(n)]
      <4>. TAKE n \in read .. write - 1
      <4>1. n \in Nat /\ n < write /\ write - n < Slots
        BY <1>T, <3>1, SlotsAssumption
      <4>2. SlotIndex(n) # SlotIndex(write) /\ SlotIndex(n) \in 0 .. Slots - 1
        BY <1>T, <4>1, SameSlotApart, SlotInRing
      <4>. QED  BY <1>T, <2>1, <3>1, <4>2 DEF SetLength, CopyText
    <3>3. SUFFICES ASSUME NEW n \in read .. write - 1
                   PROVE  slots'[SlotIndex(n)]
                            = [length |-> accepted[n + 1], text |-> accepted[n + 1]]
      BY <2>0, <3>1 DEF UnreadIntact
    <3>. QED  BY <1>0, <3>2 DEF UnreadIntact
  <2>2. CASE Publish(t)
    <3>1. /\ slots[SlotIndex(write)].length = line[t]
          /\ slots[SlotIndex(write)].text = line[t]
          /\ write' = write + 1 /\ slots' = slots /\ line[t] \in Line
          /\ accepted' = Append(accepted, line[t])
      BY <1>0, <2>2 DEF Publish, ProducerInv, SlotOwned
    <3>2. slots[SlotIndex(write)] = [length |-> line[t], text |-> line[t]]
      BY <1>T, <3>1, SlotInRing
    <3>3. accepted'[write + 1] = line[t]
      BY <1>0, <1>T, <3>1 DEF WindowInv
    <3>4. \A n \in read .. write - 1 : accepted'[n + 1] = accepted[n + 1]
      BY <1>0, <1>T, <3>1 DEF WindowInv
    <3>5. SUFFICES ASSUME NEW n \in read .. write
                   PROVE  slots[SlotIndex(n)]
                            = [length |-> accepted'[n + 1], text |-> accepted'[n + 1]]
      <4>1. read' .. write' - 1 = read .. write
        BY <1>T, <2>0, <3>1
      <4>. QED  BY <3>1, <4>1 DEF UnreadIntact
    <3>6. CASE n = write
      BY <3>2, <3>3, <3>6
    <3>7. CASE n \in read .. write - 1
      BY <1>0, <3>4, <3>7 DEF UnreadIntact
    <3>. QED  BY <1>T, <3>6, <3>7
  <2>3. CASE ~ (SetLength(t) \/ CopyText(t) \/ Publish(t))
    <3>1. write' = write /\ slots' = slots /\ accepted' = accepted
      BY <1>2, <2>3 DEF Producer, BeginSession, LoadCursors, CountDrop, EndSession,
         blockVars, history
    <3>. QED  BY <1>0, <2>0, <3>1 DEF UnreadIntact
  <2>. QED  BY <2>1, <2>2, <2>3
<1>3. CASE UNCHANGED vars
  BY <1>0, <1>3 DEF vars, blockVars, history, UnreadIntact
<1>. QED  BY <1>1, <1>2, <1>3 DEF Next

-----------------------------------------------------------------------------
\* When a thread steps, every other thread is outside a Session, before and after.
LEMMA OthersIdle ==
  ASSUME TypeOK, LockInv, NEW t \in Threads, Producer(t), NEW u \in Threads, u # t
  PROVE  pc[u] = "idle" /\ pc'[u] = "idle"
<1>1. pc'[u] = pc[u]
  BY DEF TypeOK, Producer, BeginSession, LoadCursors, CountDrop, SetLength, CopyText,
         Publish, EndSession
<1>2. CASE BeginSession(t)
  BY <1>1, <1>2, NoThreadAssumption DEF BeginSession, LockInv
<1>3. CASE ~ BeginSession(t)
  <2>1. pc[t] # "idle"
    BY <1>3 DEF Producer, LoadCursors, CountDrop, SetLength, CopyText, Publish, EndSession
  <2>. QED  BY <1>1, <2>1, OneSession
<1>. QED  BY <1>2, <1>3

\* Every step keeps the slot being written in the hands of its producer.
LEMMA ProducerStep == RingInv /\ [Next]_vars => ProducerInv'
<1>. SUFFICES ASSUME RingInv, [Next]_vars  PROVE ProducerInv'
  OBVIOUS
<1>0. TypeOK /\ LockInv /\ WindowInv /\ ProducerInv /\ DrainInv
  BY DEF RingInv
<1>T. /\ read \in Nat /\ write \in Nat /\ printed \in 0 .. MaxLines
      /\ slots \in [0 .. Slots - 1 -> [length : 0 .. MaxLines, text : 0 .. MaxLines]]
      /\ pc \in [Threads -> ThreadSteps]
      /\ next \in [Threads -> Nat] /\ line \in [Threads -> 0 .. MaxLines]
  BY DEF RingInv, TypeOK
<1>1. CASE Overlay
  <2>1. read' = read \/ (read' = read + 1)
    BY <1>0, <1>1 DEF Overlay, DrainStep, CloseOverlay, OpenOverlay, PeekLine, PeekNothing,
       WriteLine, Flush, LoadConsume, StoreConsume, StopDrain, blockVars, DrainInv
  <2>2. /\ write' = write /\ slots' = slots /\ pc' = pc /\ next' = next /\ line' = line
    BY <1>1, OverlayFrame
  <2>3. ASSUME write - read < Slots  PROVE write - read' < Slots
    BY <1>T, <2>1, <2>3, SlotsAssumption
  <2>. QED  BY <1>0, <2>2, <2>3 DEF ProducerInv, SlotOwned
<1>2. ASSUME NEW t \in Threads, Producer(t)  PROVE ProducerInv'
  <2>1. SUFFICES SlotOwned(t)'
    <3>1. ASSUME NEW u \in Threads, u # t  PROVE SlotOwned(u)'
      BY <1>0, <1>2, <3>1, OthersIdle DEF SlotOwned
    <3>. QED  BY <3>1 DEF ProducerInv
  <2>2. SlotOwned(t)
    BY <1>0 DEF ProducerInv
  <2>3. read' = read
    BY <1>2, ProducerFrame
  <2>4. CASE BeginSession(t) \/ CountDrop(t) \/ Publish(t) \/ EndSession(t)
    <3>1. pc'[t] \in {"idle", "session"}
      BY <1>T, <2>4 DEF BeginSession, CountDrop, Publish, EndSession
    <3>. QED  BY <3>1 DEF SlotOwned
  <2>5. CASE LoadCursors(t)
    <3>1. /\ next'[t] = write /\ write' = write /\ line'[t] \in Line
      BY <1>T, <2>5, MaxLinesAssumption DEF LoadCursors, blockVars, Line
    <3>2. pc'[t] = IF write - read >= Slots THEN "full" ELSE "room"
      BY <1>0, <1>T, <2>5, DistanceInOrder DEF LoadCursors, Full, WindowInv
    <3>. QED  BY <1>T, <2>3, <3>1, <3>2, SlotsAssumption DEF SlotOwned
  <2>6. CASE SetLength(t)
    <3>1. /\ pc[t] = "room" /\ pc'[t] = "sized" /\ next' = next /\ line' = line
          /\ write' = write
          /\ slots' = [slots EXCEPT ![SlotIndex(next[t])].length = line[t]]
      BY <1>T, <2>6 DEF SetLength
    <3>2. slots'[SlotIndex(write)].length = line[t]
      BY <1>T, <2>2, <3>1, SlotInRing DEF SlotOwned
    <3>. QED  BY <2>2, <2>3, <3>1, <3>2 DEF SlotOwned
  <2>7. CASE CopyText(t)
    <3>1. /\ pc[t] = "sized" /\ pc'[t] = "copied" /\ next' = next /\ line' = line
          /\ write' = write
          /\ slots' = [slots EXCEPT ![SlotIndex(next[t])].text = line[t]]
      BY <1>T, <2>7 DEF CopyText
    <3>2. /\ slots'[SlotIndex(write)].text = line[t]
          /\ slots'[SlotIndex(write)].length = line[t]
      BY <1>T, <2>2, <3>1, SlotInRing DEF SlotOwned
    <3>. QED  BY <2>2, <2>3, <3>1, <3>2 DEF SlotOwned
  <2>. QED  BY <1>2, <2>4, <2>5, <2>6, <2>7 DEF Producer
<1>3. CASE UNCHANGED vars
  BY <1>0, <1>3 DEF vars, blockVars, threadVars, ProducerInv, SlotOwned
<1>. QED  BY <1>1, <1>2, <1>3 DEF Next

-----------------------------------------------------------------------------
\* Publishing adds a line and leaves those before it where they were.
LEMMA AcceptedGrows ==
  ASSUME TypeOK, WindowInv, ProducerInv, NEW t \in Threads, Producer(t)
  PROVE  /\ write' \in {write, write + 1}
         /\ \A n \in 1 .. write : accepted'[n] = accepted[n]
<1>1. CASE Publish(t)
  <2>1. write' = write + 1 /\ accepted' = Append(accepted, line[t])
    BY <1>1 DEF Publish, ProducerInv, SlotOwned
  <2>2. accepted \in Seq(Line) /\ write = Len(accepted) /\ write \in Nat
    BY DEF TypeOK, WindowInv
  <2>. QED  BY <2>1, <2>2
<1>2. CASE ~ Publish(t)
  <2>1. write' = write /\ accepted' = accepted
    BY <1>2 DEF Producer, BeginSession, LoadCursors, CountDrop, SetLength, CopyText,
       EndSession, blockVars, history
  <2>. QED  BY <2>1
<1>. QED  BY <1>1, <1>2

\* The oldest unread line is in its slot, whole.
LEMMA OldestIntact ==
  ASSUME TypeOK, WindowInv, UnreadIntact, read < write
  PROVE  slots[SlotIndex(read)] = [length |-> accepted[read + 1], text |-> accepted[read + 1]]
<1>1. read \in read .. write - 1
  BY DEF TypeOK
<1>. QED  BY <1>1 DEF UnreadIntact

\* Every step keeps the overlay on the oldest unread line until it consumes it.
LEMMA DrainInvStep == RingInv /\ [Next]_vars => DrainInv'
<1>. SUFFICES ASSUME RingInv, [Next]_vars  PROVE DrainInv'
  OBVIOUS
<1>0. TypeOK /\ WindowInv /\ ProducerInv /\ DrainInv /\ UnreadIntact
  BY DEF RingInv
<1>T. /\ read \in Nat /\ write \in Nat /\ log \in Seq(Entry) /\ pending \in Entry
      /\ view \in [sequence : Nat, length : 0 .. MaxLines]
  BY DEF RingInv, TypeOK
<1>1. CASE OpenOverlay \/ PeekNothing \/ StoreConsume \/ StopDrain \/ CloseOverlay
  <2>1. opc' \in {"closed", "draining", "shown"}
    BY <1>1 DEF OpenOverlay, PeekNothing, StoreConsume, StopDrain, CloseOverlay
  <2>. QED  BY <2>1 DEF DrainInv
<1>2. CASE PeekLine
  <2>1. /\ read' = read /\ write' = write /\ accepted' = accepted /\ opc' = "peeked"
        /\ view' = [sequence |-> read, length |-> slots[SlotIndex(read)].length]
    BY <1>2 DEF PeekLine, blockVars, history
  <2>2. read < write
    BY <1>0, <1>T, <1>2 DEF PeekLine, WindowInv
  <2>3. slots[SlotIndex(read)].length = accepted[read + 1]
    BY <1>0, <2>2, OldestIntact
  <2>. QED  BY <2>1, <2>2, <2>3 DEF DrainInv
<1>3. CASE WriteLine
  <2>1. /\ read' = read /\ write' = write /\ accepted' = accepted /\ opc' = "written"
        /\ view' = view /\ opc = "peeked"
        /\ pending' = Whole(view.length, slots[SlotIndex(view.sequence)].text)
    BY <1>3 DEF WriteLine, blockVars, history
  <2>2. read < write /\ view = [sequence |-> read, length |-> accepted[read + 1]]
    BY <1>0, <2>1 DEF DrainInv
  <2>3. slots[SlotIndex(read)].text = accepted[read + 1]
    BY <1>0, <2>2, OldestIntact
  <2>4. pending' = Whole(accepted[read + 1], accepted[read + 1])
    BY <2>1, <2>2, <2>3
  <2>. QED  BY <2>1, <2>2, <2>4 DEF DrainInv
<1>4. CASE Flush
  <2>1. /\ read' = read /\ write' = write /\ accepted' = accepted /\ opc' = "flushed"
        /\ view' = view /\ opc = "written" /\ log' = Append(log, pending)
    BY <1>4 DEF Flush, blockVars, history
  <2>2. /\ read < write /\ view = [sequence |-> read, length |-> accepted[read + 1]]
        /\ pending = Whole(accepted[read + 1], accepted[read + 1])
    BY <1>0, <2>1 DEF DrainInv
  <2>3. Len(log') = Len(log) + 1 /\ log'[Len(log) + 1] = pending /\ Len(log) \in Nat
    BY <1>T, <2>1
  <2>4. \E i \in 1 .. Len(log') : log'[i] = Whole(accepted[read + 1], accepted[read + 1])
    BY <2>2, <2>3
  <2>. QED  BY <2>1, <2>2, <2>4 DEF DrainInv
<1>5. CASE LoadConsume
  <2>1. /\ read' = read /\ write' = write /\ accepted' = accepted /\ opc = "flushed"
        /\ view' = view /\ log' = log /\ oread' = read
        /\ opc' = IF read # write THEN "consuming" ELSE "draining"
    BY <1>5 DEF LoadConsume, blockVars, history
  <2>. QED  BY <1>0, <2>1 DEF DrainInv
<1>6. ASSUME NEW t \in Threads, Producer(t)  PROVE DrainInv'
  <2>1. UNCHANGED <<read, opc, view, pending, oread, log>>
    BY <1>6, ProducerFrame
  <2>2. /\ write' \in {write, write + 1}
        /\ \A n \in 1 .. write : accepted'[n] = accepted[n]
    BY <1>0, <1>6, AcceptedGrows
  <2>3. ASSUME read < write
        PROVE  read < write' /\ accepted'[read + 1] = accepted[read + 1]
    BY <1>T, <2>2, <2>3
  <2>. QED  BY <1>0, <2>1, <2>3 DEF DrainInv
<1>7. CASE UNCHANGED vars
  BY <1>0, <1>7 DEF vars, blockVars, overlayVars, history, DrainInv
<1>. QED
  BY <1>1, <1>2, <1>3, <1>4, <1>5, <1>6, <1>7 DEF Next, Overlay, DrainStep

-----------------------------------------------------------------------------
\* A step leaves the log alone or appends one entry, and that entry is not torn.
LEMMA LogGrows ==
  ASSUME RingInv, [Next]_vars
  PROVE  \/ log' = log
         \/ \E e \in Entry : log' = Append(log, e) /\ e.length = e.text
<1>0. TypeOK /\ WindowInv /\ DrainInv /\ UnreadIntact
  BY DEF RingInv
<1>T. pending \in Entry /\ accepted \in Seq(Line) /\ write = Len(accepted)
      /\ read \in Nat /\ write \in Nat
  BY DEF RingInv, TypeOK, WindowInv
<1>1. opc = "written" => pending.length = pending.text
  BY <1>0 DEF DrainInv, Whole
<1>2. CASE Flush
  BY <1>T, <1>1, <1>2 DEF Flush
<1>3. CASE StopDrain
  <2>1. CASE opc = "written"
    <3>1. log' = log \/ log' \in {Append(log, Cut(pending)), Append(log, pending)}
      BY <1>3, <2>1 DEF StopDrain
    <3>2. Cut(pending) \in Entry /\ Cut(pending).length = pending.length
          /\ Cut(pending).text = pending.text
      BY <1>T DEF Cut, Entry
    <3>. QED  BY <1>T, <1>1, <2>1, <3>1, <3>2
  <2>2. CASE opc = "peeked"
    <3>. DEFINE l == accepted[read + 1]
    <3>1. log' = log
          \/ log' = Append(log, Cut(Whole(view.length, slots[SlotIndex(view.sequence)].text)))
      BY <1>3, <2>2 DEF StopDrain
    <3>2. read < write /\ view.length = l /\ view.sequence = read
      BY <1>0, <2>2 DEF DrainInv
    <3>3. slots[SlotIndex(read)].text = l
      BY <1>0, <3>2, OldestIntact
    <3>4. l \in Line
      BY <1>T, <3>2
    <3>. HIDE DEF l
    <3>5. Cut(Whole(l, l)) \in Entry /\ Cut(Whole(l, l)).length = Cut(Whole(l, l)).text
      BY <3>4, MaxLinesAssumption DEF Cut, Whole, Entry, Line
    <3>. QED  BY <3>1, <3>2, <3>3, <3>5
  <2>3. CASE opc \notin {"written", "peeked"}
    BY <1>3, <2>3 DEF StopDrain
  <2>. QED  BY <2>1, <2>2, <2>3
<1>4. CASE OpenOverlay \/ PeekLine \/ PeekNothing \/ WriteLine \/ LoadConsume \/ StoreConsume
           \/ CloseOverlay
  BY <1>4 DEF OpenOverlay, PeekLine, PeekNothing, WriteLine, LoadConsume, StoreConsume,
              CloseOverlay
<1>5. ASSUME NEW t \in Threads, Producer(t)  PROVE log' = log
  BY <1>5, ProducerFrame
<1>6. CASE UNCHANGED vars
  BY <1>6 DEF vars
<1>. QED
  BY <1>2, <1>3, <1>4, <1>5, <1>6 DEF Next, Overlay, DrainStep

\* Every step keeps the ring sound.
LEMMA RingStep == RingInv /\ [Next]_vars => RingInv'
<1>1. RingInv => TypeOK /\ LinesInHand
  BY DEF RingInv, LinesInHand, ProducerInv, SlotOwned
<1>. QED
  BY <1>1, TypeStep, LockStep, WindowStep, UnreadStep, ProducerStep, DrainInvStep
     DEF RingInv

-----------------------------------------------------------------------------
\* Every step keeps the log free of torn lines and keeps what was consumed in it.
LEMMA LogStep == IInv /\ [Next]_vars => NoTornLine' /\ ConsumedIsLogged'
<1>. SUFFICES ASSUME IInv, [Next]_vars  PROVE NoTornLine' /\ ConsumedIsLogged'
  OBVIOUS
<1>0. TypeOK /\ WindowInv /\ ProducerInv /\ DrainInv /\ NoTornLine /\ ConsumedIsLogged
  BY DEF IInv, RingInv
<1>T. /\ log \in Seq(Entry) /\ accepted \in Seq(Line)
      /\ read \in Nat /\ write \in Nat /\ read <= write
  BY DEF IInv, RingInv, TypeOK, WindowInv
<1>G. log' = log \/ \E e \in Entry : log' = Append(log, e) /\ e.length = e.text
  BY LogGrows DEF IInv
<1>1. Len(log') \in Nat /\ Len(log') >= Len(log)
      /\ \A i \in 1 .. Len(log) : log'[i] = log[i]
  BY <1>T, <1>G
<1>2. NoTornLine'
  <2>1. CASE log' = log
    BY <1>0, <2>1 DEF NoTornLine
  <2>2. ASSUME NEW e \in Entry, log' = Append(log, e), e.length = e.text
        PROVE  NoTornLine'
    <3>1. Len(log') = Len(log) + 1 /\ log'[Len(log) + 1] = e
          /\ \A i \in 1 .. Len(log) : log'[i] = log[i]
      BY <1>T, <2>2
    <3>2. SUFFICES ASSUME NEW i \in 1 .. Len(log) + 1  PROVE log'[i].length = log'[i].text
      BY <3>1 DEF NoTornLine
    <3>3. i = Len(log) + 1 \/ i \in 1 .. Len(log)
      BY <1>T, <3>2
    <3>. QED  BY <1>0, <2>2, <3>1, <3>3 DEF NoTornLine
  <2>. QED  BY <2>1, <2>2, <1>G
<1>3. \A n \in 1 .. read :
        \E i \in 1 .. Len(log') : log'[i] = Whole(accepted[n], accepted[n])
  BY <1>0, <1>T, <1>1 DEF ConsumedIsLogged
<1>4. ConsumedIsLogged'
  <2>1. CASE Overlay
    <3>1. accepted' = accepted
      BY <2>1, OverlayFrame
    <3>2. CASE StoreConsume
      <4>1. /\ read' = read + 1 /\ log' = log
            /\ \E i \in 1 .. Len(log) : log[i] = Whole(accepted[read + 1], accepted[read + 1])
        BY <1>0, <3>2 DEF StoreConsume, DrainInv
      <4>2. SUFFICES ASSUME NEW n \in 1 .. read + 1
                     PROVE  \E i \in 1 .. Len(log) : log[i] = Whole(accepted[n], accepted[n])
        BY <3>1, <4>1 DEF ConsumedIsLogged
      <4>3. n = read + 1 \/ n \in 1 .. read
        BY <1>T, <4>2
      <4>. QED  BY <1>0, <4>1, <4>3 DEF ConsumedIsLogged
    <3>3. CASE ~ StoreConsume
      <4>1. read' = read
        BY <2>1, <3>3 DEF Overlay, DrainStep, CloseOverlay, OpenOverlay, PeekLine, PeekNothing,
           WriteLine, Flush, LoadConsume, StopDrain, blockVars
      <4>. QED  BY <1>3, <3>1, <4>1 DEF ConsumedIsLogged
    <3>. QED  BY <3>2, <3>3
  <2>2. ASSUME NEW t \in Threads, Producer(t)  PROVE ConsumedIsLogged'
    <3>1. read' = read /\ log' = log
      BY <2>2, ProducerFrame
    <3>2. \A n \in 1 .. read : accepted'[n] = accepted[n]
      BY <1>0, <1>T, <2>2, AcceptedGrows
    <3>. QED  BY <1>0, <3>1, <3>2 DEF ConsumedIsLogged
  <2>3. CASE UNCHANGED vars
    BY <1>0, <2>3 DEF vars, blockVars, history, ConsumedIsLogged
  <2>. QED  BY <2>1, <2>2, <2>3 DEF Next
<1>. QED  BY <1>2, <1>4

-----------------------------------------------------------------------------
\* Every step keeps the account of printed lines.
LEMMA AccountStep == IInv /\ [Next]_vars => NothingUnaccounted'
<1>. SUFFICES ASSUME IInv, [Next]_vars  PROVE NothingUnaccounted'
  OBVIOUS
<1>0. TypeOK /\ LockInv /\ NothingUnaccounted
  BY DEF IInv, RingInv
<1>T. /\ printed \in Nat /\ dropped \in Nat /\ accepted \in Seq(Line)
      /\ Len(accepted) \in Nat /\ pc \in [Threads -> ThreadSteps]
      /\ line \in [Threads -> 0 .. MaxLines]
  BY MaxLinesAssumption DEF IInv, RingInv, TypeOK
<1>1. CASE Overlay
  BY <1>0, <1>1, OverlayFrame DEF NothingUnaccounted, InHand
<1>2. ASSUME NEW t \in Threads, Producer(t)  PROVE NothingUnaccounted'
  <2>1. InHand = (IF pc[t] \notin {"idle", "session"} THEN 1 ELSE 0)
    BY <1>0, <1>2, OthersIdle DEF InHand
  <2>2. InHand' = (IF pc'[t] \notin {"idle", "session"} THEN 1 ELSE 0)
    BY <1>0, <1>2, OthersIdle DEF InHand
  <2>3. CASE BeginSession(t) \/ SetLength(t) \/ CopyText(t) \/ EndSession(t)
    <3>1. printed' = printed /\ accepted' = accepted /\ dropped' = dropped
      BY <2>3 DEF BeginSession, SetLength, CopyText, EndSession, blockVars, history
    <3>2. InHand' = InHand
      BY <1>T, <2>1, <2>2, <2>3 DEF BeginSession, SetLength, CopyText, EndSession
    <3>. QED  BY <1>0, <3>1, <3>2 DEF NothingUnaccounted
  <2>4. CASE LoadCursors(t)
    <3>1. printed' = printed + 1 /\ accepted' = accepted /\ dropped' = dropped
      BY <2>4 DEF LoadCursors, blockVars
    <3>2. InHand = 0 /\ InHand' = 1
      BY <1>T, <2>1, <2>2, <2>4 DEF LoadCursors
    <3>. QED  BY <1>0, <1>T, <3>1, <3>2 DEF NothingUnaccounted
  <2>5. CASE CountDrop(t)
    <3>1. printed' = printed /\ accepted' = accepted /\ dropped' = dropped + 1
      BY <2>5 DEF CountDrop, history
    <3>2. InHand = 1 /\ InHand' = 0
      BY <1>T, <2>1, <2>2, <2>5 DEF CountDrop
    <3>. QED  BY <1>0, <1>T, <3>1, <3>2 DEF NothingUnaccounted
  <2>6. CASE Publish(t)
    <3>1. printed' = printed /\ dropped' = dropped /\ accepted' = Append(accepted, line[t])
      BY <2>6 DEF Publish
    <3>2. InHand = 1 /\ InHand' = 0
      BY <1>T, <2>1, <2>2, <2>6 DEF Publish
    <3>3. Len(accepted') = Len(accepted) + 1
      BY <1>T, <3>1
    <3>. QED  BY <1>0, <1>T, <3>1, <3>2, <3>3 DEF NothingUnaccounted
  <2>. QED  BY <1>2, <2>3, <2>4, <2>5, <2>6 DEF Producer
<1>3. CASE UNCHANGED vars
  BY <1>0, <1>3 DEF vars, blockVars, threadVars, history, NothingUnaccounted, InHand
<1>. QED  BY <1>1, <1>2, <1>3 DEF Next

-----------------------------------------------------------------------------
\* IInv is an invariant of the ring: types, lock, window, slots, view and log
\* agree in every state, for any number of threads and slots.
THEOREM Invariance == Spec => []IInv
<1>1. Init => IInv
  BY InitIInv
<1>2. IInv /\ [Next]_vars => IInv'
  BY RingStep, LogStep, AccountStep DEF IInv
<1>. QED  BY <1>1, <1>2, PTL DEF Spec

\* Every variable keeps its type (protocol.cpp, report.cpp, the overlay's drain).
THEOREM TypeCorrect == Spec => []TypeOK
<1>1. IInv => TypeOK
  BY DEF IInv, RingInv
<1>. QED  BY <1>1, Invariance, PTL

\* push_report never rewrites a slot the overlay has yet to read.
THEOREM UnreadNeverOverwritten == Spec => []UnreadIntact
<1>1. IInv => UnreadIntact
  BY DEF IInv, RingInv
<1>. QED  BY <1>1, Invariance, PTL

\* drain_reports never logs the length of one line with the text of another.
THEOREM NeverTorn == Spec => []NoTornLine
<1>1. IInv => NoTornLine
  BY DEF IInv, RingInv
<1>. QED  BY <1>1, Invariance, PTL

\* consume_report only gives up lines that are in the log, so neither a failed
\* write nor the end of the overlay loses an accepted line.
THEOREM NoAcceptedLineLost == Spec => []ConsumedIsLogged
<1>1. IInv => ConsumedIsLogged
  BY DEF IInv, RingInv
<1>. QED  BY <1>1, Invariance, PTL

\* Every line printed is published, counted as dropped, or being pushed.
THEOREM AllAccounted == Spec => []NothingUnaccounted
<1>1. IInv => NothingUnaccounted
  BY DEF IInv, RingInv
<1>. QED  BY <1>1, Invariance, PTL

-----------------------------------------------------------------------------
(***************************************************************************)
(* The ring implements the bounded queue: Publish is Accept, finding the   *)
(* ring full is Refuse, reaching the log is Record, moving the read cursor *)
(* is Take, and every other step is invisible.                             *)
(***************************************************************************)
QueueEntry == [line : 0 .. MaxLines, cut : BOOLEAN]

\* What lies between two cursors of a history is a sequence of its lines.
LEMMA BetweenSeq ==
  ASSUME NEW a \in Seq(Line), NEW r \in Nat, r <= Len(a)
  PROVE  /\ Between(r, Len(a), a) \in Seq(Line)
         /\ Len(Between(r, Len(a), a)) = Len(a) - r
         /\ \A i \in 1 .. Len(a) - r : Between(r, Len(a), a)[i] = a[r + i]
<1>1. Len(a) - r \in Nat /\ \A i \in 1 .. Len(a) - r : a[r + i] \in Line
  OBVIOUS
<1>. QED  BY <1>1 DEF Between

\* The entries of a log are a sequence as long as the log.
LEMMA EntriesSeq ==
  ASSUME NEW l \in Seq(Entry)
  PROVE  /\ Entries(l) \in Seq(QueueEntry)
         /\ Len(Entries(l)) = Len(l)
         /\ \A i \in 1 .. Len(l) : Entries(l)[i] = [line |-> l[i].text, cut |-> l[i].cut]
<1>1. ASSUME NEW e \in Entry  PROVE [line |-> e.text, cut |-> e.cut] \in QueueEntry
  BY DEF Entry, QueueEntry
<1>2. \A i \in 1 .. Len(l) : l[i] \in Entry
  BY ElementOfSeq
<1>3. \A i \in 1 .. Len(l) : [line |-> l[i].text, cut |-> l[i].cut] \in QueueEntry
  BY <1>1, <1>2
<1>4. Len(l) \in Nat
  OBVIOUS
<1>. QED  BY <1>3, <1>4 DEF Entries

\* One more line of the history is one more line at the end.
LEMMA BetweenAppend ==
  ASSUME NEW a \in Seq(Line), NEW r \in Nat, r <= Len(a), NEW l \in Line
  PROVE  Between(r, Len(a) + 1, Append(a, l)) = Append(Between(r, Len(a), a), l)
<1>. DEFINE b == Append(a, l)
            s == Between(r, Len(b), b)
            q == Between(r, Len(a), a)
<1>1. /\ b \in Seq(Line) /\ Len(b) = Len(a) + 1 /\ b[Len(a) + 1] = l
      /\ \A i \in 1 .. Len(a) : b[i] = a[i]
  BY AppendProperties
<1>0. Len(a) \in Nat
  OBVIOUS
<1>2. /\ s \in Seq(Line) /\ Len(s) = Len(a) + 1 - r
      /\ \A i \in 1 .. Len(a) + 1 - r : s[i] = b[r + i]
  <2>. HIDE DEF b
  <2>1. r <= Len(b)
    BY <1>0, <1>1
  <2>2. /\ s \in Seq(Line) /\ Len(s) = Len(b) - r
        /\ \A i \in 1 .. Len(b) - r : s[i] = b[r + i]
    BY <1>1, <2>1, BetweenSeq
  <2>. QED  BY <1>1, <2>2
<1>3. /\ q \in Seq(Line) /\ Len(q) = Len(a) - r
      /\ \A i \in 1 .. Len(a) - r : q[i] = a[r + i]
  BY BetweenSeq
<1>. HIDE DEF b, s, q
<1>4. /\ Append(q, l) \in Seq(Line) /\ Len(Append(q, l)) = Len(a) - r + 1
      /\ \A i \in 1 .. Len(a) - r : Append(q, l)[i] = q[i]
      /\ Append(q, l)[Len(a) - r + 1] = l
  BY <1>3, AppendProperties
<1>5. s[Len(a) - r + 1] = l
  <2>1. Len(a) - r + 1 \in 1 .. Len(a) + 1 - r /\ r + (Len(a) - r + 1) = Len(a) + 1
    BY <1>0
  <2>. QED  BY <1>1, <1>2, <2>1
<1>6. \A i \in 1 .. Len(a) - r : s[i] = a[r + i]
  <2>1. ASSUME NEW i \in 1 .. Len(a) - r
        PROVE  i \in 1 .. Len(a) + 1 - r /\ r + i \in 1 .. Len(a)
    BY <1>0
  <2>. QED  BY <1>1, <1>2, <2>1
<1>7. ASSUME NEW i \in 1 .. Len(s)  PROVE s[i] = Append(q, l)[i]
  <2>1. i = Len(a) - r + 1 \/ i \in 1 .. Len(a) - r
    BY <1>0, <1>2
  <2>. QED  BY <1>3, <1>4, <1>5, <1>6, <2>1
<1>8. Len(s) = Len(Append(q, l))
  BY <1>0, <1>2, <1>4
<1>9. s = Append(q, l)
  BY <1>2, <1>4, <1>7, <1>8, SeqEqual
<1>. QED  BY <1>1, <1>9 DEF s, b, q

\* One line fewer at the front is the tail, and the head is the oldest line.
LEMMA BetweenTail ==
  ASSUME NEW a \in Seq(Line), NEW r \in Nat, r < Len(a)
  PROVE  /\ Between(r, Len(a), a) # <<>>
         /\ Head(Between(r, Len(a), a)) = a[r + 1]
         /\ Between(r + 1, Len(a), a) = Tail(Between(r, Len(a), a))
<1>. DEFINE s == Between(r + 1, Len(a), a)
            q == Between(r, Len(a), a)
<1>0. Len(a) \in Nat
  OBVIOUS
<1>1. /\ s \in Seq(Line) /\ Len(s) = Len(a) - (r + 1)
      /\ \A i \in 1 .. Len(a) - (r + 1) : s[i] = a[(r + 1) + i]
  <2>1. r + 1 \in Nat /\ r + 1 <= Len(a)
    BY <1>0
  <2>. QED  BY <2>1, BetweenSeq
<1>2. /\ q \in Seq(Line) /\ Len(q) = Len(a) - r
      /\ \A i \in 1 .. Len(a) - r : q[i] = a[r + i]
  <2>1. r <= Len(a)
    BY <1>0
  <2>. QED  BY <2>1, BetweenSeq
<1>. HIDE DEF s, q
<1>3. q # <<>> /\ Head(q) = a[r + 1]
  BY <1>0, <1>2
<1>4. /\ Tail(q) \in Seq(Line) /\ Len(Tail(q)) = Len(q) - 1
      /\ \A i \in 1 .. Len(Tail(q)) : Tail(q)[i] = q[i + 1]
  BY <1>2, <1>3, HeadTailProperties
<1>5. ASSUME NEW i \in 1 .. Len(s)  PROVE s[i] = Tail(q)[i]
  <2>1. i \in 1 .. Len(a) - (r + 1) /\ i \in 1 .. Len(Tail(q)) /\ i + 1 \in 1 .. Len(a) - r
    BY <1>0, <1>1, <1>2, <1>4
  <2>. QED  BY <1>0, <1>1, <1>2, <1>4, <2>1
<1>6. Len(s) = Len(Tail(q))
  <2>1. Len(Tail(q)) = Len(q) - 1
    BY <1>4
  <2>. QED  BY <1>0, <1>1, <1>2, <2>1
<1>7. s = Tail(q)
  BY <1>1, <1>4, <1>5, <1>6, SeqEqual
<1>. QED  BY <1>3, <1>7 DEF s, q

\* One more entry of the log is one more entry at the end.
LEMMA EntriesAppend ==
  ASSUME NEW l \in Seq(Entry), NEW e \in Entry
  PROVE  Entries(Append(l, e)) = Append(Entries(l), [line |-> e.text, cut |-> e.cut])
<1>. DEFINE x == [line |-> e.text, cut |-> e.cut]
            s == Entries(Append(l, e))
            q == Entries(l)
<1>1. x \in QueueEntry
  BY DEF Entry, QueueEntry
<1>2. /\ Append(l, e) \in Seq(Entry) /\ Len(Append(l, e)) = Len(l) + 1
      /\ Append(l, e)[Len(l) + 1] = e /\ \A i \in 1 .. Len(l) : Append(l, e)[i] = l[i]
  BY AppendProperties
<1>3. /\ s \in Seq(QueueEntry) /\ Len(s) = Len(l) + 1
      /\ \A i \in 1 .. Len(l) : s[i] = [line |-> l[i].text, cut |-> l[i].cut]
      /\ s[Len(l) + 1] = x
  <2>1. /\ s \in Seq(QueueEntry) /\ Len(s) = Len(Append(l, e))
        /\ \A i \in 1 .. Len(Append(l, e)) :
             s[i] = [line |-> Append(l, e)[i].text, cut |-> Append(l, e)[i].cut]
    BY <1>2, EntriesSeq
  <2>2. Len(l) \in Nat
    OBVIOUS
  <2>. QED  BY <1>2, <2>1, <2>2
<1>4. /\ q \in Seq(QueueEntry) /\ Len(q) = Len(l)
      /\ \A i \in 1 .. Len(l) : q[i] = [line |-> l[i].text, cut |-> l[i].cut]
  BY EntriesSeq
<1>. HIDE DEF x, s, q
<1>5. /\ Append(q, x) \in Seq(QueueEntry) /\ Len(Append(q, x)) = Len(l) + 1
      /\ \A i \in 1 .. Len(l) : Append(q, x)[i] = q[i]
      /\ Append(q, x)[Len(l) + 1] = x
  BY <1>1, <1>4, AppendProperties
<1>6. Len(l) \in Nat
  OBVIOUS
<1>7. ASSUME NEW i \in 1 .. Len(s)  PROVE s[i] = Append(q, x)[i]
  <2>1. i = Len(l) + 1 \/ i \in 1 .. Len(l)
    BY <1>3, <1>6
  <2>. QED  BY <1>3, <1>4, <1>5, <2>1
<1>8. s = Append(q, x)
  BY <1>3, <1>5, <1>6, <1>7, SeqEqual
<1>. QED  BY <1>8 DEF s, q, x

-----------------------------------------------------------------------------
\* The ring starts as an empty queue.
LEMMA QueueInit == Init => Queue!Init
<1>. SUFFICES ASSUME Init  PROVE Queue!Init
  OBVIOUS
<1>1. UnreadLines = <<>>
  <2>1. write - read = 0
    BY DEF Init
  <2>. QED  BY <2>1 DEF UnreadLines, Between
<1>2. Journal = <<>>
  <2>1. Len(log) = 0
    BY DEF Init
  <2>. QED  BY <2>1 DEF Journal, Entries
<1>3. Lost = 0
  BY DEF Init, Lost
<1>. QED  BY <1>1, <1>2, <1>3 DEF Queue!Init

\* A line that reaches the log, in full or in part, is the line at the head.
LEMMA RecordsHead ==
  ASSUME IInv, NEW e \in Entry, log' = Append(log, e), e.text = accepted[read + 1],
         read < write, UNCHANGED <<read, write, accepted, pc, dropped>>
  PROVE  \E cut \in BOOLEAN : Queue!Record(cut)
<1>1. /\ read \in Nat /\ write = Len(accepted) /\ accepted \in Seq(Line)
      /\ log \in Seq(Entry)
  BY DEF IInv, RingInv, TypeOK, WindowInv
<1>2. UnreadLines # <<>> /\ Head(UnreadLines) = accepted[read + 1]
  BY <1>1, BetweenTail DEF UnreadLines
<1>3. Journal' = Append(Journal, [line |-> e.text, cut |-> e.cut])
  BY <1>1, EntriesAppend DEF Journal
<1>4. UnreadLines' = UnreadLines /\ Lost' = Lost
  BY DEF UnreadLines, Lost
<1>5. e.cut \in BOOLEAN
  BY DEF Entry
<1>6. Queue!Record(e.cut)
  BY <1>2, <1>3, <1>4 DEF Queue!Record
<1>. QED  BY <1>5, <1>6

\* Every step of the ring is a step of the queue or leaves it as it is.
LEMMA QueueStep == IInv /\ [Next]_vars => [Queue!Next]_(Queue!queueVars)
<1>. SUFFICES ASSUME IInv, [Next]_vars
              PROVE  Queue!Next \/ UNCHANGED <<UnreadLines, Lost, Journal>>
  BY DEF Queue!queueVars
<1>0. TypeOK /\ LockInv /\ WindowInv /\ ProducerInv /\ DrainInv /\ UnreadIntact
  BY DEF IInv, RingInv
<1>T. /\ read \in Nat /\ write \in Nat /\ read <= write /\ write = Len(accepted)
      /\ write - read <= Slots /\ accepted \in Seq(Line) /\ log \in Seq(Entry)
      /\ dropped \in Nat /\ pc \in [Threads -> ThreadSteps] /\ pending \in Entry
  BY DEF IInv, RingInv, TypeOK, WindowInv
<1>1. ASSUME NEW t \in Threads, Publish(t)  PROVE Queue!Next
  <2>1. /\ write' = write + 1 /\ accepted' = Append(accepted, line[t]) /\ read' = read
        /\ log' = log /\ dropped' = dropped /\ write - read < Slots /\ line[t] \in Line
        /\ pc[t] # "full" /\ pc' = [pc EXCEPT ![t] = "session"]
    BY <1>0, <1>1 DEF Publish, ProducerInv, SlotOwned, overlayVars
  <2>2. UnreadLines' = Append(UnreadLines, line[t])
    BY <1>T, <2>1, BetweenAppend DEF UnreadLines
  <2>3. Len(UnreadLines) < Slots
    BY <1>T, <2>1, BetweenSeq DEF UnreadLines
  <2>4. Lost' = Lost /\ Journal' = Journal
    BY <1>T, <2>1 DEF Lost, Journal
  <2>5. Queue!Accept(line[t])
    BY <2>2, <2>3, <2>4 DEF Queue!Accept
  <2>. QED  BY <2>1, <2>5 DEF Queue!Next
<1>2. ASSUME NEW t \in Threads, LoadCursors(t)
      PROVE  Queue!Next \/ UNCHANGED <<UnreadLines, Lost, Journal>>
  <2>1. /\ write' = write /\ read' = read /\ accepted' = accepted /\ log' = log
        /\ dropped' = dropped /\ pc[t] = "session"
        /\ pc' = [pc EXCEPT ![t] = IF write - read >= Slots THEN "full" ELSE "room"]
    BY <1>T, <1>2, DistanceInOrder DEF LoadCursors, Full, blockVars
  <2>2. UnreadLines' = UnreadLines /\ Journal' = Journal
    BY <2>1 DEF UnreadLines, Journal
  <2>3. \A u \in Threads : pc[u] # "full"
    BY <1>0, <2>1, OneSession
  <2>4. CASE write - read >= Slots
    <3>1. Lost' = Lost + 1
      BY <1>T, <2>1, <2>3, <2>4 DEF Lost
    <3>2. write - read = Slots
      BY <1>T, <2>4, SlotsAssumption
    <3>3. Len(UnreadLines) = Slots
      BY <1>T, <3>2, BetweenSeq DEF UnreadLines
    <3>. QED  BY <2>2, <3>1, <3>3 DEF Queue!Next, Queue!Refuse
  <2>5. CASE ~ (write - read >= Slots)
    <3>1. Lost' = Lost
      BY <1>T, <2>1, <2>3, <2>5 DEF Lost
    <3>. QED  BY <2>2, <3>1
  <2>. QED  BY <2>4, <2>5
<1>3. ASSUME NEW t \in Threads, CountDrop(t)
      PROVE  UNCHANGED <<UnreadLines, Lost, Journal>>
  <2>1. /\ write' = write /\ read' = read /\ accepted' = accepted /\ log' = log
        /\ dropped' = dropped + 1 /\ pc[t] = "full"
        /\ pc' = [pc EXCEPT ![t] = "session"]
    BY <1>3 DEF CountDrop, history
  <2>2. \A u \in Threads \ {t} : pc[u] # "full"
    BY <1>0, <2>1, OneSession
  <2>3. Lost = dropped + 1 /\ Lost' = dropped'
    BY <1>T, <2>1, <2>2 DEF Lost
  <2>. QED  BY <2>1, <2>3 DEF UnreadLines, Journal
<1>4. ASSUME NEW t \in Threads,
             BeginSession(t) \/ SetLength(t) \/ CopyText(t) \/ EndSession(t)
      PROVE  UNCHANGED <<UnreadLines, Lost, Journal>>
  <2>1. /\ write' = write /\ read' = read /\ accepted' = accepted /\ log' = log
        /\ dropped' = dropped /\ pc[t] # "full"
    BY <1>4 DEF BeginSession, SetLength, CopyText, EndSession, blockVars, history
  <2>2. \E s \in ThreadSteps \ {"full"} : pc' = [pc EXCEPT ![t] = s]
    BY <1>4 DEF BeginSession, SetLength, CopyText, EndSession, ThreadSteps
  <2>3. \A u \in Threads : pc'[u] = "full" <=> pc[u] = "full"
    BY <1>T, <2>1, <2>2
  <2>4. Lost' = Lost
    BY <2>1, <2>3 DEF Lost
  <2>. QED  BY <2>1, <2>4 DEF UnreadLines, Journal
<1>5. ASSUME Overlay  PROVE UNCHANGED <<write, accepted, pc, dropped, Lost>>
  BY <1>5, OverlayFrame DEF Lost
<1>6. CASE StoreConsume
  <2>1. /\ read' = read + 1 /\ log' = log /\ read < write
        /\ \E i \in 1 .. Len(log) : log[i] = Whole(accepted[read + 1], accepted[read + 1])
    BY <1>0, <1>6 DEF StoreConsume, DrainInv
  <2>2. UNCHANGED <<write, accepted, Lost>>
    BY <1>5, <1>6 DEF Overlay, DrainStep
  <2>3. /\ UnreadLines # <<>> /\ Head(UnreadLines) = accepted[read + 1]
        /\ UnreadLines' = Tail(UnreadLines)
    BY <1>T, <2>1, <2>2, BetweenTail DEF UnreadLines
  <2>4. Journal' = Journal
    BY <2>1 DEF Journal
  <2>5. \E i \in 1 .. Len(Journal) :
          Journal[i] = [line |-> accepted[read + 1], cut |-> FALSE]
    <3>1. PICK i \in 1 .. Len(log) :
            log[i] = Whole(accepted[read + 1], accepted[read + 1])
      BY <2>1
    <3>2. Len(Journal) = Len(log) /\ Journal[i] = [line |-> log[i].text, cut |-> log[i].cut]
      BY <1>T, EntriesSeq DEF Journal
    <3>3. log[i].text = accepted[read + 1] /\ log[i].cut = FALSE
      BY <3>1 DEF Whole
    <3>. QED  BY <3>2, <3>3
  <2>. QED  BY <2>2, <2>3, <2>4, <2>5 DEF Queue!Next, Queue!Take
<1>7. CASE Flush
  <2>1. /\ log' = Append(log, pending) /\ read' = read /\ read < write
        /\ pending.text = accepted[read + 1]
    BY <1>0, <1>7 DEF Flush, DrainInv, Whole, blockVars
  <2>2. UNCHANGED <<write, accepted, pc, dropped>>
    BY <1>5, <1>7 DEF Overlay, DrainStep
  <2>. QED  BY <1>T, <2>1, <2>2, RecordsHead DEF Queue!Next
<1>8. CASE StopDrain
  <2>1. UNCHANGED <<read, write, accepted, pc, dropped, Lost>>
    BY <1>5, <1>8 DEF Overlay, StopDrain, blockVars
  <2>2. CASE log' = log
    BY <2>1, <2>2 DEF UnreadLines, Journal
  <2>3. ASSUME NEW e \in Entry, log' = Append(log, e), e.text = accepted[read + 1],
               read < write
        PROVE  Queue!Next
    BY <2>1, <2>3, RecordsHead DEF Queue!Next
  <2>4. CASE opc = "written"
    <3>1. read < write /\ pending.text = accepted[read + 1]
      BY <1>0, <2>4 DEF DrainInv, Whole
    <3>2. Cut(pending) \in Entry /\ Cut(pending).text = pending.text
      BY <1>T DEF Cut, Entry
    <3>3. log' = log \/ log' = Append(log, Cut(pending)) \/ log' = Append(log, pending)
      BY <1>8, <2>4 DEF StopDrain
    <3>. QED  BY <1>T, <2>2, <2>3, <3>1, <3>2, <3>3
  <2>5. CASE opc = "peeked"
    <3>. DEFINE l == accepted[read + 1]
    <3>1. read < write /\ view.length = l /\ view.sequence = read
      BY <1>0, <2>5 DEF DrainInv
    <3>2. slots[SlotIndex(read)].text = l /\ l \in Line
      BY <1>0, <1>T, <3>1, OldestIntact
    <3>3. log' = log \/ log' = Append(log, Cut(Whole(l, l)))
      BY <1>8, <2>5, <3>1, <3>2 DEF StopDrain
    <3>4. Cut(Whole(l, l)) \in Entry /\ Cut(Whole(l, l)).text = l
      <4>. HIDE DEF l
      <4>. QED  BY <3>2, MaxLinesAssumption DEF Cut, Whole, Entry, Line
    <3>. QED  BY <2>2, <2>3, <3>1, <3>3, <3>4
  <2>6. CASE opc \notin {"written", "peeked"}
    BY <1>8, <2>2, <2>6 DEF StopDrain
  <2>. QED  BY <2>4, <2>5, <2>6
<1>9. CASE OpenOverlay \/ PeekLine \/ PeekNothing \/ WriteLine \/ LoadConsume
             \/ CloseOverlay
  <2>1. UNCHANGED <<write, accepted, Lost>>
    BY <1>5, <1>9 DEF Overlay, DrainStep
  <2>2. UNCHANGED <<read, log>>
    BY <1>9 DEF OpenOverlay, PeekLine, PeekNothing, WriteLine, LoadConsume,
                CloseOverlay, blockVars
  <2>. QED  BY <2>1, <2>2 DEF UnreadLines, Journal
<1>10. CASE UNCHANGED vars
  BY <1>10 DEF vars, blockVars, threadVars, history, UnreadLines, Lost, Journal
<1>. QED
  BY <1>1, <1>2, <1>3, <1>4, <1>6, <1>7, <1>8, <1>9, <1>10
     DEF Next, Overlay, DrainStep, Producer

\* The shared-memory ring with its spinlock, its lock-free consumer and its
\* cursors implements the bounded queue, for any number of threads and slots.
THEOREM Implementation == Spec => ImplementsQueue
<1>1. Init => Queue!Init
  BY QueueInit
<1>2. IInv /\ [Next]_vars => [Queue!Next]_(Queue!queueVars)
  BY QueueStep
<1>. QED  BY <1>1, <1>2, Invariance, PTL DEF Spec, ImplementsQueue, Queue!Spec

-----------------------------------------------------------------------------
(***************************************************************************)
(* Across any number of games that may die anywhere.                       *)
(***************************************************************************)
LEMMA InitRestartInv == InitRestart => RestartInv
<1>1. Init => RingInv /\ LinesInHand
  <2>1. Init => RingInv
    BY InitIInv DEF IInv
  <2>2. Init => LinesInHand
    BY DEF Init, LinesInHand
  <2>. QED  BY <2>1, <2>2
<1>. QED  BY <1>1 DEF InitRestart, RestartInv, RingInv

-----------------------------------------------------------------------------
\* A line that is pushed is one that was printed, also by a ring that is not sound.
LEMMA LinesStep == TypeOK /\ LinesInHand /\ [Next]_vars => LinesInHand'
<1>. SUFFICES ASSUME TypeOK, LinesInHand, [Next]_vars  PROVE LinesInHand'
  OBVIOUS
<1>T. /\ pc \in [Threads -> ThreadSteps] /\ line \in [Threads -> 0 .. MaxLines]
      /\ printed \in 0 .. MaxLines
  BY DEF TypeOK
<1>1. CASE Overlay
  BY <1>1, OverlayFrame DEF LinesInHand
<1>2. ASSUME NEW t \in Threads, Producer(t)  PROVE LinesInHand'
  <2>1. CASE LoadCursors(t)
    <3>1. line'[t] \in Line
      BY <1>T, <2>1, MaxLinesAssumption DEF LoadCursors, Line
    <3>. QED  BY <1>T, <2>1, <3>1 DEF LoadCursors, LinesInHand
  <2>2. CASE SetLength(t) \/ CopyText(t)
    BY <1>T, <2>2 DEF SetLength, CopyText, LinesInHand
  <2>3. CASE BeginSession(t) \/ CountDrop(t) \/ Publish(t) \/ EndSession(t)
    BY <1>T, <2>3 DEF BeginSession, CountDrop, Publish, EndSession, LinesInHand
  <2>. QED  BY <1>2, <2>1, <2>2, <2>3 DEF Producer
<1>3. CASE UNCHANGED vars
  BY <1>3 DEF vars, threadVars, LinesInHand
<1>. QED  BY <1>1, <1>2, <1>3 DEF Next

\* The next game finds its own block empty, and types that are types.
LEMMA RestartTypes == TypeOK /\ Restart => TypeOK' /\ LinesInHand'
<1>. SUFFICES ASSUME TypeOK, Restart  PROVE TypeOK' /\ LinesInHand'
  OBVIOUS
<1>1. /\ write' = 0 /\ read' = 0 /\ dropped' = 0 /\ lock' = NoThread
      /\ slots' = [i \in 0 .. Slots - 1 |-> [length |-> 0, text |-> 0]]
      /\ pc' = [t \in Threads |-> "idle"]
      /\ next' = [t \in Threads |-> 0]
      /\ line' = [t \in Threads |-> 0]
      /\ accepted' = <<>>
      /\ UNCHANGED <<overlayVars, log, printed, stops>>
  BY DEF Restart
<1>2. /\ slots' \in [0 .. Slots - 1 -> [length : 0 .. MaxLines, text : 0 .. MaxLines]]
      /\ pc' \in [Threads -> ThreadSteps] /\ next' \in [Threads -> Nat]
      /\ line' \in [Threads -> 0 .. MaxLines] /\ accepted' \in Seq(Line)
  BY <1>1, MaxLinesAssumption DEF ThreadSteps
<1>3. TypeOK'
  BY <1>1, <1>2 DEF TypeOK, overlayVars
<1>4. LinesInHand'
  BY <1>1 DEF LinesInHand
<1>. QED  BY <1>3, <1>4

\* A drain that begins later finds the ring as one that was never used.
LEMMA RestartSound ==
  ASSUME TypeOK, Restart, ~ Draining
  PROVE  RingInv'
<1>1. /\ write' = 0 /\ read' = 0 /\ lock' = NoThread /\ accepted' = <<>>
      /\ pc' = [t \in Threads |-> "idle"] /\ opc' \in {"closed", "shown"}
  BY DEF Restart, Draining, overlayVars
<1>2. LockInv' /\ ProducerInv' /\ DrainInv'
  BY <1>1, NoThreadAssumption DEF LockInv, ProducerInv, SlotOwned, DrainInv
<1>3. WindowInv' /\ UnreadIntact'
  BY <1>1, SlotsAssumption DEF WindowInv, UnreadIntact
<1>. QED  BY <1>2, <1>3, RestartTypes DEF RingInv

LEMMA RestartInvStep == RestartInv /\ [NextRestart]_allVars => RestartInv'
<1>. SUFFICES ASSUME RestartInv, [NextRestart]_allVars  PROVE RestartInv'
  OBVIOUS
<1>1. CASE [Next]_vars /\ UNCHANGED restartVars
  <2>1. TypeOK' /\ LinesInHand'
    BY <1>1, TypeStep, LinesStep DEF RestartInv
  <2>2. ASSUME ~ overlap'  PROVE RingInv'
    <3>1. ~ overlap
      BY <1>1, <2>2 DEF restartVars
    <3>. QED  BY <1>1, <3>1, RingStep DEF RestartInv
  <2>. QED  BY <2>1, <2>2 DEF RestartInv
<1>2. CASE Restart
  <2>1. TypeOK' /\ LinesInHand'
    BY <1>2, RestartTypes DEF RestartInv
  <2>2. ASSUME ~ overlap'  PROVE RingInv'
    <3>1. ~ Draining
      BY <1>2, <2>2 DEF Restart
    <3>. QED  BY <1>2, <3>1, RestartSound DEF RestartInv
  <2>. QED  BY <2>1, <2>2 DEF RestartInv
<1>. QED  BY <1>1, <1>2 DEF NextRestart, allVars

-----------------------------------------------------------------------------
(***************************************************************************)
(* The theorems.                                                           *)
(***************************************************************************)
\* The invariant holds across any number of games.
THEOREM RestartInvariance == SpecRestart => []RestartInv
BY InitRestartInv, RestartInvStep, PTL DEF SpecRestart

\* A game that starts while no drain is open has a sound ring, wherever the game
\* before it died in print and whatever it left in the block.
THEOREM StartsClean == SpecRestart => []CleanAfterRestart
<1>1. RestartInv => CleanAfterRestart
  BY DEF RestartInv, RingInv, CleanAfterRestart
<1>. QED  BY <1>1, RestartInvariance, PTL

\* In such a game no line is refused while the ring has room.
THEOREM RefusesOnlyWhenFull == SpecRestart => RefusedOnlyWhenFull
<1>1. ASSUME RestartInv, [NextRestart]_allVars, NEW t \in Threads,
             pc'[t] = "full", pc[t] # "full", ~ overlap
      PROVE  write - read = Slots
  <2>1. RingInv
    BY <1>1 DEF RestartInv
  <2>T. /\ pc \in [Threads -> ThreadSteps] /\ read \in Nat /\ write \in Nat
        /\ read <= write /\ write - read <= Slots
    BY <2>1 DEF RingInv, TypeOK, WindowInv
  <2>2. ~ Restart
    BY <1>1 DEF Restart
  <2>3. Next
    BY <1>1, <2>2 DEF NextRestart, allVars, vars, threadVars
  <2>4. ~ Overlay
    BY <1>1, OverlayFrame
  <2>5. PICK u \in Threads : Producer(u)
    BY <2>3, <2>4 DEF Next
  <2>6. LoadCursors(u) /\ Full
    BY <1>1, <2>5, <2>T DEF Producer, BeginSession, LoadCursors, CountDrop, SetLength, CopyText,
       Publish, EndSession
  <2>. QED  BY <2>T, <2>6, DistanceInOrder, SlotsAssumption DEF Full
<1>2. RestartInv /\ [NextRestart]_allVars =>
        [\A t \in Threads :
           (pc'[t] = "full" /\ pc[t] # "full" /\ ~overlap) => write - read = Slots]_allVars
  BY <1>1
<1>. QED  BY <1>2, RestartInvariance, PTL DEF SpecRestart, RefusedOnlyWhenFull

\* In such a game no entry of the log is torn.
THEOREM LogsWhole == SpecRestart => LoggedWhole
<1>1. ASSUME RestartInv, [NextRestart]_allVars, log' # log, ~ overlap
      PROVE  log'[Len(log')].length = log'[Len(log')].text
  <2>1. RingInv
    BY <1>1 DEF RestartInv
  <2>2. ~ Restart
    BY <1>1 DEF Restart
  <2>3. [Next]_vars
    BY <1>1, <2>2 DEF NextRestart, allVars
  <2>4. PICK e \in Entry : log' = Append(log, e) /\ e.length = e.text
    BY <1>1, <2>1, <2>3, LogGrows
  <2>5. log \in Seq(Entry)
    BY <2>1 DEF RingInv, TypeOK
  <2>6. Len(log') = Len(log) + 1 /\ log'[Len(log) + 1] = e
    BY <2>4, <2>5
  <2>. QED  BY <2>4, <2>6
<1>2. RestartInv /\ [NextRestart]_allVars =>
        [(log' # log /\ ~overlap) => log'[Len(log')].length = log'[Len(log')].text]_allVars
  BY <1>1
<1>. QED  BY <1>2, RestartInvariance, PTL DEF SpecRestart, LoggedWhole

=============================================================================
