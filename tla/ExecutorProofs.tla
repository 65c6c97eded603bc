--------------------------- MODULE ExecutorProofs ---------------------------
(***************************************************************************)
(* No race, for any number of images, any dispatches and any caller; and   *)
(* for the test-pattern app, in every configuration of its chain, also no  *)
(* superfluous barrier, no stale texel and nothing in a result but what    *)
(* the last three real frames say.                                         *)
(*                                                                         *)
(* NoRace is not inductive: that the next command waits where it must      *)
(* follows from the hazards, so the invariant says what they tell (Covers).*)
(* Every action that records appends one command, and Recording is that    *)
(* one step: given what the hazards become and that the new command waits  *)
(* when they meet its accesses, Covers and NoRace go on holding.           *)
(***************************************************************************)
EXTENDS ExecutorClient, TestPattern, SequenceTheorems, TLAPS

\* What a step that appends one command must establish (record, barrier, copy).
Appends(c) ==
  /\ c \in Commands
  /\ list' = Append(list, c)
  /\ recording' = recording
  /\ hazardRead' \subseteq Image /\ Marked(c.wait, hazardRead, c.reads) \subseteq hazardRead'
  /\ hazardWritten' \subseteq Image
  /\ Marked(c.wait, hazardWritten, c.writes) \subseteq hazardWritten'
  /\ ~ c.wait =>
       /\ c.reads \cap hazardWritten = {}
       /\ c.writes \cap (hazardRead \cup hazardWritten) = {}

\* An appended command leaves the ones before it where they were.
LEMMA Appended ==
  ASSUME NEW S, NEW s \in Seq(S), NEW c \in S
  PROVE  /\ Append(s, c) \in Seq(S)
         /\ Len(s) \in Nat
         /\ Len(Append(s, c)) = Len(s) + 1
         /\ \A i \in 1 .. Len(s) : Append(s, c)[i] = s[i] /\ s[i] \in S
         /\ Append(s, c)[Len(s) + 1] = c
BY AppendProperties, LenProperties, ElementOfSeq

\* And no wait between them goes or comes.
LEMMA Growing ==
  ASSUME NEW S, list \in Seq(S), NEW c \in S, list' = Append(list, c),
         NEW n \in Nat, n = Len(list)
  PROVE  /\ Len(list') = n + 1
         /\ \A i \in 1 .. n : list'[i] = list[i] /\ list[i] \in S
         /\ list'[n + 1] = c
         /\ \A i, j \in 1 .. n : /\ WaitBetween(i, j)' <=> WaitBetween(i, j)
                                 /\ Conflict(i, j)' <=> Conflict(i, j)
         /\ \A i \in 1 .. n : WaitBetween(i, n + 1)' <=> WaitBetween(i, n) \/ c.wait
<1>2. /\ Len(list') = n + 1
      /\ \A i \in 1 .. n : list'[i] = list[i] /\ list[i] \in S
      /\ list'[n + 1] = c
  BY Appended
<1>3. ASSUME NEW i \in 1 .. n, NEW j \in 1 .. n
      PROVE  /\ WaitBetween(i, j)' <=> WaitBetween(i, j)
             /\ Conflict(i, j)' <=> Conflict(i, j)
  BY <1>2 DEF WaitBetween, Conflict
<1>4. ASSUME NEW i \in 1 .. n
      PROVE  WaitBetween(i, n + 1)' <=> WaitBetween(i, n) \/ c.wait
  <2>1. \A k \in i + 1 .. n : k \in 1 .. n
    OBVIOUS
  <2>2. i + 1 .. n + 1 = (i + 1 .. n) \cup {n + 1}
    OBVIOUS
  <2> QED
    BY <1>2, <2>1, <2>2 DEF WaitBetween
<1>5. QED
  BY <1>2, <1>3, <1>4

\* A list to which one command is appended, with its marks, stays free of races,
\* and the hazards tell of it (record, barrier and copy have this in common).
LEMMA Recording ==
  ASSUME IInv, recording, NEW c, Appends(c)
  PROVE  Covers' /\ NoRace'
<1>1. /\ list \in Seq(Commands)
      /\ c \in Commands
      /\ list' = Append(list, c)
  BY DEF IInv, TypeOK, Appends
<1>0. PICK n \in Nat : n = Len(list)
  BY <1>1, Appended
<1>2. /\ Len(list') = n + 1
      /\ \A i \in 1 .. n : list'[i] = list[i] /\ list[i] \in Commands
      /\ list'[n + 1] = c
  BY <1>0, <1>1, Growing
<1>3. \A i, j \in 1 .. n : /\ WaitBetween(i, j)' <=> WaitBetween(i, j)
                           /\ Conflict(i, j)' <=> Conflict(i, j)
  BY <1>0, <1>1, Growing
<1>4. \A i \in 1 .. n : WaitBetween(i, n + 1)' <=> WaitBetween(i, n) \/ c.wait
  BY <1>0, <1>1, Growing
<1>5. ASSUME NEW i \in 1 .. n, ~ WaitBetween(i, n)
      PROVE  list[i].reads \subseteq hazardRead /\ list[i].writes \subseteq hazardWritten
  BY <1>0, <1>5 DEF IInv, Covers
<1>6. Covers'
  <2> SUFFICES ASSUME NEW i \in 1 .. n + 1, ~ WaitBetween(i, n + 1)'
               PROVE  /\ list'[i].reads \subseteq hazardRead'
                      /\ list'[i].writes \subseteq hazardWritten'
    BY <1>2 DEF Covers, WaitBetween
  <2>1. CASE i = n + 1
    BY <1>2, <2>1 DEF Appends, Marked
  <2>2. CASE i # n + 1
    <3>1. i \in 1 .. n
      BY <1>2, <2>2
    <3>2. ~ WaitBetween(i, n) /\ ~ c.wait
      BY <1>4, <3>1
    <3>3. list'[i] = list[i]
      BY <1>2, <3>1
    <3>4. hazardRead \subseteq hazardRead' /\ hazardWritten \subseteq hazardWritten'
      BY <3>2 DEF Appends, Marked
    <3> QED
      BY <1>5, <3>1, <3>2, <3>3, <3>4
  <2> QED
    BY <2>1, <2>2
<1>7. NoRace'
  <2> SUFFICES ASSUME NEW j \in 1 .. n + 1, NEW i \in 1 .. j - 1, Conflict(i, j)'
               PROVE  WaitBetween(i, j)'
    BY <1>2 DEF NoRace
  <2>1. CASE j = n + 1
    <3>1. i \in 1 .. n
      BY <1>2, <2>1
    <3>2. /\ list'[i] = list[i]
          /\ list'[j] = c
      BY <1>2, <2>1, <3>1
    <3>3. \/ list[i].writes \cap (c.reads \cup c.writes) # {}
          \/ list[i].reads \cap c.writes # {}
      BY <3>2 DEF Conflict
    <3>4. WaitBetween(i, n) \/ c.wait
      BY <1>5, <3>1, <3>3 DEF Appends
    <3> QED
      BY <1>4, <2>1, <3>1, <3>4
  <2>2. CASE j # n + 1
    <3>1. j \in 1 .. n /\ i \in 1 .. n
      BY <1>2, <2>2
    <3>2. Conflict(i, j)
      BY <1>3, <3>1
    <3>3. WaitBetween(i, j)
      BY <1>0, <3>1, <3>2 DEF IInv, NoRace
    <3> QED
      BY <1>3, <3>1, <3>3
  <2> QED
    BY <2>1, <2>2
<1> QED
  BY <1>6, <1>7

-----------------------------------------------------------------------------
\* create and destroy leave an empty list that nobody records.
LEMMA ResetStep ==
  ASSUME NEW buffer \in BOOLEAN, Reset(buffer)
  PROVE  IInv'
<1>1. <<>> \in Seq(Commands) /\ Len(<<>>) = 0
  BY EmptySeq
<1>2. TypeOK'
  BY <1>1 DEF Reset, TypeOK
<1>3. Covers' /\ NoRace'
  BY <1>1 DEF Reset, Covers, NoRace
<1> QED
  BY <1>2, <1>3 DEF IInv

\* begin leaves a list of one command that touches nothing.
LEMMA BeginStep ==
  ASSUME IInv, Begin
  PROVE  IInv'
<1> DEFINE c == Command("begin", FALSE, TRUE, {}, {})
<1>1. c \in Commands /\ c.reads = {} /\ c.writes = {}
  BY DEF Command, Commands, Work
<1>2. list' = <<c>>
  BY DEF Begin
<1> HIDE DEF c
<1>3. list' \in Seq(Commands) /\ Len(list') = 1 /\ list'[1] = c
  BY <1>1, <1>2
<1>4. TypeOK'
  BY <1>3 DEF Begin, IInv, TypeOK
<1>5. Covers'
  <2> SUFFICES ASSUME NEW i \in 1 .. Len(list')
               PROVE  list'[i].reads = {} /\ list'[i].writes = {}
    BY DEF Covers
  <2>1. i = 1
    BY <1>3
  <2> QED
    BY <1>1, <1>3, <2>1
<1>6. NoRace'
  BY <1>3 DEF NoRace
<1> QED
  BY <1>4, <1>5, <1>6 DEF IInv

\* A command of the client's images keeps the types.
LEMMA AppendedTypes ==
  ASSUME TypeOK, NEW c, Appends(c), commands' = commands, MayExhaust
  PROVE  TypeOK'
<1>1. list' \in Seq(Commands)
  BY Appended DEF TypeOK, Appends
<1> QED
  BY <1>1 DEF TypeOK, Appends, MayExhaust

\* A step that appends no command may only add hazards (record refused without
\* a barrier) or stop the recording (run).
LEMMA SameList ==
  ASSUME IInv, list' = list, recording' => recording,
         hazardRead \subseteq hazardRead', hazardWritten \subseteq hazardWritten'
  PROVE  Covers' /\ NoRace'
BY DEF IInv, Covers, NoRace, Conflict, WaitBetween

\* Every step of every caller keeps the invariant.
LEMMA Step ==
  ASSUME IInv, [ClientNext]_executorVars
  PROVE  IInv'
<1>1. ASSUME recording, NEW c, Appends(c), commands' = commands, MayExhaust
      PROVE  IInv'
  BY <1>1, Recording, AppendedTypes DEF IInv
<1>2. CASE Create \/ Destroy
  BY <1>2, ResetStep DEF Create, Destroy
<1>3. CASE Begin
  BY <1>3, BeginStep
<1>4. ASSUME NEW textures \in SUBSET Image, NEW storages \in SUBSET Image,
             Record("dispatch", textures, storages)
      PROVE  IInv'
  <2> DEFINE wait == Waits(textures, storages)
             c == Command("dispatch", wait, Invalidates(textures), textures, storages)
  <2>1. c \in Commands
    BY DEF Command, Commands, Work, Waits, Invalidates, FetchHazard, StoreHazard
  <2>2. c.wait = wait /\ c.reads = textures /\ c.writes = storages
    BY DEF Command
  <2>3. /\ list' = Append(list, c)
        /\ recording' = recording
        /\ hazardRead' = Marked(wait, hazardRead, textures)
        /\ hazardWritten' = Marked(wait, hazardWritten, storages)
    BY <1>4 DEF Record, Mark
  <2>4. ~ wait => /\ textures \cap hazardWritten = {}
                  /\ storages \cap (hazardRead \cup hazardWritten) = {}
    BY DEF Waits, FetchHazard, StoreHazard
  <2> HIDE DEF c, wait
  <2>5. hazardRead' \subseteq Image /\ hazardWritten' \subseteq Image
    BY <2>3 DEF IInv, TypeOK, Marked
  <2>6. Appends(c)
    BY <2>1, <2>2, <2>3, <2>4, <2>5 DEF Appends
  <2> QED
    BY <1>1, <1>4, <2>6 DEF Record
<1>5. ASSUME NEW textures \in SUBSET Image, NEW storages \in SUBSET Image,
             RecordRefused("dispatch", textures, storages)
      PROVE  IInv'
  <2> DEFINE wait == Waits(textures, storages)
  <2>1. CASE wait
    <3> DEFINE c == Command("barrier", TRUE, Invalidates(textures), {}, {})
    <3>1. c \in Commands /\ c.wait /\ c.reads = {} /\ c.writes = {}
      BY DEF Command, Commands, Work, Invalidates, FetchHazard
    <3>2. list' = Append(list, c) /\ recording' = recording
      BY <1>5, <2>1 DEF RecordRefused
    <3>3. hazardRead' = textures /\ hazardWritten' = storages
      BY <1>5, <2>1 DEF RecordRefused, Mark, Marked
    <3> HIDE DEF c
    <3>4. Appends(c)
      BY <3>1, <3>2, <3>3 DEF Appends, Marked
    <3> QED
      BY <1>1, <1>5, <3>4 DEF RecordRefused
  <2>2. CASE ~ wait
    <3>1. list' = list /\ commands' = commands /\ recording' = recording /\ MayExhaust
      BY <1>5, <2>2 DEF RecordRefused
    <3>2. hazardRead' = hazardRead \cup textures /\ hazardWritten' = hazardWritten \cup storages
      BY <1>5, <2>2 DEF RecordRefused, Mark, Marked
    <3>3. TypeOK'
      BY <3>1, <3>2 DEF IInv, TypeOK, MayExhaust
    <3> QED
      BY <3>1, <3>2, <3>3, SameList DEF IInv
  <2> QED
    BY <2>1, <2>2
<1>6. ASSUME NEW invalidate \in BOOLEAN, Barrier(invalidate)
      PROVE  IInv'
  <2> DEFINE c == Command("barrier", TRUE, invalidate, {}, {})
  <2>1. c \in Commands /\ c.wait /\ c.reads = {} /\ c.writes = {}
    BY DEF Command, Commands, Work
  <2>2. list' = Append(list, c)
    BY <1>6 DEF Barrier
  <2> HIDE DEF c
  <2>3. Appends(c)
    BY <1>6, <2>1, <2>2 DEF Barrier, Appends, Marked
  <2> QED
    BY <1>1, <1>6, <2>3 DEF Barrier
<1>7. ASSUME NEW reads \in SUBSET Image, NEW writes \in SUBSET Image, Copy(reads, writes),
             reads \cap hazardWritten = {}, writes \cap (hazardRead \cup hazardWritten) = {}
      PROVE  IInv'
  <2> DEFINE c == Command("copy", FALSE, FALSE, reads, writes)
  <2>1. c \in Commands /\ ~ c.wait /\ c.reads = reads /\ c.writes = writes
    BY DEF Command, Commands, Work
  <2>2. list' = Append(list, c)
    BY <1>7 DEF Copy
  <2>3. hazardRead' = hazardRead \cup reads /\ hazardWritten' = hazardWritten \cup writes
    BY <1>7 DEF Copy, Mark, Marked
  <2>4. hazardRead' \subseteq Image /\ hazardWritten' \subseteq Image
    BY <2>3 DEF IInv, TypeOK
  <2> HIDE DEF c
  <2>5. Appends(c)
    BY <1>7, <2>1, <2>2, <2>3, <2>4 DEF Copy, Appends, Marked
  <2> QED
    BY <1>1, <1>7, <2>5 DEF Copy
<1>8. CASE CallUpload
  BY <1>7, <1>8 DEF CallUpload, Upload
<1>9. CASE CallDownload
  BY <1>7, <1>9 DEF CallDownload, Download
<1>10. CASE FinishList
  <2>1. TypeOK'
    BY <1>10 DEF FinishList, IInv, TypeOK
  <2> QED
    BY <1>10, <2>1, SameList DEF FinishList, IInv
<1>11. CASE UNCHANGED executorVars
  <2>1. TypeOK'
    BY <1>11 DEF executorVars, IInv, TypeOK
  <2> QED
    BY <1>11, <2>1, SameList DEF executorVars, IInv
<1> QED
  BY <1>2, <1>3, <1>4, <1>5, <1>6, <1>8, <1>9, <1>10, <1>11
  DEF ClientNext, CallRecord, CallRecordRefused, CallBarrier

\* The invariant holds whatever the caller does.
THEOREM Invariance == ClientSpec => []IInv
<1>1. ExecutorInit => IInv
  <2>1. <<>> \in Seq(Commands) /\ Len(<<>>) = 0
    BY EmptySeq
  <2>2. ExecutorInit => TypeOK
    BY <2>1 DEF ExecutorInit, TypeOK
  <2>3. ExecutorInit => Covers /\ NoRace
    BY <2>1 DEF ExecutorInit, Covers, NoRace
  <2> QED
    BY <2>2, <2>3 DEF IInv
<1> QED
  BY <1>1, Step, PTL DEF ClientSpec

\* No two conflicting commands of a list run at once, for every caller, every
\* chain and every list (Executor::record and barrier).
THEOREM RaceFree == ClientSpec => []NoRace
<1>1. IInv => NoRace
  BY DEF IInv
<1> QED
  BY <1>1, Invariance, PTL

-----------------------------------------------------------------------------
(***************************************************************************)
(* The test-pattern app, whatever the chain.  What it takes from the chain *)
(* is only that the two real frames are different images.  While it        *)
(* records, the hazards are exactly the accesses since the last wait, so   *)
(* that a barrier is where a race would be and nowhere else.               *)
(***************************************************************************)
Pending(i) == ~ WaitBetween(i, Len(list))
Exact ==
  /\ hazardRead = UNION {list[i].reads : i \in {i \in 1 .. Len(list) : Pending(i)}}
  /\ hazardWritten = UNION {list[i].writes : i \in {i \in 1 .. Len(list) : Pending(i)}}

AppInv ==
  /\ list \in Seq({list[i] : i \in DOMAIN list})
  /\ NoRace /\ BarriersNeeded
  /\ job \in {"upload", "frame", "readback", "stage"}
  /\ recorded \in Nat
  /\ app = "record" =>
       /\ Exact
       /\ recorded = 0 => hazardRead = {} /\ hazardWritten = {}
       /\ job = "upload" =>
            /\ hazardRead = {}
            /\ \A image \in hazardWritten : \E k \in 0 .. recorded - 1 : image \in History(k)

\* A command that waits exactly when it meets a hazard, with its marks (record), leaves the
\* list free of races and of waits for nothing, and the hazards exact.
LEMMA RecordingExactly ==
  ASSUME NEW S, list \in Seq(S), NEW c \in S, list' = Append(list, c),
         NoRace, Exact, BarriersNeeded,
         c.wait <=> \/ c.reads \cap hazardWritten # {}
                    \/ c.writes \cap (hazardRead \cup hazardWritten) # {},
         hazardRead' = Marked(c.wait, hazardRead, c.reads),
         hazardWritten' = Marked(c.wait, hazardWritten, c.writes)
  PROVE  NoRace' /\ Exact' /\ BarriersNeeded'
<1>0. PICK n \in Nat : n = Len(list)
  BY Appended
<1>1. /\ Len(list') = n + 1
      /\ \A i \in 1 .. n : list'[i] = list[i]
      /\ list'[n + 1] = c
  BY <1>0, Growing
<1>2. \A i, j \in 1 .. n : /\ WaitBetween(i, j)' <=> WaitBetween(i, j)
                           /\ Conflict(i, j)' <=> Conflict(i, j)
  BY <1>0, Growing
<1>3. \A i \in 1 .. n : WaitBetween(i, n + 1)' <=> WaitBetween(i, n) \/ c.wait
  BY <1>0, Growing
<1>4. ~ WaitBetween(n + 1, n + 1)'
  BY DEF WaitBetween
<1>5. \A i \in 1 .. n :
        Conflict(i, n + 1)' <=> \/ list[i].writes \cap (c.reads \cup c.writes) # {}
                                \/ list[i].reads \cap c.writes # {}
  BY <1>1 DEF Conflict
<1>6. /\ \A x : x \in hazardRead <=> \E i \in 1 .. n : ~ WaitBetween(i, n) /\ x \in list[i].reads
      /\ \A x : x \in hazardWritten <=> \E i \in 1 .. n : ~ WaitBetween(i, n) /\ x \in list[i].writes
  BY <1>0 DEF Exact, Pending
<1>7. \A i \in 1 .. n : ~ WaitBetween(i, n) /\ Conflict(i, n + 1)' => c.wait
  BY <1>5, <1>6
<1>8. c.wait => \E i \in 1 .. n : ~ WaitBetween(i, n) /\ Conflict(i, n + 1)'
  BY <1>5, <1>6
<1>9. NoRace'
  <2> SUFFICES ASSUME NEW j \in 1 .. n + 1, NEW i \in 1 .. j - 1, Conflict(i, j)'
               PROVE  WaitBetween(i, j)'
    BY <1>1 DEF NoRace
  <2>1. CASE j = n + 1
    BY <1>3, <1>7, <2>1
  <2>2. CASE j # n + 1
    BY <1>0, <1>2, <2>2 DEF NoRace
  <2> QED
    BY <2>1, <2>2
<1>10. BarriersNeeded'
  <2> SUFFICES ASSUME NEW k \in 1 .. n + 1, list'[k].wait, list'[k].work # "barrier"
               PROVE  \E i \in 1 .. k - 1 : ~ WaitBetween(i, k - 1)' /\ Conflict(i, k)'
    BY <1>1 DEF BarriersNeeded
  <2>1. CASE k = n + 1
    <3>1. PICK i \in 1 .. n : ~ WaitBetween(i, n) /\ Conflict(i, n + 1)'
      BY <1>1, <1>8, <2>1
    <3>2. ~ WaitBetween(i, n)'
      BY <1>2, <3>1
    <3>3. QED
      BY <2>1, <3>1, <3>2
  <2>2. CASE k # n + 1
    <3>1. k \in 1 .. n /\ list'[k] = list[k]
      BY <1>1, <2>2
    <3>2. PICK i \in 1 .. k - 1 : ~ WaitBetween(i, k - 1) /\ Conflict(i, k)
      BY <1>0, <3>1 DEF BarriersNeeded
    <3>3. i \in 1 .. n /\ k - 1 \in 1 .. n
      BY <3>1
    <3>4. QED
      BY <1>2, <3>1, <3>2, <3>3
  <2> QED
    BY <2>1, <2>2
<1>11. Exact'
  <2>1. \A x : x \in hazardRead' <=>
                \E i \in 1 .. n + 1 : ~ WaitBetween(i, n + 1)' /\ x \in list'[i].reads
    BY <1>1, <1>3, <1>4, <1>6 DEF Marked
  <2>2. \A x : x \in hazardWritten' <=>
                \E i \in 1 .. n + 1 : ~ WaitBetween(i, n + 1)' /\ x \in list'[i].writes
    BY <1>1, <1>3, <1>4, <1>6 DEF Marked
  <2>3. QED
    BY <1>1, <2>1, <2>2 DEF Exact, Pending
<1> QED
  BY <1>9, <1>10, <1>11

LEMMA Ranged ==
  ASSUME NEW S, NEW s \in Seq(S)
  PROVE  s \in Seq({s[i] : i \in DOMAIN s})
<1>1. Len(s) \in Nat /\ DOMAIN s = 1 .. Len(s) /\ s = [i \in 1 .. Len(s) |-> s[i]]
  BY LenProperties
<1>2. s \in [1 .. Len(s) -> {s[i] : i \in DOMAIN s}]
  BY <1>1
<1>3. QED
  BY <1>1, <1>2, SeqDef

\* A list of which nothing is recorded any more.
LEMMA Left ==
  ASSUME AppInv, UNCHANGED list, app' # "record",
         job' \in {"upload", "frame", "readback", "stage"}, recorded' \in Nat
  PROVE  AppInv'
BY DEF AppInv, NoRace, BarriersNeeded, Conflict, WaitBetween

\* The app's next dispatch, or a copy of an image nothing else of the list touches.
LEMMA AppRecords ==
  ASSUME AppInv, RecordNext
  PROVE  AppInv'
<1>1. /\ app = "record" /\ UNCHANGED <<app, job>>
      /\ recorded < Len(Todo) /\ recorded' = recorded + 1
      /\ recorded \in Nat
  BY DEF RecordNext, AppInv
<1>2. ASSUME NEW c, list' = Append(list, c),
             c.wait <=> \/ c.reads \cap hazardWritten # {}
                        \/ c.writes \cap (hazardRead \cup hazardWritten) # {},
             hazardRead' = Marked(c.wait, hazardRead, c.reads),
             hazardWritten' = Marked(c.wait, hazardWritten, c.writes),
             job = "upload" => /\ ~ c.wait /\ c.reads = {}
                               /\ c.writes \subseteq History(recorded)
      PROVE  AppInv'
  <2> DEFINE S == {list[i] : i \in DOMAIN list} \cup {c}
  <2>1. list \in Seq(S)
    BY DEF AppInv
  <2>2. c \in S
    OBVIOUS
  <2> HIDE DEF S
  <2>3. NoRace' /\ Exact' /\ BarriersNeeded'
    BY <1>1, <1>2, <2>1, <2>2, RecordingExactly DEF AppInv
  <2>4. (list \in Seq({list[i] : i \in DOMAIN list}))'
    BY <1>2, <2>1, <2>2, Appended, Ranged
  <2>5. job = "upload" =>
          /\ hazardRead' = {}
          /\ \A image \in hazardWritten' : \E k \in 0 .. recorded : image \in History(k)
    <3> SUFFICES ASSUME job = "upload"
                 PROVE  /\ hazardRead' = {}
                        /\ \A image \in hazardWritten' : \E k \in 0 .. recorded : image \in History(k)
      OBVIOUS
    <3>1. hazardRead = {} /\ hazardRead' = {} /\ hazardWritten' = hazardWritten \cup c.writes
      BY <1>1, <1>2 DEF AppInv, Marked
    <3>2. \A image \in hazardWritten : \E k \in 0 .. recorded - 1 : image \in History(k)
      BY <1>1 DEF AppInv
    <3>3. \A image \in c.writes : image \in History(recorded)
      BY <1>2
    <3>4. recorded \in 0 .. recorded /\ \A k \in 0 .. recorded - 1 : k \in 0 .. recorded
      BY <1>1
    <3>5. QED
      BY <3>1, <3>2, <3>3, <3>4
  <2>6. recorded' \in Nat /\ recorded' # 0 /\ recorded' - 1 = recorded
    BY <1>1
  <2>7. (\A image \in hazardWritten : \E k \in 0 .. recorded - 1 : image \in History(k))' <=>
        \A image \in hazardWritten' : \E k \in 0 .. recorded : image \in History(k)
    BY <2>6 DEF History, One, Group
  <2> QED
    BY <1>1, <2>3, <2>4, <2>5, <2>6, <2>7 DEF AppInv
<1>3. ASSUME NEW work, NEW textures, NEW storages, Record(work, textures, storages),
             job # "upload"
      PROVE  AppInv'
  <2> DEFINE c == Command(work, Waits(textures, storages), Invalidates(textures), textures, storages)
  <2>1. c.wait = Waits(textures, storages) /\ c.reads = textures /\ c.writes = storages
    BY DEF Command
  <2>2. /\ list' = Append(list, c)
        /\ hazardRead' = Marked(c.wait, hazardRead, textures)
        /\ hazardWritten' = Marked(c.wait, hazardWritten, storages)
    BY <1>3, <2>1 DEF Record, Mark
  <2> HIDE DEF c
  <2> QED
    BY <1>2, <1>3, <2>1, <2>2 DEF Waits, FetchHazard, StoreHazard
<1>4. ASSUME NEW reads, NEW writes, Copy(reads, writes),
             reads \cap hazardWritten = {}, writes \cap (hazardRead \cup hazardWritten) = {},
             job = "upload" => reads = {} /\ writes \subseteq History(recorded)
      PROVE  AppInv'
  <2> DEFINE c == Command("copy", FALSE, FALSE, reads, writes)
  <2>1. c.wait = FALSE /\ c.reads = reads /\ c.writes = writes
    BY DEF Command
  <2>2. /\ list' = Append(list, c)
        /\ hazardRead' = Marked(c.wait, hazardRead, reads)
        /\ hazardWritten' = Marked(c.wait, hazardWritten, writes)
    BY <1>4, <2>1 DEF Copy, Mark
  <2> HIDE DEF c
  <2> QED
    BY <1>2, <1>4, <2>1, <2>2
<1>5. CASE Dispatches
  <2>1. \E work, textures, storages : Record(work, textures, storages)
    BY <1>5 DEF RecordNext
  <2>2. job # "upload"
    BY <1>5 DEF Dispatches
  <2> QED
    BY <1>3, <2>1, <2>2
<1>6. CASE job = "upload"
  <2>1. recorded \in {0, 1} /\ Todo[recorded + 1] = History(recorded)
    BY <1>1, <1>6 DEF Todo
  <2>2. PICK image \in History(recorded) : Upload(image)
    BY <1>6, <2>1 DEF RecordNext, Dispatches
  <2>3. image \notin hazardRead \cup hazardWritten
    <3>1. \A k \in 0 .. recorded - 1 : image \notin History(k)
      BY <1>1, <2>2 DEF History, One, Group
    <3>2. QED
      BY <1>1, <1>6, <3>1 DEF AppInv
  <2> QED
    BY <1>4, <2>2, <2>3 DEF Upload
<1>7. CASE job = "readback"
  <2>1. recorded = 0
    BY <1>1, <1>7 DEF Todo
  <2>2. \E image : Download(image)
    BY <1>7 DEF RecordNext, Dispatches
  <2>3. hazardRead = {} /\ hazardWritten = {}
    BY <1>1, <2>1 DEF AppInv
  <2> QED
    BY <1>4, <1>7, <2>2, <2>3 DEF Download
<1> QED
  BY <1>5, <1>6, <1>7 DEF AppInv, Dispatches

\* create, destroy and begin.
LEMMA AppResets ==
  ASSUME AppInv, NEW buffer, Reset(buffer), app' # "record", UNCHANGED <<job, recorded>>
  PROVE  AppInv'
<1>1. list' = <<>> /\ Len(<<>>) = 0
  BY EmptySeq DEF Reset
<1>2. NoRace' /\ BarriersNeeded'
  BY <1>1 DEF NoRace, BarriersNeeded
<1>3. (list \in Seq({list[i] : i \in DOMAIN list}))'
  BY <1>1, EmptySeq
<1> QED
  BY <1>2, <1>3 DEF AppInv

LEMMA AppBegins ==
  ASSUME AppInv, Begin, recorded' = 0, UNCHANGED job
  PROVE  AppInv'
<1> DEFINE c == Command("begin", FALSE, TRUE, {}, {})
<1>1. c.reads = {} /\ c.writes = {} /\ c.wait = FALSE
  BY DEF Command
<1>2. list' = <<c>> /\ hazardRead' = {} /\ hazardWritten' = {}
  BY DEF Begin
<1> HIDE DEF c
<1>3. list' \in Seq({c}) /\ Len(list') = 1 /\ list'[1] = c
  BY <1>2
<1>4. NoRace'
  BY <1>3 DEF NoRace
<1>5. Exact' /\ BarriersNeeded'
  BY <1>1, <1>2, <1>3 DEF Exact, BarriersNeeded, Pending
<1>6. (list \in Seq({list[i] : i \in DOMAIN list}))'
  BY <1>3, Ranged
<1> QED
  BY <1>2, <1>4, <1>5, <1>6 DEF AppInv

\* record gives up behind its barrier, and the app with it.
LEMMA AppRefused ==
  ASSUME AppInv, NEW work, NEW textures, NEW storages, RecordRefused(work, textures, storages),
         app' # "record", UNCHANGED <<job, recorded>>
  PROVE  AppInv'
<1>1. CASE ~ Waits(textures, storages)
  BY <1>1, Left DEF RecordRefused, AppInv
<1>2. CASE Waits(textures, storages)
  <2> DEFINE c == Command("barrier", TRUE, Invalidates(textures), {}, {})
             S == {list[i] : i \in DOMAIN list} \cup {c}
  <2>0. c.work = "barrier"
    BY DEF Command
  <2>1. c.reads = {} /\ c.writes = {}
    BY DEF Command
  <2>2. list' = Append(list, c) /\ c \in S /\ list \in Seq(S)
    <3>1. list' = Append(list, c)
      BY <1>2 DEF RecordRefused
    <3> HIDE DEF c
    <3>2. QED
      BY <3>1 DEF AppInv
  <2> HIDE DEF c, S
  <2>3. PICK n \in Nat : n = Len(list)
    BY <2>2, Appended
  <2>4. /\ Len(list') = n + 1
        /\ \A i \in 1 .. n : list'[i] = list[i]
        /\ list'[n + 1] = c
        /\ \A i, j \in 1 .. n : /\ WaitBetween(i, j)' <=> WaitBetween(i, j)
                                /\ Conflict(i, j)' <=> Conflict(i, j)
    BY <2>2, <2>3, Growing
  <2>5. \A i \in 1 .. n : ~ Conflict(i, n + 1)'
    BY <2>1, <2>4 DEF Conflict
  <2>6. NoRace'
    BY <2>3, <2>4, <2>5 DEF AppInv, NoRace
  <2>7. BarriersNeeded'
    <3> SUFFICES ASSUME NEW k \in 1 .. n + 1, list'[k].wait, list'[k].work # "barrier"
                 PROVE  \E i \in 1 .. k - 1 : ~ WaitBetween(i, k - 1)' /\ Conflict(i, k)'
      BY <2>4 DEF BarriersNeeded
    <3>1. list'[n + 1].work = "barrier"
      BY <2>0, <2>4
    <3>2. k \in 1 .. n /\ list'[k] = list[k]
      BY <2>4, <3>1
    <3>3. PICK i \in 1 .. k - 1 : ~ WaitBetween(i, k - 1) /\ Conflict(i, k)
      BY <2>3, <3>2 DEF AppInv, BarriersNeeded
    <3>4. i \in 1 .. n /\ k - 1 \in 1 .. n
      BY <3>2
    <3> QED
      BY <2>4, <3>2, <3>3, <3>4
  <2>8. (list \in Seq({list[i] : i \in DOMAIN list}))'
    BY <2>2, Appended, Ranged
  <2> QED
    BY <2>6, <2>7, <2>8 DEF AppInv
<1> QED
  BY <1>1, <1>2

LEMMA AppStep == AppInv /\ [Next]_vars => AppInv'
<1> SUFFICES ASSUME AppInv, [Next]_vars PROVE AppInv'
  OBVIOUS
<1>0. job \in {"upload", "frame", "readback", "stage"} /\ recorded \in Nat
  BY DEF AppInv
<1>1. CASE CreateExecutor
  <2>1. app' \in {"begin", "failed"} /\ UNCHANGED <<job, recorded>>
    BY <1>1 DEF CreateExecutor, Goto
  <2> QED
    BY <1>1, <2>1, AppResets DEF CreateExecutor, Create
<1>2. CASE BeginList
  BY <1>2, AppBegins DEF BeginList
<1>3. CASE RecordNext
  BY <1>3, AppRecords
<1>4. CASE RecordFails
  <2>1. app' = "failed" /\ UNCHANGED <<job, recorded>>
    BY <1>4 DEF RecordFails, Fail, Goto
  <2>2. CASE UNCHANGED executorVars
    BY <2>1, <2>2, <1>0, Left DEF executorVars
  <2>3. CASE \E work, textures, storages : RecordRefused(work, textures, storages)
    BY <2>1, <2>3, AppRefused
  <2> QED
    BY <1>4, <2>2, <2>3 DEF RecordFails
<1>5. CASE RunExhausted \/ Submit
  BY <1>0, <1>5, Left
     DEF RunExhausted, Submit, Fail, Goto, executorVars, FinishList
<1>6. CASE Waited
  <2>1. UNCHANGED list /\ recorded' = recorded
    BY <1>6 DEF Waited, executorVars
  <2>2. app' # "record" /\ job' \in {"upload", "frame", "readback", "stage"}
    BY <1>0, <1>6 DEF Waited, NextJob
  <2> QED
    BY <1>0, <2>1, <2>2, Left
<1>7. CASE DestroyExecutor
  BY <1>7, AppResets DEF DestroyExecutor, Goto, Destroy
<1>8. CASE RunCommand
  <2>1. app = "wait" /\ UNCHANGED <<list, app, job, recorded>>
    BY <1>8 DEF RunCommand, clientVars, executorVars
  <2> QED
    BY <1>0, <2>1, Left
<1>9. CASE UNCHANGED vars
  <2>1. UNCHANGED <<list, hazardRead, hazardWritten, app, job, recorded>>
    BY <1>9 DEF vars, clientVars, executorVars
  <2>2. (NoRace' <=> NoRace) /\ (BarriersNeeded' <=> BarriersNeeded)
    BY <2>1 DEF NoRace, BarriersNeeded, Conflict, WaitBetween
  <2>3. Exact' <=> Exact
    BY <2>1 DEF Exact, Pending, WaitBetween
  <2> QED
    BY <2>1, <2>2, <2>3 DEF AppInv, History, One, Group
<1> QED
  BY <1>1, <1>2, <1>3, <1>4, <1>5, <1>6, <1>7, <1>8, <1>9 DEF Next

LEMMA AppInitially == Init => AppInv
<1>1. <<>> \in Seq({}) /\ Len(<<>>) = 0 /\ DOMAIN <<>> = {}
  BY EmptySeq
<1>2. Init => list = <<>> /\ app = "create" /\ job = "upload" /\ recorded = 0
  BY DEF Init, ExecutorInit
<1> QED
  BY <1>1, <1>2 DEF AppInv, NoRace, BarriersNeeded

LEMMA AppInvariance == Spec => []AppInv
BY AppInitially, AppStep, PTL DEF Spec

\* No two conflicting commands of a list of the test-pattern app run at once, for
\* either mode and any number of generated frames (Executor::record, upload, download).
THEOREM AppRaceFree == Spec => []NoRace
<1>1. AppInv => NoRace
  BY DEF AppInv
<1> QED
  BY <1>1, AppInvariance, PTL

\* And no list of it has a barrier that could be left out: some command since the barrier
\* before conflicts with the one behind it (Executor::record and its marks).
THEOREM AppBarriersNeeded == Spec => []BarriersNeeded
<1>1. AppInv => BarriersNeeded
  BY DEF AppInv
<1> QED
  BY <1>1, AppInvariance, PTL

-----------------------------------------------------------------------------
(***************************************************************************)
(* What the GPU fetches and what it computes.  Both follow from the list   *)
(* the app recorded, which is the begin command and then the job's         *)
(* dispatches or copies, and from facts of the chain (DataFlow), which are *)
(* hypotheses here and hold of each of its configurations.                 *)
(***************************************************************************)
Whole == WellFormed(Chain, Stages, Cycle)

\* The variant the job runs of its k-th dispatch.
Ran(k) == VariantAt(Todo[k], realFrame)
IsDispatch(k) ==
  /\ list[k + 1].work = Chain[Todo[k]].name
  /\ list[k + 1].reads = Ran(k).textures
  /\ list[k + 1].writes = Ran(k).storages
  /\ list[k].writes \cap list[k + 1].reads # {} => list[k + 1].invalidate
IsCopy(k) ==
  /\ list[k + 1].work = "copy"
  /\ list[k + 1].writes \subseteq History(0) \cup History(1)
  /\ job = "readback" => list[k + 1].writes = {}

\* The list holds what the job has to do, as far as it is recorded.
Listed ==
  /\ Len(list) = recorded + 1
  /\ list[1] = Command("begin", FALSE, TRUE, {}, {})
  /\ \A k \in 1 .. recorded : IF Dispatches THEN IsDispatch(k) ELSE IsCopy(k)

ListInv ==
  /\ Whole
  /\ AppInv
  /\ realFrame \in 0 .. LastFrame
  /\ runStage \in 0 .. GeneratedFrames
  /\ job = "upload" => realFrame = 0
  /\ app = "create" => job = "upload"
  /\ app \in {"record", "wait"} => Listed
  /\ app = "wait" => recorded = Len(Todo) /\ command \in 1 .. recorded + 2

\* What a job has to do is a sequence of dispatches, or of copies.
LEMMA TodoParts ==
  ASSUME Whole, Dispatches, runStage \in 0 .. GeneratedFrames
  PROVE  PartOf(Chain, Todo)
<1>1. CASE job = "frame"
  <2>1. Todo = [d \in 1 .. Len(Chain) |-> d]
    BY <1>1 DEF Todo
  <2>2. Len(Chain) \in Nat /\ DOMAIN Chain = 1 .. Len(Chain)
    BY DEF Whole, WellFormed, IsSequence
  <2>3. Len(Todo) = Len(Chain) /\ DOMAIN Todo = 1 .. Len(Chain)
    BY <2>1, <2>2
  <2>4. \A k \in 1 .. Len(Chain) : Todo[k] = k /\ 1 \in 1 .. Len(Chain)
    BY <2>1, <2>2
  <2> QED
    BY <2>2, <2>3, <2>4 DEF PartOf, IsSequence
<1>2. CASE job = "stage"
  BY <1>2 DEF Todo, Whole, WellFormed
<1> QED
  BY <1>1, <1>2 DEF Dispatches

\* A dispatch runs one of its variants, whatever the frame.
LEMMA VariantRuns ==
  ASSUME Whole, NEW d \in DOMAIN Chain, NEW f \in Nat
  PROVE  VariantAt(d, f) \in ToSet(Chain[d].variants)
<1>1. Count(d) \in Nat /\ Count(d) > 0 /\ DOMAIN Chain[d].variants = 1 .. Count(d)
  BY DEF Whole, WellFormed, IsSequence, Count
<1>2. (f % Count(d)) + 1 \in 1 .. Count(d)
  BY <1>1
<1> QED
  BY <1>1, <1>2 DEF VariantAt, ToSet

LEMMA RunIsVariant ==
  ASSUME NEW d, NEW f
  PROVE  Run(Chain[d], f) = VariantAt(d, f)
BY DEF Run, VariantAt, Count

LEMMA SameJob ==
  ASSUME UNCHANGED <<job, realFrame, runStage>>
  PROVE  /\ Todo' = Todo
         /\ Dispatches' <=> Dispatches
         /\ \A k : Ran(k)' = Ran(k)
<1>1. Todo' = Todo
  BY DEF Todo, History, One, Group, Generated
<1> QED
  BY <1>1 DEF Dispatches, Ran, VariantAt, Count

LEMMA SameListing ==
  ASSUME Listed, UNCHANGED <<job, realFrame, runStage, recorded, list>>
  PROVE  Listed'
<1>1. /\ Todo' = Todo /\ (Dispatches' <=> Dispatches)
      /\ \A k : Ran(k)' = Ran(k)
  BY SameJob
<1>2. \A k : IsDispatch(k)' <=> IsDispatch(k)
  BY <1>1 DEF IsDispatch
<1>3. \A k : IsCopy(k)' <=> IsCopy(k)
  BY DEF IsCopy, History, One, Group
<1>4. list'[1] = Command("begin", FALSE, TRUE, {}, {})'
  BY DEF Listed, Command
<1> QED
  BY <1>1, <1>2, <1>3, <1>4 DEF Listed

\* The next of the job's dispatches or copies.
LEMMA ListingGrows ==
  ASSUME Listed, recorded \in Nat, UNCHANGED <<job, realFrame, runStage>>,
         NEW S, list \in Seq(S), NEW c \in S, list' = Append(list, c),
         recorded' = recorded + 1,
         NEW last, last = list[recorded + 1],
         Dispatches =>
           /\ c.work = Chain[Todo[recorded + 1]].name
           /\ c.reads = Ran(recorded + 1).textures
           /\ c.writes = Ran(recorded + 1).storages
           /\ last.writes \cap c.reads # {} => c.invalidate,
         ~ Dispatches =>
           /\ c.work = "copy"
           /\ c.writes \subseteq History(0) \cup History(1)
           /\ job = "readback" => c.writes = {}
  PROVE  Listed'
<1>1. /\ Todo' = Todo /\ (Dispatches' <=> Dispatches)
      /\ \A k : Ran(k)' = Ran(k)
  BY SameJob
<1>2. /\ Len(list') = recorded + 2
      /\ \A k \in 1 .. recorded + 1 : list'[k] = list[k]
      /\ list'[recorded + 2] = c
  <2>1. PICK n \in Nat : n = Len(list)
    BY Appended
  <2>2. n = recorded + 1
    BY <2>1 DEF Listed
  <2> QED
    BY <2>1, <2>2, Growing
<1>3. ASSUME NEW k \in 1 .. recorded
      PROVE  (IsDispatch(k)' <=> IsDispatch(k)) /\ (IsCopy(k)' <=> IsCopy(k))
  <2>1. list'[k] = list[k] /\ list'[k + 1] = list[k + 1]
    BY <1>2
  <2> QED
    BY <1>1, <2>1 DEF IsDispatch, IsCopy, History, One, Group
<1>0. PICK m \in Nat : m = recorded + 1
  OBVIOUS
<1>8. list'[m] = last /\ list'[m + 1] = c
  BY <1>0, <1>2
<1>4. Dispatches => IsDispatch(m)'
  BY <1>0, <1>1, <1>8 DEF IsDispatch
<1>5. ~ Dispatches => IsCopy(m)'
  BY <1>8 DEF IsCopy, History, One, Group
<1>6. \A k \in 1 .. recorded' : k \in 1 .. recorded \/ k = m
  BY <1>0
<1>7. list'[1] = Command("begin", FALSE, TRUE, {}, {})'
  BY <1>2 DEF Listed, Command
<1> QED
  BY <1>0, <1>1, <1>2, <1>3, <1>4, <1>5, <1>6, <1>7 DEF Listed

\* The app begins, records and leaves its list.
LEMMA ListBegins ==
  ASSUME ListInv, BeginList
  PROVE  Listed'
<1> DEFINE c == Command("begin", FALSE, TRUE, {}, {})
<1>1. list' = <<c>> /\ recorded' = 0
  BY DEF BeginList, Begin
<1> HIDE DEF c
<1>2. Len(list') = 1 /\ list'[1] = c
  BY <1>1
<1>3. c = Command("begin", FALSE, TRUE, {}, {})'
  BY DEF c, Command
<1> QED
  BY <1>1, <1>2, <1>3 DEF Listed

LEMMA ListRecords ==
  ASSUME ListInv, RecordNext
  PROVE  Listed'
<1>1. /\ Listed /\ recorded \in Nat /\ recorded < Len(Todo)
      /\ UNCHANGED <<job, realFrame, runStage>>
      /\ recorded' = recorded + 1
      /\ app = "record" /\ Exact
  BY DEF ListInv, AppInv, RecordNext
<1>2. ASSUME NEW c, list' = Append(list, c),
             Dispatches =>
               /\ c.work = Chain[Todo[recorded + 1]].name
               /\ c.reads = Ran(recorded + 1).textures
               /\ c.writes = Ran(recorded + 1).storages
               /\ list[recorded + 1].writes \cap c.reads # {} => c.invalidate,
             ~ Dispatches =>
               /\ c.work = "copy"
               /\ c.writes \subseteq History(0) \cup History(1)
               /\ job = "readback" => c.writes = {}
      PROVE  Listed'
  <2> DEFINE S == {list[i] : i \in DOMAIN list} \cup {c}
  <2>1. list \in Seq(S) /\ c \in S
    BY DEF ListInv, AppInv
  <2> HIDE DEF S
  <2> QED
    BY <1>1, <1>2, <2>1, ListingGrows
<1>3. CASE Dispatches
  <2> DEFINE d == Todo[recorded + 1]
             v == VariantAt(d, realFrame)
             c == Command(Chain[d].name, Waits(v.textures, v.storages), Invalidates(v.textures),
                          v.textures, v.storages)
  <2>1. list' = Append(list, c)
    BY <1>3 DEF RecordNext, Record
  <2>2. /\ c.work = Chain[d].name
        /\ c.reads = v.textures /\ c.writes = v.storages
        /\ c.invalidate <=> v.textures \cap hazardWritten # {}
    BY DEF Command, Invalidates, FetchHazard
  <2> HIDE DEF c
  <2>3. list[recorded + 1].writes \subseteq hazardWritten
    <3>1. Pending(recorded + 1) /\ recorded + 1 \in 1 .. Len(list)
      BY <1>1 DEF Pending, WaitBetween, Listed
    <3> QED
      BY <1>1, <3>1 DEF Exact
  <2>4. Ran(recorded + 1) = v
    BY DEF Ran
  <2> QED
    BY <1>2, <1>3, <2>1, <2>2, <2>3, <2>4
<1>4. CASE ~ Dispatches
  <2>1. PICK image \in Todo[recorded + 1] : IF job = "upload" THEN Upload(image) ELSE Download(image)
    BY <1>4 DEF RecordNext
  <2>2. CASE job = "upload"
    <3> DEFINE c == Command("copy", FALSE, FALSE, {}, {image})
    <3>1. list' = Append(list, c)
      BY <2>1, <2>2 DEF Upload, Copy
    <3>2. c.work = "copy" /\ c.writes = {image}
      BY DEF Command
    <3> HIDE DEF c
    <3>3. image \in History(0) \cup History(1)
      <4>1. Todo = <<History(0), History(1)>>
        BY <2>2 DEF Todo
      <4>2. recorded \in {0, 1}
        BY <1>1, <4>1
      <4> QED
        BY <2>1, <4>1, <4>2
    <3> QED
      BY <1>2, <1>4, <2>2, <3>1, <3>2, <3>3
  <2>3. CASE job # "upload"
    <3> DEFINE c == Command("copy", FALSE, FALSE, {image}, {})
    <3>1. list' = Append(list, c)
      BY <2>1, <2>3 DEF Download, Copy
    <3>2. c.work = "copy" /\ c.writes = {}
      BY DEF Command
    <3> HIDE DEF c
    <3> QED
      BY <1>2, <1>4, <3>1, <3>2
  <2> QED
    BY <2>2, <2>3
<1> QED
  BY <1>3, <1>4

LEMMA ListInitially ==
  ASSUME Whole, Init
  PROVE  ListInv
<1>1. AppInv
  BY AppInitially
<1>2. app = "create" /\ job = "upload" /\ realFrame = 0 /\ runStage = 0
  BY DEF Init
<1>3. 0 \in 0 .. LastFrame /\ 0 \in 0 .. GeneratedFrames
  BY GeneratedFramesAssumption DEF Whole, WellFormed, LastFrame
<1> QED
  BY <1>1, <1>2, <1>3 DEF ListInv

LEMMA ListStep == ListInv /\ [Next]_vars => ListInv'
<1> SUFFICES ASSUME ListInv, [Next]_vars PROVE ListInv'
  OBVIOUS
<1>1. AppInv'
  BY AppStep DEF ListInv
<1>2. Whole'
  BY DEF ListInv, Whole
<1>3. /\ LastFrame \in Nat /\ Cycle \in Nat /\ LastFrame = 2 * Cycle
      /\ Cycle \in 0 .. LastFrame /\ 0 \in 0 .. LastFrame
      /\ GeneratedFrames \in Nat /\ LastFrame \in ReadBack
  BY GeneratedFramesAssumption DEF ListInv, Whole, WellFormed, LastFrame, ReadBack
<1>4. CASE CreateExecutor
  BY <1>1, <1>2, <1>4 DEF CreateExecutor, Goto, ListInv
<1>5. CASE BeginList
  BY <1>1, <1>2, <1>5, ListBegins DEF BeginList, ListInv
<1>6. CASE RecordNext
  BY <1>1, <1>2, <1>6, ListRecords DEF RecordNext, ListInv
<1>7. CASE RecordFails
  BY <1>1, <1>2, <1>7 DEF RecordFails, Fail, Goto, ListInv
<1>8. CASE RunExhausted
  BY <1>1, <1>2, <1>8 DEF RunExhausted, Fail, Goto, ListInv
<1>9. CASE Submit
  <2>1. UNCHANGED <<job, realFrame, runStage, recorded, list>> /\ app = "record" /\ recorded = Len(Todo)
    BY <1>9 DEF Submit, Goto, Fail, FinishList
  <2>2. Listed'
    BY <2>1, SameListing DEF ListInv
  <2>3. Todo' = Todo
    BY <2>1, SameJob
  <2>4. \/ app' = "failed"
        \/ app' = "wait" /\ command' = 1
    BY <1>9 DEF Submit, Goto, Fail
  <2>5. recorded \in Nat
    BY DEF ListInv, AppInv
  <2>6. app' = "wait" => command' \in 1 .. recorded + 2
    BY <2>4, <2>5
  <2> QED
    BY <1>1, <1>2, <2>1, <2>2, <2>3, <2>4, <2>6 DEF ListInv
<1>10. CASE Waited
  <2>1. app = "wait" /\ app' \in {"begin", "failed", "done"}
    BY <1>10 DEF Waited, NextJob
  <2>2. realFrame' \in 0 .. LastFrame
    <3>1. \/ realFrame' = realFrame
          \/ realFrame' = realFrame + 1 /\ realFrame # LastFrame
          \/ realFrame' = Cycle
      BY <1>3, <1>10 DEF Waited, NextJob
    <3> QED
      BY <1>3, <3>1 DEF ListInv
  <2>3. runStage' \in 0 .. GeneratedFrames
    <3>1. \/ runStage' = runStage
          \/ runStage' = 0
          \/ runStage' = runStage + 1 /\ runStage < GeneratedFrames
      BY <1>10 DEF Waited, NextJob
    <3> QED
      BY <1>3, <3>1 DEF ListInv
  <2>4. job' = "upload" => job = "upload" /\ realFrame' = realFrame
    BY <1>10 DEF Waited, NextJob
  <2> QED
    BY <1>1, <1>2, <2>1, <2>2, <2>3, <2>4 DEF ListInv
<1>11. CASE DestroyExecutor
  BY <1>1, <1>2, <1>11 DEF DestroyExecutor, Goto, ListInv
<1>12. CASE RunCommand
  <2>1. UNCHANGED <<app, job, realFrame, runStage, recorded, list>>
    BY <1>12 DEF RunCommand, clientVars, executorVars
  <2>2. Listed' /\ Todo' = Todo
    BY <1>12, <2>1, SameListing, SameJob DEF RunCommand, ListInv
  <2>3. /\ command \in 1 .. recorded + 2 /\ recorded \in Nat
        /\ ~ command > recorded + 1 /\ command' = command + 1
    BY <1>12 DEF RunCommand, Idle, ListInv, AppInv, Listed
  <2>4. command' \in 1 .. recorded + 2
    BY <2>3
  <2> QED
    BY <1>1, <1>2, <2>1, <2>2, <2>4 DEF ListInv
<1>13. CASE UNCHANGED vars
  <2>1. UNCHANGED <<app, job, realFrame, runStage, recorded, list, command>>
    BY <1>13 DEF vars, clientVars, executorVars, gpuVars
  <2>2. Todo' = Todo
    BY <2>1, SameJob
  <2>3. app' \in {"record", "wait"} => Listed'
    BY <2>1, SameListing DEF ListInv
  <2> QED
    BY <1>1, <1>2, <2>1, <2>2, <2>3 DEF ListInv
<1> QED
  BY <1>4, <1>5, <1>6, <1>7, <1>8, <1>9, <1>10, <1>11, <1>12, <1>13 DEF Next

-----------------------------------------------------------------------------
(***************************************************************************)
(* The texture cache.  While the GPU runs a list, what is cached was       *)
(* fetched by this list, since begin invalidates, and what is stale was    *)
(* fetched and then stored by it.                                          *)
(***************************************************************************)
CacheInv ==
  app = "wait" /\ command > 1 =>
    /\ \A i \in cached : \E a \in 1 .. command - 1 : i \in Fetched(list[a])
    /\ \A i \in stale :
         \E b \in 1 .. command - 1 :
           i \in list[b].writes /\ \E a \in 1 .. b - 1 : i \in Fetched(list[a])

LEMMA CacheRuns ==
  ASSUME ListInv, CacheInv, RunCommand
  PROVE  CacheInv'
<1>0. recorded \in Nat
  BY DEF ListInv, AppInv
<1>1. /\ app = "wait" /\ command \in Nat /\ command >= 1 /\ command' = command + 1
      /\ list' = list /\ list[1] = Command("begin", FALSE, TRUE, {}, {})
  <2>1. app = "wait" /\ command' = command + 1 /\ list' = list
    BY DEF RunCommand, executorVars
  <2>2. Listed /\ command \in 1 .. recorded + 2
    BY <2>1 DEF ListInv
  <2>3. command \in Nat /\ command >= 1
    BY <1>0, <2>2
  <2>4. list[1] = Command("begin", FALSE, TRUE, {}, {})
    BY <2>2 DEF Listed
  <2> QED
    BY <2>1, <2>3, <2>4
<1> DEFINE c == list[command]
           kept == IF c.invalidate THEN {} ELSE cached
<1>2. /\ cached' = kept \cup Fetched(c)
      /\ stale' = (IF c.invalidate THEN {} ELSE stale) \cup (kept \cap c.writes)
  BY DEF RunCommand
<1>3. \A k : Fetched(list[k])' = Fetched(list[k])
  BY <1>1 DEF Fetched
<1>4. CASE command = 1
  <2>1. c.invalidate = TRUE /\ c.reads = {} /\ c.writes = {} /\ c.work # "copy"
    BY <1>1, <1>4 DEF Command
  <2>2. cached' = {} /\ stale' = {}
    BY <1>2, <2>1 DEF Fetched
  <2> QED
    BY <2>2 DEF CacheInv
<1>5. CASE command > 1
  <2>1. /\ \A i \in cached : \E a \in 1 .. command - 1 : i \in Fetched(list[a])
        /\ \A i \in stale :
             \E b \in 1 .. command - 1 :
               i \in list[b].writes /\ \E a \in 1 .. b - 1 : i \in Fetched(list[a])
    BY <1>1, <1>5 DEF CacheInv
  <2>2. command \in 1 .. command /\ 1 .. command - 1 \subseteq 1 .. command /\ command' - 1 = command
    BY <1>1
  <2>3. \A i \in cached' : \E a \in 1 .. command : i \in Fetched(list[a])
    BY <1>2, <2>1, <2>2
  <2>4. \A i \in stale' :
          \E b \in 1 .. command :
            i \in list[b].writes /\ \E a \in 1 .. b - 1 : i \in Fetched(list[a])
    <3> SUFFICES ASSUME NEW i \in stale'
                 PROVE  \E b \in 1 .. command :
                          i \in list[b].writes /\ \E a \in 1 .. b - 1 : i \in Fetched(list[a])
      OBVIOUS
    <3>1. CASE i \in stale
      BY <2>1, <2>2, <3>1
    <3>2. CASE i \in cached /\ i \in c.writes
      BY <2>1, <2>2, <3>2
    <3> QED
      BY <1>2, <3>1, <3>2
  <2> QED
    BY <1>1, <1>3, <2>2, <2>3, <2>4 DEF CacheInv
<1> QED
  BY <1>1, <1>4, <1>5

LEMMA CacheStep == ListInv /\ CacheInv /\ [Next]_vars => CacheInv'
<1> SUFFICES ASSUME ListInv, CacheInv, [Next]_vars PROVE CacheInv'
  OBVIOUS
<1>1. CASE RunCommand
  BY <1>1, CacheRuns
<1>2. CASE Submit
  BY <1>2 DEF Submit, Fail, Goto, CacheInv
<1>3. CASE UNCHANGED vars
  <2>1. UNCHANGED <<app, list, command, cached, stale>>
    BY <1>3 DEF vars, clientVars, executorVars, gpuVars
  <2> QED
    BY <2>1 DEF CacheInv, Fetched
<1>4. CASE app' # "wait"
  BY <1>4 DEF CacheInv
<1>5. CreateExecutor \/ BeginList \/ RecordNext \/ RecordFails \/ RunExhausted \/ Waited
        \/ DestroyExecutor => app' # "wait"
  BY DEF CreateExecutor, BeginList, RecordNext, RecordFails, RunExhausted, Waited, NextJob,
         DestroyExecutor, Goto, Fail
<1> QED
  BY <1>1, <1>2, <1>3, <1>4, <1>5 DEF Next

\* A dispatch that stores and one that fetches the image, as facts of the chain.
LEMMA FetchesOf ==
  ASSUME Whole, NEW d \in DOMAIN Chain, NEW f \in Nat
  PROVE  /\ \A i \in VariantAt(d, f).textures : <<i, d>> \in Fetches(Chain)
         /\ \A i \in VariantAt(d, f).storages : <<i, d>> \in Stores(Chain)
<1>1. VariantAt(d, f) \in ToSet(Chain[d].variants)
  BY VariantRuns
<1> QED
  BY <1>1 DEF Fetches, Stores

\* The next command fetches nothing stale, unless it invalidates first: what it fetches
\* again was stored just before it, so that record saw the hazard.
LEMMA NextIsFresh ==
  ASSUME ListInv, CacheInv, RefetchesAtOnce(Chain), app = "wait", ~ Idle,
         ~ list[command].invalidate,
         NEW i \in Fetched(list[command]), i \in stale
  PROVE  FALSE
<1>0. recorded \in Nat
  BY DEF ListInv, AppInv
<1>1. /\ Listed /\ recorded \in Nat /\ recorded = Len(Todo) /\ realFrame \in Nat
      /\ command \in 1 .. recorded + 1 /\ Whole
      /\ list[1] = Command("begin", FALSE, TRUE, {}, {})
  <2>1. /\ Listed /\ recorded = Len(Todo) /\ Whole /\ command \in 1 .. recorded + 2
        /\ realFrame \in 0 .. LastFrame
    BY DEF ListInv
  <2>2. LastFrame \in Nat
    BY <2>1 DEF Whole, WellFormed, LastFrame
  <2>3. Len(list) = recorded + 1 /\ list[1] = Command("begin", FALSE, TRUE, {}, {})
    BY <2>1 DEF Listed
  <2>4. ~ command > recorded + 1
    BY <2>3 DEF Idle
  <2> QED
    BY <1>0, <2>1, <2>2, <2>3, <2>4
<1>2. list[1].invalidate = TRUE /\ list[1].reads = {} /\ list[1].writes = {}
  BY <1>1 DEF Command
<1>3. command > 1
  <2>1. command # 1
    BY <1>2
  <2> QED
    BY <1>1, <2>1
<1>4. PICK k \in 1 .. recorded : command = k + 1
  BY <1>1, <1>3
<1>5. Dispatches
  BY <1>1, <1>4 DEF Listed, IsCopy, Fetched
<1>6. PICK b \in 1 .. k : i \in list[b].writes /\ \E a \in 1 .. b - 1 : i \in Fetched(list[a])
  BY <1>3, <1>4 DEF CacheInv
<1>7. PICK a \in 1 .. b - 1 : i \in Fetched(list[a])
  BY <1>6
<1>8. i \in list[a].reads
  BY <1>7 DEF Fetched
<1>9. a > 1 /\ b > 1 /\ a - 1 \in 1 .. recorded /\ b - 1 \in 1 .. recorded
  <2>1. a # 1
    BY <1>2, <1>8
  <2> QED
    BY <1>0, <1>4, <1>6, <1>7, <2>1
<1>10. /\ i \in Ran(k).textures
       /\ i \in Ran(b - 1).storages
       /\ i \in Ran(a - 1).textures
       /\ k > 1 /\ k - 1 \in 1 .. recorded
  <2>1. IsDispatch(k) /\ IsDispatch(b - 1) /\ IsDispatch(a - 1)
    BY <1>1, <1>4, <1>5, <1>9 DEF Listed
  <2>2. list[(b - 1) + 1] = list[b] /\ list[(a - 1) + 1] = list[a]
    BY <1>9
  <2>3. i \in list[k + 1].reads
    BY <1>4 DEF Fetched
  <2>4. k > 1 /\ k - 1 \in 1 .. recorded
    BY <1>0, <1>4, <1>6, <1>7, <1>9
  <2> QED
    BY <1>6, <1>8, <2>1, <2>2, <2>3, <2>4 DEF IsDispatch
<1>11. \A m \in 1 .. recorded : Todo[m] \in DOMAIN Chain /\ Todo[m] = Todo[1] + m - 1
  <2>1. PartOf(Chain, Todo)
    BY <1>1, <1>5, TodoParts DEF ListInv
  <2> QED
    BY <1>1, <2>1 DEF PartOf, IsSequence
<1>12. DOMAIN Chain = 1 .. Len(Chain) /\ Len(Chain) \in Nat
  BY <1>1 DEF Whole, WellFormed, IsSequence
<1> DEFINE d == Todo[k]
           db == Todo[b - 1]
           da == Todo[a - 1]
           dp == Todo[k - 1]
<1>13. /\ d \in Nat /\ dp = d - 1 /\ dp \in DOMAIN Chain
       /\ db \in 1 .. d - 1 /\ da \in 1 .. db - 1
  <2>1. Todo[1] \in Nat /\ 1 \in 1 .. recorded
    <3>1. 1 \in 1 .. recorded
      BY <1>0, <1>9
    <3>2. QED
      BY <1>11, <1>12, <3>1
  <2>2. /\ d = Todo[1] + k - 1 /\ dp = Todo[1] + (k - 1) - 1
        /\ db = Todo[1] + (b - 1) - 1 /\ da = Todo[1] + (a - 1) - 1
        /\ dp \in DOMAIN Chain /\ db \in DOMAIN Chain /\ da \in DOMAIN Chain
    BY <1>9, <1>10, <1>11
  <2>3. db \in Nat /\ da \in Nat /\ db >= 1 /\ da >= 1
    BY <1>12, <2>2
  <2> HIDE DEF d, db, da, dp
  <2> QED
    BY <1>6, <1>7, <1>9, <2>1, <2>2, <2>3
<1>14. /\ <<i, d>> \in Fetches(Chain)
       /\ <<i, db>> \in Stores(Chain)
       /\ <<i, da>> \in Fetches(Chain)
  BY <1>1, <1>4, <1>9, <1>10, <1>11, FetchesOf DEF Ran
<1>15. StoredJustBefore(Chain, d, i)
  <2> HIDE DEF d, db, da, dp
  <2>1. <<i, d>>[1] = i /\ <<i, d>>[2] = d
    OBVIOUS
  <2>2. \/ StoredJustBefore(Chain, <<i, d>>[2], <<i, d>>[1])
        \/ \A b2 \in 1 .. <<i, d>>[2] - 1 :
             <<<<i, d>>[1], b2>> \in Stores(Chain) =>
               \A a2 \in 1 .. b2 - 1 : <<<<i, d>>[1], a2>> \notin Fetches(Chain)
    BY <1>14 DEF RefetchesAtOnce
  <2> QED
    BY <1>13, <1>14, <2>1, <2>2
<1>16. i \in VariantAt(dp, realFrame).storages
  <2>1. VariantAt(dp, realFrame) \in ToSet(Chain[dp].variants)
    BY <1>1, <1>13, VariantRuns
  <2> QED
    BY <1>13, <1>15, <2>1 DEF StoredJustBefore
<1>17. i \in list[k].writes
  <2>1. IsDispatch(k - 1) /\ (k - 1) + 1 = k
    BY <1>1, <1>4, <1>5, <1>10 DEF Listed
  <2> QED
    BY <1>16, <2>1 DEF IsDispatch, Ran
<1>18. i \in list[k + 1].reads /\ IsDispatch(k)
  BY <1>1, <1>4, <1>5, <1>10 DEF Listed, IsDispatch
<1>19. list[k + 1].invalidate
  BY <1>17, <1>18 DEF IsDispatch
<1> QED
  BY <1>4, <1>19

FreshInv == ListInv /\ CacheInv /\ RefetchesAtOnce(Chain)

\* In either mode, with any number of generated frames and whatever fails on the way, no
\* dispatch fetches texels that were cached before the image was stored again
\* (Executor::record and begin, over the chain of graph::build).
THEOREM AppFetchesFresh ==
  WellFormed(Chain, Stages, Cycle) /\ RefetchesAtOnce(Chain) /\ Spec => []FetchesFresh
<1>1. Whole /\ RefetchesAtOnce(Chain) /\ Init => FreshInv
  <2> SUFFICES ASSUME Whole, RefetchesAtOnce(Chain), Init PROVE FreshInv
    OBVIOUS
  <2>1. ListInv /\ app = "create"
    BY ListInitially DEF Init
  <2> QED
    BY <2>1 DEF FreshInv, CacheInv
<1>2. FreshInv /\ [Next]_vars => FreshInv'
  BY ListStep, CacheStep DEF FreshInv, RefetchesAtOnce
<1>3. FreshInv => FetchesFresh
  BY NextIsFresh DEF FreshInv, FetchesFresh
<1> QED
  BY <1>1, <1>2, <1>3, PTL DEF Spec, Whole

-----------------------------------------------------------------------------
(***************************************************************************)
(* What the images hold.  Between the bounds of the frame, for an image    *)
(* the list has stored; between those of the frame before, for the rest.   *)
(***************************************************************************)
Within(i, frame) == AtLeast(i, frame) \subseteq contents[i] /\ contents[i] \subseteq AtMost(i, frame)
SoFar(i) == \E k \in 1 .. command - 1 : i \in list[k].writes

DataInv ==
  /\ Flows(Chain, Images, Cycle)
  /\ \/ app \in {"create", "begin", "record"} /\ job \in {"upload", "frame"}
     \/ app = "wait" /\ job = "upload"
     => \A i \in Images : Within(i, realFrame - 1)
  /\ app = "wait" /\ job = "frame" =>
       \A i \in Images : IF SoFar(i) THEN Within(i, realFrame) ELSE Within(i, realFrame - 1)
  /\ app \in {"begin", "record", "wait"} /\ job = "readback" =>
       \A i \in Images : Within(i, realFrame)

\* While the GPU runs a frame, a dispatch that stored the image has its command behind it.
LEMMA CommandsOfFrame ==
  ASSUME ListInv, app = "wait", job = "frame"
  PROVE  /\ recorded \in Nat /\ Len(Chain) = recorded /\ DOMAIN Chain = 1 .. recorded
         /\ Len(list) = recorded + 1 /\ command \in 1 .. recorded + 2
         /\ Dispatches
         /\ \A d \in 1 .. recorded : /\ IsDispatch(d) /\ Todo[d] = d
                                     /\ Ran(d) = Run(Chain[d], realFrame)
<1>1. Listed /\ recorded = Len(Todo) /\ command \in 1 .. recorded + 2 /\ Whole
  BY DEF ListInv
<1>2. Todo = [d \in 1 .. Len(Chain) |-> d]
  BY DEF Todo
<1>3. Len(Chain) \in Nat /\ DOMAIN Chain = 1 .. Len(Chain)
  BY <1>1 DEF Whole, WellFormed, IsSequence
<1>4. Len(Todo) = Len(Chain)
  BY <1>2, <1>3
<1>5. Dispatches
  BY DEF Dispatches
<1>6. \A d \in 1 .. recorded : IsDispatch(d)
  BY <1>1, <1>5 DEF Listed
<1>7. \A d \in 1 .. recorded : Todo[d] = d
  BY <1>1, <1>2, <1>4
<1>8. \A d \in 1 .. recorded : Ran(d) = Run(Chain[d], realFrame)
  BY <1>7, RunIsVariant DEF Ran
<1> QED
  BY <1>1, <1>3, <1>4, <1>5, <1>6, <1>7, <1>8 DEF Listed

LEMMA StoredByCommand ==
  ASSUME ListInv, app = "wait", job = "frame", NEW d \in 1 .. recorded, d < command - 1,
         NEW i \in Run(Chain[d], realFrame).storages
  PROVE  SoFar(i)
<1>1. /\ recorded \in Nat /\ command \in 1 .. recorded + 2
      /\ i \in list[d + 1].writes
  BY CommandsOfFrame DEF IsDispatch
<1>2. d + 1 \in 1 .. command - 1
  BY <1>1
<1> QED
  BY <1>1, <1>2 DEF SoFar

\* An image within the bounds of a frame, and not stored by the next, is within those of the next.
LEMMA CarriedWithin ==
  ASSUME NEW i, NEW frame, Carried(i, frame), Within(i, frame - 1)
  PROVE  Within(i, frame)
BY DEF Carried, Within

\* The images of the chain are those its dispatches touch.
LEMMA TouchedImages ==
  ASSUME Whole, NEW d \in DOMAIN Chain, NEW f \in Nat
  PROVE  Run(Chain[d], f).textures \subseteq Images /\ Run(Chain[d], f).storages \subseteq Images
<1>1. Run(Chain[d], f) \in ToSet(Chain[d].variants)
  BY VariantRuns, RunIsVariant
<1>2. Run(Chain[d], f).textures \cup Run(Chain[d], f).storages
        \subseteq UNION {v.textures \cup v.storages : v \in ToSet(Chain[d].variants)}
  BY <1>1
<1> QED
  BY <1>2 DEF Images

\* What a dispatch fetches, it finds within the bounds of the frame that runs.
LEMMA FetchesWithin ==
  ASSUME ListInv, DataInv, app = "wait", job = "frame",
         NEW d \in 1 .. recorded, command = d + 1,
         NEW j \in Run(Chain[d], realFrame).textures
  PROVE  Within(j, realFrame)
<1>1. /\ recorded \in Nat /\ DOMAIN Chain = 1 .. recorded /\ Whole
      /\ realFrame \in 0 .. LastFrame /\ LastFrame = 2 * Cycle /\ Cycle \in Nat
  BY CommandsOfFrame DEF ListInv, LastFrame, Whole, WellFormed
<1>2. realFrame \in 0 .. 2 * Cycle /\ realFrame \in Nat /\ d \in DOMAIN Chain
  BY <1>1
<1>3. FlowsAt(Chain, d, realFrame)
  BY <1>2 DEF DataInv, Flows
<1>4. Carried(j, realFrame) \/ StoredBefore(Chain, d, realFrame, j)
  BY <1>3 DEF FlowsAt
<1>5. j \in Images
  BY <1>1, <1>2, TouchedImages
<1>6. IF SoFar(j) THEN Within(j, realFrame) ELSE Within(j, realFrame - 1)
  BY <1>5 DEF DataInv
<1>7. CASE StoredBefore(Chain, d, realFrame, j)
  <2>1. PICK k \in 1 .. d - 1 : j \in Run(Chain[d - k], realFrame).storages
    BY <1>7 DEF StoredBefore
  <2>2. d - k \in 1 .. recorded /\ d - k < command - 1
    BY <1>1, <2>1
  <2>3. SoFar(j)
    BY <2>1, <2>2, StoredByCommand
  <2> QED
    BY <1>6, <2>3
<1>8. CASE Carried(j, realFrame)
  BY <1>6, <1>8, CarriedWithin
<1> QED
  BY <1>4, <1>7, <1>8

\* And what it stores is within them again.
LEMMA StoresWithin ==
  ASSUME ListInv, DataInv, app = "wait", job = "frame",
         NEW d \in 1 .. recorded, command = d + 1,
         NEW i \in Run(Chain[d], realFrame).storages
  PROVE  AtLeast(i, realFrame) \subseteq Derived(list[command])
         /\ Derived(list[command]) \subseteq AtMost(i, realFrame)
<1> DEFINE v == Run(Chain[d], realFrame)
           own == IF Chain[d].name = "mipmaps" THEN {realFrame} ELSE {}
<1>1. /\ recorded \in Nat /\ DOMAIN Chain = 1 .. recorded /\ Whole
      /\ realFrame \in 0 .. LastFrame /\ LastFrame = 2 * Cycle /\ Cycle \in Nat
  BY CommandsOfFrame DEF ListInv, LastFrame, Whole, WellFormed
<1>2. realFrame \in 0 .. 2 * Cycle /\ d \in DOMAIN Chain
  BY <1>1
<1>3. FlowsAt(Chain, d, realFrame)
  BY <1>2 DEF DataInv, Flows
<1>4. /\ AtLeast(i, realFrame) \subseteq own \cup UNION {AtLeast(j, realFrame) : j \in v.textures}
      /\ own \cup (UNION {AtMost(j, realFrame) : j \in v.textures}) \subseteq AtMost(i, realFrame)
  BY <1>3 DEF FlowsAt
<1>5. Derived(list[command]) = own \cup UNION {contents[j] : j \in v.textures}
  <2>1. /\ list[command].work = Chain[d].name
        /\ list[command].reads = v.textures
    BY CommandsOfFrame DEF IsDispatch
  <2>2. Chain[d].name # "copy"
    BY <1>1, <1>2 DEF Whole, WellFormed
  <2> HIDE DEF v
  <2> QED
    BY <2>1, <2>2 DEF Derived
<1>6. \A j \in v.textures : /\ AtLeast(j, realFrame) \subseteq contents[j]
                            /\ contents[j] \subseteq AtMost(j, realFrame)
  BY FetchesWithin DEF Within
<1> HIDE DEF v, own
<1>7. UNION {AtLeast(j, realFrame) : j \in v.textures} \subseteq UNION {contents[j] : j \in v.textures}
  BY <1>6
<1>8. UNION {contents[j] : j \in v.textures} \subseteq UNION {AtMost(j, realFrame) : j \in v.textures}
  BY <1>6
<1> QED
  BY <1>4, <1>5, <1>7, <1>8

LEMMA FrameRuns ==
  ASSUME ListInv, DataInv, RunCommand, job = "frame"
  PROVE  \A i \in Images : (IF SoFar(i) THEN Within(i, realFrame) ELSE Within(i, realFrame - 1))'
<1>1. /\ app = "wait" /\ list' = list /\ realFrame' = realFrame /\ command' = command + 1
      /\ contents' = [i \in Images |-> IF i \in list[command].writes
                                       THEN Derived(list[command]) ELSE contents[i]]
      /\ ~ command > Len(list)
  BY DEF RunCommand, executorVars, clientVars, Idle
<1>2. recorded \in Nat /\ command \in 1 .. recorded + 1
  <2>1. recorded \in Nat /\ command \in 1 .. recorded + 2 /\ Len(list) = recorded + 1
    BY <1>1, CommandsOfFrame
  <2> QED
    BY <1>1, <2>1
<1>3. list[1].writes = {}
  <2>1. list[1] = Command("begin", FALSE, TRUE, {}, {})
    BY <1>1 DEF ListInv, Listed
  <2> QED
    BY <2>1 DEF Command
<1> SUFFICES ASSUME NEW i \in Images
             PROVE  IF SoFar(i)' THEN Within(i, realFrame)' ELSE Within(i, realFrame - 1)'
  OBVIOUS
<1>4. SoFar(i)' <=> SoFar(i) \/ i \in list[command].writes
  <2>1. \A k : k \in 1 .. command <=> k \in 1 .. command - 1 \/ k = command
    BY <1>2
  <2>2. command' - 1 = command
    BY <1>1, <1>2
  <2> QED
    BY <1>1, <2>1, <2>2 DEF SoFar
<1>5. IF SoFar(i) THEN Within(i, realFrame) ELSE Within(i, realFrame - 1)
  BY <1>1 DEF DataInv
<1>6. CASE i \notin list[command].writes
  <2>1. contents'[i] = contents[i]
    BY <1>1, <1>6
  <2> QED
    BY <1>1, <1>4, <1>5, <1>6, <2>1 DEF Within
<1>7. CASE i \in list[command].writes
  <2>1. command # 1
    BY <1>3, <1>7
  <2>2. PICK d \in 1 .. recorded : command = d + 1
    BY <1>2, <2>1
  <2>3. i \in Run(Chain[d], realFrame).storages
    BY <1>1, <1>7, <2>2, CommandsOfFrame DEF IsDispatch
  <2>4. contents'[i] = Derived(list[command])
    BY <1>1, <1>7
  <2>5. Within(i, realFrame)'
    BY <1>1, <2>2, <2>3, <2>4, StoresWithin DEF Within
  <2> QED
    BY <1>4, <1>7, <2>5
<1> QED
  BY <1>6, <1>7

\* A frame that has run leaves every image within its bounds.
LEMMA FrameEnds ==
  ASSUME ListInv, DataInv, app = "wait", job = "frame", Idle, NEW i \in Images
  PROVE  Within(i, realFrame)
<1>1. /\ recorded \in Nat /\ DOMAIN Chain = 1 .. recorded /\ command \in 1 .. recorded + 2
      /\ Len(list) = recorded + 1
  BY CommandsOfFrame
<1>2. command = recorded + 2
  BY <1>1 DEF Idle
<1>3. realFrame \in 0 .. 2 * Cycle
  BY DEF ListInv, LastFrame
<1>4. Carried(i, realFrame) \/ StoredIn(Chain, realFrame, i)
  BY <1>3 DEF DataInv, Flows
<1>5. IF SoFar(i) THEN Within(i, realFrame) ELSE Within(i, realFrame - 1)
  BY DEF DataInv
<1>6. CASE StoredIn(Chain, realFrame, i)
  <2>1. PICK d \in 1 .. recorded : i \in Run(Chain[d], realFrame).storages
    BY <1>1, <1>6 DEF StoredIn
  <2>2. d < command - 1
    BY <1>1, <1>2
  <2> QED
    BY <1>5, <2>1, <2>2, StoredByCommand
<1>7. CASE Carried(i, realFrame)
  BY <1>5, <1>7, CarriedWithin
<1> QED
  BY <1>4, <1>6, <1>7

\* A copy leaves what the dispatches will fetch: an upload writes a real frame, which
\* derives from no other, and reading back writes nothing.
LEMMA CopiesKeep ==
  ASSUME ListInv, RunCommand, job \in {"upload", "readback"},
         NEW i \in Images, NEW frame, Within(i, frame)
  PROVE  Within(i, frame)'
<1>1. /\ app = "wait"
      /\ contents' = [j \in Images |-> IF j \in list[command].writes
                                       THEN Derived(list[command]) ELSE contents[j]]
      /\ ~ command > Len(list)
  BY DEF RunCommand, Idle
<1>2. Listed /\ command \in 1 .. recorded + 2 /\ ~ Dispatches
  BY <1>1 DEF ListInv, Dispatches
<1>3. recorded \in Nat
  BY DEF ListInv, AppInv
<1>4. command \in 1 .. recorded + 1 /\ list[1] = Command("begin", FALSE, TRUE, {}, {})
  <2>1. Len(list) = recorded + 1
    BY <1>2 DEF Listed
  <2> QED
    BY <1>1, <1>2, <1>3, <2>1 DEF Listed
<1>5. CASE i \notin list[command].writes
  <2>1. contents'[i] = contents[i]
    BY <1>1, <1>5
  <2> QED
    BY <2>1 DEF Within
<1>6. CASE i \in list[command].writes
  <2>1. command # 1
    BY <1>4, <1>6 DEF Command
  <2>2. PICK k \in 1 .. recorded : command = k + 1
    BY <1>3, <1>4, <2>1
  <2>3. list[command].work = "copy" /\ i \in History(0) \cup History(1)
    BY <1>2, <1>6, <2>2 DEF Listed, IsCopy
  <2>4. contents'[i] = {}
    BY <1>1, <1>6, <2>3 DEF Derived
  <2>5. i[1] = "history"
    BY <2>3 DEF History, One, Group
  <2>6. AtMost(i, frame) = {} /\ AtLeast(i, frame) = {}
    BY <2>5 DEF AtMost, AtLeast
  <2> QED
    BY <2>4, <2>6 DEF Within
<1> QED
  BY <1>5, <1>6

LEMMA DataStep == ListInv /\ DataInv /\ [Next]_vars => DataInv'
<1> SUFFICES ASSUME ListInv, DataInv, [Next]_vars PROVE DataInv'
  OBVIOUS
<1>1. Flows(Chain, Images, Cycle)'
  BY DEF DataInv
<1>2. job \in {"upload", "frame", "readback", "stage"}
  BY DEF ListInv, AppInv
<1>3. ASSUME UNCHANGED <<contents, job, realFrame>>, app \in {"create", "begin"},
             app' \in {"begin", "record", "failed"}
      PROVE  DataInv'
  <2>1. app = "create" => job = "upload"
    BY DEF ListInv
  <2> QED
    BY <1>1, <1>3, <2>1 DEF DataInv, Within
<1>4. ASSUME app' \in {"failed", "ended", "done"}
      PROVE  DataInv'
  BY <1>1, <1>4 DEF DataInv
<1>5. CASE CreateExecutor
  BY <1>3, <1>5 DEF CreateExecutor, Goto, gpuVars
<1>6. CASE BeginList
  BY <1>3, <1>6 DEF BeginList, gpuVars
<1>7. CASE RecordNext
  BY <1>1, <1>7 DEF RecordNext, gpuVars, DataInv, Within
<1>8. CASE RecordFails \/ RunExhausted \/ DestroyExecutor
  BY <1>4, <1>8 DEF RecordFails, RunExhausted, DestroyExecutor, Fail, Goto
<1>9. CASE Submit
  <2>1. CASE app' = "failed"
    BY <1>4, <2>1
  <2>2. CASE app' # "failed"
    <3>1. /\ app = "record" /\ app' = "wait" /\ command' = 1
          /\ UNCHANGED <<contents, job, realFrame, list>>
      BY <1>9, <2>2 DEF Submit, Goto, Fail, FinishList
    <3>2. \A i : ~ SoFar(i)'
      BY <3>1 DEF SoFar
    <3> QED
      BY <1>1, <3>1, <3>2 DEF DataInv, Within
  <2> QED
    BY <2>1, <2>2
<1>10. CASE Waited
  <2>1. CASE app' \in {"failed", "done"}
    BY <1>4, <2>1
  <2>2. CASE app' \notin {"failed", "done"}
    <3>1. app = "wait" /\ Idle /\ contents' = contents /\ app' = "begin" /\ NextJob
      BY <1>10, <2>2 DEF Waited, NextJob
    <3>2. ASSUME NEW i \in Images, NEW frame, Within(i, frame)
          PROVE  Within(i, frame)'
      BY <3>1, <3>2 DEF Within
    <3>3. CASE job = "upload"
      <4>1. job' = "frame" /\ realFrame' = realFrame
        BY <3>1, <3>3 DEF NextJob
      <4>2. \A i \in Images : Within(i, realFrame - 1)
        BY <3>1, <3>3 DEF DataInv
      <4> QED
        BY <1>1, <3>1, <4>1, <4>2 DEF DataInv, Within
    <3>4. CASE job = "frame"
      <4>1. \A i \in Images : Within(i, realFrame)
        BY <3>1, <3>4, FrameEnds
      <4>2. realFrame \in Nat
        BY DEF ListInv, Whole, WellFormed, LastFrame
      <4>3. \/ job' = "frame" /\ realFrame' = realFrame + 1 /\ realFrame' - 1 = realFrame
            \/ job' = "readback" /\ realFrame' = realFrame
        BY <3>1, <3>4, <4>2 DEF NextJob
      <4> QED
        BY <1>1, <3>1, <4>1, <4>3 DEF DataInv, Within
    <3>5. CASE job = "readback"
      <4>1. \A i \in Images : Within(i, realFrame)
        BY <3>1, <3>5 DEF DataInv
      <4>2. realFrame \in Nat
        BY DEF ListInv, Whole, WellFormed, LastFrame
      <4>3. \/ job' = "frame" /\ realFrame' = realFrame + 1 /\ realFrame' - 1 = realFrame
            \/ job' = "stage"
        BY <3>1, <3>5, <4>2 DEF NextJob
      <4> QED
        BY <1>1, <3>1, <4>1, <4>3 DEF DataInv, Within
    <3>6. CASE job = "stage"
      <4>1. job' = "stage"
        BY <3>1, <3>6 DEF NextJob
      <4> QED
        BY <1>1, <3>1, <4>1 DEF DataInv
    <3> QED
      BY <1>2, <3>3, <3>4, <3>5, <3>6
  <2> QED
    BY <2>1, <2>2
<1>11. CASE RunCommand
  <2>1. UNCHANGED <<app, job, realFrame>> /\ app = "wait"
    BY <1>11 DEF RunCommand, clientVars
  <2>2. CASE job = "frame"
    BY <1>1, <1>11, <2>1, <2>2, FrameRuns DEF DataInv
  <2>3. CASE job \in {"upload", "readback"}
    <3>1. job = "upload" => \A i \in Images : Within(i, realFrame - 1)'
      BY <1>11, <2>1, <2>3, CopiesKeep DEF DataInv, Within
    <3>2. job = "readback" => \A i \in Images : Within(i, realFrame)'
      BY <1>11, <2>1, <2>3, CopiesKeep DEF DataInv, Within
    <3> QED
      BY <1>1, <2>1, <2>3, <3>1, <3>2 DEF DataInv
  <2>4. CASE job = "stage"
    BY <1>1, <2>1, <2>4 DEF DataInv
  <2> QED
    BY <1>2, <2>2, <2>3, <2>4
<1>12. CASE UNCHANGED vars
  <2>1. UNCHANGED <<app, job, realFrame, list, command, contents>>
    BY <1>12 DEF vars, clientVars, executorVars, gpuVars
  <2>2. \A i : SoFar(i)' <=> SoFar(i)
    BY <2>1 DEF SoFar
  <2> QED
    BY <1>1, <2>1, <2>2 DEF DataInv, Within
<1> QED
  BY <1>5, <1>6, <1>7, <1>8, <1>9, <1>10, <1>11, <1>12 DEF Next

-----------------------------------------------------------------------------
\* measure_warmup counts the frames up to the depth of the chain.
LEMMA StoredEarlier ==
  ASSUME Whole, NEW d \in DOMAIN Chain, NEW f \in 0 .. 2 * Cycle - 1, NEW i
  PROVE  i \in Before(d, f) <=> \/ StoredBefore(Chain, d, f, i)
                                \/ \E g \in 0 .. f - 1 : StoredIn(Chain, g, i)
<1>1. Cycle \in Nat /\ DOMAIN Chain = 1 .. Len(Chain) /\ Len(Chain) \in Nat
  BY DEF Whole, WellFormed, IsSequence
<1>2. \A g \in 0 .. f - 1 : i \in FrameStores[g] <=> StoredIn(Chain, g, i)
  <2> SUFFICES ASSUME NEW g \in 0 .. f - 1
               PROVE  i \in FrameStores[g] <=> StoredIn(Chain, g, i)
    OBVIOUS
  <2>1. g \in 0 .. 2 * Cycle - 1
    BY <1>1
  <2>2. FrameStores[g] = UNION {VariantAt(e, g).storages : e \in DOMAIN Chain}
    BY <2>1 DEF FrameStores
  <2> QED
    BY <2>2, RunIsVariant DEF StoredIn
<1>3. StoredBefore(Chain, d, f, i) <=> \E e \in 1 .. d - 1 : i \in VariantAt(e, f).storages
  <2>1. ASSUME NEW k \in 1 .. d - 1
        PROVE  d - k \in 1 .. d - 1 /\ d - (d - k) = k
    BY <1>1
  <2>2. \A k : VariantAt(k, f) = Run(Chain[k], f)
    BY RunIsVariant
  <2>3. ASSUME NEW e \in 1 .. d - 1, i \in VariantAt(e, f).storages
        PROVE  StoredBefore(Chain, d, f, i)
    BY <2>1, <2>2, <2>3 DEF StoredBefore
  <2> QED
    BY <2>1, <2>2, <2>3 DEF StoredBefore
<1>4. i \in Before(d, f) <=> \/ \E g \in 0 .. f - 1 : i \in FrameStores[g]
                             \/ \E e \in 1 .. d - 1 : i \in VariantAt(e, f).storages
  BY DEF Before
<1> QED
  BY <1>2, <1>3, <1>4

LEMMA WarmupIsDepth ==
  ASSUME Whole, CleanFrom(Chain, Cycle)
  PROVE  WarmupFrames = TemporalDepth
<1>1. Cycle \in Nat /\ Cycle >= 1
  BY DEF Whole, WellFormed
<1>2. ASSUME NEW f \in 0 .. 2 * Cycle - 1
      PROVE  f \in Unclean <=> f < TemporalDepth
  <2>1. f >= TemporalDepth <=>
          \A d \in DOMAIN Chain : \A i \in Run(Chain[d], f).textures : FetchesStored(Chain, d, f, i)
    BY DEF CleanFrom
  <2>2. \A d \in DOMAIN Chain : \A i :
          FetchesStored(Chain, d, f, i) <=> ~ (Role(i) = "internal" /\ i \notin Before(d, f))
    BY StoredEarlier DEF FetchesStored
  <2>3. f \in Unclean <=>
          \E d \in DOMAIN Chain : \E i \in VariantAt(d, f).textures :
            Role(i) = "internal" /\ i \notin Before(d, f)
    BY DEF Unclean
  <2>4. \A d : VariantAt(d, f) = Run(Chain[d], f)
    BY RunIsVariant
  <2>5. f < TemporalDepth <=> ~ f >= TemporalDepth
    BY <1>1 DEF TemporalDepth
  <2> QED
    BY <2>1, <2>2, <2>3, <2>4, <2>5
<1>3. Unclean \subseteq 0 .. 2 * Cycle - 1
  BY DEF Unclean
<1>4. Unclean = {0, 1}
  <2>1. \A f \in Unclean : f \in 0 .. 2 * Cycle - 1 /\ f < 2
    BY <1>2, <1>3 DEF TemporalDepth
  <2>2. \A f \in Unclean : f \in {0, 1}
    BY <1>1, <2>1
  <2>3. 0 \in 0 .. 2 * Cycle - 1 /\ 1 \in 0 .. 2 * Cycle - 1
    BY <1>1
  <2>4. 0 \in Unclean /\ 1 \in Unclean
    BY <1>2, <2>3 DEF TemporalDepth
  <2> QED
    BY <2>2, <2>4
<1>5. WarmupFrames = 1 + CHOOSE f \in {0, 1} : \A g \in {0, 1} : g <= f
  BY <1>4 DEF WarmupFrames
<1>6. (CHOOSE f \in {0, 1} : \A g \in {0, 1} : g <= f) = 1
  <2>1. 1 \in {0, 1} /\ \A g \in {0, 1} : g <= 1
    OBVIOUS
  <2>2. \A f \in {0, 1} : (\A g \in {0, 1} : g <= f) => f = 1
    OBVIOUS
  <2> QED
    BY <2>1, <2>2
<1> QED
  BY <1>5, <1>6 DEF TemporalDepth

\* A frame that just ran leaves in its generated frames exactly its window, with memory
\* nobody wrote in place of the frames before the first.
LEMMA WindowOfResult ==
  ASSUME ListInv, DataInv, Finished, NEW g \in 0 .. GeneratedFrames - 1
  PROVE  /\ JustRun \in Nat
         /\ Result(g) = Since(2, JustRun)
<1>1. realFrame \in Nat
  BY DEF ListInv, Whole, WellFormed, LastFrame
<1>2. JustRun \in Nat
  BY <1>1 DEF Finished, JustRun
<1>3. \A i \in Images : Within(i, JustRun)
  BY DEF DataInv, Finished, JustRun
<1> DEFINE i == <<"generated", 0, g, 0>>
<1>4. Generated(g) = {i}
  BY DEF Generated, One, Group
<1>5. Generated(g) \subseteq Images
  BY DEF DataInv, Flows
<1>6. Result(g) = contents[i] /\ i \in Images
  BY <1>4, <1>5 DEF Result
<1>7. AtMost(i, JustRun) = Since(2, JustRun) /\ AtLeast(i, JustRun) = AtMost(i, JustRun)
  BY <1>2 DEF AtMost, AtLeast, Scratch, TemporalDepth
<1> QED
  BY <1>2, <1>3, <1>6, <1>7 DEF Within

LEMMA SinceIsWindow ==
  ASSUME NEW f \in Nat
  PROVE  /\ f >= 2 => Since(2, f) = f - 2 .. f
         /\ NotWritten \in Since(2, f) <=> f < 2
<1>1. \A x : x \in Since(2, f) <=> \E k \in f - 2 .. f : x = IF k < 0 THEN NotWritten ELSE k
  BY DEF Since
<1>2. f >= 2 => \A x : x \in Since(2, f) <=> x \in f - 2 .. f
  BY <1>1
<1>5. f >= 2 => Since(2, f) = f - 2 .. f
  BY <1>2
<1>3. f >= 2 => NotWritten \notin Since(2, f)
  BY <1>2 DEF NotWritten
<1>4. f < 2 => NotWritten \in Since(2, f)
  <2>1. f < 2 => f - 2 \in f - 2 .. f /\ f - 2 < 0
    OBVIOUS
  <2> QED
    BY <1>1, <2>1
<1> QED
  BY <1>3, <1>4, <1>5

FlowInv == ListInv /\ DataInv /\ CleanFrom(Chain, Cycle)

LEMMA FlowInvariance ==
  WellFormed(Chain, Stages, Cycle) /\ Flows(Chain, Images, Cycle) /\ CleanFrom(Chain, Cycle) /\ Spec
    => []FlowInv
<1>1. Whole /\ Flows(Chain, Images, Cycle) /\ CleanFrom(Chain, Cycle) /\ Init => FlowInv
  <2> SUFFICES ASSUME Whole, Flows(Chain, Images, Cycle), CleanFrom(Chain, Cycle), Init
               PROVE  FlowInv
    OBVIOUS
  <2>1. ListInv
    BY ListInitially
  <2>2. \A i \in Images : contents[i] = Initially(i)
    BY DEF Init
  <2>3. \A i \in Images : Within(i, -1)
    BY <2>2 DEF Flows, Within
  <2>4. app = "create" /\ realFrame - 1 = -1
    BY DEF Init
  <2>5. DataInv
    BY <2>3, <2>4 DEF DataInv, Within
  <2> QED
    BY <2>1, <2>5 DEF FlowInv
<1>2. FlowInv /\ [Next]_vars => FlowInv'
  BY ListStep, DataStep DEF FlowInv, CleanFrom
<1> QED
  BY <1>1, <1>2, PTL DEF Spec, Whole

\* In either mode and with any number of generated frames: once the warm-up is over, each
\* generated frame derives from its real frame and the two before it
\* (graph::build, backend::schedule).
THEOREM AppTemporalWindow ==
  WellFormed(Chain, Stages, Cycle) /\ Flows(Chain, Images, Cycle) /\ CleanFrom(Chain, Cycle) /\ Spec
    => []TemporalWindow
<1>1. FlowInv => TemporalWindow
  <2> SUFFICES ASSUME FlowInv, Finished, JustRun >= WarmupFrames,
                      NEW g \in 0 .. GeneratedFrames - 1
               PROVE  Result(g) = JustRun - 2 .. JustRun
    BY DEF TemporalWindow
  <2>1. JustRun \in Nat /\ Result(g) = Since(2, JustRun)
    BY WindowOfResult DEF FlowInv
  <2>2. WarmupFrames = 2
    BY WarmupIsDepth DEF FlowInv, ListInv, TemporalDepth
  <2> QED
    BY <2>1, <2>2, SinceIsWindow
<1> QED
  BY <1>1, FlowInvariance, PTL

\* And exactly the frames of the warm-up hold memory nobody wrote (measure_warmup).
THEOREM AppWarmupExact ==
  WellFormed(Chain, Stages, Cycle) /\ Flows(Chain, Images, Cycle) /\ CleanFrom(Chain, Cycle) /\ Spec
    => []WarmupExact
<1>1. FlowInv => WarmupExact
  <2> SUFFICES ASSUME FlowInv, Finished, NEW g \in 0 .. GeneratedFrames - 1
               PROVE  NotWritten \in Result(g) <=> JustRun < WarmupFrames
    BY DEF WarmupExact
  <2>1. JustRun \in Nat /\ Result(g) = Since(2, JustRun)
    BY WindowOfResult DEF FlowInv
  <2>2. WarmupFrames = 2
    BY WarmupIsDepth DEF FlowInv, ListInv, TemporalDepth
  <2> QED
    BY <2>1, <2>2, SinceIsWindow
<1> QED
  BY <1>1, FlowInvariance, PTL

=============================================================================
