------------------------------ MODULE Executor ------------------------------
(***************************************************************************)
(* The executor of the backend (runtime/backend/src/executor.cpp): the     *)
(* command list it records and the hazards it keeps to place barriers.  It *)
(* is a library: its caller composes these actions.  The list is one entry *)
(* for each command, with the barrier recorded just before it, if any.     *)
(***************************************************************************)
EXTENDS Naturals, Sequences

VARIABLES
  commands,       \* commands_: whether there is a command buffer
  recording,      \* recording_
  outOfMemory,    \* out_of_memory_
  list,           \* the commands recorded since begin
  hazardRead,     \* hazards_: the images read since the last barrier
  hazardWritten   \* hazards_: the images written since the last barrier

executorVars == <<commands, recording, outOfMemory, list, hazardRead, hazardWritten>>

Command(work, wait, invalidate, reads, writes) ==
  [work |-> work, wait |-> wait, invalidate |-> invalidate, reads |-> reads, writes |-> writes]

-----------------------------------------------------------------------------
(***************************************************************************)
(* create, which destroys first and may fail, and destroy.                 *)
(***************************************************************************)
Reset(buffer) ==
  /\ commands' = buffer
  /\ recording' = FALSE
  /\ outOfMemory' = FALSE
  /\ list' = <<>>
  /\ hazardRead' = {}
  /\ hazardWritten' = {}

ExecutorInit ==
  /\ commands = FALSE
  /\ recording = FALSE
  /\ outOfMemory = FALSE
  /\ list = <<>>
  /\ hazardRead = {}
  /\ hazardWritten = {}

Create == \E buffer \in BOOLEAN : Reset(buffer)
Destroy == Reset(FALSE)

\* Whatever is recorded may exhaust the command memory, which calls
\* out_of_command_memory.
MayExhaust == outOfMemory' \in {outOfMemory, TRUE}

\* Nothing carries over from the list before this one.
Begin ==
  /\ commands
  /\ recording' = TRUE
  /\ outOfMemory' \in BOOLEAN
  /\ list' = <<Command("begin", FALSE, TRUE, {}, {})>>
  /\ hazardRead' = {}
  /\ hazardWritten' = {}
  /\ UNCHANGED commands

-----------------------------------------------------------------------------
(***************************************************************************)
(* record.  A fetch of a written image waits and invalidates; a store to   *)
(* anything touched waits.  A barrier clears every hazard.                 *)
(***************************************************************************)
FetchHazard(textures) == textures \cap hazardWritten # {}

\* Mutant: only an earlier write is a hazard to a store.
StoreHazardOfWrites(storages) == storages \cap hazardWritten # {}
StoreHazard(storages) == storages \cap (hazardRead \cup hazardWritten) # {}

Waits(textures, storages) == FetchHazard(textures) \/ StoreHazard(storages)

\* Mutant: the barrier waits without invalidating.
InvalidatesNothing(textures) == FALSE
Invalidates(textures) == FetchHazard(textures)

\* The hazards once the barrier, if any, is placed and the accesses are marked.
\* Mutants: the barrier clears the new marks too, or clears nothing.
MarkedThenCleared(wait, hazards, images) == IF wait THEN {} ELSE hazards \cup images
NeverCleared(wait, hazards, images) == hazards \cup images
Marked(wait, hazards, images) == (IF wait THEN {} ELSE hazards) \cup images

Mark(wait, reads, writes) ==
  /\ hazardRead' = Marked(wait, hazardRead, reads)
  /\ hazardWritten' = Marked(wait, hazardWritten, writes)

Record(work, textures, storages) ==
  /\ commands /\ recording
  /\ LET wait == Waits(textures, storages)
     IN /\ list' = Append(list, Command(work, wait, Invalidates(textures), textures, storages))
        /\ Mark(wait, textures, storages)
  /\ MayExhaust
  /\ UNCHANGED <<commands, recording>>

\* record finds no uniform buffer: the barrier and the marks are already there.
RecordRefused(work, textures, storages) ==
  /\ commands /\ recording
  /\ LET wait == Waits(textures, storages)
     IN /\ list' = IF wait
                   THEN Append(list, Command("barrier", TRUE, Invalidates(textures), {}, {}))
                   ELSE list
        /\ Mark(wait, textures, storages)
  /\ MayExhaust
  /\ UNCHANGED <<commands, recording>>

Barrier(invalidate) ==
  /\ commands /\ recording
  /\ list' = Append(list, Command("barrier", TRUE, invalidate, {}, {}))
  /\ hazardRead' = {}
  /\ hazardWritten' = {}
  /\ MayExhaust
  /\ UNCHANGED <<commands, recording>>

\* copy marks what it touches, and looks at no hazard.
Copy(reads, writes) ==
  /\ commands /\ recording
  /\ list' = Append(list, Command("copy", FALSE, FALSE, reads, writes))
  /\ Mark(FALSE, reads, writes)
  /\ MayExhaust
  /\ UNCHANGED <<commands, recording>>

Upload(image) == Copy({}, {image})
Download(image) == Copy({image}, {})

\* run: exhausted memory is reported with the list still being recorded;
\* otherwise the list is finished, which may fail, and handed to the queue.
CanRun == commands /\ recording /\ ~ outOfMemory
FinishList ==
  /\ CanRun
  /\ recording' = FALSE
  /\ UNCHANGED <<commands, outOfMemory, list, hazardRead, hazardWritten>>

-----------------------------------------------------------------------------
Conflict(i, j) ==
  \/ list[i].writes \cap (list[j].reads \cup list[j].writes) # {}
  \/ list[i].reads \cap list[j].writes # {}

WaitBetween(i, j) == \E k \in i + 1 .. j : list[k].wait

\* No two commands of a list that touch the same image, one of them writing it,
\* can run at the same time: there is a wait between them.  (What record, its
\* marks and barrier are for: executor.cpp 219-242.)
NoRace ==
  \A j \in 1 .. Len(list) : \A i \in 1 .. j - 1 : Conflict(i, j) => WaitBetween(i, j)

\* A barrier is only where it has to be (executor.hpp 85): some command since the
\* barrier before it conflicts with the command record places behind it.
BarriersNeeded ==
  \A k \in 1 .. Len(list) :
    list[k].wait /\ list[k].work # "barrier" =>
      \E i \in 1 .. k - 1 : ~ WaitBetween(i, k - 1) /\ Conflict(i, k)

\* The hazards tell of every command since the last barrier.
Covers ==
  recording =>
    \A i \in 1 .. Len(list) :
      ~ WaitBetween(i, Len(list)) =>
        list[i].reads \subseteq hazardRead /\ list[i].writes \subseteq hazardWritten

=============================================================================
