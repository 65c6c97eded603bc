--------------------------- MODULE ExecutorClient ---------------------------
(***************************************************************************)
(* Any caller of the executor: it creates, begins, records, copies and     *)
(* runs in any order, with any dispatches.  It keeps the one duty the      *)
(* executor leaves to it, as the lists of apps/test-pattern do: an image   *)
(* is copied before anything else of the batch touches it.                 *)
(***************************************************************************)
EXTENDS Executor

CONSTANTS
  Image,        \* the images of the chain
  MaxCommands   \* bound of the model: commands in a list

ASSUME MaxCommandsAssumption == MaxCommands \in Nat

Work == {"begin", "dispatch", "barrier", "copy"}
Commands ==
  [work : Work, wait : BOOLEAN, invalidate : BOOLEAN, reads : SUBSET Image, writes : SUBSET Image]

Room == Len(list) < MaxCommands

CallRecord ==
  /\ Room
  /\ \E textures, storages \in SUBSET Image : Record("dispatch", textures, storages)
CallRecordRefused ==
  /\ Room
  /\ \E textures, storages \in SUBSET Image : RecordRefused("dispatch", textures, storages)
CallBarrier == Room /\ \E invalidate \in BOOLEAN : Barrier(invalidate)
CallUpload ==
  /\ Room
  /\ \E image \in Image \ (hazardRead \cup hazardWritten) : Upload(image)
CallDownload == Room /\ \E image \in Image \ hazardWritten : Download(image)

ClientNext ==
  \/ Create
  \/ Destroy
  \/ Begin
  \/ CallRecord
  \/ CallRecordRefused
  \/ CallBarrier
  \/ CallUpload
  \/ CallDownload
  \/ FinishList

ClientSpec == ExecutorInit /\ [][ClientNext]_executorVars

-----------------------------------------------------------------------------
TypeOK ==
  /\ commands \in BOOLEAN
  /\ recording \in BOOLEAN
  /\ outOfMemory \in BOOLEAN
  /\ list \in Seq(Commands)
  /\ hazardRead \subseteq Image
  /\ hazardWritten \subseteq Image

\* The inductive invariant: types, the hazards that tell of every command since
\* the last barrier, and the race freedom they give (record and its marks).
IInv == TypeOK /\ Covers /\ NoRace

=============================================================================
