---------------------------- MODULE TestPattern -----------------------------
(***************************************************************************)
(* The chain run whole: apps/test-pattern uploads two real frames, runs    *)
(* the chain for real frames 0 to two cycles on, reads three generated     *)
(* frames back and times one frame stage by stage.  Each of these is a     *)
(* list the Executor records, and the GPU then runs it command by command, *)
(* while the app waits for the queue.                                      *)
(*                                                                         *)
(* What an image holds is abstracted to the real frames whose mip levels   *)
(* it was computed from, with NotWritten for memory nobody wrote.          *)
(***************************************************************************)
EXTENDS Executor, DataFlow

VARIABLES
  app,        \* what the app is doing with the executor
  job,        \* which of its lists the app is at
  realFrame,  \* the real frame of a job that runs dispatches
  runStage,   \* the stage of a job that runs one stage
  recorded,   \* how much of the job is recorded
  command,    \* the command the GPU is at, 0 when it is idle
  contents,   \* image -> the real frames it derives from
  cached,     \* images with texels in the texture cache
  stale       \* cached images stored since

clientVars == <<app, job, realFrame, runStage, recorded>>
gpuVars == <<command, contents, cached, stale>>
vars == <<executorVars, clientVars, gpuVars>>

LastFrame == 2 * Cycle
ReadBack == {Cycle, Cycle + 1, LastFrame}

\* What the job records: the images it copies, or the dispatches it runs.
Todo ==
  CASE job = "upload" -> <<History(0), History(1)>>
    [] job = "readback" -> <<Generated(0)>>
    [] job = "frame" -> [d \in 1 .. Len(Chain) |-> d]
    [] job = "stage" -> Stages[runStage]
Dispatches == job \in {"frame", "stage"}

Init ==
  /\ ExecutorInit
  /\ app = "create" /\ job = "upload" /\ realFrame = 0 /\ runStage = 0 /\ recorded = 0
  /\ command = 0
  /\ contents = [i \in Images |-> Initially(i)]
  /\ cached = {} /\ stale = {}

-----------------------------------------------------------------------------
(***************************************************************************)
(* The app.                                                                *)
(***************************************************************************)
Goto(s) == app' = s /\ UNCHANGED <<job, realFrame, runStage, recorded>>
Fail == Goto("failed") /\ UNCHANGED gpuVars

\* measure_cache creates the executor, and a chain out of order is refused.
CreateExecutor ==
  /\ app = "create"
  /\ Create
  /\ Goto(IF commands' /\ Scheduled THEN "begin" ELSE "failed")
  /\ UNCHANGED gpuVars

BeginList ==
  /\ app = "begin"
  /\ Begin
  /\ app' = "record" /\ recorded' = 0
  /\ UNCHANGED <<job, realFrame, runStage, gpuVars>>

RecordNext ==
  /\ app = "record" /\ recorded < Len(Todo)
  /\ LET next == Todo[recorded + 1]
     IN IF Dispatches
        THEN LET v == VariantAt(next, realFrame)
             IN Record(Chain[next].name, v.textures, v.storages)
        ELSE \E image \in next : IF job = "upload" THEN Upload(image) ELSE Download(image)
  /\ recorded' = recorded + 1
  /\ UNCHANGED <<app, job, realFrame, runStage, gpuVars>>

\* record or copy reports an error, before it does anything or after its barrier.
RecordFails ==
  /\ app = "record" /\ recorded < Len(Todo)
  /\ \/ UNCHANGED executorVars
     \/ /\ Dispatches
        /\ LET next == Todo[recorded + 1]
               v    == VariantAt(next, realFrame)
           IN RecordRefused(Chain[next].name, v.textures, v.storages)
  /\ Fail

\* run: the memory was exhausted, or the list cannot be finished, or it is submitted.
RunExhausted ==
  /\ app = "record" /\ recorded = Len(Todo) /\ ~ CanRun
  /\ Fail
  /\ UNCHANGED executorVars
Submit ==
  /\ app = "record" /\ recorded = Len(Todo)
  /\ FinishList
  /\ \/ Fail
     \/ /\ Goto("wait")
        /\ command' = 1
        /\ UNCHANGED <<contents, cached, stale>>

\* The queue is idle: on to the app's next list.
NextJob ==
  \/ /\ job = "upload"
     /\ job' = "frame" /\ app' = "begin" /\ UNCHANGED <<realFrame, runStage>>
  \/ /\ job = "frame" /\ realFrame \notin ReadBack
     /\ realFrame' = realFrame + 1 /\ app' = "begin" /\ UNCHANGED <<job, runStage>>
  \/ /\ job = "frame" /\ realFrame \in ReadBack
     /\ job' = "readback" /\ app' = "begin" /\ UNCHANGED <<realFrame, runStage>>
  \/ /\ job = "readback" /\ realFrame # LastFrame
     /\ job' = "frame" /\ realFrame' = realFrame + 1 /\ app' = "begin" /\ UNCHANGED runStage
  \/ /\ job = "readback" /\ realFrame = LastFrame
     /\ \/ job' = "stage" /\ realFrame' = Cycle /\ runStage' = 0 /\ app' = "begin"
        \/ app' = "done" /\ UNCHANGED <<job, realFrame, runStage>>
  \/ /\ job = "stage"
     /\ UNCHANGED <<job, realFrame>>
     /\ IF runStage < GeneratedFrames
        THEN runStage' = runStage + 1 /\ app' = "begin"
        ELSE app' = "done" /\ UNCHANGED runStage

Idle == command > Len(list)
Waited ==
  /\ app = "wait" /\ Idle
  /\ command' = 0
  /\ \/ NextJob
     \/ app' = "failed" /\ UNCHANGED <<job, realFrame, runStage>>
  /\ UNCHANGED <<recorded, contents, cached, stale, executorVars>>

DestroyExecutor ==
  /\ app \in {"done", "failed"}
  /\ Destroy
  /\ Goto("ended")
  /\ UNCHANGED gpuVars

-----------------------------------------------------------------------------
(***************************************************************************)
(* The GPU: the next command, with the texture cache that a barrier may    *)
(* invalidate.  Copies go around that cache.                               *)
(***************************************************************************)
Fetched(c) == IF c.work = "copy" THEN {} ELSE c.reads
Derived(c) ==
  IF c.work = "copy"
  THEN {}
  ELSE (UNION {contents[i] : i \in c.reads})
         \cup IF c.work = "mipmaps" THEN {realFrame} ELSE {}

RunCommand ==
  /\ app = "wait" /\ ~ Idle
  /\ LET c    == list[command]
         kept == IF c.invalidate THEN {} ELSE cached
     IN /\ contents' = [i \in Images |-> IF i \in c.writes THEN Derived(c) ELSE contents[i]]
        /\ cached' = kept \cup Fetched(c)
        /\ stale' = (IF c.invalidate THEN {} ELSE stale) \cup (kept \cap c.writes)
  /\ command' = command + 1
  /\ UNCHANGED <<clientVars, executorVars>>

Next ==
  \/ CreateExecutor
  \/ BeginList
  \/ RecordNext
  \/ RecordFails
  \/ RunExhausted
  \/ Submit
  \/ Waited
  \/ DestroyExecutor
  \/ RunCommand

Spec == Init /\ [][Next]_vars

-----------------------------------------------------------------------------
\* A dispatch never fetches texels cached before the image was stored again: the
\* barriers invalidate in time (Executor::record 219-235, begin).
FetchesFresh ==
  app = "wait" /\ ~ Idle /\ ~ list[command].invalidate
    => Fetched(list[command]) \cap stale = {}

\* A frame just run, while the queue is idle and before the stages are timed.
Finished ==
  /\ app = "begin"
  /\ job \in {"frame", "readback"}
  /\ job = "frame" => realFrame > 0
JustRun == IF job = "readback" THEN realFrame ELSE realFrame - 1
Result(g) == contents[CHOOSE i \in Generated(g) : TRUE]

\* After the warm-up, each generated frame derives from its real frame and the
\* two before it, whatever the slots of the cycle, and so does what is read back
\* (schedule.cpp, image_graph.cpp).
TemporalWindow ==
  Finished /\ JustRun >= WarmupFrames =>
    \A g \in 0 .. GeneratedFrames - 1 : Result(g) = JustRun - 2 .. JustRun

\* Exactly the frames of the warm-up come out with memory nobody wrote: clean
\* fetches, which measure_warmup counts, are enough (schedule.cpp 83-97).
WarmupExact ==
  Finished => \A g \in 0 .. GeneratedFrames - 1 :
                NotWritten \in Result(g) <=> JustRun < WarmupFrames

=============================================================================
