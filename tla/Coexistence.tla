---------------------------- MODULE Coexistence -----------------------------
(***************************************************************************)
(* The deko3d coexistence probe (coexistence.cpp, started from             *)
(* queue_present_texture): once per process, a worker thread creates a     *)
(* device of its own on the borrowed driver session, runs one compute job  *)
(* next to the game's rendering and takes everything down again.  Every    *)
(* creation may fail; the wait for the job may time out or fail while the  *)
(* GPU still works on it.                                                  *)
(***************************************************************************)
EXTENDS NvSession, FiniteSets, Sequences

VARIABLES
  ran,          \* g_coexistence_ran
  presenter,    \* presenting threads past the exchange, about to start it
  workers,      \* history: worker threads started
  stage,        \* where the worker is in run
  alive,        \* what it has created and not destroyed
  gpu,          \* the submitted job: "none", "running", "done", "faulted"
  verdict       \* Result: what it reports

probeVars == <<ran, presenter, workers, stage, alive, gpu, verdict>>
vars == <<nvVars, probeVars>>

\* In the order run creates them, and in the order it destroys them.
Resources == <<"device", "queue", "code", "result", "command", "commands">>
\* Mutant of the latter: the order of creation.
DestroyForwards == Resources
DestroyOrder == <<"commands", "command", "result", "code", "queue", "device">>
Created == Cardinality(alive)
NextDestroyed ==
  DestroyOrder[CHOOSE i \in 1 .. Len(DestroyOrder) :
    /\ DestroyOrder[i] \in alive
    /\ \A j \in 1 .. i - 1 : DestroyOrder[j] \notin alive]

Init ==
  /\ NvInit
  /\ ran = FALSE
  /\ presenter = {}
  /\ workers = 0
  /\ stage = "absent"
  /\ alive = {}
  /\ gpu = "none"
  /\ verdict = "none"

-----------------------------------------------------------------------------

\* Mutant: the flag is set without looking at it.
PresentAgain(t) ==
  /\ arming = "done"
  /\ t \notin presenter
  /\ workers + Cardinality(presenter) < 2
  /\ ran' = TRUE
  /\ presenter' = presenter \cup {t}
  /\ UNCHANGED <<nvVars, workers, stage, alive, gpu, verdict>>

\* Several threads may present; the exchange lets one of them through.
Present(t) ==
  /\ arming = "done"
  /\ t \notin presenter
  /\ ran = FALSE
  /\ ran' = TRUE
  /\ presenter' = presenter \cup {t}
  /\ UNCHANGED <<nvVars, workers, stage, alive, gpu, verdict>>

\* threadCreate and threadStart: on failure the probe is not tried again.
StartWorker(t) ==
  /\ t \in presenter
  /\ presenter' = presenter \ {t}
  /\ \/ workers' = workers + 1 /\ stage' = "sleeping" /\ UNCHANGED verdict
     \/ verdict' = "worker_start" /\ UNCHANGED <<workers, stage>>
  /\ UNCHANGED <<nvVars, ran, alive, gpu>>

Step(from, to) == stage = from /\ stage' = to

\* The shader header is read and checked before anything is created.
ReadHeader ==
  /\ Step("sleeping", "session") \/ Step("sleeping", "cleanup")
  /\ UNCHANGED <<nvVars, ran, presenter, workers, alive, gpu, verdict>>

\* Without a captured session the probe goes no further: the driver service
\* must not be initialised before there is one.
CheckCaptured ==
  /\ IF Captured
     THEN Step("session", "device")
     ELSE Step("session", "cleanup")
  /\ UNCHANGED <<nvVars, ran, presenter, workers, alive, gpu, verdict>>

\* dkDeviceCreate initialises the driver service, and exits it if it fails.
BorrowSession ==
  /\ Step("device", "initialize")
  /\ Borrow
  /\ UNCHANGED <<patchVars, connectVars, captureVars, ran, presenter, workers, alive, gpu, verdict>>

CreateDevice ==
  /\ Initialize
  /\ IF references' = 0
     THEN Step("initialize", "cleanup") /\ UNCHANGED alive
     ELSE Step("initialize", "layout") /\ alive' = {"device"}
  /\ UNCHANGED <<patchVars, connectVars, captureVars, ran, presenter, workers, gpu, verdict>>

\* What dkDeviceCreate does after that may fail as well; it exits the service.
DeviceFails ==
  /\ Step("initialize", "cleanup")
  /\ UNCHANGED <<nvVars, ran, presenter, workers, alive, gpu, verdict>>

\* The layout of the game's texture is rebuilt, and must come out the same.
CheckLayout ==
  /\ Step("layout", "create") \/ Step("layout", "cleanup")
  /\ UNCHANGED <<nvVars, ran, presenter, workers, alive, gpu, verdict>>

\* The next resource is created; the shader is checked with the code memory.
Create ==
  /\ Created < Len(Resources)
  /\ \/ /\ alive' = alive \cup {Resources[Created + 1]}
        /\ Step("create", IF Created + 1 = Len(Resources) THEN "list" ELSE "create")
     \/ /\ Step("create", "cleanup")
        /\ alive' \in {alive, alive \cup ({Resources[Created + 1]} \cap {"code", "result"})}
  /\ UNCHANGED <<nvVars, ran, presenter, workers, gpu, verdict>>

\* An empty command list is not submitted.
Submit ==
  /\ \/ Step("list", "submitted") /\ gpu' = "running"
     \/ Step("list", "cleanup") /\ UNCHANGED gpu
  /\ UNCHANGED <<nvVars, ran, presenter, workers, alive, verdict>>

SignalFence ==
  /\ Step("submitted", "waiting")
  /\ UNCHANGED <<nvVars, ran, presenter, workers, alive, gpu, verdict>>

GpuEnds ==
  /\ gpu = "running"
  /\ gpu' \in {"done", "faulted"}
  /\ UNCHANGED <<nvVars, ran, presenter, workers, stage, alive, verdict>>

\* Mutants: a wait that timed out cleans up; a wait without a timeout.
WaitFenceThenCleanUp ==
  /\ \/ gpu # "running" /\ Step("waiting", "verify") /\ UNCHANGED verdict
     \/ /\ Step("waiting", "cleanup")
        /\ verdict' \in {"timed_out", "wait_failed"}
  /\ UNCHANGED <<nvVars, ran, presenter, workers, alive, gpu>>
WaitFenceForever ==
  /\ gpu # "running"
  /\ Step("waiting", "verify")
  /\ UNCHANGED <<nvVars, ran, presenter, workers, alive, gpu, verdict>>

\* dkFenceWait: success only once the job is over; a timeout or a failure at
\* any time, and then nothing the GPU may still use is destroyed.
WaitFence ==
  /\ \/ gpu # "running" /\ Step("waiting", "verify") /\ UNCHANGED verdict
     \/ /\ Step("waiting", "abandoned")
        /\ verdict' \in {"timed_out", "wait_failed"}
  /\ UNCHANGED <<nvVars, ran, presenter, workers, alive, gpu>>

\* dkQueueIsInErrorState.  Mutant: it is not looked at.
IgnoreErrorState == FALSE
InErrorState == gpu = "faulted"

\* The queue's error state, then the value the job has written.
Verify ==
  /\ Step("verify", "cleanup")
  /\ verdict' \in IF InErrorState THEN {"none"} ELSE {"completed", "verified"}
  /\ UNCHANGED <<nvVars, ran, presenter, workers, alive, gpu>>

Destroy ==
  /\ stage = "cleanup"
  /\ alive # {}
  /\ alive' = alive \ {NextDestroyed}
  /\ IF NextDestroyed = "device" THEN Exit ELSE UNCHANGED serviceVars
  /\ UNCHANGED <<patchVars, connectVars, captureVars, ran, presenter, workers, stage, gpu, verdict>>

CleanedUp ==
  /\ alive = {}
  /\ Step("cleanup", "finished")
  /\ UNCHANGED <<nvVars, ran, presenter, workers, alive, gpu, verdict>>

Worker ==
  \/ ReadHeader
  \/ CheckCaptured
  \/ BorrowSession
  \/ CreateDevice
  \/ DeviceFails
  \/ CheckLayout
  \/ Create
  \/ Submit
  \/ SignalFence
  \/ WaitFence
  \/ Verify
  \/ Destroy
  \/ CleanedUp

Next ==
  \/ (ArmSession \/ GameConnects) /\ UNCHANGED probeVars
  \/ \E t \in Threads : Present(t) \/ StartWorker(t)
  \/ Worker
  \/ GpuEnds

Spec == Init /\ [][Next]_vars

\* The worker is a thread of its own, and its wait for the GPU has a timeout:
\* it keeps running whatever the game and the GPU do.
FairSpec == Spec /\ WF_vars(Worker)

-----------------------------------------------------------------------------
(***************************************************************************)
(* Properties.                                                             *)
(***************************************************************************)
Held == {Resources[i] : i \in 1 .. Len(Resources)}

\* As long as the GPU may still execute the submitted job, everything it was
\* submitted with is alive: "every submitted resource must remain alive if the
\* GPU did not confirm completion".
SubmittedStaysAlive == gpu = "running" => alive = Held

\* Nothing outlives what it was created from: no queue, memory or command
\* buffer is left, or used, after the device or the memory below it is gone.
ParentsOutlive ==
  \A i \in 1 .. Len(Resources) :
    Resources[i] \in alive => \A j \in 1 .. i : Resources[j] \in alive

\* The probe only reports a value once the job that writes it has ended well.
VerdictAfterJob == verdict \in {"completed", "verified"} => gpu = "done"

\* One probe per process, however many threads present at once, and whenever
\* it returns it has either given everything back, the driver service
\* included, or kept everything for the GPU.
GivesBackOrKeeps ==
  /\ workers <= 1
  /\ stage = "finished" => alive = {} /\ references = 0
  /\ stage = "abandoned" => alive = Held /\ references = 1

\* The probe ends by itself, also when the GPU never finishes the job.
ProbeEnds == stage = "sleeping" ~> stage \in {"finished", "abandoned"}

-----------------------------------------------------------------------------
(***************************************************************************)
(* The inductive invariant behind the safety properties: where main is in  *)
(* arm, who presents, and where the worker is in run determine what there  *)
(* is.  What has been created are the first so many resources.             *)
(***************************************************************************)
FirstOf(n) == {Resources[i] : i \in 1 .. n}

PatchInv ==
  /\ arming \in {"resume", "branch"} => trampoline
  /\ arming = "branch" => resume
  /\ HookCanReturn

\* Until the worker runs there is at most one thread that is about to start it.
OnceInv ==
  /\ ran = FALSE => presenter = {} /\ workers = 0
  /\ presenter # {} => workers = 0 /\ \E t \in Threads : presenter = {t}
  /\ workers \in {0, 1}
  /\ workers = 0 => stage = "absent"

\* What is created, whether the service is initialised, and what the job may be.
Having(n, jobs) ==
  /\ alive = FirstOf(n)
  /\ references = IF n = 0 THEN 0 ELSE 1
  /\ gpu \in jobs
Over == {"done", "faulted"}
WorkerInv ==
  \/ stage \in {"absent", "sleeping", "session", "device", "initialize"} /\ Having(0, {"none"})
  \/ stage = "layout" /\ Having(1, {"none"})
  \/ stage = "create" /\ \E n \in 1 .. Len(Resources) - 1 : Having(n, {"none"})
  \/ stage = "list" /\ Having(Len(Resources), {"none"})
  \/ stage \in {"submitted", "waiting", "abandoned"} /\ Having(Len(Resources), {"running"} \cup Over)
  \/ stage = "verify" /\ Having(Len(Resources), Over)
  \/ stage = "cleanup" /\ \E n \in 0 .. Len(Resources) : Having(n, {"none"} \cup Over)
  \/ stage = "finished" /\ Having(0, {"none"} \cup Over)

\* Once the worker has seen a session there is one for good, and it is what it
\* loads, what the service speaks over and what nobody closes.
SessionInv ==
  /\ stage \in {"device", "initialize"} => session # Invalid
  /\ stage = "initialize" => loaded = session
  /\ references # 0 => session # Invalid /\ service = session
  /\ closed = {}

IInv == PatchInv /\ OnceInv /\ WorkerInv /\ SessionInv /\ VerdictAfterJob

=============================================================================
