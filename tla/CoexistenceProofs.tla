------------------------- MODULE CoexistenceProofs --------------------------
(***************************************************************************)
(* The probe is safe next to the game: however many threads connect and    *)
(* present, whichever step fails and whatever the GPU does with the job.   *)
(***************************************************************************)
EXTENDS Coexistence, FiniteSetTheorems, TLAPS

-----------------------------------------------------------------------------
(***************************************************************************)
(* The first so many resources.                                            *)
(***************************************************************************)
LEMMA Order ==
  /\ Len(Resources) = 6 /\ Len(DestroyOrder) = 6
  /\ \A i \in 1 .. 6 : DestroyOrder[i] = Resources[7 - i]
  /\ \A i, j \in 1 .. 6 : Resources[i] = Resources[j] => i = j
  /\ Resources[1] = "device"
BY DEF Resources, DestroyOrder

LEMMA InFirst ==
  ASSUME NEW n \in 0 .. 6, NEW i \in 1 .. 6
  PROVE  Resources[i] \in FirstOf(n) <=> i <= n
BY Order DEF FirstOf

LEMMA NoneAndAll == FirstOf(0) = {} /\ FirstOf(6) = Held
BY Order DEF FirstOf, Held

LEMMA Extended ==
  ASSUME NEW n \in 0 .. 5
  PROVE  FirstOf(n + 1) = FirstOf(n) \cup {Resources[n + 1]}
BY DEF FirstOf

LEMMA Counted ==
  ASSUME NEW n \in 0 .. 6
  PROVE  Cardinality(FirstOf(n)) = n
<1> DEFINE Counts(k) == IsFiniteSet(FirstOf(k)) /\ Cardinality(FirstOf(k)) = k
<1>1. Counts(0)
  BY NoneAndAll, FS_EmptySet
<1>2. ASSUME NEW k \in 0 .. 5, Counts(k) PROVE Counts(k + 1)
  <2>1. Resources[k + 1] \notin FirstOf(k)
    BY InFirst
  <2>2. QED
    BY <1>2, <2>1, Extended, FS_AddElement
<1> HIDE DEF Counts
<1>3. Counts(1) /\ Counts(2) /\ Counts(3)
  BY <1>1, <1>2
<1>4. Counts(4) /\ Counts(5) /\ Counts(6)
  BY <1>3, <1>2
<1>5. Counts(n)
  BY <1>1, <1>3, <1>4
<1>6. QED
  BY <1>5 DEF Counts

\* What is destroyed next is what was created last.
LEMMA LastFirst ==
  ASSUME NEW n \in 1 .. 6, alive = FirstOf(n)
  PROVE  /\ NextDestroyed = Resources[n]
         /\ alive \ {NextDestroyed} = FirstOf(n - 1)
<1> DEFINE Latest(i) == /\ DestroyOrder[i] \in alive
                      /\ \A j \in 1 .. i - 1 : DestroyOrder[j] \notin alive
<1>1. \A i \in 1 .. 6 : DestroyOrder[i] \in alive <=> 7 - i <= n
  <2> TAKE i \in 1 .. 6
  <2>1. 7 - i \in 1 .. 6
    OBVIOUS
  <2>2. QED
    BY <2>1, InFirst, Order
<1>2. Latest(7 - n)
  BY <1>1
<1>3. \A i \in 1 .. 6 : Latest(i) => i = 7 - n
  <2>1. SUFFICES ASSUME NEW i \in 1 .. 6, Latest(i) PROVE i = 7 - n
    OBVIOUS
  <2>2. 7 - i <= n
    BY <2>1, <1>1
  <2>3. ~ 7 - n \in 1 .. i - 1
    BY <2>1, <1>1
  <2>4. QED
    BY <2>2, <2>3
<1>4. (CHOOSE i \in 1 .. Len(DestroyOrder) : Latest(i)) = 7 - n
  <2>1. 7 - n \in 1 .. 6 /\ 1 .. Len(DestroyOrder) = 1 .. 6
    BY Order
  <2> HIDE DEF Latest
  <2>2. QED
    BY <1>2, <1>3, <2>1
<1>5. 7 - (7 - n) = n /\ 7 - n \in 1 .. 6
  OBVIOUS
<1>6. NextDestroyed = Resources[n]
  BY <1>4, <1>5, Order DEF NextDestroyed
<1>7. n - 1 \in 0 .. 5 /\ FirstOf(n) = FirstOf(n - 1) \cup {Resources[n]}
  BY Extended
<1>8. Resources[n] \notin FirstOf(n - 1)
  BY <1>7, InFirst
<1>9. QED
  BY <1>6, <1>7, <1>8

-----------------------------------------------------------------------------
(***************************************************************************)
(* The invariant.                                                          *)
(***************************************************************************)
LEMMA Initially == Init => IInv
BY NoneAndAll DEF Init, NvInit, IInv, PatchInv, HookCanReturn, OnceInv, WorkerInv, Having,
                  SessionInv, VerdictAfterJob, Invalid

\* main arms the capture and the game connects.
LEMMA Sessions ==
  ASSUME IInv, ArmSession \/ GameConnects, UNCHANGED probeVars
  PROVE  IInv'
<1>1. PatchInv'
  BY DEF IInv, PatchInv, HookCanReturn, ArmSession, FindTarget, WriteTrampoline, WriteResume,
         WriteBranch, ArmFailure, GameConnects, Connect, Capture, StoreResult, patchVars
<1>2. UNCHANGED serviceVars /\ (session # Invalid => session' = session)
  BY DEF ArmSession, FindTarget, WriteTrampoline, WriteResume, WriteBranch, GameConnects,
         Connect, Capture, StoreResult, captureVars
<1>3. SessionInv'
  BY <1>2 DEF IInv, SessionInv, serviceVars, probeVars
<1>4. OnceInv' /\ WorkerInv' /\ VerdictAfterJob'
  BY <1>2 DEF IInv, OnceInv, WorkerInv, Having, VerdictAfterJob, serviceVars, probeVars
<1>5. QED
  BY <1>1, <1>3, <1>4 DEF IInv

\* Threads present.
LEMMA Presents ==
  ASSUME IInv, NEW t \in Threads, Present(t) \/ StartWorker(t)
  PROVE  IInv'
<1>1. PatchInv' /\ UNCHANGED nvVars
  BY DEF IInv, PatchInv, HookCanReturn, Present, StartWorker, nvVars, patchVars
<1>2. CASE Present(t)
  <2>1. OnceInv'
    <3>1. presenter = {} /\ workers = 0 /\ stage = "absent"
      BY <1>2 DEF Present, IInv, OnceInv
    <3>2. ran' = TRUE /\ presenter' = {t} /\ workers' = workers /\ stage' = stage
      BY <1>2, <3>1 DEF Present
    <3>3. QED
      BY <3>1, <3>2 DEF OnceInv
  <2>2. WorkerInv' /\ SessionInv' /\ VerdictAfterJob'
    BY <1>1, <1>2 DEF Present, IInv, WorkerInv, Having, SessionInv, VerdictAfterJob, nvVars,
                      serviceVars, captureVars
  <2>3. QED
    BY <1>1, <2>1, <2>2 DEF IInv
<1>3. CASE StartWorker(t)
  <2>1. stage = "absent" /\ workers = 0 /\ presenter = {t} /\ ran # FALSE
    BY <1>3 DEF StartWorker, IInv, OnceInv
  <2>2. OnceInv'
    <3>1. presenter' = {} /\ ran' # FALSE
      BY <1>3, <2>1 DEF StartWorker
    <3>2. workers' = 1 \/ (workers' = 0 /\ stage' = "absent")
      BY <1>3, <2>1 DEF StartWorker
    <3>3. /\ workers' \in {0, 1}
          /\ workers' = 0 => stage' = "absent"
      BY <3>2
    <3>4. QED
      BY <3>1, <3>3 DEF OnceInv
  <2>3. WorkerInv' /\ SessionInv' /\ VerdictAfterJob'
    BY <1>1, <1>3, <2>1 DEF StartWorker, IInv, WorkerInv, Having, SessionInv, VerdictAfterJob,
                            nvVars, serviceVars, captureVars
  <2>4. QED
    BY <1>1, <2>2, <2>3 DEF IInv
<1>4. QED
  BY <1>2, <1>3

\* The worker runs once it was started.
LEMMA WorkerAlone ==
  ASSUME OnceInv, stage # "absent", stage' # "absent", UNCHANGED <<ran, presenter, workers>>
  PROVE  OnceInv'
BY DEF OnceInv

\* The steps of the worker that neither create nor destroy.
LEMMA Checks ==
  ASSUME IInv,
         \/ ReadHeader \/ CheckCaptured \/ BorrowSession \/ DeviceFails \/ CheckLayout
         \/ Submit \/ SignalFence \/ WaitFence \/ Verify
  PROVE  IInv'
<1>1. PatchInv' /\ OnceInv'
  <2>1. UNCHANGED <<patchVars, ran, presenter, workers>> /\ stage # "absent" /\ stage' # "absent"
    BY DEF ReadHeader, CheckCaptured, BorrowSession, DeviceFails, CheckLayout, Submit,
           SignalFence, WaitFence, Verify, Step, nvVars, patchVars
  <2>2. QED
    BY <2>1, WorkerAlone DEF IInv, PatchInv, HookCanReturn, patchVars
<1>2. SessionInv'
  BY DEF ReadHeader, CheckCaptured, Captured, BorrowSession, Borrow, DeviceFails, CheckLayout,
         Submit, SignalFence, WaitFence, Verify, Step, IInv, SessionInv, nvVars, serviceVars,
         captureVars
<1>3. VerdictAfterJob'
  BY DEF ReadHeader, CheckCaptured, BorrowSession, DeviceFails, CheckLayout, Submit,
         SignalFence, WaitFence, Verify, InErrorState, Step, IInv, VerdictAfterJob, WorkerInv,
         Having, Over
<1>4. WorkerInv'
  <2>1. alive' = alive /\ references' = references
    BY DEF ReadHeader, CheckCaptured, BorrowSession, Borrow, DeviceFails, CheckLayout, Submit,
           SignalFence, WaitFence, Verify, nvVars, serviceVars
  <2>2. CASE ReadHeader \/ CheckCaptured \/ BorrowSession \/ DeviceFails \/ CheckLayout
    <3>1. gpu' = gpu
      BY <2>2 DEF ReadHeader, CheckCaptured, BorrowSession, DeviceFails, CheckLayout
    <3>2. QED
      BY <2>1, <2>2, <3>1, Order DEF ReadHeader, CheckCaptured, BorrowSession, DeviceFails,
         CheckLayout, Step, IInv, WorkerInv, Having
  <2>3. CASE Submit \/ SignalFence \/ WaitFence \/ Verify
    BY <2>1, <2>3, Order DEF Submit, SignalFence, WaitFence, Verify, Step, IInv, WorkerInv,
       Having, Over
  <2>4. QED
    BY <2>2, <2>3
<1>5. QED
  BY <1>1, <1>2, <1>3, <1>4 DEF IInv

LEMMA DeviceCreated == IInv /\ CreateDevice => IInv'
<1> SUFFICES ASSUME IInv, CreateDevice PROVE IInv'
  OBVIOUS
<1>1. stage = "initialize" /\ stage' \in {"cleanup", "layout"} /\ references = 0
      /\ session # Invalid /\ loaded = session /\ closed = {}
  BY DEF CreateDevice, Step, IInv, WorkerInv, SessionInv, Having
<1>2. references' = 1 /\ service' = session /\ closed' = {} /\ session' = session
  BY <1>1 DEF CreateDevice, Initialize, Borrowed, captureVars
<1>3. stage' = "layout" /\ alive' = {"device"} /\ gpu' = gpu
  BY <1>2 DEF CreateDevice, Step
<1>4. FirstOf(1) = {"device"}
  BY Order DEF FirstOf
<1>5. PatchInv' /\ OnceInv' /\ VerdictAfterJob'
  BY <1>1, <1>3, WorkerAlone DEF CreateDevice, IInv, PatchInv, HookCanReturn, VerdictAfterJob,
                                 patchVars
<1>6. WorkerInv'
  BY <1>1, <1>2, <1>3, <1>4 DEF IInv, WorkerInv, Having
<1>7. SessionInv'
  BY <1>1, <1>2, <1>3 DEF SessionInv
<1>8. QED
  BY <1>5, <1>6, <1>7 DEF IInv

LEMMA ResourceCreated == IInv /\ Create => IInv'
<1> SUFFICES ASSUME IInv, Create PROVE IInv'
  OBVIOUS
<1>1. stage = "create" /\ stage' \in {"create", "list", "cleanup"}
      /\ UNCHANGED <<nvVars, ran, presenter, workers, gpu, verdict>>
  BY DEF Create, Step
<1>2. PatchInv' /\ OnceInv' /\ SessionInv' /\ VerdictAfterJob'
  BY <1>1, WorkerAlone DEF IInv, PatchInv, HookCanReturn, SessionInv, VerdictAfterJob, nvVars,
                           patchVars, captureVars, serviceVars
<1>3. PICK n \in 1 .. 5 : Having(n, {"none"})
  BY <1>1, Order DEF IInv, WorkerInv
<1>4. Created = n /\ FirstOf(n + 1) = alive \cup {Resources[n + 1]}
  BY <1>3, Counted, Extended DEF Having, Created
<1>5. references' = 1 /\ gpu' = "none" /\ alive = FirstOf(n)
  BY <1>1, <1>3 DEF Having, nvVars, serviceVars
<1>6. WorkerInv'
  <2>1. CASE alive' = FirstOf(n + 1) /\ stage' = IF n + 1 = 6 THEN "list" ELSE "create"
    BY <2>1, <1>5, Order DEF WorkerInv, Having
  <2>2. CASE stage' = "cleanup" /\ alive' \in {FirstOf(n), FirstOf(n + 1)}
    <3>1. PICK k \in {n, n + 1} : alive' = FirstOf(k)
      BY <2>2
    <3>2. k \in 0 .. 6 /\ k # 0
      BY <3>1
    <3>3. QED
      BY <2>2, <3>1, <3>2, <1>5, Order DEF WorkerInv, Having
  <2>3. \/ alive' = FirstOf(n + 1) /\ stage' = IF n + 1 = 6 THEN "list" ELSE "create"
        \/ stage' = "cleanup" /\ alive' \in {FirstOf(n), FirstOf(n + 1)}
    BY <1>4, <1>5, Order DEF Create, Step
  <2>4. QED
    BY <2>1, <2>2, <2>3
<1>7. QED
  BY <1>2, <1>6 DEF IInv

LEMMA ResourceDestroyed == IInv /\ Destroy => IInv'
<1> SUFFICES ASSUME IInv, Destroy PROVE IInv'
  OBVIOUS
<1>1. stage = "cleanup" /\ alive # {} /\ alive' = alive \ {NextDestroyed}
      /\ UNCHANGED <<patchVars, captureVars, ran, presenter, workers, stage, gpu, verdict>>
  BY DEF Destroy
<1>2. PICK n \in 0 .. 6 : Having(n, {"none"} \cup Over)
  BY <1>1, Order DEF IInv, WorkerInv
<1>3. n \in 1 .. 6 /\ alive = FirstOf(n) /\ references = 1
  BY <1>1, <1>2, NoneAndAll DEF Having
<1>4. NextDestroyed = Resources[n] /\ alive' = FirstOf(n - 1)
  BY <1>1, <1>3, LastFirst
<1>5. NextDestroyed = "device" <=> n = 1
  BY <1>3, <1>4, Order
<1>6. /\ references' = IF n = 1 THEN 0 ELSE 1
      /\ n # 1 => service' = service
      /\ closed' = closed
  BY <1>3, <1>5 DEF Destroy, Exit, OwnHandle, serviceVars
<1>7. PatchInv' /\ OnceInv' /\ VerdictAfterJob'
  BY <1>1, WorkerAlone DEF IInv, PatchInv, HookCanReturn, VerdictAfterJob, patchVars
<1>8. WorkerInv'
  <2>1. n - 1 \in 0 .. 6 /\ Having(n - 1, {"none"} \cup Over)'
    BY <1>1, <1>2, <1>3, <1>4, <1>6 DEF Having
  <2>2. QED
    BY <1>1, <2>1, Order DEF WorkerInv
<1>9. SessionInv'
  BY <1>1, <1>3, <1>6 DEF IInv, SessionInv, captureVars
<1>10. QED
  BY <1>7, <1>8, <1>9 DEF IInv

LEMMA AllDestroyed == IInv /\ CleanedUp => IInv'
<1> SUFFICES ASSUME IInv, CleanedUp PROVE IInv'
  OBVIOUS
<1>1. stage = "cleanup" /\ stage' = "finished" /\ alive = {}
      /\ UNCHANGED <<nvVars, ran, presenter, workers, alive, gpu, verdict>>
  BY DEF CleanedUp, Step
<1>2. PICK n \in 0 .. 6 : Having(n, {"none"} \cup Over)
  BY <1>1, Order DEF IInv, WorkerInv
<1>3. n = 0
  <2>1. Cardinality({}) = n
    BY <1>1, <1>2, Counted DEF Having
  <2>2. QED
    BY <2>1, FS_EmptySet
<1>4. WorkerInv'
  BY <1>1, <1>2, <1>3 DEF WorkerInv, Having, nvVars, serviceVars
<1>5. PatchInv' /\ OnceInv' /\ SessionInv' /\ VerdictAfterJob'
  BY <1>1, WorkerAlone DEF IInv, PatchInv, HookCanReturn, SessionInv, VerdictAfterJob, nvVars,
                           patchVars, captureVars, serviceVars
<1>6. QED
  BY <1>4, <1>5 DEF IInv

LEMMA JobEnds == IInv /\ GpuEnds => IInv'
<1> SUFFICES ASSUME IInv, GpuEnds PROVE IInv'
  OBVIOUS
<1>1. gpu = "running" /\ gpu' \in Over
      /\ UNCHANGED <<nvVars, ran, presenter, workers, stage, alive, verdict>>
  BY DEF GpuEnds, Over
<1>2. stage \in {"submitted", "waiting", "abandoned"} /\ Having(6, {"running"} \cup Over)
  BY <1>1, Order DEF IInv, WorkerInv, Having, Over
<1>3. WorkerInv'
  BY <1>1, <1>2, Order DEF WorkerInv, Having, nvVars, serviceVars
<1>4. PatchInv' /\ OnceInv' /\ SessionInv' /\ VerdictAfterJob'
  BY <1>1 DEF IInv, PatchInv, HookCanReturn, OnceInv, SessionInv, VerdictAfterJob, Over, nvVars,
              patchVars, captureVars, serviceVars
<1>5. QED
  BY <1>3, <1>4 DEF IInv

LEMMA Preserved == IInv /\ [Next]_vars => IInv'
<1> SUFFICES ASSUME IInv, [Next]_vars PROVE IInv'
  OBVIOUS
<1>1. CASE (ArmSession \/ GameConnects) /\ UNCHANGED probeVars
  BY <1>1, Sessions
<1>2. CASE \E t \in Threads : Present(t) \/ StartWorker(t)
  BY <1>2, Presents
<1>3. CASE Worker
  BY <1>3, Checks, DeviceCreated, ResourceCreated, ResourceDestroyed, AllDestroyed DEF Worker
<1>4. CASE GpuEnds
  BY <1>4, JobEnds
<1>5. CASE UNCHANGED vars
  BY <1>5 DEF vars, nvVars, patchVars, connectVars, captureVars, serviceVars, probeVars, IInv,
              PatchInv, HookCanReturn, OnceInv, WorkerInv, Having, SessionInv, VerdictAfterJob
<1>6. QED
  BY <1>1, <1>2, <1>3, <1>4, <1>5 DEF Next

-----------------------------------------------------------------------------
(***************************************************************************)
(* The theorems.                                                           *)
(***************************************************************************)
\* The invariant holds for any number of threads and connections.
THEOREM Invariance == Spec => []IInv
BY Initially, Preserved, PTL DEF Spec

\* However many of the three writes of arm are refused, a game that enters the
\* hook comes back from it.
THEOREM HookReturns == Spec => []HookCanReturn
<1>1. IInv => HookCanReturn
  BY DEF IInv, PatchInv
<1>2. QED
  BY <1>1, Invariance, PTL

\* Although borrow reads the session and the result of the capture one after the
\* other, the driver service only ever speaks over the captured session.
THEOREM BorrowsCapturedSession == Spec => []ServiceOverCapturedSession
<1>1. IInv => ServiceOverCapturedSession
  <2>1. SUFFICES ASSUME IInv, references > 0 PROVE references # 0
    BY DEF IInv, SessionInv, ServiceOverCapturedSession
  <2>2. references \in {0, 1}
    BY <2>1 DEF IInv, WorkerInv, Having
  <2>3. QED
    BY <2>1, <2>2
<1>2. QED
  BY <1>1, Invariance, PTL

\* Nothing the GPU may still use is destroyed, whenever the wait for it ends.
THEOREM NothingUnderTheGpu == Spec => []SubmittedStaysAlive
<1>1. IInv => SubmittedStaysAlive
  BY Order, NoneAndAll DEF IInv, WorkerInv, Having, Over, SubmittedStaysAlive
<1>2. QED
  BY <1>1, Invariance, PTL

\* Children go before their parents, whichever creation failed.
THEOREM ChildrenFirst == Spec => []ParentsOutlive
<1>1. IInv => ParentsOutlive
  <2>1. SUFFICES ASSUME IInv PROVE ParentsOutlive
    OBVIOUS
  <2>2. PICK n \in 0 .. 6 : alive = FirstOf(n)
    BY <2>1, Order DEF IInv, WorkerInv, Having
  <2>3. QED
    BY <2>2, InFirst, Order DEF ParentsOutlive
<1>2. QED
  BY <1>1, Invariance, PTL

\* A value is only reported of a job that ended well.
THEOREM ReportsEndedJobs == Spec => []VerdictAfterJob
<1>1. IInv => VerdictAfterJob
  BY DEF IInv
<1>2. QED
  BY <1>1, Invariance, PTL

\* One worker, which when it returns has given everything back or keeps it for
\* the GPU.
THEOREM NothingHalf == Spec => []GivesBackOrKeeps
<1>1. IInv => GivesBackOrKeeps
  BY Order, NoneAndAll DEF IInv, OnceInv, WorkerInv, Having, GivesBackOrKeeps
<1>2. QED
  BY <1>1, Invariance, PTL

=============================================================================
