----------------------------- MODULE NvSession ------------------------------
(***************************************************************************)
(* How the plugin comes by a session with the graphics driver: it branches *)
(* the game's own ConnectToHipcService to a hook, keeps the first "nvdrv"  *)
(* handle that goes past, and lends it to libnx in place of one of its own *)
(* (nv_session.cpp, nv_service.c).                                         *)
(*                                                                         *)
(* main writes the branch before the game runs; game threads connect to    *)
(* services at any time after that; a client initialises and exits the     *)
(* driver service from a thread of the plugin.                             *)
(***************************************************************************)
EXTENDS Naturals

CONSTANTS
  Threads,      \* game threads
  MaxHandles    \* bound on the services the game connects to

ASSUME MaxHandlesAssumption == MaxHandles \in Nat

Invalid == 0    \* INVALID_HANDLE

VARIABLES
  arming,       \* where main is in nv_session::arm
  trampoline,   \* the displaced instructions are in the trampoline
  resume,       \* the trampoline's return address is set
  branched,     \* the target's first instructions branch to the hook
  pc,           \* where each game thread is in the connect hook
  out,          \* the handle the trampoline gave it
  opened,       \* number of handles given to the game so far
  session,      \* g_session
  captureResult,\* g_capture_result
  closed,       \* handles of the game that were closed for it
  references,   \* g_nv_references
  service,      \* g_nv_service.session
  loaded        \* borrow's local: what it read from g_session

patchVars == <<arming, trampoline, resume, branched>>
connectVars == <<pc, out, opened>>
captureVars == <<session, captureResult>>
serviceVars == <<closed, references, service, loaded>>
nvVars == <<patchVars, connectVars, captureVars, serviceVars>>

NvInit ==
  /\ arming = "find"
  /\ trampoline = FALSE
  /\ resume = FALSE
  /\ branched = FALSE
  /\ pc = [t \in Threads |-> "game"]
  /\ out = [t \in Threads |-> Invalid]
  /\ opened = 0
  /\ session = Invalid
  /\ captureResult = "not_initialized"
  /\ closed = {}
  /\ references = 0
  /\ service = Invalid
  /\ loaded = Invalid

-----------------------------------------------------------------------------
(***************************************************************************)
(* arm: three writes, each of which may be refused.                        *)
(***************************************************************************)
ArmFailure(result) ==
  /\ captureResult' = result
  /\ arming' = "done"

FindTarget ==
  /\ arming = "find"
  /\ \/ arming' = "trampoline" /\ UNCHANGED captureResult
     \/ ArmFailure("not_found")
     \/ ArmFailure("bad_reloc")
  /\ UNCHANGED <<trampoline, resume, branched, connectVars, session, serviceVars>>

\* Mutant: a refused write of the displaced instructions goes unnoticed.
WriteTrampolineUnchecked ==
  /\ arming = "trampoline"
  /\ trampoline' \in BOOLEAN
  /\ arming' = "resume"
  /\ UNCHANGED <<resume, branched, connectVars, captureVars, serviceVars>>

WriteTrampoline ==
  /\ arming = "trampoline"
  /\ \/ trampoline' = TRUE /\ arming' = "resume" /\ UNCHANGED captureResult
     \/ ArmFailure("write_failed") /\ UNCHANGED trampoline
  /\ UNCHANGED <<resume, branched, connectVars, session, serviceVars>>

WriteResume ==
  /\ arming = "resume"
  /\ \/ resume' = TRUE /\ arming' = "branch" /\ UNCHANGED captureResult
     \/ ArmFailure("write_failed") /\ UNCHANGED resume
  /\ UNCHANGED <<trampoline, branched, connectVars, session, serviceVars>>

WriteBranch ==
  /\ arming = "branch"
  /\ \/ branched' = TRUE /\ arming' = "done" /\ UNCHANGED captureResult
     \/ ArmFailure("write_failed") /\ UNCHANGED branched
  /\ UNCHANGED <<trampoline, resume, connectVars, session, serviceVars>>

ArmSession == FindTarget \/ WriteTrampoline \/ WriteResume \/ WriteBranch

-----------------------------------------------------------------------------
(***************************************************************************)
(* The game connects to services, through the hook or not.                 *)
(***************************************************************************)
\* The game's function opens a session, or fails.
Connect(t) ==
  /\ arming = "done"
  /\ pc[t] = "game"
  /\ opened < MaxHandles
  /\ opened' = opened + 1
  /\ IF branched
     THEN \E name \in {"nvdrv", "other"}, succeeded \in BOOLEAN :
            /\ out' = [out EXCEPT ![t] = opened + 1]
            /\ pc' = [pc EXCEPT ![t] =
                        IF succeeded /\ name = "nvdrv" THEN "connected" ELSE "game"]
     ELSE UNCHANGED <<pc, out>>
  /\ UNCHANGED <<patchVars, captureVars, serviceVars>>

\* compare_exchange_strong: the first nvdrv session stays.
Capture(t) ==
  /\ pc[t] = "connected"
  /\ IF session = Invalid
     THEN session' = out[t] /\ pc' = [pc EXCEPT ![t] = "captured"]
     ELSE pc' = [pc EXCEPT ![t] = "game"] /\ UNCHANGED session
  /\ UNCHANGED <<patchVars, out, opened, captureResult, serviceVars>>

StoreResult(t) ==
  /\ pc[t] = "captured"
  /\ captureResult' = "ok"
  /\ pc' = [pc EXCEPT ![t] = "game"]
  /\ UNCHANGED <<patchVars, out, opened, session, serviceVars>>

GameConnects == \E t \in Threads : Connect(t) \/ Capture(t) \/ StoreResult(t)

-----------------------------------------------------------------------------
(***************************************************************************)
(* The service as libnx sees it.  A client's call of nvInitialize is a     *)
(* Borrow and then an Initialize, because borrow loads the session and the *)
(* capture result one after the other.                                     *)
(***************************************************************************)
Borrow ==
  /\ loaded' = session
  /\ UNCHANGED <<closed, references, service>>

\* captured().  Mutant: taken for granted once the game runs.
CapturedByNow == arming = "done"
Captured == session # Invalid

\* What borrow returns; it is success whenever the capture result is.
Borrowed == IF loaded # Invalid THEN "ok" ELSE captureResult

Initialize ==
  /\ IF references # 0
     THEN references' = references + 1 /\ UNCHANGED service
     ELSE IF Borrowed = "ok"
          THEN references' = 1 /\ service' = loaded
          ELSE UNCHANGED <<references, service>>
  /\ UNCHANGED <<closed, loaded>>

\* The service does not own the handle, so closing it closes nothing.
OwnHandle == FALSE

Exit ==
  /\ references' = IF references = 0 THEN 0 ELSE references - 1
  /\ IF references = 1
     THEN /\ service' = Invalid
          /\ closed' = IF OwnHandle THEN closed \cup {service} ELSE closed
     ELSE UNCHANGED <<service, closed>>
  /\ UNCHANGED loaded

-----------------------------------------------------------------------------
\* The game only branches into the hook once the trampoline it goes on through
\* is complete, however many of the three writes are refused.
HookCanReturn == branched => trampoline /\ resume

\* While the driver service is initialised it speaks over the session that was
\* captured, which is a real one and which the game still has open.
ServiceOverCapturedSession ==
  references > 0 => service # Invalid /\ service = session /\ service \notin closed

=============================================================================
