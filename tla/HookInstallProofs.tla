-------------------------- MODULE HookInstallProofs --------------------------
(***************************************************************************)
(* However many threads, sites and functions there are, and wherever arm   *)
(* and install fail: no hook the game can reach is without the function it *)
(* displaced, and only one thread installs.                                *)
(***************************************************************************)
EXTENDS HookInstall, TLAPS

USE DEF armVars, slotVars, threadVars, hookVars, queryVars, Goto, References

(***************************************************************************)
(* What main, the thunk and the hooks leave alone.                         *)
(***************************************************************************)
Triggering(t) == CallTrigger(t) \/ InTrigger(t)
Looking(t) == CallBootstrap(t) \/ InLookup(t) \/ \E f \in Functions : LookUp(t, f)
LookSteps == {"game", "bootstrapping", "asking", "counting", "binding", "crashed"}

\* Up to the start of the game only main runs, and it stores nothing to a slot.
LEMMA ArmFrame ==
  ASSUME Arm
  PROVE  /\ phase # "running" /\ UNCHANGED <<threadVars, hookVars, queryVars>>
         /\ ignored' = ignored /\ UNCHANGED <<redirected, unseen>>
         /\ BindImports \/ (phase' # "running" /\ UNCHANGED <<slots, loader>>)
BY DEF Arm, FindSites, FindOriginal, RewriteSite, Armed, RollBackSite, RolledBack, BindImports

\* The thunk and the installation leave the lookups alone.
LEMMA TriggerFrame ==
  ASSUME NEW t \in Threads, Triggering(t)
  PROVE  /\ UNCHANGED <<armVars, loader, asked, lookup, table, gave, queryVars>>
         /\ pc[t] # "game" \/ phase = "running"
BY DEF Triggering, InTrigger, CallTrigger, Enter, RestoreSite, RunCallback, Install,
       RedirectSite, Installed, Chain

\* The lookups leave the slots and the installation alone.
LEMMA LookFrame ==
  ASSUME NEW t \in Threads, Looking(t), ThreadTypes
  PROVE  /\ UNCHANGED <<armVars, slotVars, cursor, fired, installs, bootstrap>>
         /\ pc[t] \in LookSteps /\ pc'[t] \in LookSteps
         /\ \A u \in Threads : u # t => pc'[u] = pc[u]
         /\ \/ pc[t] # "game" \/ phase = "running"
            \/ gave["nvnDeviceGetProcAddress"] # {}
BY DEF ThreadTypes, Looking, LookSteps, InLookup, CallBootstrap, BootstrapLoader, AttemptQueries,
       CountMissing, BindHook, LookUp

\* A store that becomes visible to a thread changes nothing else.
LEMMA SeeFrame ==
  ASSUME NEW t \in Threads, SeeStore(t), TypeOK
  PROVE  /\ UNCHANGED <<armVars, slots, loader, redirected, threadVars, hookVars, queryVars>>
         /\ unseen' \in [Threads -> SUBSET Stores]
         /\ \A u \in Threads : unseen'[u] \subseteq unseen[u]
BY DEF SeeStore, TypeOK, SlotTypes

\* A step is one of main, of a thread in the trigger, of one in a lookup, or of a
\* store that becomes visible.
LEMMA Split ==
  ASSUME Next
  PROVE  Arm \/ \E t \in Threads : SeeStore(t) \/ Triggering(t) \/ Looking(t)
BY DEF Next, Game, Triggering, Looking

\* Where a store is added, and to whom.
LEMMA StoredFrame ==
  ASSUME TypeOK, NEW t \in Threads, NEW store \in Stores, Stored(t, store)
  PROVE  /\ unseen' \in [Threads -> SUBSET Stores]
         /\ unseen'[t] = unseen[t]
         /\ \A u \in Threads : unseen'[u] \subseteq unseen[u] \cup {store}
BY DEF Stored, TypeOK, SlotTypes

-----------------------------------------------------------------------------
(***************************************************************************)
(* Types.                                                                  *)
(***************************************************************************)
LEMMA ArmTyped == TypeOK /\ [Next]_vars => ArmTypes'
<1> SUFFICES ASSUME TypeOK, [Next]_vars PROVE ArmTypes'
  OBVIOUS
<1> USE DEF TypeOK, ArmTypes, Phases, Address
<1>0. ignored' \in [Imports -> Nat]
  BY Split, ArmFrame, TriggerFrame, LookFrame, SeeFrame DEF vars
<1>1. CASE FindSites
  BY <1>1 DEF FindSites
<1>2. CASE FindOriginal
  BY <1>2 DEF FindOriginal
<1>3. CASE RewriteSite
  <2>1. at \in 1 .. imported /\ UNCHANGED <<imported, sites, chain, armed>>
    BY <1>3 DEF RewriteSite
  <2>2. phase' \in Phases
    BY <1>3 DEF RewriteSite
  <2>3. at' \in Nat \ {0}
    BY <1>3 DEF RewriteSite
  <2>4. rebased' \subseteq 1 .. imported
    <3>1. rebased' = rebased \/ rebased' = rebased \cup {at}
      BY <1>3 DEF RewriteSite
    <3>2. QED
      BY <2>1, <3>1
  <2>5. QED
    BY <1>0, <2>1, <2>2, <2>3, <2>4
<1>4. CASE Armed
  BY <1>4 DEF Armed
<1>5. CASE RollBackSite
  <2>1. at' \in Nat \ {0} /\ UNCHANGED <<imported, phase, sites, chain, armed>>
    BY <1>5 DEF RollBackSite
  <2>2. rebased' \subseteq rebased
    BY <1>5 DEF RollBackSite
  <2>3. QED
    BY <1>0, <2>1, <2>2
<1>6. CASE RolledBack
  BY <1>6 DEF RolledBack
<1>7. CASE BindImports
  BY <1>7 DEF BindImports
<1>8. CASE UNCHANGED armVars
  BY <1>8
<1>9. QED
  BY <1>0, <1>1, <1>2, <1>3, <1>4, <1>5, <1>6, <1>7, <1>8, Split, TriggerFrame, LookFrame,
     SeeFrame DEF vars, Arm

LEMMA SlotsTyped == TypeOK /\ ArmTypes' /\ [Next]_vars => SlotTypes'
<1> SUFFICES ASSUME TypeOK, ArmTypes', [Next]_vars PROVE SlotTypes'
  OBVIOUS
<1>1. CASE BindImports
  <2>1. /\ slots' \in [References -> Address] /\ References' = References
        /\ loader' \in [DOMAIN loader -> {"null", "original"}]
        /\ UNCHANGED <<redirected, unseen>>
    BY <1>1 DEF BindImports, BoundTo, Address
  <2>2. Stores' = Stores
    BY <2>1 DEF Stores
  <2>3. QED
    BY <2>1, <2>2 DEF TypeOK, SlotTypes
<1>2. CASE UNCHANGED <<imported, ignored, slotVars>>
  BY <1>2 DEF TypeOK, SlotTypes, Stores
<1>3. CASE Arm /\ ~ BindImports
  <2>1. imported' = imported
    BY <1>3 DEF Arm, FindSites, FindOriginal, RewriteSite, Armed, RollBackSite, RolledBack
  <2>2. QED
    BY <1>2, <1>3, <2>1, ArmFrame
<1>4. ASSUME NEW t \in Threads, Triggering(t)
      PROVE  SlotTypes'
  <2>1. UNCHANGED <<armVars, loader>>
    BY <1>4, TriggerFrame
  <2>2. References' = References /\ Stores' = Stores
    BY <2>1 DEF Stores
  <2>3. CASE RestoreSite(t)
    <3>1. /\ slots' = [slots EXCEPT ![cursor[t]] = chain] /\ redirected' = redirected
          /\ Stored(t, SlotStore(cursor[t])) /\ cursor[t] \in References
      BY <2>3 DEF RestoreSite, TypeOK, ArmTypes, ThreadTypes, Imports
    <3>2. SlotStore(cursor[t]) \in Stores
      BY <3>1 DEF Stores
    <3>3. slots' \in [References -> Address]
      BY <3>1 DEF TypeOK, SlotTypes, ArmTypes
    <3>4. QED
      BY <2>1, <2>2, <3>1, <3>2, <3>3, StoredFrame DEF TypeOK, SlotTypes
  <2>4. CASE RedirectSite(t)
    <3>1. /\ slots' = slots /\ redirected' = redirected \cup {cursor[t]}
          /\ Stored(t, LoaderStore(cursor[t])) /\ cursor[t] \in DOMAIN loader
      BY <2>4 DEF RedirectSite
    <3>2. LoaderStore(cursor[t]) \in Stores
      BY <3>1 DEF Stores
    <3>3. QED
      BY <2>1, <2>2, <3>1, <3>2, StoredFrame DEF TypeOK, SlotTypes
  <2>5. CASE Install(t)
    <3>1. /\ UNCHANGED <<slots, redirected>>
          /\ unseen' = unseen \/ Stored(t, BootstrapStore)
      BY <2>5 DEF Install
    <3>2. BootstrapStore \in Stores
      BY DEF Stores
    <3>3. QED
      BY <2>1, <2>2, <3>1, <3>2, StoredFrame DEF TypeOK, SlotTypes
  <2>6. CASE CallTrigger(t) \/ Enter(t) \/ RunCallback(t) \/ Installed(t) \/ Chain(t)
    BY <1>2, <2>1, <2>6 DEF CallTrigger, Enter, RunCallback, Installed, Chain
  <2>7. QED
    BY <1>4, <2>3, <2>4, <2>5, <2>6 DEF Triggering, InTrigger
<1>5. ASSUME NEW t \in Threads, SeeStore(t)
      PROVE  SlotTypes'
  <2>1. References' = References /\ Stores' = Stores
    BY <1>5, SeeFrame DEF Stores
  <2>2. QED
    BY <1>5, <2>1, SeeFrame DEF TypeOK, SlotTypes
<1>6. QED
  BY <1>1, <1>2, <1>3, <1>4, <1>5, Split, LookFrame DEF vars, TypeOK

LEMMA ThreadsTyped == TypeOK /\ [Next]_vars => ThreadTypes'
<1> SUFFICES ASSUME TypeOK, [Next]_vars PROVE ThreadTypes'
  OBVIOUS
<1> USE DEF TypeOK, ThreadTypes, Steps
<1>1. CASE UNCHANGED threadVars
  BY <1>1
<1>2. ASSUME NEW t \in Threads, Triggering(t)
      PROVE  ThreadTypes'
  <2>1. asked' = asked
    BY <1>2, TriggerFrame
  <2>2. pc' \in [Threads -> Steps]
    BY <1>2 DEF Triggering, InTrigger, CallTrigger, Enter, RestoreSite, RunCallback, Install,
                RedirectSite, Installed, Chain
  <2>3. cursor' \in [Threads -> Nat \ {0}]
    BY <1>2 DEF Triggering, InTrigger, CallTrigger, Enter, RestoreSite, RunCallback, Install,
                RedirectSite, Installed, Chain
  <2>4. QED
    BY <2>1, <2>2, <2>3
<1>3. ASSUME NEW t \in Threads, Looking(t)
      PROVE  ThreadTypes'
  <2>1. cursor' = cursor
    BY <1>3, LookFrame
  <2>2. pc' \in [Threads -> Steps]
    BY <1>3 DEF Looking, InLookup, CallBootstrap, BootstrapLoader, AttemptQueries, CountMissing,
                BindHook, LookUp
  <2>3. asked' \in [Threads -> Functions]
    BY <1>3 DEF Looking, InLookup, CallBootstrap, BootstrapLoader, AttemptQueries, CountMissing,
                BindHook, LookUp
  <2>4. QED
    BY <2>1, <2>2, <2>3
<1>4. QED
  BY <1>1, <1>2, <1>3, Split, ArmFrame, SeeFrame DEF vars

LEMMA HooksTyped == TypeOK /\ [Next]_vars => HookTypes'
<1> SUFFICES ASSUME TypeOK, [Next]_vars PROVE HookTypes'
  OBVIOUS
<1> USE DEF TypeOK, HookTypes, Address
<1>1. CASE UNCHANGED <<hookVars, queryVars>>
  BY <1>1
<1>2. ASSUME NEW t \in Threads, Triggering(t)
      PROVE  HookTypes'
  <2>1. UNCHANGED <<lookup, table, gave, queryVars>>
    BY <1>2, TriggerFrame
  <2>2. fired' \in BOOLEAN /\ installs' \in Nat
    <3>1. (fired' = TRUE \/ fired' = fired) /\ (installs' = installs \/ installs' = installs + 1)
      BY <1>2 DEF Triggering, InTrigger, CallTrigger, Enter, RestoreSite, RunCallback, Install,
                  RedirectSite, Installed, Chain
    <3>2. fired' \in BOOLEAN
      BY <3>1, Zenon
    <3>3. installs' \in Nat
      BY <3>1
    <3>4. QED
      BY <3>2, <3>3
  <2>3. bootstrap' \in Address
    <3>1. CASE Install(t)
      BY <3>1 DEF Install, SlotTypes
    <3>2. CASE ~ Install(t)
      BY <1>2, <3>2 DEF Triggering, InTrigger, CallTrigger, Enter, RestoreSite, RunCallback,
                        RedirectSite, Installed, Chain
    <3>3. QED
      BY <3>1, <3>2
  <2>4. QED
    BY <2>1, <2>2, <2>3
<1>3. ASSUME NEW t \in Threads, Looking(t)
      PROVE  HookTypes'
  <2>1. UNCHANGED <<fired, installs, bootstrap>>
    BY <1>3, LookFrame
  <2>2. lookup' \in Address /\ attempted' \in BOOLEAN /\ missing' \in Nat
    <3>1. lookup' = lookup \/ lookup' = bootstrap
      BY <1>3 DEF Looking, InLookup, CallBootstrap, BootstrapLoader, AttemptQueries, CountMissing,
                  BindHook, LookUp
    <3>2. attempted' = attempted \/ attempted' = TRUE
      BY <1>3 DEF Looking, InLookup, CallBootstrap, BootstrapLoader, AttemptQueries, CountMissing,
                  BindHook, LookUp
    <3>3. missing' = missing \/ missing' = missing + Unexported
      BY <1>3 DEF Looking, InLookup, CallBootstrap, BootstrapLoader, AttemptQueries, CountMissing,
                  BindHook, LookUp
    <3>4. attempted' \in BOOLEAN
      BY <3>2, Zenon
    <3>5. lookup' \in Address /\ missing' \in Nat
      BY <3>1, <3>3, UnexportedAssumption
    <3>6. QED
      BY <3>4, <3>5
  <2>3. table' \in [Functions -> Address]
    BY <1>3 DEF Looking, InLookup, CallBootstrap, BootstrapLoader, AttemptQueries, CountMissing,
                BindHook, LookUp
  <2>4. gave' \in [Names -> SUBSET Address]
    <3>1. ASSUME NEW name \in Names, NEW address \in Address, Give(name, address)
          PROVE  gave' \in [Names -> SUBSET Address]
      BY <3>1 DEF Give
    <3>2. "nvnDeviceGetProcAddress" \in Names /\ asked[t] \in Names /\ Functions \subseteq Names
      BY DEF Names, ThreadTypes
    <3>3. QED
      BY <1>3, <3>1, <3>2
         DEF Looking, InLookup, CallBootstrap, BootstrapLoader, AttemptQueries, CountMissing,
             BindHook, LookUp
  <2>5. QED
    BY <2>1, <2>2, <2>3, <2>4
<1>4. QED
  BY <1>1, <1>2, <1>3, Split, ArmFrame, SeeFrame DEF vars

LEMMA Types == TypeOK /\ [Next]_vars => TypeOK'
BY ArmTyped, SlotsTyped, ThreadsTyped, HooksTyped DEF TypeOK

-----------------------------------------------------------------------------
(***************************************************************************)
(* The phases of arm, and that nothing else runs before the game does.     *)
(***************************************************************************)
LEMMA ArmKept == IInv /\ [Next]_vars => ArmInv'
<1> SUFFICES ASSUME IInv, [Next]_vars PROVE ArmInv'
  OBVIOUS
<1> USE DEF IInv, TypeOK, ArmTypes, ArmInv
<1>1. CASE FindSites
  BY <1>1 DEF FindSites
<1>2. CASE FindOriginal
  <2>1. at = 1 /\ rebased = {} /\ sites = imported /\ ~ armed /\ UNCHANGED <<imported, rebased, at, armed>>
    BY <1>2 DEF FindOriginal
  <2>2. rebased = 1 .. at - 1
    BY <2>1
  <2>3. QED
    BY <1>2, <2>1, <2>2 DEF FindOriginal
<1>3. CASE RewriteSite
  <2>1. /\ phase = "rewrite" /\ at \in Nat /\ at >= 1 /\ at <= sites
        /\ rebased = 1 .. at - 1 /\ chain = "original" /\ ~ armed
        /\ UNCHANGED <<imported, sites, chain, armed>>
    BY <1>3 DEF RewriteSite
  <2>2. CASE rebased' = rebased \cup {at} /\ at' = at + 1 /\ UNCHANGED phase
    <3>1. rebased' = 1 .. at' - 1 /\ at' <= sites' + 1
      BY <2>1, <2>2
    <3>2. QED
      BY <2>1, <2>2, <3>1
  <2>3. CASE phase' = "rollback" /\ UNCHANGED <<rebased, at>>
    BY <2>1, <2>3
  <2>4. QED
    BY <1>3, <2>2, <2>3 DEF RewriteSite
<1>4. CASE Armed
  <2>1. at = imported + 1 /\ rebased = 1 .. imported /\ sites = imported
    BY <1>4 DEF Armed
  <2>2. QED
    BY <1>4, <2>1 DEF Armed
<1>5. CASE RollBackSite
  <2>1. /\ phase = "rollback" /\ phase' = "rollback" /\ ~ armed
        /\ UNCHANGED <<chain, armed>>
    BY <1>5 DEF RollBackSite
  <2>2. rebased' \subseteq rebased
    BY <1>5 DEF RollBackSite
  <2>3. QED
    BY <2>1, <2>2
<1>6. CASE RolledBack
  BY <1>6 DEF RolledBack
<1>7. CASE BindImports
  BY <1>7 DEF BindImports
<1>8. CASE UNCHANGED armVars
  BY <1>8
<1>9. QED
  BY <1>1, <1>2, <1>3, <1>4, <1>5, <1>6, <1>7, <1>8, Split, TriggerFrame, LookFrame, SeeFrame
     DEF vars, Arm

LEMMA QuietKept == IInv /\ [Next]_vars => QuietInv'
<1> SUFFICES ASSUME IInv, [Next]_vars, phase' # "running" PROVE QuietInv'
  BY DEF QuietInv
<1> USE DEF IInv, TypeOK, QuietInv
<1>1. CASE Arm
  <2>1. ~ BindImports
    BY DEF BindImports
  <2>2. slots' = slots /\ (\A s \in DOMAIN slots' : slots'[s] = "null")
    BY <1>1, <2>1, ArmFrame
  <2>3. UNCHANGED <<redirected, unseen, threadVars, hookVars>> /\ phase # "running"
    BY <1>1, ArmFrame
  <2>4. QED
    BY <2>2, <2>3
<1>2. ASSUME NEW t \in Threads, Triggering(t)
      PROVE  FALSE
  BY <1>2, TriggerFrame
<1>3. ASSUME NEW t \in Threads, Looking(t)
      PROVE  FALSE
  BY <1>3, LookFrame
<1>4. ASSUME NEW t \in Threads, SeeStore(t)
      PROVE  QuietInv'
  BY <1>4, SeeFrame
<1>5. CASE UNCHANGED vars
  BY <1>5 DEF vars
<1>6. QED
  BY <1>1, <1>2, <1>3, <1>4, <1>5, Split

-----------------------------------------------------------------------------
(***************************************************************************)
(* One thread installs: the one that found g_fired clear.                  *)
(***************************************************************************)
LEMMA InstallerKept == IInv /\ [Next]_vars => InstallerInv'
<1> SUFFICES ASSUME IInv, [Next]_vars PROVE InstallerInv'
  OBVIOUS
<1> USE DEF IInv, TypeOK, ArmTypes, SlotTypes, ThreadTypes, HookTypes, InstallerInv, Installing
<1>1. CASE Arm
  <2>1. UNCHANGED threadVars /\ ~ fired' /\ installs' = 0 /\ \A t \in Threads : pc[t] = "game"
    BY <1>1, ArmFrame DEF QuietInv
  <2>2. CASE BindImports
    BY <2>1, <2>2 DEF BindImports, BoundTo, ArmInv
  <2>3. CASE ~ BindImports
    BY <1>1, <2>1, <2>3, ArmFrame
  <2>4. QED
    BY <2>2, <2>3
<1>2. ASSUME NEW t \in Threads, CallTrigger(t)
      PROVE  InstallerInv'
  BY <1>2 DEF CallTrigger
<1>3. ASSUME NEW t \in Threads, Enter(t)
      PROVE  InstallerInv'
  BY <1>3 DEF Enter, First
<1>4. ASSUME NEW t \in Threads, RestoreSite(t)
      PROVE  InstallerInv'
  BY <1>4 DEF RestoreSite, EveryHookChains, TriggerChains, InPlugin, ArmInv
<1>5. ASSUME NEW t \in Threads, RunCallback(t)
      PROVE  InstallerInv'
  BY <1>5 DEF RunCallback
<1>6. ASSUME NEW t \in Threads, Install(t)
      PROVE  InstallerInv'
  BY <1>6 DEF Install
<1>7. ASSUME NEW t \in Threads, RedirectSite(t)
      PROVE  InstallerInv'
  BY <1>7 DEF RedirectSite
<1>8. ASSUME NEW t \in Threads, Installed(t) \/ Chain(t)
      PROVE  InstallerInv'
  <2>1. /\ pc' = [pc EXCEPT ![t] = "chaining"] \/ pc' = [pc EXCEPT ![t] = "game"]
        /\ UNCHANGED <<armVars, slotVars, cursor, hookVars>>
    BY <1>8 DEF Installed, Chain
  <2>2. \A u \in Threads : pc'[u] \in Installing => pc[u] = pc'[u]
    BY <2>1
  <2>3. QED
    BY <2>1, <2>2
<1>9. ASSUME NEW t \in Threads, Looking(t)
      PROVE  InstallerInv'
  <2>1. UNCHANGED <<armed, phase, imported, ignored, slots, fired, installs, cursor>>
    BY <1>9, LookFrame
  <2>2. \A u \in Threads : pc'[u] \in Installing => pc[u] = pc'[u]
    BY <1>9, LookFrame DEF LookSteps, Installing
  <2>3. QED
    BY <2>1, <2>2 DEF Installing
<1>10. CASE UNCHANGED vars
  BY <1>10 DEF vars
<1>11. ASSUME NEW t \in Threads, SeeStore(t)
       PROVE  InstallerInv'
  <2>1. UNCHANGED <<armed, phase, imported, ignored, slots, fired, installs, pc, cursor>>
    BY <1>11, SeeFrame
  <2>2. QED
    BY <2>1
<1>12. QED
  BY <1>1, <1>2, <1>3, <1>4, <1>5, <1>6, <1>7, <1>8, <1>9, <1>10, <1>11, Split
     DEF Triggering, InTrigger

LEMMA InstalledOnceKept == IInv /\ [Next]_vars => InstalledOnce'
<1> SUFFICES ASSUME IInv, [Next]_vars PROVE InstalledOnce'
  OBVIOUS
<1> USE DEF IInv, TypeOK, ArmTypes, SlotTypes, ThreadTypes, HookTypes, InstalledOnce
<1>1. CASE Arm
  BY <1>1, ArmFrame DEF QuietInv
<1>2. ASSUME NEW t \in Threads, RestoreSite(t)
      PROVE  InstalledOnce'
  BY <1>2 DEF RestoreSite, InstallerInv
<1>3. ASSUME NEW t \in Threads, RunCallback(t)
      PROVE  InstalledOnce'
  <2>1. /\ installs' = installs + 1 /\ installs = 0 /\ UNCHANGED <<armed, slots, imported, ignored>>
        /\ pc[t] = "restoring" /\ cursor[t] > sites
    BY <1>3 DEF RunCallback, InstallerInv
  <2>2. phase = "running" /\ (armed => sites = imported)
    BY <2>1 DEF QuietInv, ArmInv
  <2>3. armed => \A s \in References : slots[s] = "original"
    BY <2>1, <2>2 DEF InstallerInv
  <2>4. QED
    BY <2>1, <2>3
<1>4. ASSUME NEW t \in Threads, Triggering(t), ~ RestoreSite(t), ~ RunCallback(t)
      PROVE  InstalledOnce'
  <2>1. UNCHANGED <<armed, installs, slots, imported, ignored>>
    BY <1>4 DEF Triggering, InTrigger, CallTrigger, Enter, Install, RedirectSite, Installed, Chain
  <2>2. QED
    BY <2>1
<1>5. ASSUME NEW t \in Threads, Looking(t)
      PROVE  InstalledOnce'
  BY <1>5, LookFrame
<1>6. CASE UNCHANGED vars
  BY <1>6 DEF vars
<1>7. ASSUME NEW t \in Threads, SeeStore(t)
      PROVE  InstalledOnce'
  BY <1>7, SeeFrame
<1>8. QED
  BY <1>1, <1>2, <1>3, <1>4, <1>5, <1>6, <1>7, Split

LEMMA ArmedKept == IInv /\ [Next]_vars => ArmedWhereFound'
<1> SUFFICES ASSUME IInv, [Next]_vars, armed', phase' = "running", ~ fired'
             PROVE  \A t \in Threads, s \in References' :
                      (SlotOf(t, s) = "hook" <=> s <= imported)'
  BY DEF ArmedWhereFound
<1> USE DEF IInv, TypeOK, ArmTypes, SlotTypes, ThreadTypes, HookTypes
<1>1. CASE Arm
  <2>1. BindImports /\ unseen' = unseen
    BY <1>1, ArmFrame
  <2>2. rebased = 1 .. imported /\ UNCHANGED <<imported, ignored>> /\ phase = "bind"
    BY <2>1 DEF BindImports, ArmInv
  <2>3. \A t \in Threads : unseen'[t] = {}
    BY <2>1, <2>2 DEF QuietInv
  <2>4. slots' = [s \in References |-> BoundTo(s)]
    BY <2>1 DEF BindImports
  <2>5. \A s \in References : slots'[s] = "hook" <=> s <= imported
    BY <2>2, <2>4 DEF BoundTo
  <2>6. QED
    BY <2>2, <2>3, <2>5 DEF SlotOf, Sees
<1>2. CASE phase = "running" /\ ~ fired /\ armed
           /\ UNCHANGED <<slots, imported, ignored, rebased>>
           /\ \A t \in Threads : unseen'[t] = {}
  <2>1. \A t \in Threads : unseen[t] = {}
    BY <1>2 DEF UnseenInv
  <2>2. \A t \in Threads, s \in References : SlotOf(t, s) = "hook" <=> s <= imported
    BY <1>2 DEF ArmedWhereFound
  <2>3. QED
    BY <1>2, <2>1, <2>2 DEF SlotOf, Sees
<1>3. ASSUME NEW t \in Threads, Triggering(t)
      PROVE  ~ fired /\ UNCHANGED <<slots, unseen>>
  BY <1>3 DEF Triggering, InTrigger, CallTrigger, Enter, RestoreSite, RunCallback, Install,
              RedirectSite, Installed, Chain, InstallerInv, Installing
<1>4. ASSUME NEW t \in Threads, SeeStore(t)
      PROVE  FALSE
  BY <1>4, SeeFrame DEF UnseenInv, SeeStore
<1>5. ~ fired => \A t \in Threads : unseen[t] = {}
  BY DEF UnseenInv
<1>6. QED
  BY <1>1, <1>2, <1>3, <1>4, <1>5, Split, TriggerFrame, LookFrame DEF vars

-----------------------------------------------------------------------------
(***************************************************************************)
(* Every hook has the function it displaced.                               *)
(***************************************************************************)
LEMMA LoaderKept == IInv /\ [Next]_vars => LoaderInv'
<1> SUFFICES ASSUME IInv, [Next]_vars PROVE LoaderInv'
  OBVIOUS
<1> USE DEF IInv, TypeOK, ArmTypes, SlotTypes, ThreadTypes, HookTypes, LoaderInv
<1>1. CASE Arm
  BY <1>1, ArmFrame
<1>2. ASSUME NEW t \in Threads, CallTrigger(t) \/ RestoreSite(t)
      PROVE  LoaderInv'
  BY <1>2 DEF CallTrigger, RestoreSite
<1>3. ASSUME NEW t \in Threads, Enter(t)
      PROVE  LoaderInv'
  BY <1>3 DEF Enter, First
<1>4. ASSUME NEW t \in Threads, RunCallback(t)
      PROVE  LoaderInv'
  BY <1>4 DEF RunCallback
<1>5. ASSUME NEW t \in Threads, Install(t)
      PROVE  LoaderInv'
  <2>1. bootstrap = "null" /\ redirected = {}
    BY <1>5 DEF Install
  <2>2. \A u \in Threads : u # t => pc'[u] = pc[u] /\ pc[u] \notin {"restoring", "installing"}
    BY <1>5 DEF Install, InstallerInv, Installing
  <2>3. pc'[t] \in {"redirecting", "chaining"} /\ fired' /\ UNCHANGED <<redirected, table>>
    BY <1>5 DEF Install, InstallerInv, Installing
  <2>4. QED
    BY <2>1, <2>2, <2>3
<1>6. ASSUME NEW t \in Threads, RedirectSite(t)
      PROVE  LoaderInv'
  <2>1. bootstrap = "original" /\ UNCHANGED <<bootstrap, fired, pc, table>>
    BY <1>6 DEF RedirectSite, EveryHookChains, LoaderChains
  <2>2. QED
    BY <2>1
<1>7. ASSUME NEW t \in Threads, Installed(t) \/ Chain(t)
      PROVE  LoaderInv'
  <2>1. /\ pc' = [pc EXCEPT ![t] = "chaining"] \/ pc' = [pc EXCEPT ![t] = "game"]
        /\ UNCHANGED <<slotVars, hookVars>>
    BY <1>7 DEF Installed, Chain
  <2>2. QED
    BY <2>1
<1>8. ASSUME NEW t \in Threads, Looking(t)
      PROVE  LoaderInv'
  <2>1. table' = table \/ table' = [table EXCEPT ![asked[t]] = IF @ = "null" THEN lookup ELSE @]
    BY <1>8 DEF Looking, InLookup, CallBootstrap, BootstrapLoader, AttemptQueries, CountMissing,
                BindHook, LookUp
  <2>2. table' # table => lookup = "original"
    BY <1>8 DEF Looking, InLookup, CallBootstrap, BootstrapLoader, AttemptQueries, CountMissing,
                BindHook, LookUp, EveryHookChains, LookupChains
  <2>3. \A f \in Functions : table'[f] \in {"null", "original"}
    BY <2>1, <2>2
  <2>4. QED
    BY <1>8, <2>3, LookFrame DEF LookSteps
<1>9. ASSUME NEW t \in Threads, SeeStore(t)
      PROVE  LoaderInv'
  BY <1>9, SeeFrame
<1>10. CASE UNCHANGED vars
  BY <1>10 DEF vars
<1>11. QED
  BY <1>1, <1>2, <1>3, <1>4, <1>5, <1>6, <1>7, <1>8, <1>9, <1>10, Split
     DEF Triggering, InTrigger

\* A store that others may not see yet was made after the exchange of g_fired, by
\* the one thread that installs, which sees all of its own.
LEMMA UnseenKept == IInv /\ [Next]_vars => UnseenInv'
<1> SUFFICES ASSUME IInv, [Next]_vars PROVE UnseenInv'
  OBVIOUS
<1> USE DEF IInv, TypeOK, ArmTypes, SlotTypes, ThreadTypes, HookTypes, UnseenInv, Installing
<1>1. CASE Arm
  <2>1. UNCHANGED <<imported, ignored, rebased>> \/ \A t \in Threads : unseen'[t] = {}
    BY <1>1, ArmFrame DEF QuietInv
  <2>2. QED
    BY <1>1, <2>1, ArmFrame
<1>2. ASSUME NEW t \in Threads, RestoreSite(t)
      PROVE  UnseenInv'
  <2>1. /\ fired /\ pc' = pc /\ fired' = fired /\ pc[t] = "restoring" /\ unseen[t] = {}
        /\ UNCHANGED <<armVars, loader>>
        /\ cursor[t] \in 1 .. sites /\ Stored(t, SlotStore(cursor[t]))
    BY <1>2 DEF RestoreSite, InstallerInv
  <2>2. \A u \in Threads : u # t => pc[u] \notin Installing
    BY <2>1 DEF InstallerInv
  <2>3. cursor[t] \in rebased
    BY <2>1, <1>2 DEF ArmInv, QuietInv
  <2>4. unseen'[t] = {} /\ \A u \in Threads : unseen'[u] \subseteq unseen[u] \cup {SlotStore(cursor[t])}
    BY <2>1 DEF Stored
  <2>5. \A s \in References : SlotStore(s) = SlotStore(cursor[t]) => s \in rebased
    BY <2>3 DEF SlotStore
  <2>6. QED
    BY <2>1, <2>2, <2>4, <2>5
<1>3. ASSUME NEW t \in Threads, Install(t) \/ RedirectSite(t)
      PROVE  UnseenInv'
  <2>1. /\ fired /\ fired' = fired /\ pc[t] \in Installing /\ unseen[t] = {}
        /\ UNCHANGED <<armVars, loader>>
        /\ \A u \in Threads : u # t => pc'[u] = pc[u]
    BY <1>3 DEF Install, RedirectSite, InstallerInv
  <2>2. \A u \in Threads : u # t => pc[u] \notin Installing
    BY <2>1 DEF InstallerInv
  <2>3. PICK store : /\ \A s \in References : store # SlotStore(s)
                     /\ unseen' = unseen \/ Stored(t, store)
    BY <1>3 DEF Install, RedirectSite, BootstrapStore, LoaderStore, SlotStore
  <2>4. unseen'[t] = {} /\ \A u \in Threads : unseen'[u] \subseteq unseen[u] \cup {store}
    BY <2>1, <2>3 DEF Stored
  <2>5. QED
    BY <2>1, <2>2, <2>3, <2>4
<1>4. ASSUME NEW t \in Threads, Enter(t)
      PROVE  UnseenInv'
  BY <1>4 DEF Enter, First
<1>5. ASSUME NEW t \in Threads, CallTrigger(t) \/ RunCallback(t) \/ Installed(t) \/ Chain(t)
      PROVE  UnseenInv'
  <2>1. /\ UNCHANGED <<armVars, unseen, loader, fired>>
        /\ \A u \in Threads : pc'[u] \in Installing => pc[u] \in Installing
    BY <1>5 DEF CallTrigger, RunCallback, Installed, Chain
  <2>2. QED
    BY <2>1
<1>6. ASSUME NEW t \in Threads, Looking(t)
      PROVE  UnseenInv'
  BY <1>6, LookFrame DEF LookSteps
<1>7. ASSUME NEW t \in Threads, SeeStore(t)
      PROVE  UnseenInv'
  <2>1. UNCHANGED <<armVars, threadVars, fired>> /\ \A u \in Threads : unseen'[u] \subseteq unseen[u]
    BY <1>7, SeeFrame
  <2>2. QED
    BY <2>1
<1>8. CASE UNCHANGED vars
  BY <1>8 DEF vars
<1>9. QED
  BY <1>1, <1>2, <1>3, <1>4, <1>5, <1>6, <1>7, <1>8, Split DEF Triggering, InTrigger

\* A slot leads to the thunk only where its relocation was rewritten.
LEMMA TriggerChained == IInv /\ [Next]_vars => TriggerChains'
<1> SUFFICES ASSUME IInv, [Next]_vars PROVE TriggerChains'
  OBVIOUS
<1> USE DEF IInv, TypeOK, ArmTypes, SlotTypes, ThreadTypes, EveryHookChains, TriggerChains, InPlugin
<1>1. CASE Arm
  <2>0. UNCHANGED <<pc, unseen>> /\ \A t \in Threads : pc[t] = "game" /\ unseen[t] = {}
    BY <1>1, ArmFrame DEF QuietInv
  <2>1. CASE BindImports
    <3>1. \A s \in References' : slots'[s] = "hook" => s \in rebased
      BY <2>1 DEF BindImports, BoundTo
    <3>2. chain' = chain /\ (rebased # {} => chain = "original")
      BY <2>1 DEF BindImports, ArmInv
    <3>3. QED
      BY <2>0, <3>1, <3>2 DEF SlotOf, Sees
  <2>2. CASE ~ BindImports
    <3>1. \A s \in DOMAIN slots : slots'[s] = "null"
      BY <1>1, <2>2, ArmFrame DEF QuietInv
    <3>2. References' = References
      BY <1>1, <2>2, ArmFrame
         DEF Arm, FindSites, FindOriginal, RewriteSite, Armed, RollBackSite, RolledBack
    <3>3. QED
      BY <2>0, <3>1, <3>2 DEF SlotOf, Sees
  <2>3. QED
    BY <2>1, <2>2
<1>2. CASE chain = "original" /\ chain' = chain
  BY <1>2
<1>3. CASE chain # "original" /\ UNCHANGED armVars /\ phase = "running"
  <2>1. rebased = {}
    BY <1>3 DEF ArmInv
  <2>2. \A t \in Threads, s \in References : SlotOf(t, s) # "hook"
    BY <1>3
  <2>3. \A t \in Threads, s \in References : SlotStore(s) \notin unseen[t]
    BY <2>1 DEF UnseenInv
  <2>4. \A t \in Threads, s \in References : slots[s] # "hook"
    BY <2>2, <2>3 DEF SlotOf, Sees
  <2>5. \A t \in Threads : ~ InPlugin(t)
    BY <1>3
  <2>6. ASSUME NEW t \in Threads, Triggering(t)
        PROVE  FALSE
    BY <2>2, <2>5, <2>6 DEF Triggering, InTrigger, CallTrigger, Enter, RestoreSite, RunCallback,
                            Install, RedirectSite, Installed, Chain
  <2>7. ASSUME NEW t \in Threads, Looking(t)
        PROVE  TriggerChains'
    <3>1. UNCHANGED <<armVars, slotVars>> /\ \A u \in Threads : ~ InPlugin(u)'
      BY <2>5, <2>7, LookFrame DEF LookSteps
    <3>2. QED
      BY <2>2, <3>1 DEF SlotOf, Sees, BoundTo
  <2>8. ASSUME NEW t \in Threads, SeeStore(t)
        PROVE  TriggerChains'
    <3>1. UNCHANGED <<armVars, slots, pc>> /\ \A u \in Threads : unseen'[u] \subseteq unseen[u]
      BY <2>8, SeeFrame
    <3>2. QED
      BY <2>3, <2>4, <2>5, <3>1 DEF SlotOf, Sees
  <2>9. CASE UNCHANGED vars
    BY <1>3, <2>2, <2>5, <2>9 DEF vars, SlotOf, Sees, BoundTo
  <2>10. CASE Arm
    BY <1>3, <2>10, ArmFrame
  <2>11. QED
    BY <2>6, <2>7, <2>8, <2>9, <2>10, Split
<1>4. CASE UNCHANGED vars
  BY <1>4 DEF vars, SlotOf, Sees, BoundTo
<1>5. ASSUME NEW t \in Threads, Triggering(t) \/ Looking(t) \/ SeeStore(t)
      PROVE  UNCHANGED armVars
  BY <1>5, TriggerFrame, LookFrame, SeeFrame
<1>6. ASSUME phase # "running", ~ Arm
      PROVE  UNCHANGED vars
  <2>1. \A t \in Threads : pc[t] = "game" /\ unseen[t] = {}
    BY <1>6 DEF QuietInv
  <2>2. ASSUME NEW t \in Threads, SeeStore(t)
        PROVE  FALSE
    BY <2>1, <2>2 DEF SeeStore
  <2>3. QED
    BY <1>6, <2>1, <2>2, Split, TriggerFrame, LookFrame DEF QuietInv
<1>7. QED
  BY <1>1, <1>2, <1>3, <1>4, <1>5, <1>6, Split

\* g_bootstrap is stored before the slots, and whoever has not seen it may only see
\* a null there.
LEMMA LoaderChained == IInv /\ [Next]_vars => LoaderChains'
<1> SUFFICES ASSUME IInv, [Next]_vars PROVE LoaderChains'
  OBVIOUS
<1> USE DEF IInv, TypeOK, ArmTypes, SlotTypes, ThreadTypes, EveryHookChains, LoaderChains
<1>1. CASE Arm
  <2>1. redirected' = {} /\ UNCHANGED <<pc, unseen>> /\ \A t \in Threads : pc[t] = "game"
    BY <1>1, ArmFrame DEF QuietInv
  <2>2. loader' \in [DOMAIN loader -> {"null", "original"}]
    BY <1>1, ArmFrame DEF BindImports
  <2>3. \A t \in Threads, s \in DOMAIN loader' : LoaderOf(t, s)' # "hook"
    BY <2>1, <2>2 DEF LoaderOf
  <2>4. QED
    BY <2>1, <2>3
<1>a. \A t \in Threads, s \in DOMAIN loader : LoaderOf(t, s) = "hook" => redirected # {}
  BY DEF LoaderOf
<1>2. ASSUME NEW t \in Threads, Install(t)
      PROVE  LoaderChains'
  <2>1. /\ redirected = {} /\ redirected' = {} /\ loader' = loader /\ unseen[t] = {}
        /\ \A u \in Threads : u # t => pc'[u] = pc[u] /\ pc[u] # "redirecting"
    BY <1>2 DEF Install, LoaderInv, UnseenInv, InstallerInv, Installing
  <2>2. \/ UNCHANGED <<bootstrap, unseen>> /\ pc'[t] = "chaining"
        \/ bootstrap' = "original" /\ Stored(t, BootstrapStore) /\ pc'[t] = "redirecting"
    BY <1>2 DEF Install, FirstBound, BoundSites
  <2>3. unseen'[t] = {} /\ \A u \in Threads : unseen[u] \subseteq unseen'[u]
    BY <2>1, <2>2 DEF Stored
  <2>4. \A u \in Threads, s \in DOMAIN loader' : LoaderOf(u, s)' # "hook"
    BY <2>1 DEF LoaderOf
  <2>5. QED
    BY <2>1, <2>2, <2>3, <2>4 DEF Sees
<1>3. ASSUME NEW t \in Threads, RedirectSite(t)
      PROVE  LoaderChains'
  <2>1. /\ bootstrap = "original" /\ UNCHANGED <<bootstrap, pc>> /\ unseen[t] = {}
        /\ Stored(t, LoaderStore(cursor[t]))
    BY <1>3 DEF RedirectSite, UnseenInv, Installing
  <2>2. \A u \in Threads : unseen[u] \subseteq unseen'[u] /\ (u = t => unseen'[u] = {})
    BY <2>1 DEF Stored
  <2>3. \A u \in Threads : pc[u] = "redirecting" => u = t
    BY <1>3 DEF RedirectSite, InstallerInv, Installing
  <2>4. QED
    BY <2>1, <2>2, <2>3 DEF Sees
<1>4. ASSUME NEW t \in Threads, Triggering(t), ~ Install(t), ~ RedirectSite(t)
      PROVE  LoaderChains'
  <2>1. UNCHANGED <<loader, redirected, bootstrap>>
    BY <1>4 DEF Triggering, InTrigger, CallTrigger, Enter, RestoreSite, RunCallback, Installed, Chain
  <2>2. \A u \in Threads : pc'[u] \in {"bootstrapping", "crashed", "redirecting"} => pc'[u] = pc[u]
    BY <1>4 DEF Triggering, InTrigger, CallTrigger, Enter, RestoreSite, RunCallback, Installed, Chain
  <2>3. CASE UNCHANGED unseen
    BY <2>1, <2>2, <2>3 DEF Sees, LoaderOf
  <2>4. CASE RestoreSite(t)
    <3>1. Stored(t, SlotStore(cursor[t])) /\ unseen[t] = {}
      BY <2>4 DEF RestoreSite, UnseenInv, Installing
    <3>2. /\ \A u \in Threads : unseen[u] \subseteq unseen'[u]
          /\ \A u \in Threads, s \in DOMAIN loader :
               LoaderStore(s) \in unseen[u] <=> LoaderStore(s) \in unseen'[u]
          /\ \A u \in Threads : BootstrapStore \in unseen[u] <=> BootstrapStore \in unseen'[u]
      BY <3>1 DEF Stored, SlotStore, LoaderStore, BootstrapStore
    <3>3. QED
      BY <2>1, <2>2, <3>2 DEF Sees, LoaderOf
  <2>5. QED
    BY <1>4, <2>3, <2>4 DEF Triggering, InTrigger, CallTrigger, Enter, RunCallback, Installed, Chain
<1>5. ASSUME NEW t \in Threads, Looking(t)
      PROVE  LoaderChains'
  <2>1. UNCHANGED <<loader, redirected, bootstrap, unseen>>
    BY <1>5, LookFrame
  <2>2. \A u \in Threads : LoaderOf(u, 0)' = LoaderOf(u, 0) /\ Sees(u, BootstrapStore)' = Sees(u, BootstrapStore)
    BY <2>1 DEF LoaderOf, Sees
  <2>3. \A u \in Threads, s \in DOMAIN loader : LoaderOf(u, s)' = LoaderOf(u, s)
    BY <2>1 DEF LoaderOf, Sees
  <2>4. \A u \in Threads : pc'[u] = "redirecting" => pc[u] = "redirecting"
    BY <1>5, LookFrame DEF LookSteps
  <2>5. \A u \in Threads : pc'[u] = "bootstrapping" =>
          pc[u] = "bootstrapping" \/ \E s \in DOMAIN loader : LoaderOf(u, s) = "hook"
    BY <1>5 DEF Looking, InLookup, CallBootstrap, BootstrapLoader, AttemptQueries, CountMissing,
                BindHook, LookUp
  <2>6. \A u \in Threads : pc'[u] = "crashed" => pc[u] = "crashed" \/ ~ Sees(u, BootstrapStore)
    BY <1>5 DEF Looking, InLookup, CallBootstrap, BootstrapLoader, AttemptQueries, CountMissing,
                BindHook, LookUp
  <2>7. QED
    BY <2>1, <2>2, <2>3, <2>4, <2>5, <2>6
<1>6. ASSUME NEW t \in Threads, SeeStore(t), ~ Crashed
      PROVE  LoaderChains'
  <2>1. /\ UNCHANGED <<loader, redirected, bootstrap, pc>>
        /\ \A u \in Threads : unseen'[u] \subseteq unseen[u] /\ pc[u] # "crashed"
    BY <1>6, SeeFrame DEF Crashed
  <2>2. redirected # {} => bootstrap = "original"
    BY DEF LoaderInv
  <2>3. \A u \in Threads, s \in DOMAIN loader' : LoaderOf(u, s)' = "hook" => redirected # {}
    BY <2>1 DEF LoaderOf
  <2>4. QED
    BY <2>1, <2>2, <2>3 DEF Sees
<1>7. CASE UNCHANGED vars
  BY <1>7 DEF vars, LoaderOf, Sees
<1>8. Next => Arm \/ ~ Crashed
  BY DEF Next
<1>9. CASE Arm \/ UNCHANGED vars \/ \E t \in Threads : Triggering(t) \/ Looking(t)
  BY <1>1, <1>2, <1>3, <1>4, <1>5, <1>7, <1>9
<1>10. QED
  BY <1>6, <1>8, <1>9, Split

LEMMA LookupChained == IInv /\ [Next]_vars => LookupChains'
<1> SUFFICES ASSUME IInv, [Next]_vars PROVE LookupChains'
  OBVIOUS
<1> USE DEF IInv, TypeOK, ThreadTypes, HookTypes, EveryHookChains, LookupChains
<1>1. CASE Arm
  BY <1>1, ArmFrame DEF QuietInv
<1>2. ASSUME NEW t \in Threads, Triggering(t)
      PROVE  LookupChains'
  <2>1. \A u \in Threads : pc'[u] \in {"asking", "counting", "binding"} =>
                           pc[u] \in {"asking", "counting", "binding"}
    BY <1>2 DEF Triggering, InTrigger, CallTrigger, Enter, RestoreSite, RunCallback, Install,
                RedirectSite, Installed, Chain
  <2>2. QED
    BY <1>2, <2>1, TriggerFrame
<1>3. ASSUME NEW t \in Threads, CallBootstrap(t)
      PROVE  LookupChains'
  BY <1>3 DEF CallBootstrap, Give
<1>4. ASSUME NEW t \in Threads, BootstrapLoader(t)
      PROVE  LookupChains'
  BY <1>4 DEF BootstrapLoader, Give, LoaderChains
<1>5. ASSUME NEW t \in Threads, AttemptQueries(t) \/ CountMissing(t)
      PROVE  LookupChains'
  BY <1>5 DEF AttemptQueries, CountMissing
<1>6. ASSUME NEW t \in Threads, BindHook(t)
      PROVE  LookupChains'
  BY <1>6 DEF BindHook
<1>7. ASSUME NEW t \in Threads, NEW f \in Functions, LookUp(t, f)
      PROVE  LookupChains'
  <2>1. lookup' = lookup /\ gave'["nvnDeviceGetProcAddress"] = gave["nvnDeviceGetProcAddress"]
    <3>1. lookup' = lookup /\ (gave' = gave \/ Give(f, "original"))
      BY <1>7 DEF LookUp
    <3>2. f # "nvnDeviceGetProcAddress"
      BY FunctionsAssumption
    <3>3. QED
      BY <3>1, <3>2 DEF Give, Names
  <2>2. pc' = pc \/ "hook" \in gave["nvnDeviceGetProcAddress"]
    BY <1>7 DEF LookUp
  <2>3. QED
    BY <2>1, <2>2
<1>8. CASE UNCHANGED vars
  BY <1>8 DEF vars
<1>9. ASSUME NEW t \in Threads, SeeStore(t)
      PROVE  LookupChains'
  BY <1>9, SeeFrame
<1>10. QED
  BY <1>1, <1>2, <1>3, <1>4, <1>5, <1>6, <1>7, <1>8, <1>9, Split DEF Looking, InLookup

LEMMA FunctionChained == IInv /\ [Next]_vars => FunctionChains'
<1> SUFFICES ASSUME IInv, [Next]_vars PROVE FunctionChains'
  OBVIOUS
<1> USE DEF IInv, TypeOK, ThreadTypes, HookTypes, EveryHookChains, FunctionChains
<1>1. CASE UNCHANGED <<table, gave>>
  BY <1>1
<1>2. ASSUME NEW t \in Threads, BindHook(t)
      PROVE  FunctionChains'
  <2>1. CASE table' = [table EXCEPT ![asked[t]] = IF @ = "null" THEN lookup ELSE @]
             /\ Give(asked[t], "hook")
    <3>1. lookup = "original" /\ asked[t] \in Functions /\ asked[t] \in Names
      BY <1>2 DEF BindHook, LookupChains, Names
    <3>2. table'[asked[t]] = "original"
      BY <2>1, <3>1 DEF LoaderInv
    <3>3. \A f \in Functions : f # asked[t] => table'[f] = table[f] /\ gave'[f] = gave[f]
      BY <2>1, <3>1 DEF Give, Names
    <3>4. QED
      BY <3>2, <3>3
  <2>2. CASE UNCHANGED <<table, gave>>
    BY <2>2
  <2>3. QED
    BY <1>2, <2>1, <2>2 DEF BindHook
<1>3. ASSUME NEW t \in Threads, Looking(t), ~ BindHook(t)
      PROVE  FunctionChains'
  <2>1. /\ table' = table
        /\ \/ gave' = gave
           \/ Give("nvnDeviceGetProcAddress", "original")
           \/ Give("nvnDeviceGetProcAddress", "hook")
           \/ \E f \in Functions : Give(f, "original")
    BY <1>3 DEF Looking, InLookup, CallBootstrap, BootstrapLoader, AttemptQueries, CountMissing, LookUp
  <2>2. \A f \in Functions : "hook" \in gave'[f] => "hook" \in gave[f]
    BY <2>1, FunctionsAssumption DEF Give, Names
  <2>3. QED
    BY <2>1, <2>2
<1>4. QED
  BY <1>1, <1>2, <1>3, Split, ArmFrame, TriggerFrame, SeeFrame DEF vars

-----------------------------------------------------------------------------
LEMMA Initial == Init => IInv
<1> SUFFICES ASSUME Init PROVE IInv
  OBVIOUS
<1> USE DEF Init
<1>1. TypeOK
  <2>1. ArmTypes
    <3>1. armed \in BOOLEAN
      BY Zenon
    <3>2. QED
      BY <3>1, MaxImportsAssumption, MaxIgnoredAssumption DEF ArmTypes, Phases, Address
  <2>2. SlotTypes
    BY DEF SlotTypes, Address
  <2>3. ThreadTypes
    BY DEF ThreadTypes, Steps
  <2>4. HookTypes
    <3>1. fired \in BOOLEAN /\ attempted \in BOOLEAN
      BY Zenon
    <3>2. QED
      BY <3>1 DEF HookTypes, Address
  <2>5. QED
    BY <2>1, <2>2, <2>3, <2>4 DEF TypeOK
<1>2. ArmInv /\ QuietInv /\ InstallerInv
  BY DEF ArmInv, QuietInv, InstallerInv, Installing, Names
<1>3. LoaderInv /\ UnseenInv /\ EveryHookChains
  <2>1. LoaderInv /\ UnseenInv
    BY DEF LoaderInv, UnseenInv, Installing
  <2>2. \A t \in Threads, s \in References : SlotOf(t, s) # "hook"
    BY DEF SlotOf, Sees
  <2>3. \A t \in Threads, s \in DOMAIN loader : LoaderOf(t, s) # "hook"
    BY DEF LoaderOf
  <2>4. TriggerChains /\ LoaderChains
    BY <2>2, <2>3 DEF TriggerChains, LoaderChains, InPlugin
  <2>5. LookupChains /\ FunctionChains
    BY DEF LookupChains, FunctionChains, Names
  <2>6. QED
    BY <2>1, <2>4, <2>5 DEF EveryHookChains
<1>4. InstalledOnce /\ ArmedWhereFound
  BY DEF InstalledOnce, ArmedWhereFound
<1>5. QED
  BY <1>1, <1>2, <1>3, <1>4 DEF IInv

LEMMA Inductive == IInv /\ [Next]_vars => IInv'
<1> SUFFICES ASSUME IInv, [Next]_vars PROVE IInv'
  OBVIOUS
<1>1. TypeOK'
  BY Types DEF IInv
<1>2. EveryHookChains'
  BY TriggerChained, LoaderChained, LookupChained, FunctionChained DEF EveryHookChains
<1>3. QED
  BY <1>1, <1>2, ArmKept, QuietKept, InstallerKept, LoaderKept, UnseenKept, InstalledOnceKept,
     ArmedKept DEF IInv

\* Whatever arm and install have done and wherever they stopped, every variable
\* the thunk and the hooks read is what their step of the code relies on.
THEOREM Invariance == Spec => []IInv
BY Initial, Inductive, PTL DEF Spec

\* No hook a thread can reach, or is in, has a hook to go on to, with any number of
\* threads calling through slots that are being rewritten and each seeing the stores
\* in an order of its own; and none has a null, but for a thread that sees a slot of
\* the loader and not yet the plain store of g_bootstrap before it (nvn_hooks.cpp
\* install, imports.cpp redirect).
THEOREM HooksHaveAWayOn == Spec => []EveryHookChains
<1>1. IInv => EveryHookChains
  BY DEF IInv
<1>2. QED
  BY <1>1, Invariance, PTL

\* One thread runs the install callback, once, after an armed trigger's slots
\* are all the game's own again.
THEOREM InstallsAtMostOnce == Spec => []InstalledOnce
<1>1. IInv => InstalledOnce
  BY DEF IInv
<1>2. QED
  BY <1>1, Invariance, PTL

\* When deferred::arm says so, every site it collects leads to the thunk until the
\* first call, and every reference of another kind past it.
THEOREM ArmedMeansEverySite == Spec => []ArmedWhereFound
<1>1. IInv => ArmedWhereFound
  BY DEF IInv
<1>2. QED
  BY <1>1, Invariance, PTL

=============================================================================
