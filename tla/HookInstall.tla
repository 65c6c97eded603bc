---------------------------- MODULE HookInstall ----------------------------
(***************************************************************************)
(* How the plugin gets between a game and its graphics API.                *)
(*                                                                         *)
(* While the game is being loaded, deferred::arm rewrites the relocations  *)
(* of one imported function, the trigger, so that the loader binds its     *)
(* import slots to a thunk.  The first game thread through the thunk puts  *)
(* the slots back and installs the real hook: it redirects the slots of    *)
(* the API's bootstrap loader, from which every other hook is handed out   *)
(* by name.  Other game threads call the trigger, the bootstrap loader and *)
(* the lookup function at any time.  One action is one access to a slot, a *)
(* relocation or a variable that another thread can see.                   *)
(*                                                                         *)
(* The slots and g_bootstrap are plain variables that the installing       *)
(* thread stores to without a barrier: every other thread comes to see     *)
(* these stores one by one, in any order and at its own time, and reads    *)
(* the value before until it does.                                         *)
(*                                                                         *)
(* Addresses are "original" (the game's own function) or "hook".  Both     *)
(* imports have as many sites as the game was linked with, and may have    *)
(* references of other kinds beside them, which the plugin leaves alone.   *)
(***************************************************************************)
EXTENDS Integers, FiniteSets

CONSTANTS
  Threads,      \* game threads
  Functions,    \* the API functions in g_bindings
  MaxSites,     \* imports::max_sites
  MaxImports,   \* bound on the import sites of a symbol
  MaxIgnored,   \* bound on its references of other kinds
  Unexported    \* queries the game's copy of the API does not export

ASSUME MaxSitesAssumption == MaxSites \in Nat \ {0}
ASSUME MaxImportsAssumption == MaxImports \in Nat
ASSUME MaxIgnoredAssumption == MaxIgnored \in Nat
ASSUME UnexportedAssumption == Unexported \in Nat
ASSUME FunctionsAssumption == "nvnDeviceGetProcAddress" \notin Functions

VARIABLES
  imported,     \* import sites of the trigger: GLOB_DAT and JUMP_SLOT relocations
  ignored,      \* references of any other kind, to the trigger and to the loader
  rebased,      \* sites whose relocation now resolves to the thunk
  slots,        \* slots of the trigger's sites, then of its ignored references
  phase,        \* where main is in deferred::arm, then "running"
  at,           \* its index into the sites
  sites,        \* Trigger::sites.count
  chain,        \* Trigger::original: what the thunk branches to
  armed,        \* what arm returned
  fired,        \* g_fired
  pc,           \* where each game thread is in the plugin's code
  cursor,       \* its index into the sites it redirects
  installs,     \* history: runs of the install callback
  loader,       \* import slots of the bootstrap loader, as the game's loader bound them
  redirected,   \* those stored to since
  unseen,       \* the installer's stores that each thread does not see yet
  bootstrap,    \* g_bootstrap
  lookup,       \* g_proc_address
  asked,        \* the function each thread looks up by name
  attempted,    \* g_queries.attempted
  missing,      \* g_queries.missing
  table,        \* g_chain
  gave          \* history: addresses handed to the game, by what they name

armVars == <<imported, ignored, rebased, phase, at, sites, chain, armed>>
slotVars == <<slots, loader, redirected, unseen>>
threadVars == <<pc, cursor, asked>>
hookVars == <<fired, installs, bootstrap, lookup, table, gave>>
queryVars == <<attempted, missing>>
vars == <<armVars, slotVars, threadVars, hookVars, queryVars>>

Address == {"null", "original", "hook"}
Phases == {"find", "chain", "rewrite", "rollback", "bind", "running"}
Steps == {"game", "entered", "restoring", "installing", "redirecting", "chaining",
          "bootstrapping", "asking", "counting", "binding", "crashed"}
Names == Functions \cup {"nvnDeviceGetProcAddress"}
Imports == {"trigger", "loader"}
References == 1 .. imported + ignored["trigger"]

\* The installer's stores to plain variables.
BootstrapStore == <<"bootstrap", 0>>
SlotStore(s) == <<"slot", s>>
LoaderStore(s) == <<"loader", s>>

Init ==
  /\ imported \in 0 .. MaxImports
  /\ ignored \in [Imports -> 0 .. MaxIgnored]
  /\ rebased = {}
  /\ slots = [s \in References |-> "null"]
  /\ phase = "find"
  /\ at = 1
  /\ sites = 0
  /\ chain = "null"
  /\ armed = FALSE
  /\ fired = FALSE
  /\ pc = [t \in Threads |-> "game"]
  /\ cursor = [t \in Threads |-> 1]
  /\ installs = 0
  /\ \E n \in 0 .. MaxImports : loader = [s \in 1 .. n |-> "null"]
  /\ redirected = {}
  /\ unseen = [t \in Threads |-> {}]
  /\ bootstrap = "null"
  /\ lookup = "null"
  /\ \E f \in Functions : asked = [t \in Threads |-> f]
  /\ attempted = FALSE
  /\ missing = 0
  /\ table = [f \in Functions |-> "null"]
  /\ gave = [n \in Names |-> {}]

-----------------------------------------------------------------------------
(***************************************************************************)
(* main: deferred::arm and imports::replace, before the game runs.         *)
(***************************************************************************)

\* No site, more than fit in Sites, or no list of modules to search: arm gives
\* up on the trigger.  References of other kinds are counted and passed over.
FindSites ==
  /\ phase = "find"
  /\ \/ imported \in 1 .. MaxSites /\ phase' = "chain" /\ sites' = imported
     \/ phase' = "bind" /\ sites' = 0
  /\ UNCHANGED <<imported, ignored, rebased, at, chain, armed, slotVars, threadVars, hookVars, queryVars>>

FindOriginal ==
  /\ phase = "chain"
  /\ \/ chain' = "original" /\ phase' = "rewrite" /\ UNCHANGED sites
     \/ chain' = "null" /\ phase' = "bind" /\ sites' = 0
  /\ UNCHANGED <<imported, ignored, rebased, at, armed, slotVars, threadVars, hookVars, queryVars>>

\* Mutant: a refused write is passed over.
RewriteSiteUnchecked ==
  /\ phase = "rewrite"
  /\ at <= sites
  /\ rebased' \in {rebased, rebased \cup {at}}
  /\ at' = at + 1
  /\ UNCHANGED <<imported, ignored, phase, sites, chain, armed, slotVars, threadVars, hookVars, queryVars>>

\* One relocation written through SaltySD_Memcpy, which may refuse.
RewriteSite ==
  /\ phase = "rewrite"
  /\ at <= sites
  /\ \/ rebased' = rebased \cup {at} /\ at' = at + 1 /\ UNCHANGED phase
     \/ phase' = "rollback" /\ UNCHANGED <<rebased, at>>
  /\ UNCHANGED <<imported, ignored, sites, chain, armed, slotVars, threadVars, hookVars, queryVars>>

Armed ==
  /\ phase = "rewrite"
  /\ at > sites
  /\ armed' = TRUE
  /\ phase' = "bind"
  /\ UNCHANGED <<imported, ignored, rebased, at, sites, chain, slotVars, threadVars, hookVars, queryVars>>

\* The result of a write back is not looked at, so it too may not happen.
RollBackSite ==
  /\ phase = "rollback"
  /\ at > 1
  /\ at' = at - 1
  /\ rebased' \in {rebased, rebased \ {at - 1}}
  /\ UNCHANGED <<imported, ignored, phase, sites, chain, armed, slotVars, threadVars, hookVars, queryVars>>

RolledBack ==
  /\ phase = "rollback"
  /\ at = 1
  /\ sites' = 0
  /\ phase' = "bind"
  /\ UNCHANGED <<imported, ignored, rebased, at, chain, armed, slotVars, threadVars, hookVars, queryVars>>

BoundTo(s) == IF s \in rebased THEN "hook" ELSE "original"

\* The game's loader applies the relocations and starts the game.  A weak
\* import of the bootstrap loader may stay unbound.
BindImports ==
  /\ phase = "bind"
  /\ slots' = [s \in References |-> BoundTo(s)]
  /\ loader' \in [DOMAIN loader -> {"null", "original"}]
  /\ phase' = "running"
  /\ UNCHANGED <<imported, ignored, rebased, at, sites, chain, armed, redirected, unseen,
                 threadVars, hookVars, queryVars>>

Arm ==
  \/ FindSites
  \/ FindOriginal
  \/ RewriteSite
  \/ Armed
  \/ RollBackSite
  \/ RolledBack
  \/ BindImports

-----------------------------------------------------------------------------
(***************************************************************************)
(* Game threads: lsfg_plugin_deferred_enter and nvn::install.              *)
(***************************************************************************)
Goto(t, step) == pc' = [pc EXCEPT ![t] = step]

\* A thread sees its own stores at once; the others have yet to see one of t's.
Sees(t, store) == store \notin unseen[t]
Stored(t, store) ==
  unseen' = [u \in Threads |-> IF u = t THEN unseen[u] ELSE unseen[u] \cup {store}]

SeeStore(t) ==
  \E store \in unseen[t] :
    /\ unseen' = [unseen EXCEPT ![t] = @ \ {store}]
    /\ UNCHANGED <<armVars, slots, loader, redirected, threadVars, hookVars, queryVars>>

\* What a thread reads from a slot of the trigger and from one of the loader.
SlotOf(t, s) == IF Sees(t, SlotStore(s)) THEN slots[s] ELSE BoundTo(s)
LoaderOf(t, s) == IF s \in redirected /\ Sees(t, LoaderStore(s)) THEN "hook" ELSE loader[s]

CallTrigger(t) ==
  /\ phase = "running"
  /\ pc[t] = "game"
  /\ \E s \in References : SlotOf(t, s) = "hook"
  /\ Goto(t, "entered")
  /\ UNCHANGED <<armVars, slotVars, cursor, asked, hookVars, queryVars>>

\* What the exchange of g_fired says.  Mutant: it is not looked at.
FirstAlways == TRUE
First == ~ fired

\* Mutant: those that come second wait for the slots to be restored.
EnterWaits(t) ==
  /\ pc[t] = "entered"
  /\ fired => \A s \in DOMAIN slots : slots[s] # "hook"
  /\ fired' = TRUE
  /\ Goto(t, IF First THEN "restoring" ELSE "chaining")
  /\ cursor' = [cursor EXCEPT ![t] = 1]
  /\ UNCHANGED <<armVars, slotVars, asked, installs, bootstrap, lookup, table, gave, queryVars>>

Enter(t) ==
  /\ pc[t] = "entered"
  /\ fired' = TRUE
  /\ Goto(t, IF First THEN "restoring" ELSE "chaining")
  /\ cursor' = [cursor EXCEPT ![t] = 1]
  /\ UNCHANGED <<armVars, slotVars, asked, installs, bootstrap, lookup, table, gave, queryVars>>

RestoreSite(t) ==
  /\ pc[t] = "restoring"
  /\ cursor[t] <= sites
  /\ slots' = [slots EXCEPT ![cursor[t]] = chain]
  /\ Stored(t, SlotStore(cursor[t]))
  /\ cursor' = [cursor EXCEPT ![t] = @ + 1]
  /\ UNCHANGED <<armVars, loader, redirected, pc, asked, hookVars, queryVars>>

RunCallback(t) ==
  /\ pc[t] = "restoring"
  /\ cursor[t] > sites
  /\ installs' = installs + 1
  /\ Goto(t, "installing")
  /\ UNCHANGED <<armVars, slotVars, cursor, asked, fired, bootstrap, lookup, table, gave, queryVars>>

\* imports::current_target: the first slot that is bound.
BoundSites == {s \in DOMAIN loader : loader[s] # "null"}
FirstBound(s) == s \in BoundSites /\ \A u \in BoundSites : s <= u

Install(t) ==
  /\ pc[t] = "installing"
  /\ \/ /\ Cardinality(DOMAIN loader) <= MaxSites
        /\ \E s \in DOMAIN loader : FirstBound(s) /\ bootstrap' = loader[s]
        /\ Stored(t, BootstrapStore)
        /\ Goto(t, "redirecting")
     \/ /\ Goto(t, "chaining")
        /\ UNCHANGED <<bootstrap, unseen>>
  /\ cursor' = [cursor EXCEPT ![t] = 1]
  /\ UNCHANGED <<armVars, slots, loader, redirected, asked, fired, installs, lookup, table, gave, queryVars>>

RedirectSite(t) ==
  /\ pc[t] = "redirecting"
  /\ cursor[t] \in DOMAIN loader
  /\ redirected' = redirected \cup {cursor[t]}
  /\ Stored(t, LoaderStore(cursor[t]))
  /\ cursor' = [cursor EXCEPT ![t] = @ + 1]
  /\ UNCHANGED <<armVars, slots, loader, pc, asked, hookVars, queryVars>>

Installed(t) ==
  /\ pc[t] = "redirecting"
  /\ cursor[t] \notin DOMAIN loader
  /\ Goto(t, "chaining")
  /\ UNCHANGED <<armVars, slotVars, cursor, asked, hookVars, queryVars>>

\* The thunk branches to the function it displaced.
Chain(t) ==
  /\ pc[t] = "chaining"
  /\ Goto(t, "game")
  /\ UNCHANGED <<armVars, slotVars, cursor, asked, hookVars, queryVars>>

InTrigger(t) == Enter(t) \/ RestoreSite(t) \/ RunCallback(t) \/ Install(t)
                \/ RedirectSite(t) \/ Installed(t) \/ Chain(t)

-----------------------------------------------------------------------------
(***************************************************************************)
(* Game threads: bootstrap_loader and device_get_proc_address.             *)
(***************************************************************************)
Give(name, address) == gave' = [gave EXCEPT ![name] = @ \cup {address}]

CallBootstrap(t) ==
  /\ phase = "running"
  /\ pc[t] = "game"
  /\ \/ /\ ignored["loader"] > 0 \/ \E s \in DOMAIN loader : LoaderOf(t, s) = "original"
        /\ Give("nvnDeviceGetProcAddress", "original")
        /\ UNCHANGED pc
     \/ /\ \E s \in DOMAIN loader : LoaderOf(t, s) = "hook"
        /\ Goto(t, "bootstrapping")
        /\ UNCHANGED gave
  /\ UNCHANGED <<armVars, slotVars, cursor, asked, fired, installs, bootstrap, lookup, table, queryVars>>

\* The name asked for is the lookup function, or the address is given through.  A
\* thread that does not see the store of g_bootstrap yet calls a null pointer.
BootstrapLoader(t) ==
  /\ pc[t] = "bootstrapping"
  /\ \/ /\ Sees(t, BootstrapStore)
        /\ lookup' = bootstrap
        /\ Give("nvnDeviceGetProcAddress", "hook")
        /\ Goto(t, "game")
     \/ Sees(t, BootstrapStore) /\ Goto(t, "game") /\ UNCHANGED <<lookup, gave>>
     \/ ~ Sees(t, BootstrapStore) /\ Goto(t, "crashed") /\ UNCHANGED <<lookup, gave>>
  /\ UNCHANGED <<armVars, slotVars, cursor, asked, fired, installs, bootstrap, table, queryVars>>

LookUp(t, f) ==
  /\ pc[t] = "game"
  /\ \/ /\ "original" \in gave["nvnDeviceGetProcAddress"]
        /\ Give(f, "original")
        /\ UNCHANGED <<pc, asked>>
     \/ /\ "hook" \in gave["nvnDeviceGetProcAddress"]
        /\ asked' = [asked EXCEPT ![t] = f]
        /\ Goto(t, IF attempted THEN "binding" ELSE "asking")
        /\ UNCHANGED gave
  /\ UNCHANGED <<armVars, slotVars, cursor, fired, installs, bootstrap, lookup, table, queryVars>>

\* The flag is read in LookUp and written here: two threads may both be first.
AttemptQueries(t) ==
  /\ pc[t] = "asking"
  /\ attempted' = TRUE
  /\ Goto(t, "counting")
  /\ UNCHANGED <<armVars, slotVars, cursor, asked, hookVars, missing>>

CountMissing(t) ==
  /\ pc[t] = "counting"
  /\ missing' = missing + Unexported
  /\ Goto(t, "binding")
  /\ UNCHANGED <<armVars, slotVars, cursor, asked, hookVars, attempted>>

\* Mutant: the lookup of the game's own function is left to the first call.
BindHookUnsaved(t) ==
  /\ pc[t] = "binding"
  /\ \/ Give(asked[t], "hook")
     \/ UNCHANGED gave
  /\ Goto(t, "game")
  /\ UNCHANGED <<armVars, slotVars, cursor, asked, fired, installs, bootstrap, lookup, table, queryVars>>

\* The game's copy of the API has the function, or it does not.
BindHook(t) ==
  /\ pc[t] = "binding"
  /\ \/ /\ table' = [table EXCEPT ![asked[t]] = IF @ = "null" THEN lookup ELSE @]
        /\ Give(asked[t], "hook")
     \/ UNCHANGED <<table, gave>>
  /\ Goto(t, "game")
  /\ UNCHANGED <<armVars, slotVars, cursor, asked, fired, installs, bootstrap, lookup, queryVars>>

InLookup(t) == BootstrapLoader(t) \/ AttemptQueries(t) \/ CountMissing(t) \/ BindHook(t)

\* A null call ends the game.
Crashed == \E t \in Threads : pc[t] = "crashed"

Game(t) ==
  \/ SeeStore(t)
  \/ CallTrigger(t)
  \/ InTrigger(t)
  \/ CallBootstrap(t)
  \/ InLookup(t)
  \/ \E f \in Functions : LookUp(t, f)

Next == Arm \/ (~ Crashed /\ \E t \in Threads : Game(t))

Spec == Init /\ [][Next]_vars

\* The game's threads keep running once they are in the plugin's code; nothing
\* makes them call it, and nothing is said of when a store becomes visible.
Fairness == \A t \in Threads : WF_vars(~ Crashed /\ InTrigger(t))
FairSpec == Spec /\ Fairness

-----------------------------------------------------------------------------
(***************************************************************************)
(* Properties.                                                             *)
(***************************************************************************)
\* Every variable of the installer and of the hooks has its type.
Stores ==
  {BootstrapStore} \cup {SlotStore(s) : s \in References} \cup {LoaderStore(s) : s \in DOMAIN loader}
ArmTypes ==
  /\ imported \in Nat
  /\ ignored \in [Imports -> Nat]
  /\ rebased \subseteq 1 .. imported
  /\ phase \in Phases
  /\ at \in Nat \ {0}
  /\ sites \in 0 .. imported
  /\ chain \in Address
  /\ armed \in BOOLEAN
SlotTypes ==
  /\ slots \in [References -> Address]
  /\ loader \in [DOMAIN loader -> {"null", "original"}]
  /\ redirected \subseteq DOMAIN loader
  /\ unseen \in [Threads -> SUBSET Stores]
ThreadTypes ==
  /\ pc \in [Threads -> Steps]
  /\ cursor \in [Threads -> Nat \ {0}]
  /\ asked \in [Threads -> Functions]
HookTypes ==
  /\ fired \in BOOLEAN
  /\ installs \in Nat
  /\ bootstrap \in Address
  /\ lookup \in Address
  /\ attempted \in BOOLEAN
  /\ missing \in Nat
  /\ table \in [Functions -> Address]
  /\ gave \in [Names -> SUBSET Address]
TypeOK == ArmTypes /\ SlotTypes /\ ThreadTypes /\ HookTypes

InPlugin(t) == pc[t] \in {"entered", "restoring", "installing", "redirecting", "chaining"}

\* Whatever hook a thread can reach, or is in, has the game's own function to go on
\* to: never a hook again, which would recurse, and never a null pointer, with one
\* exception.  It holds although a hook becomes reachable slot by slot, in another
\* order for every thread, while other threads call through the slots already seen,
\* and although arm may fail half way.  The exception is g_bootstrap, which nothing
\* orders before the slots of the loader: a thread that sees the slot and not yet
\* g_bootstrap calls null.  No other thread does, and the one that installs never.
TriggerChains ==
  \A t \in Threads :
    (\E s \in References : SlotOf(t, s) = "hook") \/ InPlugin(t) => chain = "original"
LoaderChains ==
  \A t \in Threads :
    /\ (\E s \in DOMAIN loader : LoaderOf(t, s) = "hook") \/ pc[t] = "bootstrapping"
         => bootstrap = "original"
    /\ pc[t] = "crashed" => ~ Sees(t, BootstrapStore)
    /\ pc[t] = "redirecting" => bootstrap = "original" /\ Sees(t, BootstrapStore)
LookupChains ==
  ( \/ "hook" \in gave["nvnDeviceGetProcAddress"]
    \/ \E t \in Threads : pc[t] \in {"asking", "counting", "binding"} )
    => lookup = "original"
FunctionChains ==
  \A f \in Functions : "hook" \in gave[f] => table[f] = "original"
EveryHookChains == TriggerChains /\ LoaderChains /\ LookupChains /\ FunctionChains

\* The hook is installed at most once, however many threads meet in the thunk,
\* and by then every slot of a trigger that was armed has been stored back: it costs
\* the game nothing any more once the stores are seen, and a thread that still reads
\* the thunk from one only passes through it.
InstalledOnce ==
  /\ installs <= 1
  /\ armed /\ installs = 1 => \A s \in References : slots[s] = "original"

\* arm says it is armed only when every site it looks for, each GLOB_DAT and each
\* JUMP_SLOT relocation of the trigger, leads to the thunk until the first call; it
\* says so too when there are references of other kinds, and a call through one of
\* those slips past it: they lead to the game's own function.
ArmedWhereFound ==
  armed /\ phase = "running" /\ ~ fired =>
    \A t \in Threads, s \in References : SlotOf(t, s) = "hook" <=> s <= imported

\* A game thread that calls the trigger gets through to the game's function,
\* whether it is the one that installs the hook or meets one that does, unless a
\* null call ends the game.
TriggerReturns == \A t \in Threads : InPlugin(t) ~> (pc[t] = "game" \/ Crashed)

\* "Which of the above the game's own copy of the API does not export": the
\* number reported is no more than there are.
MissingIsExact == missing <= Unexported

-----------------------------------------------------------------------------
(***************************************************************************)
(* The inductive invariant behind the safety properties: what arm has done *)
(* when it is where it is; nothing runs before the game does; one thread   *)
(* at most installs; and the bootstrap loader is known before it is hooked.*)
(***************************************************************************)
Installing == {"restoring", "installing", "redirecting"}

ArmInv ==
  /\ phase \in {"find", "chain"} => at = 1 /\ rebased = {}
  /\ phase \in {"chain", "rewrite"} => sites = imported
  /\ phase = "rewrite" => chain = "original" /\ at <= sites + 1 /\ rebased = 1 .. at - 1
  /\ rebased # {} => chain = "original"
  /\ armed => phase \in {"bind", "running"} /\ rebased = 1 .. imported /\ sites = imported
  /\ phase \in {"bind", "running"} => armed \/ sites = 0

QuietInv ==
  phase # "running" =>
    /\ ~ fired /\ installs = 0
    /\ \A t \in Threads : pc[t] = "game"
    /\ \A s \in DOMAIN slots : slots[s] = "null"
    /\ redirected = {}
    /\ \A t \in Threads : unseen[t] = {}
    /\ gave["nvnDeviceGetProcAddress"] = {}

InstallerInv ==
  /\ armed /\ phase = "running" => \A s \in References : s > imported => slots[s] = "original"
  /\ ~ fired => installs = 0 /\ \A t \in Threads : pc[t] \notin Installing
  /\ \A t, u \in Threads : pc[t] \in Installing /\ pc[u] \in Installing => t = u
  /\ \A t \in Threads :
       pc[t] = "restoring" =>
         /\ installs = 0
         /\ armed => \A s \in DOMAIN slots : s < cursor[t] => slots[s] = "original"

LoaderInv ==
  /\ redirected # {} => bootstrap = "original"
  /\ bootstrap # "null" \/ redirected # {} =>
       fired /\ \A t \in Threads : pc[t] \notin {"restoring", "installing"}
  /\ \A f \in Functions : table[f] \in {"null", "original"}

\* What a thread may not see yet was stored by another, which saw it at once.
UnseenInv ==
  /\ ~ fired => \A t \in Threads : unseen[t] = {}
  /\ \A t \in Threads : pc[t] \in Installing => unseen[t] = {}
  /\ \A t \in Threads, s \in References : SlotStore(s) \in unseen[t] => s \in rebased

IInv ==
  /\ TypeOK /\ ArmInv /\ QuietInv /\ InstallerInv /\ LoaderInv /\ UnseenInv
  /\ EveryHookChains /\ InstalledOnce /\ ArmedWhereFound

=============================================================================
