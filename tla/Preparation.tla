----------------------------- MODULE Preparation -----------------------------
(***************************************************************************)
(* The preparation app (apps/prepare): for each configuration it turns the *)
(* shaders of the DLL into a cache (lsfg::prepare::run) and writes it into *)
(* the directory of that DLL and that configuration.  How a directory is   *)
(* rewritten is CacheStore's subject; here a write that fails leaves it as *)
(* it was or without a manifest.  SPIRV-Cross and the compiler of modules  *)
(* are external and may fail on any of them.                               *)
(***************************************************************************)
EXTENDS ShaderSet, Translation, Binding

CONSTANTS
  Dlls,         \* the DLLs that may be on the card
  Inherited,    \* caches another version of the app may have left
  Candidates    \* candidates: [performance, graph], in order

Configs == DOMAIN Candidates

VARIABLES
  card,       \* the cache in the directory of each configuration
  dll,        \* the DLL the directories belong to
  step,       \* where prepare_one is, "idle" while the app does not run
  config,     \* the candidate
  requests,   \* the modules the chain needs
  passes,     \* contents.passes
  used,       \* history: the resource each pass was made from
  result,     \* what came of each candidate
  earlier     \* history: the cards when the app was started

locals == <<requests, passes, used>>
vars == <<card, dll, step, config, locals, result, earlier>>

\* A directory is named after the DLL, the configuration and some versions: not
\* after that of the graph, so that another app may have written to it.
Init ==
  /\ \E left \in {NoCache} \cup Inherited : card = [c \in Configs |-> left]
  /\ dll \in Dlls
  /\ step = "idle"
  /\ config = 1
  /\ requests = <<>>
  /\ passes = <<>>
  /\ used = <<>>
  /\ result = [c \in Configs |-> "untried"]
  /\ earlier = card

Performance == Candidates[config].performance

Walked == Enumerate(dll)
Table == Walked.value

\* graph::build, of which a manifest keeps the slots of the dispatches: which
\* module they run follows from the configuration.
Dispatch(d) ==
  [name |-> Chain[d.slot].name, block |-> BlockIndexOf(Performance, Chain[d.slot]),
   first |-> d.first, count |-> d.count]
Graph == Candidates[config].graph
Contents ==
  [images |-> Graph.images, generated |-> Graph.generated, uniforms |-> Graph.uniforms,
   variants |-> Graph.variants,
   dispatches |-> [k \in DOMAIN Graph.dispatches |-> Dispatch(Graph.dispatches[k])],
   passes |-> passes]

-----------------------------------------------------------------------------
(***************************************************************************)
(* prepare_dll: a candidate that fails is given up and the next one tried; *)
(* the button that stops is looked at after one that succeeded.            *)
(***************************************************************************)
Open ==
  /\ step = "idle"
  /\ step' = "begin"
  /\ UNCHANGED <<card, dll, config, locals, result, earlier>>

Following == IF config = Len(Candidates) THEN "over" ELSE "begin"
Finish(outcome, next) ==
  /\ result' = [result EXCEPT ![config] = outcome]
  /\ step' = next
  /\ config' = IF next = "begin" THEN config + 1 ELSE config
  /\ requests' = <<>> /\ passes' = <<>> /\ used' = <<>>
  /\ UNCHANGED <<dll, earlier>>

GiveUp(error) == Finish(error, Following) /\ UNCHANGED card
Succeed ==
  /\ \E next \in {Following, "over"} : Finish("prepared", next)
  /\ UNCHANGED card

-----------------------------------------------------------------------------
(***************************************************************************)
(* prepare::run.                                                           *)
(***************************************************************************)
Survey ==
  /\ step = "begin"
  /\ LET set    == IF Walked.error = "ok" THEN Identify(Table) ELSE Walked
         needed == IF set.error = "ok" THEN RequiredModules(set.value, "high", Performance) ELSE set
     IN IF needed.error = "ok"
        THEN /\ requests' = needed.value
             /\ step' = "modules"
             /\ UNCHANGED <<card, dll, config, passes, used, result, earlier>>
        ELSE GiveUp(needed.error)

\* find_resource, the first of the table.  Mutant: of any type.
FindResourceOfAnyType(table, id) == {k \in DOMAIN table : table[k].id = id}
FindResource(table, id) == {k \in DOMAIN table : table[k].type = RcData /\ table[k].id = id}

\* A module's slots, or the error of the step that refuses it.
Slots(m) ==
  LET glsl == ToGlsl(m)
  IN IF glsl.error = "ok" THEN DescribeSlots(glsl.value) ELSE Refuse(glsl.error)

\* One round of the loop.  "compiler" stands for what SPIRV-Cross, uam and the
\* workgroup size of what they made may end it with, here or where validate
\* compares that size with the tiles of the dispatches.
TranslateModule ==
  /\ step = "modules" /\ Len(passes) < Len(requests)
  /\ LET request == requests[Len(passes) + 1]
         found   == FindResource(Table, request.id)
     IN \/ found = {} /\ GiveUp("shader_set_unknown")
        \/ found # {} /\ LET m == Table[Min(found)].data
                             slots == Slots(m)
                         IN \/ /\ slots.error = "ok"
                               /\ passes' = Append(passes, PassEntry(m, request.block, slots.value))
                               /\ used' = Append(used, Min(found))
                               /\ UNCHANGED <<card, dll, step, config, requests, result, earlier>>
                            \/ slots.error # "ok" /\ GiveUp(slots.error)
                            \/ ToGlsl(m).error = "ok" /\ GiveUp("compiler")

-----------------------------------------------------------------------------
(***************************************************************************)
(* cache::write, and reading the cache back.  "card" stands for an error   *)
(* of the file system.                                                     *)
(***************************************************************************)
Translated == step = "modules" /\ passes # <<>> /\ Len(passes) = Len(requests)

\* Mutant: the old manifest goes before the new one is validated.
WriteRemovesFirst ==
  /\ Translated
  /\ IF ValidManifest(Contents)
     THEN /\ card' = [card EXCEPT ![config] = Contents]
          /\ step' = "verify"
          /\ UNCHANGED <<dll, config, locals, result, earlier>>
     ELSE card' = [card EXCEPT ![config] = NoCache] /\ Finish("refused", Following)

Write ==
  /\ Translated
  /\ \/ ~ ValidManifest(Contents) /\ GiveUp("refused")
     \/ /\ ValidManifest(Contents)
        /\ card' = [card EXCEPT ![config] = Contents]
        /\ step' = "verify"
        /\ UNCHANGED <<dll, config, locals, result, earlier>>
     \/ /\ ValidManifest(Contents)
        /\ \E left \in {card[config], NoCache} : card' = [card EXCEPT ![config] = left]
        /\ Finish("card", Following)

ReadBack ==
  /\ step = "verify"
  /\ Succeed \/ GiveUp("card")

\* The app ends, or is closed before: what is on the card is all that stays.
Close ==
  /\ step # "idle"
  /\ step' = "idle"
  /\ config' = 1
  /\ requests' = <<>> /\ passes' = <<>> /\ used' = <<>>
  /\ result' = [c \in Configs |-> "untried"]
  /\ earlier' = card
  /\ UNCHANGED <<card, dll>>

Next == Open \/ Survey \/ TranslateModule \/ Write \/ ReadBack \/ Close

Spec == Init /\ [][Next]_vars

=============================================================================
