--------------------------- MODULE ReportRestart ---------------------------
(***************************************************************************)
(* The report ring across game processes.  The shared memory belongs to    *)
(* the SaltyNX system module and outlives a game, so every game's plugin   *)
(* finds the block of the one before and initialises it again, while an    *)
(* overlay may still be draining it: nothing orders the two.               *)
(***************************************************************************)
EXTENDS ReportRing

CONSTANTS
  MaxRestarts,  \* bound on games after the first
  MaxLog        \* bound on log entries: a cursor left past the other by an
                \* overlapping drain would let the overlay log for ever

ASSUME MaxRestartsAssumption == MaxRestarts \in Nat /\ MaxLog \in Nat

VARIABLES
  restarts,   \* games started after the first
  overlap     \* history: a drain ran when this game initialised the block

restartVars == <<restarts, overlap>>
allVars == <<vars, restartVars>>

InitRestart ==
  /\ Init
  /\ restarts = 0
  /\ overlap = FALSE

\* Mutant: initialize leaves the overlay's cursor to the overlay.
RestartKeepsRead ==
  /\ restarts < MaxRestarts
  /\ restarts' = restarts + 1
  /\ overlap' = Draining
  /\ write' = 0
  /\ dropped' = 0
  /\ slots' = [i \in 0 .. Slots - 1 |-> [length |-> 0, text |-> 0]]
  /\ lock' = NoThread
  /\ pc' = [t \in Threads |-> "idle"]
  /\ next' = [t \in Threads |-> 0]
  /\ line' = [t \in Threads |-> 0]
  /\ accepted' = <<>>
  /\ UNCHANGED <<read, overlayVars, log, printed, stops>>

\* The game ends wherever its threads are, and the next one's plugin runs
\* initialize(ReportBlock&).  The overlay keeps its place and its mapping.
Restart ==
  /\ restarts < MaxRestarts
  /\ restarts' = restarts + 1
  /\ overlap' = Draining
  /\ write' = 0
  /\ read' = 0
  /\ dropped' = 0
  /\ slots' = [i \in 0 .. Slots - 1 |-> [length |-> 0, text |-> 0]]
  /\ lock' = NoThread
  /\ pc' = [t \in Threads |-> "idle"]
  /\ next' = [t \in Threads |-> 0]
  /\ line' = [t \in Threads |-> 0]
  /\ accepted' = <<>>
  /\ UNCHANGED <<overlayVars, log, printed, stops>>

NextRestart ==
  \/ Next /\ Len(log') <= MaxLog /\ UNCHANGED restartVars
  \/ Restart

SpecRestart == InitRestart /\ [][NextRestart]_allVars

-----------------------------------------------------------------------------
\* A game that starts while no drain runs gets a ring that is sound from
\* its first line to its last, whatever state the game before it died in.
CleanAfterRestart ==
  ~overlap => LockInv /\ WindowInv /\ UnreadIntact /\ ProducerInv /\ DrainInv

\* In such a game a line is refused only while the ring really is full: the
\* cursors a dead game left behind cannot make the ring look full for ever.
RefusedOnlyWhenFull ==
  [][\A t \in Threads :
       (pc'[t] = "full" /\ pc[t] # "full" /\ ~overlap) => write - read = Slots]_allVars

\* In such a game no torn line reaches the log.
LoggedWhole ==
  [][(log' # log /\ ~overlap) => log'[Len(log')].length = log'[Len(log')].text]_allVars

-----------------------------------------------------------------------------
\* The inductive invariant behind them: the types survive anything, the rest a
\* restart while no drain runs.
RestartInv ==
  /\ TypeOK
  /\ LinesInHand
  /\ ~overlap => RingInv

=============================================================================
