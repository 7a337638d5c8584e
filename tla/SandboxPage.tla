---------------------------- MODULE SandboxPage ----------------------------
(***************************************************************************)
(* The sandbox page (sandbox/index.html): runs of a placeholder agent, a   *)
(* button that alters its memory and one that starts over.                 *)
(*                                                                         *)
(* createRun decides, numbers its run and clears the tampering before its  *)
(* first await; the evidence is hashed after it, and the run enters the    *)
(* page when that is done.  Any button may be pressed in between, and the  *)
(* hashes of two runs may end in any order.                                *)
(***************************************************************************)
EXTENDS Integers, Sequences, FiniteSets, SequencesExt

CONSTANTS
  Modes,      \* the buttons for a run that are pressed: clean, injection
  MaxRuns,    \* bound of the model on runCount
  MaxResets   \* bound of the model on resets

ASSUME SandboxAssumption ==
  /\ Modes \subseteq {"clean", "injection"}
  /\ {MaxRuns, MaxResets} \subseteq Nat

VARIABLES
  runCount,       \* state.runCount
  tamperPending,  \* state.tamperPending
  runs,           \* state.runs, the last first
  lastRisk,       \* state.lastRisk
  making,         \* the runs whose createEco is under way
  status,         \* what setStatus wrote last
  session,        \* history: resets so far
  tamperings      \* history: tamperings since the last reset

sandboxVars == <<runCount, tamperPending, runs, lastRisk, making, status,
                 session, tamperings>>

Status(memory, risk, decision) ==
  [runCount |-> runCount', memory |-> memory, risk |-> risk,
   decision |-> decision]

\* Mutant: the runs listed so far are counted.
NextNumberListed == Len(runs) + 1

NextNumber == runCount + 1

\* The run createRun builds.  Its entries carry the time, which tells apart
\* the runs of one number before and after a reset.
NewRun(mode) ==
  [session |-> session, number |-> NextNumber,
   memory  |-> IF tamperPending THEN "TAMPERED" ELSE "VERIFIED",
   contentRisk |-> IF mode = "injection" THEN "SUSPICIOUS"
                   ELSE IF tamperPending THEN "UNREVIEWED" ELSE "CLEAN",
   decision |-> IF tamperPending THEN "STOP_BY_INTEGRITY"
                ELSE IF mode = "injection" THEN "EXECUTE_WITH_WARNING"
                ELSE "EXECUTE"]

\* The first assignment of resetSandbox to the end of the page's script.
SandboxInit ==
  /\ runCount = 0
  /\ tamperPending = FALSE
  /\ runs = << >>
  /\ lastRisk = "CLEAN"
  /\ making = {}
  /\ status = [runCount |-> 0, memory |-> "VERIFIED", risk |-> "CLEAN",
               decision |-> "IDLE"]
  /\ session = 0
  /\ tamperings = 0

\* Mutant: the tampering is cleared when the run is listed, not when it stops.
StartRunUncleared ==
  \E mode \in Modes :
    /\ runCount < MaxRuns
    /\ runCount' = runCount + 1
    /\ making' = making \cup {NewRun(mode)}
    /\ UNCHANGED <<tamperPending, runs, lastRisk, status, session, tamperings>>

StartRun ==
  \E mode \in Modes :
    /\ runCount < MaxRuns
    /\ runCount' = runCount + 1
    /\ making' = making \cup {NewRun(mode)}
    /\ tamperPending' = FALSE
    /\ UNCHANGED <<runs, lastRisk, status, session, tamperings>>

FinishRun ==
  \E run \in making :
    /\ making' = making \ {run}
    /\ runs' = <<run>> \o runs
    /\ lastRisk' = run.contentRisk
    /\ UNCHANGED <<runCount, tamperPending, session, tamperings>>
    /\ status' = Status(run.memory, run.contentRisk, run.decision)

ApplyTamper ==
  /\ tamperPending' = TRUE
  /\ tamperings' = IF tamperPending THEN tamperings ELSE tamperings + 1
  /\ UNCHANGED <<runCount, runs, lastRisk, making, session>>
  /\ status' = Status("PENDING_TAMPER_CHECK", lastRisk, "WAITING_FOR_NEXT_RUN")

\* resetSandbox.  A run that is being made is not cancelled: it enters the
\* page of the next session.
ResetSandbox ==
  /\ session < MaxResets
  /\ runCount' = 0
  /\ tamperPending' = FALSE
  /\ runs' = << >>
  /\ lastRisk' = "CLEAN"
  /\ session' = session + 1
  /\ tamperings' = 0
  /\ UNCHANGED making
  /\ status' = Status("VERIFIED", "CLEAN", "IDLE")

SandboxNext == StartRun \/ FinishRun \/ ApplyTamper \/ ResetSandbox

SandboxSpec == SandboxInit /\ [][SandboxNext]_sandboxVars

-----------------------------------------------------------------------------

\* The runs of this session that have been started and not been forgotten.
Started == {run \in making \cup ToSet(runs) : run.session = session}

\* Every tampering stops exactly one run, the next to be started, however many
\* are being hashed at that moment: none is missed because a run that began
\* before it ends after it, and none stops two runs.
TamperStopsOneRun ==
  Cardinality({run \in Started : run.decision = "STOP_BY_INTEGRITY"})
    + (IF tamperPending THEN 1 ELSE 0) = tamperings

\* The runs of a session are numbered from 1 without a gap or a number used
\* twice, whatever the order in which they end: their artifacts are told apart
\* by that number (artifact_id, the names of the downloads).
NumbersExact ==
  /\ Cardinality(Started) = runCount
  /\ {run.number : run \in Started} = 1 .. runCount

=============================================================================
