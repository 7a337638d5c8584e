---------------------------- MODULE BrowserPages ----------------------------
(***************************************************************************)
(* A user goes from the sandbox to the verifier: makes runs, opens the     *)
(* verifier by itself or with "Open in verifier" on a run, and gives it    *)
(* files: the ECO and the Evidence Record of a run, altered copies of      *)
(* both, and a file that is neither.                                       *)
(*                                                                         *)
(* The verifier treats all texts alike, so one text stands for the bundle  *)
(* of whichever run it is given.  The sandbox is followed up to the moment *)
(* the verifier is opened and then closed: nothing it does later reaches   *)
(* the verifier, and the blob of the run may be gone when it is fetched.   *)
(***************************************************************************)
EXTENDS SandboxPage, VerifierPage

CONSTANTS
  Bundle,    \* the bundleText of a run
  Altered,   \* the same with a changed content
  Garbage    \* a text that is no bundle

ASSUME PagesAssumption ==
  /\ {Bundle, Altered, Garbage} \subseteq Text
  /\ Bundle \in Consistent
  /\ Altered \in Readable \ Consistent
  /\ Garbage \notin Readable

pagesVars == <<sandboxVars, verifierVars>>

\* ecoJson: an ECO declares the hash of its own bundleText.
EcoJson == Eco(Bundle, Bundle)

\* evidenceRecordJson: the bundleText alone.
EvidenceRecordJson == Plain(Bundle)

FilesAtHand ==
  {EcoJson, EvidenceRecordJson, Eco(Altered, Bundle), Plain(Altered),
   Plain(Garbage)}

Hashes == {None, Malformed, Bundle, Altered}

PagesInit == SandboxInit /\ VerifierInit

InSandbox == ~opened /\ SandboxNext /\ UNCHANGED verifierVars

\* The sandbox is closed: its state goes with it.
CloseSandbox ==
  /\ runCount' = 0 /\ tamperPending' = FALSE /\ runs' = << >>
  /\ lastRisk' = "CLEAN" /\ making' = {} /\ tamperings' = 0 /\ session' = 0
  /\ status' = Status("VERIFIED", "CLEAN", "IDLE")

OpenInVerifier == runs # << >> /\ Open(EcoJson, None) /\ CloseSandbox

\* A link to the verifier, with ?anchor= or without.
OpenVerifier == \E hash \in Hashes : Open(None, hash) /\ CloseSandbox

InVerifier ==
  /\ \/ \E slot \in Slots, file \in FilesAtHand : Pick(slot, file)
     \/ \E hash \in Hashes : TypeAnchor(hash)
     \/ ToggleLanguage
     \/ PageStep
  /\ UNCHANGED sandboxVars

PagesNext == InSandbox \/ OpenInVerifier \/ OpenVerifier \/ InVerifier

PagesSpec == PagesInit /\ [][PagesNext]_pagesVars

=============================================================================
