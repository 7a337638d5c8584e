---------------------------- MODULE PagesProofs ----------------------------
(***************************************************************************)
(* Proofs about the two pages of the browser, for any number of runs and   *)
(* resets, any texts, any number of files and anchors, and any order in    *)
(* which hashes, file reads, the timer and the fetch end.                  *)
(***************************************************************************)
EXTENDS BrowserPages, FiniteSetTheorems, SequenceTheorems, TLAPS

-----------------------------------------------------------------------------
(* The sandbox *)

SandboxRun ==
  [session : Nat, number : Nat, memory : {"VERIFIED", "TAMPERED"},
   contentRisk : {"CLEAN", "SUSPICIOUS", "UNREVIEWED"},
   decision : {"EXECUTE", "EXECUTE_WITH_WARNING", "STOP_BY_INTEGRITY"}]

SandboxTyped ==
  /\ runCount \in Nat /\ session \in Nat /\ tamperings \in Nat
  /\ tamperPending \in BOOLEAN
  /\ runs \in Seq(SandboxRun)
  /\ making \subseteq SandboxRun

\* No run is from a session to come, and those of this one are finitely many.
SandboxInv ==
  /\ SandboxTyped
  /\ \A run \in making \cup ToSet(runs) : run.session <= session
  /\ IsFiniteSet(Started)
  /\ NumbersExact
  /\ TamperStopsOneRun

\* A page that has started over has no run.
LEMMA Afresh ==
  ASSUME SandboxTyped', Started' = {}, runCount' = 0, tamperings' = 0,
         tamperPending' = FALSE,
         \A run \in making' \cup ToSet(runs') : run.session <= session'
  PROVE  SandboxInv'
<1>1. IsFiniteSet({}) /\ Cardinality({}) = 0
  BY FS_EmptySet
<1>2. NumbersExact'
  BY <1>1 DEF NumbersExact
<1>3. {run \in Started' : run.decision = "STOP_BY_INTEGRITY"} = {}
  OBVIOUS
<1>4. TamperStopsOneRun'
  BY <1>1, <1>3 DEF TamperStopsOneRun
<1> QED BY <1>1, <1>2, <1>4 DEF SandboxInv

LEMMA SandboxStarts == SandboxInit => SandboxInv
<1> SUFFICES ASSUME SandboxInit PROVE SandboxInv
  OBVIOUS
<1>1. runs = << >> /\ making = {} /\ runCount = 0 /\ session = 0 /\ tamperings = 0
      /\ tamperPending = FALSE
  BY DEF SandboxInit
<1>2. SandboxTyped
  <2>1. << >> \in Seq(SandboxRun) /\ {} \subseteq SandboxRun /\ FALSE \in BOOLEAN
    OBVIOUS
  <2> QED BY <1>1, <2>1 DEF SandboxTyped
<1>3. ToSet(runs) = {}
  BY <1>1 DEF ToSet
<1>4. Started = {} /\ IsFiniteSet({}) /\ Cardinality({}) = 0
  BY <1>1, <1>3, FS_EmptySet DEF Started
<1>5. NumbersExact
  BY <1>1, <1>4 DEF NumbersExact
<1>6. {run \in Started : run.decision = "STOP_BY_INTEGRITY"} = {}
  BY <1>4
<1>7. TamperStopsOneRun
  BY <1>1, <1>4, <1>6 DEF TamperStopsOneRun
<1> QED BY <1>1, <1>2, <1>3, <1>4, <1>5, <1>7 DEF SandboxInv

LEMMA StartRunStep ==
  ASSUME SandboxInv, StartRun
  PROVE  SandboxInv'
<1>1. PICK mode \in Modes :
        /\ runCount' = runCount + 1
        /\ making' = making \cup {NewRun(mode)}
        /\ tamperPending' = FALSE
        /\ UNCHANGED <<runs, session, tamperings>>
  BY DEF StartRun
<1> DEFINE new == NewRun(mode)
<1>2. /\ new \in SandboxRun
      /\ new.session = session /\ new.number = runCount + 1
      /\ new.decision = "STOP_BY_INTEGRITY" <=> tamperPending
  BY DEF NewRun, NextNumber, SandboxRun, SandboxInv, SandboxTyped
<1> HIDE DEF new
<1>3. SandboxTyped'
  <2>1. making' \subseteq SandboxRun
    BY <1>1, <1>2 DEF SandboxInv, SandboxTyped, new
  <2>2. runCount' \in Nat
    BY <1>1 DEF SandboxInv, SandboxTyped
  <2>3. tamperPending' \in BOOLEAN
    BY <1>1
  <2> QED BY <1>1, <2>1, <2>2, <2>3, Zenon DEF SandboxInv, SandboxTyped
<1>4. Started' = Started \cup {new}
  BY <1>1, <1>2 DEF Started, new
<1>5. new \notin Started
  <2>1. \A run \in Started : run.number \in 1 .. runCount
    BY DEF SandboxInv, NumbersExact
  <2>2. runCount + 1 \notin 1 .. runCount
    BY DEF SandboxInv, SandboxTyped
  <2> QED BY <1>2, <2>1, <2>2
<1>6. /\ IsFiniteSet(Started \cup {new})
      /\ Cardinality(Started \cup {new}) = runCount + 1
  BY <1>5, FS_AddElement DEF SandboxInv, NumbersExact
<1>7. {run.number : run \in Started \cup {new}} = 1 .. runCount + 1
  <2>1. {run.number : run \in Started \cup {new}}
          = {run.number : run \in Started} \cup {runCount + 1}
    BY <1>2
  <2>2. (1 .. runCount) \cup {runCount + 1} = 1 .. runCount + 1
    BY DEF SandboxInv, SandboxTyped
  <2> QED BY <2>1, <2>2 DEF SandboxInv, NumbersExact
<1>8. NumbersExact'
  BY <1>1, <1>4, <1>6, <1>7 DEF NumbersExact
<1>9. TamperStopsOneRun'
  <2> DEFINE stopped  == {run \in Started : run.decision = "STOP_BY_INTEGRITY"}
             stoppedN == {run \in Started \cup {new} :
                            run.decision = "STOP_BY_INTEGRITY"}
  <2>1. IsFiniteSet(stopped) /\ new \notin stopped
    BY <1>5, FS_Subset DEF SandboxInv
  <2>2. Cardinality(stopped) + (IF tamperPending THEN 1 ELSE 0) = tamperings
    BY DEF SandboxInv, TamperStopsOneRun
  <2>3. Cardinality(stopped) \in Nat
    BY <2>1, FS_CardinalityType
  <2>4. CASE tamperPending
    <3>1. stoppedN = stopped \cup {new}
      BY <1>2, <2>4
    <3>2. Cardinality(stoppedN) = Cardinality(stopped) + 1
      BY <2>1, <3>1, FS_AddElement
    <3>3. Cardinality(stoppedN) + 0 = tamperings
      BY <2>2, <2>3, <2>4, <3>2
    <3> QED BY <1>1, <1>4, <3>3 DEF TamperStopsOneRun
  <2>5. CASE ~ tamperPending
    <3>1. stoppedN = stopped
      BY <1>2, <2>5
    <3>2. Cardinality(stoppedN) + 0 = tamperings
      BY <2>2, <2>5, <3>1
    <3> QED BY <1>1, <1>4, <3>2 DEF TamperStopsOneRun
  <2> QED BY <2>4, <2>5
<1>10. \A run \in making' \cup ToSet(runs') : run.session <= session'
  BY <1>1, <1>2 DEF SandboxInv, SandboxTyped, new
<1> QED BY <1>3, <1>4, <1>6, <1>8, <1>9, <1>10 DEF SandboxInv

LEMMA FinishRunStep ==
  ASSUME SandboxInv, FinishRun
  PROVE  SandboxInv'
<1>1. PICK run \in making :
        /\ making' = making \ {run}
        /\ runs' = <<run>> \o runs
        /\ UNCHANGED <<runCount, tamperPending, session, tamperings>>
  BY DEF FinishRun
<1>2. run \in SandboxRun /\ runs \in Seq(SandboxRun)
  BY DEF SandboxInv, SandboxTyped
<1>3. runs' \in Seq(SandboxRun) /\ ToSet(runs') = {run} \cup ToSet(runs)
  <2>1. /\ <<run>> \in Seq(SandboxRun) /\ Len(<<run>>) = 1
        /\ Len(<<run>> \o runs) = Len(runs) + 1
        /\ \A i \in 1 .. Len(runs) + 1 :
             (<<run>> \o runs)[i] = IF i = 1 THEN run ELSE runs[i - 1]
    BY <1>2
  <2> DEFINE longer == <<run>> \o runs
  <2>2. longer \in Seq(SandboxRun)
    BY <1>2, <2>1
  <2> HIDE DEF longer
  <2>3. Len(runs) \in Nat
    BY <1>2
  <2>4. ToSet(longer) = {longer[i] : i \in 1 .. Len(runs) + 1}
    <3>1. DOMAIN longer = 1 .. Len(longer)
      BY <2>2
    <3>2. Len(longer) = Len(runs) + 1
      BY <2>1 DEF longer
    <3> QED BY <3>1, <3>2 DEF ToSet
  <2>5. ToSet(runs) = {runs[i] : i \in 1 .. Len(runs)}
    BY <1>2 DEF ToSet
  <2>6. ASSUME NEW i \in 1 .. Len(runs) + 1
        PROVE  longer[i] \in {run} \cup ToSet(runs)
    BY <2>1, <2>3, <2>5 DEF longer
  <2>7. run \in ToSet(longer)
    BY <2>1, <2>3, <2>4 DEF longer
  <2>8. ASSUME NEW i \in 1 .. Len(runs)
        PROVE  runs[i] \in ToSet(longer)
    <3>1. i + 1 \in 1 .. Len(runs) + 1 /\ longer[i + 1] = runs[i]
      BY <2>1, <2>3 DEF longer
    <3> QED BY <2>4, <3>1
  <2> QED BY <1>1, <2>2, <2>4, <2>5, <2>6, <2>7, <2>8 DEF longer
<1>4. making' \cup ToSet(runs') = making \cup ToSet(runs)
  BY <1>1, <1>3
<1>5. Started' = Started
  BY <1>1, <1>4 DEF Started
<1>6. SandboxTyped'
  BY <1>1, <1>3 DEF SandboxInv, SandboxTyped
<1> QED BY <1>1, <1>4, <1>5, <1>6 DEF SandboxInv, NumbersExact, TamperStopsOneRun

LEMMA ApplyTamperStep ==
  ASSUME SandboxInv, ApplyTamper
  PROVE  SandboxInv'
<1>1. /\ tamperPending' = TRUE
      /\ tamperings' = IF tamperPending THEN tamperings ELSE tamperings + 1
      /\ UNCHANGED <<runCount, runs, making, session>>
  BY DEF ApplyTamper
<1>2. Started' = Started
  BY <1>1 DEF Started
<1>3. SandboxTyped'
  <2>1. tamperings' \in Nat /\ tamperPending' \in BOOLEAN
    BY <1>1 DEF SandboxInv, SandboxTyped
  <2> QED BY <1>1, <2>1, Zenon DEF SandboxInv, SandboxTyped
<1>4. TamperStopsOneRun'
  <2> DEFINE stopped == {run \in Started : run.decision = "STOP_BY_INTEGRITY"}
  <2>1. IsFiniteSet(stopped)
    BY FS_Subset DEF SandboxInv
  <2>2. Cardinality(stopped) \in Nat
    BY <2>1, FS_CardinalityType
  <2>3. Cardinality(stopped) + (IF tamperPending THEN 1 ELSE 0) = tamperings
    BY DEF SandboxInv, TamperStopsOneRun
  <2> HIDE DEF stopped
  <2>4. Cardinality(stopped) + 1 = tamperings'
    BY <1>1, <2>2, <2>3 DEF SandboxInv, SandboxTyped
  <2> QED BY <1>1, <1>2, <2>4 DEF TamperStopsOneRun, stopped
<1> QED BY <1>1, <1>2, <1>3, <1>4 DEF SandboxInv, NumbersExact

\* A reset forgets the runs that are listed; one that is being made belongs to
\* a session that is over.
LEMMA ResetStep ==
  ASSUME SandboxInv, ResetSandbox
  PROVE  SandboxInv'
<1>1. /\ runCount' = 0 /\ tamperPending' = FALSE /\ tamperings' = 0
      /\ runs' = << >> /\ making' = making /\ session' = session + 1
  BY DEF ResetSandbox
<1>2. SandboxTyped'
  <2>1. << >> \in Seq(SandboxRun) /\ FALSE \in BOOLEAN
    OBVIOUS
  <2>2. session' \in Nat /\ making' \subseteq SandboxRun
    BY <1>1 DEF SandboxInv, SandboxTyped
  <2> QED BY <1>1, <2>1, <2>2 DEF SandboxTyped
<1>3. ToSet(runs') = {}
  BY <1>1 DEF ToSet
<1>4. \A run \in making' : run.session <= session /\ run.session \in Nat
  BY <1>1 DEF SandboxInv, SandboxTyped, SandboxRun
<1>5. session \in Nat
  BY DEF SandboxInv, SandboxTyped
<1>6. \A run \in making' \cup ToSet(runs') :
        run.session <= session' /\ run.session # session'
  BY <1>1, <1>3, <1>4, <1>5
<1>7. Started' = {}
  BY <1>6 DEF Started
<1> QED BY <1>1, <1>2, <1>6, <1>7, Afresh

LEMMA CloseStep ==
  ASSUME CloseSandbox
  PROVE  SandboxInv'
<1>1. /\ runCount' = 0 /\ tamperPending' = FALSE /\ tamperings' = 0
      /\ runs' = << >> /\ making' = {} /\ session' = 0
  BY DEF CloseSandbox
<1>2. SandboxTyped'
  <2>1. << >> \in Seq(SandboxRun) /\ FALSE \in BOOLEAN /\ {} \subseteq SandboxRun
    OBVIOUS
  <2> QED BY <1>1, <2>1 DEF SandboxTyped
<1>3. ToSet(runs') = {}
  BY <1>1 DEF ToSet
<1>4. Started' = {} /\ making' \cup ToSet(runs') = {}
  BY <1>1, <1>3 DEF Started
<1> QED BY <1>1, <1>2, <1>4, Afresh

LEMMA SandboxStep ==
  ASSUME SandboxInv, [PagesNext]_pagesVars
  PROVE  SandboxInv'
<1>1. CASE UNCHANGED sandboxVars
  BY <1>1 DEF sandboxVars, SandboxInv, SandboxTyped, NumbersExact,
     TamperStopsOneRun, Started
<1>2. CASE SandboxNext
  BY <1>2, StartRunStep, FinishRunStep, ApplyTamperStep, ResetStep DEF SandboxNext
<1>3. CASE CloseSandbox
  BY <1>3, CloseStep
<1> QED BY <1>1, <1>2, <1>3 DEF PagesNext, InSandbox, OpenInVerifier, OpenVerifier,
        InVerifier, pagesVars

LEMMA SandboxInvariance == PagesSpec => []SandboxInv
<1>1. PagesInit => SandboxInv
  BY SandboxStarts DEF PagesInit
<1> QED BY <1>1, SandboxStep, PTL DEF PagesSpec

\* Every tampering stops exactly one run, for any number of runs being hashed
\* when it comes.
THEOREM TamperingsStopRuns == PagesSpec => []TamperStopsOneRun
<1>1. SandboxInv => TamperStopsOneRun
  BY DEF SandboxInv
<1> QED BY <1>1, SandboxInvariance, PTL

\* The runs of a session are numbered without a gap or a repetition, in
\* whatever order their hashes end.
THEOREM RunsAreNumbered == PagesSpec => []NumbersExact
<1>1. SandboxInv => NumbersExact
  BY DEF SandboxInv
<1> QED BY <1>1, SandboxInvariance, PTL

-----------------------------------------------------------------------------
(* The verifier *)

FileOrNone == File \cup {None}

Check ==
  [kind : {"plain", "hashing", "strict"}, file : FileOrNone, anchor : Hashes,
   receipt : FileOrNone, comparison : {"none", "match", "mismatch"}]

VerifierTyped ==
  /\ lastBytes \in FileOrNone
  /\ recordBytes \in FileOrNone
  /\ receiptBytes \in FileOrNone
  /\ fetching \in FileOrNone
  /\ anchor \in Hashes
  /\ reads \in Seq([slot : Slots, file : File])
  /\ checks \in Seq(Check)

\* Nothing happens in a page that is not open.
OpenedOK ==
  reads # << >> \/ timer \/ fetching # None \/ judged # "none" => opened

\* The check run makes of a file and an anchor, and runStrict of the record and
\* the receipt in the page.
PlainCheck(file, hash) ==
  [kind |-> "plain", file |-> file, anchor |-> hash, receipt |-> None,
   comparison |-> "none"]

StrictCheck(kind, comparison) ==
  [kind |-> kind, file |-> recordBytes, anchor |-> None, receipt |-> receiptBytes,
   comparison |-> comparison]

Concluded(result) ==
  checks = << >> /\ lastResult = result /\ shown = Rendered(result)

\* The plain check that began last, undisturbed, is the only one and is about
\* the file in the page, with the anchor in it unless the timer is about to
\* start another; or it has ended and the page shows its verdict.
PlainOK ==
  /\ lastBytes \in File
  /\ \E hash \in Hashes :
       /\ ~ timer => hash = anchor
       /\ \/ checks = <<PlainCheck(lastBytes, hash)>>
          \/ Concluded(VerifyBundle(Subject(lastBytes), hash))

\* The same of the strict check: it is about the record and the receipt.
StrictOK ==
  LET compared == Comparison(recordBytes, receiptBytes)
  IN  /\ recordBytes \in File /\ receiptBytes \in File
      /\ \/ checks = <<StrictCheck("hashing", "none")>>
         \/ checks = <<StrictCheck("strict", compared)>>
         \/ /\ strictStatus = compared
            /\ Concluded([VerifyBundle(recordBytes, None) EXCEPT
                            !.comparison = compared])

CurrentOK ==
  ~ overlapped => /\ judged # "none" => fetching = None
                  /\ judged = "plain" => PlainOK
                  /\ judged = "strict" => StrictOK

VerifierInv == VerifierTyped /\ OpenedOK /\ BusyEnds /\ CurrentOK

\* What verifyBundle returns is a result, so it is not null.
LEMMA BundleResult ==
  ASSUME NEW file \in File, NEW hash
  PROVE  /\ VerifyBundle(file, hash) \in AnyResult
         /\ Subject(file) \in File
         /\ VerifyBundle(file, hash) # None
<1>1. Anchored(file, hash) \in {"not_provided", "invalid", "match", "mismatch"}
  BY DEF Anchored
<1>2. VerifyBundle(file, hash) \in AnyResult
  BY <1>1 DEF VerifyBundle, Result, AnyResult
<1>3. Subject(file) \in File
  BY DEF Subject, File, IsEco, Plain
<1> QED BY <1>2, <1>3, NullAssumption

LEMMA FilesTyped == FilesAtHand \subseteq File /\ None \in Hashes
BY PagesAssumption DEF FilesAtHand, EcoJson, EvidenceRecordJson, Eco, Plain, File,
   Hashes

LEMMA RemoveAtTyped ==
  ASSUME NEW S, NEW s \in Seq(S), NEW i \in 1 .. Len(s)
  PROVE  s[i] \in S /\ RemoveAt(s, i) \in Seq(S)
<1>1. SubSeq(s, 1, i - 1) \in Seq(S) /\ SubSeq(s, i + 1, Len(s)) \in Seq(S)
  OBVIOUS
<1> QED BY <1>1 DEF RemoveAt

\* Taking away the only element.
LEMMA RemoveOnly ==
  ASSUME NEW x, NEW i \in 1 .. Len(<<x>>)
  PROVE  i = 1 /\ RemoveAt(<<x>>, i) = << >>
<1>1. i = 1
  OBVIOUS
<1>2. SubSeq(<<x>>, 1, 0) = << >> /\ SubSeq(<<x>>, 2, 1) = << >> /\ Len(<<x>>) = 1
  OBVIOUS
<1> QED BY <1>1, <1>2 DEF RemoveAt

LEMMA VerifierStarts == VerifierInit => VerifierInv
<1> SUFFICES ASSUME VerifierInit PROVE VerifierInv
  OBVIOUS
<1>1. VerifierTyped
  BY FilesTyped DEF VerifierInit, VerifierTyped, FileOrNone
<1>2. OpenedOK
  BY DEF VerifierInit, OpenedOK
<1>3. BusyEnds
  BY DEF VerifierInit, BusyEnds, Idle, Busy
<1>4. CurrentOK
  BY DEF VerifierInit, CurrentOK
<1> QED BY <1>1, <1>2, <1>3, <1>4 DEF VerifierInv

\* run starts a check of the file it is given with the anchor in the page.
LEMMA RunBegins ==
  ASSUME VerifierTyped, NEW file \in FileOrNone, Run(file)
  PROVE  /\ checks' \in Seq(Check) /\ checks' # << >>
         /\ judged' = "plain"
         /\ ~ overlapped' => checks' = <<PlainCheck(file, anchor)>> /\ fetching' = None
<1> DEFINE check == PlainCheck(file, anchor)
<1>1. /\ checks' = Append(checks, check)
      /\ judged' = "plain"
      /\ overlapped' = (checks # << >> \/ fetching' # None)
  BY DEF Run, Begin, PlainCheck
<1>2. check \in Check
  BY DEF VerifierTyped, PlainCheck, Check, FileOrNone
<1> HIDE DEF check
<1>3. checks' \in Seq(Check) /\ checks' # << >>
  BY <1>1, <1>2 DEF VerifierTyped
<1>4. Append(<< >>, check) = <<check>>
  OBVIOUS
<1> QED BY <1>1, <1>3, <1>4 DEF check

\* runStrict starts a check of the two files it is given, complains about the
\* receipt, or does nothing while one of them is missing.
LEMMA RunStrictBegins ==
  ASSUME VerifierTyped, NEW record \in FileOrNone, NEW receipt \in FileOrNone,
         RunStrict(record, receipt)
  PROVE  LET check == [kind |-> "hashing", file |-> record, anchor |-> None,
                       receipt |-> receipt, comparison |-> "none"]
         IN  \/ /\ record = None \/ receipt = None
                /\ UNCHANGED <<checks, shown, judged, overlapped>>
             \/ judged' = "none" /\ checks' = checks /\ shown' # Busy
             \/ /\ record # None /\ receipt # None
                /\ judged' = "strict"
                /\ checks' \in Seq(Check) /\ checks' # << >>
                /\ ~ overlapped' => checks' = <<check>> /\ fetching' = None
<1> DEFINE check == [kind |-> "hashing", file |-> record, anchor |-> None,
                     receipt |-> receipt, comparison |-> "none"]
<1>1. CASE None \in {record, receipt}
  BY <1>1 DEF RunStrict
<1>2. CASE None \notin {record, receipt} /\ ~ IsEco(receipt)
  BY <1>2 DEF RunStrict, Begin, Complain, Complaint, Busy
<1>3. CASE None \notin {record, receipt} /\ IsEco(receipt)
  <2>1. /\ checks' = Append(checks, check)
        /\ judged' = "strict"
        /\ overlapped' = (checks # << >> \/ fetching' # None)
    BY <1>3 DEF RunStrict, Begin
  <2>2. check \in Check
    BY FilesTyped DEF Check
  <2> HIDE DEF check
  <2>3. checks' \in Seq(Check) /\ checks' # << >>
    BY <2>1, <2>2 DEF VerifierTyped
  <2>4. Append(<< >>, check) = <<check>>
    OBVIOUS
  <2> QED BY <1>3, <2>1, <2>3, <2>4 DEF check
<1> QED BY <1>1, <1>2, <1>3

\* Picking a file and typing an anchor begin nothing: the bytes come later, and
\* the timer will start the check of the new anchor.
LEMMA PickStep ==
  ASSUME VerifierInv, NEW slot \in Slots, NEW file \in File, Pick(slot, file)
  PROVE  VerifierInv'
<1>1. /\ reads' = Append(reads, [slot |-> slot, file |-> file]) /\ opened
      /\ UNCHANGED <<opened, lastBytes, recordBytes, receiptBytes, anchor, timer,
                     fetching, checks, lastResult, shown, strictStatus,
                     judged, overlapped>>
  BY DEF Pick
<1>2. reads' \in Seq([slot : Slots, file : File])
  <2>1. [slot |-> slot, file |-> file] \in [slot : Slots, file : File]
    OBVIOUS
  <2> QED BY <1>1, <2>1 DEF VerifierInv, VerifierTyped
<1>3. VerifierTyped' /\ OpenedOK' /\ BusyEnds'
  BY <1>1, <1>2 DEF VerifierInv, VerifierTyped, OpenedOK, BusyEnds
<1>4. CurrentOK'
  BY <1>1 DEF VerifierInv, CurrentOK, PlainOK, StrictOK, Concluded, StrictCheck
<1> QED BY <1>3, <1>4 DEF VerifierInv

LEMMA TypeAnchorStep ==
  ASSUME VerifierInv, NEW hash \in Hashes, TypeAnchor(hash)
  PROVE  VerifierInv'
<1>1. /\ opened /\ anchor' = hash /\ timer' = TRUE
      /\ UNCHANGED <<opened, lastBytes, recordBytes, receiptBytes, reads, fetching,
                     checks, lastResult, shown, strictStatus, judged, overlapped>>
  BY DEF TypeAnchor
<1>2. VerifierTyped' /\ OpenedOK' /\ BusyEnds'
  BY <1>1 DEF VerifierInv, VerifierTyped, OpenedOK, BusyEnds
<1>3. PlainOK => PlainOK'
  BY <1>1 DEF PlainOK, Concluded
<1>4. StrictOK => StrictOK'
  BY <1>1 DEF StrictOK, Concluded, StrictCheck
<1>5. CurrentOK'
  BY <1>1, <1>3, <1>4 DEF VerifierInv, CurrentOK
<1> QED BY <1>2, <1>5 DEF VerifierInv

\* A check of a file has begun with that file in the page.
LEMMA RunStep ==
  ASSUME VerifierInv, NEW file \in File, Run(file), opened, opened' = opened,
         lastBytes' = file, anchor' = anchor,
         recordBytes' = recordBytes, receiptBytes' = receiptBytes,
         fetching' \in FileOrNone, reads' \in Seq([slot : Slots, file : File])
  PROVE  VerifierInv'
<1>1. file \in FileOrNone /\ VerifierTyped
  BY DEF FileOrNone, VerifierInv
<1>2. /\ checks' \in Seq(Check) /\ checks' # << >>
      /\ judged' = "plain"
      /\ ~ overlapped' => checks' = <<PlainCheck(file, anchor)>> /\ fetching' = None
  BY <1>1, RunBegins
<1>3. VerifierTyped' /\ OpenedOK' /\ BusyEnds'
  BY <1>1, <1>2 DEF VerifierTyped, OpenedOK, BusyEnds
<1>4. ~ overlapped' => PlainOK'
  BY <1>1, <1>2 DEF PlainOK, VerifierTyped
<1>5. CurrentOK'
  BY <1>2, <1>4 DEF CurrentOK
<1> QED BY <1>3, <1>5 DEF VerifierInv

LEMMA TimerFiresStep ==
  ASSUME VerifierInv, TimerFires
  PROVE  VerifierInv'
<1>1. /\ timer /\ timer' = FALSE
      /\ UNCHANGED <<opened, lastBytes, recordBytes, receiptBytes, anchor, reads,
                     fetching, lastResult, inputs>>
  BY DEF TimerFires
<1>2. CASE lastBytes # None
  <2>1. Run(lastBytes) /\ lastBytes \in File /\ opened
    BY <1>1, <1>2 DEF TimerFires, VerifierInv, VerifierTyped, FileOrNone, OpenedOK
  <2> QED BY <1>1, <2>1, RunStep DEF VerifierInv, VerifierTyped
<1>3. CASE lastBytes = None
  <2>1. UNCHANGED <<checks, shown, judged, overlapped, strictStatus>>
    BY <1>3 DEF TimerFires
  <2>2. VerifierTyped' /\ OpenedOK' /\ BusyEnds'
    BY <1>1, <2>1 DEF VerifierInv, VerifierTyped, OpenedOK, BusyEnds
  <2>3. ~ PlainOK
    BY <1>3, NullAssumption DEF PlainOK
  <2>4. StrictOK => StrictOK'
    BY <1>1, <2>1 DEF StrictOK, Concluded, StrictCheck
  <2>5. CurrentOK'
    BY <1>1, <2>1, <2>3, <2>4 DEF VerifierInv, CurrentOK
  <2> QED BY <2>2, <2>5 DEF VerifierInv
<1> QED BY <1>2, <1>3

LEMMA LoadedStep ==
  ASSUME VerifierInv, Loaded
  PROVE  VerifierInv'
<1>1. PICK i \in 1 .. Len(reads) :
        LET slot == reads[i].slot
            file == reads[i].file
        IN  /\ reads' = RemoveAt(reads, i)
            /\ lastBytes'    = IF slot = "file"    THEN file ELSE lastBytes
            /\ recordBytes'  = IF slot = "record"  THEN file ELSE recordBytes
            /\ receiptBytes' = IF slot = "receipt" THEN file ELSE receiptBytes
            /\ UNCHANGED <<opened, anchor, timer, fetching, lastResult, inputs>>
            /\ IF slot = "file" THEN Run(file)
                                ELSE RunStrict(recordBytes', receiptBytes')
  BY DEF Loaded
<1> DEFINE slot == reads[i].slot
           file == reads[i].file
<1>2. reads[i] \in [slot : Slots, file : File]
  <2>1. reads \in Seq([slot : Slots, file : File])
    BY DEF VerifierInv, VerifierTyped
  <2> QED BY <2>1, RemoveAtTyped
<1>3. slot \in Slots /\ file \in File
  BY <1>2
<1>4. reads' \in Seq([slot : Slots, file : File])
  BY <1>1, RemoveAtTyped DEF VerifierInv, VerifierTyped
<1>5. opened
  <2>1. reads # << >>
    BY <1>2
  <2> QED BY <2>1 DEF VerifierInv, OpenedOK
<1> HIDE DEF slot, file
<1>6. CASE slot = "file"
  <2>1. /\ Run(file) /\ lastBytes' = file
        /\ UNCHANGED <<opened, anchor, recordBytes, receiptBytes, fetching>>
    BY <1>1, <1>6 DEF slot, file
  <2> QED BY <1>3, <1>4, <1>5, <2>1, RunStep DEF VerifierInv, VerifierTyped
<1>7. CASE slot # "file"
  <2>1. /\ lastBytes' = lastBytes
        /\ recordBytes'  = IF slot = "record"  THEN file ELSE recordBytes
        /\ receiptBytes' = IF slot = "receipt" THEN file ELSE receiptBytes
        /\ UNCHANGED <<opened, anchor, timer, fetching, lastResult>>
        /\ RunStrict(recordBytes', receiptBytes')
    BY <1>1, <1>7 DEF slot, file
  <2>2. recordBytes' \in FileOrNone /\ receiptBytes' \in FileOrNone
    BY <1>3, <2>1 DEF FileOrNone, VerifierInv, VerifierTyped
  <2> DEFINE check == [kind |-> "hashing", file |-> recordBytes', anchor |-> None,
                       receipt |-> receiptBytes', comparison |-> "none"]
  <2>3. \/ /\ recordBytes' = None \/ receiptBytes' = None
           /\ UNCHANGED <<checks, shown, judged, overlapped>>
        \/ judged' = "none" /\ checks' = checks /\ shown' # Busy
        \/ /\ recordBytes' # None /\ receiptBytes' # None
           /\ judged' = "strict"
           /\ checks' \in Seq(Check) /\ checks' # << >>
           /\ ~ overlapped' => checks' = <<check>> /\ fetching' = None
    BY <2>1, <2>2, RunStrictBegins DEF VerifierInv
  <2>4. check = StrictCheck("hashing", "none")'
    BY DEF StrictCheck
  <2> HIDE DEF check
  <2>5. VerifierTyped' /\ OpenedOK' /\ BusyEnds'
    BY <1>4, <1>5, <2>1, <2>2, <2>3 DEF VerifierInv, VerifierTyped, OpenedOK, BusyEnds
  <2>6. CASE (recordBytes' = None \/ receiptBytes' = None)
             /\ UNCHANGED <<checks, shown, judged, overlapped>>
    <3>1. ~ StrictOK
      BY <1>3, <2>1, <2>6, NullAssumption DEF StrictOK
    <3>2. PlainOK => PlainOK'
      BY <2>1, <2>6 DEF PlainOK, Concluded
    <3> QED BY <2>1, <2>5, <2>6, <3>1, <3>2 DEF VerifierInv, CurrentOK
  <2>7. CASE judged' = "none"
    BY <2>5, <2>7 DEF VerifierInv, CurrentOK
  <2>8. CASE /\ recordBytes' # None /\ receiptBytes' # None
             /\ judged' = "strict"
             /\ ~ overlapped' => checks' = <<check>> /\ fetching' = None
    <3>1. recordBytes' \in File /\ receiptBytes' \in File
      BY <2>2, <2>8 DEF FileOrNone
    <3>2. ~ overlapped' => StrictOK'
      BY <2>4, <2>8, <3>1 DEF StrictOK
    <3> QED BY <2>5, <2>8, <3>2 DEF VerifierInv, CurrentOK
  <2> QED BY <2>3, <2>6, <2>7, <2>8
<1> QED BY <1>6, <1>7

LEMMA RecordHashedStep ==
  ASSUME VerifierInv, RecordHashed
  PROVE  VerifierInv'
<1>1. PICK i \in 1 .. Len(checks) :
        /\ checks[i].kind = "hashing"
        /\ checks' = [checks EXCEPT ![i] =
             [checks[i] EXCEPT !.kind = "strict", !.file = recordBytes,
                !.comparison = Comparison(checks[i].file, checks[i].receipt)]]
        /\ UNCHANGED <<opened, lastBytes, recordBytes, receiptBytes, anchor,
                       timer, reads, fetching, lastResult, shown, strictStatus,
                       judged, overlapped>>
  BY DEF RecordHashed
<1> DEFINE check == checks[i]
           next == [check EXCEPT !.kind = "strict", !.file = recordBytes,
                      !.comparison = Comparison(check.file, check.receipt)]
<1>2. checks \in Seq(Check) /\ check \in Check /\ recordBytes \in FileOrNone
  BY DEF VerifierInv, VerifierTyped
<1>3. next \in Check
  <2>1. Comparison(check.file, check.receipt) \in {"match", "mismatch"}
    BY DEF Comparison
  <2> HIDE DEF check
  <2> QED BY <1>2, <2>1 DEF Check
<1> HIDE DEF next
<1>4. checks' = [checks EXCEPT ![i] = next]
  BY <1>1 DEF next
<1>5. checks' \in Seq(Check) /\ checks' # << >>
  BY <1>2, <1>3, <1>4
<1>6. VerifierTyped' /\ OpenedOK' /\ BusyEnds'
  BY <1>1, <1>5 DEF VerifierInv, VerifierTyped, OpenedOK, BusyEnds
<1>7. ~ PlainOK
  <2> SUFFICES ASSUME PlainOK PROVE FALSE
    OBVIOUS
  <2>1. PICK hash \in Hashes : \/ checks = <<PlainCheck(lastBytes, hash)>>
                               \/ checks = << >>
    BY DEF PlainOK, Concluded
  <2>2. CASE checks = <<PlainCheck(lastBytes, hash)>>
    <3>1. i = 1 /\ checks[1] = PlainCheck(lastBytes, hash)
      BY <2>2
    <3> QED BY <1>1, <3>1 DEF PlainCheck
  <2> QED BY <2>1, <2>2
<1>8. StrictOK => StrictOK'
  <2> SUFFICES ASSUME StrictOK PROVE StrictOK'
    OBVIOUS
  <2> DEFINE compared == Comparison(recordBytes, receiptBytes)
  <2>1. \/ checks = <<StrictCheck("hashing", "none")>>
        \/ checks = <<StrictCheck("strict", compared)>>
        \/ checks = << >>
    BY DEF StrictOK, Concluded
  <2>2. checks # << >>
    BY <1>1
  <2>3. CASE checks = <<StrictCheck("strict", compared)>>
    <3>1. i = 1 /\ checks[1] = StrictCheck("strict", compared)
      BY <2>3
    <3> QED BY <1>1, <3>1 DEF StrictCheck
  <2>4. CASE checks = <<StrictCheck("hashing", "none")>>
    <3>1. i = 1 /\ check = StrictCheck("hashing", "none")
      BY <2>4
    <3>2. next = StrictCheck("strict", compared)
      <4>1. /\ check.file = recordBytes /\ check.receipt = receiptBytes
            /\ check.anchor = None
        BY <3>1 DEF StrictCheck
      <4>2. next = [check EXCEPT !.kind = "strict", !.file = recordBytes,
                      !.comparison = compared]
        BY <4>1 DEF next
      <4> HIDE DEF check, compared
      <4>3. check \in [kind : {"plain", "hashing", "strict"}, file : FileOrNone,
                       anchor : Hashes, receipt : FileOrNone,
                       comparison : {"none", "match", "mismatch"}]
        BY <1>2 DEF Check
      <4> QED BY <4>1, <4>2, <4>3 DEF StrictCheck
    <3>3. checks' = <<next>>
      BY <1>4, <2>4, <3>1
    <3>4. checks' = <<StrictCheck("strict", compared)'>>
      BY <1>1, <3>2, <3>3 DEF StrictCheck, Comparison
    <3>5. recordBytes' \in File /\ receiptBytes' \in File
      BY <1>1 DEF StrictOK
    <3> QED BY <3>4, <3>5 DEF StrictOK
  <2> QED BY <2>1, <2>2, <2>3, <2>4
<1>9. CurrentOK'
  BY <1>1, <1>7, <1>8 DEF VerifierInv, CurrentOK
<1> QED BY <1>6, <1>9 DEF VerifierInv

\* The end of a check.  When it is the only one, its verdict is the page's.
LEMMA VerifiedStep ==
  ASSUME VerifierInv, Verified
  PROVE  VerifierInv'
<1>1. PICK i \in 1 .. Len(checks) :
        /\ checks[i].kind # "hashing"
        /\ checks' = RemoveAt(checks, i)
        /\ lastResult' = ResultOf(checks[i])
        /\ shown' = Rendered(ResultOf(checks[i]))
        /\ strictStatus' = IF checks[i].kind = "strict" THEN checks[i].comparison
                                                        ELSE strictStatus
        /\ UNCHANGED <<opened, lastBytes, recordBytes, receiptBytes, anchor,
                       timer, reads, fetching, judged, overlapped>>
  BY DEF Verified
<1>2. checks \in Seq(Check)
  BY DEF VerifierInv, VerifierTyped
<1>3. checks' \in Seq(Check)
  BY <1>1, <1>2, RemoveAtTyped
<1>4. shown' # Busy
  BY <1>1 DEF Rendered, Busy
<1>5. VerifierTyped' /\ OpenedOK' /\ BusyEnds'
  BY <1>1, <1>3, <1>4 DEF VerifierInv, VerifierTyped, OpenedOK, BusyEnds
<1>6. ASSUME NEW c, checks = <<c>>
      PROVE  checks[i] = c /\ checks' = << >>
  BY <1>1, <1>6, RemoveOnly
<1>7. checks # << >>
  OBVIOUS
<1>8. PlainOK => PlainOK'
  <2> SUFFICES ASSUME PlainOK PROVE PlainOK'
    OBVIOUS
  <2>1. PICK hash \in Hashes : /\ ~ timer => hash = anchor
                               /\ checks = <<PlainCheck(lastBytes, hash)>>
    BY <1>7 DEF PlainOK, Concluded
  <2>2. checks[i] = PlainCheck(lastBytes, hash) /\ checks' = << >>
    BY <1>6, <2>1
  <2>3. ResultOf(PlainCheck(lastBytes, hash)) = VerifyBundle(Subject(lastBytes), hash)
    BY DEF ResultOf, PlainCheck
  <2>4. Concluded(VerifyBundle(Subject(lastBytes), hash))'
    BY <1>1, <2>2, <2>3 DEF Concluded
  <2> QED BY <1>1, <2>1, <2>4 DEF PlainOK
<1>9. StrictOK => StrictOK'
  <2> SUFFICES ASSUME StrictOK PROVE StrictOK'
    OBVIOUS
  <2> DEFINE compared == Comparison(recordBytes, receiptBytes)
             strict   == StrictCheck("strict", compared)
             verdict  == [VerifyBundle(recordBytes, None) EXCEPT
                            !.comparison = compared]
  <2>1. checks = <<strict>> \/ checks = <<StrictCheck("hashing", "none")>>
    BY <1>7 DEF StrictOK, Concluded
  <2>2. StrictCheck("hashing", "none").kind = "hashing"
    BY DEF StrictCheck
  <2>3. checks[i] = strict /\ checks' = << >>
    BY <1>1, <1>6, <2>1, <2>2
  <2>4. ResultOf(strict) = verdict /\ strict.kind = "strict"
        /\ strict.comparison = compared
    BY DEF ResultOf, StrictCheck
  <2>5. strictStatus' = compared /\ Concluded(verdict)'
    BY <1>1, <2>3, <2>4 DEF Concluded
  <2> QED BY <1>1, <2>5 DEF StrictOK, Concluded
<1>10. CurrentOK'
  BY <1>1, <1>8, <1>9 DEF VerifierInv, CurrentOK
<1> QED BY <1>5, <1>10 DEF VerifierInv

LEMMA FetchedStep ==
  ASSUME VerifierInv, Fetched
  PROVE  VerifierInv'
<1>1. /\ fetching # None /\ fetching' = None /\ lastBytes' = fetching
      /\ Run(fetching)
      /\ UNCHANGED <<opened, recordBytes, receiptBytes, anchor, timer, reads>>
  BY DEF Fetched
<1>2. fetching \in File /\ opened
  BY <1>1 DEF VerifierInv, VerifierTyped, FileOrNone, OpenedOK
<1>3. fetching' \in FileOrNone
  BY <1>1 DEF FileOrNone
<1> QED BY <1>1, <1>2, <1>3, RunStep DEF VerifierInv, VerifierTyped

LEMMA FetchFailsStep ==
  ASSUME VerifierInv, FetchFails
  PROVE  VerifierInv'
<1>1. /\ fetching # None /\ fetching' = None /\ shown' = Complaint
      /\ UNCHANGED <<opened, lastBytes, recordBytes, receiptBytes, anchor, timer,
                     reads, checks, lastResult, strictStatus, judged, overlapped>>
  BY DEF FetchFails
<1>2. VerifierTyped' /\ OpenedOK' /\ BusyEnds'
  BY <1>1 DEF VerifierInv, VerifierTyped, FileOrNone, OpenedOK, BusyEnds, Busy,
     Complaint
<1>3. ~ overlapped => judged = "none"
  BY <1>1 DEF VerifierInv, CurrentOK
<1> QED BY <1>1, <1>2, <1>3 DEF VerifierInv, CurrentOK

\* The language button renders the last result again; a page that has begun a
\* check, undisturbed, shows that result already or still waits for it.
LEMMA ToggleLanguageStep ==
  ASSUME VerifierInv, ToggleLanguage
  PROVE  VerifierInv'
<1>1. /\ shown' = IF lastResult = None THEN Idle ELSE Rendered(lastResult)
      /\ strictStatus' = IF None \in {recordBytes, receiptBytes} THEN "waiting"
                                                                 ELSE strictStatus
      /\ UNCHANGED <<opened, lastBytes, recordBytes, receiptBytes, anchor, timer,
                     reads, fetching, checks, lastResult, judged, overlapped>>
  BY DEF ToggleLanguage
<1>2. shown' # Busy
  BY <1>1 DEF Idle, Rendered, Busy
<1>3. VerifierTyped' /\ OpenedOK' /\ BusyEnds'
  BY <1>1, <1>2 DEF VerifierInv, VerifierTyped, OpenedOK, BusyEnds
<1>4. ASSUME NEW result \in AnyResult, Concluded(result)
      PROVE  Concluded(result)'
  BY <1>1, <1>4, NullAssumption DEF Concluded
<1>5. PlainOK => PlainOK'
  <2> SUFFICES ASSUME PlainOK PROVE PlainOK'
    OBVIOUS
  <2>1. PICK hash \in Hashes :
          /\ ~ timer => hash = anchor
          /\ \/ checks = <<PlainCheck(lastBytes, hash)>>
             \/ Concluded(VerifyBundle(Subject(lastBytes), hash))
    BY DEF PlainOK
  <2>2. lastBytes \in File
    BY DEF PlainOK
  <2>3. VerifyBundle(Subject(lastBytes), hash) \in AnyResult
    BY <2>2, BundleResult
  <2> QED BY <1>1, <1>4, <2>1, <2>2, <2>3 DEF PlainOK
<1>6. StrictOK => StrictOK'
  <2> SUFFICES ASSUME StrictOK PROVE StrictOK'
    OBVIOUS
  <2> DEFINE compared == Comparison(recordBytes, receiptBytes)
             verdict  == [VerifyBundle(recordBytes, None) EXCEPT
                            !.comparison = compared]
  <2>1. recordBytes \in File /\ receiptBytes \in File
    BY DEF StrictOK
  <2>2. strictStatus' = strictStatus
    BY <1>1, <2>1, NullAssumption
  <2>3. verdict \in AnyResult
    <3>1. VerifyBundle(recordBytes, None) \in AnyResult
      BY <2>1, BundleResult
    <3>2. compared \in {"match", "mismatch"}
      BY DEF Comparison
    <3> QED BY <3>1, <3>2 DEF AnyResult
  <2>4. Concluded(verdict) => Concluded(verdict)'
    BY <1>1, <1>4, <2>3
  <2> QED BY <1>1, <2>1, <2>2, <2>4 DEF StrictOK, StrictCheck
<1>7. CurrentOK'
  BY <1>1, <1>5, <1>6 DEF VerifierInv, CurrentOK
<1> QED BY <1>3, <1>7 DEF VerifierInv

\* A page that opens has verified nothing yet.
LEMMA OpenStep ==
  ASSUME VerifierInv, NEW file \in FileOrNone, NEW hash \in Hashes, Open(file, hash)
  PROVE  VerifierInv'
<1>1. /\ ~ opened /\ opened' = TRUE /\ anchor' = hash /\ fetching' = file
      /\ shown' = IF file = None THEN Idle ELSE Busy
      /\ UNCHANGED <<lastBytes, recordBytes, receiptBytes, timer, reads, checks,
                     lastResult, strictStatus, judged, overlapped>>
  BY DEF Open
<1>2. VerifierTyped' /\ OpenedOK' /\ BusyEnds'
  BY <1>1 DEF VerifierInv, VerifierTyped, OpenedOK, BusyEnds, Idle, Busy
<1>3. judged' = "none"
  BY <1>1 DEF VerifierInv, OpenedOK
<1> QED BY <1>2, <1>3 DEF VerifierInv, CurrentOK

LEMMA VerifierStays ==
  ASSUME VerifierInv, UNCHANGED verifierVars
  PROVE  VerifierInv'
<1>1. UNCHANGED <<opened, lastBytes, recordBytes, receiptBytes, anchor, timer, reads,
                  fetching, checks, lastResult, shown, strictStatus, judged,
                  overlapped>>
  BY DEF verifierVars
<1> QED BY <1>1 DEF VerifierInv, VerifierTyped, OpenedOK, BusyEnds, CurrentOK,
        PlainOK, StrictOK, StrictCheck, Concluded

LEMMA VerifierStep ==
  ASSUME VerifierInv, [PagesNext]_pagesVars
  PROVE  VerifierInv'
<1>1. CASE UNCHANGED verifierVars
  BY <1>1, VerifierStays
<1>2. CASE \E hash \in Hashes : Open(EcoJson, hash) \/ Open(None, hash)
  <2>1. EcoJson \in FileOrNone /\ None \in FileOrNone
    BY FilesTyped DEF FilesAtHand, FileOrNone
  <2> QED BY <1>2, <2>1, OpenStep
<1>3. CASE \E slot \in Slots, file \in FilesAtHand : Pick(slot, file)
  BY <1>3, FilesTyped, PickStep
<1>4. CASE \E hash \in Hashes : TypeAnchor(hash)
  BY <1>4, TypeAnchorStep
<1>5. CASE ToggleLanguage
  BY <1>5, ToggleLanguageStep
<1>6. CASE PageStep
  BY <1>6, LoadedStep, TimerFiresStep, RecordHashedStep, VerifiedStep, FetchedStep,
     FetchFailsStep DEF PageStep
<1>7. None \in Hashes
  BY FilesTyped
<1> QED BY <1>1, <1>2, <1>3, <1>4, <1>5, <1>6, <1>7
        DEF PagesNext, InSandbox, OpenInVerifier, OpenVerifier, InVerifier, pagesVars

LEMMA VerifierInvariance == PagesSpec => []VerifierInv
<1>1. PagesInit => VerifierInv
  BY VerifierStarts DEF PagesInit
<1> QED BY <1>1, VerifierStep, PTL DEF PagesSpec

\* The page never says "Verifying" with nothing under way, for any number of
\* overlapping verifications.
THEOREM SpinnerIsEarned == PagesSpec => []BusyEnds
<1>1. VerifierInv => BusyEnds
  BY DEF VerifierInv
<1> QED BY <1>1, VerifierInvariance, PTL

\* A verification that overlapped no other leaves the verdict of what is in the
\* page, for any sequence of files, anchors, tamperings and language changes.
THEOREM UndisturbedVerdictsAreCurrent == PagesSpec => []VerdictIsCurrent
<1>1. ASSUME VerifierInv PROVE VerdictIsCurrent
  <2> SUFFICES ASSUME Quiet, ~ overlapped PROVE
        /\ judged = "plain" =>
             shown = Rendered(VerifyBundle(Subject(lastBytes), anchor))
        /\ judged = "strict" =>
             /\ strictStatus = Comparison(recordBytes, receiptBytes)
             /\ shown = Rendered([VerifyBundle(recordBytes, None) EXCEPT
                                    !.comparison = strictStatus])
    BY DEF VerdictIsCurrent
  <2>1. checks = << >> /\ ~ timer
    BY DEF Quiet, Working
  <2>2. CASE judged = "plain"
    <3>1. PlainOK
      BY <1>1, <2>2 DEF VerifierInv, CurrentOK
    <3> QED BY <2>1, <2>2, <3>1 DEF PlainOK, Concluded
  <2>3. CASE judged = "strict"
    <3>1. StrictOK
      BY <1>1, <2>3 DEF VerifierInv, CurrentOK
    <3> QED BY <2>1, <2>3, <3>1 DEF StrictOK, Concluded
  <2> QED BY <2>2, <2>3
<1> QED BY <1>1, VerifierInvariance, PTL

=============================================================================
