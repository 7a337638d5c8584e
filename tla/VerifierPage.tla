---------------------------- MODULE VerifierPage ----------------------------
(***************************************************************************)
(* The portable verifier (verifier/index.html): one file with an optional  *)
(* external hash, or in strict mode an Evidence Record beside an ECO       *)
(* receipt.                                                                *)
(*                                                                         *)
(* Files are read and hashed asynchronously.  A verification that is under *)
(* way is not cancelled by a later one, and each writes its verdict to the *)
(* page when it is done.  The page is in a secure context: crypto.subtle   *)
(* exists, and no verification throws.                                     *)
(*                                                                         *)
(* A text is represented by itself and its hash by the text: sha256 is     *)
(* collision-free.                                                         *)
(***************************************************************************)
EXTENDS Integers, Sequences, SequencesExt

CONSTANTS
  Text,        \* what files and bundleText hold
  Readable,    \* the texts that parse as a verifiable-memory-bundle
  Consistent,  \* those of them whose hashes and links recompute
  None,        \* null
  Malformed,   \* an anchor that is not 64 hex digits
  MaxInputs    \* bound of the model on the files picked and anchors typed

ASSUME VerifierAssumption ==
  /\ Consistent \subseteq Readable /\ Readable \subseteq Text
  /\ {None, Malformed} \cap Text = {} /\ None # Malformed
  /\ MaxInputs \in Nat

VARIABLES
  opened,        \* whether the page is open
  lastBytes,     \* the file to verify
  recordBytes,   \* strictRecordBytes
  receiptBytes,  \* strictReceiptBytes
  anchor,        \* anchorInput.value
  timer,         \* anchorTimer
  reads,         \* the calls to file.arrayBuffer under way
  fetching,      \* the file of ?eco= that is being fetched
  checks,        \* the verifications under way, in the order of their start
  lastResult,    \* lastResult
  shown,         \* the circle and the verdict
  strictStatus,  \* the line of the strict mode
  inputs,        \* history: files picked and anchors typed so far
  judged,        \* history: the kind of verification that began last
  overlapped     \* history: it began while another, or the fetch, was under way

verifierVars ==
  <<opened, lastBytes, recordBytes, receiptBytes, anchor, timer, reads, fetching,
    checks, lastResult, shown, strictStatus, inputs, judged, overlapped>>

\* A file holds a text, or is an ECO: a bundleText beside the hash of a text.
Plain(text)         == [kind |-> "plain", text |-> text, declared |-> None]
Eco(text, declared) == [kind |-> "eco", text |-> text, declared |-> declared]
IsEco(file)         == file.kind = "eco"

\* The hash of a file's bytes is this one; an ECO's bytes are no text.
HasHash(bytes, hash) == ~IsEco(bytes) /\ bytes.text = hash

\* What verifyInput verifies: the bundleText of an ECO, or the bytes.
Subject(file) == IF IsEco(file) THEN Plain(file.text) ELSE file

Result(bytes, verdict, anchored, chain, comparison) ==
  [of |-> bytes, verdict |-> verdict, anchor |-> anchored, chain |-> chain,
   comparison |-> comparison]

\* The files and the results there are; null is neither.
File == [kind : {"plain", "eco"}, text : Text, declared : Text \cup {None}]

AnyResult ==
  [of : File, verdict : {"error", "red", "green"},
   anchor : {"not_provided", "invalid", "match", "mismatch"},
   chain : {"unknown", "tampered", "valid"},
   comparison : {"none", "match", "mismatch"}]

ASSUME NullAssumption == None \notin File \cup AnyResult

Anchored(bytes, hash) ==
  CASE hash = None      -> "not_provided"
    [] hash = Malformed -> "invalid"
    [] OTHER            -> IF HasHash(bytes, hash) THEN "match" ELSE "mismatch"

VerifyBundle(bytes, hash) ==
  LET anchored == Anchored(bytes, hash)
      readable == ~IsEco(bytes) /\ bytes.text \in Readable
      intact   == readable /\ bytes.text \in Consistent
      Verdict(verdict, chain) == Result(bytes, verdict, anchored, chain, "none")
  IN  IF anchored = "invalid" THEN Verdict("error", "unknown")
      ELSE IF ~readable
        THEN Verdict(IF anchored = "mismatch" THEN "red" ELSE "error", "unknown")
      ELSE IF ~intact THEN Verdict("red", "tampered")
      ELSE Verdict(IF anchored = "mismatch" THEN "red" ELSE "green", "valid")

Comparison(record, receipt) ==
  IF HasHash(record, receipt.declared) THEN "match" ELSE "mismatch"

-----------------------------------------------------------------------------

Idle       == [kind |-> "idle", result |-> None]
Busy       == [kind |-> "busy", result |-> None]
Complaint  == [kind |-> "complaint", result |-> None]
Rendered(result) == [kind |-> "verdict", result |-> result]

VerifierInit ==
  /\ opened = FALSE
  /\ lastBytes = None /\ recordBytes = None /\ receiptBytes = None
  /\ anchor = None
  /\ timer = FALSE
  /\ reads = << >>
  /\ fetching = None
  /\ checks = << >>
  /\ lastResult = None
  /\ shown = Idle
  /\ strictStatus = "waiting"
  /\ inputs = 0
  /\ judged = "none"
  /\ overlapped = FALSE

\* The start of the page: ?eco= begins a fetch, ?anchor= fills the input.
Open(file, hash) ==
  /\ ~opened
  /\ opened' = TRUE
  /\ anchor' = hash
  /\ fetching' = file
  /\ shown' = IF file = None THEN Idle ELSE Busy
  /\ UNCHANGED <<lastBytes, recordBytes, receiptBytes, timer, reads, checks,
                 lastResult, strictStatus, inputs, judged, overlapped>>

Working == reads # << >> \/ checks # << >> \/ fetching # None

Begin(kind) ==
  /\ judged' = kind
  /\ overlapped' = (checks # << >> \/ fetching' # None)

\* run, up to its await: the file and the anchor are taken at once.
Run(bytes) ==
  /\ checks' = Append(checks, [kind |-> "plain", file |-> bytes,
                               anchor |-> anchor, receipt |-> None,
                               comparison |-> "none"])
  /\ shown' = Busy
  /\ Begin("plain")
  /\ UNCHANGED strictStatus

\* Mutant: the complaint about the receipt is left to the caller.
ComplainSilently == Busy

\* renderIdle(t("format")): the receipt is no ECO.
Complain == Complaint

\* runStrict, up to its await: the receipt and the hashed record are taken at
\* once.
RunStrict(record, receipt) ==
  IF None \in {record, receipt}
    THEN /\ strictStatus' = "waiting"
         /\ UNCHANGED <<checks, shown, judged, overlapped>>
    ELSE /\ strictStatus' = "ready"
         /\ IF IsEco(receipt)
              THEN /\ checks' = Append(checks, [kind |-> "hashing",
                                                file |-> record, anchor |-> None,
                                                receipt |-> receipt,
                                                comparison |-> "none"])
                   /\ shown' = Busy
                   /\ Begin("strict")
              ELSE /\ shown' = Complain
                   /\ Begin("none")
                   /\ UNCHANGED checks

Slots == {"file", "record", "receipt"}

\* A file is chosen or dropped; its bytes come later.
Pick(slot, file) ==
  /\ opened
  /\ inputs < MaxInputs
  /\ inputs' = inputs + 1
  /\ reads' = Append(reads, [slot |-> slot, file |-> file])
  /\ UNCHANGED <<opened, lastBytes, recordBytes, receiptBytes, anchor, timer,
                 fetching, checks, lastResult, shown, strictStatus,
                 judged, overlapped>>

Loaded ==
  \E i \in 1 .. Len(reads) :
    LET slot == reads[i].slot
        file == reads[i].file
    IN  /\ reads' = RemoveAt(reads, i)
        /\ lastBytes'    = IF slot = "file"    THEN file ELSE lastBytes
        /\ recordBytes'  = IF slot = "record"  THEN file ELSE recordBytes
        /\ receiptBytes' = IF slot = "receipt" THEN file ELSE receiptBytes
        /\ UNCHANGED <<opened, anchor, timer, fetching, lastResult, inputs>>
        /\ IF slot = "file" THEN Run(file)
                            ELSE RunStrict(recordBytes', receiptBytes')

\* The input listener of the anchor (re)starts the timer.
TypeAnchor(hash) ==
  /\ opened
  /\ inputs < MaxInputs
  /\ inputs' = inputs + 1
  /\ anchor' = hash
  /\ timer' = TRUE
  /\ UNCHANGED <<opened, lastBytes, recordBytes, receiptBytes, reads, fetching,
                 checks, lastResult, shown, strictStatus, judged,
                 overlapped>>

TimerFires ==
  /\ timer
  /\ timer' = FALSE
  /\ UNCHANGED <<opened, lastBytes, recordBytes, receiptBytes, anchor, reads,
                 fetching, lastResult, inputs>>
  /\ IF lastBytes # None THEN Run(lastBytes)
                         ELSE UNCHANGED <<checks, shown, judged, overlapped,
                                          strictStatus>>

\* The record has been hashed.  What is verified then is the record of that
\* moment, strictRecordBytes being read again.
RecordHashed ==
  \E i \in 1 .. Len(checks) :
    LET check == checks[i]
    IN  /\ check.kind = "hashing"
        /\ checks' = [checks EXCEPT ![i] =
             [check EXCEPT !.kind = "strict", !.file = recordBytes,
                           !.comparison = Comparison(check.file, check.receipt)]]
        /\ UNCHANGED <<opened, lastBytes, recordBytes, receiptBytes, anchor,
                       timer, reads, fetching, lastResult, shown, strictStatus,
                       inputs, judged, overlapped>>

\* Mutant: the anchor is not passed on.
ResultOfLate(check) ==
  IF check.kind = "plain"
    THEN VerifyBundle(Subject(check.file), None)
    ELSE [VerifyBundle(check.file, None) EXCEPT !.comparison = check.comparison]

ResultOf(check) ==
  IF check.kind = "plain"
    THEN VerifyBundle(Subject(check.file), check.anchor)
    ELSE [VerifyBundle(check.file, None) EXCEPT !.comparison = check.comparison]

\* The end of run and of runStrict: render.
Verified ==
  \E i \in 1 .. Len(checks) :
    LET check == checks[i]
    IN  /\ check.kind # "hashing"
        /\ checks' = RemoveAt(checks, i)
        /\ lastResult' = ResultOf(check)
        /\ shown' = Rendered(ResultOf(check))
        /\ strictStatus' = IF check.kind = "strict" THEN check.comparison
                                                    ELSE strictStatus
        /\ UNCHANGED <<opened, lastBytes, recordBytes, receiptBytes, anchor,
                       timer, reads, fetching, inputs, judged, overlapped>>

Fetched ==
  /\ fetching # None
  /\ fetching' = None
  /\ lastBytes' = fetching
  /\ Run(fetching)
  /\ UNCHANGED <<opened, recordBytes, receiptBytes, anchor, timer, reads,
                 lastResult, inputs>>

FetchFails ==
  /\ fetching # None
  /\ fetching' = None
  /\ shown' = Complaint
  /\ UNCHANGED <<opened, lastBytes, recordBytes, receiptBytes, anchor, timer,
                 reads, checks, lastResult, strictStatus, inputs,
                 judged, overlapped>>

\* The language button: applyLang writes the page anew.
ToggleLanguage ==
  /\ opened
  /\ shown' = IF lastResult = None THEN Idle ELSE Rendered(lastResult)
  /\ strictStatus' = IF None \in {recordBytes, receiptBytes} THEN "waiting"
                                                             ELSE strictStatus
  /\ UNCHANGED <<opened, lastBytes, recordBytes, receiptBytes, anchor, timer,
                 reads, fetching, checks, lastResult, inputs, judged,
                 overlapped>>

\* What the page does by itself.
PageStep ==
  Loaded \/ TimerFires \/ RecordHashed \/ Verified \/ Fetched \/ FetchFails

-----------------------------------------------------------------------------

Quiet == opened /\ ~Working /\ ~timer

\* The circle of the page says "Verifying" only while something is on its way
\* that will replace it: no path through run, runStrict or the fetch leaves it
\* spinning, however verifications overlap.  (The line of the strict mode may
\* stay on "Checking match": a receipt that cannot be read does not reset it.)
BusyEnds == shown = Busy => checks # << >> \/ fetching # None

\* A verification that began while no other and no fetch was under way leaves
\* on the page, once the page is quiet, the verdict of the file and the anchor
\* that are in it, or, in strict mode, that of the record and the receipt that
\* are in it: whatever was verified before, and however the reading of files,
\* the timer and the hashes are interleaved.  Of two that overlap the page may
\* show either, and nothing is claimed.
VerdictIsCurrent ==
  Quiet /\ ~overlapped =>
    /\ judged = "plain" =>
         shown = Rendered(VerifyBundle(Subject(lastBytes), anchor))
    /\ judged = "strict" =>
         /\ strictStatus = Comparison(recordBytes, receiptBytes)
         /\ shown = Rendered([VerifyBundle(recordBytes, None) EXCEPT
                                !.comparison = strictStatus])

=============================================================================
