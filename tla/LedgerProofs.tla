---------------------------- MODULE LedgerProofs ----------------------------
(***************************************************************************)
(* Proofs of the safety properties of the ledger, for any set of processes,*)
(* contents, clock readings and operations, with crashes and keychain      *)
(* failures.                                                               *)
(***************************************************************************)
EXTENDS LedgerProperties, SequenceTheorems, FiniteSetTheorems, TLAPS

\* A process inside an operation holds the arguments of that operation.
CallOK ==
  \A p \in Proc : /\ pc[p] \in RememberPcs => call[p] \in RememberArgs
                  /\ pc[p] \in CasPcs      => call[p] \in CasArgs
                  /\ pc[p] \in SnapshotPcs => call[p] \in SnapshotArgs
                  /\ pc[p] \in VerifyPcs   => call[p] \in VerifyArgs

Typed == TypeOK /\ CallOK

-----------------------------------------------------------------------------
(* The operators of HashChain *)

\* The row both write paths build is a row, its hashes are those of its fields
\* and it is one longer than the hash it is built on.
LEMMA BuildEntryFacts ==
  ASSUME NEW content \in Content, NEW prev \in Hash, NEW at \in Time
  PROVE  LET row == BuildEntry(content, prev, at)
         IN  /\ row \in Row
             /\ ContentValid(row)
             /\ EntryHashValid(row)
             /\ row.prevHash = prev
             /\ Len(row.entryHash) = Len(prev) + 1
BY DEF BuildEntry, Row, ContentValid, EntryHashValid, HashContent, HashEntry,
       ContentHash, Hash, Stamp

\* The head of a table is a hash.
LEMMA HeadOfType ==
  ASSUME NEW rs \in Seq(Row)
  PROVE  HeadOf(rs) \in Hash
<1>1. CASE rs = << >>
  BY <1>1 DEF HeadOf, Null, Hash
<1>2. CASE rs # << >>
  <2>1. Len(rs) \in 1 .. Len(rs)
    BY <1>2
  <2>2. rs[Len(rs)] \in Row
    BY <2>1
  <2> QED BY <1>2, <2>2 DEF HeadOf, Row
<1> QED BY <1>1, <1>2

-----------------------------------------------------------------------------
(* Types *)

LEMMA InitTyped == Init => Typed
BY LedgerAssumption DEF Init, Typed, TypeOK, CallOK, Call, NoCall, Reply, NoReply, Pcs, IdlePcs,
  RememberPcs, CasPcs, SnapshotPcs, VerifyPcs, Hash, Null

\* What the answer to a call leaves behind.
LEMMA AnswerTyped ==
  ASSUME Typed, NEW p \in Proc, NEW from, NEW r \in Reply, Answer(p, from, r)
  PROVE  /\ pc' \in [Proc -> Pcs]
         /\ call' \in [Proc -> Call]
         /\ view' \in [Proc -> Seq(Row)]
         /\ staged' \in [Proc -> Seq(Row)]
         /\ reply' \in [Proc -> Reply]
         /\ CallOK'
BY DEF Typed, TypeOK, CallOK, Answer, Goto, Pcs, IdlePcs, RememberPcs, CasPcs,
       SnapshotPcs, VerifyPcs, Call

\* The acknowledgement of an append is one.
LEMMA AckTyped ==
  ASSUME Typed, NEW p \in Proc
  PROVE  AckOf(p) \in Ack
BY HeadOfType DEF Typed, TypeOK, AckOf, Ack

LEMMA CallTyped ==
  ASSUME Typed, NEW p \in Proc, NEW to \in Pcs, NEW c \in Call, Begin(p, c, to),
         to \in RememberPcs => c \in RememberArgs,
         to \in CasPcs      => c \in CasArgs,
         to \in SnapshotPcs => c \in SnapshotArgs,
         to \in VerifyPcs   => c \in VerifyArgs
  PROVE  Typed'
BY DEF Typed, TypeOK, CallOK, Begin, Goto

LEMMA KnownHeadsTyped ==
  ASSUME Typed
  PROVE  KnownHeads \subseteq Hash
<1>1. Null \in Hash
  BY DEF Null, Hash
<1>2. \A i \in 1 .. Len(rows) : rows[i].entryHash \in Hash
  <2>1. \A i \in 1 .. Len(rows) : rows[i] \in Row
    BY DEF Typed, TypeOK
  <2> QED BY <2>1 DEF Row
<1> QED BY <1>1, <1>2, LedgerAssumption DEF KnownHeads

LEMMA ArrivalTyped ==
  ASSUME Typed, NEW p \in Proc, Arrival(p)
  PROVE  Typed'
<1> USE DEF Pcs, IdlePcs, RememberPcs, CasPcs, SnapshotPcs, VerifyPcs
<1>1. CASE RememberCall(p)
  <2>1. PICK content \in Content, at \in Time :
          Begin(p, [op |-> "remember", content |-> content, createdAt |-> at],
                "rememberRead")
    BY <1>1 DEF RememberCall
  <2>2. [op |-> "remember", content |-> content, createdAt |-> at] \in RememberArgs
    BY DEF RememberArgs
  <2> QED BY <2>1, <2>2, CallTyped DEF Call
<1>2. CASE CasCall(p)
  <2>1. PICK content \in Content, head \in KnownHeads :
          Begin(p, [op |-> "cas", content |-> content, expectedHead |-> head],
                "casBegin")
    BY <1>2 DEF CasCall
  <2>2. head \in Hash
    BY KnownHeadsTyped
  <2>3. [op |-> "cas", content |-> content, expectedHead |-> head] \in CasArgs
    BY <2>2 DEF CasArgs
  <2> QED BY <2>1, <2>3, CallTyped DEF Call
<1>3. CASE CasInvalid(p)
  <2>1. PICK why \in InvalidAppend : Answer(p, "idle", Failure(why))
    BY <1>3 DEF CasInvalid
  <2>2. Failure(why) \in Reply
    BY DEF Failure, Reply, IntegrityStatus
  <2> QED BY <1>3, <2>1, <2>2, AnswerTyped DEF CasInvalid, Typed, TypeOK
<1>4. CASE SnapshotCall(p)
  <2>1. PICK pin \in {{}} \cup {{head} : head \in KnownHeads} :
          Begin(p, [op |-> "snapshot", pin |-> pin], "snapshotRead")
    BY <1>4 DEF SnapshotCall
  <2>2. KnownHeads \subseteq Hash
    BY KnownHeadsTyped
  <2>3. [op |-> "snapshot", pin |-> pin] \in SnapshotArgs
    BY <2>2 DEF SnapshotArgs
  <2> QED BY <2>1, <2>3, CallTyped DEF Call
<1>5. CASE SnapshotInvalid(p)
  <2>1. PICK why \in InvalidQuery : Answer(p, "idle", Failure(why))
    BY <1>5 DEF SnapshotInvalid
  <2>2. Failure(why) \in Reply
    BY DEF Failure, Reply, IntegrityStatus
  <2> QED BY <1>5, <2>1, <2>2, AnswerTyped DEF SnapshotInvalid, Typed, TypeOK
<1>6. CASE VerifyCall(p)
  <2>1. PICK id \in 0 .. Len(rows) :
          Begin(p, [op |-> "verify", id |-> id, entryValid |-> FALSE,
                    dbRoot |-> Null], "verifyEntry")
    BY <1>6 DEF VerifyCall
  <2>2. [op |-> "verify", id |-> id, entryValid |-> FALSE, dbRoot |-> Null]
          \in VerifyArgs
    BY DEF VerifyArgs, Null, Hash, Typed, TypeOK
  <2> QED BY <2>1, <2>2, CallTyped DEF Call
<1> QED BY <1>1, <1>2, <1>3, <1>4, <1>5, <1>6 DEF Arrival

LEMMA RememberTyped ==
  ASSUME Typed, NEW p \in Proc, RememberStep(p)
  PROVE  Typed'
<1> USE DEF Pcs, IdlePcs, RememberPcs, CasPcs, SnapshotPcs, VerifyPcs
<1>1. CASE RememberRead(p)
  <2>1. call[p] \in RememberArgs
    BY <1>1 DEF RememberRead, Goto, Typed, CallOK
  <2>2. BuildEntry(call[p].content, HeadOf(rows), call[p].createdAt) \in Row
    <3>1. call[p].content \in Content /\ call[p].createdAt \in Time
      BY <2>1 DEF RememberArgs
    <3>2. HeadOf(rows) \in Hash
      BY HeadOfType DEF Typed, TypeOK
    <3> QED BY <3>1, <3>2, BuildEntryFacts
  <2> QED BY <1>1, <2>2 DEF RememberRead, Goto, Typed, TypeOK, CallOK
<1>2. CASE RememberInsert(p)
  BY <1>2 DEF RememberInsert, Goto, Typed, TypeOK, CallOK
<1>3. CASE RememberBusy(p)
  <2>1. [status |-> "error"] \in Reply
    BY DEF Reply
  <2> QED BY <1>3, <2>1, AnswerTyped DEF RememberBusy, Typed, TypeOK
<1>4. CASE RememberCommit(p)
  BY <1>4 DEF RememberCommit, Commit, Goto, Typed, TypeOK, CallOK
<1>5. ASSUME Remembered(p)
      PROVE  /\ rows' \in Seq(Row)
             /\ lock' \in Proc \cup {None}
             /\ acks' \in Seq(Ack)
             /\ pc' \in [Proc -> Pcs]
             /\ call' \in [Proc -> Call]
             /\ view' \in [Proc -> Seq(Row)]
             /\ staged' \in [Proc -> Seq(Row)]
             /\ reply' \in [Proc -> Reply]
             /\ CallOK'
  <2>1. [status |-> "remembered", entryHash |-> HeadOf(staged[p])] \in Reply
    BY HeadOfType DEF Typed, TypeOK, Reply
  <2>2. Answer(p, "rememberPersist",
               [status |-> "remembered", entryHash |-> HeadOf(staged[p])])
    BY <1>5 DEF Remembered
  <2> QED BY <1>5, <2>1, <2>2, AnswerTyped, AckTyped DEF Remembered, Typed, TypeOK
<1>6. CASE RememberPersist(p)
  BY <1>5, <1>6, HeadOfType DEF RememberPersist, SetUnavailable, Typed, TypeOK
<1>7. CASE RememberUnpersisted(p)
  BY <1>5, <1>7 DEF RememberUnpersisted, SetUnavailable, Typed, TypeOK
<1>8. CASE RememberSkipRoot(p)
  BY <1>5, <1>8 DEF RememberSkipRoot, Typed, TypeOK
<1> QED
  BY <1>1, <1>2, <1>3, <1>4, <1>6, <1>7, <1>8 DEF RememberStep

LEMMA CasTyped ==
  ASSUME Typed, NEW p \in Proc, CasStep(p)
  PROVE  Typed'
<1> USE DEF Pcs, IdlePcs, RememberPcs, CasPcs, SnapshotPcs, VerifyPcs
<1>1. CASE CasBegin(p)
  BY <1>1 DEF CasBegin, Goto, Typed, TypeOK, CallOK
<1>2. CASE CasTimeout(p)
  <2>1. [status |-> "error"] \in Reply
    BY DEF Reply
  <2> QED BY <1>2, <2>1, AnswerTyped DEF CasTimeout, Typed, TypeOK
<1>3. ASSUME NEW r \in Reply, CasRollback(p, r), unavailable' \in [Proc -> BOOLEAN]
      PROVE  Typed'
  BY <1>3, AnswerTyped DEF CasRollback, Typed, TypeOK
<1>4. CASE CasReject(p)
  <2>1. Verdict(view[p]) \in WitnessFailures \cup {"chain_broken"}
    BY <1>4 DEF CasReject, Verdict, WitnessStatus, WitnessFailures
  <2>2. Failure(Verdict(view[p])) \in Reply
    BY <2>1 DEF Failure, Reply, IntegrityStatus
  <2> QED BY <1>3, <1>4, <2>2 DEF CasReject, Typed, TypeOK
<1>5. CASE CasUnreadable(p)
  <2>1. Failure("witness_unavailable") \in Reply
    BY DEF Failure, Reply, IntegrityStatus
  <2> QED BY <1>3, <1>5, <2>1 DEF CasUnreadable, SetUnavailable, Typed, TypeOK
<1>6. CASE CasConflict(p)
  <2>1. call[p].expectedHead \in Hash
    BY <1>6 DEF CasConflict, Typed, CallOK, CasArgs
  <2>2. [status |-> "conflict", expectedHead |-> call[p].expectedHead,
         observedHead |-> HeadOf(view[p])] \in Reply
    BY <2>1, HeadOfType DEF Reply, Typed, TypeOK
  <2> QED BY <1>3, <1>6, <2>2 DEF CasConflict, Typed, TypeOK
<1>7. CASE CasInsert(p)
  <2>1. PICK at \in Time :
          staged' = [staged EXCEPT ![p] =
            <<BuildEntry(call[p].content, HeadOf(view[p]), at)>>]
    BY <1>7 DEF CasInsert
  <2>2. call[p].content \in Content
    BY <1>7 DEF CasInsert, Goto, Typed, CallOK, CasArgs
  <2>3. BuildEntry(call[p].content, HeadOf(view[p]), at) \in Row
    BY <2>2, HeadOfType, BuildEntryFacts DEF Typed, TypeOK
  <2> QED BY <1>7, <2>1, <2>3 DEF CasInsert, Goto, Typed, TypeOK, CallOK
<1>8. CASE CasCommit(p)
  BY <1>8 DEF CasCommit, Commit, Goto, Typed, TypeOK, CallOK
<1>9. CASE CasConfirm(p)
  <2>1. [status |-> "appended", previousHead |-> AckOf(p).previousHead,
         newHead |-> AckOf(p).newHead, sequence |-> AckOf(p).sequence] \in Reply
    BY AckTyped DEF Reply, Ack
  <2> QED
    BY <1>9, <2>1, AnswerTyped, AckTyped, HeadOfType
    DEF CasConfirm, SetUnavailable, Typed, TypeOK
<1>10. CASE CasUnconfirmed(p)
  <2>1. [status |-> "committed_but_witness_unconfirmed",
         previousHead |-> AckOf(p).previousHead,
         newHead |-> AckOf(p).newHead] \in Reply
    BY AckTyped DEF Reply, Ack
  <2> QED
    BY <1>10, <2>1, AnswerTyped, AckTyped
    DEF CasUnconfirmed, SetUnavailable, Typed, TypeOK
<1> QED
  BY <1>1, <1>2, <1>4, <1>5, <1>6, <1>7, <1>8, <1>9, <1>10 DEF CasStep

LEMMA SnapshotTyped ==
  ASSUME Typed, NEW p \in Proc, SnapshotStep(p)
  PROVE  Typed'
<1> USE DEF Pcs, IdlePcs, RememberPcs, CasPcs, SnapshotPcs, VerifyPcs
<1>1. CASE SnapshotRead(p)
  BY <1>1 DEF SnapshotRead, Goto, Typed, TypeOK, CallOK
<1>2. ASSUME NEW r \in Reply, SnapshotAnswer(p, r), unavailable' \in [Proc -> BOOLEAN]
      PROVE  Typed'
  BY <1>2, AnswerTyped DEF SnapshotAnswer, Typed, TypeOK
<1>3. CASE SnapshotReject(p)
  <2>1. Verdict(view[p]) \in WitnessFailures \cup {"chain_broken"}
    BY <1>3 DEF SnapshotReject, Verdict, WitnessStatus, WitnessFailures
  <2>2. Failure(Verdict(view[p])) \in Reply
    BY <2>1 DEF Failure, Reply, IntegrityStatus
  <2> QED BY <1>2, <1>3, <2>2 DEF SnapshotReject, Typed, TypeOK
<1>4. CASE SnapshotUnreadable(p)
  <2>1. Failure("witness_unavailable") \in Reply
    BY DEF Failure, Reply, IntegrityStatus
  <2> QED BY <1>2, <1>4, <2>1 DEF SnapshotUnreadable, SetUnavailable, Typed, TypeOK
<1>5. CASE SnapshotConflict(p)
  <2>1. PICK head \in call[p].pin :
          SnapshotAnswer(p, [status |-> "snapshot_conflict", pinned |-> head,
                             observedHead |-> HeadOf(view[p])])
    BY <1>5 DEF SnapshotConflict
  <2>2. head \in Hash
    BY <1>5, <2>1 DEF SnapshotConflict, Typed, CallOK, SnapshotArgs
  <2>3. [status |-> "snapshot_conflict", pinned |-> head,
         observedHead |-> HeadOf(view[p])] \in Reply
    BY <2>2, HeadOfType DEF Reply, Typed, TypeOK
  <2> QED BY <1>2, <1>5, <2>1, <2>3 DEF SnapshotConflict, Typed, TypeOK
<1>6. CASE SnapshotVerified(p)
  <2> DEFINE first == IF view[p] = << >> THEN Null ELSE view[p][1].entryHash
  <2>1. view[p] \in Seq(Row)
    BY DEF Typed, TypeOK
  <2>2. Null \in Hash
    BY DEF Null, Hash
  <2>3. view[p] # << >> => view[p][1] \in Row
    BY <2>1
  <2>4. first \in Hash
    BY <2>2, <2>3 DEF Row
  <2> HIDE DEF first
  <2>5. [status |-> "verified", historyId |-> first,
         ledgerPosition |-> HeadOf(view[p]), chainLength |-> Len(view[p])] \in Reply
    BY <2>1, <2>4, HeadOfType DEF Reply
  <2>6. SnapshotAnswer(p,
          [status |-> "verified", historyId |-> first,
           ledgerPosition |-> HeadOf(view[p]), chainLength |-> Len(view[p])])
    BY <1>6 DEF SnapshotVerified, first
  <2> QED BY <1>2, <1>6, <2>5, <2>6 DEF SnapshotVerified, Typed, TypeOK
<1> QED BY <1>1, <1>3, <1>4, <1>5, <1>6 DEF SnapshotStep

LEMMA VerifyTyped ==
  ASSUME Typed, NEW p \in Proc, VerifyStep(p)
  PROVE  Typed'
<1> USE DEF Pcs, IdlePcs, RememberPcs, CasPcs, SnapshotPcs, VerifyPcs
<1>1. CASE VerifyNotFound(p)
  <2>1. [status |-> "not_found"] \in Reply
    BY DEF Reply
  <2> QED BY <1>1, <2>1, AnswerTyped DEF VerifyNotFound, Typed, TypeOK
<1>2. CASE VerifyEntry(p)
  <2>1. call[p] \in VerifyArgs
    BY <1>2 DEF VerifyEntry, Goto, Typed, CallOK
  <2> DEFINE ok == ContentValid(rows[call[p].id]) /\ EntryHashValid(rows[call[p].id])
  <2>2. ok \in BOOLEAN
    BY DEF ContentValid, EntryHashValid
  <2>3. call' = [call EXCEPT ![p] = [call[p] EXCEPT !.entryValid = ok]]
    BY <1>2 DEF VerifyEntry
  <2> HIDE DEF ok
  <2>4. call'[p] \in VerifyArgs
    BY <2>1, <2>2, <2>3 DEF VerifyArgs, Typed, TypeOK
  <2> QED BY <1>2, <2>3, <2>4 DEF VerifyEntry, Goto, Typed, TypeOK, CallOK, Call
<1>3. CASE VerifyLatest(p)
  <2>1. call[p] \in VerifyArgs
    BY <1>3 DEF VerifyLatest, Goto, Typed, CallOK
  <2>2. [call[p] EXCEPT !.dbRoot = HeadOf(rows)] \in VerifyArgs
    BY <2>1, HeadOfType DEF VerifyArgs, Typed, TypeOK
  <2>3. call'[p] \in VerifyArgs
    BY <1>3, <2>2 DEF VerifyLatest, Typed, TypeOK
  <2> QED BY <1>3, <2>3 DEF VerifyLatest, Goto, Typed, TypeOK, CallOK, Call
<1>4. ASSUME NEW root \in RootStatus, VerifyAnswer(p, root), pc[p] = "verifyRoot",
             unavailable' \in [Proc -> BOOLEAN]
      PROVE  Typed'
  <2>1. call[p] \in VerifyArgs
    BY <1>4 DEF Typed, CallOK
  <2>2. call[p].entryValid \in BOOLEAN
    BY <2>1 DEF VerifyArgs
  <2> DEFINE ok == call[p].entryValid /\ root \notin {"missing", "mismatch"}
  <2>3. ok \in BOOLEAN
    BY <2>2
  <2> HIDE DEF ok
  <2>4. [status |-> "checked", stateRoot |-> root, valid |-> ok] \in Reply
    BY <1>4, <2>3 DEF Reply
  <2>5. Answer(p, "verifyRoot",
               [status |-> "checked", stateRoot |-> root, valid |-> ok])
    BY <1>4 DEF VerifyAnswer, ok
  <2> QED BY <1>4, <2>4, <2>5, AnswerTyped DEF VerifyAnswer, Typed, TypeOK
<1>5. CASE VerifyRoot(p)
  <2>1. RootCheck(p) \in RootStatus
    BY DEF RootCheck, RootStatus
  <2> QED BY <1>4, <1>5, <2>1 DEF VerifyRoot, Typed, TypeOK
<1>6. CASE VerifyUnreadable(p)
  <2>1. "unavailable" \in RootStatus
    BY DEF RootStatus
  <2> QED BY <1>4, <1>6, <2>1 DEF VerifyUnreadable, SetUnavailable, Typed, TypeOK
<1> QED BY <1>1, <1>2, <1>3, <1>5, <1>6 DEF VerifyStep

LEMMA LifeTyped ==
  ASSUME Typed, NEW p \in Proc, Return(p) \/ Crash(p)
  PROVE  Typed'
<1>1. NoReply \in Reply
  BY DEF NoReply, Reply
<1>2. CASE Return(p)
  BY <1>1, <1>2 DEF Return, Goto, Typed, TypeOK, CallOK,
     Pcs, IdlePcs, RememberPcs, CasPcs, SnapshotPcs, VerifyPcs
<1>3. CASE Crash(p)
  BY <1>1, <1>3 DEF Crash, SetUnavailable, Typed, TypeOK, CallOK, Call,
     Pcs, IdlePcs, RememberPcs, CasPcs, SnapshotPcs, VerifyPcs
<1> QED BY <1>2, <1>3

LEMMA TypedStep == Typed /\ [Next]_vars => Typed'
<1> SUFFICES ASSUME Typed, [Next]_vars PROVE Typed'
  OBVIOUS
<1>1. CASE UNCHANGED vars
  BY <1>1 DEF vars, Typed, TypeOK, CallOK
<1>2. ASSUME NEW p \in Proc, Arrival(p) \/ Step(p) \/ Return(p) \/ Crash(p)
      PROVE  Typed'
  BY <1>2, ArrivalTyped, RememberTyped, CasTyped, SnapshotTyped, VerifyTyped,
     LifeTyped DEF Step
<1> QED BY <1>1, <1>2 DEF Next

\* Type correctness, with the arguments each process holds.
THEOREM TypeCorrect == Spec => []TypeOK
<1>1. Spec => []Typed
  BY InitTyped, TypedStep, PTL DEF Spec
<1>2. Typed => TypeOK
  BY DEF Typed
<1> QED BY <1>1, <1>2, PTL

-----------------------------------------------------------------------------
(* The inductive invariant *)

\* SQLite's write lock is held exactly by the process that is between its
\* acquisition and its commit or rollback.
LockOK == \A p \in Proc : lock = p <=> pc[p] \in LockPcs

\* The committed rows verify, and an entry hash is as long as its position.
ChainOK ==
  /\ Intact(rows)
  /\ \A i \in 1 .. Len(rows) : Len(rows[i].entryHash) = i

StagedPcs == {"rememberInsert", "rememberCommit", "casCommit"} \cup CommittedPcs

\* The transaction of each process: under the lock it has read the current
\* rows, what it inserts is built on what it read, and once committed its row
\* stays where it was put.
TxnOK ==
  \A p \in Proc :
    /\ pc[p] \in LockPcs => view[p] = rows
    /\ pc[p] \in StagedPcs =>
         /\ Len(staged[p]) = 1
         /\ staged[p][1].prevHash = HeadOf(view[p])
         /\ ContentValid(staged[p][1])
         /\ EntryHashValid(staged[p][1])
    /\ pc[p] \in CommittedPcs =>
         /\ Len(view[p]) < Len(rows)
         /\ rows[Len(view[p]) + 1] = staged[p][1]

\* The answered appends, and the committed ones that wait for their answer,
\* are rows at different positions.
AcksOK ==
  /\ AnswersStand
  /\ \A i, j \in 1 .. Len(acks) : acks[i].sequence = acks[j].sequence => i = j
  /\ \A i \in 1 .. Len(acks), p \in Proc :
       pc[p] \in CommittedPcs => acks[i].sequence # Len(view[p])
  /\ \A p, q \in Proc :
       /\ pc[p] \in CommittedPcs
       /\ pc[q] \in CommittedPcs
       /\ Len(view[p]) = Len(view[q])
       => p = q

Inv == Typed /\ LockOK /\ ChainOK /\ TxnOK /\ AcksOK /\ WitnessInChain

LEMMA InitInv == Init => Inv
<1> SUFFICES ASSUME Init PROVE Inv
  OBVIOUS
<1>1. Typed
  BY InitTyped
<1>2. rows = << >> /\ acks = << >> /\ keychain = Null /\ lock = None
      /\ \A p \in Proc : pc[p] = "idle"
  BY DEF Init
<1>3. LockOK
  BY <1>2, LedgerAssumption DEF LockOK, LockPcs
<1>4. ChainOK /\ TxnOK /\ AcksOK /\ WitnessInChain
  BY <1>2 DEF ChainOK, Intact, TxnOK, LockPcs, StagedPcs, CommittedPcs, AcksOK,
     AnswersStand, WitnessInChain
<1> QED BY <1>1, <1>3, <1>4 DEF Inv

-----------------------------------------------------------------------------
(* What a step of p does to rows, lock, keychain and acks, in five kinds     *)

\* Only p moves.
Alone(p) ==
  \A q \in Proc \ {p} :
    pc'[q] = pc[q] /\ view'[q] = view[q] /\ staged'[q] = staged[q]

\* p ends outside any transaction that wrote, and has given back the lock.
Quiet(p) ==
  /\ pc'[p] \notin LockPcs \cup StagedPcs
  /\ lock' = IF lock = p THEN None ELSE lock
  /\ UNCHANGED <<rows, keychain, acks>>

\* p prepares the row it is going to commit.
Stages(p) ==
  /\ \/ pc[p] \notin LockPcs /\ pc'[p] = "rememberInsert" /\ view'[p] = rows
     \/ pc[p] = "casCheck" /\ pc'[p] = "casCommit" /\ view'[p] = view[p]
  /\ \E content \in Content, createdAt \in Time :
       staged'[p] = <<BuildEntry(content, HeadOf(view'[p]), createdAt)>>
  /\ UNCHANGED <<rows, lock, keychain, acks>>

\* p gets the write lock, on a view that is the current table.
Acquires(p) ==
  /\ lock = None
  /\ lock' = p
  /\ view'[p] = rows
  /\ \/ pc'[p] = "casCheck"
     \/ /\ pc[p] = "rememberInsert"
        /\ pc'[p] = "rememberCommit"
        /\ staged'[p] = staged[p]
        /\ view'[p] = view[p]
  /\ UNCHANGED <<rows, keychain, acks>>

Commits(p) ==
  /\ pc[p] \in LockPcs \cap StagedPcs
  /\ pc'[p] \in CommittedPcs
  /\ rows' = rows \o staged[p]
  /\ lock' = None
  /\ view'[p] = view[p]
  /\ staged'[p] = staged[p]
  /\ UNCHANGED <<keychain, acks>>

Acknowledges(p) ==
  /\ pc[p] \in CommittedPcs
  /\ pc'[p] = "replied"
  /\ acks' = Append(acks, AckOf(p))
  /\ keychain' \in {keychain, HeadOf(staged[p])}
  /\ UNCHANGED <<rows, lock>>

LEMMA LifeFootprint ==
  ASSUME Typed, LockOK, NEW p \in Proc, Arrival(p) \/ Return(p) \/ Crash(p)
  PROVE  Alone(p) /\ Quiet(p)
<1> USE LedgerAssumption DEF Typed, TypeOK, LockOK, LockPcs, StagedPcs,
        CommittedPcs, Goto, Answer, Alone, Quiet
<1>1. ASSUME NEW c, NEW to \in OpeningPcs \cup SnapshotPcs \cup VerifyPcs,
             to # "rememberInsert", Begin(p, c, to)
      PROVE  Alone(p) /\ Quiet(p)
  BY <1>1 DEF Begin, OpeningPcs, SnapshotPcs, VerifyPcs
<1>2. CASE RememberCall(p)
  BY <1>1, <1>2 DEF RememberCall, OpeningPcs
<1>3. CASE CasCall(p)
  BY <1>1, <1>3 DEF CasCall, OpeningPcs
<1>4. CASE SnapshotCall(p)
  BY <1>1, <1>4 DEF SnapshotCall, SnapshotPcs
<1>5. CASE VerifyCall(p)
  BY <1>1, <1>5 DEF VerifyCall, VerifyPcs
<1>6. CASE CasInvalid(p)
  BY <1>6 DEF CasInvalid
<1>7. CASE SnapshotInvalid(p)
  BY <1>7 DEF SnapshotInvalid
<1>8. CASE Return(p)
  BY <1>8 DEF Return
<1>9. CASE Crash(p)
  BY <1>9 DEF Crash
<1> QED BY <1>2, <1>3, <1>4, <1>5, <1>6, <1>7, <1>8, <1>9 DEF Arrival

LEMMA RememberFootprint ==
  ASSUME Typed, LockOK, NEW p \in Proc, RememberStep(p)
  PROVE  Alone(p) /\ (Quiet(p) \/ Stages(p) \/ Acquires(p) \/ Commits(p)
                        \/ Acknowledges(p))
<1> USE LedgerAssumption DEF Typed, TypeOK, LockOK, LockPcs, StagedPcs,
        CommittedPcs, Goto, Alone
<1>1. CASE RememberRead(p)
  <2>1. call[p] \in RememberArgs
    BY <1>1 DEF RememberRead, CallOK, RememberPcs, CasPcs, SnapshotPcs, VerifyPcs
  <2>2. call[p].content \in Content /\ call[p].createdAt \in Time
    BY <2>1 DEF RememberArgs
  <2>3. view'[p] = rows
        /\ staged'[p] =
             <<BuildEntry(call[p].content, HeadOf(view'[p]), call[p].createdAt)>>
    BY <1>1 DEF RememberRead
  <2>4. Alone(p) /\ pc[p] \notin LockPcs /\ pc'[p] = "rememberInsert"
        /\ UNCHANGED <<rows, lock, keychain, acks>>
    BY <1>1 DEF RememberRead
  <2> QED BY <2>2, <2>3, <2>4 DEF Stages
<1>2. CASE RememberInsert(p)
  BY <1>2 DEF RememberInsert, Acquires
<1>3. CASE RememberBusy(p)
  BY <1>3 DEF RememberBusy, Answer, Quiet
<1>4. CASE RememberCommit(p)
  BY <1>4 DEF RememberCommit, Commit, Commits
<1>5. CASE RememberPersist(p) \/ RememberUnpersisted(p) \/ RememberSkipRoot(p)
  BY <1>5 DEF RememberPersist, RememberUnpersisted, RememberSkipRoot, Remembered,
     Answer, Acknowledges
<1> QED BY <1>1, <1>2, <1>3, <1>4, <1>5 DEF RememberStep

LEMMA CasFootprint ==
  ASSUME Typed, LockOK, NEW p \in Proc, CasStep(p)
  PROVE  Alone(p) /\ (Quiet(p) \/ Stages(p) \/ Acquires(p) \/ Commits(p)
                        \/ Acknowledges(p))
<1> USE LedgerAssumption DEF Typed, TypeOK, LockOK, LockPcs, StagedPcs,
        CommittedPcs, Goto, Alone
<1>1. CASE CasBegin(p)
  BY <1>1 DEF CasBegin, Acquires
<1>2. CASE CasTimeout(p)
  BY <1>2 DEF CasTimeout, Answer, Quiet
<1>3. ASSUME NEW r, CasRollback(p, r)
      PROVE  Alone(p) /\ Quiet(p)
  BY <1>3 DEF CasRollback, Answer, Quiet
<1>4. CASE CasReject(p) \/ CasUnreadable(p) \/ CasConflict(p)
  BY <1>3, <1>4 DEF CasReject, CasUnreadable, CasConflict
<1>5. CASE CasInsert(p)
  <2>1. call[p] \in CasArgs
    BY <1>5 DEF CasInsert, CallOK, RememberPcs, CasPcs, SnapshotPcs, VerifyPcs
  <2>2. call[p].content \in Content
    BY <2>1 DEF CasArgs
  <2>3. PICK createdAt \in Time :
          staged' = [staged EXCEPT ![p] =
            <<BuildEntry(call[p].content, HeadOf(view[p]), createdAt)>>]
    BY <1>5 DEF CasInsert
  <2>4. staged'[p] = <<BuildEntry(call[p].content, HeadOf(view'[p]), createdAt)>>
    BY <1>5, <2>3 DEF CasInsert
  <2>5. Alone(p) /\ pc[p] = "casCheck" /\ pc'[p] = "casCommit"
        /\ view'[p] = view[p] /\ UNCHANGED <<rows, lock, keychain, acks>>
    BY <1>5, <2>3 DEF CasInsert
  <2> QED BY <2>2, <2>4, <2>5 DEF Stages
<1>6. CASE CasCommit(p)
  BY <1>6 DEF CasCommit, Commit, Commits
<1>7. CASE CasConfirm(p) \/ CasUnconfirmed(p)
  BY <1>7 DEF CasConfirm, CasUnconfirmed, Answer, Acknowledges
<1> QED BY <1>1, <1>2, <1>4, <1>5, <1>6, <1>7 DEF CasStep

LEMMA ReadFootprint ==
  ASSUME Typed, LockOK, NEW p \in Proc, SnapshotStep(p) \/ VerifyStep(p)
  PROVE  Alone(p) /\ Quiet(p)
<1> USE LedgerAssumption DEF Typed, TypeOK, LockOK, LockPcs, StagedPcs,
        CommittedPcs, Goto, Alone, Quiet
<1>1. ASSUME NEW r, SnapshotAnswer(p, r)
      PROVE  Alone(p) /\ Quiet(p)
  BY <1>1 DEF SnapshotAnswer, Answer
<1>2. CASE SnapshotRead(p)
  BY <1>2 DEF SnapshotRead
<1>3. CASE SnapshotReject(p) \/ SnapshotUnreadable(p)
  BY <1>1, <1>3 DEF SnapshotReject, SnapshotUnreadable
<1>4. CASE SnapshotConflict(p)
  BY <1>1, <1>4 DEF SnapshotConflict
<1>5. CASE SnapshotVerified(p)
  BY <1>1, <1>5 DEF SnapshotVerified
<1>6. ASSUME NEW root, VerifyAnswer(p, root)
      PROVE  Alone(p) /\ Quiet(p)
  BY <1>6 DEF VerifyAnswer, Answer
<1>7. CASE VerifyNotFound(p)
  BY <1>7 DEF VerifyNotFound, Answer
<1>8. CASE VerifyEntry(p) \/ VerifyLatest(p)
  BY <1>8 DEF VerifyEntry, VerifyLatest
<1>9. CASE VerifyRoot(p) \/ VerifyUnreadable(p)
  BY <1>6, <1>9 DEF VerifyRoot, VerifyUnreadable
<1> QED BY <1>2, <1>3, <1>4, <1>5, <1>7, <1>8, <1>9 DEF SnapshotStep, VerifyStep

LEMMA Footprint ==
  ASSUME Typed, LockOK, NEW p \in Proc,
         Arrival(p) \/ Step(p) \/ Return(p) \/ Crash(p)
  PROVE  Alone(p) /\ (Quiet(p) \/ Stages(p) \/ Acquires(p) \/ Commits(p)
                        \/ Acknowledges(p))
BY LifeFootprint, RememberFootprint, CasFootprint, ReadFootprint DEF Step

\* A step of p leaves the calls of the other processes alone.
Bystanders(p) ==
  \A q \in Proc \ {p} : /\ pc'[q] = pc[q]
                        /\ call'[q] = call[q]
                        /\ view'[q] = view[q]
                        /\ staged'[q] = staged[q]
                        /\ reply'[q] = reply[q]
                        /\ unavailable'[q] = unavailable[q]

LEMMA OthersStay ==
  ASSUME Typed, NEW p \in Proc,
         Arrival(p) \/ Step(p) \/ Return(p) \/ Crash(p)
  PROVE  Bystanders(p)
<1> USE DEF Typed, TypeOK, Bystanders, Goto, SetUnavailable
<1>1. ASSUME NEW from, NEW r, Answer(p, from, r),
             \A q \in Proc \ {p} : unavailable'[q] = unavailable[q]
      PROVE  Bystanders(p)
  BY <1>1 DEF Answer
<1>2. ASSUME NEW c, NEW to, Begin(p, c, to) PROVE Bystanders(p)
  BY <1>2 DEF Begin
<1>3. ASSUME NEW from, NEW to, Commit(p, from, to) PROVE Bystanders(p)
  BY <1>3 DEF Commit
<1>4. CASE Arrival(p)
  BY <1>1, <1>2, <1>4 DEF Arrival, RememberCall, CasCall, CasInvalid, SnapshotCall,
     SnapshotInvalid, VerifyCall
<1>5. CASE RememberStep(p)
  BY <1>1, <1>3, <1>5 DEF RememberStep, RememberRead, RememberInsert, RememberBusy,
     RememberCommit, RememberPersist, RememberUnpersisted, RememberSkipRoot,
     Remembered
<1>6. CASE CasBegin(p) \/ CasInsert(p)
  BY <1>6 DEF CasBegin, CasInsert
<1>7. CASE CasTimeout(p) \/ CasReject(p) \/ CasUnreadable(p) \/ CasConflict(p)
  BY <1>1, <1>7 DEF CasTimeout, CasReject, CasUnreadable, CasConflict, CasRollback
<1>8. CASE CasCommit(p) \/ CasConfirm(p) \/ CasUnconfirmed(p)
  BY <1>1, <1>3, <1>8 DEF CasCommit, CasConfirm, CasUnconfirmed
<1>9. CASE SnapshotStep(p)
  BY <1>1, <1>9 DEF SnapshotStep, SnapshotRead, SnapshotReject, SnapshotUnreadable,
     SnapshotConflict, SnapshotVerified, SnapshotAnswer
<1>10. CASE VerifyNotFound(p) \/ VerifyRoot(p) \/ VerifyUnreadable(p)
  BY <1>1, <1>10 DEF VerifyNotFound, VerifyRoot, VerifyUnreadable, VerifyAnswer
<1>11. CASE VerifyEntry(p) \/ VerifyLatest(p)
  BY <1>11 DEF VerifyEntry, VerifyLatest
<1>12. CASE Return(p) \/ Crash(p)
  BY <1>12 DEF Return, Crash
<1> QED
  BY <1>4, <1>5, <1>6, <1>7, <1>8, <1>9, <1>10, <1>11, <1>12
  DEF Step, CasStep, VerifyStep

-----------------------------------------------------------------------------
(* Each part of the invariant is preserved by each kind of step              *)

\* The head of a chain is as long as the chain: a hash commits to everything
\* before it.
LEMMA HeadLength ==
  ASSUME rows \in Seq(Row), ChainOK
  PROVE  Len(HeadOf(rows)) = Len(rows)
<1>1. CASE rows = << >>
  BY <1>1 DEF HeadOf, Null
<1>2. CASE rows # << >>
  BY <1>2 DEF HeadOf, ChainOK
<1> QED BY <1>1, <1>2

\* A row built on the head of an intact chain extends it to an intact chain.
LEMMA IntactExtends ==
  ASSUME NEW rs \in Seq(Row), NEW more \in Seq(Row), Len(more) = 1, Intact(rs),
         more[1].prevHash = HeadOf(rs), ContentValid(more[1]),
         EntryHashValid(more[1])
  PROVE  Intact(rs \o more)
<1> DEFINE rs2 == rs \o more
<1>1. Len(rs2) = Len(rs) + 1 /\ rs2[Len(rs) + 1] = more[1]
      /\ \A i \in 1 .. Len(rs) : rs2[i] = rs[i]
  BY ConcatProperties
<1> HIDE DEF rs2
<1>2. ASSUME NEW i \in 1 .. Len(rs)
      PROVE  /\ rs2[i].prevHash = PrevOf(rs2, i)
             /\ ContentValid(rs2[i])
             /\ EntryHashValid(rs2[i])
  BY <1>1 DEF Intact, PrevOf
<1>3. rs2[Len(rs) + 1].prevHash = PrevOf(rs2, Len(rs) + 1)
  <2>1. CASE rs = << >>
    BY <1>1, <2>1 DEF PrevOf, HeadOf
  <2>2. CASE rs # << >>
    BY <1>1, <2>2 DEF PrevOf, HeadOf
  <2> QED BY <2>1, <2>2
<1>4. Intact(rs2)
  BY <1>1, <1>2, <1>3 DEF Intact
<1> QED BY <1>4 DEF rs2

LEMMA LockStep ==
  ASSUME Typed, LockOK, NEW p \in Proc, Alone(p),
         pc' \in [Proc -> Pcs], lock' \in Proc \cup {None},
         Quiet(p) \/ Stages(p) \/ Acquires(p) \/ Commits(p) \/ Acknowledges(p)
  PROVE  LockOK'
<1> USE LedgerAssumption DEF Typed, TypeOK, LockOK, Alone, LockPcs, StagedPcs,
        CommittedPcs
<1>1. CASE Quiet(p)
  BY <1>1 DEF Quiet
<1>2. CASE Stages(p)
  BY <1>2 DEF Stages
<1>3. CASE Acquires(p)
  BY <1>3 DEF Acquires
<1>4. CASE Commits(p)
  BY <1>4 DEF Commits
<1>5. CASE Acknowledges(p)
  BY <1>5 DEF Acknowledges
<1> QED BY <1>1, <1>2, <1>3, <1>4, <1>5

LEMMA CommitFacts ==
  ASSUME Typed, LockOK, ChainOK, TxnOK, NEW p \in Proc, Commits(p)
  PROVE  /\ view[p] = rows
         /\ staged[p] \in Seq(Row)
         /\ Len(staged[p]) = 1
         /\ staged[p][1] \in Row
         /\ staged[p][1].prevHash = HeadOf(rows)
         /\ ContentValid(staged[p][1])
         /\ EntryHashValid(staged[p][1])
         /\ rows' \in Seq(Row)
         /\ Len(rows') = Len(rows) + 1
         /\ rows'[Len(rows) + 1] = staged[p][1]
         /\ \A i \in 1 .. Len(rows) : rows'[i] = rows[i]
<1>1. pc[p] \in LockPcs /\ pc[p] \in StagedPcs /\ rows' = rows \o staged[p]
  BY DEF Commits
<1>2. rows \in Seq(Row) /\ staged[p] \in Seq(Row)
  BY DEF Typed, TypeOK
<1>3. /\ view[p] = rows
      /\ Len(staged[p]) = 1
      /\ staged[p][1].prevHash = HeadOf(view[p])
      /\ ContentValid(staged[p][1])
      /\ EntryHashValid(staged[p][1])
  BY <1>1 DEF TxnOK
<1>4. staged[p][1] \in Row
  BY <1>2, <1>3
<1>5. /\ rows' \in Seq(Row)
      /\ Len(rows') = Len(rows) + 1
      /\ rows'[Len(rows) + 1] = staged[p][1]
      /\ \A i \in 1 .. Len(rows) : rows'[i] = rows[i]
  <2> DEFINE more == staged[p]
  <2>1. rows \in Seq(Row) /\ more \in Seq(Row) /\ Len(more) = 1 /\ rows' = rows \o more
    BY <1>1, <1>2, <1>3
  <2> HIDE DEF more
  <2>2. /\ rows \o more \in Seq(Row)
        /\ Len(rows \o more) = Len(rows) + Len(more)
        /\ \A i \in 1 .. Len(rows) + Len(more) :
             (rows \o more)[i] = IF i <= Len(rows) THEN rows[i] ELSE more[i - Len(rows)]
    BY <2>1, ConcatProperties
  <2>3. rows'[Len(rows) + 1] = more[1]
    BY <2>1, <2>2
  <2> QED BY <2>1, <2>2, <2>3 DEF more
<1> QED BY <1>2, <1>3, <1>4, <1>5

LEMMA ChainStep ==
  ASSUME Typed, LockOK, ChainOK, TxnOK, NEW p \in Proc,
         Quiet(p) \/ Stages(p) \/ Acquires(p) \/ Commits(p) \/ Acknowledges(p)
  PROVE  ChainOK'
<1>1. CASE UNCHANGED rows
  BY <1>1 DEF ChainOK, Intact, PrevOf, ContentValid, EntryHashValid, HashEntry
<1>2. CASE Commits(p)
  <2>1. rows \in Seq(Row)
    BY DEF Typed, TypeOK
  <2>2. Intact(rows \o staged[p])
    BY <1>2, <2>1, CommitFacts, IntactExtends DEF ChainOK
  <2>3. rows' = rows \o staged[p]
    BY <1>2 DEF Commits
  <2>4. Intact(rows')
    BY <2>2, <2>3
  <2>5. Len(staged[p][1].entryHash) = Len(rows) + 1
    <3> DEFINE row == staged[p][1]
    <3>1. row \in Row
      BY <1>2, CommitFacts
    <3>2. row.prevHash \in Seq(Stamp)
          /\ [contentHash |-> row.contentHash, createdAt |-> row.createdAt] \in Stamp
      BY <3>1 DEF Row, Hash, Stamp
    <3>3. Len(HashEntry(row.contentHash, row.prevHash, row.createdAt))
            = Len(row.prevHash) + 1
      BY <3>2 DEF HashEntry
    <3>4. row.prevHash = HeadOf(rows) /\ EntryHashValid(row)
      BY <1>2, CommitFacts
    <3>5. Len(HeadOf(rows)) = Len(rows)
      BY <2>1, HeadLength
    <3> HIDE DEF row
    <3>6. Len(row.entryHash) = Len(rows) + 1
      BY <3>3, <3>4, <3>5 DEF EntryHashValid
    <3> QED BY <3>6 DEF row
  <2>6. \A i \in 1 .. Len(rows') : Len(rows'[i].entryHash) = i
    BY <1>2, <2>1, <2>5, CommitFacts DEF ChainOK
  <2> QED BY <2>4, <2>6 DEF ChainOK
<1> QED BY <1>1, <1>2 DEF Quiet, Stages, Acquires, Acknowledges

LEMMA TxnStep ==
  ASSUME Typed, LockOK, ChainOK, TxnOK, NEW p \in Proc, Alone(p),
         pc' \in [Proc -> Pcs], view' \in [Proc -> Seq(Row)],
         Quiet(p) \/ Stages(p) \/ Acquires(p) \/ Commits(p) \/ Acknowledges(p)
  PROVE  TxnOK'
<1> DEFINE Read(q)   == pc[q] \in LockPcs => view[q] = rows
           Built(q)  == pc[q] \in StagedPcs =>
                          /\ Len(staged[q]) = 1
                          /\ staged[q][1].prevHash = HeadOf(view[q])
                          /\ ContentValid(staged[q][1])
                          /\ EntryHashValid(staged[q][1])
           Placed(q) == pc[q] \in CommittedPcs =>
                          /\ Len(view[q]) < Len(rows)
                          /\ rows[Len(view[q]) + 1] = staged[q][1]
<1>1. \A q \in Proc : Read(q) /\ Built(q) /\ Placed(q)
  BY DEF TxnOK
<1>2. SUFFICES \A q \in Proc : Read(q)' /\ Built(q)' /\ Placed(q)'
  BY DEF TxnOK, ContentValid, EntryHashValid, HashContent, HashEntry, HeadOf
<1>3. rows \in Seq(Row) /\ view \in [Proc -> Seq(Row)] /\ pc \in [Proc -> Pcs]
  BY DEF Typed, TypeOK
<1>4. ASSUME NEW q \in Proc PROVE Read(q)'
  <2>1. CASE q # p /\ UNCHANGED rows
    BY <1>1, <1>4, <2>1 DEF Alone
  <2>2. CASE q # p /\ Commits(p)
    BY <1>4, <2>2 DEF Alone, Commits, LockOK
  <2>3. CASE q = p
    BY <1>1, <1>4, <2>3 DEF Quiet, Stages, Acquires, Commits, Acknowledges,
       LockPcs, CommittedPcs
  <2> QED BY <2>1, <2>2, <2>3 DEF Quiet, Stages, Acquires, Acknowledges
<1>5. ASSUME NEW q \in Proc PROVE Built(q)'
  <2>1. CASE pc'[q] \in StagedPcs /\ pc[q] \in StagedPcs
             /\ staged'[q] = staged[q] /\ view'[q] = view[q]
    BY <1>1, <1>5, <2>1 DEF ContentValid, EntryHashValid, HashEntry, HashContent,
       HeadOf
  <2>2. CASE q = p /\ Stages(p)
    <3>1. PICK content \in Content, createdAt \in Time :
            staged'[p] = <<BuildEntry(content, HeadOf(view'[p]), createdAt)>>
      BY <2>2 DEF Stages
    <3>2. Len(staged'[p]) = 1
          /\ staged'[p][1] = BuildEntry(content, HeadOf(view'[p]), createdAt)
      BY <3>1
    <3> QED BY <2>2, <3>2 DEF BuildEntry, ContentValid, EntryHashValid, HeadOf,
            HashContent, HashEntry
  <2> QED BY <1>5, <2>1, <2>2 DEF Alone, Quiet, Acquires, Commits, Acknowledges,
          StagedPcs, CommittedPcs
<1>6. ASSUME NEW q \in Proc PROVE Placed(q)'
  <2>1. CASE q # p /\ UNCHANGED rows
    BY <1>1, <1>6, <2>1 DEF Alone
  <2>2. CASE q # p /\ Commits(p)
    <3>1. view'[q] = view[q] /\ staged'[q] = staged[q] /\ pc'[q] = pc[q]
      BY <1>6, <2>2 DEF Alone
    <3>2. Len(rows') = Len(rows) + 1
          /\ \A i \in 1 .. Len(rows) : rows'[i] = rows[i]
      BY <2>2, CommitFacts
    <3>3. Len(view[q]) \in Nat /\ Len(rows) \in Nat
      BY <1>3, <1>6
    <3>4. pc[q] \in CommittedPcs =>
            /\ Len(view[q]) + 1 \in 1 .. Len(rows)
            /\ rows[Len(view[q]) + 1] = staged[q][1]
      BY <1>1, <1>6, <3>3
    <3> QED BY <3>1, <3>2, <3>3, <3>4
  <2>3. CASE q = p /\ Commits(p)
    <3>1. view'[p] = rows /\ staged'[p] = staged[p]
          /\ Len(rows') = Len(rows) + 1 /\ rows'[Len(rows) + 1] = staged[p][1]
      BY <2>3, CommitFacts DEF Commits
    <3> QED BY <1>3, <2>3, <3>1
  <2>4. CASE q = p /\ ~Commits(p)
    BY <1>6, <2>4 DEF Quiet, Stages, Acquires, Acknowledges, LockPcs, StagedPcs,
       CommittedPcs
  <2> QED BY <2>1, <2>2, <2>3, <2>4 DEF Quiet, Stages, Acquires, Acknowledges
<1> QED BY <1>4, <1>5, <1>6

LEMMA AcksStep ==
  ASSUME Typed, LockOK, ChainOK, TxnOK, AcksOK, NEW p \in Proc, Alone(p),
         pc' \in [Proc -> Pcs],
         Quiet(p) \/ Stages(p) \/ Acquires(p) \/ Commits(p) \/ Acknowledges(p)
  PROVE  AcksOK'
<1>1. rows \in Seq(Row) /\ view \in [Proc -> Seq(Row)] /\ acks \in Seq(Ack)
  BY DEF Typed, TypeOK
<1>2. CASE /\ UNCHANGED <<rows, acks>>
           /\ pc'[p] \notin CommittedPcs
  BY <1>2 DEF AcksOK, AnswersStand, Alone
<1>3. CASE Commits(p)
  <2>1. /\ Len(rows') = Len(rows) + 1
        /\ \A i \in 1 .. Len(rows) : rows'[i] = rows[i]
        /\ view'[p] = view[p] /\ view[p] = rows /\ acks' = acks
    BY <1>3, CommitFacts DEF Commits
  <2>2. \A i \in 1 .. Len(acks) : acks[i].sequence \in Nat
    <3>1. \A i \in 1 .. Len(acks) : acks[i] \in Ack
      BY <1>1
    <3> QED BY <3>1 DEF Ack
  <2>3. \A i \in 1 .. Len(acks) : acks[i].sequence + 1 \in 1 .. Len(rows)
    BY DEF AcksOK, AnswersStand
  <2>4. AnswersStand'
    BY <1>1, <2>1, <2>2, <2>3 DEF AcksOK, AnswersStand
  <2>5. \A i \in 1 .. Len(acks) : acks[i].sequence # Len(view[p])
    BY <1>1, <2>1, <2>2, <2>3
  <2>6. \A q \in Proc : q # p /\ pc[q] \in CommittedPcs => Len(view[q]) < Len(view[p])
    BY <2>1 DEF TxnOK
  <2>7. \A q \in Proc : Len(view[q]) \in Nat
    BY <1>1
  <2>8. \A q \in Proc : view'[q] = view[q] /\ (q # p => pc'[q] = pc[q])
    BY <2>1 DEF Alone
  <2>9. \A i \in 1 .. Len(acks'), q \in Proc :
          pc'[q] \in CommittedPcs => acks'[i].sequence # Len(view'[q])
    BY <2>1, <2>5, <2>8 DEF AcksOK
  <2>10. \A q, r \in Proc :
           /\ pc'[q] \in CommittedPcs
           /\ pc'[r] \in CommittedPcs
           /\ Len(view'[q]) = Len(view'[r])
           => q = r
    BY <2>6, <2>7, <2>8 DEF AcksOK
  <2> QED BY <2>1, <2>4, <2>9, <2>10 DEF AcksOK
<1>4. CASE Acknowledges(p)
  <2> DEFINE ack == AckOf(p)
             n   == Len(view[p])
  <2>1. pc[p] \in CommittedPcs /\ acks' = Append(acks, ack) /\ rows' = rows
        /\ pc'[p] = "replied"
    BY <1>4 DEF Acknowledges
  <2>2. /\ staged[p] \in Seq(Row) /\ Len(staged[p]) = 1
        /\ staged[p][1].prevHash = HeadOf(view[p])
        /\ n < Len(rows) /\ rows[n + 1] = staged[p][1]
    BY <2>1 DEF TxnOK, StagedPcs, Typed, TypeOK
  <2>3. HeadOf(staged[p]) = staged[p][1].entryHash
    BY <2>2 DEF HeadOf
  <2>4. /\ ack.sequence = n
        /\ ack.previousHead = rows[n + 1].prevHash
        /\ ack.newHead = rows[n + 1].entryHash
    BY <2>2, <2>3 DEF AckOf
  <2>5. n \in Nat /\ n + 1 \in 1 .. Len(rows)
    BY <1>1, <2>2
  <2> HIDE DEF ack
  <2>6. /\ Len(acks') = Len(acks) + 1
        /\ acks'[Len(acks) + 1] = ack
        /\ \A i \in 1 .. Len(acks) : acks'[i] = acks[i]
    BY <1>1, <2>1
  <2>7. \A i \in 1 .. Len(acks') : i \in 1 .. Len(acks) \/ i = Len(acks) + 1
    BY <1>1, <2>6
  <2>8. AnswersStand'
    BY <2>1, <2>4, <2>5, <2>6, <2>7 DEF AcksOK, AnswersStand
  <2>9. \A i \in 1 .. Len(acks) : acks[i].sequence # n
    BY <2>1 DEF AcksOK
  <2>10. \A i, j \in 1 .. Len(acks') : acks'[i].sequence = acks'[j].sequence => i = j
    BY <2>4, <2>6, <2>7, <2>9 DEF AcksOK
  <2>11. \A q \in Proc : pc'[q] \in CommittedPcs =>
           q # p /\ pc[q] \in CommittedPcs /\ view'[q] = view[q]
    BY <2>1 DEF Alone, CommittedPcs
  <2>12. \A i \in 1 .. Len(acks'), q \in Proc :
           pc'[q] \in CommittedPcs => acks'[i].sequence # Len(view'[q])
    <3> SUFFICES ASSUME NEW i \in 1 .. Len(acks'), NEW q \in Proc,
                        pc'[q] \in CommittedPcs
                 PROVE  acks'[i].sequence # Len(view'[q])
      OBVIOUS
    <3>1. q # p /\ pc[q] \in CommittedPcs /\ view'[q] = view[q]
      BY <2>11
    <3>2. CASE i \in 1 .. Len(acks)
      BY <2>6, <3>1, <3>2 DEF AcksOK
    <3>3. CASE i = Len(acks) + 1
      BY <2>1, <2>4, <2>6, <3>1, <3>3 DEF AcksOK
    <3> QED BY <2>7, <3>2, <3>3
  <2>13. \A q, r \in Proc :
           /\ pc'[q] \in CommittedPcs
           /\ pc'[r] \in CommittedPcs
           /\ Len(view'[q]) = Len(view'[r])
           => q = r
    BY <2>11 DEF AcksOK
  <2> QED BY <2>8, <2>10, <2>12, <2>13 DEF AcksOK
<1> QED BY <1>2, <1>3, <1>4 DEF Quiet, Stages, Acquires, StagedPcs, LockPcs,
        CommittedPcs

LEMMA WitnessStep ==
  ASSUME Typed, LockOK, ChainOK, TxnOK, WitnessInChain, NEW p \in Proc,
         Quiet(p) \/ Stages(p) \/ Acquires(p) \/ Commits(p) \/ Acknowledges(p)
  PROVE  WitnessInChain'
<1>1. rows \in Seq(Row) /\ view \in [Proc -> Seq(Row)]
  BY DEF Typed, TypeOK
<1>2. CASE UNCHANGED <<rows, keychain>>
  BY <1>2 DEF WitnessInChain
<1>3. CASE Commits(p)
  <2>1. keychain' = keychain /\ Len(rows') = Len(rows) + 1
        /\ \A i \in 1 .. Len(rows) : rows'[i] = rows[i]
    BY <1>3, CommitFacts DEF Commits
  <2>2. CASE keychain = Null
    BY <2>1, <2>2 DEF WitnessInChain
  <2>3. CASE \E i \in 1 .. Len(rows) : keychain = rows[i].entryHash
    <3>1. PICK i \in 1 .. Len(rows) : keychain = rows[i].entryHash
      BY <2>3
    <3>2. i \in 1 .. Len(rows') /\ keychain' = rows'[i].entryHash
      BY <1>1, <2>1, <3>1
    <3> QED BY <3>2 DEF WitnessInChain
  <2> QED BY <2>2, <2>3 DEF WitnessInChain
<1>4. CASE Acknowledges(p)
  <2> DEFINE n == Len(view[p]) + 1
  <2>1. pc[p] \in CommittedPcs /\ rows' = rows
        /\ keychain' \in {keychain, HeadOf(staged[p])}
    BY <1>4 DEF Acknowledges
  <2>2. n \in 1 .. Len(rows) /\ rows[n] = staged[p][1] /\ Len(staged[p]) = 1
    BY <1>1, <2>1 DEF TxnOK, StagedPcs
  <2>3. HeadOf(staged[p]) = rows[n].entryHash
    BY <2>2 DEF HeadOf
  <2> QED BY <2>1, <2>2, <2>3 DEF WitnessInChain
<1> QED BY <1>2, <1>3, <1>4 DEF Quiet, Stages, Acquires

LEMMA InvStep == Inv /\ [Next]_vars => Inv'
<1> SUFFICES ASSUME Inv, [Next]_vars PROVE Inv'
  OBVIOUS
<1>1. Typed'
  BY TypedStep DEF Inv
<1>2. CASE UNCHANGED vars
  <2>1. /\ rows' = rows /\ acks' = acks /\ keychain' = keychain /\ lock' = lock
        /\ pc' = pc /\ view' = view /\ staged' = staged
    BY <1>2 DEF vars
  <2>2. LockOK' /\ AcksOK' /\ WitnessInChain'
    BY <2>1 DEF Inv, LockOK, AcksOK, AnswersStand, WitnessInChain
  <2>3. ChainOK'
    BY <2>1 DEF Inv, ChainOK, Intact, PrevOf, ContentValid, EntryHashValid,
       HashContent, HashEntry
  <2>4. TxnOK'
    BY <2>1 DEF Inv, TxnOK, ContentValid, EntryHashValid, HashContent, HashEntry,
       HeadOf
  <2> QED BY <1>1, <2>2, <2>3, <2>4 DEF Inv
<1>3. ASSUME NEW p \in Proc, Arrival(p) \/ Step(p) \/ Return(p) \/ Crash(p)
      PROVE  Inv'
  <2>1. Alone(p) /\ (Quiet(p) \/ Stages(p) \/ Acquires(p) \/ Commits(p)
                       \/ Acknowledges(p))
    BY <1>3, Footprint DEF Inv
  <2>2. pc' \in [Proc -> Pcs] /\ lock' \in Proc \cup {None}
        /\ view' \in [Proc -> Seq(Row)]
    BY <1>1 DEF Typed, TypeOK
  <2>3. LockOK' /\ ChainOK' /\ TxnOK' /\ AcksOK' /\ WitnessInChain'
    BY <2>1, <2>2, LockStep, ChainStep, TxnStep, AcksStep, WitnessStep DEF Inv
  <2> QED BY <1>1, <2>3 DEF Inv
<1> QED BY <1>2, <1>3 DEF Next

LEMMA Invariance == Spec => []Inv
BY InitInv, InvStep, PTL DEF Spec

-----------------------------------------------------------------------------
(* The safety properties *)

\* verifyChainStructurally never throws on a ledger written by these
\* operations alone, whatever the interleaving, the crashes and the failures.
THEOREM ChainNeverBreaks == Spec => []ChainIntact
<1>1. Inv => ChainIntact
  BY DEF Inv, ChainOK, ChainIntact
<1> QED BY <1>1, Invariance, PTL

\* What an append was told stays true: no later step moves or rewrites its row.
THEOREM AnswersKeepStanding == Spec => []AnswersStand
<1>1. Inv => AnswersStand
  BY DEF Inv, AcksOK
<1> QED BY <1>1, Invariance, PTL

\* The state root is absent or the hash of a committed row.
THEOREM WitnessStaysInChain == Spec => []WitnessInChain
<1>1. Inv => WitnessInChain
  BY DEF Inv
<1> QED BY <1>1, Invariance, PTL

\* Two appends answered as committed never had the same previous head: the
\* head is as long as the history, so equal heads are equal positions.
THEOREM AppendsExclude == Spec => []CasExclusive
<1>1. Inv => CasExclusive
  <2> SUFFICES ASSUME Inv, NEW i \in 1 .. Len(acks), NEW j \in 1 .. Len(acks),
                      acks[i].previousHead = acks[j].previousHead
               PROVE  i = j
    BY DEF CasExclusive
  <2>1. rows \in Seq(Row) /\ acks \in Seq(Ack)
    BY DEF Inv, Typed, TypeOK
  <2>2. ASSUME NEW k \in 1 .. Len(acks)
        PROVE  Len(acks[k].previousHead) = acks[k].sequence
    <3> DEFINE n == acks[k].sequence
    <3>1. n \in Nat
      <4>1. acks[k] \in Ack
        BY <2>1
      <4> QED BY <4>1 DEF Ack
    <3>2. n + 1 \in 1 .. Len(rows) /\ rows[n + 1].prevHash = acks[k].previousHead
      BY DEF Inv, AcksOK, AnswersStand
    <3>3. acks[k].previousHead = PrevOf(rows, n + 1)
      BY <3>2 DEF Inv, ChainOK, Intact
    <3>4. CASE n = 0
      BY <3>3, <3>4 DEF PrevOf, Null
    <3>5. CASE n # 0
      <4>1. n \in 1 .. Len(rows) /\ acks[k].previousHead = rows[n].entryHash
        BY <2>1, <3>1, <3>2, <3>3, <3>5 DEF PrevOf
      <4> QED BY <4>1 DEF Inv, ChainOK
    <3> QED BY <3>4, <3>5
  <2>3. acks[i].sequence = acks[j].sequence
    BY <2>2
  <2> QED BY <2>3 DEF Inv, AcksOK
<1> QED BY <1>1, Invariance, PTL

-----------------------------------------------------------------------------
(* Every committed row is answered, or its process died                      *)

\* The processes between the commit of an append and its answer.
Waiting == {p \in Proc : pc[p] \in CommittedPcs}

\* From there a process gives its answer or dies.
LEMMA WaitingLeaves ==
  ASSUME Typed, NEW p \in Proc, pc[p] \in CommittedPcs,
         Arrival(p) \/ Step(p) \/ Return(p) \/ Crash(p)
  PROVE  /\ pc'[p] \notin CommittedPcs
         /\ rows' = rows
         /\ \/ acks' = Append(acks, AckOf(p))
            \/ acks' = acks /\ pc'[p] = "idle"
<1> USE DEF Typed, TypeOK, CommittedPcs, Goto
<1>1. ~ Arrival(p) /\ ~ Return(p)
  BY DEF Arrival, RememberCall, CasCall, CasInvalid, SnapshotCall, SnapshotInvalid,
     VerifyCall, Begin, Answer, Return
<1>2. ~ SnapshotStep(p) /\ ~ VerifyStep(p)
  BY DEF SnapshotStep, SnapshotRead, SnapshotReject, SnapshotUnreadable,
     SnapshotConflict, SnapshotVerified, SnapshotAnswer, VerifyStep, VerifyNotFound,
     VerifyEntry, VerifyLatest, VerifyRoot, VerifyUnreadable, VerifyAnswer, Answer
<1>3. CASE RememberStep(p)
  BY <1>3 DEF RememberStep, RememberRead, RememberInsert, RememberBusy,
     RememberCommit, RememberPersist, RememberUnpersisted, RememberSkipRoot,
     Remembered, Answer, Commit
<1>4. CASE CasStep(p)
  BY <1>4 DEF CasStep, CasBegin, CasTimeout, CasReject, CasUnreadable, CasConflict,
     CasRollback, CasInsert, CasCommit, Commit, CasConfirm, CasUnconfirmed, Answer
<1>5. CASE Crash(p)
  BY <1>5 DEF Crash
<1> QED BY <1>1, <1>2, <1>3, <1>4, <1>5 DEF Step

\* What one step does to the count of the rows no answer has reported.
LEMMA UnansweredStep ==
  ASSUME Inv, IsFiniteSet(Waiting), NEW p \in Proc,
         Arrival(p) \/ Step(p) \/ Return(p) \/ Crash(p)
  PROVE  /\ IsFiniteSet(Waiting')
         /\ \/ Unanswered' = Unanswered
            \/ /\ Unanswered' = Unanswered + 1
               /\ pc[p] \in CommittedPcs /\ pc'[p] = "idle" /\ acks' = acks
<1>1. Alone(p) /\ (Quiet(p) \/ Stages(p) \/ Acquires(p) \/ Commits(p)
                     \/ Acknowledges(p))
  BY Footprint DEF Inv
<1>2. Len(rows) \in Nat /\ Len(acks) \in Nat /\ acks \in Seq(Ack)
  BY DEF Inv, Typed, TypeOK
<1>3. Cardinality(Waiting) \in Nat
  BY FS_CardinalityType
<1>4. /\ Unanswered = Len(rows) - Len(acks) - Cardinality(Waiting)
      /\ Unanswered' = Len(rows') - Len(acks') - Cardinality(Waiting')
  BY DEF Unanswered, Waiting
<1>5. CASE Commits(p)
  <2>1. pc[p] \notin CommittedPcs /\ pc'[p] \in CommittedPcs /\ acks' = acks
    BY <1>5 DEF Commits, LockPcs, CommittedPcs
  <2>2. Len(rows') = Len(rows) + 1
    BY <1>5, CommitFacts DEF Inv
  <2>3. Waiting' = Waiting \cup {p} /\ p \notin Waiting
    BY <1>1, <2>1 DEF Alone, Waiting
  <2>4. IsFiniteSet(Waiting') /\ Cardinality(Waiting') = Cardinality(Waiting) + 1
    BY <2>3, FS_AddElement
  <2> QED BY <1>2, <1>3, <1>4, <2>1, <2>2, <2>4
<1>6. CASE pc[p] \in CommittedPcs
  <2>1. /\ pc'[p] \notin CommittedPcs /\ rows' = rows
        /\ \/ acks' = Append(acks, AckOf(p))
           \/ acks' = acks /\ pc'[p] = "idle"
    BY <1>6, WaitingLeaves DEF Inv
  <2>2. Waiting' = Waiting \ {p} /\ p \in Waiting
    BY <1>1, <1>6, <2>1 DEF Alone, Waiting
  <2>3. IsFiniteSet(Waiting') /\ Cardinality(Waiting') = Cardinality(Waiting) - 1
    BY <2>2, FS_RemoveElement
  <2>4. CASE acks' = Append(acks, AckOf(p))
    <3>1. Len(acks') = Len(acks) + 1
      BY <1>2, <2>4
    <3> QED BY <1>2, <1>3, <1>4, <2>1, <2>3, <3>1
  <2>5. CASE acks' = acks /\ pc'[p] = "idle"
    <3>1. Unanswered' = Unanswered + 1
      BY <1>2, <1>3, <1>4, <2>1, <2>3, <2>5
    <3> QED BY <1>6, <2>3, <2>5, <3>1
  <2> QED BY <2>1, <2>4, <2>5
<1>7. CASE pc[p] \notin CommittedPcs /\ ~ Commits(p)
  <2>1. rows' = rows /\ acks' = acks /\ pc'[p] \notin CommittedPcs
    BY <1>1, <1>7 DEF Quiet, Stages, Acquires, Acknowledges, StagedPcs, CommittedPcs
  <2>2. Waiting' = Waiting
    BY <1>1, <1>7, <2>1 DEF Alone, Waiting
  <2> QED BY <1>4, <2>1, <2>2
<1> QED BY <1>5, <1>6, <1>7

\* Only the death of a process between its commit and its answer leaves a row
\* unreported, that one row; and no row is reported twice: an error of the
\* keychain after the commit is not folded into a failure of the append.
THEOREM RowsAreAnswered == Spec => RowsAnswered
<1> DEFINE CInv == Inv /\ IsFiniteSet(Waiting)
           Kept == \/ Unanswered' = Unanswered
                   \/ /\ Unanswered' = Unanswered + 1
                      /\ \E p \in Proc : /\ pc[p] \in CommittedPcs
                                         /\ pc'[p] = "idle"
                                         /\ acks' = acks
<1>1. Init => CInv /\ Unanswered = 0
  <2> SUFFICES ASSUME Init PROVE IsFiniteSet(Waiting) /\ Unanswered = 0
    BY InitInv
  <2>1. Waiting = {}
    BY DEF Init, Waiting, CommittedPcs
  <2>2. Cardinality(Waiting) = 0 /\ IsFiniteSet(Waiting)
    BY <2>1, FS_EmptySet
  <2>3. Len(rows) = 0 /\ Len(acks) = 0
    BY DEF Init
  <2>4. Unanswered = Len(rows) - Len(acks) - Cardinality(Waiting)
    BY DEF Unanswered, Waiting
  <2> QED BY <2>2, <2>3, <2>4
<1>2. CInv /\ [Next]_vars => CInv' /\ [Kept]_vars
  <2> SUFFICES ASSUME CInv, [Next]_vars PROVE CInv' /\ [Kept]_vars
    OBVIOUS
  <2>1. Inv'
    BY InvStep
  <2>2. CASE UNCHANGED vars
    BY <2>1, <2>2 DEF vars, Waiting
  <2>3. ASSUME NEW p \in Proc, Arrival(p) \/ Step(p) \/ Return(p) \/ Crash(p)
        PROVE  IsFiniteSet(Waiting)' /\ Kept
    BY <2>3, UnansweredStep
  <2> QED BY <2>1, <2>2, <2>3 DEF Next
<1> HIDE DEF CInv
<1> QED BY <1>1, <1>2, PTL DEF Spec, RowsAnswered

=============================================================================
