---------------------------- MODULE StrictProofs ----------------------------
(***************************************************************************)
(* Proofs about the ledger and its state root when no client calls         *)
(* `remember`: every row is appended by append_if_verified_head, which     *)
(* compares the keychain with the head it is about to extend.              *)
(***************************************************************************)
EXTENDS LedgerProofs, FiniteSetTheorems

StrictOnly == "remember" \notin Op

\* The commit-to-witness window, without `remember`: a row is about to be
\* committed only where the keychain holds the head of the table, and while a
\* row waits for its confirmation it is the last one, and the keychain holds
\* the head it was built on.
WindowOK ==
  /\ \A p \in Proc :
       /\ pc[p] \notin RememberPcs
       /\ pc[p] = "casCommit" => keychain = HeadOf(rows)
       /\ pc[p] = "casConfirm" => /\ Len(view[p]) + 1 = Len(rows)
                                  /\ keychain = HeadOf(view[p])
  /\ WitnessAtMostOneBehind

SInv == Inv /\ WindowOK

LEMMA InitSInv == Init => SInv
<1> SUFFICES ASSUME Init PROVE SInv
  OBVIOUS
<1>1. rows = << >> /\ keychain = Null /\ \A p \in Proc : pc[p] = "idle"
  BY DEF Init
<1>2. WindowOK
  BY <1>1 DEF WindowOK, RememberPcs, WitnessAtMostOneBehind, HeadOf
<1> QED BY <1>2, InitInv DEF SInv

\* No step leads to `remember`, and a step of p that takes it to a commit, or
\* over it, has seen the keychain.
LEMMA StrictMove ==
  ASSUME StrictOnly, Typed, NEW p \in Proc, pc[p] \notin RememberPcs,
         Arrival(p) \/ Step(p) \/ Return(p) \/ Crash(p)
  PROVE  /\ pc'[p] \notin RememberPcs
         /\ pc'[p] = "casCommit" => /\ pc[p] = "casCheck"
                                    /\ Verdict(view[p]) = "confirmed"
                                    /\ UNCHANGED <<rows, keychain>>
         /\ pc'[p] \in CommittedPcs => Commits(p)
<1> DEFINE Quits == pc'[p] \notin RememberPcs \cup CommittedPcs \cup {"casCommit"}
<1>1. SUFFICES \/ Quits
               \/ /\ pc'[p] = "casCommit" /\ pc[p] = "casCheck"
                  /\ Verdict(view[p]) = "confirmed"
                  /\ UNCHANGED <<rows, keychain>>
               \/ pc'[p] = "casConfirm" /\ Commits(p)
  BY DEF RememberPcs, CommittedPcs
<1> USE DEF Typed, TypeOK, Goto, RememberPcs, CommittedPcs
<1>2. ~ RememberStep(p)
  BY DEF RememberStep, RememberRead, RememberInsert, RememberBusy,
     RememberCommit, RememberPersist, RememberUnpersisted, RememberSkipRoot,
     Remembered, Answer, Commit
<1>3. CASE Arrival(p)
  <2>1. ~ RememberCall(p)
    BY DEF StrictOnly, RememberCall, Begin
  <2> QED BY <1>3, <2>1 DEF Arrival, CasCall, CasInvalid, SnapshotCall,
          SnapshotInvalid, VerifyCall, Begin, Answer
<1>4. CASE CasInsert(p)
  BY <1>4 DEF CasInsert
<1>5. CASE CasCommit(p)
  BY <1>5 DEF CasCommit, Commit, Commits, LockPcs, StagedPcs
<1>6. CASE CasBegin(p) \/ CasTimeout(p) \/ CasReject(p) \/ CasUnreadable(p)
             \/ CasConflict(p) \/ CasConfirm(p) \/ CasUnconfirmed(p)
  BY <1>6 DEF CasBegin, CasTimeout, CasReject, CasUnreadable, CasConflict,
     CasRollback, CasConfirm, CasUnconfirmed, Answer
<1>7. CASE SnapshotStep(p)
  BY <1>7 DEF SnapshotStep, SnapshotRead, SnapshotReject, SnapshotUnreadable,
     SnapshotConflict, SnapshotVerified, SnapshotAnswer, Answer
<1>8. CASE VerifyStep(p)
  BY <1>8 DEF VerifyStep, VerifyNotFound, VerifyEntry, VerifyLatest,
     VerifyRoot, VerifyUnreadable, VerifyAnswer, Answer
<1>9. CASE Return(p) \/ Crash(p)
  BY <1>9 DEF Return, Crash
<1> QED BY <1>2, <1>3, <1>4, <1>5, <1>6, <1>7, <1>8, <1>9 DEF Step, CasStep

LEMMA StrictStep ==
  ASSUME StrictOnly, Inv, WindowOK, NEW p \in Proc,
         Arrival(p) \/ Step(p) \/ Return(p) \/ Crash(p)
  PROVE  /\ pc'[p] \notin RememberPcs
         /\ pc'[p] = "casCommit" =>
              keychain = HeadOf(rows) /\ rows' = rows /\ keychain' = keychain
         /\ pc'[p] \in CommittedPcs => Commits(p)
<1>1. pc[p] = "casCheck" => view[p] = rows
  BY DEF Inv, TxnOK, LockPcs
<1>2. Verdict(view[p]) = "confirmed" => keychain = HeadOf(view[p])
  BY DEF Verdict, WitnessStatus
<1> QED BY <1>1, <1>2, StrictMove DEF Inv, WindowOK

\* A row that waits for its confirmation is built on the hash before the last.
LEMMA PendingRow ==
  ASSUME Inv, WindowOK, NEW p \in Proc, pc[p] \in CommittedPcs
  PROVE  /\ Len(rows) \in Nat /\ Len(rows) > 0
         /\ HeadOf(staged[p]) = HeadOf(rows)
         /\ HeadOf(view[p]) = PrevOf(rows, Len(rows))
         /\ rows[Len(rows)].entryHash = HeadOf(rows)
         /\ rows[Len(rows)].prevHash = HeadOf(view[p])
         /\ keychain = HeadOf(view[p])
<1> DEFINE n == Len(view[p]) + 1
<1>1. /\ rows \in Seq(Row) /\ view[p] \in Seq(Row)
      /\ Len(rows) \in Nat /\ Len(view[p]) \in Nat
  BY DEF Inv, Typed, TypeOK
<1>2. pc[p] = "casConfirm" /\ n = Len(rows) /\ keychain = HeadOf(view[p])
  BY DEF WindowOK, RememberPcs, CommittedPcs
<1>3. /\ Len(staged[p]) = 1 /\ staged[p][1].prevHash = HeadOf(view[p])
      /\ rows[n] = staged[p][1]
  BY DEF Inv, TxnOK, StagedPcs
<1>4. n > 0 /\ n \in 1 .. Len(rows)
  BY <1>1, <1>2
<1>5. HeadOf(rows) = rows[n].entryHash
  BY <1>2, <1>4 DEF HeadOf
<1>6. HeadOf(staged[p]) = rows[n].entryHash
  BY <1>3 DEF HeadOf
<1>7. HeadOf(view[p]) = PrevOf(rows, n)
  BY <1>3, <1>4 DEF Inv, ChainOK, Intact
<1> QED BY <1>1, <1>2, <1>3, <1>4, <1>5, <1>6, <1>7

\* While a row waits for its confirmation, the keychain is not at the head.
LEMMA PendingBehind ==
  ASSUME Inv, WindowOK, NEW p \in Proc, pc[p] \in CommittedPcs
  PROVE  keychain # HeadOf(rows)
<1> DEFINE n == Len(rows)
<1>1. /\ n \in Nat /\ n > 0 /\ keychain = PrevOf(rows, n)
      /\ HeadOf(rows) = rows[n].entryHash
  BY PendingRow
<1>2. \A i \in 1 .. n : Len(rows[i].entryHash) = i
  BY DEF Inv, ChainOK
<1>3. Len(HeadOf(rows)) = n
  BY <1>1, <1>2
<1>4. Len(PrevOf(rows, n)) = n - 1
  <2>1. CASE n = 1
    BY <2>1 DEF PrevOf, Null
  <2>2. CASE n # 1
    <3>1. PrevOf(rows, n) = rows[n - 1].entryHash
      BY <2>2, Zenon DEF PrevOf
    <3>2. n \in Nat /\ n > 0 /\ n # 1
      BY <1>1, <2>2
    <3> HIDE DEF n
    <3>3. n - 1 \in 1 .. n
      BY <3>2
    <3> QED BY <1>2, <3>1, <3>3
  <2> QED BY <2>1, <2>2
<1> QED BY <1>1, <1>3, <1>4

LEMMA WindowStep ==
  ASSUME StrictOnly, Inv, Inv', WindowOK, NEW p \in Proc,
         Arrival(p) \/ Step(p) \/ Return(p) \/ Crash(p)
  PROVE  WindowOK'
<1> DEFINE Held(q) == /\ pc[q] \notin RememberPcs
                      /\ pc[q] = "casCommit" => keychain = HeadOf(rows)
                      /\ pc[q] = "casConfirm" => /\ Len(view[q]) + 1 = Len(rows)
                                                 /\ keychain = HeadOf(view[q])
<1>1. Alone(p) /\ (Quiet(p) \/ Stages(p) \/ Acquires(p) \/ Commits(p)
                     \/ Acknowledges(p))
  BY Footprint DEF Inv
<1>2. /\ pc'[p] \notin RememberPcs
      /\ pc'[p] = "casCommit" =>
           keychain = HeadOf(rows) /\ rows' = rows /\ keychain' = keychain
      /\ pc'[p] \in CommittedPcs => Commits(p)
  BY StrictStep
<1>3. \A q \in Proc : Held(q)
  BY DEF WindowOK
<1>4. SUFFICES (\A q \in Proc : Held(q)') /\ WitnessAtMostOneBehind'
  BY DEF WindowOK, HeadOf
<1>5. CASE rows' = rows /\ keychain' = keychain
  <2>1. ASSUME NEW q \in Proc PROVE Held(q)'
    <3>1. CASE q # p
      BY <1>1, <1>3, <1>5, <3>1 DEF Alone, HeadOf
    <3>2. CASE q = p /\ ~ Commits(p)
      BY <1>2, <1>5, <3>2 DEF HeadOf, CommittedPcs
    <3>3. ~ Commits(p)
      BY <1>5, CommitFacts DEF Inv, Typed, TypeOK
    <3> QED BY <3>1, <3>2, <3>3
  <2> QED BY <1>5, <2>1 DEF WindowOK, WitnessAtMostOneBehind, HeadOf, PrevOf
<1>6. CASE Commits(p)
  <2>1. /\ view[p] = rows /\ rows \in Seq(Row) /\ Len(rows') = Len(rows) + 1
        /\ \A i \in 1 .. Len(rows) : rows'[i] = rows[i]
        /\ view'[p] = view[p] /\ keychain' = keychain /\ pc'[p] \in CommittedPcs
        /\ pc[p] \in LockPcs \cap StagedPcs /\ Len(rows) \in Nat
    BY <1>6, CommitFacts DEF Commits, Inv
  <2>2. keychain = HeadOf(rows)
    BY <1>3, <2>1 DEF LockPcs, StagedPcs, CommittedPcs, RememberPcs
  <2>3. \A q \in Proc \ {p} : pc'[q] = pc[q] /\ pc[q] \notin CommittedPcs
                              /\ pc[q] # "casCommit"
    <3>1. \A q \in Proc : pc[q] \notin CommittedPcs
      BY <2>2, PendingBehind
    <3>2. \A q \in Proc \ {p} : pc[q] # "casCommit"
      BY <2>1 DEF Inv, LockOK, LockPcs
    <3> QED BY <1>1, <3>1, <3>2 DEF Alone
  <2>4. HeadOf(rows) = PrevOf(rows', Len(rows'))
    <3>1. CASE Len(rows) = 0
      BY <2>1, <3>1 DEF HeadOf, PrevOf
    <3>2. CASE Len(rows) # 0
      BY <2>1, <3>2 DEF HeadOf, PrevOf
    <3> QED BY <3>1, <3>2
  <2>5. WitnessAtMostOneBehind'
    <3>1. Len(rows') > 0 /\ keychain' = PrevOf(rows', Len(rows'))
      BY <2>1, <2>2, <2>4
    <3> QED BY <3>1 DEF WitnessAtMostOneBehind, PrevOf
  <2>6. ASSUME NEW q \in Proc PROVE Held(q)'
    <3>1. CASE q = p
      BY <1>2, <2>1, <2>2, <3>1 DEF HeadOf, CommittedPcs
    <3>2. CASE q # p
      BY <1>3, <2>3, <3>2 DEF CommittedPcs
    <3> QED BY <3>1, <3>2
  <2> QED BY <2>5, <2>6
<1>7. CASE Acknowledges(p) /\ keychain' # keychain
  <2>1. pc[p] \in CommittedPcs /\ rows' = rows /\ keychain' = HeadOf(rows)
        /\ pc'[p] = "replied"
    BY <1>7, PendingRow DEF Acknowledges
  <2>2. \A q \in Proc \ {p} : pc'[q] = pc[q] /\ pc[q] # "casConfirm"
                              /\ pc[q] # "casCommit"
    <3>1. \A q \in Proc : pc[q] # "casCommit"
      BY <1>3, <2>1, PendingBehind
    <3>2. \A q \in Proc \ {p} : pc[q] # "casConfirm"
      <4> SUFFICES ASSUME NEW q \in Proc \ {p}, pc[q] = "casConfirm"
                   PROVE  FALSE
        OBVIOUS
      <4>1. pc[p] = "casConfirm"
        BY <1>3, <2>1 DEF CommittedPcs, RememberPcs
      <4>2. Len(view[q]) + 1 = Len(rows) /\ Len(view[p]) + 1 = Len(rows)
        BY <1>3, <4>1
      <4>3. view[p] \in Seq(Row) /\ view[q] \in Seq(Row)
        BY DEF Inv, Typed, TypeOK
      <4>4. Len(view[q]) = Len(view[p])
        BY <4>2, <4>3
      <4> QED BY <2>1, <4>4 DEF Inv, AcksOK, CommittedPcs
    <3> QED BY <1>1, <3>1, <3>2 DEF Alone
  <2>3. \A q \in Proc : Held(q)'
    BY <1>2, <1>3, <2>1, <2>2
  <2> QED BY <2>1, <2>3 DEF WitnessAtMostOneBehind, HeadOf
<1> QED BY <1>1, <1>5, <1>6, <1>7 DEF Quiet, Stages, Acquires, Acknowledges

LEMMA SInvStep ==
  ASSUME StrictOnly
  PROVE  SInv /\ [Next]_vars => SInv'
<1> SUFFICES ASSUME SInv, [Next]_vars PROVE SInv'
  OBVIOUS
<1>1. Inv'
  BY InvStep DEF SInv
<1>2. CASE UNCHANGED vars
  BY <1>1, <1>2 DEF SInv, WindowOK, WitnessAtMostOneBehind, PrevOf, HeadOf, vars
<1>3. ASSUME NEW p \in Proc, Arrival(p) \/ Step(p) \/ Return(p) \/ Crash(p)
      PROVE  SInv'
  BY <1>1, <1>3, WindowStep DEF SInv
<1> QED BY <1>2, <1>3 DEF Next

LEMMA StrictInvariance ==
  ASSUME StrictOnly
  PROVE  Spec => []SInv
BY InitSInv, SInvStep, PTL DEF Spec

-----------------------------------------------------------------------------
(* What follows *)

\* SQLite is at most one row ahead of the state root, after any crash or
\* keychain failure between a commit and its confirmation.
THEOREM AtMostOneBehind ==
  ASSUME StrictOnly
  PROVE  Spec => []WitnessAtMostOneBehind
<1>1. SInv => WitnessAtMostOneBehind
  BY DEF SInv, WindowOK
<1> QED BY <1>1, StrictInvariance, PTL

\* A step that changes the table is a commit.
LEMMA RowsChange ==
  ASSUME Inv, [Next]_vars, rows' # rows
  PROVE  \E p \in Proc : Commits(p)
<1>1. ~ UNCHANGED vars
  BY DEF vars
<1>2. PICK p \in Proc : Arrival(p) \/ Step(p) \/ Return(p) \/ Crash(p)
  BY <1>1 DEF Next
<1>3. Quiet(p) \/ Stages(p) \/ Acquires(p) \/ Commits(p) \/ Acknowledges(p)
  BY <1>2, Footprint DEF Inv
<1> QED BY <1>3 DEF Quiet, Stages, Acquires, Acknowledges

\* A step that changes the keychain is an acknowledgement.
LEMMA KeychainChanges ==
  ASSUME Inv, [Next]_vars, keychain' # keychain
  PROVE  \E p \in Proc : Acknowledges(p)
<1>1. ~ UNCHANGED vars
  BY DEF vars
<1>2. PICK p \in Proc : Arrival(p) \/ Step(p) \/ Return(p) \/ Crash(p)
  BY <1>1 DEF Next
<1>3. Quiet(p) \/ Stages(p) \/ Acquires(p) \/ Commits(p) \/ Acknowledges(p)
  BY <1>2, Footprint DEF Inv
<1> QED BY <1>3 DEF Quiet, Stages, Acquires, Commits

\* A row is committed only where the keychain confirms, at that instant, the
\* head it extends: the check made earlier in the transaction cannot go stale,
\* since no other process can be between its commit and its confirmation.
THEOREM AppendsExtendTheWitnessed ==
  ASSUME StrictOnly
  PROVE  Spec => CasExtendsWitnessed
<1>1. SInv /\ [Next]_vars => [rows' # rows => keychain = HeadOf(rows)]_vars
  <2> SUFFICES ASSUME SInv, [Next]_vars, rows' # rows
               PROVE  keychain = HeadOf(rows)
    OBVIOUS
  <2>1. PICK p \in Proc : Commits(p)
    BY RowsChange DEF SInv
  <2>2. pc[p] = "casCommit"
    BY <2>1 DEF Commits, SInv, WindowOK, LockPcs, StagedPcs, CommittedPcs,
       RememberPcs
  <2> QED BY <2>2 DEF SInv, WindowOK
<1> QED BY <1>1, StrictInvariance, PTL DEF Spec, CasExtendsWitnessed

\* The state root never goes back to an earlier head, nor to another history.
THEOREM WitnessNeverGoesBack ==
  ASSUME StrictOnly
  PROVE  Spec => WitnessNeverRegresses
<1> DEFINE Extends == \E i \in 0 .. Len(keychain') : keychain = SubSeq(keychain', 1, i)
<1>1. ASSUME SInv, [Next]_vars, Typed'
      PROVE  Extends
  <2>1. keychain \in Seq(Stamp) /\ keychain' \in Seq(Stamp)
    BY <1>1 DEF SInv, Inv, Typed, TypeOK, Hash
  <2>2. CASE keychain' = keychain
    <3>1. Len(keychain') \in 0 .. Len(keychain')
          /\ keychain = SubSeq(keychain', 1, Len(keychain'))
      BY <2>1, <2>2, SubSeqFull
    <3> QED BY <3>1
  <2>3. CASE keychain' # keychain
    <3>1. PICK p \in Proc : Acknowledges(p)
      BY <1>1, <2>3, KeychainChanges DEF SInv
    <3>2. pc[p] \in CommittedPcs /\ keychain' = HeadOf(staged[p])
      BY <2>3, <3>1 DEF Acknowledges
    <3> DEFINE row == staged[p][1]
               stamp == [contentHash |-> row.contentHash, createdAt |-> row.createdAt]
    <3>3. /\ keychain = HeadOf(view[p])
          /\ Len(staged[p]) = 1 /\ row.prevHash = HeadOf(view[p])
          /\ EntryHashValid(row)
      BY <1>1, <3>2, PendingRow DEF SInv, Inv, TxnOK, StagedPcs
    <3>4. row \in Row
      <4>1. staged[p] \in Seq(Row)
        BY <1>1 DEF SInv, Inv, Typed, TypeOK
      <4>2. Len(staged[p]) = 1
        BY <3>3
      <4> QED BY <4>1, <4>2
    <3> HIDE DEF row
    <3>5. HeadOf(staged[p]) = row.entryHash
      BY <3>3 DEF HeadOf, row
    <3>6. keychain' = Append(keychain, stamp)
      BY <3>2, <3>3, <3>5 DEF EntryHashValid, HashEntry
    <3>7. stamp \in Stamp
      BY <3>4 DEF Row, Stamp
    <3> HIDE DEF stamp
    <3>8. Len(keychain) \in 0 .. Len(keychain')
          /\ keychain = SubSeq(keychain', 1, Len(keychain))
      BY <2>1, <3>6, <3>7
    <3> QED BY <3>8
  <2> QED BY <2>2, <2>3
<1>2. SInv /\ [Next]_vars => [Extends]_vars
  BY <1>1, TypedStep DEF SInv, Inv
<1> QED BY <1>2, StrictInvariance, PTL DEF Spec, WitnessNeverRegresses

-----------------------------------------------------------------------------
(* The alarm of `verify` *)

\* A process dies only where the model lets it.
NoCrash == ~ Crashes

\* While no process dies, whoever left the state root behind the table is
\* still there: it is about to confirm, or it remembers that it failed to.  A
\* call of verify found the hashes of its entry right, and a process that has
\* not answered holds no answer.
AlarmOK ==
  /\ keychain # HeadOf(rows) =>
       \E p \in Proc : pc[p] \in CommittedPcs \/ unavailable[p]
  /\ \A p \in Proc :
       /\ pc[p] \in {"verifyLatest", "verifyRoot"} => call[p].entryValid
       /\ pc[p] # "replied" => reply[p].status = "none"

LEMMA InitAlarm == Init => AlarmOK
BY DEF Init, AlarmOK, HeadOf, NoReply

\* How stateRootUnavailable changes when no process dies.
LEMMA UnavailableStep ==
  ASSUME StrictOnly, NoCrash, Inv, WindowOK, NEW p \in Proc,
         Arrival(p) \/ Step(p) \/ Return(p) \/ Crash(p)
  PROVE  \/ pc[p] \in CommittedPcs /\ keychain' = HeadOf(staged[p])
         \/ pc[p] \in CommittedPcs /\ unavailable'[p]
         \/ pc[p] \notin CommittedPcs /\ (unavailable[p] => unavailable'[p])
<1> USE DEF Inv, Typed, TypeOK, Goto, CommittedPcs, SetUnavailable
<1>1. ~ RememberStep(p) /\ ~ Crash(p)
  BY DEF NoCrash, WindowOK, RememberPcs, RememberStep, RememberRead,
     RememberInsert, RememberBusy, RememberCommit, RememberPersist,
     RememberUnpersisted, RememberSkipRoot, Remembered, Answer, Commit, Crash
<1>2. CASE Arrival(p) \/ Return(p)
  BY <1>2 DEF Arrival, RememberCall, CasCall, CasInvalid, SnapshotCall,
     SnapshotInvalid, VerifyCall, Begin, Answer, Return
<1>3. CASE CasStep(p)
  BY <1>3 DEF CasStep, CasBegin, CasTimeout, CasReject, CasUnreadable, CasConflict,
     CasRollback, CasInsert, CasCommit, Commit, CasConfirm, CasUnconfirmed, Answer
<1>4. CASE SnapshotStep(p)
  BY <1>4 DEF SnapshotStep, SnapshotRead, SnapshotReject, SnapshotUnreadable,
     SnapshotConflict, SnapshotVerified, SnapshotAnswer, Answer
<1>5. CASE VerifyNotFound(p) \/ VerifyRoot(p) \/ VerifyUnreadable(p)
  BY <1>5 DEF VerifyNotFound, VerifyRoot, VerifyUnreadable, VerifyAnswer, Answer
<1>6. CASE VerifyEntry(p) \/ VerifyLatest(p)
  BY <1>6 DEF VerifyEntry, VerifyLatest
<1> QED BY <1>1, <1>2, <1>3, <1>4, <1>5, <1>6 DEF Step, VerifyStep

\* The parts of AlarmOK that are about p alone.
LEMMA AlarmOwnStep ==
  ASSUME Inv, AlarmOK, NEW p \in Proc,
         Arrival(p) \/ Step(p) \/ Return(p) \/ Crash(p)
  PROVE  /\ pc'[p] \in {"verifyLatest", "verifyRoot"} => call'[p].entryValid
         /\ pc'[p] # "replied" => reply'[p].status = "none"
<1> USE DEF Inv, Typed, TypeOK, Goto
<1> DEFINE Own == /\ pc'[p] \in {"verifyLatest", "verifyRoot"} => call'[p].entryValid
                  /\ pc'[p] # "replied" => reply'[p].status = "none"
<1>1. ASSUME NEW from, NEW r, Answer(p, from, r) PROVE Own
  BY <1>1 DEF Answer
<1>2. ASSUME pc[p] # "replied", reply' = reply,
             pc'[p] \notin {"verifyLatest", "verifyRoot"}
      PROVE  Own
  BY <1>2 DEF AlarmOK
<1>3. CASE Arrival(p)
  BY <1>1, <1>2, <1>3 DEF Arrival, RememberCall, CasCall, CasInvalid, SnapshotCall,
     SnapshotInvalid, VerifyCall, Begin
<1>4. CASE RememberStep(p)
  BY <1>1, <1>2, <1>4 DEF RememberStep, RememberRead, RememberInsert, RememberBusy,
     RememberCommit, RememberPersist, RememberUnpersisted, RememberSkipRoot,
     Remembered, Commit
<1>5. CASE CasStep(p)
  BY <1>1, <1>2, <1>5 DEF CasStep, CasBegin, CasTimeout, CasReject, CasUnreadable,
     CasConflict, CasRollback, CasInsert, CasCommit, Commit, CasConfirm,
     CasUnconfirmed
<1>6. CASE SnapshotStep(p)
  BY <1>1, <1>2, <1>6 DEF SnapshotStep, SnapshotRead, SnapshotReject,
     SnapshotUnreadable, SnapshotConflict, SnapshotVerified, SnapshotAnswer
<1>7. CASE VerifyNotFound(p) \/ VerifyRoot(p) \/ VerifyUnreadable(p)
  BY <1>1, <1>7 DEF VerifyNotFound, VerifyRoot, VerifyUnreadable, VerifyAnswer
<1>8. CASE VerifyEntry(p)
  <2> DEFINE row == rows[call[p].id]
             ok  == ContentValid(row) /\ EntryHashValid(row)
  <2>1. /\ pc[p] = "verifyEntry" /\ pc'[p] = "verifyLatest" /\ reply' = reply
        /\ call[p].id \in 1 .. Len(rows)
        /\ call' = [call EXCEPT ![p] = [call[p] EXCEPT !.entryValid = ok]]
    BY <1>8 DEF VerifyEntry
  <2>2. ok = TRUE
    BY <2>1 DEF ChainOK, Intact
  <2>3. call[p] \in VerifyArgs
    BY <2>1 DEF CallOK, VerifyPcs
  <2> HIDE DEF ok
  <2>4. call'[p].entryValid
    BY <2>1, <2>2, <2>3 DEF VerifyArgs
  <2> QED BY <2>1, <2>4 DEF AlarmOK
<1>9. CASE VerifyLatest(p)
  <2>1. /\ pc[p] = "verifyLatest" /\ reply' = reply
        /\ call' = [call EXCEPT ![p] = [call[p] EXCEPT !.dbRoot = HeadOf(rows)]]
    BY <1>9 DEF VerifyLatest
  <2>2. call[p] \in VerifyArgs
    BY <2>1 DEF CallOK, VerifyPcs
  <2>3. call'[p].entryValid = call[p].entryValid
    BY <2>1, <2>2 DEF VerifyArgs
  <2> QED BY <2>1, <2>3 DEF AlarmOK
<1>10. CASE Return(p) \/ Crash(p)
  <2>1. pc'[p] = "idle" /\ reply'[p] = NoReply
    BY <1>10 DEF Return, Crash
  <2>2. NoReply.status = "none"
    BY DEF NoReply
  <2> QED BY <2>1, <2>2
<1> QED BY <1>3, <1>4, <1>5, <1>6, <1>7, <1>8, <1>9, <1>10 DEF Step, VerifyStep

LEMMA AlarmStep ==
  ASSUME StrictOnly, NoCrash, Inv, WindowOK, AlarmOK, NEW p \in Proc,
         Arrival(p) \/ Step(p) \/ Return(p) \/ Crash(p)
  PROVE  AlarmOK'
<1>1. Bystanders(p)
  BY OthersStay DEF Inv
<1>2. ASSUME NEW q \in Proc
      PROVE  /\ pc'[q] \in {"verifyLatest", "verifyRoot"} => call'[q].entryValid
             /\ pc'[q] # "replied" => reply'[q].status = "none"
  BY <1>1, AlarmOwnStep DEF AlarmOK, Bystanders
<1>3. ASSUME keychain' # HeadOf(rows')
      PROVE  \E q \in Proc : pc'[q] \in CommittedPcs \/ unavailable'[q]
  <2>1. Quiet(p) \/ Stages(p) \/ Acquires(p) \/ Commits(p) \/ Acknowledges(p)
    BY Footprint DEF Inv
  <2>2. CASE Commits(p)
    BY <2>2 DEF Commits
  <2>3. CASE rows' = rows
    <3>1. CASE pc[p] \in CommittedPcs
      <4>1. keychain' # HeadOf(staged[p])
        BY <1>3, <2>3, <3>1, PendingRow
      <4> QED BY <3>1, <4>1, UnavailableStep
    <3>2. CASE pc[p] \notin CommittedPcs
      <4>1. keychain' = keychain
        BY <2>1, <3>2 DEF Quiet, Stages, Acquires, Commits, Acknowledges
      <4>2. PICK q \in Proc : pc[q] \in CommittedPcs \/ unavailable[q]
        BY <1>3, <2>3, <4>1 DEF AlarmOK
      <4>3. CASE q # p
        BY <1>1, <4>2, <4>3 DEF Bystanders
      <4>4. CASE q = p
        BY <3>2, <4>2, <4>4, UnavailableStep
      <4> QED BY <4>3, <4>4
    <3> QED BY <3>1, <3>2
  <2> QED BY <2>1, <2>2, <2>3 DEF Quiet, Stages, Acquires, Acknowledges
<1>4. HeadOf(rows)' = HeadOf(rows')
  BY DEF HeadOf
<1> QED BY <1>2, <1>3, <1>4 DEF AlarmOK

LEMMA AlarmInvariance ==
  ASSUME StrictOnly, NoCrash
  PROVE  Spec => [](SInv /\ AlarmOK)
<1>1. SInv /\ AlarmOK /\ [Next]_vars => (SInv /\ AlarmOK)'
  <2> SUFFICES ASSUME SInv, AlarmOK, [Next]_vars PROVE SInv' /\ AlarmOK'
    OBVIOUS
  <2>1. SInv'
    BY SInvStep
  <2>2. CASE UNCHANGED vars
    BY <2>1, <2>2 DEF AlarmOK, vars, HeadOf, CommittedPcs
  <2>3. ASSUME NEW p \in Proc, Arrival(p) \/ Step(p) \/ Return(p) \/ Crash(p)
        PROVE  AlarmOK'
    BY <2>3, AlarmStep DEF SInv
  <2> QED BY <2>1, <2>2, <2>3 DEF Next
<1> QED BY <1>1, InitSInv, InitAlarm, PTL DEF Spec

\* `verify` raises its alarm on an untouched file only in a window that really
\* is open: rows were appended since it read the latest one, another process
\* is between its commit and its confirmation, or another failed to confirm.
THEOREM AlarmsAreReal ==
  ASSUME StrictOnly, NoCrash
  PROVE  Spec => NoFalseAlarm
<1> DEFINE Real(p) == /\ pc[p] = "verifyRoot"
                      /\ reply'[p].status = "checked"
                      /\ ~ reply'[p].valid
                      => \/ HeadOf(rows) # call[p].dbRoot
                         \/ \E q \in Proc \ {p} :
                              pc[q] \in CommittedPcs \/ unavailable[q]
<1>1. ASSUME SInv, AlarmOK, [Next]_vars, NEW p \in Proc
      PROVE  Real(p)
  <2> SUFFICES ASSUME pc[p] = "verifyRoot", reply'[p].status = "checked",
                      ~ reply'[p].valid, HeadOf(rows) = call[p].dbRoot
               PROVE  \E q \in Proc \ {p} : pc[q] \in CommittedPcs \/ unavailable[q]
    OBVIOUS
  <2>1. reply[p].status = "none" /\ call[p].entryValid
    BY <1>1 DEF AlarmOK
  <2>2. PICK q \in Proc : Arrival(q) \/ Step(q) \/ Return(q) \/ Crash(q)
    BY <1>1, <2>1 DEF Next, vars
  <2>3. q = p
    BY <1>1, <2>1, <2>2, OthersStay DEF SInv, Inv, Bystanders
  <2>4. \/ \E root : VerifyAnswer(p, root) /\ root = RootCheck(p)
        \/ VerifyAnswer(p, "unavailable")
    <3>1. ~ Arrival(p) /\ ~ RememberStep(p) /\ ~ CasStep(p) /\ ~ SnapshotStep(p)
      BY DEF Arrival, RememberCall, CasCall, CasInvalid, SnapshotCall,
         SnapshotInvalid, VerifyCall, Begin, RememberStep, RememberRead,
         RememberInsert, RememberBusy, RememberCommit, RememberPersist,
         RememberUnpersisted, RememberSkipRoot, Remembered, CasStep, CasBegin,
         CasTimeout, CasReject, CasUnreadable, CasConflict, CasRollback, CasInsert,
         CasCommit, Commit, CasConfirm, CasUnconfirmed, SnapshotStep, SnapshotRead,
         SnapshotReject, SnapshotUnreadable, SnapshotConflict, SnapshotVerified,
         SnapshotAnswer, Answer, Goto
    <3>2. ~ Return(p) /\ ~ Crash(p)
      BY <1>1 DEF NoCrash, Return, Crash, Goto
    <3>3. ~ VerifyNotFound(p) /\ ~ VerifyEntry(p) /\ ~ VerifyLatest(p)
      BY DEF VerifyNotFound, VerifyEntry, VerifyLatest, Answer, Goto
    <3> QED BY <2>2, <2>3, <3>1, <3>2, <3>3
            DEF Step, VerifyStep, VerifyRoot, VerifyUnreadable
  <2>5. PICK root : VerifyAnswer(p, root) /\ root \in {RootCheck(p), "unavailable"}
    BY <2>4
  <2>6. root \in {"missing", "mismatch"}
    <3>1. reply \in [Proc -> Reply]
      BY <1>1 DEF SInv, Inv, Typed, TypeOK
    <3>2. reply'[p].valid = (call[p].entryValid /\ root \notin {"missing", "mismatch"})
      BY <2>5, <3>1 DEF VerifyAnswer, Answer
    <3> QED BY <2>1, <3>2
  <2>7. ~ unavailable[p] /\ keychain # call[p].dbRoot
    BY <2>5, <2>6 DEF RootCheck
  <2> QED BY <1>1, <2>7 DEF AlarmOK, CommittedPcs
<1>2. SInv /\ AlarmOK /\ [Next]_vars => [\A p \in Proc : Real(p)]_vars
  BY <1>1
<1> QED BY <1>2, AlarmInvariance, PTL DEF Spec, NoFalseAlarm

=============================================================================
