-------------------------- MODULE RefinementProofs --------------------------
(***************************************************************************)
(* Proof that the ledger implements the log of AppendLog, for any set of   *)
(* processes, contents, clock readings and operations, with crashes and    *)
(* keychain failures.                                                      *)
(***************************************************************************)
EXTENDS LedgerProofs

\* What a call insists on is settled when its transaction commits or answers:
\* a conditional append that has passed its checks is built on the head it
\* expects, and a snapshot is pinned to one head at most.
InsistOK ==
  \A p \in Proc :
    /\ pc[p] = "casCommit" => call[p].expectedHead = HeadOf(view[p])
    /\ pc[p] \in SnapshotPcs => \A a, b \in call[p].pin : a = b

IInv == Inv /\ InsistOK

-----------------------------------------------------------------------------
(* The strengthened invariant *)

LEMMA InitIInv == Init => IInv
BY InitInv DEF IInv, InsistOK, Init, SnapshotPcs

LEMMA InsistStep ==
  ASSUME Typed, InsistOK, NEW p \in Proc,
         Arrival(p) \/ Step(p) \/ Return(p) \/ Crash(p)
  PROVE  InsistOK'
<1> DEFINE Own == /\ pc'[p] = "casCommit" => call'[p].expectedHead = HeadOf(view'[p])
                  /\ pc'[p] \in SnapshotPcs => \A a, b \in call'[p].pin : a = b
<1>1. SUFFICES Own
  <2>1. ASSUME Own, NEW q \in Proc \ {p}
        PROVE  /\ pc'[q] = "casCommit" => call'[q].expectedHead = HeadOf(view'[q])
               /\ pc'[q] \in SnapshotPcs => \A a, b \in call'[q].pin : a = b
    BY <2>1, OthersStay DEF InsistOK, Bystanders
  <2> QED BY <2>1 DEF InsistOK, HeadOf
<1> USE DEF Typed, TypeOK, InsistOK, Goto, SnapshotPcs
<1>2. ASSUME pc'[p] \notin {"casCommit", "snapshotRead", "snapshotCheck"} PROVE Own
  BY <1>2
<1>3. CASE SnapshotCall(p)
  BY <1>3 DEF SnapshotCall, Begin
<1>4. CASE SnapshotRead(p)
  BY <1>4 DEF SnapshotRead
<1>5. CASE CasInsert(p)
  BY <1>5 DEF CasInsert
<1>6. CASE Arrival(p) /\ ~SnapshotCall(p)
  BY <1>2, <1>6 DEF Arrival, RememberCall, CasCall, CasInvalid, SnapshotInvalid,
     VerifyCall, Begin, Answer
<1>7. CASE RememberStep(p)
  BY <1>2, <1>7 DEF RememberStep, RememberRead, RememberInsert, RememberBusy,
     RememberCommit, RememberPersist, RememberUnpersisted, RememberSkipRoot,
     Remembered, Answer, Commit
<1>8. CASE CasStep(p) /\ ~CasInsert(p)
  BY <1>2, <1>8 DEF CasStep, CasBegin, CasTimeout, CasReject, CasUnreadable,
     CasConflict, CasRollback, CasCommit, CasConfirm, CasUnconfirmed, Answer, Commit
<1>9. CASE SnapshotStep(p) /\ ~SnapshotRead(p)
  BY <1>2, <1>9 DEF SnapshotStep, SnapshotReject, SnapshotUnreadable,
     SnapshotConflict, SnapshotVerified, SnapshotAnswer, Answer
<1>10. CASE VerifyStep(p)
  BY <1>2, <1>10 DEF VerifyStep, VerifyNotFound, VerifyEntry, VerifyLatest,
     VerifyRoot, VerifyUnreadable, VerifyAnswer, Answer
<1>11. CASE Return(p) \/ Crash(p)
  BY <1>2, <1>11 DEF Return, Crash
<1> QED BY <1>3, <1>4, <1>5, <1>6, <1>7, <1>8, <1>9, <1>10, <1>11 DEF Step

LEMMA IInvStep == IInv /\ [Next]_vars => IInv'
<1> SUFFICES ASSUME IInv, [Next]_vars PROVE IInv'
  OBVIOUS
<1>1. Inv'
  BY InvStep DEF IInv
<1>2. CASE UNCHANGED vars
  BY <1>1, <1>2 DEF IInv, InsistOK, vars, HeadOf
<1>3. ASSUME NEW p \in Proc, Arrival(p) \/ Step(p) \/ Return(p) \/ Crash(p)
      PROVE  IInv'
  BY <1>1, <1>3, InsistStep DEF IInv, Inv
<1> QED BY <1>2, <1>3 DEF Next

LEMMA Strengthened == Spec => []IInv
BY InitIInv, IInvStep, PTL DEF Spec

-----------------------------------------------------------------------------
(* The refinement mapping *)

\* What a client sees of the ledger: the values of the variable `client`.
Clients == [p \in Proc |-> ClientOf(p)]

Called(want)       == [at |-> "called", want |-> want]
Looked(want, seen) == [at |-> "looked", want |-> want, seen |-> seen]
Wrote(log)         == [at |-> "wrote", log |-> log]
Answered(says, log) == [at |-> "answered", says |-> says, log |-> log]

\* The client of a process, by where the process is.
LEMMA ClientBefore ==
  ASSUME NEW p \in Proc
  PROVE  /\ pc[p] = "idle" => ClientOf(p) = [at |-> "idle"]
         /\ pc[p] \in {"rememberRead", "rememberInsert", "rememberCommit"} \cup VerifyPcs
              => ClientOf(p) = Called({})
         /\ pc[p] = "casBegin" => ClientOf(p) = Called({call[p].expectedHead})
         /\ pc[p] = "snapshotRead" => ClientOf(p) = Called(call[p].pin)
         /\ pc[p] \in {"casCheck", "casCommit"} =>
              ClientOf(p) = Looked({call[p].expectedHead}, HeadOf(view[p]))
         /\ pc[p] = "snapshotCheck" =>
              ClientOf(p) = Looked(call[p].pin, HeadOf(view[p]))
         /\ pc[p] \in CommittedPcs => ClientOf(p) = Wrote(HeadOf(staged[p]))
BY DEF ClientOf, Called, Looked, Wrote, VerifyPcs, CommittedPcs

LEMMA ClientAfter ==
  ASSUME NEW p \in Proc
  PROVE  /\ pc'[p] = "idle" => ClientOf(p)' = [at |-> "idle"]
         /\ pc'[p] \in {"rememberRead", "rememberInsert", "rememberCommit"} \cup VerifyPcs
              => ClientOf(p)' = Called({})
         /\ pc'[p] = "casBegin" => ClientOf(p)' = Called({call'[p].expectedHead})
         /\ pc'[p] = "snapshotRead" => ClientOf(p)' = Called(call'[p].pin)
         /\ pc'[p] \in {"casCheck", "casCommit"} =>
              ClientOf(p)' = Looked({call'[p].expectedHead}, HeadOf(view'[p]))
         /\ pc'[p] = "snapshotCheck" =>
              ClientOf(p)' = Looked(call'[p].pin, HeadOf(view'[p]))
         /\ pc'[p] \in CommittedPcs => ClientOf(p)' = Wrote(HeadOf(staged'[p]))
BY DEF ClientOf, Called, Looked, Wrote, VerifyPcs, CommittedPcs, HeadOf

\* The client that has its answer, by what the answer says.
LEMMA ClientAnswered ==
  ASSUME NEW p \in Proc, pc'[p] = "replied"
  PROVE  /\ reply'[p].status = "remembered" =>
              ClientOf(p)' = Answered("wrote", reply'[p].entryHash)
         /\ reply'[p].status \in {"appended", "committed_but_witness_unconfirmed"} =>
              ClientOf(p)' = Answered("wrote", reply'[p].newHead)
         /\ reply'[p].status \in {"conflict", "snapshot_conflict"} =>
              ClientOf(p)' = Answered("conflict", reply'[p].observedHead)
         /\ reply'[p].status = "verified" =>
              ClientOf(p)' = Answered("read", reply'[p].ledgerPosition)
         /\ reply'[p].status \in {"error", "not_found", "integrity_failure", "checked"} =>
              ClientOf(p)' = Answered("refused", << >>)
BY DEF ClientOf, Answered, CommittedPcs

\* When p moves, only its client changes.
LEMMA ClientMoves ==
  ASSUME NEW p \in Proc, Bystanders(p), NEW c, ClientOf(p)' = c
  PROVE  Clients' = [Clients EXCEPT ![p] = c]
<1>1. \A q \in Proc \ {p} : ClientOf(q)' = ClientOf(q)
  BY DEF Bystanders, ClientOf, HeadOf, CommittedPcs
<1>2. Clients' = [q \in Proc |-> ClientOf(q)']
  BY DEF Clients
<1> HIDE DEF Clients
<1> DEFINE client == [q \in Proc |-> ClientOf(q)]
<1>3. Clients = client
  BY DEF Clients
<1>4. \A q \in Proc : client[q] = ClientOf(q)
  OBVIOUS
<1>5. [q \in Proc |-> ClientOf(q)'] = [client EXCEPT ![p] = c]
  BY <1>1, <1>4
<1> QED BY <1>2, <1>3, <1>5

\* The refinement mapping, with the client of one process.
LEMMA ClientNow ==
  ASSUME NEW p \in Proc
  PROVE  Clients[p] = ClientOf(p)
BY DEF Clients

-----------------------------------------------------------------------------
(* The actions of AppendLog, by what they do to the client of p *)

LEMMA MapsToStart ==
  ASSUME NEW p \in Proc, Bystanders(p), HeadOf(rows)' = HeadOf(rows),
         NEW want \in SUBSET Hash,
         ClientOf(p) = [at |-> "idle"], ClientOf(p)' = Called(want)
  PROVE  Promise!Start(p)
<1>1. Clients' = [Clients EXCEPT ![p] = Called(want)]
  BY ClientMoves
<1>2. Clients[p] = [at |-> "idle"] /\ Clients'[p] = Called(want)
  BY <1>1 DEF Clients
<1>3. Clients'[p].at = "called" /\ Clients'[p].want = want
  BY <1>2 DEF Called
<1> QED BY <1>1, <1>2, <1>3
     DEF Promise!Start, Promise!Become, Promise!Idle, Promise!Called, Promise!Log,
         Called, Clients, Hash

LEMMA MapsToLook ==
  ASSUME NEW p \in Proc, Bystanders(p), HeadOf(rows)' = HeadOf(rows), NEW want,
         ClientOf(p) = Called(want), ClientOf(p)' = Looked(want, HeadOf(rows))
  PROVE  Promise!Look(p)
BY ClientMoves, ClientNow
DEF Promise!Look, Promise!Become, Promise!Looked, Called, Looked, Clients

LEMMA MapsToWrite ==
  ASSUME NEW p \in Proc, Bystanders(p), NEW stamp \in Stamp,
         HeadOf(rows)' = Append(HeadOf(rows), stamp), NEW want, NEW seen,
         ClientOf(p) \in {Called(want), Looked(want, seen)},
         want \subseteq {HeadOf(rows)}, ClientOf(p)' = Wrote(HeadOf(rows)')
  PROVE  Promise!Write(p)
<1>1. Clients' = [Clients EXCEPT ![p] = Wrote(HeadOf(rows)')]
  BY ClientMoves
<1>2. Clients[p].at \in {"called", "looked"} /\ Clients[p].want = want
  <2>1. CASE ClientOf(p) = Called(want)
    BY <2>1, ClientNow DEF Called
  <2>2. CASE ClientOf(p) = Looked(want, seen)
    BY <2>2, ClientNow DEF Looked
  <2> QED BY <2>1, <2>2
<1> QED BY <1>1, <1>2
     DEF Promise!Write, Promise!Become, Promise!Wrote, Wrote, Clients

LEMMA MapsToAnswerWrite ==
  ASSUME NEW p \in Proc, Bystanders(p), HeadOf(rows)' = HeadOf(rows), NEW log,
         ClientOf(p) = Wrote(log), ClientOf(p)' = Answered("wrote", log)
  PROVE  Promise!AnswerWrite(p)
BY ClientMoves, ClientNow
DEF Promise!AnswerWrite, Promise!Become, Promise!Answered, Wrote, Answered, Clients

LEMMA MapsToAnswerRead ==
  ASSUME NEW p \in Proc, Bystanders(p), HeadOf(rows)' = HeadOf(rows), NEW want,
         NEW seen, want \subseteq {seen},
         ClientOf(p) = Looked(want, seen), ClientOf(p)' = Answered("read", seen)
  PROVE  Promise!AnswerRead(p)
BY ClientMoves, ClientNow
DEF Promise!AnswerRead, Promise!Become, Promise!Answered, Looked, Answered, Clients

LEMMA MapsToAnswerConflict ==
  ASSUME NEW p \in Proc, Bystanders(p), HeadOf(rows)' = HeadOf(rows), NEW want,
         NEW seen, want # {}, seen \notin want,
         ClientOf(p) = Looked(want, seen), ClientOf(p)' = Answered("conflict", seen)
  PROVE  Promise!AnswerConflict(p)
BY ClientMoves, ClientNow
DEF Promise!AnswerConflict, Promise!Become, Promise!Answered, Looked, Answered,
    Clients

LEMMA MapsToRefuse ==
  ASSUME NEW p \in Proc, Bystanders(p), HeadOf(rows)' = HeadOf(rows), NEW want,
         NEW seen,
         ClientOf(p) \in {[at |-> "idle"], Called(want), Looked(want, seen)},
         ClientOf(p)' = Answered("refused", << >>)
  PROVE  Promise!Refuse(p)
BY ClientMoves, ClientNow
DEF Promise!Refuse, Promise!Become, Promise!Answered, Called, Looked, Answered,
    Clients

LEMMA MapsToFinish ==
  ASSUME NEW p \in Proc, Bystanders(p), HeadOf(rows)' = HeadOf(rows),
         ClientOf(p)' = [at |-> "idle"]
  PROVE  Promise!Finish(p)
BY ClientMoves DEF Promise!Finish, Promise!Become, Promise!Idle, Clients

\* A step that its client does not see.
MapsToNothing == HeadOf(rows)' = HeadOf(rows) /\ Clients' = Clients

LEMMA Unseen ==
  ASSUME NEW p \in Proc, Bystanders(p), HeadOf(rows)' = HeadOf(rows),
         ClientOf(p)' = ClientOf(p)
  PROVE  MapsToNothing
<1>1. Clients' = [Clients EXCEPT ![p] = ClientOf(p)]
  BY ClientMoves
<1> QED BY <1>1 DEF MapsToNothing, Clients

-----------------------------------------------------------------------------
(* What the steps of the ledger do to the log *)

\* A commit puts one stamp on top of the log, and the row's hash is the log.
LEMMA CommitAppends ==
  ASSUME Inv, NEW p \in Proc, Commits(p)
  PROVE  /\ HeadOf(staged[p]) = HeadOf(rows)'
         /\ \E stamp \in Stamp : HeadOf(rows)' = Append(HeadOf(rows), stamp)
<1> DEFINE row == staged[p][1]
<1>1. /\ row \in Row /\ Len(staged[p]) = 1 /\ rows \in Seq(Row)
      /\ row.prevHash = HeadOf(rows) /\ EntryHashValid(row)
      /\ rows' \in Seq(Row) /\ Len(rows') = Len(rows) + 1
      /\ rows'[Len(rows) + 1] = row
  BY CommitFacts DEF Inv, Typed, TypeOK
<1> HIDE DEF row
<1>2. HeadOf(rows') = row.entryHash
  BY <1>1 DEF HeadOf
<1>3. HeadOf(staged[p]) = row.entryHash
  BY <1>1 DEF HeadOf, row
<1>4. HeadOf(rows)' = HeadOf(rows')
  BY DEF HeadOf
<1>5. [contentHash |-> row.contentHash, createdAt |-> row.createdAt] \in Stamp
  BY <1>1 DEF Row, Stamp
<1>6. row.entryHash
        = Append(HeadOf(rows),
                 [contentHash |-> row.contentHash, createdAt |-> row.createdAt])
  BY <1>1 DEF EntryHashValid, HashEntry
<1> QED BY <1>2, <1>3, <1>4, <1>5, <1>6

-----------------------------------------------------------------------------
(* Every step of the ledger is a step of AppendLog, or none *)

Refines == Promise!Next \/ MapsToNothing

LEMMA SameLog ==
  ASSUME rows' = rows
  PROVE  HeadOf(rows)' = HeadOf(rows)
BY DEF HeadOf

\* An answer that reports nothing of the log, to a call that has not written.
LEMMA RefusalRefines ==
  ASSUME Typed, NEW p \in Proc, Bystanders(p), rows' = rows, NEW from, NEW r,
         Answer(p, from, r),
         from \in {"idle", "rememberInsert", "casBegin", "casCheck", "snapshotCheck"}
                    \cup VerifyPcs,
         r.status \in {"error", "not_found", "integrity_failure", "checked"}
  PROVE  Refines
<1>1. pc[p] = from /\ pc'[p] = "replied" /\ reply'[p] = r
  BY DEF Answer, Goto, Typed, TypeOK
<1>2. ClientOf(p)' = Answered("refused", << >>)
  BY <1>1, ClientAnswered
<1>3. \E want, seen :
        ClientOf(p) \in {[at |-> "idle"], Called(want), Looked(want, seen)}
  BY <1>1, ClientBefore
<1> QED BY <1>2, <1>3, SameLog, MapsToRefuse DEF Refines, Promise!Next

LEMMA ArrivalRefines ==
  ASSUME IInv, NEW p \in Proc, Bystanders(p), Arrival(p)
  PROVE  Refines
<1> USE DEF IInv, Inv
<1>1. ASSUME NEW c, NEW to, Begin(p, c, to)
      PROVE  /\ pc[p] = "idle" /\ pc'[p] = to /\ call'[p] = c
             /\ HeadOf(rows)' = HeadOf(rows)
             /\ ClientOf(p) = [at |-> "idle"]
  BY <1>1, SameLog, ClientBefore DEF Begin, Goto, Typed, TypeOK
<1>2. ASSUME NEW want \in SUBSET Hash, ClientOf(p)' = Called(want),
             HeadOf(rows)' = HeadOf(rows), ClientOf(p) = [at |-> "idle"]
      PROVE  Refines
  BY <1>2, MapsToStart DEF Refines, Promise!Next
<1>3. CASE RememberCall(p)
  <2>1. PICK c : Begin(p, c, "rememberRead")
    BY <1>3 DEF RememberCall
  <2>2. ClientOf(p)' = Called({})
    BY <1>1, <2>1, ClientAfter
  <2> QED BY <1>1, <1>2, <2>1, <2>2
<1>4. CASE CasCall(p)
  <2>1. PICK content \in Content, head \in KnownHeads :
          Begin(p, [op |-> "cas", content |-> content, expectedHead |-> head],
                "casBegin")
    BY <1>4 DEF CasCall
  <2>2. ClientOf(p)' = Called({head})
    BY <1>1, <2>1, ClientAfter
  <2>3. {head} \in SUBSET Hash
    BY KnownHeadsTyped
  <2> QED BY <1>1, <1>2, <2>1, <2>2, <2>3
<1>5. CASE SnapshotCall(p)
  <2>1. PICK pin \in {{}} \cup {{head} : head \in KnownHeads} :
          Begin(p, [op |-> "snapshot", pin |-> pin], "snapshotRead")
    BY <1>5 DEF SnapshotCall
  <2>2. ClientOf(p)' = Called(pin)
    <3>1. pc'[p] = "snapshotRead" /\ call'[p] = [op |-> "snapshot", pin |-> pin]
      BY <1>1, <2>1
    <3>2. call'[p].pin = pin
      BY <3>1
    <3> QED BY <3>1, <3>2, ClientAfter
  <2>3. pin \in SUBSET Hash
    BY KnownHeadsTyped
  <2> QED BY <1>1, <1>2, <2>1, <2>2, <2>3
<1>6. CASE VerifyCall(p)
  <2>1. PICK c : Begin(p, c, "verifyEntry")
    BY <1>6 DEF VerifyCall
  <2>2. ClientOf(p)' = Called({})
    BY <1>1, <2>1, ClientAfter DEF VerifyPcs
  <2> QED BY <1>1, <1>2, <2>1, <2>2
<1>7. CASE CasInvalid(p) \/ SnapshotInvalid(p)
  <2>1. PICK why : Answer(p, "idle", Failure(why)) /\ rows' = rows
    BY <1>7 DEF CasInvalid, SnapshotInvalid
  <2> QED BY <2>1, RefusalRefines DEF Failure
<1> QED BY <1>3, <1>4, <1>5, <1>6, <1>7 DEF Arrival

LEMMA CommitRefines ==
  ASSUME IInv, NEW p \in Proc, Bystanders(p),
         RememberCommit(p) \/ CasCommit(p)
  PROVE  Refines
<1>1. Typed
  BY DEF IInv, Inv
<1>2. /\ Commits(p)
      /\ staged' = staged
  BY <1>1 DEF Commits, RememberCommit, CasCommit, Commit, Goto, Typed, TypeOK,
     LockPcs, StagedPcs, CommittedPcs
<1>3. PICK stamp \in Stamp : HeadOf(rows)' = Append(HeadOf(rows), stamp)
  BY <1>2, CommitAppends DEF IInv
<1>4. ClientOf(p)' = Wrote(HeadOf(rows)')
  <2>1. pc'[p] \in CommittedPcs
    BY <1>2 DEF Commits
  <2>2. HeadOf(staged'[p]) = HeadOf(rows)'
    BY <1>2, CommitAppends DEF IInv
  <2> QED BY <2>1, <2>2, ClientAfter
<1>5. CASE RememberCommit(p)
  <2>1. ClientOf(p) = Called({})
    BY <1>5, ClientBefore DEF RememberCommit, Commit, Goto
  <2> QED BY <1>3, <1>4, <2>1, MapsToWrite DEF Refines, Promise!Next
<1>6. CASE CasCommit(p)
  <2>1. pc[p] = "casCommit"
    BY <1>6 DEF CasCommit, Commit, Goto
  <2>2. ClientOf(p) = Looked({call[p].expectedHead}, HeadOf(view[p]))
    BY <2>1, ClientBefore
  <2>3. view[p] = rows /\ call[p].expectedHead = HeadOf(view[p])
    BY <1>2, <2>1, CommitFacts DEF IInv, Inv, InsistOK
  <2>4. {call[p].expectedHead} \subseteq {HeadOf(rows)}
    BY <2>3
  <2> QED BY <1>3, <1>4, <2>2, <2>4, MapsToWrite DEF Refines, Promise!Next
<1> QED BY <1>5, <1>6

\* The three answers that report a write.
LEMMA AcknowledgeRefines ==
  ASSUME Typed, NEW p \in Proc, Bystanders(p), rows' = rows,
         pc[p] \in CommittedPcs, pc'[p] = "replied",
         \/ /\ reply'[p].status = "remembered"
            /\ reply'[p].entryHash = HeadOf(staged[p])
         \/ /\ reply'[p].status \in {"appended", "committed_but_witness_unconfirmed"}
            /\ reply'[p].newHead = HeadOf(staged[p])
  PROVE  Refines
<1>1. ClientOf(p) = Wrote(HeadOf(staged[p]))
  BY ClientBefore
<1>2. ClientOf(p)' = Answered("wrote", HeadOf(staged[p]))
  BY ClientAnswered
<1> QED BY <1>1, <1>2, SameLog, MapsToAnswerWrite DEF Refines, Promise!Next

LEMMA RememberRefines ==
  ASSUME IInv, NEW p \in Proc, Bystanders(p), RememberStep(p)
  PROVE  Refines
<1>0. Typed
  BY DEF IInv, Inv
<1>1. CASE RememberRead(p) \/ RememberInsert(p)
  <2>1. /\ pc[p] \in {"rememberRead", "rememberInsert"}
        /\ pc'[p] \in {"rememberInsert", "rememberCommit"}
        /\ rows' = rows
    BY <1>0, <1>1 DEF RememberRead, RememberInsert, Goto, Typed, TypeOK
  <2>2. ClientOf(p) = Called({}) /\ ClientOf(p)' = Called({})
    BY <2>1, ClientBefore, ClientAfter
  <2> QED BY <2>1, <2>2, SameLog, Unseen DEF Refines
<1>2. CASE RememberBusy(p)
  BY <1>0, <1>2, RefusalRefines DEF RememberBusy
<1>3. CASE RememberCommit(p)
  BY <1>3, CommitRefines
<1>4. ASSUME Remembered(p)
      PROVE  Refines
  BY <1>0, <1>4, AcknowledgeRefines DEF Remembered, Answer, Goto, Typed, TypeOK,
     CommittedPcs
<1> QED
  BY <1>1, <1>2, <1>3, <1>4
  DEF RememberStep, RememberPersist, RememberUnpersisted, RememberSkipRoot

LEMMA CasRefines ==
  ASSUME IInv, NEW p \in Proc, Bystanders(p), CasStep(p)
  PROVE  Refines
<1>0. Typed
  BY DEF IInv, Inv
<1>1. CASE CasBegin(p)
  <2>1. /\ pc[p] = "casBegin" /\ pc'[p] = "casCheck" /\ rows' = rows
        /\ call'[p] = call[p] /\ view'[p] = rows
    BY <1>0, <1>1 DEF CasBegin, Goto, Typed, TypeOK
  <2>2. /\ ClientOf(p) = Called({call[p].expectedHead})
        /\ ClientOf(p)' = Looked({call[p].expectedHead}, HeadOf(rows))
    BY <2>1, ClientBefore, ClientAfter
  <2> QED BY <2>1, <2>2, SameLog, MapsToLook DEF Refines, Promise!Next
<1>2. CASE CasTimeout(p)
  BY <1>0, <1>2, RefusalRefines DEF CasTimeout
<1>3. CASE CasReject(p) \/ CasUnreadable(p)
  <2>1. PICK why : Answer(p, "casCheck", Failure(why)) /\ rows' = rows
    BY <1>3 DEF CasReject, CasUnreadable, CasRollback
  <2> QED BY <1>0, <2>1, RefusalRefines DEF Failure
<1>4. CASE CasConflict(p)
  <2> DEFINE seen == HeadOf(view[p])
             want == {call[p].expectedHead}
  <2>1. /\ pc[p] = "casCheck" /\ pc'[p] = "replied" /\ rows' = rows
        /\ reply'[p].status = "conflict" /\ reply'[p].observedHead = seen
    BY <1>0, <1>4 DEF CasConflict, CasRollback, Answer, Goto, Typed, TypeOK
  <2>2. want # {} /\ seen \notin want
    BY <1>4 DEF CasConflict
  <2>3. ClientOf(p) = Looked(want, seen)
    BY <2>1, ClientBefore
  <2>4. ClientOf(p)' = Answered("conflict", seen)
    BY <2>1, ClientAnswered
  <2> QED BY <2>1, <2>2, <2>3, <2>4, SameLog, MapsToAnswerConflict
          DEF Refines, Promise!Next
<1>5. CASE CasInsert(p)
  <2>1. /\ pc[p] = "casCheck" /\ pc'[p] = "casCommit" /\ rows' = rows
        /\ call'[p] = call[p] /\ view'[p] = view[p]
    BY <1>0, <1>5 DEF CasInsert, Goto, Typed, TypeOK
  <2>2. ClientOf(p)' = ClientOf(p)
    BY <2>1, ClientBefore, ClientAfter
  <2> QED BY <2>1, <2>2, SameLog, Unseen DEF Refines
<1>6. CASE CasCommit(p)
  BY <1>6, CommitRefines
<1>7. CASE CasConfirm(p) \/ CasUnconfirmed(p)
  <2>1. /\ pc[p] \in CommittedPcs /\ pc'[p] = "replied" /\ rows' = rows
    BY <1>0, <1>7 DEF CasConfirm, CasUnconfirmed, Answer, Goto, CommittedPcs,
       Typed, TypeOK
  <2>2. PICK r : /\ Answer(p, "casConfirm", r)
                 /\ r.status \in {"appended", "committed_but_witness_unconfirmed"}
                 /\ r.newHead = AckOf(p).newHead
    <3>1. CASE CasConfirm(p)
      BY <3>1 DEF CasConfirm
    <3>2. CASE CasUnconfirmed(p)
      BY <3>2 DEF CasUnconfirmed
    <3> QED BY <1>7, <3>1, <3>2
  <2>3. reply'[p] = r
    BY <1>0, <2>2 DEF Answer, Typed, TypeOK
  <2>4. AckOf(p).newHead = HeadOf(staged[p])
    BY DEF AckOf
  <2> QED BY <1>0, <2>1, <2>2, <2>3, <2>4, AcknowledgeRefines
<1> QED BY <1>1, <1>2, <1>3, <1>4, <1>5, <1>6, <1>7 DEF CasStep

LEMMA SnapshotRefines ==
  ASSUME IInv, NEW p \in Proc, Bystanders(p), SnapshotStep(p)
  PROVE  Refines
<1>0. Typed
  BY DEF IInv, Inv
<1>1. CASE SnapshotRead(p)
  <2>1. /\ pc[p] = "snapshotRead" /\ pc'[p] = "snapshotCheck" /\ rows' = rows
        /\ call'[p] = call[p] /\ view'[p] = rows
    BY <1>0, <1>1 DEF SnapshotRead, Goto, Typed, TypeOK
  <2>2. /\ ClientOf(p) = Called(call[p].pin)
        /\ ClientOf(p)' = Looked(call[p].pin, HeadOf(rows))
    BY <2>1, ClientBefore, ClientAfter
  <2> QED BY <2>1, <2>2, SameLog, MapsToLook DEF Refines, Promise!Next
<1>2. CASE SnapshotReject(p) \/ SnapshotUnreadable(p)
  <2>1. PICK why : Answer(p, "snapshotCheck", Failure(why)) /\ rows' = rows
    BY <1>2 DEF SnapshotReject, SnapshotUnreadable, SnapshotAnswer
  <2> QED BY <1>0, <2>1, RefusalRefines DEF Failure
<1> DEFINE seen == HeadOf(view[p])
           want == call[p].pin
<1>3. CASE SnapshotConflict(p)
  <2>1. PICK head \in want :
          /\ head # seen
          /\ SnapshotAnswer(p, [status |-> "snapshot_conflict", pinned |-> head,
                                observedHead |-> seen])
    BY <1>3 DEF SnapshotConflict
  <2>2. /\ pc[p] = "snapshotCheck" /\ pc'[p] = "replied" /\ rows' = rows
        /\ reply'[p].status = "snapshot_conflict" /\ reply'[p].observedHead = seen
    BY <1>0, <2>1 DEF SnapshotAnswer, Answer, Goto, Typed, TypeOK
  <2>3. want # {} /\ seen \notin want
    BY <2>1, <2>2 DEF IInv, InsistOK, SnapshotPcs
  <2>4. ClientOf(p) = Looked(want, seen)
    BY <2>2, ClientBefore
  <2>5. ClientOf(p)' = Answered("conflict", seen)
    BY <2>2, ClientAnswered
  <2> QED BY <2>2, <2>3, <2>4, <2>5, SameLog, MapsToAnswerConflict
          DEF Refines, Promise!Next
<1>4. CASE SnapshotVerified(p)
  <2>1. /\ pc[p] = "snapshotCheck" /\ pc'[p] = "replied" /\ rows' = rows
        /\ reply'[p].status = "verified" /\ reply'[p].ledgerPosition = seen
    BY <1>0, <1>4 DEF SnapshotVerified, SnapshotAnswer, Answer, Goto, Typed, TypeOK
  <2>2. want \subseteq {seen}
    BY <1>4 DEF SnapshotVerified
  <2>3. ClientOf(p) = Looked(want, seen)
    BY <2>1, ClientBefore
  <2>4. ClientOf(p)' = Answered("read", seen)
    BY <2>1, ClientAnswered
  <2> QED BY <2>1, <2>2, <2>3, <2>4, SameLog, MapsToAnswerRead
          DEF Refines, Promise!Next
<1> QED BY <1>1, <1>2, <1>3, <1>4 DEF SnapshotStep

LEMMA VerifyRefines ==
  ASSUME IInv, NEW p \in Proc, Bystanders(p), VerifyStep(p)
  PROVE  Refines
<1>0. Typed
  BY DEF IInv, Inv
<1>1. CASE VerifyEntry(p) \/ VerifyLatest(p)
  <2>1. pc[p] \in VerifyPcs /\ pc'[p] \in VerifyPcs /\ rows' = rows
    BY <1>0, <1>1 DEF VerifyEntry, VerifyLatest, Goto, VerifyPcs, Typed, TypeOK
  <2>2. ClientOf(p) = Called({}) /\ ClientOf(p)' = Called({})
    BY <2>1, ClientBefore, ClientAfter
  <2> QED BY <2>1, <2>2, SameLog, Unseen DEF Refines
<1>2. CASE VerifyNotFound(p)
  BY <1>0, <1>2, RefusalRefines DEF VerifyNotFound, VerifyPcs
<1>3. CASE VerifyRoot(p) \/ VerifyUnreadable(p)
  <2>1. PICK r : r.status = "checked" /\ Answer(p, "verifyRoot", r) /\ rows' = rows
    BY <1>3 DEF VerifyRoot, VerifyUnreadable, VerifyAnswer
  <2> QED BY <1>0, <2>1, RefusalRefines DEF VerifyPcs
<1> QED BY <1>1, <1>2, <1>3 DEF VerifyStep

LEMMA LifeRefines ==
  ASSUME IInv, NEW p \in Proc, Bystanders(p), Return(p) \/ Crash(p)
  PROVE  Refines
<1>1. pc'[p] = "idle" /\ rows' = rows
  BY DEF Return, Crash, Goto, IInv, Inv, Typed, TypeOK
<1>2. ClientOf(p)' = [at |-> "idle"]
  BY <1>1, ClientAfter
<1> QED BY <1>1, <1>2, SameLog, MapsToFinish DEF Refines, Promise!Next

-----------------------------------------------------------------------------

LEMMA InitRefines == Init => Promise!Init
<1> SUFFICES ASSUME Init PROVE Promise!Init
  OBVIOUS
<1>1. HeadOf(rows) = << >>
  BY DEF Init, HeadOf, Null
<1>2. \A p \in Proc : ClientOf(p) = [at |-> "idle"]
  BY ClientBefore DEF Init
<1> QED BY <1>1, <1>2 DEF Promise!Init, Promise!Idle

LEMMA StepRefines == IInv /\ [Next]_vars => Refines
<1> SUFFICES ASSUME IInv, [Next]_vars PROVE Refines
  OBVIOUS
<1>1. CASE UNCHANGED vars
  <2>1. rows' = rows /\ pc' = pc /\ call' = call /\ view' = view
        /\ staged' = staged /\ reply' = reply
    BY <1>1 DEF vars
  <2>2. \A p \in Proc : ClientOf(p)' = ClientOf(p)
    BY <2>1 DEF ClientOf, HeadOf, CommittedPcs
  <2> QED BY <2>1, <2>2, SameLog DEF Refines, MapsToNothing, Clients
<1>2. ASSUME NEW p \in Proc, Arrival(p) \/ Step(p) \/ Return(p) \/ Crash(p)
      PROVE  Refines
  <2>1. Bystanders(p)
    BY <1>2, OthersStay DEF IInv, Inv
  <2> QED BY <1>2, <2>1, ArrivalRefines, RememberRefines, CasRefines,
          SnapshotRefines, VerifyRefines, LifeRefines DEF Step
<1> QED BY <1>1, <1>2 DEF Next

\* The ledger implements the log of AppendLog: every call takes effect at most
\* once, at one instant between its start and its answer, on top of the head
\* it insists on, and what it is told is true of that instant (db.ts:163-171).
THEOREM LedgerImplementsAppendLog == Spec => ImplementsAppendLog
<1>1. IInv /\ [Next]_vars => [Promise!Next]_<<HeadOf(rows), Clients>>
  BY StepRefines DEF Refines, MapsToNothing
<1>2. IInv /\ [Next]_vars
        => [Promise!Next]_<<HeadOf(rows), [p \in Proc |-> ClientOf(p)]>>
  BY <1>1 DEF Clients
<1> QED
  BY <1>2, InitRefines, Strengthened, PTL DEF Spec, ImplementsAppendLog, Promise!Spec

=============================================================================
