------------------------- MODULE LedgerProperties -------------------------
(* What the ledger of src/db.ts guarantees, over the module Ledger. *)
EXTENDS Ledger

\* Every variable of the ledger has its type.
TypeOK ==
  /\ rows \in Seq(Row)
  /\ lock \in Proc \cup {None}
  /\ keychain \in Hash
  /\ unavailable \in [Proc -> BOOLEAN]
  /\ pc \in [Proc -> Pcs]
  /\ call \in [Proc -> Call]
  /\ view \in [Proc -> Seq(Row)]
  /\ staged \in [Proc -> Seq(Row)]
  /\ reply \in [Proc -> Reply]
  /\ acks \in Seq(Ack)

\* The committed rows always pass verifyChainStructurally: no interleaving of
\* the unlocked reads of `remember` with other writers forks the chain.
ChainIntact == Intact(rows)

\* No two appends that were answered as committed, by either write path, have
\* the same previous head (db.ts:163-165).
CasExclusive ==
  \A i, j \in 1 .. Len(acks) :
    acks[i].previousHead = acks[j].previousHead => i = j

\* What an append was told stays true: its row is at the sequence it was
\* given, on top of the previous head it was given.
AnswersStand ==
  \A i \in 1 .. Len(acks) :
    LET n == acks[i].sequence + 1
    IN  /\ n \in 1 .. Len(rows)
        /\ rows[n].entryHash = acks[i].newHead
        /\ rows[n].prevHash = acks[i].previousHead

\* Committed rows that no answer has reported, nor can: `committed: false`,
\* `integrity_failure` and tool errors have written nothing.
Unanswered ==
  Len(rows) - Len(acks) - Cardinality({p \in Proc : pc[p] \in CommittedPcs})

\* Only the death of a process between its commit and its answer leaves a row
\* unreported, that one row, and no row is ever reported to two calls: an error
\* of the keychain after the commit is not folded into a failure of the append
\* (db.ts:166-171), and a refused upgrade leaves nothing behind.
RowsAnswered ==
  /\ Unanswered = 0
  /\ [][\/ Unanswered' = Unanswered
        \/ /\ Unanswered' = Unanswered + 1
           /\ \E p \in Proc : /\ pc[p] \in CommittedPcs
                              /\ pc'[p] = "idle"
                              /\ acks' = acks]_vars

\* The state root is absent or the hash of a committed row, never that of a
\* row that was rolled back.
WitnessInChain ==
  keychain \in {Null} \cup {rows[i].entryHash : i \in 1 .. Len(rows)}

-----------------------------------------------------------------------------
(* With clients that append by append_if_verified_head alone *)

\* A row is committed only on top of a head that the keychain confirms at that
\* instant: the check made earlier in the transaction cannot go stale.
CasExtendsWitnessed == [][rows' # rows => keychain = HeadOf(rows)]_vars

\* SQLite is at most one row ahead of the state root: after a crash or a
\* keychain failure between commit and confirmation the ledger fails closed.
WitnessAtMostOneBehind ==
  \/ keychain = HeadOf(rows)
  \/ Len(rows) > 0 /\ keychain = PrevOf(rows, Len(rows))

\* The state root never goes back to an earlier head.
WitnessNeverRegresses ==
  [][\E i \in 0 .. Len(keychain') : keychain = SubSeq(keychain', 1, i)]_vars

\* The commit-to-witness window closes (db.ts:160-161), or a process that failed
\* to close one knows, so that its `verify` says "unavailable".  Meanwhile the
\* strict operations of every process refuse, since the keychain does not hold
\* the head.
WindowCloses ==
  keychain # HeadOf(rows) ~>
    \/ keychain = HeadOf(rows)
    \/ \E p \in Proc : unavailable[p]

\* Every call is answered: no call waits for a lock or a process for ever.
CallsAnswered ==
  \A p \in Proc : pc[p] \notin IdlePcs ~> pc[p] \in IdlePcs

-----------------------------------------------------------------------------

\* `verify` reports a missing or a mismatched state root for a file that
\* nobody has edited only where the ledger really is between two states: rows
\* were appended since it read the latest row, another process is between its
\* commit and its confirmation, or another process failed to confirm.  Its own
\* failure a process remembers (stateRootUnavailable): it says "unavailable",
\* which is not an alarm.
NoFalseAlarm ==
  [][\A p \in Proc :
       /\ pc[p] = "verifyRoot"
       /\ reply'[p].status = "checked"
       /\ ~ reply'[p].valid
       => \/ HeadOf(rows) # call[p].dbRoot
          \/ \E q \in Proc \ {p} : pc[q] \in CommittedPcs \/ unavailable[q]]_vars

\* db.ts:160-162: "Once the winner's witness write completes, the window is
\* closed for that append: SQLite and the witness agree again".  With no crash
\* and no keychain failure, once an append is answered "appended" and no other
\* is between its commit and its answer, file and keychain agree.
WindowClosed ==
  /\ \E p \in Proc : reply[p].status = "appended"
  /\ \A p \in Proc : pc[p] \notin CommittedPcs
  => keychain = HeadOf(rows)

-----------------------------------------------------------------------------
(* The ledger implements the log of AppendLog *)

ClientOf(p) ==
  LET c == call[p]
      r == reply[p]
      insists == IF pc[p] \in {"casBegin", "casCheck", "casCommit"}
                   THEN {c.expectedHead}
                 ELSE IF pc[p] \in {"snapshotRead", "snapshotCheck"}
                   THEN c.pin
                 ELSE {}
      Called(want)       == [at |-> "called", want |-> want]
      Looked(want, seen) == [at |-> "looked", want |-> want, seen |-> seen]
      Answered(says, l)  == [at |-> "answered", says |-> says, log |-> l]
  IN  CASE pc[p] = "idle" -> [at |-> "idle"]
        [] pc[p] \in {"casCheck", "casCommit", "snapshotCheck"} ->
             Looked(insists, HeadOf(view[p]))
        [] pc[p] \in CommittedPcs -> [at |-> "wrote", log |-> HeadOf(staged[p])]
        [] pc[p] = "replied" ->
             CASE r.status = "remembered" -> Answered("wrote", r.entryHash)
               [] r.status \in {"appended", "committed_but_witness_unconfirmed"} ->
                    Answered("wrote", r.newHead)
               [] r.status \in {"conflict", "snapshot_conflict"} ->
                    Answered("conflict", r.observedHead)
               [] r.status = "verified" -> Answered("read", r.ledgerPosition)
               [] OTHER -> Answered("refused", << >>)
        [] OTHER -> Called(insists)

\* An entry hash commits to the whole history, so the head is the log.
Promise == INSTANCE AppendLog
  WITH log <- HeadOf(rows), client <- [p \in Proc |-> ClientOf(p)]

\* The ledger implements AppendLog: answers are true and appends take effect
\* once, at one instant, on top of the head the client insisted on.
ImplementsAppendLog == Promise!Spec

=============================================================================
