------------------------------- MODULE Ledger -------------------------------
(***************************************************************************)
(* The ledger operations of src/db.ts as run by several server processes   *)
(* that share one SQLite file and one keychain item, the state root        *)
(* ("witness").  A process is single-threaded and every operation is       *)
(* synchronous, so a process runs one call at a time; calls of different   *)
(* processes interleave wherever they touch the file, SQLite's write lock  *)
(* or the keychain.                                                        *)
(*                                                                         *)
(* The file is in WAL mode.  A transaction reads the snapshot of its first *)
(* read.  `remember` opens a deferred transaction: its INSERT upgrades the *)
(* snapshot, and SQLite refuses the upgrade at once when another process   *)
(* holds the write lock or has committed since.  The conditional append    *)
(* opens with BEGIN IMMEDIATE, which waits for the lock up to busy_timeout.*)
(***************************************************************************)
EXTENDS HashChain, FiniteSets

CONSTANTS
  Proc,            \* server processes on the same data directory
  None,            \* no holder of the write lock
  SkipRoot,        \* the processes started with VMCP_SKIP_STATE_ROOT=true
  Op,              \* the operations the clients call
  ForeignHeads,    \* hashes of other histories that clients may present
  KeychainFaults,  \* whether reading or writing the keychain may fail
  Crashes,         \* whether a process may die and be started again
  MaxRows          \* bound of the model on the length of the table

Ops == {"remember", "cas", "snapshot", "verify"}

ASSUME LedgerAssumption ==
  /\ None \notin Proc
  /\ SkipRoot \subseteq Proc
  /\ Op \subseteq Ops
  /\ ForeignHeads \subseteq Hash
  /\ KeychainFaults \in BOOLEAN
  /\ Crashes \in BOOLEAN
  /\ MaxRows \in Nat

VARIABLES
  rows,         \* the committed rows of `entries`, in rowid order
  lock,         \* holder of SQLite's write lock
  keychain,     \* the state root in the OS keychain, Null when absent
  unavailable,  \* stateRootUnavailable of each process
  pc,           \* where each process is in its current call
  call,         \* arguments of the current call
  view,         \* rows read by the current transaction
  staged,       \* the row inserted by the current call, at most one
  reply,        \* the answer of the last call
  acks          \* history: the committed appends in the order of their answers

vars ==
  <<rows, lock, keychain, unavailable, pc, call, view, staged, reply, acks>>

-----------------------------------------------------------------------------
(* Types *)

NoCall  == [op |-> "none"]
NoReply == [status |-> "none"]

\* `pin` holds expectedSnapshotHead, and is empty when it is undefined.  `id`
\* is the position of the entry to verify, 0 an id that no row has.
RememberArgs == [op : {"remember"}, content : Content, createdAt : Time]
CasArgs      == [op : {"cas"}, content : Content, expectedHead : Hash]
SnapshotArgs == [op : {"snapshot"}, pin : SUBSET Hash]
VerifyArgs   == [op : {"verify"}, id : Nat, entryValid : BOOLEAN, dbRoot : Hash]
Call == {NoCall} \cup RememberArgs \cup CasArgs \cup SnapshotArgs \cup VerifyArgs

WitnessFailures ==
  {"witness_missing", "witness_mismatch", "witness_unexpected_when_empty"}
InvalidAppend == {"invalid_expected_head", "invalid_content", "invalid_tags"}
InvalidQuery ==
  {"invalid_expected_snapshot_head", "invalid_after_sequence", "invalid_limit"}
IntegrityStatus ==
  WitnessFailures \cup InvalidAppend \cup InvalidQuery
    \cup {"chain_broken", "witness_unavailable"}
RootStatus ==
  {"verified", "missing", "mismatch", "skipped", "unavailable", "empty"}

Reply ==
  [status : {"none", "error", "not_found"}]
    \cup [status : {"remembered"}, entryHash : Hash]
    \cup [status : {"appended"},
          previousHead : Hash, newHead : Hash, sequence : Nat]
    \cup [status : {"committed_but_witness_unconfirmed"},
          previousHead : Hash, newHead : Hash]
    \cup [status : {"conflict"}, expectedHead : Hash, observedHead : Hash]
    \cup [status : {"integrity_failure"}, integrityStatus : IntegrityStatus]
    \cup [status : {"verified"},
          historyId : Hash, ledgerPosition : Hash, chainLength : Nat]
    \cup [status : {"snapshot_conflict"}, pinned : Hash, observedHead : Hash]
    \cup [status : {"checked"}, stateRoot : RootStatus, valid : BOOLEAN]

RememberPcs ==
  {"rememberRead", "rememberInsert", "rememberCommit", "rememberPersist"}
CasPcs       == {"casBegin", "casCheck", "casCommit", "casConfirm"}
SnapshotPcs  == {"snapshotRead", "snapshotCheck"}
VerifyPcs    == {"verifyEntry", "verifyLatest", "verifyRoot"}
IdlePcs      == {"idle", "replied"}
Pcs == IdlePcs \cup RememberPcs \cup CasPcs \cup SnapshotPcs \cup VerifyPcs

\* Before the commit of an append, holding the write lock, and after it.
OpeningPcs   == {"rememberRead", "rememberInsert", "casBegin"}
LockPcs      == {"rememberCommit", "casCheck", "casCommit"}
CommittedPcs == {"rememberPersist", "casConfirm"}

Ack == [previousHead : Hash, newHead : Hash, sequence : Nat]

-----------------------------------------------------------------------------
(* What the actions are made of *)

Init ==
  /\ rows        = << >>
  /\ lock        = None
  /\ keychain    = Null
  /\ unavailable = [p \in Proc |-> FALSE]
  /\ pc          = [p \in Proc |-> "idle"]
  /\ call        = [p \in Proc |-> NoCall]
  /\ view        = [p \in Proc |-> << >>]
  /\ staged      = [p \in Proc |-> << >>]
  /\ reply       = [p \in Proc |-> NoReply]
  /\ acks        = << >>

Goto(p, from, to) ==
  /\ pc[p] = from
  /\ pc' = [pc EXCEPT ![p] = to]

\* A client's call reaches an idle process.
Begin(p, c, to) ==
  /\ c.op \in Op
  /\ Goto(p, "idle", to)
  /\ call' = [call EXCEPT ![p] = c]
  /\ UNCHANGED <<rows, lock, keychain, unavailable, view, staged, reply, acks>>

\* The call of p ends with reply r.
Answer(p, from, r) ==
  /\ Goto(p, from, "replied")
  /\ reply'  = [reply EXCEPT ![p] = r]
  /\ call'   = [call EXCEPT ![p] = NoCall]
  /\ view'   = [view EXCEPT ![p] = << >>]
  /\ staged' = [staged EXCEPT ![p] = << >>]

SetUnavailable(p, b) == unavailable' = [unavailable EXCEPT ![p] = b]

Failure(why) == [status |-> "integrity_failure", integrityStatus |-> why]

\* The bound MaxRows: an append is called only while there is room for it and
\* for the appends under way.
Room ==
  Len(rows) + Cardinality({p \in Proc : pc[p] \in OpeningPcs \cup LockPcs})
    < MaxRows

\* A head some client may know.
KnownHeads ==
  {Null} \cup {rows[i].entryHash : i \in 1 .. Len(rows)} \cup ForeignHeads

\* Mutant: a witness that disagrees is let through.
WitnessStatusLax(head) ==
  IF keychain = Null /\ head # Null THEN "witness_missing" ELSE "confirmed"

\* Mutant: a chain with no witness yet is taken for confirmed.
WitnessStatusMissingOk(head) ==
  IF keychain \in {Null, head} THEN "confirmed" ELSE "witness_mismatch"

\* verifyWitnessAgainst for a keychain that can be read.
WitnessStatus(head) ==
  CASE head = Null /\ keychain = Null  -> "confirmed"
    [] head = Null /\ keychain # Null  -> "witness_unexpected_when_empty"
    [] head # Null /\ keychain = Null  -> "witness_missing"
    [] head # Null /\ keychain # Null  ->
         IF keychain = head THEN "confirmed" ELSE "witness_mismatch"

\* The two checks every strict operation makes of the rows it read.
Verdict(rs) == IF Intact(rs) THEN WitnessStatus(HeadOf(rs)) ELSE "chain_broken"

\* Commit the row staged by p and release the write lock.
Commit(p, from, to) ==
  /\ Goto(p, from, to)
  /\ rows' = rows \o staged[p]
  /\ lock' = None
  /\ UNCHANGED <<keychain, unavailable, call, view, staged, reply, acks>>

\* Mutant: the sequence is counted after the insert.
AckOfLate(p) == [previousHead |-> HeadOf(view[p]),
                 newHead      |-> HeadOf(staged[p]),
                 sequence     |-> Len(view[p]) + 1]

AckOf(p) == [previousHead |-> HeadOf(view[p]),
             newHead      |-> HeadOf(staged[p]),
             sequence     |-> Len(view[p])]

-----------------------------------------------------------------------------
(* remember: insertEntryAtomic, then persistStateRoot *)

\* createdAt is read before the transaction opens.
RememberCall(p) ==
  \E content \in Content, createdAt \in Time :
    /\ Room
    /\ Begin(p, [op |-> "remember", content |-> content, createdAt |-> createdAt],
             "rememberRead")

\* The latest row's entry_hash is trusted as the head: nothing is verified.
RememberRead(p) ==
  /\ Goto(p, "rememberRead", "rememberInsert")
  /\ view' = [view EXCEPT ![p] = rows]
  /\ staged' = [staged EXCEPT ![p] =
       <<BuildEntry(call[p].content, HeadOf(rows), call[p].createdAt)>>]
  /\ UNCHANGED <<rows, lock, keychain, unavailable, call, reply, acks>>

\* Mutant: the latest row is read outside the transaction of the INSERT.
RememberInsertUnguarded(p) ==
  /\ Goto(p, "rememberInsert", "rememberCommit")
  /\ lock = None
  /\ lock' = p
  /\ UNCHANGED <<rows, keychain, unavailable, call, view, staged, reply, acks>>

\* Mutant: the state root is written inside the transaction.
RememberInsertRootFirst(p) ==
  /\ Goto(p, "rememberInsert", "rememberCommit")
  /\ lock = None
  /\ rows = view[p]
  /\ lock' = p
  /\ keychain' = HeadOf(staged[p])
  /\ UNCHANGED <<rows, unavailable, call, view, staged, reply, acks>>

\* Upgrade of the deferred transaction.
RememberInsert(p) ==
  /\ Goto(p, "rememberInsert", "rememberCommit")
  /\ lock = None
  /\ rows = view[p]
  /\ lock' = p
  /\ UNCHANGED <<rows, keychain, unavailable, call, view, staged, reply, acks>>

\* SQLITE_BUSY or SQLITE_BUSY_SNAPSHOT: the transaction rolls back, callTool
\* answers isError.
RememberBusy(p) ==
  /\ lock # None \/ rows # view[p]
  /\ Answer(p, "rememberInsert", [status |-> "error"])
  /\ UNCHANGED <<rows, lock, keychain, unavailable, acks>>

RememberCommit(p) == Commit(p, "rememberCommit", "rememberPersist")

Remembered(p) ==
  /\ Answer(p, "rememberPersist",
            [status |-> "remembered", entryHash |-> HeadOf(staged[p])])
  /\ acks' = Append(acks, AckOf(p))
  /\ UNCHANGED <<rows, lock>>

\* Mutant: the row, not its hash, is stored as the state root.
RememberPersistRow(p) ==
  /\ p \notin SkipRoot
  /\ Remembered(p)
  /\ keychain' = staged[p]
  /\ SetUnavailable(p, FALSE)

RememberPersist(p) ==
  /\ p \notin SkipRoot
  /\ Remembered(p)
  /\ keychain' = HeadOf(staged[p])
  /\ SetUnavailable(p, FALSE)

\* The failure of the keychain is swallowed: the client sees "remembered".
RememberUnpersisted(p) ==
  /\ p \notin SkipRoot
  /\ KeychainFaults
  /\ Remembered(p)
  /\ SetUnavailable(p, TRUE)
  /\ UNCHANGED keychain

RememberSkipRoot(p) ==
  /\ p \in SkipRoot
  /\ Remembered(p)
  /\ UNCHANGED <<keychain, unavailable>>

-----------------------------------------------------------------------------
(* append_if_verified_head: insertEntryIfVerifiedHead *)

CasCall(p) ==
  \E content \in Content, head \in KnownHeads :
    /\ Room
    /\ Begin(p, [op |-> "cas", content |-> content, expectedHead |-> head],
             "casBegin")

\* Malformed arguments are answered before the database is opened.
CasInvalid(p) ==
  \E why \in InvalidAppend :
    /\ "cas" \in Op
    /\ Answer(p, "idle", Failure(why))
    /\ UNCHANGED <<rows, lock, keychain, unavailable, acks>>

\* Mutant: the reads precede the write lock.
CasBeginUnlocked(p) ==
  /\ Goto(p, "casBegin", "casCheck")
  /\ view' = [view EXCEPT ![p] = rows]
  /\ UNCHANGED <<rows, lock, keychain, unavailable, call, staged, reply, acks>>

\* BEGIN IMMEDIATE, and the read of the whole table under the write lock.
CasBegin(p) ==
  /\ Goto(p, "casBegin", "casCheck")
  /\ lock = None
  /\ lock' = p
  /\ view' = [view EXCEPT ![p] = rows]
  /\ UNCHANGED <<rows, keychain, unavailable, call, staged, reply, acks>>

\* Mutant: no bound on the wait for the lock.
CasTimeoutNever(p) == pc[p] = "casBegin" /\ FALSE /\ UNCHANGED vars

\* busy_timeout runs out while another process holds the lock.
CasTimeout(p) ==
  /\ lock # None
  /\ Answer(p, "casBegin", [status |-> "error"])
  /\ UNCHANGED <<rows, lock, keychain, unavailable, acks>>

\* A signal thrown inside the transaction rolls it back.
CasRollback(p, r) ==
  /\ Answer(p, "casCheck", r)
  /\ lock' = None
  /\ UNCHANGED <<rows, keychain, acks>>

CasReject(p) ==
  /\ Verdict(view[p]) # "confirmed"
  /\ CasRollback(p, Failure(Verdict(view[p])))
  /\ UNCHANGED unavailable

CasUnreadable(p) ==
  /\ KeychainFaults
  /\ Intact(view[p])
  /\ CasRollback(p, Failure("witness_unavailable"))
  /\ SetUnavailable(p, TRUE)

CasConflict(p) ==
  /\ pc[p] = "casCheck"
  /\ Verdict(view[p]) = "confirmed"
  /\ call[p].expectedHead # HeadOf(view[p])
  /\ CasRollback(p, [status       |-> "conflict",
                     expectedHead |-> call[p].expectedHead,
                     observedHead |-> HeadOf(view[p])])
  /\ UNCHANGED unavailable

\* Mutant: expectedHead is not compared.
CasInsertAnyHead(p) ==
  /\ Goto(p, "casCheck", "casCommit")
  /\ Verdict(view[p]) = "confirmed"
  /\ \E createdAt \in Time :
       staged' = [staged EXCEPT ![p] =
         <<BuildEntry(call[p].content, HeadOf(view[p]), createdAt)>>]
  /\ UNCHANGED <<rows, lock, keychain, unavailable, call, view, reply, acks>>

CasInsert(p) ==
  /\ Goto(p, "casCheck", "casCommit")
  /\ Verdict(view[p]) = "confirmed"
  /\ call[p].expectedHead = HeadOf(view[p])
  /\ \E createdAt \in Time :
       staged' = [staged EXCEPT ![p] =
         <<BuildEntry(call[p].content, HeadOf(view[p]), createdAt)>>]
  /\ UNCHANGED <<rows, lock, keychain, unavailable, call, view, reply, acks>>

CasCommit(p) == Commit(p, "casCommit", "casConfirm")

\* Mutant: the state root is set to the head the append was built on.
CasConfirmPrevious(p) ==
  /\ Answer(p, "casConfirm", [status       |-> "appended",
                              previousHead |-> AckOf(p).previousHead,
                              newHead      |-> AckOf(p).newHead,
                              sequence     |-> AckOf(p).sequence])
  /\ keychain' = HeadOf(view[p])
  /\ SetUnavailable(p, FALSE)
  /\ acks' = Append(acks, AckOf(p))
  /\ UNCHANGED <<rows, lock>>

CasConfirm(p) ==
  /\ Answer(p, "casConfirm", [status       |-> "appended",
                              previousHead |-> AckOf(p).previousHead,
                              newHead      |-> AckOf(p).newHead,
                              sequence     |-> AckOf(p).sequence])
  /\ keychain' = HeadOf(staged[p])
  /\ SetUnavailable(p, FALSE)
  /\ acks' = Append(acks, AckOf(p))
  /\ UNCHANGED <<rows, lock>>

\* Mutant: an unconfirmed commit is folded into integrity_failure.
CasUnconfirmedFolded(p) ==
  /\ KeychainFaults
  /\ Answer(p, "casConfirm", Failure("witness_unavailable"))
  /\ SetUnavailable(p, TRUE)
  /\ UNCHANGED <<rows, lock, keychain, acks>>

CasUnconfirmed(p) ==
  /\ KeychainFaults
  /\ Answer(p, "casConfirm", [status |-> "committed_but_witness_unconfirmed",
                              previousHead |-> AckOf(p).previousHead,
                              newHead      |-> AckOf(p).newHead])
  /\ SetUnavailable(p, TRUE)
  /\ acks' = Append(acks, AckOf(p))
  /\ UNCHANGED <<rows, lock, keychain>>

-----------------------------------------------------------------------------
(* read_verified_snapshot: readVerifiedSnapshot (its pages: SnapshotPaging) *)

SnapshotCall(p) ==
  \E pin \in {{}} \cup {{head} : head \in KnownHeads} :
    Begin(p, [op |-> "snapshot", pin |-> pin], "snapshotRead")

SnapshotInvalid(p) ==
  \E why \in InvalidQuery :
    /\ "snapshot" \in Op
    /\ Answer(p, "idle", Failure(why))
    /\ UNCHANGED <<rows, lock, keychain, unavailable, acks>>

\* The first read of the deferred transaction takes no lock.
SnapshotRead(p) ==
  /\ Goto(p, "snapshotRead", "snapshotCheck")
  /\ view' = [view EXCEPT ![p] = rows]
  /\ UNCHANGED <<rows, lock, keychain, unavailable, call, staged, reply, acks>>

SnapshotAnswer(p, r) ==
  /\ Answer(p, "snapshotCheck", r)
  /\ UNCHANGED <<rows, lock, keychain, acks>>

SnapshotReject(p) ==
  /\ Verdict(view[p]) # "confirmed"
  /\ SnapshotAnswer(p, Failure(Verdict(view[p])))
  /\ UNCHANGED unavailable

SnapshotUnreadable(p) ==
  /\ KeychainFaults
  /\ Intact(view[p])
  /\ SnapshotAnswer(p, Failure("witness_unavailable"))
  /\ SetUnavailable(p, TRUE)

SnapshotConflict(p) ==
  /\ pc[p] = "snapshotCheck"
  /\ Verdict(view[p]) = "confirmed"
  /\ \E head \in call[p].pin :
       /\ head # HeadOf(view[p])
       /\ SnapshotAnswer(p, [status       |-> "snapshot_conflict",
                             pinned       |-> head,
                             observedHead |-> HeadOf(view[p])])
  /\ UNCHANGED unavailable

SnapshotVerified(p) ==
  /\ pc[p] = "snapshotCheck"
  /\ Verdict(view[p]) = "confirmed"
  /\ \A head \in call[p].pin : head = HeadOf(view[p])
  /\ SnapshotAnswer(p,
       [status         |-> "verified",
        historyId      |-> IF view[p] = << >> THEN Null ELSE view[p][1].entryHash,
        ledgerPosition |-> HeadOf(view[p]),
        chainLength    |-> Len(view[p])])
  /\ UNCHANGED unavailable

-----------------------------------------------------------------------------
(* verify: getEntry and its hashes, then verifyStateRoot *)

VerifyCall(p) ==
  \E id \in 0 .. Len(rows) :
    Begin(p, [op |-> "verify", id |-> id, entryValid |-> FALSE, dbRoot |-> Null],
          "verifyEntry")

VerifyNotFound(p) ==
  /\ pc[p] = "verifyEntry"
  /\ call[p].id \notin 1 .. Len(rows)
  /\ Answer(p, "verifyEntry", [status |-> "not_found"])
  /\ UNCHANGED <<rows, lock, keychain, unavailable, acks>>

VerifyEntry(p) ==
  /\ Goto(p, "verifyEntry", "verifyLatest")
  /\ call[p].id \in 1 .. Len(rows)
  /\ LET row == rows[call[p].id]
     IN  call' = [call EXCEPT ![p] =
           [@ EXCEPT !.entryValid = ContentValid(row) /\ EntryHashValid(row)]]
  /\ UNCHANGED <<rows, lock, keychain, unavailable, view, staged, reply, acks>>

\* getLatestEntry is a statement of its own, outside any transaction.
VerifyLatest(p) ==
  /\ Goto(p, "verifyLatest", "verifyRoot")
  /\ call' = [call EXCEPT ![p] = [@ EXCEPT !.dbRoot = HeadOf(rows)]]
  /\ UNCHANGED <<rows, lock, keychain, unavailable, view, staged, reply, acks>>

\* Mutant: the flag stateRootUnavailable is not consulted.
RootCheckFlagless(p) ==
  LET dbRoot == call[p].dbRoot
  IN  IF p \in SkipRoot THEN "skipped"
      ELSE IF dbRoot = Null THEN "empty"
      ELSE IF keychain = Null THEN "missing"
      ELSE IF keychain = dbRoot THEN "verified" ELSE "mismatch"

\* verifyStateRoot when it does not fail to read the keychain: once the flag
\* is up, the keychain is not read again.
RootCheck(p) ==
  LET dbRoot == call[p].dbRoot
  IN  CASE p \in SkipRoot        -> "skipped"
        [] p \notin SkipRoot /\ dbRoot = Null -> "empty"
        [] p \notin SkipRoot /\ dbRoot # Null ->
             IF unavailable[p]      THEN "unavailable"
             ELSE IF keychain = Null THEN "missing"
             ELSE IF keychain = dbRoot THEN "verified" ELSE "mismatch"

VerifyAnswer(p, root) ==
  /\ Answer(p, "verifyRoot",
            [status    |-> "checked",
             stateRoot |-> root,
             valid     |-> call[p].entryValid /\ root \notin {"missing", "mismatch"}])
  /\ UNCHANGED <<rows, lock, keychain, acks>>

VerifyRoot(p) ==
  /\ pc[p] = "verifyRoot"
  /\ VerifyAnswer(p, RootCheck(p))
  /\ UNCHANGED unavailable

VerifyUnreadable(p) ==
  /\ KeychainFaults
  /\ pc[p] = "verifyRoot"
  /\ RootCheck(p) \in {"missing", "verified", "mismatch"}
  /\ VerifyAnswer(p, "unavailable")
  /\ SetUnavailable(p, TRUE)

-----------------------------------------------------------------------------
(* The life of a process *)

\* The client takes the answer and may call again.
Return(p) ==
  /\ Goto(p, "replied", "idle")
  /\ reply' = [reply EXCEPT ![p] = NoReply]
  /\ UNCHANGED <<rows, lock, keychain, unavailable, call, view, staged, acks>>

\* The process dies and is started again.  SQLite rolls back what it had not
\* committed and drops its lock; the keychain keeps what was written.
Crash(p) ==
  /\ Crashes
  /\ pc[p] # "idle" \/ unavailable[p]
  /\ pc'     = [pc EXCEPT ![p] = "idle"]
  /\ call'   = [call EXCEPT ![p] = NoCall]
  /\ view'   = [view EXCEPT ![p] = << >>]
  /\ staged' = [staged EXCEPT ![p] = << >>]
  /\ reply'  = [reply EXCEPT ![p] = NoReply]
  /\ lock'   = IF lock = p THEN None ELSE lock
  /\ SetUnavailable(p, FALSE)
  /\ UNCHANGED <<rows, keychain, acks>>

Arrival(p) ==
  RememberCall(p) \/ CasCall(p) \/ CasInvalid(p) \/ SnapshotCall(p)
    \/ SnapshotInvalid(p) \/ VerifyCall(p)

RememberStep(p) ==
  RememberRead(p) \/ RememberInsert(p) \/ RememberBusy(p) \/ RememberCommit(p)
    \/ RememberPersist(p) \/ RememberUnpersisted(p) \/ RememberSkipRoot(p)

CasStep(p) ==
  CasBegin(p) \/ CasTimeout(p) \/ CasReject(p) \/ CasUnreadable(p)
    \/ CasConflict(p) \/ CasInsert(p) \/ CasCommit(p) \/ CasConfirm(p)
    \/ CasUnconfirmed(p)

SnapshotStep(p) ==
  SnapshotRead(p) \/ SnapshotReject(p) \/ SnapshotUnreadable(p)
    \/ SnapshotConflict(p) \/ SnapshotVerified(p)

VerifyStep(p) ==
  VerifyNotFound(p) \/ VerifyEntry(p) \/ VerifyLatest(p) \/ VerifyRoot(p)
    \/ VerifyUnreadable(p)

Step(p) == RememberStep(p) \/ CasStep(p) \/ SnapshotStep(p) \/ VerifyStep(p)

Next == \E p \in Proc : Arrival(p) \/ Step(p) \/ Return(p) \/ Crash(p)

Spec == Init /\ [][Next]_vars

\* A call under way keeps running: operations are synchronous, and a wait for
\* the write lock ends by itself.  Clients need not call, or take an answer.
Fairness == \A p \in Proc : WF_vars(Step(p))

FairSpec == Spec /\ Fairness

=============================================================================
