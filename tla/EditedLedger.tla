---------------------------- MODULE EditedLedger ----------------------------
(***************************************************************************)
(* The ledger when the database file is also edited behind the server's    *)
(* back, as demo/tamper.py and the tests do: a row changed in place, rows  *)
(* removed or exchanged, or a chain rewritten so that its hashes agree     *)
(* again.  The keychain is out of the editor's reach.                      *)
(***************************************************************************)
EXTENDS LedgerProperties, ChainTools

CONSTANT MaxEdits  \* bound of the model on the number of edits

VARIABLES
  edits,     \* how many edits were made
  inWindow,  \* history: whether an edit met an append awaiting confirmation
  confirmed  \* history: the rows whose head was last written to the keychain

editedVars == <<vars, edits, inWindow, confirmed>>

EditedInit ==
  /\ Init
  /\ edits = 0
  /\ inWindow = FALSE
  /\ confirmed = << >>

ServerNext ==
  /\ \E p \in Proc :
       /\ Arrival(p) \/ Step(p) \/ Return(p) \/ Crash(p)
       /\ confirmed' =
            IF keychain' = keychain THEN confirmed ELSE view[p] \o staged[p]
  /\ UNCHANGED <<edits, inWindow>>

ChangedInPlace ==
  {[rows EXCEPT ![i].content = c] : i \in 1 .. Len(rows), c \in Content}

Shortened == {RemoveAt(rows, i) : i \in 1 .. Len(rows)}

Exchanged ==
  {[rows EXCEPT ![i] = rows[i + 1], ![i + 1] = rows[i]] : i \in 1 .. Len(rows) - 1}

\* One content replaced and every hash recomputed, with the model's reading of
\* an entry hash as the stamps up to the entry.
Rewritten ==
  LET With(i, c) ==
        [k \in 1 .. Len(rows) |-> IF k = i THEN c ELSE rows[k].content]
      Stamps(cs, n) ==
        [k \in 1 .. n |-> [contentHash |-> HashContent(cs[k]),
                           createdAt   |-> rows[k].createdAt]]
  IN  {[k \in 1 .. Len(rows) |->
          BuildEntry(With(i, c)[k], Stamps(With(i, c), k - 1), rows[k].createdAt)]
         : i \in 1 .. Len(rows), c \in Content}

\* A script opens the file by itself; it too needs SQLite's write lock.
Edit ==
  /\ edits < MaxEdits
  /\ lock = None
  /\ rows' \in (ChangedInPlace \cup Shortened \cup Exchanged \cup Rewritten) \ {rows}
  /\ edits' = edits + 1
  /\ inWindow' = (inWindow \/ \E p \in Proc : pc[p] \in CommittedPcs)
  /\ UNCHANGED <<lock, keychain, unavailable, pc, call, view, staged, reply, acks,
                 confirmed>>

EditedNext == ServerNext \/ Edit

EditedSpec == EditedInit /\ [][EditedNext]_editedVars

-----------------------------------------------------------------------------

\* One hash in the keychain pins down the content, the time and the links of
\* every row: what the conditional append and the verified snapshot accept is
\* exactly the table whose head was last written to the keychain.  (tags, id
\* and created_epoch are in no hash, and are no part of a row here.)
AcceptedIsConfirmed ==
  \A p \in Proc :
    pc[p] \in {"casCheck", "snapshotCheck"} /\ Verdict(view[p]) = "confirmed"
      => view[p] = confirmed

\* With conditional appends alone no edit ever enters the attested history:
\* what is confirmed later extends what was confirmed before, row by row.
\* Only an edit made while an append awaits its confirmation escapes: a row
\* removed then is as if it had never been committed.
EditsNeverAttested ==
  [][inWindow \/ IsPrefix(confirmed, confirmed')]_editedVars

\* The verifications of the source agree on any table: verifyChainStructurally
\* accepts exactly what the `chain` tool accepts and starts at a genesis entry; where
\* the `chain` tool accepts, `recall` flags no entry; and `chain` accepts any
\* prefix of an intact table.
VerifiersAgree ==
  LET genesis == rows # << >> => rows[1].prevHash = Null
  IN  /\ Intact(rows) <=> ValidateChain(GetChain(rows, Len(rows))) /\ genesis
      /\ ValidateChain(rows) =>
           \A i \in 1 .. Len(rows) : EntryIntegrity(rows[i]) = "valid"
      /\ Intact(rows) =>
           \A limit \in 1 .. Len(rows) : ValidateChain(GetChain(rows, limit))

\* README.md:417: "`chain()` detects broken links, removals, and reordering."
\* A table that has lost rows does not pass validateChain.
RemovalsDetected == Len(rows) < Len(confirmed) => ~ValidateChain(rows)

\* verifier/index.html:373: a contiguous partial export stays verifiable.  The
\* rows of a table nobody has edited, exported by their ids, pass its check.
ContiguousExportsVerify ==
  edits = 0 =>
    \A i, j \in 1 .. Len(rows) : ValidateChain(GetEntriesByIds(rows, i .. j))

=============================================================================
