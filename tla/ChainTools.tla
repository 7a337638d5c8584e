----------------------------- MODULE ChainTools -----------------------------
(***************************************************************************)
(* The checks that read the chain without the state root: the `chain`      *)
(* tool, the integrity flag of `recall`, and the export of entries with    *)
(* the portable verifier's check of the exported record.                   *)
(***************************************************************************)
EXTENDS HashChain, SequencesExt

\* Mutant: links are not checked.
ValidateChainUnlinked(entries) ==
  \A i \in 1 .. Len(entries) :
    ContentValid(entries[i]) /\ EntryHashValid(entries[i])

\* validateChain of chain.ts, and its replica in the portable verifier: the
\* entries it is given must hash and link, the first may link to anything.
ValidateChain(entries) ==
  \A i \in 1 .. Len(entries) :
    /\ ContentValid(entries[i])
    /\ EntryHashValid(entries[i])
    /\ i > 1 => entries[i].prevHash = entries[i - 1].entryHash

\* entryIntegrity of recall.ts.
EntryIntegrity(entry) ==
  IF ~ContentValid(entry) THEN "content_mismatch"
  ELSE IF EntryHashValid(entry) THEN "valid" ELSE "hash_mismatch"

\* getChain: the first `limit` rows.
GetChain(rows, limit) ==
  SubSeq(rows, 1, IF limit < Len(rows) THEN limit ELSE Len(rows))

\* getEntriesByIds: the rows at the positions `ids`, by created_epoch, then
\* by rowid.
GetEntriesByIds(rows, ids) ==
  LET Earlier(i, j) == \/ rows[i].createdAt < rows[j].createdAt
                       \/ /\ rows[i].createdAt = rows[j].createdAt
                          /\ i < j
      order == SetToSortSeq(ids, Earlier)
  IN  [k \in 1 .. Len(order) |-> rows[order[k]]]

=============================================================================
