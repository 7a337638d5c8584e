----------------------------- MODULE HashChain -----------------------------
(***************************************************************************)
(* Rows of the `entries` table, the hashes that chain them, and the        *)
(* structural verification every strict operation runs over them           *)
(* (src/hashing.ts, and verifyChainStructurally in src/db.ts).             *)
(*                                                                         *)
(* sha256 is modelled as a collision-free function.  A content hash is a   *)
(* record that wraps the content.  An entry hash commits to contentHash,   *)
(* createdAt and prevHash, and prevHash commits to everything before it,   *)
(* so an entry hash is the sequence of the <<contentHash, createdAt>>      *)
(* stamps from genesis to the entry: hashing a stamp on top of a previous  *)
(* hash appends it.  Append is injective, which is all the chain uses of   *)
(* sha256.  `tags`, `id` and created_epoch are covered by no hash and are  *)
(* left out.                                                               *)
(***************************************************************************)
EXTENDS Integers, Sequences

CONSTANTS
  Content,  \* the contents a client may store
  Time      \* the values `new Date().toISOString()` may return

ContentHash == [sha256 : Content]
Stamp       == [contentHash : ContentHash, createdAt : Time]
Hash        == Seq(Stamp)

\* SQL NULL in prev_hash, and the head of an empty table.
Null == << >>

HashContent(content) == [sha256 |-> content]

HashEntry(contentHash, prevHash, createdAt) ==
  Append(prevHash, [contentHash |-> contentHash, createdAt |-> createdAt])

Row == [content     : Content,
        contentHash : ContentHash,
        prevHash    : Hash,
        entryHash   : Hash,
        createdAt   : Time]

\* The row both write paths build for a content on top of a head.
BuildEntry(content, prevHash, createdAt) ==
  [content     |-> content,
   contentHash |-> HashContent(content),
   prevHash    |-> prevHash,
   entryHash   |-> HashEntry(HashContent(content), prevHash, createdAt),
   createdAt   |-> createdAt]

\* entry_hash of the last row in rowid order, Null for an empty table.
HeadOf(rows) == IF rows = << >> THEN Null ELSE rows[Len(rows)].entryHash

\* The hash a row has to link to: its predecessor's, or Null for genesis.
PrevOf(rows, i) == IF i = 1 THEN Null ELSE rows[i - 1].entryHash

ContentValid(row) == row.contentHash = HashContent(row.content)

EntryHashValid(row) ==
  row.entryHash = HashEntry(row.contentHash, row.prevHash, row.createdAt)

\* Mutant: content hashes are not recomputed.
IntactHashesOnly(rows) ==
  \A i \in 1 .. Len(rows) : /\ rows[i].prevHash = PrevOf(rows, i)
                            /\ EntryHashValid(rows[i])

\* verifyChainStructurally returns instead of throwing "chain_broken".
Intact(rows) ==
  \A i \in 1 .. Len(rows) : /\ rows[i].prevHash = PrevOf(rows, i)
                            /\ ContentValid(rows[i])
                            /\ EntryHashValid(rows[i])

=============================================================================
