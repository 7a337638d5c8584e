--------------------------- MODULE SnapshotPaging ---------------------------
(***************************************************************************)
(* A client that reads a long ledger page by page with                     *)
(* read_verified_snapshot, while others append.  Each call verifies the    *)
(* whole chain in one transaction (module Ledger) and answers with a slice *)
(* of it; the client asks for the next slice with the nextSequence of the  *)
(* last answer, and pins the ledgerPosition of the first answer if it      *)
(* wants the pages of one snapshot.                                        *)
(*                                                                         *)
(* Rows are only ever appended, so the verified chain is its length, its   *)
(* head too, and an entry is its 0-based `sequence`.                       *)
(***************************************************************************)
EXTENDS Integers, Sequences

CONSTANTS
  DefaultLimit,  \* effectiveLimit when the query has none (1000 in the code)
  Limits,        \* the limits clients ask for
  MaxLength      \* bound of the model on the length of the chain

ASSUME PagingAssumption ==
  /\ DefaultLimit \in Nat \ {0}
  /\ Limits \subseteq Nat \ {0}
  /\ MaxLength \in Nat

None == -1  \* null and undefined

VARIABLES
  length,     \* of the chain in the file
  phase,      \* of the client: start, reading, done, conflict, failed
  pin,        \* the head the client pins from its first page on, or None
  from,       \* index of the first entry the client wants
  after,      \* afterSequence of the next query
  collected   \* the sequences of the entries received, in order

pagingVars == <<length, phase, pin, from, after, collected>>

EffectiveLimit(limit) == IF limit = None THEN DefaultLimit ELSE limit

StartIndex(afterSequence) ==
  IF afterSequence = None THEN 0 ELSE afterSequence + 1

\* slice(start, start + limit) of the sequences 0 .. n - 1.
Slice(n, start, limit) ==
  LET end == IF start + limit < n THEN start + limit ELSE n
  IN  [i \in 1 .. (IF start < end THEN end - start ELSE 0) |-> start + i - 1]

\* Mutant: nextSequence is the first sequence of the next page.
NextSequenceExclusive(n, start, page) ==
  IF start + Len(page) < n /\ page # << >> THEN page[Len(page)] + 1 ELSE None

\* Mutant: a full page is taken to be the last when one entry is left.
NextSequenceEarly(n, start, page) ==
  IF start + Len(page) + 1 < n /\ page # << >> THEN page[Len(page)] ELSE None

\* Mutant: nextSequence is never null after a page with entries.
NextSequenceAlways(n, start, page) ==
  IF page # << >> THEN page[Len(page)] ELSE start - 1

NextSequence(n, start, page) ==
  IF start + Len(page) < n /\ page # << >> THEN page[Len(page)] ELSE None

PagingInit ==
  /\ length \in 0 .. MaxLength
  /\ phase = "start"
  /\ pin = None
  /\ after \in {None} \cup 0 .. MaxLength
  /\ from = StartIndex(after)
  /\ collected = << >>

\* Another client appends.
Grow ==
  /\ length < MaxLength
  /\ length' = length + 1
  /\ UNCHANGED <<phase, pin, from, after, collected>>

\* One verified call.  The first decides whether the client pins.
ReadPage ==
  \E limit \in Limits \cup {None}, pinning \in BOOLEAN :
    LET start == StartIndex(after)
        page  == Slice(length, start, EffectiveLimit(limit))
        next  == NextSequence(length, start, page)
    IN  /\ phase \in {"start", "reading"}
        /\ pin \in {None, length}
        /\ collected' = collected \o page
        /\ after' = next
        /\ phase' = IF next = None THEN "done" ELSE "reading"
        /\ pin' = IF phase = "start" /\ pinning THEN length ELSE pin
        /\ UNCHANGED <<length, from>>

\* snapshot_conflict: the chain is not the pinned one any more.
PageConflict ==
  /\ phase = "reading"
  /\ pin \notin {None, length}
  /\ phase' = "conflict"
  /\ UNCHANGED <<length, pin, from, after, collected>>

\* integrity_failure, which an append inside its window causes too, or an error
\* of SQLite: the client has no page, and gives up.
PageFails ==
  /\ phase \in {"start", "reading"}
  /\ phase' = "failed"
  /\ UNCHANGED <<length, pin, from, after, collected>>

PagingNext == Grow \/ ReadPage \/ PageConflict \/ PageFails

-----------------------------------------------------------------------------

Beyond(n) == IF from < n THEN n - from ELSE 0

\* The pages have no gap and no entry twice, in chain order, whatever the
\* limits and the appends between the calls.
PagesExact == \A i \in 1 .. Len(collected) : collected[i] = from + i - 1

\* A client that pinned its first page and ends without a conflict has every
\* entry of that snapshot, and none that was appended later.
PinnedIsComplete ==
  phase = "done" /\ pin # None => Len(collected) = Beyond(pin)

\* A client that ends, pinned or not, has every entry up to the head of its
\* last page: what was appended between its calls is not skipped.
LastPageReachesHead ==
  [][phase # "done" /\ phase' = "done" => Len(collected') = Beyond(length)]_pagingVars

=============================================================================
