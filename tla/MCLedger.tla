------------------------------ MODULE MCLedger ------------------------------
(* Instances of the ledger small enough for TLC. *)
EXTENDS LedgerProperties, TLC

CONSTANTS p1, p2, p3, c1, c2

\* A well-formed hash of a history that is not the one in this file.
OtherHistory ==
  {HashEntry(HashContent(c1), HashEntry(HashContent(c2), Null, 1), 1)}

NoForeign == {}

ProcSymmetry == Permutations(Proc)

=============================================================================
