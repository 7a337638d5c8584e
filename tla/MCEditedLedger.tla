--------------------------- MODULE MCEditedLedger ---------------------------
(* Instances of the edited ledger small enough for TLC. *)
EXTENDS EditedLedger

CONSTANTS p1, p2, c1, c2

NoForeign == {}

Processes == Permutations(Proc)

=============================================================================
