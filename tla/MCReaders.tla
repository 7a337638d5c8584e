----------------------------- MODULE MCReaders -----------------------------
(* Instances of the readers small enough for TLC. *)
EXTENDS Readers

AnyLimit == {-1, 0, 1, 2}

=============================================================================
