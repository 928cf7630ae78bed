---- MODULE MCModificationStamp ----
(* Small instances of ModificationStamp for TLC. *)
EXTENDS ModificationStamp, TLC
CONSTANTS k1, k2, v1, v2
\* The server's clock is behind, in step, a moment or a while ahead.
ServerAhead == {-1, 0, 1, 2}
ValsSymmetry == Permutations(Vals)
====
