---- MODULE MCCollectionSync ----
(* Small instances of CollectionSync for TLC. *)
EXTENDS CollectionSync, TLC
CONSTANTS c1, c2, s
ClientsSymmetry == Permutations(Clients)
====
