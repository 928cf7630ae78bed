---- MODULE MCMediaSync ----
(* Small instances of MediaSync for TLC. *)
EXTENDS MediaSync
CONSTANTS c1, c2, x, y
FirstTwoContents == [f \in Files |-> IF f = 1 THEN {x, y} ELSE {x}]
OneContent == [f \in Files |-> {x}]
====
