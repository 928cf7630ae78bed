---- MODULE MCNotes ----
EXTENDS Notes, TLC

\* Two fields, each asked for by a template; and a notetype with one of each.
TwoNotetypes ==
  (1 :> [fields |-> <<11, 12>>, mtime |-> 0, origin |-> 0,
         templates |-> <<[id |-> 21, front |-> 11], [id |-> 22, front |-> 12]>>])
  @@ (2 :> [fields |-> <<13>>, mtime |-> 0, origin |-> 0,
            templates |-> <<[id |-> 23, front |-> 13]>>])

\* The first note has one field filled.
OneNote == 1 :> [guid |-> 71, nt |-> 1, fields |-> <<11, 0>>, mtime |-> 0]
OneCard == 1 :> [nid |-> 1, ord |-> 1, made |-> 21]

TwoConditions == {<<"newer", "newer">>, <<"always", "always">>}

OneEach == [source |-> 1, target |-> 1]
====
