---- MODULE UndoHistory ----
(***************************************************************************)
(* What undo promises, without steps, change lists, modes or savepoints: a *)
(* past and a future of pre-images.  A pre-image maps the rows an          *)
(* operation may have changed to the values they had before it, so that    *)
(* undoing puts back exactly those rows and leaves the others alone.       *)
(***************************************************************************)
EXTENDS Naturals, Sequences, Functions

CONSTANTS Keys, Vals, UndoLimit,
          Untracked   \* whether some operations are not recorded

VARIABLES rows,      \* the committed content
          past,      \* pre-images, newest first
          future     \* pre-images, newest last

vars == <<rows, past, future>>

PreImage == UNION {[D -> Vals] : D \in SUBSET Keys}

TypeOK ==
  /\ rows \in [Keys -> Vals]
  /\ past \in Seq(PreImage)
  /\ future \in Seq(PreImage)

Overlay(f, g) == [k \in DOMAIN g |-> IF k \in DOMAIN f THEN f[k] ELSE g[k]]
Changed(f, g) == {k \in Keys : f[k] # g[k]}
Newest(s, n) == SubSeq(s, 1, IF Len(s) < n THEN Len(s) ELSE n)
Pushed(f) == <<f>> \o Newest(past, UndoLimit - 1)

Init == rows \in [Keys -> Vals] /\ past = <<>> /\ future = <<>>

\* An undoable operation: a new entry, and nothing left to redo.
Do ==
  \E new \in [Keys -> Vals] : \E D \in SUBSET Keys :
    /\ Changed(rows, new) \subseteq D
    /\ rows' = new
    /\ past' = Pushed(Restrict(rows, D))
    /\ future = <<>> /\ UNCHANGED future

\* A quick second edit of the same row joins the entry before it.
DoJoined ==
  \E new \in [Keys -> Vals] :
    /\ past # <<>>
    /\ Changed(rows, new) \subseteq DOMAIN Head(past)
    /\ rows' = new
    /\ future = <<>> /\ UNCHANGED <<past, future>>

\* An operation that is neither undone nor ends the history.
DoUntracked ==
  /\ Untracked
  /\ rows' \in [Keys -> Vals]
  /\ future = <<>> /\ UNCHANGED <<past, future>>

\* An operation outside the history: it starts from an empty one.
DoForgetting ==
  /\ rows' \in [Keys -> Vals]
  /\ past = <<>> /\ future = <<>> /\ UNCHANGED <<past, future>>

DropFuture == future' = <<>> /\ UNCHANGED <<rows, past>>
Forget == past' = <<>> /\ future' = <<>> /\ UNCHANGED rows

Undo ==
  /\ past # <<>>
  /\ rows' = Overlay(Head(past), rows)
  /\ past' = Tail(past)
  /\ \E D \in SUBSET DOMAIN Head(past) :
       /\ Changed(rows, rows') \subseteq D
       /\ future' = Append(future, Restrict(rows, D))

\* A redo is recorded in the past, or joins the entry before it.
Redo ==
  LET f == future[Len(future)] IN
  /\ future # <<>>
  /\ rows' = Overlay(f, rows)
  /\ future' = SubSeq(future, 1, Len(future) - 1)
  /\ \/ \E D \in SUBSET DOMAIN f :
          /\ Changed(rows, rows') \subseteq D
          /\ past' = Pushed(Restrict(rows, D))
     \/ /\ past # <<>> /\ Changed(rows, rows') \subseteq DOMAIN Head(past)
        /\ past' = past

\* An entry that changes nothing, for later entries to be merged into.
AddEmpty == past' = Pushed(<<>>) /\ future' = <<>> /\ UNCHANGED rows

\* The newest n entries become one: the oldest pre-image of each row wins.
Oldest(n, k) ==
  CHOOSE i \in 1..n : /\ k \in DOMAIN past[i]
                      /\ \A j \in (i + 1)..n : k \notin DOMAIN past[j]
Joined(n) ==
  [k \in UNION {DOMAIN past[i] : i \in 1..n} |-> past[Oldest(n, k)][k]]
Merge ==
  \E n \in 2..Len(past) :
    /\ past' = <<Joined(n)>> \o SubSeq(past, n + 1, Len(past))
    /\ UNCHANGED <<rows, future>>

Next == \/ Do \/ DoJoined \/ DoUntracked \/ DoForgetting \/ DropFuture
        \/ Forget \/ Undo \/ Redo \/ AddEmpty \/ Merge

Spec == Init /\ [][Next]_vars
====
