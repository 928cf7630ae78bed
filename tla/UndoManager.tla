---- MODULE UndoManager ----
(***************************************************************************)
(* The undo manager of a collection (rslib/src/undo/mod.rs) as operators   *)
(* over its state, one operator per method.  The modules that own an undo  *)
(* manager keep such a record in a variable and say what a change is.      *)
(***************************************************************************)
EXTENDS Naturals, Sequences

CONSTANT UndoLimit      \* UNDO_LIMIT: steps kept for undoing

ASSUME UndoLimitAssumption == UndoLimit \in Nat \ {0}

\* "none" stands for begin_step(None): an operation outside the undo history.
NoOp == "none"
NoStep == [kind |-> NoOp]

Step(kinds, change) == [kind : kinds, changes : Seq(change), counter : Nat]

UndoState(kinds, change) ==
  [ undo_steps   : Seq(Step(kinds, change)),   \* the front is the newest
    redo_steps   : Seq(Step(kinds, change)),   \* the back is the newest
    mode         : {"NormalOp", "Undoing", "Redoing"},
    current_step : Step(kinds, change) \cup {NoStep},
    counter      : Nat ]

InitUndo ==
  [ undo_steps |-> <<>>, redo_steps |-> <<>>, mode |-> "NormalOp",
    current_step |-> NoStep, counter |-> 0 ]

HasStep(u) == u.current_step # NoStep

\* A change is kept only while a step is open.
Save(u, change) ==
  IF HasStep(u)
  THEN [u EXCEPT !.current_step =
          [u.current_step EXCEPT !.changes = Append(u.current_step.changes, change)]]
  ELSE u

\* begin_step(None): both histories go, and so does an open step.
Discard(u) ==
  [u EXCEPT !.undo_steps = <<>>, !.redo_steps = <<>>, !.current_step = NoStep]

\* Faulty variant: a new operation leaves the redo history.
BeginStepKeepingRedo(u, kind) ==
  [u EXCEPT !.current_step = [kind |-> kind, changes |-> <<>>, counter |-> u.counter + 1],
            !.counter = u.counter + 1]

\* begin_step(Some(kind))
BeginStep(u, kind) ==
  [u EXCEPT !.redo_steps = IF u.mode = "NormalOp" THEN <<>> ELSE u.redo_steps,
            !.current_step = [kind |-> kind, changes |-> <<>>, counter |-> u.counter + 1],
            !.counter = u.counter + 1]

\* Faulty variant: one step too many.
KeepOneMore(steps, n) == SubSeq(steps, 1, IF Len(steps) <= n THEN Len(steps) ELSE n + 1)

\* The newest n steps of a front-first deque.
KeepNewest(steps, n) == SubSeq(steps, 1, IF Len(steps) < n THEN Len(steps) ELSE n)

HasChanges(step) == step.changes # <<>> \/ step.kind = "Custom"

EndStep(u, skipUndo) ==
  LET closed == [u EXCEPT !.current_step = NoStep]
      step == u.current_step
  IN IF ~HasStep(u) THEN u
     ELSE IF skipUndo \/ ~HasChanges(step) THEN closed
     ELSE IF u.mode = "Undoing"
          THEN [closed EXCEPT !.redo_steps = Append(u.redo_steps, step)]
          ELSE [closed EXCEPT !.undo_steps =
                  <<step>> \o KeepNewest(u.undo_steps, UndoLimit - 1)]

\* Used for coalescing: the open step loses its changes and so is not kept.
ClearLastOp(u) ==
  [u EXCEPT !.current_step = [u.current_step EXCEPT !.changes = <<>>]]

\* Collection::undo and ::redo take the step out before they revert it.
PopUndo(u) == [u EXCEPT !.undo_steps = Tail(u.undo_steps)]
PopRedo(u) ==
  [u EXCEPT !.redo_steps = SubSeq(u.redo_steps, 1, Len(u.redo_steps) - 1)]

AddCustomStep(u) == EndStep(BeginStep(u, "Custom"), FALSE)

\* Positions a merge target can be found at.
TargetIndexes(u, target) ==
  {i \in 1..Len(u.undo_steps) : u.undo_steps[i].counter = target}

\* The newest n steps joined into one list of changes, oldest first.
JoinedChanges(steps, n) ==
  LET join[i \in 0..n] ==
        IF i = 0 THEN <<>> ELSE join[i - 1] \o steps[n - i + 1].changes
  IN join[n]

\* Faulty variant: the merged step is numbered like the newest.
MergeKeepingNewest(u, idx) ==
  LET merged == [u.undo_steps[1] EXCEPT !.changes = JoinedChanges(u.undo_steps, idx)]
  IN [u EXCEPT !.undo_steps = <<merged>> \o SubSeq(u.undo_steps, idx + 1, Len(u.undo_steps)),
               !.counter = u.undo_steps[idx].counter]

\* merge_undoable_ops for the first matching position idx.
MergeInto(u, idx) ==
  LET target == u.undo_steps[idx]
      merged == [target EXCEPT !.changes = JoinedChanges(u.undo_steps, idx)]
  IN [u EXCEPT !.undo_steps = <<merged>> \o SubSeq(u.undo_steps, idx + 1, Len(u.undo_steps)),
               !.counter = target.counter]
====
