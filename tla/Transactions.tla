---- MODULE Transactions ----
(***************************************************************************)
(* Collection transactions and undo: rslib/src/collection/transact.rs with *)
(* the undo manager it drives.  An operation opens a savepoint and an undo *)
(* step, writes rows one by one, and commits or rolls back; undoing pops a *)
(* step and reverts its changes newest first, inside a transaction of the  *)
(* same kind.  Steps of one transaction are separate here, so that what is *)
(* recorded, reverted and rolled back half-way can be stated.              *)
(***************************************************************************)
EXTENDS UndoManager

CONSTANTS Keys,        \* rows of the database
          ConfigKeys,  \* rows that are not rewritten when the value is the same
          Vals,
          OpKinds,     \* kinds of the operations the user runs
          MaxOps,      \* bound on undo.counter: operations begun
          MaxWrites,   \* bound on the changes of one operation
          MaxClock     \* bound on the stamps taken

ASSUME ConfigKeysAssumption == ConfigKeys \subseteq Keys
ASSUME OpKindsAssumption == OpKinds \subseteq {"Edit", "UpdateNote", "SkipUndo"}
ASSUME BoundsAssumption == MaxOps \in Nat /\ MaxWrites \in Nat /\ MaxClock \in Nat

Kinds == OpKinds \cup {"Custom"}

VARIABLES rows,      \* what the connection reads, uncommitted writes included
          mod,       \* col.mod: the collection modification stamp
          undo,      \* CollectionState.undo
          tx,        \* the running transaction and what its code holds in locals
          clock      \* the last stamp handed out by TimestampMillis::now()

vars == <<rows, mod, undo, tx, clock>>

RowChange == [table : {"row"}, key : Keys, old : Vals]
ModChange == [table : {"col"}, old : Nat]
Change == RowChange \cup ModChange

Idle == [phase |-> "idle"]

Tx(phases) ==
  [phase : phases, kind : Kinds \cup {NoOp}, base_rows : [Keys -> Vals], base_mod : Nat]
RevertTx ==
  [phase : {"revert"}, kind : Kinds, base_rows : [Keys -> Vals], base_mod : Nat,
   step : Step(Kinds, Change), left : Nat]

TypeOK ==
  /\ rows \in [Keys -> Vals]
  /\ mod \in Nat
  /\ undo \in UndoState(Kinds, Change)
  /\ Len(undo.undo_steps) <= UndoLimit
  /\ tx \in {Idle} \cup Tx({"body"}) \cup RevertTx
  /\ clock \in Nat

Init ==
  /\ rows \in [Keys -> Vals]
  /\ mod = 1 /\ clock = 1
  /\ undo = InitUndo
  /\ tx = Idle

InTx(phase) == tx.phase = phase

---------------------------------------------------------------------------
(* Operations *)

Open(phase, kind) ==
  [phase |-> phase, kind |-> kind, base_rows |-> rows, base_mod |-> mod]

\* transact(kind, ..): savepoint, then an undo step.
BeginOp(kind) ==
  /\ InTx("idle")
  /\ undo.counter < MaxOps
  /\ tx' = Open("body", kind)
  /\ undo' = BeginStep(undo, kind)
  /\ UNCHANGED <<rows, mod, clock>>

\* transact_no_undo(..)
BeginNoUndo ==
  /\ InTx("idle")
  /\ tx' = Open("body", NoOp)
  /\ undo' = Discard(undo)
  /\ UNCHANGED <<rows, mod, clock>>

\* Faulty variant: the row is saved after it has been written.
SetRowSavedLate(k, v) ==
  /\ rows' = [rows EXCEPT ![k] = v]
  /\ undo' = Save(undo, [table |-> "row", key |-> k, old |-> v])

\* An update_.._undoable call: the old row is saved, then the row is written.
SetRow(k, v) ==
  /\ rows' = [rows EXCEPT ![k] = v]
  /\ undo' = IF k \in ConfigKeys /\ v = rows[k]
             THEN undo
             ELSE Save(undo, [table |-> "row", key |-> k, old |-> rows[k]])

Write(k, v) ==
  /\ InTx("body")
  /\ HasStep(undo) => Len(undo.current_step.changes) < MaxWrites
  /\ SetRow(k, v)
  /\ UNCHANGED <<mod, tx, clock>>

\* The two steps maybe_coalesce_note_undo_entry looks at: one row, then col.mod.
NoteEdit(step) ==
  /\ step.kind = "UpdateNote"
  /\ Len(step.changes) = 2
  /\ step.changes[1].table = "row"
  /\ step.changes[2].table = "col"

\* Both steps edit the same note.  Whether less than a minute has passed since
\* the earlier one is left to the caller.
MayCoalesce(u) ==
  /\ HasStep(u)
  /\ u.undo_steps # <<>>
  /\ NoteEdit(Head(u.undo_steps))
  /\ NoteEdit(u.current_step)
  /\ Head(u.undo_steps).changes[1].key = u.current_step.changes[1].key

Coalesced(u, recent) == IF recent /\ MayCoalesce(u) THEN ClearLastOp(u) ELSE u

\* set_modified: the old stamp is saved like any other change.
Stamped(u) == Save(u, [table |-> "col", old |-> mod])

\* The successful end of transact: stamp, release, coalesce, keep the step.
Finish ==
  /\ InTx("body")
  /\ LET changed == ~HasStep(undo) \/ HasChanges(undo.current_step)
         stamped == IF changed THEN Stamped(undo) ELSE undo
     IN /\ changed => clock < MaxClock
        /\ mod' = IF changed THEN clock + 1 ELSE mod
        /\ clock' = IF changed THEN clock + 1 ELSE clock
        /\ \E recent \in BOOLEAN :
             undo' = EndStep(Coalesced(stamped, recent), tx.kind = "SkipUndo")
  /\ tx' = Idle
  /\ UNCHANGED rows

\* Any error on the way: the history goes, then the savepoint is restored.
Fail ==
  /\ InTx("body") \/ InTx("revert")
  /\ rows' = tx.base_rows
  /\ mod' = tx.base_mod
  /\ undo' = [Discard(undo) EXCEPT !.mode = "NormalOp"]
  /\ tx' = Idle
  /\ UNCHANGED clock

---------------------------------------------------------------------------
(* Undo and redo *)

Reverting(step) ==
  [phase |-> "revert", kind |-> step.kind, base_rows |-> rows, base_mod |-> mod,
   step |-> step, left |-> Len(step.changes)]

BeginUndo ==
  /\ InTx("idle")
  /\ undo.undo_steps # <<>>
  /\ undo.counter < MaxOps
  /\ LET step == Head(undo.undo_steps)
     IN /\ tx' = Reverting(step)
        /\ undo' = BeginStep([PopUndo(undo) EXCEPT !.mode = "Undoing"], step.kind)
  /\ UNCHANGED <<rows, mod, clock>>

BeginRedo ==
  /\ InTx("idle")
  /\ undo.redo_steps # <<>>
  /\ undo.counter < MaxOps
  /\ LET step == undo.redo_steps[Len(undo.redo_steps)]
     IN /\ tx' = Reverting(step)
        /\ undo' = BeginStep([PopRedo(undo) EXCEPT !.mode = "Redoing"], step.kind)
  /\ UNCHANGED <<rows, mod, clock>>

\* Faulty variant: oldest first.
RevertOldestFirst ==
  /\ InTx("revert")
  /\ tx.left > 0
  /\ LET change == tx.step.changes[Len(tx.step.changes) - tx.left + 1]
     IN \/ /\ change.table = "row"
           /\ SetRow(change.key, change.old)
           /\ UNCHANGED mod
        \/ /\ change.table = "col"
           /\ mod' = change.old
           /\ undo' = Stamped(undo)
           /\ UNCHANGED rows
  /\ tx' = [tx EXCEPT !.left = tx.left - 1]
  /\ UNCHANGED clock

\* change.undo(col) for the next change, newest first; its opposite is saved.
RevertChange ==
  /\ InTx("revert")
  /\ tx.left > 0
  /\ LET change == tx.step.changes[tx.left]
     IN \/ /\ change.table = "row"
           /\ SetRow(change.key, change.old)
           /\ UNCHANGED mod
        \/ /\ change.table = "col"
           /\ mod' = change.old
           /\ undo' = Stamped(undo)
           /\ UNCHANGED rows
  /\ tx' = [tx EXCEPT !.left = tx.left - 1]
  /\ UNCHANGED clock

\* No set_modified here: the stamp came back with the rows.
FinishRevert ==
  /\ InTx("revert")
  /\ tx.left = 0
  /\ \E recent \in BOOLEAN :
       undo' = [EndStep(Coalesced(undo, recent), FALSE) EXCEPT !.mode = "NormalOp"]
  /\ tx' = Idle
  /\ UNCHANGED <<rows, mod, clock>>

---------------------------------------------------------------------------
(* Grouping *)

AddCustomUndoStep ==
  /\ InTx("idle")
  /\ undo.counter < MaxOps
  /\ undo' = AddCustomStep(undo)
  /\ UNCHANGED <<rows, mod, tx, clock>>

\* Merging into a step that is no longer kept is an error and changes nothing.
MergeUndoableOps(target) ==
  /\ InTx("idle")
  /\ \E idx \in TargetIndexes(undo, target) :
       /\ \A i \in TargetIndexes(undo, target) : idx <= i
       /\ undo' = MergeInto(undo, idx)
  /\ UNCHANGED <<rows, mod, tx, clock>>

---------------------------------------------------------------------------
Next ==
  \/ \E kind \in OpKinds : BeginOp(kind)
  \/ BeginNoUndo
  \/ \E k \in Keys, v \in Vals : Write(k, v)
  \/ Finish
  \/ Fail
  \/ BeginUndo
  \/ BeginRedo
  \/ RevertChange
  \/ FinishRevert
  \/ AddCustomUndoStep
  \/ \E target \in 1..MaxOps : MergeUndoableOps(target)

Spec == Init /\ [][Next]_vars

---------------------------------------------------------------------------
(* Properties *)

Touches(change, k) == change.table = "row" /\ change.key = k
Touched(changes, k) == \E i \in 1..Len(changes) : Touches(changes[i], k)

\* v is what the first change of row k recorded.
FirstOld(changes, k, v) ==
  \E i \in 1..Len(changes) :
    /\ Touches(changes[i], k)
    /\ changes[i].old = v
    /\ \A j \in 1..(i - 1) : ~Touches(changes[j], k)

\* While an operation or an undo runs, its open step accounts for the whole
\* difference from the savepoint: reverting the step would restore it, however
\* often a row was written.  (save_undo before every storage write.)
StepAccountsForChanges ==
  (~InTx("idle") /\ HasStep(undo)) =>
    \A k \in Keys :
      IF Touched(undo.current_step.changes, k)
      THEN FirstOld(undo.current_step.changes, k, tx.base_rows[k])
      ELSE rows[k] = tx.base_rows[k]

\* v is what the oldest of the changes of row k after position n recorded.
OldAfter(changes, n, k, v) ==
  \E i \in (n + 1)..Len(changes) :
    /\ Touches(changes[i], k)
    /\ changes[i].old = v
    /\ \A j \in (n + 1)..(i - 1) : ~Touches(changes[j], k)

\* While a step is being reverted, every row it has reached so far holds the
\* value it had before the changes already reverted, and the rows it does not
\* mention have not moved.
RevertProgress ==
  InTx("revert") =>
    \A k \in Keys :
      IF \E i \in (tx.left + 1)..Len(tx.step.changes) : Touches(tx.step.changes[i], k)
      THEN OldAfter(tx.step.changes, tx.left, k, rows[k])
      ELSE rows[k] = tx.base_rows[k]

\* Undo puts back, for every row of the step, the value from before the step,
\* and leaves all other rows alone (undo_inner applies changes in reverse).
UndoRestores ==
  (InTx("revert") /\ tx.left = 0) =>
    \A k \in Keys :
      IF Touched(tx.step.changes, k)
      THEN FirstOld(tx.step.changes, k, rows[k])
      ELSE rows[k] = tx.base_rows[k]

\* Counters identify steps: they fall from the newest step to the oldest and
\* none is ahead of the manager's own, so a merge finds one target and joins
\* exactly what came after it, also after earlier merges have set the counter
\* back.
CountersIdentifySteps ==
  LET steps == undo.undo_steps
  IN /\ \A i, j \in 1..Len(steps) : i < j => steps[i].counter > steps[j].counter
     /\ \A i \in 1..Len(steps) : steps[i].counter <= undo.counter

---------------------------------------------------------------------------
(* The abstract history this machine implements *)

TouchedKeys(changes) == {k \in Keys : Touched(changes, k)}
Net(changes) ==
  [k \in TouchedKeys(changes) |-> CHOOSE v \in Vals : FirstOld(changes, k, v)]
NetAll(steps) == [i \in 1..Len(steps) |-> Net(steps[i].changes)]

\* What is committed; a step that is being reverted is still in its history.
CommittedRows == IF InTx("idle") THEN rows ELSE tx.base_rows
Past == IF InTx("revert") /\ undo.mode = "Undoing"
        THEN <<Net(tx.step.changes)>> \o NetAll(undo.undo_steps)
        ELSE NetAll(undo.undo_steps)
Future == IF InTx("revert") /\ undo.mode = "Redoing"
          THEN NetAll(undo.redo_steps) \o <<Net(tx.step.changes)>>
          ELSE NetAll(undo.redo_steps)

History == INSTANCE UndoHistory WITH
  rows <- CommittedRows, past <- Past, future <- Future,
  Untracked <- "SkipUndo" \in OpKinds

\* Operations, undo, redo, merging and failures are steps of the history.
ImplementsHistory == History!Spec
====
