---- MODULE Transactions_proofs ----
(***************************************************************************)
(* Theorems about Transactions, for every set of rows and values, every    *)
(* undo limit and operations of any length: its invariants, and that it    *)
(* implements UndoHistory.                                                 *)
(***************************************************************************)
EXTENDS Transactions, UndoManager_proofs

\* A revert never looks for a change the step does not have.
LeftInStep == InTx("revert") => tx.left <= Len(tx.step.changes)

\* The inductive invariant behind TypeOK: reading changes[left] needs LeftInStep.
TypeInv == TypeOK /\ LeftInStep

\* The undo part of TypeOK, in the form the lemmas about the undo manager use.
LEMMA TypeOKUndo ==
  TypeOK <=> /\ rows \in [Keys -> Vals] /\ mod \in Nat /\ clock \in Nat
             /\ GoodUndo(undo, Kinds, Change)
             /\ tx \in {Idle} \cup Tx({"body"}) \cup RevertTx
BY DEF TypeOK, GoodUndo

\* The phase tells which transaction record is there.
LEMMA TxByPhase ==
  ASSUME TypeOK
  PROVE  /\ InTx("idle") => tx = Idle
         /\ InTx("body") => tx \in Tx({"body"})
         /\ InTx("revert") => tx \in RevertTx
BY DEF TypeOK, InTx, Idle, Tx, RevertTx

\* A row write keeps the types, whether it comes from an operation or from a revert.
LEMMA SetRowType ==
  ASSUME TypeOK, NEW k \in Keys, NEW v \in Vals, SetRow(k, v)
  PROVE  rows' \in [Keys -> Vals] /\ GoodUndo(undo', Kinds, Change)
<1>1. [table |-> "row", key |-> k, old |-> rows[k]] \in Change
  BY DEF TypeOK, Change, RowChange
<1>2. GoodUndo(Save(undo, [table |-> "row", key |-> k, old |-> rows[k]]), Kinds, Change)
  BY <1>1, TypeOKUndo, SaveType
<1> QED BY <1>2, TypeOKUndo DEF SetRow

\* Recording the old collection stamp keeps the type of the undo manager.
LEMMA StampedType ==
  ASSUME TypeOK
  PROVE  GoodUndo(Stamped(undo), Kinds, Change)
<1>1. [table |-> "col", old |-> mod] \in Change
  BY DEF TypeOK, Change, ModChange
<1> QED BY <1>1, TypeOKUndo, SaveType DEF Stamped

\* Coalescing keeps the type of the undo manager.
LEMMA CoalescedType ==
  ASSUME NEW u, GoodUndo(u, Kinds, Change), NEW recent \in BOOLEAN
  PROVE  GoodUndo(Coalesced(u, recent), Kinds, Change)
BY ClearLastOpType DEF Coalesced, MayCoalesce

\* The change a revert is about to apply belongs to the step.
LEMMA NextChangeType ==
  ASSUME TypeInv, InTx("revert"), tx.left > 0
  PROVE  tx.left \in 1..Len(tx.step.changes) /\ tx.step.changes[tx.left] \in Change
<1>1. tx.step.changes \in Seq(Change) /\ tx.left \in Nat
  BY TxByPhase DEF TypeInv, RevertTx, Step
<1>2. tx.left <= Len(tx.step.changes)
  BY DEF TypeInv, LeftInStep
<1> QED BY <1>1, <1>2

\* A change of a row holds a row and a value, one of col.mod holds a stamp.
LEMMA ChangeFields ==
  ASSUME NEW c \in Change
  PROVE  /\ c.table = "row" => c.key \in Keys /\ c.old \in Vals
         /\ c.table = "col" => c.old \in Nat
BY DEF Change, RowChange, ModChange

\* The initial state is typed.
LEMMA TypeInit == Init => TypeInv
<1> SUFFICES ASSUME Init PROVE TypeInv
  OBVIOUS
<1>1. GoodUndo(undo, Kinds, Change)
  BY InitUndoType DEF Init
<1>2. TypeOK
  BY <1>1, TypeOKUndo DEF Init
<1>3. LeftInStep
  BY DEF Init, LeftInStep, InTx, Idle
<1> QED BY <1>2, <1>3 DEF TypeInv

\* A transaction opened on typed rows has the type of its phase.
LEMMA OpenType ==
  ASSUME TypeOK, NEW kind \in Kinds \cup {NoOp}
  PROVE  Open("body", kind) \in Tx({"body"})
BY DEF TypeOK, Open, Tx

\* So has the transaction an undo or a redo runs in, which starts at the last change.
LEMMA RevertingType ==
  ASSUME TypeOK, NEW step \in Step(Kinds, Change)
  PROVE  /\ Reverting(step) \in RevertTx
         /\ Reverting(step).left <= Len(Reverting(step).step.changes)
<1>1. step.changes \in Seq(Change) /\ Len(step.changes) \in Nat /\ step.kind \in Kinds
  BY DEF Step
<1> QED BY <1>1 DEF TypeOK, Reverting, RevertTx

\* Every step of the machine keeps the types.
LEMMA TypeStep == TypeInv /\ [Next]_vars => TypeInv'
<1> SUFFICES ASSUME TypeInv, [Next]_vars PROVE TypeInv'
  OBVIOUS
<1>0. TypeOK /\ LeftInStep
  BY DEF TypeInv
<1>u. GoodUndo(undo, Kinds, Change)
  BY <1>0, TypeOKUndo
<1> USE <1>0, <1>u
<1>p. ASSUME rows' \in [Keys -> Vals], mod' \in Nat, clock' \in Nat,
             GoodUndo(undo', Kinds, Change),
             \/ tx' = Idle
             \/ tx' \in Tx({"body"})
             \/ tx' \in RevertTx /\ tx'.left <= Len(tx'.step.changes)
      PROVE  TypeInv'
  BY <1>p DEF TypeInv, TypeOK, GoodUndo, LeftInStep, InTx, Idle, Tx
<1>t. /\ rows \in [Keys -> Vals] /\ mod \in Nat /\ clock \in Nat
      /\ InTx("idle") => tx = Idle
      /\ InTx("body") => tx \in Tx({"body"})
      /\ InTx("revert") => tx \in RevertTx /\ tx.left <= Len(tx.step.changes)
  BY TxByPhase, TypeOKUndo DEF LeftInStep
<1>1. ASSUME NEW kind \in OpKinds, BeginOp(kind) PROVE TypeInv'
  <2>1. kind \in Kinds
    BY DEF Kinds
  <2>2. GoodUndo(undo', Kinds, Change) /\ tx' \in Tx({"body"})
    BY <1>1, <2>1, BeginStepType, OpenType DEF BeginOp
  <2> QED BY <1>1, <1>p, <1>t, <2>2 DEF BeginOp
<1>2. ASSUME BeginNoUndo PROVE TypeInv'
  <2>1. GoodUndo(undo', Kinds, Change) /\ tx' \in Tx({"body"})
    BY <1>2, DiscardType, OpenType DEF BeginNoUndo
  <2> QED BY <1>2, <1>p, <1>t, <2>1 DEF BeginNoUndo
<1>3. ASSUME NEW k \in Keys, NEW v \in Vals, Write(k, v) PROVE TypeInv'
  BY <1>3, <1>p, <1>t, SetRowType DEF Write
<1>4. ASSUME Finish PROVE TypeInv'
  <2>1. PICK recent \in BOOLEAN, stamped \in {undo, Stamped(undo)} :
          undo' = EndStep(Coalesced(stamped, recent), tx.kind = "SkipUndo")
    BY <1>4 DEF Finish
  <2>2. GoodUndo(stamped, Kinds, Change)
    BY <2>1, StampedType
  <2>3. GoodUndo(undo', Kinds, Change)
    BY <2>1, <2>2, CoalescedType, EndStepType
  <2>4. mod' \in Nat /\ clock' \in Nat
    BY <1>4, <1>t DEF Finish
  <2> QED BY <1>4, <1>p, <1>t, <2>3, <2>4 DEF Finish
<1>5. ASSUME Fail PROVE TypeInv'
  <2>1. tx.base_rows \in [Keys -> Vals] /\ tx.base_mod \in Nat
    BY <1>5, <1>t DEF Fail, Tx, RevertTx
  <2> QED BY <1>5, <1>p, <1>t, <2>1, DiscardType DEF Fail
<1>6. ASSUME BeginUndo PROVE TypeInv'
  <2> DEFINE step == Head(undo.undo_steps)
             popped == [PopUndo(undo) EXCEPT !.mode = "Undoing"]
  <2>1. step \in Step(Kinds, Change) /\ GoodUndo(popped, Kinds, Change)
    BY <1>6, PopUndoType DEF BeginUndo
  <2>2. step.kind \in Kinds
    BY <2>1 DEF Step
  <2>3. tx' = Reverting(step) /\ undo' = BeginStep(popped, step.kind)
    BY <1>6 DEF BeginUndo
  <2> HIDE DEF step, popped
  <2>4. GoodUndo(undo', Kinds, Change)
    BY <2>1, <2>2, <2>3, BeginStepType
  <2> QED BY <1>6, <1>p, <1>t, <2>1, <2>3, <2>4, RevertingType DEF BeginUndo
<1>7. ASSUME BeginRedo PROVE TypeInv'
  <2> DEFINE step == undo.redo_steps[Len(undo.redo_steps)]
             popped == [PopRedo(undo) EXCEPT !.mode = "Redoing"]
  <2>1. step \in Step(Kinds, Change) /\ GoodUndo(popped, Kinds, Change)
    BY <1>7, PopRedoType DEF BeginRedo
  <2>2. step.kind \in Kinds
    BY <2>1 DEF Step
  <2>3. tx' = Reverting(step) /\ undo' = BeginStep(popped, step.kind)
    BY <1>7 DEF BeginRedo
  <2> HIDE DEF step, popped
  <2>4. GoodUndo(undo', Kinds, Change)
    BY <2>1, <2>2, <2>3, BeginStepType
  <2> QED BY <1>7, <1>p, <1>t, <2>1, <2>3, <2>4, RevertingType DEF BeginRedo
<1>8. ASSUME RevertChange PROVE TypeInv'
  <2> DEFINE change == tx.step.changes[tx.left]
  <2>1. change \in Change /\ tx \in RevertTx
    BY <1>8, <1>t, NextChangeType DEF RevertChange, TypeInv
  <2>2. /\ change.table = "row" => change.key \in Keys /\ change.old \in Vals
        /\ change.table = "col" => change.old \in Nat
    BY <2>1, ChangeFields
  <2>3. tx' \in RevertTx /\ tx'.left <= Len(tx'.step.changes)
    <3>1. tx.left - 1 \in Nat /\ tx.left \in Nat /\ tx.left > 0
      BY <1>8, <2>1 DEF RevertTx, RevertChange
    <3>2. tx' = [tx EXCEPT !.left = tx.left - 1]
      BY <1>8 DEF RevertChange
    <3>3. Len(tx.step.changes) \in Nat
      BY <2>1 DEF RevertTx, Step
    <3>4. tx'.left = tx.left - 1 /\ tx'.step = tx.step
      BY <2>1, <3>2 DEF RevertTx
    <3>5. tx' \in RevertTx
      BY <2>1, <3>1, <3>2 DEF RevertTx
    <3>6. tx.left <= Len(tx.step.changes)
      BY <1>8, <1>t DEF RevertChange
    <3> QED BY <3>1, <3>3, <3>4, <3>5, <3>6
  <2>4. /\ rows' \in [Keys -> Vals] /\ mod' \in Nat /\ clock' \in Nat
        /\ GoodUndo(undo', Kinds, Change)
    <3>1. CASE change.table = "row" /\ SetRow(change.key, change.old) /\ UNCHANGED mod
      BY <1>8, <1>t, <2>2, <3>1, SetRowType DEF RevertChange
    <3>2. CASE /\ change.table = "col" /\ mod' = change.old
               /\ undo' = Stamped(undo) /\ UNCHANGED rows
      BY <1>8, <1>t, <2>2, <3>2, StampedType DEF RevertChange
    <3> QED BY <1>8, <3>1, <3>2 DEF RevertChange
  <2> QED BY <1>p, <2>3, <2>4
<1>9. ASSUME FinishRevert PROVE TypeInv'
  <2>1. PICK recent \in BOOLEAN :
          undo' = [EndStep(Coalesced(undo, recent), FALSE) EXCEPT !.mode = "NormalOp"]
    BY <1>9 DEF FinishRevert
  <2>2. GoodUndo(EndStep(Coalesced(undo, recent), FALSE), Kinds, Change)
    BY CoalescedType, EndStepType
  <2>3. GoodUndo(undo', Kinds, Change)
    BY <2>1, <2>2 DEF GoodUndo, UndoState
  <2> QED BY <1>9, <1>p, <1>t, <2>3 DEF FinishRevert
<1>10. ASSUME AddCustomUndoStep PROVE TypeInv'
  <2>1. "Custom" \in Kinds
    BY DEF Kinds
  <2>2. GoodUndo(undo', Kinds, Change)
    BY <1>10, <2>1, BeginStepType, EndStepType DEF AddCustomUndoStep, AddCustomStep
  <2> QED BY <1>10, <1>p, <1>t, <2>2 DEF AddCustomUndoStep
<1>11. ASSUME NEW target \in 1..MaxOps, MergeUndoableOps(target) PROVE TypeInv'
  <2>1. PICK idx \in TargetIndexes(undo, target) : undo' = MergeInto(undo, idx)
    BY <1>11 DEF MergeUndoableOps
  <2>2. idx \in 1..Len(undo.undo_steps)
    BY <2>1 DEF TargetIndexes
  <2> QED BY <1>11, <1>p, <1>t, <2>1, <2>2, MergeIntoType DEF MergeUndoableOps
<1>12. CASE UNCHANGED vars
  BY <1>12 DEF vars, TypeInv, TypeOK, LeftInStep, InTx
<1> QED
  BY <1>1, <1>2, <1>3, <1>4, <1>5, <1>6, <1>7, <1>8, <1>9, <1>10, <1>11, <1>12 DEF Next

\* Rows, stamps, the two histories and the running transaction keep their types,
\* and the undo history never grows past its limit.
THEOREM TypeCorrect == Spec => []TypeOK
<1>1. Spec => []TypeInv
  BY TypeInit, TypeStep, PTL DEF Spec
<1> QED BY <1>1, PTL DEF TypeInv
---------------------------------------------------------------------------
(* The open step accounts for the difference from the savepoint. *)

\* The list of changes accounts for what one row holds, given what it held before.
Accounts(changes, k, now, before) ==
  IF Touched(changes, k) THEN FirstOld(changes, k, before) ELSE now = before

\* A change appended for a row that already has one leaves its first change alone;
\* the first change of a row records what the row held.
LEMMA AppendAccounts ==
  ASSUME NEW changes \in Seq(Change), NEW c \in Change, NEW k,
         NEW now, NEW later, NEW before,
         Accounts(changes, k, now, before),
         IF Touches(c, k) THEN c.old = now ELSE later = now
  PROVE  Accounts(Append(changes, c), k, later, before)
<1> DEFINE longer == Append(changes, c)
           n == Len(changes)
<1>1. /\ n \in Nat /\ Len(longer) = n + 1
      /\ \A i \in 1..n : longer[i] = changes[i]
      /\ longer[n + 1] = c
  BY AppendProperties
<1> HIDE DEF longer
<1>2. CASE Touched(changes, k)
  <2>1. PICK i \in 1..n : /\ Touches(changes[i], k) /\ changes[i].old = before
                          /\ \A j \in 1..(i - 1) : ~Touches(changes[j], k)
    BY <1>2 DEF Accounts, FirstOld
  <2>2. i \in 1..Len(longer) /\ longer[i] = changes[i]
    BY <1>1, <2>1
  <2>3. \A j \in 1..(i - 1) : longer[j] = changes[j]
    BY <1>1, <2>1
  <2>4. FirstOld(longer, k, before)
    BY <2>1, <2>2, <2>3 DEF FirstOld
  <2>5. Touched(longer, k)
    BY <2>1, <2>2 DEF Touched
  <2> QED BY <2>4, <2>5 DEF Accounts, longer
<1>3. CASE ~Touched(changes, k) /\ Touches(c, k)
  <2>1. now = before /\ c.old = before
    BY <1>3 DEF Accounts
  <2>2. \A j \in 1..n : ~Touches(longer[j], k)
    BY <1>1, <1>3 DEF Touched
  <2>3. /\ n + 1 \in 1..Len(longer) /\ Touches(longer[n + 1], k)
        /\ longer[n + 1].old = before
        /\ \A j \in 1..((n + 1) - 1) : ~Touches(longer[j], k)
    BY <1>1, <1>3, <2>1, <2>2
  <2>4. Touched(longer, k) /\ FirstOld(longer, k, before)
    BY <2>3 DEF Touched, FirstOld
  <2> QED BY <2>4 DEF Accounts, longer
<1>4. CASE ~Touched(changes, k) /\ ~Touches(c, k)
  <2>1. now = before /\ later = before
    BY <1>4 DEF Accounts
  <2>2. \A j \in 1..(n + 1) : ~Touches(longer[j], k)
    BY <1>1, <1>4 DEF Touched
  <2>3. ~Touched(longer, k)
    BY <1>1, <2>2 DEF Touched
  <2> QED BY <2>1, <2>3 DEF Accounts, longer
<1> QED BY <1>2, <1>3, <1>4

\* Saving a change appends it to the open step, which stays open.
LEMMA SaveAppends ==
  ASSUME NEW u, GoodUndo(u, Kinds, Change), HasStep(u), NEW c \in Change
  PROVE  /\ HasStep(Save(u, c))
         /\ Save(u, c).current_step.changes = Append(u.current_step.changes, c)
         /\ u.current_step.changes \in Seq(Change)
<1>1. u.current_step \in Step(Kinds, Change)
  BY OpenStepType DEF GoodUndo
<1>2. [u.current_step EXCEPT !.changes = Append(u.current_step.changes, c)] # NoStep
  BY <1>1 DEF Step, NoStep
<1> QED BY <1>1, <1>2 DEF Save, GoodUndo, UndoState, HasStep, Step

\* A row write keeps the account of every row.
LEMMA SetRowAccounts ==
  ASSUME TypeOK, HasStep(undo'), NEW k \in Keys, NEW v \in Vals, SetRow(k, v),
         NEW base,
         HasStep(undo) => \A r \in Keys :
           Accounts(undo.current_step.changes, r, rows[r], base[r])
  PROVE  \A r \in Keys : Accounts(undo'.current_step.changes, r, rows'[r], base[r])
<1> DEFINE c == [table |-> "row", key |-> k, old |-> rows[k]]
<1>1. c \in Change /\ c.table = "row" /\ c.key = k /\ c.old = rows[k]
  BY DEF TypeOK, Change, RowChange
<1>2. GoodUndo(undo, Kinds, Change) /\ rows \in [Keys -> Vals]
  BY TypeOKUndo
<1>3. \A r \in Keys : rows'[r] = IF r = k THEN v ELSE rows[r]
  BY <1>2 DEF SetRow
<1>4. CASE k \in ConfigKeys /\ v = rows[k]
  <2>1. undo' = undo /\ \A r \in Keys : rows'[r] = rows[r]
    BY <1>3, <1>4 DEF SetRow
  <2> QED BY <2>1
<1>5. CASE ~(k \in ConfigKeys /\ v = rows[k])
  <2>1. undo' = Save(undo, c)
    BY <1>5 DEF SetRow
  <2>2. HasStep(undo)
    BY <2>1 DEF Save, HasStep
  <2>3. /\ undo'.current_step.changes = Append(undo.current_step.changes, c)
        /\ undo.current_step.changes \in Seq(Change)
    BY <1>1, <1>2, <2>1, <2>2, SaveAppends
  <2> HIDE DEF c
  <2>4. ASSUME NEW r \in Keys
        PROVE  Accounts(undo'.current_step.changes, r, rows'[r], base[r])
    <3>1. IF Touches(c, r) THEN c.old = rows[r] ELSE rows'[r] = rows[r]
      BY <1>1, <1>3 DEF Touches
    <3> QED BY <1>1, <2>2, <2>3, <3>1, AppendAccounts
  <2> QED BY <2>4
<1> QED BY <1>4, <1>5

\* A change of col.mod is in no row's account.
LEMMA StampedAccounts ==
  ASSUME TypeOK, HasStep(undo), NEW base,
         \A r \in Keys : Accounts(undo.current_step.changes, r, rows[r], base[r])
  PROVE  \A r \in Keys : Accounts(Stamped(undo).current_step.changes, r, rows[r], base[r])
<1> DEFINE c == [table |-> "col", old |-> mod]
<1>1. c \in Change /\ c.table = "col"
  BY DEF TypeOK, Change, ModChange
<1>2. /\ Stamped(undo).current_step.changes = Append(undo.current_step.changes, c)
      /\ undo.current_step.changes \in Seq(Change)
  BY <1>1, TypeOKUndo, SaveAppends DEF Stamped
<1> HIDE DEF c
<1>3. ASSUME NEW r \in Keys
      PROVE  Accounts(Stamped(undo).current_step.changes, r, rows[r], base[r])
  <2>1. ~Touches(c, r)
    BY <1>1 DEF Touches
  <2> QED BY <1>1, <1>2, <2>1, AppendAccounts
<1> QED BY <1>3

\* A step that has just been opened accounts for rows that have not moved.
LEMMA FreshStepAccounts ==
  ASSUME NEW u, GoodUndo(u, Kinds, Change), NEW kind
  PROVE  \A r \in Keys : Accounts(BeginStep(u, kind).current_step.changes, r, rows[r], rows[r])
<1>1. BeginStep(u, kind).current_step.changes = <<>>
  BY DEF BeginStep, GoodUndo, UndoState
<1>2. \A r \in Keys : ~Touched(<<>>, r)
  BY DEF Touched
<1> QED BY <1>1, <1>2 DEF Accounts

\* Every step of the machine keeps the account.
LEMMA AccountStep ==
  TypeInv /\ StepAccountsForChanges /\ [Next]_vars => StepAccountsForChanges'
<1> SUFFICES ASSUME TypeInv, StepAccountsForChanges, [Next]_vars,
                    ~InTx("idle")', HasStep(undo')
             PROVE  \A r \in Keys :
                      Accounts(undo'.current_step.changes, r, rows'[r], tx'.base_rows[r])
  BY DEF StepAccountsForChanges, Accounts
<1>0. TypeOK /\ GoodUndo(undo, Kinds, Change)
  BY TypeOKUndo DEF TypeInv
<1>a. ~InTx("idle") /\ HasStep(undo) =>
        \A r \in Keys : Accounts(undo.current_step.changes, r, rows[r], tx.base_rows[r])
  BY DEF StepAccountsForChanges, Accounts
<1>i. tx' # Idle
  BY DEF InTx, Idle
<1>1. ASSUME NEW kind \in OpKinds, BeginOp(kind)
      PROVE  \A r \in Keys : Accounts(undo'.current_step.changes, r, rows'[r], tx'.base_rows[r])
  BY <1>0, <1>1, FreshStepAccounts DEF BeginOp, Open
<1>2. ASSUME BeginNoUndo PROVE FALSE
  BY <1>0, <1>2 DEF BeginNoUndo, Discard, HasStep, GoodUndo, UndoState
<1>3. ASSUME NEW k \in Keys, NEW v \in Vals, Write(k, v)
      PROVE  \A r \in Keys : Accounts(undo'.current_step.changes, r, rows'[r], tx'.base_rows[r])
  <2>1. tx' = tx /\ SetRow(k, v) /\ ~InTx("idle")
    BY <1>3 DEF Write, InTx
  <2> QED BY <1>0, <1>a, <2>1, SetRowAccounts
<1>4. ASSUME BeginUndo
      PROVE  \A r \in Keys : Accounts(undo'.current_step.changes, r, rows'[r], tx'.base_rows[r])
  <2> DEFINE step == Head(undo.undo_steps)
             popped == [PopUndo(undo) EXCEPT !.mode = "Undoing"]
  <2>1. GoodUndo(popped, Kinds, Change)
    BY <1>0, <1>4, PopUndoType DEF BeginUndo
  <2>2. tx' = Reverting(step) /\ undo' = BeginStep(popped, step.kind) /\ rows' = rows
    BY <1>4 DEF BeginUndo
  <2> HIDE DEF step, popped
  <2> QED BY <2>1, <2>2, FreshStepAccounts DEF Reverting
<1>5. ASSUME BeginRedo
      PROVE  \A r \in Keys : Accounts(undo'.current_step.changes, r, rows'[r], tx'.base_rows[r])
  <2> DEFINE step == undo.redo_steps[Len(undo.redo_steps)]
             popped == [PopRedo(undo) EXCEPT !.mode = "Redoing"]
  <2>1. GoodUndo(popped, Kinds, Change)
    BY <1>0, <1>5, PopRedoType DEF BeginRedo
  <2>2. tx' = Reverting(step) /\ undo' = BeginStep(popped, step.kind) /\ rows' = rows
    BY <1>5 DEF BeginRedo
  <2> HIDE DEF step, popped
  <2> QED BY <2>1, <2>2, FreshStepAccounts DEF Reverting
<1>6. ASSUME RevertChange
      PROVE  \A r \in Keys : Accounts(undo'.current_step.changes, r, rows'[r], tx'.base_rows[r])
  <2> DEFINE change == tx.step.changes[tx.left]
  <2>1. change \in Change /\ tx \in RevertTx
    BY <1>0, <1>6, NextChangeType, TxByPhase DEF RevertChange
  <2>2. tx'.base_rows = tx.base_rows /\ ~InTx("idle")
    BY <1>6, <2>1 DEF RevertChange, RevertTx, InTx
  <2>3. CASE change.table = "row" /\ SetRow(change.key, change.old) /\ UNCHANGED mod
    <3>1. change.key \in Keys /\ change.old \in Vals
      BY <2>1, <2>3, ChangeFields
    <3> HIDE DEF change
    <3> QED BY <1>0, <1>a, <2>2, <2>3, <3>1, SetRowAccounts
  <2>4. CASE /\ change.table = "col" /\ mod' = change.old
             /\ undo' = Stamped(undo) /\ UNCHANGED rows
    <3>1. HasStep(undo)
      BY <2>4 DEF Stamped, Save, HasStep
    <3> QED BY <1>0, <1>a, <2>2, <2>4, <3>1, StampedAccounts
  <2> QED BY <1>6, <2>3, <2>4 DEF RevertChange
<1>7. CASE Finish \/ Fail \/ FinishRevert
  BY <1>7, <1>i DEF Finish, Fail, FinishRevert
<1>8. CASE AddCustomUndoStep \/ \E target \in 1..MaxOps : MergeUndoableOps(target)
  BY <1>8 DEF AddCustomUndoStep, MergeUndoableOps, InTx
<1>9. CASE UNCHANGED vars
  BY <1>9, <1>a DEF vars, InTx
<1> QED BY <1>1, <1>2, <1>3, <1>4, <1>5, <1>6, <1>7, <1>8, <1>9 DEF Next

\* While an operation or an undo runs, reverting its open step would restore the
\* savepoint: every row is saved before it is written, and only its first saving
\* counts.
THEOREM StepAccountsCorrect == Spec => []StepAccountsForChanges
<1>1. Init => StepAccountsForChanges
  BY DEF Init, StepAccountsForChanges, InTx, Idle
<1>2. Spec => []TypeInv
  BY TypeInit, TypeStep, PTL DEF Spec
<1> QED BY <1>1, <1>2, AccountStep, PTL DEF Spec
---------------------------------------------------------------------------
(* A revert puts rows back from the newest change to the oldest. *)

\* What one row holds once the changes after position n have been reverted.
PutBack(changes, n, k, now, before) ==
  IF \E i \in (n + 1)..Len(changes) : Touches(changes[i], k)
  THEN OldAfter(changes, n, k, now)
  ELSE now = before

\* Reverting one more change moves the row it names to what that change recorded,
\* and no other row.
LEMMA OneMorePutBack ==
  ASSUME NEW changes \in Seq(Change), NEW n \in 1..Len(changes), NEW k,
         NEW now, NEW later, NEW before,
         PutBack(changes, n, k, now, before),
         later = IF Touches(changes[n], k) THEN changes[n].old ELSE now
  PROVE  PutBack(changes, n - 1, k, later, before)
<1>1. n \in Nat /\ n > 0 /\ Len(changes) \in Nat /\ n <= Len(changes) /\ (n - 1) + 1 = n
  OBVIOUS
<1>2. CASE Touches(changes[n], k)
  <2>1. /\ n \in ((n - 1) + 1)..Len(changes)
        /\ \A j \in ((n - 1) + 1)..(n - 1) : ~Touches(changes[j], k)
        /\ changes[n].old = later
    BY <1>1, <1>2
  <2>2. OldAfter(changes, n - 1, k, later)
    BY <1>2, <2>1 DEF OldAfter
  <2> QED BY <1>2, <2>1, <2>2 DEF PutBack
<1>3. CASE ~Touches(changes[n], k)
  <2>1. CASE \E i \in (n + 1)..Len(changes) : Touches(changes[i], k)
    <3>1. PICK i \in (n + 1)..Len(changes) :
            /\ Touches(changes[i], k) /\ changes[i].old = now
            /\ \A j \in (n + 1)..(i - 1) : ~Touches(changes[j], k)
      BY <2>1 DEF PutBack, OldAfter
    <3>2. i \in ((n - 1) + 1)..Len(changes)
      BY <1>1
    <3>3. \A j \in ((n - 1) + 1)..(i - 1) : ~Touches(changes[j], k)
      <4> SUFFICES ASSUME NEW j \in ((n - 1) + 1)..(i - 1)
                   PROVE  ~Touches(changes[j], k)
        OBVIOUS
      <4>1. j = n \/ j \in (n + 1)..(i - 1)
        BY <1>1
      <4> QED BY <1>3, <3>1, <4>1
    <3>4. OldAfter(changes, n - 1, k, later)
      BY <1>3, <3>1, <3>2, <3>3 DEF OldAfter
    <3> QED BY <3>1, <3>2, <3>4 DEF PutBack
  <2>2. CASE ~ \E i \in (n + 1)..Len(changes) : Touches(changes[i], k)
    <3>1. now = before
      BY <2>2 DEF PutBack
    <3>2. \A i \in ((n - 1) + 1)..Len(changes) : ~Touches(changes[i], k)
      <4> SUFFICES ASSUME NEW i \in ((n - 1) + 1)..Len(changes)
                   PROVE  ~Touches(changes[i], k)
        OBVIOUS
      <4>1. i = n \/ i \in (n + 1)..Len(changes)
        BY <1>1
      <4> QED BY <1>3, <2>2, <4>1
    <3> QED BY <1>3, <3>1, <3>2 DEF PutBack
  <2> QED BY <2>1, <2>2
<1> QED BY <1>2, <1>3

\* A revert starts with nothing put back.
LEMMA NothingPutBack ==
  ASSUME NEW step \in Step(Kinds, Change), tx' = Reverting(step), rows' = rows
  PROVE  \A r \in Keys : PutBack(tx'.step.changes, tx'.left, r, rows'[r], tx'.base_rows[r])
<1>1. /\ tx'.step.changes = step.changes /\ tx'.left = Len(step.changes)
      /\ tx'.base_rows = rows
  BY DEF Reverting
<1>2. Len(step.changes) \in Nat
  BY DEF Step
<1>3. ~ \E i \in (Len(step.changes) + 1)..Len(step.changes) : TRUE
  BY <1>2
<1> QED BY <1>1, <1>3 DEF PutBack

\* Every step of the machine keeps what a revert has put back.
LEMMA RevertStep == TypeInv /\ RevertProgress /\ [Next]_vars => RevertProgress'
<1> SUFFICES ASSUME TypeInv, RevertProgress, [Next]_vars, InTx("revert")'
             PROVE  \A r \in Keys :
                      PutBack(tx'.step.changes, tx'.left, r, rows'[r], tx'.base_rows[r])
  BY DEF RevertProgress, PutBack
<1>0. TypeOK /\ GoodUndo(undo, Kinds, Change) /\ rows \in [Keys -> Vals]
  BY TypeOKUndo DEF TypeInv
<1>a. InTx("revert") =>
        \A r \in Keys : PutBack(tx.step.changes, tx.left, r, rows[r], tx.base_rows[r])
  BY DEF RevertProgress, PutBack
<1>i. tx'.phase = "revert"
  BY DEF InTx
<1>1. CASE BeginUndo
  <2>1. Head(undo.undo_steps) \in Step(Kinds, Change)
    BY <1>0, <1>1, PopUndoType DEF BeginUndo
  <2> QED BY <1>1, <2>1, NothingPutBack DEF BeginUndo
<1>2. CASE BeginRedo
  <2>1. undo.redo_steps[Len(undo.redo_steps)] \in Step(Kinds, Change)
    BY <1>0, <1>2, PopRedoType DEF BeginRedo
  <2> QED BY <1>2, <2>1, NothingPutBack DEF BeginRedo
<1>3. CASE RevertChange
  <2> DEFINE changes == tx.step.changes
             change == changes[tx.left]
  <2>1. /\ InTx("revert") /\ tx \in RevertTx /\ changes \in Seq(Change)
        /\ tx.left \in 1..Len(changes) /\ change \in Change
    BY <1>0, <1>3, NextChangeType, TxByPhase DEF RevertChange, RevertTx, Step
  <2>2. /\ tx'.step.changes = changes /\ tx'.base_rows = tx.base_rows
        /\ tx'.left = tx.left - 1
    BY <1>3, <2>1 DEF RevertChange, RevertTx
  <2>3. \A r \in Keys :
          rows'[r] = IF Touches(change, r) THEN change.old ELSE rows[r]
    <3>1. CASE change.table = "row" /\ SetRow(change.key, change.old)
      <4>1. rows' = [rows EXCEPT ![change.key] = change.old]
        BY <3>1 DEF SetRow
      <4> HIDE DEF change
      <4> QED BY <1>0, <3>1, <4>1 DEF Touches
    <3>2. CASE change.table = "col" /\ UNCHANGED rows
      BY <3>2 DEF Touches
    <3> QED BY <1>3, <3>1, <3>2 DEF RevertChange
  <2> HIDE DEF changes
  <2>4. ASSUME NEW r \in Keys
        PROVE  PutBack(changes, tx.left - 1, r, rows'[r], tx.base_rows[r])
    <3>1. PutBack(changes, tx.left, r, rows[r], tx.base_rows[r])
      BY <1>a, <2>1 DEF changes
    <3> QED BY <2>1, <2>3, <3>1, OneMorePutBack
  <2> QED BY <2>2, <2>4
<1>4. CASE \/ \E kind \in OpKinds : BeginOp(kind)
           \/ BeginNoUndo
  BY <1>4, <1>i DEF BeginOp, BeginNoUndo, Open
<1>5. CASE Finish \/ Fail \/ FinishRevert
  <2>1. tx' = Idle
    BY <1>5 DEF Finish, Fail, FinishRevert
  <2> QED BY <1>i, <2>1 DEF Idle
<1>6. CASE \/ \E k \in Keys, v \in Vals : Write(k, v)
           \/ AddCustomUndoStep
           \/ \E target \in 1..MaxOps : MergeUndoableOps(target)
  BY <1>6, <1>i DEF Write, AddCustomUndoStep, MergeUndoableOps, InTx
<1>7. CASE UNCHANGED vars
  BY <1>7, <1>a, <1>i DEF vars, InTx
<1> QED BY <1>1, <1>2, <1>3, <1>4, <1>5, <1>6, <1>7 DEF Next

\* At any moment of an undo or redo the rows reached so far hold what they held
\* before the changes already reverted, and no other row has moved.
THEOREM RevertProgressCorrect == Spec => []RevertProgress
<1>1. Init => RevertProgress
  BY DEF Init, RevertProgress, InTx, Idle
<1>2. Spec => []TypeInv
  BY TypeInit, TypeStep, PTL DEF Spec
<1> QED BY <1>1, <1>2, RevertStep, PTL DEF Spec

\* With no change left to revert, the rows of the step are all put back.
LEMMA AllPutBack ==
  ASSUME TypeInv, RevertProgress
  PROVE  UndoRestores
<1> SUFFICES ASSUME InTx("revert"), tx.left = 0, NEW k \in Keys
             PROVE  IF Touched(tx.step.changes, k)
                    THEN FirstOld(tx.step.changes, k, rows[k])
                    ELSE rows[k] = tx.base_rows[k]
  BY DEF UndoRestores
<1>1. IF \E i \in (0 + 1)..Len(tx.step.changes) : Touches(tx.step.changes[i], k)
      THEN OldAfter(tx.step.changes, 0, k, rows[k])
      ELSE rows[k] = tx.base_rows[k]
  BY DEF RevertProgress
<1>2. 0 + 1 = 1
  OBVIOUS
<1> QED BY <1>1, <1>2 DEF Touched, FirstOld, OldAfter

\* A completed undo or redo has put back, for every row its step names, the value
\* from before the step.
THEOREM UndoRestoresRows == Spec => []UndoRestores
<1>1. Spec => []TypeInv
  BY TypeInit, TypeStep, PTL DEF Spec
<1> QED BY <1>1, AllPutBack, RevertProgressCorrect, PTL
---------------------------------------------------------------------------
(* Counters identify steps. *)

Falling(steps) ==
  \A i, j \in 1..Len(steps) : i < j => steps[i].counter > steps[j].counter

\* Counters fall from the newest step to the oldest, none is ahead of the manager's
\* own, and an open step is ahead of all that are kept.
CountersInv(u) ==
  /\ Falling(u.undo_steps)
  /\ \A i \in 1..Len(u.undo_steps) : u.undo_steps[i].counter <= u.counter
  /\ HasStep(u) =>
       /\ u.current_step.counter = u.counter
       /\ \A i \in 1..Len(u.undo_steps) : u.undo_steps[i].counter < u.counter

\* The inductive invariant: no step stays open between transactions, so a merge
\* never sets the counter back behind one.
OrderInv == CountersInv(undo) /\ (InTx("idle") => ~HasStep(undo))

\* The counter of every kept step is a natural number.
LEMMA StepCounters ==
  ASSUME NEW u, GoodUndo(u, Kinds, Change)
  PROVE  /\ u.counter \in Nat /\ Len(u.undo_steps) \in Nat
         /\ u.undo_steps \in Seq(Step(Kinds, Change))
         /\ \A i \in 1..Len(u.undo_steps) : u.undo_steps[i].counter \in Nat
<1>1. u.counter \in Nat /\ u.undo_steps \in Seq(Step(Kinds, Change))
  BY DEF GoodUndo, UndoState
<1>2. \A i \in 1..Len(u.undo_steps) : u.undo_steps[i] \in Step(Kinds, Change)
  BY <1>1
<1> QED BY <1>1, <1>2 DEF Step

\* Methods that leave the history, the counter and the open step's number alone.
LEMMA SameCounters ==
  ASSUME NEW u, NEW w, CountersInv(u), w.undo_steps = u.undo_steps, w.counter = u.counter,
         HasStep(w) => HasStep(u) /\ w.current_step.counter = u.current_step.counter
  PROVE  CountersInv(w)
BY DEF CountersInv

\* Saving a change keeps the counters.
LEMMA SaveCounters ==
  ASSUME NEW u, GoodUndo(u, Kinds, Change), CountersInv(u), NEW c
  PROVE  CountersInv(Save(u, c))
<1>1. CASE ~HasStep(u)
  BY <1>1 DEF Save
<1>2. CASE HasStep(u)
  <2>1. u.current_step \in Step(Kinds, Change)
    BY <1>2, OpenStepType DEF GoodUndo
  <2>2. /\ Save(u, c).undo_steps = u.undo_steps /\ Save(u, c).counter = u.counter
        /\ Save(u, c).current_step.counter = u.current_step.counter
    BY <1>2, <2>1 DEF Save, GoodUndo, UndoState, Step
  <2> QED BY <1>2, <2>2, SameCounters
<1> QED BY <1>1, <1>2

\* Coalescing keeps the counters.
LEMMA CoalescedCounters ==
  ASSUME NEW u, GoodUndo(u, Kinds, Change), CountersInv(u), NEW recent
  PROVE  CountersInv(Coalesced(u, recent))
<1>1. CASE Coalesced(u, recent) = u
  BY <1>1
<1>2. CASE HasStep(u) /\ Coalesced(u, recent) = ClearLastOp(u)
  <2>1. u.current_step \in Step(Kinds, Change)
    BY <1>2, OpenStepType DEF GoodUndo
  <2>2. /\ ClearLastOp(u).undo_steps = u.undo_steps /\ ClearLastOp(u).counter = u.counter
        /\ ClearLastOp(u).current_step.counter = u.current_step.counter
    BY <2>1 DEF ClearLastOp, GoodUndo, UndoState, Step
  <2> QED BY <1>2, <2>2, SameCounters
<1> QED BY <1>1, <1>2 DEF Coalesced, MayCoalesce

\* Clearing the history leaves nothing to be out of order.
LEMMA DiscardCounters ==
  ASSUME NEW u, GoodUndo(u, Kinds, Change), NEW w, w.undo_steps = <<>>,
         w.current_step = NoStep
  PROVE  CountersInv(w)
BY DEF CountersInv, Falling, HasStep

\* A new step is numbered past every kept one.
LEMMA BeginStepCounters ==
  ASSUME NEW u, GoodUndo(u, Kinds, Change), CountersInv(u), NEW kind
  PROVE  CountersInv(BeginStep(u, kind))
<1>1. /\ BeginStep(u, kind).undo_steps = u.undo_steps
      /\ BeginStep(u, kind).counter = u.counter + 1
      /\ BeginStep(u, kind).current_step.counter = u.counter + 1
  BY DEF BeginStep, GoodUndo, UndoState
<1>2. \A i \in 1..Len(u.undo_steps) : u.undo_steps[i].counter < u.counter + 1
  BY StepCounters DEF CountersInv
<1>3. \A i \in 1..Len(u.undo_steps) : u.undo_steps[i].counter <= u.counter + 1
  BY <1>2, StepCounters
<1> QED BY <1>1, <1>2, <1>3 DEF CountersInv

\* Taking the newest step out keeps the order of the others.
LEMMA PopUndoCounters ==
  ASSUME NEW u, GoodUndo(u, Kinds, Change), CountersInv(u), ~HasStep(u),
         u.undo_steps # <<>>
  PROVE  CountersInv([PopUndo(u) EXCEPT !.mode = "Undoing"])
<1> DEFINE w == [PopUndo(u) EXCEPT !.mode = "Undoing"]
<1>1. w.undo_steps = Tail(u.undo_steps) /\ w.counter = u.counter /\ ~HasStep(w)
  BY DEF PopUndo, GoodUndo, UndoState, HasStep
<1>2. /\ Len(Tail(u.undo_steps)) = Len(u.undo_steps) - 1
      /\ Len(u.undo_steps) \in Nat
      /\ \A i \in 1..Len(Tail(u.undo_steps)) :
           i + 1 \in 1..Len(u.undo_steps) /\ Tail(u.undo_steps)[i] = u.undo_steps[i + 1]
  BY StepCounters, HeadTailProperties
<1> HIDE DEF w
<1>3. \A i \in 1..Len(w.undo_steps) : w.undo_steps[i].counter <= w.counter
  BY <1>1, <1>2 DEF CountersInv
<1>4. ASSUME NEW i \in 1..Len(w.undo_steps), NEW j \in 1..Len(w.undo_steps), i < j
      PROVE  w.undo_steps[i].counter > w.undo_steps[j].counter
  <2>1. /\ i + 1 \in 1..Len(u.undo_steps) /\ j + 1 \in 1..Len(u.undo_steps)
        /\ i + 1 < j + 1
        /\ w.undo_steps[i] = u.undo_steps[i + 1] /\ w.undo_steps[j] = u.undo_steps[j + 1]
    BY <1>1, <1>2, <1>4
  <2> QED BY <2>1 DEF CountersInv, Falling
<1> QED BY <1>1, <1>3, <1>4 DEF CountersInv, Falling, w

\* A step put in front of some of the others keeps the order if it is numbered past
\* all of them.  Closing a step and merging steps both do this.
LEMMA FrontedCounters ==
  ASSUME NEW steps \in Seq(Step(Kinds, Change)), Falling(steps),
         \A i \in 1..Len(steps) : steps[i].counter \in Nat,
         NEW m \in 1..(Len(steps) + 1), NEW n \in (m - 1)..Len(steps),
         NEW front \in Step(Kinds, Change),
         NEW w, w.undo_steps = <<front>> \o SubSeq(steps, m, n), ~HasStep(w),
         w.counter \in Nat, w.counter = front.counter,
         \A i \in m..n : steps[i].counter < front.counter
  PROVE  CountersInv(w)
<1> DEFINE all == <<front>> \o SubSeq(steps, m, n)
<1>1. m \in Nat /\ n \in Nat /\ Len(steps) \in Nat /\ m >= 1 /\ n >= m - 1 /\ n <= Len(steps)
  OBVIOUS
<1>3. Len(all) = n - m + 2 /\ all[1] = front
  BY FrontedElements
<1>4. \A i \in 2..Len(all) :
        m + i - 2 \in m..n /\ m + i - 2 \in 1..Len(steps) /\ all[i] = steps[m + i - 2]
  BY FrontedElements
<1> HIDE DEF all
<1>5. Falling(all)
  <2> SUFFICES ASSUME NEW i \in 1..Len(all), NEW j \in 1..Len(all), i < j
               PROVE  all[i].counter > all[j].counter
    BY DEF Falling
  <2>1. j \in 2..Len(all) /\ (i = 1 \/ i \in 2..Len(all))
    BY <1>1, <1>3
  <2>2. CASE i = 1
    BY <1>3, <1>4, <2>1, <2>2
  <2>3. CASE i \in 2..Len(all)
    <3>1. m + i - 2 < m + j - 2
      BY <1>1
    <3> QED BY <1>4, <2>1, <2>3, <3>1 DEF Falling
  <2> QED BY <2>1, <2>2, <2>3
<1>6. \A i \in 1..Len(all) : all[i].counter <= w.counter
  <2> SUFFICES ASSUME NEW i \in 1..Len(all) PROVE all[i].counter <= w.counter
    OBVIOUS
  <2>1. CASE i = 1
    BY <1>3, <2>1
  <2>2. CASE i # 1
    <3>1. i \in 2..Len(all)
      BY <1>1, <1>3, <2>2
    <3>2. /\ m + i - 2 \in m..n /\ m + i - 2 \in 1..Len(steps)
          /\ all[i] = steps[m + i - 2]
      BY <1>4, <3>1
    <3>3. all[i].counter \in Nat /\ all[i].counter < front.counter
      BY <3>2
    <3> QED BY <3>3
  <2> QED BY <2>1, <2>2
<1>7. w.undo_steps = all
  BY DEF all
<1> QED BY <1>5, <1>6, <1>7 DEF CountersInv

\* Closing a step keeps the counters and leaves no step open.
LEMMA EndStepCounters ==
  ASSUME NEW u, GoodUndo(u, Kinds, Change), CountersInv(u), NEW skipUndo \in BOOLEAN
  PROVE  CountersInv(EndStep(u, skipUndo)) /\ ~HasStep(EndStep(u, skipUndo))
<1> DEFINE w == EndStep(u, skipUndo)
           n == IF Len(u.undo_steps) < UndoLimit - 1 THEN Len(u.undo_steps) ELSE UndoLimit - 1
<1>1. CASE ~HasStep(u)
  BY <1>1 DEF EndStep
<1>2. CASE HasStep(u)
  <2>1. u.current_step \in Step(Kinds, Change) /\ u.current_step.counter = u.counter
    BY <1>2, OpenStepType DEF GoodUndo, CountersInv
  <2>2. w.counter = u.counter /\ ~HasStep(w)
    BY <1>2 DEF EndStep, GoodUndo, UndoState, HasStep
  <2>3. \/ w.undo_steps = u.undo_steps
        \/ w.undo_steps = <<u.current_step>> \o SubSeq(u.undo_steps, 1, n)
    BY <1>2 DEF EndStep, KeepNewest, GoodUndo, UndoState
  <2>4. 1 \in 1..(Len(u.undo_steps) + 1) /\ n \in (1 - 1)..Len(u.undo_steps)
    BY StepCounters, UndoLimitAssumption
  <2> HIDE DEF w, n
  <2>5. CASE w.undo_steps = u.undo_steps
    <3>1. CountersInv(w)
      BY <2>2, <2>5, SameCounters
    <3> QED BY <2>2, <3>1 DEF w
  <2>6. CASE w.undo_steps = <<u.current_step>> \o SubSeq(u.undo_steps, 1, n)
    <3>1. \A i \in 1..n : u.undo_steps[i].counter < u.current_step.counter
      BY <1>2, <2>1, <2>4, StepCounters DEF CountersInv
    <3>2. Falling(u.undo_steps)
      BY DEF CountersInv
    <3>3. w.counter \in Nat /\ w.counter = u.current_step.counter
      BY <2>1, <2>2, StepCounters
    <3>4. CountersInv(w)
      BY <2>1, <2>2, <2>4, <2>6, <3>1, <3>2, <3>3, StepCounters, FrontedCounters
    <3> QED BY <2>2, <3>4 DEF w
  <2> QED BY <2>3, <2>5, <2>6
<1> QED BY <1>1, <1>2

\* Merging keeps the counters: the target is ahead of every step behind it.
LEMMA MergeIntoCounters ==
  ASSUME NEW u, GoodUndo(u, Kinds, Change), CountersInv(u), ~HasStep(u),
         NEW idx \in 1..Len(u.undo_steps)
  PROVE  CountersInv(MergeInto(u, idx)) /\ ~HasStep(MergeInto(u, idx))
<1> DEFINE w == MergeInto(u, idx)
           steps == u.undo_steps
           merged == [steps[idx] EXCEPT !.changes = JoinedChanges(steps, idx)]
<1>1. /\ steps \in Seq(Step(Kinds, Change)) /\ Len(steps) \in Nat
      /\ idx \in Nat /\ 1 <= idx /\ idx <= Len(steps)
      /\ \A i \in 1..Len(steps) : steps[i].counter \in Nat
  BY StepCounters
<1>2. steps[idx] \in Step(Kinds, Change) /\ JoinedChanges(steps, idx) \in Seq(Change)
  <2>1. idx \in 0..Len(steps)
    BY <1>1
  <2> HIDE DEF steps
  <2> QED BY <1>1, <2>1, JoinedChangesType
<1>3. merged \in Step(Kinds, Change) /\ merged.counter = steps[idx].counter
  BY <1>2 DEF Step
<1>4. /\ w.undo_steps = <<merged>> \o SubSeq(steps, idx + 1, Len(steps))
      /\ w.counter = steps[idx].counter
      /\ ~HasStep(w)
  BY DEF MergeInto, HasStep, GoodUndo, UndoState
<1>5. Falling(steps)
  BY DEF CountersInv
<1>6. /\ idx + 1 \in 1..(Len(steps) + 1) /\ Len(steps) \in ((idx + 1) - 1)..Len(steps)
  BY <1>1
<1>7. \A i \in (idx + 1)..Len(steps) : steps[i].counter < merged.counter
  <2> SUFFICES ASSUME NEW i \in (idx + 1)..Len(steps)
               PROVE  steps[i].counter < merged.counter
    OBVIOUS
  <2>1. i \in 1..Len(steps) /\ idx < i
    BY <1>1
  <2> QED BY <1>1, <1>3, <1>5, <2>1 DEF Falling
<1> HIDE DEF w, steps, merged
<1>8. w.counter \in Nat /\ w.counter = merged.counter
  BY <1>1, <1>3, <1>4
<1>9. CountersInv(w)
  BY <1>1, <1>3, <1>4, <1>5, <1>6, <1>7, <1>8, FrontedCounters
<1> QED BY <1>4, <1>9 DEF w

\* Every step of the machine keeps the counters.
LEMMA OrderStep == TypeInv /\ OrderInv /\ [Next]_vars => OrderInv'
<1> SUFFICES ASSUME TypeInv, OrderInv, [Next]_vars PROVE OrderInv'
  OBVIOUS
<1>0. /\ TypeOK /\ GoodUndo(undo, Kinds, Change) /\ CountersInv(undo)
      /\ InTx("idle") => ~HasStep(undo)
  BY TypeOKUndo DEF TypeInv, OrderInv
<1> USE <1>0
<1>p. ASSUME CountersInv(undo'), ~HasStep(undo') \/ tx'.phase # "idle" PROVE OrderInv'
  BY <1>p DEF OrderInv, InTx
<1>1. ASSUME NEW kind \in OpKinds, BeginOp(kind) PROVE OrderInv'
  <2>1. CountersInv(undo')
    BY <1>1, BeginStepCounters DEF BeginOp
  <2>2. tx'.phase = "body"
    BY <1>1 DEF BeginOp, Open
  <2> QED BY <1>p, <2>1, <2>2
<1>2. CASE BeginNoUndo \/ Fail
  <2>1. undo'.undo_steps = <<>> /\ undo'.current_step = NoStep
    BY <1>2 DEF BeginNoUndo, Fail, Discard, GoodUndo, UndoState
  <2>2. CountersInv(undo')
    BY <2>1, DiscardCounters
  <2> QED BY <1>p, <2>1, <2>2 DEF HasStep
<1>3. ASSUME NEW k \in Keys, NEW v \in Vals, Write(k, v) PROVE OrderInv'
  <2>1. CountersInv(undo')
    BY <1>3, SaveCounters DEF Write, SetRow
  <2>2. tx'.phase = "body"
    BY <1>3 DEF Write, InTx
  <2> QED BY <1>p, <2>1, <2>2
<1>4. ASSUME Finish PROVE OrderInv'
  <2>1. PICK recent \in BOOLEAN, stamped \in {undo, Stamped(undo)} :
          undo' = EndStep(Coalesced(stamped, recent), tx.kind = "SkipUndo")
    BY <1>4 DEF Finish
  <2>2. GoodUndo(stamped, Kinds, Change) /\ CountersInv(stamped)
    BY <2>1, StampedType, SaveCounters DEF Stamped
  <2>3. GoodUndo(Coalesced(stamped, recent), Kinds, Change)
        /\ CountersInv(Coalesced(stamped, recent))
    BY <2>2, CoalescedType, CoalescedCounters
  <2> QED BY <1>p, <2>1, <2>3, EndStepCounters
<1>5. ASSUME BeginUndo PROVE OrderInv'
  <2>1. /\ GoodUndo([PopUndo(undo) EXCEPT !.mode = "Undoing"], Kinds, Change)
        /\ CountersInv([PopUndo(undo) EXCEPT !.mode = "Undoing"])
    BY <1>5, PopUndoType, PopUndoCounters DEF BeginUndo
  <2>2. CountersInv(undo')
    BY <1>5, <2>1, BeginStepCounters DEF BeginUndo
  <2>3. tx'.phase = "revert"
    BY <1>5 DEF BeginUndo, Reverting
  <2> QED BY <1>p, <2>2, <2>3
<1>6. ASSUME BeginRedo PROVE OrderInv'
  <2> DEFINE popped == [PopRedo(undo) EXCEPT !.mode = "Redoing"]
  <2>1. GoodUndo(popped, Kinds, Change)
    BY <1>6, PopRedoType DEF BeginRedo
  <2>2. /\ popped.undo_steps = undo.undo_steps /\ popped.counter = undo.counter
        /\ popped.current_step = undo.current_step
    BY DEF PopRedo, GoodUndo, UndoState
  <2>3. CountersInv(popped)
    <3> HIDE DEF popped
    <3> QED BY <2>2, SameCounters DEF HasStep
  <2>4. CountersInv(undo')
    BY <1>6, <2>1, <2>3, BeginStepCounters DEF BeginRedo
  <2>5. tx'.phase = "revert"
    BY <1>6 DEF BeginRedo, Reverting
  <2> QED BY <1>p, <2>4, <2>5
<1>7. ASSUME RevertChange PROVE OrderInv'
  <2>1. CountersInv(undo')
    BY <1>7, SaveCounters DEF RevertChange, SetRow, Stamped
  <2>2. tx'.phase = "revert"
    <3>1. tx \in RevertTx /\ tx' = [tx EXCEPT !.left = tx.left - 1]
      BY <1>7, TxByPhase DEF RevertChange
    <3> QED BY <3>1 DEF RevertTx
  <2> QED BY <1>p, <2>1, <2>2
<1>8. ASSUME FinishRevert PROVE OrderInv'
  <2>1. PICK recent \in BOOLEAN :
          undo' = [EndStep(Coalesced(undo, recent), FALSE) EXCEPT !.mode = "NormalOp"]
    BY <1>8 DEF FinishRevert
  <2> DEFINE ended == EndStep(Coalesced(undo, recent), FALSE)
  <2>2. /\ GoodUndo(ended, Kinds, Change) /\ CountersInv(ended) /\ ~HasStep(ended)
    BY CoalescedType, CoalescedCounters, EndStepCounters, EndStepType
  <2> HIDE DEF ended
  <2>3. /\ undo'.undo_steps = ended.undo_steps /\ undo'.counter = ended.counter
        /\ undo'.current_step = ended.current_step
    BY <2>1, <2>2 DEF GoodUndo, UndoState, ended
  <2>4. CountersInv(undo') /\ ~HasStep(undo')
    BY <2>2, <2>3, SameCounters DEF HasStep
  <2> QED BY <1>p, <2>4
<1>9. ASSUME AddCustomUndoStep PROVE OrderInv'
  <2>1. "Custom" \in Kinds
    BY DEF Kinds
  <2>2. /\ GoodUndo(BeginStep(undo, "Custom"), Kinds, Change)
        /\ CountersInv(BeginStep(undo, "Custom"))
    BY <2>1, BeginStepType, BeginStepCounters
  <2> QED BY <1>9, <1>p, <2>2, EndStepCounters DEF AddCustomUndoStep, AddCustomStep
<1>10. ASSUME NEW target \in 1..MaxOps, MergeUndoableOps(target) PROVE OrderInv'
  <2>1. PICK idx \in TargetIndexes(undo, target) : undo' = MergeInto(undo, idx)
    BY <1>10 DEF MergeUndoableOps
  <2>2. idx \in 1..Len(undo.undo_steps) /\ ~HasStep(undo)
    BY <1>10, <2>1 DEF TargetIndexes, MergeUndoableOps
  <2> QED BY <1>p, <2>1, <2>2, MergeIntoCounters
<1>11. CASE UNCHANGED vars
  BY <1>11 DEF vars, OrderInv, InTx
<1> QED
  BY <1>1, <1>2, <1>3, <1>4, <1>5, <1>6, <1>7, <1>8, <1>9, <1>10, <1>11 DEF Next

\* Counters fall along the undo history and never run ahead of the manager's own,
\* however steps are undone, redone, dropped and merged: the counter a caller keeps
\* names at most one step.
THEOREM CountersCorrect == Spec => []CountersIdentifySteps
<1>1. Init => OrderInv
  BY DEF Init, InitUndo, OrderInv, CountersInv, Falling, HasStep
<1>2. Spec => []TypeInv
  BY TypeInit, TypeStep, PTL DEF Spec
<1>3. OrderInv => CountersIdentifySteps
  BY DEF OrderInv, CountersInv, Falling, CountersIdentifySteps
<1> QED BY <1>1, <1>2, <1>3, OrderStep, PTL DEF Spec

---------------------------------------------------------------------------
(***************************************************************************)
(* Transactions implements UndoHistory: every step of the machine maps to  *)
(* a step of the abstract history or to a stutter.                         *)
(*                                                                         *)
(* Besides the invariants above the proof needs to know what a kept step  *)
(* looks like.  An operation stamps the collection last, so that a step    *)
(* kept for undoing ends with the stamp; undoing it records the stamp      *)
(* first, so that a step kept for redoing begins with it.  That is why an  *)
(* undo is never coalesced into the entry before it.                       *)
(***************************************************************************)

BeginsWithStamp(changes) == changes # <<>> => changes[1].table = "col"
EndsWithStamp(changes) == changes # <<>> => changes[Len(changes)].table = "col"

Undoable(step) == EndsWithStamp(step.changes) /\ HasChanges(step)
Redoable(step) == BeginsWithStamp(step.changes) /\ HasChanges(step)

\* What is kept in the two histories.
KeptSteps(u) ==
  /\ \A i \in 1..Len(u.undo_steps) : Undoable(u.undo_steps[i])
  /\ \A i \in 1..Len(u.redo_steps) : Redoable(u.redo_steps[i])

\* The mode tells what is running, and an operation has nothing to redo.  One
\* outside the history starts from an empty one.
PhaseInv ==
  /\ InTx("idle") => undo.mode = "NormalOp" /\ ~HasStep(undo)
  /\ InTx("body") =>
       /\ undo.mode = "NormalOp" /\ undo.redo_steps = <<>>
       /\ ~HasStep(undo) => undo.undo_steps = <<>>
       /\ HasStep(undo) => undo.current_step.kind \in OpKinds
  /\ InTx("revert") =>
       undo.mode \in {"Undoing", "Redoing"} /\ HasStep(undo)

\* The open step of an undo or a redo: it belongs to the step that is being
\* reverted, names no other row, and has recorded the stamp first or last.
RevertingInv ==
  InTx("revert") =>
    LET reverted == tx.step
        open == undo.current_step
    IN /\ open.kind = reverted.kind
       /\ \A k \in Keys : Touched(open.changes, k) => Touched(reverted.changes, k)
       /\ tx.left = Len(reverted.changes) => open.changes = <<>>
       /\ undo.mode = "Undoing" =>
            /\ Undoable(reverted)
            /\ tx.left # Len(reverted.changes) =>
                 open.changes # <<>> /\ BeginsWithStamp(open.changes)
       /\ undo.mode = "Redoing" =>
            /\ Redoable(reverted)
            /\ tx.left = 0 /\ reverted.changes # <<>> =>
                 open.changes # <<>> /\ EndsWithStamp(open.changes)

ShapeInv == KeptSteps(undo) /\ PhaseInv /\ RevertingInv
---------------------------------------------------------------------------
(* The pre-image a list of changes stands for. *)

\* At most one value is the first recorded of a row.
LEMMA FirstOldUnique ==
  ASSUME NEW changes \in Seq(Change), NEW k, NEW v, NEW w,
         FirstOld(changes, k, v), FirstOld(changes, k, w)
  PROVE  v = w
<1>1. PICK i \in 1..Len(changes) :
        /\ Touches(changes[i], k) /\ changes[i].old = v
        /\ \A j \in 1..(i - 1) : ~Touches(changes[j], k)
  BY DEF FirstOld
<1>2. PICK h \in 1..Len(changes) :
        /\ Touches(changes[h], k) /\ changes[h].old = w
        /\ \A j \in 1..(h - 1) : ~Touches(changes[j], k)
  BY DEF FirstOld
<1>3. i = h
  <2>1. ~(i < h) /\ ~(h < i)
    BY <1>1, <1>2
  <2> QED BY <2>1
<1> QED BY <1>1, <1>2, <1>3

\* A row that is named by some change has a first recorded value.
LEMMA FirstOldExists ==
  ASSUME NEW changes \in Seq(Change), NEW k, Touched(changes, k)
  PROVE  \E v \in Vals : FirstOld(changes, k, v)
<1> DEFINE T == {i \in 1..Len(changes) : Touches(changes[i], k)}
<1>1. T \subseteq Nat /\ T # {}
  BY DEF Touched
<1>2. PICK i \in T : \A j \in T : ~(j < i)
  <2> HIDE DEF T
  <2> QED BY <1>1, LeastNatural
<1>3. i \in 1..Len(changes) /\ Touches(changes[i], k)
  BY <1>2
<1>4. \A j \in 1..(i - 1) : ~Touches(changes[j], k)
  <2> SUFFICES ASSUME NEW j \in 1..(i - 1) PROVE ~Touches(changes[j], k)
    OBVIOUS
  <2>1. j \in 1..Len(changes) /\ j < i
    BY <1>3
  <2> QED BY <1>2, <2>1
<1>5. changes[i].old \in Vals
  BY <1>3, ChangeFields DEF Touches
<1> QED BY <1>3, <1>4, <1>5 DEF FirstOld

\* Net maps the rows named to what was first recorded of them.
LEMMA NetValue ==
  ASSUME NEW changes \in Seq(Change)
  PROVE  /\ DOMAIN Net(changes) = TouchedKeys(changes)
         /\ TouchedKeys(changes) \subseteq Keys
         /\ Net(changes) \in History!PreImage
         /\ \A k \in TouchedKeys(changes) :
              Net(changes)[k] \in Vals /\ FirstOld(changes, k, Net(changes)[k])
<1>1. ASSUME NEW k \in TouchedKeys(changes)
      PROVE  Net(changes)[k] \in Vals /\ FirstOld(changes, k, Net(changes)[k])
  <2>1. \E v \in Vals : FirstOld(changes, k, v)
    BY <1>1, FirstOldExists DEF TouchedKeys
  <2>2. Net(changes)[k] = CHOOSE v \in Vals : FirstOld(changes, k, v)
    BY DEF Net
  <2> QED BY <2>1, <2>2
<1>2. DOMAIN Net(changes) = TouchedKeys(changes) /\ TouchedKeys(changes) \subseteq Keys
  BY DEF Net, TouchedKeys
<1>3. Net(changes) \in [TouchedKeys(changes) -> Vals]
  <2>1. Net(changes) = [k \in TouchedKeys(changes) |-> Net(changes)[k]]
    BY DEF Net
  <2> HIDE DEF Net
  <2> QED BY <1>1, <2>1
<1>4. Net(changes) \in History!PreImage
  BY <1>2, <1>3 DEF History!PreImage
<1> QED BY <1>1, <1>2, <1>4

\* If a step accounts for the rows, its pre-image is what the rows it names held.
LEMMA NetOfAccount ==
  ASSUME NEW changes \in Seq(Change), NEW now, NEW before \in [Keys -> Vals],
         \A k \in Keys : Accounts(changes, k, now[k], before[k])
  PROVE  /\ Net(changes) = [k \in TouchedKeys(changes) |-> before[k]]
         /\ \A k \in Keys \ TouchedKeys(changes) : now[k] = before[k]
<1>1. ASSUME NEW k \in TouchedKeys(changes) PROVE Net(changes)[k] = before[k]
  <2>1. FirstOld(changes, k, Net(changes)[k])
    BY NetValue
  <2>2. FirstOld(changes, k, before[k])
    BY DEF TouchedKeys, Accounts
  <2> QED BY <2>1, <2>2, FirstOldUnique
<1>2. Net(changes) = [k \in TouchedKeys(changes) |-> Net(changes)[k]]
  BY DEF Net
<1>3. \A k \in Keys \ TouchedKeys(changes) : now[k] = before[k]
  BY DEF TouchedKeys, Accounts
<1> HIDE DEF Net
<1> QED BY <1>1, <1>2, <1>3

\* The pre-images of a history.
LEMMA NetAllType ==
  ASSUME NEW steps \in Seq(Step(Kinds, Change))
  PROVE  /\ NetAll(steps) \in Seq(History!PreImage)
         /\ Len(NetAll(steps)) = Len(steps)
         /\ \A i \in 1..Len(steps) : NetAll(steps)[i] = Net(steps[i].changes)
         /\ \A i \in 1..Len(steps) : steps[i].changes \in Seq(Change)
<1>1. \A i \in 1..Len(steps) : steps[i].changes \in Seq(Change)
  <2>1. \A i \in 1..Len(steps) : steps[i] \in Step(Kinds, Change)
    OBVIOUS
  <2> QED BY <2>1 DEF Step
<1>2. \A i \in 1..Len(steps) : Net(steps[i].changes) \in History!PreImage
  BY <1>1, NetValue
<1>3. Len(steps) \in Nat
  OBVIOUS
<1>4. /\ NetAll(steps) \in [1..Len(steps) -> History!PreImage]
      /\ \A i \in 1..Len(steps) : NetAll(steps)[i] = Net(steps[i].changes)
  BY <1>2 DEF NetAll
<1>5. NetAll(steps) \in Seq(History!PreImage) /\ Len(NetAll(steps)) = Len(steps)
  BY <1>3, <1>4
<1> QED BY <1>1, <1>4, <1>5

\* Putting a step in front of part of a history does the same to the pre-images.
LEMMA NetAllFronted ==
  ASSUME NEW steps \in Seq(Step(Kinds, Change)), NEW front \in Step(Kinds, Change),
         NEW m \in 1..(Len(steps) + 1), NEW n \in (m - 1)..Len(steps)
  PROVE  NetAll(<<front>> \o SubSeq(steps, m, n))
           = <<Net(front.changes)>> \o SubSeq(NetAll(steps), m, n)
<1> DEFINE all == <<front>> \o SubSeq(steps, m, n)
           nets == <<Net(front.changes)>> \o SubSeq(NetAll(steps), m, n)
<1>1. /\ all \in Seq(Step(Kinds, Change)) /\ Len(all) = n - m + 2 /\ all[1] = front
      /\ \A i \in 2..Len(all) :
           m + i - 2 \in m..n /\ m + i - 2 \in 1..Len(steps)
           /\ all[i] = steps[m + i - 2]
  BY FrontedElements
<1>2. front.changes \in Seq(Change)
  BY DEF Step
<1>3. Net(front.changes) \in History!PreImage
  BY <1>2, NetValue
<1>4. NetAll(steps) \in Seq(History!PreImage) /\ Len(NetAll(steps)) = Len(steps)
  BY NetAllType
<1>5. /\ nets \in Seq(History!PreImage) /\ Len(nets) = n - m + 2
      /\ nets[1] = Net(front.changes)
      /\ \A i \in 2..Len(nets) : nets[i] = NetAll(steps)[m + i - 2]
  BY <1>3, <1>4, FrontedElements
<1>6. /\ NetAll(all) \in Seq(History!PreImage) /\ Len(NetAll(all)) = Len(all)
      /\ \A i \in 1..Len(all) : NetAll(all)[i] = Net(all[i].changes)
  BY <1>1, NetAllType
<1> HIDE DEF all, nets
<1>7. ASSUME NEW i \in 1..Len(NetAll(all)) PROVE NetAll(all)[i] = nets[i]
  <2>1. CASE i = 1
    BY <1>1, <1>5, <1>6, <2>1
  <2>2. CASE i # 1
    <3>1. i \in 2..Len(all) /\ i \in 2..Len(nets) /\ i \in 1..Len(all)
      BY <1>1, <1>5, <1>6, <2>2
    <3>2. NetAll(steps)[m + i - 2] = Net(steps[m + i - 2].changes)
      BY <1>1, <3>1, NetAllType
    <3> QED BY <1>1, <1>5, <1>6, <3>1, <3>2
  <2> QED BY <2>1, <2>2
<1>8. NetAll(all) = nets
  BY <1>1, <1>5, <1>6, <1>7, SeqEqual
<1> QED BY <1>8 DEF all, nets

\* Appending a step appends its pre-image.
LEMMA NetAllAppended ==
  ASSUME NEW steps \in Seq(Step(Kinds, Change)), NEW step \in Step(Kinds, Change)
  PROVE  NetAll(Append(steps, step)) = Append(NetAll(steps), Net(step.changes))
<1> DEFINE all == Append(steps, step)
           nets == Append(NetAll(steps), Net(step.changes))
<1>1. /\ all \in Seq(Step(Kinds, Change)) /\ Len(all) = Len(steps) + 1
      /\ \A i \in 1..Len(steps) : all[i] = steps[i]
      /\ all[Len(steps) + 1] = step
      /\ Len(steps) \in Nat
  BY AppendProperties
<1>2. step.changes \in Seq(Change)
  BY DEF Step
<1>3. Net(step.changes) \in History!PreImage
  BY <1>2, NetValue
<1>4. /\ NetAll(steps) \in Seq(History!PreImage) /\ Len(NetAll(steps)) = Len(steps)
      /\ \A i \in 1..Len(steps) : NetAll(steps)[i] = Net(steps[i].changes)
  BY NetAllType
<1>5. /\ nets \in Seq(History!PreImage) /\ Len(nets) = Len(steps) + 1
      /\ \A i \in 1..Len(steps) : nets[i] = NetAll(steps)[i]
      /\ nets[Len(steps) + 1] = Net(step.changes)
  BY <1>3, <1>4, AppendProperties
<1>6. /\ NetAll(all) \in Seq(History!PreImage) /\ Len(NetAll(all)) = Len(all)
      /\ \A i \in 1..Len(all) : NetAll(all)[i] = Net(all[i].changes)
  BY <1>1, NetAllType
<1> HIDE DEF all, nets
<1>7. ASSUME NEW i \in 1..Len(NetAll(all)) PROVE NetAll(all)[i] = nets[i]
  <2>1. i \in 1..Len(steps) \/ i = Len(steps) + 1
    BY <1>1, <1>6
  <2> QED BY <1>1, <1>4, <1>5, <1>6, <2>1
<1>8. NetAll(all) = nets
  BY <1>1, <1>5, <1>6, <1>7, SeqEqual
<1> QED BY <1>8 DEF all, nets

\* Part of a history has part of the pre-images.
LEMMA NetAllPart ==
  ASSUME NEW steps \in Seq(Step(Kinds, Change)),
         NEW m \in 1..(Len(steps) + 1), NEW n \in (m - 1)..Len(steps)
  PROVE  NetAll(SubSeq(steps, m, n)) = SubSeq(NetAll(steps), m, n)
<1> DEFINE part == SubSeq(steps, m, n)
           nets == SubSeq(NetAll(steps), m, n)
<1>1. m \in Nat /\ n \in Nat /\ Len(steps) \in Nat /\ m >= 1 /\ n >= m - 1 /\ n <= Len(steps)
  OBVIOUS
<1>2. /\ NetAll(steps) \in Seq(History!PreImage) /\ Len(NetAll(steps)) = Len(steps)
      /\ \A i \in 1..Len(steps) : NetAll(steps)[i] = Net(steps[i].changes)
  BY NetAllType
<1>3. /\ part \in Seq(Step(Kinds, Change)) /\ Len(part) = n - m + 1
      /\ \A i \in 1..(n - m + 1) : part[i] = steps[m + i - 1]
  BY <1>1, SubSeqProperties
<1>4. /\ nets \in Seq(History!PreImage) /\ Len(nets) = n - m + 1
      /\ \A i \in 1..(n - m + 1) : nets[i] = NetAll(steps)[m + i - 1]
  BY <1>1, <1>2, SubSeqProperties
<1>5. /\ NetAll(part) \in Seq(History!PreImage) /\ Len(NetAll(part)) = Len(part)
      /\ \A i \in 1..Len(part) : NetAll(part)[i] = Net(part[i].changes)
  BY <1>3, NetAllType
<1> HIDE DEF part, nets
<1>6. ASSUME NEW i \in 1..Len(NetAll(part)) PROVE NetAll(part)[i] = nets[i]
  <2>1. i \in 1..(n - m + 1) /\ i \in 1..Len(part)
    BY <1>3, <1>5
  <2>2. m + i - 1 \in 1..Len(steps)
    BY <1>1, <2>1
  <2> QED BY <1>2, <1>3, <1>4, <1>5, <2>1, <2>2
<1>7. NetAll(part) = nets
  BY <1>3, <1>4, <1>5, <1>6, SeqEqual
<1> QED BY <1>7 DEF part, nets

\* The newest pre-image and the others.
LEMMA NetAllNewest ==
  ASSUME NEW steps \in Seq(Step(Kinds, Change)), steps # <<>>
  PROVE  /\ NetAll(steps) = <<Net(Head(steps).changes)>> \o NetAll(Tail(steps))
         /\ NetAll(steps) # <<>> /\ Head(NetAll(steps)) = Net(Head(steps).changes)
<1>1. Len(steps) \in Nat /\ Len(steps) > 0 /\ Head(steps) = steps[1]
  OBVIOUS
<1>2. /\ NetAll(steps) \in Seq(History!PreImage) /\ Len(NetAll(steps)) = Len(steps)
      /\ \A i \in 1..Len(steps) : NetAll(steps)[i] = Net(steps[i].changes)
  BY NetAllType
<1>3. NetAll(Tail(steps)) = SubSeq(NetAll(steps), 2, Len(steps))
  <2>1. Tail(steps) = SubSeq(steps, 2, Len(steps))
    BY TailIsSubSeq
  <2>2. 2 \in 1..(Len(steps) + 1) /\ Len(steps) \in (2 - 1)..Len(steps)
    BY <1>1
  <2> QED BY <2>1, <2>2, NetAllPart
<1>4. SubSeq(NetAll(steps), 1, Len(steps))
        = <<NetAll(steps)[1]>> \o SubSeq(NetAll(steps), 1 + 1, Len(steps))
  <2>1. 1 \in 1..Len(NetAll(steps)) /\ Len(steps) \in 1..Len(NetAll(steps))
    BY <1>1, <1>2
  <2> QED BY <1>2, <2>1, SubSeqRecursiveFirst
<1>5. SubSeq(NetAll(steps), 1, Len(steps)) = NetAll(steps)
  BY <1>2, SubSeqFull
<1>6. NetAll(steps)[1] = Net(Head(steps).changes) /\ 1 + 1 = 2
  BY <1>1, <1>2
<1>7. NetAll(steps) # <<>> /\ Head(NetAll(steps)) = NetAll(steps)[1]
  BY <1>1, <1>2
<1> QED BY <1>3, <1>4, <1>5, <1>6, <1>7

\* The next pre-image to redo and the others.
LEMMA NetAllLast ==
  ASSUME NEW steps \in Seq(Step(Kinds, Change)), steps # <<>>
  PROVE  NetAll(steps) = NetAll(SubSeq(steps, 1, Len(steps) - 1))
                           \o <<Net(steps[Len(steps)].changes)>>
<1>1. Len(steps) \in Nat /\ Len(steps) > 0
  OBVIOUS
<1>2. /\ NetAll(steps) \in Seq(History!PreImage) /\ Len(NetAll(steps)) = Len(steps)
      /\ \A i \in 1..Len(steps) : NetAll(steps)[i] = Net(steps[i].changes)
  BY NetAllType
<1>3. NetAll(SubSeq(steps, 1, Len(steps) - 1)) = SubSeq(NetAll(steps), 1, Len(steps) - 1)
  <2>1. 1 \in 1..(Len(steps) + 1) /\ Len(steps) - 1 \in (1 - 1)..Len(steps)
    BY <1>1
  <2> QED BY <2>1, NetAllPart
<1>4. SubSeq(NetAll(steps), 1, Len(steps))
        = SubSeq(NetAll(steps), 1, Len(steps) - 1) \o <<NetAll(steps)[Len(steps)]>>
  <2>1. 1 \in 1..Len(NetAll(steps)) /\ Len(steps) \in 1..Len(NetAll(steps))
    BY <1>1, <1>2
  <2> QED BY <1>2, <2>1, SubSeqRecursiveSecond
<1>5. SubSeq(NetAll(steps), 1, Len(steps)) = NetAll(steps)
  BY <1>2, SubSeqFull
<1>6. NetAll(steps)[Len(steps)] = Net(steps[Len(steps)].changes)
  BY <1>1, <1>2
<1> QED BY <1>3, <1>4, <1>5, <1>6

\* What is behind an element put in front, and before one put at the end.
LEMMA FrontTaken ==
  ASSUME NEW S, NEW s \in Seq(S), NEW x \in S
  PROVE  /\ <<x>> \o s # <<>> /\ Head(<<x>> \o s) = x /\ Tail(<<x>> \o s) = s
<1> DEFINE one == <<x>>
           all == one \o s
<1>1. one \in Seq(S) /\ Len(one) = 1 /\ one[1] = x
  OBVIOUS
<1> HIDE DEF one
<1>2. /\ all \in Seq(S) /\ Len(all) = 1 + Len(s) /\ Len(s) \in Nat
      /\ \A i \in 1..(1 + Len(s)) : all[i] = IF i <= 1 THEN one[i] ELSE s[i - 1]
  <2>1. /\ all \in Seq(S) /\ Len(all) = Len(one) + Len(s)
        /\ \A i \in 1..(Len(one) + Len(s)) :
             all[i] = IF i <= Len(one) THEN one[i] ELSE s[i - Len(one)]
    BY <1>1, ConcatProperties
  <2> QED BY <1>1, <2>1
<1> HIDE DEF all
<1>3. all # <<>> /\ Head(all) = x
  BY <1>1, <1>2
<1>4. /\ Tail(all) \in Seq(S) /\ Len(Tail(all)) = Len(s)
      /\ \A i \in 1..Len(Tail(all)) : Tail(all)[i] = s[i]
  <2>1. /\ Tail(all) \in Seq(S) /\ Len(Tail(all)) = Len(all) - 1
        /\ \A i \in 1..Len(Tail(all)) : Tail(all)[i] = all[i + 1]
    BY <1>2, <1>3, HeadTailProperties
  <2> QED BY <1>2, <2>1
<1>5. Tail(all) = s
  BY <1>4, SeqEqual
<1> QED BY <1>3, <1>5 DEF all, one

\* A sequence that was added to ends with what was added.
LEMMA EndTaken ==
  ASSUME NEW S, NEW s \in Seq(S), NEW x \in S
  PROVE  LET all == s \o <<x>>
         IN all # <<>> /\ all[Len(all)] = x /\ SubSeq(all, 1, Len(all) - 1) = s
<1> DEFINE all == Append(s, x)
<1>1. s \o <<x>> = all
  BY AppendIsConcat
<1>2. /\ all \in Seq(S) /\ all # <<>> /\ Len(all) = Len(s) + 1 /\ Len(s) \in Nat
      /\ \A i \in 1..Len(s) : all[i] = s[i]
      /\ all[Len(s) + 1] = x
  BY AppendProperties
<1> HIDE DEF all
<1>3. /\ SubSeq(all, 1, Len(s)) \in Seq(S) /\ Len(SubSeq(all, 1, Len(s))) = Len(s)
      /\ \A i \in 1..Len(s) : SubSeq(all, 1, Len(s))[i] = all[i]
  <2>1. \A i \in 1..Len(s) : all[i] \in S
    BY <1>2
  <2>2. /\ SubSeq(all, 1, Len(s)) \in Seq(S)
        /\ Len(SubSeq(all, 1, Len(s))) = IF 1 <= Len(s) THEN Len(s) - 1 + 1 ELSE 0
        /\ \A i \in 1..(Len(s) - 1 + 1) : SubSeq(all, 1, Len(s))[i] = all[1 + i - 1]
    BY <1>2, <2>1, SubSeqProperties
  <2> QED BY <1>2, <2>2
<1>4. SubSeq(all, 1, Len(s)) = s
  BY <1>2, <1>3, SeqEqual
<1>5. Len(all) - 1 = Len(s)
  BY <1>2
<1> QED BY <1>1, <1>2, <1>4, <1>5
---------------------------------------------------------------------------
(* Joining the changes of several steps joins their pre-images. *)

\* A row is named by joined changes if one of the parts names it, and what was
\* first recorded of it is in the first part that does.
LEMMA ConcatChanges ==
  ASSUME NEW a \in Seq(Change), NEW b \in Seq(Change)
  PROVE  /\ a \o b \in Seq(Change)
         /\ \A k : Touched(a \o b, k) <=> Touched(a, k) \/ Touched(b, k)
         /\ \A k, v : FirstOld(a, k, v) => FirstOld(a \o b, k, v)
         /\ \A k, v : ~Touched(a, k) /\ FirstOld(b, k, v) => FirstOld(a \o b, k, v)
         /\ a # <<>> \/ b # <<>> => a \o b # <<>>
         /\ EndsWithStamp(a) /\ EndsWithStamp(b) => EndsWithStamp(a \o b)
<1> DEFINE c == a \o b
<1>1. /\ c \in Seq(Change) /\ Len(c) = Len(a) + Len(b) /\ Len(a) \in Nat /\ Len(b) \in Nat
      /\ \A i \in 1..(Len(a) + Len(b)) : c[i] = IF i <= Len(a) THEN a[i] ELSE b[i - Len(a)]
  BY ConcatProperties
<1> HIDE DEF c
<1>2. /\ \A i \in 1..Len(a) : i \in 1..Len(c) /\ c[i] = a[i]
      /\ \A i \in 1..Len(b) : i + Len(a) \in 1..Len(c) /\ c[i + Len(a)] = b[i]
      /\ \A i \in 1..Len(c) : i \in 1..Len(a) \/ i - Len(a) \in 1..Len(b)
  <2>1. ASSUME NEW i \in 1..Len(b) PROVE i + Len(a) \in 1..Len(c) /\ c[i + Len(a)] = b[i]
    <3>1. i + Len(a) \in 1..(Len(a) + Len(b)) /\ ~(i + Len(a) <= Len(a))
      BY <1>1
    <3>2. c[i + Len(a)] = b[(i + Len(a)) - Len(a)] /\ (i + Len(a)) - Len(a) = i
      BY <1>1, <3>1
    <3> QED BY <1>1, <3>1, <3>2
  <2>2. ASSUME NEW i \in 1..Len(a) PROVE i \in 1..Len(c) /\ c[i] = a[i]
    BY <1>1
  <2>3. ASSUME NEW i \in 1..Len(c) PROVE i \in 1..Len(a) \/ i - Len(a) \in 1..Len(b)
    BY <1>1
  <2> QED BY <2>1, <2>2, <2>3
<1>3. ASSUME NEW k PROVE Touched(c, k) <=> Touched(a, k) \/ Touched(b, k)
  <2>1. ASSUME NEW i \in 1..Len(c), Touches(c[i], k) PROVE Touched(a, k) \/ Touched(b, k)
    <3>1. CASE i \in 1..Len(a)
      BY <1>2, <2>1, <3>1 DEF Touched
    <3>2. CASE i - Len(a) \in 1..Len(b)
      <4>1. c[(i - Len(a)) + Len(a)] = b[i - Len(a)] /\ (i - Len(a)) + Len(a) = i
        BY <1>1, <1>2, <3>2
      <4> QED BY <2>1, <3>2, <4>1 DEF Touched
    <3> QED BY <1>2, <3>1, <3>2
  <2>2. ASSUME NEW i \in 1..Len(a), Touches(a[i], k) PROVE Touched(c, k)
    BY <1>2, <2>2 DEF Touched
  <2>3. ASSUME NEW i \in 1..Len(b), Touches(b[i], k) PROVE Touched(c, k)
    BY <1>2, <2>3 DEF Touched
  <2> QED BY <2>1, <2>2, <2>3 DEF Touched
<1>4. ASSUME NEW k, NEW v, FirstOld(a, k, v) PROVE FirstOld(c, k, v)
  <2>1. PICK i \in 1..Len(a) : /\ Touches(a[i], k) /\ a[i].old = v
                               /\ \A j \in 1..(i - 1) : ~Touches(a[j], k)
    BY <1>4 DEF FirstOld
  <2>2. i \in 1..Len(c) /\ c[i] = a[i]
    BY <1>2
  <2>3. \A j \in 1..(i - 1) : j \in 1..Len(a) /\ c[j] = a[j]
    BY <1>1, <1>2
  <2> QED BY <2>1, <2>2, <2>3 DEF FirstOld
<1>5. ASSUME NEW k, NEW v, ~Touched(a, k), FirstOld(b, k, v) PROVE FirstOld(c, k, v)
  <2>1. PICK i \in 1..Len(b) : /\ Touches(b[i], k) /\ b[i].old = v
                               /\ \A j \in 1..(i - 1) : ~Touches(b[j], k)
    BY <1>5 DEF FirstOld
  <2> DEFINE h == i + Len(a)
  <2>2. h \in 1..Len(c) /\ c[h] = b[i]
    BY <1>2
  <2>3. ASSUME NEW j \in 1..(h - 1) PROVE ~Touches(c[j], k)
    <3>1. CASE j \in 1..Len(a)
      BY <1>2, <1>5, <3>1 DEF Touched
    <3>2. CASE j \notin 1..Len(a)
      <4>1. j - Len(a) \in 1..(i - 1) /\ j - Len(a) \in 1..Len(b) /\ (j - Len(a)) + Len(a) = j
        BY <1>1, <3>2
      <4>2. c[(j - Len(a)) + Len(a)] = b[j - Len(a)]
        BY <1>2, <4>1
      <4> QED BY <2>1, <4>1, <4>2
    <3> QED BY <3>1, <3>2
  <2> HIDE DEF h
  <2> QED BY <2>1, <2>2, <2>3 DEF FirstOld
<1>6. a # <<>> \/ b # <<>> => c # <<>>
  BY <1>1
<1>7. ASSUME EndsWithStamp(a), EndsWithStamp(b) PROVE EndsWithStamp(c)
  <2>1. CASE b = <<>>
    <3>1. Len(c) = Len(a)
      BY <1>1, <2>1
    <3>2. c # <<>> => a # <<>> /\ Len(a) \in 1..Len(a)
      BY <1>1, <3>1
    <3> QED BY <1>2, <1>7, <3>1, <3>2 DEF EndsWithStamp
  <2>2. CASE b # <<>>
    <3>1. Len(b) \in 1..Len(b) /\ Len(b) + Len(a) = Len(c)
      BY <1>1, <2>2
    <3> QED BY <1>2, <1>7, <2>2, <3>1 DEF EndsWithStamp
  <2> QED BY <2>1, <2>2
<1> QED BY <1>1, <1>3, <1>4, <1>5, <1>6, <1>7 DEF c

\* What joined says about the steps from n down to m.
JoinedFrom(joined, steps, m, n) ==
  /\ \A k \in Keys :
       Touched(joined, k) <=> \E j \in m..n : Touched(steps[j].changes, k)
  /\ \A j \in m..n, k \in Keys, v \in Vals :
       /\ FirstOld(steps[j].changes, k, v)
       /\ \A h \in (j + 1)..n : ~Touched(steps[h].changes, k)
       => FirstOld(joined, k, v)
  /\ \A j \in m..n : steps[j].changes # <<>> => joined # <<>>
  /\ EndsWithStamp(joined)

\* One more step joined at the end of the list, where the newer steps go.
LEMMA OneMoreJoined ==
  ASSUME NEW steps \in Seq(Step(Kinds, Change)), NEW n \in 1..Len(steps), NEW m \in 1..n,
         \A i \in 1..Len(steps) : EndsWithStamp(steps[i].changes),
         NEW joined \in Seq(Change), JoinedFrom(joined, steps, m + 1, n)
  PROVE  JoinedFrom(joined \o steps[m].changes, steps, m, n)
<1>1. m \in 1..Len(steps) /\ n \in Nat /\ m \in Nat
  OBVIOUS
<1>2. steps[m].changes \in Seq(Change)
  BY <1>1, NetAllType
<1>3. \A j : j \in m..n <=> j = m \/ j \in (m + 1)..n
  BY <1>1
<1> DEFINE b == steps[m].changes
<1>4. \A k \in Keys :
        Touched(joined \o b, k) <=> \E j \in m..n : Touched(steps[j].changes, k)
  <2> SUFFICES ASSUME NEW k \in Keys
               PROVE  Touched(joined \o b, k)
                        <=> \E j \in m..n : Touched(steps[j].changes, k)
    OBVIOUS
  <2>1. Touched(joined \o b, k) <=> Touched(joined, k) \/ Touched(b, k)
    BY <1>2, ConcatChanges
  <2>2. Touched(joined, k) <=> \E j \in (m + 1)..n : Touched(steps[j].changes, k)
    BY DEF JoinedFrom
  <2> QED BY <1>3, <2>1, <2>2
<1>5. ASSUME NEW j \in m..n, NEW k \in Keys, NEW v \in Vals,
             FirstOld(steps[j].changes, k, v),
             \A h \in (j + 1)..n : ~Touched(steps[h].changes, k)
      PROVE  FirstOld(joined \o b, k, v)
  <2>1. CASE j = m
    <3>1. ~Touched(joined, k)
      BY <1>5, <2>1 DEF JoinedFrom
    <3> QED BY <1>2, <1>5, <2>1, <3>1, ConcatChanges
  <2>2. CASE j \in (m + 1)..n
    <3>1. FirstOld(joined, k, v)
      BY <1>5, <2>2 DEF JoinedFrom
    <3> QED BY <1>2, <3>1, ConcatChanges
  <2> QED BY <1>3, <2>1, <2>2
<1>6. ASSUME NEW j \in m..n, steps[j].changes # <<>> PROVE joined \o b # <<>>
  BY <1>2, <1>3, <1>6, ConcatChanges DEF JoinedFrom
<1>7. EndsWithStamp(joined \o b)
  BY <1>1, <1>2, ConcatChanges DEF JoinedFrom
<1> QED BY <1>4, <1>5, <1>6, <1>7 DEF JoinedFrom

\* What JoinedChanges returns, by induction over the steps joined so far.
LEMMA JoinedChangesMeans ==
  ASSUME NEW steps \in Seq(Step(Kinds, Change)), NEW n \in 1..Len(steps),
         \A i \in 1..Len(steps) : EndsWithStamp(steps[i].changes)
  PROVE  /\ JoinedChanges(steps, n) \in Seq(Change)
         /\ JoinedFrom(JoinedChanges(steps, n), steps, 1, n)
<1>0. n \in 0..Len(steps) /\ n \in Nat /\ n >= 1 /\ n \in 0..n
  OBVIOUS
<1>1. PICK f \in [0..n -> Seq(Change)] :
        JoinEquation(f, steps, n) /\ JoinedChanges(steps, n) = f[n]
  BY <1>0, JoinedChangesSolution
<1> DEFINE Bad == {i \in 0..n : ~JoinedFrom(f[i], steps, n - i + 1, n)}
<1>2. Bad = {}
  <2> SUFFICES ASSUME Bad # {} PROVE FALSE
    OBVIOUS
  <2>1. PICK i \in Bad : \A j \in Bad : ~(j < i)
    <3>1. Bad \subseteq Nat
      BY <1>0
    <3> HIDE DEF Bad
    <3> QED BY <3>1, LeastNatural
  <2>2. i \in 0..n /\ ~JoinedFrom(f[i], steps, n - i + 1, n)
    BY <2>1
  <2>3. f[i] = IF i = 0 THEN <<>> ELSE f[i - 1] \o steps[n - i + 1].changes
    BY <1>1, <2>2 DEF JoinEquation
  <2>4. CASE i = 0
    <3>1. JoinedFrom(<<>>, steps, n - 0 + 1, n)
      <4>1. \A j : j \notin (n - 0 + 1)..n
        BY <1>0
      <4>2. \A k \in Keys : ~Touched(<<>>, k)
        BY DEF Touched
      <4> QED BY <4>1, <4>2 DEF JoinedFrom, EndsWithStamp
    <3> QED BY <2>2, <2>3, <2>4, <3>1
  <2>5. CASE i # 0
    <3>1. i - 1 \in 0..n /\ i - 1 < i /\ n - (i - 1) + 1 = (n - i + 1) + 1
          /\ n - i + 1 \in 1..n
      BY <1>0, <2>2, <2>5
    <3>2. JoinedFrom(f[i - 1], steps, (n - i + 1) + 1, n) /\ f[i - 1] \in Seq(Change)
      BY <1>1, <2>1, <3>1
    <3>3. JoinedFrom(f[i - 1] \o steps[n - i + 1].changes, steps, n - i + 1, n)
      BY <3>1, <3>2, OneMoreJoined
    <3> QED BY <2>2, <2>3, <2>5, <3>3
  <2> QED BY <2>4, <2>5
<1>3. JoinedFrom(f[n], steps, n - n + 1, n)
  BY <1>0, <1>2
<1>4. n - n + 1 = 1
  BY <1>0
<1>5. f[n] \in Seq(Change)
  BY <1>0
<1> QED BY <1>1, <1>3, <1>4, <1>5

\* A kept step's own account of a row, given by its pre-image.
LEMMA KeptPreImages ==
  ASSUME NEW steps \in Seq(Step(Kinds, Change)), NEW i \in 1..Len(steps)
  PROVE  /\ NetAll(steps)[i] = Net(steps[i].changes)
         /\ steps[i].changes \in Seq(Change)
         /\ \A k \in Keys : k \in DOMAIN NetAll(steps)[i] <=> Touched(steps[i].changes, k)
         /\ DOMAIN NetAll(steps)[i] \subseteq Keys
         /\ \A k \in DOMAIN NetAll(steps)[i] :
              /\ NetAll(steps)[i][k] \in Vals
              /\ FirstOld(steps[i].changes, k, NetAll(steps)[i][k])
<1>1. NetAll(steps)[i] = Net(steps[i].changes) /\ steps[i].changes \in Seq(Change)
  BY NetAllType
<1> QED BY <1>1, NetValue DEF TouchedKeys

\* The oldest pre-image of a row among the newest n is well defined.
LEMMA OldestExists ==
  ASSUME NEW past, NEW n \in Nat, NEW k, \E i \in 1..n : k \in DOMAIN past[i]
  PROVE  \E i \in 1..n : /\ k \in DOMAIN past[i]
                         /\ \A j \in (i + 1)..n : k \notin DOMAIN past[j]
<1> DEFINE T == {d \in 0..n : n - d \in 1..n /\ k \in DOMAIN past[n - d]}
<1>1. T \subseteq Nat
  OBVIOUS
<1>2. T # {}
  <2>1. PICK i \in 1..n : k \in DOMAIN past[i]
    OBVIOUS
  <2>2. n - i \in 0..n /\ n - (n - i) = i
    OBVIOUS
  <2> QED BY <2>1, <2>2
<1>3. PICK d \in T : \A e \in T : ~(e < d)
  <2> HIDE DEF T
  <2> QED BY <1>1, <1>2, LeastNatural
<1>4. n - d \in 1..n /\ k \in DOMAIN past[n - d] /\ d \in 0..n
  BY <1>3
<1>5. ASSUME NEW j \in ((n - d) + 1)..n PROVE k \notin DOMAIN past[j]
  <2>1. n - j \in 0..n /\ n - (n - j) = j /\ n - j < d /\ j \in 1..n
    BY <1>4
  <2> QED BY <1>3, <2>1
<1> QED BY <1>4, <1>5

\* The pre-image of the joined changes is the join of the pre-images.
LEMMA JoinedPreImage ==
  ASSUME NEW steps \in Seq(Step(Kinds, Change)), NEW n \in 1..Len(steps),
         \A i \in 1..Len(steps) : EndsWithStamp(steps[i].changes),
         Past = NetAll(steps)
  PROVE  Net(JoinedChanges(steps, n)) = History!Joined(n)
<1> DEFINE joined == JoinedChanges(steps, n)
           past == NetAll(steps)
           named == UNION {DOMAIN past[i] : i \in 1..n}
<1>0. n \in Nat /\ Len(steps) \in Nat /\ \A i \in 1..n : i \in 1..Len(steps)
  OBVIOUS
<1>1. joined \in Seq(Change) /\ JoinedFrom(joined, steps, 1, n)
  BY JoinedChangesMeans
<1>2. ASSUME NEW i \in 1..n
      PROVE  /\ \A k \in Keys : k \in DOMAIN past[i] <=> Touched(steps[i].changes, k)
             /\ DOMAIN past[i] \subseteq Keys
             /\ \A k \in DOMAIN past[i] :
                  past[i][k] \in Vals /\ FirstOld(steps[i].changes, k, past[i][k])
  BY <1>0, KeptPreImages
<1> HIDE DEF joined, past
<1>3. TouchedKeys(joined) = named
  <2>1. \A k \in Keys : Touched(joined, k) <=> \E i \in 1..n : Touched(steps[i].changes, k)
    BY <1>1 DEF JoinedFrom
  <2>2. \A k \in Keys : Touched(joined, k) <=> \E i \in 1..n : k \in DOMAIN past[i]
    BY <1>2, <2>1
  <2>3. \A k \in named : k \in Keys
    BY <1>2
  <2> QED BY <2>2, <2>3 DEF TouchedKeys
<1>4. ASSUME NEW k \in named
      PROVE  Net(joined)[k] = past[History!Oldest(n, k)][k]
  <2> DEFINE o == CHOOSE i \in 1..n : /\ k \in DOMAIN past[i]
                                      /\ \A j \in (i + 1)..n : k \notin DOMAIN past[j]
  <2>1. History!Oldest(n, k) = o
    BY DEF History!Oldest, past
  <2>2. \E i \in 1..n : k \in DOMAIN past[i]
    BY <1>4
  <2>3. /\ o \in 1..n /\ k \in DOMAIN past[o]
        /\ \A j \in (o + 1)..n : k \notin DOMAIN past[j]
    <3>1. \E i \in 1..n : /\ k \in DOMAIN past[i]
                          /\ \A j \in (i + 1)..n : k \notin DOMAIN past[j]
      BY <1>0, <2>2, OldestExists
    <3> QED BY <3>1
  <2> HIDE DEF o
  <2>4. k \in Keys /\ past[o][k] \in Vals /\ FirstOld(steps[o].changes, k, past[o][k])
    BY <1>2, <2>3
  <2>5. \A j \in (o + 1)..n : ~Touched(steps[j].changes, k)
    <3>1. \A j \in (o + 1)..n : j \in 1..n
      BY <2>3
    <3> QED BY <1>2, <2>3, <2>4, <3>1
  <2>6. FirstOld(joined, k, past[o][k])
    BY <1>1, <2>3, <2>4, <2>5 DEF JoinedFrom
  <2>7. FirstOld(joined, k, Net(joined)[k])
    BY <1>1, <1>3, <1>4, NetValue
  <2> QED BY <1>1, <2>1, <2>6, <2>7, FirstOldUnique
<1>5. Net(joined) = [k \in named |-> Net(joined)[k]]
  BY <1>3 DEF Net
<1>6. History!Joined(n) = [k \in named |-> past[History!Oldest(n, k)][k]]
  BY DEF History!Joined, past
<1> HIDE DEF named
<1>7. Net(joined) = History!Joined(n)
  BY <1>4, <1>5, <1>6
<1> QED BY <1>7 DEF joined
---------------------------------------------------------------------------
(* What the methods do to the two histories. *)

\* How many kept steps remain behind a new one.
Kept(steps) == IF Len(steps) < UndoLimit - 1 THEN Len(steps) ELSE UndoLimit - 1

\* The bounds within which a stack of steps is cut.
LEMMA KeptRange ==
  ASSUME NEW u, GoodUndo(u, Kinds, Change)
  PROVE  /\ u.undo_steps \in Seq(Step(Kinds, Change))
         /\ u.redo_steps \in Seq(Step(Kinds, Change))
         /\ 1 \in 1..(Len(u.undo_steps) + 1) /\ Len(u.undo_steps) \in Nat
         /\ Kept(u.undo_steps) \in (1 - 1)..Len(u.undo_steps)
         /\ u.current_step \in Step(Kinds, Change) \cup {NoStep}
<1>1. /\ u.undo_steps \in Seq(Step(Kinds, Change)) /\ u.redo_steps \in Seq(Step(Kinds, Change))
      /\ u.current_step \in Step(Kinds, Change) \cup {NoStep}
  BY DEF GoodUndo, UndoState
<1>2. Len(u.undo_steps) \in Nat
  BY <1>1
<1> QED BY <1>1, <1>2, UndoLimitAssumption DEF Kept

\* Recording a change appends it to the open step and does nothing else.
LEMMA SaveCases ==
  ASSUME NEW u, GoodUndo(u, Kinds, Change), NEW c \in Change
  PROVE  LET w == Save(u, c)
         IN /\ w.undo_steps = u.undo_steps /\ w.redo_steps = u.redo_steps /\ w.mode = u.mode
            /\ HasStep(w) <=> HasStep(u)
            /\ HasStep(u) =>
                 /\ w.current_step.kind = u.current_step.kind
                 /\ w.current_step.changes = Append(u.current_step.changes, c)
<1>1. CASE ~HasStep(u)
  BY <1>1 DEF Save
<1>2. CASE HasStep(u)
  <2>1. u.current_step \in Step(Kinds, Change)
    BY <1>2, OpenStepType DEF GoodUndo
  <2>2. /\ Save(u, c).undo_steps = u.undo_steps /\ Save(u, c).redo_steps = u.redo_steps
        /\ Save(u, c).mode = u.mode
        /\ Save(u, c).current_step.kind = u.current_step.kind
    BY <1>2, <2>1 DEF Save, GoodUndo, UndoState, Step
  <2> QED BY <1>2, <2>2, SaveAppends
<1> QED BY <1>1, <1>2

\* Coalescing empties the open edit of a note, or does nothing.
LEMMA CoalescedCases ==
  ASSUME NEW u, GoodUndo(u, Kinds, Change), NEW recent \in BOOLEAN
  PROVE  LET w == Coalesced(u, recent)
         IN /\ w.undo_steps = u.undo_steps /\ w.redo_steps = u.redo_steps /\ w.mode = u.mode
            /\ HasStep(w) <=> HasStep(u)
            /\ w = u \/ (MayCoalesce(u) /\ ~HasChanges(w.current_step))
<1>1. CASE Coalesced(u, recent) = u
  BY <1>1
<1>2. CASE MayCoalesce(u) /\ Coalesced(u, recent) = ClearLastOp(u)
  <2> DEFINE w == ClearLastOp(u)
  <2>1. HasStep(u) /\ u.current_step.kind = "UpdateNote"
    BY <1>2 DEF MayCoalesce, NoteEdit
  <2>2. u.current_step \in Step(Kinds, Change)
    BY <2>1, OpenStepType DEF GoodUndo
  <2>3. /\ w.undo_steps = u.undo_steps /\ w.redo_steps = u.redo_steps /\ w.mode = u.mode
        /\ w.current_step.kind = "UpdateNote" /\ w.current_step.changes = <<>>
    BY <2>1, <2>2 DEF ClearLastOp, GoodUndo, UndoState, Step
  <2>4. HasStep(w)
    BY <2>1, ClearLastOpType
  <2> HIDE DEF w
  <2> QED BY <1>2, <2>1, <2>3, <2>4 DEF HasChanges, w
<1> QED BY <1>1, <1>2 DEF Coalesced

\* Where a step goes when it is closed.
LEMMA EndStepCases ==
  ASSUME NEW u, GoodUndo(u, Kinds, Change), HasStep(u), NEW skipUndo \in BOOLEAN
  PROVE  LET w == EndStep(u, skipUndo)
             step == u.current_step
         IN /\ w.mode = u.mode /\ ~HasStep(w)
            /\ skipUndo \/ ~HasChanges(step) =>
                 w.undo_steps = u.undo_steps /\ w.redo_steps = u.redo_steps
            /\ ~skipUndo /\ HasChanges(step) /\ u.mode = "Undoing" =>
                 w.undo_steps = u.undo_steps /\ w.redo_steps = Append(u.redo_steps, step)
            /\ ~skipUndo /\ HasChanges(step) /\ u.mode # "Undoing" =>
                 /\ w.undo_steps = <<step>> \o SubSeq(u.undo_steps, 1, Kept(u.undo_steps))
                 /\ w.redo_steps = u.redo_steps
BY DEF EndStep, GoodUndo, UndoState, HasStep, Kept, KeepNewest

\* Opening a step.
LEMMA BeginStepCases ==
  ASSUME NEW u, GoodUndo(u, Kinds, Change), NEW kind \in Kinds
  PROVE  LET w == BeginStep(u, kind)
         IN /\ w.mode = u.mode /\ w.undo_steps = u.undo_steps
            /\ w.redo_steps = IF u.mode = "NormalOp" THEN <<>> ELSE u.redo_steps
            /\ HasStep(w) /\ w.current_step.kind = kind /\ w.current_step.changes = <<>>
<1>1. [kind |-> kind, changes |-> <<>>, counter |-> u.counter + 1] # NoStep
  BY DEF NoStep
<1> QED BY <1>1 DEF BeginStep, GoodUndo, UndoState, HasStep

\* Resetting the mode changes nothing else.
LEMMA ModeReset ==
  ASSUME NEW u, GoodUndo(u, Kinds, Change), NEW mode \in {"NormalOp", "Undoing", "Redoing"}
  PROVE  LET w == [u EXCEPT !.mode = mode]
         IN /\ GoodUndo(w, Kinds, Change) /\ w.mode = mode
            /\ w.undo_steps = u.undo_steps /\ w.redo_steps = u.redo_steps
            /\ w.current_step = u.current_step
            /\ HasStep(w) <=> HasStep(u)
BY DEF GoodUndo, UndoState, HasStep

\* A step in front of some of the others: all can be undone if all could.
LEMMA FrontedUndoable ==
  ASSUME NEW steps \in Seq(Step(Kinds, Change)), NEW front \in Step(Kinds, Change),
         NEW m \in 1..(Len(steps) + 1), NEW n \in (m - 1)..Len(steps)
  PROVE  LET all == <<front>> \o SubSeq(steps, m, n)
         IN Undoable(front) /\ (\A i \in 1..Len(steps) : Undoable(steps[i]))
              => \A i \in 1..Len(all) : Undoable(all[i])
<1> DEFINE all == <<front>> \o SubSeq(steps, m, n)
<1>1. /\ all \in Seq(Step(Kinds, Change)) /\ Len(all) = n - m + 2 /\ all[1] = front
      /\ \A i \in 2..Len(all) :
           m + i - 2 \in m..n /\ m + i - 2 \in 1..Len(steps)
           /\ all[i] = steps[m + i - 2]
  BY FrontedElements
<1> HIDE DEF all
<1>2. \A i \in 1..Len(all) : i = 1 \/ i \in 2..Len(all)
  BY <1>1
<1> QED BY <1>1, <1>2 DEF all

\* Closing a step keeps what is known of the kept steps.
LEMMA EndStepKept ==
  ASSUME NEW u, GoodUndo(u, Kinds, Change), HasStep(u), NEW skipUndo \in BOOLEAN,
         KeptSteps(u),
         ~skipUndo /\ HasChanges(u.current_step) =>
           IF u.mode = "Undoing" THEN BeginsWithStamp(u.current_step.changes)
                                 ELSE EndsWithStamp(u.current_step.changes)
  PROVE  KeptSteps(EndStep(u, skipUndo))
<1> DEFINE w == EndStep(u, skipUndo)
           step == u.current_step
<1>0. /\ u.undo_steps \in Seq(Step(Kinds, Change)) /\ u.redo_steps \in Seq(Step(Kinds, Change))
      /\ 1 \in 1..(Len(u.undo_steps) + 1) /\ Kept(u.undo_steps) \in (1 - 1)..Len(u.undo_steps)
      /\ step \in Step(Kinds, Change)
  BY KeptRange, OpenStepType DEF GoodUndo
<1>1. CASE skipUndo \/ ~HasChanges(step)
  <2>1. w.undo_steps = u.undo_steps /\ w.redo_steps = u.redo_steps
    BY <1>1, EndStepCases
  <2> HIDE DEF w
  <2> QED BY <2>1 DEF KeptSteps, w
<1>2. CASE ~skipUndo /\ HasChanges(step) /\ u.mode = "Undoing"
  <2>1. w.undo_steps = u.undo_steps /\ w.redo_steps = Append(u.redo_steps, step)
    BY <1>2, EndStepCases
  <2>2. Redoable(step)
    BY <1>2 DEF Redoable
  <2>3. /\ Len(Append(u.redo_steps, step)) = Len(u.redo_steps) + 1
        /\ \A i \in 1..Len(u.redo_steps) : Append(u.redo_steps, step)[i] = u.redo_steps[i]
        /\ Append(u.redo_steps, step)[Len(u.redo_steps) + 1] = step
        /\ Len(u.redo_steps) \in Nat
    BY <1>0, AppendProperties
  <2>4. \A i \in 1..Len(Append(u.redo_steps, step)) : Redoable(Append(u.redo_steps, step)[i])
    <3>1. \A i \in 1..(Len(u.redo_steps) + 1) :
            i \in 1..Len(u.redo_steps) \/ i = Len(u.redo_steps) + 1
      BY <2>3
    <3> QED BY <2>2, <2>3, <3>1 DEF KeptSteps
  <2> HIDE DEF w, step
  <2> QED BY <2>1, <2>4 DEF KeptSteps, w
<1>3. CASE ~skipUndo /\ HasChanges(step) /\ u.mode # "Undoing"
  <2> DEFINE all == <<step>> \o SubSeq(u.undo_steps, 1, Kept(u.undo_steps))
  <2>1. w.undo_steps = all /\ w.redo_steps = u.redo_steps
    BY <1>3, EndStepCases
  <2>2. Undoable(step)
    BY <1>3 DEF Undoable
  <2>3. \A i \in 1..Len(all) : Undoable(all[i])
    <3>1. \A i \in 1..Len(u.undo_steps) : Undoable(u.undo_steps[i])
      BY DEF KeptSteps
    <3> QED BY <1>0, <2>2, <3>1, FrontedUndoable
  <2> HIDE DEF w, step, all
  <2> QED BY <2>1, <2>3 DEF KeptSteps, w
<1> QED BY <1>1, <1>2, <1>3

\* Taking the newest step out of a history, and the last one.
LEMMA PoppedKept ==
  ASSUME NEW u, GoodUndo(u, Kinds, Change), KeptSteps(u), NEW mode
  PROVE  /\ u.undo_steps # <<>> =>
              KeptSteps([PopUndo(u) EXCEPT !.mode = mode]) /\ Undoable(Head(u.undo_steps))
         /\ u.redo_steps # <<>> =>
              KeptSteps([PopRedo(u) EXCEPT !.mode = mode])
              /\ Redoable(u.redo_steps[Len(u.redo_steps)])
<1>0. u.undo_steps \in Seq(Step(Kinds, Change)) /\ u.redo_steps \in Seq(Step(Kinds, Change))
  BY KeptRange
<1>1. ASSUME u.undo_steps # <<>>
      PROVE  KeptSteps([PopUndo(u) EXCEPT !.mode = mode]) /\ Undoable(Head(u.undo_steps))
  <2> DEFINE w == [PopUndo(u) EXCEPT !.mode = mode]
             steps == u.undo_steps
  <2>1. w.undo_steps = Tail(steps) /\ w.redo_steps = u.redo_steps
    BY DEF PopUndo, GoodUndo, UndoState
  <2>2. /\ Len(Tail(steps)) = Len(steps) - 1 /\ Len(steps) \in Nat
        /\ \A i \in 1..Len(Tail(steps)) : Tail(steps)[i] = steps[i + 1]
    BY <1>0, <1>1, HeadTailProperties
  <2>3. \A i \in 1..Len(Tail(steps)) : i + 1 \in 1..Len(steps)
    BY <2>2
  <2>4. Head(steps) = steps[1] /\ 1 \in 1..Len(steps)
    BY <1>0, <1>1
  <2> HIDE DEF w
  <2> QED BY <2>1, <2>2, <2>3, <2>4 DEF KeptSteps, w
<1>2. ASSUME u.redo_steps # <<>>
      PROVE  KeptSteps([PopRedo(u) EXCEPT !.mode = mode])
             /\ Redoable(u.redo_steps[Len(u.redo_steps)])
  <2> DEFINE w == [PopRedo(u) EXCEPT !.mode = mode]
             steps == u.redo_steps
             rest == SubSeq(steps, 1, Len(steps) - 1)
  <2>1. w.undo_steps = u.undo_steps /\ w.redo_steps = rest
    BY DEF PopRedo, GoodUndo, UndoState
  <2>2. Len(steps) \in Nat /\ Len(steps) > 0 /\ \A i \in 1..(Len(steps) - 1) : i \in 1..Len(steps)
    BY <1>0, <1>2
  <2>3. Len(rest) = Len(steps) - 1 /\ \A i \in 1..(Len(steps) - 1) : rest[i] = steps[i]
    <3>1. \A i \in 1..(Len(steps) - 1) : steps[i] \in Step(Kinds, Change)
      BY <1>0, <2>2
    <3>2. /\ Len(rest) = IF 1 <= Len(steps) - 1 THEN (Len(steps) - 1) - 1 + 1 ELSE 0
          /\ \A i \in 1..((Len(steps) - 1) - 1 + 1) : rest[i] = steps[1 + i - 1]
      BY <2>2, <3>1, SubSeqProperties
    <3> QED BY <2>2, <3>2
  <2> HIDE DEF w, rest
  <2> QED BY <2>1, <2>2, <2>3 DEF KeptSteps, w
<1> QED BY <1>1, <1>2

\* Merging keeps it too: the joined changes end with the stamp of the newest step.
LEMMA MergedKept ==
  ASSUME NEW u, GoodUndo(u, Kinds, Change), KeptSteps(u), NEW idx \in 1..Len(u.undo_steps)
  PROVE  KeptSteps(MergeInto(u, idx))
<1> DEFINE w == MergeInto(u, idx)
           steps == u.undo_steps
           merged == [steps[idx] EXCEPT !.changes = JoinedChanges(steps, idx)]
           all == <<merged>> \o SubSeq(steps, idx + 1, Len(steps))
<1>0. steps \in Seq(Step(Kinds, Change)) /\ Len(steps) \in Nat /\ idx \in Nat /\ idx <= Len(steps)
  BY KeptRange
<1>1. w.undo_steps = all /\ w.redo_steps = u.redo_steps
  BY DEF MergeInto, GoodUndo, UndoState
<1>2. /\ JoinedChanges(steps, idx) \in Seq(Change)
      /\ JoinedFrom(JoinedChanges(steps, idx), steps, 1, idx)
  <2>1. \A i \in 1..Len(steps) : EndsWithStamp(steps[i].changes)
    BY DEF KeptSteps, Undoable
  <2> HIDE DEF steps
  <2> QED BY <1>0, <2>1, JoinedChangesMeans
<1>3. /\ merged \in Step(Kinds, Change) /\ merged.kind = steps[idx].kind
      /\ merged.changes = JoinedChanges(steps, idx)
  <2>1. steps[idx] \in Step(Kinds, Change)
    BY <1>0
  <2> HIDE DEF steps
  <2> QED BY <1>2, <2>1 DEF Step
<1>4. Undoable(merged)
  <2>1. HasChanges(steps[idx]) /\ idx \in 1..idx
    BY <1>0 DEF KeptSteps, Undoable
  <2>2. steps[idx].changes # <<>> => JoinedChanges(steps, idx) # <<>>
    BY <1>2, <2>1 DEF JoinedFrom
  <2> HIDE DEF merged, steps
  <2> QED BY <1>2, <1>3, <2>1, <2>2 DEF Undoable, HasChanges, JoinedFrom
<1>5. \A i \in 1..Len(all) : Undoable(all[i])
  <2>1. idx + 1 \in 1..(Len(steps) + 1) /\ Len(steps) \in ((idx + 1) - 1)..Len(steps)
    BY <1>0
  <2>2. \A i \in 1..Len(steps) : Undoable(steps[i])
    BY DEF KeptSteps
  <2> HIDE DEF merged, steps
  <2> QED BY <1>0, <1>3, <1>4, <2>1, <2>2, FrontedUndoable
<1> HIDE DEF w, all
<1> QED BY <1>1, <1>5 DEF KeptSteps, w
---------------------------------------------------------------------------
(* The shape of the kept steps is preserved. *)

\* The initial state has no steps.
LEMMA ShapeInit == Init => ShapeInv
BY DEF Init, InitUndo, ShapeInv, KeptSteps, PhaseInv, RevertingInv, HasStep, InTx, Idle

\* The open step of a successful operation, stamped if it has changed something.
LEMMA ShapeFinish ==
  ASSUME TypeInv, ShapeInv, Finish
  PROVE  ShapeInv'
<1>0. TypeOK /\ GoodUndo(undo, Kinds, Change) /\ InTx("body") /\ KeptSteps(undo)
  BY TypeOKUndo DEF TypeInv, ShapeInv, Finish
<1>m. undo.mode = "NormalOp"
  BY <1>0 DEF ShapeInv, PhaseInv
<1> DEFINE changed == ~HasStep(undo) \/ HasChanges(undo.current_step)
           stamped == IF changed THEN Stamped(undo) ELSE undo
<1>1. PICK recent \in BOOLEAN :
        undo' = EndStep(Coalesced(stamped, recent), tx.kind = "SkipUndo")
  BY DEF Finish
<1>2. tx' = Idle
  BY DEF Finish
<1>c. [table |-> "col", old |-> mod] \in Change
  BY <1>0 DEF TypeOK, Change, ModChange
<1>3. /\ GoodUndo(stamped, Kinds, Change) /\ KeptSteps(stamped) /\ stamped.mode = "NormalOp"
      /\ HasStep(stamped) <=> HasStep(undo)
      /\ HasStep(stamped) /\ HasChanges(stamped.current_step)
           => EndsWithStamp(stamped.current_step.changes)
  <2>1. CASE ~changed
    BY <1>0, <1>m, <2>1
  <2>2. CASE changed
    <3>1. /\ GoodUndo(stamped, Kinds, Change)
          /\ stamped.undo_steps = undo.undo_steps /\ stamped.redo_steps = undo.redo_steps
          /\ stamped.mode = undo.mode
          /\ HasStep(stamped) <=> HasStep(undo)
          /\ HasStep(undo) =>
               stamped.current_step.changes
                 = Append(undo.current_step.changes, [table |-> "col", old |-> mod])
      BY <1>0, <1>c, <2>2, StampedType, SaveCases DEF Stamped
    <3>2. HasStep(undo) => EndsWithStamp(stamped.current_step.changes)
      <4> SUFFICES ASSUME HasStep(undo) PROVE EndsWithStamp(stamped.current_step.changes)
        OBVIOUS
      <4>1. undo.current_step.changes \in Seq(Change)
        BY <1>0, <1>c, SaveAppends
      <4> DEFINE c == [table |-> "col", old |-> mod]
                 longer == Append(undo.current_step.changes, c)
      <4>2. longer[Len(longer)] = c /\ c.table = "col"
        BY <1>c, <4>1, AppendProperties
      <4> HIDE DEF c, longer, stamped
      <4> QED BY <3>1, <4>2 DEF EndsWithStamp, longer, c
    <3> HIDE DEF stamped, changed
    <3> QED BY <1>0, <1>m, <3>1, <3>2 DEF KeptSteps
  <2> QED BY <2>1, <2>2
<1> HIDE DEF stamped, changed
<1> DEFINE w == Coalesced(stamped, recent)
<1>4. /\ GoodUndo(w, Kinds, Change) /\ KeptSteps(w) /\ w.mode = "NormalOp"
      /\ HasStep(w) /\ HasChanges(w.current_step) => EndsWithStamp(w.current_step.changes)
  <2>1. GoodUndo(w, Kinds, Change)
    BY <1>3, CoalescedType
  <2>2. /\ w.undo_steps = stamped.undo_steps /\ w.redo_steps = stamped.redo_steps
        /\ w.mode = stamped.mode
        /\ w = stamped \/ (MayCoalesce(stamped) /\ ~HasChanges(w.current_step))
    BY <1>3, CoalescedCases
  <2> HIDE DEF w
  <2> QED BY <1>3, <2>1, <2>2 DEF KeptSteps
<1> HIDE DEF w
<1>5. undo' = EndStep(w, tx.kind = "SkipUndo")
  BY <1>1 DEF w
<1>6. KeptSteps(undo') /\ undo'.mode = "NormalOp" /\ ~HasStep(undo')
  <2>1. CASE HasStep(w)
    BY <1>4, <1>5, <2>1, EndStepCases, EndStepKept
  <2>2. CASE ~HasStep(w)
    BY <1>4, <1>5, <2>2 DEF EndStep
  <2> QED BY <2>1, <2>2
<1> QED BY <1>2, <1>6 DEF ShapeInv, PhaseInv, RevertingInv, InTx, Idle, KeptSteps

\* One more change reverted: its opposite is recorded, a stamp as a stamp, a row as
\* that row or not at all.
LEMMA ShapeRevertChange ==
  ASSUME TypeInv, ShapeInv, RevertChange
  PROVE  ShapeInv'
<1>0. TypeOK /\ GoodUndo(undo, Kinds, Change) /\ InTx("revert") /\ KeptSteps(undo)
      /\ HasStep(undo) /\ tx \in RevertTx
  BY TypeOKUndo, TxByPhase DEF TypeInv, ShapeInv, PhaseInv, RevertChange
<1> DEFINE change == tx.step.changes[tx.left]
           steps == tx.step.changes
           open == undo.current_step
<1>1. /\ tx.left \in 1..Len(steps) /\ change \in Change /\ steps \in Seq(Change)
      /\ tx.left \in Nat /\ Len(steps) \in Nat
  <2>1. steps \in Seq(Change)
    BY <1>0 DEF RevertTx, Step
  <2> QED BY <2>1, NextChangeType DEF RevertChange
<1>2. /\ tx'.step = tx.step /\ tx'.left = tx.left - 1 /\ tx'.phase = "revert"
  BY <1>0 DEF RevertChange, RevertTx
<1>3. open \in Step(Kinds, Change) /\ open.changes \in Seq(Change)
  BY SMTT(60), <1>0, OpenStepType DEF GoodUndo, Step
<1>4. \/ undo' = undo /\ change.table = "row"
      \/ \E c \in Change : /\ undo' = Save(undo, c)
                           /\ c.table = change.table
                           /\ change.table = "row" => c.key = change.key
  <2>1. CASE change.table = "row" /\ SetRow(change.key, change.old)
    <3>1. [table |-> "row", key |-> change.key, old |-> rows[change.key]] \in Change
      <4>1. change.key \in Keys
        BY <1>1, <2>1, ChangeFields
      <4> HIDE DEF change
      <4> QED BY <1>0, <4>1 DEF TypeOK, Change, RowChange
    <3> HIDE DEF change
    <3> QED BY <2>1, <3>1 DEF SetRow
  <2>2. CASE change.table = "col" /\ undo' = Stamped(undo)
    <3>1. [table |-> "col", old |-> mod] \in Change
      BY <1>0 DEF TypeOK, Change, ModChange
    <3> HIDE DEF change
    <3> QED BY <2>2, <3>1 DEF Stamped
  <2> QED BY <2>1, <2>2 DEF RevertChange
<1>5. /\ undo'.undo_steps = undo.undo_steps /\ undo'.redo_steps = undo.redo_steps
      /\ undo'.mode = undo.mode /\ HasStep(undo') /\ undo'.current_step.kind = open.kind
  BY <1>0, <1>4, SaveCases
<1>6. \/ undo'.current_step.changes = open.changes /\ change.table = "row"
      \/ \E c \in Change : /\ undo'.current_step.changes = Append(open.changes, c)
                           /\ c.table = change.table
                           /\ change.table = "row" => c.key = change.key
  BY <1>0, <1>4, SaveCases
<1> DEFINE now == undo'.current_step.changes
<1>r. /\ open.kind = tx.step.kind
      /\ \A k \in Keys : Touched(open.changes, k) => Touched(steps, k)
      /\ tx.left = Len(steps) => open.changes = <<>>
      /\ undo.mode = "Undoing" =>
           /\ Undoable(tx.step)
           /\ tx.left # Len(steps) => open.changes # <<>> /\ BeginsWithStamp(open.changes)
      /\ undo.mode = "Redoing" => Redoable(tx.step)
  BY <1>0 DEF ShapeInv, RevertingInv
<1> HIDE DEF change, open, steps, now
<1>7. ASSUME NEW k \in Keys, Touched(now, k) PROVE Touched(steps, k)
  <2>1. CASE now = open.changes
    BY <1>7, <1>r, <2>1
  <2>2. ASSUME NEW c \in Change, now = Append(open.changes, c), c.table = change.table,
               change.table = "row" => c.key = change.key
        PROVE  Touched(steps, k)
    <3>1. PICK i \in 1..Len(now) : Touches(now[i], k)
      BY <1>7 DEF Touched
    <3>2. /\ Len(now) = Len(open.changes) + 1 /\ Len(open.changes) \in Nat
          /\ \A j \in 1..Len(open.changes) : now[j] = open.changes[j]
          /\ now[Len(open.changes) + 1] = c
      BY <1>3, <2>2, AppendProperties
    <3>3. CASE i \in 1..Len(open.changes)
      BY <1>r, <3>1, <3>2, <3>3 DEF Touched
    <3>4. CASE i = Len(open.changes) + 1
      <4>1. Touches(change, k)
        BY <2>2, <3>1, <3>2, <3>4 DEF Touches
      <4> QED BY <1>1, <4>1 DEF Touched, steps, change
    <3> QED BY <3>2, <3>3, <3>4
  <2> QED BY <1>6, <2>1, <2>2 DEF now
<1>8. tx.left - 1 # Len(steps)
  BY <1>1
<1>9. ASSUME undo.mode = "Undoing" PROVE now # <<>> /\ BeginsWithStamp(now)
  <2>1. CASE tx.left = Len(steps)
    <3>1. change.table = "col" /\ open.changes = <<>>
      <4>1. steps # <<>>
        BY <1>1
      <4> QED BY <1>9, <1>r, <2>1, <4>1 DEF Undoable, EndsWithStamp, steps, change
    <3>2. PICK c \in Change : now = Append(<<>>, c) /\ c.table = "col"
      BY <1>6, <3>1 DEF now
    <3>3. now # <<>> /\ now[1] = c
      BY <3>2
    <3> QED BY <3>2, <3>3 DEF BeginsWithStamp
  <2>2. CASE tx.left # Len(steps)
    <3>1. open.changes # <<>> /\ BeginsWithStamp(open.changes)
      BY <1>9, <1>r, <2>2
    <3>2. ASSUME NEW c \in Change, now = Append(open.changes, c)
          PROVE  now # <<>> /\ BeginsWithStamp(now)
      <4>1. 1 \in 1..Len(open.changes)
        BY <1>3, <3>1
      <4>2. now # <<>> /\ now[1] = open.changes[1]
        BY <1>3, <3>2, <4>1, AppendProperties
      <4> QED BY <3>1, <4>2 DEF BeginsWithStamp
    <3> QED BY <1>6, <3>1, <3>2 DEF now
  <2> QED BY <2>1, <2>2
<1>10. ASSUME undo.mode = "Redoing", tx.left - 1 = 0 PROVE now # <<>> /\ EndsWithStamp(now)
  <2>1. tx.left = 1 /\ steps # <<>>
    BY <1>1, <1>10
  <2>2. change.table = "col"
    BY <1>10, <1>r, <2>1 DEF Redoable, BeginsWithStamp, steps, change
  <2>3. PICK c \in Change : now = Append(open.changes, c) /\ c.table = "col"
    BY <1>6, <2>2 DEF now
  <2>4. now # <<>> /\ now[Len(now)] = c
    BY <1>3, <2>3, AppendProperties
  <2> QED BY <2>3, <2>4 DEF EndsWithStamp
<1>11. RevertingInv'
  BY <1>2, <1>5, <1>7, <1>8, <1>9, <1>10, <1>r DEF RevertingInv, now, steps
<1>12. KeptSteps(undo)' /\ PhaseInv'
  BY <1>0, <1>2, <1>5 DEF KeptSteps, PhaseInv, InTx, ShapeInv
<1> QED BY <1>11, <1>12 DEF ShapeInv

\* What is open at the end of an undo or a redo: the opposite of the reverted step.
\* After an undo it begins with the stamp, so that it is not coalesced.
LEMMA RevertedOpen ==
  ASSUME TypeInv, ShapeInv, InTx("revert"), tx.left = 0
  PROVE  /\ HasChanges(undo.current_step)
         /\ undo.mode = "Undoing" =>
              BeginsWithStamp(undo.current_step.changes) /\ ~MayCoalesce(undo)
         /\ undo.mode # "Undoing" => EndsWithStamp(undo.current_step.changes)
<1> DEFINE open == undo.current_step
           steps == tx.step.changes
<1>1. tx \in RevertTx /\ steps \in Seq(Change) /\ Len(steps) \in Nat
  <2>1. tx \in RevertTx
    BY TxByPhase DEF TypeInv
  <2>2. steps \in Seq(Change)
    BY <2>1 DEF RevertTx, Step
  <2> QED BY <2>1, <2>2
<1>2. /\ open.kind = tx.step.kind
      /\ 0 = Len(steps) => open.changes = <<>>
      /\ undo.mode = "Undoing" =>
           /\ Undoable(tx.step)
           /\ 0 # Len(steps) => open.changes # <<>> /\ BeginsWithStamp(open.changes)
      /\ undo.mode = "Redoing" =>
           /\ Redoable(tx.step)
           /\ steps # <<>> => open.changes # <<>> /\ EndsWithStamp(open.changes)
      /\ undo.mode \in {"Undoing", "Redoing"}
  BY DEF ShapeInv, RevertingInv, PhaseInv
<1>3. 0 = Len(steps) <=> steps = <<>>
  BY <1>1
<1>4. HasChanges(tx.step)
  BY <1>2 DEF Undoable, Redoable
<1>5. HasChanges(open)
  BY <1>2, <1>3, <1>4 DEF HasChanges
<1>6. undo.mode = "Undoing" => BeginsWithStamp(open.changes)
  BY <1>2, <1>3 DEF BeginsWithStamp
<1>7. undo.mode # "Undoing" => EndsWithStamp(open.changes)
  BY <1>2, <1>3 DEF EndsWithStamp
<1>8. BeginsWithStamp(open.changes) => ~MayCoalesce(undo)
  <2> SUFFICES ASSUME BeginsWithStamp(open.changes), NoteEdit(open) PROVE FALSE
    BY DEF MayCoalesce
  <2>1. Len(open.changes) = 2 /\ open.changes[1].table = "row"
    BY DEF NoteEdit
  <2>2. open.changes # <<>>
    BY <2>1
  <2> QED BY <2>1, <2>2 DEF BeginsWithStamp
<1> QED BY <1>5, <1>6, <1>7, <1>8

\* The end of an undo or a redo.
LEMMA ShapeFinishRevert ==
  ASSUME TypeInv, ShapeInv, FinishRevert
  PROVE  ShapeInv'
<1>0. TypeOK /\ GoodUndo(undo, Kinds, Change) /\ KeptSteps(undo) /\ HasStep(undo)
      /\ InTx("revert") /\ tx.left = 0
  BY TypeOKUndo DEF TypeInv, ShapeInv, PhaseInv, FinishRevert
<1>1. PICK recent \in BOOLEAN :
        undo' = [EndStep(Coalesced(undo, recent), FALSE) EXCEPT !.mode = "NormalOp"]
  BY DEF FinishRevert
<1> DEFINE w == Coalesced(undo, recent)
           ended == EndStep(w, FALSE)
<1>2. /\ GoodUndo(w, Kinds, Change) /\ HasStep(w) /\ KeptSteps(w)
      /\ HasChanges(w.current_step) =>
           IF w.mode = "Undoing" THEN BeginsWithStamp(w.current_step.changes)
                                 ELSE EndsWithStamp(w.current_step.changes)
  <2>1. GoodUndo(w, Kinds, Change)
    BY <1>0, CoalescedType
  <2>2. /\ w.undo_steps = undo.undo_steps /\ w.redo_steps = undo.redo_steps
        /\ w.mode = undo.mode /\ HasStep(w)
        /\ w = undo \/ (MayCoalesce(undo) /\ ~HasChanges(w.current_step))
    BY <1>0, CoalescedCases
  <2> HIDE DEF w
  <2> QED BY <1>0, <2>1, <2>2, RevertedOpen DEF KeptSteps
<1> HIDE DEF w
<1>3. GoodUndo(ended, Kinds, Change) /\ KeptSteps(ended) /\ ~HasStep(ended)
  BY <1>2, EndStepType, EndStepCases, EndStepKept
<1> HIDE DEF ended
<1>4. undo' = [ended EXCEPT !.mode = "NormalOp"]
  BY <1>1 DEF ended, w
<1>5. KeptSteps(undo') /\ undo'.mode = "NormalOp" /\ ~HasStep(undo')
  <2>1. /\ undo'.undo_steps = ended.undo_steps /\ undo'.redo_steps = ended.redo_steps
        /\ undo'.mode = "NormalOp"
        /\ HasStep(undo') <=> HasStep(ended)
    BY <1>3, <1>4, ModeReset
  <2> QED BY <1>3, <2>1 DEF KeptSteps
<1>6. tx' = Idle
  BY DEF FinishRevert
<1> QED BY <1>5, <1>6 DEF ShapeInv, PhaseInv, RevertingInv, InTx, Idle, KeptSteps

\* The beginning of an undo or a redo: the step has been taken out of u.
LEMMA ShapeReverting ==
  ASSUME NEW u, NEW step \in Step(Kinds, Change), GoodUndo(u, Kinds, Change), KeptSteps(u),
         (u.mode = "Undoing" /\ Undoable(step)) \/ (u.mode = "Redoing" /\ Redoable(step)),
         undo' = BeginStep(u, step.kind), tx' = Reverting(step)
  PROVE  ShapeInv'
<1>1. step.kind \in Kinds
  BY DEF Step
<1>2. /\ undo'.mode = u.mode /\ undo'.undo_steps = u.undo_steps
      /\ undo'.redo_steps = u.redo_steps
      /\ HasStep(undo') /\ undo'.current_step.kind = step.kind
      /\ undo'.current_step.changes = <<>>
  BY <1>1, BeginStepCases
<1>3. tx'.phase = "revert" /\ tx'.step = step /\ tx'.left = Len(step.changes)
  BY DEF Reverting
<1>4. KeptSteps(undo') /\ PhaseInv'
  BY <1>2, <1>3 DEF KeptSteps, PhaseInv, InTx
<1>5. RevertingInv'
  <2>1. \A k \in Keys : ~Touched(<<>>, k)
    BY DEF Touched
  <2>2. Len(step.changes) = 0 => step.changes = <<>>
    <3>1. step.changes \in Seq(Change)
      BY DEF Step
    <3> QED BY <3>1
  <2> QED BY <1>2, <1>3, <2>1, <2>2 DEF RevertingInv
<1> QED BY <1>4, <1>5 DEF ShapeInv, KeptSteps

\* The beginning of an undo or a redo.
LEMMA ShapeBeginRevert ==
  ASSUME TypeInv, ShapeInv, BeginUndo \/ BeginRedo
  PROVE  ShapeInv'
<1>0. TypeOK /\ GoodUndo(undo, Kinds, Change) /\ KeptSteps(undo)
  BY TypeOKUndo DEF TypeInv, ShapeInv
<1>1. CASE BeginUndo
  <2> DEFINE u == [PopUndo(undo) EXCEPT !.mode = "Undoing"]
             step == Head(undo.undo_steps)
  <2>1. GoodUndo(u, Kinds, Change) /\ step \in Step(Kinds, Change)
    BY <1>0, <1>1, PopUndoType DEF BeginUndo
  <2>2. KeptSteps(u) /\ Undoable(step)
    BY <1>0, <1>1, PoppedKept DEF BeginUndo
  <2>3. u.mode = "Undoing"
    BY <1>0 DEF PopUndo, GoodUndo, UndoState
  <2>4. undo' = BeginStep(u, step.kind) /\ tx' = Reverting(step)
    BY <1>1 DEF BeginUndo
  <2> HIDE DEF u, step
  <2>5. (u.mode = "Undoing" /\ Undoable(step)) \/ (u.mode = "Redoing" /\ Redoable(step))
    BY <2>2, <2>3
  <2> QED BY <2>1, <2>2, <2>4, <2>5, ShapeReverting
<1>2. CASE BeginRedo
  <2> DEFINE u == [PopRedo(undo) EXCEPT !.mode = "Redoing"]
             step == undo.redo_steps[Len(undo.redo_steps)]
  <2>1. GoodUndo(u, Kinds, Change) /\ step \in Step(Kinds, Change)
    BY <1>0, <1>2, PopRedoType DEF BeginRedo
  <2>2. KeptSteps(u) /\ Redoable(step)
    BY <1>0, <1>2, PoppedKept DEF BeginRedo
  <2>3. u.mode = "Redoing"
    BY <1>0 DEF PopRedo, GoodUndo, UndoState
  <2>4. undo' = BeginStep(u, step.kind) /\ tx' = Reverting(step)
    BY <1>2 DEF BeginRedo
  <2> HIDE DEF u, step
  <2> QED BY <2>1, <2>2, <2>3, <2>4, ShapeReverting
<1> QED BY <1>1, <1>2

\* Every step of the machine keeps the shape.
LEMMA ShapeStep == TypeInv /\ ShapeInv /\ [Next]_vars => ShapeInv'
<1> SUFFICES ASSUME TypeInv, ShapeInv, [Next]_vars PROVE ShapeInv'
  OBVIOUS
<1>0. TypeOK /\ GoodUndo(undo, Kinds, Change) /\ KeptSteps(undo)
  BY TypeOKUndo DEF TypeInv, ShapeInv
<1>1. ASSUME NEW kind \in OpKinds, BeginOp(kind) PROVE ShapeInv'
  <2>1. kind \in Kinds /\ undo.mode = "NormalOp"
    BY <1>1 DEF Kinds, BeginOp, ShapeInv, PhaseInv
  <2>2. /\ undo'.mode = "NormalOp" /\ undo'.undo_steps = undo.undo_steps
        /\ undo'.redo_steps = <<>> /\ HasStep(undo') /\ undo'.current_step.kind = kind
    BY <1>0, <1>1, <2>1, BeginStepCases DEF BeginOp
  <2>3. tx'.phase = "body"
    BY <1>1 DEF BeginOp, Open
  <2>4. KeptSteps(undo')
    BY <1>0, <2>2 DEF KeptSteps
  <2>5. PhaseInv' /\ RevertingInv'
    BY <1>1, <2>2, <2>3 DEF PhaseInv, RevertingInv, InTx
  <2> QED BY <2>4, <2>5 DEF ShapeInv, KeptSteps
<1>2. CASE BeginNoUndo
  <2>1. /\ undo'.mode = undo.mode /\ undo'.undo_steps = <<>> /\ undo'.redo_steps = <<>>
        /\ ~HasStep(undo')
    BY <1>0, <1>2 DEF BeginNoUndo, Discard, GoodUndo, UndoState, HasStep
  <2>2. tx'.phase = "body" /\ undo.mode = "NormalOp"
    BY <1>2 DEF BeginNoUndo, Open, ShapeInv, PhaseInv
  <2> QED BY <2>1, <2>2 DEF ShapeInv, KeptSteps, PhaseInv, RevertingInv, InTx
<1>3. ASSUME NEW k \in Keys, NEW v \in Vals, Write(k, v) PROVE ShapeInv'
  <2>1. [table |-> "row", key |-> k, old |-> rows[k]] \in Change
    BY <1>0 DEF TypeOK, Change, RowChange
  <2>2. /\ undo'.mode = undo.mode /\ undo'.undo_steps = undo.undo_steps
        /\ undo'.redo_steps = undo.redo_steps
        /\ HasStep(undo') <=> HasStep(undo)
        /\ HasStep(undo) => undo'.current_step.kind = undo.current_step.kind
    BY <1>0, <1>3, <2>1, SaveCases DEF Write, SetRow
  <2>3. tx' = tx /\ InTx("body")
    BY <1>3 DEF Write
  <2> QED BY <1>0, <2>2, <2>3 DEF ShapeInv, KeptSteps, PhaseInv, RevertingInv, InTx
<1>4. CASE Fail
  <2>1. /\ undo'.mode = "NormalOp" /\ undo'.undo_steps = <<>> /\ undo'.redo_steps = <<>>
        /\ ~HasStep(undo')
    BY <1>0, <1>4 DEF Fail, Discard, GoodUndo, UndoState, HasStep
  <2> QED BY <1>4, <2>1 DEF Fail, ShapeInv, KeptSteps, PhaseInv, RevertingInv, InTx, Idle
<1>5. CASE AddCustomUndoStep
  <2> DEFINE u == BeginStep(undo, "Custom")
  <2>1. "Custom" \in Kinds /\ undo.mode = "NormalOp"
    BY <1>5 DEF Kinds, AddCustomUndoStep, ShapeInv, PhaseInv
  <2>2. /\ GoodUndo(u, Kinds, Change) /\ u.mode = "NormalOp" /\ u.undo_steps = undo.undo_steps
        /\ u.redo_steps = <<>> /\ HasStep(u) /\ u.current_step.changes = <<>>
    BY <1>0, <2>1, BeginStepType, BeginStepCases
  <2> HIDE DEF u
  <2>3. KeptSteps(u) /\ EndsWithStamp(u.current_step.changes)
    BY <1>0, <2>2 DEF KeptSteps, EndsWithStamp
  <2>4. undo' = EndStep(u, FALSE) /\ tx' = tx /\ InTx("idle")
    BY <1>5 DEF AddCustomUndoStep, AddCustomStep, u
  <2>5. KeptSteps(undo') /\ undo'.mode = "NormalOp" /\ ~HasStep(undo')
    BY <2>2, <2>3, <2>4, EndStepKept, EndStepCases
  <2> QED BY <2>4, <2>5 DEF ShapeInv, KeptSteps, PhaseInv, RevertingInv, InTx
<1>6. ASSUME NEW target \in 1..MaxOps, MergeUndoableOps(target) PROVE ShapeInv'
  <2>1. PICK idx \in TargetIndexes(undo, target) : undo' = MergeInto(undo, idx)
    BY <1>6 DEF MergeUndoableOps
  <2>2. idx \in 1..Len(undo.undo_steps)
    BY <2>1 DEF TargetIndexes
  <2>3. KeptSteps(undo')
    BY <1>0, <2>1, <2>2, MergedKept
  <2>4. undo'.mode = undo.mode /\ undo'.current_step = undo.current_step
    BY <1>0, <2>1 DEF MergeInto, GoodUndo, UndoState
  <2>5. tx' = tx /\ InTx("idle")
    BY <1>6 DEF MergeUndoableOps
  <2> QED BY <2>3, <2>4, <2>5 DEF ShapeInv, KeptSteps, PhaseInv, RevertingInv, InTx, HasStep
<1>7. CASE UNCHANGED vars
  BY <1>7 DEF vars, ShapeInv, KeptSteps, PhaseInv, RevertingInv, InTx, HasStep
<1> QED
  BY <1>1, <1>2, <1>3, <1>4, <1>5, <1>6, <1>7, ShapeFinish, ShapeRevertChange,
     ShapeFinishRevert, ShapeBeginRevert
  DEF Next
---------------------------------------------------------------------------
(* What the machine's state stands for in the abstract history. *)

\* No undo or redo is running.
LEMMA MappedOperation ==
  ASSUME TypeInv, ~InTx("revert")
  PROVE  /\ InTx("idle") => CommittedRows = rows
         /\ ~InTx("idle") => CommittedRows = tx.base_rows
         /\ Past = NetAll(undo.undo_steps)
         /\ Future = NetAll(undo.redo_steps)
BY DEF CommittedRows, Past, Future

\* An undo or a redo is running: its step is still in the history it came from.
LEMMA MappedRevert ==
  ASSUME TypeInv, InTx("revert")
  PROVE  /\ CommittedRows = tx.base_rows
         /\ undo.mode = "Undoing" =>
              /\ Past = <<Net(tx.step.changes)>> \o NetAll(undo.undo_steps)
              /\ Future = NetAll(undo.redo_steps)
         /\ undo.mode = "Redoing" =>
              /\ Past = NetAll(undo.undo_steps)
              /\ Future = NetAll(undo.redo_steps) \o <<Net(tx.step.changes)>>
BY DEF CommittedRows, Past, Future, InTx

\* The same of the state a step ends in.
LEMMA MappedNext ==
  /\ tx'.phase = "idle" =>
       /\ CommittedRows' = rows'
       /\ Past' = NetAll(undo'.undo_steps) /\ Future' = NetAll(undo'.redo_steps)
  /\ tx'.phase = "body" =>
       /\ CommittedRows' = tx'.base_rows
       /\ Past' = NetAll(undo'.undo_steps) /\ Future' = NetAll(undo'.redo_steps)
  /\ tx'.phase = "revert" =>
       /\ CommittedRows' = tx'.base_rows
       /\ undo'.mode = "Undoing" =>
            /\ Past' = <<Net(tx'.step.changes)>> \o NetAll(undo'.undo_steps)
            /\ Future' = NetAll(undo'.redo_steps)
       /\ undo'.mode = "Redoing" =>
            /\ Past' = NetAll(undo'.undo_steps)
            /\ Future' = NetAll(undo'.redo_steps) \o <<Net(tx'.step.changes)>>
BY DEF CommittedRows, Past, Future, InTx

\* No steps, no net effects.
LEMMA NetAllNone == NetAll(<<>>) = <<>>
BY DEF NetAll

\* A change list that names no row stands for the empty pre-image.
LEMMA NetNone == Net(<<>>) = <<>>
<1>1. TouchedKeys(<<>>) = {}
  BY DEF TouchedKeys, Touched
<1>2. Net(<<>>) = [k \in {} |-> CHOOSE v \in Vals : FirstOld(<<>>, k, v)]
  BY <1>1 DEF Net
<1> QED BY <1>2
---------------------------------------------------------------------------
(* One lemma per action: the step of the history it maps to. *)

StepOrStutter == History!Next \/ UNCHANGED History!vars

\* Starting an operation drops what could be redone.
LEMMA MapBeginOp ==
  ASSUME TypeInv, ShapeInv, NEW kind \in OpKinds, BeginOp(kind)
  PROVE  StepOrStutter
<1>1. kind \in Kinds /\ InTx("idle") /\ ~InTx("revert") /\ undo.mode = "NormalOp"
  BY DEF Kinds, BeginOp, InTx, ShapeInv, PhaseInv
<1>2. undo'.undo_steps = undo.undo_steps /\ undo'.redo_steps = <<>>
  BY <1>1, TypeOKUndo, BeginStepCases DEF TypeInv, BeginOp
<1>3. tx'.phase = "body" /\ tx'.base_rows = rows
  BY DEF BeginOp, Open
<1>4. CommittedRows' = CommittedRows /\ Past' = Past /\ Future' = <<>>
  BY <1>1, <1>2, <1>3, MappedOperation, MappedNext, NetAllNone
<1> QED BY <1>4 DEF StepOrStutter, History!Next, History!DropFuture

\* Starting an operation outside the history empties it.
LEMMA MapBeginNoUndo ==
  ASSUME TypeInv, BeginNoUndo
  PROVE  StepOrStutter
<1>1. InTx("idle") /\ ~InTx("revert")
  BY DEF BeginNoUndo, InTx
<1>2. undo'.undo_steps = <<>> /\ undo'.redo_steps = <<>>
  BY TypeOKUndo DEF TypeInv, BeginNoUndo, Discard, GoodUndo, UndoState
<1>3. tx'.phase = "body" /\ tx'.base_rows = rows
  BY DEF BeginNoUndo, Open
<1>4. CommittedRows' = CommittedRows /\ Past' = <<>> /\ Future' = <<>>
  BY <1>1, <1>2, <1>3, MappedOperation, MappedNext, NetAllNone
<1> QED BY <1>4 DEF StepOrStutter, History!Next, History!Forget

\* What an operation writes is not seen before it is committed.
LEMMA MapWrite ==
  ASSUME TypeInv, NEW k \in Keys, NEW v \in Vals, Write(k, v)
  PROVE  StepOrStutter
<1>1. tx' = tx /\ tx.phase = "body" /\ ~InTx("revert") /\ ~InTx("idle")
  BY DEF Write, InTx
<1>2. [table |-> "row", key |-> k, old |-> rows[k]] \in Change
  BY DEF TypeInv, TypeOK, Change, RowChange
<1>3. undo'.undo_steps = undo.undo_steps /\ undo'.redo_steps = undo.redo_steps
  BY <1>2, TypeOKUndo, SaveCases DEF TypeInv, Write, SetRow
<1>4. CommittedRows' = CommittedRows /\ Past' = Past /\ Future' = Future
  BY <1>1, <1>3, MappedOperation, MappedNext
<1> QED BY <1>4 DEF StepOrStutter, History!vars

\* A failure leaves the committed rows and costs the history.
LEMMA MapFail ==
  ASSUME TypeInv, Fail
  PROVE  StepOrStutter
<1>1. CommittedRows = tx.base_rows
  BY DEF Fail, CommittedRows, InTx
<1>2. undo'.undo_steps = <<>> /\ undo'.redo_steps = <<>>
  BY TypeOKUndo DEF TypeInv, Fail, Discard, GoodUndo, UndoState
<1>3. tx'.phase = "idle" /\ rows' = tx.base_rows
  BY DEF Fail, Idle
<1>4. CommittedRows' = CommittedRows /\ Past' = <<>> /\ Future' = <<>>
  BY <1>1, <1>2, <1>3, MappedNext, NetAllNone
<1> QED BY <1>4 DEF StepOrStutter, History!Next, History!Forget

\* The step taken out to be undone or redone is still in the history.
LEMMA MapBeginUndo ==
  ASSUME TypeInv, BeginUndo
  PROVE  StepOrStutter
<1> DEFINE u == [PopUndo(undo) EXCEPT !.mode = "Undoing"]
           step == Head(undo.undo_steps)
<1>1. InTx("idle") /\ ~InTx("revert") /\ undo.undo_steps # <<>>
  BY DEF BeginUndo, InTx
<1>2. GoodUndo(undo, Kinds, Change) /\ undo.undo_steps \in Seq(Step(Kinds, Change))
  BY TypeOKUndo, KeptRange DEF TypeInv
<1>3. GoodUndo(u, Kinds, Change) /\ step \in Step(Kinds, Change)
  BY <1>1, <1>2, PopUndoType
<1>4. /\ u.mode = "Undoing" /\ u.undo_steps = Tail(undo.undo_steps)
      /\ u.redo_steps = undo.redo_steps
  BY <1>2 DEF PopUndo, GoodUndo, UndoState
<1>5. undo' = BeginStep(u, step.kind) /\ tx' = Reverting(step) /\ step.kind \in Kinds
  BY <1>3 DEF BeginUndo, Step
<1> HIDE DEF u
<1>6. /\ undo'.mode = "Undoing" /\ undo'.undo_steps = Tail(undo.undo_steps)
      /\ undo'.redo_steps = undo.redo_steps
  BY <1>3, <1>4, <1>5, BeginStepCases
<1>7. tx'.phase = "revert" /\ tx'.step = step /\ tx'.base_rows = rows
  BY <1>5 DEF Reverting
<1>8. NetAll(undo.undo_steps) = <<Net(step.changes)>> \o NetAll(Tail(undo.undo_steps))
  BY <1>1, <1>2, NetAllNewest
<1> HIDE DEF step
<1>9. CommittedRows' = CommittedRows /\ Past' = Past /\ Future' = Future
  BY <1>1, <1>6, <1>7, <1>8, MappedOperation, MappedNext
<1> QED BY <1>9 DEF StepOrStutter, History!vars

\* Beginning a redo is a stutter of the history.
LEMMA MapBeginRedo ==
  ASSUME TypeInv, BeginRedo
  PROVE  StepOrStutter
<1> DEFINE u == [PopRedo(undo) EXCEPT !.mode = "Redoing"]
           step == undo.redo_steps[Len(undo.redo_steps)]
           others == SubSeq(undo.redo_steps, 1, Len(undo.redo_steps) - 1)
<1>1. InTx("idle") /\ ~InTx("revert") /\ undo.redo_steps # <<>>
  BY DEF BeginRedo, InTx
<1>2. GoodUndo(undo, Kinds, Change) /\ undo.redo_steps \in Seq(Step(Kinds, Change))
  BY TypeOKUndo, KeptRange DEF TypeInv
<1>3. GoodUndo(u, Kinds, Change) /\ step \in Step(Kinds, Change)
  BY <1>1, <1>2, PopRedoType
<1>4. /\ u.mode = "Redoing" /\ u.undo_steps = undo.undo_steps
      /\ u.redo_steps = others
  BY <1>2 DEF PopRedo, GoodUndo, UndoState
<1>5. undo' = BeginStep(u, step.kind) /\ tx' = Reverting(step) /\ step.kind \in Kinds
  BY <1>3 DEF BeginRedo, Step
<1> HIDE DEF u
<1>6. /\ undo'.mode = "Redoing" /\ undo'.undo_steps = undo.undo_steps
      /\ undo'.redo_steps = others
  BY <1>3, <1>4, <1>5, BeginStepCases
<1>7. tx'.phase = "revert" /\ tx'.step = step /\ tx'.base_rows = rows
  BY <1>5 DEF Reverting
<1>8. NetAll(undo.redo_steps) = NetAll(others) \o <<Net(step.changes)>>
  BY <1>1, <1>2, NetAllLast
<1> HIDE DEF step, others
<1>9. CommittedRows' = CommittedRows /\ Past' = Past /\ Future' = Future
  BY <1>1, <1>6, <1>7, <1>8, MappedOperation, MappedNext
<1> QED BY <1>9 DEF StepOrStutter, History!vars

\* What an undo writes is not seen before it is committed.
LEMMA MapRevertChange ==
  ASSUME TypeInv, ShapeInv, RevertChange
  PROVE  StepOrStutter
<1>1. InTx("revert") /\ tx.left > 0 /\ tx.step.changes[tx.left] \in Change
  BY NextChangeType DEF RevertChange
<1>2. /\ undo'.undo_steps = undo.undo_steps /\ undo'.redo_steps = undo.redo_steps
      /\ undo'.mode = undo.mode
  <2> DEFINE change == tx.step.changes[tx.left]
  <2>1. CASE change.table = "row" /\ SetRow(change.key, change.old)
    <3>1. change.key \in Keys /\ change.old \in Vals
      BY <1>1, <2>1, ChangeFields
    <3>2. [table |-> "row", key |-> change.key, old |-> rows[change.key]] \in Change
      BY <3>1 DEF TypeInv, TypeOK, Change, RowChange
    <3> QED BY <2>1, <3>2, TypeOKUndo, SaveCases DEF TypeInv, SetRow
  <2>2. CASE undo' = Stamped(undo)
    <3>1. [table |-> "col", old |-> mod] \in Change
      BY DEF TypeInv, TypeOK, Change, ModChange
    <3> QED BY <2>2, <3>1, TypeOKUndo, SaveCases DEF TypeInv, Stamped
  <2> QED BY SMTT(60), <2>1, <2>2 DEF RevertChange
<1>3. /\ tx'.phase = "revert" /\ tx'.step = tx.step /\ tx'.base_rows = tx.base_rows
  BY <1>1, TxByPhase DEF TypeInv, RevertChange, RevertTx
<1>4. undo.mode \in {"Undoing", "Redoing"}
  BY <1>1 DEF ShapeInv, PhaseInv
<1>5. CommittedRows' = CommittedRows /\ Past' = Past /\ Future' = Future
  BY <1>1, <1>2, <1>3, <1>4, MappedRevert, MappedNext
<1> QED BY <1>5 DEF StepOrStutter, History!vars

\* A step put in front of the history is an entry put in front of the past.
LEMMA PushedPreImage ==
  ASSUME NEW u, GoodUndo(u, Kinds, Change), NEW step \in Step(Kinds, Change),
         Past = NetAll(u.undo_steps)
  PROVE  NetAll(<<step>> \o SubSeq(u.undo_steps, 1, Kept(u.undo_steps)))
           = History!Pushed(Net(step.changes))
<1>1. NetAll(<<step>> \o SubSeq(u.undo_steps, 1, Kept(u.undo_steps)))
        = <<Net(step.changes)>> \o SubSeq(NetAll(u.undo_steps), 1, Kept(u.undo_steps))
  <2>1. /\ u.undo_steps \in Seq(Step(Kinds, Change)) /\ 1 \in 1..(Len(u.undo_steps) + 1)
        /\ Kept(u.undo_steps) \in (1 - 1)..Len(u.undo_steps)
    BY KeptRange
  <2> QED BY <2>1, NetAllFronted
<1>2. Len(NetAll(u.undo_steps)) = Len(u.undo_steps)
  BY KeptRange, NetAllType
<1> QED BY <1>1, <1>2 DEF History!Pushed, History!Newest, Kept


\* The entry later steps are merged into changes no row.
LEMMA MapAddCustom ==
  ASSUME TypeInv, ShapeInv, AddCustomUndoStep
  PROVE  StepOrStutter
<1> DEFINE u == BeginStep(undo, "Custom")
<1>1. /\ InTx("idle") /\ ~InTx("revert") /\ tx'.phase = "idle" /\ rows' = rows
      /\ GoodUndo(undo, Kinds, Change) /\ "Custom" \in Kinds /\ undo.mode = "NormalOp"
  BY TypeOKUndo DEF TypeInv, AddCustomUndoStep, InTx, Kinds, ShapeInv, PhaseInv
<1>2. /\ GoodUndo(u, Kinds, Change) /\ HasStep(u) /\ u.mode = "NormalOp"
      /\ u.undo_steps = undo.undo_steps /\ u.redo_steps = <<>>
      /\ u.current_step.kind = "Custom" /\ u.current_step.changes = <<>>
  BY <1>1, BeginStepType, BeginStepCases
<1>3. undo' = EndStep(u, FALSE)
  BY DEF AddCustomUndoStep, AddCustomStep
<1> HIDE DEF u
<1>4. /\ undo'.undo_steps = <<u.current_step>> \o SubSeq(u.undo_steps, 1, Kept(u.undo_steps))
      /\ undo'.redo_steps = <<>>
  BY <1>2, <1>3, EndStepCases DEF HasChanges
<1>5. CommittedRows = rows /\ Past = NetAll(u.undo_steps)
  BY <1>1, <1>2, MappedOperation
<1>6. u.current_step \in Step(Kinds, Change)
  BY <1>2, KeptRange DEF HasStep
<1>7. CommittedRows' = rows /\ Past' = History!Pushed(Net(<<>>)) /\ Future' = <<>>
  BY <1>1, <1>2, <1>4, <1>5, <1>6, MappedNext, NetAllNone, PushedPreImage
<1> QED BY <1>5, <1>7, NetNone DEF StepOrStutter, History!Next, History!AddEmpty

\* Merging a kept step with those after it joins their entries.
LEMMA MapMerge ==
  ASSUME TypeInv, ShapeInv, NEW target \in 1..MaxOps, MergeUndoableOps(target)
  PROVE  StepOrStutter
<1> DEFINE steps == undo.undo_steps
<1>1. /\ InTx("idle") /\ ~InTx("revert") /\ tx'.phase = "idle" /\ rows' = rows
      /\ GoodUndo(undo, Kinds, Change)
  BY TypeOKUndo DEF TypeInv, MergeUndoableOps, InTx
<1>2. PICK idx \in TargetIndexes(undo, target) : undo' = MergeInto(undo, idx)
  BY DEF MergeUndoableOps
<1>3. idx \in 1..Len(steps)
  BY <1>2 DEF TargetIndexes
<1>4. /\ steps \in Seq(Step(Kinds, Change)) /\ Len(steps) \in Nat
      /\ \A i \in 1..Len(steps) : EndsWithStamp(steps[i].changes)
  BY <1>1, KeptRange DEF ShapeInv, KeptSteps, Undoable
<1> DEFINE merged == [steps[idx] EXCEPT !.changes = JoinedChanges(steps, idx)]
<1>5. /\ undo'.undo_steps = <<merged>> \o SubSeq(steps, idx + 1, Len(steps))
      /\ undo'.redo_steps = undo.redo_steps
  BY <1>1, <1>2 DEF MergeInto, GoodUndo, UndoState
<1>6. /\ CommittedRows = rows /\ Past = NetAll(steps) /\ Future = NetAll(undo.redo_steps)
      /\ CommittedRows' = rows' /\ Past' = NetAll(undo'.undo_steps)
      /\ Future' = NetAll(undo'.redo_steps)
  BY <1>1, MappedOperation, MappedNext
<1>7. merged \in Step(Kinds, Change) /\ merged.changes = JoinedChanges(steps, idx)
  <2>1. steps[idx] \in Step(Kinds, Change)
    BY <1>3, <1>4
  <2>2. JoinedChanges(steps, idx) \in Seq(Change)
    BY <1>3, <1>4, JoinedChangesMeans
  <2> HIDE DEF steps
  <2> QED BY <2>1, <2>2 DEF Step
<1> HIDE DEF steps, merged
<1>8. NetAll(undo'.undo_steps)
        = <<Net(JoinedChanges(steps, idx))>> \o SubSeq(NetAll(steps), idx + 1, Len(steps))
  <2>1. idx + 1 \in 1..(Len(steps) + 1) /\ Len(steps) \in ((idx + 1) - 1)..Len(steps)
    BY <1>3, <1>4
  <2> QED BY <1>4, <1>5, <1>7, <2>1, NetAllFronted
<1>9. Len(NetAll(steps)) = Len(steps)
  BY <1>4, NetAllType
<1>10. CASE idx = 1
  <2>1. PICK f \in [0..idx -> Seq(Change)] :
          JoinEquation(f, steps, idx) /\ JoinedChanges(steps, idx) = f[idx]
    <3>1. idx \in 0..Len(steps)
      BY <1>3, <1>4
    <3> QED BY <1>4, <3>1, JoinedChangesSolution
  <2>2. f[0] = <<>> /\ f[1] = f[0] \o steps[1].changes
    <3>1. \A i \in 0..idx : f[i] = IF i = 0 THEN <<>> ELSE f[i - 1] \o steps[idx - i + 1].changes
      BY <2>1, Zenon DEF JoinEquation
    <3>2. f[0] = <<>> /\ f[1] = f[1 - 1] \o steps[idx - 1 + 1].changes
      BY <1>10, <3>1
    <3>3. 1 - 1 = 0 /\ idx - 1 + 1 = 1
      BY <1>10
    <3> QED BY <3>2, <3>3
  <2>3. steps[1] \in Step(Kinds, Change) /\ steps # <<>> /\ Head(steps) = steps[1]
    BY <1>3, <1>4, <1>10
  <2>4. JoinedChanges(steps, idx) = Head(steps).changes
    <3>1. steps[1].changes \in Seq(Change)
      BY <2>3 DEF Step
    <3> QED BY <1>10, <2>1, <2>2, <2>3, <3>1, ConcatEmptySeq
  <2>5. NetAll(Tail(steps)) = SubSeq(NetAll(steps), idx + 1, Len(steps))
    <3>1. Tail(steps) = SubSeq(steps, 2, Len(steps)) /\ idx + 1 = 2
      BY <1>4, <1>10, <2>3, TailIsSubSeq
    <3>2. 2 \in 1..(Len(steps) + 1) /\ Len(steps) \in (2 - 1)..Len(steps)
      BY <1>3, <1>4, <1>10
    <3> QED BY <1>4, <3>1, <3>2, NetAllPart
  <2>6. NetAll(undo'.undo_steps) = NetAll(steps)
    BY <1>4, <1>8, <2>3, <2>4, <2>5, NetAllNewest
  <2> QED BY <1>1, <1>5, <1>6, <2>6 DEF StepOrStutter, History!vars
<1>11. CASE idx # 1
  <2>1. idx \in 2..Len(Past)
    BY <1>3, <1>4, <1>6, <1>9, <1>11
  <2>2. Net(JoinedChanges(steps, idx)) = History!Joined(idx)
    BY <1>3, <1>4, <1>6, JoinedPreImage
  <2>3. Past' = <<History!Joined(idx)>> \o SubSeq(Past, idx + 1, Len(Past))
    BY <1>6, <1>8, <1>9, <2>2
  <2>4. CommittedRows' = CommittedRows /\ Future' = Future
    BY <1>1, <1>5, <1>6
  <2>5. History!Merge
    BY <2>1, <2>3, <2>4 DEF History!Merge
  <2> QED BY <2>5 DEF StepOrStutter, History!Next
<1> QED BY <1>10, <1>11

\* A step that accounts for the difference from the savepoint is what the abstract
\* history records.
LEMMA Recorded ==
  ASSUME NEW changes \in Seq(Change), NEW before \in [Keys -> Vals], NEW now,
         \A k \in Keys : Accounts(changes, k, now[k], before[k]),
         CommittedRows = before, CommittedRows' = now
  PROVE  /\ TouchedKeys(changes) \subseteq Keys
         /\ History!Changed(CommittedRows, CommittedRows') \subseteq TouchedKeys(changes)
         /\ Net(changes) = History!Restrict(CommittedRows, TouchedKeys(changes))
<1>1. /\ Net(changes) = [k \in TouchedKeys(changes) |-> before[k]]
      /\ \A k \in Keys \ TouchedKeys(changes) : now[k] = before[k]
  BY NetOfAccount
<1>2. TouchedKeys(changes) \subseteq Keys
  BY DEF TouchedKeys
<1> HIDE DEF Net, TouchedKeys
<1> QED BY <1>1, <1>2 DEF History!Changed, History!Restrict

\* What a coalesced edit changed is in the entry of the edit before it.
LEMMA CoalescedKeys ==
  ASSUME NEW u, GoodUndo(u, Kinds, Change), MayCoalesce(u)
  PROVE  /\ NetAll(u.undo_steps) # <<>>
         /\ TouchedKeys(u.current_step.changes) \subseteq DOMAIN Head(NetAll(u.undo_steps))
<1>1. /\ u.undo_steps \in Seq(Step(Kinds, Change)) /\ u.undo_steps # <<>>
      /\ u.current_step \in Step(Kinds, Change)
  BY KeptRange DEF MayCoalesce, HasStep
<1>2. /\ NetAll(u.undo_steps) # <<>>
      /\ Head(NetAll(u.undo_steps)) = Net(Head(u.undo_steps).changes)
  BY <1>1, NetAllNewest
<1>3. Head(u.undo_steps) \in Step(Kinds, Change)
  BY <1>1
<1> DEFINE earlier == Head(u.undo_steps).changes
           later == u.current_step.changes
<1>4. earlier \in Seq(Change) /\ later \in Seq(Change)
  BY <1>1, <1>3 DEF Step
<1>5. /\ Len(earlier) = 2 /\ earlier[1].table = "row"
      /\ Len(later) = 2 /\ later[2].table = "col" /\ later[1].key = earlier[1].key
  BY DEF MayCoalesce, NoteEdit
<1> HIDE DEF earlier, later
<1>6. ASSUME NEW k \in Keys, Touched(later, k) PROVE Touched(earlier, k)
  <2>1. PICK i \in 1..Len(later) : Touches(later[i], k)
    BY <1>6 DEF Touched
  <2>2. i = 1
    BY <1>5, <2>1 DEF Touches
  <2>3. Touches(earlier[1], k) /\ 1 \in 1..Len(earlier)
    BY <1>5, <2>1, <2>2 DEF Touches
  <2> QED BY <2>3 DEF Touched
<1>7. DOMAIN Net(earlier) = TouchedKeys(earlier)
  BY <1>4, NetValue
<1> QED BY <1>2, <1>6, <1>7 DEF TouchedKeys, earlier, later

\* Committing an operation: a new entry, one joined to the entry before it, or none.
LEMMA MapFinish ==
  ASSUME TypeInv, ShapeInv, StepAccountsForChanges, Finish
  PROVE  StepOrStutter
<1>1. /\ InTx("body") /\ ~InTx("revert") /\ ~InTx("idle") /\ tx'.phase = "idle"
      /\ rows' = rows /\ GoodUndo(undo, Kinds, Change)
      /\ tx.base_rows \in [Keys -> Vals] /\ rows \in [Keys -> Vals]
  BY TypeOKUndo, TxByPhase DEF TypeInv, Finish, InTx, Idle, Tx
<1>2. /\ undo.mode = "NormalOp" /\ undo.redo_steps = <<>>
      /\ ~HasStep(undo) => undo.undo_steps = <<>>
  BY <1>1 DEF ShapeInv, PhaseInv
<1>3. /\ CommittedRows = tx.base_rows /\ CommittedRows' = rows
      /\ Past = NetAll(undo.undo_steps) /\ Future = <<>>
      /\ Past' = NetAll(undo'.undo_steps) /\ Future' = NetAll(undo'.redo_steps)
  BY <1>1, <1>2, MappedOperation, MappedNext, NetAllNone
<1> DEFINE changed == ~HasStep(undo) \/ HasChanges(undo.current_step)
           stamped == IF changed THEN Stamped(undo) ELSE undo
<1>4. PICK recent \in BOOLEAN :
        undo' = EndStep(Coalesced(stamped, recent), tx.kind = "SkipUndo")
  BY DEF Finish
<1>5. [table |-> "col", old |-> mod] \in Change
  BY DEF TypeInv, TypeOK, Change, ModChange
<1>6. CASE ~HasStep(undo)
  <2>1. stamped = undo
    BY <1>6 DEF Stamped, Save
  <2>2. undo' = undo
    BY <1>4, <1>6, <2>1 DEF Coalesced, MayCoalesce, EndStep
  <2>3. Past = <<>> /\ Past' = Past /\ Future' = Future
    BY <1>2, <1>3, <1>6, <2>2, NetAllNone
  <2>4. History!DoForgetting
    BY <1>1, <1>3, <2>3 DEF History!DoForgetting
  <2> QED BY <2>4 DEF StepOrStutter, History!Next
<1>7. CASE HasStep(undo)
  <2> DEFINE w == Coalesced(stamped, recent)
  <2>1. /\ GoodUndo(stamped, Kinds, Change) /\ HasStep(stamped)
        /\ stamped.undo_steps = undo.undo_steps /\ stamped.redo_steps = <<>>
        /\ stamped.mode = "NormalOp"
    <3>1. CASE changed
      BY <1>1, <1>2, <1>5, <1>7, <3>1, StampedType, SaveCases DEF TypeInv, Stamped
    <3>2. CASE ~changed
      BY <1>1, <1>2, <1>7, <3>2
    <3> QED BY <3>1, <3>2
  <2>2. \A k \in Keys :
          Accounts(stamped.current_step.changes, k, rows[k], tx.base_rows[k])
    <3>1. \A k \in Keys :
            Accounts(undo.current_step.changes, k, rows[k], tx.base_rows[k])
      BY <1>1, <1>7 DEF StepAccountsForChanges, Accounts
    <3>2. TypeOK
      BY DEF TypeInv
    <3>3. CASE changed
      <4> DEFINE base == tx.base_rows
      <4>1. \A k \in Keys : Accounts(undo.current_step.changes, k, rows[k], base[k])
        BY <3>1
      <4> HIDE DEF base
      <4>2. \A k \in Keys :
              Accounts(Stamped(undo).current_step.changes, k, rows[k], base[k])
        BY <1>7, <3>2, <4>1, StampedAccounts
      <4> QED BY <3>3, <4>2 DEF base
    <3>4. CASE ~changed
      BY <3>1, <3>4
    <3> QED BY <3>3, <3>4
  <2> HIDE DEF stamped
  <2>3. /\ GoodUndo(w, Kinds, Change) /\ HasStep(w)
        /\ w.undo_steps = undo.undo_steps /\ w.redo_steps = <<>> /\ w.mode = "NormalOp"
        /\ w = stamped \/ (MayCoalesce(stamped) /\ ~HasChanges(w.current_step))
    BY <2>1, CoalescedType, CoalescedCases
  <2>4. undo' = EndStep(w, tx.kind = "SkipUndo")
    BY <1>4
  <2> HIDE DEF w
  <2>5. undo'.redo_steps = <<>> /\ Future' = Future
    BY <1>3, <2>3, <2>4, EndStepCases, NetAllNone
  <2>6. /\ stamped.current_step \in Step(Kinds, Change)
        /\ stamped.current_step.changes \in Seq(Change)
    <3>1. stamped.current_step \in Step(Kinds, Change)
      BY <2>1, KeptRange DEF HasStep
    <3> QED BY <3>1 DEF Step
  <2>7. /\ TouchedKeys(stamped.current_step.changes) \subseteq Keys
        /\ History!Changed(CommittedRows, CommittedRows')
             \subseteq TouchedKeys(stamped.current_step.changes)
        /\ Net(stamped.current_step.changes)
             = History!Restrict(CommittedRows, TouchedKeys(stamped.current_step.changes))
    <3> DEFINE before == tx.base_rows
               now == rows
               changes == stamped.current_step.changes
    <3>1. /\ before \in [Keys -> Vals] /\ changes \in Seq(Change)
          /\ \A k \in Keys : Accounts(changes, k, now[k], before[k])
          /\ CommittedRows = before /\ CommittedRows' = now
      BY <1>1, <1>3, <2>2, <2>6
    <3> HIDE DEF before, now, changes
    <3>2. /\ TouchedKeys(changes) \subseteq Keys
          /\ History!Changed(CommittedRows, CommittedRows') \subseteq TouchedKeys(changes)
          /\ Net(changes) = History!Restrict(CommittedRows, TouchedKeys(changes))
      BY <3>1, Recorded
    <3> QED BY <3>2 DEF changes
  <2>8. CASE tx.kind = "SkipUndo"
    <3>1. "SkipUndo" \in OpKinds
      BY <1>1, <2>8, TxByPhase DEF TypeInv, Tx, Kinds, NoOp
    <3>2. Past' = Past
      BY <1>3, <2>3, <2>4, <2>8, EndStepCases
    <3>3. History!DoUntracked
      BY <1>1, <1>3, <2>5, <3>1, <3>2 DEF History!DoUntracked
    <3> QED BY <3>3 DEF StepOrStutter, History!Next
  <2>9. CASE tx.kind # "SkipUndo" /\ MayCoalesce(stamped) /\ ~HasChanges(w.current_step)
    <3>1. Past' = Past
      BY <1>3, <2>3, <2>4, <2>9, EndStepCases
    <3>2. /\ Past # <<>>
          /\ TouchedKeys(stamped.current_step.changes) \subseteq DOMAIN Head(Past)
      BY <1>3, <2>1, <2>9, CoalescedKeys
    <3>3. /\ CommittedRows' \in [Keys -> Vals] /\ Future = <<>>
          /\ History!Changed(CommittedRows, CommittedRows') \subseteq DOMAIN Head(Past)
      BY <1>1, <1>3, <2>7, <3>2
    <3>4. History!DoJoined
      BY <2>5, <3>1, <3>2, <3>3 DEF History!DoJoined
    <3> QED BY <3>4 DEF StepOrStutter, History!Next
  <2>10. CASE tx.kind # "SkipUndo" /\ w = stamped /\ ~HasChanges(w.current_step)
    <3>1. Past' = Past
      BY <1>3, <2>3, <2>4, <2>10, EndStepCases
    <3>2. stamped.current_step.changes = <<>>
      BY <2>10 DEF HasChanges
    <3>3. \A k \in Keys : rows[k] = tx.base_rows[k]
      BY <2>2, <3>2 DEF Accounts, Touched
    <3>4. CommittedRows' = CommittedRows
      BY <1>1, <1>3, <3>3
    <3> QED BY <2>5, <3>1, <3>4 DEF StepOrStutter, History!vars
  <2>11. CASE tx.kind # "SkipUndo" /\ w = stamped /\ HasChanges(w.current_step)
    <3> DEFINE step == stamped.current_step
    <3>1. undo'.undo_steps = <<step>> \o SubSeq(stamped.undo_steps, 1, Kept(stamped.undo_steps))
      BY <2>3, <2>4, <2>11, EndStepCases
    <3>2. Past' = History!Pushed(Net(step.changes))
      BY <1>3, <2>1, <2>6, <3>1, PushedPreImage
    <3>3. History!Do
      <4>1. CommittedRows' \in [Keys -> Vals]
        BY <1>1, <1>3
      <4> QED BY <1>3, <2>5, <2>7, <3>2, <4>1 DEF History!Do
    <3> QED BY <3>3 DEF StepOrStutter, History!Next
  <2> QED BY <2>3, <2>8, <2>9, <2>10, <2>11
<1> QED BY <1>6, <1>7

\* What has been put back is the pre-image of the step.
LEMMA PutBackRows ==
  ASSUME TypeInv, UndoRestores, InTx("revert"), tx.left = 0
  PROVE  rows = History!Overlay(Net(tx.step.changes), tx.base_rows)
<1> DEFINE changes == tx.step.changes
           before == tx.base_rows
<1>1. changes \in Seq(Change) /\ before \in [Keys -> Vals] /\ rows \in [Keys -> Vals]
  BY TxByPhase DEF TypeInv, TypeOK, RevertTx, Step
<1>2. \A k \in Keys : IF Touched(changes, k) THEN FirstOld(changes, k, rows[k])
                                             ELSE rows[k] = before[k]
  BY DEF UndoRestores
<1> HIDE DEF changes, before
<1>3. ASSUME NEW k \in TouchedKeys(changes) PROVE rows[k] = Net(changes)[k]
  <2>1. FirstOld(changes, k, rows[k])
    BY <1>2, <1>3 DEF TouchedKeys
  <2>2. FirstOld(changes, k, Net(changes)[k])
    BY <1>1, NetValue
  <2> QED BY <1>1, <2>1, <2>2, FirstOldUnique
<1>4. DOMAIN Net(changes) = TouchedKeys(changes)
  BY <1>1, NetValue
<1>5. \A k \in Keys : rows[k] = IF k \in TouchedKeys(changes) THEN Net(changes)[k]
                                                              ELSE before[k]
  BY <1>2, <1>3 DEF TouchedKeys
<1>6. rows = [k \in Keys |-> rows[k]] /\ DOMAIN before = Keys
  BY <1>1
<1>7. rows = History!Overlay(Net(changes), before)
  BY <1>4, <1>5, <1>6 DEF History!Overlay
<1> QED BY <1>7 DEF changes, before

\* Committing an undo or a redo moves its entry to the other side.
LEMMA MapFinishRevert ==
  ASSUME TypeInv, ShapeInv, StepAccountsForChanges, UndoRestores, FinishRevert
  PROVE  StepOrStutter
<1>1. /\ InTx("revert") /\ tx.left = 0 /\ tx'.phase = "idle" /\ rows' = rows
      /\ GoodUndo(undo, Kinds, Change) /\ tx.step \in Step(Kinds, Change)
      /\ tx.base_rows \in [Keys -> Vals] /\ rows \in [Keys -> Vals]
  BY TypeOKUndo, TxByPhase DEF TypeInv, FinishRevert, InTx, Idle, RevertTx
<1>2. undo.mode \in {"Undoing", "Redoing"} /\ HasStep(undo)
  BY <1>1 DEF ShapeInv, PhaseInv
<1> DEFINE open == undo.current_step
           D == TouchedKeys(open.changes)
           f == Net(tx.step.changes)
<1>3. open \in Step(Kinds, Change) /\ open.changes \in Seq(Change)
  <2>1. open \in Step(Kinds, Change)
    BY <1>1, <1>2, KeptRange DEF HasStep
  <2> QED BY <2>1 DEF Step
<1>4. /\ CommittedRows = tx.base_rows /\ CommittedRows' = rows
      /\ Past' = NetAll(undo'.undo_steps) /\ Future' = NetAll(undo'.redo_steps)
  BY <1>1, MappedRevert, MappedNext
<1>5. PICK recent \in BOOLEAN :
        undo' = [EndStep(Coalesced(undo, recent), FALSE) EXCEPT !.mode = "NormalOp"]
  BY DEF FinishRevert
<1> DEFINE w == Coalesced(undo, recent)
           ended == EndStep(w, FALSE)
<1>6. /\ GoodUndo(w, Kinds, Change) /\ HasStep(w)
      /\ w.undo_steps = undo.undo_steps /\ w.redo_steps = undo.redo_steps
      /\ w.mode = undo.mode
      /\ w = undo \/ (MayCoalesce(undo) /\ ~HasChanges(w.current_step))
  BY <1>1, <1>2, CoalescedType, CoalescedCases
<1> HIDE DEF w
<1>7. undo'.undo_steps = ended.undo_steps /\ undo'.redo_steps = ended.redo_steps
  <2>1. GoodUndo(ended, Kinds, Change)
    BY <1>6, EndStepType
  <2>2. undo' = [ended EXCEPT !.mode = "NormalOp"]
    BY <1>5 DEF w
  <2> HIDE DEF ended
  <2> QED BY <2>1, <2>2, ModeReset
<1>8. /\ HasChanges(open)
      /\ undo.mode = "Undoing" => ~MayCoalesce(undo)
  BY <1>1, RevertedOpen
<1>9. /\ D \subseteq Keys /\ History!Changed(CommittedRows, CommittedRows') \subseteq D
      /\ Net(open.changes) = History!Restrict(CommittedRows, D)
  <2> DEFINE before == tx.base_rows
             now == rows
             changes == open.changes
  <2>1. /\ before \in [Keys -> Vals] /\ changes \in Seq(Change)
        /\ \A k \in Keys : Accounts(changes, k, now[k], before[k])
        /\ CommittedRows = before /\ CommittedRows' = now
    <3>1. ~InTx("idle")
      BY <1>1 DEF InTx
    <3> QED BY <1>1, <1>2, <1>3, <1>4, <3>1 DEF StepAccountsForChanges, Accounts
  <2> HIDE DEF before, now, changes
  <2>2. /\ TouchedKeys(changes) \subseteq Keys
        /\ History!Changed(CommittedRows, CommittedRows') \subseteq TouchedKeys(changes)
        /\ Net(changes) = History!Restrict(CommittedRows, TouchedKeys(changes))
    BY <2>1, Recorded
  <2> QED BY <2>2 DEF changes
<1>10. D \subseteq DOMAIN f /\ f \in History!PreImage
  <2>1. tx.step.changes \in Seq(Change)
    BY <1>1 DEF Step
  <2>2. DOMAIN f = TouchedKeys(tx.step.changes) /\ f \in History!PreImage
    BY <2>1, NetValue
  <2>3. \A k \in Keys : Touched(open.changes, k) => Touched(tx.step.changes, k)
    BY <1>1 DEF ShapeInv, RevertingInv
  <2> QED BY <2>2, <2>3 DEF TouchedKeys
<1>11. CommittedRows' = History!Overlay(f, CommittedRows)
  BY <1>1, <1>4, PutBackRows
<1>12. /\ undo.undo_steps \in Seq(Step(Kinds, Change))
       /\ undo.redo_steps \in Seq(Step(Kinds, Change))
       /\ NetAll(undo.undo_steps) \in Seq(History!PreImage)
       /\ NetAll(undo.redo_steps) \in Seq(History!PreImage)
  BY <1>1, KeptRange, NetAllType
<1> HIDE DEF open, D, f, ended
<1>13. CASE undo.mode = "Undoing"
  <2>1. Past = <<f>> \o NetAll(undo.undo_steps) /\ Future = NetAll(undo.redo_steps)
    BY <1>1, <1>13, MappedRevert DEF f
  <2>2. w = undo
    BY <1>6, <1>8, <1>13
  <2>3. ended.undo_steps = undo.undo_steps /\ ended.redo_steps = Append(undo.redo_steps, open)
    BY <1>1, <1>2, <1>8, <1>13, <2>2, EndStepCases DEF ended, open
  <2>4. Past' = NetAll(undo.undo_steps)
    BY <1>4, <1>7, <2>3
  <2>5. Future' = Append(Future, History!Restrict(CommittedRows, D))
    BY <1>3, <1>4, <1>7, <1>9, <1>12, <2>1, <2>3, NetAllAppended
  <2>6. Past # <<>> /\ Head(Past) = f /\ Tail(Past) = Past'
    BY <1>10, <1>12, <2>1, <2>4, FrontTaken
  <2>7. History!Undo
    BY <1>9, <1>10, <1>11, <2>5, <2>6 DEF History!Undo
  <2> QED BY <2>7 DEF StepOrStutter, History!Next
<1>14. CASE undo.mode = "Redoing"
  <2>1. Past = NetAll(undo.undo_steps) /\ Future = NetAll(undo.redo_steps) \o <<f>>
    BY <1>1, <1>14, MappedRevert DEF f
  <2>2. ended.redo_steps = undo.redo_steps
    BY <1>6, <1>14, EndStepCases DEF ended
  <2>3. Future' = NetAll(undo.redo_steps)
    BY <1>4, <1>7, <2>2
  <2>4. /\ Future # <<>> /\ Future[Len(Future)] = f
        /\ Future' = SubSeq(Future, 1, Len(Future) - 1)
    BY <1>10, <1>12, <2>1, <2>3, EndTaken
  <2>5. \/ \E E \in SUBSET DOMAIN f :
             /\ History!Changed(CommittedRows, CommittedRows') \subseteq E
             /\ Past' = History!Pushed(History!Restrict(CommittedRows, E))
        \/ /\ Past # <<>>
           /\ History!Changed(CommittedRows, CommittedRows') \subseteq DOMAIN Head(Past)
           /\ Past' = Past
    <3>1. CASE w = undo
      <4>1. ended.undo_steps = <<open>> \o SubSeq(undo.undo_steps, 1, Kept(undo.undo_steps))
        BY <1>1, <1>2, <1>8, <1>14, <3>1, EndStepCases DEF ended, open
      <4>2. Past' = History!Pushed(Net(open.changes))
        BY <1>1, <1>3, <1>4, <1>7, <2>1, <4>1, PushedPreImage
      <4>3. Past' = History!Pushed(History!Restrict(CommittedRows, D))
        BY <1>9, <4>2
      <4> QED BY <1>9, <1>10, <4>3
    <3>2. CASE MayCoalesce(undo) /\ ~HasChanges(w.current_step)
      <4>1. ended.undo_steps = undo.undo_steps
        BY <1>6, <3>2, EndStepCases DEF ended
      <4>2. Past # <<>> /\ D \subseteq DOMAIN Head(Past)
        BY <1>1, <2>1, <3>2, CoalescedKeys DEF D, open
      <4> QED BY <1>4, <1>7, <1>9, <2>1, <4>1, <4>2
    <3> QED BY <1>6, <3>1, <3>2
  <2>6. History!Redo
    BY <1>11, <2>4, <2>5 DEF History!Redo
  <2> QED BY <2>6 DEF StepOrStutter, History!Next
<1> QED BY <1>2, <1>13, <1>14
---------------------------------------------------------------------------
(* Transactions implements UndoHistory. *)

\* Every step of the detailed specification is a step or a stutter of the history.
LEMMA MapStep ==
  TypeInv /\ ShapeInv /\ StepAccountsForChanges /\ UndoRestores /\ [Next]_vars
    => [History!Next]_History!vars
<1> SUFFICES ASSUME TypeInv, ShapeInv, StepAccountsForChanges, UndoRestores, [Next]_vars
             PROVE  StepOrStutter
  BY DEF StepOrStutter
<1>1. CASE UNCHANGED vars
  BY <1>1 DEF vars, StepOrStutter, History!vars, CommittedRows, Past, Future, InTx
<1>2. CASE Next
  BY <1>2, MapBeginOp, MapBeginNoUndo, MapWrite, MapFinish, MapFail, MapBeginUndo,
     MapBeginRedo, MapRevertChange, MapFinishRevert, MapAddCustom, MapMerge
  DEF Next
<1> QED BY <1>1, <1>2

\* Its initial states are initial states of the history.
LEMMA MapInit == Init => History!Init
<1> SUFFICES ASSUME Init PROVE History!Init
  OBVIOUS
<1>1. InTx("idle") /\ ~InTx("revert") /\ undo.undo_steps = <<>> /\ undo.redo_steps = <<>>
  BY DEF Init, InitUndo, InTx, Idle
<1>2. CommittedRows = rows /\ Past = <<>> /\ Future = <<>>
  BY <1>1, NetAllNone DEF CommittedRows, Past, Future
<1> QED BY <1>2 DEF Init, History!Init

\* The shape of kept and open steps is an invariant.
THEOREM StepsShaped == Spec => []ShapeInv
<1>1. Spec => []TypeInv
  BY TypeInit, TypeStep, PTL DEF Spec
<1> QED BY <1>1, ShapeInit, ShapeStep, PTL DEF Spec

\* Every behaviour of the transaction machine (operations of any number of writes,
\* coalescing, undo, redo, merging, failures half-way, a full history) is a
\* behaviour of the abstract history of pre-images.
THEOREM HistoryImplemented == Spec => ImplementsHistory
<1>1. Spec => []TypeInv
  BY TypeInit, TypeStep, PTL DEF Spec
<1>2. Spec => [](TypeInv /\ ShapeInv /\ StepAccountsForChanges /\ UndoRestores)
  BY <1>1, StepsShaped, StepAccountsCorrect, UndoRestoresRows, PTL
<1>3. Init => History!Init
  BY MapInit
<1> QED BY <1>2, <1>3, MapStep, PTL DEF Spec, ImplementsHistory, History!Spec
====
