---- MODULE ModificationStamp_proofs ----
(***************************************************************************)
(* The stamp col.mod can be trusted: whatever has been written, undone,    *)
(* redone, coalesced or merged, a collection that carries the stamp of the *)
(* last sync, or of the last backup, holds the rows it held then.          *)
(*                                                                         *)
(* The argument is about versions.  A stamp names the rows the collection  *)
(* held when it took that stamp.  Undoing the kept steps one after the     *)
(* other leads through earlier versions, redoing leads through later ones, *)
(* and no stamp on that line names two versions.  A sync starts a new      *)
(* line, at a stamp of the server's clock: that may be earlier or later    *)
(* than the stamps of this clock that follow it, but is none of them.      *)
(***************************************************************************)
EXTENDS ModificationStamp, Transactions_proofs

\* m is what the oldest of the changes of col.mod after position n recorded.
StampAfter(changes, n, m) ==
  \E i \in (n + 1)..Len(changes) :
    /\ changes[i].table = "col"
    /\ changes[i].old = m
    /\ \A j \in (n + 1)..(i - 1) : changes[j].table # "col"

Restamped(changes) == \E i \in 1..Len(changes) : changes[i].table = "col"

\* The counterparts of Accounts and PutBack for the stamp.
StampAccounts(changes, now, before) ==
  IF Restamped(changes) THEN StampAfter(changes, 0, before) ELSE now = before

StampBack(changes, n, now, before) ==
  IF \E i \in (n + 1)..Len(changes) : changes[i].table = "col"
  THEN StampAfter(changes, n, now)
  ELSE now = before

\* An operation stamps the collection when it has written everything else; an
\* undo puts the stamp back as it puts back the rows.
StampsInv ==
  /\ InTx("body") =>
       /\ mod = tx.base_mod
       /\ HasStep(undo) => ~Restamped(undo.current_step.changes)
  /\ InTx("revert") =>
       /\ StampAccounts(undo.current_step.changes, mod, tx.base_mod)
       /\ StampBack(tx.step.changes, tx.left, mod, tx.base_mod)

\* What the lemmas of Transactions need, in every phase but that of a sync.
SoundTx ==
  TypeInv /\ ShapeInv /\ StepAccountsForChanges /\ RevertProgress /\ StampsInv

---------------------------------------------------------------------------
(* The stamp in a list of changes *)

\* At most one value is the first recorded of the stamp.
LEMMA StampAfterUnique ==
  ASSUME NEW changes \in Seq(Change), NEW n \in Nat, NEW m, NEW p,
         StampAfter(changes, n, m), StampAfter(changes, n, p)
  PROVE  m = p
<1>1. PICK i \in (n + 1)..Len(changes) :
        /\ changes[i].table = "col" /\ changes[i].old = m
        /\ \A j \in (n + 1)..(i - 1) : changes[j].table # "col"
  BY DEF StampAfter
<1>2. PICK h \in (n + 1)..Len(changes) :
        /\ changes[h].table = "col" /\ changes[h].old = p
        /\ \A j \in (n + 1)..(h - 1) : changes[j].table # "col"
  BY DEF StampAfter
<1>3. i = h
  <2>1. ~(i < h) /\ ~(h < i)
    BY <1>1, <1>2
  <2> QED BY <2>1
<1> QED BY <1>1, <1>2, <1>3

\* A change appended to a list that has recorded the stamp changes nothing; the
\* first one of the stamp records what it was.
LEMMA AppendStampAccounts ==
  ASSUME NEW changes \in Seq(Change), NEW c \in Change,
         NEW now, NEW later, NEW before,
         StampAccounts(changes, now, before),
         IF c.table = "col" THEN c.old = now ELSE later = now
  PROVE  StampAccounts(Append(changes, c), later, before)
<1> DEFINE longer == Append(changes, c)
           n == Len(changes)
<1>1. /\ n \in Nat /\ Len(longer) = n + 1
      /\ \A i \in 1..n : longer[i] = changes[i]
      /\ longer[n + 1] = c
  BY AppendProperties
<1> HIDE DEF longer
<1>2. CASE Restamped(changes)
  <2>1. PICK i \in (0 + 1)..n :
          /\ changes[i].table = "col" /\ changes[i].old = before
          /\ \A j \in (0 + 1)..(i - 1) : changes[j].table # "col"
    BY <1>2 DEF StampAccounts, StampAfter
  <2>2. i \in (0 + 1)..Len(longer) /\ longer[i] = changes[i]
    BY <1>1, <2>1
  <2>3. \A j \in (0 + 1)..(i - 1) : longer[j] = changes[j]
    BY <1>1, <2>1
  <2>4. StampAfter(longer, 0, before)
    BY <2>1, <2>2, <2>3 DEF StampAfter
  <2>5. Restamped(longer)
    BY <2>1, <2>2 DEF Restamped
  <2> QED BY <2>4, <2>5 DEF StampAccounts, longer
<1>3. CASE ~Restamped(changes) /\ c.table = "col"
  <2>1. c.old = before
    BY <1>3 DEF StampAccounts
  <2>2. \A j \in 1..n : longer[j].table # "col"
    BY <1>1, <1>3 DEF Restamped
  <2>3. /\ n + 1 \in (0 + 1)..Len(longer) /\ longer[n + 1].table = "col"
        /\ longer[n + 1].old = before
        /\ \A j \in (0 + 1)..((n + 1) - 1) : longer[j].table # "col"
    BY <1>1, <1>3, <2>1, <2>2
  <2>4. Restamped(longer) /\ StampAfter(longer, 0, before)
    BY <1>1, <2>3 DEF Restamped, StampAfter
  <2> QED BY <2>4 DEF StampAccounts, longer
<1>4. CASE ~Restamped(changes) /\ c.table # "col"
  <2>1. later = before
    BY <1>4 DEF StampAccounts
  <2>2. \A j \in 1..(n + 1) : longer[j].table # "col"
    BY <1>1, <1>4 DEF Restamped
  <2>3. ~Restamped(longer)
    BY <1>1, <2>2 DEF Restamped
  <2> QED BY <2>1, <2>3 DEF StampAccounts, longer
<1> QED BY <1>2, <1>3, <1>4

\* Reverting one more change puts the stamp back if it is one of the stamp.
LEMMA OneMoreStampBack ==
  ASSUME NEW changes \in Seq(Change), NEW n \in 1..Len(changes),
         NEW now, NEW later, NEW before,
         StampBack(changes, n, now, before),
         later = IF changes[n].table = "col" THEN changes[n].old ELSE now
  PROVE  StampBack(changes, n - 1, later, before)
<1>1. n \in Nat /\ n > 0 /\ Len(changes) \in Nat /\ n <= Len(changes) /\ (n - 1) + 1 = n
  OBVIOUS
<1>2. CASE changes[n].table = "col"
  <2>1. /\ n \in ((n - 1) + 1)..Len(changes)
        /\ \A j \in ((n - 1) + 1)..(n - 1) : changes[j].table # "col"
        /\ changes[n].old = later
    BY <1>1, <1>2
  <2>2. StampAfter(changes, n - 1, later)
    BY <1>2, <2>1 DEF StampAfter
  <2> QED BY <1>2, <2>1, <2>2 DEF StampBack
<1>3. CASE changes[n].table # "col"
  <2>1. CASE \E i \in (n + 1)..Len(changes) : changes[i].table = "col"
    <3>1. PICK i \in (n + 1)..Len(changes) :
            /\ changes[i].table = "col" /\ changes[i].old = now
            /\ \A j \in (n + 1)..(i - 1) : changes[j].table # "col"
      BY <2>1 DEF StampBack, StampAfter
    <3>2. i \in ((n - 1) + 1)..Len(changes)
      BY <1>1
    <3>3. \A j \in ((n - 1) + 1)..(i - 1) : changes[j].table # "col"
      <4> SUFFICES ASSUME NEW j \in ((n - 1) + 1)..(i - 1)
                   PROVE  changes[j].table # "col"
        OBVIOUS
      <4>1. j = n \/ j \in (n + 1)..(i - 1)
        BY <1>1
      <4> QED BY <1>3, <3>1, <4>1
    <3>4. StampAfter(changes, n - 1, later)
      BY <1>3, <3>1, <3>2, <3>3 DEF StampAfter
    <3> QED BY <3>1, <3>2, <3>4 DEF StampBack
  <2>2. CASE ~ \E i \in (n + 1)..Len(changes) : changes[i].table = "col"
    <3>1. now = before
      BY <2>2 DEF StampBack
    <3>2. \A i \in ((n - 1) + 1)..Len(changes) : changes[i].table # "col"
      <4> SUFFICES ASSUME NEW i \in ((n - 1) + 1)..Len(changes)
                   PROVE  changes[i].table # "col"
        OBVIOUS
      <4>1. i = n \/ i \in (n + 1)..Len(changes)
        BY <1>1
      <4> QED BY <1>3, <2>2, <4>1
    <3> QED BY <1>3, <3>1, <3>2 DEF StampBack
  <2> QED BY <2>1, <2>2
<1> QED BY <1>2, <1>3

\* Saving a change in the open step keeps the account of the stamp.
LEMMA SaveStampAccounts ==
  ASSUME GoodUndo(undo, Kinds, Change), HasStep(undo), NEW c \in Change,
         NEW now, NEW later, NEW before,
         StampAccounts(undo.current_step.changes, now, before),
         IF c.table = "col" THEN c.old = now ELSE later = now
  PROVE  StampAccounts(Save(undo, c).current_step.changes, later, before)
<1>1. /\ Save(undo, c).current_step.changes = Append(undo.current_step.changes, c)
      /\ undo.current_step.changes \in Seq(Change)
  BY SaveAppends
<1> QED BY <1>1, AppendStampAccounts

\* A list of changes of rows has not recorded the stamp, and accounts for it.
LEMMA NotRestamped ==
  ASSUME NEW changes, ~Restamped(changes), NEW now
  PROVE  StampAccounts(changes, now, now)
BY DEF StampAccounts

\* Writing a row saves no stamp.
LEMMA SetRowStamps ==
  ASSUME TypeOK, HasStep(undo), NEW k \in Keys, NEW v \in Vals, SetRow(k, v)
  PROVE  /\ HasStep(undo')
         /\ ~Restamped(undo.current_step.changes) =>
              ~Restamped(undo'.current_step.changes)
         /\ \A now, before :
              StampAccounts(undo.current_step.changes, now, before) =>
                StampAccounts(undo'.current_step.changes, now, before)
<1> DEFINE c == [table |-> "row", key |-> k, old |-> rows[k]]
<1>1. c \in Change /\ c.table = "row"
  BY DEF TypeOK, Change, RowChange
<1>2. GoodUndo(undo, Kinds, Change)
  BY TypeOKUndo
<1>3. CASE undo' = undo
  BY <1>3
<1>4. CASE undo' = Save(undo, c)
  <2>1. /\ HasStep(undo')
        /\ undo'.current_step.changes = Append(undo.current_step.changes, c)
        /\ undo.current_step.changes \in Seq(Change)
    BY <1>1, <1>2, <1>4, SaveAppends
  <2> HIDE DEF c
  <2>2. ASSUME ~Restamped(undo.current_step.changes)
        PROVE  ~Restamped(undo'.current_step.changes)
    <3> DEFINE changes == undo.current_step.changes
               longer == Append(changes, c)
    <3>1. /\ Len(changes) \in Nat /\ Len(longer) = Len(changes) + 1
          /\ \A i \in 1..Len(changes) : longer[i] = changes[i]
          /\ longer[Len(changes) + 1] = c
      BY <2>1, AppendProperties
    <3>2. \A i \in 1..Len(changes) : changes[i].table # "col"
      BY <2>2 DEF Restamped
    <3> HIDE DEF changes, longer
    <3>3. \A i \in 1..Len(longer) : longer[i].table # "col"
      BY <1>1, <3>1, <3>2
    <3>4. ~Restamped(longer)
      BY <3>3 DEF Restamped
    <3> QED BY <2>1, <3>4 DEF changes, longer
  <2>3. ASSUME NEW now, NEW before,
               StampAccounts(undo.current_step.changes, now, before)
        PROVE  StampAccounts(undo'.current_step.changes, now, before)
    BY <1>1, <2>1, <2>3, AppendStampAccounts
  <2> QED BY <2>1, <2>2, <2>3
<1> QED BY <1>3, <1>4 DEF SetRow

\* A revert has put nothing back when it begins.
LEMMA StampsReverting ==
  ASSUME NEW step \in Step(Kinds, Change), tx' = Reverting(step),
         HasStep(undo'), undo'.current_step.changes = <<>>, mod' = mod
  PROVE  StampsInv'
<1>1. /\ tx'.phase = "revert" /\ tx'.step.changes = step.changes
      /\ tx'.left = Len(step.changes) /\ tx'.base_mod = mod
  BY DEF Reverting
<1>2. Len(step.changes) \in Nat
  BY DEF Step
<1>3. ~ \E i \in (Len(step.changes) + 1)..Len(step.changes) : TRUE
  BY <1>2
<1>4. StampBack(tx'.step.changes, tx'.left, mod', tx'.base_mod)
  BY <1>1, <1>3 DEF StampBack
<1>5. StampAccounts(undo'.current_step.changes, mod', tx'.base_mod)
  BY <1>1 DEF StampAccounts, Restamped
<1> QED BY <1>1, <1>4, <1>5 DEF StampsInv, InTx

\* Reverting a change keeps the account of the stamp and puts it back further.
LEMMA StampsRevertChange ==
  ASSUME TypeInv, ShapeInv, StampsInv, RevertChange
  PROVE  StampsInv'
<1> DEFINE change == tx.step.changes[tx.left]
<1>1. /\ InTx("revert") /\ tx.left > 0 /\ TypeOK /\ GoodUndo(undo, Kinds, Change)
      /\ tx.left \in 1..Len(tx.step.changes) /\ change \in Change /\ mod \in Nat
  BY NextChangeType, TypeOKUndo DEF TypeInv, RevertChange
<1>2. tx \in RevertTx /\ tx.step.changes \in Seq(Change)
  <2>1. tx \in RevertTx
    BY <1>1, TxByPhase
  <2> QED BY <2>1 DEF RevertTx, Step
<1>3. HasStep(undo)
  BY <1>1 DEF ShapeInv, PhaseInv
<1>4. /\ StampAccounts(undo.current_step.changes, mod, tx.base_mod)
      /\ StampBack(tx.step.changes, tx.left, mod, tx.base_mod)
  BY <1>1 DEF StampsInv
<1>5. /\ tx'.phase = "revert" /\ tx'.step = tx.step /\ tx'.left = tx.left - 1
      /\ tx'.base_mod = tx.base_mod
  BY <1>1, <1>2 DEF RevertChange, RevertTx, InTx
<1> HIDE DEF change
<1>6. /\ mod' = IF change.table = "col" THEN change.old ELSE mod
      /\ StampAccounts(undo'.current_step.changes, mod', tx.base_mod)
  <2>1. CASE change.table = "row" /\ SetRow(change.key, change.old) /\ mod' = mod
    <3>1. change.key \in Keys /\ change.old \in Vals
      BY <1>1, <2>1, ChangeFields
    <3> QED BY <1>1, <1>3, <1>4, <2>1, <3>1, SetRowStamps
  <2>2. CASE change.table = "col" /\ mod' = change.old /\ undo' = Stamped(undo)
    <3> DEFINE c == [table |-> "col", old |-> mod]
    <3>1. c \in Change /\ c.table = "col" /\ c.old = mod
      BY <1>1 DEF Change, ModChange
    <3>2. undo' = Save(undo, c)
      BY <2>2 DEF Stamped
    <3> HIDE DEF c
    <3>3. StampAccounts(Save(undo, c).current_step.changes, mod', tx.base_mod)
      BY <1>1, <1>3, <1>4, <3>1, SaveStampAccounts
    <3> QED BY <2>2, <3>2, <3>3
  <2> QED BY <2>1, <2>2 DEF RevertChange, change
<1>7. StampBack(tx.step.changes, tx.left - 1, mod', tx.base_mod)
  BY <1>1, <1>2, <1>4, <1>6, OneMoreStampBack DEF change
<1> QED BY <1>5, <1>6, <1>7 DEF StampsInv, InTx

\* Every step of the machine keeps the account of the stamp.
LEMMA StampsStep == TypeInv /\ ShapeInv /\ StampsInv /\ [Next]_vars => StampsInv'
<1> SUFFICES ASSUME TypeInv, ShapeInv, StampsInv, [Next]_vars PROVE StampsInv'
  OBVIOUS
<1>0. TypeOK /\ GoodUndo(undo, Kinds, Change)
  BY TypeOKUndo DEF TypeInv
<1>1. ASSUME NEW kind \in OpKinds, BeginOp(kind) PROVE StampsInv'
  <2>1. kind \in Kinds
    BY DEF Kinds
  <2>2. undo'.current_step.changes = <<>>
    BY <1>0, <1>1, <2>1, BeginStepCases DEF BeginOp
  <2>3. tx'.phase = "body" /\ tx'.base_mod = mod /\ mod' = mod
    BY <1>1 DEF BeginOp, Open
  <2> QED BY <2>2, <2>3 DEF StampsInv, InTx, Restamped
<1>2. ASSUME BeginNoUndo PROVE StampsInv'
  <2>1. ~HasStep(undo')
    BY <1>0, <1>2 DEF BeginNoUndo, Discard, HasStep, GoodUndo, UndoState
  <2>2. tx'.phase = "body" /\ tx'.base_mod = mod /\ mod' = mod
    BY <1>2 DEF BeginNoUndo, Open
  <2> QED BY <2>1, <2>2 DEF StampsInv, InTx
<1>3. ASSUME NEW k \in Keys, NEW v \in Vals, Write(k, v) PROVE StampsInv'
  <2>1. tx' = tx /\ mod' = mod /\ InTx("body") /\ SetRow(k, v)
    BY <1>3 DEF Write
  <2>2. CASE HasStep(undo)
    <3>1. ~Restamped(undo'.current_step.changes)
      BY <1>0, <2>1, <2>2, SetRowStamps DEF StampsInv
    <3> QED BY <2>1, <3>1 DEF StampsInv, InTx
  <2>3. CASE ~HasStep(undo)
    <3>1. ~HasStep(undo')
      BY <2>1, <2>3 DEF SetRow, Save
    <3> QED BY <2>1, <3>1 DEF StampsInv, InTx
  <2> QED BY <2>2, <2>3
<1>4. CASE tx' = Idle
  BY <1>4 DEF StampsInv, InTx, Idle
<1>5. ASSUME BeginUndo PROVE StampsInv'
  <2> DEFINE step == Head(undo.undo_steps)
             u == [PopUndo(undo) EXCEPT !.mode = "Undoing"]
  <2>1. GoodUndo(u, Kinds, Change) /\ step \in Step(Kinds, Change)
    BY <1>0, <1>5, PopUndoType DEF BeginUndo
  <2>2. /\ tx' = Reverting(step) /\ undo' = BeginStep(u, step.kind) /\ mod' = mod
        /\ step.kind \in Kinds
    BY <1>5, <2>1 DEF BeginUndo, Step
  <2> HIDE DEF u, step
  <2>3. HasStep(undo') /\ undo'.current_step.changes = <<>>
    BY <2>1, <2>2, BeginStepCases
  <2> QED BY <2>1, <2>2, <2>3, StampsReverting
<1>6. ASSUME BeginRedo PROVE StampsInv'
  <2> DEFINE step == undo.redo_steps[Len(undo.redo_steps)]
             u == [PopRedo(undo) EXCEPT !.mode = "Redoing"]
  <2>1. GoodUndo(u, Kinds, Change) /\ step \in Step(Kinds, Change)
    BY <1>0, <1>6, PopRedoType DEF BeginRedo
  <2>2. /\ tx' = Reverting(step) /\ undo' = BeginStep(u, step.kind) /\ mod' = mod
        /\ step.kind \in Kinds
    BY <1>6, <2>1 DEF BeginRedo, Step
  <2> HIDE DEF u, step
  <2>3. HasStep(undo') /\ undo'.current_step.changes = <<>>
    BY <2>1, <2>2, BeginStepCases
  <2> QED BY <2>1, <2>2, <2>3, StampsReverting
<1>7. ASSUME RevertChange PROVE StampsInv'
  BY <1>7, StampsRevertChange
<1>8. ASSUME InTx("idle"), UNCHANGED tx PROVE StampsInv'
  BY <1>8 DEF StampsInv, InTx
<1>9. CASE UNCHANGED vars
  BY <1>9 DEF vars, StampsInv, InTx
<1> QED BY <1>1, <1>2, <1>3, <1>4, <1>5, <1>6, <1>7, <1>8, <1>9
        DEF Next, Finish, Fail, FinishRevert, AddCustomUndoStep, MergeUndoableOps
---------------------------------------------------------------------------
(* From one version to an earlier or a later one *)

Tables == [Nat -> [Keys -> Vals]]

\* at tells which rows each stamp names.  Reverting the changes leads from the
\* version named m to the one named n.
Leads(changes, at, m, n) ==
  /\ \A k \in Keys : Accounts(changes, k, at[m][k], at[n][k])
  /\ StampAccounts(changes, m, n)

\* Reverting no change leads nowhere.
LEMMA LeadsNowhere ==
  ASSUME NEW at, NEW m
  PROVE  Leads(<<>>, at, m, m)
BY DEF Leads, Accounts, Touched, StampAccounts, Restamped

\* The stamp in two lists of changes, one after the other.
LEMMA ConcatStamps ==
  ASSUME NEW a \in Seq(Change), NEW b \in Seq(Change), NEW m, NEW n, NEW p,
         StampAccounts(b, m, n), StampAccounts(a, n, p)
  PROVE  StampAccounts(a \o b, m, p)
<1> DEFINE c == a \o b
<1>1. /\ c \in Seq(Change) /\ Len(c) = Len(a) + Len(b) /\ Len(a) \in Nat /\ Len(b) \in Nat
      /\ \A i \in 1..(Len(a) + Len(b)) : c[i] = IF i <= Len(a) THEN a[i] ELSE b[i - Len(a)]
  BY ConcatProperties
<1> HIDE DEF c
<1>2. /\ \A i \in 1..Len(a) : i \in 1..Len(c) /\ c[i] = a[i]
      /\ \A i \in 1..Len(b) : Len(a) + i \in 1..Len(c) /\ c[Len(a) + i] = b[i]
      /\ \A i \in 1..Len(c) : i \in 1..Len(a) \/ i - Len(a) \in 1..Len(b)
  <2>1. \A i \in 1..Len(a) : i \in 1..Len(c) /\ c[i] = a[i]
    BY <1>1
  <2>2. ASSUME NEW i \in 1..Len(b) PROVE Len(a) + i \in 1..Len(c) /\ c[Len(a) + i] = b[i]
    <3>1. /\ Len(a) + i \in 1..(Len(a) + Len(b)) /\ ~(Len(a) + i <= Len(a))
          /\ (Len(a) + i) - Len(a) = i
      BY <1>1
    <3> QED BY <1>1, <3>1
  <2>3. \A i \in 1..Len(c) : i \in 1..Len(a) \/ i - Len(a) \in 1..Len(b)
    BY <1>1
  <2> QED BY <2>1, <2>2, <2>3
<1>3. CASE Restamped(a)
  <2>1. PICK i \in (0 + 1)..Len(a) :
          /\ a[i].table = "col" /\ a[i].old = p
          /\ \A j \in (0 + 1)..(i - 1) : a[j].table # "col"
    BY <1>3 DEF StampAccounts, StampAfter
  <2>2. i \in (0 + 1)..Len(c) /\ c[i].table = "col" /\ c[i].old = p
    BY <1>2, <2>1
  <2>3. \A j \in (0 + 1)..(i - 1) : c[j].table # "col"
    BY <1>1, <1>2, <2>1
  <2>4. StampAfter(c, 0, p) /\ Restamped(c)
    BY <2>2, <2>3 DEF StampAfter, Restamped
  <2> QED BY <2>4 DEF StampAccounts, c
<1>4. CASE ~Restamped(a) /\ Restamped(b)
  <2>1. n = p
    BY <1>4 DEF StampAccounts
  <2>2. PICK i \in (0 + 1)..Len(b) :
          /\ b[i].table = "col" /\ b[i].old = n
          /\ \A j \in (0 + 1)..(i - 1) : b[j].table # "col"
    BY <1>4 DEF StampAccounts, StampAfter
  <2>3. /\ Len(a) + i \in (0 + 1)..Len(c)
        /\ c[Len(a) + i].table = "col" /\ c[Len(a) + i].old = p
    BY <1>1, <1>2, <2>1, <2>2
  <2>4. ASSUME NEW j \in (0 + 1)..(Len(a) + i - 1) PROVE c[j].table # "col"
    <3>1. CASE j <= Len(a)
      <4>1. j \in 1..Len(a) /\ c[j] = a[j]
        BY <1>1, <1>2, <3>1
      <4> QED BY <1>4, <4>1 DEF Restamped
    <3>2. CASE j > Len(a)
      <4>1. j - Len(a) \in 1..(i - 1) /\ c[j] = b[j - Len(a)]
        BY <1>1, <2>2, <3>2
      <4> QED BY <2>2, <4>1
    <3> QED BY <1>1, <3>1, <3>2
  <2>5. StampAfter(c, 0, p)
    BY <2>3, <2>4 DEF StampAfter
  <2>6. Restamped(c)
    BY <2>3 DEF Restamped
  <2> QED BY <2>5, <2>6 DEF StampAccounts, c
<1>5. CASE ~Restamped(a) /\ ~Restamped(b)
  <2>1. m = n /\ n = p
    BY <1>5 DEF StampAccounts
  <2>2. \A i \in 1..Len(c) : c[i].table # "col"
    <3> SUFFICES ASSUME NEW i \in 1..Len(c) PROVE c[i].table # "col"
      OBVIOUS
    <3>1. CASE i \in 1..Len(a)
      BY <1>2, <1>5, <3>1 DEF Restamped
    <3>2. CASE i - Len(a) \in 1..Len(b)
      <4>1. c[i] = b[i - Len(a)]
        BY <1>1, <3>2
      <4> QED BY <1>5, <3>2, <4>1 DEF Restamped
    <3> QED BY <1>2, <3>1, <3>2
  <2>3. ~Restamped(c)
    BY <2>2 DEF Restamped
  <2> QED BY <2>1, <2>3 DEF StampAccounts, c
<1> QED BY <1>3, <1>4, <1>5

\* Reverting the newer changes and then the older ones.
LEMMA LeadsFurther ==
  ASSUME NEW older \in Seq(Change), NEW newer \in Seq(Change), NEW at,
         NEW m, NEW n, NEW p, Leads(newer, at, m, n), Leads(older, at, n, p)
  PROVE  Leads(older \o newer, at, m, p)
<1>1. StampAccounts(older \o newer, m, p)
  BY ConcatStamps DEF Leads
<1>2. ASSUME NEW k \in Keys PROVE Accounts(older \o newer, k, at[m][k], at[p][k])
  <2>1. /\ Accounts(newer, k, at[m][k], at[n][k])
        /\ Accounts(older, k, at[n][k], at[p][k])
    BY DEF Leads
  <2>2. /\ Touched(older \o newer, k) <=> Touched(older, k) \/ Touched(newer, k)
        /\ \A v : FirstOld(older, k, v) => FirstOld(older \o newer, k, v)
        /\ \A v : ~Touched(older, k) /\ FirstOld(newer, k, v) =>
                    FirstOld(older \o newer, k, v)
    BY ConcatChanges
  <2> QED BY <2>1, <2>2 DEF Accounts
<1> QED BY <1>1, <1>2 DEF Leads

\* The joined changes of the newest n steps lead as far as the steps do.
LEMMA JoinedLeads ==
  ASSUME NEW steps \in Seq(Step(Kinds, Change)), NEW n \in 1..Len(steps), NEW at, NEW s,
         \A i \in 1..n : Leads(steps[i].changes, at, s[i], s[i + 1])
  PROVE  Leads(JoinedChanges(steps, n), at, s[1], s[n + 1])
<1>1. Len(steps) \in Nat /\ n \in Nat /\ n \in 0..Len(steps)
  OBVIOUS
<1>2. PICK f \in [0..n -> Seq(Change)] :
        JoinEquation(f, steps, n) /\ JoinedChanges(steps, n) = f[n]
  BY <1>1, JoinedChangesSolution
<1>3. \A i \in 0..n : f[i] = IF i = 0 THEN <<>> ELSE f[i - 1] \o steps[n - i + 1].changes
  BY <1>2, Zenon DEF JoinEquation
<1> DEFINE Bad == {i \in 0..n : ~Leads(f[i], at, s[n - i + 1], s[n + 1])}
<1>4. Bad = {}
  <2> SUFFICES ASSUME Bad # {} PROVE FALSE
    OBVIOUS
  <2>1. Bad \subseteq Nat
    BY <1>1
  <2>2. PICK i \in Bad : \A j \in Bad : ~(j < i)
    <3> HIDE DEF Bad
    <3> QED BY <2>1, LeastNatural
  <2>3. i \in 0..n /\ ~Leads(f[i], at, s[n - i + 1], s[n + 1])
    OBVIOUS
  <2>4. CASE i = 0
    <3>1. f[i] = <<>>
      BY <1>3, <2>3, <2>4
    <3>2. n - i + 1 = n + 1
      BY <1>1, <2>4
    <3> QED BY <2>3, <3>1, <3>2, LeadsNowhere
  <2>5. CASE i # 0
    <3> DEFINE h == n - i + 1
    <3>1. /\ i - 1 \in 0..n /\ i - 1 < i /\ h \in 1..n /\ n - (i - 1) + 1 = h + 1
          /\ h \in 1..Len(steps)
      BY <1>1, <2>3, <2>5
    <3>2. i - 1 \notin Bad
      <4> HIDE DEF Bad
      <4> QED BY <2>2, <3>1
    <3>3. Leads(f[i - 1], at, s[h + 1], s[n + 1])
      BY <3>1, <3>2
    <3>4. Leads(steps[h].changes, at, s[h], s[h + 1])
      BY <3>1
    <3>5. f[i - 1] \in Seq(Change) /\ steps[h].changes \in Seq(Change)
      <4>1. steps[h] \in Step(Kinds, Change)
        BY <3>1
      <4> QED BY <1>2, <3>1, <4>1 DEF Step
    <3>6. f[i] = f[i - 1] \o steps[h].changes
      BY <1>3, <2>3, <2>5
    <3> HIDE DEF h
    <3>7. Leads(f[i - 1] \o steps[h].changes, at, s[h], s[n + 1])
      BY <3>3, <3>4, <3>5, LeadsFurther
    <3> QED BY <2>3, <3>6, <3>7 DEF h
  <2> QED BY <2>4, <2>5
<1>5. n \in 0..n /\ n - n + 1 = 1
  BY <1>1
<1>6. Leads(f[n], at, s[n - n + 1], s[n + 1])
  BY <1>4, <1>5
<1> QED BY <1>2, <1>5, <1>6

\* An edit of a note that is coalesced into the edit before it: reverting the
\* earlier one leads from the later version to where it led before.
LEMMA CoalescedLeads ==
  ASSUME NEW earlier \in Step(Kinds, Change), NEW later \in Step(Kinds, Change),
         NoteEdit(earlier), NoteEdit(later),
         earlier.changes[1].key = later.changes[1].key,
         NEW at, NEW m, NEW n, NEW p,
         Leads(later.changes, at, m, n), Leads(earlier.changes, at, n, p)
  PROVE  Leads(earlier.changes, at, m, p)
<1> DEFINE a == earlier.changes
           b == later.changes
<1>1. /\ a \in Seq(Change) /\ b \in Seq(Change)
      /\ Len(a) = 2 /\ a[1].table = "row" /\ a[2].table = "col"
      /\ Len(b) = 2 /\ b[2].table = "col" /\ b[1].key = a[1].key
  BY DEF NoteEdit, Step
<1>2. Leads(b, at, m, n) /\ Leads(a, at, n, p)
  OBVIOUS
<1> HIDE DEF a, b
<1>3. ASSUME NEW k \in Keys PROVE Accounts(a, k, at[m][k], at[p][k])
  <2>1. Accounts(b, k, at[m][k], at[n][k]) /\ Accounts(a, k, at[n][k], at[p][k])
    BY <1>2 DEF Leads
  <2>2. Touched(b, k) => Touched(a, k)
    <3> SUFFICES ASSUME Touched(b, k) PROVE Touched(a, k)
      OBVIOUS
    <3>1. PICK i \in 1..Len(b) : Touches(b[i], k)
      BY DEF Touched
    <3>2. i = 1
      BY <1>1, <3>1 DEF Touches
    <3>3. Touches(a[1], k) /\ 1 \in 1..Len(a)
      BY <1>1, <3>1, <3>2 DEF Touches
    <3> QED BY <3>3 DEF Touched
  <2> QED BY <2>1, <2>2 DEF Accounts
<1>4. StampAccounts(a, m, p)
  <2>1. 2 \in 1..Len(a)
    BY <1>1
  <2>2. Restamped(a)
    BY <1>1, <2>1 DEF Restamped
  <2> QED BY <1>2, <2>2 DEF Leads, StampAccounts
<1> QED BY <1>3, <1>4 DEF Leads, a

\* Where two tables agree, the same changes lead to the same versions.
LEMMA LeadsAgree ==
  ASSUME NEW changes, NEW at, NEW later, NEW m, NEW n, Leads(changes, at, m, n),
         later[m] = at[m], later[n] = at[n]
  PROVE  Leads(changes, later, m, n)
BY DEF Leads
---------------------------------------------------------------------------
(* The line of versions *)

\* The steps, newest first, lead from the version named now to earlier ones, all
\* named by stamps in S.
PastFrom(at, steps, S, now) ==
  \E s \in [1..(Len(steps) + 1) -> S] :
    /\ s[1] = now
    /\ \A i \in 1..Len(steps) : Leads(steps[i].changes, at, s[i], s[i + 1])

\* The steps, newest last, lead from the version named now to later ones.
FutureFrom(at, steps, S, now) ==
  \E s \in [1..(Len(steps) + 1) -> S] :
    /\ s[Len(steps) + 1] = now
    /\ \A i \in 1..Len(steps) : Leads(steps[i].changes, at, s[i + 1], s[i])

Steps == Seq(Step(Kinds, Change))

\* With nothing to undo or redo there is one version.
LEMMA OneVersion ==
  ASSUME NEW at, NEW S, NEW now \in S
  PROVE  PastFrom(at, <<>>, S, now) /\ FutureFrom(at, <<>>, S, now)
<1> DEFINE s == [i \in 1..(Len(<<>>) + 1) |-> now]
<1>1. s \in [1..(Len(<<>>) + 1) -> S]
  OBVIOUS
<1>2. s[1] = now /\ s[Len(<<>>) + 1] = now
  OBVIOUS
<1>3. \A i \in 1..Len(<<>>) : FALSE
  OBVIOUS
<1> HIDE DEF s
<1> QED BY <1>1, <1>2, <1>3 DEF PastFrom, FutureFrom

\* A new version in front of the newest n of the others.
LEMMA PastPushed ==
  ASSUME NEW at, NEW steps \in Steps, NEW S, NEW now, PastFrom(at, steps, S, now),
         NEW front \in Step(Kinds, Change), NEW new \in S,
         Leads(front.changes, at, new, now), NEW n \in (1 - 1)..Len(steps)
  PROVE  PastFrom(at, <<front>> \o SubSeq(steps, 1, n), S, new)
<1> DEFINE all == <<front>> \o SubSeq(steps, 1, n)
<1>1. PICK s \in [1..(Len(steps) + 1) -> S] :
        /\ s[1] = now
        /\ \A i \in 1..Len(steps) : Leads(steps[i].changes, at, s[i], s[i + 1])
  BY DEF PastFrom
<1>2. /\ steps \in Seq(Step(Kinds, Change)) /\ Len(steps) \in Nat /\ n \in 0..Len(steps)
      /\ 1 \in 1..(Len(steps) + 1)
  BY DEF Steps
<1>3. /\ Len(all) = n - 1 + 2 /\ all[1] = front
      /\ \A i \in 2..Len(all) : 1 + i - 2 \in 1..Len(steps) /\ all[i] = steps[1 + i - 2]
  BY <1>2, FrontedElements
<1> HIDE DEF all
<1>4. /\ Len(all) = n + 1
      /\ \A i \in 2..Len(all) : i - 1 \in 1..Len(steps) /\ all[i] = steps[i - 1]
  <2>1. \A i \in 2..Len(all) : 1 + i - 2 = i - 1
    OBVIOUS
  <2> QED BY <1>2, <1>3, <2>1
<1> DEFINE t == [i \in 1..(Len(all) + 1) |-> IF i = 1 THEN new ELSE s[i - 1]]
<1>5. t \in [1..(Len(all) + 1) -> S] /\ t[1] = new
  <2>1. \A i \in 1..(Len(all) + 1) : i = 1 \/ i - 1 \in 1..(Len(steps) + 1)
    BY <1>2, <1>4
  <2>2. 1 \in 1..(Len(all) + 1)
    BY <1>2, <1>4
  <2> QED BY <1>1, <2>1, <2>2
<1>6. ASSUME NEW i \in 1..Len(all) PROVE Leads(all[i].changes, at, t[i], t[i + 1])
  <2>1. CASE i = 1
    <3>1. t[i] = new /\ t[i + 1] = s[1] /\ all[i] = front
      BY <1>2, <1>3, <1>4, <2>1
    <3> QED BY <1>1, <3>1
  <2>2. CASE i # 1
    <3>1. i \in 2..Len(all) /\ i - 1 \in 1..Len(steps) /\ all[i] = steps[i - 1]
      BY <1>4, <2>2
    <3>2. t[i] = s[i - 1] /\ t[i + 1] = s[(i - 1) + 1]
      BY <1>2, <1>4, <2>2
    <3> HIDE DEF t
    <3> QED BY <1>1, <3>1, <3>2
  <2> QED BY <2>1, <2>2
<1> HIDE DEF t
<1> QED BY <1>5, <1>6 DEF PastFrom, all

\* Undoing the newest step leads to the version the others lead on from.
LEMMA PastTaken ==
  ASSUME NEW at, NEW steps \in Steps, NEW S, NEW now,
         NEW front \in Step(Kinds, Change), PastFrom(at, <<front>> \o steps, S, now)
  PROVE  \E n \in S : Leads(front.changes, at, now, n) /\ PastFrom(at, steps, S, n)
<1> DEFINE all == <<front>> \o steps
<1>1. PICK s \in [1..(Len(all) + 1) -> S] :
        /\ s[1] = now
        /\ \A i \in 1..Len(all) : Leads(all[i].changes, at, s[i], s[i + 1])
  BY DEF PastFrom
<1>2. /\ Len(steps) \in Nat /\ Len(all) = Len(steps) + 1 /\ all[1] = front
      /\ \A i \in 1..Len(steps) : all[i + 1] = steps[i]
  BY DEF Steps
<1> HIDE DEF all
<1> DEFINE t == [i \in 1..(Len(steps) + 1) |-> s[i + 1]]
<1>3. t \in [1..(Len(steps) + 1) -> S] /\ t[1] = s[2] /\ s[2] \in S
  <2>1. \A i \in 1..(Len(steps) + 1) : s[i + 1] \in S
    <3>1. \A i \in 1..(Len(steps) + 1) : i + 1 \in 1..(Len(all) + 1)
      BY <1>2
    <3> QED BY <1>1, <3>1
  <2>2. 1 \in 1..(Len(steps) + 1) /\ 1 + 1 = 2
    BY <1>2
  <2> QED BY <2>1, <2>2
<1>4. ASSUME NEW i \in 1..Len(steps) PROVE Leads(steps[i].changes, at, t[i], t[i + 1])
  <2>1. i + 1 \in 1..Len(all) /\ all[i + 1] = steps[i]
    BY <1>2
  <2>2. t[i] = s[i + 1] /\ t[i + 1] = s[(i + 1) + 1]
    BY <1>2
  <2> HIDE DEF t
  <2> QED BY <1>1, <2>1, <2>2
<1> HIDE DEF t
<1>5. Leads(front.changes, at, now, s[2])
  <2>1. 1 \in 1..Len(all) /\ 1 + 1 = 2
    BY <1>2
  <2> QED BY <1>1, <1>2, <2>1
<1>6. PastFrom(at, steps, S, s[2])
  BY <1>3, <1>4 DEF PastFrom
<1> QED BY <1>3, <1>5, <1>6

\* The newest version is replaced by another that leads to the same one.
LEMMA PastReplaced ==
  ASSUME NEW at, NEW steps \in Steps, steps # <<>>, NEW S, NEW now,
         PastFrom(at, steps, S, now), NEW new \in S,
         \A n \in S : Leads(steps[1].changes, at, now, n) =>
                        Leads(steps[1].changes, at, new, n)
  PROVE  PastFrom(at, steps, S, new)
<1>1. PICK s \in [1..(Len(steps) + 1) -> S] :
        /\ s[1] = now
        /\ \A i \in 1..Len(steps) : Leads(steps[i].changes, at, s[i], s[i + 1])
  BY DEF PastFrom
<1>2. Len(steps) \in Nat /\ 1 \in 1..Len(steps)
  BY DEF Steps
<1> DEFINE t == [i \in 1..(Len(steps) + 1) |-> IF i = 1 THEN new ELSE s[i]]
<1>3. t \in [1..(Len(steps) + 1) -> S] /\ t[1] = new
  BY <1>1, <1>2
<1>4. ASSUME NEW i \in 1..Len(steps) PROVE Leads(steps[i].changes, at, t[i], t[i + 1])
  <2>1. t[i + 1] = s[i + 1] /\ s[i + 1] \in S
    BY <1>2
  <2>2. CASE i = 1
    <3>1. Leads(steps[1].changes, at, now, s[i + 1])
      BY <1>1, <2>2
    <3> QED BY <1>3, <2>1, <2>2, <3>1
  <2>3. CASE i # 1
    <3>1. t[i] = s[i]
      BY <2>3
    <3> QED BY <1>1, <2>1, <3>1
  <2> QED BY <2>2, <2>3
<1> HIDE DEF t
<1> QED BY <1>3, <1>4 DEF PastFrom

\* The newest n steps joined into one: the versions between them are left out.
LEMMA PastMerged ==
  ASSUME NEW at, NEW steps \in Steps, NEW S, NEW now, PastFrom(at, steps, S, now),
         NEW n \in 1..Len(steps), NEW merged \in Step(Kinds, Change),
         merged.changes = JoinedChanges(steps, n)
  PROVE  PastFrom(at, <<merged>> \o SubSeq(steps, n + 1, Len(steps)), S, now)
<1> DEFINE all == <<merged>> \o SubSeq(steps, n + 1, Len(steps))
<1>1. PICK s \in [1..(Len(steps) + 1) -> S] :
        /\ s[1] = now
        /\ \A i \in 1..Len(steps) : Leads(steps[i].changes, at, s[i], s[i + 1])
  BY DEF PastFrom
<1>2. /\ steps \in Seq(Step(Kinds, Change)) /\ Len(steps) \in Nat /\ n \in Nat
      /\ n <= Len(steps) /\ 1 <= n
      /\ n + 1 \in 1..(Len(steps) + 1) /\ Len(steps) \in ((n + 1) - 1)..Len(steps)
  BY DEF Steps
<1>3. /\ Len(all) = Len(steps) - (n + 1) + 2 /\ all[1] = merged
      /\ \A i \in 2..Len(all) :
           (n + 1) + i - 2 \in 1..Len(steps) /\ all[i] = steps[(n + 1) + i - 2]
  BY <1>2, FrontedElements
<1> HIDE DEF all
<1>4. /\ Len(all) = Len(steps) - n + 1
      /\ \A i \in 2..Len(all) : n + i - 1 \in 1..Len(steps) /\ all[i] = steps[n + i - 1]
  <2>1. \A i \in 2..Len(all) : (n + 1) + i - 2 = n + i - 1
    BY <1>2
  <2> QED BY <1>2, <1>3, <2>1
<1> DEFINE t == [i \in 1..(Len(all) + 1) |-> IF i = 1 THEN now ELSE s[n + i - 1]]
<1>5. t \in [1..(Len(all) + 1) -> S] /\ t[1] = now
  <2>1. \A i \in 1..(Len(all) + 1) : i = 1 \/ n + i - 1 \in 1..(Len(steps) + 1)
    BY <1>2, <1>4
  <2>2. 1 \in 1..(Len(all) + 1) /\ 1 \in 1..(Len(steps) + 1)
    BY <1>2, <1>4
  <2> QED BY <1>1, <2>1, <2>2
<1>6. ASSUME NEW i \in 1..Len(all) PROVE Leads(all[i].changes, at, t[i], t[i + 1])
  <2>1. CASE i = 1
    <3>1. t[i] = s[1] /\ t[i + 1] = s[n + 1]
      <4>1. i + 1 \in 1..(Len(all) + 1) /\ i + 1 # 1 /\ n + (i + 1) - 1 = n + 1
        BY <1>2, <1>4, <2>1
      <4> QED BY <1>1, <1>5, <2>1, <4>1
    <3>2. \A h \in 1..n : Leads(steps[h].changes, at, s[h], s[h + 1])
      BY <1>1, <1>2
    <3>3. Leads(JoinedChanges(steps, n), at, s[1], s[n + 1])
      BY <1>2, <3>2, JoinedLeads
    <3>4. all[i].changes = JoinedChanges(steps, n)
      BY <1>3, <2>1
    <3> QED BY <3>1, <3>3, <3>4
  <2>2. CASE i # 1
    <3> DEFINE h == n + i - 1
    <3>1. h \in 1..Len(steps) /\ all[i] = steps[h]
      BY <1>4, <2>2
    <3>2. t[i] = s[h] /\ t[i + 1] = s[h + 1]
      <4>1. i + 1 \in 1..(Len(all) + 1) /\ i + 1 # 1 /\ n + (i + 1) - 1 = h + 1
        BY <1>2, <1>4
      <4> QED BY <2>2, <4>1
    <3> HIDE DEF t, h
    <3> QED BY <1>1, <3>1, <3>2
  <2> QED BY <2>1, <2>2
<1> HIDE DEF t
<1> QED BY <1>5, <1>6 DEF PastFrom, all

\* A step that was undone is put where the next redo finds it.
LEMMA FutureAppended ==
  ASSUME NEW at, NEW steps \in Steps, NEW S, NEW now, FutureFrom(at, steps, S, now),
         NEW last \in Step(Kinds, Change), NEW new \in S,
         Leads(last.changes, at, new, now)
  PROVE  FutureFrom(at, Append(steps, last), S, new)
<1> DEFINE all == Append(steps, last)
<1>1. PICK s \in [1..(Len(steps) + 1) -> S] :
        /\ s[Len(steps) + 1] = now
        /\ \A i \in 1..Len(steps) : Leads(steps[i].changes, at, s[i + 1], s[i])
  BY DEF FutureFrom
<1>2. /\ Len(steps) \in Nat /\ Len(all) = Len(steps) + 1 /\ all[Len(steps) + 1] = last
      /\ \A i \in 1..Len(steps) : all[i] = steps[i]
  BY DEF Steps
<1> HIDE DEF all
<1> DEFINE t == [i \in 1..(Len(all) + 1) |-> IF i = Len(all) + 1 THEN new ELSE s[i]]
<1>3. t \in [1..(Len(all) + 1) -> S] /\ t[Len(all) + 1] = new
  <2>1. \A i \in 1..(Len(all) + 1) : i = Len(all) + 1 \/ i \in 1..(Len(steps) + 1)
    BY <1>2
  <2>2. Len(all) + 1 \in 1..(Len(all) + 1)
    BY <1>2
  <2> QED BY <1>1, <2>1, <2>2
<1>4. ASSUME NEW i \in 1..Len(all) PROVE Leads(all[i].changes, at, t[i + 1], t[i])
  <2>1. t[i] = s[i]
    BY <1>2
  <2>2. CASE i = Len(steps) + 1
    <3>1. all[i] = last /\ t[i] = now /\ i + 1 = Len(all) + 1
      BY <1>1, <1>2, <2>1, <2>2
    <3> HIDE DEF t
    <3> QED BY <1>3, <3>1
  <2>3. CASE i # Len(steps) + 1
    <3>1. i \in 1..Len(steps) /\ all[i] = steps[i] /\ t[i + 1] = s[i + 1]
      BY <1>2, <2>3
    <3> HIDE DEF t
    <3> QED BY <1>1, <2>1, <3>1
  <2> QED BY <2>2, <2>3
<1> HIDE DEF t
<1> QED BY <1>3, <1>4 DEF FutureFrom, all

\* Redoing leads to the version the other steps lead on from.
LEMMA FutureTaken ==
  ASSUME NEW at, NEW steps \in Steps, NEW S, NEW now,
         NEW last \in Step(Kinds, Change), FutureFrom(at, Append(steps, last), S, now)
  PROVE  \E n \in S : Leads(last.changes, at, now, n) /\ FutureFrom(at, steps, S, n)
<1> DEFINE all == Append(steps, last)
<1>1. PICK s \in [1..(Len(all) + 1) -> S] :
        /\ s[Len(all) + 1] = now
        /\ \A i \in 1..Len(all) : Leads(all[i].changes, at, s[i + 1], s[i])
  BY DEF FutureFrom
<1>2. /\ Len(steps) \in Nat /\ Len(all) = Len(steps) + 1 /\ all[Len(steps) + 1] = last
      /\ \A i \in 1..Len(steps) : all[i] = steps[i]
  BY DEF Steps
<1> HIDE DEF all
<1> DEFINE n == s[Len(all)]
           t == [i \in 1..(Len(steps) + 1) |-> s[i]]
<1>3. n \in S /\ t \in [1..(Len(steps) + 1) -> S] /\ t[Len(steps) + 1] = n
  <2>1. Len(all) \in 1..(Len(all) + 1) /\ Len(all) \in 1..(Len(steps) + 1)
        /\ \A i \in 1..(Len(steps) + 1) : i \in 1..(Len(all) + 1)
    BY <1>2
  <2> QED BY <1>1, <1>2, <2>1
<1>4. Leads(last.changes, at, now, n)
  <2>1. Len(all) \in 1..Len(all)
    BY <1>2
  <2> QED BY <1>1, <1>2, <2>1
<1>5. ASSUME NEW i \in 1..Len(steps) PROVE Leads(steps[i].changes, at, t[i + 1], t[i])
  <2>1. i \in 1..Len(all) /\ all[i] = steps[i] /\ t[i] = s[i] /\ t[i + 1] = s[i + 1]
    BY <1>2
  <2> HIDE DEF t
  <2> QED BY <1>1, <2>1
<1> HIDE DEF t, n
<1> QED BY <1>3, <1>4, <1>5 DEF FutureFrom

\* A table that agrees on the stamps of the line, and names more of them.
LEMMA LineAgrees ==
  ASSUME NEW at, NEW later, NEW S, NEW T, S \subseteq T, NEW now,
         \A m \in S : later[m] = at[m]
  PROVE  /\ \A steps \in Steps :
              PastFrom(at, steps, S, now) => PastFrom(later, steps, T, now)
         /\ \A steps \in Steps :
              FutureFrom(at, steps, S, now) => FutureFrom(later, steps, T, now)
<1>1. ASSUME NEW steps \in Steps, PastFrom(at, steps, S, now)
      PROVE  PastFrom(later, steps, T, now)
  <2>1. PICK s \in [1..(Len(steps) + 1) -> S] :
          /\ s[1] = now
          /\ \A i \in 1..Len(steps) : Leads(steps[i].changes, at, s[i], s[i + 1])
    BY <1>1 DEF PastFrom
  <2>2. s \in [1..(Len(steps) + 1) -> T]
    BY <2>1
  <2>3. ASSUME NEW i \in 1..Len(steps)
        PROVE  Leads(steps[i].changes, later, s[i], s[i + 1])
    <3>1. Len(steps) \in Nat
      BY DEF Steps
    <3>2. i \in 1..(Len(steps) + 1) /\ i + 1 \in 1..(Len(steps) + 1)
      BY <3>1
    <3>3. s[i] \in S /\ s[i + 1] \in S
      BY <3>2
    <3> QED BY <2>1, <3>3, LeadsAgree
  <2> QED BY <2>1, <2>2, <2>3 DEF PastFrom
<1>2. ASSUME NEW steps \in Steps, FutureFrom(at, steps, S, now)
      PROVE  FutureFrom(later, steps, T, now)
  <2>1. PICK s \in [1..(Len(steps) + 1) -> S] :
          /\ s[Len(steps) + 1] = now
          /\ \A i \in 1..Len(steps) : Leads(steps[i].changes, at, s[i + 1], s[i])
    BY <1>2 DEF FutureFrom
  <2>2. s \in [1..(Len(steps) + 1) -> T]
    BY <2>1
  <2>3. ASSUME NEW i \in 1..Len(steps)
        PROVE  Leads(steps[i].changes, later, s[i + 1], s[i])
    <3>1. Len(steps) \in Nat
      BY DEF Steps
    <3>2. i \in 1..(Len(steps) + 1) /\ i + 1 \in 1..(Len(steps) + 1)
      BY <3>1
    <3>3. s[i] \in S /\ s[i + 1] \in S
      BY <3>2
    <3> QED BY <2>1, <3>3, LeadsAgree
  <2> QED BY <2>1, <2>2, <2>3 DEF FutureFrom
<1> QED BY <1>1, <1>2
---------------------------------------------------------------------------
(* The invariant *)

\* The stamp and the steps of what is committed; a step that is being reverted is
\* still in its history.
CommittedMod == IF InTx("body") \/ InTx("revert") THEN tx.base_mod ELSE mod
PastSteps ==
  IF InTx("revert") /\ undo.mode = "Undoing"
  THEN <<tx.step>> \o undo.undo_steps ELSE undo.undo_steps
FutureSteps ==
  IF InTx("revert") /\ undo.mode = "Redoing"
  THEN Append(undo.redo_steps, tx.step) ELSE undo.redo_steps

\* The collection holds the version its stamp names, and the kept steps lead from
\* it to versions named by stamps in S.
Line(at, S, stamp, table, past, future) ==
  /\ stamp \in S /\ at[stamp] = table
  /\ PastFrom(at, past, S, stamp)
  /\ FutureFrom(at, future, S, stamp)

CommittedLine(at, S) ==
  Line(at, S, CommittedMod, CommittedRows, PastSteps, FutureSteps)

\* The stamps taken since the last sync, with the one the server gave it: that one
\* may be ahead of this clock, or behind it.
Stamps == {synced.mod} \cup (synced.at + 1)..clock

\* The line is made of these stamps, and the stamps of the last sync and of the last
\* backup name the rows these have seen.
TimelineInv ==
  \E at \in Tables :
    /\ CommittedLine(at, Stamps)
    /\ at[synced.mod] = synced.rows
    /\ backup # NoBackup => at[backup.mod] = backup.rows

\* What the last sync and the last backup have seen.
ReadersInv ==
  /\ clock \in Nat
  /\ synced \in [mod : Nat, rows : [Keys -> Vals], at : Nat] /\ synced.at <= clock
  /\ backup \in {NoBackup} \cup [mod : Nat, rows : [Keys -> Vals]]

\* A sync runs with an empty history and no open step.
SyncingInv ==
  InTx("sync") =>
    /\ rows \in [Keys -> Vals] /\ mod \in Nat /\ tx \in SyncTx
    /\ GoodUndo(undo, Kinds, Change) /\ undo.mode = "NormalOp" /\ ~HasStep(undo)
    /\ undo.undo_steps = <<>> /\ undo.redo_steps = <<>>

\* What holds whether or not some operations skip the history.
SoundInv == (~InTx("sync") => SoundTx) /\ SyncingInv /\ ReadersInv

StampInv == SoundInv /\ TimelineInv
---------------------------------------------------------------------------
(* The line is kept by the steps of Transactions *)

\* What the line is made of while an operation, a sync or nothing runs.
LEMMA LineOfOperation ==
  ASSUME ~InTx("revert")
  PROVE  /\ InTx("idle") => CommittedRows = rows /\ CommittedMod = mod
         /\ InTx("body") => CommittedRows = tx.base_rows /\ CommittedMod = tx.base_mod
         /\ InTx("sync") => CommittedRows = tx.base_rows /\ CommittedMod = mod
         /\ PastSteps = undo.undo_steps /\ FutureSteps = undo.redo_steps
BY DEF CommittedRows, CommittedMod, PastSteps, FutureSteps, InTx

\* What the line is made of while a step is reverted.
LEMMA LineOfRevert ==
  ASSUME InTx("revert")
  PROVE  /\ CommittedRows = tx.base_rows /\ CommittedMod = tx.base_mod
         /\ undo.mode = "Undoing" =>
              PastSteps = <<tx.step>> \o undo.undo_steps /\ FutureSteps = undo.redo_steps
         /\ undo.mode = "Redoing" =>
              /\ PastSteps = undo.undo_steps
              /\ FutureSteps = Append(undo.redo_steps, tx.step)
BY DEF CommittedRows, CommittedMod, PastSteps, FutureSteps, InTx

\* The same of the state a step ends in.
LEMMA LineNext ==
  /\ tx'.phase = "idle" =>
       /\ CommittedRows' = rows' /\ CommittedMod' = mod'
       /\ PastSteps' = undo'.undo_steps /\ FutureSteps' = undo'.redo_steps
  /\ tx'.phase = "sync" =>
       /\ CommittedRows' = tx'.base_rows /\ CommittedMod' = mod'
       /\ PastSteps' = undo'.undo_steps /\ FutureSteps' = undo'.redo_steps
  /\ tx'.phase = "body" =>
       /\ CommittedRows' = tx'.base_rows /\ CommittedMod' = tx'.base_mod
       /\ PastSteps' = undo'.undo_steps /\ FutureSteps' = undo'.redo_steps
  /\ tx'.phase = "revert" =>
       /\ CommittedRows' = tx'.base_rows /\ CommittedMod' = tx'.base_mod
       /\ undo'.mode = "Undoing" =>
            /\ PastSteps' = <<tx'.step>> \o undo'.undo_steps
            /\ FutureSteps' = undo'.redo_steps
       /\ undo'.mode = "Redoing" =>
            /\ PastSteps' = undo'.undo_steps
            /\ FutureSteps' = Append(undo'.redo_steps, tx'.step)
BY DEF CommittedRows, CommittedMod, PastSteps, FutureSteps, InTx

\* A history that is emptied leaves the version that is committed.
LEMMA LineShortened ==
  ASSUME NEW at, NEW S, NEW stamp, NEW table, NEW past, NEW future,
         Line(at, S, stamp, table, past, future)
  PROVE  /\ Line(at, S, stamp, table, past, <<>>)
         /\ Line(at, S, stamp, table, <<>>, <<>>)
BY OneVersion DEF Line

\* The first or the last of some steps, and the others.
LEMMA HeadAndTail ==
  ASSUME NEW steps \in Steps, steps # <<>>
  PROVE  /\ steps = <<Head(steps)>> \o Tail(steps)
         /\ steps = Append(SubSeq(steps, 1, Len(steps) - 1), steps[Len(steps)])
         /\ Head(steps) \in Step(Kinds, Change) /\ Head(steps) = steps[1]
         /\ steps[Len(steps)] \in Step(Kinds, Change)
         /\ Tail(steps) \in Steps /\ SubSeq(steps, 1, Len(steps) - 1) \in Steps
BY DEF Steps

\* The steps of the two histories.
LEMMA KeptInSteps ==
  ASSUME TypeInv
  PROVE  /\ undo.undo_steps \in Steps /\ undo.redo_steps \in Steps
         /\ GoodUndo(undo, Kinds, Change)
BY TypeOKUndo, KeptRange DEF TypeInv, Steps

\* Beginning, writing, failing and grouping leave the version and the line behind
\* it, or empty a history.
LEMMA LineBegins ==
  ASSUME TypeInv, ShapeInv, NEW at, NEW S, CommittedLine(at, S),
         \/ \E kind \in OpKinds : BeginOp(kind)
         \/ BeginNoUndo
         \/ \E k \in Keys, v \in Vals : Write(k, v)
  PROVE  CommittedLine(at, S)'
<1>0. /\ Line(at, S, CommittedMod, CommittedRows, undo.undo_steps, undo.redo_steps)
      /\ InTx("idle") \/ InTx("body")
      /\ ~InTx("revert")
      /\ InTx("idle") => undo.mode = "NormalOp"
      /\ GoodUndo(undo, Kinds, Change)
  BY LineOfOperation, KeptInSteps
     DEF CommittedLine, BeginOp, BeginNoUndo, Write, InTx, ShapeInv, PhaseInv
<1>1. ASSUME NEW kind \in OpKinds, BeginOp(kind) PROVE CommittedLine(at, S)'
  <2>1. /\ InTx("idle") /\ ~InTx("revert") /\ kind \in Kinds
        /\ tx'.phase = "body" /\ tx'.base_rows = rows /\ tx'.base_mod = mod
    BY <1>1 DEF BeginOp, Open, InTx, Kinds
  <2>2. undo'.undo_steps = undo.undo_steps /\ undo'.redo_steps = <<>>
    BY <1>0, <1>1, <2>1, BeginStepCases DEF BeginOp
  <2>3. Line(at, S, CommittedMod', CommittedRows', PastSteps', FutureSteps')
    BY <1>0, <2>1, <2>2, LineOfOperation, LineNext, LineShortened
  <2> QED BY <2>3 DEF CommittedLine
<1>2. ASSUME BeginNoUndo PROVE CommittedLine(at, S)'
  <2>1. /\ InTx("idle") /\ ~InTx("revert")
        /\ tx'.phase = "body" /\ tx'.base_rows = rows /\ tx'.base_mod = mod
    BY <1>2 DEF BeginNoUndo, Open, InTx
  <2>2. undo'.undo_steps = <<>> /\ undo'.redo_steps = <<>>
    BY <1>0, <1>2 DEF BeginNoUndo, Discard, GoodUndo, UndoState
  <2>3. Line(at, S, CommittedMod', CommittedRows', PastSteps', FutureSteps')
    BY <1>0, <2>1, <2>2, LineOfOperation, LineNext, LineShortened
  <2> QED BY <2>3 DEF CommittedLine
<1>3. ASSUME NEW k \in Keys, NEW v \in Vals, Write(k, v) PROVE CommittedLine(at, S)'
  <2>1. tx' = tx /\ tx.phase = "body" /\ InTx("body") /\ ~InTx("revert") /\ SetRow(k, v)
    BY <1>3 DEF Write, InTx
  <2>2. [table |-> "row", key |-> k, old |-> rows[k]] \in Change
    BY DEF TypeInv, TypeOK, Change, RowChange
  <2>3. undo'.undo_steps = undo.undo_steps /\ undo'.redo_steps = undo.redo_steps
    BY <1>0, <2>1, <2>2, SaveCases DEF SetRow
  <2>4. Line(at, S, CommittedMod', CommittedRows', PastSteps', FutureSteps')
    BY <1>0, <2>1, <2>3, LineOfOperation, LineNext
  <2> QED BY <2>4 DEF CommittedLine
<1> QED BY <1>1, <1>2, <1>3

\* A failure returns to the version that was committed.
LEMMA LineFails ==
  ASSUME TypeInv, NEW at, NEW S, CommittedLine(at, S), Fail
  PROVE  CommittedLine(at, S)'
<1>1. /\ CommittedRows = tx.base_rows /\ CommittedMod = tx.base_mod
      /\ tx'.phase = "idle" /\ rows' = tx.base_rows /\ mod' = tx.base_mod
  BY DEF Fail, CommittedRows, CommittedMod, InTx, Idle
<1>2. undo'.undo_steps = <<>> /\ undo'.redo_steps = <<>>
  BY TypeOKUndo DEF TypeInv, Fail, Discard, GoodUndo, UndoState
<1>3. Line(at, S, CommittedMod', CommittedRows', PastSteps', FutureSteps')
  BY <1>1, <1>2, LineNext, LineShortened DEF CommittedLine
<1> QED BY <1>3 DEF CommittedLine

\* A step taken out to be reverted is still on the line.
LEMMA LineBeginsRevert ==
  ASSUME TypeInv, NEW at, NEW S, CommittedLine(at, S), BeginUndo \/ BeginRedo
  PROVE  CommittedLine(at, S)'
<1>0. /\ InTx("idle") /\ ~InTx("revert") /\ GoodUndo(undo, Kinds, Change)
      /\ undo.undo_steps \in Steps /\ undo.redo_steps \in Steps
      /\ Line(at, S, mod, rows, undo.undo_steps, undo.redo_steps)
  BY KeptInSteps, LineOfOperation DEF BeginUndo, BeginRedo, InTx, CommittedLine
<1>1. ASSUME BeginUndo PROVE CommittedLine(at, S)'
  <2> DEFINE u == [PopUndo(undo) EXCEPT !.mode = "Undoing"]
             step == Head(undo.undo_steps)
  <2>1. GoodUndo(u, Kinds, Change) /\ step \in Step(Kinds, Change)
    BY <1>0, <1>1, PopUndoType DEF BeginUndo
  <2>2. /\ u.mode = "Undoing" /\ u.undo_steps = Tail(undo.undo_steps)
        /\ u.redo_steps = undo.redo_steps
    BY <1>0 DEF PopUndo, GoodUndo, UndoState
  <2>3. undo' = BeginStep(u, step.kind) /\ tx' = Reverting(step) /\ step.kind \in Kinds
    BY <1>1, <2>1 DEF BeginUndo, Step
  <2> HIDE DEF u
  <2>4. /\ undo'.mode = "Undoing" /\ undo'.undo_steps = Tail(undo.undo_steps)
        /\ undo'.redo_steps = undo.redo_steps
    BY <2>1, <2>2, <2>3, BeginStepCases
  <2>5. /\ tx'.phase = "revert" /\ tx'.step = step /\ tx'.base_rows = rows
        /\ tx'.base_mod = mod
    BY <2>3 DEF Reverting
  <2>6. undo.undo_steps = <<step>> \o Tail(undo.undo_steps)
    BY <1>0, <1>1, HeadAndTail DEF BeginUndo
  <2> HIDE DEF step
  <2>7. Line(at, S, CommittedMod', CommittedRows', PastSteps', FutureSteps')
    BY <1>0, <2>4, <2>5, <2>6, LineNext
  <2> QED BY <2>7 DEF CommittedLine
<1>2. ASSUME BeginRedo PROVE CommittedLine(at, S)'
  <2> DEFINE u == [PopRedo(undo) EXCEPT !.mode = "Redoing"]
             step == undo.redo_steps[Len(undo.redo_steps)]
             others == SubSeq(undo.redo_steps, 1, Len(undo.redo_steps) - 1)
  <2>1. GoodUndo(u, Kinds, Change) /\ step \in Step(Kinds, Change)
    BY <1>0, <1>2, PopRedoType DEF BeginRedo
  <2>2. /\ u.mode = "Redoing" /\ u.undo_steps = undo.undo_steps
        /\ u.redo_steps = others
    BY <1>0 DEF PopRedo, GoodUndo, UndoState
  <2>3. undo' = BeginStep(u, step.kind) /\ tx' = Reverting(step) /\ step.kind \in Kinds
    BY <1>2, <2>1 DEF BeginRedo, Step
  <2> HIDE DEF u
  <2>4. /\ undo'.mode = "Redoing" /\ undo'.undo_steps = undo.undo_steps
        /\ undo'.redo_steps = others
    BY <2>1, <2>2, <2>3, BeginStepCases
  <2>5. /\ tx'.phase = "revert" /\ tx'.step = step /\ tx'.base_rows = rows
        /\ tx'.base_mod = mod
    BY <2>3 DEF Reverting
  <2>6. undo.redo_steps = Append(others, step)
    BY <1>0, <1>2, HeadAndTail DEF BeginRedo
  <2> HIDE DEF step, others
  <2>7. Line(at, S, CommittedMod', CommittedRows', PastSteps', FutureSteps')
    BY <1>0, <2>4, <2>5, <2>6, LineNext
  <2> QED BY <2>7 DEF CommittedLine
<1> QED BY <1>1, <1>2

\* What is reverted so far is not committed.
LEMMA LineReverts ==
  ASSUME TypeInv, ShapeInv, NEW at, NEW S, CommittedLine(at, S), RevertChange
  PROVE  CommittedLine(at, S)'
<1>1. InTx("revert") /\ tx.left > 0 /\ tx.step.changes[tx.left] \in Change
  BY NextChangeType DEF RevertChange
<1>2. /\ undo'.undo_steps = undo.undo_steps /\ undo'.redo_steps = undo.redo_steps
      /\ undo'.mode = undo.mode
  <2> DEFINE change == tx.step.changes[tx.left]
  <2>1. CASE change.table = "row" /\ SetRow(change.key, change.old)
    <3>1. change.key \in Keys /\ change.old \in Vals
      BY <1>1, <2>1, ChangeFields
    <3>2. [table |-> "row", key |-> change.key, old |-> rows[change.key]] \in Change
      BY <3>1 DEF TypeInv, TypeOK, Change, RowChange
    <3> QED BY <2>1, <3>2, TypeOKUndo, SaveCases DEF TypeInv, SetRow
  <2>2. CASE undo' = Stamped(undo)
    <3>1. [table |-> "col", old |-> mod] \in Change
      BY DEF TypeInv, TypeOK, Change, ModChange
    <3> QED BY <2>2, <3>1, TypeOKUndo, SaveCases DEF TypeInv, Stamped
  <2> QED BY SMTT(60), <2>1, <2>2 DEF RevertChange
<1>3. /\ tx'.phase = "revert" /\ tx'.step = tx.step /\ tx'.base_rows = tx.base_rows
      /\ tx'.base_mod = tx.base_mod
  BY <1>1, TxByPhase DEF TypeInv, RevertChange, RevertTx
<1>4. undo.mode \in {"Undoing", "Redoing"}
  BY <1>1 DEF ShapeInv, PhaseInv
<1>5. Line(at, S, CommittedMod', CommittedRows', PastSteps', FutureSteps')
  BY <1>1, <1>2, <1>3, <1>4, LineOfRevert, LineNext DEF CommittedLine
<1> QED BY <1>5 DEF CommittedLine

\* A custom step leads from the version to itself.
LEMMA LineAddsCustom ==
  ASSUME TypeInv, ShapeInv, NEW at, NEW S, CommittedLine(at, S), AddCustomUndoStep
  PROVE  CommittedLine(at, S)'
<1> DEFINE u == BeginStep(undo, "Custom")
<1>1. /\ InTx("idle") /\ ~InTx("revert") /\ tx'.phase = "idle" /\ rows' = rows
      /\ mod' = mod /\ undo.mode = "NormalOp" /\ "Custom" \in Kinds
      /\ GoodUndo(undo, Kinds, Change) /\ undo.undo_steps \in Steps
      /\ Line(at, S, mod, rows, undo.undo_steps, undo.redo_steps)
  BY KeptInSteps, LineOfOperation
     DEF AddCustomUndoStep, InTx, Kinds, ShapeInv, PhaseInv, CommittedLine
<1>2. /\ GoodUndo(u, Kinds, Change) /\ HasStep(u) /\ u.mode = "NormalOp"
      /\ u.undo_steps = undo.undo_steps /\ u.redo_steps = <<>>
      /\ u.current_step.kind = "Custom" /\ u.current_step.changes = <<>>
  BY <1>1, BeginStepType, BeginStepCases
<1>3. undo' = EndStep(u, FALSE)
  BY DEF AddCustomUndoStep, AddCustomStep
<1> HIDE DEF u
<1>4. /\ undo'.undo_steps = <<u.current_step>> \o SubSeq(u.undo_steps, 1, Kept(u.undo_steps))
      /\ undo'.redo_steps = <<>>
  BY <1>2, <1>3, EndStepCases DEF HasChanges
<1>5. /\ u.current_step \in Step(Kinds, Change)
      /\ Kept(u.undo_steps) \in (1 - 1)..Len(u.undo_steps)
  BY <1>2, KeptRange DEF HasStep
<1>6. PastFrom(at, undo'.undo_steps, S, mod)
  <2>1. Leads(u.current_step.changes, at, mod, mod)
    BY <1>2, LeadsNowhere
  <2>2. mod \in S /\ PastFrom(at, u.undo_steps, S, mod) /\ u.undo_steps \in Steps
    BY <1>1, <1>2 DEF Line
  <2> DEFINE stamp == mod
             front == u.current_step
             steps == u.undo_steps
             n == Kept(u.undo_steps)
  <2>3. /\ front \in Step(Kinds, Change) /\ steps \in Steps /\ n \in (1 - 1)..Len(steps)
        /\ stamp \in S /\ PastFrom(at, steps, S, stamp)
        /\ Leads(front.changes, at, stamp, stamp)
    BY <1>5, <2>1, <2>2
  <2> HIDE DEF stamp, front, steps, n
  <2>4. PastFrom(at, <<front>> \o SubSeq(steps, 1, n), S, stamp)
    BY <2>3, PastPushed
  <2> QED BY <1>4, <2>4 DEF stamp, front, steps, n
<1>7. Line(at, S, mod, rows, undo'.undo_steps, undo'.redo_steps)
  BY <1>1, <1>4, <1>6, OneVersion DEF Line
<1>8. Line(at, S, CommittedMod', CommittedRows', PastSteps', FutureSteps')
  BY <1>1, <1>7, LineNext
<1> QED BY <1>8 DEF CommittedLine

\* Merging leaves out the versions between the merged steps.
LEMMA LineMerges ==
  ASSUME TypeInv, NEW at, NEW S, CommittedLine(at, S),
         NEW target \in 1..MaxOps, MergeUndoableOps(target)
  PROVE  CommittedLine(at, S)'
<1> DEFINE steps == undo.undo_steps
<1>1. /\ InTx("idle") /\ ~InTx("revert") /\ tx'.phase = "idle" /\ rows' = rows
      /\ mod' = mod /\ GoodUndo(undo, Kinds, Change) /\ steps \in Steps
      /\ Line(at, S, mod, rows, steps, undo.redo_steps)
  BY KeptInSteps, LineOfOperation DEF MergeUndoableOps, InTx, CommittedLine
<1>2. PICK idx \in TargetIndexes(undo, target) : undo' = MergeInto(undo, idx)
  BY DEF MergeUndoableOps
<1>3. idx \in 1..Len(steps)
  BY <1>2 DEF TargetIndexes
<1> DEFINE merged == [steps[idx] EXCEPT !.changes = JoinedChanges(steps, idx)]
<1>4. /\ undo'.undo_steps = <<merged>> \o SubSeq(steps, idx + 1, Len(steps))
      /\ undo'.redo_steps = undo.redo_steps
  BY <1>1, <1>2 DEF MergeInto, GoodUndo, UndoState
<1>5. merged \in Step(Kinds, Change) /\ merged.changes = JoinedChanges(steps, idx)
  <2>1. steps \in Seq(Step(Kinds, Change)) /\ Len(steps) \in Nat
    BY <1>1 DEF Steps
  <2>2. steps[idx] \in Step(Kinds, Change) /\ idx \in 0..Len(steps)
    BY <1>3, <2>1
  <2>3. JoinedChanges(steps, idx) \in Seq(Change)
    BY <2>1, <2>2, JoinedChangesType
  <2> HIDE DEF steps
  <2> QED BY <2>2, <2>3 DEF Step
<1>6. PastFrom(at, undo'.undo_steps, S, mod)
  <2> DEFINE stamp == mod
             joined == JoinedChanges(steps, idx)
  <2>1. PastFrom(at, steps, S, stamp)
    BY <1>1 DEF Line
  <2> HIDE DEF stamp, steps, merged
  <2>2. PastFrom(at, <<merged>> \o SubSeq(steps, idx + 1, Len(steps)), S, stamp)
    BY <1>1, <1>3, <1>5, <2>1, PastMerged
  <2> QED BY <1>4, <2>2 DEF stamp
<1> HIDE DEF steps, merged
<1>7. Line(at, S, mod, rows, undo'.undo_steps, undo'.redo_steps)
  BY <1>1, <1>4, <1>6 DEF Line
<1>8. Line(at, S, CommittedMod', CommittedRows', PastSteps', FutureSteps')
  BY <1>1, <1>7, LineNext
<1> QED BY <1>8 DEF CommittedLine

\* The version a finished undo or redo has arrived at is the one its step led to.
LEMMA RevertArrives ==
  ASSUME TypeInv, RevertProgress, StampsInv, InTx("revert"), tx.left = 0,
         NEW at \in Tables, NEW n \in Nat, at[tx.base_mod] = tx.base_rows,
         Leads(tx.step.changes, at, tx.base_mod, n)
  PROVE  mod = n /\ rows = at[n]
<1> DEFINE changes == tx.step.changes
           before == tx.base_rows
           stamp == tx.base_mod
<1>1. /\ changes \in Seq(Change) /\ rows \in [Keys -> Vals] /\ at[n] \in [Keys -> Vals]
      /\ Leads(changes, at, stamp, n) /\ at[stamp] = before
  BY TxByPhase DEF TypeInv, TypeOK, RevertTx, Step, Tables
<1>2. \A k \in Keys : IF Touched(changes, k) THEN FirstOld(changes, k, rows[k])
                                             ELSE rows[k] = before[k]
  BY AllPutBack DEF UndoRestores
<1>3. StampBack(changes, 0, mod, stamp)
  BY DEF StampsInv
<1> HIDE DEF changes, before, stamp
<1>4. ASSUME NEW k \in Keys PROVE rows[k] = at[n][k]
  <2>1. Accounts(changes, k, at[stamp][k], at[n][k])
    BY <1>1 DEF Leads
  <2> QED BY <1>1, <1>2, <2>1, FirstOldUnique DEF Accounts
<1>5. rows = at[n]
  BY <1>1, <1>4
<1>6. mod = n
  <2>1. StampAccounts(changes, stamp, n)
    BY <1>1 DEF Leads
  <2>2. 0 + 1 = 1 /\ 0 \in Nat
    OBVIOUS
  <2>3. IF Restamped(changes) THEN StampAfter(changes, 0, mod) ELSE mod = stamp
    BY <1>3, <2>2 DEF StampBack, Restamped
  <2> QED BY <1>1, <2>1, <2>2, <2>3, StampAfterUnique DEF StampAccounts
<1> QED BY <1>5, <1>6

\* The open step leads from what the transaction has made back to the savepoint.
LEMMA OpenLeads ==
  ASSUME StepAccountsForChanges, ~InTx("idle"), HasStep(undo), NEW at, NEW m, NEW n,
         at[m] = rows, at[n] = tx.base_rows,
         StampAccounts(undo.current_step.changes, m, n)
  PROVE  Leads(undo.current_step.changes, at, m, n)
<1>1. \A k \in Keys :
        Accounts(undo.current_step.changes, k, rows[k], tx.base_rows[k])
  BY DEF StepAccountsForChanges, Accounts
<1>2. \A k \in Keys : Accounts(undo.current_step.changes, k, at[m][k], at[n][k])
  BY <1>1
<1> QED BY <1>2 DEF Leads

\* Coalescing a step into the one before it replaces the newest version.
LEMMA PastCoalesced ==
  ASSUME NEW u, GoodUndo(u, Kinds, Change), MayCoalesce(u), NEW at, NEW S, NEW now,
         PastFrom(at, u.undo_steps, S, now), NEW new \in S,
         Leads(u.current_step.changes, at, new, now)
  PROVE  PastFrom(at, u.undo_steps, S, new)
<1> DEFINE steps == u.undo_steps
           earlier == steps[1]
           later == u.current_step
<1>1. steps \in Steps /\ steps # <<>> /\ later \in Step(Kinds, Change)
  BY KeptRange DEF MayCoalesce, HasStep, Steps
<1>2. earlier \in Step(Kinds, Change) /\ Head(steps) = earlier
  BY <1>1, HeadAndTail
<1>3. /\ NoteEdit(earlier) /\ NoteEdit(later)
      /\ earlier.changes[1].key = later.changes[1].key
  BY <1>2 DEF MayCoalesce
<1>4. Leads(later.changes, at, new, now) /\ PastFrom(at, steps, S, now)
  OBVIOUS
<1> HIDE DEF steps, earlier, later
<1>5. \A n \in S : Leads(earlier.changes, at, now, n) => Leads(earlier.changes, at, new, n)
  BY <1>1, <1>2, <1>3, <1>4, CoalescedLeads
<1>6. PastFrom(at, steps, S, new)
  BY <1>1, <1>4, <1>5, PastReplaced DEF earlier
<1> QED BY <1>6 DEF steps

\* A finished undo or redo moves along the line: its step leads back from where it
\* has arrived.
LEMMA LineEndsRevert ==
  ASSUME SoundTx, NEW at \in Tables, NEW S, S \subseteq Nat, CommittedLine(at, S),
         FinishRevert
  PROVE  CommittedLine(at, S)'
<1>1. /\ TypeInv /\ ShapeInv /\ StepAccountsForChanges /\ RevertProgress /\ StampsInv
      /\ InTx("revert") /\ ~InTx("idle") /\ tx.left = 0 /\ tx'.phase = "idle"
      /\ rows' = rows /\ mod' = mod /\ GoodUndo(undo, Kinds, Change)
      /\ undo.undo_steps \in Steps /\ undo.redo_steps \in Steps
  BY KeptInSteps DEF SoundTx, FinishRevert, InTx, Idle
<1>2. /\ undo.mode \in {"Undoing", "Redoing"} /\ HasStep(undo)
      /\ tx.step \in Step(Kinds, Change)
  BY <1>1, TxByPhase DEF TypeInv, ShapeInv, PhaseInv, RevertTx
<1> DEFINE open == undo.current_step
<1>3. open \in Step(Kinds, Change)
  BY <1>1, <1>2, KeptRange DEF HasStep
<1>4. PICK recent \in BOOLEAN :
        undo' = [EndStep(Coalesced(undo, recent), FALSE) EXCEPT !.mode = "NormalOp"]
  BY DEF FinishRevert
<1> DEFINE w == Coalesced(undo, recent)
           ended == EndStep(w, FALSE)
<1>5. /\ GoodUndo(w, Kinds, Change) /\ HasStep(w)
      /\ w.undo_steps = undo.undo_steps /\ w.redo_steps = undo.redo_steps
      /\ w.mode = undo.mode
      /\ w = undo \/ (MayCoalesce(undo) /\ ~HasChanges(w.current_step))
  BY <1>1, <1>2, CoalescedType, CoalescedCases
<1> HIDE DEF w
<1>6. undo'.undo_steps = ended.undo_steps /\ undo'.redo_steps = ended.redo_steps
  <2>1. GoodUndo(ended, Kinds, Change)
    BY <1>5, EndStepType
  <2>2. undo' = [ended EXCEPT !.mode = "NormalOp"]
    BY <1>4 DEF w
  <2> HIDE DEF ended
  <2>3. ended \in UndoState(Kinds, Change)
    BY <2>1 DEF GoodUndo
  <2> QED BY <2>2, <2>3 DEF UndoState
<1>7. HasChanges(open) /\ (undo.mode = "Undoing" => ~MayCoalesce(undo))
  BY <1>1, RevertedOpen
<1>8. PICK stamp : stamp = tx.base_mod
  OBVIOUS
<1>9. Line(at, S, stamp, tx.base_rows, PastSteps, FutureSteps)
  BY <1>1, <1>8, LineOfRevert DEF CommittedLine
<1>10. StampAccounts(open.changes, mod, stamp)
  BY <1>1, <1>8 DEF StampsInv
<1>11. ASSUME NEW n \in S, Leads(tx.step.changes, at, stamp, n)
       PROVE  mod = n /\ rows = at[n] /\ Leads(open.changes, at, n, stamp)
  <2>1. at[tx.base_mod] = tx.base_rows /\ n \in Nat
    BY <1>8, <1>9 DEF Line
  <2>2. Leads(tx.step.changes, at, tx.base_mod, n)
    BY <1>8, <1>11
  <2>3. mod = n /\ rows = at[n]
    BY <1>1, <2>1, <2>2, RevertArrives
  <2>4. StampAccounts(open.changes, n, stamp) /\ at[n] = rows /\ at[stamp] = tx.base_rows
    BY <1>8, <1>10, <2>1, <2>3
  <2>5. Leads(open.changes, at, n, stamp)
    BY <1>1, <1>2, <2>4, OpenLeads
  <2> QED BY <2>3, <2>5
<1>12. /\ PastFrom(at, PastSteps, S, stamp) /\ FutureFrom(at, FutureSteps, S, stamp)
  BY <1>9 DEF Line
<1>13. CASE undo.mode = "Undoing"
  <2> DEFINE step == tx.step
             past == undo.undo_steps
             future == undo.redo_steps
  <2>1. PastSteps = <<step>> \o past /\ FutureSteps = future
    BY <1>1, <1>13, LineOfRevert
  <2>2. /\ ended.undo_steps = past /\ ended.redo_steps = Append(future, open)
    BY <1>1, <1>2, <1>5, <1>7, <1>13, EndStepCases
  <2>3. /\ past \in Steps /\ future \in Steps /\ step \in Step(Kinds, Change)
        /\ PastFrom(at, <<step>> \o past, S, stamp) /\ FutureFrom(at, future, S, stamp)
    BY <1>1, <1>2, <1>12, <2>1
  <2> HIDE DEF open, ended, step, past, future
  <2>4. PICK n \in S : Leads(step.changes, at, stamp, n) /\ PastFrom(at, past, S, n)
    BY <2>3, PastTaken
  <2>5. mod = n /\ rows = at[n] /\ Leads(open.changes, at, n, stamp)
    BY <1>11, <2>4 DEF step
  <2>6. FutureFrom(at, Append(future, open), S, n)
    BY <1>3, <2>3, <2>5, FutureAppended DEF open
  <2>7. Line(at, S, mod, rows, undo'.undo_steps, undo'.redo_steps)
    BY <1>6, <2>2, <2>4, <2>5, <2>6 DEF Line
  <2>8. Line(at, S, CommittedMod', CommittedRows', PastSteps', FutureSteps')
    BY <1>1, <2>7, LineNext
  <2> QED BY <2>8 DEF CommittedLine
<1>14. CASE undo.mode = "Redoing"
  <2> DEFINE step == tx.step
             past == undo.undo_steps
             future == undo.redo_steps
             kept == Kept(undo.undo_steps)
  <2>1. PastSteps = past /\ FutureSteps = Append(future, step)
    BY <1>1, <1>14, LineOfRevert
  <2>2. ended.redo_steps = future
    BY <1>5, <1>14, EndStepCases
  <2>3. /\ past \in Steps /\ future \in Steps /\ step \in Step(Kinds, Change)
        /\ PastFrom(at, past, S, stamp) /\ FutureFrom(at, Append(future, step), S, stamp)
        /\ kept \in (1 - 1)..Len(past)
    BY <1>1, <1>2, <1>12, <2>1, KeptRange
  <2>4. /\ w = undo => ended.undo_steps = <<open>> \o SubSeq(past, 1, kept)
        /\ w # undo => ended.undo_steps = past /\ MayCoalesce(undo)
    BY <1>1, <1>2, <1>5, <1>7, <1>14, EndStepCases
  <2> HIDE DEF ended, step, future, kept
  <2>5. PICK n \in S : Leads(step.changes, at, stamp, n) /\ FutureFrom(at, future, S, n)
    BY <2>3, FutureTaken
  <2>6. mod = n /\ rows = at[n] /\ Leads(open.changes, at, n, stamp)
    BY <1>11, <2>5 DEF step
  <2>7. PastFrom(at, ended.undo_steps, S, n)
    <3>1. CASE w = undo
      <4> HIDE DEF open, past
      <4>1. PastFrom(at, <<open>> \o SubSeq(past, 1, kept), S, n)
        BY <1>3, <2>3, <2>6, PastPushed DEF open
      <4> QED BY <2>4, <3>1, <4>1
    <3>2. CASE w # undo
      <4>1. PastFrom(at, undo.undo_steps, S, n)
        BY <1>1, <2>3, <2>4, <2>6, <3>2, PastCoalesced
      <4> QED BY <2>4, <3>2, <4>1
    <3> QED BY <3>1, <3>2
  <2>8. Line(at, S, mod, rows, undo'.undo_steps, undo'.redo_steps)
    BY <1>6, <2>2, <2>5, <2>6, <2>7 DEF Line
  <2>9. Line(at, S, CommittedMod', CommittedRows', PastSteps', FutureSteps')
    BY <1>1, <2>8, LineNext
  <2> QED BY <2>9 DEF CommittedLine
<1> QED BY <1>2, <1>13, <1>14

\* A table of versions with one more, which the stamp of it names.
NewVersion(later, T, at, S, stamp) ==
  /\ S \subseteq T /\ stamp \in T
  /\ later[stamp] = rows /\ \A m \in S : later[m] = at[m]

\* A committed operation that has written something is a new version, with a stamp
\* of its own; one that has not leaves the line as it is.
LEMMA LineFinishes ==
  ASSUME SoundTx, "SkipUndo" \notin OpKinds, Finish,
         NEW at \in Tables, NEW S, CommittedLine(at, S),
         NEW later \in Tables, NEW T,
         clock' # clock => NewVersion(later, T, at, S, clock + 1)
  PROVE  \/ clock' = clock /\ CommittedLine(at, S)'
         \/ clock' = clock + 1 /\ CommittedLine(later, T)'
<1>1. /\ TypeInv /\ ShapeInv /\ StepAccountsForChanges /\ StampsInv
      /\ InTx("body") /\ ~InTx("revert") /\ ~InTx("idle") /\ tx'.phase = "idle"
      /\ rows' = rows /\ GoodUndo(undo, Kinds, Change) /\ undo.undo_steps \in Steps
  BY KeptInSteps DEF SoundTx, Finish, InTx, Idle
<1>2. /\ tx.base_rows \in [Keys -> Vals] /\ rows \in [Keys -> Vals] /\ mod \in Nat
      /\ tx.kind # "SkipUndo" /\ clock \in Nat
  BY <1>1, TxByPhase DEF TypeInv, TypeOK, Tx, Kinds, NoOp
<1>3. /\ undo.mode = "NormalOp" /\ undo.redo_steps = <<>>
      /\ ~HasStep(undo) => undo.undo_steps = <<>>
      /\ mod = tx.base_mod
      /\ HasStep(undo) => ~Restamped(undo.current_step.changes)
  BY <1>1 DEF ShapeInv, PhaseInv, StampsInv
<1>4. Line(at, S, mod, tx.base_rows, undo.undo_steps, <<>>)
  BY <1>1, <1>3, LineOfOperation DEF CommittedLine
<1> DEFINE changed == ~HasStep(undo) \/ HasChanges(undo.current_step)
           stamped == IF changed THEN Stamped(undo) ELSE undo
<1>5. /\ clock' = IF changed THEN clock + 1 ELSE clock
      /\ mod' = IF changed THEN clock + 1 ELSE mod
      /\ \E recent \in BOOLEAN : undo' = EndStep(Coalesced(stamped, recent), FALSE)
  BY <1>2 DEF Finish
<1>6. PICK recent \in BOOLEAN : undo' = EndStep(Coalesced(stamped, recent), FALSE)
  BY <1>5
<1> DEFINE w == Coalesced(stamped, recent)
<1>7. CASE ~HasStep(undo)
  <2>1. stamped = undo
    BY <1>7 DEF Stamped, Save
  <2>2. undo' = undo
    BY <1>6, <1>7, <2>1 DEF Coalesced, MayCoalesce, EndStep
  <2>3. clock' = clock + 1 /\ mod' = clock + 1 /\ NewVersion(later, T, at, S, clock + 1)
    BY <1>2, <1>5, <1>7
  <2>4. Line(later, T, mod', rows', undo'.undo_steps, undo'.redo_steps)
    BY <1>1, <1>3, <1>7, <2>2, <2>3, OneVersion DEF Line, NewVersion
  <2>5. Line(later, T, CommittedMod', CommittedRows', PastSteps', FutureSteps')
    BY <1>1, <2>4, LineNext
  <2> QED BY <2>3, <2>5 DEF CommittedLine
<1>8. CASE HasStep(undo) /\ ~changed
  <2>1. /\ GoodUndo(w, Kinds, Change) /\ HasStep(w) /\ ~HasChanges(w.current_step)
        /\ w.undo_steps = undo.undo_steps /\ w.redo_steps = undo.redo_steps
    BY <1>1, <1>8, CoalescedType, CoalescedCases
  <2>2. undo' = EndStep(w, FALSE)
    BY <1>6
  <2> HIDE DEF w
  <2>3. undo'.undo_steps = undo.undo_steps /\ undo'.redo_steps = <<>>
    BY <1>3, <2>1, <2>2, EndStepCases
  <2>4. undo.current_step.changes = <<>>
    BY <1>8 DEF HasChanges
  <2>5. \A k \in Keys : rows[k] = tx.base_rows[k]
    BY <1>1, <1>8, <2>4 DEF StepAccountsForChanges, Touched
  <2>6. rows = tx.base_rows
    BY <1>2, <2>5
  <2>7. clock' = clock /\ mod' = mod
    BY <1>5, <1>8
  <2>8. Line(at, S, CommittedMod', CommittedRows', PastSteps', FutureSteps')
    BY <1>1, <1>4, <2>3, <2>6, <2>7, LineNext
  <2> QED BY <2>7, <2>8 DEF CommittedLine
<1>9. CASE HasStep(undo) /\ changed
  <2> DEFINE c == [table |-> "col", old |-> mod]
             new == clock + 1
             base == mod
             before == tx.base_rows
             now == rows
             past == undo.undo_steps
  <2>0. /\ S \subseteq T /\ new \in T /\ later[new] = now
        /\ \A m \in S : later[m] = at[m]
    BY <1>2, <1>5, <1>9 DEF NewVersion
  <2>1. stamped = Save(undo, c) /\ stamped = Stamped(undo)
    BY <1>9 DEF Stamped
  <2>2. c \in Change /\ c.table = "col" /\ c.old = mod
    BY <1>2 DEF Change, ModChange
  <2> HIDE DEF c
  <2>3. /\ GoodUndo(stamped, Kinds, Change) /\ HasStep(stamped)
        /\ stamped.undo_steps = undo.undo_steps /\ stamped.redo_steps = <<>>
        /\ stamped.mode = "NormalOp"
    BY <1>1, <1>3, <1>9, <2>1, <2>2, SaveCases, StampedType DEF TypeInv
  <2>4. StampAccounts(stamped.current_step.changes, new, base)
    <3>1. StampAccounts(undo.current_step.changes, mod, mod)
      BY <1>3, <1>9, NotRestamped
    <3>2. StampAccounts(Save(undo, c).current_step.changes, clock + 1, mod)
      BY <1>1, <1>9, <2>2, <3>1, SaveStampAccounts
    <3> QED BY <2>1, <3>2
  <2>5. \A k \in Keys :
          Accounts(stamped.current_step.changes, k, now[k], before[k])
    <3>1. \A k \in Keys : Accounts(undo.current_step.changes, k, now[k], before[k])
      BY <1>1, <1>9 DEF StepAccountsForChanges, Accounts
    <3> HIDE DEF before
    <3>2. \A k \in Keys : Accounts(Stamped(undo).current_step.changes, k, rows[k], before[k])
      BY <1>1, <1>9, <3>1, StampedAccounts DEF TypeInv
    <3> QED BY <2>1, <3>2
  <2> HIDE DEF stamped
  <2>6. /\ GoodUndo(w, Kinds, Change) /\ HasStep(w)
        /\ w.undo_steps = past /\ w.redo_steps = <<>> /\ w.mode = "NormalOp"
        /\ w = stamped \/ (MayCoalesce(stamped) /\ ~HasChanges(w.current_step))
    BY <2>3, CoalescedType, CoalescedCases
  <2>7. undo' = EndStep(w, FALSE)
    BY <1>6
  <2> HIDE DEF w
  <2>8. clock' = new /\ mod' = new /\ undo'.redo_steps = <<>>
    BY <1>5, <1>9, <2>6, <2>7, EndStepCases
  <2> DEFINE open == stamped.current_step
  <2>9. /\ open \in Step(Kinds, Change) /\ past \in Steps
        /\ Kept(past) \in (1 - 1)..Len(past)
    BY <1>1, <2>3, KeptRange DEF HasStep
  <2>10. /\ PastFrom(at, past, S, base) /\ base \in S /\ at[base] = before
    BY <1>4 DEF Line
  <2>11. PastFrom(later, past, T, base)
    <3> HIDE DEF past, base
    <3> QED BY <2>0, <2>9, <2>10, LineAgrees
  <2>12. Leads(open.changes, later, new, base)
    <3>1. later[new] = now /\ later[base] = before
      BY <2>0, <2>10
    <3> HIDE DEF new, base, now, before
    <3> QED BY <2>4, <2>5, <3>1 DEF Leads
  <2>13. new \in T
    BY <2>0
  <2>14. PastFrom(later, undo'.undo_steps, T, new)
    <3>1. CASE w = stamped /\ HasChanges(open)
      <4> DEFINE kept == Kept(past)
      <4>1. undo'.undo_steps = <<open>> \o SubSeq(past, 1, kept)
        BY ZenonT(60), <2>6, <2>7, <3>1, EndStepCases
      <4> HIDE DEF open, past, new, base, kept
      <4>2. PastFrom(later, <<open>> \o SubSeq(past, 1, kept), T, new)
        BY <2>9, <2>11, <2>12, <2>13, PastPushed DEF kept
      <4> QED BY <4>1, <4>2
    <3>2. CASE MayCoalesce(stamped) /\ ~HasChanges(w.current_step)
      <4>1. undo'.undo_steps = past
        BY <2>6, <2>7, <3>2, EndStepCases
      <4> HIDE DEF new, base
      <4>2. PastFrom(later, stamped.undo_steps, T, new)
        BY <2>3, <2>11, <2>12, <2>13, <3>2, PastCoalesced
      <4> QED BY <2>3, <4>1, <4>2
    <3>3. CASE w = stamped /\ ~HasChanges(open)
      <4>1. open.changes = Append(undo.current_step.changes, c)
        BY <1>1, <1>9, <2>1, <2>2, SaveCases
      <4>2. undo.current_step.changes \in Seq(Change)
        BY <1>1, <1>9, KeptRange DEF HasStep, Step
      <4>3. open.changes # <<>>
        BY <4>1, <4>2, <2>2, AppendProperties
      <4> QED BY <3>3, <4>3 DEF HasChanges
    <3> QED BY <2>6, <3>1, <3>2, <3>3
  <2>15. Line(later, T, mod', rows', undo'.undo_steps, undo'.redo_steps)
    <3>1. later[new] = rows /\ FutureFrom(later, <<>>, T, new)
      BY <2>0, OneVersion
    <3> QED BY <1>1, <2>8, <2>13, <2>14, <3>1 DEF Line
  <2>16. Line(later, T, CommittedMod', CommittedRows', PastSteps', FutureSteps')
    BY <1>1, <2>15, LineNext
  <2> QED BY <2>8, <2>16 DEF CommittedLine
<1> QED BY <1>7, <1>8, <1>9

\* A sync takes the version of the savepoint with it, and either replaces it by a
\* new one or returns to it.
LEMMA LineSyncs ==
  ASSUME NEW at, NEW S, CommittedLine(at, S)
  PROVE  /\ SoundTx /\ BeginSync => CommittedLine(at, S)'
         /\ \A k \in Keys, v \in Vals : ApplyRemote(k, v) => CommittedLine(at, S)'
         /\ SyncingInv /\ FailSync => CommittedLine(at, S)'
<1>1. ASSUME SoundTx, BeginSync PROVE CommittedLine(at, S)'
  <2>1. /\ InTx("idle") /\ ~InTx("revert") /\ tx'.phase = "sync"
        /\ tx'.base_rows = rows /\ mod' = mod
    BY <1>1 DEF BeginSync, InTx
  <2>2. undo'.undo_steps = <<>> /\ undo'.redo_steps = <<>>
    BY <1>1, KeptInSteps DEF SoundTx, BeginSync, Discard, GoodUndo, UndoState
  <2>3. Line(at, S, mod, rows, <<>>, <<>>)
    BY <2>1, LineOfOperation, LineShortened DEF CommittedLine
  <2>4. Line(at, S, CommittedMod', CommittedRows', PastSteps', FutureSteps')
    BY <2>1, <2>2, <2>3, LineNext
  <2> QED BY <2>4 DEF CommittedLine
<1>2. ASSUME NEW k \in Keys, NEW v \in Vals, ApplyRemote(k, v)
      PROVE  CommittedLine(at, S)'
  <2>1. /\ InTx("sync") /\ ~InTx("revert") /\ tx' = tx /\ tx'.phase = "sync"
        /\ mod' = mod /\ undo' = undo
    BY <1>2 DEF ApplyRemote, InTx
  <2>2. Line(at, S, mod, tx.base_rows, undo.undo_steps, undo.redo_steps)
    BY <2>1, LineOfOperation DEF CommittedLine
  <2>3. Line(at, S, CommittedMod', CommittedRows', PastSteps', FutureSteps')
    BY <2>1, <2>2, LineNext
  <2> QED BY <2>3 DEF CommittedLine
<1>3. ASSUME SyncingInv, FailSync PROVE CommittedLine(at, S)'
  <2>1. /\ InTx("sync") /\ ~InTx("revert") /\ tx'.phase = "idle"
        /\ mod' = mod /\ undo' = undo /\ rows' = tx.base_rows
    BY <1>3 DEF FailSync, InTx, Idle
  <2>2. Line(at, S, mod, tx.base_rows, undo.undo_steps, undo.redo_steps)
    BY <2>1, LineOfOperation DEF CommittedLine
  <2>3. Line(at, S, CommittedMod', CommittedRows', PastSteps', FutureSteps')
    BY <2>1, <2>2, LineNext
  <2> QED BY <2>3 DEF CommittedLine
<1> QED BY <1>1, <1>2, <1>3

\* A finished sync makes a version that nothing can be undone from.
LEMMA LineFinishesSync ==
  ASSUME SyncingInv, FinishSync, NEW later, later[mod'] = rows,
         NEW T, mod' \in T
  PROVE  CommittedLine(later, T)'
<1>1. /\ tx'.phase = "idle" /\ rows' = rows
      /\ undo'.undo_steps = <<>> /\ undo'.redo_steps = <<>>
  BY DEF SyncingInv, FinishSync, InTx, Idle
<1>2. Line(later, T, mod', rows', undo'.undo_steps, undo'.redo_steps)
  BY <1>1, OneVersion DEF Line
<1>3. Line(later, T, CommittedMod', CommittedRows', PastSteps', FutureSteps')
  BY <1>1, <1>2, LineNext
<1> QED BY <1>3 DEF CommittedLine

\* Every step of Transactions other than a commit keeps the line.
LEMMA LineKept ==
  ASSUME SoundTx, Next, ~Finish, NEW at \in Tables, NEW S, S \subseteq Nat,
         CommittedLine(at, S)
  PROVE  CommittedLine(at, S)' /\ clock' = clock
<1>1. TypeInv /\ ShapeInv
  BY DEF SoundTx
<1>2. CommittedLine(at, S)'
  BY <1>1, LineBegins, LineFails, LineBeginsRevert, LineReverts, LineAddsCustom,
     LineMerges, LineEndsRevert
  DEF Next
<1>3. clock' = clock
  BY DEF Next, BeginOp, BeginNoUndo, Write, Fail, BeginUndo, BeginRedo, RevertChange,
         FinishRevert, AddCustomUndoStep, MergeUndoableOps
<1> QED BY <1>2, <1>3
---------------------------------------------------------------------------
(* The invariant holds *)

\* The part about transactions holds at the start.
LEMMA SoundTxInit == Init => SoundTx
<1> SUFFICES ASSUME Init PROVE SoundTx
  OBVIOUS
<1>1. tx.phase = "idle"
  BY DEF Init, Idle
<1>2. StepAccountsForChanges /\ RevertProgress /\ StampsInv
  BY <1>1 DEF StepAccountsForChanges, RevertProgress, StampsInv, InTx
<1> QED BY <1>2, TypeInit, ShapeInit DEF SoundTx

\* Every step of a transaction keeps it.
LEMMA SoundTxStep == SoundTx /\ [Next]_vars => SoundTx'
BY TypeStep, ShapeStep, AccountStep, RevertStep, StampsStep DEF SoundTx

\* The whole holds at the start.
LEMMA SoundInit == StampInit => SoundInv
<1> SUFFICES ASSUME StampInit PROVE SoundInv
  OBVIOUS
<1>1. SoundTx /\ ~InTx("sync") /\ clock = 1 /\ mod = 1 /\ rows \in [Keys -> Vals]
  BY SoundTxInit DEF StampInit, Init, InTx, Idle
<1>2. ReadersInv
  BY <1>1 DEF StampInit, ReadersInv, NoBackup
<1> QED BY <1>1, <1>2 DEF SoundInv, SyncingInv

\* A transaction that ends with nothing to undo or redo leaves a sound state.
LEMMA SoundAfterSync ==
  ASSUME tx' = Idle, rows' \in [Keys -> Vals], mod' \in Nat, clock' \in Nat,
         GoodUndo(undo', Kinds, Change), undo'.mode = "NormalOp", ~HasStep(undo'),
         undo'.undo_steps = <<>>, undo'.redo_steps = <<>>
  PROVE  SoundTx'
<1>1. tx'.phase = "idle"
  BY DEF Idle
<1>2. TypeInv'
  BY <1>1 DEF TypeInv, TypeOK, GoodUndo, LeftInStep, InTx
<1>3. ShapeInv'
  BY <1>1 DEF ShapeInv, KeptSteps, PhaseInv, RevertingInv, InTx
<1>4. (StepAccountsForChanges /\ RevertProgress /\ StampsInv)'
  BY <1>1 DEF StepAccountsForChanges, RevertProgress, StampsInv, InTx
<1> QED BY <1>2, <1>3, <1>4 DEF SoundTx

\* Every step, that of a sync or a backup included, keeps what is sound.
LEMMA SoundStep == SoundInv /\ [StampNext]_stampVars => SoundInv'
<1> SUFFICES ASSUME SoundInv, [StampNext]_stampVars PROVE SoundInv'
  OBVIOUS
<1>1. ReadersInv /\ clock \in Nat
  BY DEF SoundInv, ReadersInv
<1>2. ASSUME ~InTx("sync"), [Next]_vars, synced' = synced, backup' = backup
      PROVE  SoundInv'
  <2>1. SoundTx'
    BY <1>2, SoundTxStep DEF SoundInv
  <2>2. TypeOK' /\ clock' \in Nat
    BY <2>1 DEF SoundTx, TypeInv, TypeOK
  <2>3. ~InTx("sync")'
    BY <2>2 DEF TypeOK, InTx, Idle, Tx, RevertTx
  <2>4. clock <= clock'
    <3>1. CASE Finish
      <4>1. clock' = clock \/ clock' = clock + 1
        BY <3>1 DEF Finish
      <4> QED BY <1>1, <4>1
    <3>2. CASE Next /\ ~Finish
      <4>1. clock' = clock
        BY <3>2 DEF Next, BeginOp, BeginNoUndo, Write, Fail, BeginUndo, BeginRedo,
           RevertChange, FinishRevert, AddCustomUndoStep, MergeUndoableOps
      <4> QED BY <1>1, <4>1
    <3>3. CASE UNCHANGED vars
      BY <1>1, <3>3 DEF vars
    <3> QED BY <1>2, <3>1, <3>2, <3>3
  <2>5. ReadersInv'
    <3>1. synced.at \in Nat
      BY <1>1 DEF ReadersInv
    <3> QED BY <1>1, <1>2, <2>2, <2>4, <3>1 DEF ReadersInv
  <2> QED BY <2>1, <2>3, <2>5 DEF SoundInv, SyncingInv
<1>3. ASSUME BeginSync PROVE SoundInv'
  <2>1. /\ InTx("idle") /\ ~InTx("sync") /\ tx'.phase = "sync" /\ rows' = rows /\ mod' = mod
        /\ tx' = [phase |-> "sync", base_rows |-> rows] /\ undo' = Discard(undo)
        /\ clock' = clock /\ synced' = synced /\ backup' = backup
    BY <1>3 DEF BeginSync, InTx
  <2>2. /\ rows \in [Keys -> Vals] /\ mod \in Nat /\ GoodUndo(undo, Kinds, Change)
        /\ undo.mode = "NormalOp"
    BY <2>1, TypeOKUndo DEF SoundInv, SoundTx, TypeInv, ShapeInv, PhaseInv
  <2>3. /\ undo'.mode = "NormalOp" /\ ~HasStep(undo') /\ undo'.undo_steps = <<>>
        /\ undo'.redo_steps = <<>> /\ GoodUndo(undo', Kinds, Change)
    <3>1. GoodUndo(Discard(undo), Kinds, Change)
      BY <2>2, DiscardType
    <3> QED BY <2>1, <2>2, <3>1 DEF Discard, GoodUndo, UndoState, HasStep
  <2>4. tx' \in SyncTx
    BY <2>1, <2>2 DEF SyncTx
  <2> QED BY <1>1, <2>1, <2>2, <2>3, <2>4 DEF SoundInv, SyncingInv, ReadersInv, InTx
<1>4. ASSUME NEW k \in Keys, NEW v \in Vals, ApplyRemote(k, v) PROVE SoundInv'
  <2>1. rows' \in [Keys -> Vals] /\ tx' = tx /\ InTx("sync") /\ InTx("sync")'
    BY <1>4 DEF ApplyRemote, SoundInv, SyncingInv, InTx
  <2> QED BY <1>4, <2>1 DEF ApplyRemote, SoundInv, SyncingInv, ReadersInv
<1>5. ASSUME FinishSync \/ FailSync PROVE SoundInv'
  <2>1. CASE FinishSync
    <3>1. PICK ahead \in Skews :
            /\ clock + 1 + ahead > 0 /\ mod' = clock + 1 + ahead
            /\ synced' = [mod |-> clock + 1 + ahead, rows |-> rows, at |-> clock + 1]
      BY <2>1 DEF FinishSync
    <3>2. mod' \in Nat
      BY <1>1, <3>1, SkewsAssumption
    <3>3. /\ InTx("sync") /\ tx' = Idle /\ undo' = undo /\ backup' = backup /\ ~InTx("sync")'
          /\ clock' = clock + 1 /\ rows' = rows /\ rows \in [Keys -> Vals]
      BY <2>1 DEF FinishSync, SoundInv, SyncingInv, InTx, Idle
    <3>4. SoundTx'
      BY <1>1, <3>2, <3>3, SoundAfterSync DEF SoundInv, SyncingInv
    <3>5. /\ synced' \in [mod : Nat, rows : [Keys -> Vals], at : Nat]
          /\ synced'.at <= clock'
      BY <1>1, <3>1, <3>2, <3>3
    <3> QED BY <1>1, <3>3, <3>4, <3>5 DEF SoundInv, SyncingInv, ReadersInv
  <2>2. CASE FailSync
    <3>1. /\ InTx("sync") /\ tx' = Idle /\ undo' = undo /\ backup' = backup /\ ~InTx("sync")'
          /\ clock' = clock /\ mod' \in Nat /\ rows' \in [Keys -> Vals] /\ synced' = synced
      BY <2>2 DEF FailSync, SoundInv, SyncingInv, InTx, Idle, SyncTx
    <3>2. SoundTx'
      BY <1>1, <3>1, SoundAfterSync DEF SoundInv, SyncingInv
    <3> QED BY <1>1, <3>1, <3>2 DEF SoundInv, SyncingInv, ReadersInv
  <2> QED BY <1>5, <2>1, <2>2
<1>6. ASSUME Backup PROVE SoundInv'
  <2>1. ~InTx("sync") /\ UNCHANGED vars /\ synced' = synced
    BY <1>6 DEF Backup, InTx, vars
  <2>2. SoundTx' /\ ~InTx("sync")'
    BY <2>1, SoundTxStep DEF SoundInv, vars, InTx
  <2>3. ReadersInv'
    <3>1. mod \in Nat /\ rows \in [Keys -> Vals]
      BY <2>1 DEF SoundInv, SoundTx, TypeInv, TypeOK
    <3> QED BY <1>1, <1>6, <2>1, <3>1 DEF Backup, ReadersInv, vars
  <2> QED BY <2>2, <2>3 DEF SoundInv, SyncingInv
<1>7. ASSUME UNCHANGED stampVars, InTx("sync") PROVE SoundInv'
  BY <1>7 DEF stampVars, vars, SoundInv, SyncingInv, ReadersInv, InTx
<1>8. Operate => ~InTx("sync")
  BY DEF Operate, Next, BeginOp, BeginNoUndo, Write, Finish, Fail, BeginUndo, BeginRedo,
     RevertChange, FinishRevert, AddCustomUndoStep, MergeUndoableOps, InTx
<1>9. ASSUME TimePasses PROVE SoundInv'
  <2>1. /\ UNCHANGED <<rows, mod, undo, tx, synced, backup>>
        /\ clock' = clock + 1 /\ clock' \in Nat /\ clock <= clock'
    BY <1>1, <1>9 DEF TimePasses
  <2>2. SoundTx => SoundTx'
    BY <2>1 DEF SoundTx, TypeInv, TypeOK, ShapeInv, KeptSteps, PhaseInv, RevertingInv,
       StepAccountsForChanges, RevertProgress, StampsInv, InTx, LeftInStep
  <2>3. ReadersInv'
    <3>1. synced.at \in Nat
      BY <1>1 DEF ReadersInv
    <3> QED BY <1>1, <2>1, <3>1 DEF ReadersInv
  <2> QED BY <2>1, <2>2, <2>3 DEF SoundInv, SyncingInv, InTx
<1>10. ASSUME Operate PROVE SoundInv'
  BY <1>2, <1>8, <1>10 DEF Operate
<1> QED BY <1>2, <1>3, <1>4, <1>5, <1>6, <1>7, <1>9, <1>10 DEF StampNext, stampVars

\* What the line leads through are steps, with the one that is being reverted.
LEMMA StepsOfLine ==
  ASSUME SoundInv
  PROVE  PastSteps \in Steps /\ FutureSteps \in Steps
<1>1. CASE InTx("sync")
  <2>1. <<>> \in Steps
    BY DEF Steps
  <2> QED BY <1>1, <2>1 DEF SoundInv, SyncingInv, PastSteps, FutureSteps, InTx
<1>2. CASE ~InTx("sync")
  <2>1. TypeInv /\ undo.undo_steps \in Steps /\ undo.redo_steps \in Steps
    BY <1>2, KeptInSteps DEF SoundInv, SoundTx
  <2>2. InTx("revert") => tx.step \in Step(Kinds, Change)
    BY <2>1, TxByPhase DEF TypeInv, RevertTx
  <2>3. \A steps \in Steps, step \in Step(Kinds, Change) :
          <<step>> \o steps \in Steps /\ Append(steps, step) \in Steps
    BY DEF Steps
  <2>4. PastSteps \in Steps
    BY <2>1, <2>2, <2>3 DEF PastSteps
  <2>5. FutureSteps \in Steps
    BY <2>1, <2>2, <2>3 DEF FutureSteps
  <2> QED BY <2>4, <2>5
<1> QED BY <1>1, <1>2

\* At first there is one version, known to the server.
LEMMA TimelineInit == StampInit => TimelineInv
<1> SUFFICES ASSUME StampInit PROVE TimelineInv
  OBVIOUS
<1>1. /\ ~InTx("revert") /\ InTx("idle") /\ mod = 1 /\ clock = 1
      /\ undo.undo_steps = <<>> /\ undo.redo_steps = <<>> /\ rows \in [Keys -> Vals]
      /\ synced = [mod |-> 1, rows |-> rows, at |-> 1] /\ backup = NoBackup
  BY DEF StampInit, Init, InitUndo, InTx, Idle
<1> DEFINE at == [n \in Nat |-> rows]
<1>2. at \in Tables /\ at[1] = rows
  BY <1>1 DEF Tables
<1> HIDE DEF at
<1>3. 1 \in Stamps
  BY <1>1 DEF Stamps
<1>4. Line(at, Stamps, CommittedMod, CommittedRows, PastSteps, FutureSteps)
  BY <1>1, <1>2, <1>3, LineOfOperation, OneVersion DEF Line
<1> QED BY <1>1, <1>2, <1>4 DEF TimelineInv, CommittedLine

\* Every step keeps the line of versions, if no operation skips the history and no
\* two clocks give one stamp: undoing an older step after an operation that skipped
\* it would lead to rows no stamp names.
LEMMA TimelineStep ==
  ASSUME "SkipUndo" \notin OpKinds, ~TiedStamps
  PROVE  StampInv /\ [StampNext]_stampVars => TimelineInv'
<1> SUFFICES ASSUME StampInv, [StampNext]_stampVars PROVE TimelineInv'
  OBVIOUS
<1>1. /\ SoundInv /\ clock \in Nat /\ synced.mod \in Nat /\ synced.at \in Nat
      /\ synced.at <= clock /\ backup.mod \in Nat
  BY DEF StampInv, SoundInv, ReadersInv, NoBackup
<1>2. PICK at, S :
        /\ at \in Tables /\ S = Stamps /\ CommittedLine(at, S)
        /\ at[synced.mod] = synced.rows
        /\ backup # NoBackup => at[backup.mod] = backup.rows
  BY DEF StampInv, TimelineInv
<1>3. S \subseteq Nat
  BY <1>1, <1>2 DEF Stamps
\* The table of a line with one version more, and what it says of the others.
<1>4. ASSUME rows \in [Keys -> Vals], NEW stamp \in Nat
      PROVE  \E later \in Tables :
               later[stamp] = rows /\ \A m \in Nat \ {stamp} : later[m] = at[m]
  <2> DEFINE later == [m \in Nat |-> IF m = stamp THEN rows ELSE at[m]]
  <2>1. later \in Tables
    BY <1>2, <1>4 DEF Tables
  <2>2. later[stamp] = rows /\ \A m \in Nat \ {stamp} : later[m] = at[m]
    BY <1>4
  <2> HIDE DEF later
  <2> QED BY <2>1, <2>2
<1>5. ASSUME CommittedLine(at, S)', clock' = clock, synced' = synced, backup' = backup
      PROVE  TimelineInv'
  BY <1>2, <1>5 DEF TimelineInv, Stamps
<1>6. ASSUME Next, ~Finish, synced' = synced, backup' = backup PROVE TimelineInv'
  <2>1. SoundTx
    BY <1>1, <1>6 DEF SoundInv, Next, BeginOp, BeginNoUndo, Write, Fail, BeginUndo,
       BeginRedo, RevertChange, FinishRevert, AddCustomUndoStep, MergeUndoableOps, InTx
  <2>2. CommittedLine(at, S)' /\ clock' = clock
    BY <1>2, <1>3, <1>6, <2>1, LineKept
  <2> QED BY <1>5, <1>6, <2>2
<1>7. ASSUME Finish, synced' = synced, backup' = backup,
             clock' # clock => clock' \notin {synced.mod, backup.mod}
      PROVE  TimelineInv'
  <2>1. /\ SoundTx /\ rows \in [Keys -> Vals]
        /\ clock' = clock \/ clock' = clock + 1
    BY <1>1, <1>7 DEF SoundInv, Finish, InTx, SoundTx, TypeInv, TypeOK
  <2>2. PICK later \in Tables :
          later[clock + 1] = rows /\ \A m \in Nat \ {clock + 1} : later[m] = at[m]
    BY <1>1, <1>4, <2>1
  <2>3. PICK T : T = S \cup {clock + 1}
    OBVIOUS
  <2>4. clock' # clock => NewVersion(later, T, at, S, clock + 1)
    <3>1. ASSUME clock' # clock PROVE S \subseteq Nat \ {clock + 1}
      BY <1>1, <1>2, <1>3, <1>7, <2>1, <3>1 DEF Stamps
    <3> QED BY <2>2, <2>3, <3>1 DEF NewVersion
  <2>5. \/ clock' = clock /\ CommittedLine(at, S)'
        \/ clock' = clock + 1 /\ CommittedLine(later, T)'
    BY ZenonT(60), <1>2, <1>7, <2>1, <2>2, <2>4, LineFinishes
  <2>6. ASSUME clock' = clock + 1, CommittedLine(later, T)' PROVE TimelineInv'
    <3>1. synced.mod # clock + 1 /\ backup.mod # clock + 1
      BY <1>1, <1>7, <2>6
    <3>2. /\ later[synced.mod] = synced.rows
          /\ backup # NoBackup => later[backup.mod] = backup.rows
      BY <1>1, <1>2, <2>2, <3>1
    <3>3. Stamps' = T
      BY <1>1, <1>2, <1>7, <2>3, <2>6 DEF Stamps
    <3>4. CommittedLine(later, Stamps)'
      BY <2>6, <3>3
    <3> QED BY <1>7, <3>2, <3>4 DEF TimelineInv
  <2> QED BY <1>5, <1>7, <2>5, <2>6
<1>8. ASSUME BeginSync PROVE TimelineInv'
  <2>1. SoundTx /\ clock' = clock /\ synced' = synced /\ backup' = backup
    BY <1>1, <1>8 DEF SoundInv, BeginSync, InTx
  <2> QED BY <1>2, <1>5, <1>8, <2>1, LineSyncs
<1>9. ASSUME NEW k \in Keys, NEW v \in Vals, ApplyRemote(k, v) PROVE TimelineInv'
  <2>1. clock' = clock /\ synced' = synced /\ backup' = backup
    BY <1>9 DEF ApplyRemote
  <2> QED BY <1>2, <1>5, <1>9, <2>1, LineSyncs
<1>10. ASSUME FailSync PROVE TimelineInv'
  <2>1. clock' = clock /\ synced' = synced /\ backup' = backup
    BY <1>10 DEF FailSync
  <2> QED BY <1>1, <1>2, <1>5, <1>10, <2>1, LineSyncs DEF SoundInv
<1>11. ASSUME FinishSync PROVE TimelineInv'
  <2>1. SyncingInv /\ rows \in [Keys -> Vals] /\ clock' = clock + 1 /\ backup' = backup
    BY <1>1, <1>11 DEF SoundInv, SyncingInv, FinishSync
  <2>2. PICK stamp \in Nat :
          /\ mod' = stamp /\ stamp # backup.mod
          /\ synced' = [mod |-> stamp, rows |-> rows, at |-> clock + 1]
    <3>1. PICK ahead \in Skews :
            /\ clock + 1 + ahead > 0 /\ mod' = clock + 1 + ahead
            /\ clock + 1 + ahead # backup.mod
            /\ synced' = [mod |-> clock + 1 + ahead, rows |-> rows, at |-> clock + 1]
      BY <1>11 DEF FinishSync
    <3>2. clock + 1 + ahead \in Nat
      BY <1>1, <3>1, SkewsAssumption
    <3> QED BY <3>1, <3>2
  <2>3. PICK later \in Tables :
          later[stamp] = rows /\ \A m \in Nat \ {stamp} : later[m] = at[m]
    BY <1>4, <2>1
  <2>4. Stamps' = {stamp} \cup (clock + 2)..(clock + 1)
    BY <1>1, <2>1, <2>2 DEF Stamps
  <2>5. PICK T : T = Stamps'
    OBVIOUS
  <2>6. CommittedLine(later, T)'
    BY <1>11, <2>1, <2>2, <2>3, <2>4, <2>5, LineFinishesSync
  <2>7. backup # NoBackup => later[backup.mod] = backup.rows
    BY <1>1, <1>2, <2>2, <2>3
  <2>8. CommittedLine(later, Stamps)' /\ later[synced'.mod] = synced'.rows
    BY <2>2, <2>3, <2>5, <2>6
  <2> QED BY <2>1, <2>3, <2>7, <2>8 DEF TimelineInv
<1>12. ASSUME Backup PROVE TimelineInv'
  <2>1. /\ InTx("idle") /\ ~InTx("revert") /\ UNCHANGED vars /\ synced' = synced
        /\ backup' = [mod |-> mod, rows |-> rows] /\ tx' = tx /\ tx.phase = "idle"
        /\ clock' = clock /\ rows' = rows /\ mod' = mod /\ undo' = undo
    BY <1>12 DEF Backup, InTx, vars
  <2>2. Line(at, S, mod, rows, undo.undo_steps, undo.redo_steps)
    BY <1>2, <2>1, LineOfOperation DEF CommittedLine
  <2>3. Line(at, S, CommittedMod', CommittedRows', PastSteps', FutureSteps')
    BY <2>1, <2>2, LineNext
  <2>4. at[mod] = rows /\ Stamps' = S
    BY <1>2, <2>1, <2>2 DEF Line, Stamps
  <2> QED BY <1>2, <2>1, <2>3, <2>4 DEF TimelineInv, CommittedLine
<1>13. ASSUME UNCHANGED stampVars PROVE TimelineInv'
  BY <1>13 DEF stampVars, vars, StampInv, TimelineInv, CommittedLine, CommittedMod,
     CommittedRows, PastSteps, FutureSteps, InTx, Stamps
\* Time alone only makes room for stamps that name nothing yet.
<1>14. ASSUME TimePasses PROVE TimelineInv'
  <2>1. /\ rows' = rows /\ mod' = mod /\ undo' = undo /\ tx' = tx
        /\ synced' = synced /\ backup' = backup /\ clock' = clock + 1
    BY <1>14 DEF TimePasses
  <2>2. PICK T : T = Stamps'
    OBVIOUS
  <2>3. S \subseteq T
    BY <1>1, <1>2, <2>1, <2>2 DEF Stamps
  <2>4. CommittedLine(at, S)'
    BY <1>2, <2>1 DEF CommittedLine, CommittedMod, CommittedRows, PastSteps, FutureSteps,
       InTx
  <2>5. PastSteps' \in Steps /\ FutureSteps' \in Steps
    BY <1>1, <2>1, StepsOfLine DEF PastSteps, FutureSteps, InTx
  <2>6. CommittedLine(at, T)'
    BY <2>3, <2>4, <2>5, LineAgrees DEF CommittedLine, Line
  <2> QED BY <1>2, <2>1, <2>2, <2>6 DEF TimelineInv
<1>15. ASSUME Operate PROVE TimelineInv'
  BY <1>6, <1>7, <1>15 DEF Operate
<1> QED BY <1>8, <1>9, <1>10, <1>11, <1>12, <1>13, <1>14, <1>15 DEF StampNext

\* The types of the stamps and of what they describe, during a sync too.
THEOREM StampsTypeCorrect == StampSpec => []StampTypeOK
<1>1. SoundInv => StampTypeOK
  BY DEF SoundInv, SyncingInv, ReadersInv, SoundTx, TypeInv, StampTypeOK, InTx
<1> QED BY <1>1, SoundInit, SoundStep, PTL DEF StampSpec

\* The line of versions is an invariant, if no operation skips the history and no two
\* clocks give one stamp, however far the clock of the server is ahead or behind.
THEOREM VersionsSound ==
  ASSUME "SkipUndo" \notin OpKinds, ~TiedStamps
  PROVE  StampSpec => []StampInv
<1>1. StampInit => StampInv
  BY SoundInit, TimelineInit DEF StampInv
<1>2. StampInv /\ [StampNext]_stampVars => StampInv'
  BY SoundStep, TimelineStep DEF StampInv
<1> QED BY <1>1, <1>2, PTL DEF StampSpec

\* Between operations the stamp names what is there: on a line that starts at the last
\* sync the same stamp means the same rows.
LEMMA StampNamesRows ==
  ASSUME StampInv, InTx("idle")
  PROVE  /\ mod \in Stamps
         /\ mod = synced.mod => rows = synced.rows
         /\ backup # NoBackup /\ mod = backup.mod => rows = backup.rows
<1>1. PICK at \in Tables :
        /\ CommittedLine(at, Stamps) /\ at[synced.mod] = synced.rows
        /\ backup # NoBackup => at[backup.mod] = backup.rows
  BY DEF StampInv, TimelineInv
<1>2. ~InTx("revert")
  BY DEF InTx
<1>3. mod \in Stamps /\ at[mod] = rows
  BY <1>1, <1>2, LineOfOperation DEF CommittedLine, Line
<1> QED BY <1>1, <1>3

\* A collection that holds other rows than the server never carries the stamp of the
\* last sync, however operations have been undone, redone, coalesced, merged or rolled
\* back since: a sync that is skipped loses nothing.  Nor does the check on the client
\* alone miss them, but for a change made before this clock had reached the stamp of a
\* server that was ahead.
THEOREM UnsyncedStamped ==
  ASSUME "SkipUndo" \notin OpKinds, ~TiedStamps
  PROVE  StampSpec => []UnsyncedChangesAreStamped
<1>1. StampInv => UnsyncedChangesAreStamped
  <2> SUFFICES ASSUME StampInv, InTx("idle"), rows # synced.rows
               PROVE  /\ mod # synced.mod
                      /\ ChangedSinceSync \/ mod \in (synced.at + 1)..(synced.mod - 1)
    BY DEF UnsyncedChangesAreStamped
  <2>1. mod \in Stamps /\ mod # synced.mod
    BY StampNamesRows
  <2>2. synced.mod \in Nat /\ synced.at \in Nat /\ clock \in Nat
    BY DEF StampInv, SoundInv, ReadersInv
  <2> QED BY <2>1, <2>2 DEF ChangedSinceSync, Stamps
<1> QED BY <1>1, VersionsSound, PTL

\* A collection with the stamp of the last backup holds what was backed up: a backup
\* that is skipped loses nothing.
THEOREM UnsavedStamped ==
  ASSUME "SkipUndo" \notin OpKinds, ~TiedStamps
  PROVE  StampSpec => []UnsavedChangesAreStamped
<1>1. StampInv => UnsavedChangesAreStamped
  BY StampNamesRows DEF UnsavedChangesAreStamped, ChangedSinceBackup
<1> QED BY <1>1, VersionsSound, PTL
====
