---- MODULE UndoManager_proofs ----
(***************************************************************************)
(* What the methods of the undo manager preserve: its type, for any set of *)
(* kinds and any set of changes.                                           *)
(*                                                                         *)
(* JoinedChanges is a recursive function, so its type needs an induction.  *)
(* It is done by hand, with a least counterexample taken from a set of     *)
(* naturals.                                                               *)
(***************************************************************************)
EXTENDS UndoManager, TLAPS, SequenceTheorems, WellFoundedInduction

\* A non-empty set of naturals has a least element.
LEMMA LeastNatural ==
  ASSUME NEW T, T \subseteq Nat, T # {}
  PROVE  \E x \in T : \A y \in T : ~(y < x)
<1> DEFINE R == {ss \in Nat \X Nat : ss[1] < ss[2]}
<1>1. IsWellFoundedOn(R, Nat)
  BY NatLessThanWellFounded DEF OpToRel
<1>2. \E x \in T : \A y \in T : ~(<<y, x>> \in R)
  <2> HIDE DEF R
  <2> QED BY <1>1, WFMin
<1> QED BY <1>2

\* The equation behind JoinedChanges: f[i] joins the first i of the given parts.
Joins(f, part, m) ==
  f = [i \in 0..m |-> IF i = 0 THEN <<>> ELSE f[i - 1] \o part[i]]

\* The equation behind JoinedChanges has a solution of the right type for every n.
LEMMA JoinExists ==
  ASSUME NEW change, NEW N \in Nat, NEW part \in [1..N -> Seq(change)], NEW n \in 0..N
  PROVE  \E join \in [0..n -> Seq(change)] : Joins(join, part, n)
<1> DEFINE Bad == {m \in 0..N : \A f \in [0..m -> Seq(change)] : ~Joins(f, part, m)}
<1> SUFFICES ASSUME n \in Bad PROVE FALSE
  OBVIOUS
<1>1. PICK m \in Bad : \A k \in Bad : ~(k < m)
  <2>1. \A x \in Bad : x \in 0..N
    OBVIOUS
  <2>2. 0..N \subseteq Nat
    OBVIOUS
  <2> HIDE DEF Bad
  <2>3. Bad \subseteq Nat
    BY <2>1, <2>2
  <2> QED BY <2>3, LeastNatural
<1>2. CASE m = 0
  <2> DEFINE j == [i \in 0..0 |-> <<>>]
  <2>1. j \in [0..0 -> Seq(change)]
    OBVIOUS
  <2>2. Joins(j, part, 0)
    BY DEF Joins
  <2> QED BY <1>2, <2>1, <2>2
<1>3. CASE m > 0
  <2>1. m \in 0..N
    BY <1>1
  <2>2. m - 1 \in 0..N /\ m - 1 < m
    BY <2>1, <1>3
  <2>3. m - 1 \notin Bad
    <3> HIDE DEF Bad
    <3> QED BY <2>2, <1>1
  <2>4. PICK g \in [0..(m - 1) -> Seq(change)] : Joins(g, part, m - 1)
    BY <2>2, <2>3
  <2> DEFINE j == [i \in 0..m |-> IF i = m THEN g[m - 1] \o part[m] ELSE g[i]]
  <2>5. g[m - 1] \o part[m] \in Seq(change)
    <3>1. g[m - 1] \in Seq(change) /\ part[m] \in Seq(change)
      BY <1>3, <1>1
    <3> QED BY <3>1, ConcatProperties
  <2>6. j \in [0..m -> Seq(change)]
    BY <2>5, <1>3
  <2>7. Joins(j, part, m)
    <3> DEFINE rhs == [i \in 0..m |-> IF i = 0 THEN <<>> ELSE j[i - 1] \o part[i]]
    <3>1. ASSUME NEW i \in 0..m PROVE j[i] = rhs[i]
      <4>1. CASE i = m
        <5>1. m - 1 \in 0..m /\ m - 1 # m /\ m # 0
          BY <1>3
        <5>2. j[m] = g[m - 1] \o part[m] /\ j[m - 1] = g[m - 1]
          BY <5>1
        <5>3. rhs[m] = j[m - 1] \o part[m]
          <6> HIDE DEF j
          <6> QED BY <5>1
        <5> QED BY <4>1, <5>2, <5>3
      <4>2. CASE i # m
        <5>1. j[i] = g[i] /\ i \in 0..(m - 1)
          BY <4>2, <1>3
        <5>2. g[i] = IF i = 0 THEN <<>> ELSE g[i - 1] \o part[i]
          BY <2>4, <5>1 DEF Joins
        <5>3. i # 0 => j[i - 1] = g[i - 1]
          BY <5>1
        <5> QED BY <5>1, <5>2, <5>3
      <4> QED BY <4>1, <4>2
    <3> QED BY <3>1, <2>6 DEF Joins
  <2> QED BY <2>6, <2>7, <1>1
<1> QED BY <1>1, <1>2, <1>3

\* The equation itself: f[i] joins the oldest i of the newest n steps.
JoinEquation(f, steps, n) ==
  f = [i \in 0..n |-> IF i = 0 THEN <<>> ELSE f[i - 1] \o steps[n - i + 1].changes]

\* Any two solutions agree, so that JoinedChanges is the last part of one.
LEMMA JoinedChangesSolution ==
  ASSUME NEW kinds, NEW change, NEW steps \in Seq(Step(kinds, change)),
         NEW n \in 0..Len(steps)
  PROVE  \E f \in [0..n -> Seq(change)] :
           JoinEquation(f, steps, n) /\ JoinedChanges(steps, n) = f[n]
<1> DEFINE part == [i \in 1..n |-> steps[n - i + 1].changes]
           Equation(f) ==
             f = [i \in 0..n |->
                    IF i = 0 THEN <<>> ELSE f[i - 1] \o steps[n - i + 1].changes]
           join == CHOOSE f : Equation(f)
<1>0. n \in Nat /\ Len(steps) \in Nat /\ n <= Len(steps)
  OBVIOUS
<1>1. part \in [1..n -> Seq(change)]
  <2>1. \A i \in 1..n : n - i + 1 \in 1..Len(steps)
    BY <1>0
  <2>2. \A k \in 1..Len(steps) : steps[k].changes \in Seq(change)
    <3>1. \A k \in 1..Len(steps) : steps[k] \in Step(kinds, change)
      OBVIOUS
    <3> QED BY <3>1 DEF Step
  <2> QED BY <2>1, <2>2
<1>2. PICK g \in [0..n -> Seq(change)] : Joins(g, part, n)
  <2>1. n \in 0..n
    BY <1>0
  <2> HIDE DEF part
  <2> QED BY <1>0, <1>1, <2>1, JoinExists
<1>3. Equation(g)
  <2>1. \A i \in 0..n : i # 0 => part[i] = steps[n - i + 1].changes
    OBVIOUS
  <2>2. [i \in 0..n |-> IF i = 0 THEN <<>> ELSE g[i - 1] \o part[i]]
        = [i \in 0..n |->
             IF i = 0 THEN <<>> ELSE g[i - 1] \o steps[n - i + 1].changes]
    BY <2>1
  <2> QED BY <1>2, <2>2 DEF Joins
<1>4. Equation(join)
  <2> HIDE DEF Equation
  <2> QED BY <1>3
<1>5. \A i \in 0..n : join[i] = g[i]
  <2> DEFINE Differ == {i \in 0..n : join[i] # g[i]}
  <2> SUFFICES ASSUME Differ # {} PROVE FALSE
    OBVIOUS
  <2>1. PICK i \in Differ : \A k \in Differ : ~(k < i)
    <3>1. \A x \in Differ : x \in 0..n
      OBVIOUS
    <3>2. 0..n \subseteq Nat
      BY <1>0
    <3> HIDE DEF Differ
    <3>3. Differ \subseteq Nat
      BY <3>1, <3>2
    <3> QED BY <3>3, LeastNatural
  <2>2. /\ join[i] = IF i = 0 THEN <<>> ELSE join[i - 1] \o steps[n - i + 1].changes
        /\ g[i] = IF i = 0 THEN <<>> ELSE g[i - 1] \o steps[n - i + 1].changes
    <3> HIDE DEF join
    <3> QED BY <1>3, <1>4
  <2>3. CASE i = 0
    BY <2>1, <2>2, <2>3
  <2>4. CASE i # 0
    <3>1. join[i - 1] = g[i - 1]
      <4> HIDE DEF join
      <4> QED BY <2>1, <2>4
    <3> HIDE DEF join
    <3> QED BY <2>1, <2>2, <2>4, <3>1
  <2> QED BY <2>3, <2>4
<1>6. JoinedChanges(steps, n) = join[n]
  BY DEF JoinedChanges
<1>7. n \in 0..n
  BY <1>0
<1>8. JoinedChanges(steps, n) = g[n]
  <2> HIDE DEF join
  <2> QED BY <1>5, <1>6, <1>7
<1> HIDE DEF join
<1> QED BY <1>3, <1>8 DEF JoinEquation

\* Joining changes yields changes.
LEMMA JoinedChangesType ==
  ASSUME NEW kinds, NEW change, NEW steps \in Seq(Step(kinds, change)),
         NEW n \in 0..Len(steps)
  PROVE  JoinedChanges(steps, n) \in Seq(change)
<1>1. PICK f \in [0..n -> Seq(change)] :
        JoinEquation(f, steps, n) /\ JoinedChanges(steps, n) = f[n]
  BY JoinedChangesSolution
<1>2. n \in 0..n
  OBVIOUS
<1> QED BY <1>1, <1>2
---------------------------------------------------------------------------
(* The elements of a history when a step is put in front of part of it.    *)

\* Where the elements of such a history come from.
LEMMA FrontedElements ==
  ASSUME NEW S, NEW steps \in Seq(S), NEW front \in S,
         NEW m \in 1..(Len(steps) + 1), NEW n \in (m - 1)..Len(steps)
  PROVE  LET all == <<front>> \o SubSeq(steps, m, n)
         IN /\ all \in Seq(S) /\ Len(all) = n - m + 2 /\ all[1] = front
            /\ \A i \in 2..Len(all) :
                 m + i - 2 \in m..n /\ m + i - 2 \in 1..Len(steps)
                 /\ all[i] = steps[m + i - 2]
<1> DEFINE rest == SubSeq(steps, m, n)
           one == <<front>>
           all == one \o rest
<1>1. m \in Nat /\ n \in Nat /\ Len(steps) \in Nat /\ m >= 1 /\ n >= m - 1 /\ n <= Len(steps)
  OBVIOUS
<1>2. /\ rest \in Seq(S) /\ Len(rest) = n - m + 1
      /\ \A i \in 1..Len(rest) : rest[i] = steps[m + i - 1]
  BY <1>1, SubSeqProperties
<1>3. one \in Seq(S) /\ Len(one) = 1 /\ one[1] = front
  OBVIOUS
<1> HIDE DEF rest, one
<1>4. /\ all \in Seq(S) /\ Len(all) = Len(one) + Len(rest)
      /\ \A i \in 1..(Len(one) + Len(rest)) :
           all[i] = IF i <= Len(one) THEN one[i] ELSE rest[i - Len(one)]
  BY <1>2, <1>3, ConcatProperties
<1> HIDE DEF all
<1>5. Len(all) = n - m + 2 /\ all[1] = front
  BY <1>1, <1>2, <1>3, <1>4
<1>6. ASSUME NEW i \in 2..Len(all)
      PROVE  /\ m + i - 2 \in m..n /\ m + i - 2 \in 1..Len(steps)
             /\ all[i] = steps[m + i - 2]
  <2>1. i \in 1..(Len(one) + Len(rest)) /\ ~(i <= Len(one)) /\ i - 1 \in 1..Len(rest)
    BY <1>1, <1>2, <1>3, <1>5
  <2>2. all[i] = rest[i - 1]
    BY <1>3, <1>4, <2>1
  <2>3. m + (i - 1) - 1 = m + i - 2 /\ m + i - 2 \in m..n
    BY <1>1, <1>5
  <2> QED BY <1>1, <1>2, <2>1, <2>2, <2>3
<1>7. all = <<front>> \o SubSeq(steps, m, n)
  BY DEF all, one, rest
<1> QED BY <1>4, <1>5, <1>6, <1>7
---------------------------------------------------------------------------
(* Each method keeps the type and the length of the undo history. *)

GoodUndo(u, kinds, change) ==
  /\ u \in UndoState(kinds, change)
  /\ Len(u.undo_steps) <= UndoLimit

\* An open step is a step.
LEMMA OpenStepType ==
  ASSUME NEW kinds, NEW change, NEW u \in UndoState(kinds, change), HasStep(u)
  PROVE  u.current_step \in Step(kinds, change)
BY DEF UndoState, HasStep

\* The manager starts typed.
LEMMA InitUndoType ==
  ASSUME NEW kinds, NEW change
  PROVE  GoodUndo(InitUndo, kinds, change)
<1>1. <<>> \in Seq(Step(kinds, change)) /\ Len(<<>>) = 0
  OBVIOUS
<1> QED BY <1>1, UndoLimitAssumption DEF GoodUndo, InitUndo, UndoState

\* Recording a change keeps the type.
LEMMA SaveType ==
  ASSUME NEW kinds, NEW change, NEW u, GoodUndo(u, kinds, change), NEW c \in change
  PROVE  GoodUndo(Save(u, c), kinds, change)
<1>1. CASE ~HasStep(u)
  BY <1>1 DEF Save
<1>2. CASE HasStep(u)
  <2>1. u.current_step \in Step(kinds, change)
    BY <1>2, OpenStepType DEF GoodUndo
  <2>2. Append(u.current_step.changes, c) \in Seq(change)
    BY <2>1 DEF Step
  <2>3. [u.current_step EXCEPT !.changes = Append(u.current_step.changes, c)]
        \in Step(kinds, change)
    BY <2>1, <2>2 DEF Step
  <2> QED BY <1>2, <2>3 DEF Save, GoodUndo, UndoState
<1> QED BY <1>1, <1>2

\* Clearing the histories keeps the type, also when the mode is reset with it.
LEMMA DiscardType ==
  ASSUME NEW kinds, NEW change, NEW u, GoodUndo(u, kinds, change)
  PROVE  GoodUndo([Discard(u) EXCEPT !.mode = "NormalOp"], kinds, change) /\
         GoodUndo(Discard(u), kinds, change)
<1>1. <<>> \in Seq(Step(kinds, change)) /\ Len(<<>>) = 0
  OBVIOUS
<1>2. GoodUndo(Discard(u), kinds, change)
  <2>1. Discard(u) \in UndoState(kinds, change)
    BY <1>1 DEF GoodUndo, Discard, UndoState
  <2>2. Discard(u).undo_steps = <<>>
    BY DEF GoodUndo, Discard, UndoState
  <2> QED BY <1>1, <2>1, <2>2, UndoLimitAssumption DEF GoodUndo
<1>3. \A d : GoodUndo(d, kinds, change)
             => GoodUndo([d EXCEPT !.mode = "NormalOp"], kinds, change)
  BY DEF GoodUndo, UndoState
<1> QED BY <1>2, <1>3

\* Opening a step keeps the type.
LEMMA BeginStepType ==
  ASSUME NEW kinds, NEW change, NEW u, GoodUndo(u, kinds, change), NEW kind \in kinds
  PROVE  GoodUndo(BeginStep(u, kind), kinds, change)
<1>1. <<>> \in Seq(Step(kinds, change)) /\ <<>> \in Seq(change)
  OBVIOUS
<1>2. u.counter + 1 \in Nat
  BY DEF GoodUndo, UndoState
<1>3. [kind |-> kind, changes |-> <<>>, counter |-> u.counter + 1] \in Step(kinds, change)
  BY <1>1, <1>2 DEF Step
<1> QED BY <1>1, <1>2, <1>3 DEF GoodUndo, BeginStep, UndoState

\* KeepNewest returns a sequence no longer than it was asked for.
LEMMA KeepNewestType ==
  ASSUME NEW S, NEW steps \in Seq(S), NEW n \in Nat
  PROVE  KeepNewest(steps, n) \in Seq(S) /\ Len(KeepNewest(steps, n)) <= n
<1>1. Len(steps) \in Nat
  OBVIOUS
<1>2. CASE Len(steps) < n
  <2>1. 1 \in 1..(Len(steps) + 1) /\ Len(steps) \in (1 - 1)..Len(steps)
    BY <1>1
  <2> QED BY <1>1, <1>2, <2>1, SubSeqProperties DEF KeepNewest
<1>3. CASE ~(Len(steps) < n)
  <2>1. 1 \in 1..(Len(steps) + 1) /\ n \in (1 - 1)..Len(steps)
    BY <1>1, <1>3
  <2> QED BY <1>1, <1>3, <2>1, SubSeqProperties DEF KeepNewest
<1> QED BY <1>2, <1>3

\* Closing a step keeps the type and the limit, wherever the step goes.
LEMMA EndStepType ==
  ASSUME NEW kinds, NEW change, NEW u, GoodUndo(u, kinds, change),
         NEW skipUndo \in BOOLEAN
  PROVE  GoodUndo(EndStep(u, skipUndo), kinds, change)
<1>1. CASE ~HasStep(u)
  BY <1>1 DEF EndStep
<1>2. CASE HasStep(u)
  <2> DEFINE step == u.current_step
             kept == KeepNewest(u.undo_steps, UndoLimit - 1)
  <2>1. step \in Step(kinds, change)
    BY <1>2, OpenStepType DEF GoodUndo
  <2>2. kept \in Seq(Step(kinds, change)) /\ Len(kept) <= UndoLimit - 1
    <3>1. UndoLimit - 1 \in Nat /\ u.undo_steps \in Seq(Step(kinds, change))
      BY UndoLimitAssumption DEF GoodUndo, UndoState
    <3> QED BY <3>1, KeepNewestType
  <2>3. /\ <<step>> \o kept \in Seq(Step(kinds, change))
        /\ Len(<<step>> \o kept) <= UndoLimit
    <3>1. <<step>> \in Seq(Step(kinds, change)) /\ Len(<<step>>) = 1
      BY <2>1
    <3>2. Len(kept) \in Nat
      BY <2>2
    <3> HIDE DEF kept, step
    <3> QED BY <2>2, <3>1, <3>2, ConcatProperties, UndoLimitAssumption
  <2>4. Append(u.redo_steps, step) \in Seq(Step(kinds, change))
    BY <2>1 DEF GoodUndo, UndoState
  <2> HIDE DEF kept
  <2> QED BY <1>2, <2>3, <2>4 DEF EndStep, GoodUndo, UndoState, kept
<1> QED BY <1>1, <1>2

\* Emptying the open step keeps the type and leaves the step open.
LEMMA ClearLastOpType ==
  ASSUME NEW kinds, NEW change, NEW u, GoodUndo(u, kinds, change), HasStep(u)
  PROVE  GoodUndo(ClearLastOp(u), kinds, change) /\ HasStep(ClearLastOp(u))
<1>1. u.current_step \in Step(kinds, change)
  BY OpenStepType DEF GoodUndo
<1>2. [u.current_step EXCEPT !.changes = <<>>] \in Step(kinds, change)
  <2>1. <<>> \in Seq(change)
    OBVIOUS
  <2> QED BY <1>1, <2>1 DEF Step
<1>3. [u.current_step EXCEPT !.changes = <<>>] # NoStep
  BY <1>1 DEF Step, NoStep
<1> QED BY <1>2, <1>3 DEF ClearLastOp, GoodUndo, UndoState, HasStep

\* Taking out the newest undo step keeps the type and yields a step.
LEMMA PopUndoType ==
  ASSUME NEW kinds, NEW change, NEW u, GoodUndo(u, kinds, change), u.undo_steps # <<>>,
         NEW mode \in {"NormalOp", "Undoing", "Redoing"}
  PROVE  /\ GoodUndo([PopUndo(u) EXCEPT !.mode = mode], kinds, change)
         /\ Head(u.undo_steps) \in Step(kinds, change)
<1>1. u.undo_steps \in Seq(Step(kinds, change)) /\ Len(u.undo_steps) \in Nat
  BY DEF GoodUndo, UndoState
<1>2. /\ Tail(u.undo_steps) \in Seq(Step(kinds, change))
      /\ Len(Tail(u.undo_steps)) = Len(u.undo_steps) - 1
      /\ Head(u.undo_steps) \in Step(kinds, change)
  BY <1>1, HeadTailProperties
<1>3. Len(u.undo_steps) - 1 <= UndoLimit
  BY <1>1, UndoLimitAssumption DEF GoodUndo
<1> QED BY <1>2, <1>3 DEF GoodUndo, UndoState, PopUndo

\* So does taking out the newest redo step.
LEMMA PopRedoType ==
  ASSUME NEW kinds, NEW change, NEW u, GoodUndo(u, kinds, change), u.redo_steps # <<>>,
         NEW mode \in {"NormalOp", "Undoing", "Redoing"}
  PROVE  /\ GoodUndo([PopRedo(u) EXCEPT !.mode = mode], kinds, change)
         /\ u.redo_steps[Len(u.redo_steps)] \in Step(kinds, change)
<1> DEFINE steps == u.redo_steps
<1>1. steps \in Seq(Step(kinds, change)) /\ Len(steps) \in Nat /\ Len(steps) > 0
  <2>1. steps \in Seq(Step(kinds, change))
    BY DEF GoodUndo, UndoState
  <2> QED BY <2>1, EmptySeq
<1>2. SubSeq(steps, 1, Len(steps) - 1) \in Seq(Step(kinds, change))
  <2>1. 1 \in 1..(Len(steps) + 1) /\ Len(steps) - 1 \in (1 - 1)..Len(steps)
    BY <1>1
  <2> HIDE DEF steps
  <2> QED BY <1>1, <2>1, SubSeqProperties
<1>3. steps[Len(steps)] \in Step(kinds, change)
  BY <1>1
<1> QED BY <1>2, <1>3 DEF GoodUndo, UndoState, PopRedo

\* Merging keeps the type: the joined changes are changes.
LEMMA MergeIntoType ==
  ASSUME NEW kinds, NEW change, NEW u, GoodUndo(u, kinds, change),
         NEW idx \in 1..Len(u.undo_steps)
  PROVE  GoodUndo(MergeInto(u, idx), kinds, change)
<1> DEFINE steps == u.undo_steps
           target == steps[idx]
           merged == [target EXCEPT !.changes = JoinedChanges(steps, idx)]
           rest == SubSeq(steps, idx + 1, Len(steps))
<1>1. /\ steps \in Seq(Step(kinds, change)) /\ Len(steps) \in Nat
      /\ idx \in Nat /\ 1 <= idx /\ idx <= Len(steps)
  BY DEF GoodUndo, UndoState
<1>2. JoinedChanges(steps, idx) \in Seq(change)
  BY <1>1, JoinedChangesType
<1>3. target \in Step(kinds, change) /\ target.counter \in Nat
  <2>1. target \in Step(kinds, change)
    BY <1>1
  <2> QED BY <2>1 DEF Step
<1>4. merged \in Step(kinds, change)
  BY <1>2, <1>3 DEF Step
<1>5. rest \in Seq(Step(kinds, change)) /\ Len(rest) = Len(steps) - idx
  <2>1. idx + 1 \in 1..(Len(steps) + 1) /\ Len(steps) \in ((idx + 1) - 1)..Len(steps)
    BY <1>1
  <2> HIDE DEF steps
  <2> QED BY <1>1, <2>1, SubSeqProperties
<1>6. <<merged>> \o rest \in Seq(Step(kinds, change)) /\ Len(<<merged>> \o rest) <= UndoLimit
  <2>1. <<merged>> \in Seq(Step(kinds, change)) /\ Len(<<merged>>) = 1
    BY <1>4
  <2>2. Len(steps) <= UndoLimit
    BY DEF GoodUndo
  <2> HIDE DEF merged, rest, steps
  <2> QED BY <1>1, <1>5, <2>1, <2>2, ConcatProperties, UndoLimitAssumption
<1> QED BY <1>3, <1>6 DEF MergeInto, GoodUndo, UndoState
====
