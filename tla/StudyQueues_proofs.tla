---- MODULE StudyQueues_proofs ----
(***************************************************************************)
(* The study queues hold no card twice, however answers, undo, redo and    *)
(* merged steps follow each other: TypeCorrect and NoDuplicates.           *)
(*                                                                         *)
(* undo_queue_change puts the answered entry back without looking whether  *)
(* its card is queued.  That it is not rests on the changes recorded       *)
(* since: each queue change that can be undone is about a card that is not *)
(* queued, but for the entry it would take out (Absent), and the next      *)
(* older change about the same card has requeued it (Follows).  Agrees     *)
(* says so of the two stacks of changes the undo manager keeps, each read  *)
(* from the newest change down, for the changes of the build the queues    *)
(* are of.  While a step is reverted, what is left of it lies on top of    *)
(* one stack and what was recorded on top of the other.  Every operation   *)
(* moves changes from one to the other, drops some, or begins a build of   *)
(* which no change is known.                                               *)
(***************************************************************************)
EXTENDS StudyQueues, UndoManager_proofs, FiniteSetTheorems

---------------------------------------------------------------------------
(* Sequences *)

\* A function on 1..n is a sequence of length n.
LEMMA FunctionIsSequence ==
  ASSUME NEW S, NEW n \in Nat, NEW s \in [1..n -> S]
  PROVE  s \in Seq(S) /\ Len(s) = n
OBVIOUS

\* What removing the entry at a position leaves.
LEMMA RemoveAtElements ==
  ASSUME NEW S, NEW s \in Seq(S), NEW i \in 1..Len(s)
  PROVE  /\ RemoveAt(s, i) \in Seq(S) /\ Len(RemoveAt(s, i)) = Len(s) - 1
         /\ \A j \in 1..(Len(s) - 1) :
              RemoveAt(s, i)[j] = IF j < i THEN s[j] ELSE s[j + 1]
<1> DEFINE a == SubSeq(s, 1, i - 1)
           b == SubSeq(s, i + 1, Len(s))
<1>1. a \in Seq(S) /\ Len(a) = i - 1 /\ \A j \in 1..(i - 1) : a[j] = s[j]
  BY SubSeqProperties
<1>2. b \in Seq(S) /\ Len(b) = Len(s) - i /\ \A j \in 1..(Len(s) - i) : b[j] = s[j + i]
  BY SubSeqProperties
<1>3. RemoveAt(s, i) = a \o b
  BY DEF RemoveAt
<1> HIDE DEF a, b
<1>4. /\ a \o b \in Seq(S) /\ Len(a \o b) = Len(a) + Len(b)
      /\ \A j \in 1..(Len(a) + Len(b)) :
           (a \o b)[j] = IF j <= Len(a) THEN a[j] ELSE b[j - Len(a)]
  BY <1>1, <1>2, ConcatProperties
<1>5. ASSUME NEW j \in 1..(Len(s) - 1)
      PROVE  (a \o b)[j] = IF j < i THEN s[j] ELSE s[j + 1]
  <2>1. CASE j < i
    BY <2>1, <1>1, <1>2, <1>4
  <2>2. CASE ~(j < i)
    <3>1. (a \o b)[j] = b[j - (i - 1)] /\ j - (i - 1) \in 1..(Len(s) - i)
      BY <2>2, <1>1, <1>2, <1>4
    <3>2. b[j - (i - 1)] = s[(j - (i - 1)) + i] /\ (j - (i - 1)) + i = j + 1
      BY <3>1, <1>2
    <3> QED BY <2>2, <3>1, <3>2
  <2> QED BY <2>1, <2>2
<1> QED BY <1>1, <1>2, <1>3, <1>4, <1>5

\* What inserting an entry at a position leads to.
LEMMA InsertAtElements ==
  ASSUME NEW S, NEW s \in Seq(S), NEW i \in 1..(Len(s) + 1), NEW e \in S
  PROVE  /\ InsertAt(s, i, e) \in Seq(S) /\ Len(InsertAt(s, i, e)) = Len(s) + 1
         /\ \A j \in 1..(Len(s) + 1) :
              InsertAt(s, i, e)[j] = IF j < i THEN s[j] ELSE IF j = i THEN e ELSE s[j - 1]
<1> DEFINE a == SubSeq(s, 1, i - 1)
           m == <<e>>
           b == SubSeq(s, i, Len(s))
<1>1. a \in Seq(S) /\ Len(a) = i - 1 /\ \A j \in 1..(i - 1) : a[j] = s[j]
  BY SubSeqProperties
<1>2. b \in Seq(S) /\ Len(b) = Len(s) - i + 1
      /\ \A j \in 1..(Len(s) - i + 1) : b[j] = s[i + j - 1]
  BY SubSeqProperties
<1>m. m \in Seq(S) /\ Len(m) = 1 /\ m[1] = e
  OBVIOUS
<1>3. InsertAt(s, i, e) = a \o m \o b
  BY DEF InsertAt
<1> HIDE DEF a, b, m
<1>4. /\ a \o m \in Seq(S) /\ Len(a \o m) = i
      /\ \A j \in 1..i : (a \o m)[j] = IF j < i THEN s[j] ELSE e
  <2>1. /\ a \o m \in Seq(S) /\ Len(a \o m) = Len(a) + Len(m)
        /\ \A j \in 1..(Len(a) + Len(m)) :
             (a \o m)[j] = IF j <= Len(a) THEN a[j] ELSE m[j - Len(a)]
    BY <1>1, <1>m, ConcatProperties
  <2> QED BY <2>1, <1>1, <1>m
<1> DEFINE t == a \o m
<1> HIDE DEF t
<1>5. /\ t \o b \in Seq(S) /\ Len(t \o b) = Len(t) + Len(b)
      /\ \A j \in 1..(Len(t) + Len(b)) :
           (t \o b)[j] = IF j <= Len(t) THEN t[j] ELSE b[j - Len(t)]
  BY <1>2, <1>4, ConcatProperties DEF t
<1>6. ASSUME NEW j \in 1..(Len(s) + 1)
      PROVE  (t \o b)[j] = IF j < i THEN s[j] ELSE IF j = i THEN e ELSE s[j - 1]
  <2>1. CASE j <= i
    BY <2>1, <1>2, <1>4, <1>5 DEF t
  <2>2. CASE ~(j <= i)
    <3>1. (t \o b)[j] = b[j - i] /\ j - i \in 1..(Len(s) - i + 1)
      BY <2>2, <1>2, <1>4, <1>5 DEF t
    <3>2. b[j - i] = s[i + (j - i) - 1] /\ i + (j - i) - 1 = j - 1
      BY <3>1, <1>2
    <3> QED BY <2>2, <3>1, <3>2
  <2> QED BY <2>1, <2>2
<1> QED BY <1>2, <1>3, <1>4, <1>5, <1>6 DEF t

\* What an entry in front of a sequence leads to.
LEMMA FrontElements ==
  ASSUME NEW S, NEW s \in Seq(S), NEW e \in S
  PROVE  /\ <<e>> \o s \in Seq(S) /\ Len(<<e>> \o s) = Len(s) + 1
         /\ (<<e>> \o s)[1] = e
         /\ \A j \in 2..(Len(s) + 1) : (<<e>> \o s)[j] = s[j - 1]
<1> DEFINE m == <<e>>
<1>1. m \in Seq(S) /\ Len(m) = 1 /\ m[1] = e
  OBVIOUS
<1> HIDE DEF m
<1>2. /\ m \o s \in Seq(S) /\ Len(m \o s) = Len(m) + Len(s)
      /\ \A j \in 1..(Len(m) + Len(s)) :
           (m \o s)[j] = IF j <= Len(m) THEN m[j] ELSE s[j - Len(m)]
  BY <1>1, ConcatProperties
<1>3. QED BY <1>1, <1>2 DEF m

\* s lists the elements of S, each of them once.
Lists(s, S) ==
  /\ s \in Seq(S) /\ Len(s) = Cardinality(S)
  /\ \A i, j \in 1..Len(s) : s[i] = s[j] => i = j
  /\ \A x \in S : \E i \in 1..Len(s) : s[i] = x

\* The orders of a finite set list it.
LEMMA OrdersList ==
  ASSUME NEW S, IsFiniteSet(S), NEW s \in SetToSeqs(S)
  PROVE  Lists(s, S)
<1> DEFINE n == Cardinality(S)
<1>1. n \in Nat
  BY FS_CardinalityType
<1>2. s \in [1..n -> S] /\ \A i, j \in 1..n : i # j => s[i] # s[j]
  BY DEF SetToSeqs
<1>3. IsFiniteSet(1..n) /\ Cardinality(1..n) = n
  BY <1>1, FS_Interval
<1>4. s \in Injection(1..n, S)
  BY <1>2 DEF Injection, IsInjective
<1>5. s \in Surjection(1..n, S)
  BY <1>3, <1>4, FS_Injection
<1>6. s \in Seq(S) /\ Len(s) = n
  BY <1>1, <1>2, FunctionIsSequence
<1> QED BY <1>2, <1>5, <1>6 DEF Lists, Surjection

\* A finite set can be listed.
LEMMA SetToSeqLists ==
  ASSUME NEW S, IsFiniteSet(S)
  PROVE  Lists(SetToSeq(S), S)
<1> DEFINE n == Cardinality(S)
<1>1. n \in Nat /\ ExistsBijection(1..n, S)
  BY FS_CardinalityType
<1>2. PICK f \in Bijection(1..n, S) : TRUE
  BY <1>1 DEF ExistsBijection
<1>3. \E g \in [1..n -> S] : IsInjective(g)
  BY <1>2 DEF Bijection, Injection
<1>4. SetToSeq(S) \in [1..n -> S] /\ IsInjective(SetToSeq(S))
  BY <1>3 DEF SetToSeq
<1>5. SetToSeq(S) \in SetToSeqs(S)
  BY <1>4 DEF SetToSeqs, IsInjective
<1> QED BY <1>5, OrdersList

\* The least of some natural numbers.
LEMMA MinIsLeast ==
  ASSUME NEW I, I \subseteq Nat, I # {}
  PROVE  Min(I) \in I /\ \A j \in I : Min(I) <= j
<1>1. PICK x \in I : \A y \in I : ~(y < x)
  BY LeastNatural
<1>2. \A y \in I : x <= y
  BY <1>1
<1> QED BY <1>2 DEF Min

\* The position of a card in the learning queue is the first of its entries.
LEMMA PositionOfEntry ==
  ASSUME NEW q, NEW S, q.learning \in Seq(S), NEW id
  PROVE  /\ PositionOf(q, id) \in 0..Len(q.learning)
         /\ PositionOf(q, id) # 0 => q.learning[PositionOf(q, id)].id = id
         /\ PositionOf(q, id) = 0 => \A i \in 1..Len(q.learning) : q.learning[i].id # id
<1> DEFINE I == {i \in 1..Len(q.learning) : q.learning[i].id = id}
<1>1. PositionOf(q, id) = IF I # {} THEN Min(I) ELSE 0
  BY DEF PositionOf, SelectInSeq
<1>2. Len(q.learning) \in Nat /\ I \subseteq Nat
  OBVIOUS
<1>3. CASE I = {}
  BY <1>1, <1>2, <1>3
<1>4. CASE I # {}
  <2>1. Min(I) \in I
    BY <1>2, <1>4, MinIsLeast
  <2>2. PositionOf(q, id) = Min(I)
    BY <1>1, <1>4
  <2> QED BY <1>2, <2>1, <2>2
<1> QED BY <1>3, <1>4
---------------------------------------------------------------------------
(* What the methods of the queues do to their entries *)

Elements(s) == {s[i] : i \in 1..Len(s)}
Learning(q) == Elements(q.learning)
Main(q) == Elements(q.main)
Entries(q) == Learning(q) \cup Main(q)

\* No two entries of a sequence are for one card.
Once(s) == \A i, j \in 1..Len(s) : s[i].id = s[j].id => i = j

\* No two entries of the queues are for one card.
Distinct(q) ==
  Once(q.learning) /\ Once(q.main) /\ \A e \in Learning(q), f \in Main(q) : e.id # f.id

\* What keeps its build, its day and its cutoff.
SameBuild(p, q) == p.build = q.build /\ p.day = q.day /\ p.cutoff = q.cutoff

\* Learning entries are told from the others by their due value.
LEMMA EntryKinds ==
  /\ \A e \in LearningEntry : IsLearning(e)
  /\ \A e \in MainEntry : ~IsLearning(e)
<1>1. \A e \in LearningEntry : DOMAIN e = {"id", "mtime", "due", "reps"}
  BY DEF LearningEntry
<1>2. \A e \in MainEntry : DOMAIN e = {"id", "mtime", "kind"}
  BY DEF MainEntry
<1> QED BY <1>1, <1>2 DEF IsLearning

\* The parts of queues.
LEMMA QueuesParts ==
  ASSUME NEW q \in Queues
  PROVE  /\ q.learning \in Seq(LearningEntry) /\ q.main \in Seq(MainEntry)
         /\ Learning(q) \subseteq LearningEntry /\ Main(q) \subseteq MainEntry
         /\ Len(q.learning) \in Nat /\ Len(q.main) \in Nat
         /\ \A i \in 1..Len(q.learning) : q.learning[i] \in LearningEntry /\ q.learning[i].id \in Cards
         /\ \A i \in 1..Len(q.main) : q.main[i] \in MainEntry /\ q.main[i].id \in Cards
         /\ q.counts \in Counts /\ q.build \in Nat \ {0} /\ q.cutoff \in Nat /\ q.day \in Nat
<1>1. q.learning \in Seq(LearningEntry) /\ q.main \in Seq(MainEntry)
  BY DEF Queues
<1>2. /\ \A i \in 1..Len(q.learning) : q.learning[i] \in LearningEntry
      /\ \A i \in 1..Len(q.main) : q.main[i] \in MainEntry
      /\ Len(q.learning) \in Nat /\ Len(q.main) \in Nat
  BY <1>1
<1>3. /\ \A e \in LearningEntry : e.id \in Cards
      /\ \A e \in MainEntry : e.id \in Cards
  BY DEF LearningEntry, MainEntry
<1> QED BY <1>1, <1>2, <1>3 DEF Queues, Learning, Main, Elements

\* A number of counted positions is a natural number.
LEMMA CountDueType ==
  ASSUME NEW S, NEW s \in Seq(S), NEW from, NEW to
  PROVE  CountDue(s, from, to) \in Nat
<1> DEFINE T == {i \in 1..Len(s) : from < s[i].due /\ s[i].due <= to}
<1>1. Len(s) \in Nat
  OBVIOUS
<1>2. IsFiniteSet(1..Len(s))
  BY <1>1, FS_Interval
<1>3. T \subseteq 1..Len(s)
  OBVIOUS
<1>4. Cardinality(T) \in Nat
  BY <1>2, <1>3, FS_Subset, FS_CardinalityType
<1> QED BY <1>4 DEF CountDue

\* A sequence of entries without one of them.
LEMMA OneRemoved ==
  ASSUME NEW S, NEW s \in Seq(S), NEW i \in 1..Len(s), Once(s)
  PROVE  LET t == RemoveAt(s, i)
         IN t \in Seq(S) /\ Once(t) /\ Elements(t) = Elements(s) \ {s[i]}
<1> DEFINE t == RemoveAt(s, i)
<1>1. /\ t \in Seq(S) /\ Len(t) = Len(s) - 1 /\ Len(s) \in Nat
      /\ \A j \in 1..(Len(s) - 1) : t[j] = IF j < i THEN s[j] ELSE s[j + 1]
  BY RemoveAtElements
<1> HIDE DEF t
<1>2. ASSUME NEW j \in 1..Len(t)
      PROVE  \E k \in 1..Len(s) : k # i /\ t[j] = s[k] /\ k = IF j < i THEN j ELSE j + 1
  <2>1. CASE j < i
    BY <2>1, <1>1
  <2>2. CASE ~(j < i)
    <3>1. j + 1 \in 1..Len(s) /\ j + 1 # i /\ t[j] = s[j + 1]
      BY <2>2, <1>1
    <3> QED BY <2>2, <3>1
  <2> QED BY <2>1, <2>2
<1>3. Once(t)
  <2> SUFFICES ASSUME NEW j \in 1..Len(t), NEW k \in 1..Len(t), t[j].id = t[k].id
               PROVE  j = k
    BY DEF Once
  <2>1. PICK m \in 1..Len(s) : t[j] = s[m] /\ m = IF j < i THEN j ELSE j + 1
    BY <1>2
  <2>2. PICK n \in 1..Len(s) : t[k] = s[n] /\ n = IF k < i THEN k ELSE k + 1
    BY <1>2
  <2>3. m = n
    BY <2>1, <2>2 DEF Once
  <2> QED BY <2>1, <2>2, <2>3, <1>1
<1>4. Elements(t) = Elements(s) \ {s[i]}
  <2>1. ASSUME NEW x \in Elements(t)
        PROVE  x \in Elements(s) \ {s[i]}
    <3>1. PICK j \in 1..Len(t) : x = t[j]
      BY DEF Elements
    <3>2. PICK k \in 1..Len(s) : k # i /\ t[j] = s[k]
      BY <1>2
    <3>3. s[k] # s[i]
      BY <3>2 DEF Once
    <3> QED BY <3>1, <3>2, <3>3 DEF Elements
  <2>2. ASSUME NEW x \in Elements(s) \ {s[i]}
        PROVE  x \in Elements(t)
    <3>1. PICK k \in 1..Len(s) : x = s[k] /\ k # i
      BY DEF Elements
    <3>2. CASE k < i
      <4>1. k \in 1..Len(t) /\ t[k] = s[k]
        BY <1>1, <3>2
      <4> QED BY <3>1, <4>1 DEF Elements
    <3>3. CASE ~(k < i)
      <4>1. k - 1 \in 1..Len(t) /\ ~(k - 1 < i) /\ (k - 1) + 1 = k
        BY <1>1, <3>1, <3>3
      <4>2. t[k - 1] = s[(k - 1) + 1]
        BY <1>1, <4>1
      <4> QED BY <3>1, <4>1, <4>2 DEF Elements
    <3> QED BY <3>2, <3>3
  <2> QED BY <2>1, <2>2
<1> QED BY <1>1, <1>3, <1>4 DEF t

\* A sequence of entries with another one.
LEMMA OneInserted ==
  ASSUME NEW S, NEW s \in Seq(S), NEW i \in 1..(Len(s) + 1), NEW e \in S, Once(s),
         \A f \in Elements(s) : f.id # e.id
  PROVE  LET t == InsertAt(s, i, e)
         IN t \in Seq(S) /\ Once(t) /\ Elements(t) = Elements(s) \cup {e}
<1> DEFINE t == InsertAt(s, i, e)
<1>1. /\ t \in Seq(S) /\ Len(t) = Len(s) + 1 /\ Len(s) \in Nat
      /\ \A j \in 1..(Len(s) + 1) :
           t[j] = IF j < i THEN s[j] ELSE IF j = i THEN e ELSE s[j - 1]
  BY InsertAtElements
<1> HIDE DEF t
<1>2. \A j \in 1..Len(t) : j < i => j \in 1..Len(s) /\ t[j] = s[j]
  BY <1>1
<1>3. \A j \in 1..Len(t) : j > i => j - 1 \in 1..Len(s) /\ t[j] = s[j - 1]
  BY <1>1
<1>4. i \in 1..Len(t) /\ t[i] = e
  BY <1>1
<1>5. \A j \in 1..Len(s) : s[j].id # e.id
  BY DEF Elements
<1>6. Once(t)
  <2> SUFFICES ASSUME NEW j \in 1..Len(t), NEW k \in 1..Len(t), t[j].id = t[k].id
               PROVE  j = k
    BY DEF Once
  <2>1. CASE j = i \/ k = i
    <3>1. ASSUME NEW m \in 1..Len(t), m # i
          PROVE  t[m].id # e.id
      <4>1. m < i \/ m > i
        BY <3>1
      <4> QED BY <4>1, <1>2, <1>3, <1>5
    <3> QED BY <2>1, <3>1, <1>4
  <2>2. CASE j < i /\ k < i
    BY <2>2, <1>2 DEF Once
  <2>3. CASE j > i /\ k > i
    <3>1. j - 1 = k - 1
      BY <2>3, <1>3 DEF Once
    <3> QED BY <3>1
  <2>4. CASE j < i /\ k > i
    <3>1. j = k - 1
      BY <2>4, <1>2, <1>3 DEF Once
    <3> QED BY <3>1, <2>4
  <2>5. CASE j > i /\ k < i
    <3>1. k = j - 1
      BY <2>5, <1>2, <1>3 DEF Once
    <3> QED BY <3>1, <2>5
  <2> QED BY <2>1, <2>2, <2>3, <2>4, <2>5
<1>7. ASSUME NEW x \in Elements(t)
      PROVE  x \in Elements(s) \cup {e}
  <2>1. PICK j \in 1..Len(t) : x = t[j]
    BY DEF Elements
  <2>2. j < i \/ j = i \/ j > i
    OBVIOUS
  <2> QED BY <2>1, <2>2, <1>2, <1>3, <1>4 DEF Elements
<1>8. ASSUME NEW x \in Elements(s)
      PROVE  x \in Elements(t)
  <2>1. PICK j \in 1..Len(s) : x = s[j]
    BY DEF Elements
  <2>2. CASE j < i
    BY <2>1, <2>2, <1>1 DEF Elements
  <2>3. CASE ~(j < i)
    <3>1. j + 1 \in 1..Len(t) /\ j + 1 > i /\ (j + 1) - 1 = j
      BY <2>3, <1>1
    <3>2. t[j + 1] = s[(j + 1) - 1]
      BY <3>1, <1>3
    <3> QED BY <2>1, <3>1, <3>2 DEF Elements
  <2> QED BY <2>2, <2>3
<1>9. e \in Elements(t)
  BY <1>4 DEF Elements
<1> QED BY <1>1, <1>6, <1>7, <1>8, <1>9 DEF t
\* Taking the first entry away, or putting one in front, as cases of the above.
LEMMA TailAndFront ==
  ASSUME NEW S, NEW s \in Seq(S)
  PROVE  /\ s # <<>> => Tail(s) = RemoveAt(s, 1) /\ Head(s) = s[1] /\ 1 \in 1..Len(s)
         /\ \A e \in S : <<e>> \o s = InsertAt(s, 1, e)
<1>1. SubSeq(s, 1, 0) = <<>> /\ SubSeq(s, 1, Len(s)) = s
  BY SubSeqEmpty, SubSeqFull
<1>2. ASSUME s # <<>>
      PROVE  Tail(s) = RemoveAt(s, 1) /\ Head(s) = s[1] /\ 1 \in 1..Len(s)
  <2>1. Tail(s) = SubSeq(s, 2, Len(s)) /\ Tail(s) \in Seq(S)
    BY <1>2, TailIsSubSeq, HeadTailProperties
  <2>2. <<>> \o Tail(s) = Tail(s)
    BY <2>1, ConcatEmptySeq
  <2>3. Len(s) \in Nat \ {0}
    BY <1>2, EmptySeq
  <2> QED BY <1>1, <1>2, <2>1, <2>2, <2>3 DEF RemoveAt
<1>3. ASSUME NEW e \in S
      PROVE  <<e>> \o s = InsertAt(s, 1, e)
  <2>1. <<e>> \in Seq(S)
    OBVIOUS
  <2>2. <<>> \o <<e>> = <<e>>
    BY <2>1, ConcatEmptySeq
  <2>3. InsertAt(s, 1, e) = SubSeq(s, 1, 1 - 1) \o <<e>> \o SubSeq(s, 1, Len(s))
    BY Zenon DEF InsertAt
  <2> QED BY <1>1, <2>2, <2>3
<1> QED BY <1>2, <1>3

\* One less, but not below zero.
LEMMA Less1Type ==
  ASSUME NEW n \in Nat PROVE Less1(n) \in Nat
BY DEF Less1

\* The count of a kind is one of the three counts.
LEMMA CountFieldType ==
  ASSUME NEW counts \in Counts, NEW kind \in MainQueues, NEW n \in Nat
  PROVE  /\ counts[CountField(kind)] \in Nat
         /\ [counts EXCEPT ![CountField(kind)] = n] \in Counts
<1>1. CountField(kind) \in {"new", "review", "learning"}
  BY DEF CountField, MainQueues
<1> QED BY <1>1 DEF Counts

\* Popping takes the entry of the card out.
LEMMA PopResult ==
  ASSUME NEW q \in Queues, NEW id, CanPop(q, id), Distinct(q)
  PROVE  LET e == PoppedEntry(q, id)
             p == PopEntry(q, id)
         IN /\ e \in Entry /\ e.id = id /\ id \in Cards /\ e \in Entries(q)
            /\ p \in Queues /\ Distinct(p) /\ SameBuild(p, q)
            /\ Learning(p) = Learning(q) \ {e} /\ Main(p) = Main(q) \ {e}
<1> DEFINE e == PoppedEntry(q, id)
           p == PopEntry(q, id)
           i == PositionOf(q, id)
<1>1. /\ q.learning \in Seq(LearningEntry) /\ q.main \in Seq(MainEntry)
      /\ Learning(q) \subseteq LearningEntry /\ Main(q) \subseteq MainEntry
      /\ \A k \in 1..Len(q.learning) : q.learning[k] \in LearningEntry /\ q.learning[k].id \in Cards
      /\ \A k \in 1..Len(q.main) : q.main[k] \in MainEntry /\ q.main[k].id \in Cards
      /\ q.counts \in Counts
  BY QueuesParts
<1>2. /\ i \in 0..Len(q.learning)
      /\ i # 0 => q.learning[i].id = id
      /\ i = 0 => \A k \in 1..Len(q.learning) : q.learning[k].id # id
  BY <1>1, PositionOfEntry
<1>3. \A x \in LearningEntry : x \notin Main(q)
  BY <1>1, EntryKinds
<1>4. \A x \in MainEntry : x \notin Learning(q)
  BY <1>1, EntryKinds
<1>5. CASE i # 0
  <2>1. i \in 1..Len(q.learning) /\ e = q.learning[i]
    BY <1>2, <1>5 DEF PoppedEntry
  <2> DEFINE l == RemoveAt(q.learning, i)
             n == Less1(q.counts.learning)
  <2>2. p = [q EXCEPT !.learning = l, !.counts.learning = n]
    BY <1>5 DEF PopEntry
  <2>3. l \in Seq(LearningEntry) /\ Once(l) /\ Elements(l) = Elements(q.learning) \ {e}
    BY <1>1, <2>1, OneRemoved DEF Distinct
  <2>4. n \in Nat
    BY <1>1, Less1Type DEF Counts
  <2> HIDE DEF l, n, p, e
  <2>5. [q.counts EXCEPT !.learning = n] \in Counts
    BY <1>1, <2>4 DEF Counts
  <2>6. p \in Queues
    BY <2>2, <2>3, <2>5 DEF Queues
  <2>7. p.learning = l /\ p.main = q.main /\ SameBuild(p, q)
    BY <2>2 DEF Queues, SameBuild
  <2>8. e \in Learning(q) /\ e \in LearningEntry /\ e.id = id /\ id \in Cards
    BY <1>1, <1>2, <1>5, <2>1 DEF Learning, Elements
  <2>9. Learning(p) = Learning(q) \ {e} /\ Main(p) = Main(q) \ {e}
    BY <1>3, <2>3, <2>7, <2>8 DEF Learning, Main
  <2>10. Distinct(p)
    BY <2>3, <2>7, <2>9 DEF Distinct
  <2> QED BY <2>6, <2>7, <2>8, <2>9, <2>10 DEF Entries, Entry, e, p
<1>6. CASE i = 0
  <2>1. q.main # <<>> /\ Head(q.main).id = id /\ e = Head(q.main)
    BY <1>6 DEF PoppedEntry, CanPop
  <2>2. Tail(q.main) = RemoveAt(q.main, 1) /\ Head(q.main) = q.main[1] /\ 1 \in 1..Len(q.main)
    BY <1>1, <2>1, TailAndFront
  <2> DEFINE l == Tail(q.main)
             k == CountField(e.kind)
             n == Less1(q.counts[k])
  <2>3. e \in Main(q) /\ e \in MainEntry /\ e.id = id /\ id \in Cards
    BY <1>1, <2>1, <2>2 DEF Main, Elements
  <2>4. p = [q EXCEPT !.main = l, !.counts = [@ EXCEPT ![k] = n]]
    BY <1>6, <2>1 DEF PopEntry
  <2>5. l \in Seq(MainEntry) /\ Once(l) /\ Elements(l) = Elements(q.main) \ {e}
    BY <1>1, <2>1, <2>2, OneRemoved DEF Distinct
  <2>6. e.kind \in MainQueues
    BY <2>3 DEF MainEntry
  <2>7. [q.counts EXCEPT ![k] = n] \in Counts
    <3>1. q.counts[k] \in Nat
      BY <1>1, <2>6, CountFieldType
    <3>2. n \in Nat
      BY <3>1, Less1Type
    <3> QED BY <1>1, <2>6, <3>2, CountFieldType
  <2> HIDE DEF l, n, p, e, k
  <2>8. p \in Queues
    BY <2>4, <2>5, <2>7 DEF Queues
  <2>9. p.main = l /\ p.learning = q.learning /\ SameBuild(p, q)
    BY <2>4 DEF Queues, SameBuild
  <2>10. Learning(p) = Learning(q) \ {e} /\ Main(p) = Main(q) \ {e}
    BY <1>4, <2>3, <2>5, <2>9 DEF Learning, Main
  <2>11. Distinct(p)
    BY <2>5, <2>9, <2>10 DEF Distinct
  <2> QED BY <2>3, <2>8, <2>9, <2>10, <2>11 DEF Entries, Entry, e, p
<1> QED BY <1>5, <1>6 DEF e, p

\* Inserting puts the entry of a card that is in no queue into the learning queue.
LEMMA InsertResult ==
  ASSUME NEW q \in Queues, Distinct(q), NEW e \in LearningEntry, NEW p \in Inserted(q, e),
         \A f \in Entries(q) : f.id # e.id
  PROVE  /\ p \in Queues /\ Distinct(p) /\ SameBuild(p, q)
         /\ Learning(p) = Learning(q) \cup {e} /\ Main(p) = Main(q)
<1>1. /\ q.learning \in Seq(LearningEntry) /\ q.counts \in Counts /\ Len(q.learning) \in Nat
  BY QueuesParts
<1>2. InsertPositions(q.learning, e) \subseteq 1..(Len(q.learning) + 1)
  BY <1>1 DEF InsertPositions
<1> DEFINE n == q.counts.learning + IF e.due <= AheadCutoff(q) THEN 1 ELSE 0
<1>3. PICK i \in 1..(Len(q.learning) + 1) :
        p = [q EXCEPT !.learning = InsertAt(q.learning, i, e), !.counts.learning = n]
  BY <1>2 DEF Inserted
<1> DEFINE l == InsertAt(q.learning, i, e)
<1>4. l \in Seq(LearningEntry) /\ Once(l) /\ Elements(l) = Elements(q.learning) \cup {e}
  BY <1>1, OneInserted DEF Distinct, Entries, Learning
<1>5. n \in Nat
  BY <1>1 DEF Counts
<1> HIDE DEF l, n
<1>6. [q.counts EXCEPT !.learning = n] \in Counts
  BY <1>1, <1>5 DEF Counts
<1>7. p \in Queues
  BY <1>3, <1>4, <1>6 DEF Queues, l
<1>8. p.learning = l /\ p.main = q.main /\ SameBuild(p, q)
  BY <1>3 DEF Queues, SameBuild, l
<1>9. Learning(p) = Learning(q) \cup {e} /\ Main(p) = Main(q)
  BY <1>4, <1>8 DEF Learning, Main
<1>10. Distinct(p)
  BY <1>4, <1>8, <1>9 DEF Distinct, Entries
<1> QED BY <1>7, <1>8, <1>9, <1>10

\* Removing takes the learning entry of the card out, if there is one.
LEMMA RemoveResult ==
  ASSUME NEW q \in Queues, Distinct(q), NEW id
  PROVE  LET p == RemoveLearning(q, id)
         IN /\ p \in Queues /\ Distinct(p) /\ SameBuild(p, q)
            /\ Learning(p) = {f \in Learning(q) : f.id # id} /\ Main(p) = Main(q)
<1> DEFINE p == RemoveLearning(q, id)
           i == PositionOf(q, id)
<1>1. /\ q.learning \in Seq(LearningEntry) /\ q.counts \in Counts /\ Len(q.learning) \in Nat
  BY QueuesParts
<1>2. /\ i \in 0..Len(q.learning)
      /\ i # 0 => q.learning[i].id = id
      /\ i = 0 => \A k \in 1..Len(q.learning) : q.learning[k].id # id
  BY <1>1, PositionOfEntry
<1>3. CASE i = 0
  <2>1. p = q
    BY <1>3 DEF RemoveLearning
  <2> QED BY <1>2, <1>3, <2>1 DEF SameBuild, Learning, Elements
<1>4. CASE i # 0
  <2>1. i \in 1..Len(q.learning)
    BY <1>2, <1>4
  <2> DEFINE l == RemoveAt(q.learning, i)
             n == IF q.learning[i].due <= AheadCutoff(q)
                  THEN Less1(q.counts.learning) ELSE q.counts.learning
  <2>2. p = [q EXCEPT !.learning = l, !.counts.learning = n]
    BY <1>4 DEF RemoveLearning
  <2>3. l \in Seq(LearningEntry) /\ Once(l)
        /\ Elements(l) = Elements(q.learning) \ {q.learning[i]}
    BY <1>1, <2>1, OneRemoved DEF Distinct
  <2>4. n \in Nat
    BY <1>1, Less1Type DEF Counts
  <2> HIDE DEF l, n, p
  <2>5. [q.counts EXCEPT !.learning = n] \in Counts
    BY <1>1, <2>4 DEF Counts
  <2>6. p \in Queues
    BY <2>2, <2>3, <2>5 DEF Queues
  <2>7. p.learning = l /\ p.main = q.main /\ SameBuild(p, q)
    BY <2>2 DEF Queues, SameBuild
  <2>8. Learning(p) = {f \in Learning(q) : f.id # id}
    <3>1. \A f \in Learning(q) : f.id = id => f = q.learning[i]
      <4> SUFFICES ASSUME NEW f \in Learning(q), f.id = id PROVE f = q.learning[i]
        OBVIOUS
      <4>1. PICK k \in 1..Len(q.learning) : f = q.learning[k]
        BY DEF Learning, Elements
      <4>2. k = i
        BY <1>2, <1>4, <2>1, <4>1 DEF Distinct, Once
      <4> QED BY <4>1, <4>2
    <3> QED BY <1>2, <1>4, <2>3, <2>7, <3>1 DEF Learning
  <2>9. Main(p) = Main(q)
    BY <2>7 DEF Main
  <2>10. Distinct(p)
    BY <2>3, <2>7, <2>8, <2>9 DEF Distinct
  <2> QED BY <2>6, <2>7, <2>8, <2>9, <2>10 DEF p
<1> QED BY <1>3, <1>4

\* Undoing puts the entry of a card that is in no queue back into the queue it came from.
LEMMA PushResult ==
  ASSUME NEW q \in Queues, Distinct(q), NEW e \in Entry, \A f \in Entries(q) : f.id # e.id
  PROVE  LET p == PushUndoEntry(q, e)
         IN /\ p \in Queues /\ Distinct(p) /\ SameBuild(p, q)
            /\ Learning(p) = IF IsLearning(e) THEN Learning(q) \cup {e} ELSE Learning(q)
            /\ Main(p) = IF IsLearning(e) THEN Main(q) ELSE Main(q) \cup {e}
<1> DEFINE p == PushUndoEntry(q, e)
<1>1. /\ q.learning \in Seq(LearningEntry) /\ q.main \in Seq(MainEntry)
      /\ q.counts \in Counts /\ Len(q.learning) \in Nat /\ Len(q.main) \in Nat
  BY QueuesParts
<1>2. CASE IsLearning(e)
  <2>1. e \in LearningEntry
    BY <1>2, EntryKinds DEF Entry
  <2> DEFINE l == <<e>> \o q.learning
             n == q.counts.learning + 1
  <2>2. p = [q EXCEPT !.learning = l, !.counts.learning = n]
    BY <1>2 DEF PushUndoEntry
  <2>3. l = InsertAt(q.learning, 1, e) /\ 1 \in 1..(Len(q.learning) + 1)
    BY <1>1, <2>1, TailAndFront
  <2>a. Once(q.learning) /\ \A f \in Elements(q.learning) : f.id # e.id
    BY DEF Distinct, Entries, Learning
  <2>b. LET t == InsertAt(q.learning, 1, e)
        IN t \in Seq(LearningEntry) /\ Once(t) /\ Elements(t) = Elements(q.learning) \cup {e}
    BY <1>1, <2>1, <2>3, <2>a, OneInserted
  <2>4. l \in Seq(LearningEntry) /\ Once(l) /\ Elements(l) = Elements(q.learning) \cup {e}
    BY <2>3, <2>b
  <2>5. [q.counts EXCEPT !.learning = n] \in Counts
    BY <1>1 DEF Counts
  <2> HIDE DEF l, n, p
  <2>6. p \in Queues
    BY <2>2, <2>4, <2>5 DEF Queues
  <2>7. p.learning = l /\ p.main = q.main /\ SameBuild(p, q)
    BY <2>2 DEF Queues, SameBuild
  <2>8. Learning(p) = Learning(q) \cup {e} /\ Main(p) = Main(q)
    BY <2>4, <2>7 DEF Learning, Main
  <2>9. Distinct(p)
    BY <2>4, <2>7, <2>8 DEF Distinct, Entries
  <2> QED BY <1>2, <2>6, <2>7, <2>8, <2>9 DEF p
<1>3. CASE ~IsLearning(e)
  <2>1. e \in MainEntry /\ e.kind \in MainQueues
    BY <1>3, EntryKinds DEF Entry, MainEntry
  <2> DEFINE l == <<e>> \o q.main
             k == CountField(e.kind)
             n == q.counts[k] + 1
  <2>2. p = [q EXCEPT !.main = l, !.counts = [@ EXCEPT ![k] = n]]
    BY <1>3 DEF PushUndoEntry
  <2>3. l = InsertAt(q.main, 1, e) /\ 1 \in 1..(Len(q.main) + 1)
    BY <1>1, <2>1, TailAndFront
  <2>a. Once(q.main) /\ \A f \in Elements(q.main) : f.id # e.id
    BY DEF Distinct, Entries, Main
  <2>b. LET t == InsertAt(q.main, 1, e)
        IN t \in Seq(MainEntry) /\ Once(t) /\ Elements(t) = Elements(q.main) \cup {e}
    BY <1>1, <2>1, <2>3, <2>a, OneInserted
  <2>4. l \in Seq(MainEntry) /\ Once(l) /\ Elements(l) = Elements(q.main) \cup {e}
    BY <2>3, <2>b
  <2>5. [q.counts EXCEPT ![k] = n] \in Counts
    <3>1. q.counts[k] \in Nat
      BY <1>1, <2>1, CountFieldType
    <3> QED BY <1>1, <2>1, <3>1, CountFieldType
  <2> HIDE DEF l, n, p, k
  <2>6. p \in Queues
    BY <2>2, <2>4, <2>5 DEF Queues
  <2>7. p.learning = q.learning /\ p.main = l /\ SameBuild(p, q)
    BY <2>2 DEF Queues, SameBuild
  <2>8. Learning(p) = Learning(q) /\ Main(p) = Main(q) \cup {e}
    BY <2>4, <2>7 DEF Learning, Main
  <2>9. Distinct(p)
    BY <2>4, <2>7, <2>8 DEF Distinct, Entries
  <2> QED BY <1>3, <2>6, <2>7, <2>8, <2>9 DEF p
<1> QED BY <1>2, <1>3

\* The cutoff and the learning count are not part of the entries.
LEMMA CutoffResult ==
  ASSUME NEW q \in Queues, Distinct(q), NEW n \in Nat, NEW cutoff \in Nat
  PROVE  LET p == [q EXCEPT !.cutoff = cutoff, !.counts.learning = n]
         IN /\ p \in Queues /\ Distinct(p) /\ p.build = q.build /\ p.day = q.day
            /\ Learning(p) = Learning(q) /\ Main(p) = Main(q)
<1> DEFINE p == [q EXCEPT !.cutoff = cutoff, !.counts.learning = n]
<1>1. [q.counts EXCEPT !.learning = n] \in Counts
  BY DEF Queues, Counts
<1>2. p \in Queues
  BY <1>1 DEF Queues
<1>3. p.learning = q.learning /\ p.main = q.main /\ p.build = q.build /\ p.day = q.day
  BY DEF Queues
<1> HIDE DEF p
<1>4. Learning(p) = Learning(q) /\ Main(p) = Main(q)
  BY <1>3 DEF Learning, Main
<1>5. Distinct(p)
  BY <1>3, <1>4 DEF Distinct
<1> QED BY <1>2, <1>3, <1>4, <1>5 DEF p
---------------------------------------------------------------------------
(* The history of the queues *)

\* Every queue change of a list is one that was answered, or one that was undone, and
\* what was requeued was the card that was answered.
Directed(cs, answered) ==
  \A k \in 1..Len(cs) : cs[k].table = "queue" =>
    /\ cs[k].answered = answered
    /\ cs[k].requeue # NoEntry => cs[k].requeue.id = cs[k].entry.id
StepsDirected(steps, answered) == \A i \in 1..Len(steps) : Directed(steps[i].changes, answered)

OfQueue(change) == change.table = "queue"
OfBuild(change, build) == OfQueue(change) /\ change.build = build

\* The change that reverting another one records.
Flipped(change) == [change EXCEPT !.answered = ~change.answered]

\* A card that was answered is in no main queue, and in the learning queue only if it
\* was requeued.
Absent(change, q) ==
  /\ \A e \in Main(q) : e.id # change.entry.id
  /\ change.requeue = NoEntry => \A e \in Learning(q) : e.id # change.entry.id

\* A card that was answered again had been requeued and came from the learning queue.
Follows(new, old) ==
  new.entry.id = old.entry.id => IsLearning(new.entry) /\ old.requeue # NoEntry

\* A stack of changes: those of an unfinished step and then those of steps.  The first
\* step and the last change of a list are on top.
Part(cs, steps, i) == IF i = 0 THEN cs ELSE steps[i].changes
IsAt(cs, steps, i, k) == i \in 0..Len(steps) /\ k \in 1..Len(Part(cs, steps, i))
Higher(i, k, j, l) == i < j \/ (i = j /\ k > l)

InStack(x, cs, steps) ==
  \E i, k \in Nat : IsAt(cs, steps, i, k) /\ x = Part(cs, steps, i)[k]
Above(x, y, cs, steps) ==
  \E i, k, j, l \in Nat :
    /\ IsAt(cs, steps, i, k) /\ IsAt(cs, steps, j, l) /\ Higher(i, k, j, l)
    /\ x = Part(cs, steps, i)[k] /\ y = Part(cs, steps, j)[l]

\* A stack has no queue changes but those of another one, in the same order.
Within(cs, steps, ds, t) ==
  /\ \A x \in Change : (OfQueue(x) /\ InStack(x, cs, steps)) => InStack(x, ds, t)
  /\ \A x, y \in Change :
       (OfQueue(x) /\ OfQueue(y) /\ Above(x, y, cs, steps)) => Above(x, y, ds, t)

\* What the changes that can be undone, and those that can be redone, say of queues of
\* their build and of one another: from the bottom of the first stack to its top and
\* then from the top of the second one to its bottom, they follow each other.
Agrees(q, cs, steps, ds, t) ==
  /\ \A x \in Change : (OfBuild(x, q.build) /\ InStack(x, cs, steps)) => Absent(x, q)
  /\ \A x, y \in Change : (OfBuild(x, q.build) /\ OfBuild(y, q.build)) =>
       /\ Above(x, y, cs, steps) => Follows(x, y)
       /\ Above(x, y, ds, t) => Follows(y, x)
       /\ (InStack(x, cs, steps) /\ InStack(y, ds, t)) => Follows(y, x)

\* Lists of changes, and steps.
ChangeLists == Seq(Change)
Steps == Seq(Step(Kinds, Change))

\* The parts of a stack are lists of changes.
LEMMA PartType ==
  ASSUME NEW cs \in ChangeLists, NEW steps \in Steps, NEW i \in 0..Len(steps)
  PROVE  Part(cs, steps, i) \in ChangeLists /\ Len(Part(cs, steps, i)) \in Nat
<1>1. CASE i = 0
  BY <1>1 DEF Part, ChangeLists
<1>2. CASE i # 0
  <2>1. i \in 1..Len(steps)
    BY <1>2
  <2>2. steps[i] \in Step(Kinds, Change)
    BY <2>1 DEF Steps
  <2>3. steps[i].changes \in Seq(Change)
    BY <2>2 DEF Step
  <2> QED BY <1>2, <2>3 DEF Part, ChangeLists
<1> QED BY <1>1, <1>2

\* What agrees with two stacks agrees with what is left of them.
LEMMA AgreesWithin ==
  ASSUME NEW q, NEW cs, NEW steps, NEW ds, NEW t, Agrees(q, cs, steps, ds, t),
         NEW cs1, NEW steps1, NEW ds1, NEW t1,
         Within(cs1, steps1, cs, steps), Within(ds1, t1, ds, t)
  PROVE  Agrees(q, cs1, steps1, ds1, t1)
<1>1. ASSUME NEW x \in Change, OfBuild(x, q.build), InStack(x, cs1, steps1)
      PROVE  InStack(x, cs, steps) /\ Absent(x, q)
  BY <1>1 DEF Within, Agrees, OfBuild
<1>2. ASSUME NEW x \in Change, NEW y \in Change, OfBuild(x, q.build), OfBuild(y, q.build)
      PROVE  /\ Above(x, y, cs1, steps1) => Follows(x, y)
             /\ Above(x, y, ds1, t1) => Follows(y, x)
             /\ (InStack(x, cs1, steps1) /\ InStack(y, ds1, t1)) => Follows(y, x)
  <2>1. OfQueue(x) /\ OfQueue(y)
    BY <1>2 DEF OfBuild
  <2>2. /\ Above(x, y, cs1, steps1) => Above(x, y, cs, steps)
        /\ Above(x, y, ds1, t1) => Above(x, y, ds, t)
        /\ InStack(x, cs1, steps1) => InStack(x, cs, steps)
        /\ InStack(y, ds1, t1) => InStack(y, ds, t)
    BY <2>1 DEF Within
  <2> QED BY <1>2, <2>2 DEF Agrees
<1> QED BY <1>1, <1>2 DEF Agrees

\* A stack is within itself, and what is within a part is within the whole.
LEMMA WithinOrder ==
  /\ \A cs, steps : Within(cs, steps, cs, steps)
  /\ \A cs, steps, ds, t, es, r :
       (Within(cs, steps, ds, t) /\ Within(ds, t, es, r)) => Within(cs, steps, es, r)
BY DEF Within

\* There is nothing in the empty stack.
LEMMA NothingStacked ==
  /\ \A x : ~InStack(x, <<>>, <<>>)
  /\ \A x, y : ~Above(x, y, <<>>, <<>>)
<1>1. Len(<<>>) = 0
  OBVIOUS
<1>2. ASSUME NEW i \in Nat, NEW k \in Nat PROVE ~IsAt(<<>>, <<>>, i, k)
  BY <1>1 DEF IsAt, Part
<1> QED BY <1>2 DEF InStack, Above

\* It is within every stack.
LEMMA WithinNothing ==
  \A cs, steps : Within(<<>>, <<>>, cs, steps)
BY NothingStacked DEF Within

\* Changes of other rows, however many they are, say nothing of the queues.
LEMMA WithinOthers ==
  ASSUME NEW cs \in ChangeLists, NEW steps \in Steps, NEW ds \in ChangeLists,
         \A k \in 1..Len(ds) : ~OfQueue(ds[k])
  PROVE  Within(cs \o ds, steps, cs, steps)
<1> DEFINE es == cs \o ds
<1>1. /\ es \in Seq(Change) /\ Len(es) = Len(cs) + Len(ds) /\ Len(cs) \in Nat /\ Len(ds) \in Nat
      /\ \A k \in 1..(Len(cs) + Len(ds)) :
           es[k] = IF k <= Len(cs) THEN cs[k] ELSE ds[k - Len(cs)]
  BY ConcatProperties DEF ChangeLists
<1> HIDE DEF es
<1>2. ASSUME NEW i \in Nat, NEW k \in Nat, IsAt(es, steps, i, k), OfQueue(Part(es, steps, i)[k])
      PROVE  IsAt(cs, steps, i, k) /\ Part(es, steps, i)[k] = Part(cs, steps, i)[k]
  <2>1. CASE i = 0
    <3>1. k \in 1..Len(es) /\ OfQueue(es[k])
      BY <1>2, <2>1 DEF IsAt, Part
    <3>2. k \in 1..Len(cs)
      <4>1. ASSUME ~(k <= Len(cs)) PROVE FALSE
        <5>1. k - Len(cs) \in 1..Len(ds) /\ es[k] = ds[k - Len(cs)]
          BY <4>1, <3>1, <1>1
        <5> QED BY <5>1, <3>1
      <4> QED BY <4>1, <3>1, <1>1
    <3> QED BY <2>1, <3>2, <1>1, <1>2 DEF IsAt, Part
  <2>2. CASE i # 0
    BY <1>2, <2>2 DEF IsAt, Part
  <2> QED BY <2>1, <2>2
<1>3. ASSUME NEW x \in Change, OfQueue(x), InStack(x, es, steps)
      PROVE  InStack(x, cs, steps)
  BY <1>2, <1>3 DEF InStack
<1>4. ASSUME NEW x \in Change, NEW y \in Change, OfQueue(x), OfQueue(y), Above(x, y, es, steps)
      PROVE  Above(x, y, cs, steps)
  BY <1>2, <1>4 DEF Above
<1> QED BY <1>3, <1>4 DEF Within, es

\* One change of another row.
LEMMA WithinOther ==
  ASSUME NEW cs \in ChangeLists, NEW steps \in Steps, NEW ch \in Change, ~OfQueue(ch)
  PROVE  Within(Append(cs, ch), steps, cs, steps)
<1>1. Append(cs, ch) = cs \o <<ch>>
  BY AppendIsConcat DEF ChangeLists
<1>2. <<ch>> \in ChangeLists /\ \A k \in 1..Len(<<ch>>) : ~OfQueue(<<ch>>[k])
  BY DEF ChangeLists
<1> QED BY <1>1, <1>2, WithinOthers, Zenon

\* The oldest changes of the unfinished step.
LEMMA WithinPrefix ==
  ASSUME NEW cs \in ChangeLists, NEW steps \in Steps, NEW n \in 0..Len(cs)
  PROVE  Within(SubSeq(cs, 1, n), steps, cs, steps)
<1> DEFINE ds == SubSeq(cs, 1, n)
<1>1. Len(ds) = n /\ \A k \in 1..n : ds[k] = cs[k]
  BY SubSeqProperties DEF ChangeLists
<1> HIDE DEF ds
<1>2. ASSUME NEW i \in Nat, NEW k \in Nat, IsAt(ds, steps, i, k)
      PROVE  IsAt(cs, steps, i, k) /\ Part(ds, steps, i)[k] = Part(cs, steps, i)[k]
  <2>1. Len(cs) \in Nat
    BY DEF ChangeLists
  <2>2. CASE i = 0
    <3>1. k \in 1..n
      BY <1>1, <1>2, <2>2 DEF IsAt, Part
    <3> QED BY <1>1, <1>2, <2>1, <2>2, <3>1 DEF IsAt, Part
  <2>3. CASE i # 0
    BY <1>2, <2>3 DEF IsAt, Part
  <2> QED BY <2>2, <2>3
<1>3. ASSUME NEW x \in Change, InStack(x, ds, steps) PROVE InStack(x, cs, steps)
  BY <1>2, <1>3 DEF InStack
<1>4. ASSUME NEW x \in Change, NEW y \in Change, Above(x, y, ds, steps)
      PROVE  Above(x, y, cs, steps)
  BY <1>2, <1>4 DEF Above
<1> QED BY <1>3, <1>4 DEF Within, ds

\* Without the unfinished step.
LEMMA WithinSteps ==
  ASSUME NEW cs, NEW steps
  PROVE  Within(<<>>, steps, cs, steps)
<1>1. ASSUME NEW i \in Nat, NEW k \in Nat, IsAt(<<>>, steps, i, k)
      PROVE  IsAt(cs, steps, i, k) /\ Part(<<>>, steps, i)[k] = Part(cs, steps, i)[k]
  BY <1>1 DEF IsAt, Part
<1>2. ASSUME NEW x \in Change, InStack(x, <<>>, steps) PROVE InStack(x, cs, steps)
  BY <1>1, <1>2 DEF InStack
<1>3. ASSUME NEW x \in Change, NEW y \in Change, Above(x, y, <<>>, steps)
      PROVE  Above(x, y, cs, steps)
  BY <1>1, <1>3 DEF Above
<1> QED BY <1>2, <1>3 DEF Within

\* A finished step in front of the newest of the others.
LEMMA WithinFinished ==
  ASSUME NEW cs \in ChangeLists, NEW steps \in Steps, NEW t \in Steps,
         Len(t) <= Len(steps) + 1, \A i \in 1..Len(t) : t[i].changes = Part(cs, steps, i - 1)
  PROVE  Within(<<>>, t, cs, steps)
<1>1. Len(t) \in Nat /\ Len(steps) \in Nat
  BY DEF Steps
<1>2. ASSUME NEW i \in Nat, NEW k \in Nat, IsAt(<<>>, t, i, k)
      PROVE  /\ i - 1 \in Nat /\ IsAt(cs, steps, i - 1, k)
             /\ Part(<<>>, t, i)[k] = Part(cs, steps, i - 1)[k]
  <2>1. i # 0
    BY <1>2 DEF IsAt, Part
  <2>2. i \in 1..Len(t)
    BY <1>1, <1>2, <2>1 DEF IsAt
  <2>3. Part(<<>>, t, i) = Part(cs, steps, i - 1)
    BY <2>1, <2>2 DEF Part
  <2> QED BY <1>1, <1>2, <2>1, <2>2, <2>3 DEF IsAt
<1>3. ASSUME NEW i \in Nat, NEW k \in Nat, NEW j \in Nat, NEW l \in Nat, Higher(i, k, j, l)
      PROVE  Higher(i - 1, k, j - 1, l)
  BY <1>3 DEF Higher
<1>4. ASSUME NEW x \in Change, InStack(x, <<>>, t) PROVE InStack(x, cs, steps)
  BY <1>2, <1>4 DEF InStack
<1>5. ASSUME NEW x \in Change, NEW y \in Change, Above(x, y, <<>>, t)
      PROVE  Above(x, y, cs, steps)
  <2>1. PICK i \in Nat, k \in Nat, j \in Nat, l \in Nat :
          /\ IsAt(<<>>, t, i, k) /\ IsAt(<<>>, t, j, l) /\ Higher(i, k, j, l)
          /\ x = Part(<<>>, t, i)[k] /\ y = Part(<<>>, t, j)[l]
    BY <1>5 DEF Above
  <2>2. /\ i - 1 \in Nat /\ j - 1 \in Nat
        /\ IsAt(cs, steps, i - 1, k) /\ IsAt(cs, steps, j - 1, l) /\ Higher(i - 1, k, j - 1, l)
        /\ x = Part(cs, steps, i - 1)[k] /\ y = Part(cs, steps, j - 1)[l]
    BY <1>2, <1>3, <2>1
  <2> QED BY <2>2 DEF Above
<1> QED BY <1>4, <1>5 DEF Within

\* The newest step taken out to be reverted.
LEMMA WithinPopped ==
  ASSUME NEW steps \in Steps, steps # <<>>
  PROVE  Within(Head(steps).changes, Tail(steps), <<>>, steps)
<1> DEFINE cs == Head(steps).changes
           t == Tail(steps)
<1>1. /\ Len(t) = Len(steps) - 1 /\ \A i \in 1..Len(t) : t[i] = steps[i + 1]
      /\ Len(steps) \in Nat \ {0} /\ Head(steps) = steps[1]
  BY HeadTailProperties, EmptySeq DEF Steps
<1> HIDE DEF cs, t
<1>2. ASSUME NEW i \in Nat, NEW k \in Nat, IsAt(cs, t, i, k)
      PROVE  /\ i + 1 \in Nat /\ IsAt(<<>>, steps, i + 1, k)
             /\ Part(<<>>, steps, i + 1)[k] = Part(cs, t, i)[k]
  <2>1. Part(<<>>, steps, i + 1) = steps[i + 1].changes
    BY DEF Part
  <2>2. Part(cs, t, i) = steps[i + 1].changes
    <3>1. CASE i = 0
      BY <1>1, <3>1 DEF Part, cs
    <3>2. CASE i # 0
      <4>1. i \in 1..Len(t)
        BY <1>1, <1>2, <3>2 DEF IsAt
      <4> QED BY <1>1, <3>2, <4>1 DEF Part
    <3> QED BY <3>1, <3>2
  <2> QED BY <1>1, <1>2, <2>1, <2>2 DEF IsAt
<1>3. ASSUME NEW i \in Nat, NEW k \in Nat, NEW j \in Nat, NEW l \in Nat, Higher(i, k, j, l)
      PROVE  Higher(i + 1, k, j + 1, l)
  BY <1>3 DEF Higher
<1>4. ASSUME NEW x \in Change, InStack(x, cs, t) PROVE InStack(x, <<>>, steps)
  BY <1>2, <1>4 DEF InStack
<1>5. ASSUME NEW x \in Change, NEW y \in Change, Above(x, y, cs, t)
      PROVE  Above(x, y, <<>>, steps)
  <2>1. PICK i \in Nat, k \in Nat, j \in Nat, l \in Nat :
          /\ IsAt(cs, t, i, k) /\ IsAt(cs, t, j, l) /\ Higher(i, k, j, l)
          /\ x = Part(cs, t, i)[k] /\ y = Part(cs, t, j)[l]
    BY <1>5 DEF Above
  <2>2. /\ i + 1 \in Nat /\ j + 1 \in Nat
        /\ IsAt(<<>>, steps, i + 1, k) /\ IsAt(<<>>, steps, j + 1, l)
        /\ Higher(i + 1, k, j + 1, l)
        /\ x = Part(<<>>, steps, i + 1)[k] /\ y = Part(<<>>, steps, j + 1)[l]
    BY <1>2, <1>3, <2>1
  <2> QED BY <2>2 DEF Above
<1> QED BY <1>4, <1>5 DEF Within, cs, t

\* The two newest steps merged into one.
LEMMA WithinMerged ==
  ASSUME NEW steps \in Steps, NEW t \in Steps, Len(steps) >= 2, Len(t) = Len(steps) - 1,
         t[1].changes = steps[2].changes \o steps[1].changes,
         \A i \in 2..Len(t) : t[i].changes = steps[i + 1].changes
  PROVE  Within(<<>>, t, <<>>, steps)
<1> DEFINE old == steps[2].changes
           new == steps[1].changes
           m == Len(old)
           Step1(i, k) == IF i = 1 THEN IF k <= m THEN 2 ELSE 1 ELSE i + 1
           Change1(i, k) == IF i = 1 /\ k > m THEN k - m ELSE k
<1>1. Len(t) \in Nat /\ Len(steps) \in Nat
  BY DEF Steps
<1>2. old \in ChangeLists /\ new \in ChangeLists /\ m \in Nat /\ Len(new) \in Nat
  <2>1. <<>> \in ChangeLists /\ 1 \in 0..Len(steps) /\ 2 \in 0..Len(steps)
    BY <1>1 DEF ChangeLists
  <2>2. Part(<<>>, steps, 1) = new /\ Part(<<>>, steps, 2) = old
    BY DEF Part
  <2>3. new \in ChangeLists /\ Len(new) \in Nat
    BY <2>1, <2>2, PartType
  <2>4. old \in ChangeLists /\ Len(old) \in Nat
    BY <2>1, <2>2, PartType
  <2> QED BY <2>3, <2>4
<1>3. /\ Len(t[1].changes) = m + Len(new)
      /\ \A k \in 1..(m + Len(new)) :
           t[1].changes[k] = IF k <= m THEN old[k] ELSE new[k - m]
  <2>1. old \in Seq(Change) /\ new \in Seq(Change) /\ t[1].changes = old \o new
    BY <1>2 DEF ChangeLists
  <2> HIDE DEF old, new
  <2> QED BY <2>1, ConcatProperties
<1> HIDE DEF m
<1>4. ASSUME NEW i \in Nat, NEW k \in Nat, IsAt(<<>>, t, i, k)
      PROVE  /\ Step1(i, k) \in Nat /\ Change1(i, k) \in Nat
             /\ IsAt(<<>>, steps, Step1(i, k), Change1(i, k))
             /\ Part(<<>>, t, i)[k] = Part(<<>>, steps, Step1(i, k))[Change1(i, k)]
             /\ i \in 1..Len(t)
  <2>1. i # 0
    BY <1>4 DEF IsAt, Part
  <2>2. i \in 1..Len(t) /\ Part(<<>>, t, i) = t[i].changes /\ k \in 1..Len(t[i].changes)
    BY <1>1, <1>4, <2>1 DEF IsAt, Part
  <2>3. CASE i = 1 /\ k <= m
    <3>1. Part(<<>>, steps, 2) = old /\ 2 \in 0..Len(steps) /\ k \in 1..Len(old)
      BY <1>1, <1>2, <2>2, <2>3 DEF Part, m
    <3> QED BY <1>2, <1>3, <2>2, <2>3, <3>1 DEF IsAt
  <2>4. CASE i = 1 /\ ~(k <= m)
    <3>1. Part(<<>>, steps, 1) = new /\ 1 \in 0..Len(steps)
      BY <1>1 DEF Part
    <3>2. k \in 1..(m + Len(new)) /\ Part(<<>>, t, i) = t[1].changes
      BY <1>3, <2>2, <2>4
    <3>3. k - m \in 1..Len(new)
      BY <1>2, <2>4, <3>2
    <3>4. t[1].changes[k] = new[k - m]
      BY <1>3, <2>4, <3>2
    <3>5. Step1(i, k) = 1 /\ Change1(i, k) = k - m
      BY <1>2, <2>4
    <3> HIDE DEF Step1, Change1, new
    <3>6. IsAt(<<>>, steps, 1, k - m)
      BY <3>1, <3>3 DEF IsAt
    <3>7. Part(<<>>, t, i)[k] = Part(<<>>, steps, 1)[k - m]
      BY <3>1, <3>2, <3>4
    <3> QED BY <1>2, <2>2, <3>3, <3>5, <3>6, <3>7
  <2>5. CASE i # 1
    <3>1. i \in 2..Len(t) /\ i + 1 \in 0..Len(steps)
      BY <1>1, <2>2, <2>5
    <3>2. Part(<<>>, steps, i + 1) = t[i].changes
      BY <3>1, <2>5 DEF Part
    <3> QED BY <2>2, <2>5, <3>1, <3>2 DEF IsAt
  <2> QED BY <2>3, <2>4, <2>5
<1>5. ASSUME NEW i \in Nat, NEW k \in Nat, NEW j \in Nat, NEW l \in Nat, Higher(i, k, j, l),
             i # 0, j # 0
      PROVE  Higher(Step1(i, k), Change1(i, k), Step1(j, l), Change1(j, l))
  BY <1>2, <1>5 DEF Higher
<1> HIDE DEF Step1, Change1
<1>6. ASSUME NEW x \in Change, InStack(x, <<>>, t) PROVE InStack(x, <<>>, steps)
  BY <1>4, <1>6 DEF InStack
<1>7. ASSUME NEW x \in Change, NEW y \in Change, Above(x, y, <<>>, t)
      PROVE  Above(x, y, <<>>, steps)
  <2>1. PICK i \in Nat, k \in Nat, j \in Nat, l \in Nat :
          /\ IsAt(<<>>, t, i, k) /\ IsAt(<<>>, t, j, l) /\ Higher(i, k, j, l)
          /\ x = Part(<<>>, t, i)[k] /\ y = Part(<<>>, t, j)[l]
    BY <1>7 DEF Above
  <2>2. i # 0 /\ j # 0
    BY <1>1, <1>4, <2>1
  <2>3. Higher(Step1(i, k), Change1(i, k), Step1(j, l), Change1(j, l))
    BY <1>5, <2>1, <2>2
  <2>4. /\ Step1(i, k) \in Nat /\ Change1(i, k) \in Nat
        /\ IsAt(<<>>, steps, Step1(i, k), Change1(i, k))
        /\ x = Part(<<>>, steps, Step1(i, k))[Change1(i, k)]
    BY <1>4, <2>1
  <2>5. /\ Step1(j, l) \in Nat /\ Change1(j, l) \in Nat
        /\ IsAt(<<>>, steps, Step1(j, l), Change1(j, l))
        /\ y = Part(<<>>, steps, Step1(j, l))[Change1(j, l)]
    BY <1>4, <2>1
  <2> QED BY <2>3, <2>4, <2>5 DEF Above
<1> QED BY <1>6, <1>7 DEF Within

\* A change put on top of a stack.
LEMMA OneStacked ==
  ASSUME NEW cs \in ChangeLists, NEW steps \in Steps, NEW ch \in Change
  PROVE  /\ \A x : InStack(x, Append(cs, ch), steps) => x = ch \/ InStack(x, cs, steps)
         /\ \A x, y : Above(x, y, Append(cs, ch), steps) =>
              \/ x = ch /\ InStack(y, cs, steps)
              \/ Above(x, y, cs, steps)
<1> DEFINE ds == Append(cs, ch)
<1>1. /\ ds \in Seq(Change) /\ Len(ds) = Len(cs) + 1 /\ Len(cs) \in Nat
      /\ \A k \in 1..Len(cs) : ds[k] = cs[k]
      /\ ds[Len(cs) + 1] = ch
  BY AppendProperties DEF ChangeLists
<1> HIDE DEF ds
<1>2. ASSUME NEW i \in Nat, NEW k \in Nat, IsAt(ds, steps, i, k)
      PROVE  \/ i = 0 /\ k = Len(cs) + 1 /\ Part(ds, steps, i)[k] = ch
             \/ IsAt(cs, steps, i, k) /\ Part(ds, steps, i)[k] = Part(cs, steps, i)[k]
  <2>1. CASE i = 0
    <3>1. k \in 1..Len(ds) /\ Part(ds, steps, i) = ds /\ Part(cs, steps, i) = cs
      BY <1>2, <2>1 DEF IsAt, Part
    <3>2. k = Len(cs) + 1 \/ k \in 1..Len(cs)
      BY <1>1, <3>1
    <3> QED BY <1>1, <1>2, <2>1, <3>1, <3>2 DEF IsAt
  <2>2. CASE i # 0
    BY <1>2, <2>2 DEF IsAt, Part
  <2> QED BY <2>1, <2>2
<1>3. ASSUME NEW x, InStack(x, ds, steps) PROVE x = ch \/ InStack(x, cs, steps)
  BY <1>2, <1>3 DEF InStack
<1>4. ASSUME NEW x, NEW y, Above(x, y, ds, steps)
      PROVE  (x = ch /\ InStack(y, cs, steps)) \/ Above(x, y, cs, steps)
  <2>1. PICK i \in Nat, k \in Nat, j \in Nat, l \in Nat :
          /\ IsAt(ds, steps, i, k) /\ IsAt(ds, steps, j, l) /\ Higher(i, k, j, l)
          /\ x = Part(ds, steps, i)[k] /\ y = Part(ds, steps, j)[l]
    BY <1>4 DEF Above
  <2>2. ~(j = 0 /\ l = Len(cs) + 1)
    <3>1. i = 0 => k \in 1..(Len(cs) + 1)
      BY <1>1, <2>1 DEF IsAt, Part
    <3> QED BY <1>1, <2>1, <3>1 DEF Higher
  <2>3. IsAt(cs, steps, j, l) /\ y = Part(cs, steps, j)[l]
    BY <1>2, <2>1, <2>2
  <2>4. InStack(y, cs, steps)
    BY <2>3 DEF InStack
  <2>5. x = ch \/ (IsAt(cs, steps, i, k) /\ x = Part(cs, steps, i)[k])
    BY <1>2, <2>1
  <2> QED BY <2>1, <2>3, <2>4, <2>5 DEF Above
<1> QED BY <1>3, <1>4 DEF ds

\* The change on top of a stack is above the others.
LEMMA TopOfStack ==
  ASSUME NEW cs \in ChangeLists, NEW steps \in Steps, NEW n \in 1..Len(cs), n = Len(cs)
  PROVE  /\ InStack(cs[n], cs, steps)
         /\ \A y : InStack(y, SubSeq(cs, 1, n - 1), steps) => Above(cs[n], y, cs, steps)
<1> DEFINE ds == SubSeq(cs, 1, n - 1)
<1>1. Len(cs) \in Nat /\ Part(cs, steps, 0) = cs /\ n \in Nat /\ 0 \in Nat
  BY DEF ChangeLists, Part
<1>2. Len(ds) = n - 1 /\ \A k \in 1..(n - 1) : ds[k] = cs[k]
  BY SubSeqProperties DEF ChangeLists
<1> HIDE DEF ds
<1>3. ASSUME NEW i \in Nat, NEW k \in Nat, IsAt(ds, steps, i, k)
      PROVE  /\ IsAt(cs, steps, i, k) /\ Part(ds, steps, i)[k] = Part(cs, steps, i)[k]
             /\ Higher(0, n, i, k)
  <2>1. CASE i = 0
    <3>1. k \in 1..(n - 1)
      BY <1>2, <1>3, <2>1 DEF IsAt, Part
    <3> QED BY <1>1, <1>2, <1>3, <2>1, <3>1 DEF IsAt, Part, Higher
  <2>2. CASE i # 0
    <3>1. 0 < i
      BY <2>2
    <3> QED BY <1>3, <2>2, <3>1 DEF IsAt, Part, Higher
  <2> QED BY <2>1, <2>2
<1>4. IsAt(cs, steps, 0, n) /\ Part(cs, steps, 0)[n] = cs[n]
  <2>1. Len(steps) \in Nat
    BY DEF Steps
  <2> QED BY <1>1, <2>1 DEF IsAt
<1>5. InStack(cs[n], cs, steps)
  BY <1>1, <1>4 DEF InStack
<1>6. ASSUME NEW y, InStack(y, ds, steps) PROVE Above(cs[n], y, cs, steps)
  <2>1. PICK i \in Nat, k \in Nat : IsAt(ds, steps, i, k) /\ y = Part(ds, steps, i)[k]
    BY <1>6 DEF InStack
  <2>2. IsAt(cs, steps, i, k) /\ y = Part(cs, steps, i)[k] /\ Higher(0, n, i, k)
    BY <1>3, <2>1
  <2> QED BY <1>1, <1>4, <2>2 DEF Above
<1> QED BY <1>5, <1>6 DEF ds

\* The newest of the steps to be redone is at the back of their list.
LEMMA ReversedSteps ==
  ASSUME NEW steps \in Steps
  PROVE  /\ Reverse(steps) \in Steps /\ Len(Reverse(steps)) = Len(steps)
         /\ \A i \in 1..Len(steps) : Reverse(steps)[i] = steps[Len(steps) - i + 1]
<1> DEFINE n == Len(steps)
           r == [i \in 1..n |-> steps[n - i + 1]]
<1>1. n \in Nat /\ \A i \in 1..n : steps[i] \in Step(Kinds, Change)
  BY DEF Steps
<1>2. ASSUME NEW i \in 1..n PROVE n - i + 1 \in 1..n
  BY <1>1
<1>3. r \in [1..n -> Step(Kinds, Change)]
  BY <1>1, <1>2
<1>4. Reverse(steps) = r
  BY DEF Reverse
<1> HIDE DEF r
<1>5. r \in Seq(Step(Kinds, Change)) /\ Len(r) = n
  BY <1>1, <1>3, FunctionIsSequence
<1> QED BY <1>4, <1>5 DEF Steps, r

\* A finished step among those to be redone.
LEMMA WithinUndone ==
  ASSUME NEW steps \in Steps, NEW step \in Step(Kinds, Change)
  PROVE  Within(<<>>, Reverse(Append(steps, step)), step.changes, Reverse(steps))
<1> DEFINE s == Append(steps, step)
           t == Reverse(s)
           n == Len(steps)
<1>1. /\ s \in Steps /\ Len(s) = n + 1 /\ n \in Nat /\ step.changes \in ChangeLists
      /\ \A i \in 1..n : s[i] = steps[i]
      /\ s[n + 1] = step
  BY AppendProperties DEF Steps, Step, ChangeLists
<1> HIDE DEF s
<1>2. /\ t \in Steps /\ Len(t) = n + 1 /\ \A i \in 1..(n + 1) : t[i] = s[n + 1 - i + 1]
  BY <1>1, ReversedSteps
<1>3. /\ Reverse(steps) \in Steps /\ Len(Reverse(steps)) = n
      /\ \A i \in 1..n : Reverse(steps)[i] = steps[n - i + 1]
  BY ReversedSteps
<1> HIDE DEF t
<1>4. ASSUME NEW i \in 1..Len(t) PROVE t[i].changes = Part(step.changes, Reverse(steps), i - 1)
  <2>1. CASE i = 1
    <3>1. n + 1 - 1 + 1 = n + 1
      BY <1>1
    <3> QED BY <1>1, <1>2, <2>1, <3>1 DEF Part
  <2>2. CASE i # 1
    <3>1. /\ i - 1 \in 1..n /\ n - (i - 1) + 1 \in 1..n
          /\ n + 1 - i + 1 = n - (i - 1) + 1
      BY <1>1, <1>2, <2>2
    <3>2. t[i] = steps[n - (i - 1) + 1]
      BY <1>1, <1>2, <3>1
    <3>3. Reverse(steps)[i - 1] = steps[n - (i - 1) + 1]
      BY <1>3, <3>1
    <3> QED BY <2>2, <3>2, <3>3 DEF Part
  <2> QED BY <2>1, <2>2
<1>5. Len(t) <= Len(Reverse(steps)) + 1
  BY <1>1, <1>2, <1>3
<1>6. Within(<<>>, t, step.changes, Reverse(steps))
  BY <1>1, <1>2, <1>3, <1>4, <1>5, WithinFinished
<1> QED BY <1>6 DEF t, s

\* The first steps of a list.
LEMMA OldestSteps ==
  ASSUME NEW steps \in Steps, NEW m \in 0..Len(steps)
  PROVE  /\ SubSeq(steps, 1, m) \in Steps /\ Len(SubSeq(steps, 1, m)) = m
         /\ \A i \in 1..m : SubSeq(steps, 1, m)[i] = steps[i]
BY SubSeqProperties DEF Steps

\* The newest step taken out to be redone.
LEMMA WithinRedone ==
  ASSUME NEW steps \in Steps, steps # <<>>
  PROVE  Within(Last(steps).changes, Reverse(SubSeq(steps, 1, Len(steps) - 1)),
                <<>>, Reverse(steps))
<1> DEFINE n == Len(steps)
           s == SubSeq(steps, 1, n - 1)
           r == Reverse(steps)
           t == Reverse(s)
<1>1. n \in Nat /\ n > 0
  BY EmptySeq DEF Steps
<1>2. s \in Steps /\ Len(s) = n - 1 /\ \A i \in 1..(n - 1) : s[i] = steps[i]
  <2>1. n - 1 \in 0..Len(steps)
    BY <1>1
  <2> QED BY <2>1, OldestSteps
<1> HIDE DEF s
<1>3. r \in Steps /\ Len(r) = n /\ \A i \in 1..n : r[i] = steps[n - i + 1]
  BY ReversedSteps
<1>4. t \in Steps /\ Len(t) = n - 1 /\ \A i \in 1..(n - 1) : t[i] = s[n - 1 - i + 1]
  BY <1>2, ReversedSteps
<1> HIDE DEF r, t
<1>5. r # <<>>
  BY <1>1, <1>3
<1>6. Head(r) = Last(steps)
  <2>1. Head(r) = r[1] /\ r[1] = steps[n - 1 + 1] /\ n - 1 + 1 = n
    BY <1>1, <1>3, <1>5, HeadTailProperties DEF Steps
  <2> QED BY <2>1 DEF Last
<1>7. Tail(r) = t
  <2>1. /\ Tail(r) \in Steps /\ Len(Tail(r)) = n - 1
        /\ \A i \in 1..Len(Tail(r)) : Tail(r)[i] = r[i + 1]
    BY <1>3, <1>5, HeadTailProperties DEF Steps
  <2>2. ASSUME NEW i \in 1..(n - 1) PROVE Tail(r)[i] = t[i]
    <3>1. /\ i + 1 \in 1..n /\ n - 1 - i + 1 \in 1..(n - 1)
          /\ n - (i + 1) + 1 = n - 1 - i + 1
      BY <1>1
    <3>2. Tail(r)[i] = r[i + 1] /\ r[i + 1] = steps[n - (i + 1) + 1]
      BY <1>3, <2>1, <3>1
    <3>3. t[i] = s[n - 1 - i + 1] /\ s[n - 1 - i + 1] = steps[n - 1 - i + 1]
      BY <1>2, <1>4, <3>1
    <3> QED BY <3>1, <3>2, <3>3
  <2>3. Tail(r) \in Seq(Step(Kinds, Change)) /\ t \in Seq(Step(Kinds, Change))
    BY <1>4, <2>1 DEF Steps
  <2> QED BY <1>4, <2>1, <2>2, <2>3, SeqEqual
<1>8. Within(Head(r).changes, Tail(r), <<>>, r)
  BY <1>3, <1>5, WithinPopped
<1> QED BY <1>6, <1>7, <1>8 DEF r, t, s

\* What agrees with queues agrees with all queues of the build that hold fewer cards.
LEMMA AgreesFewer ==
  ASSUME NEW q, NEW p, NEW cs, NEW steps, NEW ds, NEW t, Agrees(q, cs, steps, ds, t),
         p.build = q.build,
         \A e \in Main(p) : \E f \in Main(q) : f.id = e.id,
         \A e \in Learning(p) : \E f \in Learning(q) : f.id = e.id
  PROVE  Agrees(p, cs, steps, ds, t)
<1>1. ASSUME NEW ch, Absent(ch, q) PROVE Absent(ch, p)
  BY <1>1 DEF Absent
<1> QED BY <1>1 DEF Agrees

\* Entries of queues that hold no card twice.
LEMMA DistinctEntries ==
  ASSUME NEW q, Distinct(q), NEW e \in Entries(q)
  PROVE  /\ \A f \in Main(q) : f.id = e.id => f = e
         /\ \A f \in Learning(q) : f.id = e.id => f = e
<1>1. ASSUME NEW s, Once(s), NEW d \in Elements(s), NEW f \in Elements(s), d.id = f.id
      PROVE  d = f
  BY <1>1 DEF Once, Elements
<1> QED BY <1>1 DEF Distinct, Entries, Main, Learning

\* An answer, which leaves nothing to redo: the entry of a card is taken out, and the card
\* may be requeued.
LEMMA AgreesAnswer ==
  ASSUME NEW q \in Queues, NEW p \in Queues, NEW cs \in ChangeLists, NEW steps \in Steps,
         NEW ch \in Change, Agrees(q, cs, steps, <<>>, <<>>), Distinct(q),
         OfBuild(ch, q.build), p.build = q.build, ch.entry \in Entries(q),
         ch.requeue # NoEntry => ch.requeue.id = ch.entry.id,
         Main(p) = Main(q) \ {ch.entry},
         \/ ch.requeue = NoEntry /\ Learning(p) = Learning(q) \ {ch.entry}
         \/ ch.requeue # NoEntry /\ Learning(p) = (Learning(q) \ {ch.entry}) \cup {ch.requeue}
  PROVE  Agrees(p, Append(cs, ch), steps, <<>>, <<>>)
<1> DEFINE ds == Append(cs, ch)
           id == ch.entry.id
<1>1. /\ \A x : InStack(x, ds, steps) => x = ch \/ InStack(x, cs, steps)
      /\ \A x, y : Above(x, y, ds, steps) =>
           (x = ch /\ InStack(y, cs, steps)) \/ Above(x, y, cs, steps)
  BY OneStacked
<1> HIDE DEF ds
<1>2. /\ \A e \in Main(q) : e.id = id => e = ch.entry
      /\ \A e \in Learning(q) : e.id = id => e = ch.entry
  BY DistinctEntries
<1>3. Absent(ch, p)
  BY <1>2 DEF Absent
<1>4. ASSUME NEW old \in Change, OfBuild(old, q.build), InStack(old, cs, steps)
      PROVE  Follows(ch, old) /\ Absent(old, p)
  <2>1. Absent(old, q)
    BY <1>4 DEF Agrees
  <2>a. /\ \A e \in Main(p) : e \in Main(q)
        /\ \A e \in Learning(p) : e \in Learning(q) \/ (e.id = id /\ ch.requeue # NoEntry)
    OBVIOUS
  <2>2. CASE old.entry.id # id
    <3>1. Absent(old, p)
      BY <2>1, <2>2, <2>a DEF Absent
    <3>2. Follows(ch, old)
      BY <2>2 DEF Follows
    <3> QED BY <3>1, <3>2
  <2>3. CASE old.entry.id = id
    <3>1. ch.entry \notin Main(q)
      BY <2>1, <2>3 DEF Absent
    <3>2. ch.entry \in Learning(q)
      BY <3>1 DEF Entries
    <3>3. old.requeue # NoEntry
      BY <2>1, <2>3, <3>2 DEF Absent
    <3>4. IsLearning(ch.entry)
      BY <3>2, EntryKinds, QueuesParts
    <3>5. Absent(old, p)
      BY <2>1, <2>a, <3>3 DEF Absent
    <3>6. Follows(ch, old)
      BY <3>3, <3>4 DEF Follows
    <3> QED BY <3>5, <3>6
  <2> QED BY <2>2, <2>3
<1>5. ASSUME NEW x \in Change, OfBuild(x, p.build), InStack(x, ds, steps)
      PROVE  Absent(x, p)
  BY <1>1, <1>3, <1>4, <1>5
<1>6. ASSUME NEW x \in Change, NEW y \in Change, OfBuild(x, p.build), OfBuild(y, p.build)
      PROVE  /\ Above(x, y, ds, steps) => Follows(x, y)
             /\ Above(x, y, <<>>, <<>>) => Follows(y, x)
             /\ ~InStack(y, <<>>, <<>>)
  <2>1. /\ Above(x, y, cs, steps) => Follows(x, y)
        /\ Above(x, y, <<>>, <<>>) => Follows(y, x)
    BY <1>6 DEF Agrees
  <2>2. InStack(y, cs, steps) => Follows(ch, y)
    BY <1>4, <1>6
  <2>3. Above(x, y, ds, steps) => Follows(x, y)
    BY <1>1, <2>1, <2>2
  <2> QED BY <2>1, <2>3, NothingStacked
<1> QED BY <1>5, <1>6 DEF Agrees, ds

\* Reverting a change keeps what it is about.
LEMMA FlippedChange ==
  ASSUME NEW ch \in Change, OfQueue(ch)
  PROVE  /\ Flipped(ch) \in Change /\ OfQueue(Flipped(ch))
         /\ Flipped(ch).entry = ch.entry /\ Flipped(ch).requeue = ch.requeue
         /\ Flipped(ch).build = ch.build /\ Flipped(ch).answered = ~ch.answered
         /\ ch \in QueueChange
<1>1. ch \in QueueChange
  BY DEF Change, CardChange, ConfigChange, OfQueue
<1>2. Flipped(ch) \in QueueChange
  BY <1>1 DEF QueueChange, Flipped
<1> QED BY <1>1, <1>2 DEF QueueChange, Flipped, Change, OfQueue

\* A flipped change follows and is followed by the same ones.
LEMMA FlippedFollows ==
  ASSUME NEW ch \in Change, OfQueue(ch), NEW x
  PROVE  /\ Follows(Flipped(ch), x) <=> Follows(ch, x)
         /\ Follows(x, Flipped(ch)) <=> Follows(x, ch)
BY FlippedChange DEF Follows

\* Undoing an answer: its card is taken out of the learning queue and its entry put back.
\* The older answers of that card all say that it was requeued then, and what can be
\* redone after them follows the answer that is undone.
LEMMA AgreesUndo ==
  ASSUME NEW q \in Queues, NEW p \in Queues, NEW cs \in ChangeLists, NEW steps \in Steps,
         NEW ds \in ChangeLists, NEW t \in Steps,
         NEW n \in 1..Len(cs), n = Len(cs), Agrees(q, cs, steps, ds, t),
         cs[n] \in Change, OfBuild(cs[n], q.build), p.build = q.build,
         \A e \in Main(p) : e \in Main(q) \/ (~IsLearning(cs[n].entry) /\ e = cs[n].entry),
         \A e \in Learning(p) : e \in Learning(q) \/ (IsLearning(cs[n].entry) /\ e = cs[n].entry)
  PROVE  Agrees(p, SubSeq(cs, 1, n - 1), steps, Append(ds, Flipped(cs[n])), t)
<1> DEFINE ch == cs[n]
           left == SubSeq(cs, 1, n - 1)
           more == Append(ds, Flipped(ch))
<1>1. InStack(ch, cs, steps) /\ \A y : InStack(y, left, steps) => Above(ch, y, cs, steps)
  BY TopOfStack
<1>2. Within(left, steps, cs, steps)
  <2>1. n - 1 \in 0..Len(cs)
    OBVIOUS
  <2> QED BY <2>1, WithinPrefix
<1>3. Flipped(ch) \in Change
  BY FlippedChange DEF OfBuild
<1>4. /\ \A x : InStack(x, more, t) => x = Flipped(ch) \/ InStack(x, ds, t)
      /\ \A x, y : Above(x, y, more, t) =>
           (x = Flipped(ch) /\ InStack(y, ds, t)) \/ Above(x, y, ds, t)
  BY <1>3, OneStacked
<1> HIDE DEF left, more, ch
<1>a. ch \in Change /\ OfBuild(ch, q.build) /\ OfQueue(ch)
  BY DEF ch, OfBuild
<1>5. ASSUME NEW old \in Change, OfBuild(old, q.build), InStack(old, left, steps)
      PROVE  Follows(ch, old) /\ InStack(old, cs, steps) /\ Absent(old, p)
  <2>1. InStack(old, cs, steps) /\ Above(ch, old, cs, steps)
    BY <1>1, <1>2, <1>5 DEF Within, OfBuild
  <2>2. Absent(old, q) /\ Follows(ch, old)
    BY <1>5, <1>a, <2>1 DEF Agrees
  <2>3. CASE old.entry.id # ch.entry.id
    BY <2>1, <2>2, <2>3 DEF Absent, ch
  <2>4. CASE old.entry.id = ch.entry.id
    <3>1. IsLearning(ch.entry) /\ old.requeue # NoEntry
      BY <2>2, <2>4 DEF Follows
    <3> QED BY <2>1, <2>2, <3>1 DEF Absent, ch
  <2> QED BY <2>1, <2>2, <2>3, <2>4
<1>6. ASSUME NEW x \in Change, NEW y \in Change, OfBuild(x, q.build), OfBuild(y, q.build)
      PROVE  /\ Above(x, y, left, steps) => Follows(x, y)
             /\ Above(x, y, more, t) => Follows(y, x)
             /\ (InStack(x, left, steps) /\ InStack(y, more, t)) => Follows(y, x)
  <2>1. OfQueue(x) /\ OfQueue(y)
    BY <1>6 DEF OfBuild
  <2>2. Above(x, y, left, steps) => Follows(x, y)
    BY <1>2, <1>6, <2>1 DEF Within, Agrees
  <2>3. InStack(y, ds, t) => Follows(y, ch)
    BY <1>1, <1>6, <1>a DEF Agrees
  <2>4. Above(x, y, more, t) => Follows(y, x)
    <3>1. Above(x, y, ds, t) => Follows(y, x)
      BY <1>6 DEF Agrees
    <3>2. InStack(y, ds, t) => Follows(y, Flipped(ch))
      BY <1>a, <2>3, FlippedFollows
    <3> QED BY <1>4, <3>1, <3>2
  <2>5. ASSUME InStack(x, left, steps), InStack(y, more, t) PROVE Follows(y, x)
    <3>1. Follows(ch, x) /\ InStack(x, cs, steps)
      BY <1>5, <1>6, <2>5
    <3>2. CASE y = Flipped(ch)
      BY <1>a, <3>1, <3>2, FlippedFollows
    <3>3. CASE InStack(y, ds, t)
      BY <1>6, <3>1, <3>3 DEF Agrees
    <3> QED BY <1>4, <2>5, <3>2, <3>3
  <2> QED BY <2>2, <2>4, <2>5
<1>7. \A x \in Change : (OfBuild(x, q.build) /\ InStack(x, left, steps)) => Absent(x, p)
  BY <1>5
<1>8. Agrees(p, left, steps, more, t)
  BY <1>6, <1>7 DEF Agrees
<1> QED BY <1>8 DEF left, more, ch

\* Redoing an answer: an entry of its card is taken out, and the card is requeued if it
\* was then.  The answer follows the older ones, as those that are left to redo follow it.
LEMMA AgreesRedo ==
  ASSUME NEW q \in Queues, NEW p \in Queues, NEW cs \in ChangeLists, NEW steps \in Steps,
         NEW ds \in ChangeLists, NEW t \in Steps,
         NEW n \in 1..Len(ds), n = Len(ds), Agrees(q, cs, steps, ds, t), Distinct(q),
         ds[n] \in Change, OfBuild(ds[n], q.build), p.build = q.build,
         NEW entry \in Entries(q), entry.id = ds[n].entry.id,
         ds[n].requeue # NoEntry => ds[n].requeue.id = ds[n].entry.id,
         Main(p) = Main(q) \ {entry},
         \/ ds[n].requeue = NoEntry /\ Learning(p) = Learning(q) \ {entry}
         \/ ds[n].requeue # NoEntry /\ Learning(p) = (Learning(q) \ {entry}) \cup {ds[n].requeue}
  PROVE  Agrees(p, Append(cs, Flipped(ds[n])), steps, SubSeq(ds, 1, n - 1), t)
<1> DEFINE ch == ds[n]
           left == SubSeq(ds, 1, n - 1)
           more == Append(cs, Flipped(ch))
<1>1. InStack(ch, ds, t) /\ \A y : InStack(y, left, t) => Above(ch, y, ds, t)
  BY TopOfStack
<1>2. Within(left, t, ds, t)
  <2>1. n - 1 \in 0..Len(ds)
    OBVIOUS
  <2> QED BY <2>1, WithinPrefix
<1>3. Flipped(ch) \in Change
  BY FlippedChange DEF OfBuild
<1>4. /\ \A x : InStack(x, more, steps) => x = Flipped(ch) \/ InStack(x, cs, steps)
      /\ \A x, y : Above(x, y, more, steps) =>
           (x = Flipped(ch) /\ InStack(y, cs, steps)) \/ Above(x, y, cs, steps)
  BY <1>3, OneStacked
<1>b. /\ \A f \in Main(q) : f.id = entry.id => f = entry
      /\ \A f \in Learning(q) : f.id = entry.id => f = entry
  BY DistinctEntries
<1>c. /\ \A e \in Main(p) : e \in Main(q) /\ e.id # ch.entry.id
      /\ ch.requeue = NoEntry => \A e \in Learning(p) : e \in Learning(q) /\ e.id # ch.entry.id
      /\ \A e \in Learning(p) :
           e \in Learning(q) \/ (ch.requeue # NoEntry /\ e.id = ch.entry.id)
  BY <1>b
<1> HIDE DEF left, more, ch
<1>a. ch \in Change /\ OfBuild(ch, q.build) /\ OfQueue(ch)
  BY DEF ch, OfBuild
<1>5. Absent(Flipped(ch), p)
  BY <1>a, <1>c, FlippedChange DEF Absent
<1>6. ASSUME NEW old \in Change, OfBuild(old, q.build), InStack(old, cs, steps)
      PROVE  Follows(ch, old) /\ Absent(old, p)
  <2>1. Absent(old, q) /\ Follows(ch, old)
    BY <1>1, <1>6, <1>a DEF Agrees
  <2>2. CASE old.entry.id # ch.entry.id
    BY <1>c, <2>1, <2>2 DEF Absent
  <2>3. CASE old.entry.id = ch.entry.id
    <3>1. old.requeue # NoEntry
      BY <2>1, <2>3 DEF Follows
    <3> QED BY <1>c, <2>1, <3>1 DEF Absent
  <2> QED BY <2>1, <2>2, <2>3
<1>7. ASSUME NEW x \in Change, NEW y \in Change, OfBuild(x, q.build), OfBuild(y, q.build)
      PROVE  /\ Above(x, y, more, steps) => Follows(x, y)
             /\ Above(x, y, left, t) => Follows(y, x)
             /\ (InStack(x, more, steps) /\ InStack(y, left, t)) => Follows(y, x)
  <2>1. OfQueue(x) /\ OfQueue(y)
    BY <1>7 DEF OfBuild
  <2>2. Above(x, y, left, t) => Follows(y, x)
    BY <1>2, <1>7, <2>1 DEF Within, Agrees
  <2>3. Above(x, y, more, steps) => Follows(x, y)
    <3>1. Above(x, y, cs, steps) => Follows(x, y)
      BY <1>7 DEF Agrees
    <3>2. InStack(y, cs, steps) => Follows(Flipped(ch), y)
      BY <1>6, <1>7, <1>a, FlippedFollows
    <3> QED BY <1>4, <3>1, <3>2
  <2>4. ASSUME InStack(x, more, steps), InStack(y, left, t) PROVE Follows(y, x)
    <3>1. InStack(y, ds, t) /\ Above(ch, y, ds, t)
      BY <1>1, <1>2, <1>7, <2>1, <2>4 DEF Within
    <3>2. CASE x = Flipped(ch)
      <4>1. Follows(y, ch)
        BY <1>7, <1>a, <3>1 DEF Agrees
      <4> QED BY <1>a, <4>1, <3>2, FlippedFollows
    <3>3. CASE InStack(x, cs, steps)
      BY <1>7, <3>1, <3>3 DEF Agrees
    <3> QED BY <1>4, <2>4, <3>2, <3>3
  <2> QED BY <2>2, <2>3, <2>4
<1>8. \A x \in Change : (OfBuild(x, q.build) /\ InStack(x, more, steps)) => Absent(x, p)
  BY <1>4, <1>5, <1>6
<1>9. Agrees(p, more, steps, left, t)
  BY <1>7, <1>8 DEF Agrees
<1> QED BY <1>9 DEF left, more, ch

\* Queues whose build no step remembers.
LEMMA AgreesFresh ==
  ASSUME NEW q, NEW steps \in Steps, NEW t \in Steps,
         \A i \in 1..Len(steps) : \A k \in 1..Len(steps[i].changes) :
           ~OfBuild(steps[i].changes[k], q.build),
         \A i \in 1..Len(t) : \A k \in 1..Len(t[i].changes) :
           ~OfBuild(t[i].changes[k], q.build)
  PROVE  Agrees(q, <<>>, steps, <<>>, t)
<1>1. ASSUME NEW s \in Steps,
             \A i \in 1..Len(s) : \A k \in 1..Len(s[i].changes) : ~OfBuild(s[i].changes[k], q.build)
      PROVE  /\ \A x : OfBuild(x, q.build) => ~InStack(x, <<>>, s)
             /\ \A x, y : OfBuild(x, q.build) => ~Above(x, y, <<>>, s)
  <2>1. Len(s) \in Nat
    BY DEF Steps
  <2>2. ASSUME NEW i \in Nat, NEW k \in Nat, IsAt(<<>>, s, i, k)
        PROVE  ~OfBuild(Part(<<>>, s, i)[k], q.build)
    BY <1>1, <2>1, <2>2 DEF IsAt, Part
  <2> QED BY <2>2 DEF InStack, Above
<1> QED BY <1>1 DEF Agrees
---------------------------------------------------------------------------
(* The number of a build *)

\* The values of a function on the positions of a sequence are finitely many.
LEMMA FiniteValues ==
  ASSUME NEW n \in Nat, NEW f, DOMAIN f = 1..n, NEW T, T \subseteq {f[i] : i \in 1..n}
  PROVE  IsFiniteSet(T)
<1> DEFINE R == {f[i] : i \in 1..n}
           g == [i \in 1..n |-> f[i]]
<1>1. g \in Surjection(1..n, R)
  BY DEF Surjection
<1>2. IsFiniteSet(1..n)
  BY FS_Interval
<1>3. IsFiniteSet(R)
  BY <1>1, <1>2, FS_Surjection
<1> QED BY <1>3, FS_Subset

BuildsOf(step) == {ch.build : ch \in {x \in ToSet(step.changes) : x.table = "queue"}}
UsedBuilds(c) ==
  UNION {BuildsOf(s) : s \in ToSet(c.undo.undo_steps) \cup ToSet(c.undo.redo_steps)}

\* A history remembers finitely many builds.
LEMMA UsedBuildsFinite ==
  ASSUME NEW c, c.undo.undo_steps \in Steps, c.undo.redo_steps \in Steps
  PROVE  IsFiniteSet(UsedBuilds(c))
<1>1. ASSUME NEW s \in Step(Kinds, Change)
      PROVE  IsFiniteSet(BuildsOf(s))
  <2>1. s.changes \in Seq(Change) /\ Len(s.changes) \in Nat /\ DOMAIN s.changes = 1..Len(s.changes)
    BY DEF Step
  <2> DEFINE n == Len(s.changes)
             f == [k \in 1..n |-> s.changes[k].build]
  <2>2. DOMAIN f = 1..n
    OBVIOUS
  <2>3. BuildsOf(s) \subseteq {f[k] : k \in 1..n}
    BY <2>1 DEF BuildsOf, ToSet
  <2> HIDE DEF f
  <2> QED BY <2>1, <2>2, <2>3, FiniteValues
<1>2. ASSUME NEW steps \in Steps
      PROVE  IsFiniteSet({BuildsOf(s) : s \in ToSet(steps)}) /\ ToSet(steps) \subseteq Step(Kinds, Change)
  <2>1. steps \in Seq(Step(Kinds, Change)) /\ Len(steps) \in Nat /\ DOMAIN steps = 1..Len(steps)
    BY DEF Steps
  <2> DEFINE n == Len(steps)
             f == [i \in 1..n |-> BuildsOf(steps[i])]
  <2>2. DOMAIN f = 1..n
    OBVIOUS
  <2>3. {BuildsOf(s) : s \in ToSet(steps)} \subseteq {f[i] : i \in 1..n}
    BY <2>1 DEF ToSet
  <2>4. ToSet(steps) \subseteq Step(Kinds, Change)
    BY <2>1 DEF ToSet
  <2> HIDE DEF f
  <2> QED BY <2>1, <2>2, <2>3, <2>4, FiniteValues
<1> DEFINE U == {BuildsOf(s) : s \in ToSet(c.undo.undo_steps)}
           R == {BuildsOf(s) : s \in ToSet(c.undo.redo_steps)}
<1>3. IsFiniteSet(U) /\ IsFiniteSet(R)
  BY <1>2
<1>4. IsFiniteSet(U \cup R)
  BY <1>3, FS_Union
<1>5. \A B \in U \cup R : IsFiniteSet(B)
  BY <1>1, <1>2
<1>6. IsFiniteSet(UNION (U \cup R))
  <2> HIDE DEF U, R
  <2> QED BY <1>4, <1>5, FS_UNION
<1>7. UsedBuilds(c) = UNION (U \cup R)
  BY DEF UsedBuilds
<1> QED BY <1>6, <1>7

\* The number of a new build is one that no step remembers.
LEMMA FreshBuildIsFresh ==
  ASSUME NEW c, c.undo.undo_steps \in Steps, c.undo.redo_steps \in Steps
  PROVE  FreshBuild(c) \in Nat \ {0} /\ FreshBuild(c) \notin UsedBuilds(c)
<1> DEFINE used == UsedBuilds(c)
           n == Cardinality(used) + 1
           Free == (1..n) \ used
<1>1. IsFiniteSet(used) /\ Cardinality(used) \in Nat
  BY UsedBuildsFinite, FS_CardinalityType
<1>2. Free # {}
  <2> SUFFICES ASSUME 1..n \subseteq used PROVE FALSE
    OBVIOUS
  <2>1. Cardinality(1..n) = n
    BY <1>1, FS_Interval
  <2>2. Cardinality(1..n) <= Cardinality(used)
    BY <1>1, FS_Subset
  <2> QED BY <1>1, <2>1, <2>2
<1>3. Free \subseteq Nat
  BY <1>1
<1>4. PICK x \in Free : \A y \in Free : ~(y < x)
  <2> HIDE DEF Free
  <2> QED BY <1>2, <1>3, LeastNatural
<1>5. x \in 1..n /\ x \notin used /\ \A m \in 1..(x - 1) : m \in used
  BY <1>1, <1>4
<1>6. FreshBuild(c) = CHOOSE y \in 1..n : y \notin used /\ \A m \in 1..(y - 1) : m \in used
  BY DEF FreshBuild, UsedBuilds, BuildsOf
<1>7. FreshBuild(c) \in 1..n /\ FreshBuild(c) \notin used
  <2> HIDE DEF used, n
  <2> QED BY <1>5, <1>6
<1> QED BY <1>1, <1>7

---------------------------------------------------------------------------
(* The undo history of a collection *)

Collections ==
  [cards : [Cards -> Card], queues : Queues \cup {NoQueues},
   undo : UndoState(Kinds, Change), last_unburied : Nat]

\* A change recorded in a mode: reverting an answer records that it was undone.
Recordable(change, mode) ==
  change.table = "queue" =>
    /\ change.answered = (mode # "Undoing")
    /\ change.requeue # NoEntry => change.requeue.id = change.entry.id

\* The steps that can be undone hold answers, those that can be redone undone answers,
\* and an operation that is no undo or redo leaves nothing to redo.
GoodHistory(u) ==
  /\ GoodUndo(u, Kinds, Change)
  /\ StepsDirected(u.undo_steps, TRUE)
  /\ StepsDirected(u.redo_steps, FALSE)
  /\ HasStep(u) => Directed(u.current_step.changes, u.mode # "Undoing")
  /\ (HasStep(u) /\ u.mode = "NormalOp") => u.redo_steps = <<>>

\* The parts of a history.
LEMMA GoodHistoryParts ==
  ASSUME NEW u, GoodHistory(u)
  PROVE  /\ u \in UndoState(Kinds, Change) /\ u.undo_steps \in Steps /\ u.redo_steps \in Steps
         /\ u.mode \in {"NormalOp", "Undoing", "Redoing"} /\ u.counter \in Nat
         /\ HasStep(u) => /\ u.current_step \in Step(Kinds, Change)
                          /\ u.current_step.changes \in ChangeLists
                          /\ u.current_step.kind \in Kinds
<1>1. u \in UndoState(Kinds, Change)
  BY DEF GoodHistory, GoodUndo
<1>2. HasStep(u) => u.current_step \in Step(Kinds, Change)
  BY <1>1, OpenStepType
<1> QED BY <1>1, <1>2 DEF UndoState, Steps, ChangeLists, Step

\* A list of changes with another one that goes the same way.
LEMMA DirectedAppend ==
  ASSUME NEW cs \in ChangeLists, NEW ch \in Change, NEW mode,
         Directed(cs, mode # "Undoing"), Recordable(ch, mode)
  PROVE  Directed(Append(cs, ch), mode # "Undoing")
<1> DEFINE ds == Append(cs, ch)
<1>1. /\ ds \in Seq(Change) /\ Len(ds) = Len(cs) + 1 /\ Len(cs) \in Nat
      /\ \A k \in 1..Len(cs) : ds[k] = cs[k]
      /\ ds[Len(cs) + 1] = ch
  BY AppendProperties DEF ChangeLists
<1> HIDE DEF ds
<1>2. ASSUME NEW k \in 1..Len(ds), ds[k].table = "queue"
      PROVE  /\ ds[k].answered = (mode # "Undoing")
             /\ ds[k].requeue # NoEntry => ds[k].requeue.id = ds[k].entry.id
  <2>1. CASE k = Len(cs) + 1
    BY <2>1, <1>1, <1>2 DEF Recordable
  <2>2. CASE k \in 1..Len(cs)
    BY <2>2, <1>1, <1>2 DEF Directed
  <2> QED BY <2>1, <2>2, <1>1
<1> QED BY <1>2 DEF Directed, ds

\* Recording a change.
LEMMA SaveHistory ==
  ASSUME NEW u, GoodHistory(u), NEW ch \in Change, Recordable(ch, u.mode)
  PROVE  LET v == Save(u, ch)
         IN /\ GoodHistory(v) /\ v.undo_steps = u.undo_steps /\ v.redo_steps = u.redo_steps
            /\ v.mode = u.mode
            /\ HasStep(v) = HasStep(u) /\ v.current_step.kind = u.current_step.kind
            /\ HasStep(u) => v.current_step.changes = Append(u.current_step.changes, ch)
<1> DEFINE v == Save(u, ch)
<1>1. CASE ~HasStep(u)
  <2>1. v = u
    BY <1>1 DEF Save
  <2> QED BY <1>1, <2>1
<1>2. CASE HasStep(u)
  <2> DEFINE step == [u.current_step EXCEPT !.changes = Append(u.current_step.changes, ch)]
  <2>1. /\ u.current_step \in Step(Kinds, Change) /\ u.current_step.changes \in ChangeLists
        /\ u \in UndoState(Kinds, Change)
    BY <1>2, GoodHistoryParts
  <2>2. v = [u EXCEPT !.current_step = step]
    BY <1>2 DEF Save
  <2>3. GoodUndo(v, Kinds, Change)
    BY SaveType DEF GoodHistory
  <2>4. /\ step.changes = Append(u.current_step.changes, ch)
        /\ step.kind = u.current_step.kind /\ step.counter = u.current_step.counter
        /\ step # NoStep
    BY <2>1 DEF Step, NoStep
  <2>5. Directed(step.changes, u.mode # "Undoing")
    BY <2>1, <2>4, <1>2, DirectedAppend DEF GoodHistory
  <2> HIDE DEF step
  <2>6. /\ v.undo_steps = u.undo_steps /\ v.redo_steps = u.redo_steps /\ v.mode = u.mode
        /\ v.current_step = step
    BY <2>1, <2>2 DEF UndoState
  <2> HIDE DEF v
  <2>7. HasStep(v)
    BY <2>4, <2>6 DEF HasStep
  <2>8. StepsDirected(v.undo_steps, TRUE) /\ StepsDirected(v.redo_steps, FALSE)
    BY <2>6 DEF GoodHistory
  <2>9. GoodHistory(v)
    <3>1. v.mode = "NormalOp" => v.redo_steps = <<>>
      BY <1>2, <2>6 DEF GoodHistory
    <3> QED BY <2>3, <2>5, <2>6, <2>8, <3>1 DEF GoodHistory
  <2>10. HasStep(v) = HasStep(u)
    BY <1>2, <2>7 DEF HasStep
  <2> QED BY <2>4, <2>6, <2>9, <2>10 DEF v
<1> QED BY <1>1, <1>2

\* An empty history.
LEMMA EmptyHistory ==
  ASSUME NEW answered
  PROVE  StepsDirected(<<>>, answered) /\ Directed(<<>>, answered)
<1>1. Len(<<>>) = 0
  OBVIOUS
<1> QED BY <1>1 DEF StepsDirected, Directed

\* Discarding the history, also with the mode reset.
LEMMA DiscardHistory ==
  ASSUME NEW u, GoodHistory(u)
  PROVE  /\ GoodHistory(Discard(u)) /\ ~HasStep(Discard(u)) /\ Discard(u).mode = u.mode
         /\ LET v == [Discard(u) EXCEPT !.mode = "NormalOp"]
            IN GoodHistory(v) /\ ~HasStep(v) /\ v.mode = "NormalOp"
<1> DEFINE d == Discard(u)
           v == [d EXCEPT !.mode = "NormalOp"]
<1>1. u \in UndoState(Kinds, Change)
  BY GoodHistoryParts
<1>2. /\ d.undo_steps = <<>> /\ d.redo_steps = <<>> /\ d.current_step = NoStep
      /\ d.mode = u.mode
      /\ v.undo_steps = <<>> /\ v.redo_steps = <<>> /\ v.current_step = NoStep
      /\ v.mode = "NormalOp"
  BY <1>1 DEF Discard, UndoState
<1>3. GoodUndo(d, Kinds, Change) /\ GoodUndo(v, Kinds, Change)
  BY DiscardType DEF GoodHistory
<1> HIDE DEF d, v
<1>4. GoodHistory(d) /\ ~HasStep(d) /\ GoodHistory(v) /\ ~HasStep(v)
  BY <1>2, <1>3, EmptyHistory DEF GoodHistory, HasStep
<1> QED BY <1>2, <1>4 DEF d, v

\* The stacks of the changes that can be undone and redone.  When a step is being undone,
\* what is left of it is on top of the first one and what its reverting has recorded on
\* top of the second one; when it is being redone it is the other way round.
UndoTop(u, rest) ==
  IF u.mode = "Undoing" THEN rest
  ELSE IF HasStep(u) THEN u.current_step.changes ELSE <<>>
RedoTop(u, rest) ==
  IF u.mode = "Redoing" THEN rest
  ELSE IF u.mode = "Undoing" /\ HasStep(u) THEN u.current_step.changes ELSE <<>>

HistoryOf(q, u, rest) ==
  Agrees(q, UndoTop(u, rest), u.undo_steps, RedoTop(u, rest), Reverse(u.redo_steps))

\* A history has no queue changes but those of another one.
Narrower(v, left, u, rest) ==
  /\ Within(UndoTop(v, left), v.undo_steps, UndoTop(u, rest), u.undo_steps)
  /\ Within(RedoTop(v, left), Reverse(v.redo_steps), RedoTop(u, rest), Reverse(u.redo_steps))

\* What agrees with a history agrees with what is left of it.
LEMMA HistoryNarrowed ==
  ASSUME NEW q, NEW u, NEW rest, NEW v, NEW left,
         HistoryOf(q, u, rest), Narrower(v, left, u, rest)
  PROVE  HistoryOf(q, v, left)
BY AgreesWithin DEF HistoryOf, Narrower

\* What is on top is a list of changes.
LEMMA TopsType ==
  ASSUME NEW u, GoodHistory(u), NEW rest \in ChangeLists
  PROVE  UndoTop(u, rest) \in ChangeLists /\ RedoTop(u, rest) \in ChangeLists
<1>1. <<>> \in ChangeLists
  BY DEF ChangeLists
<1> QED BY <1>1, GoodHistoryParts DEF UndoTop, RedoTop

\* Nothing reversed is nothing.
LEMMA NothingReversed ==
  Reverse(<<>>) = <<>>
<1>1. <<>> \in Steps /\ Len(<<>>) = 0
  BY DEF Steps
<1>2. Reverse(<<>>) \in Steps /\ Len(Reverse(<<>>)) = 0
  BY <1>1, ReversedSteps
<1> QED BY <1>2, EmptySeq DEF Steps

\* Opening a step.
LEMMA BeginHistory ==
  ASSUME NEW u, GoodHistory(u), NEW kind \in Kinds, ~HasStep(u)
  PROVE  LET v == BeginStep(u, kind)
         IN /\ GoodHistory(v) /\ HasStep(v) /\ v.mode = u.mode
            /\ v.current_step.changes = <<>> /\ v.current_step.kind = kind
            /\ \A rest : Narrower(v, rest, u, rest)
<1> DEFINE v == BeginStep(u, kind)
           step == [kind |-> kind, changes |-> <<>>, counter |-> u.counter + 1]
<1>1. u \in UndoState(Kinds, Change)
  BY GoodHistoryParts
<1>2. /\ v.undo_steps = u.undo_steps /\ v.mode = u.mode /\ v.current_step = step
      /\ v.redo_steps = IF u.mode = "NormalOp" THEN <<>> ELSE u.redo_steps
  BY <1>1 DEF BeginStep, UndoState
<1>3. GoodUndo(v, Kinds, Change)
  BY BeginStepType DEF GoodHistory
<1>4. step # NoStep /\ step.changes = <<>> /\ step.kind = kind
  BY DEF NoStep
<1> HIDE DEF v, step
<1>5. GoodHistory(v) /\ HasStep(v)
  BY <1>2, <1>3, <1>4, EmptyHistory DEF GoodHistory, HasStep
<1>6. ASSUME NEW rest PROVE Narrower(v, rest, u, rest)
  <2>1. UndoTop(v, rest) = UndoTop(u, rest) /\ RedoTop(v, rest) = RedoTop(u, rest)
    BY <1>2, <1>4, <1>5 DEF UndoTop, RedoTop
  <2>2. Within(UndoTop(v, rest), v.undo_steps, UndoTop(u, rest), u.undo_steps)
    BY <1>2, <2>1, WithinOrder
  <2>3. CASE u.mode = "NormalOp"
    <3>1. RedoTop(v, rest) = <<>> /\ Reverse(v.redo_steps) = <<>>
      BY <1>2, <2>3, NothingReversed DEF RedoTop
    <3> QED BY <2>2, <3>1, WithinNothing DEF Narrower
  <2>4. CASE u.mode # "NormalOp"
    BY <1>2, <2>1, <2>2, <2>4, WithinOrder DEF Narrower
  <2> QED BY <2>3, <2>4
<1> QED BY <1>2, <1>4, <1>5, <1>6 DEF v

\* Closing the step, at the end of a transaction.
LEMMA EndHistory ==
  ASSUME NEW u, GoodHistory(u), HasStep(u)
  PROVE  LET v == [EndStep(u, FALSE) EXCEPT !.mode = "NormalOp"]
         IN /\ GoodHistory(v) /\ ~HasStep(v) /\ v.mode = "NormalOp"
            /\ Narrower(v, <<>>, u, <<>>)
<1> DEFINE e == EndStep(u, FALSE)
           v == [e EXCEPT !.mode = "NormalOp"]
           step == u.current_step
<1>1. /\ u \in UndoState(Kinds, Change) /\ u.undo_steps \in Steps /\ u.redo_steps \in Steps
      /\ step \in Step(Kinds, Change) /\ step.changes \in ChangeLists
      /\ Len(u.undo_steps) \in Nat /\ Len(u.redo_steps) \in Nat
  BY GoodHistoryParts DEF Steps
<1>2. GoodUndo(e, Kinds, Change)
  BY EndStepType DEF GoodHistory
<1>3. GoodUndo(v, Kinds, Change)
  <2> HIDE DEF e
  <2> QED BY <1>2 DEF GoodUndo, UndoState
<1>4. /\ v.undo_steps = e.undo_steps /\ v.redo_steps = e.redo_steps
      /\ v.current_step = e.current_step /\ v.mode = "NormalOp"
  <2> HIDE DEF e
  <2> QED BY <1>2 DEF GoodUndo, UndoState
<1>5. Directed(step.changes, u.mode # "Undoing")
  BY DEF GoodHistory
<1>9. StepsDirected(u.undo_steps, TRUE) /\ StepsDirected(u.redo_steps, FALSE)
  BY DEF GoodHistory
<1>a. v.current_step = NoStep => UndoTop(v, <<>>) = <<>> /\ RedoTop(v, <<>>) = <<>>
  BY <1>4 DEF UndoTop, RedoTop, HasStep
<1>b. /\ u.mode = "Undoing" => RedoTop(u, <<>>) = step.changes
      /\ u.mode # "Undoing" => UndoTop(u, <<>>) = step.changes
  BY DEF UndoTop, RedoTop
<1>6. CASE ~HasChanges(step)
  <2>1. e = [u EXCEPT !.current_step = NoStep]
    BY <1>6 DEF EndStep
  <2>2. /\ v.undo_steps = u.undo_steps /\ v.redo_steps = u.redo_steps
        /\ v.current_step = NoStep
    BY <1>1, <1>4, <2>1 DEF UndoState
  <2> HIDE DEF v
  <2>3. GoodHistory(v) /\ ~HasStep(v)
    BY <1>3, <2>2 DEF GoodHistory, HasStep
  <2>4. Narrower(v, <<>>, u, <<>>)
    BY <1>a, <2>2, WithinSteps DEF Narrower
  <2> QED BY <1>4, <2>3, <2>4 DEF v
<1>7. CASE HasChanges(step) /\ u.mode = "Undoing"
  <2>1. e = [u EXCEPT !.current_step = NoStep, !.redo_steps = Append(u.redo_steps, step)]
    BY <1>7 DEF EndStep
  <2>2. /\ v.undo_steps = u.undo_steps /\ v.redo_steps = Append(u.redo_steps, step)
        /\ v.current_step = NoStep
    BY <1>1, <1>4, <2>1 DEF UndoState
  <2>3. StepsDirected(Append(u.redo_steps, step), FALSE)
    <3> DEFINE t == Append(u.redo_steps, step)
    <3>1. /\ Len(t) = Len(u.redo_steps) + 1
          /\ \A i \in 1..Len(u.redo_steps) : t[i] = u.redo_steps[i]
          /\ t[Len(u.redo_steps) + 1] = step
      BY <1>1, AppendProperties DEF Steps
    <3>2. Directed(step.changes, FALSE)
      BY <1>5, <1>7
    <3> HIDE DEF t
    <3>3. ASSUME NEW i \in 1..Len(t) PROVE Directed(t[i].changes, FALSE)
      <4>1. CASE i = Len(u.redo_steps) + 1
        BY <4>1, <3>1, <3>2
      <4>2. CASE i \in 1..Len(u.redo_steps)
        <5>1. Directed(u.redo_steps[i].changes, FALSE)
          BY <4>2, <1>9 DEF StepsDirected
        <5> QED BY <4>2, <5>1, <3>1
      <4>3. i = Len(u.redo_steps) + 1 \/ i \in 1..Len(u.redo_steps)
        BY <3>1, <1>1
      <4> QED BY <4>1, <4>2, <4>3, Zenon
    <3> QED BY <3>3 DEF StepsDirected, t
  <2> HIDE DEF v
  <2>4. GoodHistory(v) /\ ~HasStep(v)
    BY <1>3, <2>2, <2>3 DEF GoodHistory, HasStep
  <2>5. Narrower(v, <<>>, u, <<>>)
    <3>1. Within(<<>>, Reverse(v.redo_steps), step.changes, Reverse(u.redo_steps))
      BY <1>1, <2>2, WithinUndone
    <3>2. Within(<<>>, v.undo_steps, UndoTop(u, <<>>), u.undo_steps)
      BY <2>2, WithinSteps
    <3> QED BY <1>7, <1>a, <1>b, <2>2, <3>1, <3>2 DEF Narrower
  <2> QED BY <1>4, <2>4, <2>5 DEF v
<1>8. CASE HasChanges(step) /\ u.mode # "Undoing"
  <2> DEFINE kept == KeepNewest(u.undo_steps, UndoLimit - 1)
             n == IF Len(u.undo_steps) < UndoLimit - 1 THEN Len(u.undo_steps) ELSE UndoLimit - 1
             t == <<step>> \o kept
  <2>1. e = [u EXCEPT !.current_step = NoStep, !.undo_steps = t]
    BY <1>8 DEF EndStep
  <2>2. /\ v.undo_steps = t /\ v.redo_steps = u.redo_steps /\ v.current_step = NoStep
    <3> HIDE DEF t
    <3> QED BY <1>1, <1>4, <2>1 DEF UndoState
  <2>3. n \in 0..Len(u.undo_steps) /\ kept = SubSeq(u.undo_steps, 1, n)
    BY <1>1, UndoLimitAssumption DEF KeepNewest
  <2>4. /\ t \in Steps /\ Len(t) = n + 1 /\ t[1] = step
        /\ \A i \in 2..Len(t) : i - 1 \in 1..Len(u.undo_steps) /\ t[i] = u.undo_steps[i - 1]
    <3> HIDE DEF n
    <3>1. 1 \in 1..(Len(u.undo_steps) + 1) /\ n \in (1 - 1)..Len(u.undo_steps)
      BY <1>1, <2>3
    <3> DEFINE f == <<step>> \o SubSeq(u.undo_steps, 1, n)
    <3>2. /\ f \in Seq(Step(Kinds, Change)) /\ Len(f) = n - 1 + 2 /\ f[1] = step
          /\ \A i \in 2..Len(f) :
               1 + i - 2 \in 1..n /\ 1 + i - 2 \in 1..Len(u.undo_steps)
               /\ f[i] = u.undo_steps[1 + i - 2]
      BY <1>1, <3>1, FrontedElements DEF Steps
    <3>3. f = t
      BY <2>3
    <3> HIDE DEF f, t
    <3>4. n - 1 + 2 = n + 1
      BY <2>3
    <3>5. ASSUME NEW i \in 2..Len(f) PROVE 1 + i - 2 = i - 1
      BY <3>5
    <3> QED BY <3>2, <3>3, <3>4, <3>5 DEF Steps
  <2> HIDE DEF v, t, n
  <2>5. StepsDirected(t, TRUE)
    <3>1. ASSUME NEW i \in 1..Len(t) PROVE Directed(t[i].changes, TRUE)
      <4>1. CASE i = 1
        BY <4>1, <2>4, <1>5, <1>8
      <4>2. CASE i \in 2..Len(t)
        <5>1. Directed(u.undo_steps[i - 1].changes, TRUE)
          BY <4>2, <2>4, <1>9 DEF StepsDirected
        <5> QED BY <4>2, <5>1, <2>4
      <4>3. i = 1 \/ i \in 2..Len(t)
        BY <2>3, <2>4
      <4> QED BY <4>1, <4>2, <4>3, Zenon
    <3> QED BY <3>1 DEF StepsDirected
  <2>6. GoodHistory(v) /\ ~HasStep(v)
    BY <1>3, <2>2, <2>5 DEF GoodHistory, HasStep
  <2>7. Narrower(v, <<>>, u, <<>>)
    <3>2. Len(t) <= Len(u.undo_steps) + 1
      BY <2>3, <2>4, <1>1
    <3>3. ASSUME NEW i \in 1..Len(t)
          PROVE  t[i].changes = Part(step.changes, u.undo_steps, i - 1)
      <4>1. CASE i = 1
        BY <4>1, <2>4 DEF Part
      <4>2. CASE i \in 2..Len(t)
        <5>1. i - 1 # 0 /\ t[i] = u.undo_steps[i - 1]
          BY <4>2, <2>4
        <5> QED BY <5>1 DEF Part
      <4> QED BY <4>1, <4>2, <2>3, <2>4
    <3>4. Within(<<>>, t, step.changes, u.undo_steps)
      BY <1>1, <2>4, <3>2, <3>3, WithinFinished
    <3>5. Within(<<>>, Reverse(v.redo_steps), RedoTop(u, <<>>), Reverse(u.redo_steps))
      BY <2>2, WithinSteps
    <3> QED BY <1>8, <1>a, <1>b, <2>2, <3>4, <3>5 DEF Narrower
  <2> QED BY <1>4, <2>6, <2>7 DEF v
<1> QED BY <1>6, <1>7, <1>8

\* Taking the newest step out to be undone.
LEMMA PopUndoHistory ==
  ASSUME NEW u, GoodHistory(u), ~HasStep(u), u.undo_steps # <<>>
  PROVE  LET v == [PopUndo(u) EXCEPT !.mode = "Undoing"]
             step == Head(u.undo_steps)
         IN /\ GoodHistory(v) /\ ~HasStep(v) /\ v.mode = "Undoing"
            /\ step \in Step(Kinds, Change) /\ Directed(step.changes, TRUE)
            /\ Narrower(v, step.changes, u, <<>>)
<1> DEFINE v == [PopUndo(u) EXCEPT !.mode = "Undoing"]
           step == Head(u.undo_steps)
<1>1. u \in UndoState(Kinds, Change) /\ u.undo_steps \in Steps /\ Len(u.undo_steps) \in Nat
  BY GoodHistoryParts DEF Steps
<1>2. GoodUndo(v, Kinds, Change) /\ step \in Step(Kinds, Change)
  BY PopUndoType DEF GoodHistory
<1>3. /\ v.undo_steps = Tail(u.undo_steps) /\ v.redo_steps = u.redo_steps
      /\ v.current_step = u.current_step /\ v.mode = "Undoing"
  BY <1>1 DEF PopUndo, UndoState
<1>4. /\ StepsDirected(u.undo_steps, TRUE) /\ StepsDirected(u.redo_steps, FALSE)
      /\ \A i \in 1..Len(u.undo_steps) : Directed(u.undo_steps[i].changes, TRUE)
  BY DEF GoodHistory, StepsDirected
<1>5. /\ step = u.undo_steps[1] /\ 1 \in 1..Len(u.undo_steps)
      /\ Len(Tail(u.undo_steps)) = Len(u.undo_steps) - 1
      /\ \A i \in 1..Len(Tail(u.undo_steps)) :
           i + 1 \in 1..Len(u.undo_steps) /\ Tail(u.undo_steps)[i] = u.undo_steps[i + 1]
  BY <1>1, HeadTailProperties DEF Steps
<1>6. StepsDirected(Tail(u.undo_steps), TRUE)
  BY <1>4, <1>5 DEF StepsDirected
<1>7. Directed(step.changes, TRUE)
  BY <1>4, <1>5
<1> HIDE DEF v
<1>8. GoodHistory(v) /\ ~HasStep(v)
  BY <1>2, <1>3, <1>4, <1>6 DEF GoodHistory, HasStep
<1>9. Narrower(v, step.changes, u, <<>>)
  <2>1. /\ UndoTop(u, <<>>) = <<>> /\ RedoTop(u, <<>>) = <<>>
        /\ UndoTop(v, step.changes) = step.changes /\ RedoTop(v, step.changes) = <<>>
    BY <1>3, <1>8 DEF UndoTop, RedoTop
  <2>2. Within(step.changes, v.undo_steps, <<>>, u.undo_steps)
    BY <1>1, <1>3, WithinPopped
  <2> QED BY <1>3, <2>1, <2>2, WithinOrder DEF Narrower
<1> QED BY <1>2, <1>3, <1>7, <1>8, <1>9 DEF v

\* Taking the newest step out to be redone.
LEMMA PopRedoHistory ==
  ASSUME NEW u, GoodHistory(u), ~HasStep(u), u.redo_steps # <<>>
  PROVE  LET v == [PopRedo(u) EXCEPT !.mode = "Redoing"]
             step == Last(u.redo_steps)
         IN /\ GoodHistory(v) /\ ~HasStep(v) /\ v.mode = "Redoing"
            /\ step \in Step(Kinds, Change) /\ Directed(step.changes, FALSE)
            /\ Narrower(v, step.changes, u, <<>>)
<1> DEFINE v == [PopRedo(u) EXCEPT !.mode = "Redoing"]
           n == Len(u.redo_steps)
<1>1. u \in UndoState(Kinds, Change) /\ u.redo_steps \in Steps /\ n \in Nat
  BY GoodHistoryParts DEF Steps
<1>2. GoodUndo(v, Kinds, Change) /\ u.redo_steps[n] \in Step(Kinds, Change)
  BY PopRedoType DEF GoodHistory
<1>3. /\ v.undo_steps = u.undo_steps /\ v.redo_steps = SubSeq(u.redo_steps, 1, n - 1)
      /\ v.current_step = u.current_step /\ v.mode = "Redoing"
  BY <1>1 DEF PopRedo, UndoState
<1>4. /\ StepsDirected(u.undo_steps, TRUE)
      /\ \A i \in 1..n : Directed(u.redo_steps[i].changes, FALSE)
  BY DEF GoodHistory, StepsDirected
<1>5. n \in 1..n /\ n > 0
  BY <1>1, EmptySeq DEF Steps
<1>6. StepsDirected(SubSeq(u.redo_steps, 1, n - 1), FALSE)
  <2> DEFINE t == SubSeq(u.redo_steps, 1, n - 1)
  <2>1. 1 \in 1..(n + 1) /\ n - 1 \in (1 - 1)..n
    BY <1>1, <1>5
  <2>2. Len(t) = n - 1 - 1 + 1 /\ \A i \in 1..Len(t) : t[i] = u.redo_steps[1 + i - 1]
    <3> HIDE DEF n
    <3> QED BY <1>1, <2>1, SubSeqProperties DEF Steps, n
  <2> HIDE DEF t
  <2>3. ASSUME NEW i \in 1..Len(t) PROVE i \in 1..n /\ t[i] = u.redo_steps[i]
    BY <1>1, <2>2
  <2> QED BY <1>4, <2>3 DEF StepsDirected, t
<1>7. Last(u.redo_steps) = u.redo_steps[n]
  BY DEF Last
<1>8. Directed(Last(u.redo_steps).changes, FALSE)
  BY <1>4, <1>5, <1>7
<1> HIDE DEF v
<1>9. GoodHistory(v) /\ ~HasStep(v)
  BY <1>2, <1>3, <1>4, <1>6 DEF GoodHistory, HasStep
<1>10. Narrower(v, Last(u.redo_steps).changes, u, <<>>)
  <2> DEFINE changes == Last(u.redo_steps).changes
  <2>1. /\ UndoTop(u, <<>>) = <<>> /\ RedoTop(u, <<>>) = <<>>
        /\ UndoTop(v, changes) = <<>> /\ RedoTop(v, changes) = changes
    BY <1>3, <1>9 DEF UndoTop, RedoTop
  <2>2. Within(changes, Reverse(v.redo_steps), <<>>, Reverse(u.redo_steps))
    BY <1>1, <1>3, WithinRedone
  <2> HIDE DEF changes
  <2>3. Narrower(v, changes, u, <<>>)
    BY <1>3, <2>1, <2>2, WithinOrder DEF Narrower
  <2> QED BY <2>3 DEF changes
<1> QED BY <1>2, <1>3, <1>7, <1>8, <1>9, <1>10 DEF v

\* Two lists of changes in a row.
LEMMA DirectedConcat ==
  ASSUME NEW cs \in ChangeLists, NEW ds \in ChangeLists, NEW answered,
         Directed(cs, answered), Directed(ds, answered)
  PROVE  cs \o ds \in ChangeLists /\ Directed(cs \o ds, answered)
<1> DEFINE es == cs \o ds
<1>1. /\ es \in Seq(Change) /\ Len(es) = Len(cs) + Len(ds) /\ Len(cs) \in Nat /\ Len(ds) \in Nat
      /\ \A k \in 1..(Len(cs) + Len(ds)) :
           es[k] = IF k <= Len(cs) THEN cs[k] ELSE ds[k - Len(cs)]
  BY ConcatProperties DEF ChangeLists
<1> HIDE DEF es
<1>2. ASSUME NEW k \in 1..Len(es), es[k].table = "queue"
      PROVE  /\ es[k].answered = answered
             /\ es[k].requeue # NoEntry => es[k].requeue.id = es[k].entry.id
  <2>1. CASE k <= Len(cs)
    BY <2>1, <1>1, <1>2 DEF Directed
  <2>2. CASE ~(k <= Len(cs))
    <3>1. k - Len(cs) \in 1..Len(ds) /\ es[k] = ds[k - Len(cs)]
      BY <2>2, <1>1
    <3> QED BY <3>1, <1>2 DEF Directed
  <2> QED BY <2>1, <2>2
<1> QED BY <1>1, <1>2 DEF Directed, es, ChangeLists

\* The two newest steps joined are the changes of the older one, then those of the newer.
LEMMA TwoJoined ==
  ASSUME NEW steps \in Steps, Len(steps) > 1
  PROVE  JoinedChanges(steps, 2) = steps[2].changes \o steps[1].changes
<1>1. steps \in Seq(Step(Kinds, Change)) /\ Len(steps) \in Nat /\ 2 \in 0..Len(steps)
  BY DEF Steps
<1>2. steps[2] \in Step(Kinds, Change)
  BY <1>1
<1>3. steps[2].changes \in Seq(Change)
  BY <1>2 DEF Step
<1>4. PICK f \in [0..2 -> Seq(Change)] :
        JoinEquation(f, steps, 2) /\ JoinedChanges(steps, 2) = f[2]
  <2>1. ASSUME NEW s \in Seq(Step(Kinds, Change)), NEW n \in 0..Len(s)
        PROVE  \E f \in [0..n -> Seq(Change)] :
                 JoinEquation(f, s, n) /\ JoinedChanges(s, n) = f[n]
    BY JoinedChangesSolution
  <2> QED BY <1>1, <2>1
<1>5. \A i \in 0..2 : f[i] = IF i = 0 THEN <<>> ELSE f[i - 1] \o steps[2 - i + 1].changes
  BY <1>4 DEF JoinEquation
<1>6. /\ f[0] = <<>>
      /\ f[1] = f[0] \o steps[2].changes
      /\ f[2] = f[1] \o steps[1].changes
  BY <1>5
<1>7. <<>> \o steps[2].changes = steps[2].changes
  BY <1>3, ConcatEmptySeq
<1> QED BY <1>4, <1>6, <1>7

\* The steps from a position on.
LEMMA RestOfSteps ==
  ASSUME NEW S, NEW s \in Seq(S), NEW m \in 1..(Len(s) + 1)
  PROVE  /\ SubSeq(s, m, Len(s)) \in Seq(S)
         /\ Len(SubSeq(s, m, Len(s))) = Len(s) - m + 1
         /\ \A i \in 1..(Len(s) - m + 1) : SubSeq(s, m, Len(s))[i] = s[i + m - 1]
<1> DEFINE r == SubSeq(s, m, Len(s))
<1>1. Len(s) \in Nat /\ Len(s) \in (m - 1)..Len(s)
  OBVIOUS
<1>2. /\ r \in Seq(S) /\ Len(r) = Len(s) - m + 1
      /\ \A i \in 1..Len(r) : r[i] = s[m + i - 1]
  BY <1>1, SubSeqProperties
<1> HIDE DEF r
<1>3. ASSUME NEW i \in 1..Len(r) PROVE m + i - 1 = i + m - 1
  BY <1>2, <1>3
<1> QED BY <1>2, <1>3 DEF r

\* A history whose two newest steps are merged.
LEMMA MergedSteps ==
  ASSUME NEW steps \in Steps, Len(steps) > 1, StepsDirected(steps, TRUE), NEW merged,
         merged = [steps[2] EXCEPT !.changes = JoinedChanges(steps, 2)]
  PROVE  LET t == <<merged>> \o SubSeq(steps, 3, Len(steps))
         IN /\ t \in Steps /\ StepsDirected(t, TRUE)
            /\ Within(<<>>, t, <<>>, steps)
<1> DEFINE t == <<merged>> \o SubSeq(steps, 3, Len(steps))
<1>1. /\ steps \in Seq(Step(Kinds, Change)) /\ Len(steps) \in Nat
      /\ 1 \in 1..Len(steps) /\ 2 \in 1..Len(steps)
  BY DEF Steps
<1>2. steps[1] \in Step(Kinds, Change) /\ steps[2] \in Step(Kinds, Change)
  BY <1>1
<1>3. steps[1].changes \in ChangeLists /\ steps[2].changes \in ChangeLists
  BY <1>2 DEF Step, ChangeLists
<1>4. Directed(steps[1].changes, TRUE) /\ Directed(steps[2].changes, TRUE)
  BY <1>1 DEF StepsDirected
<1>5. /\ JoinedChanges(steps, 2) = steps[2].changes \o steps[1].changes
      /\ JoinedChanges(steps, 2) \in ChangeLists /\ Directed(JoinedChanges(steps, 2), TRUE)
  BY <1>3, <1>4, TwoJoined, DirectedConcat
<1>6. merged \in Step(Kinds, Change) /\ merged.changes = JoinedChanges(steps, 2)
  BY <1>2, <1>5 DEF Step, ChangeLists
<1>7. /\ t \in Seq(Step(Kinds, Change)) /\ t[1] = merged
      /\ Len(t) = Len(steps) - 1
      /\ \A i \in 2..Len(t) : i + 1 \in 1..Len(steps) /\ t[i] = steps[i + 1]
  <2> DEFINE rest == SubSeq(steps, 3, Len(steps))
  <2>1. /\ rest \in Seq(Step(Kinds, Change)) /\ Len(rest) = Len(steps) - 2
        /\ \A i \in 1..Len(rest) : rest[i] = steps[i + 2]
    <3>1. 3 \in 1..(Len(steps) + 1)
      BY <1>1
    <3>2. steps \in Seq(Step(Kinds, Change))
      BY <1>1
    <3>3. /\ rest \in Seq(Step(Kinds, Change)) /\ Len(rest) = Len(steps) - 3 + 1
          /\ \A i \in 1..(Len(steps) - 3 + 1) : rest[i] = steps[i + 3 - 1]
      BY <3>1, <3>2, RestOfSteps, Zenon
    <3> HIDE DEF rest
    <3>4. ASSUME NEW i \in 1..(Len(steps) - 3 + 1) PROVE i + 3 - 1 = i + 2
      BY <3>4
    <3> QED BY <1>1, <3>3, <3>4
  <2>2. t = <<merged>> \o rest
    OBVIOUS
  <2> HIDE DEF rest, t
  <2>3. /\ t \in Seq(Step(Kinds, Change)) /\ Len(t) = Len(rest) + 1 /\ t[1] = merged
        /\ \A j \in 2..(Len(rest) + 1) : t[j] = rest[j - 1]
    BY <1>6, <2>1, <2>2, FrontElements
  <2>4. ASSUME NEW i \in 2..Len(t) PROVE i + 1 \in 1..Len(steps) /\ t[i] = steps[i + 1]
    <3>1. i - 1 \in 1..Len(rest) /\ t[i] = rest[i - 1] /\ (i - 1) + 2 = i + 1
      BY <2>1, <2>3, <1>1
    <3> QED BY <3>1, <2>1, <1>1
  <2> QED BY <2>1, <2>3, <2>4, <1>1
<1> HIDE DEF t
<1>9. ASSUME NEW i \in 1..Len(t) PROVE Directed(t[i].changes, TRUE)
  <2>1. CASE i = 1
    BY <2>1, <1>5, <1>6, <1>7
  <2>2. CASE i \in 2..Len(t)
    <3>1. Directed(steps[i + 1].changes, TRUE)
      BY <2>2, <1>7 DEF StepsDirected
    <3> QED BY <3>1, <2>2, <1>7
  <2>3. i = 1 \/ i \in 2..Len(t)
    BY <1>1, <1>7
  <2> QED BY <2>1, <2>2, <2>3, Zenon
<1>10. Within(<<>>, t, <<>>, steps)
  <2>1. t[1].changes = steps[2].changes \o steps[1].changes
    BY <1>5, <1>6, <1>7
  <2>2. \A i \in 2..Len(t) : t[i].changes = steps[i + 1].changes
    BY <1>7
  <2>3. t \in Steps /\ Len(steps) >= 2
    BY <1>1, <1>7 DEF Steps
  <2> QED BY <1>7, <2>1, <2>2, <2>3, WithinMerged
<1> QED BY <1>7, <1>9, <1>10 DEF t, Steps, StepsDirected

\* Merging the newest step into the one before it.
LEMMA MergeHistory ==
  ASSUME NEW u, GoodHistory(u), ~HasStep(u), Len(u.undo_steps) > 1
  PROVE  LET v == MergeInto(u, 2)
         IN /\ GoodHistory(v) /\ ~HasStep(v) /\ v.mode = u.mode
            /\ Narrower(v, <<>>, u, <<>>)
<1> DEFINE v == MergeInto(u, 2)
           merged == [u.undo_steps[2] EXCEPT !.changes = JoinedChanges(u.undo_steps, 2)]
           t == <<merged>> \o SubSeq(u.undo_steps, 3, Len(u.undo_steps))
<1>1. /\ u \in UndoState(Kinds, Change) /\ u.undo_steps \in Steps
      /\ 2 \in 1..Len(u.undo_steps) /\ StepsDirected(u.undo_steps, TRUE)
      /\ StepsDirected(u.redo_steps, FALSE)
  <2>1. u \in UndoState(Kinds, Change) /\ u.undo_steps \in Steps
    BY GoodHistoryParts
  <2>2. 2 \in 1..Len(u.undo_steps)
    BY <2>1 DEF Steps
  <2> QED BY <2>1, <2>2 DEF GoodHistory
<1>2. /\ t \in Steps /\ StepsDirected(t, TRUE)
      /\ Within(<<>>, t, <<>>, u.undo_steps)
  <2> HIDE DEF merged
  <2>1. merged = [u.undo_steps[2] EXCEPT !.changes = JoinedChanges(u.undo_steps, 2)]
    BY DEF merged
  <2> QED BY <1>1, <2>1, MergedSteps
<1>3. /\ v.undo_steps = t /\ v.redo_steps = u.redo_steps /\ v.mode = u.mode
      /\ v.current_step = u.current_step
  <2>1. v = [u EXCEPT !.undo_steps = t, !.counter = u.undo_steps[2].counter]
    BY DEF MergeInto
  <2> HIDE DEF t
  <2> QED BY <1>1, <2>1 DEF UndoState
<1>4. GoodUndo(v, Kinds, Change)
  BY <1>1, MergeIntoType DEF GoodHistory
<1> HIDE DEF v, t
<1>5. GoodHistory(v) /\ ~HasStep(v)
  BY <1>1, <1>2, <1>3, <1>4 DEF GoodHistory, HasStep
<1>6. Narrower(v, <<>>, u, <<>>)
  <2>1. /\ UndoTop(u, <<>>) = <<>> /\ RedoTop(u, <<>>) = <<>>
        /\ UndoTop(v, <<>>) = <<>> /\ RedoTop(v, <<>>) = <<>>
    BY <1>5 DEF UndoTop, RedoTop
  <2> QED BY <1>2, <1>3, <2>1, WithinOrder DEF Narrower
<1> QED BY <1>3, <1>5, <1>6 DEF v

---------------------------------------------------------------------------
(* What a step keeps of the collection *)

\* The queues hold no card twice and agree with the changes that can be undone and redone.
QueuesSound(q, u, rest) == q # NoQueues => Distinct(q) /\ HistoryOf(q, u, rest)

Sound(c, rest) ==
  /\ c \in Collections
  /\ GoodHistory(c.undo)
  /\ QueuesSound(c.queues, c.undo, rest)

\* What leaves the queues, the open step and the mode as they are.
Keeping(c, d) ==
  /\ d.queues = c.queues /\ d.undo.mode = c.undo.mode
  /\ HasStep(d.undo) = HasStep(c.undo) /\ d.undo.current_step.kind = c.undo.current_step.kind

\* The parts of a collection.
LEMMA CollectionParts ==
  ASSUME NEW c, c \in Collections
  PROVE  /\ c.cards \in [Cards -> Card] /\ c.last_unburied \in Nat
         /\ c.undo \in UndoState(Kinds, Change) /\ c.queues \in Queues \cup {NoQueues}
         /\ HasQueues(c) => c.queues \in Queues
BY DEF Collections, HasQueues

\* Queues are not the absence of queues.
LEMMA QueuesAreThere ==
  ASSUME NEW q \in Queues
  PROVE  q # NoQueues /\ q.build # 0
BY DEF Queues, NoQueues

\* Queues that agree with a history agree with what is left of it.
LEMMA SoundNarrowed ==
  ASSUME NEW q, NEW u, NEW rest, NEW v, NEW left,
         QueuesSound(q, u, rest), Narrower(v, left, u, rest)
  PROVE  QueuesSound(q, v, left)
BY HistoryNarrowed DEF QueuesSound

\* Recording other rows.
LEMMA NarrowerSave ==
  ASSUME NEW u, GoodHistory(u), NEW v, GoodHistory(v), NEW rest \in ChangeLists,
         v.undo_steps = u.undo_steps, v.redo_steps = u.redo_steps, v.mode = u.mode,
         HasStep(v) = HasStep(u),
         NEW saved \in ChangeLists, \A k \in 1..Len(saved) : ~OfQueue(saved[k]),
         HasStep(u) => v.current_step.changes = u.current_step.changes \o saved
  PROVE  Narrower(v, rest, u, rest)
<1>1. /\ u.undo_steps \in Steps /\ u.redo_steps \in Steps /\ Reverse(u.redo_steps) \in Steps
      /\ HasStep(u) => u.current_step.changes \in ChangeLists
  BY GoodHistoryParts, ReversedSteps
<1>2. ASSUME HasStep(u), NEW steps \in Steps
      PROVE  Within(v.current_step.changes, steps, u.current_step.changes, steps)
  BY <1>1, <1>2, WithinOthers
<1>3. Within(UndoTop(v, rest), v.undo_steps, UndoTop(u, rest), u.undo_steps)
  <2>1. CASE u.mode = "Undoing" \/ ~HasStep(u)
    <3>1. UndoTop(v, rest) = UndoTop(u, rest)
      BY <2>1 DEF UndoTop
    <3> QED BY <3>1, WithinOrder
  <2>2. CASE u.mode # "Undoing" /\ HasStep(u)
    <3>1. /\ UndoTop(v, rest) = v.current_step.changes
          /\ UndoTop(u, rest) = u.current_step.changes
      BY <2>2 DEF UndoTop
    <3> QED BY <1>1, <1>2, <2>2, <3>1
  <2> QED BY <2>1, <2>2
<1>4. Within(RedoTop(v, rest), Reverse(v.redo_steps), RedoTop(u, rest), Reverse(u.redo_steps))
  <2>1. CASE u.mode # "Undoing" \/ ~HasStep(u)
    <3>1. RedoTop(v, rest) = RedoTop(u, rest)
      BY <2>1 DEF RedoTop
    <3> QED BY <3>1, WithinOrder
  <2>2. CASE u.mode = "Undoing" /\ HasStep(u)
    <3>1. /\ RedoTop(v, rest) = v.current_step.changes
          /\ RedoTop(u, rest) = u.current_step.changes
      BY <2>2 DEF RedoTop
    <3> QED BY <1>1, <1>2, <2>2, <3>1
  <2> QED BY <2>1, <2>2
<1> QED BY <1>3, <1>4 DEF Narrower

\* Recording a change that is not one of the queues.
LEMMA SavedSound ==
  ASSUME NEW c, NEW rest \in ChangeLists, Sound(c, rest), NEW d \in Collections, NEW ch \in Change,
         d.queues = c.queues, d.undo = Save(c.undo, ch), ~OfQueue(ch)
  PROVE  Sound(d, rest) /\ Keeping(c, d)
<1> DEFINE u == c.undo
           v == d.undo
<1>1. Recordable(ch, u.mode)
  BY DEF Recordable, OfQueue
<1>2. /\ GoodHistory(v) /\ v.undo_steps = u.undo_steps /\ v.redo_steps = u.redo_steps
      /\ v.mode = u.mode
      /\ HasStep(v) = HasStep(u) /\ v.current_step.kind = u.current_step.kind
      /\ HasStep(u) => v.current_step.changes = Append(u.current_step.changes, ch)
  BY <1>1, SaveHistory DEF Sound
<1>3. Keeping(c, d)
  BY <1>2 DEF Keeping
<1>4. GoodHistory(u) /\ (HasStep(u) => u.current_step.changes \in ChangeLists)
  BY GoodHistoryParts DEF Sound
<1>5. HasStep(u) => v.current_step.changes = u.current_step.changes \o <<ch>>
  BY <1>2, <1>4, AppendIsConcat DEF ChangeLists
<1>6. <<ch>> \in ChangeLists /\ \A k \in 1..Len(<<ch>>) : ~OfQueue(<<ch>>[k])
  BY DEF ChangeLists
<1>7. Narrower(v, rest, u, rest)
  BY <1>2, <1>4, <1>5, <1>6, NarrowerSave, Zenon
<1>8. QueuesSound(d.queues, v, rest)
  BY <1>7, SoundNarrowed DEF Sound
<1> QED BY <1>2, <1>3, <1>8 DEF Sound

\* Storing a card.
LEMMA StoreResult ==
  ASSUME NEW c, NEW rest \in ChangeLists, Sound(c, rest), NEW id \in Cards, NEW card \in Card
  PROVE  LET d == UpdateCardUndoable(c, id, card)
         IN Sound(d, rest) /\ Keeping(c, d)
<1> DEFINE e == [c EXCEPT !.cards[id] = card]
           ch == [table |-> "card", id |-> id, old |-> c.cards[id]]
           d == [e EXCEPT !.undo = Save(c.undo, ch)]
<1>1. c \in Collections /\ c.cards \in [Cards -> Card] /\ GoodHistory(c.undo)
  BY CollectionParts DEF Sound
<1>2. ch \in Change /\ ch.table = "card"
  <2>1. c.cards[id] \in Card
    BY <1>1
  <2> HIDE DEF Card
  <2> QED BY <2>1 DEF Change, CardChange
<1> HIDE DEF ch
<1>3. Recordable(ch, c.undo.mode) /\ ~OfQueue(ch)
  BY <1>2 DEF Recordable, OfQueue
<1>4. GoodHistory(Save(c.undo, ch)) /\ Save(c.undo, ch) \in UndoState(Kinds, Change)
  BY <1>1, <1>2, <1>3, SaveHistory, GoodHistoryParts
<1>5. d \in Collections /\ d.queues = c.queues /\ d.undo = Save(c.undo, ch)
  <2> DEFINE cards == [c.cards EXCEPT ![id] = card]
  <2>1. cards \in [Cards -> Card]
    BY <1>1
  <2>2. d = [c EXCEPT !.cards = cards, !.undo = Save(c.undo, ch)]
    BY <1>1 DEF Collections
  <2> HIDE DEF cards, d
  <2> QED BY <1>1, <1>4, <2>1, <2>2 DEF Collections
<1>6. UpdateCardUndoable(c, id, card) = d
  BY <1>1 DEF UpdateCardUndoable, SaveChange, ch, Collections
<1> HIDE DEF d
<1> QED BY <1>2, <1>3, <1>5, <1>6, SavedSound

\* Storing a card with the time of the change.
LEMMA StampResult ==
  ASSUME now \in Nat, NEW c, NEW rest \in ChangeLists, Sound(c, rest), NEW id \in Cards,
         NEW card \in Card
  PROVE  LET d == UpdateCard(c, id, card)
         IN Sound(d, rest) /\ Keeping(c, d)
<1>1. [card EXCEPT !.mtime = now] \in Card
  BY DEF Card
<1> QED BY <1>1, StoreResult DEF UpdateCard

\* Storing the day of the last rollover.
LEMMA SetLastUnburiedResult ==
  ASSUME NEW c, NEW rest \in ChangeLists, Sound(c, rest), NEW day \in Nat
  PROVE  LET d == SetLastUnburied(c, day)
         IN Sound(d, rest) /\ Keeping(c, d)
<1> DEFINE ch == [table |-> "config", old |-> c.last_unburied]
           d == [c EXCEPT !.last_unburied = day, !.undo = Save(c.undo, ch)]
<1>1. c \in Collections /\ c.last_unburied \in Nat /\ GoodHistory(c.undo)
  BY CollectionParts DEF Sound
<1>2. CASE day = c.last_unburied
  <2>1. SetLastUnburied(c, day) = c
    BY <1>2 DEF SetLastUnburied
  <2> QED BY <2>1 DEF Keeping
<1>3. CASE day # c.last_unburied
  <2>1. ch \in Change /\ ch.table = "config"
    BY <1>1 DEF Change, ConfigChange
  <2> HIDE DEF ch
  <2>2. Recordable(ch, c.undo.mode) /\ ~OfQueue(ch)
    BY <2>1 DEF Recordable, OfQueue
  <2>3. GoodHistory(Save(c.undo, ch)) /\ Save(c.undo, ch) \in UndoState(Kinds, Change)
    BY <1>1, <2>1, <2>2, SaveHistory, GoodHistoryParts
  <2>4. d \in Collections /\ d.queues = c.queues /\ d.undo = Save(c.undo, ch)
    BY <1>1, <2>3 DEF Collections
  <2>5. SetLastUnburied(c, day) = d
    BY <1>1, <1>3 DEF SetLastUnburied, SaveChange, ch, Collections
  <2> HIDE DEF d
  <2> QED BY <2>1, <2>2, <2>4, <2>5, SavedSound
<1> QED BY <1>2, <1>3

\* From the epoch on, days are numbered by natural numbers.
LEMMA TimeType ==
  ASSUME now \in Nat, now >= Epoch
  PROVE  Today \in Nat /\ NextDayAt \in Nat
<1>1. DayLength \in Nat /\ DayLength > 0 /\ now - Epoch \in Nat
  BY TimeAssumption DEF Epoch
<1>2. ASSUME NEW n \in Nat, NEW m \in Nat, m > 0 PROVE n \div m \in Nat
  BY <1>2
<1>3. Today \in Nat
  BY <1>1, <1>2 DEF Today, DayOf
<1> HIDE DEF Today
<1>4. ASSUME NEW n \in Nat, NEW m \in Nat PROVE n * m \in Nat
  BY <1>4
<1>5. (Today + 1) * DayLength \in Nat
  BY <1>1, <1>3, <1>4
<1> QED BY <1>3, <1>5 DEF NextDayAt, Epoch

\* Cards that come back from being buried or suspended.
LEMMA RestoredType ==
  ASSUME NEW card \in Card
  PROVE  Restored(card) \in Card /\ RestoredQueue(card) \in CardQueue
<1>1. card.ctype \in {"New", "Learn", "Review"}
  BY DEF Card
<1>2. RestoredQueue(card) \in CardQueue
  BY <1>1 DEF RestoredQueue, CardQueue, MainQueues
<1>3. [card EXCEPT !.queue = RestoredQueue(card)] \in Card
  <2> HIDE DEF RestoredQueue, CardQueue
  <2> QED BY <1>2 DEF Card
<1> QED BY <1>2, <1>3 DEF Restored

\* Other cards in the same collection.
LEMMA CardsResult ==
  ASSUME NEW c, NEW rest \in ChangeLists, Sound(c, rest), NEW cards \in [Cards -> Card]
  PROVE  LET d == [c EXCEPT !.cards = cards]
         IN Sound(d, rest) /\ Keeping(c, d)
<1> DEFINE d == [c EXCEPT !.cards = cards]
<1>1. d \in Collections /\ d.queues = c.queues /\ d.undo = c.undo
  BY DEF Collections, Sound
<1> HIDE DEF d
<1>2. Sound(d, rest) /\ Keeping(c, d)
  BY <1>1 DEF Sound, Keeping
<1> QED BY <1>2 DEF d

\* The rollover leaves the queues and the history alone.
LEMMA UnburyResult ==
  ASSUME now \in Nat, now >= Epoch, NEW c, NEW rest \in ChangeLists, Sound(c, rest)
  PROVE  LET d == UnburyOnDayRollover(c)
         IN Sound(d, rest) /\ Keeping(c, d)
<1> DEFINE cards == [id \in Cards |-> IF c.cards[id].queue \in Buried
                                      THEN Restored(c.cards[id]) ELSE c.cards[id]]
           e == [c EXCEPT !.cards = cards]
<1>1. cards \in [Cards -> Card]
  <2>1. c.cards \in [Cards -> Card]
    BY CollectionParts DEF Sound
  <2>2. ASSUME NEW id \in Cards
        PROVE  (IF c.cards[id].queue \in Buried THEN Restored(c.cards[id]) ELSE c.cards[id]) \in Card
    BY <2>1, RestoredType
  <2> QED BY <2>2
<1>2. Sound(e, rest) /\ Keeping(c, e)
  <2> HIDE DEF cards
  <2> QED BY <1>1, CardsResult
<1>3. UnburyOnDayRollover(c) = SetLastUnburied(e, Today)
  BY DEF UnburyOnDayRollover
<1> HIDE DEF e
<1>4. LET d == SetLastUnburied(e, Today) IN Sound(d, rest) /\ Keeping(e, d)
  BY <1>2, TimeType, SetLastUnburiedResult
<1> QED BY <1>2, <1>3, <1>4 DEF Keeping

\* Throwing the history and the queues away, also with the mode reset.
LEMMA DiscardResult ==
  ASSUME NEW c, NEW rest, NEW to \in ChangeLists, Sound(c, rest)
  PROVE  /\ LET d == DiscardUndoAndStudyQueues(c)
            IN Sound(d, to) /\ ~HasQueues(d) /\ ~HasStep(d.undo) /\ d.undo.mode = c.undo.mode
         /\ LET d == RolledBack(c)
            IN Sound(d, to) /\ ~HasQueues(d) /\ ~HasStep(d.undo) /\ d.undo.mode = "NormalOp"
<1> DEFINE u == Discard(c.undo)
           v == [u EXCEPT !.mode = "NormalOp"]
           d == [c EXCEPT !.undo = u, !.queues = NoQueues]
           e == [c EXCEPT !.undo = v, !.queues = NoQueues]
<1>1. c \in Collections /\ GoodHistory(c.undo)
  BY DEF Sound
<1>2. /\ GoodHistory(u) /\ ~HasStep(u) /\ u.mode = c.undo.mode
      /\ GoodHistory(v) /\ ~HasStep(v) /\ v.mode = "NormalOp"
  BY <1>1, DiscardHistory
<1>3. u \in UndoState(Kinds, Change) /\ v \in UndoState(Kinds, Change)
  BY <1>2, GoodHistoryParts
<1>4. DiscardUndoAndStudyQueues(c) = d
  BY DEF DiscardUndoAndStudyQueues
<1>5. RolledBack(c) = e
  <2>1. d.undo = u
    <3> HIDE DEF u
    <3> QED BY <1>1 DEF Collections
  <2>2. [d EXCEPT !.undo.mode = "NormalOp"] = [d EXCEPT !.undo = [d.undo EXCEPT !.mode = "NormalOp"]]
    OBVIOUS
  <2>3. [d EXCEPT !.undo = v] = e
    <3> HIDE DEF u, v
    <3> QED BY <1>1 DEF Collections
  <2> HIDE DEF u, d
  <2> QED BY <1>4, <2>1, <2>2, <2>3 DEF RolledBack
<1> HIDE DEF u, v
<1>6. /\ d \in Collections /\ d.undo = u /\ d.queues = NoQueues
      /\ e \in Collections /\ e.undo = v /\ e.queues = NoQueues
  BY <1>1, <1>3 DEF Collections
<1> HIDE DEF d, e
<1> QED BY <1>2, <1>4, <1>5, <1>6 DEF Sound, QueuesSound, HasQueues

\* On a new day the queues and the history are thrown away.
LEMMA ClearedResult ==
  ASSUME now \in Nat, now >= Epoch, NEW c, NEW rest \in ChangeLists, Sound(c, rest)
  PROVE  LET d == ClearQueuesIfDayChanged(c)
         IN \/ d = c
            \/ /\ \A to \in ChangeLists : Sound(d, to)
               /\ ~HasQueues(d) /\ ~HasStep(d.undo) /\ d.undo.mode = c.undo.mode
<1> DEFINE e == DiscardUndoAndStudyQueues(c)
           d == UnburyOnDayRollover(e)
<1>1. ClearQueuesIfDayChanged(c) = c \/ ClearQueuesIfDayChanged(c) = d
  BY DEF ClearQueuesIfDayChanged
<1>2. ASSUME NEW to \in ChangeLists
      PROVE  /\ Sound(d, to) /\ ~HasQueues(d) /\ ~HasStep(d.undo)
             /\ d.undo.mode = c.undo.mode
  <2>1. Sound(e, to) /\ ~HasQueues(e) /\ ~HasStep(e.undo) /\ e.undo.mode = c.undo.mode
    BY DiscardResult
  <2> HIDE DEF e
  <2>2. Sound(d, to) /\ Keeping(e, d)
    BY <2>1, UnburyResult
  <2> QED BY <2>1, <2>2 DEF Keeping, HasQueues
<1> HIDE DEF d
<1>3. rest \in ChangeLists
  OBVIOUS
<1> QED BY <1>1, <1>2, <1>3

\* Opening a step.
LEMMA BeganResult ==
  ASSUME NEW c, NEW rest \in ChangeLists, Sound(c, rest), NEW kind \in Kinds,
         ~HasStep(c.undo)
  PROVE  LET d == Began(c, kind)
         IN /\ Sound(d, rest) /\ HasStep(d.undo) /\ d.undo.mode = c.undo.mode
            /\ d.queues = c.queues /\ d.cards = c.cards
            /\ d.undo.current_step.kind = kind /\ d.undo.current_step.changes = <<>>
<1> DEFINE v == BeginStep(c.undo, kind)
           d == [c EXCEPT !.undo = v]
<1>1. c \in Collections /\ GoodHistory(c.undo)
  BY DEF Sound
<1>2. /\ GoodHistory(v) /\ HasStep(v) /\ v.mode = c.undo.mode
      /\ v.current_step.kind = kind /\ v.current_step.changes = <<>>
      /\ Narrower(v, rest, c.undo, rest)
  BY <1>1, BeginHistory
<1>3. v \in UndoState(Kinds, Change)
  BY <1>2, GoodHistoryParts
<1>4. Began(c, kind) = d
  BY DEF Began
<1> HIDE DEF v
<1>5. d \in Collections /\ d.queues = c.queues /\ d.undo = v /\ d.cards = c.cards
  BY <1>1, <1>3 DEF Collections
<1> HIDE DEF d
<1>6. QueuesSound(c.queues, v, rest)
  BY <1>2, SoundNarrowed DEF Sound
<1>7. Sound(d, rest)
  BY <1>2, <1>5, <1>6 DEF Sound
<1> QED BY <1>2, <1>4, <1>5, <1>7

\* Closing the step, with the queues thrown away or not.
LEMMA CommittedResult ==
  ASSUME NEW c, Sound(c, <<>>), HasStep(c.undo)
  PROVE  LET d == Committed(c)
         IN Sound(d, <<>>) /\ ~HasStep(d.undo) /\ d.undo.mode = "NormalOp"
<1> DEFINE v == [EndStep(c.undo, FALSE) EXCEPT !.mode = "NormalOp"]
           e == MaybeClearStudyQueues(c)
           d == [e EXCEPT !.undo = v]
<1>1. c \in Collections /\ GoodHistory(c.undo)
  BY DEF Sound
<1>2. /\ GoodHistory(v) /\ ~HasStep(v) /\ v.mode = "NormalOp"
      /\ Narrower(v, <<>>, c.undo, <<>>)
  BY <1>1, EndHistory
<1>3. v \in UndoState(Kinds, Change)
  BY <1>2, GoodHistoryParts
<1>4. Committed(c) = d
  BY DEF Committed
<1>5. e = c \/ e = [c EXCEPT !.queues = NoQueues]
  BY DEF MaybeClearStudyQueues
<1> HIDE DEF v, e
<1>6. d \in Collections /\ d.undo = v /\ (d.queues = c.queues \/ d.queues = NoQueues)
  BY <1>1, <1>3, <1>5 DEF Collections
<1> HIDE DEF d
<1>7. QueuesSound(c.queues, v, <<>>)
  BY <1>2, SoundNarrowed DEF Sound
<1>8. QueuesSound(d.queues, v, <<>>)
  BY <1>6, <1>7 DEF QueuesSound
<1> QED BY <1>2, <1>4, <1>6, <1>8 DEF Sound

\* Changing several cards in the open step.
LEMMA ManyResult ==
  ASSUME NEW c, NEW rest \in ChangeLists, Sound(c, rest), HasStep(c.undo),
         NEW cards \in [Cards -> Card], NEW saved \in ChangeLists,
         \A k \in 1..Len(saved) : ~OfQueue(saved[k]), NEW after,
         after = [c EXCEPT !.cards = cards, !.undo.current_step.changes = @ \o saved]
  PROVE  Sound(after, rest) /\ Keeping(c, after)
<1> DEFINE u == c.undo
           q == c.queues
           changes == u.current_step.changes \o saved
           step == [u.current_step EXCEPT !.changes = changes]
           v == [u EXCEPT !.current_step = step]
           d == [c EXCEPT !.cards = cards, !.undo = v]
<1>1. /\ c \in Collections /\ GoodHistory(u) /\ u \in UndoState(Kinds, Change)
      /\ u.current_step \in Step(Kinds, Change) /\ u.current_step.changes \in ChangeLists
      /\ u.undo_steps \in Steps
  BY GoodHistoryParts DEF Sound
<1>2. [c EXCEPT !.cards = cards, !.undo.current_step.changes = @ \o saved] = d
  OBVIOUS
<1>3. changes \in ChangeLists /\ Directed(changes, u.mode # "Undoing")
  <2>1. Directed(saved, u.mode # "Undoing")
    BY DEF Directed, OfQueue
  <2>2. Directed(u.current_step.changes, u.mode # "Undoing")
    BY <1>1 DEF GoodHistory
  <2> QED BY <1>1, <2>1, <2>2, DirectedConcat
<1>4. /\ step \in Step(Kinds, Change) /\ step.changes = changes /\ step # NoStep
      /\ step.kind = u.current_step.kind
  <2> HIDE DEF changes
  <2> QED BY <1>1, <1>3 DEF Step, ChangeLists, NoStep
<1> HIDE DEF step
<1>5. /\ v \in UndoState(Kinds, Change) /\ v.undo_steps = u.undo_steps /\ v.redo_steps = u.redo_steps
      /\ v.mode = u.mode /\ v.current_step = step
  BY <1>1, <1>4 DEF UndoState
<1> HIDE DEF v
<1>6. HasStep(v) = HasStep(u)
  BY <1>4, <1>5 DEF HasStep
<1>7. GoodHistory(v)
  <2>1. GoodUndo(v, Kinds, Change)
    BY <1>1, <1>5 DEF GoodHistory, GoodUndo
  <2>2. Directed(v.current_step.changes, v.mode # "Undoing")
    BY <1>3, <1>4, <1>5
  <2>3. StepsDirected(v.undo_steps, TRUE) /\ StepsDirected(v.redo_steps, FALSE)
    BY <1>1, <1>5 DEF GoodHistory
  <2>4. v.mode = "NormalOp" => v.redo_steps = <<>>
    BY <1>1, <1>5 DEF GoodHistory
  <2> QED BY <2>1, <2>2, <2>3, <2>4 DEF GoodHistory
<1>8. d \in Collections /\ d.queues = q /\ d.undo = v
  BY <1>1, <1>5 DEF Collections
<1> HIDE DEF d
<1>9. Narrower(v, rest, u, rest)
  BY <1>1, <1>4, <1>5, <1>6, <1>7, NarrowerSave
<1>10. QueuesSound(q, v, rest)
  BY <1>9, SoundNarrowed DEF Sound
<1>11. Sound(d, rest) /\ Keeping(c, d)
  BY <1>4, <1>5, <1>6, <1>7, <1>8, <1>10 DEF Sound, Keeping
<1> QED BY <1>2, <1>11

\* What is saved of a set of cards.
LEMMA SavedOfCards ==
  ASSUME NEW c, c.cards \in [Cards -> Card], NEW ids, ids \subseteq Cards, NEW saved,
         saved = [i \in DOMAIN SetToSeq(ids) |->
                   [table |-> "card", id |-> SetToSeq(ids)[i],
                    old |-> c.cards[SetToSeq(ids)[i]]]]
  PROVE  saved \in ChangeLists /\ \A k \in 1..Len(saved) : ~OfQueue(saved[k])
<1> DEFINE order == SetToSeq(ids)
<1>1. order \in Seq(ids) /\ Len(order) \in Nat /\ DOMAIN order = 1..Len(order)
  <2>1. IsFiniteSet(ids)
    BY StartAssumption, FS_Subset
  <2>2. Lists(order, ids)
    BY <2>1, SetToSeqLists
  <2> HIDE DEF order
  <2> QED BY <2>2 DEF Lists
<1>2. saved = [i \in 1..Len(order) |->
                [table |-> "card", id |-> order[i], old |-> c.cards[order[i]]]]
  BY <1>1
<1> HIDE DEF order
<1>3. ASSUME NEW i \in 1..Len(order)
      PROVE  [table |-> "card", id |-> order[i], old |-> c.cards[order[i]]] \in Change
  <2>1. order[i] \in Cards
    BY <1>1
  <2>2. c.cards[order[i]] \in Card
    BY <2>1
  <2> HIDE DEF Card
  <2> QED BY <2>1, <2>2 DEF Change, CardChange
<1>4. saved \in [1..Len(order) -> Change] /\ \A i \in 1..Len(order) : saved[i].table = "card"
  <2> HIDE DEF Change
  <2> QED BY <1>2, <1>3
<1>5. saved \in Seq(Change) /\ Len(saved) = Len(order)
  BY <1>1, <1>4, FunctionIsSequence
<1> QED BY <1>4, <1>5 DEF ChangeLists, OfQueue

\* Burying the siblings of a card.
LEMMA BuryResult ==
  ASSUME now \in Nat, NEW c, NEW rest \in ChangeLists, Sound(c, rest), HasStep(c.undo), NEW id
  PROVE  LET d == BurySiblings(c, id)
         IN Sound(d, rest) /\ Keeping(c, d)
<1> DEFINE ids == SiblingsToBury(c, id)
           cards == [s \in Cards |-> IF s \in ids
                       THEN [[c.cards[s] EXCEPT !.queue = "SchedBuried"] EXCEPT !.mtime = now]
                       ELSE c.cards[s]]
           saved == [i \in DOMAIN SetToSeq(ids) |->
                      [table |-> "card", id |-> SetToSeq(ids)[i],
                       old |-> c.cards[SetToSeq(ids)[i]]]]
<1>1. c.cards \in [Cards -> Card]
  BY CollectionParts DEF Sound
<1>2. ids \subseteq Cards
  BY DEF SiblingsToBury
<1>3. BurySiblings(c, id)
        = [c EXCEPT !.cards = cards, !.undo.current_step.changes = @ \o saved]
  BY DEF BurySiblings, UpdateAll
<1> HIDE DEF ids
<1>4. cards \in [Cards -> Card]
  <2>1. ASSUME NEW s \in Cards
        PROVE  (IF s \in ids
                THEN [[c.cards[s] EXCEPT !.queue = "SchedBuried"] EXCEPT !.mtime = now]
                ELSE c.cards[s]) \in Card
    <3>1. c.cards[s] \in Card
      BY <1>1
    <3>2. [[c.cards[s] EXCEPT !.queue = "SchedBuried"] EXCEPT !.mtime = now] \in Card
      BY <3>1 DEF Card, CardQueue, Buried
    <3> QED BY <3>1, <3>2, Zenon
  <2> QED BY <2>1, Zenon
<1>5. saved \in ChangeLists /\ \A k \in 1..Len(saved) : ~OfQueue(saved[k])
  BY <1>1, <1>2, SavedOfCards
<1> HIDE DEF cards, saved
<1> DEFINE d == BurySiblings(c, id)
<1>6. d = [c EXCEPT !.cards = cards, !.undo.current_step.changes = @ \o saved]
  BY <1>3
<1> HIDE DEF d
<1>7. Sound(d, rest) /\ Keeping(c, d)
  BY <1>4, <1>5, <1>6, ManyResult, Zenon
<1> QED BY <1>7 DEF d

\* Bringing cards back.
LEMMA BackResult ==
  ASSUME now \in Nat, NEW c, NEW rest \in ChangeLists, Sound(c, rest), HasStep(c.undo),
         NEW ids, ids \subseteq Cards
  PROVE  LET d == UpdateAll(c, ids, Restored)
         IN Sound(d, rest) /\ Keeping(c, d)
<1> DEFINE cards == [s \in Cards |-> IF s \in ids
                       THEN [Restored(c.cards[s]) EXCEPT !.mtime = now] ELSE c.cards[s]]
           saved == [i \in DOMAIN SetToSeq(ids) |->
                      [table |-> "card", id |-> SetToSeq(ids)[i],
                       old |-> c.cards[SetToSeq(ids)[i]]]]
<1>1. c.cards \in [Cards -> Card]
  BY CollectionParts DEF Sound
<1>2. UpdateAll(c, ids, Restored)
        = [c EXCEPT !.cards = cards, !.undo.current_step.changes = @ \o saved]
  BY DEF UpdateAll
<1>3. cards \in [Cards -> Card]
  <2>1. ASSUME NEW s \in Cards
        PROVE  [Restored(c.cards[s]) EXCEPT !.mtime = now] \in Card /\ c.cards[s] \in Card
    <3>1. c.cards[s] \in Card /\ Restored(c.cards[s]) \in Card
      BY <1>1, RestoredType
    <3> QED BY <3>1 DEF Card
  <2> QED BY <2>1
<1>4. saved \in ChangeLists /\ \A k \in 1..Len(saved) : ~OfQueue(saved[k])
  BY <1>1, SavedOfCards
<1> HIDE DEF cards, saved
<1> DEFINE d == UpdateAll(c, ids, Restored)
<1>5. d = [c EXCEPT !.cards = cards, !.undo.current_step.changes = @ \o saved]
  BY <1>2
<1> HIDE DEF d
<1>6. Sound(d, rest) /\ Keeping(c, d)
  BY <1>3, <1>4, <1>5, ManyResult, Zenon
<1> QED BY <1>6 DEF d

---------------------------------------------------------------------------
(* Building the queues *)

\* Entries made of an order of cards.
LEMMA EntriesOfOrder ==
  ASSUME NEW T, NEW S, NEW s, Lists(s, T), NEW f \in [1..Len(s) -> S],
         \A i \in 1..Len(s) : f[i].id = s[i]
  PROVE  f \in Seq(S) /\ Once(f) /\ \A e \in Elements(f) : e \in S /\ e.id \in T
<1>1. s \in Seq(T) /\ Len(s) \in Nat /\ DOMAIN s = 1..Len(s)
      /\ \A i, j \in 1..Len(s) : s[i] = s[j] => i = j
  BY DEF Lists
<1>3. f \in Seq(S) /\ Len(f) = Len(s)
  BY <1>1, FunctionIsSequence
<1>4. Once(f)
  BY <1>1, <1>3 DEF Once
<1>5. \A e \in Elements(f) : e \in S /\ e.id \in T
  BY <1>1, <1>3 DEF Elements
<1> QED BY <1>3, <1>4, <1>5

\* The orders cards are gathered in are lists of cards.
LEMMA GatheredType ==
  ASSUME NEW c, NEW g \in GatherOrders(c)
  PROVE  \A x \in ToSet(g) : x \in Cards
<1>1. PICK d \in SetToSeqs(DueToday(c, "DayLearn")), r \in SetToSeqs(DueToday(c, "Review")),
           n \in SetToSeqs(NewCards(c)) :
        g = SetToSeq(IntradayDue(c)) \o d \o r \o n
  BY DEF GatherOrders
<1>2. /\ IntradayDue(c) \subseteq Cards /\ DueToday(c, "DayLearn") \subseteq Cards
      /\ DueToday(c, "Review") \subseteq Cards /\ NewCards(c) \subseteq Cards
  BY DEF IntradayDue, DueToday, NewCards, Active
<1>3. ASSUME NEW T, T \subseteq Cards, NEW s, Lists(s, T) PROVE s \in Seq(Cards)
  BY <1>3 DEF Lists
<1>4. ASSUME NEW T, T \subseteq Cards, NEW s \in SetToSeqs(T) PROVE s \in Seq(Cards)
  <2>1. IsFiniteSet(T)
    BY <1>4, StartAssumption, FS_Subset
  <2> QED BY <2>1, <1>3, <1>4, OrdersList
<1>5. d \in Seq(Cards) /\ r \in Seq(Cards) /\ n \in Seq(Cards)
  BY <1>2, <1>4
<1>6. SetToSeq(IntradayDue(c)) \in Seq(Cards)
  <2>1. IsFiniteSet(IntradayDue(c))
    BY <1>2, StartAssumption, FS_Subset
  <2> QED BY <2>1, <1>2, <1>3, SetToSeqLists
<1>7. g \in Seq(Cards)
  BY <1>1, <1>5, <1>6, ConcatProperties
<1> QED BY <1>7 DEF ToSet

\* The main queue of a build lists cards of its queues, each of them once.
LEMMA MainResult ==
  ASSUME NEW c, c.cards \in [Cards -> Card], NEW g \in GatherOrders(c), NEW m \in MainOrders(c, g)
  PROVE  LET main == [i \in DOMAIN m |-> AsMain(c, m[i])]
         IN /\ main \in Seq(MainEntry) /\ Once(main) /\ m \in Seq(Cards)
            /\ \A e \in Elements(main) : e.id \in Cards /\ c.cards[e.id].queue \in MainQueues
<1> DEFINE main == [i \in DOMAIN m |-> AsMain(c, m[i])]
<1> DEFINE T == {id \in Kept(c, g) : c.cards[id].queue \in MainQueues}
<1>1. \A x \in T : x \in Cards /\ c.cards[x].queue \in MainQueues
  BY GatheredType DEF Kept
<1>2. m \in SetToSeqs(T)
  BY DEF MainOrders
<1> HIDE DEF T
<1>3. IsFiniteSet(T)
  BY <1>1, StartAssumption, FS_Subset
<1>4. Lists(m, T)
  BY <1>2, <1>3, OrdersList
<1>5. m \in Seq(T) /\ DOMAIN m = 1..Len(m) /\ m \in Seq(Cards)
  BY <1>1, <1>4 DEF Lists
<1>6. ASSUME NEW i \in 1..Len(m) PROVE main[i] \in MainEntry /\ main[i].id = m[i]
  <2>1. m[i] \in T
    BY <1>5
  <2>2. main[i] = AsMain(c, m[i])
    BY <1>5
  <2>3. c.cards[m[i]] \in Card /\ m[i] \in Cards /\ c.cards[m[i]].queue \in MainQueues
    BY <1>1, <2>1
  <2>4. c.cards[m[i]].mtime \in Nat
    BY <2>3 DEF Card
  <2> QED BY <2>2, <2>3, <2>4 DEF AsMain, MainEntry
<1>7. main \in [1..Len(m) -> MainEntry] /\ \A i \in 1..Len(m) : main[i].id = m[i]
  <2>1. main = [i \in 1..Len(m) |-> main[i]]
    BY <1>5
  <2> HIDE DEF main
  <2> QED BY <1>6, <2>1
<1> HIDE DEF main
<1>8. main \in Seq(MainEntry) /\ Once(main) /\ \A e \in Elements(main) : e \in MainEntry /\ e.id \in T
  BY <1>4, <1>7, EntriesOfOrder, Zenon
<1> QED BY <1>1, <1>5, <1>8 DEF main

\* A card in intraday learning has an entry for the learning queue.
LEMMA AsLearningType ==
  ASSUME NEW c, c.cards \in [Cards -> Card], NEW id \in Cards
  PROVE  AsLearning(c, id) \in LearningEntry /\ AsLearning(c, id).id = id
<1>1. c.cards[id] \in Card
  OBVIOUS
<1>2. c.cards[id].mtime \in Nat /\ c.cards[id].due \in Nat /\ c.cards[id].reps \in {0, 1}
  BY <1>1 DEF Card
<1> QED BY <1>2 DEF AsLearning, LearningEntry

\* The learning queue of a build lists cards in intraday learning, each of them once.
LEMMA LearningResult ==
  ASSUME NEW c, c.cards \in [Cards -> Card], NEW l \in LearningOrders(c)
  PROVE  /\ l \in Seq(LearningEntry) /\ Once(l)
         /\ \A e \in Elements(l) : e.id \in Cards /\ c.cards[e.id].queue = "Learn"
<1> DEFINE T == IntradayDue(c)
<1>1. \A x \in T : x \in Cards /\ c.cards[x].queue = "Learn"
  BY DEF IntradayDue, Active
<1>2. PICK s \in SetToSeqs(T) : l = [i \in DOMAIN s |-> AsLearning(c, s[i])]
  BY DEF LearningOrders
<1> HIDE DEF T
<1>3. IsFiniteSet(T)
  BY <1>1, StartAssumption, FS_Subset
<1>4. Lists(s, T)
  BY <1>2, <1>3, OrdersList
<1>5. s \in Seq(T) /\ DOMAIN s = 1..Len(s)
  BY <1>4 DEF Lists
<1>6. ASSUME NEW i \in 1..Len(s) PROVE l[i] \in LearningEntry /\ l[i].id = s[i]
  <2>1. s[i] \in Cards
    BY <1>1, <1>5
  <2>2. l[i] = AsLearning(c, s[i])
    BY <1>2, <1>5
  <2> QED BY <2>1, <2>2, AsLearningType
<1>7. l \in [1..Len(s) -> LearningEntry] /\ \A i \in 1..Len(s) : l[i].id = s[i]
  BY <1>2, <1>5, <1>6
<1>8. l \in Seq(LearningEntry) /\ Once(l) /\ \A e \in Elements(l) : e \in LearningEntry /\ e.id \in T
  BY <1>4, <1>7, EntriesOfOrder, Zenon
<1> QED BY <1>1, <1>8

\* A number of cards in a queue.
LEMMA NumberOfType ==
  ASSUME NEW c, NEW m \in Seq(Cards), NEW queue
  PROVE  NumberOf(c, m, queue) \in Nat
<1>1. Len(m) \in Nat
  OBVIOUS
<1>2. IsFiniteSet(1..Len(m))
  BY <1>1, FS_Interval
<1>3. IsFiniteSet({i \in 1..Len(m) : c.cards[m[i]].queue = queue})
  BY <1>2, FS_Subset
<1> QED BY <1>3, FS_CardinalityType DEF NumberOf

\* New queues hold no card twice, and no step remembers their build.
LEMMA BuiltResult ==
  ASSUME now \in Nat, now >= Epoch, NEW c \in Collections, GoodHistory(c.undo),
         NEW q \in BuiltQueues(c)
  PROVE  /\ q \in Queues /\ Distinct(q)
         /\ Agrees(q, <<>>, c.undo.undo_steps, <<>>, Reverse(c.undo.redo_steps))
<1>0. PICK g \in GatherOrders(c) : \E m \in MainOrders(c, g), l \in LearningOrders(c) :
        q = [counts |-> [new |-> NumberOf(c, m, "New"),
                         review |-> NumberOf(c, m, "Review"),
                         learning |-> NumberOf(c, m, "DayLearn")
                                      + CountDue(l, 0, now + LearnAhead)],
             main |-> [i \in DOMAIN m |-> AsMain(c, m[i])],
             learning |-> l, day |-> Today, build |-> FreshBuild(c), cutoff |-> now]
  BY DEF BuiltQueues
<1>1. PICK m \in MainOrders(c, g), l \in LearningOrders(c) :
        q = [counts |-> [new |-> NumberOf(c, m, "New"),
                         review |-> NumberOf(c, m, "Review"),
                         learning |-> NumberOf(c, m, "DayLearn")
                                      + CountDue(l, 0, now + LearnAhead)],
             main |-> [i \in DOMAIN m |-> AsMain(c, m[i])],
             learning |-> l, day |-> Today, build |-> FreshBuild(c), cutoff |-> now]
  BY <1>0
<1>2. c.cards \in [Cards -> Card]
  BY CollectionParts
<1>3. /\ q.main \in Seq(MainEntry) /\ Once(q.main) /\ m \in Seq(Cards)
      /\ \A e \in Elements(q.main) : e.id \in Cards /\ c.cards[e.id].queue \in MainQueues
  <2>1. q.main = [i \in DOMAIN m |-> AsMain(c, m[i])]
    BY <1>1
  <2> QED BY <1>2, <2>1, MainResult
<1>4. /\ q.learning \in Seq(LearningEntry) /\ Once(q.learning)
      /\ \A e \in Elements(q.learning) : e.id \in Cards /\ c.cards[e.id].queue = "Learn"
  <2>1. q.learning = l
    BY <1>1
  <2> QED BY <1>2, <2>1, LearningResult
<1>5. Distinct(q)
  BY <1>3, <1>4 DEF Distinct, Main, Learning, MainQueues
<1>6. c.undo.undo_steps \in Steps /\ c.undo.redo_steps \in Steps
  BY GoodHistoryParts
<1>7. FreshBuild(c) \in Nat \ {0} /\ FreshBuild(c) \notin UsedBuilds(c)
  BY <1>6, FreshBuildIsFresh
<1>8. q \in Queues
  <2>1. /\ NumberOf(c, m, "New") \in Nat /\ NumberOf(c, m, "Review") \in Nat
        /\ NumberOf(c, m, "DayLearn") \in Nat
    BY <1>3, NumberOfType
  <2>2. CountDue(l, 0, now + LearnAhead) \in Nat
    BY <1>1, <1>4, CountDueType
  <2>3. q.counts \in Counts
    BY <1>1, <2>1, <2>2 DEF Counts
  <2>4. q.day \in Nat /\ q.build \in Nat \ {0} /\ q.cutoff \in Nat
    BY <1>1, <1>7, TimeType
  <2>5. q = [counts |-> q.counts, main |-> q.main, learning |-> q.learning,
             day |-> q.day, build |-> q.build, cutoff |-> q.cutoff]
    BY <1>1
  <2> QED BY <1>3, <1>4, <2>3, <2>4, <2>5 DEF Queues
<1>9. ASSUME NEW steps \in Steps, NEW i \in 1..Len(steps), NEW k \in 1..Len(steps[i].changes),
             steps[i] \in ToSet(c.undo.undo_steps) \cup ToSet(c.undo.redo_steps)
      PROVE  ~OfBuild(steps[i].changes[k], q.build)
  <2> SUFFICES ASSUME OfBuild(steps[i].changes[k], q.build) PROVE FALSE
    OBVIOUS
  <2> DEFINE step == steps[i]
  <2>1. step \in Step(Kinds, Change)
    BY DEF Steps
  <2>2. step.changes \in Seq(Change)
    BY <2>1 DEF Step
  <2>3. step.changes[k] \in ToSet(step.changes) /\ step.changes[k].table = "queue"
    BY <2>2 DEF ToSet, OfBuild, OfQueue
  <2>4. q.build \in BuildsOf(step)
    BY <2>3 DEF BuildsOf, OfBuild
  <2>5. q.build = FreshBuild(c)
    BY <1>1
  <2> HIDE DEF step
  <2> QED BY <1>7, <1>9, <2>4, <2>5 DEF UsedBuilds, step
<1>10. \A i \in 1..Len(c.undo.undo_steps) : \A k \in 1..Len(c.undo.undo_steps[i].changes) :
         ~OfBuild(c.undo.undo_steps[i].changes[k], q.build)
  <2>1. \A i \in 1..Len(c.undo.undo_steps) : c.undo.undo_steps[i] \in ToSet(c.undo.undo_steps)
    BY <1>6 DEF ToSet, Steps
  <2> QED BY <1>6, <1>9, <2>1
<1>11. \A i \in 1..Len(Reverse(c.undo.redo_steps)) :
         \A k \in 1..Len(Reverse(c.undo.redo_steps)[i].changes) :
           ~OfBuild(Reverse(c.undo.redo_steps)[i].changes[k], q.build)
  <2> DEFINE steps == c.undo.redo_steps
             r == Reverse(steps)
             n == Len(steps)
  <2>1. n \in Nat /\ r \in Steps /\ Len(r) = n /\ \A i \in 1..n : r[i] = steps[n - i + 1]
    <3>1. n \in Nat
      BY <1>6 DEF Steps
    <3> QED BY <1>6, <3>1, ReversedSteps
  <2>2. \A i \in 1..n : steps[i] \in ToSet(steps)
    BY <1>6 DEF ToSet, Steps
  <2> HIDE DEF r
  <2>3. \A i \in 1..Len(r) : r[i] \in ToSet(steps)
    <3>1. \A i \in 1..n : n - i + 1 \in 1..n
      BY <2>1
    <3> QED BY <2>1, <2>2, <3>1
  <2>4. \A i \in 1..Len(r) : \A k \in 1..Len(r[i].changes) : ~OfBuild(r[i].changes[k], q.build)
    BY <1>9, <2>1, <2>3
  <2> QED BY <2>4 DEF r
<1>12. Agrees(q, <<>>, c.undo.undo_steps, <<>>, Reverse(c.undo.redo_steps))
  <2>1. Reverse(c.undo.redo_steps) \in Steps
    BY <1>6, ReversedSteps
  <2> QED BY <1>6, <1>10, <1>11, <2>1, AgreesFresh
<1> QED BY <1>5, <1>8, <1>12

---------------------------------------------------------------------------
(* Fetching *)

\* Other queues in the same collection.
LEMMA QueuesResult ==
  ASSUME NEW c, NEW rest, Sound(c, rest), NEW q \in Queues, Distinct(q),
         HistoryOf(q, c.undo, rest)
  PROVE  LET d == [c EXCEPT !.queues = q]
         IN Sound(d, rest) /\ d.queues = q /\ d.undo = c.undo
<1> DEFINE d == [c EXCEPT !.queues = q]
<1>1. d \in Collections /\ d.queues = q /\ d.undo = c.undo
  BY DEF Collections, Sound
<1> HIDE DEF d
<1>2. Sound(d, rest)
  BY <1>1 DEF Sound, QueuesSound
<1> QED BY <1>1, <1>2 DEF d

\* What the queues of a collection are.
LEMMA SoundQueues ==
  ASSUME NEW c, NEW rest, Sound(c, rest), HasQueues(c)
  PROVE  /\ c.queues \in Queues /\ Distinct(c.queues)
         /\ HistoryOf(c.queues, c.undo, rest)
BY CollectionParts DEF Sound, QueuesSound, HasQueues

\* The cutoff moves on to the current time.
LEMMA UpdateCutoffResult ==
  ASSUME now \in Nat, NEW q \in Queues, Distinct(q)
  PROVE  LET p == UpdateCutoff(q)
         IN /\ p \in Queues /\ Distinct(p) /\ p.build = q.build /\ p.day = q.day
            /\ Learning(p) = Learning(q) /\ Main(p) = Main(q)
<1> DEFINE n == q.counts.learning + CountDue(q.learning, AheadCutoff(q), now + LearnAhead)
<1>1. q.counts.learning \in Nat /\ q.learning \in Seq(LearningEntry)
  BY QueuesParts DEF Counts
<1>2. CountDue(q.learning, AheadCutoff(q), now + LearnAhead) \in Nat
  BY <1>1, CountDueType
<1>3. n \in Nat
  BY <1>1, <1>2
<1>4. UpdateCutoff(q) = [q EXCEPT !.cutoff = now, !.counts.learning = n]
  BY DEF UpdateCutoff
<1> HIDE DEF n
<1>5. LET p == [q EXCEPT !.cutoff = now, !.counts.learning = n]
      IN /\ p \in Queues /\ Distinct(p) /\ p.build = q.build /\ p.day = q.day
         /\ Learning(p) = Learning(q) /\ Main(p) = Main(q)
  BY <1>3, CutoffResult, Zenon
<1> QED BY <1>4, <1>5, Zenon

\* The cutoff goes back to what it was.
LEMMA RestoreCutoffResult ==
  ASSUME NEW q \in Queues, Distinct(q), NEW snapshot \in Cutoff
  PROVE  LET p == RestoreCutoff(q, snapshot)
         IN /\ p \in Queues /\ Distinct(p) /\ p.build = q.build /\ p.day = q.day
            /\ Learning(p) = Learning(q) /\ Main(p) = Main(q)
<1>1. snapshot.count \in Nat /\ snapshot.cutoff \in Nat
  BY DEF Cutoff
<1>2. RestoreCutoff(q, snapshot)
        = [q EXCEPT !.cutoff = snapshot.cutoff, !.counts.learning = snapshot.count]
  BY DEF RestoreCutoff, Queues
<1>3. LET p == [q EXCEPT !.cutoff = snapshot.cutoff, !.counts.learning = snapshot.count]
      IN /\ p \in Queues /\ Distinct(p) /\ p.build = q.build /\ p.day = q.day
         /\ Learning(p) = Learning(q) /\ Main(p) = Main(q)
  BY <1>1, CutoffResult, Zenon
<1> QED BY <1>2, <1>3, Zenon

\* Counting may move the cutoff.
LEMMA CountedResult ==
  ASSUME now \in Nat, NEW c, NEW rest, Sound(c, rest), HasQueues(c)
  PROVE  LET d == Counted(c)
         IN Sound(d, rest) /\ d.undo = c.undo /\ HasQueues(d)
<1> DEFINE q == c.queues
           p == UpdateCutoff(q)
<1>1. q \in Queues /\ Distinct(q) /\ HistoryOf(q, c.undo, rest)
  BY SoundQueues
<1>2. /\ p \in Queues /\ Distinct(p) /\ p.build = q.build
      /\ Learning(p) = Learning(q) /\ Main(p) = Main(q)
  BY <1>1, UpdateCutoffResult
<1> HIDE DEF p
<1>3. HistoryOf(p, c.undo, rest)
  BY <1>1, <1>2, AgreesFewer DEF HistoryOf
<1>4. Counted(c) = c \/ Counted(c) = [c EXCEPT !.queues = p]
  BY DEF Counted, p
<1>5. LET d == [c EXCEPT !.queues = p]
      IN Sound(d, rest) /\ d.queues = p /\ d.undo = c.undo
  BY <1>2, <1>3, QueuesResult
<1> QED BY <1>2, <1>4, <1>5, QueuesAreThere DEF HasQueues

\* The next entry is one of the queues.
LEMMA NextEntryType ==
  ASSUME NEW q \in Queues
  PROVE  LET e == NextEntry(q) IN e # NoEntry => e \in Entry /\ e.id \in Cards
<1>1. /\ q.learning \in Seq(LearningEntry) /\ q.main \in Seq(MainEntry)
      /\ \A i \in 1..Len(q.learning) : q.learning[i] \in LearningEntry /\ q.learning[i].id \in Cards
      /\ \A i \in 1..Len(q.main) : q.main[i] \in MainEntry /\ q.main[i].id \in Cards
  BY QueuesParts
<1>2. ASSUME NEW to, FirstDue(q, to) # 0 PROVE FirstDue(q, to) \in 1..Len(q.learning)
  <2> DEFINE I == {i \in 1..Len(q.learning) : q.learning[i].due <= to}
  <2>1. FirstDue(q, to) = IF I # {} THEN Min(I) ELSE 0
    BY DEF FirstDue, SelectInSeq
  <2>2. I \subseteq 1..Len(q.learning) /\ I \subseteq Nat
    BY <1>1
  <2> HIDE DEF I
  <2> QED BY <1>2, <2>1, <2>2, MinIsLeast
<1>3. q.main # <<>> => Head(q.main) = q.main[1] /\ 1 \in 1..Len(q.main)
  BY <1>1, TailAndFront
<1> QED BY <1>1, <1>2, <1>3 DEF NextEntry, Entry

\* The queues of today, built if there are none.
LEMMA WithQueuesResult ==
  ASSUME now \in Nat, now >= Epoch, NEW c, Sound(c, <<>>), ~HasStep(c.undo),
         c.undo.mode = "NormalOp", NEW d \in WithQueues(c)
  PROVE  Sound(d, <<>>) /\ ~HasStep(d.undo) /\ d.undo.mode = "NormalOp" /\ HasQueues(d)
<1> DEFINE t == ClearQueuesIfDayChanged(c)
<1>0. <<>> \in ChangeLists
  BY DEF ChangeLists
<1>1. Sound(t, <<>>) /\ ~HasStep(t.undo) /\ t.undo.mode = "NormalOp"
  <2>1. \/ t = c
        \/ /\ \A to \in ChangeLists : Sound(t, to)
           /\ ~HasQueues(t) /\ ~HasStep(t.undo) /\ t.undo.mode = c.undo.mode
    BY <1>0, ClearedResult
  <2> HIDE DEF t
  <2> QED BY <1>0, <2>1
<1>2. \/ HasQueues(t) /\ d = t
      \/ \E q \in BuiltQueues(t) : d = [t EXCEPT !.queues = q]
  BY DEF WithQueues
<1> HIDE DEF t
<1>3. CASE HasQueues(t) /\ d = t
  BY <1>1, <1>3
<1>4. ASSUME NEW q \in BuiltQueues(t), d = [t EXCEPT !.queues = q]
      PROVE  Sound(d, <<>>) /\ ~HasStep(d.undo) /\ d.undo.mode = "NormalOp" /\ HasQueues(d)
  <2>1. /\ q \in Queues /\ Distinct(q)
        /\ Agrees(q, <<>>, t.undo.undo_steps, <<>>, Reverse(t.undo.redo_steps))
    BY <1>1, <1>4, BuiltResult DEF Sound
  <2>2. HistoryOf(q, t.undo, <<>>)
    <3>1. UndoTop(t.undo, <<>>) = <<>> /\ RedoTop(t.undo, <<>>) = <<>>
      BY <1>1 DEF UndoTop, RedoTop
    <3> QED BY <2>1, <3>1 DEF HistoryOf
  <2>3. Sound(d, <<>>) /\ d.queues = q /\ d.undo = t.undo
    BY <1>1, <1>4, <2>1, <2>2, QueuesResult
  <2> QED BY <1>1, <2>1, <2>3, QueuesAreThere DEF HasQueues
<1> QED BY <1>2, <1>3, <1>4

---------------------------------------------------------------------------
(* Answering *)

\* What is on top after a change was recorded.
LEMMA SavedTops ==
  ASSUME NEW u, GoodHistory(u), HasStep(u), NEW ch \in Change, Recordable(ch, u.mode)
  PROVE  LET v == Save(u, ch)
         IN /\ GoodHistory(v) /\ HasStep(v) /\ v.mode = u.mode
            /\ v.undo_steps = u.undo_steps /\ v.redo_steps = u.redo_steps
            /\ v.current_step.kind = u.current_step.kind
            /\ \A left : u.mode = "Undoing" =>
                 /\ UndoTop(v, left) = left
                 /\ RedoTop(v, left) = Append(u.current_step.changes, ch)
            /\ \A left : u.mode = "Redoing" =>
                 /\ UndoTop(v, left) = Append(u.current_step.changes, ch)
                 /\ RedoTop(v, left) = left
            /\ \A left : u.mode = "NormalOp" =>
                 /\ UndoTop(v, left) = Append(u.current_step.changes, ch)
                 /\ RedoTop(v, left) = <<>> /\ Reverse(v.redo_steps) = <<>>
<1> DEFINE v == Save(u, ch)
<1>1. /\ GoodHistory(v) /\ HasStep(v) /\ v.mode = u.mode
      /\ v.undo_steps = u.undo_steps /\ v.redo_steps = u.redo_steps
      /\ v.current_step.kind = u.current_step.kind
      /\ v.current_step.changes = Append(u.current_step.changes, ch)
  BY SaveHistory
<1> HIDE DEF v
<1>2. u.mode = "NormalOp" => Reverse(v.redo_steps) = <<>>
  BY <1>1, NothingReversed DEF GoodHistory
<1> QED BY <1>1, <1>2 DEF UndoTop, RedoTop, v

\* Other queues, with the change that has led to them.
LEMMA QueueSaved ==
  ASSUME NEW c, NEW rest, Sound(c, rest), HasStep(c.undo), NEW p \in Queues, Distinct(p),
         NEW ch \in Change, Recordable(ch, c.undo.mode), NEW left,
         HistoryOf(p, Save(c.undo, ch), left), NEW d,
         d = SaveChange([c EXCEPT !.queues = p], ch)
  PROVE  /\ Sound(d, left) /\ HasStep(d.undo) /\ d.undo.mode = c.undo.mode
         /\ HasQueues(d)
<1> DEFINE v == Save(c.undo, ch)
           e == [c EXCEPT !.queues = p]
<1>1. c \in Collections /\ GoodHistory(c.undo)
  BY DEF Sound
<1>2. GoodHistory(v) /\ HasStep(v) /\ v.mode = c.undo.mode
  <2>1. LET w == Save(c.undo, ch) IN GoodHistory(w) /\ HasStep(w) = HasStep(c.undo) /\ w.mode = c.undo.mode
    BY <1>1, SaveHistory
  <2> QED BY <2>1
<1>3. v \in UndoState(Kinds, Change)
  BY <1>2, GoodHistoryParts
<1>4. e \in Collections /\ e.undo = c.undo /\ e.queues = p
  BY <1>1 DEF Collections
<1> HIDE DEF e
<1>5. d = [e EXCEPT !.undo = v]
  BY <1>4 DEF SaveChange, e
<1>6. HistoryOf(p, v, left)
  OBVIOUS
<1> HIDE DEF v
<1>7. d \in Collections /\ d.undo = v /\ d.queues = p
  BY <1>3, <1>4, <1>5 DEF Collections
<1>8. QueuesSound(p, v, left)
  BY <1>6 DEF QueuesSound
<1> QED BY <1>2, <1>7, <1>8, QueuesAreThere DEF Sound, HasQueues

\* A learning card that is put back may be moved behind the next one.
LEMMA PostponedType ==
  ASSUME NEW q \in Queues, NEW e \in LearningEntry
  PROVE  Postponed(q, e) \in LearningEntry /\ Postponed(q, e).id = e.id
<1>1. q.learning \in Seq(LearningEntry)
  BY QueuesParts
<1>2. CASE q.learning = <<>>
  BY <1>2 DEF Postponed
<1>3. CASE q.learning # <<>>
  <2>1. Head(q.learning) \in LearningEntry
    BY <1>1, <1>3, HeadTailProperties
  <2>2. Head(q.learning).due + 1 \in Nat
    BY <2>1 DEF LearningEntry
  <2>3. /\ [e EXCEPT !.due = Head(q.learning).due + 1] \in LearningEntry
        /\ [e EXCEPT !.due = Head(q.learning).due + 1].id = e.id
    BY <2>2 DEF LearningEntry
  <2> QED BY <2>3 DEF Postponed
<1> QED BY <1>2, <1>3

\* An entry is not the absence of an entry.
LEMMA EntriesAreThere ==
  NoEntry \notin Entry
BY DEF NoEntry, Entry, MainEntry, LearningEntry

\* What is put back, if anything, is the card that was answered.
LEMMA RequeueType ==
  ASSUME NEW c, c.cards \in [Cards -> Card], NEW id \in Cards
  PROVE  LET e == RequeueEntry(c, id)
         IN e = NoEntry \/ (e \in LearningEntry /\ e.id = id /\ e # NoEntry)
<1>1. AsLearning(c, id) \in LearningEntry /\ AsLearning(c, id).id = id
  BY AsLearningType
<1>2. AsLearning(c, id) # NoEntry
  BY <1>1, EntriesAreThere DEF Entry
<1> QED BY <1>1, <1>2 DEF RequeueEntry

\* The change that an answer records.
LEMMA AnsweredChange ==
  ASSUME NEW q \in Queues, NEW entry \in Entry, NEW requeue \in LearningEntry \cup {NoEntry},
         NEW answered \in BOOLEAN
  PROVE  LET ch == [table |-> "queue", answered |-> answered, entry |-> entry,
                    requeue |-> requeue, build |-> q.build, snapshot |-> Snapshot(q)]
         IN /\ ch \in Change /\ OfBuild(ch, q.build) /\ ch.entry = entry
            /\ ch.requeue = requeue /\ ch.answered = answered
<1>1. Snapshot(q) \in Cutoff /\ q.build \in Nat
  BY QueuesParts DEF Snapshot, Cutoff, Counts
<1> HIDE DEF Entry, LearningEntry
<1>2. [table |-> "queue", answered |-> answered, entry |-> entry, requeue |-> requeue,
       build |-> q.build, snapshot |-> Snapshot(q)] \in QueueChange
  BY <1>1 DEF QueueChange
<1> QED BY <1>2 DEF Change, OfBuild, OfQueue

\* After an answer the queues hold the other cards, and the one that was answered if it
\* is put back.
LEMMA AnsweredResult ==
  ASSUME now \in Nat, NEW c, Sound(c, <<>>), HasStep(c.undo), c.undo.mode = "NormalOp",
         HasQueues(c), NEW id, CanPop(c.queues, id), NEW d \in AnsweredQueues(c, id)
  PROVE  Sound(d, <<>>) /\ HasStep(d.undo)
<1> DEFINE old == c.queues
           entry == PoppedEntry(old, id)
           popped == PopEntry(old, id)
           requeued == RequeueEntry(c, id)
           postponed == IF requeued = NoEntry THEN NoEntry ELSE Postponed(popped, requeued)
           inserted == IF requeued = NoEntry THEN {popped} ELSE Inserted(popped, postponed)
<1>1. /\ old \in Queues /\ Distinct(old) /\ HistoryOf(old, c.undo, <<>>)
      /\ c.cards \in [Cards -> Card] /\ GoodHistory(c.undo)
  BY SoundQueues, CollectionParts DEF Sound
<1>2. PICK q \in inserted :
        d = SaveChange([c EXCEPT !.queues = UpdateCutoff(q)],
                       [table |-> "queue", answered |-> TRUE, entry |-> entry,
                        requeue |-> postponed, build |-> q.build, snapshot |-> Snapshot(q)])
  BY DEF AnsweredQueues
<1>3. /\ entry \in Entry /\ entry.id = id /\ id \in Cards /\ entry \in Entries(old)
      /\ popped \in Queues /\ Distinct(popped) /\ SameBuild(popped, old)
      /\ Learning(popped) = Learning(old) \ {entry} /\ Main(popped) = Main(old) \ {entry}
  BY <1>1, PopResult
<1>4. requeued = NoEntry \/ (requeued \in LearningEntry /\ requeued.id = id /\ requeued # NoEntry)
  BY <1>1, <1>3, RequeueType
<1> HIDE DEF entry, popped, requeued, old
<1>5. /\ postponed \in LearningEntry \cup {NoEntry}
      /\ postponed = NoEntry <=> requeued = NoEntry
      /\ postponed # NoEntry => postponed \in LearningEntry /\ postponed.id = id
  <2>1. CASE requeued = NoEntry
    BY <2>1
  <2>2. CASE requeued # NoEntry
    <3>1. postponed \in LearningEntry /\ postponed.id = id
      BY <1>3, <1>4, <2>2, PostponedType
    <3>2. postponed # NoEntry
      <4> HIDE DEF postponed
      <4> QED BY <3>1, EntriesAreThere DEF Entry
    <3> QED BY <2>2, <3>1, <3>2
  <2> QED BY <2>1, <2>2
<1>6. (requeued = NoEntry => q = popped) /\ (requeued # NoEntry => q \in Inserted(popped, postponed))
  OBVIOUS
<1> HIDE DEF postponed, inserted
<1>7. \A f \in Entries(popped) : f.id # id
  BY <1>1, <1>3, DistinctEntries DEF Entries
<1>8. /\ q \in Queues /\ Distinct(q) /\ q.build = old.build /\ Main(q) = Main(old) \ {entry}
      /\ \/ postponed = NoEntry /\ Learning(q) = Learning(old) \ {entry}
         \/ postponed # NoEntry /\ Learning(q) = (Learning(old) \ {entry}) \cup {postponed}
  <2>1. CASE requeued = NoEntry
    BY <1>3, <1>5, <1>6, <2>1 DEF SameBuild
  <2>2. CASE requeued # NoEntry
    <3>1. postponed # NoEntry /\ postponed \in LearningEntry /\ postponed.id = id
      BY <1>5, <2>2
    <3>2. /\ q \in Queues /\ Distinct(q) /\ SameBuild(q, popped)
          /\ Learning(q) = Learning(popped) \cup {postponed} /\ Main(q) = Main(popped)
      BY <1>3, <1>6, <1>7, <2>2, <3>1, InsertResult
    <3> QED BY <1>3, <3>1, <3>2 DEF SameBuild
  <2> QED BY <2>1, <2>2
<1> DEFINE p == UpdateCutoff(q)
           ch == [table |-> "queue", answered |-> TRUE, entry |-> entry,
                  requeue |-> postponed, build |-> q.build, snapshot |-> Snapshot(q)]
<1>9. /\ p \in Queues /\ Distinct(p) /\ p.build = q.build
      /\ Learning(p) = Learning(q) /\ Main(p) = Main(q)
  BY <1>8, UpdateCutoffResult
<1>10. /\ ch \in Change /\ OfBuild(ch, q.build) /\ ch.entry = entry
       /\ ch.requeue = postponed /\ ch.answered = TRUE
  BY <1>3, <1>5, <1>8, AnsweredChange, Zenon
<1>11. d = SaveChange([c EXCEPT !.queues = p], ch)
  BY <1>2
<1> HIDE DEF p, ch
<1>12. Recordable(ch, c.undo.mode)
  BY <1>3, <1>5, <1>10 DEF Recordable
<1>13. HistoryOf(p, Save(c.undo, ch), <<>>)
  <2> DEFINE u == c.undo
             v == Save(u, ch)
             cs == u.current_step.changes
  <2>1. cs \in ChangeLists /\ u.undo_steps \in Steps
    BY <1>1, GoodHistoryParts
  <2>2. /\ v.undo_steps = u.undo_steps /\ UndoTop(v, <<>>) = Append(cs, ch)
        /\ RedoTop(v, <<>>) = <<>> /\ Reverse(v.redo_steps) = <<>>
    BY <1>1, <1>10, <1>12, SavedTops
  <2>3. /\ UndoTop(u, <<>>) = cs /\ RedoTop(u, <<>>) = <<>> /\ Reverse(u.redo_steps) = <<>>
    BY <1>1, NothingReversed DEF UndoTop, RedoTop, GoodHistory
  <2>4. Agrees(old, cs, u.undo_steps, <<>>, <<>>)
    BY <1>1, <2>3 DEF HistoryOf
  <2> HIDE DEF v, cs
  <2>5. Agrees(p, Append(cs, ch), u.undo_steps, <<>>, <<>>)
    <3>1. OfBuild(ch, old.build) /\ p.build = old.build /\ ch.entry \in Entries(old)
      BY <1>3, <1>8, <1>9, <1>10
    <3>2. ch.requeue # NoEntry => ch.requeue.id = ch.entry.id
      BY <1>3, <1>5, <1>10
    <3>3. Main(p) = Main(old) \ {ch.entry}
      BY <1>8, <1>9, <1>10
    <3>4. \/ ch.requeue = NoEntry /\ Learning(p) = Learning(old) \ {ch.entry}
          \/ ch.requeue # NoEntry /\ Learning(p) = (Learning(old) \ {ch.entry}) \cup {ch.requeue}
      BY <1>8, <1>9, <1>10
    <3> QED BY <1>1, <1>9, <1>10, <2>1, <2>4, <3>1, <3>2, <3>3, <3>4, AgreesAnswer
  <2> QED BY <2>2, <2>5 DEF HistoryOf, v
<1> QED BY <1>9, <1>10, <1>11, <1>12, <1>13, QueueSaved

---------------------------------------------------------------------------
(* Reverting changes *)

\* What holds while the changes of a step are reverted and rest is left of them.
Reverting(c, rest, mode) ==
  /\ Sound(c, rest) /\ c.undo.mode = mode
  /\ HasQueues(c) => HasStep(c.undo)

\* The changes of a step that is taken out to be undone, or redone.
Revertible(cs, mode) ==
  /\ cs \in ChangeLists /\ mode \in {"Undoing", "Redoing"}
  /\ Directed(cs, mode = "Undoing")

\* With fewer changes left.
LEMMA SoundPrefix ==
  ASSUME NEW c, NEW rest \in ChangeLists, Sound(c, rest), NEW n \in 0..Len(rest)
  PROVE  Sound(c, SubSeq(rest, 1, n))
<1> DEFINE u == c.undo
           left == SubSeq(rest, 1, n)
<1>1. /\ u.undo_steps \in Steps /\ Reverse(u.redo_steps) \in Steps
      /\ u.mode \in {"NormalOp", "Undoing", "Redoing"}
  BY GoodHistoryParts, ReversedSteps DEF Sound
<1>2. /\ Within(left, u.undo_steps, rest, u.undo_steps)
      /\ Within(left, Reverse(u.redo_steps), rest, Reverse(u.redo_steps))
  BY <1>1, WithinPrefix
<1> HIDE DEF left
<1>3. Narrower(u, left, u, rest)
  <2>1. Within(UndoTop(u, left), u.undo_steps, UndoTop(u, rest), u.undo_steps)
    <3>1. CASE u.mode = "Undoing"
      BY <1>2, <3>1 DEF UndoTop
    <3>2. CASE u.mode # "Undoing"
      <4>1. UndoTop(u, left) = UndoTop(u, rest)
        BY <3>2 DEF UndoTop
      <4> QED BY <4>1, WithinOrder
    <3> QED BY <3>1, <3>2
  <2>2. Within(RedoTop(u, left), Reverse(u.redo_steps), RedoTop(u, rest), Reverse(u.redo_steps))
    <3>1. CASE u.mode = "Redoing"
      BY <1>2, <3>1 DEF RedoTop
    <3>2. CASE u.mode # "Redoing"
      <4>1. RedoTop(u, left) = RedoTop(u, rest)
        BY <3>2 DEF RedoTop
      <4> QED BY <4>1, WithinOrder
    <3> QED BY <3>1, <3>2
  <2> QED BY <2>1, <2>2 DEF Narrower
<1>4. Sound(c, left)
  BY <1>3, SoundNarrowed DEF Sound
<1> QED BY <1>4 DEF left

\* Without queues a change is only recorded.
LEMMA SavedWithoutQueues ==
  ASSUME NEW c, NEW rest, Sound(c, rest), ~HasQueues(c), NEW ch \in Change,
         Recordable(ch, c.undo.mode), NEW left, NEW mode, c.undo.mode = mode
  PROVE  Reverting(SaveChange(c, ch), left, mode)
<1> DEFINE v == Save(c.undo, ch)
           d == [c EXCEPT !.undo = v]
<1>1. c \in Collections /\ GoodHistory(c.undo) /\ c.queues = NoQueues
  BY DEF Sound, HasQueues
<1>2. GoodHistory(v) /\ v.mode = mode
  <2>1. LET w == Save(c.undo, ch) IN GoodHistory(w) /\ w.mode = c.undo.mode
    BY <1>1, SaveHistory
  <2> QED BY <2>1
<1>3. v \in UndoState(Kinds, Change)
  BY <1>2, GoodHistoryParts
<1>4. SaveChange(c, ch) = d
  BY DEF SaveChange
<1> HIDE DEF v
<1>5. d \in Collections /\ d.undo = v /\ d.queues = NoQueues
  BY <1>1, <1>3 DEF Collections
<1> HIDE DEF d
<1> QED BY <1>2, <1>4, <1>5 DEF Reverting, Sound, QueuesSound, HasQueues

\* The last of the changes that are left, when it is one of the queues.
LEMMA LastQueueChange ==
  ASSUME NEW rest, NEW mode, Revertible(rest, mode), NEW n \in 1..Len(rest), n = Len(rest),
         OfQueue(rest[n])
  PROVE  LET ch == rest[n]
         IN /\ ch \in Change /\ ch \in QueueChange /\ rest \in ChangeLists
            /\ ch.entry \in Entry /\ ch.requeue \in LearningEntry \cup {NoEntry}
            /\ ch.snapshot \in Cutoff
            /\ ch.requeue # NoEntry => ch.requeue.id = ch.entry.id
            /\ ch.answered = (mode = "Undoing")
            /\ Recordable(Flipped(ch), mode) /\ Flipped(ch) \in Change
<1> DEFINE ch == rest[n]
<1>1. rest \in Seq(Change) /\ mode \in {"Undoing", "Redoing"} /\ Directed(rest, mode = "Undoing")
  BY DEF Revertible, ChangeLists
<1>2. ch \in Change
  BY <1>1
<1>3. /\ ch.requeue # NoEntry => ch.requeue.id = ch.entry.id
      /\ ch.answered = (mode = "Undoing")
  BY <1>1 DEF Directed, OfQueue
<1> HIDE DEF ch
<1>4. OfQueue(ch)
  BY DEF ch
<1>5. /\ Flipped(ch) \in Change /\ OfQueue(Flipped(ch)) /\ ch \in QueueChange
      /\ Flipped(ch).entry = ch.entry /\ Flipped(ch).requeue = ch.requeue
      /\ Flipped(ch).answered = ~ch.answered
  BY <1>2, <1>4, FlippedChange
<1>6. ch.entry \in Entry /\ ch.requeue \in LearningEntry \cup {NoEntry} /\ ch.snapshot \in Cutoff
  <2> HIDE DEF Entry, LearningEntry, Cutoff
  <2> QED BY <1>5 DEF QueueChange
<1>7. Recordable(Flipped(ch), mode)
  <2>1. Flipped(ch).answered = (mode # "Undoing")
    BY <1>1, <1>3, <1>5
  <2> QED BY <1>3, <1>5, <2>1 DEF Recordable
<1> QED BY <1>1, <1>2, <1>3, <1>5, <1>6, <1>7 DEF ch, ChangeLists

\* Undoing an answer whose queues are still there.
LEMMA UndoAnsweredResult ==
  ASSUME NEW c, NEW rest, Sound(c, rest), Revertible(rest, "Undoing"), c.undo.mode = "Undoing",
         HasQueues(c), HasStep(c.undo), NEW n \in 1..Len(rest), n = Len(rest),
         OfBuild(rest[n], c.queues.build)
  PROVE  Reverting(SaveChange(UndoAnswered(c, rest[n]), Flipped(rest[n])),
                   SubSeq(rest, 1, n - 1), "Undoing")
<1> DEFINE ch == rest[n]
           q0 == c.queues
           q1 == RestoreCutoff(q0, ch.snapshot)
           q2 == IF ch.requeue = NoEntry THEN q1 ELSE RemoveLearning(q1, ch.requeue.id)
           p == PushUndoEntry(q2, ch.entry)
           left == SubSeq(rest, 1, n - 1)
           d == SaveChange(UndoAnswered(c, ch), Flipped(ch))
<1>1. /\ q0 \in Queues /\ Distinct(q0) /\ HistoryOf(q0, c.undo, rest) /\ GoodHistory(c.undo)
  BY SoundQueues DEF Sound
<1>2. /\ ch \in Change /\ rest \in ChangeLists
      /\ ch.entry \in Entry /\ ch.requeue \in LearningEntry \cup {NoEntry}
      /\ ch.snapshot \in Cutoff
      /\ ch.requeue # NoEntry => ch.requeue.id = ch.entry.id
      /\ Recordable(Flipped(ch), "Undoing") /\ Flipped(ch) \in Change
  <2>1. OfQueue(rest[n])
    BY DEF OfBuild
  <2> QED BY <2>1, LastQueueChange
<1>3. UndoAnswered(c, ch) = [c EXCEPT !.queues = p]
  BY DEF UndoAnswered
<1>a. OfBuild(ch, q0.build)
  OBVIOUS
<1> HIDE DEF ch, q0
<1>4. /\ q1 \in Queues /\ Distinct(q1) /\ q1.build = q0.build
      /\ Learning(q1) = Learning(q0) /\ Main(q1) = Main(q0)
  BY <1>1, <1>2, RestoreCutoffResult
<1> HIDE DEF q1
<1>5. /\ q2 \in Queues /\ Distinct(q2) /\ q2.build = q0.build /\ Main(q2) = Main(q0)
      /\ ch.requeue = NoEntry => Learning(q2) = Learning(q0)
      /\ ch.requeue # NoEntry => Learning(q2) = {f \in Learning(q0) : f.id # ch.entry.id}
  <2>1. CASE ch.requeue = NoEntry
    BY <1>4, <2>1
  <2>2. CASE ch.requeue # NoEntry
    <3>1. LET r == RemoveLearning(q1, ch.requeue.id)
          IN /\ r \in Queues /\ Distinct(r) /\ SameBuild(r, q1)
             /\ Learning(r) = {f \in Learning(q1) : f.id # ch.requeue.id} /\ Main(r) = Main(q1)
      BY <1>4, RemoveResult
    <3> QED BY <1>2, <1>4, <2>2, <3>1 DEF SameBuild
  <2> QED BY <2>1, <2>2
<1> HIDE DEF q2
<1>6. /\ UndoTop(c.undo, rest) = rest
      /\ Agrees(q0, rest, c.undo.undo_steps, RedoTop(c.undo, rest), Reverse(c.undo.redo_steps))
  BY <1>1 DEF UndoTop, HistoryOf
<1>7. /\ c.undo.undo_steps \in Steps /\ Reverse(c.undo.redo_steps) \in Steps
      /\ c.undo.current_step.changes \in ChangeLists
      /\ RedoTop(c.undo, rest) = c.undo.current_step.changes
  BY <1>1, GoodHistoryParts, ReversedSteps DEF RedoTop
<1>8. Absent(ch, q0)
  <2>1. InStack(ch, rest, c.undo.undo_steps)
    BY <1>2, <1>7, TopOfStack DEF ch
  <2> QED BY <1>2, <1>6, <1>a, <2>1 DEF Agrees
<1>9. \A f \in Entries(q2) : f.id # ch.entry.id
  BY <1>5, <1>8 DEF Absent, Entries
<1>10. /\ p \in Queues /\ Distinct(p) /\ SameBuild(p, q2)
       /\ Learning(p) = IF IsLearning(ch.entry) THEN Learning(q2) \cup {ch.entry} ELSE Learning(q2)
       /\ Main(p) = IF IsLearning(ch.entry) THEN Main(q2) ELSE Main(q2) \cup {ch.entry}
  BY <1>2, <1>5, <1>9, PushResult
<1> HIDE DEF p
<1>11. /\ p.build = q0.build
       /\ \A e \in Main(p) : e \in Main(q0) \/ (~IsLearning(ch.entry) /\ e = ch.entry)
       /\ \A e \in Learning(p) : e \in Learning(q0) \/ (IsLearning(ch.entry) /\ e = ch.entry)
  BY <1>5, <1>10 DEF SameBuild
<1>12. Agrees(p, left, c.undo.undo_steps, Append(c.undo.current_step.changes, Flipped(ch)),
              Reverse(c.undo.redo_steps))
  BY <1>1, <1>2, <1>6, <1>7, <1>10, <1>11, <1>a, AgreesUndo DEF ch
<1> HIDE DEF left, d
<1>13. HistoryOf(p, Save(c.undo, Flipped(ch)), left)
  <2> DEFINE v == Save(c.undo, Flipped(ch))
  <2>1. /\ v.undo_steps = c.undo.undo_steps /\ v.redo_steps = c.undo.redo_steps
        /\ UndoTop(v, left) = left
        /\ RedoTop(v, left) = Append(c.undo.current_step.changes, Flipped(ch))
    BY <1>1, <1>2, SavedTops
  <2> HIDE DEF v
  <2>2. HistoryOf(p, v, left)
    BY <1>12, <2>1 DEF HistoryOf
  <2> QED BY <2>2 DEF v
<1>14. d = SaveChange([c EXCEPT !.queues = p], Flipped(ch))
  BY <1>3 DEF d
<1>15. Sound(d, left) /\ HasStep(d.undo) /\ d.undo.mode = c.undo.mode /\ HasQueues(d)
  BY <1>2, <1>10, <1>13, <1>14, QueueSaved
<1>16. Reverting(d, left, "Undoing")
  BY <1>15 DEF Reverting
<1> QED BY <1>16 DEF d, left, ch

\* Redoing an answer whose queues are still there.
LEMMA RedoAnsweredResult ==
  ASSUME NEW c, NEW rest, Sound(c, rest), Revertible(rest, "Redoing"), c.undo.mode = "Redoing",
         HasQueues(c), HasStep(c.undo), NEW n \in 1..Len(rest), n = Len(rest),
         OfBuild(rest[n], c.queues.build), CanPop(c.queues, rest[n].entry.id),
         NEW r \in RedoAnswered(c, rest[n])
  PROVE  Reverting(SaveChange(r, Flipped(rest[n])), SubSeq(rest, 1, n - 1), "Redoing")
<1> DEFINE ch == rest[n]
           q0 == c.queues
           id == ch.entry.id
           entry == PoppedEntry(q0, id)
           popped == PopEntry(q0, id)
           inserted == IF ch.requeue = NoEntry THEN {popped} ELSE Inserted(popped, ch.requeue)
           left == SubSeq(rest, 1, n - 1)
           d == SaveChange(r, Flipped(ch))
<1>1. /\ q0 \in Queues /\ Distinct(q0) /\ HistoryOf(q0, c.undo, rest) /\ GoodHistory(c.undo)
  BY SoundQueues DEF Sound
<1>2. /\ ch \in Change /\ rest \in ChangeLists
      /\ ch.requeue \in LearningEntry \cup {NoEntry} /\ ch.snapshot \in Cutoff
      /\ ch.requeue # NoEntry => ch.requeue.id = ch.entry.id
      /\ Recordable(Flipped(ch), "Redoing") /\ Flipped(ch) \in Change
  <2>1. OfQueue(rest[n])
    BY DEF OfBuild
  <2> QED BY <2>1, LastQueueChange
<1>3. PICK q \in inserted : r = [c EXCEPT !.queues = RestoreCutoff(q, ch.snapshot)]
  BY DEF RedoAnswered
<1>a. OfBuild(ch, q0.build) /\ CanPop(q0, id)
  OBVIOUS
<1> HIDE DEF ch, q0
<1>4. /\ entry.id = id /\ entry \in Entries(q0)
      /\ popped \in Queues /\ Distinct(popped) /\ SameBuild(popped, q0)
      /\ Learning(popped) = Learning(q0) \ {entry} /\ Main(popped) = Main(q0) \ {entry}
  BY <1>1, <1>a, PopResult
<1>5. (ch.requeue = NoEntry => q = popped) /\ (ch.requeue # NoEntry => q \in Inserted(popped, ch.requeue))
  BY <1>3
<1> HIDE DEF entry, popped, inserted
<1>6. \A f \in Entries(popped) : f.id # id
  BY <1>1, <1>4, DistinctEntries DEF Entries
<1>7. /\ q \in Queues /\ Distinct(q) /\ q.build = q0.build /\ Main(q) = Main(q0) \ {entry}
      /\ \/ ch.requeue = NoEntry /\ Learning(q) = Learning(q0) \ {entry}
         \/ ch.requeue # NoEntry /\ Learning(q) = (Learning(q0) \ {entry}) \cup {ch.requeue}
  <2>1. CASE ch.requeue = NoEntry
    BY <1>4, <1>5, <2>1 DEF SameBuild
  <2>2. CASE ch.requeue # NoEntry
    <3>1. /\ q \in Queues /\ Distinct(q) /\ SameBuild(q, popped)
          /\ Learning(q) = Learning(popped) \cup {ch.requeue} /\ Main(q) = Main(popped)
      BY <1>2, <1>4, <1>5, <1>6, <2>2, InsertResult
    <3> QED BY <1>4, <2>2, <3>1 DEF SameBuild
  <2> QED BY <2>1, <2>2
<1> DEFINE p == RestoreCutoff(q, ch.snapshot)
<1>8. /\ p \in Queues /\ Distinct(p) /\ p.build = q.build
      /\ Learning(p) = Learning(q) /\ Main(p) = Main(q)
  BY <1>2, <1>7, RestoreCutoffResult
<1>9. d = SaveChange([c EXCEPT !.queues = p], Flipped(ch))
  BY <1>3
<1> HIDE DEF p, d
<1>10. /\ c.undo.undo_steps \in Steps /\ Reverse(c.undo.redo_steps) \in Steps
       /\ c.undo.current_step.changes \in ChangeLists
       /\ UndoTop(c.undo, rest) = c.undo.current_step.changes /\ RedoTop(c.undo, rest) = rest
  BY <1>1, GoodHistoryParts, ReversedSteps DEF RedoTop, UndoTop
<1>11. Agrees(q0, c.undo.current_step.changes, c.undo.undo_steps, rest, Reverse(c.undo.redo_steps))
  BY <1>1, <1>10 DEF HistoryOf
<1>12. Agrees(p, Append(c.undo.current_step.changes, Flipped(ch)), c.undo.undo_steps, left,
              Reverse(c.undo.redo_steps))
  <2>1. p.build = q0.build /\ Main(p) = Main(q0) \ {entry}
    BY <1>7, <1>8
  <2>2. \/ ch.requeue = NoEntry /\ Learning(p) = Learning(q0) \ {entry}
        \/ ch.requeue # NoEntry /\ Learning(p) = (Learning(q0) \ {entry}) \cup {ch.requeue}
    BY <1>7, <1>8
  <2> QED BY <1>1, <1>2, <1>4, <1>8, <1>10, <1>11, <1>a, <2>1, <2>2, AgreesRedo DEF ch
<1> HIDE DEF left
<1>13. HistoryOf(p, Save(c.undo, Flipped(ch)), left)
  <2> DEFINE v == Save(c.undo, Flipped(ch))
  <2>1. /\ v.undo_steps = c.undo.undo_steps /\ v.redo_steps = c.undo.redo_steps
        /\ UndoTop(v, left) = Append(c.undo.current_step.changes, Flipped(ch))
        /\ RedoTop(v, left) = left
    BY <1>1, <1>2, SavedTops
  <2> HIDE DEF v
  <2>2. HistoryOf(p, v, left)
    BY <1>12, <2>1 DEF HistoryOf
  <2> QED BY <2>2 DEF v
<1>15. Sound(d, left) /\ HasStep(d.undo) /\ d.undo.mode = c.undo.mode /\ HasQueues(d)
  BY <1>2, <1>8, <1>9, <1>13, QueueSaved
<1>16. Reverting(d, left, "Redoing")
  BY <1>15 DEF Reverting
<1> QED BY <1>16 DEF d, left, ch

\* Reverting the last of the changes that are left.
LEMMA RevertResult ==
  ASSUME now \in Nat, now >= Epoch, NEW c, NEW rest, NEW mode, Reverting(c, rest, mode),
         Revertible(rest, mode), NEW n \in 1..Len(rest), n = Len(rest),
         NEW d \in Revert(rest[n], c)
  PROVE  Reverting(d, SubSeq(rest, 1, n - 1), mode)
<1> DEFINE ch == rest[n]
           left == SubSeq(rest, 1, n - 1)
<1>1. Sound(c, rest) /\ c.undo.mode = mode /\ (HasQueues(c) => HasStep(c.undo))
  BY DEF Reverting
<1>2. rest \in ChangeLists /\ mode \in {"Undoing", "Redoing"}
  BY DEF Revertible
<1>3. left \in ChangeLists
  BY <1>2, OldestSteps, SubSeqProperties DEF ChangeLists
<1>4. ch \in Change
  BY <1>2 DEF ChangeLists
<1>5. ASSUME NEW e, Sound(e, rest), Keeping(c, e)
      PROVE  Reverting(e, left, mode)
  <2>1. n - 1 \in 0..Len(rest)
    BY <1>2 DEF ChangeLists
  <2>2. Sound(e, left)
    BY <1>2, <1>5, <2>1, SoundPrefix
  <2> QED BY <1>1, <1>5, <2>2 DEF Reverting, Keeping, HasQueues
<1>6. CASE ch.table = "card"
  <2>1. ch.id \in Cards /\ ch.old \in Card
    <3> HIDE DEF Card
    <3> QED BY <1>4, <1>6 DEF Change, CardChange, ConfigChange, QueueChange
  <2>2. d = UpdateCardUndoable(c, ch.id, ch.old)
    BY <1>6 DEF Revert
  <2>3. Sound(d, rest) /\ Keeping(c, d)
    BY <1>1, <1>2, <2>1, <2>2, StoreResult
  <2> QED BY <1>5, <2>3
<1>7. CASE ch.table = "config"
  <2>1. ch.old \in Nat
    <3> HIDE DEF Card
    <3> QED BY <1>4, <1>7 DEF Change, CardChange, ConfigChange, QueueChange
  <2>2. d = SetLastUnburied(c, ch.old)
    BY <1>7 DEF Revert
  <2>3. Sound(d, rest) /\ Keeping(c, d)
    BY <1>1, <1>2, <2>1, <2>2, SetLastUnburiedResult
  <2> QED BY <1>5, <2>3
<1>8. CASE ch.table = "queue"
  <2> DEFINE t == ClearQueuesIfDayChanged(c)
             valid == ValidQueues(c, ch.build)
  <2>1. /\ Flipped(ch) \in Change /\ Recordable(Flipped(ch), mode)
        /\ ch.answered = (mode = "Undoing")
    BY <1>8, LastQueueChange DEF OfQueue
  <2>2. \/ t = c
        \/ /\ \A to \in ChangeLists : Sound(t, to)
           /\ ~HasQueues(t) /\ ~HasStep(t.undo) /\ t.undo.mode = c.undo.mode
    BY <1>1, <1>2, ClearedResult
  <2>3. \/ valid = t /\ t.queues.build = ch.build
        \/ valid = [t EXCEPT !.queues = NoQueues]
    BY DEF ValidQueues
  <2>4. d \in RevertQueueChange(c, ch)
    BY <1>8 DEF Revert
  <2>5. \/ ~HasQueues(valid) /\ d = SaveChange(valid, Flipped(ch))
        \/ /\ HasQueues(valid) /\ ch.answered
           /\ d = SaveChange(UndoAnswered(valid, ch), Flipped(ch))
        \/ /\ HasQueues(valid) /\ ~ch.answered /\ CanPop(valid.queues, ch.entry.id)
           /\ \E r \in RedoAnswered(valid, ch) : d = SaveChange(r, Flipped(ch))
    <3> HIDE DEF valid
    <3> QED BY <2>4 DEF RevertQueueChange, valid, Flipped
  <2>6. /\ Sound(t, rest) /\ t.undo.mode = mode
        /\ (t = c /\ (HasQueues(c) => HasStep(c.undo))) \/ ~HasQueues(t)
    <3> HIDE DEF t
    <3> QED BY <1>1, <1>2, <2>2
  <2> HIDE DEF t, valid, ch
  <2>7. /\ Sound(valid, rest) /\ valid.undo.mode = mode
        /\ HasQueues(valid) => /\ HasStep(valid.undo) /\ valid.queues.build = ch.build
    <3> DEFINE e == [t EXCEPT !.queues = NoQueues]
    <3>1. e \in Collections /\ e.queues = NoQueues /\ e.undo = t.undo
      BY <2>6 DEF Sound, Collections
    <3>2. Sound(e, rest) /\ e.undo.mode = mode /\ ~HasQueues(e)
      BY <2>6, <3>1 DEF Sound, QueuesSound, HasQueues
    <3> HIDE DEF e
    <3>3. (valid = t /\ t.queues.build = ch.build) \/ valid = e
      BY <2>3 DEF e
    <3> QED BY <2>6, <3>2, <3>3
  <2>8. CASE ~HasQueues(valid)
    BY <2>1, <2>5, <2>7, <2>8, SavedWithoutQueues
  <2>9. CASE HasQueues(valid)
    <3>1. OfBuild(rest[n], valid.queues.build)
      BY <1>8, <2>7, <2>9 DEF OfBuild, OfQueue, ch
    <3>2. CASE mode = "Undoing"
      <4>1. d = SaveChange(UndoAnswered(valid, ch), Flipped(ch))
        BY <2>1, <2>5, <2>9, <3>2
      <4> QED BY <2>7, <2>9, <3>1, <3>2, <4>1, UndoAnsweredResult DEF ch
    <3>3. CASE mode = "Redoing"
      <4>1. /\ CanPop(valid.queues, ch.entry.id)
            /\ \E r \in RedoAnswered(valid, ch) : d = SaveChange(r, Flipped(ch))
        BY <2>1, <2>5, <2>9, <3>3
      <4> QED BY <2>7, <2>9, <3>1, <3>3, <4>1, RedoAnsweredResult DEF ch
    <3> QED BY <1>2, <3>2, <3>3
  <2> QED BY <2>8, <2>9
<1>9. ch.table \in {"card", "config", "queue"}
  <2> HIDE DEF Card, ch
  <2> QED BY <1>4 DEF Change, CardChange, ConfigChange, QueueChange
<1> QED BY <1>6, <1>7, <1>8, <1>9

\* One change after another is reverted, the newest first.
Reverts(f, c, changes, m) ==
  f = [n \in 0..m |-> IF n = 0 THEN {c}
                      ELSE UNION {Revert(changes[Len(changes) - n + 1], d) : d \in f[n - 1]}]

\* The equation behind RevertAll has a solution.
LEMMA RevertExists ==
  ASSUME NEW c, NEW changes, NEW n \in Nat
  PROVE  \E f : Reverts(f, c, changes, n)
<1> DEFINE Grown(S, i) == UNION {Revert(changes[Len(changes) - i + 1], d) : d \in S}
           Bad == {m \in Nat : \A f : ~Reverts(f, c, changes, m)}
<1> SUFFICES ASSUME n \in Bad PROVE FALSE
  OBVIOUS
<1>1. PICK m \in Bad : \A k \in Bad : ~(k < m)
  <2>1. Bad \subseteq Nat
    OBVIOUS
  <2> HIDE DEF Bad
  <2> QED BY <2>1, LeastNatural
<1>2. ASSUME NEW f, NEW k \in Nat
      PROVE  Reverts(f, c, changes, k)
               <=> f = [i \in 0..k |-> IF i = 0 THEN {c} ELSE Grown(f[i - 1], i)]
  BY DEF Reverts
<1>3. m \in Nat /\ \A f : ~Reverts(f, c, changes, m)
  OBVIOUS
<1>4. ASSUME NEW k \in Nat, k < m PROVE \E f : Reverts(f, c, changes, k)
  BY <1>1, <1>4
<1> HIDE DEF Grown, Bad
<1>5. CASE m = 0
  <2> DEFINE j == [i \in 0..0 |-> {c}]
  <2>1. j = [i \in 0..0 |-> IF i = 0 THEN {c} ELSE Grown(j[i - 1], i)]
    OBVIOUS
  <2> QED BY <1>2, <1>3, <1>5, <2>1
<1>6. CASE m > 0
  <2>1. m - 1 \in Nat /\ m - 1 < m
    BY <1>3, <1>6
  <2>2. PICK g : Reverts(g, c, changes, m - 1)
    BY <1>4, <2>1
  <2>3. g = [i \in 0..(m - 1) |-> IF i = 0 THEN {c} ELSE Grown(g[i - 1], i)]
    BY <1>2, <2>1, <2>2
  <2> DEFINE last == Grown(g[m - 1], m)
             j == [i \in 0..m |-> IF i = m THEN last ELSE g[i]]
             rhs == [i \in 0..m |-> IF i = 0 THEN {c} ELSE Grown(j[i - 1], i)]
  <2> HIDE DEF last
  <2>4. ASSUME NEW i \in 0..m PROVE j[i] = rhs[i]
    <3>1. CASE i = m
      <4>1. m - 1 \in 0..m /\ m - 1 # m /\ m # 0
        BY <1>3, <1>6
      <4>2. j[m] = last /\ j[m - 1] = g[m - 1]
        BY <1>3, <4>1
      <4>3. rhs[m] = Grown(j[m - 1], m)
        <5> HIDE DEF j
        <5> QED BY <1>3, <4>1
      <4> QED BY <3>1, <4>2, <4>3 DEF last
    <3>2. CASE i # m
      <4>1. j[i] = g[i] /\ i \in 0..(m - 1)
        BY <1>3, <3>2
      <4>2. g[i] = IF i = 0 THEN {c} ELSE Grown(g[i - 1], i)
        BY <2>3, <4>1
      <4>3. i # 0 => j[i - 1] = g[i - 1]
        BY <1>3, <4>1
      <4>4. rhs[i] = IF i = 0 THEN {c} ELSE Grown(j[i - 1], i)
        <5> HIDE DEF j
        <5> QED OBVIOUS
      <4> QED BY <4>1, <4>2, <4>3, <4>4
    <3> QED BY <3>1, <3>2
  <2>5. j = rhs
    <3>1. DOMAIN j = 0..m /\ DOMAIN rhs = 0..m
      OBVIOUS
    <3>2. j = [i \in 0..m |-> j[i]] /\ rhs = [i \in 0..m |-> rhs[i]]
      OBVIOUS
    <3> HIDE DEF j, rhs
    <3> QED BY <2>4, <3>1, <3>2
  <2> QED BY <1>2, <1>3, <2>5
<1> QED BY <1>3, <1>5, <1>6

\* Whatever reverting a list of changes can lead to.
LEMMA RevertAllResult ==
  ASSUME now \in Nat, now >= Epoch, NEW c, NEW changes, NEW mode,
         Reverting(c, changes, mode), Revertible(changes, mode), NEW d \in RevertAll(c, changes)
  PROVE  Reverting(d, <<>>, mode)
<1> DEFINE L == Len(changes)
           f == CHOOSE g : Reverts(g, c, changes, L)
           Left(n) == SubSeq(changes, 1, L - n)
<1>1. changes \in ChangeLists /\ L \in Nat /\ changes \in Seq(Change)
  BY DEF Revertible, ChangeLists
<1>2. RevertAll(c, changes) = f[L]
  BY DEF RevertAll, Reverts
<1>3. Reverts(f, c, changes, L)
  <2> HIDE DEF L
  <2> QED BY <1>1, RevertExists
<1> HIDE DEF f
<1>4. ASSUME NEW n \in 0..L
      PROVE  f[n] = IF n = 0 THEN {c}
                    ELSE UNION {Revert(changes[Len(changes) - n + 1], e) : e \in f[n - 1]}
  BY <1>3, Zenon DEF Reverts
<1> DEFINE Bad == {n \in 0..L : \E e \in f[n] : ~Reverting(e, Left(n), mode)}
<1>5. Bad = {}
  <2> SUFFICES ASSUME Bad # {} PROVE FALSE
    OBVIOUS
  <2>1. PICK n \in Bad : \A k \in Bad : ~(k < n)
    <3>1. Bad \subseteq Nat
      BY <1>1
    <3> HIDE DEF Bad
    <3> QED BY <3>1, LeastNatural
  <2>2. n \in 0..L
    OBVIOUS
  <2>3. PICK e \in f[n] : ~Reverting(e, Left(n), mode)
    OBVIOUS
  <2>4. CASE n = 0
    <3>1. Left(0) = changes
      BY <1>1, SubSeqProperties
    <3> QED BY <1>4, <2>2, <2>3, <2>4, <3>1
  <2>5. CASE n > 0
    <3>1. n - 1 \in 0..L /\ n - 1 < n /\ L - n + 1 \in 1..L /\ L - (n - 1) = L - n + 1
      BY <1>1, <2>2, <2>5
    <3>2. n - 1 \notin Bad
      <4> HIDE DEF Bad
      <4> QED BY <2>1, <3>1
    <3>b. e \in UNION {Revert(changes[L - n + 1], b) : b \in f[n - 1]}
      <4>1. f[n] = UNION {Revert(changes[L - n + 1], b) : b \in f[n - 1]}
        <5>1. n # 0
          BY <2>2, <2>5
        <5>2. f[n] = IF n = 0 THEN {c}
                     ELSE UNION {Revert(changes[L - n + 1], b) : b \in f[n - 1]}
          BY <1>4, <2>2, Zenon
        <5> QED BY <5>1, <5>2, Zenon
      <4> QED BY <2>3, <4>1, Zenon
    <3>3. PICK b \in f[n - 1] : e \in Revert(changes[L - n + 1], b)
      BY <3>b, Zenon
    <3> DEFINE i == L - n + 1
               rest == SubSeq(changes, 1, i)
    <3>4. Reverting(b, rest, mode)
      BY <3>1, <3>2, <3>3
    <3>a. i \in 1..L /\ i - 1 = L - n
      BY <1>1, <2>2, <3>1
    <3> HIDE DEF i, L
    <3>5. rest \in ChangeLists /\ Len(rest) = i /\ \A k \in 1..i : rest[k] = changes[k]
      BY <1>1, <3>a, SubSeqProperties DEF ChangeLists, L
    <3>6. rest[i] = changes[i] /\ i \in 1..Len(rest)
      BY <3>a, <3>5
    <3>7. Revertible(rest, mode)
      <4>1. \A k \in 1..Len(rest) : k \in 1..Len(changes) /\ rest[k] = changes[k]
        BY <1>1, <3>a, <3>5 DEF L
      <4> HIDE DEF rest
      <4> QED BY <3>5, <4>1 DEF Revertible, Directed, OfQueue
    <3>8. SubSeq(rest, 1, i - 1) = Left(n)
      <4>1. SubSeq(rest, 1, i - 1) = SubSeq(changes, 1, i - 1)
        BY <1>1, <3>a, <3>5, SubSeqProperties DEF ChangeLists, L
      <4> QED BY <3>a, <4>1
    <3>9. e \in Revert(rest[i], b)
      BY <3>3, <3>6 DEF i
    <3> HIDE DEF rest
    <3>10. Reverting(e, SubSeq(rest, 1, i - 1), mode)
      BY <3>4, <3>5, <3>6, <3>7, <3>9, RevertResult
    <3> QED BY <2>3, <3>8, <3>10
  <2> QED BY <1>1, <2>2, <2>4, <2>5
<1>6. L \in 0..L
  BY <1>1
<1>7. Reverting(d, Left(L), mode)
  BY <1>2, <1>5, <1>6
<1>8. Left(L) = <<>>
  BY <1>1, SubSeqProperties
<1> QED BY <1>7, <1>8

---------------------------------------------------------------------------
(* The inductive invariant *)

\* Between two calls no step is open and no step is being undone or redone; only a call
\* that has panicked can leave the mode as it is while it reverts.
Settled(c) == Sound(c, <<>>) /\ ~HasStep(c.undo) /\ c.undo.mode = "NormalOp"
Poisoned(c) == Sound(c, <<>>) /\ ~HasStep(c.undo)

IInv ==
  /\ now \in Nat /\ now >= Epoch
  /\ shown \in [id : Cards, day : Nat] \cup {NoCard}
  /\ panicked \in BOOLEAN
  /\ Poisoned(col)
  /\ ~panicked => Settled(col)

\* Another history in the same collection.
LEMMA HistoryResult ==
  ASSUME NEW c, NEW rest, Sound(c, rest), NEW v, GoodHistory(v), NEW left,
         Narrower(v, left, c.undo, rest)
  PROVE  LET d == [c EXCEPT !.undo = v]
         IN Sound(d, left) /\ d.undo = v /\ d.queues = c.queues
<1> DEFINE d == [c EXCEPT !.undo = v]
<1>1. v \in UndoState(Kinds, Change)
  BY GoodHistoryParts
<1>2. d \in Collections /\ d.undo = v /\ d.queues = c.queues
  BY <1>1 DEF Collections, Sound
<1> HIDE DEF d
<1>3. QueuesSound(c.queues, v, left)
  BY SoundNarrowed DEF Sound
<1>4. Sound(d, left)
  BY <1>2, <1>3 DEF Sound
<1> QED BY <1>2, <1>4 DEF d

\* A transaction that was begun, before anything was changed.
LEMMA Beginning ==
  ASSUME NEW c, Settled(c), NEW kind \in Kinds
  PROVE  LET d == Began(c, kind)
         IN /\ Sound(d, <<>>) /\ HasStep(d.undo) /\ d.undo.mode = "NormalOp"
            /\ d.queues = c.queues /\ d.cards = c.cards
<1>1. <<>> \in ChangeLists
  BY DEF ChangeLists
<1> QED BY <1>1, BeganResult DEF Settled

\* A transaction that ends, with or without an error.
LEMMA Ending ==
  ASSUME NEW c, Sound(c, <<>>)
  PROVE  /\ HasStep(c.undo) => Settled(Committed(c))
         /\ Settled(RolledBack(c))
<1>1. <<>> \in ChangeLists
  BY DEF ChangeLists
<1>2. LET d == RolledBack(c)
      IN Sound(d, <<>>) /\ ~HasQueues(d) /\ ~HasStep(d.undo) /\ d.undo.mode = "NormalOp"
  BY <1>1, DiscardResult
<1>3. HasStep(c.undo) =>
        LET d == Committed(c)
        IN Sound(d, <<>>) /\ ~HasStep(d.undo) /\ d.undo.mode = "NormalOp"
  BY CommittedResult
<1> QED BY <1>2, <1>3 DEF Settled

\* The card a step shows.
LEMMA ShownCard ==
  ASSUME IInv, shown # NoCard
  PROVE  shown.id \in Cards /\ shown.day \in Nat
BY DEF IInv, NoCard

\* Each of the operations keeps the invariant.
LEMMA OperationKeeps ==
  ASSUME IInv, NEW kind, NEW c, Sound(c, <<>>), HasStep(c.undo), Operation(kind, c)
  PROVE  IInv'
<1>1. Settled(col')
  BY Ending DEF Operation
<1>2. shown' \in {NoCard, shown} /\ now' = now /\ panicked' = panicked
  BY DEF Operation, Refreshed
<1> QED BY <1>1, <1>2 DEF IInv, Settled, Poisoned

\* Initially there are neither queues nor a history.
LEMMA InitKeeps ==
  ASSUME Init
  PROVE  IInv
<1>1. GoodHistory(InitUndo) /\ ~HasStep(InitUndo) /\ InitUndo.mode = "NormalOp"
  <2>1. GoodUndo(InitUndo, Kinds, Change)
    BY InitUndoType
  <2>2. /\ InitUndo.undo_steps = <<>> /\ InitUndo.redo_steps = <<>>
        /\ InitUndo.current_step = NoStep /\ InitUndo.mode = "NormalOp"
    BY DEF InitUndo
  <2> QED BY <2>1, <2>2, EmptyHistory DEF GoodHistory, HasStep
<1>2. InitUndo \in UndoState(Kinds, Change)
  BY <1>1, GoodHistoryParts
<1> HIDE DEF InitUndo
<1>3. /\ col \in Collections /\ col.undo = InitUndo /\ col.queues = NoQueues
  BY <1>2, StartAssumption DEF Init, Collections
<1>4. Settled(col)
  BY <1>1, <1>3 DEF Settled, Sound, QueuesSound
<1>5. now \in Nat /\ now >= Epoch /\ shown = NoCard /\ panicked = FALSE
  BY DEF Init, Epoch
<1> QED BY <1>4, <1>5 DEF IInv, Settled, Poisoned

\* After a restart there are neither queues nor a history.
LEMMA RestartKeeps ==
  ASSUME IInv, Restart
  PROVE  IInv'
<1>1. GoodHistory(InitUndo) /\ ~HasStep(InitUndo) /\ InitUndo.mode = "NormalOp"
  <2>1. GoodUndo(InitUndo, Kinds, Change)
    BY InitUndoType
  <2>2. /\ InitUndo.undo_steps = <<>> /\ InitUndo.redo_steps = <<>>
        /\ InitUndo.current_step = NoStep /\ InitUndo.mode = "NormalOp"
    BY DEF InitUndo
  <2> QED BY <2>1, <2>2, EmptyHistory DEF GoodHistory, HasStep
<1>2. InitUndo \in UndoState(Kinds, Change)
  BY <1>1, GoodHistoryParts
<1> HIDE DEF InitUndo
<1>3. /\ col' \in Collections /\ col'.undo = InitUndo /\ col'.queues = NoQueues
  BY <1>2 DEF Restart, Collections, IInv, Poisoned, Sound
<1>4. Settled(col')
  BY <1>1, <1>3 DEF Settled, Sound, QueuesSound
<1> QED BY <1>4 DEF IInv, Settled, Poisoned, Restart

\* Fetching builds queues or moves their cutoff.
LEMMA GetQueuedCardsKeeps ==
  ASSUME IInv, GetQueuedCards
  PROVE  IInv'
<1>1. now \in Nat /\ now >= Epoch /\ Settled(col)
  BY DEF IInv, GetQueuedCards
<1>2. PICK c \in WithQueues(col) :
        LET counted == Counted(c)
            next == NextEntry(counted.queues)
        IN /\ col' = counted
           /\ shown' = IF next # NoEntry /\ next.mtime = counted.cards[next.id].mtime
                       THEN [id |-> next.id, day |-> Today] ELSE NoCard
  BY DEF GetQueuedCards
<1>3. Sound(c, <<>>) /\ ~HasStep(c.undo) /\ c.undo.mode = "NormalOp" /\ HasQueues(c)
  BY <1>1, WithQueuesResult DEF Settled
<1>4. Sound(col', <<>>) /\ col'.undo = c.undo /\ HasQueues(col')
  BY <1>1, <1>2, <1>3, CountedResult
<1>5. shown' \in [id : Cards, day : Nat] \cup {NoCard}
  <2>1. col'.queues \in Queues
    BY <1>4, SoundQueues
  <2> DEFINE next == NextEntry(col'.queues)
  <2>2. next # NoEntry => next.id \in Cards
    BY <2>1, NextEntryType
  <2>3. Today \in Nat
    BY <1>1, TimeType
  <2>4. shown' = NoCard \/ (next # NoEntry /\ shown' = [id |-> next.id, day |-> Today])
    BY <1>2
  <2> HIDE DEF next
  <2> QED BY <2>2, <2>3, <2>4
<1> QED BY <1>1, <1>3, <1>4, <1>5 DEF IInv, Settled, Poisoned, GetQueuedCards

\* What an answer makes of a card is a card.
LEMMA AnswersForType ==
  ASSUME IInv, NEW id \in Cards, NEW card \in AnswersFor(id)
  PROVE  card \in Card
<1> DEFINE old == col.cards[id]
<1>1. old \in Card
  BY CollectionParts DEF IInv, Poisoned, Sound
<1>2. now \in Nat /\ Today \in Nat /\ NextDayAt \in Nat
  BY TimeType DEF IInv
<1>3. \A delay \in Delays, fuzz \in 0..MaxFuzz : now + delay + fuzz \in Nat
  BY <1>2, TimeAssumption
<1> HIDE DEF old
<1>4. {"Learn", "DayLearn", "Review", "Suspended"} \subseteq CardQueue
  BY DEF CardQueue, MainQueues
<1>5. Today + 1 \in Nat
  BY <1>2
<1>6. RestoredQueue(old) \in CardQueue
  BY <1>1, RestoredType
<1> HIDE DEF CardQueue
<1>8. CASE id \in PreviewCards
  <2> DEFINE Again(delay, fuzz) == [old EXCEPT !.queue = "Learn", !.due = now + delay + fuzz]
             gone == [old EXCEPT !.in_deck = FALSE, !.queue = RestoredQueue(old)]
  <2>1. ASSUME NEW delay \in Delays, NEW fuzz \in 0..MaxFuzz PROVE Again(delay, fuzz) \in Card
    <3> DEFINE due == now + delay + fuzz
    <3>1. due \in Nat
      BY <1>3
    <3> HIDE DEF due
    <3>2. [old EXCEPT !.queue = "Learn", !.due = due] \in Card
      BY <1>1, <1>4, <3>1 DEF Card
    <3> QED BY <3>2, Zenon DEF due
  <2>2. gone \in Card
    <3> DEFINE queue == RestoredQueue(old)
    <3>1. queue \in CardQueue
      BY <1>6
    <3> HIDE DEF queue
    <3>2. [old EXCEPT !.in_deck = FALSE, !.queue = queue] \in Card
      BY <1>1, <3>1 DEF Card
    <3> QED BY <3>2, Zenon DEF queue
  <2>3. AnswersFor(id) = PreviewAnswers(old)
    BY <1>8 DEF AnswersFor, old
  <2>4. PreviewAnswers(old)
          = {Again(delay, fuzz) : delay \in Delays, fuzz \in 0..MaxFuzz} \cup {gone}
    BY DEF PreviewAnswers
  <2> HIDE DEF Again, gone
  <2> QED BY <2>1, <2>2, <2>3, <2>4
<1>9. CASE id \notin PreviewCards
  <2> DEFINE answered == [old EXCEPT !.reps = 1]
             Review(queue) ==
               [answered EXCEPT !.ctype = "Review", !.queue = queue, !.due = Today + 1]
             Relearned == {LearningStep(answered, delay, fuzz) : delay \in Delays, fuzz \in 0..MaxFuzz}
             Reviews == {Review(queue) : queue \in {"Review", "Suspended"}}
  <2>1. answered \in Card
    BY <1>1 DEF Card
  <2>2. AnswersFor(id) = NormalAnswers(old)
    BY <1>9 DEF AnswersFor, old
  <2>3. NormalAnswers(old) = Relearned \cup Reviews
    BY DEF NormalAnswers
  <2> HIDE DEF answered
  <2>4. ASSUME NEW delay \in Delays, NEW fuzz \in 0..MaxFuzz
        PROVE  LearningStep(answered, delay, fuzz) \in Card
    <3> DEFINE due == now + delay + fuzz
               next == Today + 1
    <3>1. due \in Nat /\ next \in Nat
      BY <1>3, <1>5
    <3>2. \/ LearningStep(answered, delay, fuzz)
               = [answered EXCEPT !.ctype = "Learn", !.queue = "DayLearn", !.due = next]
          \/ LearningStep(answered, delay, fuzz)
               = [answered EXCEPT !.ctype = "Learn", !.queue = "Learn", !.due = due]
      BY Zenon DEF LearningStep
    <3> HIDE DEF due, next
    <3>3. [answered EXCEPT !.ctype = "Learn", !.queue = "DayLearn", !.due = next] \in Card
      BY <1>4, <2>1, <3>1 DEF Card
    <3>4. [answered EXCEPT !.ctype = "Learn", !.queue = "Learn", !.due = due] \in Card
      BY <1>4, <2>1, <3>1 DEF Card
    <3> QED BY <3>2, <3>3, <3>4, Zenon
  <2>5. ASSUME NEW queue \in {"Review", "Suspended"} PROVE Review(queue) \in Card
    <3> DEFINE next == Today + 1
    <3>1. next \in Nat /\ queue \in CardQueue
      BY <1>4, <1>5
    <3> HIDE DEF next
    <3>2. [answered EXCEPT !.ctype = "Review", !.queue = queue, !.due = next] \in Card
      BY <2>1, <3>1 DEF Card
    <3> QED BY <3>2, Zenon DEF next
  <2> HIDE DEF Review
  <2> QED BY <2>2, <2>3, <2>4, <2>5
<1> QED BY <1>8, <1>9

\* Answering updates the queues, or fails and throws them away.
LEMMA AnswerCardKeeps ==
  ASSUME IInv, shown # NoCard, NEW card \in AnswersFor(shown.id), AnswerCard(card)
  PROVE  IInv'
<1> DEFINE id == shown.id
           began == Began(col, "AnswerCard")
           buried == BurySiblings(began, id)
           answered == UpdateCard(buried, id, card)
<1>1. now \in Nat /\ now >= Epoch /\ Settled(col) /\ id \in Cards
  BY ShownCard DEF IInv, AnswerCard, MayBegin
<1>2. card \in Card
  BY <1>1, AnswersForType
<1>3. \/ /\ HasQueues(col) => CanPop(col.queues, id)
         /\ \E c \in QueuesAfterAnswer(answered, id) : col' = Committed(c)
      \/ col' = RolledBack(began)
  BY DEF AnswerCard
<1>4. shown' = NoCard /\ now' = now /\ panicked' = panicked
  BY DEF AnswerCard
<1>5. <<>> \in ChangeLists /\ "AnswerCard" \in Kinds
  BY DEF ChangeLists, Kinds
<1>6. /\ Sound(began, <<>>) /\ HasStep(began.undo) /\ began.undo.mode = "NormalOp"
      /\ began.queues = col.queues
  BY <1>1, <1>5, Beginning
<1> HIDE DEF began
<1>7. Sound(buried, <<>>) /\ Keeping(began, buried)
  BY <1>1, <1>5, <1>6, BuryResult
<1> HIDE DEF buried
<1>8. Sound(answered, <<>>) /\ Keeping(buried, answered)
  BY <1>1, <1>2, <1>5, <1>7, StampResult
<1> HIDE DEF answered
<1>9. /\ HasStep(answered.undo) /\ answered.undo.mode = "NormalOp"
      /\ answered.queues = col.queues
  BY <1>6, <1>7, <1>8 DEF Keeping
<1>10. Settled(col')
  <2>1. CASE col' = RolledBack(began)
    BY <1>6, <2>1, Ending
  <2>2. CASE /\ HasQueues(col) => CanPop(col.queues, id)
             /\ \E c \in QueuesAfterAnswer(answered, id) : col' = Committed(c)
    <3>1. PICK c \in QueuesAfterAnswer(answered, id) : col' = Committed(c)
      BY <2>2
    <3>2. Sound(c, <<>>) /\ HasStep(c.undo)
      <4>1. CASE ~HasQueues(answered)
        BY <1>8, <1>9, <3>1, <4>1 DEF QueuesAfterAnswer
      <4>2. CASE HasQueues(answered)
        <5>1. CanPop(answered.queues, id)
          BY <1>9, <2>2, <4>2 DEF HasQueues
        <5>2. c \in AnsweredQueues(answered, id)
          BY <3>1, <4>2 DEF QueuesAfterAnswer
        <5> QED BY <1>1, <1>8, <1>9, <4>2, <5>1, <5>2, AnsweredResult
      <4> QED BY <4>1, <4>2
    <3> QED BY <3>1, <3>2, Ending
  <2> QED BY <1>3, <2>1, <2>2
<1> QED BY <1>1, <1>4, <1>10 DEF IInv, Settled, Poisoned

\* Reverting a step that was taken out of the history.
LEMMA UndoInnerKeeps ==
  ASSUME IInv, NEW c, NEW step \in Step(Kinds, Change), NEW mode,
         Sound(c, step.changes), ~HasStep(c.undo), c.undo.mode = mode,
         Revertible(step.changes, mode), UndoInner(c, step), now' = now, ~panicked
  PROVE  IInv'
<1> DEFINE began == Began(c, step.kind)
           reverted == RevertAll(began, step.changes)
<1>1. now \in Nat /\ now >= Epoch
  BY DEF IInv
<1>2. step.kind \in Kinds /\ step.changes \in ChangeLists
  BY DEF Step, ChangeLists
<1>3. Sound(began, step.changes) /\ HasStep(began.undo) /\ began.undo.mode = mode
  BY <1>2, BeganResult
<1>4. \/ /\ col' = RolledBack(began) /\ shown' = shown /\ panicked' = panicked
      \/ \E d \in reverted :
           /\ HasStep(d.undo) /\ col' = Committed(d)
           /\ shown' \in {NoCard, shown} /\ panicked' = panicked
      \/ \E d \in reverted :
           /\ ~HasStep(d.undo) /\ col' = d
           /\ shown' = shown /\ panicked' = TRUE
  BY DEF UndoInner, Refreshed
<1> HIDE DEF began
<1>5. ASSUME NEW d \in reverted PROVE Sound(d, <<>>)
  <2>1. Reverting(began, step.changes, mode)
    BY <1>3 DEF Reverting
  <2>2. Reverting(d, <<>>, mode)
    BY <1>1, <2>1, RevertAllResult
  <2> QED BY <2>2 DEF Reverting
<1> HIDE DEF reverted
<1>6. CASE /\ col' = RolledBack(began) /\ shown' = shown /\ panicked' = panicked
  <2>1. <<>> \in ChangeLists
    BY DEF ChangeLists
  <2>2. LET d == RolledBack(began)
        IN Sound(d, <<>>) /\ ~HasQueues(d) /\ ~HasStep(d.undo) /\ d.undo.mode = "NormalOp"
    BY <1>3, <2>1, DiscardResult
  <2>3. Settled(col')
    BY <1>6, <2>2 DEF Settled
  <2> QED BY <1>6, <2>3 DEF IInv, Settled, Poisoned
<1>7. ASSUME NEW d \in reverted, HasStep(d.undo), col' = Committed(d),
             shown' \in {NoCard, shown}, panicked' = panicked
      PROVE  IInv'
  <2>1. Settled(col')
    BY <1>5, <1>7, Ending
  <2> QED BY <1>7, <2>1 DEF IInv, Settled, Poisoned
<1>8. ASSUME NEW d \in reverted, ~HasStep(d.undo), col' = d, shown' = shown, panicked' = TRUE
      PROVE  IInv'
  <2>1. Poisoned(col')
    BY <1>5, <1>8 DEF Poisoned
  <2> QED BY <1>8, <2>1 DEF IInv
<1> QED BY <1>4, <1>6, <1>7, <1>8

\* Undoing takes the newest step out and reverts it.
LEMMA UndoKeeps ==
  ASSUME IInv, UndoOp
  PROVE  IInv'
<1> DEFINE u == col.undo
           v == [PopUndo(u) EXCEPT !.mode = "Undoing"]
           step == Head(u.undo_steps)
           c == [col EXCEPT !.undo = v]
<1>1. Settled(col) /\ ~panicked /\ u.undo_steps # <<>> /\ now' = now
  BY DEF IInv, UndoOp, MayBegin
<1>2. GoodHistory(u) /\ ~HasStep(u)
  BY <1>1 DEF Settled, Sound
<1>3. /\ GoodHistory(v) /\ ~HasStep(v) /\ v.mode = "Undoing"
      /\ step \in Step(Kinds, Change) /\ Directed(step.changes, TRUE)
      /\ Narrower(v, step.changes, u, <<>>)
  BY <1>1, <1>2, PopUndoHistory
<1>4. UndoInner(c, step)
  BY DEF UndoOp
<1> HIDE DEF v, step
<1>5. Sound(c, step.changes) /\ c.undo = v
  BY <1>1, <1>3, HistoryResult DEF Settled
<1>6. Revertible(step.changes, "Undoing")
  <2>1. step.changes \in ChangeLists
    BY <1>3 DEF Step, ChangeLists
  <2> QED BY <1>3, <2>1 DEF Revertible
<1> HIDE DEF c
<1> QED BY <1>1, <1>3, <1>4, <1>5, <1>6, UndoInnerKeeps

\* Redoing takes the step undone last out and reverts it again.
LEMMA RedoKeeps ==
  ASSUME IInv, RedoOp
  PROVE  IInv'
<1> DEFINE u == col.undo
           v == [PopRedo(u) EXCEPT !.mode = "Redoing"]
           step == Last(u.redo_steps)
           c == [col EXCEPT !.undo = v]
<1>1. Settled(col) /\ ~panicked /\ u.redo_steps # <<>> /\ now' = now
  BY DEF IInv, RedoOp, MayBegin
<1>2. GoodHistory(u) /\ ~HasStep(u)
  BY <1>1 DEF Settled, Sound
<1>3. /\ GoodHistory(v) /\ ~HasStep(v) /\ v.mode = "Redoing"
      /\ step \in Step(Kinds, Change) /\ Directed(step.changes, FALSE)
      /\ Narrower(v, step.changes, u, <<>>)
  BY <1>1, <1>2, PopRedoHistory
<1>4. UndoInner(c, step)
  BY DEF RedoOp
<1> HIDE DEF v, step
<1>5. Sound(c, step.changes) /\ c.undo = v
  BY <1>1, <1>3, HistoryResult DEF Settled
<1>6. Revertible(step.changes, "Redoing")
  <2>1. step.changes \in ChangeLists
    BY <1>3 DEF Step, ChangeLists
  <2> QED BY <1>3, <2>1 DEF Revertible
<1> HIDE DEF c
<1> QED BY <1>1, <1>3, <1>4, <1>5, <1>6, UndoInnerKeeps

\* Merging loses none of the changes of the queues and keeps their order.
LEMMA MergeKeeps ==
  ASSUME IInv, MergeUndoableOps
  PROVE  IInv'
<1> DEFINE u == col.undo
           v == MergeInto(u, 2)
           c == [col EXCEPT !.undo = v]
<1>1. Settled(col) /\ Len(u.undo_steps) > 1 /\ col' = c
  BY DEF IInv, MergeUndoableOps
<1>2. GoodHistory(u) /\ ~HasStep(u)
  BY <1>1 DEF Settled, Sound
<1>3. GoodHistory(v) /\ ~HasStep(v) /\ v.mode = u.mode /\ Narrower(v, <<>>, u, <<>>)
  BY <1>1, <1>2, MergeHistory
<1> HIDE DEF v
<1>4. Sound(c, <<>>) /\ c.undo = v
  BY <1>1, <1>3, HistoryResult DEF Settled
<1> HIDE DEF c
<1> QED BY <1>1, <1>3, <1>4 DEF IInv, Settled, Poisoned, MergeUndoableOps

\* Burying, suspending, flagging and bringing back.
LEMMA CardOperationsKeep ==
  ASSUME IInv, NEW id \in Cards, Bury(id) \/ Suspend(id) \/ SetFlag(id)
  PROVE  IInv'
<1>1. now \in Nat /\ Settled(col) /\ <<>> \in ChangeLists /\ {"Bury", "Suspend", "SetFlag"} \subseteq Kinds
  BY DEF IInv, Bury, Suspend, SetFlag, BuryOrSuspend, Operation, MayBegin, ChangeLists, Kinds
<1>2. col.cards[id] \in Card
  BY <1>1, CollectionParts DEF Settled, Sound
<1>3. ASSUME NEW kind \in Kinds, NEW queue \in {"UserBuried", "Suspended"},
             BuryOrSuspend(kind, queue, id)
      PROVE  IInv'
  <2> DEFINE began == Began(col, kind)
             card == [col.cards[id] EXCEPT !.queue = queue]
             d == UpdateCard(began, id, card)
  <2>1. Sound(began, <<>>) /\ HasStep(began.undo)
    BY <1>1, Beginning
  <2>2. card \in Card
    BY <1>2 DEF Card, CardQueue, Buried
  <2>3. Operation(kind, began) \/ Operation(kind, d)
    BY <1>3 DEF BuryOrSuspend
  <2> HIDE DEF began, card
  <2>4. Sound(d, <<>>) /\ HasStep(d.undo)
    BY <1>1, <2>1, <2>2, StampResult DEF Keeping
  <2> HIDE DEF d
  <2> QED BY <2>1, <2>3, <2>4, OperationKeeps
<1>4. ASSUME SetFlag(id) PROVE IInv'
  <2> DEFINE began == Began(col, "SetFlag")
             card == [col.cards[id] EXCEPT !.flag = ~col.cards[id].flag]
             d == UpdateCardUndoable(began, id, card)
  <2>1. Sound(began, <<>>) /\ HasStep(began.undo)
    BY <1>1, Beginning
  <2>2. card \in Card
    BY <1>2 DEF Card
  <2>3. Operation("SetFlag", d)
    BY <1>4 DEF SetFlag
  <2> HIDE DEF began, card
  <2>4. Sound(d, <<>>) /\ HasStep(d.undo)
    BY <1>1, <2>1, <2>2, StoreResult DEF Keeping
  <2> HIDE DEF d
  <2> QED BY <2>3, <2>4, OperationKeeps
<1> QED BY <1>1, <1>3, <1>4 DEF Bury, Suspend

\* Bringing back a set of cards.
LEMMA UnburyUnsuspendKeeps ==
  ASSUME IInv, NEW ids, ids \subseteq Cards, UnburyUnsuspend(ids)
  PROVE  IInv'
<1> DEFINE began == Began(col, "UnburyUnsuspend")
           away == {id \in ids : col.cards[id].queue \in Buried \cup {"Suspended"}}
           d == UpdateAll(began, away, Restored)
<1>1. now \in Nat /\ Settled(col) /\ <<>> \in ChangeLists /\ "UnburyUnsuspend" \in Kinds
  BY DEF IInv, UnburyUnsuspend, Operation, MayBegin, ChangeLists, Kinds
<1>2. Sound(began, <<>>) /\ HasStep(began.undo)
  BY <1>1, Beginning
<1>3. Operation("UnburyUnsuspend", d)
  BY DEF UnburyUnsuspend
<1>4. away \subseteq Cards
  OBVIOUS
<1> HIDE DEF began, away
<1>5. Sound(d, <<>>) /\ HasStep(d.undo)
  BY <1>1, <1>2, <1>4, BackResult DEF Keeping
<1> HIDE DEF d
<1> QED BY <1>3, <1>5, OperationKeeps

\* Saving an attempt.
LEMMA PersistAttemptKeeps ==
  ASSUME IInv, PersistAttempt
  PROVE  IInv'
<1> DEFINE began == Began(col, "UpdateCard")
           d == UpdateCard(began, shown.id, col.cards[shown.id])
<1>1. now \in Nat /\ Settled(col) /\ <<>> \in ChangeLists /\ "UpdateCard" \in Kinds
  BY DEF IInv, PersistAttempt, MayBegin, ChangeLists, Kinds
<1>2. Sound(began, <<>>) /\ HasStep(began.undo)
  BY <1>1, Beginning
<1>3. col' = Committed(d) /\ now' = now /\ shown' = shown /\ panicked' = panicked
  BY DEF PersistAttempt
<1>4. shown.id \in Cards
  BY ShownCard DEF PersistAttempt
<1>5. col.cards[shown.id] \in Card
  BY <1>1, <1>4, CollectionParts DEF Settled, Sound
<1> HIDE DEF began
<1>6. Sound(d, <<>>) /\ HasStep(d.undo)
  BY <1>1, <1>2, <1>4, <1>5, StampResult DEF Keeping
<1> HIDE DEF d
<1>7. Settled(col')
  BY <1>3, <1>6, Ending
<1> QED BY <1>3, <1>7 DEF IInv, Settled, Poisoned

\* The deck list rolls the day over.
LEMMA DeckTreeKeeps ==
  ASSUME IInv, DeckTree
  PROVE  IInv'
<1>1. now \in Nat /\ now >= Epoch /\ Settled(col) /\ <<>> \in ChangeLists
  BY DEF IInv, DeckTree, ChangeLists
<1>2. col' = col \/ col' = UnburyOnDayRollover(col)
  BY DEF DeckTree
<1>3. LET d == UnburyOnDayRollover(col) IN Sound(d, <<>>) /\ Keeping(col, d)
  BY <1>1, UnburyResult DEF Settled
<1>4. Settled(col')
  BY <1>1, <1>2, <1>3 DEF Settled, Keeping
<1> QED BY <1>4 DEF IInv, Settled, Poisoned, DeckTree

\* Every step keeps the invariant.
LEMMA NextKeeps ==
  ASSUME IInv, [Next]_vars
  PROVE  IInv'
<1>1. CASE UNCHANGED vars
  BY <1>1 DEF IInv, vars
<1>2. CASE GetQueuedCards
  BY <1>2, GetQueuedCardsKeeps
<1>3. CASE shown # NoCard /\ \E card \in AnswersFor(shown.id) : AnswerCard(card)
  BY <1>3, AnswerCardKeeps
<1>4. CASE UndoOp
  BY <1>4, UndoKeeps
<1>5. CASE RedoOp
  BY <1>5, RedoKeeps
<1>6. CASE MergeUndoableOps
  BY <1>6, MergeKeeps
<1>7. CASE \E id \in OpCards : Bury(id) \/ Suspend(id) \/ SetFlag(id)
  BY <1>7, CardsAssumption, CardOperationsKeep
<1>8. CASE \E ids \in {OpCards, Cards} : UnburyUnsuspend(ids)
  BY <1>8, CardsAssumption, UnburyUnsuspendKeeps
<1>9. CASE PersistAttempt
  BY <1>9, PersistAttemptKeeps
<1>10. CASE DeckTree
  BY <1>10, DeckTreeKeeps
<1>11. CASE Restart
  BY <1>11, RestartKeeps
<1>12. CASE Tick
  BY <1>12 DEF Tick, IInv, Epoch, Poisoned, Settled
<1> QED
  BY <1>1, <1>2, <1>3, <1>4, <1>5, <1>6, <1>7, <1>8, <1>9, <1>10, <1>11, <1>12 DEF Next

\* The queues of the invariant hold no card twice.
LEMMA DistinctQueues ==
  ASSUME NEW q \in Queues, Distinct(q)
  PROVE  LET entries == q.learning \o q.main
         IN \A i, j \in 1..Len(entries) : entries[i].id = entries[j].id => i = j
<1> DEFINE entries == q.learning \o q.main
           m == Len(q.learning)
           n == Len(q.main)
<1>1. q.learning \in Seq(LearningEntry) /\ q.main \in Seq(MainEntry) /\ m \in Nat /\ n \in Nat
  BY QueuesParts
<1>2. /\ q.learning \in Seq(Entry) /\ q.main \in Seq(Entry)
  BY <1>1 DEF Entry
<1>3. /\ Len(entries) = m + n
      /\ \A i \in 1..(m + n) : entries[i] = IF i <= m THEN q.learning[i] ELSE q.main[i - m]
  BY <1>2, ConcatProperties
<1>4. /\ \A i, j \in 1..m : q.learning[i].id = q.learning[j].id => i = j
      /\ \A i, j \in 1..n : q.main[i].id = q.main[j].id => i = j
      /\ \A i \in 1..m, j \in 1..n : q.learning[i].id # q.main[j].id
  BY DEF Distinct, Once, Learning, Main, Elements
<1> HIDE DEF entries, m, n
<1>5. ASSUME NEW i \in 1..Len(entries)
      PROVE  \/ i \in 1..m /\ entries[i] = q.learning[i]
             \/ i > m /\ i - m \in 1..n /\ entries[i] = q.main[i - m]
  <2>1. i \in 1..(m + n) /\ i \in Int
    BY <1>1, <1>3
  <2>2. CASE i <= m
    BY <1>1, <1>3, <2>1, <2>2
  <2>3. CASE ~(i <= m)
    <3>1. i > m /\ i - m \in 1..n
      BY <1>1, <2>1, <2>3
    <3>2. entries[i] = q.main[i - m]
      BY <1>3, <2>1, <2>3
    <3> QED BY <3>1, <3>2
  <2> QED BY <2>2, <2>3
<1>6. ASSUME NEW i \in 1..Len(entries), NEW j \in 1..Len(entries),
             entries[i].id = entries[j].id
      PROVE  i = j
  <2>1. CASE i \in 1..m /\ entries[i] = q.learning[i]
    <3>1. j \in 1..m /\ entries[j] = q.learning[j]
      BY <1>4, <1>5, <1>6, <2>1
    <3> QED BY <1>4, <1>6, <2>1, <3>1
  <2>2. CASE i > m /\ i - m \in 1..n /\ entries[i] = q.main[i - m]
    <3>1. j > m /\ j - m \in 1..n /\ entries[j] = q.main[j - m]
      BY <1>4, <1>5, <1>6, <2>2
    <3>2. i - m = j - m
      BY <1>4, <1>6, <2>2, <3>1
    <3> QED BY <1>1, <1>3, <3>2
  <2> QED BY <1>5, <2>1, <2>2
<1> QED BY <1>6 DEF entries

\* The invariant holds of every reachable state.
LEMMA Invariant ==
  Spec => []IInv
<1>1. Init => IInv
  BY InitKeeps
<1>2. IInv /\ [Next]_vars => IInv'
  BY NextKeeps
<1> QED BY <1>1, <1>2, PTL DEF Spec

\* Whatever is answered, undone, redone, merged, buried or rebuilt, on whichever day: the
\* cards, the queues and each recorded change have their types, and no more steps are kept
\* than the limit allows.
THEOREM TypeCorrect ==
  Spec => []TypeOK
<1>1. IInv => TypeOK
  <2> SUFFICES ASSUME IInv PROVE TypeOK
    OBVIOUS
  <2>1. col \in Collections /\ GoodHistory(col.undo)
    BY DEF IInv, Poisoned, Sound
  <2>2. Len(col.undo.undo_steps) <= UndoLimit
    BY <2>1 DEF GoodHistory, GoodUndo
  <2> QED BY <2>1, <2>2 DEF TypeOK, IInv, Collections
<1> QED BY <1>1, Invariant, PTL

\* No card is queued twice (update_queues_after_answering_card, undo_queue_change,
\* rslib/src/scheduler/queue): undoing an answer puts its entry on top without looking
\* whether the card is there, and redoing one inserts the entry it had requeued, so that
\* this rests on what the history and the queues agree on.
THEOREM NoDuplicates ==
  Spec => []NoDuplicateEntries
<1>1. IInv => NoDuplicateEntries
  <2> SUFFICES ASSUME IInv, HasQueues(col)
               PROVE  LET entries == AllEntries(col.queues)
                      IN \A i, j \in 1..Len(entries) : entries[i].id = entries[j].id => i = j
    BY DEF NoDuplicateEntries
  <2>1. col.queues \in Queues /\ Distinct(col.queues)
    BY SoundQueues DEF IInv, Poisoned
  <2> QED BY <2>1, DistinctQueues DEF AllEntries
<1> QED BY <1>1, Invariant, PTL
====
