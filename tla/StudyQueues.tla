---- MODULE StudyQueues ----
(***************************************************************************)
(* The study queues (rslib/src/scheduler/queue) and the operations of a    *)
(* review session on them: fetching and answering cards, undo and redo of  *)
(* answers, burying, flags, the day rollover and the reviewer's refresh.   *)
(*                                                                         *)
(* The queues are a cache over the cards table that answering updates in   *)
(* place and most other operations throw away; each entry remembers the    *)
(* mtime its card had.  One backend call is one step, as every call holds  *)
(* the collection mutex.  Methods that take &mut Collection are operators  *)
(* from one collection record to the next.                                 *)
(***************************************************************************)
EXTENDS UndoManager, FiniteSets, SequencesExt

CONSTANTS Cards,
          NoteOf,      \* [Cards -> notes]: cards of one note are siblings
          BuryPreset,  \* [Cards -> queues whose siblings the home deck's preset buries]
          PreviewCards,\* cards that sit in a filtered deck without rescheduling
          CardsAtStart,\* [Cards -> card]
          NewSorted,   \* does the new card order differ from the gather order?
          MergeTargets,\* kinds of the undo steps that later steps are merged into
          OpKinds,     \* which operations besides answering the user runs
          OpCards,     \* bound on the cards they are run on
          LearnAhead,  \* learn_ahead_secs
          Delays,      \* learning steps the answer buttons offer
          MaxFuzz,     \* most that is added to a learning step at random
          DayLength,
          MaxTime,     \* bound on the time that passes
          MaxOps,      \* bound on undo.counter: operations begun
          MaxMerged    \* bound on the changes of a step that is merged into

ASSUME TimeAssumption ==
  /\ DayLength \in Nat \ {0} /\ LearnAhead \in Nat
  /\ MaxTime \in Nat /\ MaxOps \in Nat /\ MaxMerged \in Nat /\ MaxFuzz \in Nat
  /\ Delays \subseteq Nat
ASSUME CardsAssumption ==
  /\ PreviewCards \subseteq Cards /\ OpCards \subseteq Cards
  /\ DOMAIN NoteOf = Cards /\ DOMAIN CardsAtStart = Cards
  /\ BuryPreset \in [Cards -> SUBSET {"New", "Review", "DayLearn"}]

VARIABLES col,      \* the Collection: cards, queues, undo manager, lastUnburied
          now,
          shown,    \* the card the reviewer is showing
          panicked  \* a panic has poisoned the collection mutex

vars == <<col, now, shown, panicked>>

\* Times start at Epoch and day numbers lie below it, so that a due value says
\* which of the two it is (is_unix_epoch_timestamp).
Epoch == 100
DayOf(t) == (t - Epoch) \div DayLength
Today == DayOf(now)
NextDayAt == Epoch + (Today + 1) * DayLength
IsTimestamp(due) == due >= Epoch

Buried == {"SchedBuried", "UserBuried"}
MainQueues == {"New", "Review", "DayLearn"}
CardQueue == MainQueues \cup {"Learn", "Suspended"} \cup Buried

Card == [ctype : {"New", "Learn", "Review"}, queue : CardQueue, due : Nat,
         reps : {0, 1},       \* never answered, or answered
         flag : BOOLEAN, in_deck : BOOLEAN, mtime : Nat]

ASSUME StartAssumption ==
  /\ IsFiniteSet(Cards)
  /\ CardsAtStart \in [Cards -> Card]

MainEntry == [id : Cards, mtime : Nat, kind : MainQueues]
LearningEntry == [id : Cards, mtime : Nat, due : Nat, reps : {0, 1}]
Entry == MainEntry \cup LearningEntry
Counts == [new : Nat, learning : Nat, review : Nat]
Cutoff == [count : Nat, cutoff : Nat]
Queues == [counts : Counts, main : Seq(MainEntry), learning : Seq(LearningEntry),
           day : Nat, build : Nat \ {0}, cutoff : Nat]

NoQueues == [build |-> 0]
NoEntry == [id |-> "none"]
NoCard == [id |-> "none"]

CardChange == [table : {"card"}, id : Cards, old : Card]
ConfigChange == [table : {"config"}, old : Nat]
QueueChange == [table : {"queue"}, answered : BOOLEAN, entry : Entry,
                requeue : LearningEntry \cup {NoEntry}, build : Nat, snapshot : Cutoff]
Change == CardChange \cup ConfigChange \cup QueueChange

Kinds == {"AnswerCard", "Bury", "Suspend", "UnburyUnsuspend", "SetFlag", "UpdateCard"}

TypeOK ==
  /\ col \in [cards : [Cards -> Card], queues : Queues \cup {NoQueues},
              undo : UndoState(Kinds, Change), last_unburied : Nat]
  /\ Len(col.undo.undo_steps) <= UndoLimit
  /\ now \in Nat
  /\ shown \in [id : Cards, day : Nat] \cup {NoCard}
  /\ panicked \in BOOLEAN

Init ==
  /\ col = [cards |-> CardsAtStart, queues |-> NoQueues, undo |-> InitUndo,
            last_unburied |-> 0]
  /\ now = Epoch
  /\ shown = NoCard
  /\ panicked = FALSE

HasQueues(c) == c.queues # NoQueues

---------------------------------------------------------------------------
(* Cards and transactions *)

SaveChange(c, change) == [c EXCEPT !.undo = Save(c.undo, change)]

\* update_card_undoable
UpdateCardUndoable(c, id, card) ==
  SaveChange([c EXCEPT !.cards[id] = card],
             [table |-> "card", id |-> id, old |-> c.cards[id]])

\* update_card_inner: also stamps the card.
UpdateCard(c, id, card) == UpdateCardUndoable(c, id, [card EXCEPT !.mtime = now])

SetLastUnburied(c, day) ==
  IF day = c.last_unburied THEN c
  ELSE SaveChange([c EXCEPT !.last_unburied = day],
                  [table |-> "config", old |-> c.last_unburied])

RestoredQueue(card) ==
  IF card.ctype = "Learn"
  THEN IF IsTimestamp(card.due) THEN "Learn" ELSE "DayLearn"
  ELSE card.ctype

\* restore_queue_after_bury_or_suspend
Restored(card) ==
  IF card.queue \in Buried \cup {"Suspended"}
  THEN [card EXCEPT !.queue = RestoredQueue(card)] ELSE card

DiscardUndoAndStudyQueues(c) ==
  [c EXCEPT !.undo = Discard(c.undo), !.queues = NoQueues]

\* Unbury cards of the previous day, without stamping or recording them.
UnburyOnDayRollover(c) ==
  SetLastUnburied(
    [c EXCEPT !.cards = [id \in Cards |-> IF c.cards[id].queue \in Buried
                                          THEN Restored(c.cards[id]) ELSE c.cards[id]]],
    Today)

ClearQueuesIfDayChanged(c) ==
  IF HasQueues(c) /\ c.queues.day # Today
  THEN UnburyOnDayRollover(DiscardUndoAndStudyQueues(c))
  ELSE c

\* Faulty variant: burying leaves the queues alone.
RebuildUnlessBuried(step) ==
  /\ step.kind \notin {"SetFlag", "Bury"}
  /\ \E i \in 1..Len(step.changes) : step.changes[i].table = "card"

RequiresStudyQueueRebuild(step) ==
  /\ step.kind # "SetFlag"
  /\ \E i \in 1..Len(step.changes) : step.changes[i].table = "card"

\* maybe_clear_study_queues_after_op, for the open step.
MaybeClearStudyQueues(c) ==
  LET step == c.undo.current_step
  IN IF step.kind # "AnswerCard" /\ RequiresStudyQueueRebuild(step)
     THEN [c EXCEPT !.queues = NoQueues] ELSE c

\* The end of transact when no error was returned.
Committed(c) ==
  LET cleared == MaybeClearStudyQueues(c)
  IN [cleared EXCEPT !.undo = [EndStep(c.undo, FALSE) EXCEPT !.mode = "NormalOp"]]

\* The end of transact after an error: c is the collection it began with.
RolledBack(c) ==
  [DiscardUndoAndStudyQueues(c) EXCEPT !.undo.mode = "NormalOp"]

Began(c, kind) == [c EXCEPT !.undo = BeginStep(c.undo, kind)]
MayBegin == ~panicked /\ col.undo.counter < MaxOps

---------------------------------------------------------------------------
(* The queues *)

AheadCutoff(q) == q.cutoff + LearnAhead
CountDue(entries, from, to) ==
  Cardinality({i \in 1..Len(entries) : from < entries[i].due /\ entries[i].due <= to})

\* Faulty variant: what the learn ahead limit newly admits is not counted.
UpdateCutoffByDue(q) ==
  [q EXCEPT !.cutoff = now,
            !.counts.learning = q.counts.learning + CountDue(q.learning, q.cutoff, now)]

\* update_learning_cutoff_and_count
UpdateCutoff(q) ==
  [q EXCEPT !.cutoff = now,
            !.counts.learning = q.counts.learning
              + CountDue(q.learning, AheadCutoff(q), now + LearnAhead)]

Snapshot(q) == [count |-> q.counts.learning, cutoff |-> q.cutoff]
RestoreCutoff(q, snapshot) ==
  [q EXCEPT !.counts.learning = snapshot.count, !.cutoff = snapshot.cutoff]

Less1(n) == IF n = 0 THEN 0 ELSE n - 1

CountField(kind) == CASE kind = "New" -> "new"
                      [] kind = "Review" -> "review"
                      [] kind = "DayLearn" -> "learning"

IsLearning(entry) == "due" \in DOMAIN entry
PositionOf(q, id) == SelectInSeq(q.learning, LAMBDA e : e.id = id)

\* pop_entry, for an entry that is in the learning queue or on top of main.
CanPop(q, id) == PositionOf(q, id) # 0 \/ (q.main # <<>> /\ Head(q.main).id = id)
PoppedEntry(q, id) ==
  IF PositionOf(q, id) # 0 THEN q.learning[PositionOf(q, id)] ELSE Head(q.main)
PopEntry(q, id) ==
  IF PositionOf(q, id) # 0
  THEN [q EXCEPT !.learning = RemoveAt(q.learning, PositionOf(q, id)),
                 !.counts.learning = Less1(q.counts.learning)]
  ELSE [q EXCEPT !.main = Tail(q.main),
                 !.counts[CountField(Head(q.main).kind)] = Less1(@)]

\* push_undo_entry: back on top of the queue it came from.
PushUndoEntry(q, entry) ==
  IF IsLearning(entry)
  THEN [q EXCEPT !.learning = <<entry>> \o q.learning,
                 !.counts.learning = q.counts.learning + 1]
  ELSE [q EXCEPT !.main = <<entry>> \o q.main,
                 !.counts[CountField(entry.kind)] = @ + 1]

\* cmp_by_reps_then_due
Before(d, e) ==
  \/ d.reps # 0 /\ e.reps = 0
  \/ (d.reps = 0) = (e.reps = 0) /\ d.due < e.due
SameRank(d, e) == ~Before(d, e) /\ ~Before(e, d)

\* binary_search_by: an entry that compares equal, or a place between a smaller
\* and a greater neighbour.  There may be several, as an undo leaves a queue
\* out of order.
InsertPositions(entries, e) ==
  LET equal == {i \in 1..Len(entries) : SameRank(entries[i], e)}
      between == {i \in 1..(Len(entries) + 1) :
                    /\ i = 1 \/ Before(entries[i - 1], e)
                    /\ i = Len(entries) + 1 \/ Before(e, entries[i])}
  IN equal \cup between

\* insert_intraday_learning_card
Inserted(q, e) ==
  {[q EXCEPT !.learning = InsertAt(q.learning, i, e),
             !.counts.learning = q.counts.learning
               + IF e.due <= AheadCutoff(q) THEN 1 ELSE 0]
     : i \in InsertPositions(q.learning, e)}

\* remove_intraday_learning_card
RemoveLearning(q, id) ==
  LET i == PositionOf(q, id)
  IN IF i = 0 THEN q
     ELSE [q EXCEPT !.learning = RemoveAt(q.learning, i),
                    !.counts.learning =
                      IF q.learning[i].due <= AheadCutoff(q)
                      THEN Less1(q.counts.learning) ELSE q.counts.learning]

\* Faulty variant: level with the next card, not behind it.
PostponedLevel(q, e) ==
  LET next == Head(q.learning)
  IN IF /\ e.due <= AheadCutoff(q) /\ q.main = <<>> /\ q.learning # <<>>
        /\ next.due >= e.due /\ next.due + 1 < AheadCutoff(q)
     THEN [e EXCEPT !.due = next.due] ELSE e

\* requeue_learning_entry: with nothing else to review, a card that would come
\* straight back is moved behind the next one.
Postponed(q, e) ==
  LET next == Head(q.learning)
  IN IF /\ e.due <= AheadCutoff(q) /\ q.main = <<>> /\ q.learning # <<>>
        /\ next.due >= e.due /\ next.due + 1 < AheadCutoff(q)
     THEN [e EXCEPT !.due = next.due + 1] ELSE e

\* CardQueues::iter, of which the first entry is taken: a learning card that is
\* due, the top of the main queue, a learning card within the learn ahead limit.
FirstDue(q, to) == SelectInSeq(q.learning, LAMBDA e : e.due <= to)
NextEntry(q) ==
  LET due == FirstDue(q, q.cutoff)
      ahead == FirstDue(q, AheadCutoff(q))
  IN IF due # 0 THEN q.learning[due]
     ELSE IF q.main # <<>> THEN Head(q.main)
     ELSE IF ahead # 0 THEN q.learning[ahead] ELSE NoEntry

AllEntries(q) == q.learning \o q.main

---------------------------------------------------------------------------
(* Building the queues *)

Active(c) == {id \in Cards : c.cards[id].in_deck}

\* Faulty variant: cards due later today are left out.
IntradayDueNow(c) ==
  {id \in Active(c) : c.cards[id].queue = "Learn" /\ c.cards[id].due <= now}
IntradayDue(c) ==
  {id \in Active(c) : c.cards[id].queue = "Learn" /\ c.cards[id].due <= NextDayAt}
DueToday(c, queue) ==
  {id \in Active(c) : c.cards[id].queue = queue /\ c.cards[id].due <= Today}
NewCards(c) == {id \in Active(c) : c.cards[id].queue = "New"}

Index(s, x) == CHOOSE i \in 1..Len(s) : s[i] = x
Keeps(s, t, S) ==
  \A x, y \in S : (Index(s, x) < Index(s, y)) <=> (Index(t, x) < Index(t, y))

\* Cards are gathered queue by queue, in any order within one queue.  Learning
\* cards come first and are always kept, so that one order stands for all.
GatherOrders(c) ==
  {SetToSeq(IntradayDue(c)) \o d \o r \o n :
     d \in SetToSeqs(DueToday(c, "DayLearn")),
     r \in SetToSeqs(DueToday(c, "Review")), n \in SetToSeqs(NewCards(c))}

\* A card met before a sibling buries it if the preset of its own home deck
\* says so, and does so even when it has been left out itself.
Kept(c, gathered) ==
  {id \in ToSet(gathered) :
     \/ c.cards[id].queue = "Learn"
     \/ \A i \in 1..(Index(gathered, id) - 1) :
          NoteOf[gathered[i]] = NoteOf[id] =>
            c.cards[id].queue \notin BuryPreset[gathered[i]]}

\* Interday learning and review cards keep their order, new cards do unless
\* they are sorted, and the three are mixed in any way.
MainOrders(c, gathered) ==
  LET main == {id \in Kept(c, gathered) : c.cards[id].queue \in MainQueues}
      ofQueue(queue) == {id \in main : c.cards[id].queue = queue}
  IN {m \in SetToSeqs(main) :
        /\ Keeps(gathered, m, ofQueue("DayLearn"))
        /\ Keeps(gathered, m, ofQueue("Review"))
        /\ NewSorted \/ Keeps(gathered, m, ofQueue("New"))}

AsMain(c, id) ==
  [id |-> id, mtime |-> c.cards[id].mtime, kind |-> c.cards[id].queue]
AsLearning(c, id) ==
  [id |-> id, mtime |-> c.cards[id].mtime, due |-> c.cards[id].due,
   reps |-> c.cards[id].reps]

LearningOrders(c) ==
  {l \in {[i \in DOMAIN s |-> AsLearning(c, s[i])] : s \in SetToSeqs(IntradayDue(c))} :
     \A i, j \in DOMAIN l : i < j => ~Before(l[j], l[i])}

\* build_time only tells one build from another: the least number that no undo
\* step remembers stands for it.
FreshBuild(c) ==
  LET steps == ToSet(c.undo.undo_steps) \cup ToSet(c.undo.redo_steps)
      used == UNION {{ch.build : ch \in {x \in ToSet(s.changes) : x.table = "queue"}}
                       : s \in steps}
  IN CHOOSE n \in 1..(Cardinality(used) + 1) :
       n \notin used /\ \A m \in 1..(n - 1) : m \in used

NumberOf(c, main, queue) ==
  Cardinality({i \in 1..Len(main) : c.cards[main[i]].queue = queue})

BuiltQueues(c) ==
  UNION {
    {[counts |-> [new |-> NumberOf(c, m, "New"),
                  review |-> NumberOf(c, m, "Review"),
                  learning |-> NumberOf(c, m, "DayLearn")
                               + CountDue(l, 0, now + LearnAhead)],
      main |-> [i \in DOMAIN m |-> AsMain(c, m[i])],
      learning |-> l, day |-> Today, build |-> FreshBuild(c), cutoff |-> now]
      : m \in MainOrders(c, g), l \in LearningOrders(c)}
    : g \in GatherOrders(c)}

---------------------------------------------------------------------------
(* Fetching and answering *)

\* get_queues: clear them on a new day, build them when there are none.
WithQueues(c) ==
  LET today == ClearQueuesIfDayChanged(c)
  IN IF HasQueues(today) THEN {today}
     ELSE {[today EXCEPT !.queues = q] : q \in BuiltQueues(today)}

AllZero(counts) == counts.new = 0 /\ counts.learning = 0 /\ counts.review = 0

\* CardQueues::counts
Counted(c) == IF AllZero(c.queues.counts) THEN [c EXCEPT !.queues = UpdateCutoff(c.queues)] ELSE c

\* get_queued_cards with a limit of one.  An entry whose card has another mtime
\* is an error, and then the reviewer has nothing to show.
GetQueuedCards ==
  /\ ~panicked
  /\ \E c \in WithQueues(col) :
       LET counted == Counted(c)
           next == NextEntry(counted.queues)
       IN /\ col' = counted
          /\ shown' = IF next # NoEntry /\ next.mtime = counted.cards[next.id].mtime
                      THEN [id |-> next.id, day |-> Today] ELSE NoCard
  /\ UNCHANGED <<now, panicked>>

\* Of a card's current state only the days elapsed since a review depend on
\* the clock in a way the answer is not adjusted to.
StateAsShown ==
  \/ shown.id \in PreviewCards
  \/ col.cards[shown.id].ctype # "Review"
  \/ Today = shown.day

GatherOrd(queue) == CASE queue = "Learn" -> 0
                      [] queue = "DayLearn" -> 1
                      [] queue = "Review" -> 2
                      [] queue = "New" -> 3
                      [] OTHER -> 255

\* all_siblings_for_bury with exclude_earlier_gathered_queues.
SiblingsToBury(c, id) ==
  {s \in Cards \ {id} :
     /\ NoteOf[s] = NoteOf[id]
     /\ c.cards[s].queue \in BuryPreset[id]
     /\ c.cards[s].queue \in {"DayLearn", "Review"} =>
          GatherOrd(c.cards[id].queue) <= GatherOrd(c.cards[s].queue)}

\* Changes a set of cards one by one, in the open step.
UpdateAll(c, ids, Changed(_)) ==
  LET order == SetToSeq(ids)
      saved == [i \in DOMAIN order |->
                  [table |-> "card", id |-> order[i], old |-> c.cards[order[i]]]]
  IN [c EXCEPT !.cards = [id \in Cards |-> IF id \in ids
                            THEN [Changed(c.cards[id]) EXCEPT !.mtime = now] ELSE c.cards[id]],
               !.undo.current_step.changes = @ \o saved]

BurySiblings(c, id) ==
  UpdateAll(c, SiblingsToBury(c, id), LAMBDA card : [card EXCEPT !.queue = "SchedBuried"])

\* The states an answer can give a card: another learning step, which counts
\* in days when it reaches past the end of the day; a review interval; or
\* suspension as a leech.  A previewed card is shown again, or is finished and
\* leaves the filtered deck.
LearningStep(card, delay, fuzz) ==
  IF now + delay >= NextDayAt
  THEN [card EXCEPT !.ctype = "Learn", !.queue = "DayLearn", !.due = Today + 1]
  ELSE [card EXCEPT !.ctype = "Learn", !.queue = "Learn", !.due = now + delay + fuzz]

NormalAnswers(card) ==
  LET answered == [card EXCEPT !.reps = 1]
  IN {LearningStep(answered, delay, fuzz) : delay \in Delays, fuzz \in 0..MaxFuzz}
     \cup {[answered EXCEPT !.ctype = "Review", !.queue = queue, !.due = Today + 1]
             : queue \in {"Review", "Suspended"}}

PreviewAnswers(card) ==
  {[card EXCEPT !.queue = "Learn", !.due = now + delay + fuzz]
     : delay \in Delays, fuzz \in 0..MaxFuzz}
  \cup {[card EXCEPT !.in_deck = FALSE, !.queue = RestoredQueue(card)]}

AnswersFor(id) ==
  IF id \in PreviewCards THEN PreviewAnswers(col.cards[id]) ELSE NormalAnswers(col.cards[id])

\* maybe_requeue_learning_card
RequeueEntry(c, id) ==
  LET card == c.cards[id]
  IN IF card.in_deck /\ card.queue = "Learn" /\ card.due < NextDayAt
     THEN AsLearning(c, id) ELSE NoEntry

\* update_queues_after_answering_card, for queues the card can be popped from.
AnsweredQueues(c, id) ==
  LET entry == PoppedEntry(c.queues, id)
      popped == PopEntry(c.queues, id)
      requeued == RequeueEntry(c, id)
      postponed == IF requeued = NoEntry THEN NoEntry ELSE Postponed(popped, requeued)
      inserted == IF requeued = NoEntry THEN {popped} ELSE Inserted(popped, postponed)
  IN {SaveChange([c EXCEPT !.queues = UpdateCutoff(q)],
                 [table |-> "queue", answered |-> TRUE, entry |-> entry,
                  requeue |-> postponed, build |-> q.build, snapshot |-> Snapshot(q)])
        : q \in inserted}

QueuesAfterAnswer(c, id) == IF HasQueues(c) THEN AnsweredQueues(c, id) ELSE {c}

\* answer_card, with a from_queue answer for the card being shown.
AnswerCard(card) ==
  /\ MayBegin
  /\ shown # NoCard
  /\ LET id == shown.id
         began == Began(col, "AnswerCard")
         answered == UpdateCard(BurySiblings(began, id), id, card)
     IN IF StateAsShown /\ (HasQueues(col) => CanPop(col.queues, id))
        THEN \E c \in QueuesAfterAnswer(answered, id) : col' = Committed(c)
        ELSE col' = RolledBack(began)
  /\ shown' = NoCard
  /\ UNCHANGED <<now, panicked>>

---------------------------------------------------------------------------
(* Undo and redo *)

\* get_or_invalidate_queues
ValidQueues(c, build) ==
  LET today == ClearQueuesIfDayChanged(c)
  IN IF today.queues.build = build THEN today ELSE [today EXCEPT !.queues = NoQueues]

\* Faulty variants of the next definition: the requeued entry stays; the
\* snapshot is restored last; the cutoff is not restored.
UndoAnsweredKeepingRequeue(c, change) ==
  [c EXCEPT !.queues = PushUndoEntry(RestoreCutoff(c.queues, change.snapshot), change.entry)]

UndoAnsweredCountingLast(c, change) ==
  LET removed == IF change.requeue = NoEntry THEN c.queues
                 ELSE RemoveLearning(c.queues, change.requeue.id)
  IN [c EXCEPT !.queues = RestoreCutoff(PushUndoEntry(removed, change.entry), change.snapshot)]

UndoAnsweredKeepingCutoff(c, change) ==
  LET removed == IF change.requeue = NoEntry THEN c.queues
                 ELSE RemoveLearning(c.queues, change.requeue.id)
  IN [c EXCEPT !.queues = PushUndoEntry(removed, change.entry)]

UndoAnswered(c, change) ==
  LET q == RestoreCutoff(c.queues, change.snapshot)
      removed == IF change.requeue = NoEntry THEN q ELSE RemoveLearning(q, change.requeue.id)
  IN [c EXCEPT !.queues = PushUndoEntry(removed, change.entry)]

RedoAnswered(c, change) ==
  LET popped == PopEntry(c.queues, change.entry.id)
      inserted == IF change.requeue = NoEntry THEN {popped}
                  ELSE Inserted(popped, change.requeue)
  IN {[c EXCEPT !.queues = RestoreCutoff(q, change.snapshot)] : q \in inserted}

\* undo_queue_change: the collections it can leave, none if it fails.
RevertQueueChange(c, change) ==
  LET valid == ValidQueues(c, change.build)
      reverted == IF ~HasQueues(valid) THEN {valid}
                  ELSE IF change.answered THEN {UndoAnswered(valid, change)}
                  ELSE IF CanPop(valid.queues, change.entry.id)
                       THEN RedoAnswered(valid, change) ELSE {}
  IN {SaveChange(r, [change EXCEPT !.answered = ~change.answered]) : r \in reverted}

Revert(change, c) ==
  CASE change.table = "card" -> {UpdateCardUndoable(c, change.id, change.old)}
    [] change.table = "config" -> {SetLastUnburied(c, change.old)}
    [] change.table = "queue" -> RevertQueueChange(c, change)

\* Newest first.
RevertAll(c, changes) ==
  LET after[n \in 0..Len(changes)] ==
        IF n = 0 THEN {c}
        ELSE UNION {Revert(changes[Len(changes) - n + 1], d) : d \in after[n - 1]}
  IN after[Len(changes)]

\* The reviewer fetches a card again after operations that concern the queues.
Refreshed(step) == IF RequiresStudyQueueRebuild(step) THEN NoCard ELSE shown

\* The day may turn out to have changed while the step is reverted.  That has
\* discarded the open step, and op_changes panics after the commit.
UndoInner(c, step) ==
  LET began == Began(c, step.kind)
      reverted == RevertAll(began, step.changes)
  IN \/ /\ reverted = {}
        /\ col' = RolledBack(began)
        /\ UNCHANGED <<shown, panicked>>
     \/ \E d \in reverted :
          /\ HasStep(d.undo)
          /\ col' = Committed(d)
          /\ shown' = Refreshed(d.undo.current_step)
          /\ UNCHANGED panicked
     \/ \E d \in reverted :
          /\ ~HasStep(d.undo)
          /\ col' = d
          /\ panicked' = TRUE
          /\ UNCHANGED shown

UndoOp ==
  /\ MayBegin
  /\ col.undo.undo_steps # <<>>
  /\ UndoInner([col EXCEPT !.undo = [PopUndo(@) EXCEPT !.mode = "Undoing"]],
               Head(col.undo.undo_steps))
  /\ UNCHANGED now

RedoOp ==
  /\ MayBegin
  /\ col.undo.redo_steps # <<>>
  /\ UndoInner([col EXCEPT !.undo = [PopRedo(@) EXCEPT !.mode = "Redoing"]],
               Last(col.undo.redo_steps))
  /\ UNCHANGED now

\* merge_undoable_ops of the newest step into the one before it.
MergeUndoableOps ==
  /\ ~panicked
  /\ Len(col.undo.undo_steps) > 1
  /\ col.undo.undo_steps[2].kind \in MergeTargets
  /\ Len(JoinedChanges(col.undo.undo_steps, 2)) <= MaxMerged
  /\ col' = [col EXCEPT !.undo = MergeInto(col.undo, 2)]
  /\ UNCHANGED <<now, shown, panicked>>

---------------------------------------------------------------------------
(* Other operations *)

Operation(kind, c) ==
  /\ MayBegin
  /\ kind \in OpKinds
  /\ col' = Committed(c)
  /\ shown' = Refreshed(c.undo.current_step)
  /\ UNCHANGED <<now, panicked>>

\* bury_or_suspend_cards leaves suspended cards and cards already there alone.
BuryOrSuspend(kind, queue, id) ==
  LET began == Began(col, kind)
  IN Operation(kind, IF col.cards[id].queue \in {queue, "Suspended"} THEN began
                     ELSE UpdateCard(began, id, [col.cards[id] EXCEPT !.queue = queue]))

Bury(id) == BuryOrSuspend("Bury", "UserBuried", id)
Suspend(id) == BuryOrSuspend("Suspend", "Suspended", id)

\* unbury_or_unsuspend_cards
UnburyUnsuspend(ids) ==
  LET away == {id \in ids : col.cards[id].queue \in Buried \cup {"Suspended"}}
  IN Operation("UnburyUnsuspend", UpdateAll(Began(col, "UnburyUnsuspend"), away, Restored))

\* set_card_flag changes the card and not its mtime, to spare the queues.
SetFlag(id) ==
  Operation("SetFlag",
    UpdateCardUndoable(Began(col, "SetFlag"), id,
                       [col.cards[id] EXCEPT !.flag = ~col.cards[id].flag]))

\* persist_ethics_attempt: when the answer is shown, the custom data of the card
\* is updated.  The reviewer is not told and goes on showing the card.
PersistAttempt ==
  /\ MayBegin
  /\ "PersistAttempt" \in OpKinds
  /\ shown # NoCard
  /\ col' = Committed(UpdateCard(Began(col, "UpdateCard"), shown.id, col.cards[shown.id]))
  /\ UNCHANGED <<now, shown, panicked>>

\* deck_tree unburies cards on a new day, in no transaction.
DeckTree ==
  /\ ~panicked
  /\ "DeckTree" \in OpKinds
  /\ col' = IF col.last_unburied < Today \/ Today + 7 < col.last_unburied
            THEN UnburyOnDayRollover(col) ELSE col
  /\ shown' = NoCard
  /\ UNCHANGED <<now, panicked>>

\* Every call fails on the poisoned mutex until the program is started again.
Restart ==
  /\ panicked
  /\ col' = [col EXCEPT !.queues = NoQueues, !.undo = InitUndo]
  /\ shown' = NoCard
  /\ panicked' = FALSE
  /\ UNCHANGED now

Tick ==
  /\ now < Epoch + MaxTime
  /\ now' = now + 1
  /\ UNCHANGED <<col, shown, panicked>>

Next ==
  \/ GetQueuedCards
  \/ shown # NoCard /\ \E card \in AnswersFor(shown.id) : AnswerCard(card)
  \/ UndoOp
  \/ RedoOp
  \/ MergeUndoableOps
  \/ \E id \in OpCards : Bury(id) \/ Suspend(id) \/ SetFlag(id)
  \/ \E ids \in {OpCards, Cards} : UnburyUnsuspend(ids)
  \/ PersistAttempt
  \/ DeckTree
  \/ Restart
  \/ Tick

Spec == Init /\ [][Next]_vars

---------------------------------------------------------------------------
(* Properties *)

EntryMatches(card, entry) ==
  /\ entry.mtime = card.mtime
  /\ card.queue = IF IsLearning(entry) THEN "Learn" ELSE entry.kind

\* Every entry of the queues stands for the card as it is stored, whatever has
\* been answered, undone, redone, buried or flagged since they were built: an
\* operation either updates the queues or throws them away.  get_queued_cards
\* calls anything else a bug.
EntriesFresh ==
  HasQueues(col) =>
    \A i \in 1..Len(AllEntries(col.queues)) :
      LET entry == AllEntries(col.queues)[i]
      IN EntryMatches(col.cards[entry.id], entry)

\* The counts shown are those of the entries: undo restores the learning count
\* from a snapshot and then adjusts it, so that it could drift.
CountsMatchEntries ==
  HasQueues(col) =>
    LET q == col.queues
        ofKind(kind) == Cardinality({i \in 1..Len(q.main) : q.main[i].kind = kind})
    IN /\ q.counts.new = ofKind("New")
       /\ q.counts.review = ofKind("Review")
       /\ q.counts.learning = ofKind("DayLearn") + CountDue(q.learning, 0, AheadCutoff(q))

\* No card is queued twice: undo removes the entry an answer has requeued
\* before it brings back the one that was answered.
NoDuplicateEntries ==
  HasQueues(col) =>
    LET entries == AllEntries(col.queues)
    IN \A i, j \in 1..Len(entries) : entries[i].id = entries[j].id => i = j

\* Queues of today hold every card that is in intraday learning and due before
\* the end of the day: the queues are never read from the cards again until
\* they are rebuilt, so that a card that is missing is not shown today.
LearningCardsQueued ==
  (HasQueues(col) /\ col.queues.day = Today) =>
    \A id \in Active(col) :
      (col.cards[id].queue = "Learn" /\ col.cards[id].due < NextDayAt) =>
        PositionOf(col.queues, id) # 0

QueueChangeOf(step) == step.changes[Len(step.changes)]
IsAnswer(step) == step.kind = "AnswerCard" /\ QueueChangeOf(step).table = "queue"

\* Undoing an answer while its queues are still there shows that card again,
\* whatever was due in the meantime.
UndoShowsCardAgain ==
  [][\A step \in {col.undo.undo_steps[i] : i \in 1..1 \cap DOMAIN col.undo.undo_steps} :
       (UndoOp /\ IsAnswer(step) /\ HasQueues(col')) =>
          NextEntry(col'.queues).id = QueueChangeOf(step).entry.id]_vars

\* A card that an answer leaves within the learn ahead limit of that moment is
\* not the next to be shown when another learning card, or the main queue, can
\* come first, however undo and redo have left the queue ordered.
RequeuedBehindNext ==
  [][\A step \in {col'.undo.undo_steps[i] : i \in 1..1 \cap DOMAIN col'.undo.undo_steps} :
       (/\ shown # NoCard /\ shown' = NoCard
        /\ IsAnswer(step) /\ step.counter > col.undo.counter
        /\ QueueChangeOf(step).requeue # NoEntry) =>
         LET q == col'.queues
             ahead == QueueChangeOf(step).snapshot.cutoff + LearnAhead
             others == SelectSeq(q.learning, LAMBDA e : e.id # shown.id)
         IN (/\ QueueChangeOf(step).requeue.due <= ahead
             /\ others # <<>> /\ Head(others).due + 1 < ahead)
              => NextEntry(q).id # shown.id]_vars

\* No call panics: op_changes expects that the step its transaction has opened
\* is still open.
NoPanic == ~panicked
====
