---- MODULE ExamStudy ----
(* Studying for the exam on a desktop and a phone: the exam-priority queue and the
   filtered decks built from it, the ranking by recall on the exam day, and the
   scores that count the answers of both devices (rslib/src/scheduler/cfa_scores.rs,
   service/mod.rs, cfa_deadline.rs, pylib/anki/cfa.py, qt/aqt/cfa.py).
   The decks are the built-in one and the tree under CFA. A card's id is its note's.
   Each step takes a tick; a sync is one between steps (see CollectionSync). *)
EXTENDS Integers, FiniteSets, SequencesExt

CONSTANTS Cards, Tags, HomeOf,
          CanonicalTopics, ExamConfigs,  \* the official topics; the weights users may set
          Length,                        \* of a topic's name, in characters
          Outcomes,                      \* on each device, eases and the states they lead to
          HeldCards, OpKinds,            \* cards users bury, suspend and forget; steps taken
          FetchLimit,                    \* length of the exam queue (200 in the code)
          MinGraded,                     \* MIN_GRADED_REVIEWS (200 in the code)
          DayLength, FirstDay,           \* a day in ticks, and the first, if clocks are set
          MaxTime

VARIABLES col, weights, now
vars == <<col, weights, now>>

Devices == {"desktop", "phone"}
Filtered == {"Exam Priority", "Study Pairs"}
CfaTree == {"CFA", "Ethics Pairs"} \cup Filtered
Decks == {"Default"} \cup CfaTree
\* Faulty variant: the deck alone.
DeckIdOnly(d) == {d}
DeckIdWithChildren(d) == IF d = "CFA" THEN CfaTree ELSE {d}
NoDeck == "none"
NextDue == 1

ASSUME ExamAssumption ==
  /\ Cards \subseteq Nat /\ IsFiniteSet(Cards) /\ HeldCards \subseteq Cards
  /\ DOMAIN Tags = Cards /\ HomeOf \in [Cards -> Decks \ Filtered]
  /\ \A w \in ExamConfigs : \A t \in DOMAIN w : w[t] \in Nat
  \* A topic names something, and one below another has a longer name.
  /\ \A topics \in {DOMAIN w : w \in ExamConfigs} \cup {CanonicalTopics} :
       /\ IsFiniteSet(topics) /\ <<>> \notin topics
       /\ \A p \in topics : Length[p] \in Nat
       /\ \A p, q \in topics : IsStrictPrefix(p, q) => Length[p] < Length[q]
  /\ DOMAIN Outcomes = Devices
  /\ \A dev \in Devices : Outcomes[dev] \subseteq (1 .. 4) \X {"learn", "review"}
  /\ OpKinds \subseteq {"hold", "forget", "config", "ethics", "empty"}
  /\ {FetchLimit, MinGraded, DayLength, FirstDay, MaxTime} \subseteq Nat \ {0}

----
\* Orders

\* The elements of S as a sequence in the given total order.
InOrder(S, before(_, _)) ==
  [i \in 1 .. Cardinality(S) |->
     CHOOSE s \in S : Cardinality({r \in S : before(r, s)}) = i - 1]

\* A sequence in the given total order, the same elements as they stood.
Sorted(seq, before(_, _)) ==
  LET order == InOrder(DOMAIN seq, LAMBDA i, j : \/ before(seq[i], seq[j])
                                                 \/ seq[i] = seq[j] /\ i < j)
  IN  [i \in DOMAIN seq |-> seq[order[i]]]

----
\* Days

Rollover(k) == FirstDay + (k - 1) * DayLength
Day(t) == IF t < FirstDay THEN 0 ELSE 1 + (t - FirstDay) \div DayLength
NextDayAt(t) == Rollover(Day(t) + 1)

\* The division of the database truncates towards zero.
Truncated(a, b) == IF a < 0 THEN -((-a) \div b) ELSE a \div b
DayOffset == DayLength * (MaxTime + 1)
\* Faulty variant: nothing keeps the dividend positive.
ReviewDayFromZero(id, t) == Truncated(id - NextDayAt(t), DayLength)
\* The day a review is counted on, in whole days before the next rollover, shifted by
\* an offset that keeps the dividend positive.
ReviewDay(id, t) == Truncated(id - NextDayAt(t) + DayOffset, DayLength)

----
\* Cards

NewCard(did) == [did |-> did, odid |-> NoDeck, ctype |-> "new", queue |-> "open",
                 due |-> NextDue, odue |-> 0, seen |-> 0, mtime |-> 0, dirty |-> FALSE]

Due(card, t) ==
  card.queue = "open" /\ \/ card.ctype = "review" /\ card.due <= Day(t)
                         \/ card.ctype = "learn" /\ card.due <= t
New(card) == card.ctype = "new"

\* Faulty variant: the deck it came from is kept.
BackHomeKeepingDeck(card) ==
  IF card.odid = NoDeck THEN card
  ELSE [card EXCEPT !.did = card.odid, !.due = card.odue, !.odue = 0]

BackHome(card) ==
  IF card.odid = NoDeck THEN card
  ELSE [card EXCEPT !.did = card.odid, !.odid = NoDeck, !.due = card.odue, !.odue = 0]

MovedInto(card, deck, position) ==
  [card EXCEPT !.odid = card.did, !.did = deck, !.odue = card.due,
               !.due = IF @ > 0 THEN position ELSE @]

\* The card after its state has become a learning or a review one: learning cards
\* stay in a filtered deck.
Studied(card, next) ==
  IF next = "learn"
  THEN [card EXCEPT !.ctype = "learn", !.due = now + 1, !.seen = now]
  ELSE [BackHome(card) EXCEPT !.ctype = "review", !.due = Day(now) + 1, !.seen = now]

Unburied(card) ==
  IF card.queue = "buried" /\ Day(now + 1) # Day(now)
  THEN [card EXCEPT !.queue = "open", !.mtime = now + 1, !.dirty = TRUE] ELSE card

----
\* The exam queue

\* The topic the tags in a given range name: the one with the longest name that one of
\* them has for a prefix, <<>> if there is none.
LongestPrefix(c, prefixes, tags) ==
  LET matching == {p \in prefixes : \E i \in tags : IsPrefix(p, Tags[c][i])}
      longest == {p \in matching : \A q \in matching : Length[q] <= Length[p]}
      FirstTag(p) == Min({i \in tags : IsPrefix(p, Tags[c][i])})
  IN  IF matching = {} THEN <<>>
      ELSE CHOOSE p \in longest : \A q \in longest : FirstTag(p) <= FirstTag(q)

\* The topic a score counts a card for: only tags below "los" name one.
TopicOf[c \in Cards, prefixes \in {DOMAIN w : w \in ExamConfigs} \cup {CanonicalTopics}] ==
  LongestPrefix(c, prefixes, {i \in DOMAIN Tags[c] : Len(Tags[c][i]) > 1 /\ Tags[c][i][1] = "los"})

\* The queue weighs a card by the topic any of its tags names.
WeighedTopic[c \in Cards, prefixes \in {DOMAIN w : w \in ExamConfigs}] ==
  LongestPrefix(c, prefixes, DOMAIN Tags[c])

Weight(topic) == IF topic \in DOMAIN weights THEN weights[topic] ELSE 0

\* Cards never seen are the weakest, and others weaken with time.
Weakness(card) == IF card.seen = 0 THEN MaxTime + 1 ELSE now - card.seen
Score(cards, c) == Weight(WeighedTopic[c, DOMAIN weights]) * Weakness(cards[c])

ByScore(cards, cs) ==
  InOrder(cs, LAMBDA c, d :
    \/ Score(cards, c) > Score(cards, d)
    \/ Score(cards, c) = Score(cards, d) /\ c < d)

First(n, s) == SubSeq(s, 1, Min({n, Len(s)}))

Gathered(cards, decks) ==
  {c \in Cards : /\ cards[c].did \in decks /\ cards[c].queue # "suspended"
                 /\ Due(cards[c], now) \/ New(cards[c])}
BuildExamQueue(cards, deck) ==
  First(FetchLimit, ByScore(cards, Gathered(cards, DeckIdWithChildren(deck))))

TopLevelDecks == {"Default", "CFA"}
BuildExamQueueAllDecks(cards) ==
  First(FetchLimit,
    ByScore(cards, UNION {Gathered(cards, DeckIdWithChildren(d)) : d \in TopLevelDecks}))

ExamQueue(cards, deck) ==
  LET queue == BuildExamQueue(cards, deck)
  IN  IF queue = <<>> /\ deck = "Default" THEN BuildExamQueueAllDecks(cards) ELSE queue

----
\* Filtered decks

Returned(cards, deck) ==
  [c \in Cards |-> IF cards[c].did = deck
                   THEN [BackHome(cards[c]) EXCEPT !.mtime = now, !.dirty = TRUE]
                   ELSE cards[c]]

\* The deck is rebuilt in place: its cards go home, and then those that its search
\* matches move in, by the number of their note. NoDeck stands for the error that
\* there are none, which changes nothing.
StudyFilteredDeck(cards, deck, matched) ==
  LET home == Returned(cards, deck)
      found == {c \in matched : home[c].queue = "open" /\ home[c].odid = NoDeck}
      order == InOrder(found, <)
      Position(c) == (CHOOSE i \in DOMAIN order : order[i] = c) - 1 - Cardinality(Cards)
      filled == [c \in Cards |->
        IF c \in found
        THEN [MovedInto(home[c], deck, Position(c)) EXCEPT !.mtime = now, !.dirty = TRUE]
        ELSE home[c]]
  IN  IF found = {} THEN [cards |-> cards, entered |-> FALSE]
      ELSE [cards |-> filled, entered |-> TRUE]

\* Faulty variant: a new deck is made beside the one that holds the cards.
StudiedInNewDeck(cards, deck) ==
  LET queue == ExamQueue(cards, deck)
  IN  StudyFilteredDeck(cards, "Exam Priority", {c \in Range(queue) : cards[c].odid = NoDeck})

\* The queue is built before the exam deck's cards go home.
StudiedByExamPriority(cards, deck) ==
  StudyFilteredDeck(cards, "Exam Priority", Range(ExamQueue(cards, deck)))

StudiedEthicsPairs(cards) ==
  LET home == Returned(cards, "Study Pairs")
  IN  StudyFilteredDeck(cards, "Study Pairs",
        {c \in Cards : "Ethics Pairs" \in {home[c].did, home[c].odid}})

----
\* Scores

CardsIn(cards, decks) == {c \in Cards : cards[c].did \in decks}
Graded(revlog, c) == {r \in revlog : r.cid = c /\ r.ease > 0}
GradedReviews(revlog, c) == Cardinality({ReviewDay(r.id, now) : r \in Graded(revlog, c)})

Syllabus == IF DOMAIN weights = {} THEN CanonicalTopics ELSE DOMAIN weights

Heavy(topic) ==
  LET positive == {t \in DOMAIN weights : weights[t] > 0}
  IN  /\ Weight(topic) > 0
      /\ Weight(topic) * Cardinality(positive) >= MapThenSumSet(LAMBDA t : weights[t], positive)

MemoryScore(k, decks) ==
  LET scope == CardsIn(k.cards, decks)
      topics == [c \in scope |-> TopicOf[c, Syllabus]]
      graded == [c \in scope |-> GradedReviews(k.revlog, c)]
      total == MapThenSumSet(LAMBDA c : graded[c], scope)
      covered == {t \in Syllabus : /\ \E c \in scope : topics[c] = t /\ graded[c] > 0
                                   /\ \E c \in scope : topics[c] = t /\ k.cards[c].seen # 0}
  IN  [graded |-> total, covered |-> covered,
       quoted |-> /\ total >= MinGraded /\ 2 * Cardinality(covered) >= Cardinality(Syllabus)
                  /\ \A t \in Syllabus \ covered : ~Heavy(t)]

CORRECT_EASE == 2

\* Cards answered at all, and those whose first answer was right.
PerformanceScore(k, decks) ==
  LET exposed == {c \in CardsIn(k.cards, decks) : Graded(k.revlog, c) # {}}
      Earliest(c) == CHOOSE r \in Graded(k.revlog, c) :
                       \A q \in Graded(k.revlog, c) : r.id <= q.id
  IN  [first_exposures |-> Cardinality(exposed),
       correct |-> Cardinality({c \in exposed : Earliest(c).ease >= CORRECT_EASE})]

\* Recall on the exam day: cards seen earlier are weaker, and those never seen weakest.
PredictedRecall(card) == card.seen
Weaker(cards, c, d) ==
  \/ PredictedRecall(cards[c]) < PredictedRecall(cards[d])
  \/ PredictedRecall(cards[c]) = PredictedRecall(cards[d]) /\ c < d

DeadlineRetention(cards, deck) ==
  InOrder({c \in CardsIn(cards, DeckIdWithChildren(deck)) : Due(cards[c], now)},
          LAMBDA c, d : Weaker(cards, c, d))

\* Faulty variant: whatever new cards leave.
DueTakenLast(due, new, limit) == Min({due, Max({0, limit - new})})
DueTaken(due, new, limit) == Min({due, Max({limit \div 2, limit - new})})

\* The due cards keep half of the places, and new ones fill what they leave.
DeadlineRetentionWithNew(cards, deck, limit) ==
  LET tree == DeckIdWithChildren(deck)
      due == DeadlineRetention(cards, deck)
      new == InOrder({c \in Cards : /\ {cards[c].did, cards[c].odid} \cap tree # {}
                                    /\ New(cards[c])} \ Range(due), <)
      taken == DueTaken(Len(due), Len(new), limit)
  IN  Sorted(First(taken, due) \o First(limit - taken, new), LAMBDA c, d : Weaker(cards, c, d))

----
\* Steps

Init ==
  /\ col = [dev \in Devices |-> [cards |-> [c \in Cards |-> NewCard(HomeOf[c])], revlog |-> {}]]
  /\ weights \in ExamConfigs
  /\ now = 1

\* A tick; on a new day cards that were buried are unburied.
Tick(cols) ==
  /\ now < MaxTime /\ now' = now + 1
  /\ col' = [dev \in Devices |->
       [cols[dev] EXCEPT !.cards = [c \in Cards |-> Unburied(cols[dev].cards[c])]]]

Changed(card) == [card EXCEPT !.mtime = now, !.dirty = TRUE]

Wait == Tick(col) /\ UNCHANGED weights

AnswerCard(dev, c, ease, next) ==
  LET card == col[dev].cards[c] IN
  /\ card.queue = "open" /\ (New(card) \/ Due(card, now))
  /\ Tick([col EXCEPT ![dev] =
       [cards |-> [@.cards EXCEPT ![c] = Changed(Studied(card, next))],
        revlog |-> @.revlog \cup {[id |-> now, cid |-> c, ease |-> ease]}]])
  /\ UNCHANGED weights

\* The card is new again, and what it was answered is kept.
RescheduleAsNew(c) ==
  LET card == BackHome(col["desktop"].cards[c]) IN
  /\ "forget" \in OpKinds /\ card.seen # 0
  /\ Tick([col EXCEPT !["desktop"] =
       [cards |-> [@.cards EXCEPT ![c] = Changed(
          [card EXCEPT !.ctype = "new", !.queue = "open", !.due = NextDue, !.seen = 0])],
        revlog |-> @.revlog \cup {[id |-> now, cid |-> c, ease |-> 0]}]])
  /\ UNCHANGED weights

BuryOrSuspend(c, queue) ==
  LET card == col["desktop"].cards[c] IN
  /\ "hold" \in OpKinds /\ card.queue \notin {"suspended", queue}
  /\ Tick([col EXCEPT !["desktop"].cards[c] = Changed([card EXCEPT !.queue = queue])])
  /\ UNCHANGED weights

SetExamConfig(w) ==
  /\ "config" \in OpKinds /\ w # weights /\ now < MaxTime
  /\ weights' = w /\ UNCHANGED <<col, now>>

\* From the deck that is selected.
StudyByExamPriority(current) ==
  LET study == StudiedByExamPriority(col["desktop"].cards, current) IN
  /\ study.entered
  /\ Tick([col EXCEPT !["desktop"].cards = study.cards])
  /\ UNCHANGED weights

StudyEthicsPairs ==
  LET study == StudiedEthicsPairs(col["desktop"].cards) IN
  /\ "ethics" \in OpKinds /\ study.entered
  /\ Tick([col EXCEPT !["desktop"].cards = study.cards])
  /\ UNCHANGED weights

EmptyFilteredDeck(deck) ==
  /\ "empty" \in OpKinds /\ CardsIn(col["desktop"].cards, {deck}) # {}
  /\ Tick([col EXCEPT !["desktop"].cards = Returned(@, deck)])
  /\ UNCHANGED weights

\* Both devices sync: all answers are kept, and of a card changed on both the later change.
Sync ==
  LET desktop == col["desktop"]
      phone == col["phone"]
      Newer(a, b) == a.dirty /\ (b.dirty => a.mtime > b.mtime)
      Merged(c) == IF Newer(phone.cards[c], desktop.cards[c])
                   THEN phone.cards[c] ELSE desktop.cards[c]
      merged == [cards |-> [c \in Cards |-> [Merged(c) EXCEPT !.dirty = FALSE]],
                 revlog |-> desktop.revlog \cup phone.revlog]
  IN  /\ desktop # merged \/ phone # merged
      /\ col' = [dev \in Devices |-> merged]
      /\ UNCHANGED <<weights, now>>

Next ==
  \/ Wait \/ Sync \/ StudyEthicsPairs
  \/ \E deck \in Decks : StudyByExamPriority(deck)
  \/ \E dev \in Devices, c \in Cards : \E o \in Outcomes[dev] : AnswerCard(dev, c, o[1], o[2])
  \/ \E c \in HeldCards : RescheduleAsNew(c)
  \/ \E c \in HeldCards, queue \in {"buried", "suspended"} : BuryOrSuspend(c, queue)
  \/ \E w \in ExamConfigs : SetExamConfig(w)
  \/ \E deck \in Filtered : EmptyFilteredDeck(deck)

Spec == Init /\ [][Next]_vars

----------------------------------------------------------------------------
(* Properties. *)

\* A card is in a filtered deck when it knows the deck it came from, and only then
\* does it keep its due value aside; and one that is not new has been answered.
TypeOK ==
  /\ now \in 1 .. MaxTime /\ weights \in ExamConfigs
  /\ \A dev \in Devices :
       /\ \A r \in col[dev].revlog : r.id < now /\ r.cid \in Cards /\ r.ease \in 0 .. 4
       /\ \A c \in Cards :
            LET card == col[dev].cards[c] IN
            /\ card.did \in Decks /\ card.odid \in (Decks \ Filtered) \cup {NoDeck}
            /\ card.queue \in {"open", "buried", "suspended"}
            /\ card.did \in Filtered <=> card.odid # NoDeck
            /\ card.odue > 0 <=> card.odid # NoDeck
            /\ New(card) <=> card.seen = 0
            /\ card.seen # 0 => \E r \in Graded(col[dev].revlog, c) : r.id = card.seen

\* An answer counts once for its card and day, on whichever devices it was given and
\* at whatever moment of the day; and a memory score is quoted only when there are
\* enough of them, for half of the topics and for all heavy ones
\* (graded_reviews_by_card, memory_giveup_reason).
EvidenceCountedOnce ==
  \A deck \in Decks :
    LET k == col["desktop"]
        memory == MemoryScore(k, DeckIdWithChildren(deck))
        evidence == UNION {{<<c, Day(r.id)>> : r \in Graded(k.revlog, c)} :
                           c \in CardsIn(k.cards, DeckIdWithChildren(deck))}
        answered == {TopicOf[e[1], Syllabus] : e \in evidence} \ {<<>>}
    IN  /\ memory.graded = Cardinality(evidence)
        /\ memory.quoted => /\ Cardinality(evidence) >= MinGraded
                            /\ 2 * Cardinality(answered) >= Cardinality(Syllabus)
                            /\ \A t \in Syllabus : Heavy(t) => t \in answered

\* The scores of the CFA deck are what they would be were every card at home: building,
\* rebuilding and emptying the study decks, which give cards another deck, do not move
\* them, whatever a sync mixes, as long as no card lives in the built-in deck
\* (compute_cfa_scores).
StudyDecksKeepScores ==
  LET k == col["desktop"]
      home == [k EXCEPT !.cards = [c \in Cards |-> BackHome(@[c])]]
      cfa == DeckIdWithChildren("CFA")
  IN  MemoryScore(k, cfa) = MemoryScore(home, cfa)
      /\ PerformanceScore(k, cfa) = PerformanceScore(home, cfa)

\* Studying by priority ends in the reviewer, with something to review, as often as it
\* is asked for, from any deck that has a card to study that no other filtered deck
\* holds - or, from the default deck, when some deck has one - unless cards that cannot
\* be studied fill the queue (_study_filtered_deck, study_by_exam_priority).
ReviewIsReached ==
  \A deck \in Decks :
    LET cards == col["desktop"].cards
        here == Gathered(cards, DeckIdWithChildren(deck))
        scope == IF here = {} /\ deck = "Default" THEN Gathered(cards, Decks) ELSE here
        studyable == {c \in scope : cards[c].queue = "open" /\ cards[c].did # "Study Pairs"}
        study == StudiedByExamPriority(cards, deck)
    IN  studyable # {} /\ Cardinality(scope \ studyable) < FetchLimit =>
          /\ study.entered
          /\ \E c \in studyable : study.cards[c].did = "Exam Priority"
                                  /\ (New(study.cards[c]) \/ Due(study.cards[c], now))

\* In the ranking for the exam day no card appears twice, no place is left empty while
\* there are cards for it, and new cards leave due ones half of the places if their
\* number is even, the smaller half if it is odd - none of a single place - which the
\* weakest of them get (deadline_retention_with_new, limit // 2).
DueKeepHalf ==
  \A deck \in Decks, limit \in 1 .. Cardinality(Cards) :
    LET cards == col["desktop"].cards
        rows == DeadlineRetentionWithNew(cards, deck, limit)
        ranked == Range(rows)
        due == {c \in CardsIn(cards, DeckIdWithChildren(deck)) : Due(cards[c], now)}
        new == {c \in CardsIn(cards, DeckIdWithChildren(deck)) : New(cards[c])}
    IN  /\ Cardinality(ranked) = Len(rows) /\ Len(rows) <= limit
        /\ Len(rows) >= Min({limit, Cardinality(due \cup new)})
        /\ Cardinality(ranked \cap due) >= Min({Cardinality(due), limit \div 2})
        /\ \A c \in due \cap ranked, d \in due \ ranked :
             PredictedRecall(cards[c]) <= PredictedRecall(cards[d])

\* "At least half of the slots are reserved for DUE cards" (pylib/anki/cfa.py:359), of
\* an odd number too.
DueGetHalf ==
  \A deck \in Decks, limit \in 1 .. Cardinality(Cards) :
    LET cards == col["desktop"].cards
        ranked == Range(DeadlineRetentionWithNew(cards, deck, limit))
        due == {c \in CardsIn(cards, DeckIdWithChildren(deck)) : Due(cards[c], now)}
    IN  due \subseteq ranked \/ 2 * Cardinality(ranked \cap due) >= limit

\* The exam deck gives its cards in the order of the queue (qt/aqt/cfa.py: "the
\* filtered deck keeps that order").
ExamDeckKeepsPriority ==
  \A deck \in Decks :
    LET cards == col["desktop"].cards
        queue == ExamQueue(cards, deck)
        study == StudiedByExamPriority(cards, deck)
    IN  study.entered => \A i, j \in DOMAIN queue :
          i < j /\ {study.cards[queue[k]].did : k \in {i, j}} = {"Exam Priority"}
            => study.cards[queue[i]].due <= study.cards[queue[j]].due

\* Of a card answered on both devices the later answer decides its state once they
\* have synced (pylib/anki/cfa_sync.py: "the more recent review wins").
LatestReviewWins ==
  \A c \in Cards :
    LET k == col["desktop"] IN
    (\A dev \in Devices : ~col[dev].cards[c].dirty) =>
      \A r \in Graded(k.revlog, c) :
        r.id <= k.cards[c].seen \/ \E q \in k.revlog : q.cid = c /\ q.ease = 0 /\ q.id > r.id
====
