---- MODULE ExamStudy_proofs ----
(***************************************************************************)
(* Theorems about ExamStudy, for any cards, topics, weights and clocks:    *)
(* its types, that the study decks do not move the scores, that an answer  *)
(* counts once for its card and day, that studying by priority reaches a   *)
(* review, and that the ranking for the exam day shares its places.        *)
(***************************************************************************)
EXTENDS ExamStudy, FiniteSetTheorems, SequenceTheorems, TLAPS

---------------------------------------------------------------------------
(* The inductive invariant *)

Fields == {"did", "odid", "ctype", "queue", "due", "odue", "seen", "mtime", "dirty"}
IsRecord(r, fields) == DOMAIN r = fields /\ r = [f \in fields |-> r[f]]

\* A card is at home or knows the way there: its home is what it was at first.
GoodCard(card, home) ==
  /\ IsRecord(card, Fields)
  /\ card.did \in Decks /\ card.odid \in (Decks \ Filtered) \cup {NoDeck}
  /\ card.queue \in {"open", "buried", "suspended"}
  /\ card.did \in Filtered <=> card.odid # NoDeck
  /\ card.odid = NoDeck => card.odue = 0 /\ card.due \in Nat \ {0}
  /\ card.odid # NoDeck => card.odue \in Nat \ {0}
  /\ card.seen \in Nat
  /\ card.ctype = "new" <=> card.seen = 0
  /\ home = IF card.odid = NoDeck THEN card.did ELSE card.odid

\* The answers of a device: those of earlier moments, each of a card.
GoodReviews(revlog, t) ==
  /\ IsFiniteSet(revlog)
  /\ \A r \in revlog : r.id \in Nat \ {0} /\ r.id < t /\ r.cid \in Cards /\ r.ease \in 0..4

\* A card that was seen was answered then.
Answered(card, revlog, c) ==
  card.seen # 0 => \E r \in revlog : r.cid = c /\ r.ease > 0 /\ r.id = card.seen

\* A device at a moment.
GoodDevice(k, t) ==
  /\ IsRecord(k, {"cards", "revlog"})
  /\ IsRecord(k.cards, Cards)
  /\ GoodReviews(k.revlog, t)
  /\ \A c \in Cards : GoodCard(k.cards[c], HomeOf[c]) /\ Answered(k.cards[c], k.revlog, c)

IInv ==
  /\ now \in 1..MaxTime /\ weights \in ExamConfigs
  /\ \A dev \in Devices : GoodDevice(col[dev], now)
  /\ IsRecord(col, Devices)

---------------------------------------------------------------------------
(* What happens to a card *)

\* A card at home.
LEMMA NewCardGood ==
  ASSUME NEW did \in Decks \ Filtered
  PROVE  GoodCard(NewCard(did), did) /\ NewCard(did).seen = 0
<1> DEFINE card == NewCard(did)
<1>1. /\ card.did = did /\ card.odid = NoDeck /\ card.ctype = "new" /\ card.queue = "open"
      /\ card.due = 1 /\ card.odue = 0 /\ card.seen = 0
  BY DEF NewCard, NextDue
<1>2. IsRecord(card, Fields)
  BY DEF NewCard, IsRecord, Fields
<1> HIDE DEF card
<1>3. did # NoDeck
  BY DEF Decks, CfaTree, Filtered, NoDeck
<1>4. GoodCard(card, did)
  BY <1>1, <1>2, <1>3 DEF GoodCard
<1> QED BY <1>1, <1>4 DEF card

\* Going home.
LEMMA BackHomeGood ==
  ASSUME NEW home, NEW card, GoodCard(card, home)
  PROVE  LET b == BackHome(card)
         IN /\ GoodCard(b, home) /\ b.did = home /\ b.odid = NoDeck
            /\ b.seen = card.seen /\ b.ctype = card.ctype /\ b.queue = card.queue
<1> DEFINE b == BackHome(card)
<1>1. CASE card.odid = NoDeck
  <2>1. b = card
    BY <1>1 DEF BackHome
  <2> QED BY <1>1, <2>1 DEF GoodCard
<1>2. CASE card.odid # NoDeck
  <2>1. b = [card EXCEPT !.did = card.odid, !.odid = NoDeck, !.due = card.odue, !.odue = 0]
    BY <1>2 DEF BackHome
  <2>2. /\ IsRecord(b, Fields) /\ b.did = card.odid /\ b.odid = NoDeck /\ b.due = card.odue
        /\ b.odue = 0 /\ b.seen = card.seen /\ b.ctype = card.ctype /\ b.queue = card.queue
    BY <2>1 DEF GoodCard, IsRecord, Fields
  <2> HIDE DEF b
  <2>3. card.odid \in Decks \ Filtered /\ card.odue \in Nat \ {0} /\ home = card.odid
    BY <1>2 DEF GoodCard
  <2>4. GoodCard(b, home)
    BY <2>2, <2>3 DEF GoodCard
  <2> QED BY <2>2, <2>3, <2>4 DEF b
<1> QED BY <1>1, <1>2

\* Moving into a filtered deck.
LEMMA MovedIntoGood ==
  ASSUME NEW home, NEW card, GoodCard(card, home), card.odid = NoDeck, NEW deck \in Filtered,
         NEW position
  PROVE  LET m == MovedInto(card, deck, position)
         IN GoodCard(m, home) /\ m.seen = card.seen
<1> DEFINE m == MovedInto(card, deck, position)
<1>1. /\ IsRecord(m, Fields) /\ m.did = deck /\ m.odid = card.did /\ m.odue = card.due
      /\ m.seen = card.seen /\ m.ctype = card.ctype /\ m.queue = card.queue
  BY DEF GoodCard, IsRecord, Fields, MovedInto
<1> HIDE DEF m
<1>2. deck \in Decks /\ card.did \in Decks \ Filtered /\ card.due \in Nat \ {0} /\ home = card.did
  BY DEF GoodCard, Decks, CfaTree
<1>3. card.did # NoDeck
  BY <1>2 DEF Decks, CfaTree, Filtered, NoDeck
<1>4. GoodCard(m, home)
  BY <1>1, <1>2, <1>3 DEF GoodCard
<1> QED BY <1>1, <1>4 DEF m

\* A change's stamp.
LEMMA ChangedGood ==
  ASSUME NEW home, NEW card, GoodCard(card, home)
  PROVE  GoodCard(Changed(card), home) /\ Changed(card).seen = card.seen
         /\ Changed(card).odid = card.odid
<1> DEFINE b == [card EXCEPT !.mtime = now, !.dirty = TRUE]
<1>1. /\ IsRecord(b, Fields) /\ b.did = card.did /\ b.odid = card.odid
      /\ b.due = card.due /\ b.odue = card.odue /\ b.seen = card.seen
      /\ b.ctype = card.ctype /\ b.queue = card.queue
  BY DEF GoodCard, IsRecord, Fields
<1>2. Changed(card) = b
  BY DEF Changed
<1> HIDE DEF b
<1>3. GoodCard(b, home)
  BY <1>1 DEF GoodCard
<1> QED BY <1>1, <1>2, <1>3

\* Days are numbered from zero on.
LEMMA DayType ==
  ASSUME NEW t \in Nat
  PROVE  Day(t) \in Nat
<1>1. FirstDay \in Nat \ {0} /\ DayLength \in Nat \ {0}
  BY ExamAssumption
<1>2. ASSUME NEW n \in Nat, NEW m \in Nat \ {0} PROVE n \div m \in Nat
  BY <1>2
<1>3. ~(t < FirstDay) => (t - FirstDay) \div DayLength \in Nat
  BY <1>1, <1>2
<1> QED BY <1>1, <1>3 DEF Day

\* A card after an answer.
LEMMA StudiedGood ==
  ASSUME now \in Nat \ {0}, NEW home, NEW card, GoodCard(card, home), NEW next
  PROVE  LET s == Studied(card, next) IN GoodCard(s, home) /\ s.seen = now
<1> DEFINE s == Studied(card, next)
           d == Day(now) + 1
           l == now + 1
<1>1. d \in Nat \ {0} /\ l \in Nat \ {0}
  BY DayType
<1>2. CASE next = "learn"
  <2>1. s = [card EXCEPT !.ctype = "learn", !.due = l, !.seen = now]
    BY <1>2 DEF Studied
  <2>2. /\ IsRecord(s, Fields) /\ s.did = card.did /\ s.odid = card.odid /\ s.due = l
        /\ s.odue = card.odue /\ s.seen = now /\ s.ctype = "learn" /\ s.queue = card.queue
    <3> HIDE DEF l
    <3> QED BY <2>1 DEF GoodCard, IsRecord, Fields
  <2> HIDE DEF s, l
  <2>3. GoodCard(s, home)
    BY <1>1, <2>2 DEF GoodCard
  <2> QED BY <2>2, <2>3 DEF s
<1>3. CASE next # "learn"
  <2> DEFINE b == BackHome(card)
  <2>1. s = [b EXCEPT !.ctype = "review", !.due = d, !.seen = now]
    BY <1>3 DEF Studied
  <2>2. GoodCard(b, home) /\ b.odid = NoDeck
    BY BackHomeGood
  <2> HIDE DEF b, d
  <2>3. /\ IsRecord(s, Fields) /\ s.did = b.did /\ s.odid = b.odid /\ s.due = d
        /\ s.odue = b.odue /\ s.seen = now /\ s.ctype = "review" /\ s.queue = b.queue
    BY <2>1, <2>2 DEF GoodCard, IsRecord, Fields
  <2> HIDE DEF s
  <2>4. GoodCard(s, home)
    BY <1>1, <2>2, <2>3 DEF GoodCard
  <2> QED BY <2>3, <2>4 DEF s
<1> QED BY <1>2, <1>3

\* A card that is new again.
Forgotten(card) == [card EXCEPT !.ctype = "new", !.queue = "open", !.due = NextDue, !.seen = 0]
LEMMA ForgottenGood ==
  ASSUME NEW home, NEW card, GoodCard(card, home), card.odid = NoDeck
  PROVE  GoodCard(Forgotten(card), home) /\ Forgotten(card).seen = 0
<1> DEFINE f == Forgotten(card)
<1>1. /\ IsRecord(f, Fields) /\ f.did = card.did /\ f.odid = card.odid /\ f.due = NextDue
      /\ f.odue = card.odue /\ f.seen = 0 /\ f.ctype = "new" /\ f.queue = "open"
  BY DEF GoodCard, IsRecord, Fields, Forgotten
<1> HIDE DEF f
<1>2. GoodCard(f, home)
  BY <1>1 DEF GoodCard, NextDue
<1> QED BY <1>1, <1>2 DEF f

\* A card that is held back, or no longer.
Held(card, queue) == [card EXCEPT !.queue = queue]
LEMMA HeldGood ==
  ASSUME NEW home, NEW card, GoodCard(card, home), NEW queue \in {"open", "buried", "suspended"}
  PROVE  GoodCard(Held(card, queue), home) /\ Held(card, queue).seen = card.seen
<1> DEFINE b == Held(card, queue)
<1>1. /\ IsRecord(b, Fields) /\ b.did = card.did /\ b.odid = card.odid
      /\ b.due = card.due /\ b.odue = card.odue /\ b.seen = card.seen
      /\ b.ctype = card.ctype /\ b.queue = queue
  BY DEF GoodCard, IsRecord, Fields, Held
<1> HIDE DEF b
<1>2. GoodCard(b, home)
  BY <1>1 DEF GoodCard
<1> QED BY <1>1, <1>2 DEF b

\* A card that has been sent.
Clean(card) == [card EXCEPT !.dirty = FALSE]
LEMMA CleanGood ==
  ASSUME NEW home, NEW card, GoodCard(card, home)
  PROVE  GoodCard(Clean(card), home) /\ Clean(card).seen = card.seen
<1> DEFINE b == Clean(card)
<1>1. /\ IsRecord(b, Fields) /\ b.did = card.did /\ b.odid = card.odid
      /\ b.due = card.due /\ b.odue = card.odue /\ b.seen = card.seen
      /\ b.ctype = card.ctype /\ b.queue = card.queue
  BY DEF GoodCard, IsRecord, Fields, Clean
<1> HIDE DEF b
<1>2. GoodCard(b, home)
  BY <1>1 DEF GoodCard
<1> QED BY <1>1, <1>2 DEF b

\* A new day.
LEMMA UnburiedGood ==
  ASSUME NEW home, NEW card, GoodCard(card, home)
  PROVE  LET b == Unburied(card) IN GoodCard(b, home) /\ b.seen = card.seen
<1> DEFINE later == now + 1
           b == [card EXCEPT !.queue = "open", !.mtime = later, !.dirty = TRUE]
<1>1. Unburied(card) = card \/ Unburied(card) = b
  BY DEF Unburied
<1> HIDE DEF later
<1>2. /\ IsRecord(b, Fields) /\ b.did = card.did /\ b.odid = card.odid
      /\ b.due = card.due /\ b.odue = card.odue /\ b.seen = card.seen
      /\ b.ctype = card.ctype /\ b.queue = "open"
  BY DEF GoodCard, IsRecord, Fields
<1> HIDE DEF b
<1>3. GoodCard(b, home)
  BY <1>2 DEF GoodCard
<1> QED BY <1>1, <1>2, <1>3

---------------------------------------------------------------------------
(* What happens to a device *)

\* The answers of a device stay the answers of a card.
LEMMA AnsweredKept ==
  ASSUME NEW card, NEW revlog, NEW c, Answered(card, revlog, c),
         NEW b, b.seen \in {0, card.seen}, NEW more, revlog \subseteq more
  PROVE  Answered(b, more, c)
BY DEF Answered

\* Other cards, with the same answers.
LEMMA CardsGood ==
  ASSUME NEW k, NEW t, GoodDevice(k, t), NEW cards, IsRecord(cards, Cards),
         \A c \in Cards : /\ GoodCard(cards[c], HomeOf[c])
                          /\ cards[c].seen \in {0, k.cards[c].seen}
  PROVE  LET d == [k EXCEPT !.cards = cards]
         IN GoodDevice(d, t) /\ d.cards = cards /\ d.revlog = k.revlog
<1> DEFINE d == [k EXCEPT !.cards = cards]
<1>1. IsRecord(d, {"cards", "revlog"}) /\ d.cards = cards /\ d.revlog = k.revlog
  BY DEF GoodDevice, IsRecord
<1> HIDE DEF d
<1>2. \A c \in Cards : Answered(cards[c], k.revlog, c)
  BY AnsweredKept DEF GoodDevice
<1>3. GoodDevice(d, t)
  BY <1>1, <1>2 DEF GoodDevice
<1> QED BY <1>1, <1>3 DEF d

\* One answer more.
LEMMA AnswerGood ==
  ASSUME now \in Nat \ {0}, NEW k, GoodDevice(k, now), NEW c \in Cards, NEW card,
         GoodCard(card, HomeOf[c]), NEW ease \in 0..4, card.seen \in {0, now},
         ease = 0 => card.seen = 0
  PROVE  LET d == [cards |-> [k.cards EXCEPT ![c] = card],
                   revlog |-> k.revlog \cup {[id |-> now, cid |-> c, ease |-> ease]}]
         IN GoodDevice(d, now + 1)
<1> DEFINE cards == [k.cards EXCEPT ![c] = card]
           r == [id |-> now, cid |-> c, ease |-> ease]
           revlog == k.revlog \cup {r}
           d == [cards |-> cards, revlog |-> revlog]
<1>1. IsRecord(d, {"cards", "revlog"}) /\ d.cards = cards /\ d.revlog = revlog
  BY DEF IsRecord
<1>2. /\ IsRecord(cards, Cards) /\ cards[c] = card
      /\ \A e \in Cards \ {c} : cards[e] = k.cards[e]
  BY DEF IsRecord, GoodDevice
<1>3. r.id = now /\ r.cid = c /\ r.ease = ease
  OBVIOUS
<1> HIDE DEF d, cards, r
<1>4. GoodReviews(revlog, now + 1)
  <2>1. IsFiniteSet(revlog)
    BY FS_AddElement DEF GoodDevice, GoodReviews
  <2>2. ASSUME NEW s \in revlog
        PROVE  s.id \in Nat \ {0} /\ s.id < now + 1 /\ s.cid \in Cards /\ s.ease \in 0..4
    <3>1. CASE s \in k.revlog
      BY <3>1 DEF GoodDevice, GoodReviews
    <3>2. CASE s = r
      BY <1>3, <3>2
    <3> QED BY <3>1, <3>2
  <2> QED BY <2>1, <2>2 DEF GoodReviews
<1>5. ASSUME NEW e \in Cards
      PROVE  GoodCard(cards[e], HomeOf[e]) /\ Answered(cards[e], revlog, e)
  <2>1. CASE e = c
    <3>1. Answered(card, revlog, c)
      BY <1>3 DEF Answered
    <3> QED BY <1>2, <2>1, <3>1
  <2>2. CASE e # c
    <3>1. cards[e] = k.cards[e] /\ GoodCard(k.cards[e], HomeOf[e])
          /\ Answered(k.cards[e], k.revlog, e)
      BY <1>2, <2>2 DEF GoodDevice
    <3>2. k.cards[e].seen \in {0, k.cards[e].seen} /\ k.revlog \subseteq revlog
      OBVIOUS
    <3> QED BY <3>1, <3>2, AnsweredKept
  <2> QED BY <2>1, <2>2
<1>6. GoodDevice(d, now + 1)
  BY <1>1, <1>2, <1>4, <1>5 DEF GoodDevice
<1> QED BY <1>6 DEF d, cards, r

\* Time passes.
LEMMA LaterGood ==
  ASSUME now \in Nat, NEW k, GoodDevice(k, now)
  PROVE  GoodDevice(k, now + 1)
<1>1. GoodReviews(k.revlog, now + 1)
  <2>1. ASSUME NEW r \in k.revlog PROVE r.id \in Nat \ {0} /\ r.id < now + 1
    BY DEF GoodDevice, GoodReviews
  <2> QED BY <2>1 DEF GoodDevice, GoodReviews
<1> QED BY <1>1 DEF GoodDevice

\* A tick on good devices.
LEMMA TickKeeps ==
  ASSUME IInv, NEW cols, \A dev \in Devices : GoodDevice(cols[dev], now + 1), Tick(cols),
         weights' = weights
  PROVE  IInv'
<1> DEFINE cards(dev) == [c \in Cards |-> Unburied(cols[dev].cards[c])]
<1>1. /\ now < MaxTime /\ now' = now + 1
      /\ col' = [dev \in Devices |-> [cols[dev] EXCEPT !.cards = cards(dev)]]
  BY DEF Tick
<1>2. now \in 1..MaxTime /\ weights \in ExamConfigs /\ MaxTime \in Nat
  BY ExamAssumption DEF IInv
<1>3. ASSUME NEW dev \in Devices PROVE GoodDevice(col'[dev], now + 1)
  <2> DEFINE k == cols[dev]
  <2>1. IsRecord(cards(dev), Cards)
    BY DEF IsRecord
  <2>2. ASSUME NEW c \in Cards
        PROVE  /\ GoodCard(cards(dev)[c], HomeOf[c])
               /\ cards(dev)[c].seen \in {0, k.cards[c].seen}
    <3>1. GoodCard(k.cards[c], HomeOf[c])
      BY DEF GoodDevice
    <3>2. cards(dev)[c] = Unburied(k.cards[c])
      OBVIOUS
    <3> HIDE DEF cards, k
    <3> QED BY <3>1, <3>2, UnburiedGood
  <2>3. GoodDevice(k, now + 1)
    OBVIOUS
  <2>4. col'[dev] = [k EXCEPT !.cards = cards(dev)]
    BY <1>1
  <2> HIDE DEF cards, k
  <2> QED BY <2>1, <2>2, <2>3, <2>4, CardsGood
<1>4. IsRecord(col', Devices)
  BY <1>1 DEF IsRecord
<1>5. now' \in 1..MaxTime /\ weights' \in ExamConfigs
  BY <1>1, <1>2
<1>6. \A dev \in Devices : GoodDevice(col'[dev], now')
  BY <1>1, <1>3, Zenon
<1> HIDE DEF cards
<1> QED BY <1>4, <1>5, <1>6, Zenon DEF IInv

\* A tick after a change of one device.
LEMMA DeviceTickKeeps ==
  ASSUME IInv, NEW dev \in Devices, NEW k, GoodDevice(k, now + 1),
         Tick([col EXCEPT ![dev] = k]), weights' = weights
  PROVE  IInv'
<1> DEFINE cols == [col EXCEPT ![dev] = k]
<1>1. now \in Nat
  BY ExamAssumption DEF IInv
<1>2. ASSUME NEW d \in Devices PROVE GoodDevice(cols[d], now + 1)
  <2>1. CASE d = dev
    <3>1. cols[d] = k
      BY <2>1 DEF IInv, IsRecord
    <3> QED BY <3>1
  <2>2. CASE d # dev
    <3>1. cols[d] = col[d] /\ GoodDevice(col[d], now)
      BY <2>2 DEF IInv, IsRecord
    <3> QED BY <1>1, <3>1, LaterGood
  <2> QED BY <2>1, <2>2
<1>3. Tick(cols)
  OBVIOUS
<1> HIDE DEF cols
<1> QED BY <1>2, <1>3, TickKeeps

\* A tick after a change of the desktop's cards.
LEMMA DesktopTickKeeps ==
  ASSUME IInv, NEW cards, IsRecord(cards, Cards),
         \A c \in Cards : /\ GoodCard(cards[c], HomeOf[c])
                          /\ cards[c].seen \in {0, col["desktop"].cards[c].seen},
         Tick([col EXCEPT !["desktop"].cards = cards]), weights' = weights
  PROVE  IInv'
<1> DEFINE old == col["desktop"]
           k == [old EXCEPT !.cards = cards]
<1>1. "desktop" \in Devices /\ now \in Nat
  BY ExamAssumption DEF Devices, IInv
<1>2. GoodDevice(old, now + 1)
  BY <1>1, LaterGood DEF IInv
<1>3. GoodDevice(k, now + 1)
  <2> HIDE DEF old
  <2>1. \A c \in Cards : /\ GoodCard(cards[c], HomeOf[c])
                         /\ cards[c].seen \in {0, old.cards[c].seen}
    BY DEF old
  <2> QED BY <1>2, <2>1, CardsGood
<1>4. Tick([col EXCEPT !["desktop"] = k])
  OBVIOUS
<1> HIDE DEF k
<1> QED BY <1>1, <1>3, <1>4, DeviceTickKeeps

---------------------------------------------------------------------------
(* The initial states, and each step *)

\* At first all cards are new and at home.
LEMMA InitGood ==
  ASSUME Init
  PROVE  IInv
<1> DEFINE cards == [c \in Cards |-> NewCard(HomeOf[c])]
           k == [cards |-> cards, revlog |-> {}]
<1>1. /\ col = [dev \in Devices |-> k] /\ weights \in ExamConfigs /\ now = 1
  BY DEF Init
<1>2. IsRecord(k, {"cards", "revlog"}) /\ k.cards = cards /\ k.revlog = {}
  BY DEF IsRecord
<1>3. IsRecord(cards, Cards)
  BY DEF IsRecord
<1>4. ASSUME NEW c \in Cards
      PROVE  GoodCard(cards[c], HomeOf[c]) /\ Answered(cards[c], k.revlog, c)
  <2>1. HomeOf[c] \in Decks \ Filtered
    BY ExamAssumption
  <2>2. GoodCard(NewCard(HomeOf[c]), HomeOf[c]) /\ NewCard(HomeOf[c]).seen = 0
    BY <2>1, NewCardGood, Zenon
  <2>3. cards[c] = NewCard(HomeOf[c])
    OBVIOUS
  <2> QED BY <2>2, <2>3 DEF Answered
<1>5. GoodReviews(k.revlog, now)
  BY <1>2, FS_EmptySet DEF GoodReviews
<1> HIDE DEF cards
<1>6. GoodDevice(k, now)
  BY <1>2, <1>3, <1>4, <1>5 DEF GoodDevice
<1> HIDE DEF k
<1>7. IsRecord(col, Devices) /\ \A dev \in Devices : col[dev] = k
  BY <1>1 DEF IsRecord
<1>8. now \in 1..MaxTime
  BY <1>1, ExamAssumption
<1> QED BY <1>1, <1>6, <1>7, <1>8 DEF IInv

\* A card of a device.
LEMMA CardIsGood ==
  ASSUME IInv, NEW dev \in Devices, NEW c \in Cards
  PROVE  /\ GoodCard(col[dev].cards[c], HomeOf[c])
         /\ Answered(col[dev].cards[c], col[dev].revlog, c)
         /\ IsRecord(col[dev].cards, Cards)
         /\ now \in Nat \ {0}
BY ExamAssumption DEF IInv, GoodDevice

\* Wait.
LEMMA WaitKeeps ==
  ASSUME IInv, Wait
  PROVE  IInv'
<1>1. Tick(col) /\ weights' = weights
  BY DEF Wait
<1>2. \A dev \in Devices : GoodDevice(col[dev], now + 1)
  BY LaterGood, ExamAssumption DEF IInv
<1> QED BY <1>1, <1>2, TickKeeps

\* AnswerCard.
LEMMA AnswerCardKeeps ==
  ASSUME IInv, NEW dev \in Devices, NEW c \in Cards, NEW ease \in 1..4, NEW next,
         AnswerCard(dev, c, ease, next)
  PROVE  IInv'
<1> DEFINE k == col[dev]
           card == Changed(Studied(k.cards[c], next))
           d == [cards |-> [k.cards EXCEPT ![c] = card],
                 revlog |-> k.revlog \cup {[id |-> now, cid |-> c, ease |-> ease]}]
<1>1. Tick([col EXCEPT ![dev] = d]) /\ weights' = weights
  BY DEF AnswerCard
<1>2. GoodCard(k.cards[c], HomeOf[c]) /\ now \in Nat \ {0}
  BY CardIsGood
<1>3. GoodCard(card, HomeOf[c]) /\ card.seen = now
  <2> DEFINE s == Studied(k.cards[c], next)
  <2>1. GoodCard(s, HomeOf[c]) /\ s.seen = now
    BY <1>2, StudiedGood
  <2> HIDE DEF s
  <2>2. GoodCard(Changed(s), HomeOf[c]) /\ Changed(s).seen = now
    BY <2>1, ChangedGood
  <2> QED BY <2>2 DEF s
<1>4. GoodDevice(k, now)
  BY DEF IInv
<1> HIDE DEF card, k
<1>5. GoodDevice(d, now + 1)
  <2>1. ease \in 0..4 /\ (ease = 0 => card.seen = 0) /\ card.seen \in {0, now}
    BY <1>3
  <2> QED BY <1>2, <1>3, <1>4, <2>1, AnswerGood, Zenon
<1> HIDE DEF d
<1> QED BY <1>1, <1>5, DeviceTickKeeps

\* RescheduleAsNew.
LEMMA RescheduleAsNewKeeps ==
  ASSUME IInv, NEW c \in Cards, RescheduleAsNew(c)
  PROVE  IInv'
<1> DEFINE k == col["desktop"]
           home == BackHome(k.cards[c])
           new == Forgotten(home)
           card == Changed(new)
           d == [cards |-> [k.cards EXCEPT ![c] = card],
                 revlog |-> k.revlog \cup {[id |-> now, cid |-> c, ease |-> 0]}]
<1>1. Tick([col EXCEPT !["desktop"] = d]) /\ weights' = weights
  BY DEF RescheduleAsNew, Forgotten
<1>2. "desktop" \in Devices
  BY DEF Devices
<1>3. GoodCard(k.cards[c], HomeOf[c]) /\ now \in Nat \ {0}
  BY <1>2, CardIsGood
<1>4. GoodCard(card, HomeOf[c]) /\ card.seen = 0
  <2>1. GoodCard(home, HomeOf[c]) /\ home.odid = NoDeck
    BY <1>3, BackHomeGood
  <2> HIDE DEF home
  <2>2. GoodCard(new, HomeOf[c]) /\ new.seen = 0
    BY <2>1, ForgottenGood
  <2> HIDE DEF new
  <2> QED BY <2>2, ChangedGood
<1>5. GoodDevice(k, now)
  BY <1>2 DEF IInv
<1> HIDE DEF card, k
<1>6. GoodDevice(d, now + 1)
  <2> DEFINE zero == 0
  <2>1. zero \in 0..4 /\ (zero = 0 => card.seen = 0) /\ card.seen \in {0, now}
    BY <1>4
  <2>2. d = [cards |-> [k.cards EXCEPT ![c] = card],
             revlog |-> k.revlog \cup {[id |-> now, cid |-> c, ease |-> zero]}]
    OBVIOUS
  <2> HIDE DEF zero, d
  <2> QED BY <1>3, <1>4, <1>5, <2>1, <2>2, AnswerGood, Zenon
<1> HIDE DEF d
<1> QED BY <1>1, <1>2, <1>6, DeviceTickKeeps

\* BuryOrSuspend.
LEMMA BuryOrSuspendKeeps ==
  ASSUME IInv, NEW c \in Cards, NEW queue \in {"buried", "suspended"}, BuryOrSuspend(c, queue)
  PROVE  IInv'
<1> DEFINE k == col["desktop"]
           held == Held(k.cards[c], queue)
           cards == [k.cards EXCEPT ![c] = Changed(held)]
<1>1. Tick([col EXCEPT !["desktop"].cards = cards]) /\ weights' = weights
  BY DEF BuryOrSuspend, Held
<1>2. "desktop" \in Devices
  BY DEF Devices
<1>3. GoodCard(k.cards[c], HomeOf[c]) /\ IsRecord(k.cards, Cards)
  BY <1>2, CardIsGood
<1>4. GoodCard(Changed(held), HomeOf[c]) /\ Changed(held).seen = k.cards[c].seen
  <2>1. GoodCard(held, HomeOf[c]) /\ held.seen = k.cards[c].seen
    BY <1>3, HeldGood
  <2> HIDE DEF held
  <2> QED BY <2>1, ChangedGood
<1>5. /\ IsRecord(cards, Cards) /\ cards[c] = Changed(held)
      /\ \A e \in Cards \ {c} : cards[e] = k.cards[e]
  BY <1>3 DEF IsRecord
<1> HIDE DEF cards, held
<1>6. ASSUME NEW e \in Cards
      PROVE  GoodCard(cards[e], HomeOf[e]) /\ cards[e].seen \in {0, k.cards[e].seen}
  <2>1. GoodCard(k.cards[e], HomeOf[e])
    BY <1>2, CardIsGood
  <2> QED BY <1>4, <1>5, <2>1
<1> QED BY <1>1, <1>5, <1>6, DesktopTickKeeps

\* SetExamConfig.
LEMMA SetExamConfigKeeps ==
  ASSUME IInv, NEW w \in ExamConfigs, SetExamConfig(w)
  PROVE  IInv'
BY DEF IInv, SetExamConfig

\* Cards that are good, each for its home.
GoodCards(cards) == IsRecord(cards, Cards) /\ \A c \in Cards : GoodCard(cards[c], HomeOf[c])

\* A deck's cards go home.
LEMMA ReturnedGood ==
  ASSUME NEW cards, GoodCards(cards), NEW deck
  PROVE  /\ GoodCards(Returned(cards, deck))
         /\ \A c \in Cards : Returned(cards, deck)[c].seen = cards[c].seen
<1> DEFINE home == Returned(cards, deck)
<1>1. IsRecord(home, Cards)
  BY DEF Returned, IsRecord
<1>2. ASSUME NEW c \in Cards
      PROVE  GoodCard(home[c], HomeOf[c]) /\ home[c].seen = cards[c].seen
  <2>1. home[c] = cards[c] \/ home[c] = Changed(BackHome(cards[c]))
    BY DEF Returned, Changed
  <2>2. GoodCard(cards[c], HomeOf[c])
    BY DEF GoodCards
  <2>3. GoodCard(BackHome(cards[c]), HomeOf[c]) /\ BackHome(cards[c]).seen = cards[c].seen
    BY <2>2, BackHomeGood
  <2>4. /\ GoodCard(Changed(BackHome(cards[c])), HomeOf[c])
        /\ Changed(BackHome(cards[c])).seen = cards[c].seen
    BY <2>3, ChangedGood
  <2> HIDE DEF home
  <2> QED BY <2>1, <2>2, <2>4
<1> QED BY <1>1, <1>2 DEF GoodCards

\* The cards of a deck that was rebuilt.
LEMMA StudyFilteredDeckGood ==
  ASSUME NEW cards, GoodCards(cards), NEW deck \in Filtered, NEW matched
  PROVE  LET study == StudyFilteredDeck(cards, deck, matched)
         IN /\ GoodCards(study.cards)
            /\ \A c \in Cards : study.cards[c].seen = cards[c].seen
<1> DEFINE study == StudyFilteredDeck(cards, deck, matched)
           home == Returned(cards, deck)
           found == {c \in matched : home[c].queue = "open" /\ home[c].odid = NoDeck}
           order == InOrder(found, <)
           position(c) == (CHOOSE i \in DOMAIN order : order[i] = c) - 1 - Cardinality(Cards)
           filled == [c \in Cards |-> IF c \in found
                      THEN Changed(MovedInto(home[c], deck, position(c)))
                      ELSE home[c]]
<1>1. study.cards = cards \/ study.cards = filled
  <2>1. \/ study = [cards |-> cards, entered |-> FALSE]
        \/ study = [cards |-> filled, entered |-> TRUE]
    BY Zenon DEF StudyFilteredDeck, Changed
  <2> HIDE DEF study, filled
  <2> QED BY <2>1
<1>2. /\ GoodCards(home)
      /\ \A c \in Cards : home[c].seen = cards[c].seen
  BY ReturnedGood
<1>3. IsRecord(filled, Cards)
  <2> HIDE DEF home, found, position
  <2> QED BY DEF IsRecord
<1>4. ASSUME NEW c \in Cards
      PROVE  GoodCard(filled[c], HomeOf[c]) /\ filled[c].seen = cards[c].seen
  <2> DEFINE moved == MovedInto(home[c], deck, position(c))
  <2>1. GoodCard(home[c], HomeOf[c])
    BY <1>2 DEF GoodCards
  <2>2. filled[c] = IF c \in found THEN Changed(moved) ELSE home[c]
    <3> HIDE DEF home, found, position
    <3> QED OBVIOUS
  <2>3. c \in found => home[c].odid = NoDeck
    OBVIOUS
  <2> HIDE DEF home, filled, found, position
  <2>4. CASE c \in found
    <3>1. GoodCard(moved, HomeOf[c]) /\ moved.seen = cards[c].seen
      BY <1>2, <2>1, <2>3, <2>4, MovedIntoGood
    <3> HIDE DEF moved
    <3> QED BY <2>2, <2>4, <3>1, ChangedGood
  <2>5. CASE c \notin found
    BY <1>2, <2>1, <2>2, <2>5
  <2> QED BY <2>4, <2>5
<1> HIDE DEF filled
<1>5. GoodCards(filled)
  BY <1>3, <1>4 DEF GoodCards
<1> HIDE DEF study
<1>6. GoodCards(study.cards) /\ \A c \in Cards : study.cards[c].seen = cards[c].seen
  BY <1>1, <1>4, <1>5
<1> QED BY <1>6 DEF study

\* The desktop's cards.
LEMMA DesktopCards ==
  ASSUME IInv
  PROVE  GoodCards(col["desktop"].cards)
<1>1. "desktop" \in Devices
  BY DEF Devices
<1> QED BY <1>1 DEF GoodCards, GoodDevice, IInv

\* A tick after the desktop's cards moved.
LEMMA MovedTickKeeps ==
  ASSUME IInv, NEW cards, GoodCards(cards),
         \A c \in Cards : cards[c].seen = col["desktop"].cards[c].seen,
         Tick([col EXCEPT !["desktop"].cards = cards]), weights' = weights
  PROVE  IInv'
<1>1. IsRecord(cards, Cards)
  BY DEF GoodCards
<1>2. \A c \in Cards : /\ GoodCard(cards[c], HomeOf[c])
                       /\ cards[c].seen \in {0, col["desktop"].cards[c].seen}
  BY DEF GoodCards
<1> QED BY <1>1, <1>2, DesktopTickKeeps

\* StudyByExamPriority.
LEMMA StudyByExamPriorityKeeps ==
  ASSUME IInv, NEW deck, StudyByExamPriority(deck)
  PROVE  IInv'
<1> DEFINE old == col["desktop"].cards
           matched == Range(ExamQueue(old, deck))
           study == StudyFilteredDeck(old, "Exam Priority", matched)
           cards == study.cards
<1>1. Tick([col EXCEPT !["desktop"].cards = cards]) /\ weights' = weights
  BY Zenon DEF StudyByExamPriority, StudiedByExamPriority
<1>2. GoodCards(old) /\ "Exam Priority" \in Filtered
  BY DesktopCards DEF Filtered
<1>3. GoodCards(cards) /\ \A c \in Cards : cards[c].seen = old[c].seen
  <2> HIDE DEF matched
  <2> QED BY <1>2, StudyFilteredDeckGood, Zenon
<1> HIDE DEF study
<1> QED BY <1>1, <1>3, MovedTickKeeps

\* StudyEthicsPairs.
LEMMA StudyEthicsPairsKeeps ==
  ASSUME IInv, StudyEthicsPairs
  PROVE  IInv'
<1> DEFINE old == col["desktop"].cards
           home == Returned(old, "Study Pairs")
           matched == {c \in Cards : "Ethics Pairs" \in {home[c].did, home[c].odid}}
           study == StudyFilteredDeck(old, "Study Pairs", matched)
           cards == study.cards
<1>1. Tick([col EXCEPT !["desktop"].cards = cards]) /\ weights' = weights
  BY Zenon DEF StudyEthicsPairs, StudiedEthicsPairs
<1>2. GoodCards(old) /\ "Study Pairs" \in Filtered
  BY DesktopCards DEF Filtered
<1>3. GoodCards(cards) /\ \A c \in Cards : cards[c].seen = old[c].seen
  <2> HIDE DEF matched
  <2> QED BY <1>2, StudyFilteredDeckGood, Zenon
<1> HIDE DEF study
<1> QED BY <1>1, <1>3, MovedTickKeeps

\* EmptyFilteredDeck.
LEMMA EmptyFilteredDeckKeeps ==
  ASSUME IInv, NEW deck, EmptyFilteredDeck(deck)
  PROVE  IInv'
<1> DEFINE old == col["desktop"].cards
           cards == Returned(old, deck)
<1>1. Tick([col EXCEPT !["desktop"].cards = cards]) /\ weights' = weights
  BY DEF EmptyFilteredDeck
<1>2. GoodCards(cards) /\ \A c \in Cards : cards[c].seen = old[c].seen
  BY DesktopCards, ReturnedGood
<1> HIDE DEF cards
<1> QED BY <1>1, <1>2, MovedTickKeeps

\* Sync.
LEMMA SyncKeeps ==
  ASSUME IInv, Sync
  PROVE  IInv'
<1> DEFINE desktop == col["desktop"]
           phone == col["phone"]
           newer(a, b) == a.dirty /\ (b.dirty => a.mtime > b.mtime)
           latest(c) == IF newer(phone.cards[c], desktop.cards[c])
                        THEN phone.cards[c] ELSE desktop.cards[c]
           cards == [c \in Cards |-> Clean(latest(c))]
           revlog == desktop.revlog \cup phone.revlog
           k == [cards |-> cards, revlog |-> revlog]
<1>1. col' = [dev \in Devices |-> k] /\ weights' = weights /\ now' = now
  BY DEF Sync, Clean
<1>2. "desktop" \in Devices /\ "phone" \in Devices
  BY DEF Devices
<1>3. IsRecord(k, {"cards", "revlog"}) /\ k.cards = cards /\ k.revlog = revlog
      /\ IsRecord(cards, Cards)
  BY DEF IsRecord
<1>4. GoodReviews(revlog, now)
  <2>1. GoodReviews(desktop.revlog, now) /\ GoodReviews(phone.revlog, now)
    BY <1>2 DEF IInv, GoodDevice
  <2>2. IsFiniteSet(revlog)
    BY <2>1, FS_Union DEF GoodReviews
  <2> QED BY <2>1, <2>2 DEF GoodReviews
<1>5. ASSUME NEW c \in Cards
      PROVE  GoodCard(cards[c], HomeOf[c]) /\ Answered(cards[c], revlog, c)
  <2> DEFINE card == latest(c)
  <2>1. /\ GoodCard(phone.cards[c], HomeOf[c]) /\ GoodCard(desktop.cards[c], HomeOf[c])
        /\ Answered(phone.cards[c], phone.revlog, c)
        /\ Answered(desktop.cards[c], desktop.revlog, c)
    BY <1>2, CardIsGood
  <2>2. cards[c] = Clean(card) /\ (card = phone.cards[c] \/ card = desktop.cards[c])
    OBVIOUS
  <2>3. phone.revlog \subseteq revlog /\ desktop.revlog \subseteq revlog
    OBVIOUS
  <2> HIDE DEF card, cards, phone, desktop, revlog
  <2>4. GoodCard(card, HomeOf[c]) /\ Answered(card, revlog, c)
    BY <2>1, <2>2, <2>3 DEF Answered
  <2>5. GoodCard(Clean(card), HomeOf[c]) /\ Clean(card).seen = card.seen
    BY <2>4, CleanGood
  <2> QED BY <2>2, <2>4, <2>5 DEF Answered
<1> HIDE DEF cards, revlog
<1>6. GoodDevice(k, now)
  BY <1>3, <1>4, <1>5 DEF GoodDevice
<1> HIDE DEF k
<1>7. IsRecord(col', Devices) /\ \A dev \in Devices : col'[dev] = k
  BY <1>1 DEF IsRecord
<1>8. now \in 1..MaxTime /\ weights \in ExamConfigs
  BY DEF IInv
<1> QED BY <1>1, <1>6, <1>7, <1>8 DEF IInv

\* Every step keeps the invariant.
LEMMA NextKeeps ==
  ASSUME IInv, [Next]_vars
  PROVE  IInv'
<1>1. CASE Wait
  BY <1>1, WaitKeeps
<1>2. CASE Sync
  BY <1>2, SyncKeeps
<1>3. CASE StudyEthicsPairs
  BY <1>3, StudyEthicsPairsKeeps
<1>4. ASSUME NEW deck \in Decks, StudyByExamPriority(deck)
      PROVE  IInv'
  BY <1>4, StudyByExamPriorityKeeps
<1>5. ASSUME NEW dev \in Devices, NEW c \in Cards, NEW o \in Outcomes[dev],
             AnswerCard(dev, c, o[1], o[2])
      PROVE  IInv'
  <2>1. o[1] \in 1..4
    BY ExamAssumption
  <2> QED BY <1>5, <2>1, AnswerCardKeeps
<1>6. ASSUME NEW c \in HeldCards, RescheduleAsNew(c)
      PROVE  IInv'
  <2>1. c \in Cards
    BY ExamAssumption
  <2> QED BY <1>6, <2>1, RescheduleAsNewKeeps
<1>7. ASSUME NEW c \in HeldCards, NEW queue \in {"buried", "suspended"}, BuryOrSuspend(c, queue)
      PROVE  IInv'
  <2>1. c \in Cards
    BY ExamAssumption
  <2> QED BY <1>7, <2>1, BuryOrSuspendKeeps
<1>8. ASSUME NEW w \in ExamConfigs, SetExamConfig(w)
      PROVE  IInv'
  BY <1>8, SetExamConfigKeeps
<1>9. ASSUME NEW deck \in Filtered, EmptyFilteredDeck(deck)
      PROVE  IInv'
  BY <1>9, EmptyFilteredDeckKeeps
<1>10. CASE UNCHANGED vars
  BY <1>10 DEF vars, IInv
<1> QED BY <1>1, <1>2, <1>3, <1>4, <1>5, <1>6, <1>7, <1>8, <1>9, <1>10, Zenon DEF Next

\* The invariant holds in every state.
LEMMA Invariant == Spec => []IInv
<1>1. Init => IInv
  BY InitGood
<1>2. IInv /\ [Next]_vars => IInv'
  BY NextKeeps
<1> QED BY <1>1, <1>2, PTL DEF Spec

\* TypeOK: a card is in a filtered deck when it knows the deck it came from, and only
\* then keeps its due value aside; one that is not new has been answered.
THEOREM ExamTypeCorrect == Spec => []TypeOK
<1>1. IInv => TypeOK
  <2> SUFFICES ASSUME IInv
               PROVE  TypeOK
    OBVIOUS
  <2>1. now \in 1..MaxTime /\ weights \in ExamConfigs
    BY DEF IInv
  <2>2. ASSUME NEW dev \in Devices
        PROVE  \A r \in col[dev].revlog : r.id < now /\ r.cid \in Cards /\ r.ease \in 0..4
    BY DEF IInv, GoodDevice, GoodReviews
  <2>3. ASSUME NEW dev \in Devices, NEW c \in Cards
        PROVE  LET card == col[dev].cards[c] IN
               /\ card.did \in Decks /\ card.odid \in (Decks \ Filtered) \cup {NoDeck}
               /\ card.queue \in {"open", "buried", "suspended"}
               /\ card.did \in Filtered <=> card.odid # NoDeck
               /\ card.odue > 0 <=> card.odid # NoDeck
               /\ New(card) <=> card.seen = 0
               /\ card.seen # 0 => \E r \in Graded(col[dev].revlog, c) : r.id = card.seen
    <3> DEFINE card == col[dev].cards[c]
    <3>1. GoodCard(card, HomeOf[c]) /\ Answered(card, col[dev].revlog, c)
      BY CardIsGood
    <3> HIDE DEF card
    <3>2. card.seen # 0 => \E r \in Graded(col[dev].revlog, c) : r.id = card.seen
      BY <3>1 DEF Answered, Graded
    <3>3. card.odue > 0 <=> card.odid # NoDeck
      BY <3>1 DEF GoodCard
    <3>4. New(card) <=> card.seen = 0
      BY <3>1 DEF GoodCard, New
    <3> QED BY <3>1, <3>2, <3>3, <3>4 DEF GoodCard, card
  <2> QED BY <2>1, <2>2, <2>3 DEF TypeOK
<1> QED BY <1>1, Invariant, PTL

---------------------------------------------------------------------------
(* The study decks do not move the scores *)

\* The scores see a collection through the cards in their decks, its answers, and
\* whether a card was seen.
LEMMA ScoresSeeScope ==
  ASSUME NEW k, NEW h, NEW decks, h.revlog = k.revlog,
         CardsIn(h.cards, decks) = CardsIn(k.cards, decks),
         \A c \in CardsIn(k.cards, decks) : h.cards[c].seen = k.cards[c].seen
  PROVE  /\ MemoryScore(h, decks) = MemoryScore(k, decks)
         /\ PerformanceScore(h, decks) = PerformanceScore(k, decks)
<1> DEFINE topics(scope) == [c \in scope |-> TopicOf[c, Syllabus]]
           graded(scope, revlog) == [c \in scope |-> GradedReviews(revlog, c)]
           total(scope, revlog) == MapThenSumSet(LAMBDA c : graded(scope, revlog)[c], scope)
           covered(scope, revlog, cards) ==
             {t \in Syllabus :
                /\ \E c \in scope : topics(scope)[c] = t /\ graded(scope, revlog)[c] > 0
                /\ \E c \in scope : topics(scope)[c] = t /\ cards[c].seen # 0}
           score(scope, revlog, s) ==
             [graded |-> total(scope, revlog), covered |-> s,
              quoted |-> /\ total(scope, revlog) >= MinGraded
                         /\ 2 * Cardinality(s) >= Cardinality(Syllabus)
                         /\ \A t \in Syllabus \ s : ~Heavy(t)]
           scope(d) == CardsIn(d.cards, decks)
<1>1. covered(scope(k), k.revlog, h.cards) = covered(scope(k), k.revlog, k.cards)
  <2> HIDE DEF topics, graded
  <2> QED OBVIOUS
<1>2. ASSUME NEW d
      PROVE  MemoryScore(d, decks)
               = score(scope(d), d.revlog, covered(scope(d), d.revlog, d.cards))
  BY Zenon DEF MemoryScore
<1>3. PerformanceScore(h, decks) = PerformanceScore(k, decks)
  BY Zenon DEF PerformanceScore
<1>4. scope(h) = scope(k)
  OBVIOUS
<1> HIDE DEF score, covered, scope
<1>5. MemoryScore(h, decks) = MemoryScore(k, decks)
  BY <1>1, <1>2, <1>4
<1> QED BY <1>3, <1>5

\* A card that is in the CFA deck's tree is in it at home, and the other way around,
\* unless it lives in the default deck: that card enters the tree with a study deck.
LEMMA HomeInTree ==
  ASSUME NEW c \in Cards, HomeOf[c] # "Default", NEW card, GoodCard(card, HomeOf[c])
  PROVE  BackHome(card).did \in CfaTree <=> card.did \in CfaTree
<1>1. BackHome(card).did = HomeOf[c] /\ HomeOf[c] \in CfaTree
  BY BackHomeGood, ExamAssumption DEF Decks
<1>2. CASE card.odid = NoDeck
  <2>1. card.did = HomeOf[c]
    BY <1>2 DEF GoodCard
  <2> QED BY <1>1, <2>1
<1>3. CASE card.odid # NoDeck
  <2>1. card.did \in Filtered
    BY <1>3 DEF GoodCard
  <2>2. card.did \in CfaTree
    BY <2>1, Zenon DEF CfaTree
  <2> QED BY <1>1, <2>2
<1> QED BY <1>2, <1>3

\* StudyDecksKeepScores: the CFA deck's scores are what they would be were every card
\* at home. It takes that no card's home is the built-in deck: such a card, which the
\* queue of that deck offers, is counted while it is in a study deck.
THEOREM ScoresKept ==
  ASSUME \A c \in Cards : HomeOf[c] # "Default"
  PROVE  Spec => []StudyDecksKeepScores
<1>1. IInv => StudyDecksKeepScores
  <2> SUFFICES ASSUME IInv
               PROVE  StudyDecksKeepScores
    OBVIOUS
  <2> DEFINE k == col["desktop"]
             cards == [c \in Cards |-> BackHome(k.cards[c])]
             home == [k EXCEPT !.cards = cards]
             cfa == DeckIdWithChildren("CFA")
  <2>1. GoodDevice(k, now)
    BY DEF IInv, Devices
  <2>2. home.revlog = k.revlog /\ home.cards = cards
    <3> HIDE DEF k, cards
    <3> QED BY <2>1 DEF GoodDevice, IsRecord
  <2>3. cfa = CfaTree
    BY DEF DeckIdWithChildren
  <2>4. ASSUME NEW c \in Cards
        PROVE  /\ cards[c].did \in cfa <=> k.cards[c].did \in cfa
               /\ cards[c].seen = k.cards[c].seen
    <3>1. GoodCard(k.cards[c], HomeOf[c]) /\ cards[c] = BackHome(k.cards[c])
      BY <2>1 DEF GoodDevice
    <3> HIDE DEF cards, k, cfa
    <3> QED BY <2>3, <3>1, HomeInTree, BackHomeGood
  <2>5. CardsIn(home.cards, cfa) = CardsIn(k.cards, cfa)
    <3> HIDE DEF cards, k, cfa, home
    <3> QED BY <2>2, <2>4 DEF CardsIn
  <2>6. \A c \in CardsIn(k.cards, cfa) : home.cards[c].seen = k.cards[c].seen
    <3> HIDE DEF cards, k, cfa, home
    <3> QED BY <2>2, <2>4 DEF CardsIn
  <2>7. /\ MemoryScore(k, cfa) = MemoryScore(home, cfa)
        /\ PerformanceScore(k, cfa) = PerformanceScore(home, cfa)
    <3> HIDE DEF k, cfa, home
    <3> QED BY <2>2, <2>5, <2>6, ScoresSeeScope
  <2> QED BY <2>7, Zenon DEF StudyDecksKeepScores
<1> QED BY <1>1, Invariant, PTL

---------------------------------------------------------------------------
(* Days *)

\* What a division is.
LEMMA Quotient ==
  ASSUME NEW a \in Int, NEW b \in Nat \ {0}, NEW q \in Int, b * q <= a, a < b * (q + 1)
  PROVE  a \div b = q
<1> DEFINE d == a \div b
           r == a % b
<1>1. d \in Int /\ r \in 0..(b - 1) /\ a = b * d + r
  OBVIOUS
<1> HIDE DEF d, r
<1>2. b * q < b * (d + 1) /\ b * d < b * (q + 1)
  <2>1. b * (d + 1) = b * d + b
    BY <1>1
  <2> QED BY <1>1, <2>1
<1>3. ASSUME NEW x \in Int, NEW y \in Int, b * x < b * y
      PROVE  x < y
  <2> SUFFICES ASSUME y <= x PROVE b * y <= b * x
    BY <1>3
  <2> QED OBVIOUS
<1>4. q < d + 1 /\ d < q + 1
  BY <1>1, <1>2, <1>3
<1> QED BY <1>1, <1>4 DEF d

\* The day of a moment, as the rollovers bound it.
LEMMA DayBounds ==
  ASSUME FirstDay <= DayLength, NEW t \in Nat \ {0}
  PROVE  /\ Day(t) \in Nat /\ Day(t) <= t
         /\ DayLength * (Day(t) - 1) <= t - FirstDay
         /\ t - FirstDay < DayLength * Day(t)
<1> DEFINE D == Day(t)
<1>1. FirstDay \in Nat \ {0} /\ DayLength \in Nat \ {0}
  BY ExamAssumption
<1>2. CASE t < FirstDay
  <2>1. D = 0
    BY <1>2 DEF Day
  <2> HIDE DEF D
  <2>2. DayLength * (D - 1) = -DayLength /\ DayLength * D = 0
    BY <1>1, <2>1
  <2>3. /\ D \in Nat /\ D <= t /\ DayLength * (D - 1) <= t - FirstDay
        /\ t - FirstDay < DayLength * D
    BY <1>1, <1>2, <2>1, <2>2
  <2> QED BY <2>3 DEF D
<1>3. CASE ~(t < FirstDay)
  <2> DEFINE a == t - FirstDay
             q == a \div DayLength
             r == a % DayLength
  <2>1. D = 1 + q
    BY <1>3 DEF Day
  <2>2. a \in Nat
    BY <1>1, <1>3
  <2>3. q \in Nat /\ r \in 0..(DayLength - 1) /\ a = DayLength * q + r
    <3> HIDE DEF a
    <3> QED BY <1>1, <2>2
  <2>4. a < t
    BY <1>1
  <2> HIDE DEF D, q, r
  <2>5. D - 1 = q /\ DayLength * D = DayLength * q + DayLength
    BY <1>1, <2>1, <2>3
  <2>6. q <= DayLength * q
    BY <1>1, <2>3
  <2>7. D \in Nat /\ D <= t
    <3> DEFINE p == DayLength * q
    <3>1. p \in Nat /\ q <= p /\ a = p + r
      BY <1>1, <2>3, <2>6
    <3> HIDE DEF a, p
    <3>2. q < t
      BY <2>2, <2>3, <2>4, <3>1
    <3> QED BY <2>1, <2>3, <3>2
  <2>8. DayLength * (D - 1) <= a /\ a < DayLength * D
    <3> HIDE DEF a
    <3> QED BY <1>1, <2>2, <2>3, <2>5
  <2> QED BY <2>7, <2>8 DEF D
<1> QED BY <1>2, <1>3

\* The day a review is counted on is its day, shifted.
LEMMA ReviewDayIsDay ==
  ASSUME FirstDay <= DayLength, now \in 1..MaxTime, NEW id \in Nat \ {0}, id < now
  PROVE  ReviewDay(id, now) = Day(id) + MaxTime - Day(now)
<1> DEFINE D == Day(id)
           N == Day(now)
           a == id - NextDayAt(now) + DayOffset
           q == D + MaxTime - N
<1>1. /\ FirstDay \in Nat \ {0} /\ DayLength \in Nat \ {0} /\ MaxTime \in Nat \ {0}
      /\ now \in Nat \ {0} /\ now <= MaxTime
  BY ExamAssumption
<1>2. /\ D \in Nat /\ N \in Nat /\ N <= now
      /\ DayLength * (D - 1) <= id - FirstDay /\ id - FirstDay < DayLength * D
  BY <1>1, DayBounds
<1>3. a = id - (FirstDay + ((N + 1) - 1) * DayLength) + DayLength * (MaxTime + 1)
  BY DEF NextDayAt, Rollover, DayOffset
<1> HIDE DEF D, N, a
<1>4. q \in Nat
  BY <1>1, <1>2
<1>5. /\ DayLength * q = DayLength * (D - 1) + DayLength * (MaxTime + 1) - DayLength * N
      /\ DayLength * (q + 1) = DayLength * D + DayLength * (MaxTime + 1) - DayLength * N
  BY <1>1, <1>2
<1>6. a = (id - FirstDay) - DayLength * N + DayLength * (MaxTime + 1)
  BY <1>1, <1>2, <1>3
<1>7. a \in Int /\ DayLength * q <= a /\ a < DayLength * (q + 1)
  <2> DEFINE w == DayLength * (MaxTime + 1)
             z == DayLength * N
             u == DayLength * (D - 1)
             v == DayLength * D
  <2>1. w \in Int /\ z \in Int /\ u \in Int /\ v \in Int
    BY <1>1, <1>2
  <2> HIDE DEF w, z, u, v
  <2>2. /\ DayLength * q = u + w - z /\ DayLength * (q + 1) = v + w - z
        /\ a = (id - FirstDay) - z + w /\ u <= id - FirstDay /\ id - FirstDay < v
    BY <1>2, <1>5, <1>6 DEF w, z, u, v
  <2> QED BY <1>1, <2>1, <2>2
<1>8. 0 <= DayLength * q
  BY <1>1, <1>4
<1>9. a \div DayLength = q
  <2> HIDE DEF q
  <2> QED BY <1>1, <1>4, <1>7, Quotient
<1>10. ~(a < 0)
  <2> HIDE DEF q
  <2> QED BY <1>1, <1>4, <1>7, <1>8
<1>11. ReviewDay(id, now) = IF a < 0 THEN -((-a) \div DayLength) ELSE a \div DayLength
  BY DEF ReviewDay, Truncated, a
<1> QED BY <1>9, <1>10, <1>11 DEF D, N

---------------------------------------------------------------------------
(* Sums *)

\* The sum of g over a set, and the equation behind it.
SumOver(g, S) == MapThenSumSet(LAMBDA c : g[c], S)
SumStep(f, g, s) == IF s = {} THEN 0
                    ELSE LET x == CHOOSE x \in s : TRUE IN g[x] + f[s \ {x}]
Sums(f, g, S) == f = [s \in SUBSET S |-> SumStep(f, g, s)]

\* The library defines a sum by that equation.
LEMMA SumOverSolution ==
  ASSUME NEW g, NEW S
  PROVE  SumOver(g, S) = (CHOOSE f : Sums(f, g, S))[S]
BY Zenon DEF SumOver, Sums, SumStep, MapThenSumSet, MapThenFoldSet

\* A set that is not empty has a smallest subset of each kind it has subsets of.
LEMMA SmallestSubset ==
  ASSUME NEW S, IsFiniteSet(S), NEW bad \in SUBSET (SUBSET S), bad # {}
  PROVE  \E s \in bad : \A x \in s : s \ {x} \notin bad
<1> DEFINE R == StrictSubsetOrdering(S)
<1>1. IsWellFoundedOn(R, SUBSET S)
  BY FS_StrictSubsetOrderingWellFounded, FS_FiniteSubsetsOfFinite
<1>2. PICK s \in bad : \A y \in bad : ~(<<y, s>> \in R)
  <2> HIDE DEF R
  <2> QED BY <1>1, WFMin
<1>3. ASSUME NEW x \in s, s \ {x} \in bad PROVE FALSE
  <2>1. <<s \ {x}, s>> \in R
    BY <1>3 DEF StrictSubsetOrdering
  <2> HIDE DEF R
  <2> QED BY <1>2, <1>3, <2>1
<1> QED BY <1>3

\* The sizes of sets that have nothing in common add up to that of their union.
LEMMA SizesAddUp ==
  ASSUME NEW S, IsFiniteSet(S), NEW E, NEW g, IsFiniteSet(UNION {E[c] : c \in S}),
         \A c \in S : g[c] = Cardinality(E[c]),
         \A a, b \in S : a # b => E[a] \cap E[b] = {}
  PROVE  SumOver(g, S) = Cardinality(UNION {E[c] : c \in S})
<1> DEFINE all(s) == UNION {E[c] : c \in s}
           f == [s \in SUBSET S |-> Cardinality(all(s))]
<1>1. ASSUME NEW s \in SUBSET S
      PROVE  IsFiniteSet(all(s)) /\ Cardinality(all(s)) \in Nat
  <2>1. all(s) \in SUBSET all(S)
    OBVIOUS
  <2> HIDE DEF all
  <2>2. IsFiniteSet(all(S))
    BY DEF all
  <2> QED BY <2>1, <2>2, FS_Subset, FS_CardinalityType
<1>2. ASSUME NEW s \in SUBSET S, NEW x \in s
      PROVE  Cardinality(all(s)) = g[x] + Cardinality(all(s \ {x}))
  <2> DEFINE rest == s \ {x}
  <2>1. all(s) = E[x] \cup all(rest)
    OBVIOUS
  <2>2. E[x] \cap all(rest) = {}
    <3>1. \A y \in rest : E[x] \cap E[y] = {}
      OBVIOUS
    <3> HIDE DEF rest
    <3> QED BY <3>1
  <2>3. rest \in SUBSET S
    OBVIOUS
  <2>4. IsFiniteSet(E[x]) /\ Cardinality(E[x]) \in Nat
    <3>1. E[x] \in SUBSET all(s)
      OBVIOUS
    <3>2. IsFiniteSet(all(s))
      BY <1>1
    <3> HIDE DEF all
    <3> QED BY <3>1, <3>2, FS_Subset, FS_CardinalityType
  <2>5. IsFiniteSet(all(rest)) /\ Cardinality(all(rest)) \in Nat
    BY <1>1, <2>3
  <2>6. g[x] = Cardinality(E[x])
    OBVIOUS
  <2> HIDE DEF all, rest
  <2>7. Cardinality(all(s)) = Cardinality(E[x]) + Cardinality(all(rest)) - Cardinality({})
    BY <2>1, <2>2, <2>4, <2>5, FS_Union
  <2>8. Cardinality({}) = 0
    BY FS_EmptySet
  <2> QED BY <2>4, <2>5, <2>6, <2>7, <2>8 DEF rest
<1>3. Cardinality(all({})) = 0
  <2>1. all({}) = {}
    OBVIOUS
  <2> HIDE DEF all
  <2> QED BY <2>1, FS_EmptySet
<1> HIDE DEF all
<1>4. Sums(f, g, S)
  <2>1. ASSUME NEW s \in SUBSET S PROVE Cardinality(all(s)) = SumStep(f, g, s)
    <3>1. CASE s = {}
      BY <1>3, <3>1 DEF SumStep
    <3>2. CASE s # {}
      <4> DEFINE x == CHOOSE x \in s : TRUE
      <4>1. x \in s
        BY <3>2
      <4>2. SumStep(f, g, s) = g[x] + f[s \ {x}]
        BY <3>2, Zenon DEF SumStep
      <4> HIDE DEF x
      <4>3. f[s \ {x}] = Cardinality(all(s \ {x}))
        OBVIOUS
      <4> HIDE DEF f
      <4> QED BY <1>2, <4>1, <4>2, <4>3
    <3> QED BY <3>1, <3>2
  <2>2. f = [s \in SUBSET S |-> SumStep(f, g, s)]
    <3> DEFINE h == [s \in SUBSET S |-> SumStep(f, g, s)]
    <3>1. \A s \in SUBSET S : f[s] = h[s]
      <4>1. \A s \in SUBSET S : f[s] = Cardinality(all(s))
        OBVIOUS
      <4> HIDE DEF f
      <4> QED BY <2>1, <4>1
    <3>2. f = [s \in SUBSET S |-> f[s]] /\ h = [s \in SUBSET S |-> h[s]]
      <4>1. f = [s \in SUBSET S |-> f[s]]
        OBVIOUS
      <4> HIDE DEF f
      <4>2. h = [s \in SUBSET S |-> h[s]]
        OBVIOUS
      <4> QED BY <4>1, <4>2
    <3> HIDE DEF f, h
    <3>3. f = h
      BY <3>1, <3>2
    <3> QED BY <3>3 DEF h
  <2> HIDE DEF f
  <2> QED BY <2>2 DEF Sums
<1> DEFINE sum == CHOOSE e : Sums(e, g, S)
<1>5. Sums(sum, g, S)
  <2> HIDE DEF f
  <2> QED BY <1>4, Zenon
<1>6. \A s \in SUBSET S : f[s] = Cardinality(all(s))
  OBVIOUS
<1> HIDE DEF f, sum
<1>7. ASSUME NEW s \in SUBSET S
      PROVE  sum[s] = SumStep(sum, g, s) /\ f[s] = SumStep(f, g, s)
  BY <1>4, <1>5 DEF Sums
<1>8. \A s \in SUBSET S : sum[s] = f[s]
  <2> DEFINE bad == {s \in SUBSET S : sum[s] # f[s]}
  <2>1. ASSUME bad # {} PROVE FALSE
    <3>1. PICK s \in bad : \A x \in s : s \ {x} \notin bad
      <4>1. bad \in SUBSET (SUBSET S)
        OBVIOUS
      <4> HIDE DEF bad
      <4> QED BY <2>1, <4>1, SmallestSubset
    <3>2. CASE s = {}
      BY <1>7, <3>2 DEF SumStep
    <3>3. CASE s # {}
      <4> DEFINE x == CHOOSE x \in s : TRUE
      <4>1. x \in s
        BY <3>3
      <4>2. SumStep(f, g, s) = g[x] + f[s \ {x}] /\ SumStep(sum, g, s) = g[x] + sum[s \ {x}]
        BY <3>3, Zenon DEF SumStep
      <4> HIDE DEF x
      <4>3. f[s \ {x}] = sum[s \ {x}]
        BY <3>1, <4>1
      <4> QED BY <1>7, <4>2, <4>3
    <3> QED BY <3>2, <3>3
  <2> QED BY <2>1
<1> QED BY <1>6, <1>8, SumOverSolution DEF sum, all

---------------------------------------------------------------------------
(* Evidence is counted once *)

\* The image of a finite set is finite.
LEMMA FiniteImage ==
  ASSUME NEW S, IsFiniteSet(S), NEW f, f = [x \in S |-> f[x]]
  PROVE  IsFiniteSet({f[x] : x \in S})
<1> DEFINE T == {f[x] : x \in S}
<1>1. f \in [S -> T]
  OBVIOUS
<1>2. \A t \in T : \E x \in S : f[x] = t
  OBVIOUS
<1>3. f \in Surjection(S, T)
  <2> HIDE DEF T
  <2> QED BY <1>1, <1>2 DEF Surjection
<1> HIDE DEF T
<1>4. IsFiniteSet(T)
  BY <1>3, FS_Surjection
<1> QED BY <1>4 DEF T

\* The days of a card: those it was answered on.
DaysOf(revlog, c) == {<<c, Day(r.id)>> : r \in Graded(revlog, c)}

\* A card's answers are counted by the days they were given on.
LEMMA GradedReviewsAreDays ==
  ASSUME FirstDay <= DayLength, now \in 1..MaxTime, NEW revlog, GoodReviews(revlog, now), NEW c
  PROVE  /\ IsFiniteSet(DaysOf(revlog, c))
         /\ GradedReviews(revlog, c) = Cardinality(DaysOf(revlog, c))
<1> DEFINE G == Graded(revlog, c)
           Y == DaysOf(revlog, c)
           shift == MaxTime - Day(now)
           X == {ReviewDay(r.id, now) : r \in G}
           p == [r \in G |-> <<c, Day(r.id)>>]
           h == [y \in Y |-> y[2] + shift]
<1>1. IsFiniteSet(G)
  <2>1. G \in SUBSET revlog /\ IsFiniteSet(revlog)
    BY DEF Graded, GoodReviews
  <2> QED BY <2>1, FS_Subset
<1>2. IsFiniteSet(Y)
  <2>1. p = [r \in G |-> p[r]] /\ Y = {p[r] : r \in G}
    BY DEF DaysOf
  <2> HIDE DEF p, G, Y
  <2> QED BY <1>1, <2>1, FiniteImage
<1>3. MaxTime \in Nat /\ now \in Nat \ {0} /\ shift \in Int
  <2>1. MaxTime \in Nat /\ now \in Nat \ {0}
    BY ExamAssumption
  <2>2. Day(now) \in Nat
    BY <2>1, DayBounds
  <2> QED BY <2>1, <2>2
<1>4. ASSUME NEW r \in G
      PROVE  /\ Day(r.id) \in Nat /\ ReviewDay(r.id, now) = Day(r.id) + shift
             /\ <<c, Day(r.id)>> \in Y
  <2>1. r.id \in Nat \ {0} /\ r.id < now
    BY DEF Graded, GoodReviews
  <2>2. Day(r.id) \in Nat /\ ReviewDay(r.id, now) = Day(r.id) + MaxTime - Day(now)
    BY <2>1, DayBounds, ReviewDayIsDay
  <2>3. Day(now) \in Nat
    BY <1>3, DayBounds
  <2>4. <<c, Day(r.id)>> \in Y
    BY DEF DaysOf
  <2> QED BY <1>3, <2>2, <2>3, <2>4
<1>5. \A y \in Y : \E r \in G : y = <<c, Day(r.id)>>
  BY DEF DaysOf
<1> HIDE DEF G, Y, shift
<1>6. h \in [Y -> X]
  <2>1. ASSUME NEW y \in Y PROVE y[2] + shift \in X
    <3>1. PICK r \in G : y = <<c, Day(r.id)>>
      BY <1>5
    <3>2. y[2] + shift = ReviewDay(r.id, now)
      BY <1>4, <3>1
    <3> QED BY <3>2
  <2> HIDE DEF X
  <2> QED BY <2>1
<1>7. \A x \in X : \E y \in Y : h[y] = x
  <2> SUFFICES ASSUME NEW x \in X PROVE \E y \in Y : h[y] = x
    OBVIOUS
  <2>1. PICK r \in G : x = ReviewDay(r.id, now)
    OBVIOUS
  <2> DEFINE y == <<c, Day(r.id)>>
  <2>2. y \in Y /\ y[2] + shift = x
    BY <1>4, <2>1
  <2>3. h[y] = y[2] + shift
    BY <2>2
  <2> HIDE DEF y
  <2> QED BY <2>2, <2>3
<1>8. ASSUME NEW a \in Y, NEW b \in Y, h[a] = h[b] PROVE a = b
  <2>1. PICK r \in G : a = <<c, Day(r.id)>>
    BY <1>5
  <2>2. PICK q \in G : b = <<c, Day(q.id)>>
    BY <1>5
  <2>3. h[a] = Day(r.id) + shift /\ h[b] = Day(q.id) + shift
    BY <2>1, <2>2
  <2>4. Day(r.id) = Day(q.id)
    <3> DEFINE m == Day(r.id)
               n == Day(q.id)
    <3>1. m \in Nat /\ n \in Nat /\ m + shift = n + shift
      BY <1>4, <1>8, <2>3
    <3> HIDE DEF m, n
    <3>2. m = n
      BY <1>3, <3>1
    <3> QED BY <3>2 DEF m, n
  <2> QED BY <2>1, <2>2, <2>4
<1> HIDE DEF h, X
<1>9. h \in Bijection(Y, X)
  <2>1. h \in Injection(Y, X)
    BY <1>6, <1>8 DEF Injection, IsInjective
  <2>2. h \in Surjection(Y, X)
    BY <1>6, <1>7 DEF Surjection
  <2> QED BY <2>1, <2>2 DEF Bijection
<1>10. Cardinality(X) = Cardinality(Y)
  BY <1>2, <1>9, FS_Bijection DEF ExistsBijection
<1>11. GradedReviews(revlog, c) = Cardinality(X)
  BY DEF GradedReviews, G, X
<1> QED BY <1>2, <1>10, <1>11 DEF Y

\* What a device's answers say of the cards in scope.
Evidence(revlog, scope) == UNION {DaysOf(revlog, c) : c \in scope}

\* The answers counted are the pieces of evidence.
LEMMA GradedIsEvidence ==
  ASSUME FirstDay <= DayLength, now \in 1..MaxTime, NEW revlog, GoodReviews(revlog, now),
         NEW scope \in SUBSET Cards
  PROVE  /\ IsFiniteSet(Evidence(revlog, scope))
         /\ LET graded == [c \in scope |-> GradedReviews(revlog, c)]
            IN SumOver(graded, scope) = Cardinality(Evidence(revlog, scope))
<1> DEFINE graded == [c \in scope |-> GradedReviews(revlog, c)]
           E == [c \in scope |-> DaysOf(revlog, c)]
           pieces == {E[c] : c \in scope}
<1>1. IsFiniteSet(scope)
  BY ExamAssumption, FS_Subset
<1>2. ASSUME NEW c \in scope
      PROVE  IsFiniteSet(E[c]) /\ graded[c] = Cardinality(E[c])
  BY GradedReviewsAreDays
<1>3. ASSUME NEW a \in scope, NEW b \in scope, a # b PROVE E[a] \cap E[b] = {}
  BY <1>3 DEF DaysOf
<1>4. Evidence(revlog, scope) = UNION pieces
  BY DEF Evidence
<1>5. E = [c \in scope |-> E[c]]
  OBVIOUS
<1> HIDE DEF E, graded
<1>6. IsFiniteSet(UNION pieces)
  <2>1. IsFiniteSet(pieces)
    BY <1>1, <1>5, FiniteImage
  <2> QED BY <1>2, <2>1, FS_UNION
<1>7. SumOver(graded, scope) = Cardinality(UNION pieces)
  BY <1>1, <1>2, <1>3, <1>6, SizesAddUp
<1> QED BY <1>4, <1>6, <1>7 DEF graded

\* The topic of a card, and the topics of the evidence.
SyllabusTopic(c) == TopicOf[c, Syllabus]
AnsweredTopics(evidence) == {SyllabusTopic(e[1]) : e \in evidence} \ {<<>>}

\* A topic of a card that has an answer is one of them.
LEMMA CoveredIsAnswered ==
  ASSUME FirstDay <= DayLength, now \in 1..MaxTime, weights \in ExamConfigs,
         NEW revlog, GoodReviews(revlog, now), NEW scope \in SUBSET Cards,
         NEW covered \in SUBSET Syllabus,
         \A t \in covered : \E c \in scope : SyllabusTopic(c) = t
                                          /\ GradedReviews(revlog, c) > 0
  PROVE  LET answered == AnsweredTopics(Evidence(revlog, scope))
         IN /\ covered \subseteq answered
            /\ Cardinality(covered) \in Nat /\ Cardinality(answered) \in Nat
            /\ Cardinality(Syllabus) \in Nat
            /\ Cardinality(covered) <= Cardinality(answered)
<1> DEFINE evidence == Evidence(revlog, scope)
           answered == AnsweredTopics(evidence)
           f == [e \in evidence |-> SyllabusTopic(e[1])]
           topics == {f[e] : e \in evidence}
<1>1. IsFiniteSet(Syllabus) /\ <<>> \notin Syllabus
  BY ExamAssumption DEF Syllabus
<1>2. IsFiniteSet(evidence)
  BY GradedIsEvidence
<1>3. \A c \in scope : \A e \in DaysOf(revlog, c) : e \in evidence /\ e[1] = c
  BY DEF Evidence, DaysOf
<1> HIDE DEF evidence
<1>4. f = [e \in evidence |-> f[e]] /\ answered = topics \ {<<>>}
  BY DEF AnsweredTopics
<1>5. IsFiniteSet(topics)
  <2> HIDE DEF f
  <2> QED BY <1>2, <1>4, FiniteImage
<1>6. IsFiniteSet(answered)
  <2> HIDE DEF topics, answered
  <2> QED BY <1>4, <1>5, FS_Difference
<1>7. covered \subseteq answered
  <2> SUFFICES ASSUME NEW t \in covered PROVE t \in answered
    OBVIOUS
  <2>1. PICK c \in scope : SyllabusTopic(c) = t /\ GradedReviews(revlog, c) > 0
    OBVIOUS
  <2>2. DaysOf(revlog, c) # {}
    <3>1. GradedReviews(revlog, c) = Cardinality(DaysOf(revlog, c))
      BY GradedReviewsAreDays
    <3>2. Cardinality({}) = 0
      BY FS_EmptySet
    <3> QED BY <2>1, <3>1, <3>2
  <2>3. PICK e \in DaysOf(revlog, c) : TRUE
    BY <2>2
  <2>4. e \in evidence /\ e[1] = c
    BY <1>3, <2>3
  <2>5. SyllabusTopic(e[1]) = t /\ t # <<>>
    BY <1>1, <2>1, <2>4
  <2> QED BY <2>4, <2>5 DEF AnsweredTopics
<1> HIDE DEF answered, topics
<1>8. /\ Cardinality(covered) \in Nat /\ Cardinality(answered) \in Nat
      /\ Cardinality(Syllabus) \in Nat /\ Cardinality(covered) <= Cardinality(answered)
  BY <1>1, <1>6, <1>7, FS_Subset, FS_CardinalityType
<1> QED BY <1>7, <1>8 DEF answered, evidence

\* EvidenceCountedOnce: an answer counts once for its card and day, and a memory score
\* is quoted only with enough of them, for half of the topics and for all heavy ones. It
\* takes that the first rollover is at most a day away: days are equally long.
THEOREM EvidenceCounts ==
  ASSUME FirstDay <= DayLength
  PROVE  Spec => []EvidenceCountedOnce
<1>1. IInv => EvidenceCountedOnce
  <2> SUFFICES ASSUME IInv, NEW deck \in Decks
               PROVE  LET k == col["desktop"]
                          memory == MemoryScore(k, DeckIdWithChildren(deck))
                          evidence == UNION {{<<c, Day(r.id)>> : r \in Graded(k.revlog, c)} :
                                             c \in CardsIn(k.cards, DeckIdWithChildren(deck))}
                          answered == {TopicOf[e[1], Syllabus] : e \in evidence} \ {<<>>}
                      IN  /\ memory.graded = Cardinality(evidence)
                          /\ memory.quoted =>
                               /\ Cardinality(evidence) >= MinGraded
                               /\ 2 * Cardinality(answered) >= Cardinality(Syllabus)
                               /\ \A t \in Syllabus : Heavy(t) => t \in answered
    BY Zenon DEF EvidenceCountedOnce
  <2> DEFINE k == col["desktop"]
             decks == DeckIdWithChildren(deck)
             scope == CardsIn(k.cards, decks)
             evidence == Evidence(k.revlog, scope)
             topic == [c \in scope |-> SyllabusTopic(c)]
             graded == [c \in scope |-> GradedReviews(k.revlog, c)]
             total == SumOver(graded, scope)
             covered == {t \in Syllabus :
                           /\ \E c \in scope : topic[c] = t /\ graded[c] > 0
                           /\ \E c \in scope : topic[c] = t /\ k.cards[c].seen # 0}
             answered == AnsweredTopics(evidence)
             quoted == /\ total >= MinGraded
                       /\ 2 * Cardinality(covered) >= Cardinality(Syllabus)
                       /\ \A t \in Syllabus \ covered : ~Heavy(t)
             memory == [graded |-> total, covered |-> covered, quoted |-> quoted]
  <2>1. MemoryScore(k, decks) = memory
    BY Zenon DEF MemoryScore, SumOver, SyllabusTopic
  <2>2. /\ now \in 1..MaxTime /\ weights \in ExamConfigs /\ GoodReviews(k.revlog, now)
        /\ scope \in SUBSET Cards
    BY DEF IInv, GoodDevice, Devices, CardsIn
  <2>3. IsFiniteSet(evidence) /\ total = Cardinality(evidence)
    <3> HIDE DEF scope, k
    <3> QED BY <2>2, GradedIsEvidence, Zenon
  <2>4. /\ covered \in SUBSET Syllabus
        /\ \A t \in covered : \E c \in scope : SyllabusTopic(c) = t
                                           /\ GradedReviews(k.revlog, c) > 0
    <3> HIDE DEF scope, k
    <3> QED OBVIOUS
  <2>5. evidence = UNION {{<<c, Day(r.id)>> : r \in Graded(k.revlog, c)} : c \in scope}
    BY Zenon DEF Evidence, DaysOf
  <2>6. answered = {TopicOf[e[1], Syllabus] : e \in evidence} \ {<<>>}
    BY Zenon DEF AnsweredTopics, SyllabusTopic
  <2> HIDE DEF total, covered, k, scope
  <2>7. /\ covered \subseteq answered
        /\ Cardinality(covered) \in Nat /\ Cardinality(answered) \in Nat
        /\ Cardinality(Syllabus) \in Nat /\ Cardinality(covered) <= Cardinality(answered)
    BY <2>2, <2>4, CoveredIsAnswered, Zenon
  <2> HIDE DEF evidence, answered
  <2>8. /\ memory.graded = Cardinality(evidence)
        /\ memory.quoted = quoted
    BY <2>3
  <2>9. ASSUME quoted
        PROVE  /\ Cardinality(evidence) >= MinGraded
               /\ 2 * Cardinality(answered) >= Cardinality(Syllabus)
               /\ \A t \in Syllabus : Heavy(t) => t \in answered
    <3>1. 2 * Cardinality(answered) >= Cardinality(Syllabus)
      BY <2>7, <2>9
    <3> QED BY <2>3, <2>7, <2>9, <3>1
  <2> HIDE DEF memory, quoted
  <2>10. /\ MemoryScore(k, decks).graded = Cardinality(evidence)
         /\ MemoryScore(k, decks).quoted =>
              /\ Cardinality(evidence) >= MinGraded
              /\ 2 * Cardinality(answered) >= Cardinality(Syllabus)
              /\ \A t \in Syllabus : Heavy(t) => t \in answered
    BY <2>1, <2>8, <2>9
  <2> QED BY <2>5, <2>6, <2>10, Zenon DEF k, scope
<1> QED BY <1>1, Invariant, PTL
---------------------------------------------------------------------------
(* Orders *)

\* A relation that puts the elements of a set in one order.
TotalOrder(R, S) ==
  /\ \A s \in S : <<s, s>> \notin R
  /\ \A s, t \in S : s # t => <<s, t>> \in R \/ <<t, s>> \in R
  /\ \A s, t, u \in S : <<s, t>> \in R /\ <<t, u>> \in R => <<s, u>> \in R

\* In a finite set that is ordered, different elements have different numbers of
\* elements before them.
LEMMA PlacesDiffer ==
  ASSUME NEW S, IsFiniteSet(S), NEW R, TotalOrder(R, S)
  PROVE  /\ \A s \in S : Cardinality({r \in S : <<r, s>> \in R}) \in 0..(Cardinality(S) - 1)
         /\ \A s, t \in S : s # t => Cardinality({r \in S : <<r, s>> \in R})
                                      # Cardinality({r \in S : <<r, t>> \in R})
<1> DEFINE before(s) == {r \in S : <<r, s>> \in R}
           n == Cardinality(S)
<1>1. n \in Nat
  BY FS_CardinalityType
<1>2. ASSUME NEW s \in S
      PROVE  IsFiniteSet(before(s)) /\ Cardinality(before(s)) \in 0..(n - 1)
  <2>1. before(s) \in SUBSET S /\ s \notin before(s)
    BY DEF TotalOrder
  <2> HIDE DEF before
  <2>2. /\ IsFiniteSet(before(s)) /\ Cardinality(before(s)) <= n
        /\ (n = Cardinality(before(s)) => S = before(s))
    BY <2>1, FS_Subset
  <2>3. Cardinality(before(s)) \in Nat
    BY <2>2, FS_CardinalityType
  <2> QED BY <1>1, <2>1, <2>2, <2>3
<1>3. ASSUME NEW s \in S, NEW t \in S, <<s, t>> \in R
      PROVE  Cardinality(before(s)) # Cardinality(before(t))
  <2>1. before(s) \in SUBSET before(t) /\ s \in before(t) /\ s \notin before(s)
    BY <1>3 DEF TotalOrder
  <2>2. IsFiniteSet(before(t))
    BY <1>2
  <2> HIDE DEF before
  <2> QED BY <2>1, <2>2, FS_Subset
<1>4. ASSUME NEW s \in S, NEW t \in S, s # t
      PROVE  Cardinality(before(s)) # Cardinality(before(t))
  <2>1. <<s, t>> \in R \/ <<t, s>> \in R
    BY <1>4 DEF TotalOrder
  <2> HIDE DEF before
  <2> QED BY <1>3, <2>1
<1>5. \A s \in S : Cardinality(before(s)) \in 0..(n - 1)
  BY <1>2
<1>6. \A s, t \in S : s # t => Cardinality(before(s)) # Cardinality(before(t))
  BY <1>4
<1> QED BY <1>5, <1>6, Zenon

\* So some element has each number of elements before it.
LEMMA EachPlaceTaken ==
  ASSUME NEW S, IsFiniteSet(S), NEW R, TotalOrder(R, S), NEW i \in 1..Cardinality(S)
  PROVE  \E s \in S : Cardinality({r \in S : <<r, s>> \in R}) = i - 1
<1> DEFINE before(s) == {r \in S : <<r, s>> \in R}
           n == Cardinality(S)
           places == (0..(n - 1)) \ {i - 1}
           place == [s \in S |-> Cardinality(before(s))]
<1>1. n \in Nat /\ i - 1 \in 0..(n - 1)
  BY FS_CardinalityType
<1>2. ASSUME NEW s \in S PROVE Cardinality(before(s)) \in 0..(n - 1)
  BY PlacesDiffer, Zenon
<1>4. ASSUME \A s \in S : Cardinality(before(s)) # i - 1 PROVE FALSE
  <2>1. place \in [S -> places]
    BY <1>2, <1>4
  <2>2. IsFiniteSet(places) /\ Cardinality(places) = n - 1
    <3> HIDE DEF n
    <3>1. IsFiniteSet(0..(n - 1)) /\ Cardinality(0..(n - 1)) = n
      BY <1>1, FS_Interval
    <3> DEFINE all == 0..(n - 1)
    <3>2. i - 1 \in all /\ IsFiniteSet(all) /\ Cardinality(all) = n
      BY <1>1, <3>1
    <3>3. places = all \ {i - 1}
      OBVIOUS
    <3> HIDE DEF all, places
    <3>4. IsFiniteSet(places) /\ Cardinality(places) = Cardinality(all) - 1
      BY <3>2, <3>3, FS_RemoveElement
    <3> QED BY <3>2, <3>4
  <2>3. PICK s, t \in S : s # t /\ place[s] = place[t]
    <3>1. Cardinality(places) < Cardinality(S)
      BY <1>1, <2>2
    <3> HIDE DEF place, places, n
    <3> QED BY <2>1, <2>2, <3>1, FS_PigeonHole
  <2>4. Cardinality(before(s)) = Cardinality(before(t))
    BY <2>3
  <2>5. \A u, v \in S : u # v => Cardinality(before(u)) # Cardinality(before(v))
    BY PlacesDiffer, Zenon
  <2> HIDE DEF before
  <2> QED BY <2>3, <2>4, <2>5
<1> QED BY <1>4

Ordered(S, R) ==
  [i \in 1..Cardinality(S) |-> CHOOSE s \in S : Cardinality({r \in S : <<r, s>> \in R}) = i - 1]

\* A sequence of all elements of a set, each once.
Lists(seq, S) ==
  /\ Cardinality(S) \in Nat /\ seq \in [1..Cardinality(S) -> S]
  /\ \A s \in S : \E i \in 1..Cardinality(S) : seq[i] = s
  /\ \A i, j \in 1..Cardinality(S) : seq[i] = seq[j] => i = j

LEMMA OrderedPlaces ==
  ASSUME NEW S, IsFiniteSet(S), NEW R, TotalOrder(R, S)
  PROVE  LET seq == Ordered(S, R)
         IN /\ Lists(seq, S)
            /\ \A i, j \in 1..Cardinality(S) : i < j => <<seq[i], seq[j]>> \in R
<1> DEFINE n == Cardinality(S)
           before(s) == {r \in S : <<r, s>> \in R}
           count(s) == Cardinality(before(s))
           seq == [i \in 1..n |-> CHOOSE s \in S : count(s) = i - 1]
<1>1. n \in Nat
  BY FS_CardinalityType
<1>2. Ordered(S, R) = seq
  BY DEF Ordered
<1>3. ASSUME NEW i \in 1..n PROVE \E s \in S : count(s) = i - 1
  BY <1>3, EachPlaceTaken
<1>4. \A s \in S : count(s) \in 0..(n - 1)
  BY PlacesDiffer, Zenon
<1>5. \A s, t \in S : s # t => count(s) # count(t)
  BY PlacesDiffer, Zenon
<1>6. ASSUME NEW s \in S, NEW t \in S, <<s, t>> \in R PROVE count(s) <= count(t)
  <2>1. before(s) \subseteq before(t)
    BY <1>6 DEF TotalOrder
  <2>2. IsFiniteSet(before(t))
    BY FS_Subset
  <2> HIDE DEF before
  <2> QED BY <2>1, <2>2, FS_Subset
<1> HIDE DEF count, n
<1>7. ASSUME NEW i \in 1..n PROVE seq[i] \in S /\ count(seq[i]) = i - 1
  BY <1>3, <1>7
<1>8. seq \in [1..n -> S]
  BY <1>7
<1>9. ASSUME NEW s \in S PROVE \E i \in 1..n : seq[i] = s
  <2> DEFINE i == count(s) + 1
  <2>1. i \in 1..n /\ i - 1 = count(s)
    BY <1>1, <1>4
  <2> HIDE DEF i, seq
  <2>2. seq[i] \in S /\ count(seq[i]) = count(s)
    BY <1>7, <2>1
  <2>3. seq[i] = s
    BY <1>5, <2>2
  <2> QED BY <2>1, <2>3
<1>10. ASSUME NEW i \in 1..n, NEW j \in 1..n, seq[i] = seq[j] PROVE i = j
  <2> HIDE DEF seq
  <2>1. i - 1 = j - 1
    BY <1>7, <1>10
  <2> QED BY <1>1, <2>1
<1>11. ASSUME NEW i \in 1..n, NEW j \in 1..n, i < j PROVE <<seq[i], seq[j]>> \in R
  <2> HIDE DEF seq
  <2>1. seq[i] \in S /\ seq[j] \in S /\ count(seq[i]) = i - 1 /\ count(seq[j]) = j - 1
    BY <1>7
  <2>2. seq[i] # seq[j] /\ ~(count(seq[j]) <= count(seq[i]))
    BY <1>11, <2>1
  <2>3. <<seq[j], seq[i]>> \notin R
    BY <1>6, <2>1, <2>2
  <2> QED BY <2>1, <2>2, <2>3 DEF TotalOrder
<1> HIDE DEF seq
<1> QED BY <1>1, <1>2, <1>8, <1>9, <1>10, <1>11 DEF Lists, n

\* Numbers in their order.
ByNumber(S) == InOrder(S, <)

LEMMA NumbersInOrder ==
  ASSUME NEW S \in SUBSET Nat, IsFiniteSet(S)
  PROVE  Lists(ByNumber(S), S)
<1> DEFINE R == {p \in S \X S : p[1] < p[2]}
<1>1. \A d, e \in S : <<d, e>> \in R <=> d < e
  OBVIOUS
<1>2. TotalOrder(R, S)
  <2> HIDE DEF R
  <2> QED BY <1>1 DEF TotalOrder
<1>3. ByNumber(S) = Ordered(S, R)
  <2>1. ASSUME NEW s \in S PROVE {r \in S : r < s} = {r \in S : <<r, s>> \in R}
    BY <1>1
  <2>2. ByNumber(S) = [i \in 1..Cardinality(S) |->
                         CHOOSE s \in S : Cardinality({r \in S : r < s}) = i - 1]
    BY Zenon DEF ByNumber, InOrder
  <2> HIDE DEF R
  <2>3. \A i : (CHOOSE s \in S : Cardinality({r \in S : r < s}) = i - 1)
                 = (CHOOSE s \in S : Cardinality({r \in S : <<r, s>> \in R}) = i - 1)
    BY <2>1
  <2> QED BY <2>2, <2>3 DEF Ordered
<1> HIDE DEF R
<1> QED BY <1>2, <1>3, OrderedPlaces

\* Cards by a number that each has, and by their own where it is the same.
Earlier(measure, c, d) ==
  \/ measure[c] < measure[d]
  \/ measure[c] = measure[d] /\ c < d

LEMMA MeasureOrder ==
  ASSUME NEW S \in SUBSET Nat, IsFiniteSet(S), NEW measure \in [S -> Int]
  PROVE  LET seq == InOrder(S, LAMBDA c, d : Earlier(measure, c, d))
         IN /\ Lists(seq, S)
            /\ \A i, j \in 1..Cardinality(S) : i < j => measure[seq[i]] <= measure[seq[j]]
<1> DEFINE R == {p \in S \X S : Earlier(measure, p[1], p[2])}
           seq == InOrder(S, LAMBDA c, d : Earlier(measure, c, d))
<1>1. \A d, e \in S : <<d, e>> \in R <=> Earlier(measure, d, e)
  OBVIOUS
<1>2. TotalOrder(R, S)
  <2> HIDE DEF R
  <2> QED BY <1>1 DEF TotalOrder, Earlier
<1>3. seq = Ordered(S, R)
  <2>1. ASSUME NEW s \in S
        PROVE  {r \in S : Earlier(measure, r, s)} = {r \in S : <<r, s>> \in R}
    BY <1>1
  <2>2. seq = [i \in 1..Cardinality(S) |->
                 CHOOSE s \in S : Cardinality({r \in S : Earlier(measure, r, s)}) = i - 1]
    BY Zenon DEF InOrder
  <2> HIDE DEF R, seq
  <2> DEFINE first(i) == CHOOSE s \in S : Cardinality({r \in S : Earlier(measure, r, s)}) = i - 1
             place(i) == CHOOSE s \in S : Cardinality({r \in S : <<r, s>> \in R}) = i - 1
  <2>3. \A i : first(i) = place(i)
    BY <2>1
  <2>4. seq = [i \in 1..Cardinality(S) |-> first(i)]
    BY <2>2, Zenon
  <2>5. Ordered(S, R) = [i \in 1..Cardinality(S) |-> place(i)]
    BY Zenon DEF Ordered
  <2> HIDE DEF first, place
  <2> QED BY <2>3, <2>4, <2>5
<1> HIDE DEF R, seq
<1>4. Lists(seq, S) /\ \A i, j \in 1..Cardinality(S) : i < j => <<seq[i], seq[j]>> \in R
  BY <1>2, <1>3, OrderedPlaces
<1>5. ASSUME NEW i \in 1..Cardinality(S), NEW j \in 1..Cardinality(S), i < j
      PROVE  measure[seq[i]] <= measure[seq[j]]
  <2>1. seq[i] \in S /\ seq[j] \in S
    BY <1>4 DEF Lists
  <2>2. Earlier(measure, seq[i], seq[j])
    BY <1>1, <1>4, <1>5, <2>1
  <2>3. measure[seq[i]] \in Int /\ measure[seq[j]] \in Int
    BY <2>1
  <2> QED BY <2>2, <2>3 DEF Earlier
<1> QED BY <1>4, <1>5 DEF seq

\* The exam queue, before it is cut.
LEMMA ScoreOrder ==
  ASSUME IsFiniteSet(Cards), now \in Nat, weights \in ExamConfigs,
         NEW cards, \A c \in Cards : cards[c].seen \in Nat, NEW cs \in SUBSET Cards
  PROVE  Lists(ByScore(cards, cs), cs)
<1> DEFINE measure == [c \in cs |-> -Score(cards, c)]
           before(c, d) == \/ Score(cards, c) > Score(cards, d)
                           \/ Score(cards, c) = Score(cards, d) /\ c < d
<1>1. cs \in SUBSET Nat /\ IsFiniteSet(cs)
  BY ExamAssumption, FS_Subset
<1>2. ASSUME NEW c \in cs PROVE Score(cards, c) \in Int
  <2> DEFINE topic == WeighedTopic[c, DOMAIN weights]
             a == Weight(topic)
             b == Weakness(cards[c])
  <2>1. a \in Int
    <3> HIDE DEF topic
    <3> QED BY ExamAssumption DEF Weight
  <2>2. b \in Int
    <3>1. MaxTime \in Nat /\ cards[c].seen \in Nat
      BY ExamAssumption
    <3> QED BY <3>1 DEF Weakness
  <2>3. Score(cards, c) = a * b
    BY DEF Score
  <2> HIDE DEF a, b
  <2> QED BY <2>1, <2>2, <2>3
<1>3. ASSUME NEW c \in cs, NEW d \in cs PROVE before(c, d) <=> Earlier(measure, c, d)
  BY <1>2 DEF Earlier
<1>4. measure \in [cs -> Int]
  BY <1>2
<1>5. ByScore(cards, cs) = InOrder(cs, LAMBDA c, d : Earlier(measure, c, d))
  <2> HIDE DEF measure
  <2> DEFINE first(i) == CHOOSE s \in cs : Cardinality({r \in cs : before(r, s)}) = i - 1
             place(i) == CHOOSE s \in cs : Cardinality({r \in cs : Earlier(measure, r, s)}) = i - 1
  <2>1. ASSUME NEW s \in cs PROVE {r \in cs : before(r, s)} = {r \in cs : Earlier(measure, r, s)}
    <3> HIDE DEF before
    <3> QED BY <1>3
  <2>2. ByScore(cards, cs) = [i \in 1..Cardinality(cs) |-> first(i)]
    BY Zenon DEF ByScore, InOrder
  <2>3. InOrder(cs, LAMBDA c, d : Earlier(measure, c, d)) = [i \in 1..Cardinality(cs) |-> place(i)]
    BY Zenon DEF InOrder
  <2> HIDE DEF before
  <2>4. \A i : first(i) = place(i)
    BY <2>1
  <2> HIDE DEF first, place
  <2> QED BY <2>2, <2>3, <2>4
<1> HIDE DEF measure
<1> QED BY <1>1, <1>4, <1>5, MeasureOrder

\* The weakest cards come first.
ByWeakness(cards, S) == InOrder(S, LAMBDA c, d : Weaker(cards, c, d))

LEMMA WeaknessOrder ==
  ASSUME IsFiniteSet(Cards), NEW cards, \A c \in Cards : cards[c].seen \in Nat,
         NEW S \in SUBSET Cards
  PROVE  LET seq == ByWeakness(cards, S)
         IN /\ Lists(seq, S)
            /\ \A i, j \in 1..Cardinality(S) :
                 i < j => PredictedRecall(cards[seq[i]]) <= PredictedRecall(cards[seq[j]])
<1> DEFINE measure == [c \in S |-> PredictedRecall(cards[c])]
           seq == ByWeakness(cards, S)
<1>1. S \in SUBSET Nat /\ IsFiniteSet(S)
  BY ExamAssumption, FS_Subset
<1>2. \A c \in S : PredictedRecall(cards[c]) \in Int
  BY DEF PredictedRecall
<1>3. ASSUME NEW c \in S, NEW d \in S PROVE Weaker(cards, c, d) <=> Earlier(measure, c, d)
  BY DEF Earlier, Weaker
<1>4. measure \in [S -> Int]
  BY <1>2
<1>5. seq = InOrder(S, LAMBDA c, d : Earlier(measure, c, d))
  <2> HIDE DEF measure
  <2> DEFINE first(i) == CHOOSE s \in S : Cardinality({r \in S : Weaker(cards, r, s)}) = i - 1
             place(i) == CHOOSE s \in S : Cardinality({r \in S : Earlier(measure, r, s)}) = i - 1
  <2>1. ASSUME NEW s \in S
        PROVE  {r \in S : Weaker(cards, r, s)} = {r \in S : Earlier(measure, r, s)}
    BY <1>3
  <2>2. seq = [i \in 1..Cardinality(S) |-> first(i)]
    BY Zenon DEF ByWeakness, InOrder
  <2>3. InOrder(S, LAMBDA c, d : Earlier(measure, c, d)) = [i \in 1..Cardinality(S) |-> place(i)]
    BY Zenon DEF InOrder
  <2>4. \A i : first(i) = place(i)
    BY <2>1
  <2> HIDE DEF first, place, seq
  <2> QED BY <2>2, <2>3, <2>4
<1>6. \A c \in S : measure[c] = PredictedRecall(cards[c])
  OBVIOUS
<1> HIDE DEF measure, seq
<1>7. /\ Lists(seq, S)
      /\ \A i, j \in 1..Cardinality(S) : i < j => measure[seq[i]] <= measure[seq[j]]
  BY <1>1, <1>4, <1>5, MeasureOrder
<1>8. \A i \in 1..Cardinality(S) : seq[i] \in S
  BY <1>7 DEF Lists
<1> QED BY <1>6, <1>7, <1>8 DEF seq

\* What is left of a sequence that is cut.
Opens(first, seq, S, k) ==
  first \in Seq(S) /\ Len(first) = k /\ \A i \in 1..k : first[i] = seq[i]

LEMMA FirstEntries ==
  ASSUME NEW S, NEW seq \in Seq(S), NEW n \in Nat,
         NEW k \in Nat, k <= Len(seq), k <= n, k = Len(seq) \/ k = n
  PROVE  Opens(First(n, seq), seq, S, k)
<1>1. PICK m \in Nat : m = Len(seq)
  OBVIOUS
<1>2. Min({n, m}) = k
  <2>1. k <= m /\ k <= n /\ (k = m \/ k = n)
    BY <1>1
  <2> QED BY <2>1 DEF Min
<1>3. First(n, seq) = SubSeq(seq, 1, k)
  BY <1>1, <1>2 DEF First
<1>4. \A i \in 1..k : seq[i] \in S
  <2>1. \A i \in 1..m : seq[i] \in S
    BY <1>1
  <2>2. k <= m
    BY <1>1
  <2> QED BY <2>1, <2>2
<1>5. /\ SubSeq(seq, 1, k) \in Seq(S)
      /\ Len(SubSeq(seq, 1, k)) = IF 1 <= k THEN k - 1 + 1 ELSE 0
      /\ \A i \in 1..(k - 1 + 1) : SubSeq(seq, 1, k)[i] = seq[1 + i - 1]
  BY <1>4, SubSeqProperties
<1>6. Len(SubSeq(seq, 1, k)) = k
  BY <1>5
<1>7. ASSUME NEW i \in 1..k PROVE SubSeq(seq, 1, k)[i] = seq[i]
  <2>1. i \in 1..(k - 1 + 1) /\ 1 + i - 1 = i
    OBVIOUS
  <2> QED BY <1>5, <2>1
<1> QED BY <1>3, <1>5, <1>6, <1>7 DEF Opens

\* A sequence without repetitions has as many elements as places.
LEMMA Enumerated ==
  ASSUME NEW T, NEW f \in Seq(T), \A t \in T : \E i \in 1..Len(f) : f[i] = t,
         \A i, j \in 1..Len(f) : f[i] = f[j] => i = j
  PROVE  IsFiniteSet(T) /\ Cardinality(T) = Len(f)
<1>1. PICK n \in Nat : n = Len(f)
  OBVIOUS
<1>2. f \in [1..n -> T]
  BY <1>1
<1>3. f \in Injection(1..n, T)
  BY <1>1, <1>2 DEF Injection, IsInjective
<1>4. f \in Surjection(1..n, T)
  BY <1>1, <1>2 DEF Surjection
<1>5. f \in Bijection(1..n, T)
  BY <1>3, <1>4 DEF Bijection
<1>6. IsFiniteSet(1..n) /\ Cardinality(1..n) = n
  BY FS_Interval
<1> QED BY <1>1, <1>5, <1>6, FS_Bijection DEF ExistsBijection

---------------------------------------------------------------------------
(* Studying by priority *)

\* The queue of some cards: it is full of them, or has them all.
Queue(cards, G) == First(FetchLimit, ByScore(cards, G))

LEMMA QueueOfCards ==
  ASSUME now \in Nat, weights \in ExamConfigs,
         NEW cards, \A c \in Cards : cards[c].seen \in Nat, NEW G \in SUBSET Cards
  PROVE  /\ Range(Queue(cards, G)) \subseteq G
         /\ Queue(cards, G) = <<>> <=> G = {}
         /\ \A N \in SUBSET G : N # {} /\ Cardinality(G \ N) < FetchLimit
                                  => N \cap Range(Queue(cards, G)) # {}
<1> DEFINE seq == ByScore(cards, G)
           m == Cardinality(G)
           k == IF FetchLimit <= m THEN FetchLimit ELSE m
           f == Queue(cards, G)
<1>1. IsFiniteSet(Cards) /\ IsFiniteSet(G) /\ FetchLimit \in Nat \ {0}
  BY ExamAssumption, FS_Subset
<1>2. Lists(seq, G)
  BY <1>1, ScoreOrder
<1>3. m \in Nat /\ seq \in [1..m -> G]
  BY <1>2 DEF Lists
<1>4. k \in Nat /\ k <= m /\ k <= FetchLimit /\ (k = m \/ k = FetchLimit)
  BY <1>1, <1>3
<1> HIDE DEF k
<1>5. f \in Seq(G) /\ Len(f) = k /\ \A i \in 1..k : f[i] = seq[i]
  <2> HIDE DEF seq, m
  <2>1. f = First(FetchLimit, seq)
    BY DEF Queue, seq
  <2>2. seq \in Seq(G) /\ Len(seq) = m /\ FetchLimit \in Nat
    BY <1>1, <1>3
  <2> HIDE DEF f
  <2> QED BY <1>4, <2>1, <2>2, FirstEntries DEF Opens
<1> HIDE DEF seq, f
<1>6. Range(f) = {f[i] : i \in 1..k} /\ Range(f) \subseteq G
  BY <1>5, <1>4 DEF Range
<1>7. f = <<>> <=> G = {}
  <2>1. m = 0 <=> G = {}
    BY <1>1, FS_EmptySet
  <2>2. k = 0 <=> m = 0
    BY <1>1, <1>3, <1>4
  <2>3. f = <<>> <=> k = 0
    BY <1>5
  <2> QED BY <2>1, <2>2, <2>3
<1>8. ASSUME NEW N \in SUBSET G, N # {}, Cardinality(G \ N) < FetchLimit
      PROVE  N \cap Range(f) # {}
  <2>1. CASE k = m
    <3>1. PICK c \in N : TRUE
      BY <1>8
    <3>2. PICK i \in 1..m : seq[i] = c
      BY <1>2, <3>1 DEF Lists
    <3>3. i \in 1..k /\ f[i] = c
      BY <1>5, <2>1, <3>2
    <3> QED BY <1>6, <3>1, <3>3
  <2>2. CASE k = FetchLimit
    <3>1. f \in [1..k -> G]
      BY <1>5
    <3>2. ASSUME NEW i \in 1..k, NEW j \in 1..k, f[i] = f[j] PROVE i = j
      <4>1. i \in 1..m /\ j \in 1..m /\ seq[i] = seq[j]
        BY <1>3, <1>5, <1>4, <3>2
      <4> QED BY <1>2, <4>1 DEF Lists
    <3>3. Cardinality(Range(f)) = k
      <4>1. \A i, j \in 1..k : f[i] = f[j] => i = j
        BY <3>2
      <4>2. /\ f \in Seq(Range(f)) /\ Len(f) = k
            /\ \A t \in Range(f) : \E i \in 1..k : f[i] = t
        BY <1>4, <1>5, <1>6, <3>1
      <4> QED BY <4>1, <4>2, Enumerated
    <3>4. ASSUME N \cap Range(f) = {} PROVE FALSE
      <4>1. Range(f) \in SUBSET (G \ N)
        BY <1>6, <3>4
      <4>2. IsFiniteSet(G \ N)
        BY <1>1, FS_Difference
      <4>3. Cardinality(Range(f)) <= Cardinality(G \ N) /\ Cardinality(G \ N) \in Nat
        BY <4>1, <4>2, FS_Subset, FS_CardinalityType
      <4> QED BY <1>1, <1>8, <2>2, <3>3, <4>3
    <3> QED BY <3>4
  <2> QED BY <1>4, <2>1, <2>2
<1> QED BY <1>6, <1>7, <1>8 DEF f

\* The cards that may be studied from a deck.
StudyScope(cards, deck) ==
  LET here == Gathered(cards, DeckIdWithChildren(deck))
  IN  IF here = {} /\ deck = "Default" THEN Gathered(cards, Decks) ELSE here

LEMMA ExamQueueReaches ==
  ASSUME now \in Nat, weights \in ExamConfigs,
         NEW cards, \A c \in Cards : cards[c].seen \in Nat, NEW deck
  PROVE  /\ Range(ExamQueue(cards, deck)) \in SUBSET Cards
         /\ \A N \in SUBSET StudyScope(cards, deck) :
              N # {} /\ Cardinality(StudyScope(cards, deck) \ N) < FetchLimit
                => N \cap Range(ExamQueue(cards, deck)) # {}
<1> DEFINE here == Gathered(cards, DeckIdWithChildren(deck))
           all == Gathered(cards, Decks)
<1>1. here \in SUBSET Cards /\ all \in SUBSET Cards
  BY DEF Gathered
<1>2. UNION {Gathered(cards, DeckIdWithChildren(d)) : d \in TopLevelDecks} = all
  <2>1. \A d \in Decks : \E top \in TopLevelDecks : d \in DeckIdWithChildren(top)
    BY DEF TopLevelDecks, DeckIdWithChildren, Decks, CfaTree
  <2>2. \A top \in TopLevelDecks : DeckIdWithChildren(top) \subseteq Decks
    BY DEF TopLevelDecks, DeckIdWithChildren, Decks, CfaTree
  <2> QED BY <2>1, <2>2 DEF Gathered
<1>3. /\ BuildExamQueue(cards, deck) = Queue(cards, here)
      /\ BuildExamQueueAllDecks(cards) = Queue(cards, all)
  BY <1>2, Zenon DEF BuildExamQueue, BuildExamQueueAllDecks, Queue
<1>4. ExamQueue(cards, deck) = Queue(cards, StudyScope(cards, deck))
  <2>1. Queue(cards, here) = <<>> <=> here = {}
    <3> HIDE DEF here
    <3> QED BY <1>1, QueueOfCards
  <2>2. ExamQueue(cards, deck)
          = IF Queue(cards, here) = <<>> /\ deck = "Default" THEN Queue(cards, all)
            ELSE Queue(cards, here)
    BY <1>3 DEF ExamQueue
  <2>3. StudyScope(cards, deck) = IF here = {} /\ deck = "Default" THEN all ELSE here
    BY DEF StudyScope
  <2> HIDE DEF here, all
  <2> QED BY <2>1, <2>2, <2>3
<1>5. StudyScope(cards, deck) \in SUBSET Cards
  BY <1>1 DEF StudyScope
<1> HIDE DEF here, all
<1> QED BY <1>4, <1>5, QueueOfCards

\* A card that was matched moves in, and can still be studied.
LEMMA FilledDeck ==
  ASSUME now \in Nat, NEW cards, GoodCards(cards), NEW deck \in Filtered,
         NEW matched \in SUBSET Cards, NEW c \in matched,
         cards[c].queue = "open", cards[c].did = deck \/ cards[c].odid = NoDeck,
         New(cards[c]) \/ Due(cards[c], now)
  PROVE  LET study == StudyFilteredDeck(cards, deck, matched)
         IN /\ study.entered /\ study.cards[c].did = deck
            /\ New(study.cards[c]) \/ Due(study.cards[c], now)
<1> DEFINE study == StudyFilteredDeck(cards, deck, matched)
           home == Returned(cards, deck)
           found == {d \in matched : home[d].queue = "open" /\ home[d].odid = NoDeck}
           order == InOrder(found, <)
           position(d) == (CHOOSE i \in DOMAIN order : order[i] = d) - 1 - Cardinality(Cards)
           filled == [d \in Cards |-> IF d \in found
                      THEN Changed(MovedInto(home[d], deck, position(d)))
                      ELSE home[d]]
           moved == MovedInto(home[c], deck, position(c))
<1>1. GoodCards(home) /\ c \in Cards
  BY ReturnedGood
<1>2. /\ home[c].queue = "open" /\ home[c].odid = NoDeck /\ home[c].ctype = cards[c].ctype
      /\ home[c].due \in Nat \ {0}
  <2>1. GoodCard(cards[c], HomeOf[c]) /\ GoodCard(home[c], HomeOf[c])
    BY <1>1 DEF GoodCards
  <2>2. CASE cards[c].did = deck
    <3>1. home[c] = Changed(BackHome(cards[c]))
      BY <1>1, <2>2, Zenon DEF Returned, Changed
    <3> DEFINE b == BackHome(cards[c])
    <3>2. /\ GoodCard(b, HomeOf[c]) /\ b.odid = NoDeck /\ b.ctype = cards[c].ctype
          /\ b.queue = "open"
      BY <2>1, BackHomeGood
    <3> HIDE DEF b, home
    <3>3. /\ Changed(b).odid = NoDeck /\ Changed(b).ctype = cards[c].ctype
          /\ Changed(b).queue = "open"
      BY <3>2 DEF Changed, GoodCard, IsRecord, Fields
    <3> QED BY <2>1, <3>1, <3>3 DEF GoodCard, b
  <2>3. CASE cards[c].did # deck
    <3>1. home[c] = cards[c]
      BY <1>1, <2>3 DEF Returned
    <3> QED BY <2>1, <2>3, <3>1 DEF GoodCard
  <2> QED BY <2>2, <2>3
<1>3. c \in found /\ found \in SUBSET Cards /\ found # {}
  <2> HIDE DEF home
  <2> QED BY <1>2
<1>4. study = [cards |-> filled, entered |-> TRUE]
  <2>1. study = IF found = {} THEN [cards |-> cards, entered |-> FALSE]
                ELSE [cards |-> filled, entered |-> TRUE]
    BY Zenon DEF StudyFilteredDeck, Changed
  <2> HIDE DEF study, filled, found
  <2> QED BY <1>3, <2>1
<1>5. position(c) \in Int /\ position(c) < 0
  <2>1. IsFiniteSet(Cards) /\ Cards \in SUBSET Nat
    BY ExamAssumption
  <2>2. found \in SUBSET Nat /\ IsFiniteSet(found) /\ Cardinality(found) <= Cardinality(Cards)
    <3> HIDE DEF found
    <3> QED BY <1>3, <2>1, FS_Subset
  <2>3. Cardinality(Cards) \in Nat
    BY <2>1, FS_CardinalityType
  <2> HIDE DEF found
  <2>4. Lists(order, found)
    BY <2>2, NumbersInOrder DEF ByNumber
  <2> HIDE DEF order
  <2>5. DOMAIN order = 1..Cardinality(found) /\ Cardinality(found) \in Nat
    BY <2>4 DEF Lists
  <2> DEFINE place == CHOOSE i \in DOMAIN order : order[i] = c
  <2>6. place \in 1..Cardinality(found)
    <3>1. \E i \in DOMAIN order : order[i] = c
      BY <1>3, <2>4, <2>5 DEF Lists
    <3> QED BY <2>5, <3>1
  <2> HIDE DEF place
  <2>7. place - 1 - Cardinality(Cards) \in Int /\ place - 1 - Cardinality(Cards) < 0
    BY <2>2, <2>3, <2>5, <2>6
  <2> QED BY <2>7 DEF place
<1>6. filled[c] = Changed(moved)
  <2> HIDE DEF position, home, found
  <2> QED BY <1>1, <1>3
<1> HIDE DEF position, home, found, filled, study
<1>7. /\ Changed(moved).did = deck /\ Changed(moved).queue = "open"
      /\ Changed(moved).ctype = cards[c].ctype /\ Changed(moved).due = position(c)
  <2>1. GoodCard(home[c], HomeOf[c])
    BY <1>1 DEF GoodCards
  <2> DEFINE p == position(c)
             h == home[c]
  <2> HIDE DEF p, h
  <2>2. /\ DOMAIN h = Fields /\ h = [f \in Fields |-> h[f]] /\ h.due \in Nat \ {0}
        /\ h.queue = "open" /\ h.ctype = cards[c].ctype
    BY <1>2, <2>1 DEF GoodCard, IsRecord, h
  <2>3. LET m == MovedInto(h, deck, p)
        IN Changed(m).did = deck /\ Changed(m).queue = "open"
           /\ Changed(m).ctype = cards[c].ctype /\ Changed(m).due = p
    BY <2>2 DEF MovedInto, Changed, Fields
  <2> QED BY <2>3 DEF p, h
<1> HIDE DEF moved
<1>8. Day(now) \in Nat
  BY DayType
<1>9. New(Changed(moved)) \/ Due(Changed(moved), now)
  BY <1>5, <1>7, <1>8 DEF New, Due
<1>10. study.entered /\ study.cards[c] = Changed(moved)
  BY <1>4, <1>6
<1> QED BY <1>7, <1>9, <1>10 DEF study

\* ReviewIsReached: studying by priority ends in the reviewer, with something to review,
\* from any deck that has a card to study that no other filtered deck holds, unless cards
\* that cannot be studied fill the queue.
THEOREM ReviewReached == Spec => []ReviewIsReached
<1>1. IInv => ReviewIsReached
  <2> SUFFICES ASSUME IInv, NEW deck \in Decks
               PROVE  LET cards == col["desktop"].cards
                          scope == StudyScope(cards, deck)
                          studyable == {c \in scope : cards[c].queue = "open"
                                                      /\ cards[c].did # "Study Pairs"}
                          study == StudiedByExamPriority(cards, deck)
                      IN  studyable # {} /\ Cardinality(scope \ studyable) < FetchLimit =>
                            /\ study.entered
                            /\ \E c \in studyable :
                                 /\ study.cards[c].did = "Exam Priority"
                                 /\ New(study.cards[c]) \/ Due(study.cards[c], now)
    BY Zenon DEF ReviewIsReached, StudyScope
  <2> DEFINE cards == col["desktop"].cards
             scope == StudyScope(cards, deck)
             studyable == {c \in scope : cards[c].queue = "open" /\ cards[c].did # "Study Pairs"}
             matched == Range(ExamQueue(cards, deck))
             study == StudyFilteredDeck(cards, "Exam Priority", matched)
  <2>1. StudiedByExamPriority(cards, deck) = study
    BY Zenon DEF StudiedByExamPriority
  <2>2. now \in Nat /\ weights \in ExamConfigs
    BY ExamAssumption DEF IInv
  <2>3. GoodCards(cards)
    BY DesktopCards
  <2> HIDE DEF cards
  <2>4. \A c \in Cards : GoodCard(cards[c], HomeOf[c])
    BY <2>3 DEF GoodCards
  <2>5. \A c \in Cards : cards[c].seen \in Nat
    BY <2>4 DEF GoodCard
  <2> SUFFICES ASSUME studyable # {}, Cardinality(scope \ studyable) < FetchLimit
               PROVE  /\ study.entered
                      /\ \E c \in studyable :
                           /\ study.cards[c].did = "Exam Priority"
                           /\ New(study.cards[c]) \/ Due(study.cards[c], now)
    BY <2>1, Zenon DEF cards
  <2>6. /\ matched \in SUBSET Cards
        /\ \A N \in SUBSET scope : N # {} /\ Cardinality(scope \ N) < FetchLimit
                                     => N \cap matched # {}
    BY <2>2, <2>5, ExamQueueReaches, Zenon
  <2>7. studyable \in SUBSET scope
    OBVIOUS
  <2>8. PICK c \in studyable : c \in matched
    <3> HIDE DEF studyable, scope, matched
    <3> QED BY <2>6, <2>7
  <2>9. \A d \in scope : New(cards[d]) \/ Due(cards[d], now)
    BY DEF StudyScope, Gathered
  <2>10. /\ c \in Cards /\ cards[c].queue = "open" /\ cards[c].did # "Study Pairs"
         /\ New(cards[c]) \/ Due(cards[c], now)
    <3> HIDE DEF matched, scope
    <3> QED BY <2>6, <2>8, <2>9
  <2>11. cards[c].did = "Exam Priority" \/ cards[c].odid = NoDeck
    BY <2>4, <2>10 DEF GoodCard, Filtered
  <2>12. "Exam Priority" \in Filtered
    BY DEF Filtered
  <2> HIDE DEF matched, scope, studyable
  <2>13. /\ study.entered /\ study.cards[c].did = "Exam Priority"
         /\ New(study.cards[c]) \/ Due(study.cards[c], now)
    BY <2>2, <2>3, <2>6, <2>8, <2>10, <2>11, <2>12, FilledDeck, Zenon
  <2> HIDE DEF study
  <2> QED BY <2>8, <2>13
<1> QED BY <1>1, Invariant, PTL

---------------------------------------------------------------------------
(* The ranking for the exam day *)

\* Rows put in order are the same rows.
WeakestFirst(cards, rows) == Sorted(rows, LAMBDA c, d : Weaker(cards, c, d))
Distinct(rows, n) == \A i, j \in 1..n : rows[i] = rows[j] => i = j
SameRows(s, rows, n) ==
  /\ s \in [1..n -> Cards]
  /\ \A j \in 1..n : \E i \in 1..n : s[i] = rows[j]
  /\ \A i \in 1..n : \E j \in 1..n : s[i] = rows[j]
  /\ Distinct(rows, n) => Distinct(s, n)

LEMMA UpTo ==
  ASSUME NEW n \in Nat
  PROVE  IsFiniteSet(1..n) /\ Cardinality(1..n) = n
<1>1. n \in Int /\ 1 \in Int
  OBVIOUS
<1>2. IsFiniteSet(1..n) /\ Cardinality(1..n) = IF 1 > n THEN 0 ELSE n - 1 + 1
  BY <1>1, FS_Interval
<1> QED BY <1>2

LEMMA SortedRows ==
  ASSUME NEW cards, \A c \in Cards : cards[c].seen \in Nat,
         NEW rows \in Seq(Cards), NEW n \in Nat, n = Len(rows)
  PROVE  SameRows(WeakestFirst(cards, rows), rows, n)
<1> DEFINE S == 1..n
           before(i, j) == \/ Weaker(cards, rows[i], rows[j])
                           \/ rows[i] = rows[j] /\ i < j
           R == {p \in S \X S : before(p[1], p[2])}
           order == InOrder(S, before)
           s == WeakestFirst(cards, rows)
<1> rows \in [1..n -> Cards]
  OBVIOUS
<1>1. IsFiniteSet(S) /\ Cardinality(S) = n
  BY UpTo
<1>2. \A i, j \in S : <<i, j>> \in R <=> before(i, j)
  OBVIOUS
<1>3. TotalOrder(R, S)
  <2>1. \A i \in S : rows[i] \in Nat /\ cards[rows[i]].seen \in Nat /\ i \in Nat
    <3> SUFFICES ASSUME NEW i \in S PROVE rows[i] \in Nat /\ cards[rows[i]].seen \in Nat
      OBVIOUS
    <3>1. Cards \in SUBSET Nat
      BY ExamAssumption
    <3>2. rows[i] \in Cards
      OBVIOUS
    <3> QED BY <3>1, <3>2
  <2>2. \A i \in S : ~before(i, i)
    BY <2>1 DEF Weaker, PredictedRecall
  <2>3. ASSUME NEW i \in S, NEW j \in S, i # j PROVE before(i, j) \/ before(j, i)
    BY <2>1, <2>3 DEF Weaker, PredictedRecall
  <2>4. ASSUME NEW i \in S, NEW j \in S, NEW k \in S, before(i, j), before(j, k)
        PROVE  before(i, k)
    BY <2>1, <2>4 DEF Weaker, PredictedRecall
  <2> HIDE DEF before, R, S
  <2> QED BY <1>2, <2>2, <2>3, <2>4 DEF TotalOrder
<1>4. order = Ordered(S, R)
  <2> DEFINE first(i) == CHOOSE x \in S : Cardinality({r \in S : before(r, x)}) = i - 1
             place(i) == CHOOSE x \in S : Cardinality({r \in S : <<r, x>> \in R}) = i - 1
  <2>1. ASSUME NEW x \in S PROVE {r \in S : before(r, x)} = {r \in S : <<r, x>> \in R}
    <3> HIDE DEF before, R, S
    <3> QED BY <1>2
  <2>2. order = [i \in 1..Cardinality(S) |-> first(i)]
    BY Zenon DEF InOrder
  <2>3. Ordered(S, R) = [i \in 1..Cardinality(S) |-> place(i)]
    BY Zenon DEF Ordered
  <2> HIDE DEF before, R, S, order
  <2>4. \A i : first(i) = place(i)
    BY <2>1
  <2> HIDE DEF first, place
  <2> QED BY <2>2, <2>3, <2>4
<1>5. s = [i \in S |-> rows[order[i]]]
  <2>1. DOMAIN rows = S
    OBVIOUS
  <2>2. s = [i \in DOMAIN rows |-> rows[InOrder(DOMAIN rows, before)[i]]]
    BY Zenon DEF Sorted, WeakestFirst
  <2> QED BY <2>1, <2>2, Zenon
<1> HIDE DEF before, R, order, s
<1>6. Lists(order, S)
  <2> HIDE DEF S
  <2> QED BY <1>1, <1>3, <1>4, OrderedPlaces
<1>7. /\ order \in [S -> S] /\ \A x \in S : \E i \in S : order[i] = x
      /\ \A i, j \in S : order[i] = order[j] => i = j
  BY <1>1, <1>6 DEF Lists
<1>8. \A i \in S : s[i] = rows[order[i]] /\ order[i] \in S
  BY <1>5, <1>7
<1>9. s \in [S -> Cards]
  BY <1>5, <1>7
<1> HIDE DEF S
<1>10. \A j \in S : \E i \in S : s[i] = rows[j]
  BY <1>7, <1>8
<1>11. \A i \in S : \E j \in S : s[i] = rows[j]
  BY <1>8
<1>12. ASSUME \A i, j \in S : rows[i] = rows[j] => i = j,
              NEW i \in S, NEW j \in S, s[i] = s[j]
       PROVE  i = j
  BY <1>7, <1>8, <1>12
<1> QED BY <1>9, <1>10, <1>11, <1>12 DEF S, s, SameRows, Distinct

\* The places due cards get: half of them, and what new ones leave.
FairShare(taken, d, m, limit) ==
  /\ taken \in Nat /\ taken <= d /\ taken <= limit
  /\ taken = d \/ (taken >= limit \div 2 /\ taken >= limit - m)

LEMMA Shares ==
  ASSUME NEW d \in Nat, NEW m \in Nat, NEW limit \in Nat
  PROVE  FairShare(DueTaken(d, m, limit), d, m, limit)
<1> DEFINE half == limit \div 2
           most == Max({half, limit - m})
<1>1. half \in Nat /\ half <= limit
  OBVIOUS
<1> HIDE DEF half
<1>2. most = IF half >= limit - m THEN half ELSE limit - m
  BY <1>1 DEF Max
<1>3. most \in Nat /\ most <= limit /\ most >= half /\ most >= limit - m
  BY <1>1, <1>2
<1>4. DueTaken(d, m, limit) = Min({d, most})
  BY DEF DueTaken, half
<1> HIDE DEF most
<1>5. Min({d, most}) = IF d <= most THEN d ELSE most
  BY <1>3 DEF Min
<1> QED BY <1>1, <1>3, <1>4, <1>5 DEF half, FairShare

\* What the ranking is made of: the due cards D and the new ones N.
Rows(due, taken, new, limit) == First(taken, due) \o First(limit - taken, new)
RowsShare(rows, taken, due, D, N, limit) ==
  /\ rows \in Seq(Cards) /\ Len(rows) <= limit /\ Distinct(rows, Len(rows))
  /\ Len(rows) = limit \/ Len(rows) = Cardinality(D) + Cardinality(N)
  /\ taken \in Nat /\ taken <= Cardinality(D)
  /\ taken = Cardinality(D) \/ taken >= limit \div 2
  /\ \A i \in 1..taken : \E j \in 1..Len(rows) : due[i] = rows[j]
  /\ \A j \in 1..Len(rows) : rows[j] \in D => \E i \in 1..taken : rows[j] = due[i]

LEMMA RowsShared ==
  ASSUME NEW D \in SUBSET Cards, NEW N \in SUBSET Cards, D \cap N = {}, NEW limit \in Nat,
         NEW due, Lists(due, D), NEW new, Lists(new, N),
         NEW taken, taken = DueTaken(Cardinality(D), Cardinality(N), limit)
  PROVE  RowsShare(Rows(due, taken, new, limit), taken, due, D, N, limit)
<1> DEFINE d == Cardinality(D)
           m == Cardinality(N)
           left == limit - taken
           l == IF left <= m THEN left ELSE m
           a == First(taken, due)
           b == First(left, new)
           rows == a \o b
<1>1. /\ d \in Nat /\ due \in [1..d -> D] /\ \A i, j \in 1..d : due[i] = due[j] => i = j
      /\ m \in Nat /\ new \in [1..m -> N] /\ \A i, j \in 1..m : new[i] = new[j] => i = j
  BY DEF Lists
<1> HIDE DEF d, m
<1>2. /\ taken \in Nat /\ taken <= d /\ taken <= limit
      /\ taken = d \/ (taken >= limit \div 2 /\ taken >= limit - m)
  <2>1. taken = DueTaken(d, m, limit)
    BY DEF d, m
  <2>2. FairShare(DueTaken(d, m, limit), d, m, limit)
    BY <1>1, Shares
  <2>3. FairShare(taken, d, m, limit)
    BY <2>1, <2>2, Zenon
  <2> QED BY <2>3 DEF FairShare
<1>3. left \in Nat
  BY <1>2
<1>4. l \in Nat /\ l <= m /\ l <= left /\ (l = m \/ l = left)
  BY <1>1, <1>3
<1> HIDE DEF left, l
<1>5. a \in Seq(D) /\ Len(a) = taken /\ \A i \in 1..taken : a[i] = due[i]
  <2>1. due \in Seq(D) /\ Len(due) = d
    BY <1>1
  <2>2. Opens(First(taken, due), due, D, taken)
    BY <1>2, <2>1, FirstEntries
  <2> QED BY <2>2 DEF Opens
<1>6. b \in Seq(N) /\ Len(b) = l /\ \A i \in 1..l : b[i] = new[i]
  <2>1. new \in Seq(N) /\ Len(new) = m
    BY <1>1
  <2>2. Opens(First(left, new), new, N, l)
    BY <1>3, <1>4, <2>1, FirstEntries
  <2> QED BY <2>2 DEF Opens
<1> HIDE DEF a, b
<1>7. a \in Seq(Cards) /\ b \in Seq(Cards)
  BY <1>5, <1>6
<1>8. /\ rows \in Seq(Cards) /\ Len(rows) = Len(a) + Len(b)
      /\ \A i \in 1..(Len(a) + Len(b)) : rows[i] = IF i <= Len(a) THEN a[i] ELSE b[i - Len(a)]
  BY <1>7, ConcatProperties
<1> HIDE DEF rows
<1>9. /\ rows \in [1..Len(rows) -> Cards] /\ Len(rows) = taken + l
      /\ \A i \in 1..taken : i \in 1..Len(rows) /\ rows[i] = due[i] /\ rows[i] \in D
      /\ \A i \in 1..Len(rows) : ~(i <= taken) =>
           i - taken \in 1..l /\ rows[i] = new[i - taken] /\ rows[i] \in N
  <2>1. Len(rows) = taken + l /\ rows \in [1..Len(rows) -> Cards]
    BY <1>5, <1>6, <1>8
  <2>2. ASSUME NEW i \in 1..taken
        PROVE  i \in 1..Len(rows) /\ rows[i] = due[i] /\ rows[i] \in D
    <3>1. i \in 1..(taken + l) /\ i <= taken /\ i \in 1..d
      BY <1>1, <1>2, <1>4
    <3>2. rows[i] = a[i]
      BY <1>5, <1>6, <1>8, <3>1
    <3> QED BY <1>1, <1>5, <2>1, <3>1, <3>2
  <2>3. ASSUME NEW i \in 1..Len(rows), ~(i <= taken)
        PROVE  i - taken \in 1..l /\ rows[i] = new[i - taken] /\ rows[i] \in N
    <3>1. i - taken \in 1..l /\ i - taken \in 1..m
      BY <1>1, <1>2, <1>4, <2>1, <2>3
    <3>2. rows[i] = b[i - taken]
      BY <1>5, <1>6, <1>8, <2>1, <2>3
    <3> QED BY <1>1, <1>6, <3>1, <3>2
  <2> QED BY <2>1, <2>2, <2>3
<1>10. ASSUME NEW i \in 1..Len(rows), NEW j \in 1..Len(rows), rows[i] = rows[j] PROVE i = j
  <2>1. CASE i <= taken /\ j <= taken
    <3>1. i \in 1..d /\ j \in 1..d /\ i \in 1..taken /\ j \in 1..taken
      BY <1>1, <1>2, <1>9, <2>1
    <3>2. due[i] = due[j]
      BY <1>9, <1>10, <3>1
    <3> QED BY <1>1, <3>1, <3>2
  <2>2. CASE ~(i <= taken) /\ ~(j <= taken)
    <3>1. i - taken \in 1..m /\ j - taken \in 1..m
      BY <1>1, <1>4, <1>9, <2>2
    <3>2. new[i - taken] = new[j - taken]
      BY <1>9, <1>10, <2>2
    <3>3. i - taken = j - taken
      BY <1>1, <3>1, <3>2
    <3> QED BY <1>2, <3>3
  <2>3. CASE i <= taken /\ ~(j <= taken)
    <3>1. i \in 1..taken
      BY <1>2, <2>3
    <3> QED BY <1>9, <1>10, <2>3, <3>1
  <2>4. CASE ~(i <= taken) /\ j <= taken
    <3>1. j \in 1..taken
      BY <1>2, <2>4
    <3> QED BY <1>9, <1>10, <2>4, <3>1
  <2> QED BY <2>1, <2>2, <2>3, <2>4
<1>11. Len(rows) \in Nat /\ Len(rows) <= limit /\ (Len(rows) = limit \/ Len(rows) = d + m)
  BY <1>1, <1>2, <1>4, <1>9 DEF left
<1>12. \A i \in 1..taken : \E j \in 1..Len(rows) : due[i] = rows[j]
  BY <1>9
<1>13. ASSUME NEW j \in 1..Len(rows), rows[j] \in D PROVE \E i \in 1..taken : rows[j] = due[i]
  <2>1. j <= taken
    BY <1>9, <1>13
  <2>2. j \in 1..taken
    BY <1>2, <2>1
  <2> QED BY <1>9, <2>2
<1>14. Distinct(rows, Len(rows))
  BY <1>10 DEF Distinct
<1>15. RowsShare(rows, taken, due, D, N, limit)
  BY <1>2, <1>8, <1>11, <1>12, <1>13, <1>14 DEF d, m, RowsShare
<1>16. rows = Rows(due, taken, new, limit)
  BY DEF rows, a, b, left, Rows
<1> QED BY <1>15, <1>16

\* The rows of a ranking: D are the due cards, and the new ones to be ranked are among N.
RankingHolds(cards, rows, D, new, limit) ==
  LET ranked == Range(rows)
  IN  /\ Cardinality(ranked) = Len(rows) /\ Len(rows) <= limit
      /\ Len(rows) >= Min({limit, Cardinality(D \cup new)})
      /\ Cardinality(ranked \cap D) >= Min({Cardinality(D), limit \div 2})
      /\ \A c \in D \cap ranked, d \in D \ ranked :
           PredictedRecall(cards[c]) <= PredictedRecall(cards[d])

LEMMA RankedRows ==
  ASSUME NEW cards, \A c \in Cards : cards[c].seen \in Nat, NEW limit \in Nat,
         NEW D \in SUBSET Cards, NEW N \in SUBSET Cards, D \cap N = {}, NEW new \in SUBSET N,
         NEW taken, taken = DueTaken(Cardinality(D), Cardinality(N), limit)
  PROVE  RankingHolds(cards,
           WeakestFirst(cards, Rows(ByWeakness(cards, D), taken, ByNumber(N), limit)),
           D, new, limit)
<1> DEFINE d == Cardinality(D)
           m == Cardinality(N)
           due == ByWeakness(cards, D)
           fresh == ByNumber(N)
           raw == Rows(due, taken, fresh, limit)
           k == Len(raw)
           rows == WeakestFirst(cards, raw)
           ranked == Range(rows)
<1>1. /\ Cards \in SUBSET Nat /\ IsFiniteSet(Cards)
      /\ IsFiniteSet(D) /\ IsFiniteSet(N) /\ d \in Nat /\ m \in Nat
  BY ExamAssumption, FS_Subset, FS_CardinalityType
<1>2. /\ Lists(due, D)
      /\ \A i, j \in 1..d : i < j => PredictedRecall(cards[due[i]]) <= PredictedRecall(cards[due[j]])
  BY <1>1, WeaknessOrder
<1>3. Lists(fresh, N)
  <2>1. N \in SUBSET Nat
    BY <1>1
  <2> QED BY <1>1, <2>1, NumbersInOrder
<1> HIDE DEF due, fresh
<1>4. RowsShare(raw, taken, due, D, N, limit)
  BY <1>2, <1>3, RowsShared
<1> HIDE DEF raw
<1>5. /\ raw \in Seq(Cards) /\ k \in Nat /\ k <= limit /\ Distinct(raw, k)
      /\ k = limit \/ k = d + m
      /\ taken \in Nat /\ taken <= d /\ (taken = d \/ taken >= limit \div 2)
      /\ \A i \in 1..taken : \E j \in 1..k : due[i] = raw[j]
      /\ \A j \in 1..k : raw[j] \in D => \E i \in 1..taken : raw[j] = due[i]
  BY <1>4 DEF RowsShare
<1> HIDE DEF d, m, k
<1>6. SameRows(rows, raw, k)
  BY <1>5, SortedRows DEF k
<1> HIDE DEF rows
<1>7. /\ rows \in Seq(Cards) /\ Len(rows) = k /\ Distinct(rows, k)
      /\ ranked = {rows[i] : i \in 1..k}
      /\ \A c : c \in ranked <=> \E j \in 1..k : raw[j] = c
      /\ Cardinality(ranked) = k /\ IsFiniteSet(ranked)
  <2>1. rows \in [1..k -> Cards]
    BY <1>6 DEF SameRows
  <2>2. ranked = {rows[i] : i \in 1..k}
    BY <2>1 DEF Range
  <2>3. rows \in Seq(Cards) /\ Len(rows) = k /\ rows \in Seq(ranked)
    BY <1>5, <2>1, <2>2
  <2>4. \A c : c \in ranked <=> \E j \in 1..k : raw[j] = c
    <3>1. /\ \A j \in 1..k : \E i \in 1..k : rows[i] = raw[j]
          /\ \A i \in 1..k : \E j \in 1..k : rows[i] = raw[j]
      BY <1>6 DEF SameRows
    <3>2. ASSUME NEW c \in ranked PROVE \E j \in 1..k : raw[j] = c
      <4>1. PICK i \in 1..k : rows[i] = c
        BY <2>2
      <4> QED BY <3>1, <4>1
    <3>3. ASSUME NEW j \in 1..k PROVE raw[j] \in ranked
      <4>1. PICK i \in 1..k : rows[i] = raw[j]
        BY <3>1
      <4> QED BY <2>2, <4>1
    <3> HIDE DEF ranked
    <3> QED BY <3>2, <3>3
  <2>5. Distinct(rows, k)
    BY <1>5, <1>6 DEF SameRows
  <2>6. \A t \in ranked : \E i \in 1..k : rows[i] = t
    BY <2>2
  <2> HIDE DEF ranked
  <2>7. Cardinality(ranked) = k /\ IsFiniteSet(ranked)
    BY <2>3, <2>5, <2>6, Enumerated DEF Distinct
  <2> QED BY <2>2, <2>3, <2>4, <2>5, <2>7
<1> HIDE DEF ranked
<1>8. k >= Min({limit, Cardinality(D \cup new)})
  <2> DEFINE u == Cardinality(D \cup new)
  <2>1. u \in Nat /\ u <= d + m
    <3>1. IsFiniteSet(D \cup N) /\ Cardinality(D \cup N) = d + m - Cardinality(D \cap N)
      BY <1>1, FS_Union DEF d, m
    <3>2. Cardinality(D \cap N) = 0
      BY FS_EmptySet
    <3>3. D \cup new \in SUBSET (D \cup N)
      OBVIOUS
    <3>4. IsFiniteSet(D \cup new) /\ u <= Cardinality(D \cup N)
      BY <3>1, <3>3, FS_Subset
    <3>5. u \in Nat
      BY <3>4, FS_CardinalityType
    <3> HIDE DEF u
    <3> QED BY <1>1, <3>1, <3>2, <3>4, <3>5
  <2> HIDE DEF u
  <2>2. Min({limit, u}) = IF limit <= u THEN limit ELSE u
    BY <2>1 DEF Min
  <2>3. k >= Min({limit, u})
    BY <1>1, <1>5, <2>1, <2>2
  <2> QED BY <2>3 DEF u
<1>9. Cardinality(ranked \cap D) >= Min({d, limit \div 2})
  <2> DEFINE X == {due[i] : i \in 1..taken}
             half == limit \div 2
  <2>1. due \in [1..d -> D] /\ \A i, j \in 1..d : due[i] = due[j] => i = j
    BY <1>2 DEF Lists, d
  <2>2. half \in Nat
    OBVIOUS
  <2> HIDE DEF half
  <2>3. \A i \in 1..taken : i \in 1..d
    BY <1>1, <1>5
  <2> DEFINE f == [i \in 1..taken |-> due[i]]
  <2>4. f \in [1..taken -> X] /\ \A t \in X : \E i \in 1..taken : f[i] = t
    OBVIOUS
  <2>5. \A i, j \in 1..taken : f[i] = f[j] => i = j
    BY <2>1, <2>3
  <2>6. X \in SUBSET (ranked \cap D)
    <3> SUFFICES ASSUME NEW i \in 1..taken PROVE due[i] \in ranked /\ due[i] \in D
      OBVIOUS
    <3>1. PICK j \in 1..k : due[i] = raw[j]
      BY <1>5
    <3>2. due[i] \in ranked
      BY <1>7, <3>1
    <3>3. due[i] \in D
      BY <2>1, <2>3
    <3> QED BY <3>2, <3>3
  <2> HIDE DEF X, f
  <2>7. Cardinality(X) = taken
    <3>1. f \in Seq(X) /\ Len(f) = taken
      BY <1>5, <2>4
    <3> QED BY <2>4, <2>5, <3>1, Enumerated
  <2>8. IsFiniteSet(ranked \cap D)
    BY <1>7, FS_Intersection
  <2>9. taken <= Cardinality(ranked \cap D) /\ Cardinality(ranked \cap D) \in Nat
    BY <2>6, <2>7, <2>8, FS_Subset, FS_CardinalityType
  <2>10. Min({d, half}) = IF d <= half THEN d ELSE half
    BY <1>1, <2>2 DEF Min
  <2>11. taken = d \/ taken >= half
    BY <1>5 DEF half
  <2>12. taken >= Min({d, half})
    BY <1>1, <1>5, <2>2, <2>10, <2>11
  <2>13. Min({d, half}) \in Nat
    BY <1>1, <2>2, <2>10
  <2>14. Cardinality(ranked \cap D) >= Min({d, half})
    <3> DEFINE x == Cardinality(ranked \cap D)
               y == Min({d, half})
    <3> HIDE DEF x, y
    <3>1. taken <= x /\ x \in Nat /\ y \in Nat /\ taken >= y
      BY <2>9, <2>12, <2>13 DEF x, y
    <3>2. x >= y
      BY <1>5, <3>1
    <3> QED BY <3>2 DEF x, y
  <2> QED BY <2>14 DEF half
<1>10. ASSUME NEW c \in D \cap ranked, NEW e \in D \ ranked
       PROVE  PredictedRecall(cards[c]) <= PredictedRecall(cards[e])
  <2>1. PICK i \in 1..taken : c = due[i]
    <3>1. PICK j \in 1..k : raw[j] = c
      BY <1>7
    <3>2. raw[j] \in D
      BY <3>1
    <3> QED BY <1>5, <3>1, <3>2
  <2>2. PICK j \in 1..d : e = due[j]
    BY <1>2 DEF Lists, d
  <2>3. ~(j <= taken)
    <3>1. ASSUME j <= taken PROVE FALSE
      <4>1. j \in 1..taken
        BY <1>1, <1>5, <3>1
      <4> QED BY <1>5, <1>7, <2>2, <4>1
    <3> QED BY <3>1
  <2>4. i \in 1..d /\ i < j
    BY <1>1, <1>5, <2>3
  <2> QED BY <1>2, <2>1, <2>2, <2>4
<1>11. RankingHolds(cards, rows, D, new, limit)
  <2>1. Range(rows) = ranked
    BY DEF ranked
  <2> QED BY <1>5, <1>7, <1>8, <1>9, <1>10, <2>1, Zenon DEF RankingHolds, d
<1> QED BY <1>11, Zenon DEF rows, raw, due, fresh

\* DueKeepHalf: in the ranking for the exam day no card appears twice, no place is left
\* empty while there are cards for it, and new cards leave due ones half of the places
\* (the smaller half of an odd number, so none of a single one), which the weakest of
\* them get.
THEOREM DueKept == Spec => []DueKeepHalf
<1>1. IInv => DueKeepHalf
  <2> SUFFICES ASSUME IInv, NEW deck \in Decks, NEW limit \in 1..Cardinality(Cards)
               PROVE  LET cards == col["desktop"].cards
                          rows == DeadlineRetentionWithNew(cards, deck, limit)
                          tree == DeckIdWithChildren(deck)
                          due == {c \in CardsIn(cards, tree) : Due(cards[c], now)}
                          new == {c \in CardsIn(cards, tree) : New(cards[c])}
                      IN  RankingHolds(cards, rows, due, new, limit)
    BY Zenon DEF DueKeepHalf, RankingHolds
  <2> DEFINE cards == col["desktop"].cards
             tree == DeckIdWithChildren(deck)
             due == {c \in CardsIn(cards, tree) : Due(cards[c], now)}
             new == {c \in CardsIn(cards, tree) : New(cards[c])}
             order == ByWeakness(cards, due)
             N == {c \in Cards : /\ {cards[c].did, cards[c].odid} \cap tree # {}
                                 /\ New(cards[c])} \ Range(order)
             taken == DueTaken(Cardinality(due), Cardinality(N), limit)
             rows == WeakestFirst(cards, Rows(order, taken, ByNumber(N), limit))
  <2>1. IsFiniteSet(Cards) /\ limit \in Nat
    <3>1. IsFiniteSet(Cards)
      BY ExamAssumption
    <3> QED BY <3>1
  <2>2. GoodCards(cards)
    BY DesktopCards
  <2> HIDE DEF cards, tree
  <2>3. \A c \in Cards : cards[c].seen \in Nat
    BY <2>2 DEF GoodCards, GoodCard
  <2>4. due \in SUBSET Cards /\ new \in SUBSET Cards /\ due \cap new = {}
        /\ \A c \in new : {cards[c].did, cards[c].odid} \cap tree # {} /\ New(cards[c])
    BY DEF CardsIn, Due, New
  <2> HIDE DEF due, new
  <2>5. Lists(order, due)
    BY <2>1, <2>3, <2>4, WeaknessOrder
  <2> HIDE DEF order
  <2>6. /\ Cardinality(due) \in Nat /\ order \in [1..Cardinality(due) -> due]
        /\ \A s \in due : \E i \in 1..Cardinality(due) : order[i] = s
    BY <2>5 DEF Lists
  <2>7. Range(order) = due
    BY <2>6 DEF Range
  <2>8. N \in SUBSET Cards /\ due \cap N = {} /\ new \in SUBSET N
    BY <2>4, <2>7
  <2>9. Len(order) = Cardinality(due)
    BY <2>6
  <2>10. Len(ByNumber(N)) = Cardinality(N)
    <3>1. N \in SUBSET Nat /\ IsFiniteSet(N)
      BY <2>1, <2>8, ExamAssumption, FS_Subset
    <3> HIDE DEF N
    <3>2. Lists(ByNumber(N), N)
      BY <3>1, NumbersInOrder
    <3> DEFINE n == Cardinality(N)
    <3>3. n \in Nat /\ ByNumber(N) \in [1..n -> N]
      BY <3>2 DEF Lists
    <3> HIDE DEF n
    <3>4. Len(ByNumber(N)) = n
      BY <3>3
    <3> QED BY <3>4 DEF n
  <2>11. DeadlineRetentionWithNew(cards, deck, limit) = rows
    <3>1. DeadlineRetention(cards, deck) = order
      BY Zenon DEF DeadlineRetention, ByWeakness, order, due, tree
    <3>2. DeadlineRetentionWithNew(cards, deck, limit)
            = LET t == DueTaken(Len(order), Len(ByNumber(N)), limit)
              IN  WeakestFirst(cards, Rows(order, t, ByNumber(N), limit))
      BY <3>1, Zenon DEF DeadlineRetentionWithNew, ByNumber, WeakestFirst, Rows, tree
    <3> HIDE DEF N
    <3> QED BY <2>9, <2>10, <3>2
  <2> HIDE DEF N
  <2>12. RankingHolds(cards, rows, due, new, limit)
    BY <2>1, <2>3, <2>4, <2>8, RankedRows, Zenon DEF order
  <2> HIDE DEF rows
  <2>13. RankingHolds(cards, DeadlineRetentionWithNew(cards, deck, limit), due, new, limit)
    BY <2>11, <2>12
  <2> QED BY <2>13 DEF cards, tree, due, new
<1> QED BY <1>1, Invariant, PTL

====
