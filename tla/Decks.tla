---- MODULE Decks ----
(***************************************************************************)
(* The deck tree, filtered decks, deck import and the repairs of the       *)
(* database check (decks, scheduler/filtered, dbcheck.rs), in the          *)
(* collections of two devices that sync.  A collection is a record of deck *)
(* rows, card rows and graves; an operation maps a collection to the one   *)
(* it leaves, with failed = TRUE when it returns an error and its          *)
(* transaction is rolled back.                                             *)
(*                                                                         *)
(* A deck name is a sequence of components <<word, suffix>>.  Words that   *)
(* differ in case only fold to the same word.  A suffix is what ensuring a *)
(* unique name ("+") or importing ("*", standing for the time) appends.    *)
(***************************************************************************)
EXTENDS Integers, FiniteSets, Sequences, SequencesExt, FiniteSetsExt

CONSTANTS
  Cards,          \* card ids, natural numbers
  TypedNames,     \* the names the user types
  Fold(_),        \* case folding of a word
  DefaultWord,    \* "Default"
  InitialDecks,   \* deck ids, among them 1, to rows
  InitialCards,   \* cards to [type, due, did]: where and how each card begins
  Packages,       \* decks of packages: sets of [name, kind]
  OpKinds,        \* the operations considered
  Syncing,        \* does the second device take part?
  MaxId,          \* bound: the largest deck id
  MaxOps,         \* bound: operations on each device
  MaxSyncs        \* bound: syncs in all

VARIABLES
  col,      \* each device's collection
  health,   \* "sound", "merged" by a sync, or just "checked"
  ops, syncs

vars == <<col, health, ops, syncs>>

Devices == IF Syncing THEN {1, 2} ELSE {1}
Default == 1

\* Words and cards are numbers that are not deck ids.
ASSUME BoundsAssumption == MaxId \in Nat /\ MaxOps \in Nat /\ MaxSyncs \in Nat
ASSUME DecksAssumption == Default \in DOMAIN InitialDecks /\ Default <= MaxId
ASSUME WordsAssumption ==
  /\ DefaultWord \in Nat /\ DefaultWord > MaxId
  /\ \A name \in TypedNames : \A i \in DOMAIN name : name[i][1] > MaxId
ASSUME CardsAssumption == \A c \in Cards : c \in Nat /\ c > MaxId

----
\* Names

NameSuffixes == Seq({"+", "*"})
Components == Nat \X NameSuffixes
Names == Seq(Components) \ {<<>>}
ASSUME TypedNamesAssumption == TypedNames \subseteq Names

Component(word) == <<word, <<>>>>
Recovered(id) == <<<<id, <<>>>>>>      \* "recovered{did}"

Folded(name) == [i \in DOMAIN name |-> <<Fold(name[i][1]), name[i][2]>>]
Same(m, n) == Folded(m) = Folded(n)
WithSuffix(name, s) ==
  [name EXCEPT ![Len(name)] = <<@[1], Append(@[2], s)>>]
ParentNames(name) == {SubSeq(name, 1, i) : i \in 1 .. Len(name) - 1}
Below(name, parent) == IsStrictPrefix(Folded(parent), Folded(name))

\* name.starts_with(start) of the native strings
StartsWith(name, start) ==
  LET n == Len(start) IN
  /\ n <= Len(name) /\ Front(start) = SubSeq(name, 1, n - 1)
  /\ start[n][1] = name[n][1] /\ IsPrefix(start[n][2], name[n][2])

\* The order of names in the database, as far as it matters: a shorter suffix
\* comes first, and " *" before "+".
ComponentLess(c, d) ==
  \/ c[1] < d[1]
  \/ c[1] = d[1] /\ Len(c[2]) < Len(d[2])
  \/ /\ c[1] = d[1] /\ Len(c[2]) = Len(d[2])
     /\ \E i \in DOMAIN c[2] : /\ SubSeq(c[2], 1, i - 1) = SubSeq(d[2], 1, i - 1)
                              /\ c[2][i] = "*" /\ d[2][i] = "+"
NameLess(m, n) ==
  \/ IsStrictPrefix(m, n)
  \/ \E i \in 1 .. Min({Len(m), Len(n)}) :
       SubSeq(m, 1, i - 1) = SubSeq(n, 1, i - 1) /\ ComponentLess(m[i], n[i])

\* The elements of S as a sequence in the given total order.
InOrder(S, before(_, _)) ==
  [i \in 1 .. Cardinality(S) |->
     CHOOSE s \in S : Cardinality({r \in S : before(r, s)}) = i - 1]

----
\* Deck rows

Kinds == {"normal", "resched", "preview"}
InitialRows == [name : Names, kind : Kinds, mtime : {0}, dirty : {FALSE}]

\* A new collection has a finite number of decks, no two have the same name, and the
\* parents of each are normal decks of it.
ASSUME InitialDecksAssumption ==
  /\ IsFiniteSet(DOMAIN InitialDecks) /\ DOMAIN InitialDecks \subseteq Nat \ {0}
  /\ InitialDecks \in [DOMAIN InitialDecks -> InitialRows]
  /\ \A d, e \in DOMAIN InitialDecks :
       Same(InitialDecks[d].name, InitialDecks[e].name) => d = e
  /\ \A d \in DOMAIN InitialDecks : \A p \in ParentNames(InitialDecks[d].name) :
       \E e \in DOMAIN InitialDecks :
         InitialDecks[e].name = p /\ InitialDecks[e].kind = "normal"

\* Nor have two decks of a package.
ASSUME PackagesAssumption ==
  \A package \in Packages :
    /\ IsFiniteSet(package) /\ package \subseteq [name : Names, kind : Kinds]
    /\ \A p, q \in package : p.name = q.name => p = q

Named(k, name) == {d \in DOMAIN k.decks : Same(k.decks[d].name, name)}
IsFiltered(k, d) == k.decks[d].kind # "normal"
Fail(k) == [k EXCEPT !.failed = TRUE]
Modified(k, row) == [row EXCEPT !.mtime = k.now, !.dirty = TRUE]

\* Faulty variant: nothing is appended.
UniqueNameUnchecked(k, d, name) == name

\* ensure_deck_name_unique: a "+" is appended until the name is free.
UniqueName(k, d, name) ==
  LET Suffixed(n) == [name EXCEPT ![Len(name)] =
                        <<@[1], @[2] \o [i \in 1 .. n |-> "+"]>>]
      Free(n) == Named(k, Suffixed(n)) \subseteq {d}
  IN  Suffixed(Min({n \in 0 .. Cardinality(DOMAIN k.decks) : Free(n)}))

\* The preorder in which child_decks returns the descendants of a name.
ChildDecks(k, name) ==
  InOrder({d \in DOMAIN k.decks : Below(k.decks[d].name, name)},
               LAMBDA d, e : NameLess(k.decks[d].name, k.decks[e].name))

PutDeck(k, d, row) ==
  [k EXCEPT !.decks = [e \in DOMAIN @ \cup {d} |-> IF e = d THEN row ELSE @[e]]]

UpdateRow(k, d, row) ==
  IF Named(k, row.name) \subseteq {d} THEN PutDeck(k, d, row) ELSE Fail(k)

\* A new id is the time, or the one after all others when that is taken.
AllocatedId(k) ==
  IF k.next \in DOMAIN k.decks THEN Max(DOMAIN k.decks) + 1 ELSE k.next

\* add_deck; MaxId bounds how often.
AddRow(k, name, kind) ==
  IF AllocatedId(k) > MaxId THEN Fail(k)
  ELSE [PutDeck(k, AllocatedId(k), Modified(k, [name |-> name, kind |-> kind,
                                                mtime |-> 0, dirty |-> TRUE]))
          EXCEPT !.next = @ + 2]

FirstExistingParent(k, name) ==
  LET existing == {i \in 1 .. Len(name) - 1 : Named(k, SubSeq(name, 1, i)) # {}}
  IN  IF existing = {} THEN {} ELSE Named(k, SubSeq(name, 1, Max(existing)))

CreateMissingParents(k, name) ==
  FoldLeft(LAMBDA acc, p : IF Named(acc, p) # {} THEN acc
                           ELSE AddRow(acc, p, "normal"),
           k, [i \in 1 .. Len(name) - 1 |-> SubSeq(name, 1, Len(name) - i)])

\* The name with its closest existing parent's spelling.
MatchedName(k, name) ==
  LET parent == FirstExistingParent(k, name) IN
  IF parent = {} THEN name
  ELSE LET n == k.decks[CHOOSE d \in parent : TRUE].name
       IN  n \o SubSeq(name, Len(n) + 1, Len(name))

MatchOrCreateParents(k, name) ==
  IF \E d \in FirstExistingParent(k, name) : IsFiltered(k, d) THEN Fail(k)
  ELSE CreateMissingParents(k, MatchedName(k, name))

RenameChildDecks(k, old, new) ==
  FoldLeft(LAMBDA acc, d :
             LET row == acc.decks[d] IN
             UpdateRow(acc, d, Modified(acc, [row EXCEPT !.name =
               new \o SubSeq(@, Len(old) + 1, Len(@))])),
           k, ChildDecks(k, old))

AddDeck(k, name, kind) ==
  LET unique == UniqueName(k, 0, name)
      parented == MatchOrCreateParents(k, unique)
  IN  AddRow(parented, MatchedName(k, unique), kind)

\* Faulty variant: parents are not created after the deck has left its place.
UpdateDeckOnly(k, d, name, kind) ==
  LET original == k.decks[d]
      unique == UniqueName(k, d, name)
      final == MatchedName(k, unique)
      children == RenameChildDecks(MatchOrCreateParents(k, unique),
                                   original.name, final)
  IN  IF unique = original.name /\ kind = original.kind THEN k
      ELSE UpdateRow(children, d,
             Modified(k, [original EXCEPT !.name = final, !.kind = kind]))

UpdateDeck(k, d, name, kind) ==
  LET original == k.decks[d]
      unique == UniqueName(k, d, name)
      renamed == unique # original.name
      final == IF renamed THEN MatchedName(k, unique) ELSE unique
      children == IF ~renamed THEN k
                  ELSE RenameChildDecks(MatchOrCreateParents(k, unique),
                                        original.name, final)
      updated == UpdateRow(children, d,
                   Modified(k, [original EXCEPT !.name = final, !.kind = kind]))
  IN  IF ~renamed /\ kind = original.kind THEN k
      ELSE IF renamed THEN CreateMissingParents(updated, final) ELSE updated

\* The name d gets when it is dropped on target (<<>> for the top level), or
\* its own when nothing is to be done.
ReparentedName(name, target) ==
  IF target # <<>> /\ StartsWith(target, name) /\ target[1] = name[1] THEN name
  ELSE Append(target, Last(name))

ReparentDecks(k, ids, target) ==
  LET Reparent(acc, d) ==
        LET row == acc.decks[d]
            new == ReparentedName(row.name, target)
            unique == UniqueName(acc, d, new)
        IN  IF d \notin DOMAIN acc.decks \/ new = row.name THEN acc
            ELSE UpdateRow(RenameChildDecks(acc, row.name, unique), d,
                           Modified(acc, [row EXCEPT !.name = unique]))
  IN  FoldLeft(Reparent, k, ids)

----
\* Cards and filtered decks

CardTypes == {"new", "learn", "review"}
Dues == {"zero", "number", "timestamp", "position"}

ASSUME InitialCardsAssumption ==
  /\ IsFiniteSet(Cards)
  /\ \A c \in Cards : /\ InitialCards[c].type \in CardTypes /\ InitialCards[c].due \in Dues
                      /\ InitialCards[c].did \in DOMAIN InitialDecks
                      /\ InitialDecks[InitialCards[c].did].kind = "normal"

RestoredQueue(card) ==
  CASE card.type = "learn" -> IF card.due = "timestamp" THEN "learn" ELSE "daylearn"
    [] card.type = "new" -> "new"
    [] card.type = "review" -> "review"

UpdateCard(k, c, card) ==
  [k EXCEPT !.cards[c] = [card EXCEPT !.mtime = k.now, !.dirty = TRUE]]

\* Faulty variant: the queue is taken from the due value in the filtered deck.
RemovedFromFilteredQueueFirst(card) ==
  IF card.odid = 0 THEN card
  ELSE [card EXCEPT !.did = card.odid, !.odid = 0, !.odue = "zero",
          !.due = IF card.odue # "zero" THEN card.odue ELSE @,
          !.queue = IF @ = "held" THEN @ ELSE RestoredQueue(card)]

\* A card goes home with its due value, and its queue from the two (remove_from_filtered_deck_restoring_queue).
RemovedFromFiltered(card) ==
  LET home == [card EXCEPT !.did = card.odid, !.odid = 0,
                 !.due = IF card.odue # "zero" THEN card.odue ELSE @,
                 !.odue = "zero"]
  IN  IF card.odid = 0 THEN card
      ELSE IF card.queue = "held" THEN home
      ELSE [home EXCEPT !.queue = RestoredQueue(home)]

ReturnCards(k, cs) ==
  FoldSet(LAMBDA c, acc : UpdateCard(acc, c, RemovedFromFiltered(acc.cards[c])),
          k, cs)

InDeck(k, d) == {c \in DOMAIN k.cards : d \in {k.cards[c].did, k.cards[c].odid}}

ReturnAllCards(k, d) ==
  IF IsFiltered(k, d) THEN ReturnCards(k, InDeck(k, d)) ELSE Fail(k)

\* The cards a filtered deck's searches may match.
Searchable(k) == {c \in DOMAIN k.cards : k.cards[c].queue # "held"
                                         /\ k.cards[c].odid = 0}

MovedInto(k, d, card) ==
  IF card.odue # "zero" THEN card
  ELSE [card EXCEPT !.odid = card.did, !.did = d, !.odue = card.due,
          !.queue = IF k.decks[d].kind = "preview" THEN "review" ELSE @,
          !.due = IF card.due # "zero" THEN "position" ELSE @]

\* Rebuild d when its searches match found among the searchable cards.
Rebuild(k, d, found) ==
  LET returned == ReturnAllCards(k, d)
  IN  IF ~IsFiltered(k, d) THEN Fail(k)
      ELSE FoldSet(LAMBDA c, acc : UpdateCard(acc, c, MovedInto(acc, d, acc.cards[c])),
                   returned, found \cap Searchable(returned))

AddOrUpdateFilteredDeck(k, d, name, kind, found, allowEmpty) ==
  LET saved == IF d = 0 THEN AddDeck(k, name, kind) ELSE UpdateDeck(k, d, name, kind)
      id == IF d = 0 THEN Max({e \in DOMAIN saved.decks :
                                 e \notin DOMAIN k.decks} \cup {0}) ELSE d
  IN  IF saved.failed \/ id = 0 THEN Fail(k)
      ELSE IF ~allowEmpty /\ found \cap Searchable(ReturnAllCards(saved, id)) = {}
      THEN Fail(k)
      ELSE Rebuild(saved, id, found)

----
\* Removing decks

RemoveCards(k, cs) ==
  [k EXCEPT !.cards = [c \in DOMAIN @ \ cs |-> @[c]], !.graves = @ \cup cs]

\* Faulty variant: a filtered deck's cards are deleted with it.
RemoveSingleDeckWithCards(k, d, row) ==
  LET emptied == RemoveCards(k, InDeck(k, d)) IN
  IF d = Default THEN emptied
  ELSE [emptied EXCEPT !.decks = [e \in DOMAIN @ \ {d} |-> @[e]],
                       !.graves = @ \cup {d}]

\* Faulty variant: the default deck is removed like any other.
RemoveSingleDeckAny(k, d, row) ==
  LET emptied == IF row.kind = "normal" THEN RemoveCards(k, InDeck(k, d))
                 ELSE ReturnCards(k, InDeck(k, d))
  IN  [emptied EXCEPT !.decks = [e \in DOMAIN @ \ {d} |-> @[e]],
                      !.graves = @ \cup {d}]

RemoveSingleDeck(k, d, row) ==
  LET emptied == IF row.kind = "normal" THEN RemoveCards(k, InDeck(k, d))
                 ELSE ReturnCards(k, InDeck(k, d))
  IN  IF d = Default
      THEN UpdateRow(emptied, d, Modified(k, [row EXCEPT !.name =
             UniqueName(emptied, d, <<Component(DefaultWord)>>)]))
      ELSE [emptied EXCEPT !.decks = [e \in DOMAIN @ \ {d} |-> @[e]],
                           !.graves = @ \cup {d}]

RemoveDecks(k, ids) ==
  LET RemoveTree(acc, d) ==
        IF d \notin DOMAIN acc.decks THEN acc
        ELSE FoldLeft(LAMBDA a, e : RemoveSingleDeck(a, e, acc.decks[e]),
                      acc, <<d>> \o ChildDecks(acc, acc.decks[d].name))
  IN  FoldLeft(RemoveTree, k, ids)

----
\* Importing the decks of a package

Reparented(name, renamed) ==
  LET hits == {i \in DOMAIN renamed :
                 Len(name) > Len(renamed[i][1])
                 /\ SubSeq(name, 1, Len(renamed[i][1])) = renamed[i][1]}
  IN  IF hits = {} THEN name
      ELSE renamed[Min(hits)][2]
           \o SubSeq(name, Len(renamed[Min(hits)][1]) + 1, Len(name))

\* acc is [k, renamed]: the collection and renamed_parents.
ImportDeck(acc, deck) ==
  LET k == acc.k
      name == Reparented(deck.name, acc.renamed)
      existing == Named(k, name)
      sameKind == \E d \in existing :
                    IsFiltered(k, d) = (deck.kind # "normal")
      unique == IF existing = {} THEN name ELSE WithSuffix(name, "*")
      renamed == IF existing = {} THEN acc.renamed
                 ELSE Append(acc.renamed, <<name, unique>>)
      ancestor == {d \in FirstExistingParent(k, unique) : IsFiltered(k, d)}
      old == IF ancestor = {} THEN <<>>
             ELSE k.decks[CHOOSE d \in ancestor : TRUE].name
      added == IF ancestor = {} THEN k ELSE AddDeck(k, WithSuffix(old, "*"), "normal")
      moves == IF ancestor = {} THEN renamed
               ELSE Append(renamed, <<old, WithSuffix(old, "*")>>)
      final == IF ancestor = {} THEN unique ELSE Reparented(unique, moves)
  IN  IF sameKind
      THEN LET d == CHOOSE e \in existing : TRUE
               kind == IF IsFiltered(k, d) THEN deck.kind ELSE "normal"
           IN  [acc EXCEPT !.k = UpdateDeck(k, d, k.decks[d].name, kind)]
      ELSE [k |-> AddDeck(added, final, deck.kind), renamed |-> moves]

ImportDecks(k, package) ==
  FoldLeft(ImportDeck, [k |-> k, renamed |-> <<>>],
           InOrder(package, LAMBDA p, q :
             \/ Len(p.name) < Len(q.name)
             \/ Len(p.name) = Len(q.name) /\ NameLess(p.name, q.name))).k

----
\* The database check

RecoverMissingDecks(k) ==
  LET Recover(acc, d) ==
        PutDeck(acc, d, Modified(acc, [name |-> UniqueName(acc, d, Recovered(d)),
                                       kind |-> "normal", mtime |-> 0, dirty |-> TRUE]))
      missing == {k.cards[c].did : c \in DOMAIN k.cards} \ DOMAIN k.decks
  IN  FoldLeft(Recover, k, InOrder(missing, <))

WronglyFiltered(k) ==
  {c \in DOMAIN k.cards : k.cards[c].odid # 0 /\ k.cards[c].did \in DOMAIN k.decks
                         /\ ~IsFiltered(k, k.cards[c].did)}

CheckFilteredCards(k) ==
  [k EXCEPT !.cards = [c \in DOMAIN @ |->
     IF c \in WronglyFiltered(k) THEN [@[c] EXCEPT !.odid = 0, !.odue = "zero"]
     ELSE @[c]]]

\* add_missing_deck_names goes through the names in order, and looks at the
\* immediate parent of each.
AddMissingDeckNames(k) ==
  FoldLeft(LAMBDA acc, d :
             LET parent == Front(k.decks[d].name) IN
             IF parent = <<>> \/ Named(acc, parent) # {} THEN acc
             ELSE AddDeck(acc, parent, "normal"),
           k, InOrder(DOMAIN k.decks,
                LAMBDA d, e : NameLess(k.decks[d].name, k.decks[e].name)))

\* Faulty variant: cards are looked at before missing decks are recovered.
CheckDatabaseCardsFirst(k) ==
  AddMissingDeckNames(RecoverMissingDecks(CheckFilteredCards(k)))

CheckDatabase(k) ==
  AddMissingDeckNames(CheckFilteredCards(RecoverMissingDecks(k)))

----
\* Sync

Dirty(rows) == {i \in DOMAIN rows : rows[i].dirty}

ApplyGraves(k, graves) ==
  [k EXCEPT !.decks = [d \in DOMAIN @ \ graves |-> @[d]],
            !.cards = [c \in DOMAIN @ \ graves |-> @[c]]]

\* Faulty variant: an incoming deck keeps its name.
MergeDecksNamed(k, rows) ==
  LET Merge(acc, d) ==
        IF d \in DOMAIN acc.decks /\ acc.decks[d].mtime > rows[d].mtime THEN acc
        ELSE PutDeck(acc, d, rows[d])
  IN  FoldLeft(Merge, k, InOrder(Dirty(rows), <))

MergeDecks(k, rows) ==
  LET Merge(acc, d) ==
        IF d \in DOMAIN acc.decks /\ acc.decks[d].mtime > rows[d].mtime THEN acc
        ELSE PutDeck(acc, d, [rows[d] EXCEPT !.name = UniqueName(acc, d, @)])
  IN  FoldLeft(Merge, k, InOrder(Dirty(rows), <))

MergeCards(k, rows) ==
  LET newer == {c \in Dirty(rows) : c \notin DOMAIN k.cards
                  \/ ~k.cards[c].dirty \/ k.cards[c].mtime < rows[c].mtime}
  IN  [k EXCEPT !.cards = [c \in DOMAIN @ \cup newer |->
                             IF c \in newer THEN rows[c] ELSE @[c]]]

Clean(rows) == [i \in DOMAIN rows |-> [rows[i] EXCEPT !.mtime = 0, !.dirty = FALSE]]
Synced(k) == [k EXCEPT !.decks = Clean(@), !.cards = Clean(@), !.graves = {}]

\* Graves go both ways first, then the server merges the client's changes and
\* the client the changes the server had.
NormalSync(client, server) ==
  LET c == ApplyGraves(client, server.graves)
      s == ApplyGraves(server, client.graves)
  IN  <<Synced(MergeCards(MergeDecks(c, s.decks), s.cards)),
        Synced(MergeCards(MergeDecks(s, c.decks), c.cards))>>

----
\* The two devices

InitialCollection(x) ==
  [decks |-> InitialDecks,
   cards |-> [c \in Cards |->
     LET start == InitialCards[c] IN
     [did |-> start.did, odid |-> 0, type |-> start.type, due |-> start.due,
      odue |-> "zero", queue |-> RestoredQueue(start), mtime |-> 0, dirty |-> FALSE]],
   graves |-> {}, schema |-> FALSE, failed |-> FALSE, now |-> 0,
   next |-> Max(DOMAIN InitialDecks) + x]

Init ==
  /\ col = [x \in Devices |-> InitialCollection(x)]
  /\ health = [x \in Devices |-> "sound"]
  /\ ops = [x \in Devices |-> 0] /\ syncs = 0

\* The clock: no two operations fall in the same second.
Now == MapThenSumSet(LAMBDA x : ops[x], Devices)

\* Device x performs an operation that succeeds.
Commit(x, k) ==
  /\ ~k.failed /\ [k EXCEPT !.now = 0] # col[x]
  /\ col' = [col EXCEPT ![x] = [k EXCEPT !.now = 0]]
  /\ health' = [health EXCEPT ![x] = IF @ = "sound" THEN @ ELSE "merged"]

Op(x, kind, Do(_)) ==
  /\ kind \in OpKinds /\ ops[x] < MaxOps
  /\ ops' = [ops EXCEPT ![x] = @ + 1]
  /\ Commit(x, Do([col[x] EXCEPT !.now = Now + 1]))
  /\ UNCHANGED syncs

DeckIds(x) == DOMAIN col[x].decks
FilteredIds(x) == {d \in DeckIds(x) : IsFiltered(col[x], d)}
NormalIds(x) == DeckIds(x) \ FilteredIds(x)
FilteredKinds == Kinds \ {"normal"}

AddDeckOp(x) == \E name \in TypedNames :
  Op(x, "add", LAMBDA k : AddDeck(k, name, "normal"))

RenameDeckOp(x) == \E d \in DeckIds(x), name \in TypedNames :
  Op(x, "rename", LAMBDA k : UpdateDeck(k, d, name, k.decks[d].kind))

\* One or two selected decks.
Selections(x) == {<<d>> : d \in DeckIds(x)}
                 \cup {s \in DeckIds(x) \X DeckIds(x) : s[1] < s[2]}

\* Dropping decks on a deck, or on the top level (target = 0).
ReparentDecksOp(x) ==
  \E ids \in Selections(x), target \in NormalIds(x) \cup {0} :
    Op(x, "reparent", LAMBDA k : ReparentDecks(k, ids,
         IF target = 0 THEN <<>> ELSE k.decks[target].name))

RemoveDecksOp(x) == \E ids \in Selections(x) :
  Op(x, "remove", LAMBDA k : RemoveDecks(k, ids))

SaveFilteredDeck(x) ==
  \E d \in FilteredIds(x) \cup {0}, name \in TypedNames, kind \in FilteredKinds,
     found \in SUBSET Cards, allowEmpty \in BOOLEAN :
    /\ allowEmpty => found = {}
    /\ Op(x, "filtered", LAMBDA k :
            AddOrUpdateFilteredDeck(k, d, name, kind, found, allowEmpty))

RebuildFilteredDeck(x) == \E d \in FilteredIds(x), found \in SUBSET Cards :
  Op(x, "filtered", LAMBDA k : Rebuild(k, d, found))

EmptyFilteredDeck(x) == \E d \in FilteredIds(x) :
  Op(x, "filtered", LAMBDA k : ReturnAllCards(k, d))

SetDeck(x) == \E c \in DOMAIN col[x].cards, d \in NormalIds(x) :
  /\ col[x].cards[c].did # d
  /\ Op(x, "card", LAMBDA k :
          UpdateCard(k, c, [RemovedFromFiltered(k.cards[c]) EXCEPT !.did = d]))

\* Suspending and burying, or undoing it.
SuspendCard(x) == \E c \in DOMAIN col[x].cards :
  /\ col[x].cards[c].queue # "held"
  /\ Op(x, "card", LAMBDA k : UpdateCard(k, c, [k.cards[c] EXCEPT !.queue = "held"]))

UnsuspendCard(x) == \E c \in DOMAIN col[x].cards :
  /\ col[x].cards[c].queue = "held"
  /\ Op(x, "card", LAMBDA k :
          UpdateCard(k, c, [k.cards[c] EXCEPT !.queue = RestoredQueue(k.cards[c])]))

\* A previewed card is to be shown again later, or is done with.
Previewed(x) == {c \in DOMAIN col[x].cards : LET card == col[x].cards[c] IN
                   /\ card.odid # 0 /\ card.queue # "held"
                   /\ card.did \in FilteredIds(x)
                   /\ col[x].decks[card.did].kind = "preview"}

PreviewAgain(x) == \E c \in Previewed(x) :
  Op(x, "preview", LAMBDA k : UpdateCard(k, c,
       [k.cards[c] EXCEPT !.queue = "preview", !.due = "timestamp"]))

PreviewDone(x) == \E c \in Previewed(x) :
  Op(x, "preview", LAMBDA k : UpdateCard(k, c, RemovedFromFiltered(k.cards[c])))

ImportPackage(x) == \E package \in Packages :
  Op(x, "import", LAMBDA k : ImportDecks(k, package))

\* check_database; a schema change is marked when cards were fixed.
DatabaseCheck(x) ==
  LET k == [col[x] EXCEPT !.now = Now]
      checked == [CheckDatabase(k) EXCEPT !.now = 0,
                    !.schema = @ \/ WronglyFiltered(RecoverMissingDecks(k)) # {}]
  IN  /\ health[x] = "merged"
      /\ ~checked.failed
      /\ col' = [col EXCEPT ![x] = checked]
      /\ health' = [health EXCEPT ![x] = "checked"]
      /\ UNCHANGED <<ops, syncs>>

\* Device 1 syncs with device 2: by merging, or with a full upload or download
\* when the schema of one changed.
Sync ==
  /\ Syncing /\ syncs < MaxSyncs /\ syncs' = syncs + 1
  /\ health' = [x \in Devices |-> "merged"]
  /\ UNCHANGED ops
  /\ LET merged == NormalSync(col[1], col[2])
         Copy(from, to) == [Synced(col[from]) EXCEPT !.next = col[to].next,
                                                     !.schema = FALSE]
     IN  \/ /\ ~col[1].schema /\ ~col[2].schema
            /\ col' = [x \in Devices |-> merged[x]]
         \/ \E x \in Devices :
              /\ col[1].schema \/ col[2].schema
              /\ col' = [y \in Devices |-> Copy(x, y)]

Operate(x) ==
  \/ AddDeckOp(x) \/ RenameDeckOp(x) \/ ReparentDecksOp(x) \/ RemoveDecksOp(x)
  \/ SaveFilteredDeck(x) \/ RebuildFilteredDeck(x) \/ EmptyFilteredDeck(x)
  \/ SetDeck(x) \/ SuspendCard(x) \/ UnsuspendCard(x)
  \/ PreviewAgain(x) \/ PreviewDone(x) \/ ImportPackage(x)
  \/ DatabaseCheck(x)

Next == Sync \/ \E x \in Devices : Operate(x)

Spec == Init /\ [][Next]_vars

----
\* Types

DeckRows == [name : Names, kind : Kinds,
             mtime : 0 .. 2 * MaxOps, dirty : BOOLEAN]
CardRows == [did : 1 .. MaxId, odid : 0 .. MaxId, type : CardTypes,
             queue : {"new", "learn", "daylearn", "review", "preview", "held"},
             due : Dues, odue : Dues, mtime : 0 .. 2 * MaxOps, dirty : BOOLEAN]

\* Every row is of its type, the default deck always exists, names are at
\* least one component long, and no deleted object is still there.
TypeOK ==
  /\ ops \in [Devices -> 0 .. MaxOps] /\ syncs \in 0 .. MaxSyncs
  /\ health \in [Devices -> {"sound", "merged", "checked"}]
  /\ \A x \in Devices : LET k == col[x] IN
       /\ DOMAIN k.decks \subseteq 1 .. MaxId /\ Default \in DOMAIN k.decks
       /\ \A d \in DOMAIN k.decks : k.decks[d] \in DeckRows
       /\ DOMAIN k.cards \subseteq Cards
       /\ \A c \in DOMAIN k.cards : k.cards[c] \in CardRows
       /\ k.graves \cap (DOMAIN k.decks \cup DOMAIN k.cards) = {}
       /\ ~k.failed /\ k.schema \in BOOLEAN

\* Properties

\* In a collection that has not merged another's changes, each deck's parents
\* exist, are spelled as in its name, and are not filtered decks: adding,
\* renaming, dragging, removing and importing decks together keep the tree
\* (match_or_create_parents, rename_child_decks, create_missing_parents).
TreeSound ==
  \A x \in Devices : health[x] = "sound" =>
    \A d \in DeckIds(x) : \A p \in ParentNames(col[x].decks[d].name) :
      \E e \in NormalIds(x) : col[x].decks[e].name = p

\* No two decks have the same name, whatever was merged or repaired
\* (ensure_deck_name_unique and the unique index it must not run into).
NamesUnique ==
  \A x \in Devices : \A d, e \in DeckIds(x) :
    Same(col[x].decks[d].name, col[x].decks[e].name) => d = e

\* Without merging, a card is in an existing deck; it has a home deck elsewhere
\* exactly while it is in a filtered deck; and once back home it has the due
\* value and the queue it left with, whatever was done to its filtered deck
\* (remove_from_filtered_deck_restoring_queue, remove_single_deck).
CardsReturnHome ==
  \A x \in Devices : health[x] = "sound" =>
    \A c \in DOMAIN col[x].cards : LET card == col[x].cards[c] IN
      IF card.odid # 0
      THEN card.did \in FilteredIds(x) /\ card.odid \in NormalIds(x)
      ELSE /\ card.did \in NormalIds(x)
           /\ card.due = InitialCards[c].due /\ card.odue = "zero"
           /\ card.queue \in {"held", RestoredQueue(card)}

\* Right after a database check no card is in a missing deck, no deck lacks its
\* parent, and no card is in a normal deck but marked as filtered, whatever a
\* sync merged (check_database_inner: decks are recovered before cards and
\* names are looked at).
CheckRepairs ==
  \A x \in Devices : health[x] = "checked" => LET k == col[x] IN
    /\ \A c \in DOMAIN k.cards :
         /\ k.cards[c].did \in DeckIds(x)
         /\ k.cards[c].odid # 0 => IsFiltered(k, k.cards[c].did)
    /\ \A d \in DeckIds(x) : Len(k.decks[d].name) > 1 =>
         Named(k, Front(k.decks[d].name)) # {}

\* Only removing a card's home deck removes the card: a filtered deck that is
\* removed, emptied or rebuilt gives its cards back
\* (remove_decks_and_child_decks).
CardsGoWithTheirHome ==
  [][\A x \in Devices : health[x] = "sound" /\ health'[x] = "sound" =>
       \A c \in DOMAIN col[x].cards \ DOMAIN col'[x].cards :
         LET card == col[x].cards[c]
             home == IF card.odid # 0 THEN card.odid ELSE card.did
         IN  home = Default \/ home \notin DOMAIN col'[x].decks]_vars
====
