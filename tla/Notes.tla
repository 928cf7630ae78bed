---- MODULE Notes ----
(***************************************************************************)
(* Notes, the cards made from them, and the notetypes both depend on       *)
(* (notes, notetype, dbcheck.rs), with packages imported from another      *)
(* collection (import_export/package/apkg).                                *)
(*                                                                         *)
(* The fields of a note and the template of a card are known by position   *)
(* only, and a position means what the notetype says at the time.  So each *)
(* content carries, as a ghost, the field it was written in, and each card *)
(* the template it was made from; the code never looks at either.          *)
(*                                                                         *)
(* Positions count from 1, and 0 is None.  A template is reduced to the    *)
(* one field its front shows.                                              *)
(***************************************************************************)
EXTENDS Integers, FiniteSets, Sequences, SequencesExt, FiniteSetsExt

CONSTANTS
  InitialNotetypes,  \* ids to notetypes, the same in both collections
  InitialNotes, InitialCards,
  OpKinds,           \* the operations considered, in either collection
  Merging,           \* the values of merge_notetypes
  Conditions,        \* the pairs of update_notes and update_notetypes
  StaleReports,      \* may a report of empty cards be used after a change?
  IdStep,            \* 999: how far an id that is taken is moved
  MaxOps,            \* bound: operations in the source, in the target
  MaxImports,        \* bound
  MaxItems           \* bound: fields or templates of a notetype

VARIABLES
  col,      \* a collection packages are made of, and one they are imported into
  package,  \* the last package
  report,   \* the empty cards dialog of the second
  aligned,  \* have all merged packages been laid out like the target?
  ops, imports

vars == <<col, package, report, aligned, ops, imports>>

Sides == {"source", "target"}

Empty == 0
NoReport == {}
NoPackage == [nts |-> <<>>, notes |-> <<>>, cards |-> <<>>]

ASSUME IdsAssumption ==
  /\ IdStep \in Nat \ {0}
  /\ DOMAIN InitialNotetypes \subseteq Nat \ {0}
  /\ DOMAIN InitialNotes \subseteq Nat /\ DOMAIN InitialCards \subseteq Nat

----
\* Rows

Fail(k) == [k EXCEPT !.failed = TRUE]
With(f, x, v) == [y \in DOMAIN f \cup {x} |-> IF y = x THEN v ELSE f[y]]
Without(f, S) == [y \in DOMAIN f \ S |-> f[y]]
Fresh(S) == Max(S \cup {0}) + 1
Uniquified(id, taken) ==
  id + IdStep * Min({n \in 0 .. Cardinality(taken) : id + n * IdStep \notin taken})

InAscendingOrder(S) ==
  [i \in 1 .. Cardinality(S) |-> CHOOSE x \in S : Cardinality({y \in S : y <= x}) = i]

NotesOf(k, nt) == {n \in DOMAIN k.notes : k.notes[n].nt = nt}
CardsOf(k, nid) == {c \in DOMAIN k.cards : k.cards[c].nid = nid}
OrdsOf(k, nid) == {k.cards[c].ord : c \in CardsOf(k, nid)}

\* A notetype being edited: every item remembers where it was.
WithOrds(nt) ==
  [fields |-> [i \in DOMAIN nt.fields |-> [id |-> nt.fields[i], ord |-> i]],
   templates |-> [i \in DOMAIN nt.templates |->
                    [id |-> nt.templates[i].id, front |-> nt.templates[i].front,
                     ord |-> i]]]
Stored(layout, mtime, origin) ==
  [fields |-> [i \in DOMAIN layout.fields |-> layout.fields[i].id],
   templates |-> [i \in DOMAIN layout.templates |->
                    [id |-> layout.templates[i].id, front |-> layout.templates[i].front]],
   mtime |-> mtime, origin |-> origin]
Ords(items) == [i \in DOMAIN items |-> items[i].ord]
OrdsChanged(ords, n) == ords # [i \in 1 .. n |-> i]
IndexOf(seq, x) == IF \E i \in DOMAIN seq : seq[i] = x
                   THEN CHOOSE i \in DOMAIN seq : seq[i] = x ELSE 0
Reordered(contents, ords) ==
  [i \in DOMAIN ords |-> IF ords[i] \in DOMAIN contents THEN contents[ords[i]] ELSE Empty]

----
\* Making cards

Filled(nt, note) ==
  {nt.fields[i] : i \in {j \in DOMAIN note.fields \cap DOMAIN nt.fields :
                           note.fields[j] # Empty}}

NewCardsRequired(nt, note, existing, ensureNotEmpty) ==
  LET new == {o \in DOMAIN nt.templates \ existing :
                nt.templates[o].front \in Filled(nt, note)}
  IN  IF ensureNotEmpty /\ existing = {} /\ new = {} THEN {1} ELSE new

GenerateCards(k, nt, nid) ==
  LET new  == NewCardsRequired(nt, k.notes[nid], OrdsOf(k, nid), TRUE)
      last == Max(DOMAIN k.cards \cup {0})
      id(o) == last + Cardinality({p \in new : p <= o})
  IN  [k EXCEPT !.cards =
         [c \in DOMAIN @ \cup {id(o) : o \in new} |->
            IF c \in DOMAIN @ THEN @[c]
            ELSE LET o == CHOOSE p \in new : id(p) = c
                 IN  [nid |-> nid, ord |-> o, made |-> nt.templates[o].id]]]

GenerateAllCards(k, nt, nids) ==
  FoldLeft(LAMBDA acc, nid : GenerateCards(acc, nt, nid), k, InAscendingOrder(nids))

\* Notes that have no card at all are not met here.
GenerateCardsForNotetype(k, id, nt) ==
  GenerateAllCards(k, nt, {n \in NotesOf(k, id) :
                             Cardinality(CardsOf(k, n)) \notin {0, Len(nt.templates)}})

AddNote(k, nt, guid, contents) ==
  LET nid == Fresh(DOMAIN k.notes) IN
  GenerateCards([k EXCEPT !.notes = With(@, nid, [guid |-> guid, nt |-> nt,
                                          fields |-> contents, mtime |-> k.now])],
                k.nts[nt], nid)

UpdateNote(k, nid, contents) ==
  IF contents = k.notes[nid].fields THEN k
  ELSE GenerateCards([k EXCEPT !.notes[nid].fields = contents,
                               !.notes[nid].mtime = k.now],
                     k.nts[k.notes[nid].nt], nid)

\* Faulty variant: the cards stay.
RemoveNotesOnly(k, nids) == [k EXCEPT !.notes = Without(@, nids)]

RemoveNotes(k, nids) ==
  [k EXCEPT !.notes = Without(@, nids),
            !.cards = Without(@, UNION {CardsOf(k, n) : n \in nids})]

RemoveCardsAndOrphanedNotes(k, cids) ==
  LET gone == cids \cap DOMAIN k.cards
      left == [k EXCEPT !.cards = Without(@, gone)]
  IN  RemoveNotes(left, {n \in {k.cards[c].nid : c \in gone} : CardsOf(left, n) = {}})

----
\* Changing a notetype

UpdateNotesForChangedFields(k, id, ords, previousCount) ==
  IF ~OrdsChanged(ords, previousCount) THEN k
  ELSE [k EXCEPT !.notes =
         [n \in DOMAIN @ |-> IF @[n].nt # id THEN @[n]
                             ELSE [@[n] EXCEPT !.fields = Reordered(@, ords),
                                               !.mtime = k.now]]]

\* Faulty variant: a template that takes the place of a removed one keeps its cards.
MovedLate(card, ords) ==
  [card EXCEPT !.ord = IF IndexOf(ords, @) < @ THEN @ ELSE IndexOf(ords, @)]

Moved(card, ords) == [card EXCEPT !.ord = IndexOf(ords, @)]

UpdateCardsForChangedTemplates(k, id, layout, old) ==
  LET ords    == Ords(layout.templates)
      removed == DOMAIN old \ Range(ords)
      mine(c) == k.cards[c].nid \in NotesOf(k, id)
      kept    == {c \in DOMAIN k.cards : ~(mine(c) /\ k.cards[c].ord \in removed)}
      fronts(templates) == [i \in DOMAIN templates |-> <<templates[i].id, templates[i].front>>]
      moved   == [k EXCEPT !.cards =
                    [c \in kept |-> IF mine(c) /\ @[c].ord \in Range(ords)
                                    THEN Moved(@[c], ords) ELSE @[c]]]
  IN  IF 0 \in Range(ords) \/ fronts(layout.templates) # fronts(old)
      THEN GenerateCardsForNotetype(moved, id, Stored(layout, 0, 0)) ELSE moved

\* The front of a template that showed a removed field shows the first one.
FrontsRepaired(layout, original) ==
  LET gone == {original.fields[i] :
                 i \in DOMAIN original.fields \ Range(Ords(layout.fields))}
  IN  [layout EXCEPT !.templates =
         [i \in DOMAIN @ |-> IF @[i].front \in gone
                             THEN [@[i] EXCEPT !.front = layout.fields[1].id] ELSE @[i]]]

\* add_or_update_notetype_with_existing_id_inner
UpdateNotetype(k, id, edited, original, mtime, origin) ==
  LET layout == FrontsRepaired(edited, original)
      notes  == UpdateNotesForChangedFields(k, id, Ords(layout.fields), Len(original.fields))
      cards  == UpdateCardsForChangedTemplates(notes, id, layout, original.templates)
  IN  [cards EXCEPT !.nts = With(@, id, Stored(layout, mtime, origin))]

\* Where the fields and the templates of the new notetype come from; the ghosts
\* take the names given in renamed.
ChangeNotetype(k, nids, old, new, fieldMap, templateMap, renamed) ==
  LET Named(x) == IF x \in DOMAIN renamed THEN renamed[x] ELSE x
      removed  == DOMAIN k.nts[old].templates \ Range(templateMap)
      theirs(c) == k.cards[c].nid \in nids
      kept == {c \in DOMAIN k.cards : ~(theirs(c) /\ k.cards[c].ord \in removed)}
      cards == [c \in kept |->
                  LET card == k.cards[c] IN
                  IF ~theirs(c) THEN card
                  ELSE [card EXCEPT !.ord = IF IndexOf(templateMap, @) = 0 THEN @
                                            ELSE IndexOf(templateMap, @),
                                    !.made = Named(@)]]
      contents(note) == LET moved == Reordered(note.fields, fieldMap)
                        IN  [i \in DOMAIN moved |-> Named(moved[i])]
      notes == [n \in DOMAIN k.notes |->
                  IF n \notin nids THEN k.notes[n]
                  ELSE [k.notes[n] EXCEPT !.fields = contents(k.notes[n]),
                                          !.nt = new, !.mtime = k.now]]
  IN  IF Len(fieldMap) # Len(k.nts[new].fields) THEN Fail(k)
      ELSE GenerateAllCards([k EXCEPT !.cards = cards, !.notes = notes], k.nts[new], nids)

RemoveNotetype(k, id) ==
  LET left == RemoveNotes(k, NotesOf(k, id)) IN [left EXCEPT !.nts = Without(@, {id})]

----
\* The database check, as far as notes are concerned

FixedFieldCount(contents, n) ==
  [i \in 1 .. n |-> IF i \in DOMAIN contents THEN contents[i] ELSE Empty]

\* Faulty variant: of two cards with one template neither goes.
CheckNoteKeeping(k, nid) ==
  LET nt   == k.nts[k.notes[nid].nt]
      bad  == {c \in CardsOf(k, nid) : k.cards[c].ord > Len(nt.templates)}
      note == [k.notes[nid] EXCEPT !.fields = FixedFieldCount(@, Len(nt.fields))]
  IN  GenerateCards([k EXCEPT !.cards = Without(@, bad), !.notes[nid] = note], nt, nid)

CheckNote(k, nid) ==
  LET nt   == k.nts[k.notes[nid].nt]
      bad  == {c \in CardsOf(k, nid) :
                 \/ k.cards[c].ord > Len(nt.templates)
                 \/ \E d \in CardsOf(k, nid) : d < c /\ k.cards[d].ord = k.cards[c].ord}
      note == [k.notes[nid] EXCEPT !.fields = FixedFieldCount(@, Len(nt.fields))]
  IN  GenerateCards([k EXCEPT !.cards = Without(@, bad), !.notes[nid] = note], nt, nid)

CheckDatabase(k) == FoldLeft(CheckNote, k, InAscendingOrder(DOMAIN k.notes))

\* The dialog that offers to delete empty cards
EmptyCards(k) ==
  LET required(n) == NewCardsRequired(k.nts[k.notes[n].nt], k.notes[n], {}, FALSE)
      empty(n)    == {c \in CardsOf(k, n) : k.cards[c].ord \notin required(n)}
  IN  {[cards |-> empty(n), willDeleteNote |-> empty(n) = CardsOf(k, n)] :
         n \in {m \in DOMAIN k.notes : empty(m) # {}}}

\* Faulty variant: the first card of a note is not left.
DeleteEmptyCardsAll(k, entries, keepNotes) ==
  RemoveCardsAndOrphanedNotes(k, UNION {e.cards : e \in entries})

DeleteEmptyCards(k, entries, keepNotes) ==
  RemoveCardsAndOrphanedNotes(k,
    UNION {IF keepNotes /\ e.willDeleteNote THEN e.cards \ {Min(e.cards)} ELSE e.cards :
             e \in entries})

----
\* Merging notetypes: what the other one has is put where the other has it.

Swapped(items, i, j) ==
  [p \in DOMAIN items |-> items[IF p = i THEN j ELSE IF p = j THEN i ELSE p]]

MergedItems(items, others) ==
  FoldLeft(LAMBDA acc, i :
             LET at == {j \in DOMAIN acc : acc[j].id = others[i].id} IN
             IF at = {} THEN InsertAt(acc, i, [others[i] EXCEPT !.ord = 0])
             ELSE Swapped(acc, i, Min(at)),
           items, [i \in DOMAIN others |-> i])

Merge(layout, other) ==
  [fields    |-> MergedItems(layout.fields, other.fields),
   templates |-> MergedItems(layout.templates, other.templates)]

CopyOrds(layout, from) ==
  LET Copied(a, b) == [i \in DOMAIN a |-> [a[i] EXCEPT !.ord = b[i].ord]]
  IN  [fields    |-> Copied(layout.fields, from.fields),
       templates |-> Copied(layout.templates, from.templates)]

SameTemplates(a, b) ==
  LET Ids(templates) == [i \in DOMAIN templates |-> templates[i].id]
  IN  Ids(a.templates) = Ids(b.templates)

SameSchema(a, b) == a.fields = b.fields /\ SameTemplates(a, b)

ShouldUpdate(condition, existing, incoming) ==
  CASE condition = "newer"  -> existing < incoming
    [] condition = "always" -> existing # incoming
    [] condition = "never"  -> FALSE

----
\* Importing a package.  An import in progress has the collection and what it
\* remembers: where notetypes, fields, templates and notes went.

Lookup(f, x, default) == IF x \in DOMAIN f THEN f[x] ELSE default

RecordRemapped(i, id, layout) ==
  LET ords == Ords(layout.templates)
      fields == IF id \notin DOMAIN i.fields THEN Ords(layout.fields)
                ELSE [p \in DOMAIN layout.fields |->
                        LET q == layout.fields[p].ord
                        IN  IF q \in DOMAIN i.fields[id] THEN i.fields[id][q] ELSE 0]
      templates == IF id \notin DOMAIN i.templates
                   THEN [o \in Range(ords) \ {0} |-> IndexOf(ords, o)]
                   ELSE [o \in DOMAIN i.templates[id] |->
                           LET to == i.templates[id][o]
                           IN  IF IndexOf(ords, to) = 0 THEN to ELSE IndexOf(ords, to)]
  IN  [i EXCEPT !.fields = With(@, id, fields), !.templates = With(@, id, templates)]

\* Faulty variant: a duplicate made earlier is not looked for.
UpdateOrDuplicateAgain(i, present, id, incoming, options) ==
  LET twins == {t \in DOMAIN present : SameSchema(present[t], incoming) /\ t = id}
      twin  == IF id \in twins THEN id ELSE Min(twins)
      fresh == Fresh(DOMAIN i.k.nts)
      update == ShouldUpdate(options.notetypes, present[twin].mtime, incoming.mtime)
  IN  IF twins = {}
      THEN [i EXCEPT !.k.nts = With(@, fresh, [incoming EXCEPT !.mtime = i.k.now,
                                                               !.origin = id]),
                     !.notetypes = With(@, id, fresh)]
      ELSE [i EXCEPT !.notetypes = IF twin = id THEN @ ELSE With(@, id, twin),
                     !.k = IF ~update THEN @
                           ELSE UpdateNotetype(@, twin, WithOrds(incoming), present[twin],
                                  IF twin = id THEN incoming.mtime ELSE i.k.now, id)]

UpdateOrDuplicateNotetype(i, present, id, incoming, options) ==
  LET twins == {t \in DOMAIN present : SameSchema(present[t], incoming)
                                       /\ (t = id \/ present[t].origin = id)}
      twin  == IF id \in twins THEN id ELSE Min(twins)
      fresh == Fresh(DOMAIN i.k.nts)
      update == ShouldUpdate(options.notetypes, present[twin].mtime, incoming.mtime)
  IN  IF twins = {}
      THEN [i EXCEPT !.k.nts = With(@, fresh, [incoming EXCEPT !.mtime = i.k.now,
                                                               !.origin = id]),
                     !.notetypes = With(@, id, fresh)]
      ELSE [i EXCEPT !.notetypes = IF twin = id THEN @ ELSE With(@, id, twin),
                     !.k = IF ~update THEN @
                           ELSE UpdateNotetype(@, twin, WithOrds(incoming), present[twin],
                                  IF twin = id THEN incoming.mtime ELSE i.k.now, id)]

\* Duplicates made by earlier imports are merged as well, and dissolved.
MergeNotetype(i, present, id, incoming, options) ==
  LET siblings == InAscendingOrder({t \in DOMAIN present \ {id} : present[t].origin = id})
      all      == FoldLeft(LAMBDA acc, t : Merge(acc, WithOrds(present[t])),
                           WithOrds(present[id]), siblings)
      theirs   == Merge(WithOrds(incoming), all)
      ours     == Merge(all, theirs)
      update   == \/ options.notetypes = "always"
                  \/ /\ options.notetypes = "newer"
                     /\ present[id].mtime < incoming.mtime
      chosen   == IF update THEN CopyOrds(theirs, ours) ELSE ours
      updated  == UpdateNotetype(i.k, id, chosen, present[id], i.k.now,
                                 IF update THEN id ELSE present[id].origin)
      Dissolved(k, t) ==
        LET sibling == Merge(WithOrds(present[t]), chosen)
        IN  ChangeNotetype(k, NotesOf(k, t), t, id, Ords(sibling.fields),
                           Ords(sibling.templates), <<>>)
  IN  [RecordRemapped(i, id, theirs) EXCEPT
         !.k = FoldLeft(Dissolved, updated, siblings),
         !.merged = @ \cup Range(siblings)]

ImportNotetype(i, present, id, incoming, options) ==
  IF id \notin DOMAIN present
  THEN [i EXCEPT !.k.nts = With(@, id, [incoming EXCEPT !.origin = id])]
  ELSE IF options.merge THEN MergeNotetype(i, present, id, incoming, options)
  ELSE UpdateOrDuplicateNotetype(i, present, id, incoming, options)

ImportNotetypes(i, p, options) ==
  FoldLeft(LAMBDA acc, id : ImportNotetype(acc, i.k.nts, id, p.nts[id], options),
           i, InAscendingOrder(DOMAIN p.nts))

SameGuid(notes, guid) == {n \in DOMAIN notes : notes[n].guid = guid}

\* A note here has another notetype than the same note in the package.
NotetypeConflicts(k, p) ==
  LET Pairs(n) == {<<k.notes[n].nt, p.notes[m].nt>> :
                     m \in {m \in DOMAIN p.notes : /\ p.notes[m].guid = k.notes[n].guid
                                                  /\ p.notes[m].nt # k.notes[n].nt}}
  IN  UNION {Pairs(n) : n \in DOMAIN k.notes}

ResolveConflict(i, p, present, conflict) ==
  LET existing == conflict[1]
      incoming == conflict[2]
      original == i.k.nts[existing]
      ours     == Merge(WithOrds(original), WithOrds(i.k.nts[incoming]))
      theirs   == Merge(WithOrds(i.k.nts[incoming]), ours)
      nids     == {n \in DOMAIN present : /\ present[n].nt = existing
                     /\ \E m \in DOMAIN p.notes : /\ p.notes[m].nt = incoming
                                                  /\ p.notes[m].guid = present[n].guid}
      updated  == UpdateNotetype(i.k, incoming, CopyOrds(theirs, ours), original,
                                 i.k.now, i.k.nts[incoming].origin)
  IN  [RecordRemapped(i, incoming, theirs) EXCEPT
         !.k = ChangeNotetype(updated, nids, existing, incoming, Ords(ours.fields),
                              Ords(ours.templates), <<>>),
         !.merged = @ \cup {existing}]

\* The conflicts come from a hash map, in any order; order is one of them.
ResolveConflicts(i, p, order) ==
  FoldLeft(LAMBDA acc, c : ResolveConflict(acc, p, i.k.notes, c), i, order)

ImportNote(i, present, nid, incoming, options) ==
  LET nt     == incoming.nt
      note   == [incoming EXCEPT !.fields = IF nt \in DOMAIN i.fields
                                            THEN Reordered(@, i.fields[nt]) ELSE @,
                                 !.nt = Lookup(i.notetypes, @, @)]
      twins  == SameGuid(present, note.guid)
      twin   == Min(twins)
      target == IF twins = {} THEN Uniquified(nid, DOMAIN i.k.notes) ELSE twin
      noted  == [i EXCEPT !.notes = With(@, nid, target)]
      stored == IF Len(note.fields) # Len(i.k.nts[note.nt].fields)
                THEN [i EXCEPT !.k = Fail(@)]
                ELSE [noted EXCEPT !.k.notes = With(@, target, note)]
  IN  IF twins = {} THEN stored
      ELSE IF ~options.merge /\ note.nt # present[twin].nt THEN i
      ELSE IF ShouldUpdate(options.notes, present[twin].mtime, note.mtime) THEN stored
      ELSE noted

ImportNotes(i, p, options) ==
  FoldLeft(LAMBDA acc, nid : ImportNote(acc, i.k.notes, nid, p.notes[nid], options),
           i, InAscendingOrder(DOMAIN p.notes))

DeleteMergedUnusedNotetypes(i) ==
  [i EXCEPT !.k = FoldLeft(RemoveNotetype, @,
                    InAscendingOrder({t \in i.merged : NotesOf(@, t) = {}}))]

\* The template of a card is looked up by the id the note has HERE.
ImportCard(i, present, p, cid, card) ==
  LET nid == i.notes[card.nid]
      nt  == IF nid \in DOMAIN p.notes THEN p.notes[nid].nt ELSE 0
      ord == Lookup(Lookup(i.templates, nt, <<>>), card.ord, card.ord)
  IN  IF card.nid \notin DOMAIN i.notes \/ <<nid, card.ord>> \in present THEN i
      ELSE [i EXCEPT !.k.cards = With(@, Uniquified(cid, DOMAIN @),
                                      [card EXCEPT !.nid = nid, !.ord = ord])]

ImportCards(i, p) ==
  LET present == {<<i.k.cards[c].nid, i.k.cards[c].ord>> : c \in DOMAIN i.k.cards}
  IN  FoldLeft(LAMBDA acc, c : ImportCard(acc, present, p, c, p.cards[c]),
               i, InAscendingOrder(DOMAIN p.cards))

NewImport(k) == [k |-> k, notetypes |-> <<>>, fields |-> <<>>, templates |-> <<>>,
                 notes |-> <<>>, merged |-> {}]

\* The collections a package may lead to.  A failure undoes it all.
Imported(k, p, options) ==
  LET started == ImportNotetypes(NewImport(k), p, options)
      Orders  == IF options.merge THEN SetToSeqs(NotetypeConflicts(started.k, p)) ELSE {<<>>}
      Finished(order) ==
        ImportCards(DeleteMergedUnusedNotetypes(
          ImportNotes(ResolveConflicts(started, p, order), p, options)), p).k
  IN  {IF Finished(o).failed THEN k ELSE Finished(o) : o \in Orders}

----
\* What may happen

Clock == ops["source"] + ops["target"] + imports + 1

Init ==
  /\ col = [x \in Sides |-> [nts |-> InitialNotetypes, notes |-> InitialNotes,
                             cards |-> InitialCards, now |-> 1, failed |-> FALSE]]
  /\ package = NoPackage /\ report = NoReport /\ aligned = TRUE
  /\ ops = [x \in Sides |-> 0] /\ imports = 0

\* The contents a note may be given: each field is filled or empty.
ContentsOf(nt) ==
  {[i \in DOMAIN nt.fields |-> IF i \in S THEN nt.fields[i] ELSE Empty] :
     S \in SUBSET DOMAIN nt.fields}

\* A list of items with one added, removed or moved.
EditedItems(items, added) ==
  (IF Len(items) < MaxItems THEN {Append(items, a) : a \in added} ELSE {})
  \cup (IF Len(items) > 1 THEN {RemoveAt(items, i) : i \in DOMAIN items} ELSE {})
  \cup {Swapped(items, i, i + 1) : i \in 1 .. Len(items) - 1}

\* What is made now gets an id that nothing had before: a field, a template,
\* the guid of a note.
NewItem == 100 + Clock

EditedLayouts(nt) ==
  LET layout    == WithOrds(nt)
      fields    == {[id |-> NewItem, ord |-> 0]}
      templates == {[id |-> NewItem, front |-> f, ord |-> 0] : f \in Range(nt.fields)}
  IN  (IF "fields" \in OpKinds
       THEN {[layout EXCEPT !.fields = f] : f \in EditedItems(layout.fields, fields)} ELSE {})
      \cup (IF "templates" \in OpKinds
            THEN {[layout EXCEPT !.templates = t] : t \in EditedItems(layout.templates, templates)}
            ELSE {})

\* For each of n new items, the old one it takes the place of, or none.
ItemMaps(n, old) ==
  {f \in [1 .. n -> 0 .. old] : \A i, j \in 1 .. n : f[i] = f[j] /\ f[i] # 0 => i = j}

\* The names that the contents and the cards take on a change of notetype.
NewNames(old, new, fieldMap, templateMap) ==
  LET FieldAt(i)    == old.fields[fieldMap[i]]
      TemplateAt(i) == old.templates[templateMap[i]].id
      fields        == {i \in DOMAIN fieldMap : fieldMap[i] # 0}
      templates     == {i \in DOMAIN templateMap : templateMap[i] # 0}
  IN  [x \in {FieldAt(i) : i \in fields} \cup {TemplateAt(i) : i \in templates} |->
         IF \E i \in fields : FieldAt(i) = x
         THEN new.fields[CHOOSE i \in fields : FieldAt(i) = x]
         ELSE new.templates[CHOOSE i \in templates : TemplateAt(i) = x].id]

\* What the user may make of a collection
EditNotes(k) ==
  UNION {
    IF "add" \in OpKinds
    THEN UNION {{AddNote(k, t, NewItem, c) : c \in ContentsOf(k.nts[t])} : t \in DOMAIN k.nts}
    ELSE {},
    IF "update" \in OpKinds
    THEN UNION {{UpdateNote(k, n, c) : c \in ContentsOf(k.nts[k.notes[n].nt])} :
                  n \in DOMAIN k.notes}
    ELSE {},
    IF "remove" \in OpKinds
    THEN {RemoveNotes(k, {n}) : n \in DOMAIN k.notes}
         \cup {RemoveCardsAndOrphanedNotes(k, {c}) : c \in DOMAIN k.cards}
    ELSE {},
    IF "check" \in OpKinds THEN {CheckDatabase(k)} ELSE {}}

EditNotetypes(k) ==
  UNION {
    UNION {{UpdateNotetype(k, t, layout, k.nts[t], k.now, k.nts[t].origin) :
              layout \in EditedLayouts(k.nts[t])} : t \in DOMAIN k.nts},
    IF "change" \in OpKinds
    THEN UNION {LET old == k.notes[n].nt IN
                UNION {{ChangeNotetype(k, {n}, old, new, f, t,
                                       NewNames(k.nts[old], k.nts[new], f, t)) :
                          f \in ItemMaps(Len(k.nts[new].fields), Len(k.nts[old].fields)),
                          t \in ItemMaps(Len(k.nts[new].templates), Len(k.nts[old].templates))} :
                         new \in DOMAIN k.nts \ {old}} : n \in DOMAIN k.notes}
    ELSE {}}

Edit(x) ==
  /\ ops[x] < MaxOps[x]
  /\ \E k \in LET now == [col[x] EXCEPT !.now = Clock] IN EditNotes(now) \cup EditNotetypes(now) :
       ~k.failed /\ col' = [col EXCEPT ![x] = k]
  /\ ops' = [ops EXCEPT ![x] = @ + 1]
  /\ report' = IF x = "target" /\ ~StaleReports THEN NoReport ELSE report
  /\ UNCHANGED <<package, aligned, imports>>

ShowEmptyCards ==
  /\ "empty" \in OpKinds /\ report = NoReport
  /\ EmptyCards(col["target"]) # {}
  /\ report' = EmptyCards(col["target"])
  /\ UNCHANGED <<col, package, aligned, ops, imports>>

\* The dialog closes; it may have been open while something else was done.
CloseEmptyCards ==
  /\ report # NoReport
  /\ report' = NoReport
  /\ \/ \E keepNotes \in BOOLEAN :
          col' = [col EXCEPT !["target"] = DeleteEmptyCards(@, report, keepNotes)]
     \/ UNCHANGED col
  /\ UNCHANGED <<package, aligned, ops, imports>>

\* All notes of the collection, their notetypes and their cards
Export ==
  LET k == col["source"] IN
  /\ imports < MaxImports
  /\ package' = [nts   |-> [t \in {k.notes[n].nt : n \in DOMAIN k.notes} |-> k.nts[t]],
                 notes |-> k.notes, cards |-> k.cards]
  /\ UNCHANGED <<col, report, aligned, ops, imports>>

Options == {[merge |-> m, notes |-> c[1], notetypes |-> c[2]] : m \in Merging, c \in Conditions}

\* The templates of the package are where the target has them, in a notetype
\* or a duplicate of it, and so are its notes: under the same id and of the
\* same notetype.
Aligned(k, p) ==
  /\ \A t \in DOMAIN p.nts : \A u \in DOMAIN k.nts :
       t = u \/ t = k.nts[u].origin => SameTemplates(p.nts[t], k.nts[u])
  /\ \A m \in DOMAIN p.notes : \A n \in DOMAIN k.notes :
       p.notes[m].guid = k.notes[n].guid => m = n /\ p.notes[m].nt = k.notes[n].nt

Import(options) ==
  /\ package # NoPackage /\ imports < MaxImports
  /\ \E k \in Imported([col["target"] EXCEPT !.now = Clock], package, options) :
       col' = [col EXCEPT !["target"] = k]
  /\ aligned' = (aligned /\ (options.merge => Aligned(col["target"], package)))
  /\ imports' = imports + 1
  /\ report' = IF StaleReports THEN report ELSE NoReport
  /\ UNCHANGED <<package, ops>>

Next == \/ \E x \in Sides : Edit(x)
        \/ ShowEmptyCards \/ CloseEmptyCards
        \/ Export \/ \E options \in Options : Import(options)

Spec == Init /\ [][Next]_vars

----
\* Types

NotetypeRows ==
  [fields : Seq(Nat), templates : Seq([id : Nat, front : Nat]), mtime : Nat, origin : Nat]

\* Every row is of its type and refers to rows there are; a notetype keeps a
\* field and a template, and a note has as many contents as its notetype fields.
TypeOK ==
  /\ (\A x \in Sides : ops[x] \in 0 .. MaxOps[x]) /\ imports \in 0 .. MaxImports
  /\ \A x \in Sides : LET k == col[x] IN
       /\ ~k.failed
       /\ \A t \in DOMAIN k.nts : /\ k.nts[t] \in NotetypeRows
                                /\ k.nts[t].fields # <<>> /\ k.nts[t].templates # <<>>
       /\ \A n \in DOMAIN k.notes :
            /\ k.notes[n].nt \in DOMAIN k.nts
            /\ \A m \in DOMAIN k.notes \ {n} : k.notes[m].guid # k.notes[n].guid
            /\ Len(k.notes[n].fields) = Len(k.nts[k.notes[n].nt].fields)
       /\ \A c \in DOMAIN k.cards :
            k.cards[c].nid \in DOMAIN k.notes /\ k.cards[c].ord \in Nat \ {0}

\* Properties

NotetypeOf(k, nid) == k.nts[k.notes[nid].nt]

\* Whatever was done to the notetype on the way, a card shows the template it was made
\* from, and what was written in a field is found in that field: reordering, adding or
\* removing templates and fields, changing a note's notetype and importing a package
\* each take the cards and the fields along (update_cards_for_changed_templates,
\* remap_template_index, reorder_fields, remap_fields, record_remapped_ords).
NotesFollowTheirNotetype ==
  aligned => \A x \in Sides :
    /\ \A c \in DOMAIN col[x].cards :
         LET card == col[x].cards[c]
             templates == NotetypeOf(col[x], card.nid).templates
         IN  card.ord \in DOMAIN templates /\ templates[card.ord].id = card.made
    /\ \A n \in DOMAIN col[x].notes : \A i \in DOMAIN col[x].notes[n].fields :
         col[x].notes[n].fields[i] \in {Empty, NotetypeOf(col[x], n).fields[i]}

\* No two cards of a note have one template, whatever is imported
\* (new_cards_required, card_ordinal_already_exists).
CardOrdinalsUnique ==
  \A x \in Sides : \A c, d \in DOMAIN col[x].cards :
    col[x].cards[c].nid = col[x].cards[d].nid /\ col[x].cards[c].ord = col[x].cards[d].ord
      => c = d

\* A database check would leave every note with a card, and every card with a
\* template of its own, whatever was imported; and it keeps every note
\* (check_notetypes: cards are removed first, and then made where needed).
CheckRepairs ==
  \A x \in Sides : LET k == CheckDatabase(col[x]) IN
    /\ DOMAIN k.notes = DOMAIN col[x].notes
    /\ \A n \in DOMAIN k.notes :
         /\ OrdsOf(k, n) # {} /\ OrdsOf(k, n) \subseteq DOMAIN NotetypeOf(k, n).templates
         /\ Cardinality(OrdsOf(k, n)) = Cardinality(CardsOf(k, n))

\* Importing the same package again adds no note, no card and no notetype, as
\* long as the first import was of an aligned package or not merged: the
\* duplicates made of notetypes are found again, and so are the notes
\* (get_previously_duplicated_notetype, maybe_update_existing_note).
ReimportAddsNothing ==
  [][\A options \in Options : (imports' > imports /\ aligned' /\ Import(options)) =>
       \A k \in Imported(col'["target"], package, options) :
         /\ DOMAIN k.notes = DOMAIN col'["target"].notes
         /\ DOMAIN k.cards = DOMAIN col'["target"].cards
         /\ DOMAIN k.nts = DOMAIN col'["target"].nts]_vars

\* The dialog would delete no card whose front shows something, and with
\* keep_notes no note (empty_cards_for_notetype, _delete_cards).
EmptyCardsLoseNothing ==
  \A keepNotes \in BOOLEAN :
    LET k    == col["target"]
        left == DeleteEmptyCards(k, report, keepNotes)
    IN  /\ keepNotes => DOMAIN left.notes = DOMAIN k.notes
        /\ \A c \in DOMAIN k.cards \ DOMAIN left.cards :
             LET nid == k.cards[c].nid
             IN  k.cards[c].ord \notin NewCardsRequired(NotetypeOf(k, nid), k.notes[nid], {}, FALSE)
====
