---- MODULE CollectionSync_proofs ----
(***************************************************************************)
(* Theorems about CollectionSync, for any clients, objects and chunk size: *)
(* its types, and what a sync achieves.                                    *)
(***************************************************************************)
EXTENDS CollectionSync, FiniteSetTheorems, WellFoundedInduction, TLAPS

Tables(S, entry) == UNION {[T -> entry] : T \in SUBSET S}
Row(usns) == [edit : Nat, usn : usns]
Grave(usns) == [usn : usns]
LoggedReview(usns) == [card : Cards, usn : usns]
Rows(usns) == Tables(Ids, Row(usns))
Graves(usns) == Tables(Ids, Grave(usns))
Reviews(usns) == Tables(Nat, LoggedReview(usns))
Collections(usns) ==
  [rows : Rows(usns), graves : Graves(usns), revlog : Reviews(usns),
   conf : Nat, usn : Nat, mod : Nat, scm : Nat]
IdSets == SUBSET Ids
Sessions == [phase : Phases, meta : Metas, graves : SUBSET Ids, ids : ChunkIds]
Servings == [skey : Parties, client_usn : Nat, client_is_newer : BOOLEAN,
             listed : BOOLEAN, ids : ChunkIds]

\* The ids listed for the chunks are those of objects that are there.
Within(ids, d) ==
  /\ ids.revlog \subseteq DOMAIN d.revlog
  /\ ids.cards \cup ids.notes \subseteq DOMAIN d.rows
ListsInv ==
  \A c \in Clients :
    /\ session[c].phase \in {"graves", "changes"} /\ Serving(c) => ~ serving.listed
    /\ session[c].phase = "send" => Within(session[c].ids, db[c])
    /\ session[c].phase = "receive" /\ Serving(c) /\ serving.listed =>
         Within(serving.ids, db[Server])

\* The inductive invariant behind TypeOK.
TypeInv ==
  /\ db \in [Parties -> Collections(Usns)] /\ db[Server] \in Collections(Nat)
  /\ committed \in [Parties -> Collections(Usns)] /\ committed[Server] \in Collections(Nat)
  /\ session \in [Clients -> Sessions]
  /\ serving \in Servings
  /\ now \in Nat
  /\ ListsInv

---------------------------------------------------------------------------
(* Tables. *)

\* What a table is made of.
LEMMA TableEntries ==
  ASSUME NEW S, NEW E, NEW t \in Tables(S, E)
  PROVE  /\ DOMAIN t \subseteq S
         /\ \A i \in DOMAIN t : t[i] \in E
         /\ t = [i \in DOMAIN t |-> t[i]]
BY DEF Tables

\* A function with the right domain and the right entries is a table.
LEMMA IsTable ==
  ASSUME NEW S, NEW E, NEW t, DOMAIN t \subseteq S, t = [i \in DOMAIN t |-> t[i]],
         \A i \in DOMAIN t : t[i] \in E
  PROVE  t \in Tables(S, E)
<1>1. t \in [DOMAIN t -> E]
  OBVIOUS
<1> QED BY <1>1 DEF Tables

\* A table laid over another.
LEMMA OverTable ==
  ASSUME NEW S, NEW E, NEW t \in Tables(S, E), NEW o \in Tables(S, E)
  PROVE  /\ Over(t, o) \in Tables(S, E)
         /\ DOMAIN Over(t, o) = DOMAIN t \cup DOMAIN o
         /\ \A i \in DOMAIN t : Over(t, o)[i] = t[i]
         /\ \A i \in DOMAIN o \ DOMAIN t : Over(t, o)[i] = o[i]
<1>1. /\ DOMAIN Over(t, o) = DOMAIN t \cup DOMAIN o
      /\ \A i \in DOMAIN t : Over(t, o)[i] = t[i]
      /\ \A i \in DOMAIN o \ DOMAIN t : Over(t, o)[i] = o[i]
      /\ Over(t, o) = [i \in DOMAIN Over(t, o) |-> Over(t, o)[i]]
  BY DEF Over
<1>2. /\ DOMAIN t \subseteq S /\ \A i \in DOMAIN t : t[i] \in E
      /\ DOMAIN o \subseteq S /\ \A i \in DOMAIN o : o[i] \in E
  BY TableEntries
<1>3. \A i \in DOMAIN Over(t, o) : Over(t, o)[i] \in E
  BY <1>1, <1>2
<1> QED BY <1>1, <1>2, <1>3, IsTable

\* Part of a table.
LEMMA RestrictTable ==
  ASSUME NEW S, NEW E, NEW t \in Tables(S, E), NEW T, T \subseteq DOMAIN t
  PROVE  /\ Restrict(t, T) \in Tables(S, E)
         /\ DOMAIN Restrict(t, T) = T
         /\ \A i \in T : Restrict(t, T)[i] = t[i]
<1>1. /\ DOMAIN Restrict(t, T) = T
      /\ \A i \in T : Restrict(t, T)[i] = t[i]
      /\ Restrict(t, T) = [i \in DOMAIN Restrict(t, T) |-> Restrict(t, T)[i]]
  BY DEF Restrict
<1>2. DOMAIN t \subseteq S /\ \A i \in DOMAIN t : t[i] \in E
  BY TableEntries
<1>3. \A i \in DOMAIN Restrict(t, T) : Restrict(t, T)[i] \in E
  BY <1>1, <1>2
<1> QED BY <1>1, <1>2, <1>3, IsTable

\* A table of one kind of entry.
LEMMA UniformTable ==
  ASSUME NEW S, NEW E, NEW T, T \subseteq S, NEW e \in E
  PROVE  /\ [i \in T |-> e] \in Tables(S, E)
         /\ DOMAIN [i \in T |-> e] = T
         /\ \A i \in T : [j \in T |-> e][i] = e
BY DEF Tables

\* A table with nothing in it.
LEMMA EmptyTable ==
  ASSUME NEW S, NEW E
  PROVE  <<>> \in Tables(S, E) /\ DOMAIN <<>> = {}
<1>1. DOMAIN <<>> = {} /\ <<>> = [i \in DOMAIN <<>> |-> <<>>[i]]
  OBVIOUS
<1> QED BY <1>1, IsTable

\* Stamping changes the usn of some entries and nothing else.
WithUsn(entry, usn) == [entry EXCEPT !.usn = usn]

\* Stamping a table changes the numbers of the rows stamped, and nothing else.
LEMMA StampedTable ==
  ASSUME NEW S, NEW E, NEW F, NEW t \in Tables(S, E), NEW ids, NEW usn,
         \A e \in E : WithUsn(e, usn) \in F,
         \A i \in DOMAIN t \ ids : t[i] \in F
  PROVE  /\ Stamped(t, ids, usn) \in Tables(S, F)
         /\ DOMAIN Stamped(t, ids, usn) = DOMAIN t
         /\ \A i \in DOMAIN t \cap ids : Stamped(t, ids, usn)[i] = WithUsn(t[i], usn)
         /\ \A i \in DOMAIN t \ ids : Stamped(t, ids, usn)[i] = t[i]
<1> DEFINE w == Stamped(t, ids, usn)
<1>1. /\ DOMAIN w = DOMAIN t /\ w = [i \in DOMAIN w |-> w[i]]
      /\ \A i \in DOMAIN t \cap ids : w[i] = WithUsn(t[i], usn)
      /\ \A i \in DOMAIN t \ ids : w[i] = t[i]
  BY DEF Stamped, WithUsn
<1>2. DOMAIN t \subseteq S /\ \A i \in DOMAIN t : t[i] \in E
  BY TableEntries
<1> HIDE DEF w
<1>3. \A i \in DOMAIN w : w[i] \in F
  BY <1>1, <1>2
<1>4. w \in Tables(S, F)
  BY <1>1, <1>2, <1>3, IsTable
<1> QED BY <1>1, <1>4 DEF w

\* The same for the three kinds of tables: the other fields stay.
LEMMA StampedRows ==
  ASSUME NEW usns, NEW more, NEW t \in Rows(more), NEW ids, NEW usn \in usns,
         \A i \in DOMAIN t \ ids : t[i].usn \in usns
  PROVE  /\ Stamped(t, ids, usn) \in Rows(usns)
         /\ DOMAIN Stamped(t, ids, usn) = DOMAIN t
         /\ \A i \in DOMAIN t : Stamped(t, ids, usn)[i].edit = t[i].edit
         /\ \A i \in DOMAIN t \cap ids : Stamped(t, ids, usn)[i].usn = usn
         /\ \A i \in DOMAIN t \ ids : Stamped(t, ids, usn)[i] = t[i]
<1>1. \A i \in DOMAIN t : t[i] \in Row(more)
  BY TableEntries DEF Rows
<1>2. \A e \in Row(more) : WithUsn(e, usn) \in Row(usns)
  BY DEF Row, WithUsn
<1>3. \A i \in DOMAIN t \ ids : t[i] \in Row(usns)
  BY <1>1 DEF Row
<1>4. /\ Stamped(t, ids, usn) \in Rows(usns)
      /\ DOMAIN Stamped(t, ids, usn) = DOMAIN t
      /\ \A i \in DOMAIN t \cap ids : Stamped(t, ids, usn)[i] = WithUsn(t[i], usn)
      /\ \A i \in DOMAIN t \ ids : Stamped(t, ids, usn)[i] = t[i]
  BY <1>1, <1>2, <1>3, StampedTable DEF Rows
<1> QED BY <1>1, <1>4 DEF Row, WithUsn

\* The same for the review log.
LEMMA StampedReviews ==
  ASSUME NEW usns, NEW more, NEW t \in Reviews(more), NEW ids, NEW usn \in usns,
         \A i \in DOMAIN t \ ids : t[i].usn \in usns
  PROVE  /\ Stamped(t, ids, usn) \in Reviews(usns)
         /\ DOMAIN Stamped(t, ids, usn) = DOMAIN t
         /\ \A i \in DOMAIN t \cap ids : Stamped(t, ids, usn)[i].usn = usn
         /\ \A i \in DOMAIN t \ ids : Stamped(t, ids, usn)[i] = t[i]
<1>1. \A i \in DOMAIN t : t[i] \in LoggedReview(more)
  BY TableEntries DEF Reviews
<1>2. \A e \in LoggedReview(more) : WithUsn(e, usn) \in LoggedReview(usns)
  BY DEF LoggedReview, WithUsn
<1>3. \A i \in DOMAIN t \ ids : t[i] \in LoggedReview(usns)
  BY <1>1 DEF LoggedReview
<1>4. /\ Stamped(t, ids, usn) \in Reviews(usns)
      /\ DOMAIN Stamped(t, ids, usn) = DOMAIN t
      /\ \A i \in DOMAIN t \cap ids : Stamped(t, ids, usn)[i] = WithUsn(t[i], usn)
      /\ \A i \in DOMAIN t \ ids : Stamped(t, ids, usn)[i] = t[i]
  BY <1>1, <1>2, <1>3, StampedTable DEF Reviews
<1> QED BY <1>1, <1>4 DEF LoggedReview, WithUsn

\* The same for the graves.
LEMMA StampedGraves ==
  ASSUME NEW usns, NEW more, NEW t \in Graves(more), NEW ids, NEW usn \in usns,
         \A i \in DOMAIN t \ ids : t[i].usn \in usns
  PROVE  /\ Stamped(t, ids, usn) \in Graves(usns)
         /\ DOMAIN Stamped(t, ids, usn) = DOMAIN t
         /\ \A i \in DOMAIN t \cap ids : Stamped(t, ids, usn)[i].usn = usn
         /\ \A i \in DOMAIN t \ ids : Stamped(t, ids, usn)[i] = t[i]
<1>1. \A i \in DOMAIN t : t[i] \in Grave(more)
  BY TableEntries DEF Graves
<1>2. \A e \in Grave(more) : WithUsn(e, usn) \in Grave(usns)
  BY DEF Grave, WithUsn
<1>3. \A i \in DOMAIN t \ ids : t[i] \in Grave(usns)
  BY <1>1 DEF Grave
<1>4. /\ Stamped(t, ids, usn) \in Graves(usns)
      /\ DOMAIN Stamped(t, ids, usn) = DOMAIN t
      /\ \A i \in DOMAIN t \cap ids : Stamped(t, ids, usn)[i] = WithUsn(t[i], usn)
      /\ \A i \in DOMAIN t \ ids : Stamped(t, ids, usn)[i] = t[i]
  BY <1>1, <1>2, <1>3, StampedTable DEF Graves
<1> QED BY <1>1, <1>4 DEF Grave, WithUsn

---------------------------------------------------------------------------
(* Collections and what merging makes of them. *)

\* The parts of a collection and their types.
LEMMA CollectionTables ==
  ASSUME NEW usns, NEW d \in Collections(usns)
  PROVE  /\ d.rows \in Rows(usns) /\ d.graves \in Graves(usns) /\ d.revlog \in Reviews(usns)
         /\ DOMAIN d.rows \subseteq Ids /\ DOMAIN d.graves \subseteq Ids
         /\ DOMAIN d.revlog \subseteq Nat
         /\ \A i \in DOMAIN d.rows : d.rows[i].edit \in Nat /\ d.rows[i].usn \in usns
         /\ \A i \in DOMAIN d.graves : d.graves[i].usn \in usns
         /\ \A r \in DOMAIN d.revlog : d.revlog[r].card \in Cards /\ d.revlog[r].usn \in usns
         /\ d.conf \in Nat /\ d.usn \in Nat /\ d.mod \in Nat /\ d.scm \in Nat
<1>1. d.rows \in Rows(usns) /\ d.graves \in Graves(usns) /\ d.revlog \in Reviews(usns)
  BY DEF Collections
<1>2. DOMAIN d.rows \subseteq Ids /\ \A i \in DOMAIN d.rows : d.rows[i] \in Row(usns)
  BY <1>1, TableEntries DEF Rows
<1>3. DOMAIN d.graves \subseteq Ids /\ \A i \in DOMAIN d.graves : d.graves[i] \in Grave(usns)
  BY <1>1, TableEntries DEF Graves
<1>4. /\ DOMAIN d.revlog \subseteq Nat
      /\ \A r \in DOMAIN d.revlog : d.revlog[r] \in LoggedReview(usns)
  BY <1>1, TableEntries DEF Reviews
<1> QED BY <1>1, <1>2, <1>3, <1>4 DEF Collections, Row, Grave, LoggedReview

\* The server's collection is one a client might have.
LEMMA Widened ==
  ASSUME NEW usns, NEW more, usns \subseteq more
  PROVE  /\ Rows(usns) \subseteq Rows(more) /\ Graves(usns) \subseteq Graves(more)
         /\ Reviews(usns) \subseteq Reviews(more)
         /\ Collections(usns) \subseteq Collections(more)
<1>1. Rows(usns) \subseteq Rows(more)
  <2> SUFFICES ASSUME NEW t \in Rows(usns) PROVE t \in Rows(more)
    OBVIOUS
  <2>1. /\ DOMAIN t \subseteq Ids /\ t = [i \in DOMAIN t |-> t[i]]
        /\ \A i \in DOMAIN t : t[i] \in Row(usns)
    BY TableEntries DEF Rows
  <2>2. \A i \in DOMAIN t : t[i] \in Row(more)
    BY <2>1 DEF Row
  <2> QED BY <2>1, <2>2, IsTable DEF Rows
<1>2. Graves(usns) \subseteq Graves(more)
  <2> SUFFICES ASSUME NEW t \in Graves(usns) PROVE t \in Graves(more)
    OBVIOUS
  <2>1. /\ DOMAIN t \subseteq Ids /\ t = [i \in DOMAIN t |-> t[i]]
        /\ \A i \in DOMAIN t : t[i] \in Grave(usns)
    BY TableEntries DEF Graves
  <2>2. \A i \in DOMAIN t : t[i] \in Grave(more)
    BY <2>1 DEF Grave
  <2> QED BY <2>1, <2>2, IsTable DEF Graves
<1>3. Reviews(usns) \subseteq Reviews(more)
  <2> SUFFICES ASSUME NEW t \in Reviews(usns) PROVE t \in Reviews(more)
    OBVIOUS
  <2>1. /\ DOMAIN t \subseteq Nat /\ t = [i \in DOMAIN t |-> t[i]]
        /\ \A i \in DOMAIN t : t[i] \in LoggedReview(usns)
    BY TableEntries DEF Reviews
  <2>2. \A i \in DOMAIN t : t[i] \in LoggedReview(more)
    BY <2>1 DEF LoggedReview
  <2> QED BY <2>1, <2>2, IsTable DEF Reviews
<1> QED BY <1>1, <1>2, <1>3 DEF Collections

\* Applying graves.
LEMMA ApplyGravesFields ==
  ASSUME NEW usns, NEW d \in Collections(usns), NEW ids \in IdSets, NEW usn \in usns
  PROVE  LET e == ApplyGraves(d, ids, usn)
         IN /\ e \in Collections(usns)
            /\ DOMAIN e.rows = DOMAIN d.rows \ ids
            /\ \A i \in DOMAIN d.rows \ ids : e.rows[i] = d.rows[i]
            /\ DOMAIN e.graves = DOMAIN d.graves \cup ids
            /\ \A i \in DOMAIN d.graves : e.graves[i] = d.graves[i]
            /\ \A i \in ids \ DOMAIN d.graves : e.graves[i].usn = usn
            /\ e.revlog = d.revlog /\ e.conf = d.conf
            /\ e.usn = d.usn /\ e.mod = d.mod /\ e.scm = d.scm
<1> DEFINE rows == Restrict(d.rows, DOMAIN d.rows \ ids)
           new == [i \in ids |-> [usn |-> usn]]
           graves == Over(d.graves, new)
           e == ApplyGraves(d, ids, usn)
<1>1. e = [d EXCEPT !.rows = rows, !.graves = graves]
  BY DEF ApplyGraves
<1>2. /\ rows \in Rows(usns) /\ DOMAIN rows = DOMAIN d.rows \ ids
      /\ \A i \in DOMAIN d.rows \ ids : rows[i] = d.rows[i]
  <2>1. d.rows \in Rows(usns)
    BY CollectionTables
  <2> QED BY <2>1, RestrictTable DEF Rows
<1>3. /\ new \in Graves(usns) /\ DOMAIN new = ids /\ \A i \in ids : new[i].usn = usn
  <2> DEFINE grave == [usn |-> usn]
  <2>1. grave \in Grave(usns) /\ grave.usn = usn
    BY DEF Grave
  <2>2. new = [i \in ids |-> grave]
    OBVIOUS
  <2>3. DOMAIN new = ids /\ \A i \in ids : new[i] = grave
    BY <2>2
  <2> HIDE DEF grave, new
  <2>4. new \in Tables(Ids, Grave(usns))
    BY <2>1, <2>2, <2>3, IsTable DEF IdSets
  <2> QED BY <2>1, <2>3, <2>4 DEF Graves
<1> HIDE DEF rows, new
<1>4. /\ graves \in Graves(usns) /\ DOMAIN graves = DOMAIN d.graves \cup ids
      /\ \A i \in DOMAIN d.graves : graves[i] = d.graves[i]
      /\ \A i \in ids \ DOMAIN d.graves : graves[i] = new[i]
  <2>1. d.graves \in Graves(usns)
    BY CollectionTables
  <2>2. d.graves \in Tables(Ids, Grave(usns)) /\ new \in Tables(Ids, Grave(usns))
    BY <1>3, <2>1 DEF Graves
  <2>3. graves \in Tables(Ids, Grave(usns))
    BY <2>2, OverTable
  <2>4. /\ DOMAIN graves = DOMAIN d.graves \cup DOMAIN new
        /\ \A i \in DOMAIN d.graves : graves[i] = d.graves[i]
        /\ \A i \in DOMAIN new \ DOMAIN d.graves : graves[i] = new[i]
    BY DEF Over
  <2> HIDE DEF graves
  <2> QED BY <1>3, <2>3, <2>4 DEF Graves
<1> HIDE DEF graves
<1>5. /\ e \in Collections(usns) /\ e.rows = rows /\ e.graves = graves
      /\ e.revlog = d.revlog /\ e.conf = d.conf
      /\ e.usn = d.usn /\ e.mod = d.mod /\ e.scm = d.scm
  BY <1>1, <1>2, <1>4 DEF Collections
<1> HIDE DEF e
<1>6. /\ e \in Collections(usns)
      /\ DOMAIN e.rows = DOMAIN d.rows \ ids
      /\ \A i \in DOMAIN d.rows \ ids : e.rows[i] = d.rows[i]
      /\ DOMAIN e.graves = DOMAIN d.graves \cup ids
      /\ \A i \in DOMAIN d.graves : e.graves[i] = d.graves[i]
      /\ \A i \in ids \ DOMAIN d.graves : e.graves[i].usn = usn
      /\ e.revlog = d.revlog /\ e.conf = d.conf
      /\ e.usn = d.usn /\ e.mod = d.mod /\ e.scm = d.scm
  BY <1>2, <1>3, <1>4, <1>5
<1> QED BY <1>6 DEF e

\* Part of a table laid over another.
LEMMA PartOverTable ==
  ASSUME NEW S, NEW E, NEW t \in Tables(S, E), NEW o \in Tables(S, E),
         NEW T, T \subseteq DOMAIN t
  PROVE  /\ Over(Restrict(t, T), o) \in Tables(S, E)
         /\ DOMAIN Over(Restrict(t, T), o) = T \cup DOMAIN o
         /\ \A i \in T : Over(Restrict(t, T), o)[i] = t[i]
         /\ \A i \in DOMAIN o \ T : Over(Restrict(t, T), o)[i] = o[i]
<1> DEFINE r == Restrict(t, T)
<1>1. r \in Tables(S, E) /\ DOMAIN r = T /\ \A i \in T : r[i] = t[i]
  BY RestrictTable
<1> HIDE DEF r
<1>2. /\ DOMAIN Over(r, o) = DOMAIN r \cup DOMAIN o
      /\ \A i \in DOMAIN r : Over(r, o)[i] = r[i]
      /\ \A i \in DOMAIN o \ DOMAIN r : Over(r, o)[i] = o[i]
  BY DEF Over
<1>3. /\ Over(r, o) \in Tables(S, E)
      /\ DOMAIN Over(r, o) = T \cup DOMAIN o
      /\ \A i \in T : Over(r, o)[i] = t[i]
      /\ \A i \in DOMAIN o \ T : Over(r, o)[i] = o[i]
  <2>1. Over(r, o) \in Tables(S, E)
    BY <1>1, OverTable
  <2> QED BY <1>1, <1>2, <2>1
<1> QED BY <1>3 DEF r

\* Merging decks: each deck is there afterwards, in the version that is newer by
\* the second, the incoming one if neither is.
LEMMA MergeDecksFields ==
  ASSUME NEW usns, NEW d \in Collections(usns), NEW decks \in Rows(usns)
  PROVE  LET e == MergeDecks(d, decks)
         IN /\ e \in Collections(usns)
            /\ DOMAIN e.rows = DOMAIN d.rows \cup DOMAIN decks
            /\ \A i \in DOMAIN d.rows \ DOMAIN decks : e.rows[i] = d.rows[i]
            /\ \A i \in DOMAIN decks \ DOMAIN d.rows : e.rows[i] = decks[i]
            /\ \A i \in DOMAIN d.rows \cap DOMAIN decks :
                 e.rows[i] = IF Secs(d.rows[i].edit) <= Secs(decks[i].edit)
                             THEN decks[i] ELSE d.rows[i]
            /\ e.graves = d.graves /\ e.revlog = d.revlog /\ e.conf = d.conf
            /\ e.usn = d.usn /\ e.mod = d.mod /\ e.scm = d.scm
<1> DEFINE taken == {i \in DOMAIN decks :
                       i \in DOMAIN d.rows => Secs(d.rows[i].edit) <= Secs(decks[i].edit)}
           rows == Over(Restrict(decks, taken), d.rows)
           e == MergeDecks(d, decks)
<1>1. e = [d EXCEPT !.rows = rows]
  BY DEF MergeDecks
<1>2. /\ rows \in Rows(usns) /\ DOMAIN rows = taken \cup DOMAIN d.rows
      /\ \A i \in taken : rows[i] = decks[i]
      /\ \A i \in DOMAIN d.rows \ taken : rows[i] = d.rows[i]
  <2>1. d.rows \in Tables(Ids, Row(usns)) /\ decks \in Tables(Ids, Row(usns))
    BY CollectionTables DEF Rows
  <2>2. taken \subseteq DOMAIN decks
    OBVIOUS
  <2> HIDE DEF taken
  <2>3. rows \in Tables(Ids, Row(usns))
    BY <2>1, <2>2, PartOverTable
  <2> QED BY <2>2, <2>3 DEF Rows, Over, Restrict
<1>3. /\ DOMAIN rows = DOMAIN d.rows \cup DOMAIN decks
      /\ \A i \in DOMAIN d.rows \ DOMAIN decks : rows[i] = d.rows[i]
      /\ \A i \in DOMAIN decks \ DOMAIN d.rows : rows[i] = decks[i]
      /\ \A i \in DOMAIN d.rows \cap DOMAIN decks :
           rows[i] = IF Secs(d.rows[i].edit) <= Secs(decks[i].edit)
                     THEN decks[i] ELSE d.rows[i]
  <2> HIDE DEF rows
  <2> QED BY <1>2
<1> HIDE DEF rows
<1>4. /\ e \in Collections(usns) /\ e.rows = rows
      /\ e.graves = d.graves /\ e.revlog = d.revlog /\ e.conf = d.conf
      /\ e.usn = d.usn /\ e.mod = d.mod /\ e.scm = d.scm
  BY <1>1, <1>2 DEF Collections
<1> HIDE DEF e
<1>5. /\ e \in Collections(usns)
      /\ DOMAIN e.rows = DOMAIN d.rows \cup DOMAIN decks
      /\ \A i \in DOMAIN d.rows \ DOMAIN decks : e.rows[i] = d.rows[i]
      /\ \A i \in DOMAIN decks \ DOMAIN d.rows : e.rows[i] = decks[i]
      /\ \A i \in DOMAIN d.rows \cap DOMAIN decks :
           e.rows[i] = IF Secs(d.rows[i].edit) <= Secs(decks[i].edit)
                       THEN decks[i] ELSE d.rows[i]
      /\ e.graves = d.graves /\ e.revlog = d.revlog /\ e.conf = d.conf
      /\ e.usn = d.usn /\ e.mod = d.mod /\ e.scm = d.scm
  BY <1>3, <1>4
<1> QED BY <1>5 DEF e

\* The part of a collection that a chunk carries.
Chunks(usns) ==
  [revlog : Reviews(usns), rows : {t \in Rows(usns) : DOMAIN t \subseteq Cards \cup Notes}]

\* A chunk has the rows and reviews that were listed for it, as they are.
LEMMA ChunkFields ==
  ASSUME NEW usns, NEW d \in Collections(usns), NEW next \in ChunkIds, Within(next, d)
  PROVE  LET chunk == ChunkOf(d, next)
         IN /\ chunk \in Chunks(usns)
            /\ DOMAIN chunk.rows = next.cards \cup next.notes
            /\ \A i \in DOMAIN chunk.rows : chunk.rows[i] = d.rows[i]
            /\ DOMAIN chunk.revlog = next.revlog
            /\ \A r \in DOMAIN chunk.revlog : chunk.revlog[r] = d.revlog[r]
<1> DEFINE rows == Restrict(d.rows, next.cards \cup next.notes)
           revlog == Restrict(d.revlog, next.revlog)
           chunk == ChunkOf(d, next)
<1>1. /\ next.cards \cup next.notes \subseteq DOMAIN d.rows
      /\ next.revlog \subseteq DOMAIN d.revlog
      /\ next.cards \cup next.notes \subseteq Cards \cup Notes
  BY DEF Within, ChunkIds
<1>2. d.rows \in Tables(Ids, Row(usns)) /\ d.revlog \in Tables(Nat, LoggedReview(usns))
  BY CollectionTables DEF Rows, Reviews
<1>3. /\ rows \in Rows(usns) /\ DOMAIN rows = next.cards \cup next.notes
      /\ \A i \in next.cards \cup next.notes : rows[i] = d.rows[i]
  BY <1>1, <1>2, RestrictTable DEF Rows
<1>4. /\ revlog \in Reviews(usns) /\ DOMAIN revlog = next.revlog
      /\ \A r \in next.revlog : revlog[r] = d.revlog[r]
  BY <1>1, <1>2, RestrictTable DEF Reviews
<1>5. chunk = [revlog |-> revlog, rows |-> rows]
  BY DEF ChunkOf
<1> HIDE DEF rows, revlog
<1>6. chunk \in Chunks(usns) /\ chunk.rows = rows /\ chunk.revlog = revlog
  BY <1>1, <1>3, <1>4, <1>5 DEF Chunks
<1> HIDE DEF chunk
<1>7. /\ chunk \in Chunks(usns)
      /\ DOMAIN chunk.rows = next.cards \cup next.notes
      /\ \A i \in DOMAIN chunk.rows : chunk.rows[i] = d.rows[i]
      /\ DOMAIN chunk.revlog = next.revlog
      /\ \A r \in DOMAIN chunk.revlog : chunk.revlog[r] = d.revlog[r]
  BY <1>3, <1>4, <1>6
<1> QED BY <1>7 DEF chunk

\* Applying a chunk: what is here stays only if it is pending and, by the second,
\* not older; a review that is here stays.
LEMMA ApplyChunkFields ==
  ASSUME NEW usns, NEW d \in Collections(usns), NEW chunk \in Chunks(usns), NEW pending_usn
  PROVE  LET e == ApplyChunk(d, chunk, pending_usn)
         IN /\ e \in Collections(usns)
            /\ DOMAIN e.rows = DOMAIN d.rows \cup DOMAIN chunk.rows
            /\ \A i \in DOMAIN d.rows \ DOMAIN chunk.rows : e.rows[i] = d.rows[i]
            /\ \A i \in DOMAIN chunk.rows \ DOMAIN d.rows : e.rows[i] = chunk.rows[i]
            /\ \A i \in DOMAIN d.rows \cap DOMAIN chunk.rows :
                 \/ /\ e.rows[i] = chunk.rows[i]
                    /\ \/ ~ IsPending(d.rows[i].usn, pending_usn)
                       \/ Secs(d.rows[i].edit) <= Secs(chunk.rows[i].edit)
                 \/ /\ e.rows[i] = d.rows[i]
                    /\ IsPending(d.rows[i].usn, pending_usn)
                    /\ Secs(chunk.rows[i].edit) <= Secs(d.rows[i].edit)
            /\ DOMAIN e.revlog = DOMAIN d.revlog \cup DOMAIN chunk.revlog
            /\ \A r \in DOMAIN d.revlog : e.revlog[r] = d.revlog[r]
            /\ \A r \in DOMAIN chunk.revlog \ DOMAIN d.revlog : e.revlog[r] = chunk.revlog[r]
            /\ e.graves = d.graves /\ e.conf = d.conf
            /\ e.usn = d.usn /\ e.mod = d.mod /\ e.scm = d.scm
<1> DEFINE taken == {i \in DOMAIN chunk.rows :
                       \/ i \notin DOMAIN d.rows
                       \/ i \in Cards /\ CardProceeds(d, chunk, i, pending_usn)
                       \/ i \in Notes /\ NoteProceeds(d, chunk, i, pending_usn)}
           rows == Over(Restrict(chunk.rows, taken), d.rows)
           revlog == Over(d.revlog, chunk.revlog)
           e == ApplyChunk(d, chunk, pending_usn)
<1>1. e = [d EXCEPT !.revlog = revlog, !.rows = rows]
  BY DEF ApplyChunk
<1>2. /\ chunk.rows \in Rows(usns) /\ DOMAIN chunk.rows \subseteq Cards \cup Notes
      /\ chunk.revlog \in Reviews(usns)
      /\ \A i \in DOMAIN chunk.rows : chunk.rows[i].edit \in Nat
  <2>1. /\ chunk.rows \in Rows(usns) /\ DOMAIN chunk.rows \subseteq Cards \cup Notes
        /\ chunk.revlog \in Reviews(usns)
    BY DEF Chunks
  <2>2. \A i \in DOMAIN chunk.rows : chunk.rows[i] \in Row(usns)
    BY <2>1, TableEntries DEF Rows
  <2> QED BY <2>1, <2>2 DEF Row
<1>3. /\ d.rows \in Rows(usns) /\ d.revlog \in Reviews(usns)
      /\ \A i \in DOMAIN d.rows : d.rows[i].edit \in Nat
  BY CollectionTables
<1>4. /\ rows \in Rows(usns) /\ DOMAIN rows = taken \cup DOMAIN d.rows
      /\ \A i \in taken : rows[i] = chunk.rows[i]
      /\ \A i \in DOMAIN d.rows \ taken : rows[i] = d.rows[i]
  <2>1. d.rows \in Tables(Ids, Row(usns)) /\ chunk.rows \in Tables(Ids, Row(usns))
    BY <1>2, <1>3 DEF Rows
  <2>2. taken \subseteq DOMAIN chunk.rows
    OBVIOUS
  <2> HIDE DEF taken
  <2>3. rows \in Tables(Ids, Row(usns))
    BY <2>1, <2>2, PartOverTable
  <2> QED BY <2>2, <2>3 DEF Rows, Over, Restrict
<1>5. /\ revlog \in Reviews(usns) /\ DOMAIN revlog = DOMAIN d.revlog \cup DOMAIN chunk.revlog
      /\ \A r \in DOMAIN d.revlog : revlog[r] = d.revlog[r]
      /\ \A r \in DOMAIN chunk.revlog \ DOMAIN d.revlog : revlog[r] = chunk.revlog[r]
  <2>1. revlog \in Tables(Nat, LoggedReview(usns))
    BY <1>2, <1>3, OverTable DEF Reviews
  <2> QED BY <2>1 DEF Reviews, Over
<1>6. \A i \in DOMAIN d.rows \cap DOMAIN chunk.rows :
        \/ /\ i \in taken
           /\ \/ ~ IsPending(d.rows[i].usn, pending_usn)
              \/ Secs(d.rows[i].edit) <= Secs(chunk.rows[i].edit)
        \/ /\ i \notin taken
           /\ IsPending(d.rows[i].usn, pending_usn)
           /\ Secs(chunk.rows[i].edit) <= Secs(d.rows[i].edit)
  <2> SUFFICES ASSUME NEW i \in DOMAIN d.rows \cap DOMAIN chunk.rows
               PROVE  \/ /\ i \in taken
                         /\ \/ ~ IsPending(d.rows[i].usn, pending_usn)
                            \/ Secs(d.rows[i].edit) <= Secs(chunk.rows[i].edit)
                      \/ /\ i \notin taken
                         /\ IsPending(d.rows[i].usn, pending_usn)
                         /\ Secs(chunk.rows[i].edit) <= Secs(d.rows[i].edit)
    OBVIOUS
  <2>1. Secs(d.rows[i].edit) \in Int /\ Secs(chunk.rows[i].edit) \in Int
    BY <1>2, <1>3, BoundsAssumption DEF Secs
  <2>2. i \in Cards \/ i \in Notes
    BY <1>2
  <2>3. i \in taken <=>
          \/ i \in Cards /\ CardProceeds(d, chunk, i, pending_usn)
          \/ i \in Notes /\ NoteProceeds(d, chunk, i, pending_usn)
    OBVIOUS
  <2> HIDE DEF taken
  <2> DEFINE P == IsPending(d.rows[i].usn, pending_usn)
             h == Secs(d.rows[i].edit)
             n == Secs(chunk.rows[i].edit)
  <2>4. /\ CardProceeds(d, chunk, i, pending_usn) => ~ P \/ h <= n
        /\ NoteProceeds(d, chunk, i, pending_usn) => ~ P \/ h <= n
        /\ ~ CardProceeds(d, chunk, i, pending_usn) => P /\ n <= h
        /\ ~ NoteProceeds(d, chunk, i, pending_usn) => P /\ n <= h
    <3> HIDE DEF P, h, n
    <3>1. /\ CardProceeds(d, chunk, i, pending_usn) =>
               \/ ~ P \/ h < n \/ h = n
          /\ ~ CardProceeds(d, chunk, i, pending_usn) => P /\ ~ (h < n)
          /\ NoteProceeds(d, chunk, i, pending_usn) <=> (~ P \/ h < n)
      BY DEF CardProceeds, NoteProceeds, P, h, n
    <3>2. h \in Int /\ n \in Int
      BY <2>1 DEF h, n
    <3> QED BY <3>1, <3>2
  <2> QED BY <2>2, <2>3, <2>4
<1>7. /\ DOMAIN rows = DOMAIN d.rows \cup DOMAIN chunk.rows
      /\ \A i \in DOMAIN d.rows \ DOMAIN chunk.rows : rows[i] = d.rows[i]
      /\ \A i \in DOMAIN chunk.rows \ DOMAIN d.rows : rows[i] = chunk.rows[i]
  <2> HIDE DEF rows
  <2> QED BY <1>4
<1> HIDE DEF rows, revlog, taken
<1>8. /\ e \in Collections(usns) /\ e.rows = rows /\ e.revlog = revlog
      /\ e.graves = d.graves /\ e.conf = d.conf
      /\ e.usn = d.usn /\ e.mod = d.mod /\ e.scm = d.scm
  BY <1>1, <1>4, <1>5 DEF Collections
<1>9. \A i \in DOMAIN d.rows \cap DOMAIN chunk.rows :
        \/ /\ rows[i] = chunk.rows[i]
           /\ \/ ~ IsPending(d.rows[i].usn, pending_usn)
              \/ Secs(d.rows[i].edit) <= Secs(chunk.rows[i].edit)
        \/ /\ rows[i] = d.rows[i]
           /\ IsPending(d.rows[i].usn, pending_usn)
           /\ Secs(chunk.rows[i].edit) <= Secs(d.rows[i].edit)
  BY <1>4, <1>6
<1> HIDE DEF e
<1>10. /\ e \in Collections(usns)
       /\ DOMAIN e.rows = DOMAIN d.rows \cup DOMAIN chunk.rows
       /\ \A i \in DOMAIN d.rows \ DOMAIN chunk.rows : e.rows[i] = d.rows[i]
       /\ \A i \in DOMAIN chunk.rows \ DOMAIN d.rows : e.rows[i] = chunk.rows[i]
       /\ \A i \in DOMAIN d.rows \cap DOMAIN chunk.rows :
            \/ /\ e.rows[i] = chunk.rows[i]
               /\ \/ ~ IsPending(d.rows[i].usn, pending_usn)
                  \/ Secs(d.rows[i].edit) <= Secs(chunk.rows[i].edit)
            \/ /\ e.rows[i] = d.rows[i]
               /\ IsPending(d.rows[i].usn, pending_usn)
               /\ Secs(chunk.rows[i].edit) <= Secs(d.rows[i].edit)
       /\ DOMAIN e.revlog = DOMAIN d.revlog \cup DOMAIN chunk.revlog
       /\ \A r \in DOMAIN d.revlog : e.revlog[r] = d.revlog[r]
       /\ \A r \in DOMAIN chunk.revlog \ DOMAIN d.revlog : e.revlog[r] = chunk.revlog[r]
       /\ e.graves = d.graves /\ e.conf = d.conf
       /\ e.usn = d.usn /\ e.mod = d.mod /\ e.scm = d.scm
  BY <1>5, <1>7, <1>8, <1>9
<1> QED BY <1>10 DEF e

\* Taking a chunk leaves its objects and reviews where they are, no longer pending.
LEMMA StampChunkFields ==
  ASSUME NEW usns, NEW d \in Collections(usns), NEW next, NEW usn \in usns
  PROVE  LET e == StampChunk(d, next, usn)
             ids == next.cards \cup next.notes
         IN /\ e \in Collections(usns)
            /\ DOMAIN e.rows = DOMAIN d.rows
            /\ \A i \in DOMAIN d.rows : e.rows[i].edit = d.rows[i].edit
            /\ \A i \in DOMAIN d.rows \cap ids : e.rows[i].usn = usn
            /\ \A i \in DOMAIN d.rows \ ids : e.rows[i] = d.rows[i]
            /\ DOMAIN e.revlog = DOMAIN d.revlog
            /\ \A r \in DOMAIN d.revlog \cap next.revlog : e.revlog[r].usn = usn
            /\ \A r \in DOMAIN d.revlog \ next.revlog : e.revlog[r] = d.revlog[r]
            /\ e.graves = d.graves /\ e.conf = d.conf
            /\ e.usn = d.usn /\ e.mod = d.mod /\ e.scm = d.scm
<1> DEFINE ids == next.cards \cup next.notes
           rows == Stamped(d.rows, ids, usn)
           revlog == Stamped(d.revlog, next.revlog, usn)
           e == StampChunk(d, next, usn)
<1>1. e = [d EXCEPT !.revlog = revlog, !.rows = rows]
  BY DEF StampChunk
<1>2. /\ d.rows \in Rows(usns) /\ d.revlog \in Reviews(usns)
      /\ \A i \in DOMAIN d.rows \ ids : d.rows[i].usn \in usns
      /\ \A r \in DOMAIN d.revlog \ next.revlog : d.revlog[r].usn \in usns
  BY CollectionTables
<1> HIDE DEF ids
<1>3. rows \in Rows(usns)
  BY <1>2, StampedRows
<1>4. revlog \in Reviews(usns)
  BY <1>2, StampedReviews
<1>5. /\ DOMAIN rows = DOMAIN d.rows
      /\ \A i \in DOMAIN d.rows : rows[i].edit = d.rows[i].edit
      /\ \A i \in DOMAIN d.rows \cap ids : rows[i].usn = usn
      /\ \A i \in DOMAIN d.rows \ ids : rows[i] = d.rows[i]
  BY <1>2, StampedRows
<1>6. /\ DOMAIN revlog = DOMAIN d.revlog
      /\ \A r \in DOMAIN d.revlog \cap next.revlog : revlog[r].usn = usn
      /\ \A r \in DOMAIN d.revlog \ next.revlog : revlog[r] = d.revlog[r]
  BY <1>2, StampedReviews
<1> HIDE DEF rows, revlog
<1>7. /\ e \in Collections(usns) /\ e.rows = rows /\ e.revlog = revlog
      /\ e.graves = d.graves /\ e.conf = d.conf
      /\ e.usn = d.usn /\ e.mod = d.mod /\ e.scm = d.scm
  BY <1>1, <1>3, <1>4 DEF Collections
<1> HIDE DEF e
<1>8. /\ e \in Collections(usns)
      /\ DOMAIN e.rows = DOMAIN d.rows
      /\ \A i \in DOMAIN d.rows : e.rows[i].edit = d.rows[i].edit
      /\ \A i \in DOMAIN d.rows \cap ids : e.rows[i].usn = usn
      /\ \A i \in DOMAIN d.rows \ ids : e.rows[i] = d.rows[i]
      /\ DOMAIN e.revlog = DOMAIN d.revlog
      /\ \A r \in DOMAIN d.revlog \cap next.revlog : e.revlog[r].usn = usn
      /\ \A r \in DOMAIN d.revlog \ next.revlog : e.revlog[r] = d.revlog[r]
      /\ e.graves = d.graves /\ e.conf = d.conf
      /\ e.usn = d.usn /\ e.mod = d.mod /\ e.scm = d.scm
  BY <1>5, <1>6, <1>7
<1> QED BY <1>8 DEF e, ids

---------------------------------------------------------------------------
(* Chunks. *)

\* A set of naturals that is not empty has a least member.
LEMMA LeastNatural ==
  ASSUME NEW S, S \subseteq Nat, S # {}
  PROVE  Min(S) \in S /\ \A n \in S : Min(S) <= n
<1>1. IsWellFoundedOn(OpToRel(<, Nat), Nat)
  BY NatLessThanWellFounded, Zenon
<1>2. PICK m \in S : \A n \in S : <<n, m>> \notin OpToRel(<, Nat)
  BY <1>1, WFMin, Zenon
<1>3. \A n \in S : ~ (n < m)
  BY <1>2 DEF OpToRel
<1>4. \E x \in S : \A y \in S : x <= y
  BY <1>3
<1> QED BY <1>4 DEF Min

\* What is taken next was listed.
LEMMA NextIdsListed ==
  ASSUME NEW d, NEW ids \in ChunkIds
  PROVE  LET next == NextIds(d, ids)
         IN /\ next \in ChunkIds /\ Without(ids, next) \in ChunkIds
            /\ next.revlog \subseteq ids.revlog
            /\ next.cards \subseteq ids.cards /\ next.notes \subseteq ids.notes
<1>1. \A n : /\ Popped(d, ids, n) \in ChunkIds
             /\ Popped(d, ids, n).revlog \subseteq ids.revlog
             /\ Popped(d, ids, n).cards \subseteq ids.cards
             /\ Popped(d, ids, n).notes \subseteq ids.notes
  BY DEF Popped, LastOf, ChunkIds
<1>2. \E n : NextIds(d, ids) = Popped(d, ids, n)
  BY DEF NextIds
<1> DEFINE next == NextIds(d, ids)
<1>3. /\ next \in ChunkIds /\ next.revlog \subseteq ids.revlog
      /\ next.cards \subseteq ids.cards /\ next.notes \subseteq ids.notes
  BY <1>1, <1>2
<1> HIDE DEF next
<1>4. Without(ids, next) \in ChunkIds
  BY DEF Without, ChunkIds
<1> QED BY <1>3, <1>4 DEF next

\* Popping as often as there are ids pops them all.
LEMMA LastOfAll ==
  ASSUME NEW table, NEW ids, ids \subseteq Nat, IsFiniteSet(ids),
         \A i \in ids : table[i].usn \in Int,
         NEW n \in Nat, Cardinality(ids) <= n
  PROVE  LastOf(table, ids, n) = ids
<1> SUFFICES ASSUME NEW i \in ids PROVE i \in LastOf(table, ids, n)
  BY DEF LastOf
<1> DEFINE later == {j \in ids : \/ table[j].usn > table[i].usn
                                 \/ table[j].usn = table[i].usn /\ j > i}
<1>1. later \in SUBSET ids /\ i \notin later
  <2>1. table[i].usn \in Int /\ i \in Nat
    OBVIOUS
  <2>2. ~ (table[i].usn > table[i].usn) /\ ~ (i > i)
    BY <2>1
  <2> QED BY <2>2
<1>2. Cardinality(later) < n
  <2> HIDE DEF later
  <2>1. Cardinality(ids) \in Nat
    BY FS_CardinalityType
  <2>2. IsFiniteSet(later) /\ Cardinality(later) <= Cardinality(ids)
        /\ (Cardinality(ids) = Cardinality(later) => ids = later)
    BY <1>1, FS_Subset
  <2>3. Cardinality(later) \in Nat
    BY <2>2, FS_CardinalityType
  <2>4. ids # later
    BY <1>1
  <2> QED BY <2>1, <2>2, <2>3, <2>4
<1> QED BY <1>2 DEF LastOf

\* The last chunk takes whatever was still listed.
LEMMA LastChunk ==
  ASSUME NEW usns, usns \subseteq Int, NEW d \in Collections(usns),
         NEW ids \in ChunkIds, Within(ids, d), IsFiniteSet(ids.revlog),
         IsDone(NextIds(d, ids))
  PROVE  NextIds(d, ids) = ids
<1>1. /\ ids.revlog \subseteq Nat /\ ids.cards \subseteq Nat /\ ids.notes \subseteq Nat
      /\ IsFiniteSet(ids.revlog) /\ IsFiniteSet(ids.cards) /\ IsFiniteSet(ids.notes)
  <2>1. ids.revlog \subseteq Nat /\ ids.cards \in SUBSET Ids /\ ids.notes \in SUBSET Ids
    BY DEF ChunkIds, Ids
  <2>2. IsFiniteSet(ids.cards) /\ IsFiniteSet(ids.notes)
    BY <2>1, FS_Subset, IdsAssumption
  <2> QED BY <2>1, <2>2, IdsAssumption
<1>2. Size(ids) \in Nat /\ Cardinality(ids.revlog) <= Size(ids)
      /\ Cardinality(ids.cards) <= Size(ids) /\ Cardinality(ids.notes) <= Size(ids)
  <2>1. /\ Cardinality(ids.revlog) \in Nat /\ Cardinality(ids.cards) \in Nat
        /\ Cardinality(ids.notes) \in Nat
    BY <1>1, FS_CardinalityType
  <2> QED BY <2>1 DEF Size
<1>3. Popped(d, ids, Size(ids)) = ids
  <2>1. /\ \A i \in ids.revlog : d.revlog[i].usn \in Int
        /\ \A i \in ids.cards \cup ids.notes : d.rows[i].usn \in Int
    BY CollectionTables DEF Within
  <2>2. LastOf(d.revlog, ids.revlog, Size(ids)) = ids.revlog
    BY <1>1, <1>2, <2>1, LastOfAll
  <2>3. LastOf(d.rows, ids.cards, Size(ids)) = ids.cards
    BY <1>1, <1>2, <2>1, LastOfAll
  <2>4. LastOf(d.rows, ids.notes, Size(ids)) = ids.notes
    BY <1>1, <1>2, <2>1, LastOfAll
  <2> QED BY <2>2, <2>3, <2>4 DEF Popped, ChunkIds
<1> DEFINE size(n) == Size(Popped(d, ids, n))
           S == {n \in 0..Size(ids) : size(n) >= ChunkSize \/ size(n) = Size(ids)}
           next == Popped(d, ids, Min(S))
<1>4. NextIds(d, ids) = next
  BY DEF NextIds
<1>5. Min(S) \in S
  <2>1. S \subseteq Nat
    BY <1>2
  <2>2. Size(ids) \in S
    BY <1>2, <1>3
  <2> HIDE DEF S
  <2> QED BY <2>1, <2>2, LeastNatural
<1>6. Size(next) >= ChunkSize \/ Size(next) = Size(ids)
  BY <1>5
<1> HIDE DEF next
<1>7. /\ next.revlog \in SUBSET ids.revlog /\ next.cards \in SUBSET ids.cards
      /\ next.notes \in SUBSET ids.notes /\ next \in ChunkIds
  BY <1>4, NextIdsListed
<1>8. /\ Cardinality(next.revlog) <= Cardinality(ids.revlog)
      /\ (Cardinality(ids.revlog) = Cardinality(next.revlog) => ids.revlog = next.revlog)
      /\ Cardinality(next.revlog) \in Nat /\ Cardinality(ids.revlog) \in Nat
  BY <1>1, <1>7, FS_Subset, FS_CardinalityType
<1>9. /\ Cardinality(next.cards) <= Cardinality(ids.cards)
      /\ (Cardinality(ids.cards) = Cardinality(next.cards) => ids.cards = next.cards)
      /\ Cardinality(next.cards) \in Nat /\ Cardinality(ids.cards) \in Nat
  BY <1>1, <1>7, FS_Subset, FS_CardinalityType
<1>10. /\ Cardinality(next.notes) <= Cardinality(ids.notes)
       /\ (Cardinality(ids.notes) = Cardinality(next.notes) => ids.notes = next.notes)
       /\ Cardinality(next.notes) \in Nat /\ Cardinality(ids.notes) \in Nat
  BY <1>1, <1>7, FS_Subset, FS_CardinalityType
<1>11. Size(next) = Size(ids)
  <2>1. Size(next) < ChunkSize
    BY <1>4 DEF IsDone
  <2>2. Size(next) \in Nat
    BY <1>8, <1>9, <1>10 DEF Size
  <2> QED BY <1>6, <2>1, <2>2, BoundsAssumption
<1>12. ids.revlog = next.revlog /\ ids.cards = next.cards /\ ids.notes = next.notes
  BY <1>8, <1>9, <1>10, <1>11 DEF Size
<1> QED BY <1>4, <1>7, <1>12 DEF ChunkIds

---------------------------------------------------------------------------
(* What is sent, and local changes. *)

\* A table in which no entry has a usn outside usns.
LEMMA NarrowRows ==
  ASSUME NEW usns, NEW more, NEW t \in Rows(more), \A i \in DOMAIN t : t[i].usn \in usns
  PROVE  t \in Rows(usns)
<1>1. /\ DOMAIN t \subseteq Ids /\ t = [i \in DOMAIN t |-> t[i]]
      /\ \A i \in DOMAIN t : t[i] \in Row(more)
  BY TableEntries DEF Rows
<1>2. \A i \in DOMAIN t : t[i] \in Row(usns)
  BY <1>1 DEF Row
<1> QED BY <1>1, <1>2, IsTable DEF Rows

\* Reviews are typed by the numbers they really have.
LEMMA NarrowReviews ==
  ASSUME NEW usns, NEW more, NEW t \in Reviews(more), \A r \in DOMAIN t : t[r].usn \in usns
  PROVE  t \in Reviews(usns)
<1>1. /\ DOMAIN t \subseteq Nat /\ t = [r \in DOMAIN t |-> t[r]]
      /\ \A r \in DOMAIN t : t[r] \in LoggedReview(more)
  BY TableEntries DEF Reviews
<1>2. \A r \in DOMAIN t : t[r] \in LoggedReview(usns)
  BY <1>1 DEF LoggedReview
<1> QED BY <1>1, <1>2, IsTable DEF Reviews

\* The client's deletions, its decks, and a chunk of its objects, as they are sent.
SentGraves(d, usn) == [d EXCEPT !.graves = Stamped(@, Pending(@, -1), usn)]
SentDecks(d, usn) == [d EXCEPT !.rows = Stamped(@, Pending(d.rows, -1) \cap Decks, usn)]
DeckRows(d, usn) == Restrict(SentDecks(d, usn).rows, Pending(d.rows, -1) \cap Decks)
SentChunk(d, next, usn) == ChunkOf(StampChunk(d, next, usn), next)

\* Sending graves stamps those that were pending and leaves the rest alone.
LEMMA SentGravesFields ==
  ASSUME NEW d \in Collections(Usns), NEW usn \in Nat
  PROVE  LET e == SentGraves(d, usn)
         IN /\ e \in Collections(Usns)
            /\ DOMAIN e.graves = DOMAIN d.graves
            /\ \A i \in DOMAIN e.graves : e.graves[i].usn \in Nat
            /\ e.rows = d.rows /\ e.revlog = d.revlog /\ e.conf = d.conf
            /\ e.usn = d.usn /\ e.mod = d.mod /\ e.scm = d.scm
<1> DEFINE ids == Pending(d.graves, -1)
           graves == Stamped(d.graves, ids, usn)
           e == SentGraves(d, usn)
<1>1. e = [d EXCEPT !.graves = graves]
  BY DEF SentGraves
<1>2. /\ d.graves \in Graves(Usns)
      /\ \A i \in DOMAIN d.graves : d.graves[i].usn \in Usns
  BY CollectionTables
<1>3. \A i \in DOMAIN d.graves \ ids : d.graves[i].usn \in Nat
  BY <1>2 DEF Pending, IsPending, Usns
<1>4. usn \in Nat /\ Nat \subseteq Usns
  BY DEF Usns
<1> HIDE DEF ids
<1>5. graves \in Graves(Nat)
  BY <1>2, <1>3, <1>4, StampedGraves
<1>6. graves \in Graves(Usns)
  BY ZenonT(60), <1>4, <1>5, Widened
<1>7. DOMAIN graves = DOMAIN d.graves
  BY DEF Stamped
<1>8. \A i \in DOMAIN graves : graves[i].usn \in Nat
  <2>1. \A i \in DOMAIN graves : graves[i] \in Grave(Nat)
    BY <1>5, TableEntries DEF Graves
  <2> QED BY <2>1 DEF Grave
<1> HIDE DEF graves
<1>9. /\ e \in Collections(Usns) /\ e.graves = graves
      /\ e.rows = d.rows /\ e.revlog = d.revlog /\ e.conf = d.conf
      /\ e.usn = d.usn /\ e.mod = d.mod /\ e.scm = d.scm
  BY <1>1, <1>6 DEF Collections
<1> HIDE DEF e
<1>10. /\ e \in Collections(Usns)
       /\ DOMAIN e.graves = DOMAIN d.graves
       /\ \A i \in DOMAIN e.graves : e.graves[i].usn \in Nat
       /\ e.rows = d.rows /\ e.revlog = d.revlog /\ e.conf = d.conf
       /\ e.usn = d.usn /\ e.mod = d.mod /\ e.scm = d.scm
  BY <1>7, <1>8, <1>9
<1> QED BY <1>10 DEF e

\* Sending decks stamps those that were pending and leaves the rest alone.
LEMMA SentDecksFields ==
  ASSUME NEW d \in Collections(Usns), NEW usn \in Nat
  PROVE  LET e == SentDecks(d, usn)
             mine == Pending(d.rows, -1) \cap Decks
             decks == DeckRows(d, usn)
         IN /\ e \in Collections(Usns)
            /\ DOMAIN e.rows = DOMAIN d.rows
            /\ \A i \in DOMAIN d.rows : e.rows[i].edit = d.rows[i].edit
            /\ \A i \in mine : e.rows[i].usn = usn
            /\ \A i \in DOMAIN d.rows \ mine : e.rows[i] = d.rows[i]
            /\ e.graves = d.graves /\ e.revlog = d.revlog /\ e.conf = d.conf
            /\ e.usn = d.usn /\ e.mod = d.mod /\ e.scm = d.scm
            /\ decks \in Rows(Nat) /\ DOMAIN decks = mine
            /\ \A i \in mine : decks[i].usn = usn /\ decks[i].edit = d.rows[i].edit
<1> DEFINE mine == Pending(d.rows, -1) \cap Decks
           rows == Stamped(d.rows, mine, usn)
           e == SentDecks(d, usn)
           decks == DeckRows(d, usn)
<1>1. e = [d EXCEPT !.rows = rows]
  BY DEF SentDecks
<1>2. /\ d.rows \in Rows(Usns)
      /\ \A i \in DOMAIN d.rows \ mine : d.rows[i].usn \in Usns
      /\ usn \in Usns
  BY CollectionTables DEF Usns
<1>3. mine \subseteq DOMAIN d.rows
  BY DEF Pending
<1> HIDE DEF mine
<1>4. rows \in Rows(Usns)
  BY <1>2, StampedRows
<1>5. /\ DOMAIN rows = DOMAIN d.rows
      /\ \A i \in DOMAIN d.rows : rows[i].edit = d.rows[i].edit
      /\ \A i \in DOMAIN d.rows \cap mine : rows[i].usn = usn
      /\ \A i \in DOMAIN d.rows \ mine : rows[i] = d.rows[i]
  BY <1>2, StampedRows
<1> HIDE DEF rows
<1>6. /\ e \in Collections(Usns) /\ e.rows = rows
      /\ e.graves = d.graves /\ e.revlog = d.revlog /\ e.conf = d.conf
      /\ e.usn = d.usn /\ e.mod = d.mod /\ e.scm = d.scm
  BY <1>1, <1>4 DEF Collections
<1>7. decks = Restrict(rows, mine)
  BY <1>6 DEF DeckRows, mine
<1> HIDE DEF decks, e
<1>8. /\ decks \in Tables(Ids, Row(Usns)) /\ DOMAIN decks = mine
      /\ \A i \in mine : decks[i] = rows[i]
  BY <1>3, <1>4, <1>5, <1>7, RestrictTable DEF Rows
<1>9. decks \in Rows(Nat)
  <2>1. decks \in Rows(Usns)
    BY <1>8 DEF Rows
  <2>2. \A i \in DOMAIN decks : decks[i].usn \in Nat
    BY <1>3, <1>5, <1>8
  <2> QED BY <2>1, <2>2, NarrowRows
<1>10. /\ e \in Collections(Usns)
       /\ DOMAIN e.rows = DOMAIN d.rows
       /\ \A i \in DOMAIN d.rows : e.rows[i].edit = d.rows[i].edit
       /\ \A i \in mine : e.rows[i].usn = usn
       /\ \A i \in DOMAIN d.rows \ mine : e.rows[i] = d.rows[i]
       /\ e.graves = d.graves /\ e.revlog = d.revlog /\ e.conf = d.conf
       /\ e.usn = d.usn /\ e.mod = d.mod /\ e.scm = d.scm
  BY <1>3, <1>5, <1>6
<1>11. \A i \in mine : decks[i].usn = usn /\ decks[i].edit = d.rows[i].edit
  BY <1>3, <1>5, <1>8
<1> QED BY <1>8, <1>9, <1>10, <1>11 DEF e, decks, mine

\* A chunk that is sent has been stamped, and is otherwise as it was.
LEMMA SentChunkFields ==
  ASSUME NEW d \in Collections(Usns), NEW next \in ChunkIds, NEW usn \in Nat, Within(next, d)
  PROVE  LET chunk == SentChunk(d, next, usn)
         IN /\ chunk \in Chunks(Nat)
            /\ DOMAIN chunk.rows = next.cards \cup next.notes
            /\ \A i \in DOMAIN chunk.rows :
                 chunk.rows[i].usn = usn /\ chunk.rows[i].edit = d.rows[i].edit
            /\ DOMAIN chunk.revlog = next.revlog
            /\ \A r \in DOMAIN chunk.revlog : chunk.revlog[r].usn = usn
<1> DEFINE e == StampChunk(d, next, usn)
           ids == next.cards \cup next.notes
           chunk == SentChunk(d, next, usn)
<1>1. usn \in Usns
  BY DEF Usns
<1>2. /\ e \in Collections(Usns)
      /\ DOMAIN e.rows = DOMAIN d.rows
      /\ \A i \in DOMAIN d.rows : e.rows[i].edit = d.rows[i].edit
      /\ \A i \in DOMAIN d.rows \cap ids : e.rows[i].usn = usn
      /\ DOMAIN e.revlog = DOMAIN d.revlog
      /\ \A r \in DOMAIN d.revlog \cap next.revlog : e.revlog[r].usn = usn
  BY <1>1, StampChunkFields
<1> HIDE DEF e
<1>3. Within(next, e)
  BY <1>2 DEF Within
<1>4. chunk = ChunkOf(e, next)
  BY DEF SentChunk, e
<1> HIDE DEF chunk
<1>5. /\ chunk \in Chunks(Usns)
      /\ DOMAIN chunk.rows = ids
      /\ \A i \in DOMAIN chunk.rows : chunk.rows[i] = e.rows[i]
      /\ DOMAIN chunk.revlog = next.revlog
      /\ \A r \in DOMAIN chunk.revlog : chunk.revlog[r] = e.revlog[r]
  BY <1>2, <1>3, <1>4, ChunkFields
<1>6. /\ \A i \in DOMAIN chunk.rows :
           chunk.rows[i].usn = usn /\ chunk.rows[i].edit = d.rows[i].edit
      /\ \A r \in DOMAIN chunk.revlog : chunk.revlog[r].usn = usn
  BY <1>2, <1>5 DEF Within
<1>7. chunk \in Chunks(Nat)
  <2>1. /\ chunk.rows \in Rows(Usns) /\ DOMAIN chunk.rows \subseteq Cards \cup Notes
        /\ chunk.revlog \in Reviews(Usns)
        /\ chunk = [revlog |-> chunk.revlog, rows |-> chunk.rows]
    BY <1>5 DEF Chunks
  <2>2. chunk.rows \in Rows(Nat)
    BY <1>6, <2>1, NarrowRows
  <2>3. chunk.revlog \in Reviews(Nat)
    BY <1>6, <2>1, NarrowReviews
  <2> QED BY <2>1, <2>2, <2>3 DEF Chunks
<1> QED BY <1>5, <1>6, <1>7 DEF chunk

\* Nothing is pending in what is uploaded.
LEMMA BeforeUploadFields ==
  ASSUME NEW d \in Collections(Usns), NEW time \in Nat
  PROVE  LET e == BeforeUpload(d, time)
         IN /\ e \in Collections(Nat)
            /\ DOMAIN e.rows = DOMAIN d.rows
            /\ \A i \in DOMAIN d.rows : e.rows[i].edit = d.rows[i].edit
            /\ e.graves = <<>>
            /\ DOMAIN e.revlog = DOMAIN d.revlog
            /\ e.conf = d.conf /\ e.usn = d.usn + 1 /\ e.mod = time /\ e.scm = time
<1> DEFINE mine == Pending(d.rows, -1) \cup (DOMAIN d.rows \cap Decks)
           logged == Pending(d.revlog, -1)
           rows == Stamped(d.rows, mine, 0)
           revlog == Stamped(d.revlog, logged, 0)
           none == <<>>
           raised == d.usn + 1
           e == BeforeUpload(d, time)
<1>1. e = [d EXCEPT !.rows = rows, !.graves = none, !.revlog = revlog,
                    !.usn = raised, !.mod = time, !.scm = time]
  BY DEF BeforeUpload
<1>2. /\ d.rows \in Rows(Usns) /\ d.revlog \in Reviews(Usns)
      /\ \A i \in DOMAIN d.rows : d.rows[i].usn \in Usns
      /\ \A r \in DOMAIN d.revlog : d.revlog[r].usn \in Usns
      /\ d.usn \in Nat
  BY CollectionTables
<1>3. /\ \A i \in DOMAIN d.rows \ mine : d.rows[i].usn \in Nat
      /\ \A r \in DOMAIN d.revlog \ logged : d.revlog[r].usn \in Nat
  BY <1>2 DEF Pending, IsPending, Usns
<1> HIDE DEF mine, logged
<1>4. rows \in Rows(Nat)
  BY <1>2, <1>3, StampedRows
<1>5. revlog \in Reviews(Nat)
  BY <1>2, <1>3, StampedReviews
<1>6. none \in Graves(Nat)
  BY EmptyTable DEF Graves
<1>7. DOMAIN rows = DOMAIN d.rows /\ \A i \in DOMAIN d.rows : rows[i].edit = d.rows[i].edit
  <2>1. \A i \in DOMAIN d.rows : d.rows[i] \in Row(Usns)
    BY <1>2, TableEntries DEF Rows
  <2> QED BY <2>1 DEF Stamped, Row
<1>8. DOMAIN revlog = DOMAIN d.revlog
  BY DEF Stamped
<1>9. raised \in Nat
  BY <1>2
<1> HIDE DEF rows, revlog, none, raised
<1>10. /\ e \in Collections(Nat) /\ e.rows = rows /\ e.graves = none /\ e.revlog = revlog
       /\ e.conf = d.conf /\ e.usn = raised /\ e.mod = time /\ e.scm = time
  BY <1>1, <1>4, <1>5, <1>6, <1>9 DEF Collections
<1> HIDE DEF e
<1>11. /\ e \in Collections(Nat)
       /\ DOMAIN e.rows = DOMAIN d.rows
       /\ \A i \in DOMAIN d.rows : e.rows[i].edit = d.rows[i].edit
       /\ e.graves = <<>>
       /\ DOMAIN e.revlog = DOMAIN d.revlog
       /\ e.conf = d.conf /\ e.usn = d.usn + 1 /\ e.mod = time /\ e.scm = time
  BY <1>7, <1>8, <1>10 DEF none, raised
<1> QED BY <1>11 DEF e

\* An object added or changed.
LEMMA WithRowFields ==
  ASSUME NEW d \in Collections(Usns), NEW id \in Ids, now \in Nat
  PROVE  LET e == WithRow(d, id)
         IN /\ e \in Collections(Usns)
            /\ DOMAIN e.rows = DOMAIN d.rows \cup {id}
            /\ e.rows[id].edit = now + 1 /\ e.rows[id].usn = -1
            /\ \A i \in DOMAIN d.rows \ {id} : e.rows[i] = d.rows[i]
            /\ e.graves = d.graves /\ e.revlog = d.revlog /\ e.conf = d.conf
            /\ e.usn = d.usn /\ e.mod = d.mod /\ e.scm = d.scm
<1> DEFINE row == [edit |-> now + 1, usn |-> -1]
           new == [i \in {id} |-> row]
           rows == Over(new, d.rows)
           e == WithRow(d, id)
<1>1. e = [d EXCEPT !.rows = rows]
  BY DEF WithRow
<1>2. row \in Row(Usns) /\ row.edit = now + 1 /\ row.usn = -1
  BY DEF Row, Usns
<1> HIDE DEF row
<1>3. new = [i \in DOMAIN new |-> new[i]] /\ DOMAIN new = {id} /\ new[id] = row
  OBVIOUS
<1> HIDE DEF new
<1>4. new \in Tables(Ids, Row(Usns))
  BY <1>2, <1>3, IsTable
<1>5. rows \in Rows(Usns)
  BY <1>4, CollectionTables, OverTable DEF Rows
<1>6. /\ DOMAIN rows = DOMAIN d.rows \cup {id} /\ rows[id] = row
      /\ \A i \in DOMAIN d.rows \ {id} : rows[i] = d.rows[i]
  BY <1>3 DEF Over
<1> HIDE DEF rows
<1>7. /\ e \in Collections(Usns) /\ e.rows = rows
      /\ e.graves = d.graves /\ e.revlog = d.revlog /\ e.conf = d.conf
      /\ e.usn = d.usn /\ e.mod = d.mod /\ e.scm = d.scm
  BY <1>1, <1>5 DEF Collections
<1> HIDE DEF e
<1>8. /\ e \in Collections(Usns)
      /\ DOMAIN e.rows = DOMAIN d.rows \cup {id}
      /\ e.rows[id].edit = now + 1 /\ e.rows[id].usn = -1
      /\ \A i \in DOMAIN d.rows \ {id} : e.rows[i] = d.rows[i]
      /\ e.graves = d.graves /\ e.revlog = d.revlog /\ e.conf = d.conf
      /\ e.usn = d.usn /\ e.mod = d.mod /\ e.scm = d.scm
  BY <1>2, <1>6, <1>7
<1> QED BY <1>8 DEF e

\* The log with the review of a card, and the collection without an object.
WithReview(d, card) ==
  [d EXCEPT !.revlog = Over([i \in {now + 1} |-> [card |-> card, usn |-> -1]], @)]
Deleted(d, id) ==
  [d EXCEPT !.rows = Restrict(@, DOMAIN @ \ {id}),
            !.graves = Over(@, [i \in {id} |-> [usn |-> -1]])]

\* A review adds one entry to the log, waiting to be sent.
LEMMA WithReviewFields ==
  ASSUME NEW d \in Collections(Usns), NEW card \in Cards, now \in Nat
  PROVE  LET e == WithReview(d, card)
         IN /\ e \in Collections(Usns)
            /\ DOMAIN e.revlog = DOMAIN d.revlog \cup {now + 1}
            /\ e.revlog[now + 1].usn = -1
            /\ \A r \in DOMAIN d.revlog \ {now + 1} : e.revlog[r] = d.revlog[r]
            /\ e.rows = d.rows /\ e.graves = d.graves /\ e.conf = d.conf
            /\ e.usn = d.usn /\ e.mod = d.mod /\ e.scm = d.scm
<1> DEFINE review == [card |-> card, usn |-> -1]
           new == [i \in {now + 1} |-> review]
           revlog == Over(new, d.revlog)
           e == WithReview(d, card)
<1>1. e = [d EXCEPT !.revlog = revlog]
  BY DEF WithReview
<1>2. review \in LoggedReview(Usns) /\ review.usn = -1
  BY DEF LoggedReview, Usns
<1> HIDE DEF review
<1>3. new = [i \in DOMAIN new |-> new[i]] /\ DOMAIN new = {now + 1} /\ new[now + 1] = review
  OBVIOUS
<1> HIDE DEF new
<1>4. new \in Tables(Nat, LoggedReview(Usns))
  <2>1. now + 1 \in Nat
    OBVIOUS
  <2> QED BY <1>2, <1>3, <2>1, IsTable
<1>5. revlog \in Reviews(Usns)
  BY <1>4, CollectionTables, OverTable DEF Reviews
<1>6. /\ DOMAIN revlog = DOMAIN d.revlog \cup {now + 1} /\ revlog[now + 1] = review
      /\ \A r \in DOMAIN d.revlog \ {now + 1} : revlog[r] = d.revlog[r]
  BY <1>3 DEF Over
<1> HIDE DEF revlog
<1>7. /\ e \in Collections(Usns) /\ e.revlog = revlog
      /\ e.rows = d.rows /\ e.graves = d.graves /\ e.conf = d.conf
      /\ e.usn = d.usn /\ e.mod = d.mod /\ e.scm = d.scm
  BY <1>1, <1>5 DEF Collections
<1> HIDE DEF e
<1>8. /\ e \in Collections(Usns)
      /\ DOMAIN e.revlog = DOMAIN d.revlog \cup {now + 1}
      /\ e.revlog[now + 1].usn = -1
      /\ \A r \in DOMAIN d.revlog \ {now + 1} : e.revlog[r] = d.revlog[r]
      /\ e.rows = d.rows /\ e.graves = d.graves /\ e.conf = d.conf
      /\ e.usn = d.usn /\ e.mod = d.mod /\ e.scm = d.scm
  BY <1>2, <1>6, <1>7
<1> QED BY <1>8 DEF e

\* A deletion takes one row and leaves a grave for it.
LEMMA DeletedFields ==
  ASSUME NEW d \in Collections(Usns), NEW id \in Ids
  PROVE  LET e == Deleted(d, id)
         IN /\ e \in Collections(Usns)
            /\ DOMAIN e.rows = DOMAIN d.rows \ {id}
            /\ \A i \in DOMAIN d.rows \ {id} : e.rows[i] = d.rows[i]
            /\ DOMAIN e.graves = DOMAIN d.graves \cup {id}
            /\ \A i \in DOMAIN d.graves : e.graves[i] = d.graves[i]
            /\ id \notin DOMAIN d.graves => e.graves[id].usn = -1
            /\ e.revlog = d.revlog /\ e.conf = d.conf
            /\ e.usn = d.usn /\ e.mod = d.mod /\ e.scm = d.scm
<1> DEFINE ids == {id}
           pending == -1
           e == ApplyGraves(d, ids, pending)
<1>1. pending \in Usns /\ ids \in IdSets
  BY DEF Usns, IdSets
<1>2. Deleted(d, id) = e
  BY DEF Deleted, ApplyGraves
<1> HIDE DEF ids, pending
<1>3. /\ e \in Collections(Usns)
      /\ DOMAIN e.rows = DOMAIN d.rows \ ids
      /\ \A i \in DOMAIN d.rows \ ids : e.rows[i] = d.rows[i]
      /\ DOMAIN e.graves = DOMAIN d.graves \cup ids
      /\ \A i \in DOMAIN d.graves : e.graves[i] = d.graves[i]
      /\ \A i \in ids \ DOMAIN d.graves : e.graves[i].usn = pending
      /\ e.revlog = d.revlog /\ e.conf = d.conf
      /\ e.usn = d.usn /\ e.mod = d.mod /\ e.scm = d.scm
  BY <1>1, ApplyGravesFields
<1> HIDE DEF e
<1> QED BY <1>2, <1>3 DEF ids, pending

---------------------------------------------------------------------------
(* Type correctness. *)

\* The parties, and the states in which nothing is going on, have their types.
LEMMA Constants ==
  /\ Server \in Parties /\ Server \notin Clients /\ Clients \subseteq Parties
  /\ Nat \subseteq Usns /\ NoIds \in ChunkIds /\ Idle \in Sessions /\ NoSync \in Servings
  /\ Collections(Nat) \subseteq Collections(Usns)
<1>1. Server \in Parties /\ Server \notin Clients /\ Clients \subseteq Parties
  BY PartiesAssumption DEF Parties
<1>2. Nat \subseteq Usns
  BY DEF Usns
<1>3. NoIds \in ChunkIds
  BY DEF NoIds, ChunkIds
<1>4. NoMeta \in Metas
  BY DEF NoMeta, Metas
<1>5. Idle \in Sessions
  BY <1>3, <1>4 DEF Idle, Sessions, Phases
<1>6. NoSync \in Servings
  BY <1>1, <1>3 DEF NoSync, Servings
<1>7. Collections(Nat) \subseteq Collections(Usns)
  BY <1>2, Widened
<1> QED BY <1>1, <1>2, <1>3, <1>5, <1>6, <1>7

\* A new collection has its type.
LEMMA FirstCollectionType ==
  ASSUME NEW n \in Nat
  PROVE  FirstCollection(n) \in Collections(Nat)
<1> DEFINE row == [edit |-> 0, usn |-> 0]
           rows == [i \in Initial |-> row]
           none == <<>>
<1>1. row \in Row(Nat)
  BY DEF Row
<1>2. rows = [i \in DOMAIN rows |-> rows[i]] /\ DOMAIN rows = Initial
      /\ \A i \in Initial : rows[i] = row
  OBVIOUS
<1> HIDE DEF row, rows
<1>3. rows \in Rows(Nat)
  BY <1>1, <1>2, IdsAssumption, IsTable DEF Rows
<1>4. none \in Graves(Nat) /\ none \in Reviews(Nat)
  BY EmptyTable DEF Graves, Reviews
<1> HIDE DEF none
<1>5. FirstCollection(n) =
        [rows |-> rows, graves |-> none, revlog |-> none, conf |-> 0, usn |-> n,
         mod |-> n, scm |-> 1]
  BY DEF FirstCollection, rows, row, none
<1> QED BY <1>3, <1>4, <1>5 DEF Collections

\* The types hold at the start.
LEMMA TypeInit == Init => TypeInv
<1> SUFFICES ASSUME Init PROVE TypeInv
  OBVIOUS
<1> USE Constants
<1>1. Cardinality(Clients) \in Nat
  BY PartiesAssumption, FS_CardinalityType
<1>2. PICK order \in Bijection(Clients, 1..Cardinality(Clients)) :
        db = [p \in Parties |-> FirstCollection(IF p = Server THEN Cardinality(Clients)
                                                ELSE order[p])]
  BY DEF Init
<1>3. \A c \in Clients : order[c] \in Nat
  <2>1. order \in [Clients -> 1..Cardinality(Clients)]
    BY DEF Bijection, Injection
  <2> QED BY <1>1, <2>1
<1>4. \A p \in Parties : db[p] \in Collections(Nat)
  <2> TAKE p \in Parties
  <2> DEFINE n == IF p = Server THEN Cardinality(Clients) ELSE order[p]
  <2>1. n \in Nat
    BY <1>1, <1>3 DEF Parties
  <2>2. db[p] = FirstCollection(n)
    BY <1>2
  <2> HIDE DEF n
  <2> QED BY <2>1, <2>2, FirstCollectionType
<1>5. db \in [Parties -> Collections(Usns)]
  BY <1>2, <1>4
<1>6. session \in [Clients -> Sessions] /\ ListsInv
  BY DEF Init, ListsInv, Idle
<1> QED BY <1>1, <1>4, <1>5, <1>6 DEF Init, TypeInv

\* A change by the client, between syncs.
LEMMA OperateType ==
  ASSUME TypeInv, NEW c \in Clients, NEW kind, NEW d \in Collections(Usns), Operate(c, kind, d)
  PROVE  TypeInv'
<1> USE Constants
<1> DEFINE e == [d EXCEPT !.mod = now + 1]
<1>1. now + 1 \in Nat
  BY DEF TypeInv
<1>2. e \in Collections(Usns)
  BY <1>1 DEF Collections
<1> HIDE DEF e
<1>3. /\ db' = [db EXCEPT ![c] = e] /\ committed' = [committed EXCEPT ![c] = db'[c]]
      /\ session' = session /\ serving' = serving /\ now' = now + 1
      /\ session[c].phase = "idle"
  BY DEF Operate, e
<1>4. /\ db' \in [Parties -> Collections(Usns)] /\ db'[Server] = db[Server] /\ db'[c] = e
      /\ \A p \in Clients \ {c} : db'[p] = db[p]
  BY <1>2, <1>3 DEF TypeInv
<1>5. /\ committed' \in [Parties -> Collections(Usns)] /\ committed'[Server] = committed[Server]
  BY <1>2, <1>3, <1>4 DEF TypeInv
<1>6. ListsInv'
  BY <1>3, <1>4 DEF TypeInv, ListsInv, Serving
<1> QED BY <1>1, <1>3, <1>4, <1>5, <1>6 DEF TypeInv

\* What a user does to a collection keeps the types.
LEMMA LocalType ==
  ASSUME TypeInv, NEW c \in Clients,
         \/ \E id \in Ids : Edit(c, id) \/ Add(c, id) \/ Delete(c, id)
         \/ \E card \in Cards : Review(c, card)
         \/ SetConfig(c)
         \/ ChangeSchema(c)
  PROVE  TypeInv'
<1> USE Constants
<1>0. now \in Nat /\ now + 1 \in Nat /\ db[c] \in Collections(Usns)
  BY DEF TypeInv
<1>1. CASE \E id \in Ids : Edit(c, id) \/ Add(c, id)
  <2>1. PICK id \in Ids, kind \in {"edit", "add"} : Operate(c, kind, WithRow(db[c], id))
    BY <1>1 DEF Edit, Add
  <2>2. WithRow(db[c], id) \in Collections(Usns)
    BY <1>0, WithRowFields
  <2> QED BY <2>1, <2>2, OperateType
<1>2. CASE \E id \in Ids : Delete(c, id)
  <2>1. PICK id \in Ids : Operate(c, "delete", Deleted(db[c], id))
    BY <1>2 DEF Delete, Deleted
  <2>2. Deleted(db[c], id) \in Collections(Usns)
    BY <1>0, DeletedFields
  <2> QED BY <2>1, <2>2, OperateType
<1>3. CASE \E card \in Cards : Review(c, card)
  <2>1. PICK card \in Cards : Operate(c, "review", WithReview(WithRow(db[c], card), card))
    BY <1>3 DEF Review, WithReview
  <2>2. card \in Ids
    BY DEF Ids
  <2>3. WithRow(db[c], card) \in Collections(Usns)
    BY <1>0, <2>2, WithRowFields
  <2>4. WithReview(WithRow(db[c], card), card) \in Collections(Usns)
    BY <1>0, <2>3, WithReviewFields
  <2> QED BY <2>1, <2>4, OperateType
<1>4. CASE SetConfig(c)
  <2>1. [db[c] EXCEPT !.conf = now + 1] \in Collections(Usns)
    BY <1>0 DEF Collections
  <2> QED BY <1>4, <2>1, OperateType DEF SetConfig
<1>5. CASE ChangeSchema(c)
  <2>1. [db[c] EXCEPT !.scm = now + 1] \in Collections(Usns)
    BY <1>0 DEF Collections
  <2> QED BY <1>5, <2>1, OperateType DEF ChangeSchema
<1> QED BY <1>1, <1>2, <1>3, <1>4, <1>5

\* A step of client c in a sync, by what it leaves at the client and the server.
\* The lists that other clients go by are left alone, or the server forgets them.
LEMMA SyncStepType ==
  ASSUME TypeInv, NEW c \in Clients,
         NEW mine \in Collections(Usns), NEW theirs \in Collections(Nat),
         db' = [db EXCEPT ![c] = mine, ![Server] = theirs],
         committed' \in [Parties -> Collections(Usns)], committed'[Server] \in Collections(Nat),
         NEW own \in Sessions, session' = [session EXCEPT ![c] = own],
         serving' \in Servings, now' \in Nat,
         \/ serving'.skey \in {c, Server}
         \/ serving' = serving /\ theirs = db[Server],
         own.phase \in {"graves", "changes"} /\ serving'.skey = c => ~ serving'.listed,
         own.phase = "send" => Within(own.ids, mine),
         own.phase = "receive" /\ serving'.skey = c /\ serving'.listed =>
           Within(serving'.ids, theirs)
  PROVE  TypeInv'
<1> USE Constants
<1>1. /\ db' \in [Parties -> Collections(Usns)] /\ db'[Server] = theirs /\ db'[c] = mine
      /\ \A p \in Clients \ {c} : db'[p] = db[p]
  BY DEF TypeInv
<1>2. /\ session' \in [Clients -> Sessions] /\ session'[c] = own
      /\ \A p \in Clients \ {c} : session'[p] = session[p]
  BY DEF TypeInv
<1>3. \A p \in Clients :
        /\ session'[p].phase \in {"graves", "changes"} /\ serving'.skey = p => ~ serving'.listed
        /\ session'[p].phase = "send" => Within(session'[p].ids, db'[p])
        /\ session'[p].phase = "receive" /\ serving'.skey = p /\ serving'.listed =>
             Within(serving'.ids, db'[Server])
  <2>1. \A p \in Clients :
          /\ session[p].phase \in {"graves", "changes"} /\ serving.skey = p => ~ serving.listed
          /\ session[p].phase = "send" => Within(session[p].ids, db[p])
          /\ session[p].phase = "receive" /\ serving.skey = p /\ serving.listed =>
               Within(serving.ids, db[Server])
    BY DEF TypeInv, ListsInv, Serving
  <2> QED BY <1>1, <1>2, <2>1
<1>4. ListsInv'
  BY <1>3 DEF ListsInv, Serving, Within
<1> QED BY <1>1, <1>2, <1>4 DEF TypeInv

\* What the types say of one client, its session and the server.
LEMMA TypeFields ==
  ASSUME TypeInv, NEW c \in Clients
  PROVE  /\ db[c] \in Collections(Usns) /\ committed[c] \in Collections(Usns)
         /\ db[Server] \in Collections(Nat) /\ committed[Server] \in Collections(Nat)
         /\ db[Server] \in Collections(Usns) /\ committed[Server] \in Collections(Usns)
         /\ session[c] \in Sessions /\ session[c].meta \in Metas /\ session[c].meta.usn \in Nat
         /\ session[c].graves \in IdSets /\ session[c].ids \in ChunkIds
         /\ serving \in Servings /\ serving.ids \in ChunkIds /\ serving.client_usn \in Nat
         /\ serving.client_is_newer \in BOOLEAN
         /\ now \in Nat /\ now + 1 \in Nat
<1> USE Constants
<1>1. session[c] \in Sessions /\ serving \in Servings
  BY DEF TypeInv
<1>2. session[c].meta \in Metas /\ session[c].graves \in IdSets /\ session[c].ids \in ChunkIds
  BY <1>1 DEF Sessions, IdSets
<1>3. /\ serving.ids \in ChunkIds /\ serving.client_usn \in Nat
      /\ serving.client_is_newer \in BOOLEAN
  BY <1>1 DEF Servings
<1>4. session[c].meta.usn \in Nat
  BY <1>2 DEF Metas
<1> QED BY <1>1, <1>2, <1>3, <1>4 DEF TypeInv

\* Asking for the server's state keeps the types.
LEMMA MetaType ==
  ASSUME TypeInv, NEW c \in Clients, Meta(c)
  PROVE  TypeInv'
<1> USE Constants, TypeFields
<1> DEFINE remote == MetaOf(committed[Server])
           phase == IF remote.scm # MetaOf(db[c]).scm THEN "full" ELSE "meta"
           own == IF remote.mod = MetaOf(db[c]).mod THEN Idle
                  ELSE [Idle EXCEPT !.phase = phase, !.meta = remote]
<1>1. remote \in Metas
  BY CollectionTables DEF MetaOf, Metas
<1>2. own \in Sessions /\ own.phase \in {"idle", "meta", "full"}
  <2>1. phase \in {"meta", "full"} /\ phase \in Phases
    BY DEF Phases
  <2>2. Idle \in Sessions /\ Idle.phase = "idle"
    BY DEF Idle
  <2> HIDE DEF phase, remote
  <2>3. [Idle EXCEPT !.phase = phase, !.meta = remote] \in Sessions
    BY <1>1, <2>1, <2>2 DEF Sessions
  <2>4. [Idle EXCEPT !.phase = phase, !.meta = remote].phase = phase
    BY <2>2 DEF Sessions
  <2> QED BY <2>1, <2>2, <2>3, <2>4
<1>3. /\ serving' = NoSync /\ db' = [db EXCEPT ![Server] = committed[Server]]
      /\ session' = [session EXCEPT ![c] = own]
      /\ committed' = committed /\ now' = now
  BY DEF Meta
<1> HIDE DEF own
<1>4. db' = [db EXCEPT ![c] = db[c], ![Server] = committed[Server]]
  BY <1>3 DEF TypeInv
<1>5. NoSync.skey = Server /\ ~ NoSync.listed
  BY DEF NoSync
<1>6. /\ serving' \in Servings /\ now' \in Nat /\ serving'.skey \in {c, Server}
      /\ committed' \in [Parties -> Collections(Usns)] /\ committed'[Server] \in Collections(Nat)
  BY <1>3, <1>5 DEF TypeInv
<1> QED BY <1>2, <1>3, <1>4, <1>5, <1>6, SyncStepType

\* Starting a sync keeps the types.
LEMMA StartType ==
  ASSUME TypeInv, NEW c \in Clients, Start(c)
  PROVE  TypeInv'
<1> USE Constants, TypeFields
<1> DEFINE asked == Pending(committed[Server].graves, db[c].usn)
           own == [session[c] EXCEPT !.phase = "graves", !.graves = asked]
           new == [NoSync EXCEPT !.skey = c, !.client_usn = db[c].usn,
                                 !.client_is_newer = LocalIsNewer(c)]
<1>1. asked \subseteq Ids
  BY CollectionTables DEF Pending
<1>2. own \in Sessions /\ own.phase = "graves"
  <2> HIDE DEF asked
  <2> QED BY <1>1 DEF Sessions, Phases
<1>3. new \in Servings /\ new.skey = c /\ ~ new.listed
  <2>1. db[c].usn \in Nat /\ c \in Parties
    BY CollectionTables
  <2>2. LocalIsNewer(c) \in BOOLEAN
    BY DEF LocalIsNewer
  <2>3. ~ NoSync.listed
    BY DEF NoSync
  <2> QED BY <2>1, <2>2, <2>3 DEF Servings
<1>4. /\ serving' = new /\ db' = [db EXCEPT ![Server] = committed[Server]]
      /\ session' = [session EXCEPT ![c] = own]
      /\ committed' = committed /\ now' = now
  BY DEF Start
<1> HIDE DEF own, new
<1>5. db' = [db EXCEPT ![c] = db[c], ![Server] = committed[Server]]
  BY <1>4 DEF TypeInv
<1>6. /\ serving' \in Servings /\ now' \in Nat /\ serving'.skey \in {c, Server}
      /\ committed' \in [Parties -> Collections(Usns)] /\ committed'[Server] \in Collections(Nat)
      /\ ~ serving'.listed
  BY <1>3, <1>4 DEF TypeInv
<1> QED BY <1>2, <1>4, <1>5, <1>6, SyncStepType

\* What an exchange leaves at the client and at the server.
GravesHere(c) ==
  ApplyGraves(SentGraves(db[c], session[c].meta.usn), session[c].graves, session[c].meta.usn)
GravesThere(c) == ApplyGraves(db[Server], Pending(db[c].graves, -1), db[Server].usn)

DecksThere(c) ==
  Restrict(db[Server].rows, Pending(db[Server].rows, serving.client_usn) \cap Decks)
MergedHere(c) == MergeDecks(SentDecks(db[c], session[c].meta.usn), DecksThere(c))
MergedThere(c) == MergeDecks(db[Server], DeckRows(db[c], session[c].meta.usn))
ChangesHere(c) ==
  [MergedHere(c) EXCEPT !.conf = IF serving.client_is_newer THEN @ ELSE db[Server].conf]
ChangesThere(c) ==
  [MergedThere(c) EXCEPT !.conf = IF serving.client_is_newer THEN db[c].conf ELSE @]

\* What the server has still to send, and what it will collect when first asked.
Outstanding ==
  IF serving.listed THEN serving.ids ELSE ChunkableIds(db[Server], serving.client_usn)
Next1 == NextIds(db[Server], Outstanding)
ReceivedHere(c) == ApplyChunk(db[c], ChunkOf(db[Server], Next1), -1)

Next2(c) == NextIds(db[c], session[c].ids)
SentHere(c) == StampChunk(db[c], Next2(c), session[c].meta.usn)
SentThere(c) ==
  ApplyChunk(db[Server], SentChunk(db[c], Next2(c), session[c].meta.usn), serving.client_usn)

\* What the exchange of graves does to either side.
LEMMA ExchangeGravesShape ==
  ASSUME TypeInv, NEW c \in Clients, ExchangeGraves(c)
  PROVE  /\ session[c].phase = "graves" /\ serving.skey = c
         /\ db' = [db EXCEPT ![c] = GravesHere(c), ![Server] = GravesThere(c)]
         /\ session' = [session EXCEPT ![c] = [session[c] EXCEPT !.phase = "changes"]]
         /\ committed' = committed /\ serving' = serving /\ now' = now
<1> USE Constants, TypeFields
<1>1. [db EXCEPT ![c] = GravesHere(c)][Server] = db[Server]
  BY DEF TypeInv
<1> QED BY <1>1 DEF ExchangeGraves, Serving, Goto, GravesHere, GravesThere, SentGraves

\* Either side's collection is typed after the exchange of graves.
LEMMA GravesTypes ==
  ASSUME TypeInv, NEW c \in Clients
  PROVE  /\ SentGraves(db[c], session[c].meta.usn) \in Collections(Usns)
         /\ Pending(db[c].graves, -1) \in IdSets
         /\ GravesHere(c) \in Collections(Usns) /\ GravesThere(c) \in Collections(Nat)
<1> USE Constants, TypeFields
<1> DEFINE sent == SentGraves(db[c], session[c].meta.usn)
           mine == Pending(db[c].graves, -1)
           usn == session[c].meta.usn
<1>1. sent \in Collections(Usns)
  BY SentGravesFields
<1>2. mine \in IdSets
  BY CollectionTables DEF Pending, IdSets
<1>3. db[Server].usn \in Nat /\ usn \in Usns
  BY CollectionTables
<1> HIDE DEF sent, mine, usn
<1>4. ApplyGraves(sent, session[c].graves, usn) \in Collections(Usns)
  BY <1>1, <1>3, ApplyGravesFields
<1>5. ApplyGraves(db[Server], mine, db[Server].usn) \in Collections(Nat)
  BY <1>2, <1>3, ApplyGravesFields
<1> QED BY <1>1, <1>2, <1>4, <1>5 DEF GravesHere, GravesThere, sent, mine, usn

\* The exchange of graves keeps the types.
LEMMA ExchangeGravesType ==
  ASSUME TypeInv, NEW c \in Clients, ExchangeGraves(c)
  PROVE  TypeInv'
<1> USE Constants, TypeFields
<1> DEFINE own == [session[c] EXCEPT !.phase = "changes"]
<1>1. own \in Sessions /\ own.phase = "changes"
  BY DEF Sessions, Phases
<1>2. /\ serving' \in Servings /\ now' \in Nat /\ serving'.skey \in {c, Server}
      /\ committed' \in [Parties -> Collections(Usns)] /\ committed'[Server] \in Collections(Nat)
  BY ExchangeGravesShape DEF TypeInv
<1>3. /\ db' = [db EXCEPT ![c] = GravesHere(c), ![Server] = GravesThere(c)]
      /\ session' = [session EXCEPT ![c] = own]
  BY ExchangeGravesShape
<1>4. GravesHere(c) \in Collections(Usns) /\ GravesThere(c) \in Collections(Nat)
  BY GravesTypes
<1>5. ~ serving'.listed
  <2>1. session[c].phase = "graves" /\ Serving(c) /\ serving' = serving
    BY ExchangeGravesShape DEF Serving
  <2> QED BY <2>1 DEF TypeInv, ListsInv
<1> HIDE DEF own
<1> QED BY <1>1, <1>2, <1>3, <1>4, <1>5, SyncStepType

\* What the exchange of decks and configuration does to either side.
LEMMA ExchangeChangesShape ==
  ASSUME TypeInv, NEW c \in Clients, ExchangeChanges(c)
  PROVE  /\ session[c].phase = "changes" /\ serving.skey = c
         /\ db' = [db EXCEPT ![c] = ChangesHere(c), ![Server] = ChangesThere(c)]
         /\ session' = [session EXCEPT ![c] = [session[c] EXCEPT !.phase = "receive"]]
         /\ committed' = committed /\ serving' = serving /\ now' = now
<1> USE Constants, TypeFields
<1>1. \A mine : [db EXCEPT ![c] = mine][Server] = db[Server]
  BY DEF TypeInv
<1> DEFINE mine == Pending(db[c].rows, -1) \cap Decks
           sent == [db[c] EXCEPT !.rows = Stamped(@, mine, session[c].meta.usn)]
<1>2. sent = SentDecks(db[c], session[c].meta.usn)
  BY DEF SentDecks
<1>3. DeckRows(db[c], session[c].meta.usn) = Restrict(sent.rows, mine)
  BY <1>2 DEF DeckRows
<1>4. /\ session[c].phase = "changes" /\ serving.skey = c
      /\ session' = [session EXCEPT ![c] = [session[c] EXCEPT !.phase = "receive"]]
      /\ committed' = committed /\ serving' = serving /\ now' = now
  BY DEF ExchangeChanges, Serving, Goto
<1> DEFINE here == [MergeDecks(sent, DecksThere(c)) EXCEPT
                      !.conf = IF ~ serving.client_is_newer THEN db[Server].conf ELSE @]
           there(d) == [MergeDecks(d, Restrict(sent.rows, mine)) EXCEPT
                          !.conf = IF serving.client_is_newer THEN db[c].conf ELSE @]
<1>5. db' = [db EXCEPT ![c] = here, ![Server] = there(db[Server])]
  BY DEF ExchangeChanges, ServerSendsConf, DecksThere
<1> HIDE DEF sent, mine
<1>6. here = ChangesHere(c)
  BY <1>2 DEF ChangesHere, MergedHere
<1>7. there(db[Server]) = ChangesThere(c)
  BY <1>3 DEF ChangesThere, MergedThere
<1> HIDE DEF here, there
<1>8. db' = [db EXCEPT ![c] = ChangesHere(c), ![Server] = ChangesThere(c)]
  BY <1>1, <1>5, <1>6, <1>7
<1> QED BY <1>4, <1>8

\* Either side's collection is typed after the exchange of decks.
LEMMA ChangesTypes ==
  ASSUME TypeInv, NEW c \in Clients
  PROVE  /\ SentDecks(db[c], session[c].meta.usn) \in Collections(Usns)
         /\ DecksThere(c) \in Rows(Nat) /\ DecksThere(c) \in Rows(Usns)
         /\ DeckRows(db[c], session[c].meta.usn) \in Rows(Nat)
         /\ MergedHere(c) \in Collections(Usns) /\ MergedThere(c) \in Collections(Nat)
         /\ ChangesHere(c) \in Collections(Usns) /\ ChangesThere(c) \in Collections(Nat)
<1> USE Constants, TypeFields
<1> DEFINE sent == SentDecks(db[c], session[c].meta.usn)
           decks == DeckRows(db[c], session[c].meta.usn)
<1>1. sent \in Collections(Usns)
  BY SentDecksFields
<1>2. decks \in Rows(Nat)
  BY SentDecksFields
<1>3. DecksThere(c) \in Rows(Nat)
  <2> DEFINE ids == Pending(db[Server].rows, serving.client_usn) \cap Decks
  <2>1. ids \subseteq DOMAIN db[Server].rows
    BY DEF Pending
  <2>2. db[Server].rows \in Tables(Ids, Row(Nat))
    BY CollectionTables DEF Rows
  <2> HIDE DEF ids
  <2>3. Restrict(db[Server].rows, ids) \in Tables(Ids, Row(Nat))
    BY <2>1, <2>2, RestrictTable
  <2> QED BY <2>3 DEF DecksThere, Rows, ids
<1>4. DecksThere(c) \in Rows(Usns)
  BY <1>3, Widened
<1> HIDE DEF sent, decks
<1>5. MergeDecks(sent, DecksThere(c)) \in Collections(Usns)
  BY <1>1, <1>4, MergeDecksFields
<1>6. MergeDecks(db[Server], decks) \in Collections(Nat)
  BY <1>2, MergeDecksFields
<1>7. MergedHere(c) \in Collections(Usns) /\ MergedThere(c) \in Collections(Nat)
  BY <1>5, <1>6 DEF MergedHere, MergedThere, sent, decks
<1>8. db[c].conf \in Nat /\ db[Server].conf \in Nat
  BY CollectionTables
<1>9. ChangesHere(c) \in Collections(Usns)
  BY <1>7, <1>8 DEF ChangesHere, Collections
<1>10. ChangesThere(c) \in Collections(Nat)
  BY <1>7, <1>8 DEF ChangesThere, Collections
<1> QED BY <1>1, <1>2, <1>3, <1>4, <1>7, <1>9, <1>10 DEF sent, decks

\* The exchange of decks and configuration keeps the types.
LEMMA ExchangeChangesType ==
  ASSUME TypeInv, NEW c \in Clients, ExchangeChanges(c)
  PROVE  TypeInv'
<1> USE Constants, TypeFields
<1> DEFINE own == [session[c] EXCEPT !.phase = "receive"]
<1>1. own \in Sessions /\ own.phase = "receive"
  BY DEF Sessions, Phases
<1>2. /\ serving' \in Servings /\ now' \in Nat /\ serving'.skey \in {c, Server}
      /\ committed' \in [Parties -> Collections(Usns)] /\ committed'[Server] \in Collections(Nat)
  BY ExchangeChangesShape DEF TypeInv
<1>3. /\ db' = [db EXCEPT ![c] = ChangesHere(c), ![Server] = ChangesThere(c)]
      /\ session' = [session EXCEPT ![c] = own]
  BY ExchangeChangesShape
<1>4. ChangesHere(c) \in Collections(Usns) /\ ChangesThere(c) \in Collections(Nat)
  BY ChangesTypes
<1>5. ~ serving'.listed
  <2>1. session[c].phase = "changes" /\ Serving(c) /\ serving' = serving
    BY ExchangeChangesShape DEF Serving
  <2> QED BY <2>1 DEF TypeInv, ListsInv
<1> HIDE DEF own
<1> QED BY <1>1, <1>2, <1>3, <1>4, <1>5, SyncStepType

\* What receiving a chunk does to the client and to the server's list.
LEMMA ReceiveChunkShape ==
  ASSUME TypeInv, NEW c \in Clients, ReceiveChunk(c)
  PROVE  /\ session[c].phase = "receive" /\ serving.skey = c
         /\ db' = [db EXCEPT ![c] = ReceivedHere(c)]
         /\ serving' = [serving EXCEPT !.listed = TRUE, !.ids = Without(Outstanding, Next1)]
         /\ IF IsDone(Next1)
            THEN session' = [session EXCEPT
                   ![c] = [session[c] EXCEPT !.phase = "send",
                                             !.ids = ChunkableIds(ReceivedHere(c), -1)]]
            ELSE session' = session
         /\ committed' = committed /\ now' = now
<1> USE Constants, TypeFields
<1>1. session[c].phase = "receive" /\ serving.skey = c /\ committed' = committed /\ now' = now
  BY DEF ReceiveChunk, Serving
<1>2. PICK next \in {NextIds(db[Server], Outstanding)} :
        \E merged \in {ApplyChunk(db[c], ChunkOf(db[Server], next), -1)} :
           /\ serving' = [serving EXCEPT !.listed = TRUE, !.ids = Without(Outstanding, next)]
           /\ db' = [db EXCEPT ![c] = merged]
           /\ session' = IF IsDone(next)
                THEN [session EXCEPT ![c].phase = "send",
                                     ![c].ids = ChunkableIds(merged, -1)]
                ELSE session
  BY DEF ReceiveChunk, Outstanding
<1>3. next = Next1
  BY DEF Next1
<1> HIDE DEF Next1
<1>4. PICK merged : /\ merged = ReceivedHere(c)
           /\ serving' = [serving EXCEPT !.listed = TRUE, !.ids = Without(Outstanding, next)]
           /\ db' = [db EXCEPT ![c] = merged]
           /\ session' = IF IsDone(next)
                THEN [session EXCEPT ![c].phase = "send",
                                     ![c].ids = ChunkableIds(merged, -1)]
                ELSE session
  BY <1>2, <1>3 DEF ReceivedHere
<1>5. [session EXCEPT ![c].phase = "send", ![c].ids = ChunkableIds(merged, -1)]
        = [session EXCEPT
             ![c] = [session[c] EXCEPT !.phase = "send", !.ids = ChunkableIds(merged, -1)]]
  BY DEF TypeInv
<1> QED BY <1>1, <1>3, <1>4, <1>5

\* What is listed for chunks is in the collection.
LEMMA ChunkableListed ==
  ASSUME NEW usns, NEW d \in Collections(usns), NEW pending_usn
  PROVE  /\ ChunkableIds(d, pending_usn) \in ChunkIds
         /\ Within(ChunkableIds(d, pending_usn), d)
<1>1. DOMAIN d.rows \subseteq Ids /\ DOMAIN d.revlog \subseteq Nat
  BY CollectionTables
<1> QED BY <1>1 DEF ChunkableIds, ChunkIds, Within, Pending

\* So is what the server has yet to send.
LEMMA OutstandingListed ==
  ASSUME TypeInv, NEW c \in Clients, session[c].phase = "receive", serving.skey = c
  PROVE  Outstanding \in ChunkIds /\ Within(Outstanding, db[Server])
<1> USE Constants, TypeFields
<1>1. serving.listed => Within(serving.ids, db[Server])
  BY DEF TypeInv, ListsInv, Serving
<1>2. /\ ChunkableIds(db[Server], serving.client_usn) \in ChunkIds
      /\ Within(ChunkableIds(db[Server], serving.client_usn), db[Server])
  BY ChunkableListed
<1> QED BY <1>1, <1>2 DEF Outstanding

\* So are the next chunk and what is left after it.
LEMMA WithinPart ==
  ASSUME NEW d, NEW ids \in ChunkIds, Within(ids, d)
  PROVE  Within(NextIds(d, ids), d) /\ Within(Without(ids, NextIds(d, ids)), d)
<1> DEFINE next == NextIds(d, ids)
<1>1. /\ next.revlog \subseteq ids.revlog
      /\ next.cards \subseteq ids.cards /\ next.notes \subseteq ids.notes
  BY NextIdsListed
<1> HIDE DEF next
<1>2. Within(next, d) /\ Within(Without(ids, next), d)
  BY <1>1 DEF Within, Without
<1> QED BY <1>2 DEF next

\* The client's collection is typed after it has received a chunk.
LEMMA ReceiveTypes ==
  ASSUME TypeInv, NEW c \in Clients, session[c].phase = "receive", serving.skey = c
  PROVE  /\ Next1 \in ChunkIds /\ Within(Next1, db[Server])
         /\ Without(Outstanding, Next1) \in ChunkIds
         /\ Within(Without(Outstanding, Next1), db[Server])
         /\ ChunkOf(db[Server], Next1) \in Chunks(Usns)
         /\ ReceivedHere(c) \in Collections(Usns)
<1> USE Constants, TypeFields
<1>1. Outstanding \in ChunkIds /\ Within(Outstanding, db[Server])
  BY OutstandingListed
<1>2. Next1 \in ChunkIds /\ Without(Outstanding, Next1) \in ChunkIds
  BY <1>1, NextIdsListed DEF Next1
<1>3. Within(Next1, db[Server]) /\ Within(Without(Outstanding, Next1), db[Server])
  BY <1>1, WithinPart DEF Next1
<1>4. ChunkOf(db[Server], Next1) \in Chunks(Usns)
  BY <1>2, <1>3, ChunkFields
<1>5. ReceivedHere(c) \in Collections(Usns)
  BY <1>4, ApplyChunkFields DEF ReceivedHere
<1> QED BY <1>2, <1>3, <1>4, <1>5

\* Receiving a chunk keeps the types.
LEMMA ReceiveChunkType ==
  ASSUME TypeInv, NEW c \in Clients, ReceiveChunk(c)
  PROVE  TypeInv'
<1> USE Constants, TypeFields
<1> DEFINE sending == [session[c] EXCEPT !.phase = "send",
                                         !.ids = ChunkableIds(ReceivedHere(c), -1)]
           own == IF IsDone(Next1) THEN sending ELSE session[c]
<1>1. /\ session[c].phase = "receive" /\ serving.skey = c
      /\ db' = [db EXCEPT ![c] = ReceivedHere(c)]
      /\ serving' = [serving EXCEPT !.listed = TRUE, !.ids = Without(Outstanding, Next1)]
      /\ committed' = committed /\ now' = now
  BY ReceiveChunkShape
<1>2. /\ Without(Outstanding, Next1) \in ChunkIds
      /\ Within(Without(Outstanding, Next1), db[Server])
      /\ ReceivedHere(c) \in Collections(Usns)
  BY <1>1, ReceiveTypes
<1>3. /\ ChunkableIds(ReceivedHere(c), -1) \in ChunkIds
      /\ Within(ChunkableIds(ReceivedHere(c), -1), ReceivedHere(c))
  BY <1>2, ChunkableListed
<1>4. /\ sending \in Sessions /\ sending.phase = "send"
      /\ Within(sending.ids, ReceivedHere(c))
  <2> DEFINE ids == ChunkableIds(ReceivedHere(c), -1)
  <2> HIDE DEF ids
  <2>1. ids \in ChunkIds /\ Within(ids, ReceivedHere(c)) /\ "send" \in Phases
    BY <1>3 DEF ids, Phases
  <2>2. sending = [session[c] EXCEPT !.phase = "send", !.ids = ids]
    BY DEF ids
  <2> QED BY <2>1, <2>2 DEF Sessions
<1>5. session' = [session EXCEPT ![c] = own]
  <2>1. session = [session EXCEPT ![c] = session[c]]
    BY DEF TypeInv
  <2>2. IF IsDone(Next1) THEN session' = [session EXCEPT ![c] = sending]
                         ELSE session' = session
    BY ReceiveChunkShape
  <2> HIDE DEF sending
  <2> QED BY <2>1, <2>2
<1> HIDE DEF sending
<1>6. /\ own \in Sessions /\ own.phase \in {"send", "receive"}
      /\ own.phase = "send" => Within(own.ids, ReceivedHere(c))
  BY <1>1, <1>4
<1> HIDE DEF own
<1>7. /\ serving' \in Servings /\ serving'.skey = c
      /\ Within(serving'.ids, db[Server])
  <2> DEFINE ids == Without(Outstanding, Next1)
  <2> HIDE DEF ids
  <2>1. ids \in ChunkIds /\ serving' = [serving EXCEPT !.listed = TRUE, !.ids = ids]
    BY <1>1, <1>2 DEF ids
  <2>2. serving' \in Servings /\ serving'.skey = c /\ serving'.ids = ids
    BY <1>1, <2>1 DEF Servings
  <2> QED BY <1>2, <2>2 DEF ids
<1>8. db' = [db EXCEPT ![c] = ReceivedHere(c), ![Server] = db[Server]]
  BY <1>1 DEF TypeInv
<1>9. /\ committed' \in [Parties -> Collections(Usns)] /\ committed'[Server] \in Collections(Nat)
      /\ now' \in Nat
  BY <1>1 DEF TypeInv
<1> QED BY <1>2, <1>5, <1>6, <1>7, <1>8, <1>9, SyncStepType

\* What sending a chunk does to either side.
LEMMA SendChunkShape ==
  ASSUME TypeInv, NEW c \in Clients, SendChunk(c)
  PROVE  /\ session[c].phase = "send" /\ serving.skey = c
         /\ db' = [db EXCEPT ![c] = SentHere(c), ![Server] = SentThere(c)]
         /\ session' = [session EXCEPT
              ![c] = [session[c] EXCEPT
                        !.ids = Without(session[c].ids, Next2(c)),
                        !.phase = IF IsDone(Next2(c)) THEN "sanity" ELSE "send"]]
         /\ serving' = serving /\ committed' = committed /\ now' = now
<1> USE Constants, TypeFields
<1>1. /\ session[c].phase = "send" /\ serving.skey = c
      /\ serving' = serving /\ committed' = committed /\ now' = now
  BY DEF SendChunk, Serving
<1> DEFINE stay(n) == IF IsDone(n) THEN "sanity" ELSE "send"
<1>2. PICK next \in {Next2(c)} :
        \E sent \in {StampChunk(db[c], next, session[c].meta.usn)} :
          /\ db' = [db EXCEPT
               ![c] = sent,
               ![Server] = ApplyChunk(@, ChunkOf(sent, next), serving.client_usn)]
          /\ session' = [session EXCEPT
               ![c].ids = Without(@, next),
               ![c].phase = IF IsDone(next) THEN "sanity" ELSE @]
  BY DEF SendChunk, Next2
<1>3. next = Next2(c)
  OBVIOUS
<1> HIDE DEF Next2
<1>4. PICK sent :
          /\ sent = SentHere(c)
          /\ db' = [db EXCEPT
               ![c] = sent,
               ![Server] = ApplyChunk(@, ChunkOf(sent, next), serving.client_usn)]
          /\ session' = [session EXCEPT
               ![c].ids = Without(@, next),
               ![c].phase = IF IsDone(next) THEN "sanity" ELSE @]
  BY <1>2, <1>3 DEF SentHere
<1>5. db' = [db EXCEPT ![c] = SentHere(c), ![Server] = SentThere(c)]
  <2>1. ChunkOf(sent, next) = SentChunk(db[c], Next2(c), session[c].meta.usn)
    BY <1>3, <1>4 DEF SentChunk, SentHere
  <2>2. ApplyChunk(db[Server], ChunkOf(sent, next), serving.client_usn) = SentThere(c)
    BY <2>1 DEF SentThere
  <2>3. [db EXCEPT ![c] = sent][Server] = db[Server]
    BY DEF TypeInv
  <2> QED BY <1>4, <2>2, <2>3
<1>6. session' = [session EXCEPT
              ![c] = [session[c] EXCEPT
                        !.ids = Without(session[c].ids, next),
                        !.phase = stay(next)]]
  <2> DEFINE left == Without(session[c].ids, next)
             phase == stay(next)
  <2>1. session' = [session EXCEPT
               ![c].ids = Without(@, next),
               ![c].phase = IF IsDone(next) THEN "sanity" ELSE @]
    BY <1>4
  <2>2. session \in [Clients -> Sessions]
    BY DEF TypeInv
  <2>3. session' = [session EXCEPT ![c].ids = left, ![c].phase = phase]
    BY <1>1, <2>1, <2>2 DEF Sessions
  <2> HIDE DEF left, phase
  <2>4. session' = [session EXCEPT ![c] = [session[c] EXCEPT !.ids = left, !.phase = phase]]
    BY <2>2, <2>3
  <2> QED BY <2>4 DEF left, phase
<1> QED BY <1>1, <1>3, <1>5, <1>6

\* Either side's collection is typed after a chunk has been sent.
LEMMA SendTypes ==
  ASSUME TypeInv, NEW c \in Clients, session[c].phase = "send"
  PROVE  /\ Within(session[c].ids, db[c])
         /\ Next2(c) \in ChunkIds /\ Within(Next2(c), db[c])
         /\ Without(session[c].ids, Next2(c)) \in ChunkIds
         /\ Within(Without(session[c].ids, Next2(c)), SentHere(c))
         /\ SentChunk(db[c], Next2(c), session[c].meta.usn) \in Chunks(Nat)
         /\ SentHere(c) \in Collections(Usns) /\ SentThere(c) \in Collections(Nat)
<1> USE Constants, TypeFields
<1>1. Within(session[c].ids, db[c])
  BY DEF TypeInv, ListsInv
<1>2. Next2(c) \in ChunkIds /\ Without(session[c].ids, Next2(c)) \in ChunkIds
  BY NextIdsListed DEF Next2
<1>3. Within(Next2(c), db[c]) /\ Within(Without(session[c].ids, Next2(c)), db[c])
  BY <1>1, WithinPart DEF Next2
<1>4. SentChunk(db[c], Next2(c), session[c].meta.usn) \in Chunks(Nat)
  BY <1>2, <1>3, SentChunkFields
<1>5. session[c].meta.usn \in Usns
  OBVIOUS
<1>6. /\ SentHere(c) \in Collections(Usns)
      /\ DOMAIN SentHere(c).rows = DOMAIN db[c].rows
      /\ DOMAIN SentHere(c).revlog = DOMAIN db[c].revlog
  BY <1>5, StampChunkFields DEF SentHere
<1>7. Within(Without(session[c].ids, Next2(c)), SentHere(c))
  BY <1>3, <1>6 DEF Within
<1>8. SentThere(c) \in Collections(Nat)
  BY <1>4, ApplyChunkFields DEF SentThere
<1> QED BY <1>1, <1>2, <1>3, <1>4, <1>6, <1>7, <1>8

\* Sending a chunk keeps the types.
LEMMA SendChunkType ==
  ASSUME TypeInv, NEW c \in Clients, SendChunk(c)
  PROVE  TypeInv'
<1> USE Constants, TypeFields
<1> DEFINE phase == IF IsDone(Next2(c)) THEN "sanity" ELSE "send"
           ids == Without(session[c].ids, Next2(c))
           own == [session[c] EXCEPT !.ids = ids, !.phase = phase]
<1>1. /\ session[c].phase = "send" /\ serving.skey = c
      /\ db' = [db EXCEPT ![c] = SentHere(c), ![Server] = SentThere(c)]
      /\ session' = [session EXCEPT ![c] = own]
      /\ serving' = serving /\ committed' = committed /\ now' = now
  BY SendChunkShape
<1>2. /\ ids \in ChunkIds /\ Within(ids, SentHere(c))
      /\ SentHere(c) \in Collections(Usns) /\ SentThere(c) \in Collections(Nat)
  BY <1>1, SendTypes
<1>3. phase \in Phases /\ phase \in {"sanity", "send"}
  BY DEF Phases
<1> HIDE DEF ids, phase
<1>4. own \in Sessions /\ own.phase = phase /\ own.ids = ids
  BY <1>2, <1>3 DEF Sessions
<1> HIDE DEF own
<1>5. /\ committed' \in [Parties -> Collections(Usns)] /\ committed'[Server] \in Collections(Nat)
      /\ now' \in Nat /\ serving' \in Servings /\ serving'.skey = c
  BY <1>1 DEF TypeInv
<1>6. /\ own.phase \notin {"graves", "changes", "receive"}
      /\ Within(own.ids, SentHere(c))
  BY <1>2, <1>3, <1>4
<1> QED BY <1>1, <1>2, <1>4, <1>5, <1>6, SyncStepType

\* The end of a sync, well or not: the client goes back to idle.
LEMMA BackToIdleType ==
  ASSUME TypeInv, NEW c \in Clients,
         NEW mine \in Collections(Usns), NEW theirs \in Collections(Nat),
         db' = [db EXCEPT ![c] = mine, ![Server] = theirs],
         committed' \in [Parties -> Collections(Usns)], committed'[Server] \in Collections(Nat),
         session' = [session EXCEPT ![c] = Idle], now' \in Nat,
         \/ serving' = NoSync
         \/ serving' = serving /\ theirs = db[Server]
  PROVE  TypeInv'
<1> USE Constants, TypeFields
<1>1. Idle.phase = "idle" /\ NoSync.skey = Server
  BY DEF Idle, NoSync
<1>2. serving' \in Servings
  OBVIOUS
<1> QED BY <1>1, <1>2, SyncStepType

Rolled(d, stamp) == [d EXCEPT !.scm = stamp]
FinishedAt(d, usn, stamp) == [d EXCEPT !.usn = usn, !.mod = stamp]
\* Setting the stamps of a collection leaves it a collection.
LEMMA StampFields ==
  ASSUME NEW usns, NEW d \in Collections(usns), NEW usn \in Nat, NEW stamp \in Nat
  PROVE  /\ Rolled(d, stamp) \in Collections(usns)
         /\ FinishedAt(d, usn, stamp) \in Collections(usns)
BY DEF Collections, Rolled, FinishedAt

\* The sanity check keeps the types.
LEMMA CheckSanityType ==
  ASSUME TypeInv, NEW c \in Clients, CheckSanity(c)
  PROVE  TypeInv'
<1> USE Constants, TypeFields
<1> DEFINE forced == [committed[c] EXCEPT !.scm = now + 1]
<1>1. CASE Goto(c, "finish") /\ UNCHANGED <<db, committed, serving, now>>
  <2> DEFINE own == [session[c] EXCEPT !.phase = "finish"]
  <2>1. own \in Sessions /\ own.phase = "finish"
    BY DEF Sessions, Phases
  <2>2. session' = [session EXCEPT ![c] = own]
    BY <1>1 DEF Goto
  <2> HIDE DEF own
  <2>3. serving' = serving /\ serving' \in Servings /\ now' \in Nat
    BY <1>1
  <2>4. committed' \in [Parties -> Collections(Usns)] /\ committed'[Server] \in Collections(Nat)
    BY <1>1 DEF TypeInv
  <2>5. db' = [db EXCEPT ![c] = db[c], ![Server] = db[Server]]
    BY <1>1 DEF TypeInv
  <2> QED BY <2>1, <2>2, <2>3, <2>4, <2>5, SyncStepType
<1>2. CASE /\ db' = [db EXCEPT ![Server] = committed[Server], ![c] = forced]
           /\ committed' = [committed EXCEPT ![c] = forced]
           /\ session' = [session EXCEPT ![c] = Idle]
           /\ serving' = NoSync
           /\ now' = now + 1
  <2>1. forced \in Collections(Usns)
    BY StampFields DEF Rolled
  <2> HIDE DEF forced
  <2>2. db' = [db EXCEPT ![c] = forced, ![Server] = committed[Server]]
    BY <1>2
  <2>3. committed' \in [Parties -> Collections(Usns)] /\ committed'[Server] \in Collections(Nat)
    BY <1>2, <2>1 DEF TypeInv
  <2> QED BY <1>2, <2>1, <2>2, <2>3, BackToIdleType
<1> QED BY <1>1, <1>2 DEF CheckSanity

\* Finishing a sync, whether the answer arrives or not, keeps the types.
LEMMA FinishType ==
  ASSUME TypeInv, NEW c \in Clients,
         Finish(c) \/ \E stamped \in BOOLEAN : LoseFinish(c, stamped)
  PROVE  TypeInv'
<1> USE Constants, TypeFields
<1>1. /\ session' = [session EXCEPT ![c] = Idle] /\ serving' = NoSync
      /\ now' \in Nat /\ now' = now + 1
  BY DEF Finish, LoseFinish
<1>2. PICK mine \in Collections(Usns), theirs \in Collections(Nat) :
        /\ db' = [db EXCEPT ![c] = mine, ![Server] = theirs]
        /\ committed' \in [Parties -> Collections(Usns)] /\ committed'[Server] \in Collections(Nat)
  <2>0. /\ db[c].mod \in Nat /\ db[Server].mod \in Nat /\ db[Server].usn + 1 \in Nat
        /\ session[c].meta.usn + 1 \in Nat
    BY CollectionTables
  <2>1. CASE Finish(c)
    <3> DEFINE mine == Finalized(c, now')
               theirs == Finished(now')
    <3>1. mine \in Collections(Usns) /\ theirs \in Collections(Nat)
      BY <1>1, <2>0, StampFields DEF Finalized, Finished, FinishedAt
    <3>2. /\ db' = [db EXCEPT ![Server] = theirs, ![c] = mine]
          /\ committed' = [committed EXCEPT ![Server] = db'[Server], ![c] = db'[c]]
      BY <2>1 DEF Finish
    <3> HIDE DEF mine, theirs
    <3>3. db' = [db EXCEPT ![c] = mine, ![Server] = theirs]
          /\ db'[c] = mine /\ db'[Server] = theirs
      BY <3>2 DEF TypeInv
    <3>4. committed' \in [Parties -> Collections(Usns)] /\ committed'[Server] \in Collections(Nat)
      BY <3>1, <3>2, <3>3 DEF TypeInv
    <3> QED BY <3>1, <3>3, <3>4
  <2>2. CASE \E stamped \in BOOLEAN : LoseFinish(c, stamped)
    <3>1. PICK stamped \in BOOLEAN : LoseFinish(c, stamped)
      BY <2>2
    <3> DEFINE stamp == IF stamped THEN now' ELSE db[Server].mod
               theirs == Finished(stamp)
    <3>2. stamp \in Nat
      BY <1>1, <2>0
    <3>3. /\ db' = [db EXCEPT ![Server] = theirs, ![c] = committed[c]]
          /\ committed' = [committed EXCEPT ![Server] = db'[Server]]
      BY <3>1 DEF LoseFinish
    <3> HIDE DEF stamp
    <3>4. theirs \in Collections(Nat)
      BY <2>0, <3>2, StampFields DEF Finished, FinishedAt
    <3> HIDE DEF theirs
    <3>5. db' = [db EXCEPT ![c] = committed[c], ![Server] = theirs] /\ db'[Server] = theirs
      BY <3>3 DEF TypeInv
    <3>6. committed' \in [Parties -> Collections(Usns)] /\ committed'[Server] \in Collections(Nat)
      BY <3>3, <3>4, <3>5 DEF TypeInv
    <3> QED BY <3>4, <3>5, <3>6
  <2> QED BY <2>1, <2>2
<1> QED BY <1>1, <1>2, BackToIdleType

\* A request that fails keeps the types.
LEMMA FailType ==
  ASSUME TypeInv, NEW c \in Clients, NEW aborted \in BOOLEAN, Fail(c, aborted)
  PROVE  TypeInv'
<1> USE Constants, TypeFields
<1> DEFINE theirs == IF aborted THEN committed[Server] ELSE db[Server]
<1>1. db' = [db EXCEPT ![c] = committed[c], ![Server] = theirs]
  BY DEF Fail, TypeInv
<1>2. theirs \in Collections(Nat) /\ (serving' = NoSync \/ (serving' = serving /\ theirs = db[Server]))
  BY DEF Fail
<1>3. /\ committed' \in [Parties -> Collections(Usns)] /\ committed'[Server] \in Collections(Nat)
      /\ session' = [session EXCEPT ![c] = Idle] /\ now' \in Nat
  BY DEF Fail, TypeInv
<1> HIDE DEF theirs
<1> QED BY <1>1, <1>2, <1>3, BackToIdleType

\* So does the end of the server's process.
LEMMA ServerStopsType == ASSUME TypeInv, ServerStops PROVE TypeInv'
<1> USE Constants
<1>1. /\ serving' = NoSync /\ db' = [db EXCEPT ![Server] = committed[Server]]
      /\ committed' = committed /\ session' = session /\ now' = now
  BY DEF ServerStops
<1>2. /\ db' \in [Parties -> Collections(Usns)] /\ db'[Server] \in Collections(Nat)
      /\ \A p \in Clients : db'[p] = db[p]
  BY <1>1 DEF TypeInv
<1>3. NoSync.skey = Server
  BY DEF NoSync
<1>4. ListsInv'
  BY <1>1, <1>2, <1>3 DEF TypeInv, ListsInv, Serving
<1> QED BY <1>1, <1>2, <1>4 DEF TypeInv

\* A full upload or download keeps the types.
LEMMA FullSyncType ==
  ASSUME TypeInv, NEW c \in Clients, NEW delivered \in BOOLEAN,
         Upload(c, delivered) \/ Download(c, delivered)
  PROVE  TypeInv'
<1> USE Constants, TypeFields
<1>1. CASE Upload(c, delivered)
  <2> DEFINE mine == BeforeUpload(db[c], now + 1)
             theirs == IF delivered THEN mine ELSE db[Server]
  <2>1. mine \in Collections(Nat)
    BY BeforeUploadFields
  <2>2. /\ db' = [db EXCEPT ![c] = mine, ![Server] = theirs]
        /\ committed' = [committed EXCEPT
             ![c] = mine, ![Server] = IF delivered THEN mine ELSE @]
        /\ serving' = IF delivered THEN NoSync ELSE serving
        /\ session' = [session EXCEPT ![c] = Idle] /\ now' = now + 1
    BY <1>1 DEF Upload, FullSync
  <2> HIDE DEF mine
  <2>3. committed' \in [Parties -> Collections(Usns)] /\ committed'[Server] \in Collections(Nat)
    BY <2>1, <2>2 DEF TypeInv
  <2>4. /\ theirs \in Collections(Nat) /\ mine \in Collections(Usns)
        /\ \/ serving' = NoSync
           \/ serving' = serving /\ theirs = db[Server]
    BY <2>1, <2>2
  <2> HIDE DEF theirs
  <2> QED BY <2>2, <2>3, <2>4, BackToIdleType
<1>2. CASE Download(c, delivered)
  <2> DEFINE theirs == [committed[Server] EXCEPT !.usn = @ + 1, !.mod = now + 1]
             mine == IF delivered THEN theirs ELSE db[c]
  <2>1. theirs \in Collections(Nat)
    <3>1. committed[Server].usn + 1 \in Nat
      BY CollectionTables
    <3> QED BY <3>1, StampFields DEF FinishedAt
  <2>2. /\ db' = [db EXCEPT ![c] = mine, ![Server] = theirs]
        /\ committed' = [committed EXCEPT ![c] = mine, ![Server] = theirs]
        /\ serving' = NoSync /\ session' = [session EXCEPT ![c] = Idle] /\ now' = now + 1
    BY <1>2 DEF Download, FullSync
  <2> HIDE DEF theirs
  <2>3. mine \in Collections(Usns)
    BY <2>1
  <2> HIDE DEF mine
  <2>4. committed' \in [Parties -> Collections(Usns)] /\ committed'[Server] \in Collections(Nat)
    BY <2>1, <2>2, <2>3 DEF TypeInv
  <2> QED BY <2>1, <2>2, <2>3, <2>4, BackToIdleType
<1> QED BY <1>1, <1>2

\* So does leaving the choice between them for later.
LEMMA DismissType == ASSUME TypeInv, NEW c \in Clients, Dismiss(c) PROVE TypeInv'
<1> USE Constants, TypeFields
<1>1. /\ committed' \in [Parties -> Collections(Usns)] /\ committed'[Server] \in Collections(Nat)
      /\ session' = [session EXCEPT ![c] = Idle] /\ now' \in Nat /\ serving' = serving
      /\ db' = [db EXCEPT ![c] = db[c], ![Server] = db[Server]]
  BY DEF Dismiss, TypeInv
<1> QED BY <1>1, BackToIdleType

\* Every step keeps the types.
LEMMA TypeStep == TypeInv /\ [Next]_vars => TypeInv'
<1> SUFFICES ASSUME TypeInv, [Next]_vars PROVE TypeInv'
  OBVIOUS
<1>1. CASE UNCHANGED vars
  BY <1>1 DEF vars, TypeInv, ListsInv, Serving, Within
<1>2. ASSUME NEW c \in Clients, UserStep(c) PROVE TypeInv'
  <2>1. CASE \/ \E id \in Ids : Edit(c, id) \/ Add(c, id) \/ Delete(c, id)
             \/ \E card \in Cards : Review(c, card)
             \/ SetConfig(c)
             \/ ChangeSchema(c)
    BY <2>1, LocalType
  <2>2. CASE Meta(c)
    BY <2>2, MetaType
  <2>3. CASE \E delivered \in BOOLEAN : Upload(c, delivered) \/ Download(c, delivered)
    BY <2>3, FullSyncType
  <2>4. CASE Dismiss(c)
    BY <2>4, DismissType
  <2> QED BY <1>2, <2>1, <2>2, <2>3, <2>4 DEF UserStep
<1>3. ASSUME NEW c \in Clients, SyncStep(c) PROVE TypeInv'
  <2>1. CASE Start(c)
    BY <2>1, StartType
  <2>2. CASE ExchangeGraves(c)
    BY <2>2, ExchangeGravesType
  <2>3. CASE ExchangeChanges(c)
    BY <2>3, ExchangeChangesType
  <2>4. CASE ReceiveChunk(c)
    BY <2>4, ReceiveChunkType
  <2>5. CASE SendChunk(c)
    BY <2>5, SendChunkType
  <2>6. CASE CheckSanity(c)
    BY <2>6, CheckSanityType
  <2>7. CASE Finish(c) \/ \E stamped \in BOOLEAN : LoseFinish(c, stamped)
    BY <2>7, FinishType
  <2>8. CASE \E aborted \in BOOLEAN : Fail(c, aborted)
    BY <2>8, FailType
  <2> QED BY <1>3, <2>1, <2>2, <2>3, <2>4, <2>5, <2>6, <2>7, <2>8 DEF SyncStep, Proceed
<1>4. CASE ServerStops
  BY <1>4, ServerStopsType
<1> QED BY <1>1, <1>2, <1>3, <1>4 DEF Next

\* A collection that has its type is well typed as the runs state it.
LEMMA CollectionsTyped ==
  ASSUME NEW usns, NEW d \in Collections(usns)
  PROVE  WellTyped(d, usns)
<1>1. /\ d.rows \in Rows(usns) /\ d.graves \in Graves(usns) /\ d.revlog \in Reviews(usns)
      /\ d.conf \in Nat /\ d.usn \in Nat /\ d.mod \in Nat /\ d.scm \in Nat
  BY CollectionTables
<1>2. DOMAIN d.rows \subseteq Ids /\ \A i \in DOMAIN d.rows : d.rows[i] \in Row(usns)
  BY <1>1, TableEntries DEF Rows
<1>3. DOMAIN d.graves \subseteq Ids /\ \A i \in DOMAIN d.graves : d.graves[i] \in Grave(usns)
  BY <1>1, TableEntries DEF Graves
<1>4. /\ DOMAIN d.revlog \subseteq Nat
      /\ \A r \in DOMAIN d.revlog : d.revlog[r] \in LoggedReview(usns)
  BY <1>1, TableEntries DEF Reviews
<1> QED BY <1>1, <1>2, <1>3, <1>4 DEF WellTyped, Row, Grave, LoggedReview

\* What is proved inductively is at least the type invariant of the runs.
LEMMA TypeInvTyped == TypeInv => TypeOK
<1> SUFFICES ASSUME TypeInv PROVE TypeOK
  OBVIOUS
<1> USE Constants
<1>1. \A copy \in {db, committed} :
        /\ \A c \in Clients : WellTyped(copy[c], Usns)
        /\ WellTyped(copy[Server], Nat)
  <2>1. \A copy \in {db, committed} :
          /\ \A c \in Clients : copy[c] \in Collections(Usns)
          /\ copy[Server] \in Collections(Nat)
    BY DEF TypeInv
  <2> QED BY <2>1, CollectionsTyped
<1>2. \A c \in Clients :
        /\ session[c].phase \in Phases /\ session[c].meta \in Metas
        /\ session[c].graves \subseteq Ids /\ session[c].ids \in ChunkIds
  <2>1. \A c \in Clients : session[c] \in Sessions
    BY DEF TypeInv
  <2> QED BY <2>1 DEF Sessions
<1>3. /\ serving.skey \in Parties /\ serving.client_usn \in Nat
      /\ serving.client_is_newer \in BOOLEAN /\ serving.listed \in BOOLEAN
      /\ serving.ids \in ChunkIds
  BY DEF TypeInv, Servings
<1> QED BY <1>1, <1>2, <1>3 DEF TypeOK, TypeInv

\* Every collection keeps its shape through merges, rollbacks, full syncs and
\* interrupted syncs, and the server never stores a pending usn: what a client
\* sends has been stamped with the server's usn first.
THEOREM CollectionsTypeCorrect == Spec => []TypeOK
<1>1. Spec => []TypeInv
  BY TypeInit, TypeStep, PTL DEF Spec
<1> QED BY <1>1, TypeInvTyped, PTL

---------------------------------------------------------------------------
(***************************************************************************)
(* What a sync achieves: both sides agree at its end, clients have what    *)
(* their number says, newer versions win and deletions are final, for any  *)
(* clients, objects and chunk size, when no other sync comes between a     *)
(* meta and its start and no two clients change an object in one second.   *)
(***************************************************************************)

---------------------------------------------------------------------------
(* What holds between syncs. *)

\* Whoever is in no sync has what is on disk; a sync moves neither stamp.
QuietInv ==
  /\ \A c \in Clients :
       session[c].phase \in {"idle", "meta", "full"} => db[c] = committed[c]
  /\ serving = NoSync \/ serving.skey \in Clients
  /\ serving = NoSync => db[Server] = committed[Server]
  /\ \A p \in Parties :
       /\ db[p].usn = committed[p].usn /\ db[p].mod = committed[p].mod
       /\ db[p].scm = committed[p].scm

\* The versions of an object at any party, and what it would go back to.
VersionsAt(d, i) == IF i \in DOMAIN d.rows THEN {d.rows[i].edit} ELSE {}
Versions(i) ==
  UNION {VersionsAt(db[p], i) \cup VersionsAt(committed[p], i) : p \in Parties}

\* Versions differ by more than their milliseconds, and nothing is in the future.
VersionsInv ==
  /\ \A i \in Ids : \A e, f \in Versions(i) : Secs(e) = Secs(f) => e = f
  /\ \A i \in Ids : \A e \in Versions(i) : e <= now
  /\ \A p \in Parties : DOMAIN db[p].revlog \subseteq 0..now
  /\ \A p \in Parties : DOMAIN committed[p].revlog \subseteq 0..now
  /\ \A c \in Clients : committed[c].scm <= now /\ committed[Server].scm <= now

Undeleted(d) == DOMAIN d.rows \cap DOMAIN d.graves = {}
DeletedInv == \A p \in Parties : Undeleted(db[p]) /\ Undeleted(committed[p])

\* Object i of the server's is at the client, or the client has a newer version
\* of its own.
Held(mine, theirs, i) ==
  /\ i \in DOMAIN mine.rows
  /\ \/ mine.rows[i].edit = theirs.rows[i].edit
     \/ mine.rows[i].usn = -1 /\ theirs.rows[i].edit <= mine.rows[i].edit

\* What a client's number and the usns of its entries stand for: the client knows
\* everything of the server's below the number, and the server has seen everything
\* of the client's that is not pending.
Known(mine, theirs) ==
  /\ mine.usn <= theirs.usn
  /\ \A i \in DOMAIN theirs.rows :
       theirs.rows[i].usn < mine.usn =>
         Held(mine, theirs, i) \/ i \in Pending(mine.graves, -1)
  /\ \A i \in DOMAIN theirs.graves :
       theirs.graves[i].usn < mine.usn => i \notin DOMAIN mine.rows
  /\ \A r \in DOMAIN theirs.revlog :
       theirs.revlog[r].usn < mine.usn => r \in DOMAIN mine.revlog
  /\ \A i \in DOMAIN mine.rows :
       mine.rows[i].usn # -1 =>
         /\ i \in DOMAIN theirs.rows \cup DOMAIN theirs.graves
         /\ i \in DOMAIN theirs.rows => mine.rows[i].edit <= theirs.rows[i].edit
  /\ \A i \in DOMAIN mine.graves :
       mine.graves[i].usn # -1 => i \in DOMAIN theirs.graves
  /\ \A r \in DOMAIN mine.revlog :
       mine.revlog[r].usn # -1 => r \in DOMAIN theirs.revlog
KnownInv ==
  \A c \in Clients : SameSchema(c) => Known(committed[c], committed[Server])

---------------------------------------------------------------------------
(* What holds in a sync. *)

Merging == {"changes", "receive", "send", "sanity", "finish"}
Active == {"graves"} \cup Merging
Chunked == Cards \cup Notes
Objects(ids) == ids.cards \cup ids.notes

\* How the server's collection has moved on from the committed one: what is new or
\* changed has the server's usn, so that other clients will ask for it.
ServerMoved(before, theirs) ==
  /\ \A i \in DOMAIN theirs.rows :
       theirs.rows[i].usn # before.usn =>
         i \in DOMAIN before.rows /\ theirs.rows[i] = before.rows[i]
  /\ \A i \in DOMAIN before.rows :
       \/ i \in DOMAIN theirs.graves
       \/ i \in DOMAIN theirs.rows /\ before.rows[i].edit <= theirs.rows[i].edit
  /\ DOMAIN before.graves \subseteq DOMAIN theirs.graves
  /\ \A i \in DOMAIN theirs.graves :
       theirs.graves[i].usn # before.usn =>
         i \in DOMAIN before.graves /\ theirs.graves[i] = before.graves[i]
  /\ DOMAIN before.revlog \subseteq DOMAIN theirs.revlog
  /\ \A r \in DOMAIN theirs.revlog :
       theirs.revlog[r].usn # before.usn =>
         r \in DOMAIN before.revlog /\ theirs.revlog[r] = before.revlog[r]

\* The client's objects have only become newer, or are deleted.
ClientMoved(before, mine, theirs) ==
  \A i \in DOMAIN before.rows :
    \/ i \in DOMAIN theirs.graves
    \/ i \in DOMAIN mine.rows /\ before.rows[i].edit <= mine.rows[i].edit

\* All deletions are known on both sides.
DeletionsShared(mine, theirs) ==
  /\ DOMAIN mine.graves \subseteq DOMAIN theirs.graves
  /\ DOMAIN theirs.graves \cap DOMAIN mine.rows = {}
  /\ Pending(mine.graves, -1) = {}

\* Both sides have the same version of the objects in S.
AgreeOn(mine, theirs, S) ==
  /\ \A i \in S : i \in DOMAIN mine.rows <=> i \in DOMAIN theirs.rows
  /\ \A i \in S \cap DOMAIN mine.rows :
       mine.rows[i].usn # -1 /\ mine.rows[i].edit = theirs.rows[i].edit

\* The client's objects in S that are not pending are at the server.
SeenByServer(mine, theirs, S) ==
  /\ \A i \in S \cap DOMAIN mine.rows :
       mine.rows[i].usn # -1 =>
         i \in DOMAIN theirs.rows /\ mine.rows[i].edit <= theirs.rows[i].edit
  /\ \A r \in DOMAIN mine.revlog :
       mine.revlog[r].usn # -1 => r \in DOMAIN theirs.revlog

\* What there is to agree on after each exchange.  pending_usn is where the server
\* starts, ids what it has still to send, or the client.
AfterGraves(mine, theirs, pending_usn) ==
  /\ SeenByServer(mine, theirs, Ids)
  /\ \A i \in DOMAIN theirs.rows : theirs.rows[i].usn < pending_usn => Held(mine, theirs, i)
  /\ \A r \in DOMAIN theirs.revlog :
       theirs.revlog[r].usn < pending_usn => r \in DOMAIN mine.revlog
DecksAgree(mine, theirs) == AgreeOn(mine, theirs, Decks) /\ mine.conf = theirs.conf
Receiving(mine, theirs, ids) ==
  /\ SeenByServer(mine, theirs, Chunked)
  /\ \A i \in (DOMAIN theirs.rows \cap Chunked) \ Objects(ids) : Held(mine, theirs, i)
  /\ DOMAIN theirs.revlog \ ids.revlog \subseteq DOMAIN mine.revlog
Sending(mine, theirs, ids) ==
  /\ \A i \in DOMAIN theirs.rows \cap Chunked : Held(mine, theirs, i)
  /\ AgreeOn(mine, theirs, Chunked \ Objects(ids))
  /\ DOMAIN theirs.revlog \subseteq DOMAIN mine.revlog
  /\ DOMAIN mine.revlog \ ids.revlog \subseteq DOMAIN theirs.revlog
  /\ Pending(mine.revlog, -1) \subseteq ids.revlog
AllSent(mine, theirs) ==
  /\ AgreeOn(mine, theirs, Chunked)
  /\ DOMAIN mine.revlog = DOMAIN theirs.revlog
  /\ Pending(mine.revlog, -1) = {}

\* The common part, from the exchange of graves on.
Moved(mine0, theirs0, mine, theirs) ==
  /\ ServerMoved(theirs0, theirs)
  /\ ClientMoved(mine0, mine, theirs)
  /\ DeletionsShared(mine, theirs)

\* The stage of a sync, by the client's session and the server's: the collections
\* at the start of the sync and now.
Stage(own, server, mine0, theirs0, mine, theirs) ==
  /\ own.phase = "graves" =>
       /\ mine = mine0 /\ theirs = theirs0
       /\ own.graves = Pending(theirs.graves, mine.usn)
  /\ own.phase \in Merging => Moved(mine0, theirs0, mine, theirs)
  /\ own.phase = "changes" => AfterGraves(mine, theirs, server.client_usn)
  /\ own.phase \in Merging \ {"changes"} => DecksAgree(mine, theirs)
  /\ own.phase = "receive" =>
       Receiving(mine, theirs, IF server.listed THEN server.ids
                               ELSE ChunkableIds(theirs, server.client_usn))
  /\ own.phase = "send" => Sending(mine, theirs, own.ids)
  /\ own.phase \in {"sanity", "finish"} => AllSent(mine, theirs)

\* A sync that the server is in began from what is on disk on both sides.
Serves(own, server, mine0, theirs0, mine, theirs) ==
  /\ own.meta.usn = theirs0.usn /\ own.meta.scm = theirs0.scm
  /\ server.client_usn = mine0.usn
  /\ Stage(own, server, mine0, theirs0, mine, theirs)
SessionInv ==
  \A c \in Clients :
    /\ session[c].phase \in Active \cup {"meta"} => session[c].meta.scm = committed[c].scm
    /\ session[c].phase \in Active /\ serving.skey = c =>
         Serves(session[c], serving, committed[c], committed[Server], db[c], db[Server])

\* The inductive invariant of a sync.
SyncInv ==
  QuietInv /\ VersionsInv /\ DeletedInv /\ KnownInv /\ SessionInv

---------------------------------------------------------------------------
(* Seconds and versions. *)

\* A later time has no earlier second.
LEMMA SecsMonotone ==
  ASSUME NEW a \in Nat, NEW b \in Nat
  PROVE  /\ Secs(a) \in Int /\ Secs(b) \in Int
         /\ a <= b => Secs(a) <= Secs(b)
<1>1. SecondLength \in Nat \ {0}
  BY BoundsAssumption
<1> QED BY <1>1 DEF Secs

\* Of two versions of an object, the newer one is newer by the second.
Ordered(mine, theirs) ==
  \A i \in DOMAIN mine.rows \cap DOMAIN theirs.rows :
    /\ Secs(mine.rows[i].edit) <= Secs(theirs.rows[i].edit)
         <=> mine.rows[i].edit <= theirs.rows[i].edit
    /\ Secs(theirs.rows[i].edit) <= Secs(mine.rows[i].edit)
         <=> theirs.rows[i].edit <= mine.rows[i].edit

\* A client's rows compare with the server's by their seconds as they do by their versions.
LEMMA VersionsOrdered ==
  ASSUME TypeInv, VersionsInv, NEW c \in Clients
  PROVE  Ordered(db[c], db[Server])
<1> USE Constants, TypeFields
<1> SUFFICES ASSUME NEW i \in DOMAIN db[c].rows \cap DOMAIN db[Server].rows
             PROVE  /\ Secs(db[c].rows[i].edit) <= Secs(db[Server].rows[i].edit)
                         <=> db[c].rows[i].edit <= db[Server].rows[i].edit
                    /\ Secs(db[Server].rows[i].edit) <= Secs(db[c].rows[i].edit)
                         <=> db[Server].rows[i].edit <= db[c].rows[i].edit
  BY DEF Ordered
<1> DEFINE e == db[c].rows[i].edit
           f == db[Server].rows[i].edit
<1>1. e \in Nat /\ f \in Nat /\ i \in Ids
  BY SMTT(60), CollectionTables
<1>2. e \in Versions(i) /\ f \in Versions(i)
  BY SMTT(60) DEF Versions, VersionsAt
<1>3. Secs(e) = Secs(f) => e = f
  BY <1>1, <1>2 DEF VersionsInv
<1> HIDE DEF e, f
<1>4. /\ Secs(e) \in Int /\ Secs(f) \in Int
      /\ e <= f => Secs(e) <= Secs(f)
      /\ f <= e => Secs(f) <= Secs(e)
  BY <1>1, SecsMonotone
<1>5. /\ (Secs(e) <= Secs(f)) <=> (e <= f)
      /\ (Secs(f) <= Secs(e)) <=> (f <= e)
  BY <1>1, <1>3, <1>4
<1> QED BY <1>5 DEF e, f

\* A collection that a merge made of two others: it has no version and no review
\* that neither of them had.
ComposedOf(d, mine, theirs) ==
  /\ \A i \in DOMAIN d.rows :
       \/ i \in DOMAIN mine.rows /\ d.rows[i].edit = mine.rows[i].edit
       \/ i \in DOMAIN theirs.rows /\ d.rows[i].edit = theirs.rows[i].edit
  /\ DOMAIN d.revlog \subseteq DOMAIN mine.revlog \cup DOMAIN theirs.revlog
SameStamps(d, e) == d.usn = e.usn /\ d.mod = e.mod /\ d.scm = e.scm

---------------------------------------------------------------------------
(* The exchange of graves. *)

\* What is pending, on a client and since a number on the server.
LEMMA PendingMeans ==
  ASSUME NEW table
  PROVE  /\ Pending(table, -1) = {i \in DOMAIN table : table[i].usn = -1}
         /\ \A usn \in Nat : Pending(table, usn) = {i \in DOMAIN table : table[i].usn >= usn}
BY DEF Pending, IsPending

\* After the exchange of graves neither side has a row that the other has deleted.
LEMMA GravesMerged ==
  ASSUME NEW mine \in Collections(Usns), NEW theirs \in Collections(Nat),
         Undeleted(mine), Undeleted(theirs), Known(mine, theirs)
  PROVE  LET sent == SentGraves(mine, theirs.usn)
             mine1 == ApplyGraves(sent, Pending(theirs.graves, mine.usn), theirs.usn)
             theirs1 == ApplyGraves(theirs, Pending(mine.graves, -1), theirs.usn)
         IN /\ Undeleted(mine1) /\ Undeleted(theirs1)
            /\ Moved(mine, theirs, mine1, theirs1)
            /\ AfterGraves(mine1, theirs1, mine.usn)
            /\ ComposedOf(mine1, mine, theirs) /\ ComposedOf(theirs1, mine, theirs)
            /\ SameStamps(mine1, mine) /\ SameStamps(theirs1, theirs)
<1> DEFINE received == Pending(theirs.graves, mine.usn)
           own == Pending(mine.graves, -1)
           usn == theirs.usn
           sent == SentGraves(mine, usn)
           mine1 == ApplyGraves(sent, received, usn)
           theirs1 == ApplyGraves(theirs, own, usn)
<1>1. /\ usn \in Nat /\ usn \in Usns /\ mine.usn \in Nat
      /\ DOMAIN theirs.graves \subseteq Ids /\ DOMAIN mine.graves \subseteq Ids
      /\ DOMAIN mine.rows \subseteq Ids
      /\ \A i \in DOMAIN theirs.graves : theirs.graves[i].usn \in Nat
      /\ \A i \in DOMAIN theirs.rows : theirs.rows[i].usn \in Nat
      /\ \A r \in DOMAIN theirs.revlog : theirs.revlog[r].usn \in Nat
  BY CollectionTables, Constants
<1>2. /\ received = {i \in DOMAIN theirs.graves : theirs.graves[i].usn >= mine.usn}
      /\ own = {i \in DOMAIN mine.graves : mine.graves[i].usn = -1}
  BY <1>1, PendingMeans
<1>3. received \in IdSets /\ own \in IdSets
  BY <1>1, <1>2 DEF IdSets
<1>4. /\ sent \in Collections(Usns) /\ DOMAIN sent.graves = DOMAIN mine.graves
      /\ \A i \in DOMAIN sent.graves : sent.graves[i].usn \in Nat
      /\ sent.rows = mine.rows /\ sent.revlog = mine.revlog /\ sent.conf = mine.conf
      /\ sent.usn = mine.usn /\ sent.mod = mine.mod /\ sent.scm = mine.scm
  BY <1>1, SentGravesFields
<1>0. usn = theirs.usn
  OBVIOUS
<1> HIDE DEF received, own, sent, usn
<1>a. sent \in Collections(Usns) /\ received \in IdSets /\ usn \in Usns
  BY <1>1, <1>3, <1>4
<1>b. theirs \in Collections(Nat) /\ own \in IdSets /\ usn \in Nat
  BY <1>1, <1>3
<1>5. /\ DOMAIN mine1.rows = DOMAIN sent.rows \ received
      /\ \A i \in DOMAIN sent.rows \ received : mine1.rows[i] = sent.rows[i]
      /\ DOMAIN mine1.graves = DOMAIN sent.graves \cup received
      /\ \A i \in DOMAIN sent.graves : mine1.graves[i] = sent.graves[i]
      /\ \A i \in received \ DOMAIN sent.graves : mine1.graves[i].usn = usn
      /\ mine1.revlog = sent.revlog
      /\ mine1.usn = sent.usn /\ mine1.mod = sent.mod /\ mine1.scm = sent.scm
  BY <1>a, ApplyGravesFields
<1>6. /\ DOMAIN theirs1.rows = DOMAIN theirs.rows \ own
      /\ \A i \in DOMAIN theirs.rows \ own : theirs1.rows[i] = theirs.rows[i]
      /\ DOMAIN theirs1.graves = DOMAIN theirs.graves \cup own
      /\ \A i \in DOMAIN theirs.graves : theirs1.graves[i] = theirs.graves[i]
      /\ \A i \in own \ DOMAIN theirs.graves : theirs1.graves[i].usn = usn
      /\ theirs1.revlog = theirs.revlog
      /\ theirs1.usn = theirs.usn /\ theirs1.mod = theirs.mod /\ theirs1.scm = theirs.scm
  BY <1>b, ApplyGravesFields
<1> HIDE DEF mine1, theirs1
<1>7. Undeleted(mine1) /\ Undeleted(theirs1)
  BY <1>2, <1>4, <1>5, <1>6 DEF Undeleted
<1>8. ServerMoved(theirs, theirs1)
  <2>1. \A i \in DOMAIN theirs.rows : theirs.rows[i].edit <= theirs.rows[i].edit
    BY CollectionTables
  <2> QED BY <2>1, <1>0, <1>2, <1>6 DEF ServerMoved
<1>9. ClientMoved(mine, mine1, theirs1)
  <2>1. \A i \in DOMAIN mine.rows : mine.rows[i].edit <= mine.rows[i].edit
    BY CollectionTables
  <2> QED BY <2>1, <1>2, <1>4, <1>5, <1>6 DEF ClientMoved
<1>10. DeletionsShared(mine1, theirs1)
  <2>1. DOMAIN mine1.graves \subseteq DOMAIN theirs1.graves
    BY <1>2, <1>4, <1>5, <1>6 DEF Known
  <2>2. DOMAIN theirs1.graves \cap DOMAIN mine1.rows = {}
    <3> SUFFICES ASSUME NEW i \in DOMAIN theirs1.graves, i \in DOMAIN mine1.rows PROVE FALSE
      OBVIOUS
    <3>1. i \in DOMAIN mine.rows /\ i \notin received /\ i \notin own
      BY <1>2, <1>4, <1>5 DEF Undeleted
    <3>2. i \in DOMAIN theirs.graves /\ theirs.graves[i].usn < mine.usn
      BY <3>1, <1>1, <1>2, <1>6
    <3> QED BY <3>1, <3>2 DEF Known
  <2>3. \A i \in DOMAIN mine1.graves : mine1.graves[i].usn # -1
    BY <1>1, <1>4, <1>5
  <2>4. Pending(mine1.graves, -1) = {}
    BY <2>3, PendingMeans
  <2> QED BY <2>1, <2>2, <2>4 DEF DeletionsShared
<1>11. SeenByServer(mine1, theirs1, Ids)
  <2>1. ASSUME NEW i \in Ids \cap DOMAIN mine1.rows, mine1.rows[i].usn # -1
        PROVE  i \in DOMAIN theirs1.rows /\ mine1.rows[i].edit <= theirs1.rows[i].edit
    <3>1. i \in DOMAIN mine.rows /\ mine1.rows[i] = mine.rows[i]
      BY <2>1, <1>4, <1>5
    <3>2. i \notin DOMAIN theirs1.graves
      BY <2>1, <1>10 DEF DeletionsShared
    <3>3. i \in DOMAIN theirs.rows /\ mine.rows[i].edit <= theirs.rows[i].edit
      BY <2>1, <3>1, <3>2, <1>6 DEF Known
    <3> QED BY <3>1, <3>2, <3>3, <1>6
  <2>2. \A r \in DOMAIN mine1.revlog : mine1.revlog[r].usn # -1 => r \in DOMAIN theirs1.revlog
    BY <1>4, <1>5, <1>6 DEF Known
  <2> QED BY <2>1, <2>2 DEF SeenByServer
<1>12. AfterGraves(mine1, theirs1, mine.usn)
  <2>1. ASSUME NEW i \in DOMAIN theirs1.rows, theirs1.rows[i].usn < mine.usn
        PROVE  Held(mine1, theirs1, i)
    <3>1. /\ i \in DOMAIN theirs.rows /\ theirs1.rows[i] = theirs.rows[i] /\ i \notin own
          /\ i \notin DOMAIN theirs.graves
      BY <1>6 DEF Undeleted
    <3>2. Held(mine, theirs, i)
      BY <2>1, <3>1 DEF Known, own
    <3>3. i \in DOMAIN mine1.rows /\ mine1.rows[i] = mine.rows[i]
      BY <3>1, <3>2, <1>2, <1>4, <1>5 DEF Held
    <3> QED BY <3>1, <3>2, <3>3 DEF Held
  <2>2. \A r \in DOMAIN theirs1.revlog :
          theirs1.revlog[r].usn < mine.usn => r \in DOMAIN mine1.revlog
    BY <1>4, <1>5, <1>6 DEF Known
  <2> QED BY <2>1, <2>2, <1>11 DEF AfterGraves
<1>13. Moved(mine, theirs, mine1, theirs1)
  BY <1>8, <1>9, <1>10 DEF Moved
<1>14. ComposedOf(mine1, mine, theirs) /\ ComposedOf(theirs1, mine, theirs)
  BY <1>4, <1>5, <1>6 DEF ComposedOf
<1>15. SameStamps(mine1, mine) /\ SameStamps(theirs1, theirs)
  BY <1>4, <1>5, <1>6 DEF SameStamps
<1> QED BY <1>7, <1>12, <1>13, <1>14, <1>15 DEF mine1, theirs1, received, own, sent, usn

---------------------------------------------------------------------------
(* The exchange of decks and configuration. *)

\* The client's collection and the server's afterwards, if the client is the newer
\* side or not.
DecksHere(mine, theirs, usn, pending_usn, newer) ==
  [MergeDecks(SentDecks(mine, usn),
              Restrict(theirs.rows, Pending(theirs.rows, pending_usn) \cap Decks))
     EXCEPT !.conf = IF newer THEN @ ELSE theirs.conf]
DecksAt(mine, theirs, usn, newer) ==
  [MergeDecks(theirs, DeckRows(mine, usn)) EXCEPT !.conf = IF newer THEN mine.conf ELSE @]

\* After the exchange of decks both sides have the same ones.
LEMMA DecksMerged ==
  ASSUME NEW mine0 \in Collections(Usns), NEW theirs0 \in Collections(Nat),
         NEW mine \in Collections(Usns), NEW theirs \in Collections(Nat),
         NEW pending_usn \in Nat, NEW newer \in BOOLEAN,
         Undeleted(mine), Undeleted(theirs), Ordered(mine, theirs),
         Moved(mine0, theirs0, mine, theirs), AfterGraves(mine, theirs, pending_usn)
  PROVE  LET mine1 == DecksHere(mine, theirs, theirs0.usn, pending_usn, newer)
             theirs1 == DecksAt(mine, theirs, theirs0.usn, newer)
         IN /\ Undeleted(mine1) /\ Undeleted(theirs1)
            /\ Moved(mine0, theirs0, mine1, theirs1)
            /\ DecksAgree(mine1, theirs1)
            /\ Receiving(mine1, theirs1, ChunkableIds(theirs1, pending_usn))
            /\ ComposedOf(mine1, mine, theirs) /\ ComposedOf(theirs1, mine, theirs)
            /\ SameStamps(mine1, mine) /\ SameStamps(theirs1, theirs)
<1> DEFINE usn == theirs0.usn
           received == Pending(theirs.rows, pending_usn) \cap Decks
           own == Pending(mine.rows, -1) \cap Decks
           decks == Restrict(theirs.rows, received)
           sent == SentDecks(mine, usn)
           rows == DeckRows(mine, usn)
           here == MergeDecks(sent, decks)
           there == MergeDecks(theirs, rows)
           mine1 == [here EXCEPT !.conf = IF newer THEN @ ELSE theirs.conf]
           theirs1 == [there EXCEPT !.conf = IF newer THEN mine.conf ELSE @]
<1>1. /\ usn \in Nat /\ usn \in Usns
      /\ DOMAIN theirs.rows \subseteq Ids /\ DOMAIN mine.rows \subseteq Ids
      /\ \A i \in DOMAIN mine.rows : mine.rows[i].edit \in Nat /\ mine.rows[i].usn \in Usns
      /\ \A i \in DOMAIN theirs.rows : theirs.rows[i].edit \in Nat /\ theirs.rows[i].usn \in Nat
      /\ theirs.rows \in Rows(Nat) /\ mine.conf \in Nat /\ theirs.conf \in Nat
  BY CollectionTables, Constants
<1>2. /\ received = {i \in DOMAIN theirs.rows : theirs.rows[i].usn >= pending_usn /\ i \in Decks}
      /\ own = {i \in DOMAIN mine.rows : mine.rows[i].usn = -1 /\ i \in Decks}
  BY PendingMeans
<1>3. /\ decks \in Rows(Nat) /\ decks \in Rows(Usns) /\ DOMAIN decks = received
      /\ \A i \in received : decks[i] = theirs.rows[i]
  <2>1. theirs.rows \in Tables(Ids, Row(Nat)) /\ received \subseteq DOMAIN theirs.rows
    BY <1>1, <1>2 DEF Rows
  <2> HIDE DEF received
  <2>2. /\ decks \in Tables(Ids, Row(Nat)) /\ DOMAIN decks = received
        /\ \A i \in received : decks[i] = theirs.rows[i]
    BY <2>1, RestrictTable
  <2>3. decks \in Rows(Nat)
    BY <2>2 DEF Rows
  <2>4. decks \in Rows(Usns)
    BY <2>3, Widened, Constants
  <2> QED BY <2>2, <2>3, <2>4
<1>4. /\ sent \in Collections(Usns)
      /\ DOMAIN sent.rows = DOMAIN mine.rows
      /\ \A i \in DOMAIN mine.rows : sent.rows[i].edit = mine.rows[i].edit
      /\ \A i \in own : sent.rows[i].usn = usn
      /\ \A i \in DOMAIN mine.rows \ own : sent.rows[i] = mine.rows[i]
      /\ sent.graves = mine.graves /\ sent.revlog = mine.revlog /\ sent.conf = mine.conf
      /\ sent.usn = mine.usn /\ sent.mod = mine.mod /\ sent.scm = mine.scm
      /\ rows \in Rows(Nat) /\ DOMAIN rows = own
      /\ \A i \in own : rows[i].usn = usn /\ rows[i].edit = mine.rows[i].edit
  BY ZenonT(60), <1>1, SentDecksFields
<1> HIDE DEF received, own, decks, sent, rows, usn
<1>5. /\ here \in Collections(Usns)
      /\ DOMAIN here.rows = DOMAIN sent.rows \cup DOMAIN decks
      /\ \A i \in DOMAIN sent.rows \ DOMAIN decks : here.rows[i] = sent.rows[i]
      /\ \A i \in DOMAIN decks \ DOMAIN sent.rows : here.rows[i] = decks[i]
      /\ \A i \in DOMAIN sent.rows \cap DOMAIN decks :
           here.rows[i] = IF Secs(sent.rows[i].edit) <= Secs(decks[i].edit)
                          THEN decks[i] ELSE sent.rows[i]
      /\ here.graves = sent.graves /\ here.revlog = sent.revlog /\ here.conf = sent.conf
      /\ here.usn = sent.usn /\ here.mod = sent.mod /\ here.scm = sent.scm
  <2>1. sent \in Collections(Usns) /\ decks \in Rows(Usns)
    BY <1>3, <1>4
  <2> QED BY <2>1, MergeDecksFields
<1>6. /\ there \in Collections(Nat)
      /\ DOMAIN there.rows = DOMAIN theirs.rows \cup DOMAIN rows
      /\ \A i \in DOMAIN theirs.rows \ DOMAIN rows : there.rows[i] = theirs.rows[i]
      /\ \A i \in DOMAIN rows \ DOMAIN theirs.rows : there.rows[i] = rows[i]
      /\ \A i \in DOMAIN theirs.rows \cap DOMAIN rows :
           there.rows[i] = IF Secs(theirs.rows[i].edit) <= Secs(rows[i].edit)
                           THEN rows[i] ELSE theirs.rows[i]
      /\ there.graves = theirs.graves /\ there.revlog = theirs.revlog /\ there.conf = theirs.conf
      /\ there.usn = theirs.usn /\ there.mod = theirs.mod /\ there.scm = theirs.scm
  <2>1. theirs \in Collections(Nat) /\ rows \in Rows(Nat)
    BY <1>4
  <2> QED BY <2>1, MergeDecksFields
<1> HIDE DEF here, there
<1>7. /\ mine1.rows = here.rows /\ mine1.graves = mine.graves /\ mine1.revlog = mine.revlog
      /\ SameStamps(mine1, mine)
      /\ mine1.conf = IF newer THEN mine.conf ELSE theirs.conf
  BY <1>4, <1>5 DEF Collections, SameStamps
<1>8. /\ theirs1.rows = there.rows /\ theirs1.graves = theirs.graves
      /\ theirs1.revlog = theirs.revlog /\ SameStamps(theirs1, theirs)
      /\ theirs1.conf = IF newer THEN mine.conf ELSE theirs.conf
  BY <1>6 DEF Collections, SameStamps
<1> HIDE DEF mine1, theirs1
\* The rows, object by object.
<1>9. /\ DOMAIN mine1.rows = DOMAIN mine.rows \cup received
      /\ \A i \in DOMAIN mine.rows \ received : mine1.rows[i] = sent.rows[i]
      /\ \A i \in received \ DOMAIN mine.rows : mine1.rows[i] = theirs.rows[i]
      /\ \A i \in DOMAIN mine.rows \cap received :
           mine1.rows[i] = IF mine.rows[i].edit <= theirs.rows[i].edit
                           THEN theirs.rows[i] ELSE sent.rows[i]
  <2>1. \A i \in DOMAIN mine.rows \cap received :
          (Secs(sent.rows[i].edit) <= Secs(decks[i].edit))
            <=> (mine.rows[i].edit <= theirs.rows[i].edit)
    BY <1>2, <1>3, <1>4 DEF Ordered
  <2> QED BY <2>1, <1>3, <1>4, <1>5, <1>7
<1>10. /\ DOMAIN theirs1.rows = DOMAIN theirs.rows \cup own
       /\ \A i \in DOMAIN theirs.rows \ own : theirs1.rows[i] = theirs.rows[i]
       /\ \A i \in own \ DOMAIN theirs.rows : theirs1.rows[i] = rows[i]
       /\ \A i \in DOMAIN theirs.rows \cap own :
            theirs1.rows[i] = IF theirs.rows[i].edit <= mine.rows[i].edit
                              THEN rows[i] ELSE theirs.rows[i]
  <2>1. \A i \in DOMAIN theirs.rows \cap own :
          (Secs(theirs.rows[i].edit) <= Secs(rows[i].edit))
            <=> (theirs.rows[i].edit <= mine.rows[i].edit)
    BY <1>2, <1>4 DEF Ordered
  <2> QED BY <2>1, <1>4, <1>6, <1>8
<1>11. /\ \A i \in Chunked : i \notin Decks
       /\ received \subseteq Decks /\ own \subseteq Decks
  BY <1>2, IdsAssumption DEF Chunked
<1>12. Undeleted(mine1) /\ Undeleted(theirs1) /\ DeletionsShared(mine1, theirs1)
  <2>1. DeletionsShared(mine, theirs)
    BY DEF Moved
  <2> QED BY <2>1, <1>2, <1>7, <1>8, <1>9, <1>10 DEF Undeleted, DeletionsShared
<1>13. ServerMoved(theirs0, theirs1)
  <2>1. ServerMoved(theirs0, theirs)
    BY DEF Moved
  <2>2. \A i \in DOMAIN theirs1.rows :
          theirs1.rows[i].usn # usn => i \in DOMAIN theirs.rows /\ theirs1.rows[i] = theirs.rows[i]
    BY <1>4, <1>10
  <2>3. \A i \in DOMAIN theirs1.rows :
          theirs1.rows[i].usn # usn => i \in DOMAIN theirs0.rows /\ theirs1.rows[i] = theirs0.rows[i]
    BY <2>1, <2>2 DEF ServerMoved, usn
  <2>4. \A i \in DOMAIN theirs.rows :
          i \in DOMAIN theirs1.rows /\ theirs.rows[i].edit <= theirs1.rows[i].edit
    BY <1>1, <1>2, <1>4, <1>10
  <2>5. \A i \in DOMAIN theirs0.rows : theirs0.rows[i].edit \in Nat
    BY CollectionTables
  <2>6. \A i \in DOMAIN theirs1.rows : theirs1.rows[i].edit \in Nat
    BY <1>1, <1>2, <1>4, <1>10
  <2>7. \A i \in DOMAIN theirs0.rows :
          \/ i \in DOMAIN theirs.graves
          \/ i \in DOMAIN theirs1.rows /\ theirs0.rows[i].edit <= theirs1.rows[i].edit
    BY <2>1, <2>4, <2>5, <2>6, <1>1 DEF ServerMoved
  <2> QED BY <2>1, <2>3, <2>7, <1>8 DEF ServerMoved, usn
<1>14. ClientMoved(mine0, mine1, theirs1)
  <2>1. ClientMoved(mine0, mine, theirs)
    BY DEF Moved
  <2>2. \A i \in DOMAIN mine.rows :
          i \in DOMAIN mine1.rows /\ mine.rows[i].edit <= mine1.rows[i].edit
    BY <1>1, <1>2, <1>4, <1>9
  <2>3. \A i \in DOMAIN mine0.rows : mine0.rows[i].edit \in Nat
    BY CollectionTables
  <2>4. \A i \in DOMAIN mine1.rows : mine1.rows[i].edit \in Nat
    BY <1>1, <1>2, <1>4, <1>9
  <2> QED BY <2>1, <2>2, <2>3, <2>4, <1>1, <1>8 DEF ClientMoved
<1>15. DecksAgree(mine1, theirs1)
  <2>1. ASSUME NEW i \in Decks, i \in DOMAIN mine1.rows
        PROVE  /\ i \in DOMAIN theirs1.rows
               /\ mine1.rows[i].usn # -1 /\ mine1.rows[i].edit = theirs1.rows[i].edit
    <3>1. i \in DOMAIN mine.rows /\ i \notin own =>
            /\ mine.rows[i].usn # -1
            /\ i \in DOMAIN theirs.rows /\ mine.rows[i].edit <= theirs.rows[i].edit
      BY <1>1, <1>2 DEF AfterGraves, SeenByServer
    <3>2. i \in DOMAIN theirs.rows /\ i \notin received => Held(mine, theirs, i)
      BY <1>1, <1>2 DEF AfterGraves
    <3>3. usn # -1 /\ (i \in DOMAIN theirs.rows => theirs.rows[i].usn # -1)
      BY <1>1
    <3>4. CASE i \in own
      BY <2>1, <3>2, <3>3, <3>4, <1>1, <1>2, <1>4, <1>9, <1>10 DEF Held
    <3>5. CASE i \notin own
      BY <2>1, <3>1, <3>2, <3>3, <3>5, <1>1, <1>2, <1>4, <1>9, <1>10 DEF Held
    <3> QED BY <3>4, <3>5
  <2>2. ASSUME NEW i \in Decks, i \in DOMAIN theirs1.rows PROVE i \in DOMAIN mine1.rows
    <3>1. i \in DOMAIN theirs.rows /\ i \notin received => Held(mine, theirs, i)
      BY <1>1, <1>2 DEF AfterGraves
    <3> QED BY <2>2, <3>1, <1>2, <1>9, <1>10 DEF Held
  <2>3. mine1.conf = theirs1.conf
    BY <1>7, <1>8
  <2> QED BY <2>1, <2>2, <2>3 DEF DecksAgree, AgreeOn
<1>16. Receiving(mine1, theirs1, ChunkableIds(theirs1, pending_usn))
  <2>1. \A i \in Chunked :
          /\ i \in DOMAIN mine1.rows <=> i \in DOMAIN mine.rows
          /\ i \in DOMAIN mine.rows => mine1.rows[i] = mine.rows[i]
          /\ i \in DOMAIN theirs1.rows <=> i \in DOMAIN theirs.rows
          /\ i \in DOMAIN theirs.rows => theirs1.rows[i] = theirs.rows[i]
    BY <1>4, <1>9, <1>10, <1>11
  <2>2. Chunked \subseteq Ids
    BY DEF Chunked, Ids
  <2>3. SeenByServer(mine1, theirs1, Chunked)
    BY <2>1, <2>2, <1>7, <1>8 DEF AfterGraves, SeenByServer
  <2>4. ASSUME NEW i \in DOMAIN theirs1.rows \cap Chunked,
               i \notin Objects(ChunkableIds(theirs1, pending_usn))
        PROVE  Held(mine1, theirs1, i)
    <3>1. theirs1.rows[i].usn < pending_usn
      <4>1. i \notin Pending(theirs1.rows, pending_usn)
        BY <2>4 DEF Objects, ChunkableIds, Chunked
      <4>2. theirs1.rows[i].usn \in Nat
        BY <2>1, <1>1
      <4> QED BY <4>1, <4>2, PendingMeans
    <3>2. Held(mine, theirs, i)
      BY <2>1, <3>1 DEF AfterGraves
    <3> QED BY <2>1, <3>2 DEF Held
  <2>5. DOMAIN theirs1.revlog \ ChunkableIds(theirs1, pending_usn).revlog \subseteq DOMAIN mine1.revlog
    <3> SUFFICES ASSUME NEW r \in DOMAIN theirs.revlog, r \notin Pending(theirs.revlog, pending_usn)
                 PROVE  r \in DOMAIN mine.revlog
      BY <1>7, <1>8 DEF ChunkableIds
    <3>1. theirs.revlog[r].usn \in Nat
      BY CollectionTables
    <3>2. theirs.revlog[r].usn < pending_usn
      BY <3>1, PendingMeans
    <3> QED BY <3>2 DEF AfterGraves
  <2> QED BY <2>3, <2>4, <2>5 DEF Receiving
<1>17. ComposedOf(mine1, mine, theirs) /\ ComposedOf(theirs1, mine, theirs)
  BY <1>2, <1>4, <1>7, <1>8, <1>9, <1>10 DEF ComposedOf
<1>18. Moved(mine0, theirs0, mine1, theirs1)
  BY <1>12, <1>13, <1>14 DEF Moved
<1> QED BY <1>7, <1>8, <1>12, <1>15, <1>16, <1>17, <1>18
        DEF mine1, theirs1, here, there, decks, sent, rows, received, usn, DecksHere, DecksAt

---------------------------------------------------------------------------
(* The chunks from the server. *)

\* A chunk that is received brings its rows in step and leaves the rest to come.
LEMMA ChunkReceived ==
  ASSUME NEW mine0 \in Collections(Usns), NEW theirs0 \in Collections(Nat),
         NEW mine \in Collections(Usns), NEW theirs \in Collections(Nat),
         NEW ids \in ChunkIds, NEW next \in ChunkIds, Within(next, theirs),
         Undeleted(theirs), Ordered(mine, theirs), Moved(mine0, theirs0, mine, theirs),
         DecksAgree(mine, theirs), Receiving(mine, theirs, ids)
  PROVE  LET mine1 == ApplyChunk(mine, ChunkOf(theirs, next), -1)
         IN /\ Undeleted(mine1)
            /\ Moved(mine0, theirs0, mine1, theirs)
            /\ DecksAgree(mine1, theirs)
            /\ Receiving(mine1, theirs, Without(ids, next))
            /\ next = ids => Sending(mine1, theirs, ChunkableIds(mine1, -1))
            /\ ComposedOf(mine1, mine, theirs) /\ SameStamps(mine1, mine)
<1> DEFINE chunk == ChunkOf(theirs, next)
           mine1 == ApplyChunk(mine, chunk, -1)
           objects == Objects(next)
<1>1. /\ DOMAIN mine.rows \subseteq Ids /\ DOMAIN theirs.rows \subseteq Ids
      /\ \A i \in DOMAIN mine.rows : mine.rows[i].edit \in Nat
      /\ \A i \in DOMAIN theirs.rows : theirs.rows[i].edit \in Nat /\ theirs.rows[i].usn # -1
      /\ \A r \in DOMAIN theirs.revlog : theirs.revlog[r].usn # -1
      /\ \A i \in DOMAIN mine0.rows : mine0.rows[i].edit \in Nat
  BY CollectionTables
<1>2. /\ chunk \in Chunks(Nat)
      /\ DOMAIN chunk.rows = objects
      /\ \A i \in DOMAIN chunk.rows : chunk.rows[i] = theirs.rows[i]
      /\ DOMAIN chunk.revlog = next.revlog
      /\ \A r \in DOMAIN chunk.revlog : chunk.revlog[r] = theirs.revlog[r]
  BY ChunkFields DEF Objects
<1>3. chunk \in Chunks(Usns)
  BY <1>2, Widened, Constants DEF Chunks
<1>4. /\ objects \subseteq Chunked /\ objects \subseteq DOMAIN theirs.rows
      /\ next.revlog \subseteq DOMAIN theirs.revlog
      /\ \A i \in objects : i \notin Decks
  BY IdsAssumption DEF Objects, Chunked, ChunkIds, Within
<1> HIDE DEF chunk, objects
<1>5. /\ DOMAIN mine1.rows = DOMAIN mine.rows \cup DOMAIN chunk.rows
      /\ \A i \in DOMAIN mine.rows \ DOMAIN chunk.rows : mine1.rows[i] = mine.rows[i]
      /\ \A i \in DOMAIN chunk.rows \ DOMAIN mine.rows : mine1.rows[i] = chunk.rows[i]
      /\ \A i \in DOMAIN mine.rows \cap DOMAIN chunk.rows :
           \/ /\ mine1.rows[i] = chunk.rows[i]
              /\ \/ ~ IsPending(mine.rows[i].usn, -1)
                 \/ Secs(mine.rows[i].edit) <= Secs(chunk.rows[i].edit)
           \/ /\ mine1.rows[i] = mine.rows[i]
              /\ IsPending(mine.rows[i].usn, -1)
              /\ Secs(chunk.rows[i].edit) <= Secs(mine.rows[i].edit)
      /\ DOMAIN mine1.revlog = DOMAIN mine.revlog \cup DOMAIN chunk.revlog
      /\ \A r \in DOMAIN mine.revlog : mine1.revlog[r] = mine.revlog[r]
      /\ \A r \in DOMAIN chunk.revlog \ DOMAIN mine.revlog : mine1.revlog[r] = chunk.revlog[r]
      /\ mine1.graves = mine.graves /\ mine1.conf = mine.conf
      /\ mine1.usn = mine.usn /\ mine1.mod = mine.mod /\ mine1.scm = mine.scm
  BY <1>3, ApplyChunkFields
<1> HIDE DEF mine1
\* The rows, object by object.
<1>6. /\ DOMAIN mine1.rows = DOMAIN mine.rows \cup objects
      /\ \A i \in DOMAIN mine.rows \ objects : mine1.rows[i] = mine.rows[i]
      /\ \A i \in objects \ DOMAIN mine.rows : mine1.rows[i] = theirs.rows[i]
      /\ \A i \in DOMAIN mine.rows \cap objects :
           \/ /\ mine1.rows[i] = theirs.rows[i]
              /\ mine.rows[i].usn # -1 \/ mine.rows[i].edit <= theirs.rows[i].edit
           \/ /\ mine1.rows[i] = mine.rows[i]
              /\ mine.rows[i].usn = -1 /\ theirs.rows[i].edit <= mine.rows[i].edit
  <2>1. \A i \in DOMAIN mine.rows \cap objects :
          /\ Secs(mine.rows[i].edit) <= Secs(theirs.rows[i].edit)
               <=> mine.rows[i].edit <= theirs.rows[i].edit
          /\ Secs(theirs.rows[i].edit) <= Secs(mine.rows[i].edit)
               <=> theirs.rows[i].edit <= mine.rows[i].edit
    BY <1>4 DEF Ordered
  <2> QED BY <2>1, <1>2, <1>5 DEF IsPending
<1>7. DeletionsShared(mine, theirs) /\ ServerMoved(theirs0, theirs)
      /\ ClientMoved(mine0, mine, theirs)
  BY DEF Moved
<1>8. Undeleted(mine1) /\ DeletionsShared(mine1, theirs)
  BY <1>4, <1>5, <1>6, <1>7 DEF Undeleted, DeletionsShared
<1>9. SeenByServer(mine, theirs, Chunked)
  BY DEF Receiving
<1>10. ClientMoved(mine0, mine1, theirs)
  <2>1. \A i \in DOMAIN mine.rows :
          i \in DOMAIN mine1.rows /\ mine.rows[i].edit <= mine1.rows[i].edit
    BY <1>1, <1>4, <1>6, <1>9 DEF SeenByServer
  <2>2. \A i \in DOMAIN mine1.rows : mine1.rows[i].edit \in Nat
    BY <1>1, <1>4, <1>6
  <2> QED BY <2>1, <2>2, <1>1, <1>7 DEF ClientMoved
<1>11. DecksAgree(mine1, theirs)
  <2>1. \A i \in Decks :
          /\ i \in DOMAIN mine1.rows <=> i \in DOMAIN mine.rows
          /\ i \in DOMAIN mine.rows => mine1.rows[i] = mine.rows[i]
    BY <1>4, <1>6
  <2> QED BY <2>1, <1>5 DEF DecksAgree, AgreeOn
<1>12. SeenByServer(mine1, theirs, Chunked)
  <2>1. \A i \in Chunked \cap DOMAIN mine1.rows :
          mine1.rows[i].usn # -1 =>
            i \in DOMAIN theirs.rows /\ mine1.rows[i].edit <= theirs.rows[i].edit
    BY <1>1, <1>4, <1>6, <1>9 DEF SeenByServer
  <2>2. \A r \in DOMAIN mine1.revlog : mine1.revlog[r].usn # -1 => r \in DOMAIN theirs.revlog
    BY <1>2, <1>4, <1>5, <1>9 DEF SeenByServer
  <2> QED BY <2>1, <2>2 DEF SeenByServer
<1>13. \A i \in DOMAIN theirs.rows :
         i \in objects \/ Held(mine, theirs, i) => Held(mine1, theirs, i)
  BY <1>1, <1>4, <1>6 DEF Held
<1>14. Receiving(mine1, theirs, Without(ids, next))
  <2>1. \A i \in Objects(ids) : i \in Objects(Without(ids, next)) \/ i \in objects
    BY DEF Objects, Without, objects
  <2>2. \A i \in (DOMAIN theirs.rows \cap Chunked) \ Objects(Without(ids, next)) :
          Held(mine1, theirs, i)
    BY <2>1, <1>13 DEF Receiving
  <2>3. DOMAIN theirs.revlog \ Without(ids, next).revlog \subseteq DOMAIN mine1.revlog
    BY <1>2, <1>5 DEF Receiving, Without
  <2> QED BY <2>2, <2>3, <1>12 DEF Receiving
<1>15. ASSUME next = ids PROVE Sending(mine1, theirs, ChunkableIds(mine1, -1))
  <2> DEFINE own == ChunkableIds(mine1, -1)
  <2>1. /\ own.revlog = {r \in DOMAIN mine1.revlog : mine1.revlog[r].usn = -1}
        /\ \A i \in Chunked : i \in Objects(own)
             <=> (i \in DOMAIN mine1.rows /\ mine1.rows[i].usn = -1)
        /\ own.revlog = Pending(mine1.revlog, -1)
    BY PendingMeans DEF Objects, ChunkableIds, Chunked
  <2>2. \A i \in DOMAIN theirs.rows \cap Chunked : Held(mine1, theirs, i)
    BY <1>15, <1>13 DEF Receiving, objects
  <2> HIDE DEF own
  <2>3. AgreeOn(mine1, theirs, Chunked \ Objects(own))
    BY <2>1, <2>2, <1>12 DEF SeenByServer, AgreeOn, Held
  <2>4. DOMAIN theirs.revlog \subseteq DOMAIN mine1.revlog
    BY <1>15, <1>2, <1>5 DEF Receiving
  <2>5. DOMAIN mine1.revlog \ own.revlog \subseteq DOMAIN theirs.revlog
    BY <2>1, <1>12 DEF SeenByServer
  <2> QED BY <2>1, <2>2, <2>3, <2>4, <2>5 DEF Sending, own
<1>16. ComposedOf(mine1, mine, theirs) /\ SameStamps(mine1, mine)
  BY <1>2, <1>4, <1>5, <1>6 DEF ComposedOf, SameStamps
<1>17. Moved(mine0, theirs0, mine1, theirs)
  BY <1>7, <1>8, <1>10 DEF Moved
<1> QED BY <1>8, <1>11, <1>14, <1>15, <1>16, <1>17 DEF mine1, chunk

---------------------------------------------------------------------------
(* The chunks from the client. *)

\* A chunk that is sent brings its rows in step and leaves the rest to go.
LEMMA ChunkSent ==
  ASSUME NEW mine0 \in Collections(Usns), NEW theirs0 \in Collections(Nat),
         NEW mine \in Collections(Usns), NEW theirs \in Collections(Nat), NEW pending_usn,
         NEW ids \in ChunkIds, NEW next \in ChunkIds, Within(next, mine),
         Undeleted(mine), Undeleted(theirs), Ordered(mine, theirs),
         Moved(mine0, theirs0, mine, theirs),
         DecksAgree(mine, theirs), Sending(mine, theirs, ids)
  PROVE  LET mine1 == StampChunk(mine, next, theirs0.usn)
             theirs1 == ApplyChunk(theirs, SentChunk(mine, next, theirs0.usn), pending_usn)
         IN /\ Undeleted(mine1) /\ Undeleted(theirs1)
            /\ Moved(mine0, theirs0, mine1, theirs1)
            /\ DecksAgree(mine1, theirs1)
            /\ Sending(mine1, theirs1, Without(ids, next))
            /\ next = ids => AllSent(mine1, theirs1)
            /\ ComposedOf(mine1, mine, theirs) /\ ComposedOf(theirs1, mine, theirs)
            /\ SameStamps(mine1, mine) /\ SameStamps(theirs1, theirs)
<1> DEFINE usn == theirs0.usn
           chunk == SentChunk(mine, next, usn)
           mine1 == StampChunk(mine, next, usn)
           theirs1 == ApplyChunk(theirs, chunk, pending_usn)
           objects == Objects(next)
<1>1. /\ usn \in Nat /\ usn \in Usns /\ usn # -1
      /\ \A i \in DOMAIN mine.rows : mine.rows[i].edit \in Nat
      /\ \A i \in DOMAIN theirs.rows : theirs.rows[i].edit \in Nat
      /\ \A i \in DOMAIN mine0.rows : mine0.rows[i].edit \in Nat
      /\ \A i \in DOMAIN theirs0.rows : theirs0.rows[i].edit \in Nat
  BY CollectionTables, Constants
<1>0. usn = theirs0.usn
  OBVIOUS
<1> HIDE DEF usn
<1>2. /\ chunk \in Chunks(Nat)
      /\ DOMAIN chunk.rows = objects
      /\ \A i \in DOMAIN chunk.rows :
           chunk.rows[i].usn = usn /\ chunk.rows[i].edit = mine.rows[i].edit
      /\ DOMAIN chunk.revlog = next.revlog
      /\ \A r \in DOMAIN chunk.revlog : chunk.revlog[r].usn = usn
  BY <1>1, SentChunkFields DEF Objects
<1>3. /\ objects \subseteq Chunked /\ objects \subseteq DOMAIN mine.rows
      /\ next.revlog \subseteq DOMAIN mine.revlog
      /\ \A i \in objects : i \notin Decks
  BY IdsAssumption DEF Objects, Chunked, ChunkIds, Within
<1>4. /\ DOMAIN mine1.rows = DOMAIN mine.rows
      /\ \A i \in DOMAIN mine.rows : mine1.rows[i].edit = mine.rows[i].edit
      /\ \A i \in DOMAIN mine.rows \cap objects : mine1.rows[i].usn = usn
      /\ \A i \in DOMAIN mine.rows \ objects : mine1.rows[i] = mine.rows[i]
      /\ DOMAIN mine1.revlog = DOMAIN mine.revlog
      /\ \A r \in DOMAIN mine.revlog \cap next.revlog : mine1.revlog[r].usn = usn
      /\ \A r \in DOMAIN mine.revlog \ next.revlog : mine1.revlog[r] = mine.revlog[r]
      /\ mine1.graves = mine.graves /\ mine1.conf = mine.conf
      /\ mine1.usn = mine.usn /\ mine1.mod = mine.mod /\ mine1.scm = mine.scm
  BY <1>1, StampChunkFields DEF Objects
<1> HIDE DEF chunk, mine1, objects
<1>5. /\ DOMAIN theirs1.rows = DOMAIN theirs.rows \cup DOMAIN chunk.rows
      /\ \A i \in DOMAIN theirs.rows \ DOMAIN chunk.rows : theirs1.rows[i] = theirs.rows[i]
      /\ \A i \in DOMAIN chunk.rows \ DOMAIN theirs.rows : theirs1.rows[i] = chunk.rows[i]
      /\ \A i \in DOMAIN theirs.rows \cap DOMAIN chunk.rows :
           \/ /\ theirs1.rows[i] = chunk.rows[i]
              /\ \/ ~ IsPending(theirs.rows[i].usn, pending_usn)
                 \/ Secs(theirs.rows[i].edit) <= Secs(chunk.rows[i].edit)
           \/ /\ theirs1.rows[i] = theirs.rows[i]
              /\ IsPending(theirs.rows[i].usn, pending_usn)
              /\ Secs(chunk.rows[i].edit) <= Secs(theirs.rows[i].edit)
      /\ DOMAIN theirs1.revlog = DOMAIN theirs.revlog \cup DOMAIN chunk.revlog
      /\ \A r \in DOMAIN theirs.revlog : theirs1.revlog[r] = theirs.revlog[r]
      /\ \A r \in DOMAIN chunk.revlog \ DOMAIN theirs.revlog : theirs1.revlog[r] = chunk.revlog[r]
      /\ theirs1.graves = theirs.graves /\ theirs1.conf = theirs.conf
      /\ theirs1.usn = theirs.usn /\ theirs1.mod = theirs.mod /\ theirs1.scm = theirs.scm
  BY <1>2, ApplyChunkFields
<1> HIDE DEF theirs1
<1>6. \A i \in DOMAIN theirs.rows \cap Chunked : Held(mine, theirs, i)
  BY DEF Sending
\* The rows at the server, object by object.
<1>7. /\ DOMAIN theirs1.rows = DOMAIN theirs.rows \cup objects
      /\ \A i \in DOMAIN theirs.rows \ objects : theirs1.rows[i] = theirs.rows[i]
      /\ \A i \in objects : theirs1.rows[i].edit = mine.rows[i].edit
      /\ \A i \in objects :
           \/ theirs1.rows[i].usn = usn
           \/ i \in DOMAIN theirs.rows /\ theirs1.rows[i] = theirs.rows[i]
      /\ \A i \in DOMAIN theirs.rows : theirs.rows[i].edit <= theirs1.rows[i].edit
  <2>1. ASSUME NEW i \in DOMAIN theirs.rows \cap objects
        PROVE  /\ theirs1.rows[i].edit = mine.rows[i].edit
               /\ theirs1.rows[i].usn = usn \/ theirs1.rows[i] = theirs.rows[i]
               /\ theirs.rows[i].edit <= theirs1.rows[i].edit
    <3>1. theirs.rows[i].edit <= mine.rows[i].edit
      BY <1>1, <1>3, <1>6 DEF Held
    <3>2. Secs(mine.rows[i].edit) <= Secs(theirs.rows[i].edit)
            => mine.rows[i].edit = theirs.rows[i].edit
      BY <3>1, <1>1, <1>3 DEF Ordered
    <3> QED BY <3>1, <3>2, <1>1, <1>2, <1>3, <1>5
  <2>2. \A i \in objects \ DOMAIN theirs.rows :
          theirs1.rows[i].edit = mine.rows[i].edit /\ theirs1.rows[i].usn = usn
    BY <1>2, <1>5
  <2> QED BY <2>1, <2>2, <1>1, <1>2, <1>5
<1>8. DeletionsShared(mine, theirs) /\ ServerMoved(theirs0, theirs)
      /\ ClientMoved(mine0, mine, theirs)
  BY DEF Moved
<1>9. Undeleted(mine1) /\ Undeleted(theirs1) /\ DeletionsShared(mine1, theirs1)
  BY <1>3, <1>4, <1>5, <1>7, <1>8 DEF Undeleted, DeletionsShared
<1>10. ServerMoved(theirs0, theirs1)
  <2>1. \A i \in DOMAIN theirs1.rows :
          theirs1.rows[i].usn # usn => i \in DOMAIN theirs.rows /\ theirs1.rows[i] = theirs.rows[i]
    BY <1>7
  <2>2. \A i \in DOMAIN theirs1.rows :
          theirs1.rows[i].usn # usn => i \in DOMAIN theirs0.rows /\ theirs1.rows[i] = theirs0.rows[i]
    BY <2>1, <1>0, <1>8 DEF ServerMoved
  <2>3. \A i \in DOMAIN theirs1.rows : theirs1.rows[i].edit \in Nat
    BY <1>1, <1>3, <1>7
  <2>4. \A i \in DOMAIN theirs0.rows :
          \/ i \in DOMAIN theirs.graves
          \/ i \in DOMAIN theirs1.rows /\ theirs0.rows[i].edit <= theirs1.rows[i].edit
    BY <2>3, <1>1, <1>7, <1>8 DEF ServerMoved
  <2>5. \A r \in DOMAIN theirs1.revlog :
          theirs1.revlog[r].usn # usn
            => r \in DOMAIN theirs.revlog /\ theirs1.revlog[r] = theirs.revlog[r]
    BY <1>2, <1>5
  <2>6. \A r \in DOMAIN theirs1.revlog :
          theirs1.revlog[r].usn # usn
            => r \in DOMAIN theirs0.revlog /\ theirs1.revlog[r] = theirs0.revlog[r]
    BY <2>5, <1>0, <1>8 DEF ServerMoved
  <2> QED BY <2>2, <2>4, <2>6, <1>0, <1>5, <1>8 DEF ServerMoved
<1>11. ClientMoved(mine0, mine1, theirs1)
  BY <1>4, <1>5, <1>8 DEF ClientMoved
<1>12. DecksAgree(mine1, theirs1)
  <2>1. \A i \in Decks : i \notin objects
    BY <1>3
  <2>2. \A i \in Decks :
          /\ (i \in DOMAIN mine1.rows) <=> (i \in DOMAIN mine.rows)
          /\ i \in DOMAIN mine.rows => mine1.rows[i] = mine.rows[i]
          /\ (i \in DOMAIN theirs1.rows) <=> (i \in DOMAIN theirs.rows)
          /\ i \in DOMAIN theirs.rows => theirs1.rows[i] = theirs.rows[i]
    BY <2>1, <1>4, <1>7
  <2> QED BY <2>2, <1>4, <1>5 DEF DecksAgree, AgreeOn
<1>13. \A i \in Objects(ids) : i \in Objects(Without(ids, next)) \/ i \in objects
  BY DEF Objects, Without, objects
<1>14. Sending(mine1, theirs1, Without(ids, next))
  <2>1. \A i \in DOMAIN theirs1.rows \cap Chunked : Held(mine1, theirs1, i)
    BY <1>1, <1>3, <1>4, <1>6, <1>7 DEF Held
  <2>2. AgreeOn(mine, theirs, Chunked \ Objects(ids))
    BY DEF Sending
  <2>3. \A i \in Chunked \ Objects(Without(ids, next)) :
          i \in objects \/ i \in Chunked \ Objects(ids)
    BY <1>13
  <2>4. \A i \in Chunked \ Objects(Without(ids, next)) :
          (i \in DOMAIN mine1.rows) <=> (i \in DOMAIN theirs1.rows)
    BY <2>2, <2>3, <1>3, <1>4, <1>7 DEF AgreeOn
  <2>5. \A i \in (Chunked \ Objects(Without(ids, next))) \cap DOMAIN mine1.rows :
          mine1.rows[i].usn # -1 /\ mine1.rows[i].edit = theirs1.rows[i].edit
    BY <2>2, <2>3, <1>1, <1>3, <1>4, <1>7 DEF AgreeOn
  <2>6. DOMAIN theirs1.revlog \subseteq DOMAIN mine1.revlog
    BY <1>2, <1>3, <1>4, <1>5 DEF Sending
  <2>7. DOMAIN mine1.revlog \ Without(ids, next).revlog \subseteq DOMAIN theirs1.revlog
    BY <1>2, <1>4, <1>5 DEF Sending, Without
  <2>8. Pending(mine1.revlog, -1) \subseteq Without(ids, next).revlog
    BY <1>1, <1>4, PendingMeans DEF Sending, Without
  <2> QED BY <2>1, <2>4, <2>5, <2>6, <2>7, <2>8 DEF Sending, AgreeOn
<1>15. ASSUME next = ids PROVE AllSent(mine1, theirs1)
  <2>1. Objects(Without(ids, next)) = {} /\ Without(ids, next).revlog = {}
    BY <1>15 DEF Objects, Without
  <2> QED BY <2>1, <1>14 DEF Sending, AllSent
<1>16. ComposedOf(mine1, mine, theirs) /\ ComposedOf(theirs1, mine, theirs)
  BY <1>2, <1>3, <1>4, <1>5, <1>7 DEF ComposedOf
<1>17. SameStamps(mine1, mine) /\ SameStamps(theirs1, theirs)
  BY <1>4, <1>5 DEF SameStamps
<1>18. Moved(mine0, theirs0, mine1, theirs1)
  BY <1>9, <1>10, <1>11 DEF Moved
<1> QED BY <1>9, <1>12, <1>14, <1>15, <1>16, <1>17, <1>18 DEF mine1, theirs1, chunk, usn

---------------------------------------------------------------------------
(* What a client knows, when the server's collection or its own moves on. *)

\* A collection has moved on from itself.
LEMMA Unmoved ==
  ASSUME NEW usns, NEW d \in Collections(usns)
  PROVE  ServerMoved(d, d)
<1>1. \A i \in DOMAIN d.rows : d.rows[i].edit <= d.rows[i].edit
  BY CollectionTables
<1> QED BY <1>1 DEF ServerMoved

SameContent(d, e) == d.rows = e.rows /\ d.graves = e.graves /\ d.revlog = e.revlog

\* What a client knows of the server stays true when the server moves on.
LEMMA KnownMoved ==
  ASSUME NEW mine \in Collections(Usns), NEW before \in Collections(Nat),
         NEW theirs \in Collections(Nat), NEW after \in Collections(Nat),
         Known(mine, before), ServerMoved(before, theirs), Undeleted(theirs),
         SameContent(after, theirs), before.usn <= after.usn
  PROVE  Known(mine, after)
<1>1. /\ mine.usn \in Nat /\ before.usn \in Nat /\ after.usn \in Nat
      /\ \A i \in DOMAIN mine.rows : mine.rows[i].edit \in Nat
      /\ \A i \in DOMAIN before.rows : before.rows[i].edit \in Nat
      /\ \A i \in DOMAIN after.rows : after.rows[i].edit \in Nat /\ after.rows[i].usn \in Nat
      /\ \A i \in DOMAIN after.graves : after.graves[i].usn \in Nat
      /\ \A r \in DOMAIN after.revlog : after.revlog[r].usn \in Nat
  BY CollectionTables
<1>2. /\ mine.usn <= before.usn
      /\ ServerMoved(before, after) /\ Undeleted(after)
  BY DEF Known, SameContent, ServerMoved, Undeleted
<1>3. mine.usn <= after.usn
  BY <1>1, <1>2
<1>4. ASSUME NEW i \in DOMAIN after.rows, after.rows[i].usn < mine.usn
      PROVE  Held(mine, after, i) \/ i \in Pending(mine.graves, -1)
  <2>1. after.rows[i].usn # before.usn
    BY <1>1, <1>2, <1>4
  <2>2. i \in DOMAIN before.rows /\ after.rows[i] = before.rows[i]
    BY <2>1, <1>2 DEF ServerMoved
  <2> QED BY <2>2, <1>4 DEF Known, Held
<1>5. ASSUME NEW i \in DOMAIN after.graves, after.graves[i].usn < mine.usn
      PROVE  i \notin DOMAIN mine.rows
  <2>1. after.graves[i].usn # before.usn
    BY <1>1, <1>2, <1>5
  <2> QED BY <2>1, <1>2, <1>5 DEF ServerMoved, Known
<1>6. ASSUME NEW r \in DOMAIN after.revlog, after.revlog[r].usn < mine.usn
      PROVE  r \in DOMAIN mine.revlog
  <2>1. after.revlog[r].usn # before.usn
    BY <1>1, <1>2, <1>6
  <2> QED BY <2>1, <1>2, <1>6 DEF ServerMoved, Known
<1>7. ASSUME NEW i \in DOMAIN mine.rows, mine.rows[i].usn # -1
      PROVE  /\ i \in DOMAIN after.rows \cup DOMAIN after.graves
             /\ i \in DOMAIN after.rows => mine.rows[i].edit <= after.rows[i].edit
  <2>1. /\ i \in DOMAIN before.rows \cup DOMAIN before.graves
        /\ i \in DOMAIN before.rows => mine.rows[i].edit <= before.rows[i].edit
    BY <1>7 DEF Known
  <2>2. CASE i \in DOMAIN after.graves
    BY <2>2, <1>2 DEF Undeleted
  <2>3. CASE i \notin DOMAIN after.graves
    <3>1. i \in DOMAIN before.rows
      BY <2>1, <2>3, <1>2 DEF ServerMoved
    <3>2. i \in DOMAIN after.rows /\ before.rows[i].edit <= after.rows[i].edit
      BY <2>3, <3>1, <1>2 DEF ServerMoved
    <3> QED BY <2>1, <3>1, <3>2, <1>1
  <2> QED BY <2>2, <2>3
<1>8. \A i \in DOMAIN mine.graves : mine.graves[i].usn # -1 => i \in DOMAIN after.graves
  BY <1>2 DEF Known, ServerMoved
<1>9. \A r \in DOMAIN mine.revlog : mine.revlog[r].usn # -1 => r \in DOMAIN after.revlog
  BY <1>2 DEF Known, ServerMoved
<1> QED BY <1>3, <1>4, <1>5, <1>6, <1>7, <1>8, <1>9 DEF Known

\* A client that has come to the end of a sync knows all of it.
LEMMA KnownFinished ==
  ASSUME NEW mine \in Collections(Usns), NEW theirs \in Collections(Nat),
         DeletionsShared(mine, theirs), DecksAgree(mine, theirs), AllSent(mine, theirs),
         NEW mine1, NEW theirs1 \in Collections(Nat), SameContent(mine1, mine),
         SameContent(theirs1, theirs), mine1.usn = theirs1.usn
  PROVE  Known(mine1, theirs1)
<1>1. /\ DOMAIN mine1.rows \subseteq Ids /\ DOMAIN theirs1.rows \subseteq Ids
      /\ \A i \in DOMAIN theirs1.rows : theirs1.rows[i].edit \in Nat
      /\ theirs1.usn \in Nat
  BY CollectionTables DEF SameContent
<1>2. /\ \A i \in Ids : (i \in DOMAIN mine1.rows) <=> (i \in DOMAIN theirs1.rows)
      /\ \A i \in DOMAIN mine1.rows : mine1.rows[i].edit = theirs1.rows[i].edit
  BY <1>1 DEF SameContent, DecksAgree, AllSent, AgreeOn, Ids, Chunked
<1>3. \A i \in DOMAIN theirs1.rows : Held(mine1, theirs1, i)
  BY <1>1, <1>2 DEF Held
<1>4. /\ DOMAIN theirs1.graves \cap DOMAIN mine1.rows = {}
      /\ DOMAIN mine1.graves \subseteq DOMAIN theirs1.graves
      /\ DOMAIN mine1.revlog = DOMAIN theirs1.revlog
  BY DEF SameContent, DeletionsShared, AllSent
<1> QED BY <1>1, <1>2, <1>3, <1>4 DEF Known

\* A copy knows all of it.
LEMMA KnownCopy ==
  ASSUME NEW d \in Collections(Nat), Undeleted(d)
  PROVE  Known(d, d)
<1>1. /\ d.usn <= d.usn /\ \A i \in DOMAIN d.rows : d.rows[i].edit <= d.rows[i].edit
  BY CollectionTables
<1> QED BY <1>1 DEF Known, Held, Undeleted

---------------------------------------------------------------------------
(* Steps of one client and the server. *)

\* Whatever versions and reviews the collection has are somewhere already.
Sourced(d) ==
  /\ \A i \in DOMAIN d.rows : d.rows[i].edit \in Versions(i)
  /\ DOMAIN d.revlog \subseteq 0..now

\* A party's collection is made of versions that exist.
LEMMA SourcedHere ==
  ASSUME VersionsInv, NEW p \in Parties
  PROVE  Sourced(db[p]) /\ Sourced(committed[p])
BY DEF Sourced, Versions, VersionsAt, VersionsInv

\* So is what is composed of two such collections.
LEMMA SourcedParts ==
  ASSUME VersionsInv, NEW d, NEW mine, NEW theirs, Sourced(mine), Sourced(theirs),
         ComposedOf(d, mine, theirs)
  PROVE  Sourced(d)
BY DEF Sourced, ComposedOf

\* A step that changes the collections of client c and of the server.
StepBy(c, mine, theirs, kept, stored, own) ==
  /\ db' = [db EXCEPT ![c] = mine, ![Server] = theirs]
  /\ committed' = [committed EXCEPT ![c] = kept, ![Server] = stored]
  /\ session' = [session EXCEPT ![c] = own]

\* What a step of one client leaves, by party.
LEMMA StepValues ==
  ASSUME TypeInv, NEW c \in Clients, NEW mine, NEW theirs, NEW kept, NEW stored, NEW own,
         StepBy(c, mine, theirs, kept, stored, own)
  PROVE  /\ db'[c] = mine /\ db'[Server] = theirs
         /\ committed'[c] = kept /\ committed'[Server] = stored
         /\ session'[c] = own
         /\ \A p \in Clients \ {c} :
              db'[p] = db[p] /\ committed'[p] = committed[p] /\ session'[p] = session[p]
BY Constants DEF TypeInv, StepBy

\* A step that composes what exists keeps what is said of the versions.
LEMMA VersionsStep ==
  ASSUME TypeInv, VersionsInv, NEW c \in Clients,
         NEW mine, NEW theirs, NEW kept, NEW stored, NEW own,
         StepBy(c, mine, theirs, kept, stored, own),
         Sourced(mine), Sourced(theirs), Sourced(kept), Sourced(stored),
         now' \in Nat, now <= now', kept.scm <= now', stored.scm <= now'
  PROVE  VersionsInv'
<1>1. \A p \in Parties : p \in {c, Server} \/ p \in Clients \ {c}
  BY DEF Parties
<1>2. \A p \in Parties :
        /\ Sourced(db[p]) /\ Sourced(committed[p])
        /\ db'[p] \in {mine, theirs, db[p]} /\ committed'[p] \in {kept, stored, committed[p]}
  BY <1>1, StepValues, SourcedHere
<1>3. ASSUME NEW i, NEW e \in Versions(i)' PROVE e \in Versions(i)
  <2>1. PICK p \in Parties : e \in VersionsAt(db'[p], i) \cup VersionsAt(committed'[p], i)
    BY <1>3 DEF Versions, VersionsAt
  <2>2. PICK d \in {mine, theirs, kept, stored, db[p], committed[p]} : e \in VersionsAt(d, i)
    BY <2>1, <1>2
  <2>3. Sourced(d)
    BY <1>2
  <2> QED BY <2>2, <2>3 DEF Sourced, VersionsAt
<1>4. now \in Nat
  BY DEF TypeInv
<1>5. \A i \in Ids : \A e \in Versions(i) : e <= now'
  <2> SUFFICES ASSUME NEW i \in Ids, NEW e \in Versions(i) PROVE e <= now'
    OBVIOUS
  <2>1. e \in Nat
    <3>1. PICK p \in Parties : e \in VersionsAt(db[p], i) \cup VersionsAt(committed[p], i)
      BY DEF Versions
    <3>2. db[p] \in Collections(Usns) /\ committed[p] \in Collections(Usns)
      BY DEF TypeInv
    <3>3. PICK d \in {db[p], committed[p]} : e \in VersionsAt(d, i)
      BY <3>1
    <3>4. d \in Collections(Usns)
      BY <3>2
    <3> QED BY <3>3, <3>4, CollectionTables DEF VersionsAt
  <2> QED BY <2>1, <1>4 DEF VersionsInv
<1>6. \A d \in {mine, theirs, kept, stored} : DOMAIN d.revlog \subseteq 0..now'
  BY <1>4 DEF Sourced
<1>7. \A p \in Parties :
        DOMAIN db'[p].revlog \subseteq 0..now' /\ DOMAIN committed'[p].revlog \subseteq 0..now'
  <2>1. \A p \in Parties :
          DOMAIN db[p].revlog \subseteq 0..now' /\ DOMAIN committed[p].revlog \subseteq 0..now'
    BY <1>4 DEF VersionsInv
  <2> QED BY <2>1, <1>2, <1>6
<1>9. \A p \in Clients : committed'[p].scm <= now' /\ committed'[Server].scm <= now'
  <2>1. \A p \in Clients : committed[p].scm \in Nat /\ committed[p].scm <= now
    BY CollectionTables, Constants DEF TypeInv, VersionsInv
  <2>2. /\ committed'[Server] = stored /\ committed'[c] = kept
        /\ \A p \in Clients \ {c} : committed'[p] = committed[p]
    BY StepValues
  <2> QED BY <2>1, <2>2, <1>4
<1>8. \A i \in Ids : \A e, f \in Versions(i)' : Secs(e) = Secs(f) => e = f
  BY <1>3 DEF VersionsInv
<1> QED BY <1>3, <1>5, <1>7, <1>8, <1>9 DEF VersionsInv

\* What such a step has to keep: the number and the stamps agree with what is on disk,
\* nothing deleted is back, every client still knows what its number says, and the
\* sync that the server is in is where it should be.
LEMMA InvStep ==
  ASSUME TypeInv, SyncInv, NEW c \in Clients,
         NEW mine, NEW theirs, NEW kept, NEW stored, NEW own,
         StepBy(c, mine, theirs, kept, stored, own), VersionsInv',
         Undeleted(mine), Undeleted(theirs), Undeleted(kept), Undeleted(stored),
         SameStamps(mine, kept), SameStamps(theirs, stored),
         own.phase \in {"idle", "meta", "full"} => mine = kept,
         serving' = NoSync => theirs = stored,
         kept.scm = stored.scm => Known(kept, stored),
         \A p \in Clients \ {c} : committed[p].scm = stored.scm => Known(committed[p], stored),
         \/ serving' = NoSync
         \/ serving'.skey = c
         \/ serving' = serving /\ theirs = db[Server] /\ stored = committed[Server],
         own.phase \in Active \cup {"meta"} => own.meta.scm = kept.scm,
         own.phase \in Active /\ serving'.skey = c =>
           Serves(own, serving', kept, stored, mine, theirs)
  PROVE  SyncInv'
<1>1. /\ db'[c] = mine /\ db'[Server] = theirs
      /\ committed'[c] = kept /\ committed'[Server] = stored
      /\ session'[c] = own
      /\ \A p \in Clients \ {c} :
           db'[p] = db[p] /\ committed'[p] = committed[p] /\ session'[p] = session[p]
  BY StepValues
<1>2. Parties = {c, Server} \cup (Clients \ {c}) /\ c # Server /\ NoSync.skey = Server
  BY Constants DEF Parties, NoSync
<1>3. QuietInv'
  <2>1. \A p \in Clients : session'[p].phase \in {"idle", "meta", "full"} => db'[p] = committed'[p]
    BY <1>1 DEF SyncInv, QuietInv
  <2>2. serving' = NoSync \/ serving'.skey \in Clients
    BY DEF SyncInv, QuietInv
  <2>3. serving' = NoSync => db'[Server] = committed'[Server]
    BY <1>1
  <2>4. \A p \in Parties :
          /\ db'[p].usn = committed'[p].usn /\ db'[p].mod = committed'[p].mod
          /\ db'[p].scm = committed'[p].scm
    BY <1>1, <1>2 DEF SyncInv, QuietInv, SameStamps
  <2> QED BY <2>1, <2>2, <2>3, <2>4 DEF QuietInv
<1>4. DeletedInv'
  <2>1. \A p \in Parties : Undeleted(db'[p]) /\ Undeleted(committed'[p])
    BY <1>1, <1>2 DEF SyncInv, DeletedInv
  <2> QED BY <2>1 DEF DeletedInv, Undeleted
<1>5. KnownInv'
  <2>1. \A p \in Clients :
          committed'[p].scm = committed'[Server].scm => Known(committed'[p], committed'[Server])
    BY <1>1
  <2> QED BY <2>1 DEF KnownInv, SameSchema, Known, Held
<1>6. SessionInv'
  <2>1. \A p \in Clients :
          session'[p].phase \in Active \cup {"meta"} => session'[p].meta.scm = committed'[p].scm
    BY <1>1 DEF SyncInv, SessionInv
  <2>2. ASSUME NEW p \in Clients, session'[p].phase \in Active, serving'.skey = p
        PROVE  Serves(session'[p], serving', committed'[p], committed'[Server], db'[p], db'[Server])
    <3>1. CASE p = c
      BY <2>2, <3>1, <1>1
    <3>2. CASE p # c
      <4>1. serving' = serving /\ theirs = db[Server] /\ stored = committed[Server]
        BY <2>2, <3>2, <1>2, Constants
      <4>2. Serves(session[p], serving, committed[p], committed[Server], db[p], db[Server])
        BY <2>2, <3>2, <4>1, <1>1 DEF SyncInv, SessionInv
      <4> QED BY <3>2, <4>1, <4>2, <1>1
    <3> QED BY <3>1, <3>2
  <2> QED BY <2>1, <2>2 DEF SessionInv
<1> QED BY <1>3, <1>4, <1>5, <1>6 DEF SyncInv

\* A step of a sync that leaves the disks alone.
LEMMA MergeStep ==
  ASSUME TypeInv, SyncInv, NEW c \in Clients, NEW mine, NEW theirs, NEW own,
         db' = [db EXCEPT ![c] = mine, ![Server] = theirs], committed' = committed, now' = now,
         session' = [session EXCEPT ![c] = own],
         Sourced(mine), Sourced(theirs), Undeleted(mine), Undeleted(theirs),
         SameStamps(mine, db[c]), SameStamps(theirs, db[Server]),
         own.phase \in {"idle", "meta", "full"} => mine = committed[c],
         serving' = NoSync => theirs = committed[Server],
         \/ serving' = NoSync
         \/ serving'.skey = c
         \/ serving' = serving /\ theirs = db[Server],
         own.phase \in Active \cup {"meta"} => own.meta.scm = committed[c].scm,
         own.phase \in Active /\ serving'.skey = c =>
           Serves(own, serving', committed[c], committed[Server], mine, theirs)
  PROVE  SyncInv'
<1> DEFINE kept == committed[c]
           stored == committed[Server]
<1>1. StepBy(c, mine, theirs, kept, stored, own)
  BY DEF StepBy, TypeInv
<1>2. /\ now \in Nat /\ c \in Parties /\ Server \in Parties
      /\ kept.scm <= now /\ stored.scm <= now
      /\ Sourced(kept) /\ Sourced(stored) /\ Undeleted(kept) /\ Undeleted(stored)
  BY Constants, SourcedHere DEF TypeInv, SyncInv, VersionsInv, DeletedInv
<1>3. SameStamps(mine, kept) /\ SameStamps(theirs, stored)
  BY <1>2 DEF SameStamps, SyncInv, QuietInv
<1>4. \A p \in Clients : committed[p].scm = stored.scm => Known(committed[p], stored)
  BY DEF SyncInv, KnownInv, SameSchema
<1> HIDE DEF kept, stored
<1>5. VersionsInv'
  BY <1>1, <1>2, VersionsStep DEF SyncInv
<1>6. own.phase \in {"idle", "meta", "full"} => mine = kept
  BY DEF kept
<1>7. serving' = NoSync => theirs = stored
  BY DEF stored
<1>8. kept.scm = stored.scm => Known(kept, stored)
  BY <1>4 DEF kept
<1>9. \/ serving' = NoSync
      \/ serving'.skey = c
      \/ serving' = serving /\ theirs = db[Server] /\ stored = committed[Server]
  BY DEF stored
<1>10. own.phase \in Active \cup {"meta"} => own.meta.scm = kept.scm
  BY DEF kept
<1>11. own.phase \in Active /\ serving'.skey = c =>
         Serves(own, serving', kept, stored, mine, theirs)
  BY DEF kept, stored
<1>12. \A p \in Clients \ {c} : committed[p].scm = stored.scm => Known(committed[p], stored)
  BY <1>4
<1> QED BY <1>1, <1>2, <1>3, <1>5, <1>6, <1>7, <1>8, <1>9, <1>10, <1>11, <1>12, InvStep

---------------------------------------------------------------------------
(* The steps of a sync. *)

\* Asking for the server's state keeps the invariant.
LEMMA MetaSync ==
  ASSUME TypeInv, SyncInv, NEW c \in Clients, Meta(c)
  PROVE  SyncInv'
<1> DEFINE remote == MetaOf(committed[Server])
           phase == IF remote.scm # MetaOf(db[c]).scm THEN "full" ELSE "meta"
           own == IF remote.mod = MetaOf(db[c]).mod THEN Idle
                  ELSE [Idle EXCEPT !.phase = phase, !.meta = remote]
           theirs == committed[Server]
<1>1. /\ session[c].phase = "idle"
      /\ serving' = NoSync /\ db' = [db EXCEPT ![Server] = theirs]
      /\ session' = [session EXCEPT ![c] = own] /\ committed' = committed /\ now' = now
  BY DEF Meta
<1>2. own.phase \in {"idle", "meta", "full"} /\ (own.phase = "meta" => own.meta.scm = db[c].scm)
  BY DEF Idle, MetaOf
<1>3. /\ db' = [db EXCEPT ![c] = db[c], ![Server] = theirs]
      /\ db[c] = committed[c] /\ c \in Parties /\ Server \in Parties /\ c # Server
  BY <1>1, Constants DEF TypeInv, SyncInv, QuietInv
<1> HIDE DEF own
<1>4. own.phase \in Active \cup {"meta"} => own.phase = "meta"
  BY <1>2 DEF Active, Merging
<1>5. /\ Sourced(db[c]) /\ Sourced(theirs) /\ Undeleted(db[c]) /\ Undeleted(theirs)
      /\ SameStamps(db[c], db[c]) /\ SameStamps(theirs, db[Server])
  BY <1>3, SourcedHere DEF SyncInv, DeletedInv, QuietInv, SameStamps
<1>6. serving'.skey # c /\ ~ (own.phase \in Active)
  BY <1>1, <1>2, <1>3 DEF NoSync, Active, Merging
<1> QED BY <1>1, <1>2, <1>3, <1>4, <1>5, <1>6, MergeStep

\* A request that fails, or a sync the user aborts, keeps the invariant.
LEMMA FailSync ==
  ASSUME TypeInv, SyncInv, NEW c \in Clients, NEW aborted \in BOOLEAN, Fail(c, aborted)
  PROVE  SyncInv'
<1> DEFINE theirs == IF aborted THEN committed[Server] ELSE db[Server]
<1>1. /\ session' = [session EXCEPT ![c] = Idle]
      /\ db' = [db EXCEPT ![c] = committed[c], ![Server] = theirs]
      /\ serving' = IF aborted THEN NoSync ELSE serving
      /\ committed' = committed /\ now' = now
  BY Constants DEF Fail, TypeInv
<1>2. c \in Parties /\ Server \in Parties /\ Idle.phase = "idle"
  BY Constants DEF Idle
<1>3. ~ (Idle.phase \in Active \cup {"meta"}) /\ ~ (Idle.phase \in Active)
  BY <1>2 DEF Active, Merging
<1>4. /\ Sourced(committed[c]) /\ Sourced(theirs)
      /\ Undeleted(committed[c]) /\ Undeleted(theirs)
      /\ SameStamps(committed[c], db[c]) /\ SameStamps(theirs, db[Server])
  BY <1>2, SourcedHere DEF SyncInv, DeletedInv, QuietInv, SameStamps
<1>5. /\ serving' = NoSync => theirs = committed[Server]
      /\ serving' = NoSync \/ (serving' = serving /\ theirs = db[Server])
  BY <1>1 DEF SyncInv, QuietInv
<1> HIDE DEF theirs
<1> QED BY <1>1, <1>3, <1>4, <1>5, MergeStep

\* So does the end of the server's process.
LEMMA ServerStopsSync == ASSUME TypeInv, SyncInv, ServerStops PROVE SyncInv'
<1>1. PICK c \in Clients : serving.skey = c
  BY DEF ServerStops, SyncInv, QuietInv
<1> DEFINE theirs == committed[Server]
<1>2. /\ db' = [db EXCEPT ![c] = db[c], ![Server] = theirs]
      /\ session' = [session EXCEPT ![c] = session[c]]
      /\ serving' = NoSync /\ committed' = committed /\ now' = now
      /\ c \in Parties /\ Server \in Parties /\ c # Server
  BY Constants DEF ServerStops, TypeInv
<1>3. /\ Sourced(db[c]) /\ Sourced(theirs) /\ Undeleted(db[c]) /\ Undeleted(theirs)
      /\ SameStamps(db[c], db[c]) /\ SameStamps(theirs, db[Server])
      /\ session[c].phase \in {"idle", "meta", "full"} => db[c] = committed[c]
      /\ session[c].phase \in Active \cup {"meta"} => session[c].meta.scm = committed[c].scm
  BY <1>2, SourcedHere DEF SyncInv, DeletedInv, QuietInv, SessionInv, SameStamps
<1>4. serving'.skey # c
  BY <1>2 DEF NoSync
<1> QED BY <1>2, <1>3, <1>4, MergeStep

\* So does leaving a full sync for later.
LEMMA DismissSync == ASSUME TypeInv, SyncInv, NEW c \in Clients, Dismiss(c) PROVE SyncInv'
<1>1. /\ db' = [db EXCEPT ![c] = db[c], ![Server] = db[Server]]
      /\ session' = [session EXCEPT ![c] = Idle]
      /\ session[c].phase = "full" /\ serving' = serving /\ committed' = committed /\ now' = now
      /\ c \in Parties /\ Server \in Parties
  BY Constants DEF Dismiss, TypeInv
<1>2. ~ (Idle.phase \in Active \cup {"meta"}) /\ ~ (Idle.phase \in Active)
  BY DEF Active, Merging, Idle
<1>3. /\ Sourced(db[c]) /\ Sourced(db[Server]) /\ Undeleted(db[c]) /\ Undeleted(db[Server])
      /\ SameStamps(db[c], db[c]) /\ SameStamps(db[Server], db[Server])
      /\ db[c] = committed[c]
      /\ serving' = NoSync => db[Server] = committed[Server]
  BY <1>1, SourcedHere DEF SyncInv, DeletedInv, QuietInv, SameStamps
<1> QED BY <1>1, <1>2, <1>3, MergeStep

\* A sync that starts with nobody else's going on keeps the invariant.
LEMMA StartSync ==
  ASSUME ~ Overlap, TypeInv, SyncInv, NEW c \in Clients, Start(c)
  PROVE  SyncInv'
<1> DEFINE theirs == committed[Server]
           graves == Pending(theirs.graves, db[c].usn)
           own == [session[c] EXCEPT !.phase = "graves", !.graves = graves]
<1>1. /\ session[c].phase = "meta" /\ session[c].meta = MetaOf(theirs)
      /\ serving' = [NoSync EXCEPT !.skey = c, !.client_usn = db[c].usn,
                                   !.client_is_newer = LocalIsNewer(c)]
      /\ db' = [db EXCEPT ![Server] = theirs]
      /\ committed' = committed /\ now' = now
  BY DEF Start, StartsInTime
<1>2. session' = [session EXCEPT ![c] = own]
  BY DEF Start, TypeInv
<1>3. /\ db' = [db EXCEPT ![c] = db[c], ![Server] = theirs]
      /\ db[c] = committed[c] /\ c \in Parties /\ Server \in Parties /\ c # Server
      /\ session[c].meta.scm = committed[c].scm
  BY <1>1, Constants DEF TypeInv, SyncInv, QuietInv, SessionInv
<1>4. own.phase = "graves" /\ own.graves = graves /\ own.meta = session[c].meta
  BY TypeFields DEF Sessions
<1>5. serving'.skey = c /\ serving'.client_usn = db[c].usn /\ serving' # NoSync
  BY <1>1, <1>3 DEF NoSync
<1>6. /\ Sourced(db[c]) /\ Sourced(theirs) /\ Undeleted(db[c]) /\ Undeleted(theirs)
      /\ SameStamps(db[c], db[c]) /\ SameStamps(theirs, db[Server])
  BY <1>3, SourcedHere DEF SyncInv, DeletedInv, QuietInv, SameStamps
<1>7. own.meta.usn = theirs.usn /\ own.meta.scm = theirs.scm
  BY <1>1, <1>4 DEF MetaOf
<1>8. Serves(own, serving', committed[c], theirs, db[c], theirs)
  BY <1>3, <1>4, <1>5, <1>7 DEF Serves, Stage, Merging
<1>9. /\ ~ (own.phase \in {"idle", "meta", "full"})
      /\ own.meta.scm = committed[c].scm
  BY <1>3, <1>4
<1> HIDE DEF own
<1> QED BY <1>1, <1>2, <1>3, <1>5, <1>6, <1>8, <1>9, MergeStep

\* What a client in a sync that the server is in can rely on.
LEMMA InSync ==
  ASSUME TypeInv, SyncInv, NEW c \in Clients, session[c].phase \in Active, serving.skey = c
  PROVE  /\ Stage(session[c], serving, committed[c], committed[Server], db[c], db[Server])
         /\ session[c].meta.usn = committed[Server].usn
         /\ session[c].meta.scm = committed[c].scm /\ session[c].meta.scm = committed[Server].scm
         /\ serving.client_usn = committed[c].usn
         /\ db[c].usn = committed[c].usn /\ db[Server].usn = committed[Server].usn
         /\ Known(committed[c], committed[Server])
         /\ Undeleted(db[c]) /\ Undeleted(db[Server])
         /\ Undeleted(committed[c]) /\ Undeleted(committed[Server])
         /\ Ordered(db[c], db[Server])
         /\ Sourced(db[c]) /\ Sourced(db[Server])
         /\ c \in Parties /\ Server \in Parties /\ c # Server /\ serving # NoSync
<1>1. Serves(session[c], serving, committed[c], committed[Server], db[c], db[Server])
  BY DEF SyncInv, SessionInv
<1>2. session[c].meta.scm = committed[c].scm
  BY DEF SyncInv, SessionInv
<1>3. c \in Parties /\ Server \in Parties /\ c # Server /\ NoSync.skey = Server
  BY Constants DEF NoSync
<1>4. db[c].usn = committed[c].usn /\ db[Server].usn = committed[Server].usn
  BY <1>3 DEF SyncInv, QuietInv
<1>5. Known(committed[c], committed[Server])
  BY <1>1, <1>2 DEF Serves, SyncInv, KnownInv, SameSchema
<1>6. /\ Undeleted(db[c]) /\ Undeleted(db[Server])
      /\ Undeleted(committed[c]) /\ Undeleted(committed[Server])
  BY <1>3 DEF SyncInv, DeletedInv
<1>7. Ordered(db[c], db[Server]) /\ Sourced(db[c]) /\ Sourced(db[Server])
  BY <1>3, VersionsOrdered, SourcedHere DEF SyncInv
<1> QED BY <1>1, <1>2, <1>3, <1>4, <1>5, <1>6, <1>7 DEF Serves

\* A merge in a sync: where it has to leave the two collections.
LEMMA MergedSync ==
  ASSUME TypeInv, SyncInv, NEW c \in Clients, session[c].phase \in Active, serving.skey = c,
         NEW mine, NEW theirs, NEW own,
         db' = [db EXCEPT ![c] = mine, ![Server] = theirs], committed' = committed, now' = now,
         session' = [session EXCEPT ![c] = own], own.meta = session[c].meta,
         serving'.skey = c, serving'.client_usn = serving.client_usn,
         ComposedOf(mine, db[c], db[Server]), ComposedOf(theirs, db[c], db[Server]),
         SameStamps(mine, db[c]), SameStamps(theirs, db[Server]),
         Undeleted(mine), Undeleted(theirs), own.phase \in Active,
         Stage(own, serving', committed[c], committed[Server], mine, theirs)
  PROVE  SyncInv'
<1>1. Sourced(mine) /\ Sourced(theirs)
  BY InSync, SourcedParts DEF SyncInv
<1>2. /\ ~ (own.phase \in {"idle", "meta", "full"}) /\ serving' # NoSync
      /\ own.meta.scm = committed[c].scm
  BY InSync DEF Active, Merging, NoSync
<1>3. Serves(own, serving', committed[c], committed[Server], mine, theirs)
  BY InSync DEF Serves
<1> QED BY <1>1, <1>2, <1>3, MergeStep

\* The exchange of graves keeps the invariant.
LEMMA ExchangeGravesSync ==
  ASSUME TypeInv, SyncInv, NEW c \in Clients, ExchangeGraves(c)
  PROVE  SyncInv'
<1> DEFINE own == [session[c] EXCEPT !.phase = "changes"]
           mine == GravesHere(c)
           theirs == GravesThere(c)
<1>1. /\ session[c].phase = "graves" /\ serving.skey = c
      /\ db' = [db EXCEPT ![c] = mine, ![Server] = theirs]
      /\ session' = [session EXCEPT ![c] = own]
      /\ committed' = committed /\ serving' = serving /\ now' = now
  BY ExchangeGravesShape
<1>2. session[c].phase \in Active
  BY <1>1 DEF Active
<1>3. own.phase = "changes" /\ own.meta = session[c].meta /\ own.phase \in Active
  BY TypeFields DEF Sessions, Active, Merging
<1>4. /\ db[c] = committed[c] /\ db[Server] = committed[Server]
      /\ session[c].graves = Pending(db[Server].graves, db[c].usn)
  BY <1>1, <1>2, InSync DEF Stage
<1>5. /\ session[c].meta.usn = db[Server].usn /\ serving.client_usn = db[c].usn
      /\ Known(db[c], db[Server]) /\ Undeleted(db[c]) /\ Undeleted(db[Server])
      /\ db[c] \in Collections(Usns) /\ db[Server] \in Collections(Nat)
  BY <1>1, <1>2, <1>4, InSync, TypeFields
<1>6. /\ mine = ApplyGraves(SentGraves(db[c], db[Server].usn),
                            Pending(db[Server].graves, db[c].usn), db[Server].usn)
      /\ theirs = ApplyGraves(db[Server], Pending(db[c].graves, -1), db[Server].usn)
  BY <1>4, <1>5 DEF GravesHere, GravesThere
<1> HIDE DEF mine, theirs, own
<1>7. /\ Undeleted(mine) /\ Undeleted(theirs)
      /\ Moved(db[c], db[Server], mine, theirs)
      /\ AfterGraves(mine, theirs, db[c].usn)
      /\ ComposedOf(mine, db[c], db[Server]) /\ ComposedOf(theirs, db[c], db[Server])
      /\ SameStamps(mine, db[c]) /\ SameStamps(theirs, db[Server])
  BY <1>5, <1>6, GravesMerged
<1>8. Stage(own, serving', committed[c], committed[Server], mine, theirs)
  BY <1>1, <1>3, <1>4, <1>5, <1>7 DEF Stage
<1> QED BY <1>1, <1>2, <1>3, <1>7, <1>8, MergedSync

\* The exchange of decks and configuration keeps the invariant.
LEMMA ExchangeChangesSync ==
  ASSUME TypeInv, SyncInv, NEW c \in Clients, ExchangeChanges(c)
  PROVE  SyncInv'
<1> DEFINE own == [session[c] EXCEPT !.phase = "receive"]
           mine == ChangesHere(c)
           theirs == ChangesThere(c)
           newer == serving.client_is_newer
           pending_usn == serving.client_usn
<1>1. /\ session[c].phase = "changes" /\ serving.skey = c
      /\ db' = [db EXCEPT ![c] = mine, ![Server] = theirs]
      /\ session' = [session EXCEPT ![c] = own]
      /\ committed' = committed /\ serving' = serving /\ now' = now
  BY ExchangeChangesShape
<1>2. session[c].phase \in Active /\ session[c].phase \in Merging
  BY <1>1 DEF Active, Merging
<1>3. /\ own.phase = "receive" /\ own.meta = session[c].meta
      /\ own.phase \in Active
  BY TypeFields DEF Sessions, Active, Merging
<1>4. /\ Moved(committed[c], committed[Server], db[c], db[Server])
      /\ AfterGraves(db[c], db[Server], pending_usn)
  BY <1>1, <1>2, InSync DEF Stage
<1>5. ~ serving.listed
  BY <1>1 DEF TypeInv, ListsInv, Serving
<1>6. /\ committed[c] \in Collections(Usns) /\ committed[Server] \in Collections(Nat)
      /\ db[c] \in Collections(Usns) /\ db[Server] \in Collections(Nat)
      /\ pending_usn \in Nat /\ newer \in BOOLEAN
      /\ Undeleted(db[c]) /\ Undeleted(db[Server]) /\ Ordered(db[c], db[Server])
      /\ session[c].meta.usn = committed[Server].usn
  BY <1>1, <1>2, InSync, TypeFields
<1>7. /\ mine = DecksHere(db[c], db[Server], committed[Server].usn, pending_usn, newer)
      /\ theirs = DecksAt(db[c], db[Server], committed[Server].usn, newer)
  BY <1>6 DEF ChangesHere, ChangesThere, MergedHere, MergedThere, DecksThere, DecksHere, DecksAt
<1> HIDE DEF mine, theirs, own, newer, pending_usn
<1>8. /\ Undeleted(mine) /\ Undeleted(theirs)
      /\ Moved(committed[c], committed[Server], mine, theirs)
      /\ DecksAgree(mine, theirs)
      /\ Receiving(mine, theirs, ChunkableIds(theirs, pending_usn))
      /\ ComposedOf(mine, db[c], db[Server]) /\ ComposedOf(theirs, db[c], db[Server])
      /\ SameStamps(mine, db[c]) /\ SameStamps(theirs, db[Server])
  <2> DEFINE mine0 == committed[c]
             theirs0 == committed[Server]
             here == db[c]
             there == db[Server]
  <2>1. /\ mine0 \in Collections(Usns) /\ theirs0 \in Collections(Nat)
        /\ here \in Collections(Usns) /\ there \in Collections(Nat)
        /\ pending_usn \in Nat /\ newer \in BOOLEAN
        /\ Undeleted(here) /\ Undeleted(there) /\ Ordered(here, there)
        /\ Moved(mine0, theirs0, here, there) /\ AfterGraves(here, there, pending_usn)
    BY <1>4, <1>6
  <2>2. /\ mine = DecksHere(here, there, theirs0.usn, pending_usn, newer)
        /\ theirs = DecksAt(here, there, theirs0.usn, newer)
    BY <1>7
  <2> HIDE DEF mine0, theirs0, here, there
  <2>3. /\ Undeleted(mine) /\ Undeleted(theirs)
        /\ Moved(mine0, theirs0, mine, theirs)
        /\ DecksAgree(mine, theirs)
        /\ Receiving(mine, theirs, ChunkableIds(theirs, pending_usn))
        /\ ComposedOf(mine, here, there) /\ ComposedOf(theirs, here, there)
        /\ SameStamps(mine, here) /\ SameStamps(theirs, there)
    BY <2>1, <2>2, DecksMerged
  <2> QED BY <2>3 DEF mine0, theirs0, here, there
<1>9. Stage(own, serving', committed[c], committed[Server], mine, theirs)
  BY <1>1, <1>3, <1>5, <1>8 DEF Stage, pending_usn
<1> QED BY <1>1, <1>2, <1>3, <1>8, <1>9, MergedSync

\* Reviews are no later than now, so that there are finitely many of them.
LEMMA ReviewsFinite ==
  ASSUME TypeInv, VersionsInv, NEW p \in Parties, NEW S, S \subseteq DOMAIN db[p].revlog
  PROVE  IsFiniteSet(S)
<1>1. now \in Nat /\ DOMAIN db[p].revlog \subseteq 0..now
  BY DEF TypeInv, VersionsInv
<1>2. IsFiniteSet(0..now)
  BY <1>1, FS_Interval, 0 \in Int, now \in Int
<1> QED BY <1>1, <1>2, FS_Subset

\* Receiving a chunk keeps the invariant.
LEMMA ReceiveChunkSync ==
  ASSUME TypeInv, SyncInv, NEW c \in Clients, ReceiveChunk(c)
  PROVE  SyncInv'
<1> DEFINE mine == ReceivedHere(c)
           theirs == db[Server]
           ids == Outstanding
           next == Next1
<1>1. /\ session[c].phase = "receive" /\ serving.skey = c
      /\ db' = [db EXCEPT ![c] = mine]
      /\ serving' = [serving EXCEPT !.listed = TRUE, !.ids = Without(ids, next)]
      /\ committed' = committed /\ now' = now
  BY ReceiveChunkShape, Zenon
<1>0. /\ IsDone(next) => session' = [session EXCEPT
           ![c] = [session[c] EXCEPT !.phase = "send", !.ids = ChunkableIds(mine, -1)]]
      /\ ~ IsDone(next) => session' = session
  BY ReceiveChunkShape, Zenon
<1>2. session[c].phase \in Active /\ session[c].phase \in Merging
  BY <1>1 DEF Active, Merging
<1>3. /\ serving'.skey = c /\ serving'.client_usn = serving.client_usn
      /\ serving'.listed /\ serving'.ids = Without(ids, next)
  BY <1>1, TypeFields DEF Servings
<1>4. /\ Moved(committed[c], committed[Server], db[c], theirs)
      /\ DecksAgree(db[c], theirs) /\ Receiving(db[c], theirs, ids)
  BY <1>1, <1>2, InSync DEF Stage, Merging, Outstanding
<1>5. /\ committed[c] \in Collections(Usns) /\ committed[Server] \in Collections(Nat)
      /\ db[c] \in Collections(Usns) /\ theirs \in Collections(Nat)
      /\ ids \in ChunkIds /\ Within(ids, theirs) /\ next \in ChunkIds /\ Within(next, theirs)
      /\ Undeleted(db[c]) /\ Undeleted(theirs) /\ Ordered(db[c], theirs)
  BY <1>1, <1>2, InSync, TypeFields, OutstandingListed, ReceiveTypes
<1>6. mine = ApplyChunk(db[c], ChunkOf(theirs, next), -1)
  BY DEF ReceivedHere
<1>7. IsDone(next) => next = ids
  <2>1. IsFiniteSet(ids.revlog)
    BY <1>5, Constants, ReviewsFinite DEF Within, SyncInv
  <2>2. Nat \subseteq Int /\ next = NextIds(theirs, ids)
    BY DEF Next1
  <2> QED BY <1>5, <2>1, <2>2, LastChunk
<1>8. db' = [db EXCEPT ![c] = mine, ![Server] = theirs]
  BY <1>1, Constants DEF TypeInv
<1> HIDE DEF mine, ids, next
<1>9. /\ Undeleted(mine)
      /\ Moved(committed[c], committed[Server], mine, theirs)
      /\ DecksAgree(mine, theirs)
      /\ Receiving(mine, theirs, Without(ids, next))
      /\ next = ids => Sending(mine, theirs, ChunkableIds(mine, -1))
      /\ ComposedOf(mine, db[c], theirs) /\ SameStamps(mine, db[c])
  <2> DEFINE mine0 == committed[c]
             theirs0 == committed[Server]
             here == db[c]
  <2> HIDE DEF mine0, theirs0, here, theirs
  <2>1. /\ mine0 \in Collections(Usns) /\ theirs0 \in Collections(Nat)
        /\ here \in Collections(Usns) /\ theirs \in Collections(Nat)
        /\ ids \in ChunkIds /\ next \in ChunkIds /\ Within(next, theirs)
        /\ Undeleted(theirs) /\ Ordered(here, theirs) /\ Moved(mine0, theirs0, here, theirs)
        /\ DecksAgree(here, theirs) /\ Receiving(here, theirs, ids)
        /\ mine = ApplyChunk(here, ChunkOf(theirs, next), -1)
    BY <1>4, <1>5, <1>6 DEF mine0, theirs0, here
  <2>2. /\ Undeleted(mine)
        /\ Moved(mine0, theirs0, mine, theirs)
        /\ DecksAgree(mine, theirs)
        /\ Receiving(mine, theirs, Without(ids, next))
        /\ next = ids => Sending(mine, theirs, ChunkableIds(mine, -1))
        /\ ComposedOf(mine, here, theirs) /\ SameStamps(mine, here)
    BY <2>1, ChunkReceived
  <2> QED BY <2>2 DEF mine0, theirs0, here
<1>10. Undeleted(theirs) /\ ComposedOf(theirs, db[c], theirs) /\ SameStamps(theirs, db[Server])
  BY <1>5 DEF ComposedOf, SameStamps
<1>11. CASE IsDone(next)
  <2> DEFINE own == [session[c] EXCEPT !.phase = "send", !.ids = ChunkableIds(mine, -1)]
  <2>1. /\ own.phase = "send" /\ own.meta = session[c].meta
        /\ own.ids = ChunkableIds(mine, -1) /\ own.phase \in Active
    BY TypeFields DEF Sessions, Active, Merging
  <2>2. session' = [session EXCEPT ![c] = own]
    BY <1>0, <1>11
  <2> HIDE DEF own
  <2>3. Stage(own, serving', committed[c], committed[Server], mine, theirs)
    BY <2>1, <1>7, <1>9, <1>11 DEF Stage
  <2> QED BY <2>1, <2>2, <2>3, <1>1, <1>2, <1>3, <1>8, <1>9, <1>10, MergedSync
<1>12. CASE ~ IsDone(next)
  <2> DEFINE own == session[c]
  <2>1. session' = [session EXCEPT ![c] = own]
    BY <1>0, <1>12 DEF TypeInv
  <2>2. own.phase = "receive" /\ own.meta = session[c].meta /\ own.phase \in Active
    BY <1>1, <1>2
  <2> HIDE DEF own
  <2>3. Stage(own, serving', committed[c], committed[Server], mine, theirs)
    BY <2>2, <1>3, <1>9 DEF Stage
  <2> QED BY <2>1, <2>2, <2>3, <1>1, <1>2, <1>3, <1>8, <1>9, <1>10, MergedSync
<1> QED BY <1>11, <1>12

\* Sending a chunk keeps the invariant.
LEMMA SendChunkSync ==
  ASSUME TypeInv, SyncInv, NEW c \in Clients, SendChunk(c)
  PROVE  SyncInv'
<1> DEFINE mine == SentHere(c)
           theirs == SentThere(c)
           ids == session[c].ids
           next == Next2(c)
           phase == IF IsDone(next) THEN "sanity" ELSE "send"
           own == [session[c] EXCEPT !.ids = Without(ids, next), !.phase = phase]
<1>1. /\ session[c].phase = "send" /\ serving.skey = c
      /\ db' = [db EXCEPT ![c] = mine, ![Server] = theirs]
      /\ session' = [session EXCEPT ![c] = own]
      /\ serving' = serving /\ committed' = committed /\ now' = now
  BY SendChunkShape, Zenon
<1>2. session[c].phase \in Active /\ session[c].phase \in Merging
  BY <1>1 DEF Active, Merging
<1>3. /\ own.phase = IF IsDone(next) THEN "sanity" ELSE "send"
      /\ own.ids = Without(ids, next) /\ own.meta = session[c].meta /\ own.phase \in Active
  BY TypeFields DEF Sessions, Active, Merging
<1>4. /\ Moved(committed[c], committed[Server], db[c], db[Server])
      /\ DecksAgree(db[c], db[Server]) /\ Sending(db[c], db[Server], ids)
  BY <1>1, <1>2, InSync DEF Stage, Merging
<1>5. /\ committed[c] \in Collections(Usns) /\ committed[Server] \in Collections(Nat)
      /\ db[c] \in Collections(Usns) /\ db[Server] \in Collections(Nat)
      /\ ids \in ChunkIds /\ Within(ids, db[c]) /\ next \in ChunkIds /\ Within(next, db[c])
      /\ Undeleted(db[c]) /\ Undeleted(db[Server]) /\ Ordered(db[c], db[Server])
      /\ session[c].meta.usn = committed[Server].usn
  BY <1>1, <1>2, InSync, TypeFields, SendTypes
<1>6. /\ mine = StampChunk(db[c], next, committed[Server].usn)
      /\ theirs = ApplyChunk(db[Server], SentChunk(db[c], next, committed[Server].usn),
                             serving.client_usn)
  BY <1>5 DEF SentHere, SentThere
<1>7. IsDone(next) => next = ids
  <2>1. IsFiniteSet(ids.revlog)
    BY <1>5, Constants, ReviewsFinite DEF Within, SyncInv
  <2>2. Usns \subseteq Int /\ next = NextIds(db[c], ids)
    BY DEF Next2, Usns
  <2> QED BY <1>5, <2>1, <2>2, LastChunk
<1> HIDE DEF mine, theirs, ids, next, own
<1>8. /\ Undeleted(mine) /\ Undeleted(theirs)
      /\ Moved(committed[c], committed[Server], mine, theirs)
      /\ DecksAgree(mine, theirs)
      /\ Sending(mine, theirs, Without(ids, next))
      /\ next = ids => AllSent(mine, theirs)
      /\ ComposedOf(mine, db[c], db[Server]) /\ ComposedOf(theirs, db[c], db[Server])
      /\ SameStamps(mine, db[c]) /\ SameStamps(theirs, db[Server])
  <2> DEFINE mine0 == committed[c]
             theirs0 == committed[Server]
             here == db[c]
             there == db[Server]
             pending_usn == serving.client_usn
  <2> HIDE DEF mine0, theirs0, here, there, pending_usn
  <2>1. /\ mine0 \in Collections(Usns) /\ theirs0 \in Collections(Nat)
        /\ here \in Collections(Usns) /\ there \in Collections(Nat)
        /\ ids \in ChunkIds /\ next \in ChunkIds /\ Within(next, here)
        /\ Undeleted(here) /\ Undeleted(there) /\ Ordered(here, there)
        /\ Moved(mine0, theirs0, here, there)
        /\ DecksAgree(here, there) /\ Sending(here, there, ids)
        /\ mine = StampChunk(here, next, theirs0.usn)
        /\ theirs = ApplyChunk(there, SentChunk(here, next, theirs0.usn), pending_usn)
    BY <1>4, <1>5, <1>6 DEF mine0, theirs0, here, there, pending_usn
  <2>2. /\ Undeleted(mine) /\ Undeleted(theirs)
        /\ Moved(mine0, theirs0, mine, theirs)
        /\ DecksAgree(mine, theirs)
        /\ Sending(mine, theirs, Without(ids, next))
        /\ next = ids => AllSent(mine, theirs)
        /\ ComposedOf(mine, here, there) /\ ComposedOf(theirs, here, there)
        /\ SameStamps(mine, here) /\ SameStamps(theirs, there)
    BY <2>1, ChunkSent
  <2> QED BY <2>2 DEF mine0, theirs0, here, there
<1>9. Stage(own, serving', committed[c], committed[Server], mine, theirs)
  BY <1>3, <1>7, <1>8 DEF Stage
<1> QED BY <1>1, <1>2, <1>3, <1>8, <1>9, MergedSync

---------------------------------------------------------------------------
(* The end of a sync. *)

\* The sanity check keeps the invariant.
LEMMA CheckSanitySync ==
  ASSUME TypeInv, SyncInv, NEW c \in Clients, CheckSanity(c)
  PROVE  SyncInv'
<1>1. session[c].phase = "sanity" /\ serving.skey = c
  BY DEF CheckSanity, Serving
<1>2. session[c].phase \in Active /\ session[c].phase \in Merging
  BY <1>1 DEF Active, Merging
<1>3. CASE Goto(c, "finish") /\ UNCHANGED <<db, committed, serving, now>>
  <2> DEFINE own == [session[c] EXCEPT !.phase = "finish"]
             mine == db[c]
             theirs == db[Server]
  <2>1. own.phase = "finish" /\ own.meta = session[c].meta /\ own.phase \in Active
    BY TypeFields DEF Sessions, Active, Merging
  <2>2. /\ session' = [session EXCEPT ![c] = own]
        /\ db' = [db EXCEPT ![c] = mine, ![Server] = theirs]
        /\ committed' = committed /\ now' = now /\ serving' = serving
    BY <1>3 DEF Goto, TypeInv
  <2>3. /\ Moved(committed[c], committed[Server], mine, theirs)
        /\ DecksAgree(mine, theirs) /\ AllSent(mine, theirs)
    BY <1>1, <1>2, InSync DEF Stage, Merging
  <2> HIDE DEF own
  <2>4. Stage(own, serving', committed[c], committed[Server], mine, theirs)
    BY <2>1, <2>3 DEF Stage
  <2>5. /\ ComposedOf(mine, db[c], db[Server]) /\ ComposedOf(theirs, db[c], db[Server])
        /\ SameStamps(mine, db[c]) /\ SameStamps(theirs, db[Server])
    BY DEF ComposedOf, SameStamps
  <2>6. Undeleted(mine) /\ Undeleted(theirs)
    BY <1>1, <1>2, InSync
  <2> QED BY <2>1, <2>2, <2>4, <2>5, <2>6, <1>1, <1>2, MergedSync
<1>4. CASE /\ db' = [db EXCEPT ![Server] = committed[Server],
                               ![c] = [committed[c] EXCEPT !.scm = now + 1]]
           /\ committed' = [committed EXCEPT ![c] = [committed[c] EXCEPT !.scm = now + 1]]
           /\ session' = [session EXCEPT ![c] = Idle]
           /\ serving' = NoSync
           /\ now' = now + 1
  <2> DEFINE mine == Rolled(committed[c], now + 1)
             theirs == committed[Server]
  <2>0. c \in Parties /\ Server \in Parties /\ c # Server
    BY Constants
  <2>1. /\ db' = [db EXCEPT ![Server] = theirs, ![c] = mine]
        /\ committed' = [committed EXCEPT ![c] = mine] /\ theirs = committed[Server]
    BY <1>4 DEF Rolled
  <2>2. committed[c] \in Collections(Usns) /\ theirs \in Collections(Nat) /\ now \in Nat
    BY TypeFields
  <2>3. SameContent(mine, committed[c]) /\ mine.scm = now + 1
    BY <2>2 DEF Rolled, Collections, SameContent
  <2>4. theirs.scm \in Nat /\ theirs.scm <= now
    BY <2>0, <2>2, CollectionTables DEF SyncInv, VersionsInv
  <2> HIDE DEF mine, theirs
  <2>a. StepBy(c, mine, theirs, mine, theirs, Idle)
    BY ZenonT(60), <1>4, <2>0, <2>1 DEF StepBy, TypeInv
  <2>5. Sourced(mine) /\ Sourced(theirs) /\ Undeleted(mine) /\ Undeleted(theirs)
    BY <2>0, <2>3, SourcedHere
       DEF SyncInv, DeletedInv, Sourced, Undeleted, SameContent, theirs
  <2>6. now' \in Nat /\ now <= now' /\ mine.scm <= now' /\ theirs.scm <= now'
    BY <1>4, <2>2, <2>3, <2>4
  <2>7. VersionsInv'
    BY <2>a, <2>5, <2>6, VersionsStep DEF SyncInv
  <2>8. mine.scm # theirs.scm
    BY <2>2, <2>3, <2>4
  <2>9. \A p \in Clients \ {c} : committed[p].scm = theirs.scm => Known(committed[p], theirs)
    BY DEF SyncInv, KnownInv, SameSchema, theirs
  <2>10. ~ (Idle.phase \in Active \cup {"meta"}) /\ ~ (Idle.phase \in Active)
    BY DEF Active, Merging, Idle
  <2>11. SameStamps(mine, mine) /\ SameStamps(theirs, theirs)
    BY DEF SameStamps
  <2> QED BY <1>4, <2>a, <2>5, <2>7, <2>8, <2>9, <2>10, <2>11, InvStep
<1> QED BY <1>3, <1>4 DEF CheckSanity

\* The server has committed what it received, with its number raised: the clients
\* that are up to date with the schema still know what their numbers say.
LEMMA ServerFinished ==
  ASSUME TypeInv, SyncInv, NEW c \in Clients, session[c].phase = "finish", serving.skey = c,
         NEW stamp \in Nat
  PROVE  LET stored == FinishedAt(db[Server], db[Server].usn + 1, stamp)
         IN /\ stored \in Collections(Nat) /\ SameContent(stored, db[Server])
            /\ stored.usn = committed[Server].usn + 1 /\ stored.scm = committed[Server].scm
            /\ Sourced(stored) /\ Undeleted(stored)
            /\ \A p \in Clients : committed[p].scm = stored.scm => Known(committed[p], stored)
<1> DEFINE stored == FinishedAt(db[Server], db[Server].usn + 1, stamp)
<1>1. session[c].phase \in Active /\ session[c].phase \in Merging
  BY DEF Active, Merging
<1>2. /\ ServerMoved(committed[Server], db[Server]) /\ Undeleted(db[Server])
      /\ Sourced(db[Server]) /\ db[Server].usn = committed[Server].usn
  BY <1>1, InSync DEF Stage, Moved
<1>3. db[Server].scm = committed[Server].scm
  BY Constants DEF SyncInv, QuietInv
<1>4. /\ db[Server] \in Collections(Nat) /\ committed[Server] \in Collections(Nat)
      /\ db[Server].usn + 1 \in Nat /\ committed[Server].usn <= db[Server].usn + 1
      /\ \A p \in Clients : committed[p] \in Collections(Usns)
  BY <1>2, TypeFields, CollectionTables
<1>5. stored \in Collections(Nat)
  BY <1>4, StampFields
<1>6. /\ SameContent(stored, db[Server]) /\ stored.usn = db[Server].usn + 1
      /\ stored.scm = db[Server].scm
  BY <1>4 DEF FinishedAt, Collections, SameContent
<1> HIDE DEF stored
<1>7. Sourced(stored) /\ Undeleted(stored)
  BY <1>2, <1>6 DEF Sourced, Undeleted, SameContent
<1>8. ASSUME NEW p \in Clients, committed[p].scm = stored.scm PROVE Known(committed[p], stored)
  <2>1. Known(committed[p], committed[Server])
    BY <1>3, <1>6, <1>8 DEF SyncInv, KnownInv, SameSchema
  <2>2. committed[Server].usn <= stored.usn
    BY <1>4, <1>6
  <2> QED BY <2>1, <2>2, <1>2, <1>4, <1>5, <1>6, KnownMoved
<1> QED BY <1>2, <1>3, <1>5, <1>6, <1>7, <1>8 DEF stored

\* Finishing a sync keeps the invariant: both sides are as they were checked to be.
LEMMA FinishSync ==
  ASSUME TypeInv, SyncInv, NEW c \in Clients, Finish(c)
  PROVE  SyncInv'
<1> DEFINE mine == FinishedAt(db[c], session[c].meta.usn + 1, now + 1)
           theirs == FinishedAt(db[Server], db[Server].usn + 1, now + 1)
<1>1. /\ session[c].phase = "finish" /\ serving.skey = c
      /\ session' = [session EXCEPT ![c] = Idle] /\ serving' = NoSync /\ now' = now + 1
      /\ db' = [db EXCEPT ![Server] = theirs, ![c] = mine]
      /\ committed' = [committed EXCEPT ![Server] = db'[Server], ![c] = db'[c]]
  BY DEF Finish, Finished, Finalized, FinishedAt, Serving
<1>2. session[c].phase \in Active /\ session[c].phase \in Merging
  BY <1>1 DEF Active, Merging
<1>3. /\ db[c] \in Collections(Usns) /\ db[Server] \in Collections(Nat)
      /\ now \in Nat /\ now + 1 \in Nat /\ session[c].meta.usn + 1 \in Nat
      /\ c \in Parties /\ Server \in Parties /\ c # Server
  BY TypeFields, Constants
<1>4. /\ theirs \in Collections(Nat) /\ SameContent(theirs, db[Server])
      /\ theirs.usn = committed[Server].usn + 1 /\ theirs.scm = committed[Server].scm
      /\ Sourced(theirs) /\ Undeleted(theirs)
      /\ \A p \in Clients : committed[p].scm = theirs.scm => Known(committed[p], theirs)
  BY <1>1, <1>3, ServerFinished
<1>5. /\ SameContent(mine, db[c]) /\ mine.usn = session[c].meta.usn + 1 /\ mine.scm = db[c].scm
  BY <1>3 DEF FinishedAt, Collections, SameContent
<1> HIDE DEF mine, theirs
<1>6. StepBy(c, mine, theirs, mine, theirs, Idle)
  BY <1>1, <1>3 DEF StepBy, TypeInv
<1>7. /\ DeletionsShared(db[c], db[Server]) /\ DecksAgree(db[c], db[Server])
      /\ AllSent(db[c], db[Server]) /\ session[c].meta.usn = committed[Server].usn
      /\ Sourced(db[c]) /\ Undeleted(db[c])
  BY <1>1, <1>2, InSync DEF Stage, Moved, Merging
<1>8. Known(mine, theirs)
  BY <1>3, <1>4, <1>5, <1>7, KnownFinished
<1>9. Sourced(mine) /\ Undeleted(mine)
  BY <1>5, <1>7 DEF Sourced, Undeleted, SameContent
<1>10. VersionsInv'
  <2>1. committed[c].scm <= now /\ committed[Server].scm <= now /\ mine.scm = committed[c].scm
    BY <1>3, <1>5 DEF SyncInv, VersionsInv, QuietInv
  <2>2. committed[c].scm \in Nat /\ committed[Server].scm \in Nat
    BY TypeFields, CollectionTables
  <2>3. now' \in Nat /\ now <= now' /\ mine.scm <= now' /\ theirs.scm <= now'
    BY <2>1, <2>2, <1>1, <1>3, <1>4
  <2> QED BY <2>3, <1>4, <1>6, <1>9, VersionsStep DEF SyncInv
<1>11. ~ (Idle.phase \in Active \cup {"meta"}) /\ ~ (Idle.phase \in Active)
  BY DEF Active, Merging, Idle
<1>12. SameStamps(mine, mine) /\ SameStamps(theirs, theirs)
  BY DEF SameStamps
<1>13. \A p \in Clients \ {c} : committed[p].scm = theirs.scm => Known(committed[p], theirs)
  BY <1>4
<1> QED BY <1>1, <1>4, <1>6, <1>8, <1>9, <1>10, <1>11, <1>12, <1>13, InvStep

\* So does finishing one without the answer arriving.
LEMMA LoseFinishSync ==
  ASSUME TypeInv, SyncInv, NEW c \in Clients, NEW stamped \in BOOLEAN, LoseFinish(c, stamped)
  PROVE  SyncInv'
<1> DEFINE stamp == IF stamped THEN now + 1 ELSE db[Server].mod
           theirs == FinishedAt(db[Server], db[Server].usn + 1, stamp)
           mine == committed[c]
<1>1. /\ session[c].phase = "finish" /\ serving.skey = c
      /\ session' = [session EXCEPT ![c] = Idle] /\ serving' = NoSync /\ now' = now + 1
      /\ db' = [db EXCEPT ![Server] = theirs, ![c] = mine]
      /\ committed' = [committed EXCEPT ![Server] = db'[Server]]
  BY DEF LoseFinish, Finished, FinishedAt, Serving
<1>2. /\ stamp \in Nat /\ now \in Nat /\ now + 1 \in Nat
      /\ c \in Parties /\ Server \in Parties /\ c # Server
  BY TypeFields, CollectionTables, Constants
<1> HIDE DEF stamp
<1>3. /\ theirs \in Collections(Nat) /\ theirs.scm = committed[Server].scm
      /\ Sourced(theirs) /\ Undeleted(theirs)
      /\ \A p \in Clients : committed[p].scm = theirs.scm => Known(committed[p], theirs)
  BY <1>1, <1>2, ServerFinished
<1> HIDE DEF theirs
<1>4. StepBy(c, mine, theirs, mine, theirs, Idle)
  BY <1>1, <1>2 DEF StepBy, TypeInv
<1>5. Sourced(mine) /\ Undeleted(mine) /\ (mine.scm = theirs.scm => Known(mine, theirs))
  BY <1>2, <1>3, SourcedHere DEF SyncInv, DeletedInv
<1>6. VersionsInv'
  <2>1. mine.scm <= now /\ committed[Server].scm <= now
    BY <1>2 DEF SyncInv, VersionsInv
  <2>2. mine.scm \in Nat /\ committed[Server].scm \in Nat
    BY TypeFields, CollectionTables
  <2>3. now' \in Nat /\ now <= now' /\ mine.scm <= now' /\ theirs.scm <= now'
    BY <2>1, <2>2, <1>1, <1>2, <1>3
  <2> QED BY <2>3, <1>3, <1>4, <1>5, VersionsStep DEF SyncInv
<1>7. ~ (Idle.phase \in Active \cup {"meta"}) /\ ~ (Idle.phase \in Active)
  BY DEF Active, Merging, Idle
<1>8. SameStamps(mine, mine) /\ SameStamps(theirs, theirs)
  BY DEF SameStamps
<1>9. \A p \in Clients \ {c} : committed[p].scm = theirs.scm => Known(committed[p], theirs)
  BY <1>3
<1> HIDE DEF mine
<1> QED BY <1>1, <1>3, <1>4, <1>5, <1>6, <1>7, <1>8, <1>9, InvStep

---------------------------------------------------------------------------
(* Full syncs. *)

\* A full upload keeps the invariant.
LEMMA UploadSync ==
  ASSUME TypeInv, SyncInv, NEW c \in Clients, NEW delivered \in BOOLEAN, Upload(c, delivered)
  PROVE  SyncInv'
<1> DEFINE mine == BeforeUpload(db[c], now + 1)
           theirs == IF delivered THEN mine ELSE db[Server]
           stored == IF delivered THEN mine ELSE committed[Server]
<1>1. /\ session[c].phase = "full" /\ now' = now + 1
      /\ session' = [session EXCEPT ![c] = Idle]
      /\ db' = [db EXCEPT ![c] = mine, ![Server] = theirs]
      /\ serving' = IF delivered THEN NoSync ELSE serving
  BY DEF Upload, FullSync
<1>2. committed' = [committed EXCEPT ![c] = mine, ![Server] = stored]
  BY Constants DEF Upload, TypeInv
<1>3. StepBy(c, mine, theirs, mine, stored, Idle)
  BY <1>1, <1>2 DEF StepBy
<1>4. /\ db[c] \in Collections(Usns) /\ now \in Nat /\ now + 1 \in Nat
      /\ c \in Parties /\ Server \in Parties /\ c # Server
  BY TypeFields, Constants
<1>5. /\ mine \in Collections(Nat)
      /\ DOMAIN mine.rows = DOMAIN db[c].rows
      /\ \A i \in DOMAIN db[c].rows : mine.rows[i].edit = db[c].rows[i].edit
      /\ mine.graves = <<>> /\ DOMAIN mine.revlog = DOMAIN db[c].revlog
      /\ mine.scm = now + 1
  BY <1>4, BeforeUploadFields
<1> HIDE DEF mine
<1>6. Undeleted(mine) /\ Sourced(mine)
  <2>1. DOMAIN mine.graves = {}
    BY <1>5
  <2>2. Sourced(db[c])
    BY <1>4, SourcedHere DEF SyncInv
  <2> QED BY <2>1, <2>2, <1>5 DEF Undeleted, Sourced
<1>7. /\ Sourced(theirs) /\ Sourced(stored) /\ Undeleted(theirs) /\ Undeleted(stored)
      /\ SameStamps(mine, mine) /\ SameStamps(theirs, stored)
  BY <1>4, <1>6, SourcedHere DEF SyncInv, DeletedInv, QuietInv, SameStamps
<1>8. /\ committed[Server].scm \in Nat /\ committed[Server].scm <= now
      /\ \A p \in Clients : committed[p].scm \in Nat /\ committed[p].scm <= now
  <2>1. committed[Server].scm \in Nat /\ \A p \in Clients : committed[p].scm \in Nat
    BY TypeFields, CollectionTables
  <2> QED BY <2>1, Constants DEF SyncInv, VersionsInv
<1>9. VersionsInv'
  <2>1. now' \in Nat /\ now <= now' /\ mine.scm <= now' /\ stored.scm <= now'
    BY <1>1, <1>4, <1>5, <1>8
  <2> QED BY <2>1, <1>3, <1>6, <1>7, VersionsStep DEF SyncInv
<1>10. mine.scm = stored.scm => Known(mine, stored)
  <2>1. Known(mine, mine)
    BY <1>5, <1>6, KnownCopy
  <2>2. mine.scm # committed[Server].scm
    BY <1>4, <1>5, <1>8
  <2> QED BY <2>1, <2>2
<1>11. \A p \in Clients \ {c} : committed[p].scm = stored.scm => Known(committed[p], stored)
  <2>1. \A p \in Clients : committed[p].scm # mine.scm
    BY <1>4, <1>5, <1>8
  <2>2. \A p \in Clients :
          committed[p].scm = committed[Server].scm => Known(committed[p], committed[Server])
    BY DEF SyncInv, KnownInv, SameSchema
  <2> QED BY <2>1, <2>2
<1>12. /\ serving' = NoSync \/ (serving' = serving /\ theirs = db[Server]
                                 /\ stored = committed[Server])
       /\ serving' = NoSync => theirs = stored
  BY <1>1 DEF SyncInv, QuietInv
<1>13. ~ (Idle.phase \in Active \cup {"meta"}) /\ ~ (Idle.phase \in Active)
  BY DEF Active, Merging, Idle
<1> HIDE DEF theirs, stored
<1> QED BY <1>3, <1>6, <1>7, <1>9, <1>10, <1>11, <1>12, <1>13, InvStep

\* A full download keeps the invariant.
LEMMA DownloadSync ==
  ASSUME TypeInv, SyncInv, NEW c \in Clients, NEW delivered \in BOOLEAN, Download(c, delivered)
  PROVE  SyncInv'
<1> DEFINE theirs == FinishedAt(committed[Server], committed[Server].usn + 1, now + 1)
           mine == IF delivered THEN theirs ELSE db[c]
<1>1. /\ session[c].phase = "full" /\ now' = now + 1 /\ serving' = NoSync
      /\ session' = [session EXCEPT ![c] = Idle]
      /\ db' = [db EXCEPT ![c] = mine, ![Server] = theirs]
      /\ committed' = [committed EXCEPT ![c] = mine, ![Server] = theirs]
  BY DEF Download, FullSync, FinishedAt
<1>2. StepBy(c, mine, theirs, mine, theirs, Idle)
  BY <1>1 DEF StepBy
<1>3. /\ committed[Server] \in Collections(Nat) /\ now \in Nat /\ now + 1 \in Nat
      /\ committed[Server].usn \in Nat /\ committed[Server].usn + 1 \in Nat
      /\ committed[Server].usn <= committed[Server].usn + 1
      /\ \A p \in Clients : committed[p] \in Collections(Usns)
      /\ c \in Parties /\ Server \in Parties /\ c # Server
  BY TypeFields, CollectionTables, Constants
<1>4. theirs \in Collections(Nat)
  BY <1>3, StampFields
<1>5. /\ SameContent(theirs, committed[Server])
      /\ theirs.usn = committed[Server].usn + 1 /\ theirs.scm = committed[Server].scm
  BY <1>3 DEF FinishedAt, Collections, SameContent
<1> HIDE DEF theirs
<1>6. Undeleted(committed[Server]) /\ Sourced(committed[Server]) /\ db[c] = committed[c]
  BY <1>1, <1>3, SourcedHere DEF SyncInv, DeletedInv, QuietInv
<1>7. Sourced(theirs) /\ Undeleted(theirs)
  BY <1>5, <1>6 DEF Sourced, Undeleted, SameContent
<1>8. Sourced(mine) /\ Undeleted(mine)
  BY <1>3, <1>6, <1>7, SourcedHere DEF SyncInv, DeletedInv
<1>9. \A p \in Clients : committed[p].scm = theirs.scm => Known(committed[p], theirs)
  <2> SUFFICES ASSUME NEW p \in Clients, committed[p].scm = theirs.scm
               PROVE  Known(committed[p], theirs)
    OBVIOUS
  <2>1. Known(committed[p], committed[Server])
    BY <1>5 DEF SyncInv, KnownInv, SameSchema
  <2>2. ServerMoved(committed[Server], committed[Server])
    BY <1>3, Unmoved
  <2> QED BY <2>1, <2>2, <1>3, <1>4, <1>5, <1>6, KnownMoved
<1>10. mine.scm = theirs.scm => Known(mine, theirs)
  BY <1>4, <1>6, <1>7, <1>9, KnownCopy
<1>11. VersionsInv'
  <2>1. /\ committed[c].scm \in Nat /\ committed[c].scm <= now
        /\ theirs.scm \in Nat /\ theirs.scm <= now
    BY <1>3, <1>5, CollectionTables DEF SyncInv, VersionsInv
  <2>2. now' \in Nat /\ now <= now' /\ mine.scm <= now' /\ theirs.scm <= now'
    BY <2>1, <1>1, <1>3, <1>6
  <2> QED BY <2>2, <1>2, <1>7, <1>8, VersionsStep DEF SyncInv
<1>12. ~ (Idle.phase \in Active \cup {"meta"}) /\ ~ (Idle.phase \in Active)
  BY DEF Active, Merging, Idle
<1>13. SameStamps(mine, mine) /\ SameStamps(theirs, theirs)
  BY DEF SameStamps
<1>14. \A p \in Clients \ {c} : committed[p].scm = theirs.scm => Known(committed[p], theirs)
  BY <1>9
<1> HIDE DEF mine
<1> QED BY <1>1, <1>2, <1>7, <1>8, <1>10, <1>11, <1>12, <1>13, <1>14, InvStep

---------------------------------------------------------------------------
(* Local operations. *)

\* A local operation keeps an entry or makes it a pending one of this instant; a
\* deletion leaves a pending grave; what is new has never been anywhere.
Absent(i) ==
  \A p \in Parties, copy \in {db, committed} :
    i \notin DOMAIN copy[p].rows \cup DOMAIN copy[p].graves
Kept(table, before, i) == i \in DOMAIN before /\ table[i] = before[i]
Written(c, d, i) ==
  /\ d.rows[i].edit = now + 1 /\ d.rows[i].usn = -1
  /\ NotTied(c, i)
  /\ i \in DOMAIN db[c].rows \/ Absent(i)
Changes(c, d) ==
  /\ d.usn = db[c].usn
  /\ d.scm \in {db[c].scm, now + 1}
  /\ \A i \in DOMAIN d.rows : Kept(d.rows, db[c].rows, i) \/ Written(c, d, i)
  /\ DOMAIN db[c].rows \ DOMAIN d.rows \subseteq Pending(d.graves, -1)
  /\ DOMAIN db[c].graves \subseteq DOMAIN d.graves
  /\ \A i \in DOMAIN d.graves :
       \/ Kept(d.graves, db[c].graves, i)
       \/ d.graves[i].usn = -1 /\ i \notin DOMAIN d.rows
  /\ DOMAIN db[c].revlog \subseteq DOMAIN d.revlog
  /\ \A r \in DOMAIN d.revlog :
       \/ Kept(d.revlog, db[c].revlog, r)
       \/ r = now + 1 /\ d.revlog[r].usn = -1

\* What users do, one kind of change at a time.
LEMMA LocalChanges ==
  ASSUME ~ TiedEdits, TypeInv, SyncInv, NEW c \in Clients,
         \/ \E id \in Ids : Edit(c, id) \/ Add(c, id) \/ Delete(c, id)
         \/ \E card \in Cards : Review(c, card)
         \/ SetConfig(c)
         \/ ChangeSchema(c)
  PROVE  \E kind \in AllKinds, d \in Collections(Usns) : Operate(c, kind, d) /\ Changes(c, d)
<1> DEFINE m == db[c]
<1>1. m \in Collections(Usns) /\ now \in Nat /\ now + 1 \in Nat /\ Undeleted(m)
  BY TypeFields, Constants DEF SyncInv, DeletedInv
<1>2. \A t : \A i \in DOMAIN t : Kept(t, t, i)
  BY DEF Kept
<1>3. ASSUME NEW id \in Ids, Edit(c, id) \/ Add(c, id)
      PROVE  \E kind \in AllKinds, d \in Collections(Usns) : Operate(c, kind, d) /\ Changes(c, d)
  <2> DEFINE d == WithRow(m, id)
  <2>1. \E kind \in AllKinds : Operate(c, kind, d)
    BY <1>3 DEF Edit, Add, AllKinds
  <2>2. NotTied(c, id) /\ (id \in DOMAIN m.rows \/ Absent(id))
    BY <1>3 DEF Edit, Add, NotTied, Absent
  <2>3. /\ d \in Collections(Usns)
        /\ DOMAIN d.rows = DOMAIN m.rows \cup {id}
        /\ d.rows[id].edit = now + 1 /\ d.rows[id].usn = -1
        /\ \A i \in DOMAIN m.rows \ {id} : d.rows[i] = m.rows[i]
        /\ d.graves = m.graves /\ d.revlog = m.revlog /\ d.usn = m.usn /\ d.scm = m.scm
    BY <1>1, WithRowFields
  <2> HIDE DEF d
  <2>4. \A i \in DOMAIN d.rows : Kept(d.rows, m.rows, i) \/ Written(c, d, i)
    BY <2>2, <2>3 DEF Kept, Written
  <2>5. Changes(c, d)
    BY <2>3, <2>4, <1>2 DEF Changes
  <2> QED BY <2>1, <2>3, <2>5
<1>4. ASSUME NEW id \in Ids, Delete(c, id)
      PROVE  \E kind \in AllKinds, d \in Collections(Usns) : Operate(c, kind, d) /\ Changes(c, d)
  <2> DEFINE d == Deleted(m, id)
  <2>0. "delete" \in AllKinds
    BY DEF AllKinds
  <2>1. Operate(c, "delete", Deleted(db[c], id)) /\ id \in DOMAIN m.rows
    BY <1>4, Zenon DEF Delete, Deleted
  <2>2. /\ d \in Collections(Usns)
        /\ DOMAIN d.rows = DOMAIN m.rows \ {id}
        /\ \A i \in DOMAIN m.rows \ {id} : d.rows[i] = m.rows[i]
        /\ DOMAIN d.graves = DOMAIN m.graves \cup {id}
        /\ \A i \in DOMAIN m.graves : d.graves[i] = m.graves[i]
        /\ id \notin DOMAIN m.graves => d.graves[id].usn = -1
        /\ d.revlog = m.revlog /\ d.usn = m.usn /\ d.scm = m.scm
    BY <1>1, DeletedFields
  <2>6. Operate(c, "delete", d)
    BY <2>1
  <2> HIDE DEF d
  <2>3. id \notin DOMAIN m.graves
    BY <2>1, <1>1 DEF Undeleted
  <2>4. DOMAIN m.rows \ DOMAIN d.rows \subseteq Pending(d.graves, -1)
    BY <2>2, <2>3, PendingMeans
  <2>5. Changes(c, d)
    BY <2>2, <2>3, <2>4, <1>2 DEF Changes, Kept
  <2> QED BY <2>0, <2>2, <2>5, <2>6
<1>5. ASSUME NEW card \in Cards, Review(c, card)
      PROVE  \E kind \in AllKinds, d \in Collections(Usns) : Operate(c, kind, d) /\ Changes(c, d)
  <2> DEFINE e == WithRow(m, card)
             d == WithReview(e, card)
  <2>1. Operate(c, "review", d) /\ NotTied(c, card) /\ card \in DOMAIN m.rows /\ card \in Ids
    BY <1>5 DEF Review, WithReview, Ids
  <2>2. /\ e \in Collections(Usns)
        /\ DOMAIN e.rows = DOMAIN m.rows \cup {card}
        /\ e.rows[card].edit = now + 1 /\ e.rows[card].usn = -1
        /\ \A i \in DOMAIN m.rows \ {card} : e.rows[i] = m.rows[i]
        /\ e.graves = m.graves /\ e.revlog = m.revlog /\ e.usn = m.usn /\ e.scm = m.scm
    BY <1>1, <2>1, WithRowFields
  <2> HIDE DEF e
  <2>3. /\ d \in Collections(Usns)
        /\ DOMAIN d.revlog = DOMAIN e.revlog \cup {now + 1}
        /\ d.revlog[now + 1].usn = -1
        /\ \A r \in DOMAIN e.revlog \ {now + 1} : d.revlog[r] = e.revlog[r]
        /\ d.rows = e.rows /\ d.graves = e.graves
        /\ d.usn = e.usn /\ d.scm = e.scm
    BY <1>1, <2>2, WithReviewFields
  <2> HIDE DEF d
  <2>4. \A i \in DOMAIN d.rows : Kept(d.rows, m.rows, i) \/ Written(c, d, i)
    BY <2>1, <2>2, <2>3 DEF Kept, Written
  <2>5. Changes(c, d)
    BY <2>2, <2>3, <2>4, <1>2 DEF Changes, Kept
  <2>6. "review" \in AllKinds
    BY DEF AllKinds
  <2> QED BY <2>1, <2>3, <2>5, <2>6
<1>6. ASSUME SetConfig(c)
      PROVE  \E kind \in AllKinds, d \in Collections(Usns) : Operate(c, kind, d) /\ Changes(c, d)
  <2> DEFINE d == [m EXCEPT !.conf = now + 1]
  <2>1. Operate(c, "config", d) /\ "config" \in AllKinds
    BY <1>6 DEF SetConfig, AllKinds
  <2>2. /\ d \in Collections(Usns) /\ d.rows = m.rows /\ d.graves = m.graves
        /\ d.revlog = m.revlog /\ d.usn = m.usn /\ d.scm = m.scm
    BY <1>1 DEF Collections
  <2> HIDE DEF d
  <2>3. Changes(c, d)
    BY <2>2, <1>2 DEF Changes
  <2> QED BY <2>1, <2>2, <2>3
<1>7. ASSUME ChangeSchema(c)
      PROVE  \E kind \in AllKinds, d \in Collections(Usns) : Operate(c, kind, d) /\ Changes(c, d)
  <2> DEFINE d == Rolled(m, now + 1)
  <2>1. Operate(c, "schema", d) /\ "schema" \in AllKinds
    BY <1>7 DEF ChangeSchema, Rolled, AllKinds
  <2>2. /\ d \in Collections(Usns) /\ d.rows = m.rows /\ d.graves = m.graves
        /\ d.revlog = m.revlog /\ d.usn = m.usn /\ d.scm = now + 1
    BY <1>1 DEF Collections, Rolled
  <2> HIDE DEF d
  <2>3. Changes(c, d)
    BY <2>2, <1>2 DEF Changes
  <2> QED BY <2>1, <2>2, <2>3
<1> QED BY <1>3, <1>4, <1>5, <1>6, <1>7

\* The new version of an object is later by the second than all others there are.
LEMMA OperateVersions ==
  ASSUME TypeInv, SyncInv, NEW c \in Clients, NEW d \in Collections(Usns), Changes(c, d),
         NEW kind, Operate(c, kind, d), session[c].phase = "idle"
  PROVE  VersionsInv'
<1> DEFINE e == [d EXCEPT !.mod = now + 1]
<1>1. /\ db' = [db EXCEPT ![c] = e] /\ committed' = [committed EXCEPT ![c] = db'[c]]
      /\ now' = now + 1
  BY DEF Operate
<1>2. e.rows = d.rows /\ e.revlog = d.revlog /\ e.scm = d.scm
  BY DEF Collections
<1> HIDE DEF e
<1>3. /\ now \in Nat /\ now + 1 \in Nat /\ c \in Parties /\ Server \in Parties /\ c # Server
      /\ db[c] \in Collections(Usns) /\ db[c] = committed[c]
  BY TypeFields, Constants DEF SyncInv, QuietInv
<1>4. /\ db'[c] = e /\ committed'[c] = e
      /\ \A p \in Parties \ {c} : db'[p] = db[p] /\ committed'[p] = committed[p]
  BY <1>1, <1>3 DEF TypeInv
<1>5. ASSUME NEW i, i \in DOMAIN d.rows => Kept(d.rows, db[c].rows, i)
      PROVE  Versions(i)' \subseteq Versions(i)
  <2>1. VersionsAt(e, i) \subseteq VersionsAt(db[c], i)
    BY <1>2, <1>5 DEF VersionsAt, Kept
  <2>2. \A p \in Parties :
          /\ VersionsAt(db'[p], i) \subseteq Versions(i)
          /\ VersionsAt(committed'[p], i) \subseteq Versions(i)
    BY <2>1, <1>3, <1>4 DEF Versions
  <2> QED BY <2>2 DEF Versions, VersionsAt
<1>6. ASSUME NEW i, i \in DOMAIN d.rows, Written(c, d, i), NEW f \in Versions(i)'
      PROVE  f = now + 1 \/ (f \in Versions(i) /\ Secs(f) < Secs(now + 1))
  <2>1. PICK p \in Parties : f \in VersionsAt(db'[p], i) \cup VersionsAt(committed'[p], i)
    BY <1>6 DEF Versions, VersionsAt
  <2>2. CASE p = c
    BY <2>1, <2>2, <1>2, <1>4, <1>6 DEF VersionsAt, Written
  <2>3. CASE p # c
    <3>1. f \in VersionsAt(db[p], i) \cup VersionsAt(committed[p], i)
      BY <2>1, <2>3, <1>4
    <3>2. f \in Versions(i)
      BY <3>1 DEF Versions
    <3>3. Secs(f) < Secs(now + 1)
      BY <3>1, <2>3, <1>6 DEF VersionsAt, Written, NotTied
    <3> QED BY <3>2, <3>3
  <2> QED BY <2>2, <2>3
<1>7. \A i, f : f \in Versions(i) => f \in Nat
  <2> SUFFICES ASSUME NEW i, NEW f \in Versions(i) PROVE f \in Nat
    OBVIOUS
  <2>1. PICK p \in Parties : f \in VersionsAt(db[p], i) \cup VersionsAt(committed[p], i)
    BY DEF Versions
  <2>2. PICK x \in {db[p], committed[p]} : f \in VersionsAt(x, i)
    BY <2>1
  <2>3. x \in Collections(Usns)
    BY DEF TypeInv
  <2> QED BY <2>2, <2>3, CollectionTables DEF VersionsAt
<1>8. \A i : i \in DOMAIN d.rows => Kept(d.rows, db[c].rows, i) \/ Written(c, d, i)
  BY DEF Changes
<1>9. ASSUME NEW i \in Ids, NEW f \in Versions(i)', NEW g \in Versions(i)', Secs(f) = Secs(g)
      PROVE  f = g
  <2>1. \A x, y \in Versions(i) : Secs(x) = Secs(y) => x = y
    BY DEF SyncInv, VersionsInv
  <2>2. CASE i \in DOMAIN d.rows => Kept(d.rows, db[c].rows, i)
    BY <2>1, <2>2, <1>5, <1>9
  <2>3. CASE i \in DOMAIN d.rows /\ Written(c, d, i)
    <3>1. /\ f = now + 1 \/ (f \in Versions(i) /\ Secs(f) < Secs(now + 1))
          /\ g = now + 1 \/ (g \in Versions(i) /\ Secs(g) < Secs(now + 1))
      BY <2>3, <1>6
    <3>2. Secs(now + 1) \in Int
      BY <1>3, SecsMonotone
    <3> QED BY <3>1, <3>2, <2>1, <1>9
  <2> QED BY <2>2, <2>3, <1>8
<1>10. ASSUME NEW i \in Ids, NEW f \in Versions(i)' PROVE f <= now'
  <2>1. \A x \in Versions(i) : x <= now /\ x \in Nat
    BY <1>7 DEF SyncInv, VersionsInv
  <2>2. CASE i \in DOMAIN d.rows => Kept(d.rows, db[c].rows, i)
    BY <2>1, <2>2, <1>1, <1>3, <1>5
  <2>3. CASE i \in DOMAIN d.rows /\ Written(c, d, i)
    BY <2>1, <2>3, <1>1, <1>3, <1>6
  <2> QED BY <2>2, <2>3, <1>8
<1>11. \A p \in Parties :
         DOMAIN db'[p].revlog \subseteq 0..now' /\ DOMAIN committed'[p].revlog \subseteq 0..now'
  <2>1. \A p \in Parties :
          DOMAIN db[p].revlog \subseteq 0..now' /\ DOMAIN committed[p].revlog \subseteq 0..now'
    BY <1>1, <1>3 DEF SyncInv, VersionsInv
  <2>2. DOMAIN e.revlog \subseteq 0..now'
    BY <2>1, <1>1, <1>2, <1>3 DEF Changes, Kept
  <2> QED BY <2>1, <2>2, <1>4
<1>12. \A p \in Clients : committed'[p].scm <= now' /\ committed'[Server].scm <= now'
  <2>1. /\ \A p \in Clients : committed[p].scm \in Nat /\ committed[p].scm <= now
        /\ committed[Server].scm \in Nat /\ committed[Server].scm <= now
    BY CollectionTables, Constants DEF TypeInv, SyncInv, VersionsInv
  <2>2. e.scm <= now'
    BY <2>1, <1>1, <1>2, <1>3 DEF Changes
  <2>3. /\ committed'[Server] = committed[Server]
        /\ \A p \in Clients \ {c} : committed'[p] = committed[p]
    BY <1>3, <1>4, Constants
  <2> QED BY <2>1, <2>2, <2>3, <1>1, <1>3, <1>4
<1> QED BY <1>9, <1>10, <1>11, <1>12 DEF VersionsInv

\* A user's change keeps the invariant.
LEMMA OperateSync ==
  ASSUME TypeInv, SyncInv, NEW c \in Clients, NEW d \in Collections(Usns), Changes(c, d),
         NEW kind, Operate(c, kind, d)
  PROVE  SyncInv'
<1> DEFINE mine == [d EXCEPT !.mod = now + 1]
           theirs == db[Server]
           stored == committed[Server]
           own == session[c]
<1>1. /\ db' = [db EXCEPT ![c] = mine] /\ committed' = [committed EXCEPT ![c] = db'[c]]
      /\ session' = session /\ serving' = serving /\ session[c].phase = "idle"
  BY DEF Operate
<1>2. SameContent(mine, d) /\ mine.usn = d.usn /\ mine.scm = d.scm
  BY DEF Collections, SameContent
<1>3. /\ now \in Nat /\ c \in Parties /\ Server \in Parties /\ c # Server
      /\ db[c] = committed[c]
  BY <1>1, TypeFields, Constants DEF SyncInv, QuietInv
<1> HIDE DEF mine
<1>a. /\ db' = [db EXCEPT ![c] = mine, ![Server] = theirs]
      /\ committed' = [committed EXCEPT ![c] = mine]
  BY <1>1, <1>3 DEF TypeInv
<1>b. /\ committed' = [committed EXCEPT ![c] = mine, ![Server] = stored]
      /\ session' = [session EXCEPT ![c] = own]
  BY <1>a, <1>1, <1>3 DEF TypeInv
<1>4. StepBy(c, mine, theirs, mine, stored, own)
  BY <1>a, <1>b DEF StepBy
<1>5. Undeleted(mine)
  <2> SUFFICES ASSUME NEW i \in DOMAIN d.rows, i \in DOMAIN d.graves PROVE FALSE
    BY <1>2 DEF SameContent, Undeleted
  <2>1. i \in DOMAIN db[c].graves
    BY DEF Changes, Kept
  <2>2. i \notin DOMAIN db[c].rows
    BY <2>1, <1>3 DEF SyncInv, DeletedInv, Undeleted
  <2>3. Absent(i)
    BY <2>2 DEF Changes, Kept, Written
  <2> QED BY <2>1, <2>3, <1>3 DEF Absent
<1>6. ASSUME mine.scm = stored.scm PROVE Known(mine, stored)
  <2> DEFINE m == db[c]
  <2>1. /\ stored \in Collections(Nat) /\ m \in Collections(Usns)
        /\ stored.scm \in Nat /\ stored.scm <= now
    BY TypeFields, CollectionTables DEF SyncInv, VersionsInv
  <2>2. mine.scm = m.scm
    BY <2>1, <1>2, <1>3, <1>6 DEF Changes
  <2>3. Known(m, stored)
    BY <2>2, <1>3, <1>6 DEF SyncInv, KnownInv, SameSchema
  <2>4. \A i \in DOMAIN stored.rows : stored.rows[i].edit \in Nat /\ stored.rows[i].edit <= now
    <3>1. \A i \in DOMAIN stored.rows : i \in Ids /\ stored.rows[i].edit \in Nat
      BY <2>1, CollectionTables
    <3>2. \A i \in DOMAIN stored.rows : stored.rows[i].edit \in Versions(i)
      BY <1>3, SourcedHere DEF Sourced, SyncInv
    <3> QED BY <3>1, <3>2 DEF SyncInv, VersionsInv
  <2>5. /\ d.usn = m.usn
        /\ \A i \in DOMAIN d.rows : Kept(d.rows, m.rows, i) \/ Written(c, d, i)
        /\ DOMAIN m.rows \ DOMAIN d.rows \subseteq Pending(d.graves, -1)
        /\ DOMAIN m.graves \subseteq DOMAIN d.graves
        /\ \A i \in DOMAIN d.graves :
             \/ Kept(d.graves, m.graves, i)
             \/ d.graves[i].usn = -1 /\ i \notin DOMAIN d.rows
        /\ DOMAIN m.revlog \subseteq DOMAIN d.revlog
        /\ \A r \in DOMAIN d.revlog :
             \/ Kept(d.revlog, m.revlog, r)
             \/ r = now + 1 /\ d.revlog[r].usn = -1
    BY DEF Changes
  <2>6. \A i : Absent(i) => i \notin DOMAIN m.graves /\ i \notin DOMAIN stored.graves
                            /\ i \notin DOMAIN stored.rows
    BY <1>3 DEF Absent
  <2>7. Pending(m.graves, -1) \subseteq Pending(d.graves, -1)
    BY <2>5, PendingMeans DEF Kept
  <2> HIDE DEF m, stored
  <2>8. ASSUME NEW i \in DOMAIN stored.rows, stored.rows[i].usn < m.usn
        PROVE  Held(d, stored, i) \/ i \in Pending(d.graves, -1)
    <3>1. CASE i \in Pending(m.graves, -1)
      BY <3>1, <2>7
    <3>2. CASE Held(m, stored, i) /\ i \notin DOMAIN d.rows
      BY <3>2, <2>5 DEF Held
    <3>3. CASE Held(m, stored, i) /\ i \in DOMAIN d.rows
      <4>1. CASE Kept(d.rows, m.rows, i)
        BY <3>3, <4>1 DEF Held, Kept
      <4>2. CASE Written(c, d, i)
        BY <3>3, <4>2, <2>4, <1>3 DEF Held, Written
      <4> QED BY <3>3, <4>1, <4>2, <2>5
    <3> QED BY <3>1, <3>2, <3>3, <2>3, <2>8 DEF Known
  <2>9. ASSUME NEW i \in DOMAIN stored.graves, stored.graves[i].usn < m.usn
        PROVE  i \notin DOMAIN d.rows
    BY <2>3, <2>5, <2>6, <2>9 DEF Known, Kept, Written, m
  <2>10. ASSUME NEW i \in DOMAIN d.rows, d.rows[i].usn # -1
         PROVE  /\ i \in DOMAIN stored.rows \cup DOMAIN stored.graves
                /\ i \in DOMAIN stored.rows => d.rows[i].edit <= stored.rows[i].edit
    BY <2>3, <2>5, <2>10 DEF Known, Kept, Written
  <2>11. \A i \in DOMAIN d.graves : d.graves[i].usn # -1 => i \in DOMAIN stored.graves
    BY <2>3, <2>5 DEF Known, Kept
  <2>12. /\ \A r \in DOMAIN stored.revlog : stored.revlog[r].usn < m.usn => r \in DOMAIN d.revlog
         /\ \A r \in DOMAIN d.revlog : d.revlog[r].usn # -1 => r \in DOMAIN stored.revlog
    BY <2>3, <2>5 DEF Known, Kept
  <2>13. Known(d, stored)
    BY <2>3, <2>5, <2>8, <2>9, <2>10, <2>11, <2>12 DEF Known
  <2> QED BY <2>13, <1>2 DEF Known, Held, SameContent
<1>7. VersionsInv'
  BY <1>1, OperateVersions
<1>8. /\ Undeleted(theirs) /\ Undeleted(stored) /\ SameStamps(theirs, stored)
      /\ SameStamps(mine, mine)
      /\ serving' = NoSync => theirs = stored
  BY <1>1, <1>3 DEF SyncInv, DeletedInv, QuietInv, SameStamps
<1>9. \A p \in Clients \ {c} : committed[p].scm = stored.scm => Known(committed[p], stored)
  BY DEF SyncInv, KnownInv, SameSchema
<1>10. ~ (own.phase \in Active \cup {"meta"}) /\ ~ (own.phase \in Active)
  BY <1>1 DEF Active, Merging
<1>11. serving' = serving /\ theirs = db[Server] /\ stored = committed[Server]
  BY <1>1
<1> HIDE DEF theirs, stored, own
<1> QED BY <1>4, <1>5, <1>6, <1>7, <1>8, <1>9, <1>10, <1>11, InvStep

---------------------------------------------------------------------------
(* The invariant, and what it is for. *)

\* The invariant holds at the start.
LEMMA SyncInit == Init => SyncInv
<1> SUFFICES ASSUME Init PROVE SyncInv
  OBVIOUS
<1> DEFINE n == Cardinality(Clients)
<1>1. TypeInv
  BY TypeInit
<1>2. n \in Nat
  BY PartiesAssumption, FS_CardinalityType
<1>3. \A c \in Clients : 1 <= n
  <2> SUFFICES ASSUME NEW c \in Clients PROVE 1 <= n
    OBVIOUS
  <2>1. n # 0
    BY PartiesAssumption, FS_EmptySet
  <2> QED BY <2>1, <1>2
<1>4. /\ committed = db /\ session = [c \in Clients |-> Idle] /\ serving = NoSync /\ now = n
  BY DEF Init
<1>5. PICK order \in Bijection(Clients, 1..n) :
        db = [p \in Parties |-> FirstCollection(IF p = Server THEN n ELSE order[p])]
  BY DEF Init
<1>6. \A c \in Clients : order[c] \in 1..n
  BY <1>5 DEF Bijection, Injection, Surjection
<1> HIDE DEF n
<1>7. \A m : /\ DOMAIN FirstCollection(m).rows = Initial
             /\ \A i \in Initial : FirstCollection(m).rows[i] = [edit |-> 0, usn |-> 0]
             /\ DOMAIN FirstCollection(m).graves = {} /\ DOMAIN FirstCollection(m).revlog = {}
             /\ FirstCollection(m).scm = 1 /\ FirstCollection(m).usn = m
  BY DEF FirstCollection
<1>8. /\ \A p \in Parties : \E m : db[p] = FirstCollection(m)
      /\ \A c \in Clients : db[c] = FirstCollection(order[c])
      /\ db[Server] = FirstCollection(n)
  BY <1>5, Constants
<1> HIDE DEF FirstCollection
<1>9. QuietInv
  BY <1>4 DEF QuietInv
<1>10. DeletedInv
  BY <1>4, <1>7, <1>8 DEF DeletedInv, Undeleted
<1>11. VersionsInv
  <2>1. \A p \in Parties : \A i : VersionsAt(db[p], i) \subseteq {0}
    BY <1>7, <1>8 DEF VersionsAt
  <2>2. \A i : Versions(i) \subseteq {0}
    BY <2>1, <1>4 DEF Versions
  <2>3. \A p \in Parties : DOMAIN db[p].revlog = {}
    BY <1>7, <1>8
  <2>4. \A c \in Clients : committed[c].scm <= now /\ committed[Server].scm <= now
    BY <1>2, <1>3, <1>4, <1>7, <1>8
  <2> QED BY <2>2, <2>3, <2>4, <1>2, <1>4 DEF VersionsInv
<1>12. KnownInv
  <2> SUFFICES ASSUME NEW c \in Clients PROVE Known(db[c], db[Server])
    BY <1>4 DEF KnownInv
  <2>1. order[c] <= n
    BY <1>2, <1>6
  <2> QED BY <2>1, <1>7, <1>8 DEF Known, Held
<1>13. SessionInv
  <2>1. \A c \in Clients : session[c].phase = "idle"
    BY <1>4 DEF Idle
  <2>2. ~ ("idle" \in Active \cup {"meta"}) /\ ~ ("idle" \in Active)
    BY DEF Active, Merging
  <2> QED BY <2>1, <2>2 DEF SessionInv
<1> QED BY <1>9, <1>10, <1>11, <1>12, <1>13 DEF SyncInv

\* Every step keeps it.
LEMMA SyncNext ==
  ASSUME ~ Overlap, ~ TiedEdits, TypeInv, SyncInv, [Next]_vars
  PROVE  SyncInv'
<1>1. CASE vars' = vars
  <2>1. db' = db /\ committed' = committed /\ session' = session /\ serving' = serving /\ now' = now
    BY <1>1 DEF vars
  <2>2. QuietInv' /\ DeletedInv'
    BY <2>1 DEF SyncInv, QuietInv, DeletedInv
  <2>3. VersionsInv'
    BY <2>1 DEF SyncInv, VersionsInv, Versions
  <2>4. KnownInv' /\ SessionInv'
    BY <2>1 DEF SyncInv, KnownInv, SessionInv, SameSchema
  <2> QED BY <2>2, <2>3, <2>4 DEF SyncInv
<1>2. CASE ServerStops
  BY <1>2, ServerStopsSync
<1>3. ASSUME NEW c \in Clients, UserStep(c) PROVE SyncInv'
  <2>1. CASE \/ \E id \in Ids : Edit(c, id) \/ Add(c, id) \/ Delete(c, id)
             \/ \E card \in Cards : Review(c, card)
             \/ SetConfig(c)
             \/ ChangeSchema(c)
    <3>1. PICK kind \in AllKinds, d \in Collections(Usns) : Operate(c, kind, d) /\ Changes(c, d)
      BY <2>1, LocalChanges
    <3> QED BY <3>1, OperateSync
  <2>2. CASE Meta(c)
    BY <2>2, MetaSync
  <2>3. CASE \E delivered \in BOOLEAN : Upload(c, delivered) \/ Download(c, delivered)
    BY <2>3, UploadSync, DownloadSync
  <2>4. CASE Dismiss(c)
    BY <2>4, DismissSync
  <2> QED BY <1>3, <2>1, <2>2, <2>3, <2>4 DEF UserStep
<1>4. ASSUME NEW c \in Clients, SyncStep(c) PROVE SyncInv'
  <2>1. CASE Start(c)
    BY <2>1, StartSync
  <2>2. CASE ExchangeGraves(c)
    BY <2>2, ExchangeGravesSync
  <2>3. CASE ExchangeChanges(c)
    BY <2>3, ExchangeChangesSync
  <2>4. CASE ReceiveChunk(c)
    BY <2>4, ReceiveChunkSync
  <2>5. CASE SendChunk(c)
    BY <2>5, SendChunkSync
  <2>6. CASE CheckSanity(c)
    BY <2>6, CheckSanitySync
  <2>7. CASE Finish(c)
    BY <2>7, FinishSync
  <2>8. CASE \E stamped \in BOOLEAN : LoseFinish(c, stamped)
    BY <2>8, LoseFinishSync
  <2>9. CASE \E aborted \in BOOLEAN : Fail(c, aborted)
    BY <2>9, FailSync
  <2> QED BY <1>4, <2>1, <2>2, <2>3, <2>4, <2>5, <2>6, <2>7, <2>8, <2>9 DEF SyncStep, Proceed
<1> QED BY <1>1, <1>2, <1>3, <1>4 DEF Next

\* The invariant of a sync holds throughout, whatever requests fail or are lost,
\* whoever interrupts whom, and whenever the server stops.
THEOREM SyncsSound ==
  ASSUME ~ Overlap, ~ TiedEdits
  PROVE  Spec => [](TypeInv /\ SyncInv)
<1>1. Init => TypeInv /\ SyncInv
  BY TypeInit, SyncInit
<1>2. TypeInv /\ SyncInv /\ [Next]_vars => (TypeInv /\ SyncInv)'
  BY TypeStep, SyncNext
<1> QED BY <1>1, <1>2, PTL DEF Spec

\* It implies that both sides agree when they are checked.
LEMMA InvAgree == TypeInv /\ SyncInv => AgreeAtSanity
<1> SUFFICES ASSUME TypeInv, SyncInv, NEW c \in Clients,
                    session[c].phase \in {"sanity", "finish"}, Serving(c)
             PROVE  /\ Edits(db[c]) = Edits(db[Server])
                    /\ DOMAIN db[c].revlog = DOMAIN db[Server].revlog
                    /\ db[c].conf = db[Server].conf
                    /\ ~ HasPending(db[c]) /\ ~ HasPending(db[Server])
  BY DEF AgreeAtSanity
<1> DEFINE mine == db[c]
           theirs == db[Server]
<1>1. session[c].phase \in Active /\ session[c].phase \in Merging \ {"changes"}
  BY DEF Active, Merging
<1>2. DecksAgree(mine, theirs) /\ AllSent(mine, theirs) /\ DeletionsShared(mine, theirs)
  BY <1>1, InSync DEF Serving, Stage, Moved
<1>3. mine \in Collections(Usns) /\ theirs \in Collections(Nat)
  BY TypeFields
<1>4. DOMAIN mine.rows \subseteq Ids /\ DOMAIN theirs.rows \subseteq Ids
  BY <1>3, CollectionTables
<1>5. /\ \A i \in Ids : (i \in DOMAIN mine.rows) <=> (i \in DOMAIN theirs.rows)
      /\ \A i \in DOMAIN mine.rows :
           mine.rows[i].usn # -1 /\ mine.rows[i].edit = theirs.rows[i].edit
  BY <1>2, <1>4 DEF DecksAgree, AllSent, AgreeOn, Ids, Chunked
<1> HIDE DEF mine, theirs
<1>6. Edits(mine) = Edits(theirs)
  <2>1. DOMAIN mine.rows = DOMAIN theirs.rows
    BY <1>4, <1>5
  <2> QED BY <2>1, <1>5 DEF Edits
<1>7. ~ HasPending(mine)
  <2>1. /\ Pending(mine.rows, -1) = {} /\ Pending(mine.graves, -1) = {}
        /\ Pending(mine.revlog, -1) = {}
    BY <1>2, <1>5, PendingMeans DEF DeletionsShared, AllSent
  <2> QED BY <2>1 DEF HasPending
<1>8. ~ HasPending(theirs)
  <2>1. /\ \A i \in DOMAIN theirs.rows : theirs.rows[i].usn \in Nat
        /\ \A i \in DOMAIN theirs.graves : theirs.graves[i].usn \in Nat
        /\ \A r \in DOMAIN theirs.revlog : theirs.revlog[r].usn \in Nat
    BY <1>3, CollectionTables
  <2>2. -1 \notin Nat
    OBVIOUS
  <2>3. /\ Pending(theirs.rows, -1) = {} /\ Pending(theirs.graves, -1) = {}
        /\ Pending(theirs.revlog, -1) = {}
    BY <2>1, <2>2, PendingMeans
  <2> QED BY <2>3 DEF HasPending
<1> QED BY <1>2, <1>6, <1>7, <1>8 DEF AllSent, DecksAgree, mine, theirs

\* A client and the server that come to the end of a sync hold the same objects with
\* the same content, the same reviews and the same configuration, and nothing is
\* pending on either side: the counts of the sanity check could not tell.
THEOREM SyncAgrees ==
  ASSUME ~ Overlap, ~ TiedEdits
  PROVE  Spec => []AgreeAtSanity
BY SyncsSound, InvAgree, PTL

\* What the server has below the client's number the client has received, or has
\* changed or deleted since: asking for later entries only loses nothing.
LEMMA InvSeen == SyncInv => SeenUpToUsn
<1> SUFFICES ASSUME SyncInv, NEW c \in Clients, SameSchema(c)
             PROVE  LET mine == committed[c]
                        theirs == committed[Server]
                        Seen(table) == {i \in DOMAIN table : table[i].usn < mine.usn}
                    IN  /\ \A i \in Seen(theirs.rows) :
                             \/ i \in DOMAIN mine.rows
                                /\ \/ mine.rows[i].usn = -1
                                   \/ mine.rows[i].edit = theirs.rows[i].edit
                             \/ i \in Pending(mine.graves, -1)
                        /\ Seen(theirs.graves) \cap DOMAIN mine.rows = {}
                        /\ Seen(theirs.revlog) \subseteq DOMAIN mine.revlog
  BY DEF SeenUpToUsn
<1>1. Known(committed[c], committed[Server])
  BY DEF SyncInv, KnownInv
<1> QED BY <1>1 DEF Known, Held

\* A client's number promises what it should, between syncs and after failed ones.
THEOREM NumbersHonest ==
  ASSUME ~ Overlap, ~ TiedEdits
  PROVE  Spec => []SeenUpToUsn
BY SyncsSound, InvSeen, PTL

\* No party ever has an object that it knows to be deleted, in the middle of a sync
\* either.
THEOREM DeletionsFinal ==
  ASSUME ~ Overlap, ~ TiedEdits
  PROVE  Spec => []DeletedStaysDeleted
<1>1. SyncInv => DeletedStaysDeleted
  BY DEF SyncInv, DeletedInv, Undeleted, DeletedStaysDeleted
<1> QED BY <1>1, SyncsSound, PTL

---------------------------------------------------------------------------
(* The newest version wins. *)

\* Nothing on disk becomes older.
NoneOlder(before, after) ==
  \A i \in DOMAIN before.rows \cap DOMAIN after.rows : after.rows[i].edit >= before.rows[i].edit

\* Rows that stay are not older.
LEMMA SameRowsNotOlder ==
  ASSUME NEW usns, NEW before \in Collections(usns), NEW after, after.rows = before.rows
  PROVE  NoneOlder(before, after)
<1>1. \A i \in DOMAIN before.rows : before.rows[i].edit >= before.rows[i].edit
  BY CollectionTables
<1> QED BY <1>1 DEF NoneOlder

\* A user's change commits no older version of a row.
LEMMA OperateNotOlder ==
  ASSUME TypeInv, SyncInv, NEW c \in Clients, NEW d \in Collections(Usns), Changes(c, d),
         NEW kind, Operate(c, kind, d)
  PROVE  \A p \in Parties : NoneOlder(committed[p], committed'[p])
<1> DEFINE mine == [d EXCEPT !.mod = now + 1]
<1>1. /\ db' = [db EXCEPT ![c] = mine] /\ committed' = [committed EXCEPT ![c] = db'[c]]
      /\ session[c].phase = "idle"
  BY DEF Operate
<1>2. mine.rows = d.rows
  BY DEF Collections
<1>3. /\ now \in Nat /\ now + 1 \in Nat /\ c \in Parties /\ db[c] = committed[c]
      /\ \A p \in Parties : committed[p] \in Collections(Usns)
  BY <1>1, Constants DEF TypeInv, SyncInv, QuietInv
<1> HIDE DEF mine
<1>4. committed'[c] = mine /\ \A p \in Parties \ {c} : committed'[p] = committed[p]
  BY <1>1, <1>3 DEF TypeInv
<1>5. NoneOlder(committed[c], mine)
  <2> SUFFICES ASSUME NEW i \in DOMAIN committed[c].rows, i \in DOMAIN d.rows
               PROVE  d.rows[i].edit >= committed[c].rows[i].edit
    BY <1>2 DEF NoneOlder
  <2>1. i \in Ids /\ committed[c].rows[i].edit \in Nat
    BY <1>3, CollectionTables
  <2>2. committed[c].rows[i].edit <= now
    BY <2>1, <1>3, SourcedHere DEF Sourced, SyncInv, VersionsInv
  <2> QED BY <2>1, <2>2, <1>3 DEF Changes, Kept, Written
<1> QED BY <1>3, <1>4, <1>5, SameRowsNotOlder

\* Nor does a sync that is finished.
LEMMA FinishNotOlder ==
  ASSUME TypeInv, SyncInv, NEW c \in Clients,
         Finish(c) \/ \E stamped \in BOOLEAN : LoseFinish(c, stamped)
  PROVE  \A p \in Parties : NoneOlder(committed[p], committed'[p])
<1>1. session[c].phase = "finish" /\ serving.skey = c
  BY DEF Finish, LoseFinish, Serving
<1>2. session[c].phase \in Active /\ session[c].phase \in Merging
  BY <1>1 DEF Active, Merging
<1>3. /\ ServerMoved(committed[Server], db[Server])
      /\ ClientMoved(committed[c], db[c], db[Server]) /\ DeletionsShared(db[c], db[Server])
      /\ Undeleted(db[Server])
  BY <1>1, <1>2, InSync DEF Stage, Moved
<1>4. /\ c \in Parties /\ Server \in Parties /\ c # Server
      /\ db[c] \in Collections(Usns) /\ db[Server] \in Collections(Nat)
      /\ \A p \in Parties : committed[p] \in Collections(Usns)
  BY TypeFields, Constants DEF TypeInv
<1>5. \A after : after.rows = db[Server].rows => NoneOlder(committed[Server], after)
  <2>1. /\ \A i \in DOMAIN db[Server].rows : db[Server].rows[i].edit \in Nat
        /\ \A i \in DOMAIN committed[Server].rows : committed[Server].rows[i].edit \in Nat
    BY <1>4, CollectionTables
  <2> QED BY <2>1, <1>3 DEF ServerMoved, Undeleted, NoneOlder
<1>6. \A after : after.rows = db[c].rows => NoneOlder(committed[c], after)
  <2>1. /\ \A i \in DOMAIN db[c].rows : db[c].rows[i].edit \in Nat
        /\ \A i \in DOMAIN committed[c].rows : committed[c].rows[i].edit \in Nat
    BY <1>4, CollectionTables
  <2> QED BY <2>1, <1>3 DEF ClientMoved, DeletionsShared, NoneOlder
<1>7. \A p \in Parties : NoneOlder(committed[p], committed[p])
  BY <1>4, SameRowsNotOlder
<1>8. CASE Finish(c)
  <2> DEFINE mine == Finalized(c, now')
             theirs == Finished(now')
  <2>1. mine.rows = db[c].rows /\ theirs.rows = db[Server].rows
    BY <1>4 DEF Finalized, Finished, Collections
  <2>2. /\ db' = [db EXCEPT ![Server] = theirs, ![c] = mine]
        /\ committed' = [committed EXCEPT ![Server] = db'[Server], ![c] = db'[c]]
    BY <1>8 DEF Finish
  <2> HIDE DEF mine, theirs
  <2>3. /\ committed'[Server] = theirs /\ committed'[c] = mine
        /\ \A p \in Parties \ {c, Server} : committed'[p] = committed[p]
    BY <2>2, <1>4 DEF TypeInv
  <2> QED BY <2>1, <2>3, <1>5, <1>6, <1>7
<1>9. CASE \E stamped \in BOOLEAN : LoseFinish(c, stamped)
  <2>1. PICK stamped \in BOOLEAN : LoseFinish(c, stamped)
    BY <1>9
  <2> DEFINE theirs == Finished(IF stamped THEN now' ELSE db[Server].mod)
  <2>2. theirs.rows = db[Server].rows
    BY <1>4 DEF Finished, Collections
  <2>3. /\ db' = [db EXCEPT ![Server] = theirs, ![c] = committed[c]]
        /\ committed' = [committed EXCEPT ![Server] = db'[Server]]
    BY <2>1 DEF LoseFinish
  <2> HIDE DEF theirs
  <2>4. /\ committed'[Server] = theirs
        /\ \A p \in Parties \ {Server} : committed'[p] = committed[p]
    BY <2>3, <1>4 DEF TypeInv
  <2> QED BY <2>2, <2>4, <1>5, <1>7
<1> QED BY <1>8, <1>9

\* Nor does any other step, a full sync that replaces a collection apart.
LEMMA StepNotOlder ==
  ASSUME ~ Overlap, ~ TiedEdits, TypeInv, SyncInv, [Next]_vars,
         \A c \in Clients : session[c].phase = "full" => session'[c] = session[c]
  PROVE  \A p \in Parties : NoneOlder(committed[p], committed'[p])
<1>1. \A p \in Parties : committed[p] \in Collections(Usns)
  BY DEF TypeInv
<1>2. ASSUME committed' = committed PROVE \A p \in Parties : NoneOlder(committed[p], committed'[p])
  BY <1>1, <1>2, SameRowsNotOlder
<1>3. CASE vars' = vars \/ ServerStops
  BY <1>2, <1>3 DEF vars, ServerStops
<1>4. ASSUME NEW c \in Clients, UserStep(c)
      PROVE  \A p \in Parties : NoneOlder(committed[p], committed'[p])
  <2>1. CASE \/ \E id \in Ids : Edit(c, id) \/ Add(c, id) \/ Delete(c, id)
             \/ \E card \in Cards : Review(c, card)
             \/ SetConfig(c)
             \/ ChangeSchema(c)
    <3>1. PICK kind \in AllKinds, d \in Collections(Usns) : Operate(c, kind, d) /\ Changes(c, d)
      BY <2>1, LocalChanges
    <3> QED BY <3>1, OperateNotOlder
  <2>2. CASE Meta(c)
    BY <2>2, <1>2 DEF Meta
  <2>3. CASE \E delivered \in BOOLEAN : Upload(c, delivered) \/ Download(c, delivered)
    <3>1. session[c].phase = "full" /\ session' = [session EXCEPT ![c] = Idle]
      BY <2>3 DEF Upload, Download, FullSync
    <3>2. session'[c].phase = "idle"
      BY <3>1 DEF TypeInv, Idle
    <3> QED BY <3>1, <3>2
  <2>4. CASE Dismiss(c)
    BY <2>4, <1>2 DEF Dismiss
  <2> QED BY <1>4, <2>1, <2>2, <2>3, <2>4 DEF UserStep
<1>5. ASSUME NEW c \in Clients, SyncStep(c)
      PROVE  \A p \in Parties : NoneOlder(committed[p], committed'[p])
  <2>1. CASE Start(c) \/ \E aborted \in BOOLEAN : Fail(c, aborted)
    BY <2>1, <1>2 DEF Start, Fail
  <2>2. CASE ExchangeGraves(c)
    BY <2>2, <1>2 DEF ExchangeGraves
  <2>3. CASE ExchangeChanges(c)
    BY <2>3, <1>2, ExchangeChangesShape
  <2>4. CASE ReceiveChunk(c)
    BY <2>4, <1>2 DEF ReceiveChunk
  <2>5. CASE SendChunk(c)
    BY <2>5, <1>2 DEF SendChunk
  <2>6. CASE CheckSanity(c)
    <3>1. CASE committed' = committed
      BY <3>1, <1>2
    <3>2. CASE committed' = [committed EXCEPT ![c] = [committed[c] EXCEPT !.scm = now + 1]]
      <4> DEFINE mine == [committed[c] EXCEPT !.scm = now + 1]
      <4>1. mine.rows = committed[c].rows
        BY <1>1, Constants DEF Collections
      <4> HIDE DEF mine
      <4>2. committed'[c] = mine /\ \A p \in Parties \ {c} : committed'[p] = committed[p]
        BY <3>2, Constants DEF TypeInv, mine
      <4> QED BY <4>1, <4>2, <1>1, SameRowsNotOlder
    <3> QED BY <2>6, <3>1, <3>2 DEF CheckSanity
  <2>7. CASE Finish(c) \/ \E stamped \in BOOLEAN : LoseFinish(c, stamped)
    BY <2>7, FinishNotOlder
  <2> QED BY <1>5, <2>1, <2>2, <2>3, <2>4, <2>5, <2>6, <2>7 DEF SyncStep, Proceed
<1> QED BY <1>3, <1>4, <1>5 DEF Next

\* No sync, finished or not, and no local operation puts an older version of an object
\* in the place of a newer one on any disk; only a full sync may.
THEOREM NewestVersionWins ==
  ASSUME ~ Overlap, ~ TiedEdits
  PROVE  Spec => NewestWins
<1>1. TypeInv /\ SyncInv /\ [Next]_vars =>
        [(\A c \in Clients : session[c].phase = "full" => session'[c] = session[c])
           => \A p \in Parties :
                \A i \in DOMAIN committed[p].rows \cap DOMAIN committed'[p].rows :
                  committed'[p].rows[i].edit >= committed[p].rows[i].edit]_vars
  BY StepNotOlder DEF NoneOlder
<1> QED BY <1>1, SyncsSound, PTL DEF Spec, NewestWins
====
