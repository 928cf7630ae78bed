---- MODULE CollectionSync ----
(***************************************************************************)
(* Collection sync between clients and one server (sync/collection,        *)
(* sync/http_server).  A client runs meta, start, graves, changes, chunks, *)
(* sanity check and finish against a server that works in one open         *)
(* transaction; other clients, failures and restarts come in between.      *)
(* A collection is a record: rows and graves by object id, review log, the *)
(* configuration, usn, and the modification and schema stamps.  The        *)
(* content of a row is the instant (in milliseconds) of its last edit; the *)
(* row's mtime is that instant in seconds.                                 *)
(***************************************************************************)
EXTENDS Integers, FiniteSets, FiniteSetsExt, Functions

CONSTANTS
  Clients, Server,
  Cards, Notes, Decks,  \* object ids, natural numbers
  Initial,              \* the objects that exist at first
  ChunkSize,            \* CHUNK_SIZE
  SecondLength,         \* milliseconds in a second
  OpKinds,              \* the local operations considered
  Overlap,              \* may another sync come between a meta and its start?
  TiedEdits,            \* may two clients change an object in the same second?
  MaxClock              \* bound: no edit happens, no sync begins after then

Parties == Clients \cup {Server}
Ids == Cards \cup Notes \cup Decks
AllKinds == {"edit", "review", "add", "delete", "config", "schema"}

ASSUME PartiesAssumption == Server \notin Clients /\ IsFiniteSet(Clients)
ASSUME IdsAssumption ==
  /\ Ids \subseteq Nat /\ Initial \subseteq Ids /\ IsFiniteSet(Ids)
  /\ Cards \cap Notes = {} /\ Cards \cap Decks = {} /\ Notes \cap Decks = {}
ASSUME BoundsAssumption ==
  /\ ChunkSize \in Nat \ {0} /\ SecondLength \in Nat \ {0} /\ MaxClock \in Nat
ASSUME ModeAssumption ==
  OpKinds \subseteq AllKinds /\ Overlap \in BOOLEAN /\ TiedEdits \in BOOLEAN

VARIABLES
  db,         \* each party's collection, as its own connection sees it
  committed,  \* each party's collection on disk
  session,    \* where each client is in a sync (ClientSyncState)
  serving,    \* the server's sync_state (ServerSyncState), or NoSync
  now         \* the clock, in milliseconds

vars == <<db, committed, session, serving, now>>

----
\* Types

Usns == Nat \cup {-1}
ChunkIds == [revlog : SUBSET Nat, cards : SUBSET Cards, notes : SUBSET Notes]
NoIds == [revlog |-> {}, cards |-> {}, notes |-> {}]
Phases == {"idle", "meta", "graves", "changes", "receive", "send", "sanity",
           "finish", "full"}
Metas == [usn : Nat, mod : Nat, scm : Nat, empty : BOOLEAN]
NoMeta == [usn |-> 0, mod |-> 0, scm |-> 0, empty |-> TRUE]
Idle == [phase |-> "idle", meta |-> NoMeta, graves |-> {}, ids |-> NoIds]
NoSync == [skey |-> Server, client_usn |-> 0, client_is_newer |-> FALSE,
           listed |-> FALSE, ids |-> NoIds]

Secs(edit) == edit \div SecondLength

\* Faulty variant: what has the client's own usn is taken as known.
IsPendingAfter(usn, pending_usn) ==
  IF pending_usn = -1 THEN usn = -1 ELSE usn > pending_usn

\* Usn::is_pending_sync and pending_object_clause
IsPending(usn, pending_usn) ==
  IF pending_usn = -1 THEN usn = -1 ELSE usn >= pending_usn
Pending(table, pending_usn) ==
  {i \in DOMAIN table : IsPending(table[i].usn, pending_usn)}

\* maybe_update_object_usns: the given objects lose their pending status.
Stamped(table, ids, usn) ==
  [i \in DOMAIN table |->
     IF i \in ids THEN [table[i] EXCEPT !.usn = usn] ELSE table[i]]

\* What a sync compares: the content, not the usns.
Edits(d) == [i \in DOMAIN d.rows |-> d.rows[i].edit]
HasPending(d) ==
  \E table \in {d.rows, d.graves, d.revlog} : Pending(table, -1) # {}

----
\* Merging into a collection

\* One table laid over another: its entries replace those of the same ids.
Over(table, other) ==
  [i \in DOMAIN table \cup DOMAIN other |->
     IF i \in DOMAIN table THEN table[i] ELSE other[i]]

\* Faulty variant: an object changed here survives a deletion elsewhere.
ApplyGravesUnlessPending(d, ids, usn) ==
  [d EXCEPT !.rows = Restrict(@, (DOMAIN @ \ ids) \cup Pending(@, -1)),
            !.graves = Over(@, [i \in ids |-> [usn |-> usn]])]

\* apply_graves: the object goes, whatever was done to it here; a grave that
\* is already there keeps its usn (INSERT OR IGNORE).
ApplyGraves(d, ids, usn) ==
  [d EXCEPT !.rows = Restrict(@, DOMAIN @ \ ids),
            !.graves = Over(@, [i \in ids |-> [usn |-> usn]])]

\* Faulty variant: whatever comes in is stored.
MergeDecksAlways(d, decks) == [d EXCEPT !.rows = Over(decks, @)]

\* merge_decks (and notetypes, deck configs): the newer one, or the incoming.
MergeDecks(d, decks) ==
  LET taken == {i \in DOMAIN decks :
                  i \in DOMAIN d.rows =>
                    Secs(d.rows[i].edit) <= Secs(decks[i].edit)}
  IN  [d EXCEPT !.rows = Over(Restrict(decks, taken), @)]

\* select max(id) from revlog where cid = ?, 0 if there is none
LatestReview(revlog, card) ==
  Max({0} \cup {id \in DOMAIN revlog : revlog[id].card = card})

\* add_or_update_card_if_newer.  Only a tie of the mtimes looks at the reviews,
\* and of the incoming ones only at those in the same chunk.
CardProceeds(d, chunk, card, pending_usn) ==
  LET here == d.rows[card]
      incoming == chunk.rows[card]
      review == LatestReview(chunk.revlog, card)
      local == LatestReview(d.revlog, card)
  IN  \/ ~ IsPending(here.usn, pending_usn)
      \/ Secs(here.edit) < Secs(incoming.edit)
      \/ Secs(here.edit) = Secs(incoming.edit) /\ review >= local

\* add_or_update_note_if_newer
NoteProceeds(d, chunk, note, pending_usn) ==
  \/ ~ IsPending(d.rows[note].usn, pending_usn)
  \/ Secs(d.rows[note].edit) < Secs(chunk.rows[note].edit)

\* apply_chunk: the reviews already here stay, the others are added.
ApplyChunk(d, chunk, pending_usn) ==
  LET taken == {i \in DOMAIN chunk.rows :
                  \/ i \notin DOMAIN d.rows
                  \/ i \in Cards /\ CardProceeds(d, chunk, i, pending_usn)
                  \/ i \in Notes /\ NoteProceeds(d, chunk, i, pending_usn)}
  IN  [d EXCEPT !.revlog = Over(@, chunk.revlog),
                !.rows = Over(Restrict(chunk.rows, taken), @)]

----
\* Chunks

ChunkableIds(d, pending_usn) ==
  [revlog |-> Pending(d.revlog, pending_usn),
   cards |-> Pending(d.rows, pending_usn) \cap Cards,
   notes |-> Pending(d.rows, pending_usn) \cap Notes]

\* The ids come from an index on usn and are popped from the end.
LastOf(table, ids, n) ==
  {i \in ids : Cardinality({j \in ids :
     \/ table[j].usn > table[i].usn
     \/ table[j].usn = table[i].usn /\ j > i}) < n}

\* What get_chunk pops in n rounds, one of each kind in a round
Popped(d, ids, n) ==
  [revlog |-> LastOf(d.revlog, ids.revlog, n),
   cards |-> LastOf(d.rows, ids.cards, n),
   notes |-> LastOf(d.rows, ids.notes, n)]
Size(ids) ==
  Cardinality(ids.revlog) + Cardinality(ids.cards) + Cardinality(ids.notes)

\* Rounds go on until the limit is used up or nothing is left; the chunk is
\* the last one if the limit is not used up.
NextIds(d, ids) ==
  LET Stops(n) == LET size == Size(Popped(d, ids, n))
                  IN  size >= ChunkSize \/ size = Size(ids)
  IN  Popped(d, ids, Min({n \in 0..Size(ids) : Stops(n)}))

\* Faulty variant: an empty chunk is not the last one.
IsDoneUnlessEmpty(next) == Size(next) \in 1..(ChunkSize - 1)
IsDone(next) == Size(next) < ChunkSize

Without(ids, next) ==
  [revlog |-> ids.revlog \ next.revlog, cards |-> ids.cards \ next.cards,
   notes |-> ids.notes \ next.notes]
ChunkOf(d, next) ==
  [revlog |-> Restrict(d.revlog, next.revlog),
   rows |-> Restrict(d.rows, next.cards \cup next.notes)]

----
\* A sync's view of a collection

MetaOf(d) == [usn |-> d.usn, mod |-> d.mod, scm |-> d.scm,
              empty |-> DOMAIN d.rows \cap Cards = {}]
LocalIsNewer(c) == db[c].mod > session[c].meta.mod

\* sanity_check_info, without the graves, which are not compared
SanityCounts(d) ==
  [cards |-> Cardinality(DOMAIN d.rows \cap Cards),
   notes |-> Cardinality(DOMAIN d.rows \cap Notes),
   decks |-> Cardinality(DOMAIN d.rows \cap Decks),
   revlog |-> Cardinality(DOMAIN d.revlog)]

\* before_upload; decks lose every usn, other objects only the pending ones
BeforeUpload(d, time) ==
  [d EXCEPT
     !.rows = Stamped(@, Pending(@, -1) \cup (DOMAIN @ \cap Decks), 0),
     !.graves = <<>>,
     !.revlog = Stamped(@, Pending(@, -1), 0),
     !.usn = @ + 1, !.mod = time, !.scm = time]

\* One client has uploaded, the others have downloaded one after another; each
\* download raises the server's usn and gives it a new stamp.
FirstCollection(n) ==
  [rows |-> [i \in Initial |-> [edit |-> 0, usn |-> 0]], graves |-> <<>>,
   revlog |-> <<>>, conf |-> 0, usn |-> n, mod |-> n, scm |-> 1]
Init ==
  /\ \E order \in Bijection(Clients, 1..Cardinality(Clients)) :
       db = [p \in Parties |->
               FirstCollection(IF p = Server THEN Cardinality(Clients)
                               ELSE order[p])]
  /\ committed = db
  /\ session = [c \in Clients |-> Idle]
  /\ serving = NoSync
  /\ now = Cardinality(Clients)

----
\* Local operations, only between syncs: a sync holds the collection.

\* No other party's copy of the object was changed in this second, nor the one
\* it would go back to.
NotTied(c, id) ==
  \A p \in Parties \ {c}, copy \in {db, committed} :
    id \in DOMAIN copy[p].rows => Secs(copy[p].rows[id].edit) < Secs(now + 1)

\* A transaction: the change, the new stamp, the commit.
Operate(c, kind, d) ==
  /\ kind \in OpKinds
  /\ session[c].phase = "idle"
  /\ now < MaxClock
  /\ now' = now + 1
  /\ db' = [db EXCEPT ![c] = [d EXCEPT !.mod = now + 1]]
  /\ committed' = [committed EXCEPT ![c] = db'[c]]
  /\ UNCHANGED <<session, serving>>

WithRow(d, id) ==
  [d EXCEPT !.rows = Over([i \in {id} |-> [edit |-> now + 1, usn |-> -1]], @)]

Edit(c, id) ==
  /\ id \in DOMAIN db[c].rows
  /\ TiedEdits \/ NotTied(c, id)
  /\ Operate(c, "edit", WithRow(db[c], id))

\* A review changes the card and adds to the review log.
Review(c, card) ==
  /\ card \in DOMAIN db[c].rows
  /\ TiedEdits \/ NotTied(c, card)
  /\ Operate(c, "review",
       [WithRow(db[c], card) EXCEPT
          !.revlog = Over([i \in {now + 1} |-> [card |-> card, usn |-> -1]], @)])

\* Object ids are instants, so that a new one is new everywhere.
Add(c, id) ==
  /\ \A p \in Parties, copy \in {db, committed} :
       id \notin DOMAIN copy[p].rows \cup DOMAIN copy[p].graves
  /\ Operate(c, "add", WithRow(db[c], id))

Delete(c, id) ==
  /\ id \in DOMAIN db[c].rows
  /\ Operate(c, "delete",
       [db[c] EXCEPT !.rows = Restrict(@, DOMAIN @ \ {id}),
                     !.graves = Over(@, [i \in {id} |-> [usn |-> -1]])])

SetConfig(c) == Operate(c, "config", [db[c] EXCEPT !.conf = now + 1])

ChangeSchema(c) == Operate(c, "schema", [db[c] EXCEPT !.scm = now + 1])

----
\* The sync of a client, one action per request and its answer

Serving(c) == serving.skey = c
Goto(c, phase) == session' = [session EXCEPT ![c].phase = phase]

\* sync_meta, the meta request, and the decision on its answer.  The request
\* aborts whatever sync the server is in (with_col).
Meta(c) ==
  LET remote == MetaOf(committed[Server])
      local == MetaOf(db[c])
      phase == IF remote.scm # local.scm THEN "full" ELSE "meta"
  IN  /\ session[c].phase = "idle"
      /\ now <= MaxClock
      /\ serving' = NoSync
      /\ db' = [db EXCEPT ![Server] = committed[Server]]
      /\ session' = [session EXCEPT ![c] =
           IF remote.mod = local.mod THEN Idle
           ELSE [Idle EXCEPT !.phase = phase, !.meta = remote]]
      /\ UNCHANGED <<committed, now>>

\* Without Overlap, the server has not moved on since it answered meta.
StartsInTime(c) == Overlap \/ session[c].meta = MetaOf(committed[Server])

\* start: a new session replaces any other; the server's deletions since the
\* client's last sync are the answer.
Start(c) ==
  /\ session[c].phase = "meta"
  /\ StartsInTime(c)
  /\ serving' = [NoSync EXCEPT !.skey = c, !.client_usn = db[c].usn,
                               !.client_is_newer = LocalIsNewer(c)]
  /\ db' = [db EXCEPT ![Server] = committed[Server]]
  /\ session' = [session EXCEPT
       ![c].phase = "graves",
       ![c].graves = Pending(committed[Server].graves, db[c].usn)]
  /\ UNCHANGED <<committed, now>>

\* The client's deletions are sent and stamped, then the server's applied.
ExchangeGraves(c) ==
  LET usn == session[c].meta.usn
      mine == Pending(db[c].graves, -1)
      sent == [db[c] EXCEPT !.graves = Stamped(@, mine, usn)]
  IN  /\ session[c].phase = "graves"
      /\ Serving(c)
      /\ db' = [db EXCEPT
           ![c] = ApplyGraves(sent, session[c].graves, usn),
           ![Server] = ApplyGraves(@, mine, @.usn)]
      /\ Goto(c, "changes")
      /\ UNCHANGED <<committed, serving, now>>

\* Faulty variant: the server sends its configuration in any case.
ServerSendsConfAlways == TRUE

\* Who is newer was decided by the client; each side sends on that.
ServerSendsConf == ~ serving.client_is_newer

\* apply_changes: decks, and the whole configuration of the newer side.  The
\* server collects its changes before it applies the client's.
ExchangeChanges(c) ==
  LET mine == Pending(db[c].rows, -1) \cap Decks
      sent == [db[c] EXCEPT !.rows = Stamped(@, mine, session[c].meta.usn)]
      theirs == Pending(db[Server].rows, serving.client_usn) \cap Decks
  IN  /\ session[c].phase = "changes"
      /\ Serving(c)
      /\ db' = [db EXCEPT
           ![c] = [MergeDecks(sent, Restrict(db[Server].rows, theirs)) EXCEPT
                     !.conf = IF ServerSendsConf THEN db[Server].conf ELSE @],
           ![Server] = [MergeDecks(db[Server], Restrict(sent.rows, mine)) EXCEPT
                          !.conf = IF serving.client_is_newer
                                   THEN db[c].conf ELSE @]]
      /\ Goto(c, "receive")
      /\ UNCHANGED <<committed, serving, now>>

\* chunk: the server's ids are collected at the first request.  (A value that
\* is used often is bound by \E, so that TLC evaluates it once.)
ReceiveChunk(c) ==
  LET ids == IF serving.listed THEN serving.ids
             ELSE ChunkableIds(db[Server], serving.client_usn)
  IN  /\ session[c].phase = "receive"
      /\ Serving(c)
      /\ \E next \in {NextIds(db[Server], ids)} :
         \E merged \in {ApplyChunk(db[c], ChunkOf(db[Server], next), -1)} :
           /\ serving' = [serving EXCEPT !.listed = TRUE, !.ids = Without(ids, next)]
           /\ db' = [db EXCEPT ![c] = merged]
           /\ session' = IF IsDone(next)
                THEN [session EXCEPT ![c].phase = "send",
                                     ![c].ids = ChunkableIds(merged, -1)]
                ELSE session
      /\ UNCHANGED <<committed, now>>

\* Faulty variant: the reviews are forgotten.
StampChunkRows(d, next, usn) ==
  [d EXCEPT !.rows = Stamped(@, next.cards \cup next.notes, usn)]

\* get_chunk on the client stamps what it takes with the usn from meta.
StampChunk(d, next, usn) ==
  [d EXCEPT !.revlog = Stamped(@, next.revlog, usn),
            !.rows = Stamped(@, next.cards \cup next.notes, usn)]

\* apply_chunk: the server compares with what changed since client_usn.
SendChunk(c) ==
  /\ session[c].phase = "send"
  /\ Serving(c)
  /\ \E next \in {NextIds(db[c], session[c].ids)} :
     \E sent \in {StampChunk(db[c], next, session[c].meta.usn)} :
       /\ db' = [db EXCEPT
            ![c] = sent,
            ![Server] = ApplyChunk(@, ChunkOf(sent, next), serving.client_usn)]
       /\ session' = [session EXCEPT
            ![c].ids = Without(@, next),
            ![c].phase = IF IsDone(next) THEN "sanity" ELSE @]
  /\ UNCHANGED <<committed, serving, now>>

----
\* The end of a sync

\* Both sides count; on a difference both roll back, and the client sets its
\* schema stamp, which makes the next sync a full one.
CheckSanity(c) ==
  LET same == ~ HasPending(db[Server])
              /\ SanityCounts(db[c]) = SanityCounts(db[Server])
      forced == [committed[c] EXCEPT !.scm = now + 1]
  IN  /\ session[c].phase = "sanity"
      /\ Serving(c)
      /\ ~ HasPending(db[c])
      /\ IF same
         THEN Goto(c, "finish") /\ UNCHANGED <<db, committed, serving, now>>
         ELSE /\ db' = [db EXCEPT ![Server] = committed[Server], ![c] = forced]
              /\ committed' = [committed EXCEPT ![c] = forced]
              /\ session' = [session EXCEPT ![c] = Idle]
              /\ serving' = NoSync
              /\ now' = now + 1

\* server_finish: the commit, with the usn raised, then the stamp by itself.
Finished(stamp) == [db[Server] EXCEPT !.usn = @ + 1, !.mod = stamp]
\* finalize_sync
Finalized(c, stamp) ==
  [db[c] EXCEPT !.usn = session[c].meta.usn + 1, !.mod = stamp]

Finish(c) ==
  /\ session[c].phase = "finish"
  /\ Serving(c)
  /\ now' = now + 1
  /\ db' = [db EXCEPT ![Server] = Finished(now'), ![c] = Finalized(c, now')]
  /\ committed' = [committed EXCEPT ![Server] = db'[Server], ![c] = db'[c]]
  /\ session' = [session EXCEPT ![c] = Idle]
  /\ serving' = NoSync

\* The server has committed, but the client does not learn of it: its answer is
\* lost, or the server stops before it has set its stamp.
LoseFinish(c, stamped) ==
  /\ session[c].phase = "finish"
  /\ Serving(c)
  /\ now' = now + 1
  /\ db' = [db EXCEPT
       ![Server] = Finished(IF stamped THEN now' ELSE db[Server].mod),
       ![c] = committed[c]]
  /\ committed' = [committed EXCEPT ![Server] = db'[Server]]
  /\ session' = [session EXCEPT ![c] = Idle]
  /\ serving' = NoSync

\* Any request fails: no answer, a conflict, the user cancels.  The client
\* rolls back and sends abort, which ends the server's sync, whosever it is.
Fail(c, aborted) ==
  /\ session[c].phase \notin {"idle", "full"}
  /\ session' = [session EXCEPT ![c] = Idle]
  /\ db' = [db EXCEPT ![c] = committed[c],
                      ![Server] = IF aborted THEN committed[Server] ELSE @]
  /\ serving' = IF aborted THEN NoSync ELSE serving
  /\ UNCHANGED <<committed, now>>

\* The server is restarted, or an abort sent earlier arrives.
ServerStops ==
  /\ serving # NoSync
  /\ serving' = NoSync
  /\ db' = [db EXCEPT ![Server] = committed[Server]]
  /\ UNCHANGED <<committed, session, now>>

----
\* Full syncs, chosen by the user; they abort a sync the server is in.

FullSync(c, mine, theirs) ==
  /\ session[c].phase = "full"
  /\ now <= MaxClock
  /\ now' = now + 1
  /\ session' = [session EXCEPT ![c] = Idle]
  /\ db' = [db EXCEPT ![c] = mine, ![Server] = theirs]

\* full_upload: the client's preparation is kept if the upload fails.
Upload(c, delivered) ==
  LET mine == BeforeUpload(db[c], now + 1)
  IN  /\ ~ MetaOf(db[c]).empty \/ session[c].meta.empty
      /\ FullSync(c, mine, IF delivered THEN mine ELSE db[Server])
      /\ committed' = [committed EXCEPT
           ![c] = mine, ![Server] = IF delivered THEN mine ELSE @]
      /\ serving' = IF delivered THEN NoSync ELSE serving

\* server_download raises the server's usn, also if the file never arrives.
Download(c, delivered) ==
  LET theirs == [committed[Server] EXCEPT !.usn = @ + 1, !.mod = now + 1]
      mine == IF delivered THEN theirs ELSE db[c]
  IN  /\ ~ session[c].meta.empty \/ MetaOf(db[c]).empty
      /\ FullSync(c, mine, theirs)
      /\ committed' = [committed EXCEPT ![c] = mine, ![Server] = theirs]
      /\ serving' = NoSync

Dismiss(c) ==
  /\ session[c].phase = "full"
  /\ session' = [session EXCEPT ![c] = Idle]
  /\ UNCHANGED <<db, committed, serving, now>>

----
Proceed(c) ==
  \/ Start(c)
  \/ ExchangeGraves(c)
  \/ ExchangeChanges(c)
  \/ ReceiveChunk(c)
  \/ SendChunk(c)
  \/ CheckSanity(c)
  \/ Finish(c)

\* The requests that cannot succeed: the server answers with a conflict, or the
\* client's own count fails.  (Without Overlap, a start that would come too late
\* counts as failed.)
MustFail(c) ==
  \/ session[c].phase = "meta" /\ ~ StartsInTime(c)
  \/ session[c].phase \notin {"idle", "full", "meta"} /\ ~ Serving(c)
  \/ session[c].phase = "sanity" /\ HasPending(db[c])

SyncStep(c) ==
  \/ Proceed(c)
  \/ \E stamped \in BOOLEAN : LoseFinish(c, stamped)
  \/ \E aborted \in BOOLEAN : Fail(c, aborted)

UserStep(c) ==
  \/ \E id \in Ids : Edit(c, id) \/ Add(c, id) \/ Delete(c, id)
  \/ \E card \in Cards : Review(c, card)
  \/ SetConfig(c)
  \/ ChangeSchema(c)
  \/ Meta(c)
  \/ \E delivered \in BOOLEAN : Upload(c, delivered) \/ Download(c, delivered)
  \/ Dismiss(c)

Next ==
  \/ \E c \in Clients : UserStep(c) \/ SyncStep(c)
  \/ ServerStops

\* A sync that has begun does not pause: the client awaits each answer with a
\* timeout and goes on, or stops if it is refused.  The user need not do
\* anything, and no request need fail.
Spec ==
  /\ Init
  /\ [][Next]_vars
  /\ \A c \in Clients :
       WF_vars(Proceed(c) \/ (MustFail(c) /\ \E aborted \in BOOLEAN : Fail(c, aborted)))

----
\* Properties

\* Fields hold values of their kind; the server never stores a pending usn
\* (usn = -1 is the client's own mark, taken off before anything is sent).
WellTyped(d, usns) ==
  /\ DOMAIN d.rows \subseteq Ids /\ DOMAIN d.graves \subseteq Ids
  /\ \A i \in DOMAIN d.rows : d.rows[i] \in [edit : Nat, usn : usns]
  /\ \A i \in DOMAIN d.graves : d.graves[i] \in [usn : usns]
  /\ \A i \in DOMAIN d.revlog :
       i \in Nat /\ d.revlog[i] \in [card : Cards, usn : usns]
  /\ {d.conf, d.usn, d.mod, d.scm} \subseteq Nat
TypeOK ==
  /\ \A copy \in {db, committed} :
       /\ \A c \in Clients : WellTyped(copy[c], Usns)
       /\ WellTyped(copy[Server], Nat)
  /\ \A c \in Clients :
       /\ session[c].phase \in Phases /\ session[c].meta \in Metas
       /\ session[c].graves \subseteq Ids /\ session[c].ids \in ChunkIds
  /\ serving.skey \in Parties /\ serving.client_usn \in Nat
  /\ serving.client_is_newer \in BOOLEAN /\ serving.listed \in BOOLEAN
  /\ serving.ids \in ChunkIds
  /\ now \in Nat

\* When a client and the server come to the end of a sync, they hold the same
\* objects with the same content, the same reviews and the same configuration,
\* and nothing pending is left on either side.  The sanity check only counts.
AgreeAtSanity ==
  \A c \in Clients :
    session[c].phase \in {"sanity", "finish"} /\ Serving(c) =>
      /\ Edits(db[c]) = Edits(db[Server])
      /\ DOMAIN db[c].revlog = DOMAIN db[Server].revlog
      /\ db[c].conf = db[Server].conf
      /\ ~ HasPending(db[c]) /\ ~ HasPending(db[Server])

SameSchema(c) == committed[c].scm = committed[Server].scm

\* A client asks the server for what has its own usn or a later one: anything
\* earlier it must have received, unless it has changed or deleted it since.
SeenUpToUsn ==
  \A c \in Clients : SameSchema(c) =>
    LET mine == committed[c]
        theirs == committed[Server]
        Seen(table) == {i \in DOMAIN table : table[i].usn < mine.usn}
    IN  /\ \A i \in Seen(theirs.rows) :
             \/ i \in DOMAIN mine.rows
                /\ \/ mine.rows[i].usn = -1
                   \/ mine.rows[i].edit = theirs.rows[i].edit
             \/ i \in Pending(mine.graves, -1)
        /\ Seen(theirs.graves) \cap DOMAIN mine.rows = {}
        /\ Seen(theirs.revlog) \subseteq DOMAIN mine.revlog

\* The most recent edit wins: unless the user chooses a full sync, no collection
\* ever replaces a committed version of an object by an older one, at the end of
\* a sync or otherwise.
NewestWins ==
  [][(\A c \in Clients : session[c].phase = "full" => session'[c] = session[c])
     => \A p \in Parties :
          \A i \in DOMAIN committed[p].rows \cap DOMAIN committed'[p].rows :
            committed'[p].rows[i].edit >= committed[p].rows[i].edit]_vars

\* A deleted object does not come back, at any party and at any point of a
\* sync, whatever others did to it before they learned of the deletion.
DeletedStaysDeleted ==
  \A p \in Parties : DOMAIN db[p].rows \cap DOMAIN db[p].graves = {}

\* No client stays in a sync for ever: each ends, by success or rollback, also
\* when no request is lost and however often others take the session away.
SyncEnds == \A c \in Clients : []<>(session[c].phase \in {"idle", "full"})
====
