# TLA+ specifications of the collection core

This directory holds TLA+ models of the parts of this repository (an Anki fork
with a CFA study layer) whose correctness depends on the *order* of things:
transactions and undo, the collection's modification stamp, the study queues
that a review session updates in place, sync of the collection and of its media
between several devices and a server, the deck tree with the filtered decks that
borrow cards, notes and cards under a notetype that is rearranged or imported,
and the CFA layer's exam queue and scores. TLC checks the models on small
instances; the TLA+ proof system proves, for all instances, that the undo
machinery restores what it should and implements an abstract history, that the
collection's stamp can be trusted, that both sync protocols leave no device
without a change, that the study queues hold no card twice, that no two decks
have the same name, that cards come home from filtered decks and a database
check repairs what a sync has left, and that the CFA scores count each answer
once and do not depend on the study decks.

    tlc -workers 2 -config Transactions.cfg MCTransactions.tla
    tlc -workers 2 -config StudyQueues_siblings.cfg MCStudyQueues.tla
    tlc -workers 2 -config CollectionSync.cfg MCCollectionSync.tla
    tlc -workers 2 -config MediaSync.cfg MCMediaSync.tla
    tlc -workers 2 -config Decks.cfg MCDecks.tla
    tlc -workers 2 -config Notes.cfg MCNotes.tla
    tlc -workers 2 -config ExamStudy.cfg MCExamStudy.tla
    tlapm UndoManager_proofs.tla
    tlapm Transactions_proofs.tla
    tlapm ModificationStamp_proofs.tla
    tlapm CollectionSync_proofs.tla
    tlapm MediaSync_proofs.tla
    tlapm StudyQueues_proofs.tla
    tlapm Decks_proofs.tla
    tlapm ExamStudy_proofs.tla

Paths below are relative to the repository; `rslib` stands for `rslib/src`.
`PROJECT.json` maps each definition to the lines it models.

## 1. The system

The Rust library `rslib` owns a SQLite file and a `Collection` object with
in-memory state. The Python library `pylib` calls it through `rslib/backend`,
one protobuf message per call; a mutex around the collection serialises the
calls. The Qt program `qt/aqt` runs them on the main thread and on workers and
refreshes its screens from the `OpChanges` each call returns. The CFA layer adds
readiness statistics to `rslib/scheduler`, ethics-deck recording and internal
state to `pylib`/`qt`, and AI grading and drafting under `cfa/ai`.

| Component | State it keeps | Operations | What makes it hard, what makes it correct |
|---|---|---|---|
| Undo manager `undo/mod.rs` | up to 30 undo steps, redo steps, the open step, mode, a counter | begin/end a step, record a change, undo, redo, custom steps, merge | any operation, undo or failure may come next; reverting must restore exactly the earlier rows; counters must identify merge targets although merging sets them back |
| Transactions `collection/transact.rs` | savepoint, open step, `col.mod` | `transact`, `transact_no_undo`, rollback, coalescing of note edits | a failure half-way, also of an undo; rows, stamp and history must agree |
| Stamps, sync status, backups `collection/timestamps.rs`, `collection/backup.rs`, `sync/collection/*` | `col.mod`, `ls`, stamp of the last backup | stamp on commit, restore on undo, compare | undo sets the stamp *back*, a sync takes it from another clock; a change must never be hidden from sync or backup |
| Study queues `scheduler/queue` | main and learning queue, counts, cutoff, build time, day | build, fetch, pop, requeue, undo, redo, invalidate | a cache that answers update in place and other operations discard, over a moving clock; entries, counts and cards must agree |
| Answering `scheduler/answering` | cards, revlog | state check, next state, sibling burying, leeches | uses values read when the card was shown |
| Burying, rollover `scheduler/bury_and_suspend.rs` | card queues, `last_unburied` | bury, suspend, unbury, unbury on a new day | triggered from reads, outside of transactions |
| Reviewer `qt/aqt/reviewer.py`, `cfa_ethics_sync.py` | the card shown and its states, web-view callbacks | next card, show answer, answer, refresh, record an attempt | callbacks between showing and answering |
| Sync `rslib/sync/collection`, `sync/http_server` | on each side rows and graves with `usn`, review log, `usn`, `mod` and `scm` of the collection; the server's one open session and transaction | meta, start, graves, changes, chunks, sanity check, finish, abort; full upload and download | lost replies, aborts and sessions taken over by another device, a server commit the client does not learn of; both sides must agree in the end, and no device may be left without a change |
| Media sync `sync/media`, `media`, `sync/http_server/media_manager` | the folder; a table of the files registered in it with their hashes, "to be uploaded" flags, the folder's time and the last usn; the server's files, rows, usn and count | scan the folder, fetch changes in batches, download, upload, sanity check; add and remove files | the folder is changed by anyone; the table, the folder and the server's number are written one after the other; a client's number must be honest about its folder, and a file may be deleted elsewhere only if a user deleted it |
| Decks `decks` | deck rows under unique names, the name being the place in the tree | add, rename, drag, remove, import; merge in a sync | each operation renames children and makes parents; the tree must stay whole and names unique |
| Filtered decks `scheduler/filtered` | cards lent to another deck, with home deck and due value put aside | create, update, rebuild, empty, answer, bury, move or remove cards, remove either deck | every way home must restore deck, due value and queue; a filtered deck never takes its cards with it |
| Notes, notetypes, cards `notes`, `notetype` | fields and cards by position in the notetype | add, change, remove notes; rearrange fields and templates; change a note's notetype; empty cards | positions change their meaning: contents and cards must move along |
| Import `import_export/package/apkg` | maps from the package's notetypes, fields, templates and notes to the collection's | update, duplicate or merge notetypes, then notes, then cards | two notetypes with their own layout; importing again must find what was imported |
| Database check `dbcheck.rs` | none | repair missing decks, cards wrongly marked as filtered, field counts, cards without a template or with the same | the repairs build on one another |
| Backend, dbproxy `rslib/backend` | the mutex, a Python transaction, caches | calls, SQL from Python, open and close | transactions around operations; poisoning; caches after rollback |
| Deck limits `decks/limits.rs`, `decks/tree.rs` | remaining counts per deck | count | limits of parents |
| CFA scores, deadline `scheduler/cfa_scores.rs`, `cfa_deadline.rs`, `scheduler/service`, `pylib/anki/cfa.py` | none (statistics); exam weights in the config | count answers per card and day, give-up rule, exam queue, ranking for the exam day | days end at the rollover; cards move between decks under the counts; answers come from two devices |
| CFA study menu `qt/aqt/cfa.py` | two filtered decks | study by exam priority, study ethics pairs | the queue is made of cards some of which the deck it fills already holds |
| CFA internal state, sync helpers `pylib/anki/cfa_*.py` | state notes, custom data | upsert, record, merge | two calls that may be cut in between; the same record from two devices |
| AI client `cfa/ai` | spend ledger, cache | call with retry, fallback | cap checked before a call, spent after it |

`PROJECT.json` also lists what needs no state-machine model: rendering, search,
the web interface, build tools. Its `hazards` name, line by line, what a test
would hardly reach.

How they interact: Python calls the library and is called back by the web view
only; the library's components share the database and the in-memory state of
`Collection` under the mutex; the sync server is another process, reached by
requests; media sync runs in a thread of its own beside the collection, with its
own database, and meets it only in the folder.

## 2. The modules

    UndoManager ---- operators on the undo record; UndoManager_proofs
      |  \
      |   Transactions ----> UndoHistory        (refinement, ImplementsHistory)
      |      |    \
      |      |     Transactions_proofs
      |   ModificationStamp                     (composes: sync, backup)
      |      \
      |       ModificationStamp_proofs
      |
    StudyQueues                                 (composes: undo, reviewer, clock)
      \    StudyQueues_proofs
    CollectionSync                              (clients, server, user, failures)
      \    CollectionSync_proofs
    MediaSync                                   (clients, server, users' folders, failures)
      \    MediaSync_proofs
    Decks                                       (deck tree, filtered decks, check, two devices)
      \    Decks_proofs
    Notes                                       (notes, notetypes, check, two collections, packages)
    ExamStudy                                   (scores, exam queue, study decks, two devices)
      \    ExamStudy_proofs

**UndoManager** is `undo/mod.rs` as operators on one record: `undo_steps` newest
first, `redo_steps` newest last, `current_step`, `mode`, `counter`, as in the
Rust structure. Both state machines below use the same operators, so what is
proved of them holds for both. Rust's limit of 30 is `UndoLimit`.

**Transactions** runs the undo manager over a table of rows. Where the code runs
one operation under the mutex, the model takes *several* steps (begin, each
write, commit or failure; each reverted change), because the properties are
about what has been recorded or reverted half-way.

| Code | Action |
|---|---|
| `transact(op, ..)`, first half | `BeginOp(kind)` |
| `transact_no_undo` | `BeginNoUndo` |
| save-undo, then storage write (`update_*_undoable`) | `Write(k, v)` |
| `transact`, second half: stamp, coalesce note edits, `end_step`, commit | `Finish` |
| an error from the operation or from an undo | `Fail` |
| `undo` / `redo`, then one `change.undo(self)` at a time, then the commit | `BeginUndo` / `BeginRedo`, `RevertChange`, `FinishRevert` |
| `add_custom_undo_step`, `merge_undoable_ops` | `AddCustomUndoStep`, `MergeUndoableOps` |

A row is any undoable object, a value its content. `ConfigKeys` are the rows
whose writer does nothing when the value is unchanged (`config/undo.rs`). The
operation kinds tell apart what `transact` does: `Edit`, `UpdateNote`, which may
be coalesced into the step before it (`notes/undo.rs`), and `SkipUndo`. A merge
whose target has left the history is refused by the code and disabled here.

**UndoHistory** is the abstract specification: rows, and two sequences of
pre-images. `Do`, `Undo`, `Redo`, `Merge` and so on are single atomic steps; a
failed operation changes no rows, and forgets the history at most (`Forget`).
`Untracked` says whether there are operations that change rows and leave no
pre-image, as `SkipUndo` does (`DoUntracked`). `Transactions!ImplementsHistory`
is refinement under the mapping at the end of that module: during a transaction
the abstract rows (`CommittedRows`) are those at the savepoint, a step is the
pre-image its changes amount to, and a step that is being reverted is still in
its history (`Past`, `Future`).

**ModificationStamp** extends Transactions by what reads `col.mod`: a normal
sync, seen as what it does to this collection (`BeginSync` discards the history,
`ApplyRemote` stores rows without undo, `FinishSync` sets both stamps,
`FailSync` rolls back), and `Backup`. Two clocks take part: operations are
stamped by the client's (`clock`, which also moves on its own, `TimePasses`),
while a sync ends with the moment at which the server finished
(`server_finish`), which differs from the client's by one of `Skews`. Without
`TiedStamps` no two stamps are the same millisecond of the two clocks.

**StudyQueues** is a review session: `scheduler/queue`, the parts of
`scheduler/answering` and `bury_and_suspend.rs` that move cards between queues,
undo, and the reviewer as far as it holds a card. One backend call is one
action, as the mutex makes it. The methods of `Collection` are operators from
one collection record to the next and keep the order of the code.

| Code | Action |
|---|---|
| `get_queued_cards(1)` called by the reviewer, with the build of the queues | `GetQueuedCards` |
| `answer_card`: state check, next state, sibling burying, `update_queues_after_answering_card` | `AnswerCard(card)` |
| `undo`, `redo` of card, config and queue changes | `UndoOp`, `RedoOp` |
| `merge_undoable_ops` | `MergeUndoableOps` |
| `bury_or_suspend_cards`, `set_card_flag`, `unbury_or_unsuspend_cards` | `Bury`, `Suspend`, `SetFlag`, `UnburyUnsuspend` |
| `persist_ethics_attempt` -> `merge_custom_data` -> `col.update_card` | `PersistAttempt` |
| `deck_tree` with a time | `DeckTree` |
| restart after a panic | `Restart` |
| time passing | `Tick` |

The builder's sort and mix options are *not* enumerated: `GatherOrders`,
`MainOrders` and `LearningOrders` are the sets of orders it can produce, and a
build picks any. Intervals are abstracted too: an answer may lead to any state
the four buttons can offer for the card's kind. The binary search over the
learning queue may return any matching position, as Rust documents
(`InsertPositions`); this matters since undo can leave that queue unsorted.

Times are small integers from `Epoch` up, and day numbers lie below it, as in
the code, where the size of `due` says which of the two it is.

**CollectionSync** is the sync protocol between any number of clients and one
server. Each party has a collection (`db`, as its open connection sees it) and
the file on disk (`committed`); a sync works in a transaction on both sides, so
that the two differ until it ends. `session` is where a client is in
`normal_sync_inner`, `serving` is the server's `sync_state`. A request and its
answer are one action, as the client awaits each answer and holds its collection
meanwhile. A lost answer differs from a lost request only where the server has
committed (`LoseFinish`) or has raised its usn (`Download`); elsewhere the
server's transaction is discarded in either case, and `Fail` covers both.

| Code | Action |
|---|---|
| `transact` with an update, an answer, an addition, a removal | `Edit`, `Review`, `Add`, `Delete`, `SetConfig`, `ChangeSchema` |
| `sync_meta`, `server_meta` under `with_col`, `compared_to_remote` | `Meta` |
| `start_new_sync`, `server_start` | `Start` |
| the rest of `start_and_process_deletions`, `server_apply_graves` | `ExchangeGraves` |
| `process_unchunked_changes`, `server_apply_changes` | `ExchangeChanges` |
| one round of `process_chunks_from_server`, `server_chunk` | `ReceiveChunk` |
| one round of `send_chunks_to_server`, `server_apply_chunk` | `SendChunk` |
| `sanity_check`, `server_sanity_check`, rollback and new schema stamp | `CheckSanity` |
| `finalize`, `server_finish`; the answer lost, or a crash after the commit | `Finish`, `LoseFinish` |
| an error from any request, rollback, `abort` delivered or not | `Fail` |
| a server restart, a late abort | `ServerStops` |
| `full_upload`, `full_download`, a full sync that is not wanted | `Upload`, `Download`, `Dismiss` |

The content of a row is the instant of its last edit in milliseconds; its mtime
is that instant divided by `SecondLength`, because merging compares seconds. The
id of a review is an instant too, and so is a new object's. `MergeDecks` stands
for decks, presets and notetypes, which are merged alike; `NextIds` is the loop
of `get_chunk`, which pops one id of each kind per round, so that a chunk may
exceed its limit and is the last one only if it does not reach it.

Two restrictions on the environment are constants, so that each run says what it
assumes: without `TiedEdits`, no two devices edit, or review, the same object in
the same second (`NotTied`); without `Overlap`, nobody finishes a sync between a
client's meta and its start.

**MediaSync** is the media folder of each client beside its table of files, and
the server's. Contents are model values standing for files and their hashes.
Times of modification are kept as what the code compares them for: `seen` says
that the folder's time is the one in the meta row, `fresh` that a file's time is
the one in its row. Requests and database transactions are separate actions,
since what lies between them is what can be lost.

| Code | Action |
|---|---|
| `sync_inner` up to the answer of `begin_sync`, with `register_changes` | `StartSync` |
| `media_changes`, `determine_required_change`, `remove_files` of the batch | `FetchChanges` |
| `download_files`, `extract_into_media_folder` | `DownloadFiles` |
| the transaction that ends a batch | `RecordBatch` |
| `get_pending_uploads`, `gather_zip_data_for_upload` | `GatherUpload` |
| `process_uploaded_changes` on the server; its answer at the client | `UploadChanges`, `RecordUpload` |
| `finalize_sync` (counts compared), `force_resync` | `FinalizeSync` |
| a request that fails, an abort by the user; the server failing in an upload | `AbortSync`, `UploadFails` |
| `add_file`, `remove_files` called by the program | `AddFile`, `RemoveFiles` |
| any other program changing the folder | `WriteOutside`, `DeleteOutside` |

Files are numbers, the order in which a zip holds them; tables are functions
from sets of files. A zip is registered as a whole: `RegisterAll` numbers the
files the server does not have yet one after another, and passes over the others
as `register_uploaded_change` does. Of a batch of names to remove, any part may
have been moved when one that is not there ends it.

`gone` is a ghost: the files whose deletion is their user's doing. The constant
`Faults` names what else may go wrong (see section 4); the passing run has none
of them, but any request may fail and any answer may be lost. Each fault is a
guard of its own: `MayEdit` (`busy`), `MayDelete` (`unsynced`), `AsBefore`
(`as_before`), `UploadFails` (`half_upload`, `half_delete`), and `AbortSync` and
`LosesDownload` (`half_download`: a download of several requests may end after
the first).

**Decks** models an operation as an operator from one collection record to the
next, in the order of the code; a step commits the result unless the operation
has `failed`, in which case its transaction is rolled back. A deck name is a
sequence of components, a component a word with the suffixes that `+` and import
have appended, words being the same if they fold to the same. `health` says
whether a collection may be expected to be whole: `sound` until it merges,
`checked` right after a database check.

| Code | Operator, action |
|---|---|
| `add_deck_inner` | `AddDeck`, `AddDeckOp` |
| `update_deck_inner`, `rename_child_decks`, `match_or_create_parents` | `UpdateDeck`, `RenameDeckOp` |
| `reparent_decks_inner` | `ReparentDecks`, `ReparentDecksOp` |
| `remove_decks_and_child_decks` | `RemoveDecks`, `RemoveDecksOp` |
| `add_or_update_filtered_deck_inner`, `rebuild_filtered_deck_inner`, `return_all_cards_in_filtered_deck` | `AddOrUpdateFilteredDeck`, `Rebuild`, `ReturnAllCards`; `SaveFilteredDeck`, `RebuildFilteredDeck`, `EmptyFilteredDeck` |
| `set_deck`, bury and suspend, their undoing, answers in a preview deck | `SetDeck`, `SuspendCard`, `UnsuspendCard`, `PreviewAgain`, `PreviewDone` |
| `import_decks` | `ImportDecks`, `ImportPackage` |
| `check_missing_deck_ids`, `check_filtered_cards`, `check_missing_deck_names` | `CheckDatabase`, `DatabaseCheck` |
| `merge_decks`, `merge_cards`, graves; a full sync after a schema change | `NormalSync`, `Sync` |

What a search matches is any set of cards, since the code does not care which;
the order and the limit of the search decide only which set, and are left out.

**Notes** is the content side: `col` holds a collection that packages are made
of and one they are imported into. Items of a notetype have identities only in
the model: each content carries the field it was written in and each card the
template it was made from, as ghosts, so that the invariants can say that
contents and cards stay with them, while the operators use positions only, as
the code does. A template is reduced to the one field its front shows.

| Code | Operator, action |
|---|---|
| `add_note_inner`, `update_note_inner`, `remove_notes_inner`, `new_cards_required` | `AddNote`, `UpdateNote`, `RemoveNotes`, `NewCardsRequired`; `Edit` |
| `update_notes_for_changed_fields`, `update_cards_for_changed_templates`, repaired fronts | `UpdateNotetype`; `Edit` |
| `change_notetype_of_notes_inner` | `ChangeNotetype`; `Edit` |
| `check_notetypes` | `CheckDatabase`; `Edit` |
| `empty_cards`, the dialog and its deletion | `ShowEmptyCards`, `CloseEmptyCards` |
| `gather_data` of an export | `Export` |
| `import_notetypes`, `resolve_notetype_conflicts`, `import_notes`, `import_cards` | `Imported`, `Import` |

The order in which a hash map yields conflicts is any order.

**ExamStudy** composes what the CFA layer does with cards on a desktop and a
phone: answers in the ordinary reviewer, the exam queue and the two filtered
decks that are built from it or from the ethics deck, scores over the answers,
and a sync between the two devices. A card's topic is the one with the longest
name, in characters (`Length`), that is a prefix of one of its tags: scores only
look at tags below `los` (`TopicOf`), the queue at all of them (`WeighedTopic`).
Weakness is an order (never seen, then least recently seen): the recall numbers
of FSRS only enter by how they rank cards. Sorting is by rank: the element at
place i is the one that i - 1 others come before (`InOrder`, `Sorted`), which
TLC computes and the proof system can reason about.

| Code | Operator, action |
|---|---|
| `build_exam_queue`, `build_exam_queue_all_decks`, the choice between them | `BuildExamQueue`, `BuildExamQueueAllDecks`, `ExamQueue` |
| `_study_filtered_deck`, `study_by_exam_priority`, `study_ethics_pairs` | `StudyFilteredDeck`, `StudyByExamPriority`, `StudyEthicsPairs` |
| `graded_reviews_by_card`, `compute_cfa_scores`, the give-up rule | `GradedReviews`, `MemoryScore`, `PerformanceScore` |
| `deadline_retention`, with new cards | `DeadlineRetention`, `DeadlineRetentionWithNew` |
| answering, burying, suspending, forgetting, emptying, the exam weights | `AnswerCard`, `BuryOrSuspend`, `RescheduleAsNew`, `EmptyFilteredDeck`, `SetExamConfig` |
| a sync of both devices with the server | `Sync` |

## 3. What TLC checks

| Run | Question | Properties |
|---|---|---|
| `Transactions` | Do all interleavings of writes, failures, undo, redo, coalescing and merging keep the history exact? | `TypeOK`, `StepAccountsForChanges`, `RevertProgress`, `CountersIdentifySteps`, `ImplementsHistory` |
| `ModificationStamp_tracked` | Is a stamp that undo sets back, and a sync sets by another clock, still honest, as long as every operation is recorded or ends the history? | `UnsyncedChangesAreStamped`, `UnsavedChangesAreStamped` |
| `StudyQueues_siblings` | Do the queues stay up to date through answers that bury siblings, undo, redo and other operations? | `EntriesFresh`, `LearningCardsQueued` |
| `StudyQueues_learning` | Do learning and previewed cards stay queued once, counted and placed right while time passes, the day changes, and attempts discard the queues under the card being shown? | `CountsMatchEntries`, `NoDuplicateEntries`, `UndoShowsCardAgain`, `RequeuedBehindNext` |
| `CollectionSync` | Edits and deletions of a card, a note and a deck, and the configuration: do client and server agree after each sync, and is every change received by everyone, whatever fails on the way? | `AgreeAtSanity`, `SeenUpToUsn`, `DeletedStaysDeleted`, `NewestWins` |
| `CollectionSync_full` | With reviews of one card in the same second, additions, schema changes and full syncs: does a sync end? | `TypeOK`, `SyncEnds` |
| `MediaSync` | Is a client's number honest about its folder, and are only users' deletions passed on, whatever request fails? Do all folders agree in the end? | `TypeOK`, `FolderMatchesUpToUsn`, `OnlyUserDeletionsAreUploaded`, `EventuallyAgree` |
| `Decks` | Does any sequence of deck and filtered deck operations and imports keep the tree whole and bring every card home as it left? | `TypeOK`, `TreeSound`, `NamesUnique`, `CardsReturnHome`, `CardsGoWithTheirHome` |
| `Decks_merge` | Two devices change the same decks and sync: are names unique, and does a database check put right what is left? | `NamesUnique`, `CheckRepairs` |
| `Notes` | Do contents and cards stay with their fields and templates through changes of notetypes and imports? Are the database check, the empty cards dialog and a second import right afterwards? | `TypeOK`, `NotesFollowTheirNotetype`, `CheckRepairs`, `EmptyCardsLoseNothing`, `ReimportAddsNothing` |
| `ExamStudy` | Do the scores count each answer once wherever its card is and whichever device it came from? Does studying by priority reach a review, and does the ranking share its places? | `TypeOK`, `EvidenceCountedOnce`, `ReviewIsReached`, `DueKeepHalf`, `StudyDecksKeepScores` |

`AgreeAtSanity` says more than the sanity check of the code, which compares only
counts: at that point content, reviews and configuration are equal.
`SeenUpToUsn` is the invariant that the whole protocol lives by: a client only
asks for what has its own usn or a later one, so that it must have everything
below it. `NewestWins` is an action property, as an older version could win for
a moment only.

Each property has a mutant in `PROJECT.json`: a plausible mistake in one mapped
definition with which TLC finds the property violated. The operators with the
comment "Faulty variant" in the modules exist for that.

### Bounds

* *Transactions*: two rows (one of them a config row), two values, at most two
  writes per operation, four operations, a history of two steps. Two writes are
  enough to change one row twice in a step; four operations overfill the
  history, and leave room for undo, redo and merging after that. `MaxClock`
  bounds stamps; three are enough for an undo to restore an older one than was
  taken since.
* *ModificationStamp*: one row; a hidden change needs no second one. Five
  operations allow change, sync, change, undo and change again. The server's
  clock is behind by one, in step, or ahead by one or two, so that after a sync
  with one that is ahead by two there is a moment at which a change is hidden
  from the check on the client, and one at which it is not.
* *StudyQueues_siblings*: three cards of which two are siblings; three
  operations; a history of three; four points in time with a day of three, the
  last of which is another day.
* *StudyQueues_learning*: two learning cards and a previewed one; four points in
  time with a day of three, a learn-ahead limit of three and fuzz 0 or 1, so
  that a card can be due now, within the limit, and on the next day; four
  operations, enough for two answers and their undo on either side of a rebuild.

* *CollectionSync*: two clients (the one that is syncing, and the one that has
  missed it or interferes), a card, a note and a deck, chunks of one object so
  that every exchange takes several rounds, seconds of two milliseconds so that
  mtimes may be equal. The first two instants belong to the initial syncs, so
  that edits happen and stamps are taken at 3, 4 and 5, and the last sync ends
  after that. A lost change needs an edit, a sync whose answer is lost, and a
  second client that syncs before the first does again.
* *CollectionSync_full*: a card that is there from the beginning and a note that
  is added; seconds of three milliseconds, so that both clients can review the
  card in one second and sync after it. A full sync needs a schema change, an
  upload and a download by the other client.
* *CollectionSync_overlap*: one card, edits only.
* *MediaSync*: two clients and two files, one of which has two contents; three
  changes by the users, one failure, batches and uploads of two files, so that
  one exchange can be full, and one short. Wrong deletions and files that are
  never asked for need a file from each client and a sync cut short between
  them; a replaced file needs the second content.
* *Decks*: three operations from a deck with a child, two cards (a new one, and
  one in learning, whose due value is a time), two packages that clash with what
  the user may have made. Four names, two of which differ in case only, let a
  deck be moved under another, under itself, and under a filtered one. Three
  operations are a filtered deck made, a change to it or to a home deck, and its
  removal.
* *Decks_merge*: one operation on each device, one sync, and a check; both
  devices start with filtered decks, so that one can build or rename what the
  other removes.
* *Notes*: two notetypes with two fields and templates, and with one; one note
  with one card in both collections; one operation on either side and two
  imports with all options, so that the package is rearranged, the target is
  rearranged, and the second import meets the first's result. At most three
  fields or templates.
* *ExamStudy*: three cards in two decks, one of each official topic and one of
  neither (the first has a tag of the second's topic too, which is shorter, and
  the second one that is no topic), two devices, five ticks in days of two, so
  that three days take part and an answer can fall on either side of a rollover;
  a queue of two, so that it can be full; two answers for a score. Answers are
  Again and Hard, the eases on either side of `CORRECT_EASE`. One card is
  buried, suspended and forgotten.

The clients of a sync are symmetric, and `CollectionSync` uses that;
`CollectionSync_full` and `MediaSync` do not, as they check liveness. Values are
symmetric in Transactions and ModificationStamp, and TLC uses that. Cards, decks
and files are not (their number breaks ties or gives an order), so no symmetry
is declared for them.

### Deadlock and fairness

Deadlock is checked in the runs of Transactions, ModificationStamp, StudyQueues
and MediaSync. In the others it is not: when the clock or the number of
operations has reached its bound, nobody edits and no sync begins, and all may
rest.

No fairness is assumed of anything a user does or of any failure.

*CollectionSync*: the only fairness is that of a sync that has begun: the client
takes its next step, or gives up if the step must be refused. The code justifies
it, as `normal_sync_inner` is one sequence of awaited requests, every answer of
the server follows from the request, and `IoMonitor` ends a request that stalls.
It is weak fairness of the whole step, not of each action, and no success is
assumed. `SyncEnds` then rests on the chunks: each round leaves fewer ids, and
the round that finds none must be the last one. A server whose session is taken
away by another device refuses the next request, so that two devices cannot keep
one another waiting. (`CollectionSync` without `Overlap` counts a start that
comes too late as refused, which is an assumption of the run, not a property of
the code.)

*MediaSync*: a client's sync takes its next step, since it runs in a thread that
does nothing else until it ends; and a client that is idle syncs at some time,
since media is synced whenever the collection is (`WF` of `SyncStep` and of
`StartSync`). `EventuallyAgree` then says that folders agree once users stop and
no more requests fail, both of which the bounds `MaxEdits` and `MaxFailures`
bring about.

## 4. Disagreements found

One has a run with `expect: violation`; for the others there is a configuration
beside the runs whose counterexample TLC finds in the same way (`tlc -config
<name>.cfg`).

1. **`CollectionSync_overlap`**, the run. A client stamps its changes with the
   usn from the answer to meta. If another client finishes a sync before the
   start, the server has moved on, and the changes are stored below the usn of
   the other client, which will never be sent them.
2. **`ModificationStamp_skip_undo`**. `Op::SkipUndo` (collapsing a deck) takes a
   stamp and is dropped from the history; undoing the operation *before* it
   restores that operation's older stamp. If that was the first change since a
   sync, the status check reports no changes although the deck row differs.
3. **`StudyQueues_rollover_panic`**. Undoing an answer after the day has
   changed: `get_or_invalidate_queues` discards the undo manager's state, the
   open step of the undo included; after the commit `op_changes` panics on the
   missing step, with the collection mutex held (`NoPanic`).
4. **`StudyQueues_mixed_presets`**. The builder buries siblings by the merged
   presets of the cards gathered so far, an answer by the preset of the answered
   card. Where they differ, the answer buries a card that stays in the queues,
   and the next fetch fails (`EntriesFresh`). One preset for all cards does it
   too if it buries reviews but no new cards: a new card, answered into learning
   and then again, buries the review sibling that is still in the main queue
   (`exclude_earlier_gathered_queues`, `bury_and_suspend.rs:148`).
5. **`StudyQueues_ethics_attempt`**. Saving an ethics attempt discards the
   queues while the reviewer goes on with the card; the answer then records no
   queue change, and undoing it leaves rebuilt queues with a stale entry
   (`EntriesFresh`).
6. **`MediaSync_trash`**. `remove_files` returns at the first file that is not
   in the folder ("nothing to do", `media/files.rs:348`), so that the rest of
   the batch stays; their rows are dropped and the folder counts as scanned,
   although `changes.rs` has decided that they are to be deleted
   (`DeletedFilesAreGone`).
7. **`Decks_first_card`**. `remove_from_filtered_deck_restoring_queue` restores
   the due value unless it is 0, taking 0 for "none was put aside"; the first
   card of a new collection has position 0 and comes home with the position it
   had in the filtered deck (`CardsReturnHome`).
8. **`Notes_merge`**. Where a merged package has its templates in another order
   than the target, `card_ordinal_already_exists` looks for the package's
   position, before `remap_template_index` has mapped it, and two cards of a
   note get one template (`CardOrdinalsUnique`).
9. **`ExamStudy_latest`**. `cfa_sync.py` promises that of two devices' reviews
   of a card the more recent one wins. The sync keeps the row with the later
   *mtime*, and building a study deck on the desktop after a review on the phone
   gives the card a later one, so that the review's state is lost
   (`LatestReviewWins`).
10. **`ExamStudy_order`**. The exam deck is built with the search order "order
    added", which a comment says keeps the order of the list of ids
    (`qt/aqt/cfa.py:542`); it is the order of note ids, not that of the queue
    (`ExamDeckKeepsPriority`).

11. **`MediaSync_as_before`**. After an upload a client adds the number of files
    it has sent to its own and takes the server's number if the sums agree
    (`syncer.rs:240`). But `process_uploaded_changes` counts as processed what
    it passes over as well, "already have" and "already deleted"
    (`media_manager/upload.rs:36-41`), which takes no number. A client that
    deletes a file and puts the same one back, or deletes one that is deleted on
    the server, while another client uploads as many changes, takes the server's
    number and never asks for those (`FolderMatchesUpToUsn`). Only the
    comparison of counts at the end may notice, if the counts differ.

12. **`ModificationStamp_server_ahead`**. `sync_status_offline` promises that it
    answers `NoChanges` if the collection is clean (`status.rs:15`). It compares
    the collection's stamp with that of the last sync (`timestamps.rs:13-15`),
    which is the server's clock (`finish.rs:12`, `:32`), and a sync accepts
    clocks that are up to five minutes apart (`status.rs:51-54`). With a server
    that is ahead, what is changed before the client's clock has caught up has
    the smaller stamp, and the check sees no change
    (`OfflineStatusSeesChanges`). Nothing is lost: the sync itself, and the
    status check that asks the server, compare stamps for equality
    (`compared_to_remote`). `UnsyncedChangesAreStamped` says exactly this: a
    stamp that differs, and is hidden from the check on the client between
    `synced.at` and `synced.mod` at most.
13. **`ExamStudy_half`**. At least half of the slots of the ranking for the exam
    day are reserved for due cards, according to the docstring and a comment
    (`pylib/anki/cfa.py:359`, `:399`). The code reserves `limit // 2` (`:400`),
    for an odd limit less than half, and for a limit of one none: a new card
    takes the only place from a due one (`DueGetHalf`). `DueKeepHalf`, which
    holds, is about the half rounded down.

More are seen by changing the constants of a run that is there:

* The deck tree unburies cards on a new day in no transaction and leaves queues
  that were already built for the day (`decks/tree.rs:267`). With `CardsAtStart
  <- OneBuried` and `LearningCardsQueued` in `StudyQueues_learning.cfg`, that
  fails.
* The learning queue is ordered by "has reps" first (`queue/learning.rs:22`), so
  that a studied card previewed again goes before a new one although its due
  time was set behind it. With `CardsAtStart <- NewAndStudied` and `PreviewCards
  = {a, b}` in the same file, `RequeuedBehindNext` fails.
* A tie between two devices' reviews of one card is decided by the reviews in
  the same chunk (`chunks.rs:165`). If the review travels in another chunk than
  its card, each side keeps its own card, and as the counts agree the sync
  succeeds; `sync/collection/tests.rs:355-356` promises that the more recent
  review wins. With `Cards = {101, 102}`, `Initial = {101, 102}`, `Notes = {}`,
  `OpKinds = {"review"}`, `SecondLength = 100`, `MaxClock = 7` and
  `AgreeAtSanity` for the properties in `CollectionSync_full.cfg`, which has
  `TiedEdits`, that fails. The real chunk holds 250 objects, one of each kind
  per round, so that it takes a client with more reviews than cards to send, or
  the reverse.
* Two clocks may show the same millisecond. A change that is stamped with the
  very stamp the last sync had from a server ahead is not even seen by the sync,
  which compares for equality: `ModificationStamp_tied`, with `TiedStamps`,
  finds `UnsyncedChangesAreStamped` violated.
* Each of the other `Faults` of MediaSync breaks a property of `MediaSync.cfg`.
  `busy`: a folder that is changed while it is synced has changes that are never
  scanned (`syncer.rs:175`), and a row that changed during its upload is marked
  clean (`:238`). `unsynced`: a file deleted that the server never had counts as
  sent but takes no number, as in 11. `half_upload`, `half_delete`: the server
  rolls its table back, but not the files it has written or removed.
  `half_download`: a file that a sync has replaced before it was cut short, by
  its user or because another file of the batch has meanwhile been deleted on
  the server, is not scanned again, as the folder's time does not change, so
  that its row stands for contents it no longer has.
* The report of empty cards may be old when the dialog acts on it: with
  `StaleReports = TRUE` in `Notes.cfg`, `EmptyCardsLoseNothing` fails.
* Days that are not equally long (a change of the clock, or of the rollover
  hour) are not the days that `graded_reviews_by_card` counts back in whole
  ones: with `FirstDay = 4` in `ExamStudy.cfg`, `EvidenceCountedOnce` fails.

Noted while modelling, and left in the models as the code has them:

* Two devices that meet with decks of one name each append `+` to the other's,
  so that they end up with different names
  (`sync/collection/changes.rs:274-289`); a merged filtered deck may have
  children, which nothing repairs; `check_missing_deck_ids` looks at the deck of
  a card but not at its home deck; `check_filtered_cards` takes a card's home
  away without restoring its due value or queue.
* `reparented_name` compares strings by prefix, so that dropping `a::b` on
  `a::bc` does nothing; importing below a filtered deck whose name differs in
  case fails.
* `resolve_notetype_conflicts` reorders the target's notes by the layout of the
  other notetype; the properties of `Notes` therefore speak of merged packages
  only if they are laid out like the target (`aligned`). Removing a template can
  leave a note without a card until the database check.
* The exam queue takes cards that other filtered decks hold, or that are buried,
  and when they fill it there is nothing to study; `ReviewIsReached` excludes
  that case. `build_exam_queue_all_decks` documents that cards in filtered decks
  are left out, but the study decks are children of `CFA` and are searched.

The passing runs leave out the cause of these: `StudyQueues_siblings` has one
preset and neither `PersistAttempt` nor `DeckTree`, `StudyQueues_learning`
starts with no buried card and previews only a studied one,
`ModificationStamp_tracked` has neither `SkipUndo` nor `TiedStamps`, the
instances of `CollectionSync` have neither `Overlap` nor two cards, and
`TiedEdits` only in the one that checks types and that syncs end, `MediaSync`
has no `Faults` and one file that is deleted (`MediaSync_busy`, which is not one
of the runs, has four of them and two, for the properties that hold then), the
cards of `Decks` have positions other than 0, and days are equally long in
`ExamStudy`. Leaving out `TiedEdits` leaves out as well that two devices which
edit a note or a deck in the same second each keep their own version: that
follows from comparing seconds, and the code does not claim to settle it.

## 5. What is proved

For every set of rows, values, clients, objects and files, every kind of
operation and every bound; the runs show the same properties on small instances.

| Module | Theorem | Statement |
|---|---|---|
| `Transactions_proofs` | `TypeCorrect` | `Spec => []TypeOK`; in particular the history never exceeds its limit |
| | `StepAccountsCorrect` | `Spec => []StepAccountsForChanges` |
| | `RevertProgressCorrect` | `Spec => []RevertProgress` |
| | `UndoRestoresRows` | `Spec => []UndoRestores`: when the last change of a step is reverted, its rows have the values from before it and no other row has moved |
| | `CountersCorrect` | `Spec => []CountersIdentifySteps` |
| | `StepsShaped` | `Spec => []ShapeInv`: which steps begin or end with a stamp |
| | `HistoryImplemented` | `Spec => ImplementsHistory`: Transactions implements UndoHistory |
| `ModificationStamp_proofs` | `StampsTypeCorrect` | `StampSpec => []StampTypeOK` |
| | `VersionsSound` | without `SkipUndo` and `TiedStamps`, `StampSpec => []StampInv`: a line of versions, with the server's clock ahead or behind |
| | `UnsyncedStamped`, `UnsavedStamped` | ... no change is hidden from sync or backup, nor from the check on the client but for the time a server was ahead |
| `CollectionSync_proofs` | `CollectionsTypeCorrect` | `Spec => []TypeOK`; the server never stores a pending usn |
| | `SyncsSound` | without `Overlap` and `TiedEdits`, `Spec => [](TypeInv /\ SyncInv)` |
| | `SyncAgrees` | ... `Spec => []AgreeAtSanity`: both sides agree at the end of a sync |
| | `NumbersHonest` | ... `Spec => []SeenUpToUsn` |
| | `DeletionsFinal` | ... `Spec => []DeletedStaysDeleted` |
| | `NewestVersionWins` | ... `Spec => NewestWins`, an action property |
| `MediaSync_proofs` | `MediaTypeCorrect` | `Spec => []TypeOK`, with the server's count of its files, under all `Faults` |
| | `MediaSound` | with neither `half_upload` nor `half_delete` among the `Faults`, `Spec => [](TypeOK /\ MediaInv)` |
| | `DeletionsAreUsers` | ... `Spec => OnlyUserDeletionsAreUploaded`, an action property |
| | `BatchesAreAccountedFor` | ... `Spec => RowsPassedAreAccountedFor`, an action property: no row of the server's is passed over when a batch is recorded |
| `StudyQueues_proofs` | `TypeCorrect` | `Spec => []TypeOK` |
| | `NoDuplicates` | `Spec => []NoDuplicateEntries`: no card is queued twice |
| `Decks_proofs` | `UniqueNames` | `Spec => []NamesUnique`: no two decks have the same name, on any device, whatever is done, merged or repaired |
| | `TreeWhole` | `Spec => []TreeSound`: the parents of every deck are there, spelled as in its name |
| | `HomeAgain` | if no card begins with due value 0, `Spec => []CardsReturnHome` |
| | `LostWithTheirHome` | `Spec => CardsGoWithTheirHome`, an action property |
| | `RepairsHold` | `Spec => []CheckRepairs`: what a database check leaves |
| `ExamStudy_proofs` | `ExamTypeCorrect` | `Spec => []TypeOK`: cards know the way home, and were answered when they say |
| | `ScoresKept` | if no card lives in the built-in deck, `Spec => []StudyDecksKeepScores` |
| | `EvidenceCounts` | with days of equal length, `Spec => []EvidenceCountedOnce` |
| | `ReviewReached` | `Spec => []ReviewIsReached`: studying by priority ends with something to review, unless cards that cannot be studied fill the queue |
| | `DueKept` | `Spec => []DueKeepHalf`: how due and new cards share the ranking for the exam day, half of the places rounded down |

*Assumptions*: those the modules declare (`ASSUME`): `UndoLimit` is a positive
number, `ConfigKeys` are rows, the kinds are the known ones, the server is no
client, clients, objects and files are finitely many, no object is of two kinds,
chunks, batches and seconds are not empty, the cards of a review session start
in states that cards can be in, exam topics are finitely many and each names
something (no tag matches an empty prefix), a new collection and a package have
finitely many decks under different names, the parents of a deck of a new
collection are normal decks of it, the cards of a collection are finitely many
and start in a normal deck, the bounds are numbers. The bounds only restrict
guards; the proofs hold for any. What a theorem assumes beyond that is in its
`ASSUME`, and each such hypothesis is the absence of something section 4
describes, with the configuration or the constants for which TLC finds the
statement violated.

### Undo and transactions

* `TypeInv` is `TypeOK` and "`left` does not exceed the changes of the step
  being reverted", without which the next change to revert would not exist. The
  hard part is `JoinedChanges`, the recursive function that concatenates the
  changes of merged steps. That it is a sequence of changes needs an induction
  over the number of steps, made by hand from the least counterexample
  (`LeastNatural`), since the library's induction rule takes an operator.
* `StepAccountsForChanges` and `RevertProgress` are inductive relative to
  `TypeInv`. For the first, appending a change (`AppendAccounts`) either touches
  a row that is already recorded, and the first record of it stays, or records
  the value at the savepoint. For the second, reverting change `left` moves the
  boundary of what is reverted by one (`OneMorePutBack`).
* `UndoRestoresRows` is `RevertProgress` at `left = 0`.
* `CountersIdentifySteps` is not inductive: the open step's counter must be the
  manager's own and above those of all steps. `OrderInv` adds that, and that an
  idle collection has no open step, so that no merge can set the counter back
  under one. While a step that was undone is reverted, its slot is already
  removed, which keeps the order (`PopUndoCounters`).

### The abstract history

* A commit maps to `Do`, to `DoJoined` if it was coalesced, or to `DoUntracked`
  or `DoForgetting` if it left no step; the end of an undo or redo to `Undo` or
  `Redo`; a merge to `Merge`. Writes and reverts in between are stutters,
  because `CommittedRows` looks at the savepoint, and a failure is a stutter or
  a `Forget`: it changes no rows, but the code discards the history. The proof
  has one lemma for each, over the pre-image of a list of changes (the *first*
  recorded value of each row, `FirstOld`).
* Undo puts the pre-image back by `UndoRestores`, and the step that it leaves
  for redo has the right pre-image by `StepAccountsForChanges`: the refinement
  rests on the invariants above.
* What is missing is that an undo is never *coalesced*. The end of every
  transaction, that of an undo or redo too, drops the open step if it and the
  newest kept step are recent edits of one note. A redone edit may well be
  coalesced so, which loses nothing, since the step before it has the older
  pre-image; for an undone one the step for redo would be lost. `ShapeInv` shows
  that it cannot happen: a step that can be undone ends with the change of the
  collection's stamp, one that can be redone begins with it, as reverting turns
  the order round; and the code only takes a step for an edit whose changes are
  a note and then the stamp.
* A merge joins any number of steps, and its abstract counterpart keeps, for
  each row, the earliest pre-image. That the two are the same is again an
  induction by the least counterexample, over the steps joined.

### Stamps

* `UnsyncedChangesAreStamped` speaks of the present; the steps in the history
  will one day be undone, and coalesced and merged before. `TimelineInv` says
  that there is a table of *versions*, one set of rows for each stamp, such that
  the collection holds the version that its stamp names, each step that can be
  undone or redone leads from one version to another together with their stamps
  (`Leads`), and all of them have one of the `Stamps` given since the last sync:
  the server's, or a later moment of the client's clock. Then an equal stamp
  means equal rows, for sync and backup alike; and a stamp that is not newer
  than the last sync's is of the time between that sync and the server's stamp.
* No order between the server's stamp and the client's is assumed, only that
  none is given twice (`~TiedStamps`). A finished operation extends the table at
  a stamp that names nothing yet (`LineFinishes`); an undo moves along the line;
  a coalescing or a merge cuts out a version between two steps; a sync discards
  the history, and the line begins anew at its stamp (`LineFinishesSync`).
* `SkipUndo` is the only operation that breaks the line, as it leaves rows whose
  way back is not in the history (`ModificationStamp_skip_undo`).

### Collection sync

* `TypeInv` adds to `TypeOK` what the chunks need (`ListsInv`): the ids listed
  for them are those of objects that are there, and nothing is listed before the
  chunks begin. The server's collection has usns that are numbers, never the
  pending -1, which only holds because a client stamps what it sends.
* `SyncInv` has what holds between syncs and what holds in one, in the five
  parts that follow.
* `QuietInv`: who is in no sync has what is on disk, and a sync moves no stamp
  before its end.
* `VersionsInv`: versions of an object that differ lie in different seconds, so
  that comparing seconds finds the newer one. `TiedEdits` is what breaks that.
* `DeletedInv`: no object is at a party that has its grave.
* `KnownInv`: the client has what the server holds below the client's number, or
  a newer version of its own that is pending; and what the client does not hold
  as pending, the server has seen. `SeenUpToUsn` follows.
* `SessionInv`: the stages of a sync. What has been exchanged agrees (graves,
  then decks and notetypes, then what the chunks have brought), what has not is
  still in a list of ids, and everything the server takes over carries a usn
  that other clients will ask for (`ServerMoved`). At the last stage, `AllSent`,
  nothing is left, which is `AgreeAtSanity`.
* One lemma per request shows that it leads from its stage to the next,
  whichever of the two sides has the newer version; `KnownInv` after `Finish`
  follows from the last stage. A client that is not in the sync keeps `KnownInv`
  because the server's new entries have its current usn, and the client's number
  is at most that; `Overlap` is what breaks this (`CollectionSync_overlap`).
* A lost answer to the last request (`LoseFinish`) leaves the client with its
  old number and its changes pending, which `KnownInv` allows; the next sync
  sends them again.

### Media sync

* The types, and that the server's count is the number of files it lists, hold
  whatever fails. The count moves by one with each row that is registered, and
  rows are registered in one transaction for a batch (`RegisterAll`).
* `MediaInv` says of the server that its folder is what its rows say
  (`ServerInv`), so that it never has to forget a row because the file is
  missing; and of each client what follows. None of it speaks of a folder that
  has been scanned, so that users, and other programs, may change any file at
  any time.
* `GoneInv`: a file that has a row and is not in the folder was deleted by its
  user. `MarkedInv`: a row that looks like a deletion and is none is a mark of
  the trash, and the server has a row for it that the client has yet to fetch or
  that is in the batch being downloaded; once changes are sent there is none.
  `OnlyUserDeletionsAreUploaded` is both of these at the upload.
* `DownloadInv`: of each row in the batch that has not moved on at the server,
  something is decided (`Decided`): to download it, to delete it, to take what
  is waiting for clean, or nothing since it is in the table already or the
  user's change goes first. A row that has moved on has a number above the
  batch's. `RowsPassedAreAccountedFor` is this when the batch is recorded: the
  client will never ask for those rows again. Only "clean" may be out of date by
  then, with a file that the user changes while others are downloaded (`busy`,
  section 4), which the property says.
* The hypothesis of both: with `half_upload` or `half_delete` the server's
  folder is no longer what its rows say, and it drops a row whose file is
  missing when a client asks for it. With `Deletable = {1}`, `Faults =
  {"half_delete"}`, four changes, two failures, `OneContent` and this property
  alone in `MediaSync.cfg`, TLC finds `OnlyUserDeletionsAreUploaded` violated.
  `busy`, `unsynced`, `as_before`, `half_download` and the number of files that
  are deleted do not matter to either, and `MediaSync_busy` checks them with all
  of these.

### Study queues

* `NoDuplicateEntries` speaks of the queues as they are; what undo and redo put
  back was recorded when it was taken out. The invariant `Sound` therefore says
  three things of the collection: the history is of the right shape
  (`GoodHistory`), the queues are distinct (`Distinct`), and they *agree* with
  the history (`Agrees`).
* `Agrees` speaks of the queue changes of the present build that the two stacks
  of steps hold. The card of a change that can be undone is not in the queues,
  but for the entry the change has requeued (`Absent`), and two changes about
  the same card only follow each other when the older one has requeued it
  (`Follows`). So each undo inserts a card that is in no queue, and leaves the
  older changes in that condition; the same for redo.
* An answer that is undone reverts its changes one after the other, and in
  between the queues and the history disagree. What is left of the step then
  lies on top of one stack and what was recorded on top of the other.
  `RevertAll` is a recursive function over the changes of the step; that it has
  a solution is shown by the least number for which it has none
  (`RevertExists`), and what each position of it leaves in the same way.
* What breaks the agreement discards both sides of it: operations that do not
  update the queues clear them, and a build makes them from the cards, each of
  which it gathers once, under a number that no step remembers (`BuiltResult`).
  A change of the day discards the open step of an undo that is under way, after
  which the collection panics (section 4, item 3); then its mutex is poisoned
  and nothing is called any more. All that the invariant drops in that state is
  the mode of the undo manager (`Poisoned`).
* The strengthened invariant was first checked by TLC in the instances of
  `StudyQueues_learning` and `StudyQueues_siblings`.

### Decks

* `NamesUnique` only speaks of names, but the next state is that of a program:
  an operation is made of loops over decks or cards, each of which may look up,
  rename, add or remove decks at every turn, and may fail at any. So the
  invariant is a set, `Sound`, of collections: rows of the right form under ids,
  cards with the fields cards have, and names that differ. There is one lemma
  for each operator of the model, in the order of the module, which says that it
  leads from `Sound` to `Sound`; a failed collection is sound too.
* The loops are `FoldLeft` and `FoldSet` of the community modules. That such a
  fold has a value is shown by a smallest set for which it has none
  (`FoldExists`); what each turn keeps, the loop keeps (`LeftFoldKeeps`,
  `SetFoldKeeps`). The turn enters these lemmas as a TLA+ function on a set of
  collections, not as an operator, so that they can be cited.
* The order of a loop matters, as a deck may only take a name that the one
  before it has given up. That `InOrder` is a sequence of all elements in their
  order needs a total order (`EachPlaceTaken`, `OrderedPlaces`): for the names
  of decks as the database sorts them, this is `NameOrder`, from the order of
  suffixes and of components up.
* `UniqueName` is free: of the name with 0, 1, ..., n pluses appended one must
  be, as n decks cannot have n + 1 names (`UniqueNameFree`). All other names
  that are given pass the unique index of the table in `UpdateRow` or `AddRow`,
  and what they would break fails the operation instead. What needs an argument
  is where a row is written without either: decks that are removed
  (`WithoutDecks`), what a sync stores (`MergeDecksSound`) and what it copies
  whole (`SyncedSound`).
* The invariant of the specification, `IInv`, is that each device's collection
  is `Sound`; that it is also `Homely` and `Whole` until a sync has merged
  another one into it; and that it is `Repaired` right after a check. The five
  theorems follow from it or from its preservation (`NextPreserves`).
* `Homely` says of each card that it is in a normal deck, or in a filtered one
  with its home deck in the collection (`Housed`), and, if no card begins with
  the due value 0, that it has or keeps aside the due value it started with
  (`Kept`). Not every turn of a loop keeps the first half: while a deck is being
  removed its cards are taken out one by one. So there is one relation between
  the collection before an operation and after it for each way to touch cards:
  decks are added and cards are left alone (`Extends`), the cards of a set are
  changed one after the other and each is at home after it (`Filled`), and decks
  and cards are removed (`Sheds`, which is transitive, so that the removal of a
  tree is that of its decks one by one). Each of them gives `Keeps`: the result
  is homely, and cards that have gone had their home removed.
* `Whole` says that the parents of every deck are there (`TreeSound`). It is not
  kept by the turns of the loops: while a deck is renamed, what was below it has
  no parent, and while a tree is removed, neither have the decks that remain of
  it. So the lemmas say what a whole operation leaves (`Grows`). Adding a deck
  goes through parents that are missing, under a name that takes the spelling of
  those there are: as the tree is whole, the closest of them gives the spelling
  of all (`MatchedFits`), and once the others are there the tree is whole again
  (`TreeGrows`). A deck that moves takes what is below it along, and a parent
  that anything lacks after that is a parent of the new name (`MovedTree`): when
  the deck went below itself, its own old place is one of them, which is why
  `update_deck` creates parents once more after it has moved the deck. A deck is
  never dropped below itself, and the target stays where it is while several
  decks are dropped on it (`DropDeckWhole`). What a removed tree leaves is
  everything that was not below it, and its parents were not either (`Cut`,
  `RemoveTreeWhole`).
* The hypothesis of `HomeAgain` is the absence of what finding 7 of section 4
  describes: with a card whose due value is 0, in `Decks_first_card`, TLC finds
  `CardsReturnHome` violated. The other theorems about decks do not need it.
* `CheckRepairs` is established by the check whatever it finds. Missing decks
  are recovered first, so that the loop over the cards, which takes each as it
  finds it, sees every card in a deck. The loop that adds missing parents goes
  through the decks that there are when it starts: every deck it has passed has
  a parent (`LeftFoldGoes`, a statement about the places of a fold that are
  already behind it), and so has every deck that is added on the way, since its
  parents are added with it.

### The exam study

* `IInv` says of each card, on both devices, that it has the fields a card has,
  and that it *is at home or knows the way there* (`GoodCard`): its home, its
  own deck or the one kept aside, is what it was at first. It says that a card
  seen at some time was answered then (`Answered`), and that answers are of
  earlier moments (`GoodReviews`). `TypeOK` follows. A sync keeps it since it
  takes each card from one device and the answers of both.
* `StudyDecksKeepScores`: as study decks are in the tree of `CFA`, a card whose
  home is in that tree is in it wherever it is (`HomeInTree`), and the scores
  see no more of the cards than who is in scope and whether it was seen
  (`ScoresSeeScope`). The hypothesis is that no card lives in the built-in deck.
  Such a card can be studied by priority from that deck, is then in a deck below
  `CFA`, and counts there until it goes home; with a card of that kind in
  `ExamStudy.cfg` (`HomeOf`), TLC finds the property violated.
* `EvidenceCountedOnce` has two halves. In the database a review's day is a
  division that is shifted so that its dividend is positive; it gives the day of
  the review less that of the present, plus a constant (`ReviewDayIsDay`, from
  the bounds that the rollovers set), so that two reviews fall on one day by
  either count or by neither (`GradedReviewsAreDays`, a bijection). The total
  over the cards is a fold over a set, which is the recursive function of the
  community module; that it is the size of the union of what the cards
  contribute holds because these are disjoint (`SizesAddUp`, by a smallest
  subset for which it fails). Days of unequal length are the hypothesis that is
  left out here (section 4).
* `ReviewIsReached` and `DueKeepHalf` are about the first elements of a sorted
  sequence. That sorting gives a sequence of all elements, in order and each
  once, follows for any total order, given as a set of pairs, from the number of
  elements before each one: a smaller element has fewer (`PlacesDiffer`), and so
  the numbers 0 to n - 1 are all taken (`EachPlaceTaken`, `OrderedPlaces`). The
  orders of the code are total since ids break ties (`NumbersInOrder`,
  `ScoreOrder`, `WeaknessOrder`).
* For `ReviewIsReached`: the queue of a deck is cards in its scope, as many as
  fit or all of them (`QueueOfCards`), and so is that of all decks, so that with
  fewer cards in scope that cannot be studied than the queue has places, one
  that can is in it (`ExamQueueReaches`). A filtered deck takes every card of
  the queue that it can hold and gives it a due value below zero, which is due
  on any day (`FilledDeck`).
* For `DueKeepHalf`: the due cards get half of the places, or are all there
  (`Shares`); the rows are the first due ones, then the first new ones, none
  twice (`RowsShared`); putting them in order leaves the same rows
  (`SortedRows`); and a due card that is ranked stood before any that is not
  (`RankedRows`).

### Only model-checked

* `SyncEnds` of CollectionSync and `EventuallyAgree` of MediaSync: liveness
  under fairness, which the proof system does not reach.
* `FolderMatchesUpToUsn` of MediaSync. The code breaks it with any of the
  `Faults`, and with two files that are deleted (section 4), so that a theorem
  would have to assume that users do nothing during a sync and delete one file
  in all. What holds without that is proved as `BatchesAreAccountedFor`.
* Of `StudyQueues`, the counts (`CountsMatchEntries`), that entries are as fresh
  as their cards (`EntriesFresh`), that learning cards are queued
  (`LearningCardsQueued`) and the action properties. They relate an entry to the
  card it was made of, so that a step in the history would have to be followed
  through all of the older ones, with the cards as they were then.
* Of `Decks`, the bounds in its type invariant and that no deleted object is
  there; the part about rows is `Sound` in the proofs.
* `Notes`. Its operations are nested folds over sequences of notes, templates
  and fields, and its invariants speak of what a whole fold leaves.
* That the recursive functions compute what they should for all inputs, beyond
  what the proofs above need of them.

## 6. What the models leave out

* **Backend and dbproxy** (transactions of Python around operations, caches),
  **deck limits**, the **CFA** internal state and the **AI client**: planned,
  see below.
* In ModificationStamp: a clock of the client's that goes backwards, as when the
  user or the network sets it; the rest of a sync, and changes of the schema.
* In StudyQueues: daily limits are taken as large, the load balancer and
  fetching several cards are left out, and so are relearning, rescheduling
  filtered decks, deck statistics and revlog rows, which do not move entries.
  Time zones are days of equal length, and the clock never goes backwards.
* In CollectionSync: tags; names that must be made unique (in Decks); a notetype
  whose fields or templates differ, which makes the client ask for a full sync;
  notes and cards that refer to one another (a note without its notetype fails
  the sync, as `Fail`); undo, and unburying for a new day at the start of a
  sync, which are other edits; the creation stamp, which goes with the
  configuration; clocks that differ between devices (they are in
  ModificationStamp; a sync refuses more than five minutes); the size limit; old
  protocol versions. The failed sanity check is modelled, but no instance
  reaches it.
* In MediaSync: names that are normalised or hashed, files that are too large or
  empty, two changes within the resolution of the file system's clock, restoring
  from the trash, and the media check, which finds references in notes.
* In Decks: presets and limits, normalisation of names, the order and limits of
  searches, answers in a rescheduling filtered deck (in ExamStudy), and the
  second search.
* In Notes: cloze notetypes, templates with conditions on several fields, names,
  sort fields and tags, references to media, scheduling data and review logs of
  imported cards, and fields without an id, as old versions made them.
* In ExamStudy: the numbers of FSRS, the Bayesian readiness and its intervals,
  multipliers for the type of a card and for urgency, seeding of the decks,
  preview decks, learning ahead, and the sync of the exam weights, which are
  common to both devices.
* Intervals, FSRS, text processing, rendering, statistics and I/O are numeric or
  formatting code: for the most part functions from values to values, without an
  order of steps to get wrong.

## 7. Plan

Done: UndoManager, UndoHistory, Transactions, ModificationStamp, CollectionSync,
MediaSync, StudyQueues, Decks and ExamStudy, with proofs; Notes.

Next, in this order:

1. `Backend`: calls from several threads, SQL transactions from Python around
   operations, caches and rollback, poisoning, the cached sync status.
2. `Reviewer`: web-view storage and callbacks, custom scheduling data; composes
   StudyQueues' view of a card with the ethics attempt.
3. `DeckLimits`: the limit tree as operators checked against a reference
   definition.
4. `InternalState` and `SpendingCap`: the rest of the CFA layer.
5. An abstract specification of sync, replicas of versioned objects that take
   over the newest version, implemented by CollectionSync between syncs.

Theorems planned: the types of Decks and Notes, the freshness of queue entries;
and `NewestWins` of CollectionSync for the abstract specification of item 5.
