---- MODULE MediaSync ----
(* Media sync: every client keeps its media folder, and a table of the files it
   has registered in it, in step with the server's by update sequence numbers
   (rslib/src/sync/media, rslib/src/media and http_server/media_manager).
   Times of modification are kept as what they are compared for: `seen` says
   that the folder's time is the one in the table's meta row, `fresh` that a
   file's time is the one in its row. *)
EXTENDS Naturals, FiniteSets

CONSTANTS Clients, Files, Contents, Absent,
          BatchSize,      \* rows of one answer to media_changes (1000 in the code)
          ZipFiles,       \* MAX_MEDIA_FILES_IN_ZIP (25 in the code)
          Deletable,      \* the files users delete
          Faults,         \* what may go wrong beside lost requests: see below
          MaxEdits, MaxFailures

VARIABLES clients, server, edits, failures
vars == <<clients, server, edits, failures>>

ASSUME MediaAssumption ==
  /\ Files \subseteq Nat /\ IsFiniteSet(Files) /\ Deletable \subseteq Files
  /\ DOMAIN Contents = Files /\ \A f \in Files : Absent \notin Contents[f]
  /\ BatchSize \in Nat \ {0} /\ ZipFiles \in Nat \ {0}
  /\ Faults \subseteq {"busy", "unsynced", "as_before", "half_upload",
                     "half_delete", "half_download"}
  /\ MaxEdits \in Nat /\ MaxFailures \in Nat

(* Users may change a folder while it is synced (busy), delete files that were
   never uploaded (unsynced), and change files and bring them back to what the
   server had from the last sync (as_before); the server may fail with some files of an upload
   written (half_upload) or only removed (half_delete), and a client with files
   downloaded but not yet recorded (half_download). *)

Data == {Absent} \cup UNION {Contents[f] : f \in Files}
\* Files with what is known of them; one table laid over another.
NoFiles == [f \in {} |-> Absent]
Just(f, v) == [g \in {f} |-> v]
Over(data, base) ==
  [f \in DOMAIN data \cup DOMAIN base |-> IF f \in DOMAIN data THEN data[f] ELSE base[f]]
Idle == [pc |-> "idle"]

\* A row of the client's table, and one of the server's.
MediaEntry(sha1, required, fresh) == [sha1 |-> sha1, sync_required |-> required, fresh |-> fresh]
ServerEntry(sha1, usn) == [sha1 |-> sha1, usn |-> usn]

Init ==
  /\ clients = [c \in Clients |-> [disk |-> [f \in Files |-> Absent], seen |-> FALSE,
                                   db |-> NoFiles, usn |-> 0, gone |-> {}, sync |-> Idle]]
  /\ server = [disk |-> [f \in Files |-> Absent], entries |-> NoFiles, usn |-> 0, count |-> 0]
  /\ edits = 0 /\ failures = 0

----------------------------------------------------------------------------
(* The folder and its table. *)

Sha1(cl, f) == IF f \in DOMAIN cl.db THEN cl.db[f].sha1 ELSE Absent
Pending(cl) == {f \in DOMAIN cl.db : cl.db[f].sync_required}

\* A file that is written or removed no longer has the time in its row; the
\* folder's time changes with the set of its files, not with their contents.
Stale(cl, S) ==
  [f \in DOMAIN cl.db |-> IF f \in S THEN [cl.db[f] EXCEPT !.fresh = FALSE] ELSE cl.db[f]]
OnDisk(disk) == {f \in Files : disk[f] # Absent}
SetFiles(cl, data) ==
  LET disk == Over(data, cl.disk) IN
  [cl EXCEPT !.disk = disk, !.db = Stale(cl, DOMAIN data),
             !.seen = cl.seen /\ OnDisk(disk) = OnDisk(cl.disk)]

\* Faulty variant: a changed file keeps the flag of its row.
RescannedKeepingFlag(cl, f) ==
  IF cl.disk[f] # Absent /\ Sha1(cl, f) # Absent
  THEN MediaEntry(cl.disk[f], cl.db[f].sync_required, TRUE)
  ELSE IF cl.disk[f] = Absent THEN MediaEntry(Absent, TRUE, FALSE)
  ELSE MediaEntry(cl.disk[f], TRUE, TRUE)
\* What the scan of the folder makes of a file: changed and new ones are hashed.
Rescanned(cl, f) ==
  CASE cl.disk[f] = Absent /\ Sha1(cl, f) # Absent -> MediaEntry(Absent, TRUE, FALSE)
    [] cl.disk[f] = Absent /\ Sha1(cl, f) = Absent -> cl.db[f]
    [] cl.disk[f] # Absent /\ Sha1(cl, f) # Absent /\ cl.db[f].fresh -> cl.db[f]
    [] OTHER -> MediaEntry(cl.disk[f],
                           Sha1(cl, f) = cl.disk[f] => cl.db[f].sync_required, TRUE)
RegisterChanges(cl) ==
  IF cl.seen THEN cl
  ELSE [cl EXCEPT !.seen = TRUE, !.gone = cl.gone \ OnDisk(cl.disk),
                  !.db = [f \in DOMAIN cl.db \cup OnDisk(cl.disk) |-> Rescanned(cl, f)]]

\* A change made by the program leaves a table that was in step with the folder
\* in step with it.
KeepSeen(cl, before) == [cl EXCEPT !.seen = before.seen]

\* Moving files to the trash stops at the first one that is not there, after
\* those that are `moved`; the rows of all of them become deletions to be uploaded.
Present(cl, S) == {f \in S : cl.disk[f] # Absent}
TrashFiles(cl, S, moved) ==
  LET trashed == SetFiles(cl, [f \in moved |-> Absent])
      rows == [f \in S \cap DOMAIN cl.db |-> MediaEntry(Absent, TRUE, FALSE)]
  IN KeepSeen([trashed EXCEPT !.db = Over(rows, trashed.db)], cl)

----------------------------------------------------------------------------
(* The user: adding and removing files through the program, which keeps the
   table in step, and any other change to the folder, which does not. *)

MayEdit(c) == edits < MaxEdits /\ ("busy" \in Faults \/ clients[c].sync = Idle)
Edit(c, cl) ==
  /\ edits' = edits + 1 /\ clients' = [clients EXCEPT ![c] = cl]
  /\ UNCHANGED <<server, failures>>
\* Whether a file would be as the server lists it and the client knows of that.
AsBefore(c, f, data) ==
  /\ f \in DOMAIN server.entries
  /\ server.entries[f].usn <= clients[c].usn /\ server.entries[f].sha1 = data
MayWrite(c, f, data) ==
  AsBefore(c, f, data) => "as_before" \in Faults \/ Sha1(clients[c], f) = data
MayDelete(c, f) ==
  /\ f \in Deletable /\ ("unsynced" \in Faults \/ f \in DOMAIN server.entries)
  /\ AsBefore(c, f, Absent) => "as_before" \in Faults

AddFile(c, f, data) ==
  LET cl == clients[c]
      added == SetFiles(cl, Just(f, data))
      row == IF Sha1(cl, f) = data THEN NoFiles ELSE Just(f, MediaEntry(data, TRUE, FALSE))
  IN /\ MayEdit(c) /\ cl.disk[f] = Absent /\ MayWrite(c, f, data)
     /\ Edit(c, KeepSeen([added EXCEPT !.db = Over(row, added.db), !.gone = cl.gone \ {f}], cl))

\* In whatever order the names are given.
RemoveFiles(c, names) ==
  LET cl == clients[c] IN
  /\ MayEdit(c) /\ names # {} /\ \A f \in names : MayDelete(c, f)
  /\ \E moved \in SUBSET Present(cl, names) :
       /\ Present(cl, names) = names => moved = names
       /\ Edit(c, [TrashFiles(cl, names, moved) EXCEPT !.gone = cl.gone \cup names])

\* Another program replaces a file, or puts a new one there; or it deletes one.
WriteOutside(c, f, data) ==
  /\ MayEdit(c) /\ clients[c].disk[f] # data /\ MayWrite(c, f, data)
  /\ Edit(c, [SetFiles(clients[c], Just(f, data)) EXCEPT !.seen = FALSE])
DeleteOutside(c, f) ==
  /\ MayEdit(c) /\ MayDelete(c, f) /\ clients[c].disk[f] # Absent
  /\ Edit(c, [SetFiles(clients[c], Just(f, Absent)) EXCEPT !.gone = clients[c].gone \cup {f}])

----------------------------------------------------------------------------
(* The server. *)

Listed(srv, f) == f \in DOMAIN srv.entries /\ srv.entries[f].sha1 # Absent

\* Faulty variant: a replaced file is counted again.
NewlyListedCountingAgain(srv, zip) == {f \in DOMAIN zip : zip[f] # Absent}
\* register_uploaded_change for each file of a zip in turn, and the file that goes
\* with it. What the server has already is passed over and takes no number.
ServerSha1(srv, f) == IF f \in DOMAIN srv.entries THEN srv.entries[f].sha1 ELSE Absent
Registered(srv, zip) == {f \in DOMAIN zip : zip[f] # ServerSha1(srv, f)}
NewlyListed(srv, zip) ==
  {f \in Registered(srv, zip) : zip[f] # Absent /\ ~Listed(srv, f)}
RegisterAll(srv, zip) ==
  LET new == Registered(srv, zip)
      usn(f) == srv.usn + Cardinality({g \in new : g <= f})
      removed == {f \in new : zip[f] = Absent}
  IN [disk |-> Over([f \in new |-> zip[f]], srv.disk),
      entries |-> Over([f \in new |-> ServerEntry(zip[f], usn(f))], srv.entries),
      usn |-> srv.usn + Cardinality(new),
      count |-> (srv.count + Cardinality(NewlyListed(srv, zip))) - Cardinality(removed)]

\* The rows after a number, in the order of the index on it, up to a limit; and
\* the number of the last of them.
ChangesChunk(srv, usn) ==
  LET newer == {f \in DOMAIN srv.entries : srv.entries[f].usn > usn} IN
  {f \in newer : Cardinality({g \in newer : srv.entries[g].usn < srv.entries[f].usn}) < BatchSize}
LastUsn(srv, batch) ==
  CHOOSE usn \in {srv.entries[f].usn : f \in batch} : \A f \in batch : srv.entries[f].usn <= usn

ForgetMissingFile(srv, f) ==
  [srv EXCEPT !.entries = [g \in DOMAIN srv.entries \ {f} |-> srv.entries[g]],
              !.count = srv.count - 1]

----------------------------------------------------------------------------
(* A sync, one action per request or transaction; `acted` is actions_performed. *)

Continue(c, cl) == clients' = [clients EXCEPT ![c] = cl]
At(c, pc) == clients[c].sync.pc = pc
SendFrom(acted) == [pc |-> "send", acted |-> acted]

\* The folder is scanned, and the server asked for its number.
StartSync(c) ==
  LET cl == RegisterChanges(clients[c]) IN
  /\ At(c, "idle")
  /\ Continue(c, [cl EXCEPT !.sync = IF cl.usn = server.usn THEN SendFrom(FALSE)
                                     ELSE [pc |-> "fetch", usn |-> cl.usn]])
  /\ UNCHANGED <<server, edits, failures>>

RequiredChange(cl, f, remote) ==
  LET local == Sha1(cl, f) IN
  CASE local = Absent /\ remote = Absent -> IF f \in DOMAIN cl.db THEN "Delete" ELSE "None"
    [] local = Absent /\ remote # Absent -> "Download"
    [] local # Absent /\ remote = Absent -> IF f \in Pending(cl) THEN "None" ELSE "Delete"
    [] local # Absent /\ local = remote -> IF f \in Pending(cl) THEN "RemovePending" ELSE "None"
    [] OTHER -> "Download"

\* A batch of rows decides what happens to each file; deletions come first.
FetchChanges(c) ==
  LET cl == clients[c]
      batch == ChangesChunk(server, cl.sync.usn)
      to(change) == {f \in batch : RequiredChange(cl, f, server.entries[f].sha1) = change}
      before(f) == {g \in to("Delete") : server.entries[g].usn <= server.entries[f].usn}
      moved == {f \in to("Delete") : Present(cl, before(f)) = before(f)}
  IN /\ At(c, "fetch")
     /\ Continue(c, IF batch = {} THEN [cl EXCEPT !.sync = SendFrom(TRUE)]
          ELSE [TrashFiles(cl, to("Delete"), moved) EXCEPT
                  !.sync = [pc |-> "download", usn |-> LastUsn(server, batch),
                            todo |-> to("Download"), deleted |-> to("Delete"),
                            clean |-> to("RemovePending"), added |-> NoFiles]])
     /\ UNCHANGED <<server, edits, failures>>

\* A file the server lists but cannot find is forgotten; that, like a file it
\* no longer lists, ends the sync.
DownloadFiles(c) ==
  LET cl == clients[c] IN
  /\ At(c, "download")
  /\ \E S \in SUBSET cl.sync.todo :
       /\ S # {} /\ Cardinality(S) <= ZipFiles
       /\ Cardinality(S) < ZipFiles => S = cl.sync.todo
       /\ LET lost == {f \in S : Listed(server, f) /\ server.disk[f] = Absent}
              data == [f \in S |-> server.disk[f]]
          IN CASE \E f \in S : ~Listed(server, f) ->
                    Continue(c, [cl EXCEPT !.sync = Idle]) /\ UNCHANGED server
               [] (\A f \in S : Listed(server, f)) /\ lost # {} ->
                    /\ Continue(c, [cl EXCEPT !.sync = Idle])
                    /\ \E f \in lost : server' = ForgetMissingFile(server, f)
               [] OTHER ->
                    /\ Continue(c, [SetFiles(cl, data) EXCEPT !.gone = cl.gone \ S,
                         !.sync = [cl.sync EXCEPT !.todo = cl.sync.todo \ S,
                                                  !.added = Over(data, cl.sync.added)]])
                    /\ UNCHANGED server
  /\ UNCHANGED <<edits, failures>>

Cleaned(rows, S) ==
  [f \in DOMAIN rows |-> IF f \in S THEN [rows[f] EXCEPT !.sync_required = FALSE] ELSE rows[f]]

\* Faulty variant: the rows of removed files stay, marked as deletions.
RecordBatchKeepingRows(c) ==
  LET cl == clients[c]
      added == [f \in DOMAIN cl.sync.added |-> MediaEntry(cl.sync.added[f], FALSE, FALSE)]
  IN /\ At(c, "download") /\ cl.sync.todo = {}
     /\ Continue(c, [cl EXCEPT !.db = Over(added, Cleaned(cl.db, cl.sync.clean)),
                               !.usn = cl.sync.usn, !.seen = TRUE,
                               !.sync = [pc |-> "fetch", usn |-> cl.sync.usn]])
     /\ UNCHANGED <<server, edits, failures>>

\* The table takes the batch and its number, and the time the folder has by now.
RecordBatch(c) ==
  LET cl == clients[c]
      added == [f \in DOMAIN cl.sync.added |-> MediaEntry(cl.sync.added[f], FALSE, FALSE)]
      clean == Cleaned(cl.db, cl.sync.clean)
  IN /\ At(c, "download") /\ cl.sync.todo = {}
     /\ Continue(c, [cl EXCEPT !.db = Over(added, [f \in DOMAIN clean \ cl.sync.deleted |-> clean[f]]),
                               !.usn = cl.sync.usn, !.seen = TRUE,
                               !.sync = [pc |-> "fetch", usn |-> cl.sync.usn]])
     /\ UNCHANGED <<server, edits, failures>>

\* A file that has gone from the folder is uploaded as a deletion.
GatherUpload(c) ==
  LET cl == clients[c] IN
  /\ At(c, "send")
  /\ IF Pending(cl) = {}
     THEN Continue(c, [cl EXCEPT !.sync = IF cl.sync.acted THEN [pc |-> "sanity"] ELSE Idle])
     ELSE \E S \in SUBSET Pending(cl) :
            /\ S # {} /\ Cardinality(S) <= ZipFiles
            /\ Cardinality(S) < ZipFiles => S = Pending(cl)
            /\ Continue(c, [cl EXCEPT !.sync = [pc |-> "upload",
                 zip |-> [f \in S |-> IF Sha1(cl, f) = Absent THEN Absent ELSE cl.disk[f]]]])
  /\ UNCHANGED <<server, edits, failures>>

\* Whether a file goes that is in a batch which takes a client several downloads.
LosesDownload(d, srv) ==
  LET sync == clients[d].sync IN
  /\ At(d, "download") /\ Cardinality(sync.todo \cup DOMAIN sync.added) > ZipFiles
  /\ \E f \in sync.todo : ~Listed(srv, f)
UploadChanges(c) ==
  LET cl == clients[c]
      after == RegisterAll(server, cl.sync.zip)
  IN /\ At(c, "upload")
     /\ "half_download" \in Faults \/ \A d \in Clients : ~LosesDownload(d, after)
     /\ server' = after
     /\ Continue(c, [cl EXCEPT !.sync = [pc |-> "reply", files |-> DOMAIN cl.sync.zip, usn |-> after.usn]])
     /\ UNCHANGED <<edits, failures>>

\* Faulty variant: the client always takes the server's number.
RecordUploadTrusting(c) ==
  LET cl == clients[c] IN
  /\ At(c, "reply")
  /\ Continue(c, [cl EXCEPT !.db = Cleaned(cl.db, cl.sync.files), !.sync = SendFrom(TRUE),
                            !.usn = cl.sync.usn])
  /\ UNCHANGED <<server, edits, failures>>

\* The client takes the server's number only if its own files account for it.
RecordUpload(c) ==
  LET cl == clients[c] IN
  /\ At(c, "reply")
  /\ Continue(c, [cl EXCEPT !.db = Cleaned(cl.db, cl.sync.files), !.sync = SendFrom(TRUE),
       !.usn = IF cl.usn + Cardinality(cl.sync.files) = cl.sync.usn
               THEN cl.sync.usn ELSE cl.usn])
  /\ UNCHANGED <<server, edits, failures>>

ForceResync(cl) == [cl EXCEPT !.db = NoFiles, !.usn = 0, !.seen = FALSE]
FinalizeSync(c) ==
  LET cl == [clients[c] EXCEPT !.sync = Idle]
      local == Cardinality({f \in DOMAIN cl.db : cl.db[f].sha1 # Absent})
  IN /\ At(c, "sanity")
     /\ Continue(c, IF local = server.count THEN cl ELSE ForceResync(cl))
     /\ UNCHANGED <<server, edits, failures>>

\* A request fails, its answer is lost, or the user aborts the sync.
AbortSync(c) ==
  /\ ~At(c, "idle") /\ failures < MaxFailures
  /\ At(c, "download") /\ DOMAIN clients[c].sync.added # {} => "half_download" \in Faults
  /\ Continue(c, [clients[c] EXCEPT !.sync = Idle])
  /\ failures' = failures + 1 /\ UNCHANGED <<server, edits>>

\* The server fails after writing some of the files: its table is rolled back.
UploadFails(c) ==
  LET cl == clients[c] IN
  /\ At(c, "upload") /\ failures < MaxFailures
  /\ \E done \in SUBSET DOMAIN cl.sync.zip :
       /\ \A f \in done, g \in DOMAIN cl.sync.zip : g < f => g \in done
       /\ \/ done = {}
          \/ "half_upload" \in Faults
          \/ "half_delete" \in Faults /\ \A f \in done : cl.sync.zip[f] = Absent
       /\ server' = [server EXCEPT !.disk =
                       RegisterAll(server, [f \in done |-> cl.sync.zip[f]]).disk]
  /\ Continue(c, [cl EXCEPT !.sync = Idle])
  /\ failures' = failures + 1 /\ UNCHANGED edits

SyncStep(c) ==
  \/ FetchChanges(c) \/ DownloadFiles(c) \/ RecordBatch(c)
  \/ GatherUpload(c) \/ UploadChanges(c) \/ RecordUpload(c) \/ FinalizeSync(c)

UserStep(c) ==
  \/ \E f \in Files : \E data \in Contents[f] :
       AddFile(c, f, data) \/ WriteOutside(c, f, data)
  \/ \E names \in SUBSET Deletable : RemoveFiles(c, names)
  \/ \E f \in Files : DeleteOutside(c, f)

Next == \E c \in Clients :
  \/ StartSync(c) \/ SyncStep(c) \/ UserStep(c)
  \/ AbortSync(c) \/ UploadFails(c)

\* Media is synced whenever the collection is, and a sync that was started runs
\* in a thread of its own until it ends.
Spec == Init /\ [][Next]_vars
        /\ \A c \in Clients : WF_vars(StartSync(c)) /\ WF_vars(SyncStep(c))

----------------------------------------------------------------------------
(* Properties. *)

SomeFiles(V) == UNION {[S -> V] : S \in SUBSET Files}
SyncStates ==
  {Idle, [pc |-> "sanity"]}
  \cup {SendFrom(acted) : acted \in BOOLEAN}
  \cup [pc : {"fetch"}, usn : Nat]
  \cup [pc : {"reply"}, files : SUBSET Files, usn : Nat]
  \cup [pc : {"upload"}, zip : SomeFiles(Data)]
  \cup [pc : {"download"}, usn : Nat, todo : SUBSET Files, deleted : SUBSET Files,
        clean : SUBSET Files, added : SomeFiles(Data)]
ClientStates ==
  [disk : [Files -> Data], seen : BOOLEAN, usn : Nat, gone : SUBSET Files, sync : SyncStates,
   db : SomeFiles([sha1 : Data, sync_required : BOOLEAN, fresh : BOOLEAN])]
ServerStates(last) ==
  [disk : [Files -> Data], usn : Nat, count : Nat,
   entries : SomeFiles([sha1 : Data, usn : 1..last])]

\* The tables and folders have their types, and the number of files the server
\* keeps beside its rows, which the sanity check compares, is the number of files
\* it lists.
TypeOK ==
  /\ clients \in [Clients -> ClientStates] /\ server \in ServerStates(server.usn)
  /\ server.count = Cardinality({f \in Files : Listed(server, f)})
  /\ edits \in Nat /\ failures \in Nat

\* A client's number stands for the server's files: between syncs, every file up
\* to it is the one in the client's folder, unless a change to it is waiting to be
\* scanned or uploaded. The number is all that the next sync looks at
\* (syncer.rs, fetch_changes and send_changes).
FolderMatchesUpToUsn ==
  \A c \in Clients : clients[c].sync = Idle /\ clients[c].seen =>
    \A f \in DOMAIN server.entries :
      server.entries[f].usn <= clients[c].usn =>
        \/ f \in Pending(clients[c])
        \/ clients[c].disk[f] = server.entries[f].sha1

\* A client tells the server that a file was deleted only when its user has
\* deleted it there since it was last registered or downloaded: never because a sync
\* that was cut short had moved it to the trash, marking it like a user's deletion,
\* and another device has added it again (media/mod.rs, remove_files).
OnlyUserDeletionsAreUploaded ==
  [][\A c \in Clients :
       At(c, "send") /\ clients'[c].sync.pc = "upload" =>
         \A f \in DOMAIN clients'[c].sync.zip :
           clients'[c].sync.zip[f] = Absent => f \in clients[c].gone]_vars

\* Recording a batch moves a client's number past rows of the server's, which no later
\* sync asks for again: whatever has happened since the batch was fetched, each of them
\* is by then what the table says of its file, or a change of the user's to the file
\* waits to be uploaded. Only a file that was waiting with what the server has already
\* is taken for clean even if it is edited while the others are downloaded (syncer.rs,
\* fetch_changes; database/client/mod.rs, record_removals and record_clean).
RowsPassedAreAccountedFor ==
  [][\A c \in Clients : At(c, "download") /\ clients'[c].sync.pc = "fetch" =>
       \A f \in DOMAIN server.entries :
         clients[c].usn < server.entries[f].usn /\ server.entries[f].usn <= clients'[c].usn =>
           \/ f \in Pending(clients'[c])
           \/ Sha1(clients'[c], f) = server.entries[f].sha1
           \/ "busy" \in Faults /\ f \in clients[c].sync.clean]_vars

\* The files a batch of rows says were deleted are no longer in the folder when
\* the batch is about to be recorded (changes.rs: "deleted on server and not
\* pending sync" means Delete).
DeletedFilesAreGone ==
  \A c \in Clients : At(c, "download") =>
    \A f \in clients[c].sync.deleted : clients[c].disk[f] = Absent

\* Once users stop, and requests stop failing, every folder ends up with the
\* files that the server lists.
Agree == \A c \in Clients, f \in Files :
  clients[c].disk[f] = IF Listed(server, f) THEN server.entries[f].sha1 ELSE Absent
EventuallyAgree == <>[]Agree
====
