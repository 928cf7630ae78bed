---- MODULE MediaSync_proofs ----
(***************************************************************************)
(* Theorems about MediaSync, for any clients, files, contents and limits:  *)
(* its types, which deletions are uploaded, and that no row of the         *)
(* server's is passed over when a batch is recorded.                       *)
(***************************************************************************)
EXTENDS MediaSync, FiniteSetTheorems, WellFoundedInduction, TLAPS

Entries == [sha1 : Data, sync_required : BOOLEAN, fresh : BOOLEAN]
Rows == SomeFiles(Entries)
Folders == [Files -> Data]
ServerRows(last) == SomeFiles([sha1 : Data, usn : 1..last])

\* Whether the server's row of a file is older, or newer, than a number.
Known(srv, usn, f) == f \in DOMAIN srv.entries /\ srv.entries[f].usn <= usn
Unknown(srv, usn, f) == f \in DOMAIN srv.entries /\ srv.entries[f].usn > usn

---------------------------------------------------------------------------
(* Tables of files. *)

\* What it is to be a table.
LEMMA IsTable ==
  ASSUME NEW V, NEW t
  PROVE  t \in SomeFiles(V) <=>
           /\ DOMAIN t \subseteq Files /\ t = [f \in DOMAIN t |-> t[f]]
           /\ \A f \in DOMAIN t : t[f] \in V
<1>1. ASSUME t \in SomeFiles(V)
      PROVE  /\ DOMAIN t \subseteq Files /\ t = [f \in DOMAIN t |-> t[f]]
             /\ \A f \in DOMAIN t : t[f] \in V
  BY <1>1 DEF SomeFiles
<1>2. ASSUME DOMAIN t \subseteq Files, t = [f \in DOMAIN t |-> t[f]],
             \A f \in DOMAIN t : t[f] \in V
      PROVE  t \in SomeFiles(V)
  <2>1. t \in [DOMAIN t -> V]
    BY <1>2
  <2> QED BY <1>2, <2>1 DEF SomeFiles
<1> QED BY <1>1, <1>2

\* A table laid over another, and over a folder.
LEMMA OverTable ==
  ASSUME NEW V, NEW a \in SomeFiles(V), NEW b \in SomeFiles(V)
  PROVE  Over(a, b) \in SomeFiles(V)
<1>1. DOMAIN a \subseteq Files /\ \A f \in DOMAIN a : a[f] \in V
  BY IsTable
<1>2. DOMAIN b \subseteq Files /\ \A f \in DOMAIN b : b[f] \in V
  BY IsTable
<1>3. /\ DOMAIN Over(a, b) = DOMAIN a \cup DOMAIN b
      /\ Over(a, b) = [f \in DOMAIN Over(a, b) |-> Over(a, b)[f]]
      /\ \A f \in DOMAIN a \cup DOMAIN b :
           Over(a, b)[f] = IF f \in DOMAIN a THEN a[f] ELSE b[f]
  BY DEF Over
<1> QED BY <1>1, <1>2, <1>3, IsTable

\* Files laid over a folder leave a folder.
LEMMA OverFolder ==
  ASSUME NEW a \in SomeFiles(Data), NEW b \in [Files -> Data]
  PROVE  Over(a, b) \in [Files -> Data]
<1>1. DOMAIN a \subseteq Files /\ \A f \in DOMAIN a : a[f] \in Data
  BY IsTable
<1>2. DOMAIN a \cup DOMAIN b = Files
  BY <1>1
<1> QED BY <1>1, <1>2 DEF Over

\* A file that is not there is one of the things a file may be.
LEMMA AbsentIsData == Absent \in Data
BY DEF Data

\* The empty table.
LEMMA NoFilesTyped ==
  ASSUME NEW V
  PROVE  DOMAIN NoFiles = {} /\ NoFiles \in SomeFiles(V)
<1>1. DOMAIN NoFiles = {} /\ NoFiles = [f \in DOMAIN NoFiles |-> NoFiles[f]]
  BY DEF NoFiles
<1> QED BY <1>1, IsTable

\* A table of one file.
LEMMA JustTyped ==
  ASSUME NEW V, NEW f \in Files, NEW v \in V
  PROVE  DOMAIN Just(f, v) = {f} /\ Just(f, v)[f] = v /\ Just(f, v) \in SomeFiles(V)
<1>1. DOMAIN Just(f, v) = {f} /\ Just(f, v)[f] = v
      /\ Just(f, v) = [g \in DOMAIN Just(f, v) |-> Just(f, v)[g]]
  BY DEF Just
<1> QED BY <1>1, IsTable

---------------------------------------------------------------------------
(* Clients and what is done to them. *)

\* The fields of a client.
LEMMA ClientFields ==
  ASSUME NEW cl \in ClientStates
  PROVE  /\ cl.disk \in Folders /\ DOMAIN cl.disk = Files
         /\ cl.seen \in BOOLEAN /\ cl.usn \in Nat
         /\ cl.gone \subseteq Files /\ cl.sync \in SyncStates
         /\ cl.db \in Rows /\ DOMAIN cl.db \subseteq Files
         /\ \A f \in DOMAIN cl.db : cl.db[f] \in Entries
<1>1. /\ cl.disk \in Folders /\ cl.seen \in BOOLEAN /\ cl.usn \in Nat
      /\ cl.gone \subseteq Files /\ cl.sync \in SyncStates /\ cl.db \in Rows
  BY DEF ClientStates, Folders, Rows, Entries
<1>2. DOMAIN cl.disk = Files
  BY <1>1 DEF Folders
<1>3. DOMAIN cl.db \subseteq Files /\ \A f \in DOMAIN cl.db : cl.db[f] \in Entries
  BY <1>1, IsTable DEF Rows
<1> QED BY <1>1, <1>2, <1>3

\* Rows that have lost their time.
LEMMA StaleRows ==
  ASSUME NEW cl \in ClientStates, NEW S
  PROVE  /\ Stale(cl, S) \in Rows /\ DOMAIN Stale(cl, S) = DOMAIN cl.db
         /\ \A f \in DOMAIN cl.db :
              /\ Stale(cl, S)[f].sha1 = cl.db[f].sha1
              /\ Stale(cl, S)[f].sync_required = cl.db[f].sync_required
              /\ Stale(cl, S)[f].fresh => cl.db[f].fresh /\ f \notin S
<1>1. DOMAIN cl.db \subseteq Files /\ \A f \in DOMAIN cl.db : cl.db[f] \in Entries
  BY ClientFields
<1>2. DOMAIN Stale(cl, S) = DOMAIN cl.db
      /\ Stale(cl, S) = [f \in DOMAIN Stale(cl, S) |-> Stale(cl, S)[f]]
  BY DEF Stale
<1>3. ASSUME NEW f \in DOMAIN cl.db
      PROVE  /\ Stale(cl, S)[f].sha1 = cl.db[f].sha1
             /\ Stale(cl, S)[f].sync_required = cl.db[f].sync_required
             /\ Stale(cl, S)[f].fresh => cl.db[f].fresh /\ f \notin S
             /\ Stale(cl, S)[f] \in Entries
  <2>1. cl.db[f] \in Entries
    BY <1>1
  <2>2. Stale(cl, S)[f] = IF f \in S THEN [cl.db[f] EXCEPT !.fresh = FALSE] ELSE cl.db[f]
    BY DEF Stale
  <2> QED BY <2>1, <2>2 DEF Entries
<1> QED BY <1>1, <1>2, <1>3, IsTable DEF Rows

\* Files put into the folder, or taken from it.
LEMMA FilesSet ==
  ASSUME NEW cl \in ClientStates, NEW data \in SomeFiles(Data)
  PROVE  LET after == SetFiles(cl, data) IN
         /\ after \in ClientStates
         /\ after.disk = Over(data, cl.disk) /\ after.db = Stale(cl, DOMAIN data)
         /\ after.usn = cl.usn /\ after.gone = cl.gone /\ after.sync = cl.sync
         /\ after.seen = (cl.seen /\ OnDisk(Over(data, cl.disk)) = OnDisk(cl.disk))
<1>1. cl.disk \in [Files -> Data]
  BY ClientFields DEF Folders
<1>2. Over(data, cl.disk) \in [Files -> Data]
  BY <1>1, OverFolder
<1>3. Stale(cl, DOMAIN data) \in Rows
  BY StaleRows
<1> QED BY <1>2, <1>3 DEF SetFiles, ClientStates, Rows, Entries

\* The scan of a folder.
LEMMA Scanned ==
  ASSUME NEW cl \in ClientStates, ~ cl.seen
  PROVE  LET after == RegisterChanges(cl) IN
         /\ after \in ClientStates
         /\ after.disk = cl.disk /\ after.seen /\ after.usn = cl.usn /\ after.sync = cl.sync
         /\ after.gone = cl.gone \ OnDisk(cl.disk)
         /\ DOMAIN after.db = DOMAIN cl.db \cup OnDisk(cl.disk)
         /\ \A f \in DOMAIN after.db : after.db[f] = Rescanned(cl, f)
<1> DEFINE db == [f \in DOMAIN cl.db \cup OnDisk(cl.disk) |-> Rescanned(cl, f)]
<1>1. /\ cl.disk \in [Files -> Data] /\ DOMAIN cl.db \subseteq Files
      /\ \A f \in DOMAIN cl.db : cl.db[f] \in Entries
  BY ClientFields DEF Folders
<1>2. Absent \in Data
  BY AbsentIsData
<1>3. ASSUME NEW f \in DOMAIN cl.db \cup OnDisk(cl.disk)
      PROVE  Rescanned(cl, f) \in Entries
  <2>1. cl.disk[f] \in Data
    BY <1>1, <1>3 DEF OnDisk
  <2>2. f \notin DOMAIN cl.db => cl.disk[f] # Absent /\ Sha1(cl, f) = Absent
    BY <1>3 DEF OnDisk, Sha1
  <2>3. ((Sha1(cl, f) = cl.disk[f]) => cl.db[f].sync_required) \in BOOLEAN
    OBVIOUS
  <2> QED BY <1>1, <1>2, <2>1, <2>2, <2>3 DEF Rescanned, MediaEntry, Entries
<1>4. db \in Rows
  <2>1. DOMAIN db \subseteq Files /\ db = [f \in DOMAIN db |-> db[f]]
    BY <1>1 DEF OnDisk
  <2>2. \A f \in DOMAIN db : db[f] \in Entries
    BY <1>3
  <2> HIDE DEF db
  <2> QED BY <2>1, <2>2, IsTable DEF Rows
<1>5. RegisterChanges(cl) = [cl EXCEPT !.seen = TRUE, !.gone = cl.gone \ OnDisk(cl.disk), !.db = db]
  BY DEF RegisterChanges
<1>6. DOMAIN db = DOMAIN cl.db \cup OnDisk(cl.disk) /\ \A f \in DOMAIN db : db[f] = Rescanned(cl, f)
  OBVIOUS
<1> HIDE DEF db
<1> QED BY <1>4, <1>5, <1>6 DEF ClientStates, Rows, Entries

\* What has become of a client that has moved some of the files S to the trash.
HasTrashed(cl, S, moved, after) ==
  /\ after \in ClientStates
  /\ after.seen = cl.seen /\ after.usn = cl.usn /\ after.gone = cl.gone
  /\ after.sync = cl.sync
  /\ \A f \in Files : after.disk[f] = IF f \in moved THEN Absent ELSE cl.disk[f]
  /\ DOMAIN after.db = DOMAIN cl.db
  /\ \A f \in DOMAIN cl.db :
       IF f \in S THEN after.db[f] = MediaEntry(Absent, TRUE, FALSE)
       ELSE /\ after.db[f].sha1 = cl.db[f].sha1
            /\ after.db[f].sync_required = cl.db[f].sync_required
            /\ after.db[f].fresh => cl.db[f].fresh

\* Files moved to the trash, and the rows of others with them.
LEMMA Trashed ==
  ASSUME NEW cl \in ClientStates, NEW S \in SUBSET Files, NEW moved \in SUBSET S
  PROVE  HasTrashed(cl, S, moved, TrashFiles(cl, S, moved))
<1> DEFINE data == [f \in moved |-> Absent]
           rows == [f \in S \cap DOMAIN cl.db |-> MediaEntry(Absent, TRUE, FALSE)]
           trashed == SetFiles(cl, data)
           db == Over(rows, Stale(cl, DOMAIN data))
<1>1. DOMAIN data = moved /\ \A f \in moved : data[f] = Absent
  OBVIOUS
<1>2. data \in SomeFiles(Data)
  <2>1. data = [f \in DOMAIN data |-> data[f]]
    OBVIOUS
  <2> HIDE DEF data
  <2> QED BY <1>1, <2>1, AbsentIsData, IsTable
<1>3. DOMAIN rows = S \cap DOMAIN cl.db
      /\ \A f \in S \cap DOMAIN cl.db : rows[f] = MediaEntry(Absent, TRUE, FALSE)
  OBVIOUS
<1>4. rows \in SomeFiles(Entries)
  <2>1. rows = [f \in DOMAIN rows |-> rows[f]]
    OBVIOUS
  <2>2. MediaEntry(Absent, TRUE, FALSE) \in Entries
    BY AbsentIsData DEF MediaEntry, Entries
  <2> HIDE DEF rows
  <2>3. DOMAIN rows \subseteq Files /\ \A f \in DOMAIN rows : rows[f] \in Entries
    BY <1>3, <2>2
  <2> QED BY <2>1, <2>3, IsTable
<1> HIDE DEF data, rows
<1>5. trashed \in ClientStates /\ trashed.db = Stale(cl, DOMAIN data)
      /\ trashed.disk = Over(data, cl.disk) /\ trashed.usn = cl.usn
      /\ trashed.gone = cl.gone /\ trashed.sync = cl.sync
  BY <1>2, FilesSet
<1>6. Stale(cl, DOMAIN data) \in SomeFiles(Entries) /\ DOMAIN Stale(cl, DOMAIN data) = DOMAIN cl.db
      /\ \A f \in DOMAIN cl.db :
              /\ Stale(cl, DOMAIN data)[f].sha1 = cl.db[f].sha1
              /\ Stale(cl, DOMAIN data)[f].sync_required = cl.db[f].sync_required
              /\ Stale(cl, DOMAIN data)[f].fresh => cl.db[f].fresh
  BY StaleRows DEF Rows
<1>7. /\ db \in Rows /\ DOMAIN db = DOMAIN cl.db
      /\ \A f \in DOMAIN cl.db :
           db[f] = IF f \in S THEN MediaEntry(Absent, TRUE, FALSE) ELSE Stale(cl, DOMAIN data)[f]
  <2> DEFINE stale == Stale(cl, DOMAIN data)
  <2> HIDE DEF stale
  <2>1. /\ DOMAIN Over(rows, stale) = DOMAIN rows \cup DOMAIN stale
        /\ \A f \in DOMAIN rows \cup DOMAIN stale :
             Over(rows, stale)[f] = IF f \in DOMAIN rows THEN rows[f] ELSE stale[f]
    BY DEF Over
  <2>2. stale \in SomeFiles(Entries)
    BY <1>6 DEF stale
  <2>3. Over(rows, stale) \in SomeFiles(Entries)
    BY <1>4, <2>2, OverTable
  <2>4. DOMAIN stale = DOMAIN cl.db
    BY <1>6 DEF stale
  <2> QED BY <1>3, <2>1, <2>3, <2>4 DEF stale, Rows
<1>8. \A f \in Files : Over(data, cl.disk)[f] = IF f \in moved THEN Absent ELSE cl.disk[f]
  <2>1. DOMAIN cl.disk = Files
    BY ClientFields
  <2>2. \A f \in DOMAIN data \cup DOMAIN cl.disk :
          Over(data, cl.disk)[f] = IF f \in DOMAIN data THEN data[f] ELSE cl.disk[f]
    BY DEF Over
  <2> QED BY <1>1, <2>1, <2>2
<1>9. TrashFiles(cl, S, moved) = [[trashed EXCEPT !.db = db] EXCEPT !.seen = cl.seen]
  <2>1. trashed.db = Stale(cl, DOMAIN data)
    BY <1>5
  <2>2. TrashFiles(cl, S, moved) = [[trashed EXCEPT !.db = Over(rows, trashed.db)] EXCEPT !.seen = cl.seen]
    BY DEF TrashFiles, KeepSeen, data, rows
  <2> QED BY <2>1, <2>2
<1> HIDE DEF trashed, db
<1>10. cl.seen \in BOOLEAN
  BY ClientFields
<1>11. /\ TrashFiles(cl, S, moved) \in ClientStates
       /\ TrashFiles(cl, S, moved).seen = cl.seen /\ TrashFiles(cl, S, moved).db = db
       /\ TrashFiles(cl, S, moved).disk = trashed.disk /\ TrashFiles(cl, S, moved).usn = trashed.usn
       /\ TrashFiles(cl, S, moved).gone = trashed.gone /\ TrashFiles(cl, S, moved).sync = trashed.sync
  BY <1>5, <1>7, <1>9, <1>10 DEF ClientStates, Rows, Entries
<1>12. \A f \in DOMAIN cl.db :
              IF f \in S THEN db[f] = MediaEntry(Absent, TRUE, FALSE)
              ELSE /\ db[f].sha1 = cl.db[f].sha1
                   /\ db[f].sync_required = cl.db[f].sync_required
                   /\ db[f].fresh => cl.db[f].fresh
  BY <1>6, <1>7
<1>13. \A f \in Files : trashed.disk[f] = IF f \in moved THEN Absent ELSE cl.disk[f]
  BY <1>5, <1>8
<1> HIDE DEF trashed, db
<1> QED BY ZenonT(60), <1>5, <1>7, <1>11, <1>12, <1>13 DEF HasTrashed

---------------------------------------------------------------------------
(* The stages of a sync. *)

\* What a stage of a sync carries.
LEMMA StageFields ==
  ASSUME NEW sync \in SyncStates
  PROVE  /\ sync.pc \in {"idle", "fetch", "download", "send", "upload", "reply", "sanity"}
         /\ sync.pc = "idle" => sync = Idle
         /\ sync.pc = "fetch" => sync.usn \in Nat
         /\ sync.pc = "upload" => sync.zip \in SomeFiles(Data)
         /\ sync.pc = "reply" => sync.files \subseteq Files /\ sync.usn \in Nat
         /\ sync.pc = "download" =>
              /\ sync \in [pc : {"download"}, usn : Nat, todo : SUBSET Files,
                           deleted : SUBSET Files, clean : SUBSET Files, added : SomeFiles(Data)]
              /\ sync.usn \in Nat /\ sync.todo \subseteq Files /\ sync.deleted \subseteq Files
              /\ sync.clean \subseteq Files /\ sync.added \in SomeFiles(Data)
<1> DEFINE tables == SomeFiles(Data)
<1>1. CASE sync \in {Idle, [pc |-> "sanity"]} \cup {SendFrom(acted) : acted \in BOOLEAN}
  BY <1>1 DEF Idle, SendFrom
<1>2. CASE sync \in [pc : {"fetch"}, usn : Nat] \cup [pc : {"reply"}, files : SUBSET Files, usn : Nat]
  BY <1>2
<1>3. CASE sync \in [pc : {"upload"}, zip : tables]
  <2> HIDE DEF tables
  <2>1. sync.pc = "upload" /\ sync.zip \in tables
    BY <1>3
  <2> QED BY <2>1 DEF tables
<1>4. CASE sync \in [pc : {"download"}, usn : Nat, todo : SUBSET Files, deleted : SUBSET Files,
                     clean : SUBSET Files, added : tables]
  <2> HIDE DEF tables
  <2>1. /\ sync.pc = "download" /\ sync.usn \in Nat /\ sync.todo \subseteq Files
        /\ sync.deleted \subseteq Files /\ sync.clean \subseteq Files /\ sync.added \in tables
    BY <1>4
  <2> QED BY <1>4, <2>1 DEF tables
<1> QED BY <1>1, <1>2, <1>3, <1>4 DEF SyncStates

\* The stages of a sync.
LEMMA Stages ==
  /\ Idle \in SyncStates /\ [pc |-> "sanity"] \in SyncStates
  /\ \A acted \in BOOLEAN : SendFrom(acted) \in SyncStates
  /\ \A usn \in Nat : [pc |-> "fetch", usn |-> usn] \in SyncStates
  /\ \A usn \in Nat, files \in SUBSET Files :
       [pc |-> "reply", files |-> files, usn |-> usn] \in SyncStates
  /\ \A zip \in SomeFiles(Data) : [pc |-> "upload", zip |-> zip] \in SyncStates
  /\ [pc : {"download"}, usn : Nat, todo : SUBSET Files, deleted : SUBSET Files,
      clean : SUBSET Files, added : SomeFiles(Data)] \subseteq SyncStates
<1> DEFINE tables == SomeFiles(Data)
<1> HIDE DEF tables
<1>1. SyncStates = {Idle, [pc |-> "sanity"]} \cup {SendFrom(acted) : acted \in BOOLEAN}
        \cup [pc : {"fetch"}, usn : Nat] \cup [pc : {"reply"}, files : SUBSET Files, usn : Nat]
        \cup [pc : {"upload"}, zip : tables]
        \cup [pc : {"download"}, usn : Nat, todo : SUBSET Files, deleted : SUBSET Files,
              clean : SUBSET Files, added : tables]
  BY DEF SyncStates, tables
<1>2. /\ \A usn \in Nat : [pc |-> "fetch", usn |-> usn] \in [pc : {"fetch"}, usn : Nat]
      /\ \A usn \in Nat, files \in SUBSET Files :
           [pc |-> "reply", files |-> files, usn |-> usn]
             \in [pc : {"reply"}, files : SUBSET Files, usn : Nat]
      /\ \A zip \in tables : [pc |-> "upload", zip |-> zip] \in [pc : {"upload"}, zip : tables]
  OBVIOUS
<1> QED BY <1>1, <1>2 DEF tables

---------------------------------------------------------------------------
(* What each operation makes of a client. *)

\* A row that is the same but may have lost its time.
SameRow(after, cl, f) ==
  /\ f \in DOMAIN after.db <=> f \in DOMAIN cl.db
  /\ f \in DOMAIN cl.db =>
       /\ after.db[f].sha1 = cl.db[f].sha1
       /\ after.db[f].sync_required = cl.db[f].sync_required
       /\ after.db[f].fresh => cl.db[f].fresh
Becomes(c, after) == after \in ClientStates /\ clients' = [clients EXCEPT ![c] = after]
Written(after, cl, f, data) ==
  \A g \in Files : after.disk[g] = IF g = f THEN data ELSE cl.disk[g]

\* A file put into the folder or taken from it, behind the program's back.
LEMMA OneFileSet ==
  ASSUME NEW cl \in ClientStates, NEW f \in Files, NEW data \in Data
  PROVE  LET after == SetFiles(cl, Just(f, data)) IN
         /\ after \in ClientStates /\ Written(after, cl, f, data)
         /\ after.usn = cl.usn /\ after.gone = cl.gone /\ after.sync = cl.sync
         /\ \A g \in Files : SameRow(after, cl, g)
         /\ f \in DOMAIN after.db => ~ after.db[f].fresh
         /\ after.db \in Rows
         /\ after.seen => cl.seen /\ (cl.disk[f] = Absent <=> data = Absent)
<1> DEFINE after == SetFiles(cl, Just(f, data))
<1>1. Just(f, data) \in SomeFiles(Data) /\ DOMAIN Just(f, data) = {f} /\ Just(f, data)[f] = data
  BY JustTyped
<1>2. /\ after \in ClientStates
      /\ after.disk = Over(Just(f, data), cl.disk) /\ after.db = Stale(cl, {f})
      /\ after.usn = cl.usn /\ after.gone = cl.gone /\ after.sync = cl.sync
      /\ after.seen = (cl.seen /\ OnDisk(Over(Just(f, data), cl.disk)) = OnDisk(cl.disk))
  BY <1>1, FilesSet
<1>3. DOMAIN cl.disk = Files
  BY ClientFields
<1>4. \A g \in Files : Over(Just(f, data), cl.disk)[g] = IF g = f THEN data ELSE cl.disk[g]
  BY <1>1, <1>3 DEF Over
<1>5. /\ DOMAIN Stale(cl, {f}) = DOMAIN cl.db /\ Stale(cl, {f}) \in Rows
      /\ \A g \in DOMAIN cl.db :
              /\ Stale(cl, {f})[g].sha1 = cl.db[g].sha1
              /\ Stale(cl, {f})[g].sync_required = cl.db[g].sync_required
              /\ Stale(cl, {f})[g].fresh => cl.db[g].fresh /\ g \notin {f}
  BY StaleRows
<1>6. ASSUME OnDisk(Over(Just(f, data), cl.disk)) = OnDisk(cl.disk)
      PROVE  cl.disk[f] = Absent <=> data = Absent
  <2>1. (f \in OnDisk(Over(Just(f, data), cl.disk))) <=> f \in OnDisk(cl.disk)
    BY <1>6
  <2> QED BY <1>4, <2>1 DEF OnDisk
<1> HIDE DEF after
<1>7. Written(after, cl, f, data)
  BY <1>2, <1>4 DEF Written
<1>8. \A g \in Files : SameRow(after, cl, g)
  BY <1>2, <1>5 DEF SameRow
<1>9. (f \in DOMAIN after.db => ~ after.db[f].fresh) /\ after.db \in Rows
  BY <1>2, <1>5
<1>10. after.seen => cl.seen /\ (cl.disk[f] = Absent <=> data = Absent)
  BY <1>2, <1>6
<1> QED BY <1>2, <1>7, <1>8, <1>9, <1>10 DEF after

\* A file added through the program.
WithFile(cl, f, data) ==
  LET added == SetFiles(cl, Just(f, data))
      row == IF Sha1(cl, f) = data THEN NoFiles ELSE Just(f, MediaEntry(data, TRUE, FALSE))
  IN KeepSeen([added EXCEPT !.db = Over(row, added.db), !.gone = cl.gone \ {f}], cl)

\* A file that is added is in the folder, and in the table waiting to be uploaded.
LEMMA FileAdded ==
  ASSUME NEW cl \in ClientStates, NEW f \in Files, NEW data \in Data
  PROVE  LET after == WithFile(cl, f, data) IN
         /\ after \in ClientStates /\ Written(after, cl, f, data)
         /\ after.seen = cl.seen /\ after.usn = cl.usn /\ after.sync = cl.sync
         /\ after.gone = cl.gone \ {f}
         /\ \A g \in Files \ {f} : SameRow(after, cl, g)
         /\ IF Sha1(cl, f) = data
            THEN SameRow(after, cl, f) /\ (f \in DOMAIN after.db => ~ after.db[f].fresh)
            ELSE f \in DOMAIN after.db /\ after.db[f] = MediaEntry(data, TRUE, FALSE)
<1> DEFINE added == SetFiles(cl, Just(f, data))
           row == IF Sha1(cl, f) = data THEN NoFiles ELSE Just(f, MediaEntry(data, TRUE, FALSE))
           db == Over(row, added.db)
           after == WithFile(cl, f, data)
<1>0. after = KeepSeen([added EXCEPT !.db = db, !.gone = cl.gone \ {f}], cl)
  BY DEF WithFile
<1>1. /\ added \in ClientStates /\ Written(added, cl, f, data)
      /\ added.usn = cl.usn /\ added.gone = cl.gone /\ added.sync = cl.sync
      /\ \A g \in Files : SameRow(added, cl, g)
      /\ f \in DOMAIN added.db => ~ added.db[f].fresh
      /\ added.db \in Rows
  BY OneFileSet
<1> HIDE DEF added
<1>2. MediaEntry(data, TRUE, FALSE) \in Entries
  BY DEF MediaEntry, Entries
<1>3. row \in SomeFiles(Entries) /\ DOMAIN row \subseteq {f}
      /\ (Sha1(cl, f) = data => DOMAIN row = {})
      /\ (Sha1(cl, f) # data => DOMAIN row = {f} /\ row[f] = MediaEntry(data, TRUE, FALSE))
  <2>1. CASE Sha1(cl, f) = data
    <3>1. DOMAIN NoFiles = {} /\ NoFiles \in SomeFiles(Entries)
      BY NoFilesTyped
    <3> QED BY <2>1, <3>1
  <2>2. CASE Sha1(cl, f) # data
    <3> DEFINE entry == MediaEntry(data, TRUE, FALSE)
    <3> HIDE DEF entry
    <3>1. entry \in Entries
      BY <1>2 DEF entry
    <3>2. DOMAIN Just(f, entry) = {f} /\ Just(f, entry)[f] = entry /\ Just(f, entry) \in SomeFiles(Entries)
      BY <3>1, JustTyped
    <3> QED BY <2>2, <3>2 DEF entry
  <2> QED BY <2>1, <2>2
<1> HIDE DEF row
<1>4. db \in Rows
  <2>1. added.db \in SomeFiles(Entries)
    BY <1>1 DEF Rows
  <2> QED BY <1>3, <2>1, OverTable DEF Rows
<1>5. /\ DOMAIN db = DOMAIN row \cup DOMAIN added.db
      /\ \A g \in DOMAIN db : db[g] = IF g \in DOMAIN row THEN row[g] ELSE added.db[g]
  BY DEF Over
<1>6. cl.gone \ {f} \subseteq Files /\ cl.seen \in BOOLEAN
  BY ClientFields
<1> HIDE DEF db, after
<1>7. /\ after \in ClientStates /\ after.db = db /\ after.gone = cl.gone \ {f}
      /\ after.seen = cl.seen /\ after.usn = added.usn /\ after.sync = added.sync
      /\ after.disk = added.disk
  BY <1>0, <1>1, <1>4, <1>6 DEF KeepSeen, ClientStates, Rows, Entries
<1>8. \A g \in Files \ {f} : SameRow(after, cl, g)
  <2> TAKE g \in Files \ {f}
  <2>1. SameRow(added, cl, g) /\ g \notin DOMAIN row
    BY <1>1, <1>3
  <2> QED BY <1>5, <1>7, <2>1 DEF SameRow
<1>9. CASE Sha1(cl, f) = data
  <2>1. SameRow(added, cl, f) /\ f \notin DOMAIN row
    BY <1>1, <1>3, <1>9
  <2> QED BY <1>1, <1>5, <1>7, <1>8, <1>9, <2>1 DEF SameRow, Written, after
<1>10. CASE Sha1(cl, f) # data
  <2>1. f \in DOMAIN after.db /\ after.db[f] = MediaEntry(data, TRUE, FALSE)
    BY <1>3, <1>5, <1>7, <1>10
  <2> QED BY <1>1, <1>7, <1>8, <1>10, <2>1 DEF Written, after
<1> QED BY <1>9, <1>10

---------------------------------------------------------------------------
(* The users' actions. *)

Edited == server' = server /\ failures' = failures /\ edits' = edits + 1

RowAdded(after, cl, f, data) ==
  IF Sha1(cl, f) = data
  THEN SameRow(after, cl, f) /\ (f \in DOMAIN after.db => ~ after.db[f].fresh)
  ELSE f \in DOMAIN after.db /\ after.db[f] = MediaEntry(data, TRUE, FALSE)

\* What adding a file through the program does.
LEMMA AddFileStep ==
  ASSUME clients \in [Clients -> ClientStates], NEW c \in Clients, NEW f \in Files,
         NEW data \in Contents[f], AddFile(c, f, data)
  PROVE  \E after : LET cl == clients[c] IN
         /\ Edited /\ MayEdit(c) /\ cl.disk[f] = Absent /\ MayWrite(c, f, data)
         /\ data \in Data /\ data # Absent
         /\ Becomes(c, after) /\ Written(after, cl, f, data)
         /\ after.seen = cl.seen /\ after.usn = cl.usn /\ after.sync = cl.sync
         /\ after.gone = cl.gone \ {f}
         /\ \A g \in Files \ {f} : SameRow(after, cl, g)
         /\ RowAdded(after, cl, f, data)
<1> DEFINE cl == clients[c]
           after == WithFile(cl, f, data)
<1>1. cl \in ClientStates
  OBVIOUS
<1>2. data \in Data /\ data # Absent
  BY MediaAssumption DEF Data
<1>3. Edited /\ MayEdit(c) /\ cl.disk[f] = Absent /\ MayWrite(c, f, data)
      /\ clients' = [clients EXCEPT ![c] = after]
  BY DEF AddFile, Edit, Edited, WithFile
<1> HIDE DEF cl
<1>4. /\ after \in ClientStates /\ Written(after, cl, f, data)
      /\ after.seen = cl.seen /\ after.usn = cl.usn /\ after.sync = cl.sync
      /\ after.gone = cl.gone \ {f}
      /\ \A g \in Files \ {f} : SameRow(after, cl, g)
      /\ IF Sha1(cl, f) = data
         THEN SameRow(after, cl, f) /\ (f \in DOMAIN after.db => ~ after.db[f].fresh)
         ELSE f \in DOMAIN after.db /\ after.db[f] = MediaEntry(data, TRUE, FALSE)
  BY ZenonT(60), <1>1, <1>2, FileAdded
<1> HIDE DEF after
<1>5. Becomes(c, after)
  BY <1>3, <1>4 DEF Becomes
<1> WITNESS after
<1> QED BY <1>2, <1>3, <1>4, <1>5 DEF cl, RowAdded

\* What removing files through the program does.
LEMMA RemoveFilesStep ==
  ASSUME clients \in [Clients -> ClientStates], NEW c \in Clients, NEW names \in SUBSET Deletable,
         RemoveFiles(c, names)
  PROVE  \E after, moved : LET cl == clients[c] IN
         /\ Edited /\ MayEdit(c) /\ \A f \in names : MayDelete(c, f)
         /\ moved \subseteq Present(cl, names) /\ (Present(cl, names) = names => moved = names)
         /\ names \subseteq Files
         /\ Becomes(c, after)
         /\ after.seen = cl.seen /\ after.usn = cl.usn /\ after.sync = cl.sync
         /\ after.gone = cl.gone \cup names
         /\ \A f \in Files : after.disk[f] = IF f \in moved THEN Absent ELSE cl.disk[f]
         /\ DOMAIN after.db = DOMAIN cl.db
         /\ \A f \in DOMAIN cl.db :
              IF f \in names THEN after.db[f] = MediaEntry(Absent, TRUE, FALSE)
              ELSE SameRow(after, cl, f)
<1> DEFINE cl == clients[c]
<1>1. cl \in ClientStates
  OBVIOUS
<1>2. PICK moved \in SUBSET Present(cl, names) :
        /\ Present(cl, names) = names => moved = names
        /\ Edit(c, [TrashFiles(cl, names, moved) EXCEPT !.gone = cl.gone \cup names])
  BY DEF RemoveFiles
<1>3. names \subseteq Files /\ moved \subseteq names
  BY MediaAssumption DEF Present
<1> DEFINE trashed == TrashFiles(cl, names, moved)
           after == [trashed EXCEPT !.gone = cl.gone \cup names]
<1>4. Edited /\ MayEdit(c) /\ (\A f \in names : MayDelete(c, f))
      /\ clients' = [clients EXCEPT ![c] = after]
  BY <1>2 DEF RemoveFiles, Edit, Edited
<1> HIDE DEF cl
<1>5. /\ trashed \in ClientStates
      /\ trashed.seen = cl.seen /\ trashed.usn = cl.usn /\ trashed.gone = cl.gone
      /\ trashed.sync = cl.sync
      /\ \A f \in Files : trashed.disk[f] = IF f \in moved THEN Absent ELSE cl.disk[f]
      /\ DOMAIN trashed.db = DOMAIN cl.db
      /\ \A f \in DOMAIN cl.db :
              IF f \in names THEN trashed.db[f] = MediaEntry(Absent, TRUE, FALSE)
              ELSE /\ trashed.db[f].sha1 = cl.db[f].sha1
                   /\ trashed.db[f].sync_required = cl.db[f].sync_required
                   /\ trashed.db[f].fresh => cl.db[f].fresh
  <2>1. names \in SUBSET Files /\ moved \in SUBSET names
    BY <1>3
  <2>2. HasTrashed(cl, names, moved, trashed)
    BY <1>1, <2>1, Trashed
  <2> HIDE DEF trashed
  <2> QED BY <2>2 DEF HasTrashed
<1>6. cl.gone \cup names \subseteq Files
  BY <1>1, <1>3, ClientFields
<1> HIDE DEF trashed
<1>7. /\ after \in ClientStates /\ after.disk = trashed.disk /\ after.db = trashed.db
      /\ after.seen = trashed.seen /\ after.usn = trashed.usn /\ after.sync = trashed.sync
      /\ after.gone = cl.gone \cup names
  BY <1>5, <1>6 DEF ClientStates
<1> HIDE DEF after
<1>8. Becomes(c, after)
  BY <1>4, <1>7 DEF Becomes
<1> WITNESS after, moved
<1> QED BY ZenonT(60), <1>2, <1>3, <1>4, <1>5, <1>7, <1>8 DEF cl, SameRow

\* What another program does that writes a file.
LEMMA WriteOutsideStep ==
  ASSUME clients \in [Clients -> ClientStates], NEW c \in Clients, NEW f \in Files,
         NEW data \in Contents[f], WriteOutside(c, f, data)
  PROVE  \E after : LET cl == clients[c] IN
         /\ Edited /\ MayEdit(c) /\ MayWrite(c, f, data)
         /\ data \in Data /\ data # Absent
         /\ Becomes(c, after) /\ Written(after, cl, f, data)
         /\ ~ after.seen /\ after.usn = cl.usn /\ after.sync = cl.sync
         /\ after.gone = cl.gone
         /\ \A g \in Files : SameRow(after, cl, g)
         /\ f \in DOMAIN after.db => ~ after.db[f].fresh
<1> DEFINE cl == clients[c]
           written == SetFiles(cl, Just(f, data))
           after == [written EXCEPT !.seen = FALSE]
<1>1. cl \in ClientStates
  OBVIOUS
<1>2. data \in Data /\ data # Absent
  BY MediaAssumption DEF Data
<1>3. Edited /\ MayEdit(c) /\ MayWrite(c, f, data) /\ clients' = [clients EXCEPT ![c] = after]
  BY DEF WriteOutside, Edit, Edited
<1> HIDE DEF cl
<1>4. /\ written \in ClientStates /\ Written(written, cl, f, data)
      /\ written.usn = cl.usn /\ written.gone = cl.gone /\ written.sync = cl.sync
      /\ \A g \in Files : SameRow(written, cl, g)
      /\ f \in DOMAIN written.db => ~ written.db[f].fresh
  BY <1>1, <1>2, OneFileSet
<1> HIDE DEF written
<1>5. /\ after \in ClientStates /\ after.disk = written.disk /\ after.db = written.db
      /\ ~ after.seen /\ after.usn = written.usn /\ after.sync = written.sync
      /\ after.gone = written.gone
  BY <1>4 DEF ClientStates
<1> HIDE DEF after
<1>6. Becomes(c, after)
  BY <1>3, <1>5 DEF Becomes
<1> WITNESS after
<1> QED BY <1>2, <1>3, <1>4, <1>5, <1>6 DEF cl, SameRow, Written

\* What another program does that deletes a file.
LEMMA DeleteOutsideStep ==
  ASSUME clients \in [Clients -> ClientStates], NEW c \in Clients, NEW f \in Files,
         DeleteOutside(c, f)
  PROVE  \E after : LET cl == clients[c] IN
         /\ Edited /\ MayEdit(c) /\ MayDelete(c, f) /\ cl.disk[f] # Absent
         /\ Becomes(c, after) /\ Written(after, cl, f, Absent)
         /\ ~ after.seen /\ after.usn = cl.usn /\ after.sync = cl.sync
         /\ after.gone = cl.gone \cup {f}
         /\ \A g \in Files : SameRow(after, cl, g)
         /\ f \in DOMAIN after.db => ~ after.db[f].fresh
<1> DEFINE cl == clients[c]
           written == SetFiles(cl, Just(f, Absent))
           after == [written EXCEPT !.gone = cl.gone \cup {f}]
<1>1. cl \in ClientStates
  OBVIOUS
<1>2. Edited /\ MayEdit(c) /\ MayDelete(c, f) /\ cl.disk[f] # Absent
      /\ clients' = [clients EXCEPT ![c] = after]
  BY DEF DeleteOutside, Edit, Edited
<1> HIDE DEF cl
<1>3. /\ written \in ClientStates /\ Written(written, cl, f, Absent)
      /\ written.usn = cl.usn /\ written.gone = cl.gone /\ written.sync = cl.sync
      /\ \A g \in Files : SameRow(written, cl, g)
      /\ f \in DOMAIN written.db => ~ written.db[f].fresh
      /\ written.seen => (cl.disk[f] = Absent <=> Absent = Absent)
  BY <1>1, AbsentIsData, OneFileSet
<1>4. ~ written.seen
  BY <1>2, <1>3
<1>5. cl.gone \cup {f} \subseteq Files
  BY <1>1, ClientFields
<1> HIDE DEF written
<1>6. /\ after \in ClientStates /\ after.disk = written.disk /\ after.db = written.db
      /\ after.seen = written.seen /\ after.usn = written.usn /\ after.sync = written.sync
      /\ after.gone = cl.gone \cup {f}
  BY <1>3, <1>5 DEF ClientStates
<1> HIDE DEF after
<1>7. Becomes(c, after)
  BY <1>2, <1>6 DEF Becomes
<1> WITNESS after
<1> QED BY <1>2, <1>3, <1>4, <1>6, <1>7 DEF cl, SameRow, Written

---------------------------------------------------------------------------
(* The server's rows in their order. *)

\* Files can be counted.
LEMMA FilesFinite == ASSUME NEW S \in SUBSET Files PROVE IsFiniteSet(S) /\ Cardinality(S) \in Nat
<1>1. IsFiniteSet(Files)
  BY MediaAssumption
<1>2. IsFiniteSet(S)
  BY <1>1, FS_Subset
<1> QED BY <1>2, FS_CardinalityType

\* What the server's state is made of.
LEMMA ServerFields ==
  ASSUME NEW last \in Nat, NEW srv \in ServerStates(last)
  PROVE  /\ srv.disk \in Folders /\ DOMAIN srv.disk = Files
         /\ srv.usn \in Nat /\ srv.count \in Nat
         /\ srv.entries \in ServerRows(last) /\ DOMAIN srv.entries \subseteq Files
         /\ \A f \in DOMAIN srv.entries :
              /\ srv.entries[f] \in [sha1 : Data, usn : 1..last]
              /\ srv.entries[f].sha1 \in Data
              /\ srv.entries[f].usn \in Nat /\ srv.entries[f].usn > 0 /\ srv.entries[f].usn <= last
<1>1. /\ srv.disk \in [Files -> Data] /\ srv.usn \in Nat /\ srv.count \in Nat
      /\ srv.entries \in ServerRows(last)
  BY DEF ServerStates, ServerRows
<1>2. DOMAIN srv.entries \subseteq Files
      /\ \A f \in DOMAIN srv.entries : srv.entries[f] \in [sha1 : Data, usn : 1..last]
  BY ZenonT(60), <1>1, IsTable DEF ServerRows
<1> QED BY <1>1, <1>2 DEF Folders

\* A non-empty set of naturals has a least element, and a greatest one if it is bounded.
LEMMA LeastNumber ==
  ASSUME NEW T, T \subseteq Nat, T # {}
  PROVE  \E x \in T : \A y \in T : x <= y
<1> DEFINE R == {ss \in Nat \X Nat : ss[1] < ss[2]}
<1>1. IsWellFoundedOn(R, Nat)
  BY NatLessThanWellFounded DEF OpToRel
<1>2. \E x \in T : \A y \in T : ~(<<y, x>> \in R)
  <2> HIDE DEF R
  <2> QED BY <1>1, WFMin
<1>3. PICK x \in T : \A y \in T : ~(<<y, x>> \in R)
  BY <1>2
<1>4. ASSUME NEW y \in T
      PROVE  x <= y
  <2>1. x \in Nat /\ y \in Nat
    OBVIOUS
  <2>2. ~(y < x)
    BY <1>3, <2>1
  <2> QED BY <2>1, <2>2
<1> QED BY <1>4

\* A bounded set of numbers has a greatest one.
LEMMA GreatestNumber ==
  ASSUME NEW T, T \subseteq Nat, T # {}, NEW bound \in Nat, \A x \in T : x <= bound
  PROVE  \E x \in T : \A y \in T : y <= x
<1> DEFINE below == {bound - x : x \in T}
<1>1. below \subseteq Nat /\ below # {}
  <2>1. ASSUME NEW x \in T
        PROVE  bound - x \in Nat
    <3>1. x \in Nat /\ x <= bound
      OBVIOUS
    <3> QED BY <3>1
  <2>2. below \subseteq Nat
    BY <2>1
  <2> QED BY <2>2
<1>2. PICK least \in below : \A y \in below : least <= y
  <2> HIDE DEF below
  <2> QED BY <1>1, LeastNumber
<1>3. PICK x \in T : least = bound - x
  BY <1>2
<1>4. ASSUME NEW y \in T
      PROVE  y <= x
  <2>1. least <= bound - y
    BY <1>2
  <2> QED BY <1>3, <2>1
<1> QED BY <1>4

\* A chunk takes the rows after a number from the first of them on, and at least one.
LEMMA ChunkTakesFirst ==
  ASSUME NEW last \in Nat, NEW srv \in ServerStates(last), NEW usn \in Nat
  PROVE  LET chunk == ChangesChunk(srv, usn) IN
         /\ chunk \subseteq Files
         /\ \A f \in chunk : Unknown(srv, usn, f)
         /\ chunk = {} => \A f \in Files : ~ Unknown(srv, usn, f)
         /\ chunk # {} =>
              /\ LastUsn(srv, chunk) \in Nat
              /\ usn < LastUsn(srv, chunk) /\ LastUsn(srv, chunk) <= last
              /\ \A f \in Files : Unknown(srv, usn, f) /\ Known(srv, LastUsn(srv, chunk), f)
                                    => f \in chunk
<1> DEFINE newer == {f \in DOMAIN srv.entries : srv.entries[f].usn > usn}
           before(f) == {g \in newer : srv.entries[g].usn < srv.entries[f].usn}
           chunk == ChangesChunk(srv, usn)
           usns(S) == {srv.entries[f].usn : f \in S}
<1>1. DOMAIN srv.entries \subseteq Files
      /\ \A f \in DOMAIN srv.entries : srv.entries[f].usn \in Nat /\ srv.entries[f].usn <= last
  BY ServerFields
<1>2. chunk = {f \in newer : Cardinality(before(f)) < BatchSize}
  BY DEF ChangesChunk
<1>3. \A f \in newer : Unknown(srv, usn, f)
  BY DEF Unknown
<1>4. \A f \in Files : Unknown(srv, usn, f) => f \in newer
  BY DEF Unknown
<1>5. newer \subseteq Files /\ \A f : before(f) \subseteq Files
  BY <1>1
<1>6. BatchSize \in Nat /\ BatchSize > 0
  BY MediaAssumption
<1>7. ASSUME chunk = {}, newer # {}
      PROVE  FALSE
  <2>1. usns(newer) \subseteq Nat /\ usns(newer) # {}
    BY <1>1, <1>7
  <2>2. PICK least \in usns(newer) : \A n \in usns(newer) : least <= n
    <3> DEFINE T == usns(newer)
    <3>1. T \subseteq Nat /\ T # {}
      BY <2>1
    <3> HIDE DEF T
    <3>2. \E x \in T : \A y \in T : x <= y
      BY <3>1, LeastNumber
    <3> QED BY <3>2 DEF T
  <2>3. PICK f \in newer : least = srv.entries[f].usn
    BY <2>2
  <2>4. before(f) = {}
    <3>1. ASSUME NEW g \in newer, srv.entries[g].usn < srv.entries[f].usn
          PROVE  FALSE
      <4>1. least <= srv.entries[g].usn
        BY <2>2
      <4> QED BY <1>1, <2>3, <3>1, <4>1
    <3> QED BY <3>1
  <2>5. Cardinality(before(f)) = 0
    BY <2>4, FS_EmptySet
  <2> QED BY <1>2, <1>6, <1>7, <2>5
<1>8. ASSUME chunk # {}
      PROVE  \E m \in chunk : \A f \in chunk : srv.entries[f].usn <= srv.entries[m].usn
  <2> DEFINE T == usns(chunk)
  <2>1. T \subseteq Nat /\ T # {} /\ \A n \in T : n <= last
    BY <1>1, <1>2, <1>8
  <2>2. \E x \in T : \A y \in T : y <= x
    <3> HIDE DEF T
    <3> QED BY <2>1, GreatestNumber
  <2> HIDE DEF chunk
  <2> QED BY <2>2
<1>9. ASSUME NEW m \in chunk, NEW f \in newer, srv.entries[f].usn <= srv.entries[m].usn
      PROVE  f \in chunk
  <2>1. m \in newer /\ Cardinality(before(m)) < BatchSize
    BY <1>2
  <2>2. before(f) \subseteq before(m)
    BY <1>1, <1>9, <2>1
  <2>3. IsFiniteSet(before(m)) /\ Cardinality(before(m)) \in Nat /\ Cardinality(before(f)) \in Nat
    <3>1. before(m) \in SUBSET Files /\ before(f) \in SUBSET Files
      BY <1>5
    <3> HIDE DEF before
    <3> QED BY <3>1, FilesFinite
  <2>4. Cardinality(before(f)) <= Cardinality(before(m))
    <3> HIDE DEF before
    <3> QED BY <2>2, <2>3, FS_Subset
  <2>5. Cardinality(before(f)) < BatchSize
    <3> HIDE DEF before
    <3> QED BY <1>6, <2>1, <2>3, <2>4
  <2> QED BY <1>2, <2>5
<1>10. ASSUME chunk # {}
       PROVE  \E m \in chunk : LastUsn(srv, chunk) = srv.entries[m].usn
                                /\ \A f \in chunk : srv.entries[f].usn <= LastUsn(srv, chunk)
  <2> HIDE DEF chunk
  <2>1. PICK m \in chunk : \A f \in chunk : srv.entries[f].usn <= srv.entries[m].usn
    BY <1>8, <1>10
  <2>2. \E n \in usns(chunk) : \A f \in chunk : srv.entries[f].usn <= n
    BY <2>1
  <2>3. LastUsn(srv, chunk) \in usns(chunk)
        /\ \A f \in chunk : srv.entries[f].usn <= LastUsn(srv, chunk)
    BY <2>2 DEF LastUsn
  <2> QED BY <2>3
<1>11. chunk \subseteq newer
  BY <1>2
<1> HIDE DEF newer, chunk
<1>12. ASSUME chunk # {}
       PROVE  /\ LastUsn(srv, chunk) \in Nat
              /\ usn < LastUsn(srv, chunk) /\ LastUsn(srv, chunk) <= last
              /\ \A f \in Files : Unknown(srv, usn, f) /\ Known(srv, LastUsn(srv, chunk), f)
                                    => f \in chunk
  <2>1. PICK m \in chunk : LastUsn(srv, chunk) = srv.entries[m].usn
    BY <1>10, <1>12
  <2>2. m \in newer /\ Unknown(srv, usn, m)
    BY <1>3, <1>11, <2>1
  <2>3. \A f \in Files : Unknown(srv, usn, f) /\ Known(srv, LastUsn(srv, chunk), f) => f \in chunk
    BY <1>4, <1>9, <2>1 DEF Known
  <2> QED BY <1>1, <2>1, <2>2, <2>3 DEF Unknown
<1> QED BY <1>3, <1>4, <1>5, <1>7, <1>11, <1>12 DEF chunk

---------------------------------------------------------------------------
(* The steps of a sync. *)

Quiet == server' = server /\ edits' = edits /\ failures' = failures

\* A client of which only the stage of its sync has changed.
LEMMA StageSet ==
  ASSUME NEW cl \in ClientStates, NEW sync \in SyncStates
  PROVE  LET after == [cl EXCEPT !.sync = sync] IN
         /\ after \in ClientStates /\ after.sync = sync
         /\ after.disk = cl.disk /\ after.db = cl.db /\ after.seen = cl.seen
         /\ after.usn = cl.usn /\ after.gone = cl.gone
BY DEF ClientStates

SameButSync(after, cl) ==
  /\ after.disk = cl.disk /\ after.db = cl.db /\ after.seen = cl.seen
  /\ after.usn = cl.usn /\ after.gone = cl.gone

\* What starting a sync does: the folder is scanned unless it is as it was.
LEMMA StartSyncStep ==
  ASSUME clients \in [Clients -> ClientStates], NEW c \in Clients, StartSync(c)
  PROVE  \E after : LET cl == clients[c] IN
         /\ Quiet /\ cl.sync.pc = "idle" /\ Becomes(c, after)
         /\ after.disk = cl.disk /\ after.seen /\ after.usn = cl.usn
         /\ after.sync = IF cl.usn = server.usn THEN SendFrom(FALSE)
                         ELSE [pc |-> "fetch", usn |-> cl.usn]
         /\ IF cl.seen THEN after.gone = cl.gone /\ after.db = cl.db
            ELSE /\ after.gone = cl.gone \ OnDisk(cl.disk)
                 /\ DOMAIN after.db = DOMAIN cl.db \cup OnDisk(cl.disk)
                 /\ \A f \in DOMAIN after.db : after.db[f] = Rescanned(cl, f)
<1> DEFINE cl == clients[c]
           scanned == RegisterChanges(cl)
           sync == IF scanned.usn = server.usn THEN SendFrom(FALSE)
                   ELSE [pc |-> "fetch", usn |-> scanned.usn]
           after == [scanned EXCEPT !.sync = sync]
<1>1. cl \in ClientStates
  OBVIOUS
<1>2. Quiet /\ cl.sync.pc = "idle" /\ clients' = [clients EXCEPT ![c] = after]
  BY DEF StartSync, Continue, At, Quiet
<1> HIDE DEF cl
<1>3. /\ scanned \in ClientStates
      /\ scanned.disk = cl.disk /\ scanned.seen /\ scanned.usn = cl.usn
      /\ IF cl.seen THEN scanned.gone = cl.gone /\ scanned.db = cl.db
         ELSE /\ scanned.gone = cl.gone \ OnDisk(cl.disk)
              /\ DOMAIN scanned.db = DOMAIN cl.db \cup OnDisk(cl.disk)
              /\ \A f \in DOMAIN scanned.db : scanned.db[f] = Rescanned(cl, f)
  <2>1. CASE cl.seen
    <3>1. scanned = cl
      BY <2>1 DEF RegisterChanges
    <3> HIDE DEF scanned
    <3> QED BY <1>1, <2>1, <3>1
  <2>2. CASE ~ cl.seen
    BY <1>1, <2>2, Scanned
  <2> QED BY <2>1, <2>2
<1>4. scanned.usn \in Nat
  BY <1>3, ClientFields
<1>5. sync \in SyncStates
  BY <1>4, Stages
<1> HIDE DEF scanned
<1>6. sync = IF cl.usn = server.usn THEN SendFrom(FALSE) ELSE [pc |-> "fetch", usn |-> cl.usn]
  BY <1>3
<1> HIDE DEF sync
<1>7. /\ after \in ClientStates /\ after.sync = sync
      /\ after.disk = scanned.disk /\ after.db = scanned.db /\ after.seen = scanned.seen
      /\ after.usn = scanned.usn /\ after.gone = scanned.gone
  BY <1>3, <1>5, StageSet
<1> HIDE DEF after
<1>8. Becomes(c, after)
  BY <1>2, <1>7 DEF Becomes
<1> WITNESS after
<1> QED BY <1>2, <1>3, <1>6, <1>7, <1>8 DEF cl

\* What a batch asks for, and the files of it that reach the trash.
To(cl, srv, batch, change) ==
  {f \in batch : RequiredChange(cl, f, srv.entries[f].sha1) = change}
Moved(cl, srv, S) ==
  {f \in S : LET before == {g \in S : srv.entries[g].usn <= srv.entries[f].usn}
             IN Present(cl, before) = before}

\* What fetching a batch of rows does: it decides, and moves files to the trash.
LEMMA FetchChangesStep ==
  ASSUME clients \in [Clients -> ClientStates], server \in ServerStates(server.usn),
         NEW c \in Clients, FetchChanges(c), clients[c].sync.pc = "fetch" => clients[c].sync.usn \in Nat
  PROVE  \E after : LET cl == clients[c]
                        batch == ChangesChunk(server, cl.sync.usn)
                        deleted == To(cl, server, batch, "Delete") IN
         /\ Quiet /\ cl.sync.pc = "fetch" /\ Becomes(c, after)
         /\ after.seen = cl.seen /\ after.usn = cl.usn /\ after.gone = cl.gone
         /\ IF batch = {} THEN after.sync = SendFrom(TRUE) /\ SameButSync(after, cl)
            ELSE /\ after.sync = [pc |-> "download", usn |-> LastUsn(server, batch),
                                  todo |-> To(cl, server, batch, "Download"), deleted |-> deleted,
                                  clean |-> To(cl, server, batch, "RemovePending"),
                                  added |-> NoFiles]
                 /\ \A f \in Files : after.disk[f] =
                      IF f \in Moved(cl, server, deleted) THEN Absent ELSE cl.disk[f]
                 /\ DOMAIN after.db = DOMAIN cl.db
                 /\ \A f \in DOMAIN cl.db :
                      IF f \in deleted THEN after.db[f] = MediaEntry(Absent, TRUE, FALSE)
                      ELSE SameRow(after, cl, f)
<1> DEFINE cl == clients[c]
           batch == ChangesChunk(server, cl.sync.usn)
           deleted == To(cl, server, batch, "Delete")
           moved == Moved(cl, server, deleted)
           sync == [pc |-> "download", usn |-> LastUsn(server, batch),
                    todo |-> To(cl, server, batch, "Download"), deleted |-> deleted,
                    clean |-> To(cl, server, batch, "RemovePending"), added |-> NoFiles]
           trashed == TrashFiles(cl, deleted, moved)
           after == IF batch = {} THEN [cl EXCEPT !.sync = SendFrom(TRUE)]
                    ELSE [trashed EXCEPT !.sync = sync]
<1>1. cl \in ClientStates
  OBVIOUS
<1>2. Quiet /\ cl.sync.pc = "fetch" /\ clients' = [clients EXCEPT ![c] = after]
  BY DEF FetchChanges, Continue, At, Quiet, To, Moved
<1>3. batch \subseteq Files /\ (batch # {} => LastUsn(server, batch) \in Nat)
  <2>1. server.usn \in Nat
    BY DEF ServerStates
  <2>2. cl.sync.usn \in Nat
    BY <1>2
  <2> HIDE DEF cl
  <2> QED BY <2>1, <2>2, ChunkTakesFirst
<1> HIDE DEF cl, batch
<1>4. /\ deleted \subseteq Files /\ moved \subseteq deleted
      /\ To(cl, server, batch, "Download") \subseteq Files
      /\ To(cl, server, batch, "RemovePending") \subseteq Files
  BY <1>3 DEF To, Moved
<1> HIDE DEF deleted, moved
<1>5. CASE batch = {}
  <2>1. SendFrom(TRUE) \in SyncStates
    BY Stages
  <2>2. after = [cl EXCEPT !.sync = SendFrom(TRUE)]
    BY <1>5
  <2>3. after \in ClientStates /\ after.sync = SendFrom(TRUE) /\ SameButSync(after, cl)
    <3> DEFINE sent == SendFrom(TRUE)
    <3> HIDE DEF sent, after
    <3> QED BY <1>1, <2>1, <2>2, StageSet DEF SameButSync, sent
  <2> HIDE DEF after
  <2>4. Becomes(c, after)
    BY <1>2, <2>3 DEF Becomes
  <2> WITNESS after
  <2> QED BY <1>2, <1>5, <2>3, <2>4 DEF cl, batch, SameButSync
<1>6. CASE batch # {}
  <2>1. sync \in SyncStates
    <3>1. NoFiles \in SomeFiles(Data)
      BY NoFilesTyped
    <3>2. sync \in [pc : {"download"}, usn : Nat, todo : SUBSET Files, deleted : SUBSET Files,
                    clean : SUBSET Files, added : SomeFiles(Data)]
      <4> DEFINE tables == SomeFiles(Data)
                 last == LastUsn(server, batch)
                 todo == To(cl, server, batch, "Download")
                 clean == To(cl, server, batch, "RemovePending")
      <4>1. NoFiles \in tables /\ last \in Nat /\ todo \subseteq Files /\ clean \subseteq Files
        BY <1>3, <1>4, <1>6, <3>1
      <4>2. sync = [pc |-> "download", usn |-> last, todo |-> todo, deleted |-> deleted,
                    clean |-> clean, added |-> NoFiles]
        OBVIOUS
      <4> HIDE DEF tables, last, todo, clean, sync
      <4>3. sync \in [pc : {"download"}, usn : Nat, todo : SUBSET Files, deleted : SUBSET Files,
                      clean : SUBSET Files, added : tables]
        BY <1>4, <4>1, <4>2
      <4> QED BY <4>3 DEF tables
    <3> HIDE DEF sync
    <3> QED BY <3>2, Stages
  <2> HIDE DEF sync
  <2>2. /\ trashed \in ClientStates
        /\ trashed.seen = cl.seen /\ trashed.usn = cl.usn /\ trashed.gone = cl.gone
        /\ trashed.sync = cl.sync
        /\ \A f \in Files : trashed.disk[f] = IF f \in moved THEN Absent ELSE cl.disk[f]
        /\ DOMAIN trashed.db = DOMAIN cl.db
        /\ \A f \in DOMAIN cl.db :
              IF f \in deleted THEN trashed.db[f] = MediaEntry(Absent, TRUE, FALSE)
              ELSE /\ trashed.db[f].sha1 = cl.db[f].sha1
                   /\ trashed.db[f].sync_required = cl.db[f].sync_required
                   /\ trashed.db[f].fresh => cl.db[f].fresh
    <3>1. deleted \in SUBSET Files /\ moved \in SUBSET deleted
      BY <1>4
    <3>2. HasTrashed(cl, deleted, moved, trashed)
      BY <1>1, <3>1, Trashed
    <3> HIDE DEF trashed
    <3> QED BY <3>2 DEF HasTrashed
  <2> HIDE DEF trashed
  <2>3. /\ after \in ClientStates /\ after.sync = sync
        /\ after.disk = trashed.disk /\ after.db = trashed.db /\ after.seen = trashed.seen
        /\ after.usn = trashed.usn /\ after.gone = trashed.gone
    <3>1. after = [trashed EXCEPT !.sync = sync]
      BY <1>6
    <3> HIDE DEF after
    <3> QED BY <2>1, <2>2, <3>1, StageSet
  <2> HIDE DEF after
  <2>4. Becomes(c, after)
    BY <1>2, <2>3 DEF Becomes
  <2> WITNESS after
  <2>5. \A f \in DOMAIN cl.db : IF f \in deleted THEN after.db[f] = MediaEntry(Absent, TRUE, FALSE)
                                ELSE SameRow(after, cl, f)
    BY ZenonT(60), <2>2, <2>3 DEF SameRow
  <2>6. \A f \in Files : after.disk[f] = IF f \in moved THEN Absent ELSE cl.disk[f]
    BY <2>2, <2>3
  <2> QED BY <1>2, <1>6, <2>2, <2>3, <2>4, <2>5, <2>6 DEF cl, batch, deleted, moved, sync
<1> QED BY <1>5, <1>6

\* What the files of a zip are laid over: rows that have been marked clean.
LEMMA CleanedRows ==
  ASSUME NEW rows \in Rows, NEW S
  PROVE  /\ Cleaned(rows, S) \in Rows /\ DOMAIN Cleaned(rows, S) = DOMAIN rows
         /\ \A f \in DOMAIN rows :
              /\ Cleaned(rows, S)[f].sha1 = rows[f].sha1
              /\ Cleaned(rows, S)[f].fresh = rows[f].fresh
              /\ Cleaned(rows, S)[f].sync_required <=> rows[f].sync_required /\ f \notin S
<1>1. DOMAIN rows \subseteq Files /\ \A f \in DOMAIN rows : rows[f] \in Entries
  BY IsTable DEF Rows
<1>2. DOMAIN Cleaned(rows, S) = DOMAIN rows
      /\ Cleaned(rows, S) = [f \in DOMAIN Cleaned(rows, S) |-> Cleaned(rows, S)[f]]
  BY DEF Cleaned
<1>3. ASSUME NEW f \in DOMAIN rows
      PROVE  /\ Cleaned(rows, S)[f] \in Entries
             /\ Cleaned(rows, S)[f].sha1 = rows[f].sha1
             /\ Cleaned(rows, S)[f].fresh = rows[f].fresh
             /\ Cleaned(rows, S)[f].sync_required <=> rows[f].sync_required /\ f \notin S
  <2>1. rows[f] \in Entries
    BY <1>1
  <2>2. Cleaned(rows, S)[f] = IF f \in S THEN [rows[f] EXCEPT !.sync_required = FALSE] ELSE rows[f]
    BY SMTT(60) DEF Cleaned
  <2> QED BY <2>1, <2>2 DEF Entries
<1> QED BY <1>1, <1>2, <1>3, IsTable DEF Rows

\* What a download does: it ends the sync, or puts files in the folder.
LEMMA DownloadFilesStep ==
  ASSUME clients \in [Clients -> ClientStates], server \in ServerStates(server.usn),
         NEW c \in Clients, DownloadFiles(c)
  PROVE  \E after, S : LET cl == clients[c] IN
         /\ edits' = edits /\ failures' = failures
         /\ cl.sync.pc = "download" /\ Becomes(c, after)
         /\ S \subseteq cl.sync.todo /\ S # {} /\ (Cardinality(S) < ZipFiles => S = cl.sync.todo)
         /\ \/ /\ after.sync = Idle /\ SameButSync(after, cl)
               /\ \/ server' = server /\ \E f \in S : ~ Listed(server, f)
                  \/ \E f \in S : /\ Listed(server, f) /\ server.disk[f] = Absent
                                  /\ server' = ForgetMissingFile(server, f)
            \/ /\ server' = server /\ \A f \in S : Listed(server, f) /\ server.disk[f] # Absent
               /\ after.usn = cl.usn /\ after.gone = cl.gone \ S
               /\ after.sync = [cl.sync EXCEPT !.todo = cl.sync.todo \ S,
                     !.added = Over([f \in S |-> server.disk[f]], cl.sync.added)]
               /\ \A f \in Files : after.disk[f] = IF f \in S THEN server.disk[f] ELSE cl.disk[f]
               /\ \A f \in Files : SameRow(after, cl, f)
               /\ \A f \in S : f \in DOMAIN after.db => ~ after.db[f].fresh
<1> DEFINE cl == clients[c]
<1>1. cl \in ClientStates
  OBVIOUS
<1>2. PICK S \in SUBSET cl.sync.todo :
        /\ S # {} /\ Cardinality(S) <= ZipFiles
        /\ Cardinality(S) < ZipFiles => S = cl.sync.todo
        /\ LET lost == {f \in S : Listed(server, f) /\ server.disk[f] = Absent}
               data == [f \in S |-> server.disk[f]]
           IN CASE \E f \in S : ~Listed(server, f) ->
                     Continue(c, [cl EXCEPT !.sync = Idle]) /\ UNCHANGED server
                [] (\A f \in S : Listed(server, f)) /\ lost # {} ->
                     /\ Continue(c, [cl EXCEPT !.sync = Idle])
                     /\ \E f \in lost : server' = ForgetMissingFile(server, f)
                [] OTHER ->
                     /\ Continue(c, [SetFiles(cl, data) EXCEPT !.gone = cl.gone \ S,
                          !.sync = [cl.sync EXCEPT !.todo = cl.sync.todo \ S,
                                                   !.added = Over(data, cl.sync.added)]])
                     /\ UNCHANGED server
  BY DEF DownloadFiles
<1>3. edits' = edits /\ failures' = failures /\ cl.sync.pc = "download"
  BY DEF DownloadFiles, At
<1> DEFINE lost == {f \in S : Listed(server, f) /\ server.disk[f] = Absent}
           data == [f \in S |-> server.disk[f]]
           idle == [cl EXCEPT !.sync = Idle]
           filled == SetFiles(cl, data)
           sync == [cl.sync EXCEPT !.todo = cl.sync.todo \ S, !.added = Over(data, cl.sync.added)]
           after == [filled EXCEPT !.gone = cl.gone \ S, !.sync = sync]
<1> HIDE DEF cl
<1>4. CASE \E f \in S : ~Listed(server, f)
  <2>1. clients' = [clients EXCEPT ![c] = idle] /\ server' = server
    BY <1>2, <1>4 DEF Continue
  <2>2. Idle \in SyncStates
    BY Stages
  <2>3. idle \in ClientStates /\ idle.sync = Idle /\ SameButSync(idle, cl)
    BY <1>1, <2>2, StageSet DEF SameButSync
  <2> HIDE DEF idle
  <2>4. Becomes(c, idle)
    BY SMTT(60), <2>1, <2>3 DEF Becomes
  <2> WITNESS idle, S
  <2> QED BY <1>2, <1>3, <1>4, <2>1, <2>3, <2>4 DEF cl
<1>5. CASE (\A f \in S : Listed(server, f)) /\ lost # {}
  <2>1. clients' = [clients EXCEPT ![c] = idle] /\ \E f \in lost : server' = ForgetMissingFile(server, f)
    BY <1>2, <1>5 DEF Continue
  <2>2. Idle \in SyncStates
    BY Stages
  <2>3. idle \in ClientStates /\ idle.sync = Idle /\ SameButSync(idle, cl)
    BY <1>1, <2>2, StageSet DEF SameButSync
  <2> HIDE DEF idle
  <2>4. Becomes(c, idle)
    BY <2>1, <2>3 DEF Becomes
  <2> WITNESS idle, S
  <2> QED BY <1>2, <1>3, <2>1, <2>3, <2>4 DEF cl
<1>6. CASE (\A f \in S : Listed(server, f)) /\ lost = {}
  <2>1. clients' = [clients EXCEPT ![c] = after] /\ server' = server
    BY <1>2, <1>6 DEF Continue
  <2>2. \A f \in S : Listed(server, f) /\ server.disk[f] # Absent
    BY <1>6
  <2>3. /\ cl.sync \in [pc : {"download"}, usn : Nat, todo : SUBSET Files, deleted : SUBSET Files,
                       clean : SUBSET Files, added : SomeFiles(Data)]
        /\ cl.sync.todo \subseteq Files /\ cl.sync.added \in SomeFiles(Data)
    <3>1. cl.sync \in SyncStates
      BY <1>1, ClientFields
    <3> QED BY <1>3, <3>1, StageFields
  <2>4. server.disk \in [Files -> Data]
    BY DEF ServerStates
  <2>5. S \subseteq Files
    BY <1>2, <2>3
  <2>6. DOMAIN data = S /\ data \in SomeFiles(Data)
    <3>1. DOMAIN data = S /\ data = [f \in DOMAIN data |-> data[f]]
          /\ \A f \in S : data[f] = server.disk[f]
      OBVIOUS
    <3> HIDE DEF data
    <3>2. DOMAIN data \subseteq Files /\ \A f \in DOMAIN data : data[f] \in Data
      BY <2>4, <2>5, <3>1
    <3> QED BY <3>1, <3>2, IsTable
  <2>7. sync \in SyncStates
    <3> DEFINE tables == SomeFiles(Data)
               laid == Over(data, cl.sync.added)
    <3>1. laid \in tables
      BY <2>3, <2>6, OverTable
    <3>2. cl.sync \in [pc : {"download"}, usn : Nat, todo : SUBSET Files, deleted : SUBSET Files,
                      clean : SUBSET Files, added : tables]
      BY <2>3
    <3>3. sync = [cl.sync EXCEPT !.todo = cl.sync.todo \ S, !.added = laid]
      OBVIOUS
    <3> HIDE DEF tables, laid, sync
    <3>4. sync \in [pc : {"download"}, usn : Nat, todo : SUBSET Files, deleted : SUBSET Files,
                   clean : SUBSET Files, added : tables]
      BY <3>1, <3>2, <3>3
    <3> QED BY <3>4, Stages DEF tables
  <2>8. /\ filled \in ClientStates
        /\ filled.disk = Over(data, cl.disk) /\ filled.db = Stale(cl, DOMAIN data)
        /\ filled.usn = cl.usn
    BY <1>1, <2>6, FilesSet
  <2>9. \A f \in Files : Over(data, cl.disk)[f] = IF f \in S THEN server.disk[f] ELSE cl.disk[f]
    <3>1. DOMAIN cl.disk = Files
      BY <1>1, ClientFields
    <3> QED BY <2>5, <3>1 DEF Over
  <2>10. cl.gone \ S \subseteq Files
    BY <1>1, ClientFields
  <2>11. /\ DOMAIN Stale(cl, DOMAIN data) = DOMAIN cl.db
         /\ \A g \in DOMAIN cl.db :
              /\ Stale(cl, DOMAIN data)[g].sha1 = cl.db[g].sha1
              /\ Stale(cl, DOMAIN data)[g].sync_required = cl.db[g].sync_required
              /\ Stale(cl, DOMAIN data)[g].fresh => cl.db[g].fresh /\ g \notin DOMAIN data
    BY <1>1, StaleRows
  <2>12. sync = [cl.sync EXCEPT !.todo = cl.sync.todo \ S,
                     !.added = Over([f \in S |-> server.disk[f]], cl.sync.added)]
    OBVIOUS
  <2> HIDE DEF filled, sync, data
  <2>13. /\ after \in ClientStates /\ after.disk = filled.disk /\ after.db = filled.db
         /\ after.usn = filled.usn /\ after.gone = cl.gone \ S /\ after.sync = sync
    BY <2>7, <2>8, <2>10 DEF ClientStates
  <2> HIDE DEF after
  <2>14. Becomes(c, after)
    BY <2>1, <2>13 DEF Becomes
  <2>15. (\A f \in Files : SameRow(after, cl, f)) /\ \A f \in S : f \in DOMAIN after.db => ~ after.db[f].fresh
    BY <2>6, <2>8, <2>11, <2>13 DEF SameRow
  <2>16. \A f \in Files : after.disk[f] = IF f \in S THEN server.disk[f] ELSE cl.disk[f]
    BY <2>8, <2>9, <2>13
  <2> WITNESS after, S
  <2> QED BY <1>2, <1>3, <2>1, <2>2, <2>8, <2>12, <2>13, <2>14, <2>15, <2>16 DEF cl
<1> QED BY <1>4, <1>5, <1>6

\* What recording a batch does to the table and its number.
LEMMA RecordBatchStep ==
  ASSUME clients \in [Clients -> ClientStates], NEW c \in Clients, RecordBatch(c)
  PROVE  \E after : LET cl == clients[c] IN
         /\ Quiet /\ cl.sync.pc = "download" /\ cl.sync.todo = {} /\ Becomes(c, after)
         /\ after.disk = cl.disk /\ after.gone = cl.gone /\ after.seen
         /\ after.usn = cl.sync.usn /\ after.sync = [pc |-> "fetch", usn |-> cl.sync.usn]
         /\ DOMAIN after.db = DOMAIN cl.sync.added \cup (DOMAIN cl.db \ cl.sync.deleted)
         /\ \A f \in DOMAIN after.db :
              IF f \in DOMAIN cl.sync.added
              THEN after.db[f] = MediaEntry(cl.sync.added[f], FALSE, FALSE)
              ELSE /\ after.db[f].sha1 = cl.db[f].sha1 /\ after.db[f].fresh = cl.db[f].fresh
                   /\ after.db[f].sync_required <=> cl.db[f].sync_required /\ f \notin cl.sync.clean
<1> DEFINE cl == clients[c]
           added == [f \in DOMAIN cl.sync.added |-> MediaEntry(cl.sync.added[f], FALSE, FALSE)]
           clean == Cleaned(cl.db, cl.sync.clean)
           kept == [f \in DOMAIN clean \ cl.sync.deleted |-> clean[f]]
           db == Over(added, kept)
           sync == [pc |-> "fetch", usn |-> cl.sync.usn]
           after == [cl EXCEPT !.db = db, !.usn = cl.sync.usn, !.seen = TRUE, !.sync = sync]
<1>1. cl \in ClientStates
  OBVIOUS
<1>2. Quiet /\ cl.sync.pc = "download" /\ cl.sync.todo = {} /\ clients' = [clients EXCEPT ![c] = after]
  BY DEF RecordBatch, Continue, At, Quiet
<1> HIDE DEF cl
<1>3. cl.sync.usn \in Nat /\ cl.sync.added \in SomeFiles(Data)
  <2>1. cl.sync \in SyncStates
    BY <1>1, ClientFields
  <2> QED BY <1>2, <2>1, StageFields
<1>4. DOMAIN added = DOMAIN cl.sync.added /\ (\A f \in DOMAIN added : added[f] = MediaEntry(cl.sync.added[f], FALSE, FALSE))
      /\ added = [f \in DOMAIN added |-> added[f]]
  OBVIOUS
<1>5. DOMAIN kept = DOMAIN clean \ cl.sync.deleted /\ (\A f \in DOMAIN kept : kept[f] = clean[f])
      /\ kept = [f \in DOMAIN kept |-> kept[f]]
  OBVIOUS
<1>6. /\ clean \in Rows /\ DOMAIN clean = DOMAIN cl.db
      /\ \A f \in DOMAIN cl.db :
           /\ clean[f].sha1 = cl.db[f].sha1 /\ clean[f].fresh = cl.db[f].fresh
           /\ clean[f].sync_required <=> cl.db[f].sync_required /\ f \notin cl.sync.clean
  <2>1. cl.db \in Rows
    BY <1>1, ClientFields
  <2> QED BY <2>1, CleanedRows
<1> HIDE DEF added, kept, clean
<1>7. added \in SomeFiles(Entries)
  <2>1. DOMAIN cl.sync.added \subseteq Files /\ \A f \in DOMAIN cl.sync.added : cl.sync.added[f] \in Data
    BY <1>3, IsTable
  <2>2. \A d \in Data : MediaEntry(d, FALSE, FALSE) \in Entries
    BY DEF MediaEntry, Entries
  <2>3. DOMAIN added \subseteq Files /\ \A f \in DOMAIN added : added[f] \in Entries
    BY <1>4, <2>1, <2>2
  <2> QED BY <1>4, <2>3, IsTable
<1>8. kept \in SomeFiles(Entries)
  <2>1. DOMAIN clean \subseteq Files /\ \A f \in DOMAIN clean : clean[f] \in Entries
    BY <1>6, IsTable DEF Rows
  <2>2. DOMAIN kept \subseteq Files /\ \A f \in DOMAIN kept : kept[f] \in Entries
    BY <1>5, <2>1
  <2> QED BY <1>5, <2>2, IsTable
<1>9. db \in Rows
  BY <1>7, <1>8, OverTable DEF Rows
<1>10. /\ DOMAIN db = DOMAIN added \cup DOMAIN kept
       /\ \A f \in DOMAIN db : db[f] = IF f \in DOMAIN added THEN added[f] ELSE kept[f]
  BY DEF Over
<1>11. sync \in SyncStates
  BY <1>3, Stages
<1>12. sync = [pc |-> "fetch", usn |-> cl.sync.usn]
  OBVIOUS
<1> HIDE DEF db, sync
<1>13. /\ after \in ClientStates /\ after.disk = cl.disk /\ after.gone = cl.gone /\ after.seen
       /\ after.usn = cl.sync.usn /\ after.sync = sync /\ after.db = db
  BY <1>1, <1>3, <1>9, <1>11 DEF ClientStates, Rows, Entries
<1> HIDE DEF after
<1>14. Becomes(c, after)
  BY <1>2, <1>13 DEF Becomes
<1>15. DOMAIN db = DOMAIN cl.sync.added \cup (DOMAIN cl.db \ cl.sync.deleted)
  BY <1>4, <1>5, <1>6, <1>10
<1>16. \A f \in DOMAIN db :
         IF f \in DOMAIN cl.sync.added THEN db[f] = MediaEntry(cl.sync.added[f], FALSE, FALSE)
         ELSE /\ db[f].sha1 = cl.db[f].sha1 /\ db[f].fresh = cl.db[f].fresh
              /\ db[f].sync_required <=> cl.db[f].sync_required /\ f \notin cl.sync.clean
  BY ZenonT(60), <1>4, <1>5, <1>6, <1>10
<1> WITNESS after
<1> QED BY <1>2, <1>12, <1>13, <1>14, <1>15, <1>16 DEF cl

---------------------------------------------------------------------------
(* The server takes an upload. *)

ListedFiles(srv) == {f \in Files : Listed(srv, f)}
Removals(srv, zip) == {f \in Registered(srv, zip) : zip[f] = Absent}

\* Places in an order of files are different and count up to their number.
LEMMA Places ==
  ASSUME NEW S \in SUBSET Files
  PROVE  /\ \A f \in S : Cardinality({g \in S : g <= f}) \in 1..Cardinality(S)
         /\ \A f, h \in S : Cardinality({g \in S : g <= f}) = Cardinality({g \in S : g <= h}) => f = h
<1> DEFINE upto(f) == {g \in S : g <= f}
<1>1. S \subseteq Nat
  BY MediaAssumption
<1>2. IsFiniteSet(S) /\ Cardinality(S) \in Nat
  BY FilesFinite
<1>3. ASSUME NEW f \in S
      PROVE  /\ IsFiniteSet(upto(f)) /\ Cardinality(upto(f)) \in Nat
             /\ upto(f) \subseteq S /\ f \in upto(f)
  <2>1. upto(f) \in SUBSET Files /\ upto(f) \subseteq S
    OBVIOUS
  <2>2. f \in upto(f)
    BY <1>1
  <2> HIDE DEF upto
  <2> QED BY <2>1, <2>2, FilesFinite
<1>4. ASSUME NEW f \in S
      PROVE  Cardinality(upto(f)) \in 1..Cardinality(S)
  <2> HIDE DEF upto
  <2>1. Cardinality(upto(f)) <= Cardinality(S)
    BY <1>2, <1>3, FS_Subset
  <2>2. Cardinality(upto(f)) # 0
    BY <1>3, FS_EmptySet
  <2> QED BY <1>2, <1>3, <2>1, <2>2
<1>5. ASSUME NEW f \in S, NEW h \in S, f < h
      PROVE  Cardinality(upto(f)) # Cardinality(upto(h))
  <2>0. f \in Nat /\ h \in Nat
    BY <1>1
  <2>1. h \in upto(h) /\ h \notin upto(f)
    BY <1>5, <2>0
  <2>2. upto(f) \subseteq upto(h)
    <3>1. ASSUME NEW g \in S, g <= f
          PROVE  g <= h
      BY <1>1, <1>5, <2>0, <3>1
    <3> QED BY <3>1
  <2> HIDE DEF upto
  <2> QED BY <1>3, <2>1, <2>2, FS_Subset
<1>6. ASSUME NEW f \in S, NEW h \in S, Cardinality(upto(f)) = Cardinality(upto(h))
      PROVE  f = h
  <2>1. f \in Nat /\ h \in Nat
    BY <1>1
  <2>2. ~ (f < h) /\ ~ (h < f)
    BY <1>5, <1>6
  <2> QED BY <2>1, <2>2
<1> QED BY <1>4, <1>6

\* What a zip leaves on the server: its new files have numbers of their own, one after another.
LEMMA ZipRegistered ==
  ASSUME NEW srv, srv \in ServerStates(srv.usn), NEW zip \in SomeFiles(Data)
  PROVE  LET new == Registered(srv, zip)
             after == RegisterAll(srv, zip) IN
         /\ new \subseteq DOMAIN zip /\ new \subseteq Files /\ Cardinality(new) \in Nat
         /\ after.usn \in Nat /\ after.usn = srv.usn + Cardinality(new)
         /\ DOMAIN after.entries = new \cup DOMAIN srv.entries
         /\ \A f \in new : /\ after.entries[f].sha1 = zip[f]
                           /\ after.entries[f].usn \in Nat /\ after.entries[f].usn > srv.usn
                           /\ after.entries[f].usn <= after.usn
         /\ \A f, g \in new : after.entries[f].usn = after.entries[g].usn => f = g
         /\ \A f \in DOMAIN srv.entries \ new : after.entries[f] = srv.entries[f]
         /\ after.disk \in [Files -> Data]
         /\ \A f \in Files : after.disk[f] = IF f \in new THEN zip[f] ELSE srv.disk[f]
         /\ after.entries \in ServerRows(after.usn)
         /\ after.count = (srv.count + Cardinality(NewlyListed(srv, zip)))
                            - Cardinality(Removals(srv, zip))
         /\ after = [disk |-> after.disk, entries |-> after.entries, usn |-> after.usn,
                     count |-> after.count]
<1> DEFINE new == Registered(srv, zip)
           place(f) == Cardinality({g \in new : g <= f})
           after == RegisterAll(srv, zip)
           rows == [f \in new |-> ServerEntry(zip[f], srv.usn + place(f))]
           data == [f \in new |-> zip[f]]
<1>1. /\ DOMAIN zip \subseteq Files /\ \A f \in DOMAIN zip : zip[f] \in Data
  BY IsTable
<1>2. new \subseteq DOMAIN zip /\ new \subseteq Files
  BY <1>1 DEF Registered
<1>3. Cardinality(new) \in Nat
  BY <1>2, FilesFinite
<1>4. /\ srv.usn \in Nat /\ srv.disk \in [Files -> Data] /\ srv.entries \in ServerRows(srv.usn)
  BY DEF ServerStates, ServerRows
<1>5. DOMAIN srv.entries \subseteq Files
      /\ \A f \in DOMAIN srv.entries : srv.entries[f] \in [sha1 : Data, usn : 1..srv.usn]
  BY <1>4, ServerFields
<1>6. /\ after.disk = Over(data, srv.disk) /\ after.entries = Over(rows, srv.entries)
      /\ after.usn = srv.usn + Cardinality(new)
      /\ after.count = (srv.count + Cardinality(NewlyListed(srv, zip)))
                         - Cardinality(Removals(srv, zip))
      /\ after = [disk |-> after.disk, entries |-> after.entries, usn |-> after.usn,
                  count |-> after.count]
  BY DEF RegisterAll, Removals
<1> HIDE DEF after
<1>7. /\ \A f \in new : place(f) \in 1..Cardinality(new)
      /\ \A f, g \in new : place(f) = place(g) => f = g
  <2> HIDE DEF new
  <2> QED BY <1>2, Places
<1>8. DOMAIN data = new /\ (\A f \in new : data[f] = zip[f]) /\ data = [f \in DOMAIN data |-> data[f]]
  OBVIOUS
<1>9. DOMAIN rows = new /\ (\A f \in new : rows[f] = ServerEntry(zip[f], srv.usn + place(f)))
      /\ rows = [f \in DOMAIN rows |-> rows[f]]
  OBVIOUS
<1> HIDE DEF new, place, rows, data
<1>10. data \in SomeFiles(Data)
  <2>1. DOMAIN data \subseteq Files /\ \A f \in DOMAIN data : data[f] \in Data
    BY <1>1, <1>2, <1>8
  <2> QED BY <1>8, <2>1, IsTable
<1>11. after.disk \in [Files -> Data]
  BY <1>4, <1>6, <1>10, OverFolder
<1>12. \A f \in Files : after.disk[f] = IF f \in new THEN zip[f] ELSE srv.disk[f]
  <2>1. DOMAIN srv.disk = Files
    BY <1>4
  <2> QED BY <1>6, <1>8, <2>1 DEF Over
<1>13. DOMAIN after.entries = new \cup DOMAIN srv.entries
       /\ after.entries = [f \in DOMAIN after.entries |-> after.entries[f]]
       /\ \A f \in DOMAIN after.entries :
            after.entries[f] = IF f \in new THEN ServerEntry(zip[f], srv.usn + place(f)) ELSE srv.entries[f]
  BY <1>6, <1>9 DEF Over
<1>14. ASSUME NEW f \in new
       PROVE  /\ after.entries[f].sha1 = zip[f] /\ after.entries[f].usn = srv.usn + place(f)
              /\ after.entries[f].usn \in Nat /\ after.entries[f].usn > srv.usn
              /\ after.entries[f].usn <= after.usn
              /\ after.entries[f] \in [sha1 : Data, usn : 1..after.usn]
  <2>1. after.entries[f] = ServerEntry(zip[f], srv.usn + place(f))
    BY <1>13
  <2>2. place(f) \in Nat /\ place(f) >= 1 /\ place(f) <= Cardinality(new)
    BY <1>3, <1>7
  <2>3. srv.usn + place(f) \in 1..after.usn
    BY <1>3, <1>4, <1>6, <2>2
  <2>4. zip[f] \in Data
    BY <1>1, <1>2
  <2> QED BY <1>3, <1>4, <1>6, <2>1, <2>2, <2>3, <2>4 DEF ServerEntry
<1>15. \A f, g \in new : after.entries[f].usn = after.entries[g].usn => f = g
  <2> TAKE f \in new, g \in new
  <2>1. place(f) \in Nat /\ place(g) \in Nat
    BY <1>3, <1>7
  <2> QED BY <1>4, <1>7, <1>14, <2>1
<1>16. \A f \in DOMAIN srv.entries \ new : after.entries[f] = srv.entries[f]
  BY <1>13
<1>17. after.entries \in ServerRows(after.usn)
  <2>1. ASSUME NEW f \in DOMAIN srv.entries \ new
        PROVE  after.entries[f] \in [sha1 : Data, usn : 1..after.usn]
    <3>1. srv.entries[f] \in [sha1 : Data, usn : 1..srv.usn] /\ after.entries[f] = srv.entries[f]
      BY <1>5, <1>16
    <3>2. srv.entries[f].usn \in 1..after.usn
      BY <1>3, <1>4, <1>6, <3>1
    <3> QED BY <3>1, <3>2
  <2>2. DOMAIN after.entries \subseteq Files
        /\ \A f \in DOMAIN after.entries : after.entries[f] \in [sha1 : Data, usn : 1..after.usn]
    BY <1>2, <1>5, <1>13, <1>14, <2>1
  <2> QED BY <1>13, <2>2, IsTable DEF ServerRows
<1>18. after.usn \in Nat
  BY <1>3, <1>4, <1>6
<1> QED BY <1>2, <1>3, <1>6, <1>11, <1>12, <1>13, <1>14, <1>15, <1>16, <1>17, <1>18 DEF new, after

\* The number of files that is kept beside the rows is that of the files listed.
LEMMA CountKept ==
  ASSUME NEW srv, srv \in ServerStates(srv.usn), NEW zip \in SomeFiles(Data),
         srv.count = Cardinality(ListedFiles(srv))
  PROVE  LET after == RegisterAll(srv, zip) IN
         /\ after.count = Cardinality(ListedFiles(after)) /\ after.count \in Nat
         /\ after \in ServerStates(after.usn)
<1> DEFINE new == Registered(srv, zip)
           after == RegisterAll(srv, zip)
           listed == ListedFiles(srv)
           added == NewlyListed(srv, zip)
           removed == Removals(srv, zip)
<1>1. /\ new \subseteq DOMAIN zip /\ new \subseteq Files
      /\ DOMAIN after.entries = new \cup DOMAIN srv.entries
      /\ \A f \in new : after.entries[f].sha1 = zip[f]
      /\ \A f \in DOMAIN srv.entries \ new : after.entries[f] = srv.entries[f]
      /\ after.count = (srv.count + Cardinality(added)) - Cardinality(removed)
      /\ after.usn \in Nat /\ after.disk \in [Files -> Data] /\ after.entries \in ServerRows(after.usn)
      /\ after = [disk |-> after.disk, entries |-> after.entries, usn |-> after.usn,
                  count |-> after.count]
  BY ZipRegistered
<1> HIDE DEF after
<1>2. removed \subseteq listed
  <2>1. \A f \in new : zip[f] # ServerSha1(srv, f)
    BY DEF Registered
  <2> QED BY <1>1, <2>1 DEF ListedFiles, Listed, ServerSha1, Removals
<1>3. added \subseteq Files /\ added \cap listed = {} /\ listed \subseteq Files
  BY <1>1 DEF NewlyListed, ListedFiles
<1>4. ListedFiles(after) = (listed \cup added) \ removed
  <2>1. ASSUME NEW f \in Files
        PROVE  Listed(after, f) <=> f \in (listed \cup added) \ removed
    <3>1. CASE f \in new
      <4>1. Listed(after, f) <=> zip[f] # Absent
        BY <1>1, <3>1 DEF Listed
      <4>2. f \in added <=> zip[f] # Absent /\ ~ Listed(srv, f)
        BY <3>1 DEF NewlyListed
      <4>3. f \in removed <=> zip[f] = Absent
        BY <3>1 DEF Removals
      <4>4. f \in listed <=> Listed(srv, f)
        BY DEF ListedFiles
      <4> HIDE DEF removed, listed, added, new
      <4> QED BY <4>1, <4>2, <4>3, <4>4
    <3>2. CASE f \notin new
      <4>1. Listed(after, f) <=> Listed(srv, f)
        BY <1>1, <3>2 DEF Listed
      <4>2. f \notin added /\ f \notin removed
        BY <3>2 DEF NewlyListed, Removals
      <4> QED BY <4>1, <4>2 DEF ListedFiles
    <3> QED BY <3>1, <3>2
  <2> HIDE DEF listed, added, removed
  <2> QED BY <1>3, <2>1 DEF ListedFiles
<1> HIDE DEF listed, added, removed, new
<1>5. /\ IsFiniteSet(listed) /\ IsFiniteSet(added) /\ Cardinality(listed) \in Nat
      /\ Cardinality(added) \in Nat
  BY <1>3, FilesFinite
<1>6. IsFiniteSet(removed) /\ Cardinality(removed) \in Nat
  <2>1. removed \subseteq Files
    BY <1>2, <1>3
  <2> QED BY <2>1, FilesFinite
<1>7. IsFiniteSet(listed \cup added) /\ Cardinality(listed \cup added) = Cardinality(listed) + Cardinality(added)
  <2>1. listed \cap added = {}
    BY <1>3
  <2>2. Cardinality(listed \cup added) = Cardinality(listed) + Cardinality(added) - Cardinality(listed \cap added)
        /\ IsFiniteSet(listed \cup added)
    BY <1>5, FS_Union
  <2>3. Cardinality(listed \cap added) = 0
    BY <2>1, FS_EmptySet
  <2> QED BY <1>5, <2>2, <2>3
<1>8. Cardinality((listed \cup added) \ removed) = Cardinality(listed \cup added) - Cardinality(removed)
  <2>1. (listed \cup added) \cap removed = removed
    BY <1>2
  <2>2. Cardinality((listed \cup added) \ removed)
          = Cardinality(listed \cup added) - Cardinality((listed \cup added) \cap removed)
    BY <1>7, FS_Difference
  <2> QED BY <2>1, <2>2
<1>9. after.count = Cardinality(ListedFiles(after))
  <2>1. srv.count = Cardinality(listed)
    BY DEF listed
  <2>2. after.count = (srv.count + Cardinality(added)) - Cardinality(removed)
    BY <1>1
  <2> QED BY <1>4, <1>7, <1>8, <2>1, <2>2
<1>10. after.count \in Nat
  <2>1. ListedFiles(after) \in SUBSET Files
    BY DEF ListedFiles
  <2> QED BY <1>9, <2>1, FilesFinite
<1>11. after \in ServerStates(after.usn)
  <2> DEFINE rows == SomeFiles([sha1 : Data, usn : 1..after.usn])
             disk == after.disk
             entries == after.entries
             usn == after.usn
             count == after.count
  <2>1. entries \in rows /\ disk \in [Files -> Data] /\ usn \in Nat /\ count \in Nat
    BY <1>1, <1>10 DEF ServerRows
  <2>2. after = [disk |-> disk, entries |-> entries, usn |-> usn, count |-> count]
    BY <1>1
  <2>3. ServerStates(after.usn) = [disk : [Files -> Data], usn : Nat, count : Nat, entries : rows]
    BY DEF ServerStates
  <2> HIDE DEF rows, disk, entries, usn, count
  <2>4. [disk |-> disk, entries |-> entries, usn |-> usn, count |-> count]
          \in [disk : [Files -> Data], usn : Nat, count : Nat, entries : rows]
    BY <2>1
  <2> QED BY <2>2, <2>3, <2>4
<1> QED BY <1>9, <1>10, <1>11 DEF after

\* A zip of the files in the table that wait to be uploaded, or the sync is over.
LEMMA GatherUploadStep ==
  ASSUME clients \in [Clients -> ClientStates], NEW c \in Clients, GatherUpload(c)
  PROVE  \E after : LET cl == clients[c] IN
         /\ Quiet /\ cl.sync.pc = "send" /\ Becomes(c, after) /\ SameButSync(after, cl)
         /\ \/ Pending(cl) = {} /\ after.sync \in {[pc |-> "sanity"], Idle}
            \/ /\ after.sync.pc = "upload" /\ after.sync.zip \in SomeFiles(Data)
               /\ DOMAIN after.sync.zip \subseteq Pending(cl)
               /\ \A f \in DOMAIN after.sync.zip : after.sync.zip[f] =
                    IF Sha1(cl, f) = Absent THEN Absent ELSE cl.disk[f]
<1> DEFINE cl == clients[c]
<1>1. cl \in ClientStates
  OBVIOUS
<1>2. Quiet /\ cl.sync.pc = "send"
  BY DEF GatherUpload, At, Quiet
<1>3. CASE Pending(cl) = {}
  <2> DEFINE sync == IF cl.sync.acted THEN [pc |-> "sanity"] ELSE Idle
             after == [cl EXCEPT !.sync = sync]
  <2>1. clients' = [clients EXCEPT ![c] = after]
    BY <1>3 DEF GatherUpload, Continue
  <2>2. sync \in SyncStates /\ sync \in {[pc |-> "sanity"], Idle}
    BY Stages
  <2> HIDE DEF cl, sync
  <2>3. after \in ClientStates /\ after.sync = sync /\ SameButSync(after, cl)
    BY <1>1, <2>2, StageSet DEF SameButSync
  <2> HIDE DEF after
  <2>4. Becomes(c, after)
    BY <2>1, <2>3 DEF Becomes
  <2> WITNESS after
  <2> QED BY <1>2, <1>3, <2>2, <2>3, <2>4 DEF cl
<1>4. CASE Pending(cl) # {}
  <2> DEFINE zip(S) == [f \in S |-> IF Sha1(cl, f) = Absent THEN Absent ELSE cl.disk[f]]
  <2>1. PICK S \in SUBSET Pending(cl) :
          clients' = [clients EXCEPT ![c] = [cl EXCEPT !.sync = [pc |-> "upload", zip |-> zip(S)]]]
    BY <1>4 DEF GatherUpload, Continue
  <2> DEFINE files == zip(S)
             sync == [pc |-> "upload", zip |-> files]
             after == [cl EXCEPT !.sync = sync]
  <2>2. clients' = [clients EXCEPT ![c] = after]
    BY <2>1
  <2> HIDE DEF cl
  <2>3. cl.disk \in [Files -> Data] /\ S \subseteq Files
    <3>1. DOMAIN cl.db \subseteq Files /\ cl.disk \in [Files -> Data]
      BY <1>1, ClientFields DEF Folders
    <3> QED BY <3>1 DEF Pending
  <2>4. DOMAIN files = S /\ files = [f \in DOMAIN files |-> files[f]]
        /\ \A f \in S : files[f] = IF Sha1(cl, f) = Absent THEN Absent ELSE cl.disk[f]
    OBVIOUS
  <2> HIDE DEF files
  <2>5. files \in SomeFiles(Data)
    <3>1. DOMAIN files \subseteq Files /\ \A f \in DOMAIN files : files[f] \in Data
      BY <2>3, <2>4, AbsentIsData
    <3> QED BY <2>4, <3>1, IsTable
  <2>6. sync \in SyncStates
    BY <2>5, Stages
  <2>7. sync.pc = "upload" /\ sync.zip = files
    OBVIOUS
  <2> HIDE DEF sync
  <2>8. after \in ClientStates /\ after.sync = sync /\ SameButSync(after, cl)
    BY <1>1, <2>6, StageSet DEF SameButSync
  <2> HIDE DEF after
  <2>9. Becomes(c, after)
    BY <2>2, <2>8 DEF Becomes
  <2> WITNESS after
  <2> QED BY <1>2, <2>4, <2>5, <2>7, <2>8, <2>9 DEF cl
<1> QED BY <1>3, <1>4

\* The server takes the zip.
LEMMA UploadChangesStep ==
  ASSUME clients \in [Clients -> ClientStates], server \in ServerStates(server.usn),
         NEW c \in Clients, UploadChanges(c)
  PROVE  \E after : LET cl == clients[c] IN
         /\ edits' = edits /\ failures' = failures
         /\ cl.sync.pc = "upload" /\ cl.sync.zip \in SomeFiles(Data)
         /\ Becomes(c, after) /\ SameButSync(after, cl)
         /\ server' = RegisterAll(server, cl.sync.zip)
         /\ after.sync = [pc |-> "reply", files |-> DOMAIN cl.sync.zip, usn |-> server'.usn]
         /\ "half_download" \in Faults \/ \A d \in Clients : ~ LosesDownload(d, server')
<1> DEFINE cl == clients[c]
           sync == [pc |-> "reply", files |-> DOMAIN cl.sync.zip, usn |-> server'.usn]
           after == [cl EXCEPT !.sync = sync]
<1>1. cl \in ClientStates
  OBVIOUS
<1>2. /\ edits' = edits /\ failures' = failures /\ cl.sync.pc = "upload"
      /\ server' = RegisterAll(server, cl.sync.zip) /\ clients' = [clients EXCEPT ![c] = after]
      /\ "half_download" \in Faults \/ \A d \in Clients : ~ LosesDownload(d, server')
  BY DEF UploadChanges, At, Continue
<1> HIDE DEF cl
<1>3. cl.sync.zip \in SomeFiles(Data)
  <2>1. cl.sync \in SyncStates
    BY <1>1, ClientFields
  <2> QED BY <1>2, <2>1, StageFields
<1>4. server'.usn \in Nat
  BY <1>2, <1>3, ZipRegistered
<1>5. DOMAIN cl.sync.zip \subseteq Files
  BY <1>3, IsTable
<1>6. sync \in SyncStates
  BY <1>4, <1>5, Stages
<1>7. sync = [pc |-> "reply", files |-> DOMAIN cl.sync.zip, usn |-> server'.usn]
  OBVIOUS
<1> HIDE DEF sync
<1>8. after \in ClientStates /\ after.sync = sync /\ SameButSync(after, cl)
  BY <1>1, <1>6, StageSet DEF SameButSync
<1> HIDE DEF after
<1>9. Becomes(c, after)
  BY <1>2, <1>8 DEF Becomes
<1> WITNESS after
<1> QED BY <1>2, <1>3, <1>7, <1>8, <1>9 DEF cl

\* The client marks what it has sent as clean.
LEMMA RecordUploadStep ==
  ASSUME clients \in [Clients -> ClientStates], NEW c \in Clients, RecordUpload(c)
  PROVE  \E after : LET cl == clients[c] IN
         /\ Quiet /\ cl.sync.pc = "reply" /\ Becomes(c, after)
         /\ after.disk = cl.disk /\ after.gone = cl.gone /\ after.seen = cl.seen
         /\ after.sync = SendFrom(TRUE)
         /\ after.usn = IF cl.usn + Cardinality(cl.sync.files) = cl.sync.usn
                        THEN cl.sync.usn ELSE cl.usn
         /\ DOMAIN after.db = DOMAIN cl.db
         /\ \A f \in DOMAIN cl.db :
              /\ after.db[f].sha1 = cl.db[f].sha1 /\ after.db[f].fresh = cl.db[f].fresh
              /\ after.db[f].sync_required <=> cl.db[f].sync_required /\ f \notin cl.sync.files
<1> DEFINE cl == clients[c]
           usn == IF cl.usn + Cardinality(cl.sync.files) = cl.sync.usn THEN cl.sync.usn ELSE cl.usn
           db == Cleaned(cl.db, cl.sync.files)
           sync == SendFrom(TRUE)
           after == [cl EXCEPT !.db = db, !.sync = sync, !.usn = usn]
<1>1. cl \in ClientStates
  OBVIOUS
<1>2. Quiet /\ cl.sync.pc = "reply" /\ clients' = [clients EXCEPT ![c] = after]
  BY DEF RecordUpload, Continue, At, Quiet
<1> HIDE DEF cl
<1>3. cl.usn \in Nat /\ cl.sync.usn \in Nat /\ cl.db \in Rows
  <2>1. cl.sync \in SyncStates
    BY <1>1, ClientFields
  <2> QED BY <1>1, <1>2, <2>1, ClientFields, StageFields
<1>4. usn \in Nat
  BY <1>3
<1>5. usn = IF cl.usn + Cardinality(cl.sync.files) = cl.sync.usn THEN cl.sync.usn ELSE cl.usn
  OBVIOUS
<1> HIDE DEF usn
<1>6. /\ db \in Rows /\ DOMAIN db = DOMAIN cl.db
      /\ \A f \in DOMAIN cl.db :
              /\ db[f].sha1 = cl.db[f].sha1 /\ db[f].fresh = cl.db[f].fresh
              /\ db[f].sync_required <=> cl.db[f].sync_required /\ f \notin cl.sync.files
  BY <1>3, CleanedRows
<1>7. sync \in SyncStates /\ sync = SendFrom(TRUE)
  BY Stages
<1> HIDE DEF db, sync
<1>8. /\ after \in ClientStates /\ after.disk = cl.disk /\ after.gone = cl.gone
      /\ after.seen = cl.seen /\ after.sync = sync /\ after.usn = usn /\ after.db = db
  BY <1>1, <1>4, <1>6, <1>7 DEF ClientStates, Rows, Entries
<1> HIDE DEF after
<1>9. Becomes(c, after)
  BY <1>2, <1>8 DEF Becomes
<1> WITNESS after
<1> QED BY <1>2, <1>5, <1>6, <1>7, <1>8, <1>9 DEF cl

\* The sync ends; the client starts over if the server keeps another number of files.
LEMMA FinalizeSyncStep ==
  ASSUME clients \in [Clients -> ClientStates], NEW c \in Clients, FinalizeSync(c)
  PROVE  \E after : LET cl == clients[c] IN
         /\ Quiet /\ cl.sync.pc = "sanity" /\ Becomes(c, after) /\ after.sync = Idle
         /\ after.disk = cl.disk /\ after.gone = cl.gone
         /\ \/ SameButSync(after, cl)
            \/ DOMAIN after.db = {} /\ after.usn = 0 /\ ~ after.seen
<1> DEFINE cl == clients[c]
           sync == Idle
           ended == [cl EXCEPT !.sync = sync]
           again == [ended EXCEPT !.db = NoFiles, !.usn = 0, !.seen = FALSE]
<1>1. cl \in ClientStates
  OBVIOUS
<1>2. /\ Quiet /\ cl.sync.pc = "sanity"
      /\ clients' = [clients EXCEPT ![c] = ended] \/ clients' = [clients EXCEPT ![c] = again]
  BY DEF FinalizeSync, Continue, At, Quiet, ForceResync
<1> HIDE DEF cl
<1>3. sync \in SyncStates /\ sync = Idle
  BY Stages
<1> HIDE DEF sync
<1>4. ended \in ClientStates /\ ended.sync = Idle /\ SameButSync(ended, cl)
  BY <1>1, <1>3, StageSet DEF SameButSync
<1> HIDE DEF ended
<1>5. /\ again \in ClientStates /\ again.sync = Idle /\ again.disk = cl.disk /\ again.gone = cl.gone
      /\ DOMAIN again.db = {} /\ again.usn = 0 /\ ~ again.seen
  <2> DEFINE none == NoFiles
  <2>1. none \in Rows /\ DOMAIN none = {}
    BY NoFilesTyped DEF Rows
  <2> HIDE DEF none
  <2>2. /\ [ended EXCEPT !.db = none, !.usn = 0, !.seen = FALSE] \in ClientStates
        /\ LET now == [ended EXCEPT !.db = none, !.usn = 0, !.seen = FALSE] IN
           /\ now.sync = ended.sync /\ now.disk = ended.disk /\ now.gone = ended.gone
           /\ now.db = none /\ now.usn = 0 /\ ~ now.seen
    BY <1>4, <2>1 DEF ClientStates, Rows, Entries
  <2>3. again = [ended EXCEPT !.db = none, !.usn = 0, !.seen = FALSE]
    BY DEF none
  <2> HIDE DEF again
  <2> QED BY <1>4, <2>1, <2>2, <2>3 DEF SameButSync
<1> HIDE DEF again
<1>6. CASE clients' = [clients EXCEPT ![c] = ended]
  <2>1. Becomes(c, ended)
    BY <1>4, <1>6 DEF Becomes
  <2> WITNESS ended
  <2> QED BY <1>2, <1>4, <2>1 DEF SameButSync, cl
<1>7. CASE clients' = [clients EXCEPT ![c] = again]
  <2>1. Becomes(c, again)
    BY <1>5, <1>7 DEF Becomes
  <2> WITNESS again
  <2> QED BY <1>2, <1>5, <2>1 DEF cl
<1> QED BY <1>2, <1>6, <1>7

\* A sync is cut short.
LEMMA AbortSyncStep ==
  ASSUME clients \in [Clients -> ClientStates], NEW c \in Clients, AbortSync(c)
  PROVE  \E after : LET cl == clients[c] IN
         /\ server' = server /\ edits' = edits /\ failures' = failures + 1
         /\ Becomes(c, after) /\ SameButSync(after, cl) /\ after.sync = Idle
         /\ cl.sync.pc # "idle"
         /\ cl.sync.pc = "download" /\ DOMAIN cl.sync.added # {} => "half_download" \in Faults
<1> DEFINE cl == clients[c]
           sync == Idle
           after == [cl EXCEPT !.sync = sync]
<1>1. cl \in ClientStates
  OBVIOUS
<1>2. /\ server' = server /\ edits' = edits /\ failures' = failures + 1 /\ cl.sync.pc # "idle"
      /\ clients' = [clients EXCEPT ![c] = after]
      /\ cl.sync.pc = "download" /\ DOMAIN cl.sync.added # {} => "half_download" \in Faults
  BY DEF AbortSync, Continue, At
<1> HIDE DEF cl
<1>3. sync \in SyncStates /\ sync = Idle
  BY Stages
<1> HIDE DEF sync
<1>4. after \in ClientStates /\ after.sync = Idle /\ SameButSync(after, cl)
  BY <1>1, <1>3, StageSet DEF SameButSync
<1> HIDE DEF after
<1>5. Becomes(c, after)
  BY <1>2, <1>4 DEF Becomes
<1> WITNESS after
<1> QED BY <1>2, <1>4, <1>5 DEF cl

\* The server fails while it takes the zip: files have been written, but no row.
LEMMA UploadFailsStep ==
  ASSUME clients \in [Clients -> ClientStates], server \in ServerStates(server.usn),
         NEW c \in Clients, UploadFails(c)
  PROVE  \E after, disk : LET cl == clients[c] IN
         /\ edits' = edits /\ failures' = failures + 1
         /\ cl.sync.pc = "upload" /\ Becomes(c, after) /\ SameButSync(after, cl) /\ after.sync = Idle
         /\ disk \in [Files -> Data] /\ server' = [server EXCEPT !.disk = disk]
         /\ Faults \cap {"half_upload", "half_delete"} = {} => disk = server.disk
<1> DEFINE cl == clients[c]
           sync == Idle
           after == [cl EXCEPT !.sync = sync]
           written(done) == [f \in done |-> cl.sync.zip[f]]
<1>1. cl \in ClientStates
  OBVIOUS
<1>2. /\ edits' = edits /\ failures' = failures + 1 /\ cl.sync.pc = "upload"
      /\ clients' = [clients EXCEPT ![c] = after]
  BY DEF UploadFails, Continue, At
<1>3. PICK done \in SUBSET DOMAIN cl.sync.zip :
        /\ done = {} \/ "half_upload" \in Faults \/ "half_delete" \in Faults
        /\ server' = [server EXCEPT !.disk = RegisterAll(server, written(done)).disk]
  BY DEF UploadFails
<1> HIDE DEF cl
<1>4. cl.sync.zip \in SomeFiles(Data)
  <2>1. cl.sync \in SyncStates
    BY <1>1, ClientFields
  <2> QED BY <1>2, <2>1, StageFields
<1> DEFINE part == written(done)
           disk == RegisterAll(server, part).disk
<1>5. DOMAIN part = done /\ part \in SomeFiles(Data)
  <2>1. DOMAIN cl.sync.zip \subseteq Files /\ \A f \in DOMAIN cl.sync.zip : cl.sync.zip[f] \in Data
    BY <1>4, IsTable
  <2>2. DOMAIN part = done /\ part = [f \in DOMAIN part |-> part[f]]
        /\ \A f \in done : part[f] = cl.sync.zip[f]
    OBVIOUS
  <2> HIDE DEF part
  <2>3. DOMAIN part \subseteq Files /\ \A f \in DOMAIN part : part[f] \in Data
    BY <2>1, <2>2
  <2> QED BY <2>2, <2>3, IsTable
<1> HIDE DEF part
<1>6. /\ disk \in [Files -> Data] /\ Registered(server, part) \subseteq DOMAIN part
      /\ \A f \in Files : disk[f] = IF f \in Registered(server, part) THEN part[f] ELSE server.disk[f]
  BY <1>5, ZipRegistered
<1>7. server.disk \in [Files -> Data]
  BY DEF ServerStates
<1>8. server' = [server EXCEPT !.disk = disk]
  BY <1>3 DEF part
<1> HIDE DEF disk
<1>9. ASSUME Faults \cap {"half_upload", "half_delete"} = {}
      PROVE  disk = server.disk
  <2>1. done = {}
    BY <1>3, <1>9
  <2>2. \A f \in Files : disk[f] = server.disk[f]
    BY <1>5, <1>6, <2>1
  <2> QED BY <1>6, <1>7, <2>2
<1>10. sync \in SyncStates /\ sync = Idle
  BY Stages
<1> HIDE DEF sync
<1>11. after \in ClientStates /\ after.sync = Idle /\ SameButSync(after, cl)
  BY <1>1, <1>10, StageSet DEF SameButSync
<1> HIDE DEF after
<1>12. Becomes(c, after)
  BY <1>2, <1>11 DEF Becomes
<1> WITNESS after, disk
<1> QED BY <1>2, <1>6, <1>8, <1>9, <1>11, <1>12 DEF cl

---------------------------------------------------------------------------
(* Type correctness. *)

\* A listed file that the server could not find is taken from its rows and its count.
LEMMA FileForgotten ==
  ASSUME NEW srv, srv \in ServerStates(srv.usn), srv.count = Cardinality(ListedFiles(srv)),
         NEW f \in Files, Listed(srv, f)
  PROVE  LET after == ForgetMissingFile(srv, f) IN
         after \in ServerStates(after.usn) /\ after.count = Cardinality(ListedFiles(after))
<1> DEFINE entries == [g \in DOMAIN srv.entries \ {f} |-> srv.entries[g]]
           count == srv.count - 1
           after == [srv EXCEPT !.entries = entries, !.count = count]
           rows == SomeFiles([sha1 : Data, usn : 1..srv.usn])
<1>1. /\ srv.usn \in Nat /\ srv.disk \in [Files -> Data] /\ srv.entries \in rows /\ srv.count \in Nat
      /\ srv = [disk |-> srv.disk, usn |-> srv.usn, count |-> srv.count, entries |-> srv.entries]
  BY DEF ServerStates
<1>2. DOMAIN entries = DOMAIN srv.entries \ {f} /\ \A g \in DOMAIN entries : entries[g] = srv.entries[g]
  OBVIOUS
<1>3. entries \in rows
  <2>1. DOMAIN srv.entries \subseteq Files
        /\ \A g \in DOMAIN srv.entries : srv.entries[g] \in [sha1 : Data, usn : 1..srv.usn]
    <3> DEFINE row == [sha1 : Data, usn : 1..srv.usn]
    <3>1. srv.entries \in SomeFiles(row)
      BY <1>1
    <3> HIDE DEF row
    <3>2. DOMAIN srv.entries \subseteq Files /\ \A g \in DOMAIN srv.entries : srv.entries[g] \in row
      BY <3>1, IsTable
    <3> QED BY <3>2 DEF row
  <2>2. entries = [g \in DOMAIN entries |-> entries[g]]
    OBVIOUS
  <2> HIDE DEF entries
  <2>3. DOMAIN entries \subseteq Files
        /\ \A g \in DOMAIN entries : entries[g] \in [sha1 : Data, usn : 1..srv.usn]
    BY <1>2, <2>1
  <2> QED BY <2>2, <2>3, IsTable
<1>4. IsFiniteSet(ListedFiles(srv)) /\ f \in ListedFiles(srv)
  <2>1. ListedFiles(srv) \in SUBSET Files
    BY DEF ListedFiles
  <2> QED BY <2>1, FilesFinite DEF ListedFiles
<1>5. Cardinality(ListedFiles(srv) \ {f}) = count /\ Cardinality(ListedFiles(srv) \ {f}) \in Nat
  <2>1. Cardinality(ListedFiles(srv) \ {f}) = Cardinality(ListedFiles(srv)) - 1
    BY <1>4, FS_RemoveElement
  <2>2. ListedFiles(srv) \ {f} \in SUBSET Files
    BY DEF ListedFiles
  <2> QED BY <2>1, <2>2, FilesFinite
<1>6. after = ForgetMissingFile(srv, f)
  BY DEF ForgetMissingFile
<1> HIDE DEF entries, count, rows
<1>7. after \in [disk : [Files -> Data], usn : Nat, count : Nat, entries : rows]
      /\ after.entries = entries /\ after.count = count /\ after.usn = srv.usn
  BY <1>1, <1>3, <1>5
<1>8. after \in ServerStates(after.usn)
  <2>1. ServerStates(srv.usn) = [disk : [Files -> Data], usn : Nat, count : Nat, entries : rows]
    BY DEF ServerStates, rows
  <2> QED BY <1>7, <2>1
<1> HIDE DEF after
<1>9. ListedFiles(after) = ListedFiles(srv) \ {f}
  BY <1>2, <1>7 DEF ListedFiles, Listed
<1> QED BY <1>5, <1>6, <1>7, <1>8, <1>9

\* What the type invariant is for the server.
ServerOK == server \in ServerStates(server.usn) /\ server.count = Cardinality(ListedFiles(server))

\* The type invariant, by its parts.
LEMMA TypeParts ==
  TypeOK <=> /\ clients \in [Clients -> ClientStates] /\ ServerOK
             /\ edits \in Nat /\ failures \in Nat
BY DEF TypeOK, ServerOK, ListedFiles

\* A step that makes of one client another, and leaves the server or types it.
LEMMA TypesKept ==
  ASSUME TypeOK, NEW c \in Clients, NEW after, Becomes(c, after),
         server' = server \/ ServerOK',
         edits' \in {edits, edits + 1}, failures' \in {failures, failures + 1}
  PROVE  TypeOK'
<1>1. /\ clients \in [Clients -> ClientStates] /\ ServerOK
      /\ edits \in Nat /\ failures \in Nat
  BY TypeParts
<1>2. clients' \in [Clients -> ClientStates]
  BY <1>1 DEF Becomes
<1>3. ServerOK'
  BY <1>1 DEF ServerOK
<1>4. edits' \in Nat /\ failures' \in Nat
  BY <1>1
<1>5. server'.count = Cardinality({f \in Files : Listed(server', f)})
  BY <1>3 DEF ServerOK, ListedFiles
<1> QED BY <1>2, <1>3, <1>4, <1>5 DEF TypeOK, ServerOK

\* A fetch asks for the rows after a number.
LEMMA FetchNumber ==
  ASSUME clients \in [Clients -> ClientStates], NEW c \in Clients, clients[c].sync.pc = "fetch"
  PROVE  clients[c].sync.usn \in Nat
<1>1. clients[c].sync \in SyncStates
  BY ClientFields
<1> QED BY <1>1, StageFields

\* The types hold at the start.
LEMMA TypesInit == Init => TypeOK
<1> SUFFICES ASSUME Init PROVE TypeOK
  OBVIOUS
<1> DEFINE tables == SomeFiles(Entries)
           rows == SomeFiles([sha1 : Data, usn : 1..0])
           none == NoFiles
           empty == [f \in Files |-> Absent]
<1>1. none \in tables /\ none \in rows /\ DOMAIN none = {}
  BY NoFilesTyped
<1>2. empty \in [Files -> Data]
  BY AbsentIsData
<1>3. Idle \in SyncStates
  BY Stages
<1>4. ClientStates = [disk : [Files -> Data], seen : BOOLEAN, usn : Nat, gone : SUBSET Files,
                      sync : SyncStates, db : tables]
  BY DEF ClientStates, Entries
<1>5. clients = [c \in Clients |-> [disk |-> empty, seen |-> FALSE, db |-> none, usn |-> 0,
                                    gone |-> {}, sync |-> Idle]]
  BY DEF Init
<1>6. server = [disk |-> empty, entries |-> none, usn |-> 0, count |-> 0]
  BY DEF Init
<1>7. ServerStates(0) = [disk : [Files -> Data], usn : Nat, count : Nat, entries : rows]
  BY DEF ServerStates
<1> HIDE DEF tables, rows, none, empty
<1>8. clients \in [Clients -> ClientStates]
  BY <1>1, <1>2, <1>3, <1>4, <1>5
<1>9. server \in ServerStates(server.usn)
  BY <1>1, <1>2, <1>6, <1>7
<1>10. ListedFiles(server) = {}
  BY <1>1, <1>6 DEF ListedFiles, Listed
<1>11. server.count = Cardinality(ListedFiles(server))
  BY <1>6, <1>10, FS_EmptySet
<1>12. edits \in Nat /\ failures \in Nat
  BY DEF Init
<1> QED BY <1>8, <1>9, <1>11, <1>12, TypeParts DEF ServerOK

\* Every step keeps them.
LEMMA TypesStep == TypeOK /\ [Next]_vars => TypeOK'
<1> SUFFICES ASSUME TypeOK, [Next]_vars PROVE TypeOK'
  OBVIOUS
<1>1. /\ clients \in [Clients -> ClientStates] /\ server \in ServerStates(server.usn)
      /\ server.count = Cardinality(ListedFiles(server)) /\ edits \in Nat /\ failures \in Nat
  BY TypeParts DEF ServerOK
<1>2. CASE vars' = vars
  BY <1>2 DEF vars, TypeOK, Listed
<1>3. ASSUME NEW c \in Clients, StartSync(c) PROVE TypeOK'
  <2>1. PICK after : Quiet /\ Becomes(c, after)
    BY <1>1, <1>3, StartSyncStep
  <2> QED BY <2>1, TypesKept DEF Quiet
<1>4. ASSUME NEW c \in Clients, FetchChanges(c) PROVE TypeOK'
  <2>1. PICK after : Quiet /\ Becomes(c, after)
    <3>1. clients[c].sync.pc = "fetch" => clients[c].sync.usn \in Nat
      BY <1>1, FetchNumber
    <3> QED BY <1>1, <1>4, <3>1, FetchChangesStep
  <2> QED BY <2>1, TypesKept DEF Quiet
<1>5. ASSUME NEW c \in Clients, DownloadFiles(c) PROVE TypeOK'
  <2>1. PICK after, S :
          /\ edits' = edits /\ failures' = failures /\ Becomes(c, after)
          /\ S \subseteq clients[c].sync.todo /\ clients[c].sync.pc = "download"
          /\ \/ server' = server
             \/ \E f \in S : Listed(server, f) /\ server' = ForgetMissingFile(server, f)
    BY <1>1, <1>5, DownloadFilesStep
  <2>2. clients[c].sync.todo \subseteq Files
    <3>1. clients[c].sync \in SyncStates
      BY <1>1, ClientFields
    <3> QED BY <2>1, <3>1, StageFields
  <2>3. server' = server \/ ServerOK'
    <3>1. ASSUME NEW f \in S, Listed(server, f), server' = ForgetMissingFile(server, f)
          PROVE  ServerOK'
      <4>1. f \in Files
        BY <2>1, <2>2
      <4> QED BY <1>1, <3>1, <4>1, FileForgotten DEF ServerOK
    <3> QED BY <2>1, <3>1
  <2> QED BY SMTT(60), <2>1, <2>3, TypesKept
<1>6. ASSUME NEW c \in Clients, RecordBatch(c) PROVE TypeOK'
  <2>1. PICK after : Quiet /\ Becomes(c, after)
    BY <1>1, <1>6, RecordBatchStep
  <2> QED BY <2>1, TypesKept DEF Quiet
<1>7. ASSUME NEW c \in Clients, GatherUpload(c) PROVE TypeOK'
  <2>1. PICK after : Quiet /\ Becomes(c, after)
    BY <1>1, <1>7, GatherUploadStep
  <2> QED BY <2>1, TypesKept DEF Quiet
<1>8. ASSUME NEW c \in Clients, UploadChanges(c) PROVE TypeOK'
  <2>1. PICK after :
          /\ edits' = edits /\ failures' = failures /\ Becomes(c, after)
          /\ clients[c].sync.zip \in SomeFiles(Data)
          /\ server' = RegisterAll(server, clients[c].sync.zip)
    BY <1>1, <1>8, UploadChangesStep
  <2>2. ServerOK'
    BY <1>1, <2>1, CountKept DEF ServerOK
  <2> QED BY <2>1, <2>2, TypesKept
<1>9. ASSUME NEW c \in Clients, RecordUpload(c) PROVE TypeOK'
  <2>1. PICK after : Quiet /\ Becomes(c, after)
    BY <1>1, <1>9, RecordUploadStep
  <2> QED BY <2>1, TypesKept DEF Quiet
<1>10. ASSUME NEW c \in Clients, FinalizeSync(c) PROVE TypeOK'
  <2>1. PICK after : Quiet /\ Becomes(c, after)
    BY <1>1, <1>10, FinalizeSyncStep
  <2> QED BY <2>1, TypesKept DEF Quiet
<1>11. ASSUME NEW c \in Clients, AbortSync(c) PROVE TypeOK'
  <2>1. PICK after : server' = server /\ edits' = edits /\ failures' = failures + 1 /\ Becomes(c, after)
    BY <1>1, <1>11, AbortSyncStep
  <2> QED BY <2>1, TypesKept
<1>12. ASSUME NEW c \in Clients, UploadFails(c) PROVE TypeOK'
  <2>1. PICK after, disk :
          /\ edits' = edits /\ failures' = failures + 1 /\ Becomes(c, after)
          /\ disk \in [Files -> Data] /\ server' = [server EXCEPT !.disk = disk]
    BY <1>1, <1>12, UploadFailsStep
  <2>2. ServerOK'
    <3> DEFINE rows == SomeFiles([sha1 : Data, usn : 1..server.usn])
    <3>1. ServerStates(server.usn) = [disk : [Files -> Data], usn : Nat, count : Nat, entries : rows]
      BY DEF ServerStates
    <3>2. server \in [disk : [Files -> Data], usn : Nat, count : Nat, entries : rows]
      BY <1>1, <3>1
    <3> DEFINE now == [server EXCEPT !.disk = disk]
    <3> HIDE DEF rows
    <3>3. now \in [disk : [Files -> Data], usn : Nat, count : Nat, entries : rows]
          /\ now.usn = server.usn /\ now.count = server.count /\ now.entries = server.entries
      BY <2>1, <3>2
    <3>4. server' = now
      BY <2>1
    <3> HIDE DEF now
    <3>5. server' \in ServerStates(server.usn) /\ server'.usn = server.usn
          /\ server'.count = server.count /\ server'.entries = server.entries
      BY <3>1, <3>3, <3>4
    <3>6. ListedFiles(server') = ListedFiles(server)
      BY <3>5 DEF ListedFiles, Listed
    <3> QED BY <1>1, <3>5, <3>6 DEF ServerOK
  <2> QED BY <2>1, <2>2, TypesKept
<1>13. ASSUME NEW c \in Clients, UserStep(c) PROVE TypeOK'
  <2>1. \E after : Edited /\ Becomes(c, after)
    <3>1. ASSUME NEW f \in Files, NEW data \in Contents[f], AddFile(c, f, data)
          PROVE  \E after : Edited /\ Becomes(c, after)
      BY <1>1, <3>1, AddFileStep
    <3>2. ASSUME NEW f \in Files, NEW data \in Contents[f], WriteOutside(c, f, data)
          PROVE  \E after : Edited /\ Becomes(c, after)
      BY <1>1, <3>2, WriteOutsideStep
    <3>3. ASSUME NEW names \in SUBSET Deletable, RemoveFiles(c, names)
          PROVE  \E after : Edited /\ Becomes(c, after)
      BY <1>1, <3>3, RemoveFilesStep
    <3>4. ASSUME NEW f \in Files, DeleteOutside(c, f)
          PROVE  \E after : Edited /\ Becomes(c, after)
      BY <1>1, <3>4, DeleteOutsideStep
    <3> QED BY <1>13, <3>1, <3>2, <3>3, <3>4 DEF UserStep
  <2> QED BY <2>1, TypesKept DEF Edited
<1> QED BY <1>2, <1>3, <1>4, <1>5, <1>6, <1>7, <1>8, <1>9, <1>10, <1>11, <1>12, <1>13
       DEF Next, SyncStep

\* The types hold in every state, whatever goes wrong; and with them the count of
\* files the server keeps, which every client's sanity check compares with its own,
\* is the number of files it lists, through every upload, every failed upload and
\* every file it has to forget.
THEOREM MediaTypeCorrect == Spec => []TypeOK
BY TypesInit, TypesStep, PTL DEF Spec

---------------------------------------------------------------------------
(***************************************************************************)
(* Which deletions are uploaded, and what a recorded batch accounts for,   *)
(* for any clients, files, contents and limits, whatever files users       *)
(* delete, and whether or not they do so while a sync is running: only the *)
(* server's failing with some files of an upload written is left out.      *)
(***************************************************************************)

---------------------------------------------------------------------------
(* The inductive invariant. *)

NothingHalfWritten == Faults \cap {"half_upload", "half_delete"} = {}

\* The server has the files its rows say, so that it never has to forget one.
ServerInv(srv) == \A f \in Files : srv.disk[f] = ServerSha1(srv, f)

\* A file that is gone and has a row all the same was deleted by the user.
GoneInv(cl) == \A f \in Files : Sha1(cl, f) # Absent /\ cl.disk[f] = Absent => f \in cl.gone

\* Rows that look like a user's deletion and are none: the marks of the trash.
Marked(cl) == {f \in Pending(cl) : cl.db[f].sha1 = Absent /\ f \notin cl.gone}
ToFetch(sync) == sync.todo \cup DOMAIN sync.added

\* The server's row of a marked file is still to be fetched, or in the batch that is
\* being downloaded; so there is none by the time changes are sent.
MarkedInv(cl, srv) ==
  CASE cl.sync.pc \in {"idle", "fetch"} -> \A f \in Marked(cl) : Unknown(srv, cl.usn, f)
    [] cl.sync.pc = "download" ->
         \A f \in Marked(cl) : \/ f \in cl.sync.deleted \cup ToFetch(cl.sync)
                               \/ Unknown(srv, cl.sync.usn, f)
    [] OTHER -> Marked(cl) = {}

\* What a batch of rows has decided about a file.
Decided(cl, f, remote) ==
  \/ f \in cl.sync.todo
  \/ f \in DOMAIN cl.sync.added /\ cl.sync.added[f] = remote
  \/ f \in cl.sync.deleted /\ remote = Absent /\ f \notin DOMAIN cl.sync.added
  \/ /\ f \in cl.sync.clean /\ ("busy" \in Faults \/ Sha1(cl, f) = remote)
     /\ f \notin cl.sync.deleted \cup DOMAIN cl.sync.added
  \/ /\ f \notin cl.sync.deleted \cup cl.sync.clean \cup DOMAIN cl.sync.added
     /\ f \in Pending(cl) \/ Sha1(cl, f) = remote

\* A batch is of rows the client has not seen and has decided about all of them that
\* have not moved on since; what it has downloaded is there unless the user removes it.
DownloadInv(cl, srv) ==
  /\ cl.usn <= cl.sync.usn /\ cl.sync.usn <= srv.usn
  /\ \A f \in cl.sync.deleted \cup ToFetch(cl.sync) : Unknown(srv, cl.usn, f)
  /\ \A f \in Files : Unknown(srv, cl.usn, f) /\ Known(srv, cl.sync.usn, f) =>
       Decided(cl, f, srv.entries[f].sha1)
  /\ \A f \in DOMAIN cl.sync.added :
       cl.sync.added[f] # Absent /\ (cl.disk[f] = Absent => f \in cl.gone)

StageInv(cl, srv) ==
  /\ cl.sync.pc = "fetch" => cl.sync.usn = cl.usn
  /\ cl.sync.pc = "download" => DownloadInv(cl, srv)

ClientInv(cl, srv) == GoneInv(cl) /\ MarkedInv(cl, srv) /\ StageInv(cl, srv)
MediaInv == ServerInv(server) /\ \A c \in Clients : ClientInv(clients[c], server)

---------------------------------------------------------------------------
(* Rows and numbers. *)

\* What a row has of a file, and which rows are marked.
LEMMA RowOf ==
  ASSUME NEW cl \in ClientStates, NEW f \in Files
  PROVE  /\ f \in DOMAIN cl.db => Sha1(cl, f) = cl.db[f].sha1
         /\ f \notin DOMAIN cl.db => Sha1(cl, f) = Absent
         /\ f \in Pending(cl) <=> f \in DOMAIN cl.db /\ cl.db[f].sync_required
         /\ f \in Marked(cl) <=> f \in Pending(cl) /\ Sha1(cl, f) = Absent /\ f \notin cl.gone
BY DEF Sha1, Pending, Marked

\* Only files are marked.
LEMMA MarkedFiles == ASSUME NEW cl \in ClientStates PROVE Marked(cl) \subseteq Files
BY ClientFields DEF Marked, Pending

\* A row that has only lost its time says the same.
LEMMA SameRowSays ==
  ASSUME NEW cl, NEW after, NEW f, SameRow(after, cl, f)
  PROVE  /\ Sha1(after, f) = Sha1(cl, f) /\ (f \in Pending(after) <=> f \in Pending(cl))
         /\ f \in DOMAIN after.db <=> f \in DOMAIN cl.db
BY DEF SameRow, Sha1, Pending

\* A server's row is within a number or beyond it.
LEMMA KnownOrNot ==
  ASSUME NEW srv, srv \in ServerStates(srv.usn), NEW usn \in Nat, NEW f
  PROVE  /\ f \in DOMAIN srv.entries <=> Known(srv, usn, f) \/ Unknown(srv, usn, f)
         /\ ~ (Known(srv, usn, f) /\ Unknown(srv, usn, f))
         /\ usn = srv.usn => ~ Unknown(srv, usn, f)
         /\ \A before \in Nat : before <= usn /\ Unknown(srv, usn, f) => Unknown(srv, before, f)
<1>1. srv.usn \in Nat
  BY DEF ServerStates
<1>2. f \in DOMAIN srv.entries =>
        srv.entries[f].usn \in Nat /\ srv.entries[f].usn > 0 /\ srv.entries[f].usn <= srv.usn
  BY <1>1, ServerFields
<1> QED BY <1>1, <1>2 DEF Known, Unknown

\* What the parts say depends on no more than they mention.
LEMMA SameParts ==
  ASSUME NEW cl, NEW after, SameButSync(after, cl), GoneInv(cl)
  PROVE  GoneInv(after) /\ Marked(after) = Marked(cl)
BY DEF GoneInv, SameButSync, Sha1, Pending, Marked

---------------------------------------------------------------------------
(* The steps of a sync that leave the server alone. *)

\* A sync that ends, wherever it is.
LEMMA EndKeeps ==
  ASSUME NEW cl \in ClientStates, NEW after \in ClientStates,
         NEW srv, srv \in ServerStates(srv.usn), ClientInv(cl, srv),
         SameButSync(after, cl), after.sync = Idle
  PROVE  ClientInv(after, srv)
<1>1. after.sync.pc = "idle" /\ after.usn = cl.usn
  BY DEF Idle, SameButSync
<1>2. GoneInv(after) /\ Marked(after) = Marked(cl)
  BY SameParts DEF ClientInv
<1>3. ASSUME NEW f \in Marked(cl)
      PROVE  Unknown(srv, cl.usn, f)
  <2>1. CASE cl.sync.pc \in {"idle", "fetch"}
    BY <1>3, <2>1 DEF ClientInv, MarkedInv
  <2>2. CASE cl.sync.pc = "download"
    <3>1. f \in cl.sync.deleted \cup ToFetch(cl.sync) \/ Unknown(srv, cl.sync.usn, f)
      BY <1>3, <2>2 DEF ClientInv, MarkedInv
    <3>2. /\ cl.usn <= cl.sync.usn
          /\ \A g \in cl.sync.deleted \cup ToFetch(cl.sync) : Unknown(srv, cl.usn, g)
      BY <2>2 DEF ClientInv, StageInv, DownloadInv
    <3>3. cl.usn \in Nat /\ cl.sync.usn \in Nat
      <4>1. cl.sync \in SyncStates
        BY ClientFields
      <4> QED BY <2>2, <4>1, StageFields, ClientFields
    <3> QED BY <3>1, <3>2, <3>3, KnownOrNot
  <2>3. CASE cl.sync.pc \notin {"idle", "fetch", "download"}
    BY <1>3, <2>3 DEF ClientInv, MarkedInv
  <2> QED BY <2>1, <2>2, <2>3
<1>4. MarkedInv(after, srv) /\ StageInv(after, srv)
  BY <1>1, <1>2, <1>3 DEF MarkedInv, StageInv
<1> QED BY <1>2, <1>4 DEF ClientInv

\* A sync goes from one stage of sending to another, for whatever server.
LEMMA SendKeeps ==
  ASSUME NEW cl \in ClientStates, NEW after \in ClientStates, NEW srv, NEW now,
         ClientInv(cl, srv), SameButSync(after, cl),
         cl.sync.pc \notin {"idle", "fetch", "download"},
         after.sync.pc \notin {"idle", "fetch", "download"}
  PROVE  ClientInv(after, now)
<1>1. GoneInv(after) /\ Marked(after) = Marked(cl)
  BY SameParts DEF ClientInv
<1>2. Marked(cl) = {}
  BY DEF ClientInv, MarkedInv
<1> QED BY <1>1, <1>2 DEF ClientInv, MarkedInv, StageInv

\* A sync begins: the scan makes a deletion only of a file that its user has deleted.
LEMMA StartKeeps ==
  ASSUME NEW cl \in ClientStates, NEW after \in ClientStates,
         NEW srv, srv \in ServerStates(srv.usn), ClientInv(cl, srv),
         cl.sync.pc = "idle", after.disk = cl.disk, after.usn = cl.usn,
         after.sync = IF cl.usn = srv.usn THEN SendFrom(FALSE)
                      ELSE [pc |-> "fetch", usn |-> cl.usn],
         IF cl.seen THEN after.gone = cl.gone /\ after.db = cl.db
         ELSE /\ after.gone = cl.gone \ OnDisk(cl.disk)
              /\ DOMAIN after.db = DOMAIN cl.db \cup OnDisk(cl.disk)
              /\ \A f \in DOMAIN after.db : after.db[f] = Rescanned(cl, f)
  PROVE  ClientInv(after, srv)
<1>1. GoneInv(cl) /\ \A f \in Marked(cl) : Unknown(srv, cl.usn, f)
  BY DEF ClientInv, MarkedInv
<1>2. ASSUME NEW f \in Files
      PROVE  /\ Sha1(after, f) # Absent /\ after.disk[f] = Absent => f \in after.gone
             /\ f \in Marked(after) => f \in Marked(cl)
  <2>1. CASE cl.seen
    BY <1>1, <2>1 DEF GoneInv, Sha1, Marked, Pending
  <2>2. CASE ~ cl.seen /\ cl.disk[f] # Absent
    <3>1. f \in DOMAIN after.db /\ after.db[f] = Rescanned(cl, f)
      BY <2>2 DEF OnDisk
    <3>2. Rescanned(cl, f).sha1 # Absent
      BY <2>2 DEF Rescanned, MediaEntry, Sha1
    <3> QED BY <2>2, <3>1, <3>2 DEF Marked
  <2>3. CASE ~ cl.seen /\ cl.disk[f] = Absent
    <3>1. f \in DOMAIN after.db <=> f \in DOMAIN cl.db
      BY <2>3 DEF OnDisk
    <3>2. f \in after.gone <=> f \in cl.gone
      BY <2>3 DEF OnDisk
    <3>3. CASE f \notin DOMAIN cl.db
      BY <3>1, <3>3 DEF Sha1, Marked, Pending
    <3>4. CASE f \in DOMAIN cl.db /\ cl.db[f].sha1 = Absent
      <4>1. after.db[f] = cl.db[f]
        BY <2>3, <3>1, <3>4 DEF Rescanned, Sha1
      <4> QED BY <3>1, <3>2, <3>4, <4>1 DEF Sha1, Marked, Pending
    <3>5. CASE f \in DOMAIN cl.db /\ cl.db[f].sha1 # Absent
      <4>1. after.db[f] = MediaEntry(Absent, TRUE, FALSE)
        BY <2>3, <3>1, <3>5 DEF Rescanned, Sha1
      <4>2. f \in cl.gone
        BY <1>1, <2>3, <3>5 DEF GoneInv, Sha1
      <4> QED BY <3>2, <4>1, <4>2 DEF Sha1, Marked, Pending, MediaEntry
    <3> QED BY <3>3, <3>4, <3>5
  <2> QED BY <2>1, <2>2, <2>3
<1>3. GoneInv(after) /\ \A f \in Marked(after) : Unknown(srv, cl.usn, f)
  BY <1>1, <1>2, MarkedFiles DEF GoneInv
<1>4. CASE cl.usn = srv.usn
  <2>1. after.sync.pc = "send"
    BY <1>4 DEF SendFrom
  <2>2. \A f : ~ Unknown(srv, cl.usn, f)
    <3>1. cl.usn \in Nat
      BY ClientFields
    <3> QED BY <1>4, <3>1, KnownOrNot
  <2> QED BY <1>3, <2>1, <2>2 DEF ClientInv, MarkedInv, StageInv
<1>5. CASE cl.usn # srv.usn
  <2>1. after.sync.pc = "fetch" /\ after.sync.usn = cl.usn
    BY <1>5
  <2> QED BY <1>3, <2>1 DEF ClientInv, MarkedInv, StageInv
<1> QED BY <1>4, <1>5

\* What a row of a batch asks for.
LEMMA Required ==
  ASSUME NEW cl \in ClientStates, NEW f \in Files, NEW remote
  PROVE  LET change == RequiredChange(cl, f, remote) IN
         /\ change = "Download" => remote # Absent
         /\ change = "Delete" => remote = Absent
         /\ change = "RemovePending" => Sha1(cl, f) = remote /\ Sha1(cl, f) # Absent
         /\ change = "None" => /\ f \in Pending(cl) \/ Sha1(cl, f) = remote
                               /\ ~ (f \in Pending(cl) /\ Sha1(cl, f) = Absent)
         /\ change \in {"Download", "Delete", "RemovePending", "None"}
<1>1. f \notin DOMAIN cl.db => Sha1(cl, f) = Absent /\ f \notin Pending(cl)
  BY DEF Sha1, Pending
<1> QED BY <1>1 DEF RequiredChange

\* A batch decides about every row it has, and takes up every mark whose row it has.
LEMMA FetchKeeps ==
  ASSUME NEW cl \in ClientStates, NEW after \in ClientStates,
         NEW srv, srv \in ServerStates(srv.usn), ClientInv(cl, srv),
         NEW batch, batch = ChangesChunk(srv, cl.sync.usn),
         NEW deleted, deleted = To(cl, srv, batch, "Delete"),
         cl.sync.pc = "fetch", after.usn = cl.usn, after.gone = cl.gone,
         IF batch = {} THEN after.sync = SendFrom(TRUE) /\ SameButSync(after, cl)
         ELSE /\ after.sync = [pc |-> "download", usn |-> LastUsn(srv, batch),
                               todo |-> To(cl, srv, batch, "Download"), deleted |-> deleted,
                               clean |-> To(cl, srv, batch, "RemovePending"),
                               added |-> NoFiles]
              /\ \A f \in Files : after.disk[f] =
                   IF f \in Moved(cl, srv, deleted) THEN Absent ELSE cl.disk[f]
              /\ DOMAIN after.db = DOMAIN cl.db
              /\ \A f \in DOMAIN cl.db :
                   IF f \in deleted THEN after.db[f] = MediaEntry(Absent, TRUE, FALSE)
                   ELSE SameRow(after, cl, f)
  PROVE  ClientInv(after, srv)
<1>1. /\ cl.sync.usn = cl.usn /\ GoneInv(cl) /\ \A f \in Marked(cl) : Unknown(srv, cl.usn, f)
  BY DEF ClientInv, MarkedInv, StageInv
<1>2. cl.usn \in Nat /\ srv.usn \in Nat
  BY ClientFields DEF ServerStates
<1>3. /\ batch \subseteq Files
      /\ \A f \in batch : Unknown(srv, cl.usn, f)
      /\ batch = {} => \A f \in Files : ~ Unknown(srv, cl.usn, f)
      /\ batch # {} =>
           /\ LastUsn(srv, batch) \in Nat
           /\ cl.usn < LastUsn(srv, batch) /\ LastUsn(srv, batch) <= srv.usn
           /\ \A f \in Files : Unknown(srv, cl.usn, f) /\ Known(srv, LastUsn(srv, batch), f)
                                 => f \in batch
  BY <1>1, <1>2, ChunkTakesFirst
<1>4. CASE batch = {}
  <2>1. after.sync.pc = "send" /\ SameButSync(after, cl)
    BY <1>4 DEF SendFrom
  <2>2. Marked(cl) = {}
    BY <1>1, <1>3, <1>4, MarkedFiles
  <2>3. GoneInv(after) /\ Marked(after) = {}
    BY <1>1, <2>1, <2>2, SameParts
  <2> QED BY <2>1, <2>3 DEF ClientInv, MarkedInv, StageInv
<1>5. CASE batch # {}
  <2> DEFINE last == LastUsn(srv, batch)
             todo == To(cl, srv, batch, "Download")
             clean == To(cl, srv, batch, "RemovePending")
  <2>1. /\ after.sync.pc = "download" /\ after.sync.usn = last /\ after.sync.todo = todo
        /\ after.sync.deleted = deleted /\ after.sync.clean = clean /\ after.sync.added = NoFiles
    <3>1. after.sync = [pc |-> "download", usn |-> last, todo |-> todo, deleted |-> deleted,
                        clean |-> clean, added |-> NoFiles]
      BY <1>5
    <3> HIDE DEF last, todo, clean
    <3> QED BY <3>1
  <2>2. /\ \A f \in Files : after.disk[f] = IF f \in Moved(cl, srv, deleted) THEN Absent ELSE cl.disk[f]
        /\ DOMAIN after.db = DOMAIN cl.db
        /\ \A f \in DOMAIN cl.db :
                   IF f \in deleted THEN after.db[f] = MediaEntry(Absent, TRUE, FALSE)
                   ELSE SameRow(after, cl, f)
    BY <1>5
  <2>3. DOMAIN after.sync.added = {}
    BY <2>1, NoFilesTyped
  <2>4. ASSUME NEW f \in batch
        PROVE  LET change == RequiredChange(cl, f, srv.entries[f].sha1) IN
               /\ f \in todo <=> change = "Download"
               /\ f \in deleted <=> change = "Delete"
               /\ f \in clean <=> change = "RemovePending"
    BY DEF To
  <2>5. todo \subseteq batch /\ deleted \subseteq batch /\ clean \subseteq batch
    BY DEF To
  <2>6. last \in Nat /\ cl.usn < last /\ last <= srv.usn
    BY <1>3, <1>5
  <2>7. \A f \in Files : Unknown(srv, cl.usn, f) /\ Known(srv, last, f) => f \in batch
    BY <1>3, <1>5
  <2> HIDE DEF todo, clean, last
  <2>8. ASSUME NEW f \in Files
        PROVE  /\ f \in deleted => Sha1(after, f) = Absent
               /\ f \notin deleted => /\ Sha1(after, f) = Sha1(cl, f)
                                      /\ (f \in Pending(after) <=> f \in Pending(cl))
                                      /\ (f \in Marked(after) <=> f \in Marked(cl))
                                      /\ after.disk[f] = cl.disk[f]
    <3>1. CASE f \in deleted
      BY <2>2, <3>1 DEF MediaEntry, Sha1
    <3>2. CASE f \notin deleted
      <4>1. after.disk[f] = cl.disk[f]
        BY <2>2, <3>2 DEF Moved
      <4>2. /\ Sha1(after, f) = Sha1(cl, f)
            /\ (f \in Pending(after) <=> f \in Pending(cl))
        <5>1. CASE f \in DOMAIN cl.db
          <6>1. SameRow(after, cl, f)
            BY <2>2, <3>2, <5>1
          <6> QED BY <6>1, SameRowSays
        <5>2. CASE f \notin DOMAIN cl.db
          BY <2>2, <5>2 DEF Sha1, Pending
        <5> QED BY <5>1, <5>2
      <4> QED BY <3>2, <4>1, <4>2, RowOf
    <3> QED BY <3>1, <3>2
  <2>9. GoneInv(after)
    BY <1>1, <2>8 DEF GoneInv
  <2>10. ASSUME NEW f \in Marked(after)
         PROVE  f \in after.sync.deleted \cup ToFetch(after.sync) \/ Unknown(srv, last, f)
    <3>1. f \in Files
      BY MarkedFiles
    <3>2. CASE f \in deleted
      BY <2>1, <3>2
    <3>3. CASE f \notin deleted /\ f \in batch
      <4>1. f \in Pending(cl) /\ Sha1(cl, f) = Absent
        BY <2>8, <3>1, <3>3, RowOf
      <4>2. RequiredChange(cl, f, srv.entries[f].sha1) = "Download"
        BY <2>4, <3>1, <3>3, <4>1, Required
      <4>3. f \in todo
        BY <2>4, <3>3, <4>2
      <4> QED BY <2>1, <4>3 DEF ToFetch
    <3>4. CASE f \notin deleted /\ f \notin batch
      <4>1. Unknown(srv, cl.usn, f)
        BY <1>1, <2>8, <3>1, <3>4
      <4>2. ~ Known(srv, last, f)
        BY <2>7, <3>1, <3>4, <4>1
      <4> QED BY <1>2, <2>6, <4>1, <4>2, KnownOrNot
    <3> QED BY <3>2, <3>3, <3>4
  <2>11. ASSUME NEW f \in Files, Unknown(srv, cl.usn, f), Known(srv, last, f)
         PROVE  Decided(after, f, srv.entries[f].sha1)
    <3> DEFINE change == RequiredChange(cl, f, srv.entries[f].sha1)
    <3>1. f \in batch
      BY <2>7, <2>11
    <3>2. CASE change = "Download"
      BY <2>1, <2>4, <3>1, <3>2 DEF Decided
    <3>3. CASE change = "Delete"
      BY <2>1, <2>3, <2>4, <3>1, <3>3, Required DEF Decided
    <3>4. CASE change = "RemovePending"
      <4>1. f \in clean /\ f \notin deleted
        BY <2>4, <3>1, <3>4
      <4>2. Sha1(after, f) = srv.entries[f].sha1
        BY <2>8, <3>4, <4>1, Required
      <4> QED BY <2>1, <2>3, <4>1, <4>2 DEF Decided
    <3>5. CASE change = "None"
      <4>1. f \notin clean /\ f \notin deleted
        BY <2>4, <3>1, <3>5
      <4>2. f \in Pending(after) \/ Sha1(after, f) = srv.entries[f].sha1
        BY <2>8, <3>5, <4>1, Required
      <4> QED BY <2>1, <2>3, <4>1, <4>2 DEF Decided
    <3> QED BY <3>2, <3>3, <3>4, <3>5, Required
  <2>12. DownloadInv(after, srv)
    <3>1. \A f \in deleted \cup todo : Unknown(srv, cl.usn, f)
      BY <1>3, <2>5
    <3>2. cl.usn <= last
      BY <1>2, <2>6
    <3> QED BY <2>1, <2>3, <2>6, <2>11, <3>1, <3>2 DEF DownloadInv, ToFetch
  <2> QED BY <2>1, <2>9, <2>10, <2>12 DEF ClientInv, MarkedInv, StageInv
<1> QED BY <1>4, <1>5

\* Downloading one zip of a batch.
LEMMA DownloadKeeps ==
  ASSUME NEW cl \in ClientStates, NEW after \in ClientStates,
         NEW srv, srv \in ServerStates(srv.usn), ServerInv(srv), ClientInv(cl, srv),
         cl.sync.pc = "download", NEW S \in SUBSET cl.sync.todo,
         \A f \in S : Listed(srv, f), after.usn = cl.usn, after.gone = cl.gone \ S,
         after.sync = [cl.sync EXCEPT !.todo = cl.sync.todo \ S,
                         !.added = Over([f \in S |-> srv.disk[f]], cl.sync.added)],
         \A f \in Files : after.disk[f] = IF f \in S THEN srv.disk[f] ELSE cl.disk[f],
         \A f \in Files : SameRow(after, cl, f)
  PROVE  ClientInv(after, srv)
<1>1. GoneInv(cl) /\ DownloadInv(cl, srv)
  BY DEF ClientInv, StageInv
<1>2. /\ cl.sync \in [pc : {"download"}, usn : Nat, todo : SUBSET Files, deleted : SUBSET Files,
                      clean : SUBSET Files, added : SomeFiles(Data)]
      /\ cl.sync.todo \subseteq Files /\ cl.sync.added \in SomeFiles(Data)
  <2>1. cl.sync \in SyncStates
    BY ClientFields
  <2> QED BY <2>1, StageFields
<1>3. DOMAIN cl.sync.added \subseteq Files
  BY <1>2, IsTable
<1> DEFINE added == Over([f \in S |-> srv.disk[f]], cl.sync.added)
<1>4. /\ after.sync.pc = "download" /\ after.sync.usn = cl.sync.usn
      /\ after.sync.todo = cl.sync.todo \ S /\ after.sync.added = added
      /\ after.sync.deleted = cl.sync.deleted /\ after.sync.clean = cl.sync.clean
  <2> DEFINE tables == SomeFiles(Data)
  <2>1. cl.sync \in [pc : {"download"}, usn : Nat, todo : SUBSET Files, deleted : SUBSET Files,
                      clean : SUBSET Files, added : tables]
    BY <1>2
  <2>2. after.sync = [cl.sync EXCEPT !.todo = cl.sync.todo \ S, !.added = added]
    OBVIOUS
  <2> HIDE DEF tables, added
  <2> QED BY <2>1, <2>2
<1>5. /\ DOMAIN added = S \cup DOMAIN cl.sync.added
      /\ \A f \in DOMAIN added : added[f] = IF f \in S THEN srv.disk[f] ELSE cl.sync.added[f]
  BY DEF Over
<1> HIDE DEF added
<1>6. ASSUME NEW f \in S
      PROVE  /\ f \in Files /\ srv.disk[f] = srv.entries[f].sha1 /\ srv.disk[f] # Absent
  <2>1. f \in Files
    BY <1>2
  <2>2. Listed(srv, f)
    OBVIOUS
  <2>3. srv.disk[f] = ServerSha1(srv, f)
    BY <2>1 DEF ServerInv
  <2> QED BY <2>1, <2>2, <2>3 DEF Listed, ServerSha1
<1>7. ASSUME NEW f \in Files
      PROVE  Sha1(after, f) = Sha1(cl, f) /\ (f \in Pending(after) <=> f \in Pending(cl))
  BY SameRowSays
<1>8. ToFetch(after.sync) = ToFetch(cl.sync)
  BY <1>4, <1>5 DEF ToFetch
<1>9. GoneInv(after)
  BY <1>1, <1>6, <1>7 DEF GoneInv
<1>10. ASSUME NEW f \in Marked(after)
       PROVE  f \in cl.sync.deleted \cup ToFetch(cl.sync) \/ Unknown(srv, cl.sync.usn, f)
  <2>1. f \in Files /\ f \in Pending(cl) /\ Sha1(cl, f) = Absent /\ f \notin cl.gone \ S
    BY <1>7, RowOf, MarkedFiles
  <2>2. CASE f \in S
    BY <2>2 DEF ToFetch
  <2>3. CASE f \notin S
    <3>1. f \in Marked(cl)
      BY <2>1, <2>3, RowOf
    <3> QED BY <3>1 DEF ClientInv, MarkedInv
  <2> QED BY <2>2, <2>3
<1>11. DownloadInv(after, srv)
  <2>1. ASSUME NEW f \in Files, Unknown(srv, cl.usn, f), Known(srv, cl.sync.usn, f)
        PROVE  Decided(after, f, srv.entries[f].sha1)
    <3>1. Decided(cl, f, srv.entries[f].sha1)
      BY <1>1, <2>1 DEF DownloadInv
    <3>2. CASE f \in S
      BY <1>4, <1>5, <1>6, <3>2 DEF Decided
    <3>3. CASE f \notin S
      BY <1>4, <1>5, <1>7, <3>1, <3>3 DEF Decided
    <3> QED BY <3>2, <3>3
  <2>2. ASSUME NEW f \in DOMAIN added
        PROVE  added[f] # Absent /\ (after.disk[f] = Absent => f \in after.gone)
    BY <1>1, <1>3, <1>5, <1>6 DEF DownloadInv
  <2> QED BY <1>1, <1>4, <1>8, <2>1, <2>2 DEF DownloadInv
<1> QED BY <1>4, <1>8, <1>9, <1>10, <1>11 DEF ClientInv, MarkedInv, StageInv

\* Recording a batch: its marks go with it, and it has accounted for its rows.
LEMMA RecordKeeps ==
  ASSUME NEW cl \in ClientStates, NEW after \in ClientStates,
         NEW srv, srv \in ServerStates(srv.usn), ClientInv(cl, srv),
         cl.sync.pc = "download", cl.sync.todo = {},
         after.disk = cl.disk, after.gone = cl.gone,
         after.usn = cl.sync.usn, after.sync = [pc |-> "fetch", usn |-> cl.sync.usn],
         DOMAIN after.db = DOMAIN cl.sync.added \cup (DOMAIN cl.db \ cl.sync.deleted),
         \A f \in DOMAIN after.db :
              IF f \in DOMAIN cl.sync.added
              THEN after.db[f] = MediaEntry(cl.sync.added[f], FALSE, FALSE)
              ELSE /\ after.db[f].sha1 = cl.db[f].sha1 /\ after.db[f].fresh = cl.db[f].fresh
                   /\ after.db[f].sync_required <=> cl.db[f].sync_required /\ f \notin cl.sync.clean
  PROVE  /\ ClientInv(after, srv)
         /\ \A f \in Files : Unknown(srv, cl.usn, f) /\ Known(srv, after.usn, f) =>
              \/ f \in Pending(after) \/ Sha1(after, f) = srv.entries[f].sha1
              \/ "busy" \in Faults /\ f \in cl.sync.clean
<1>1. GoneInv(cl) /\ DownloadInv(cl, srv)
  BY DEF ClientInv, StageInv
<1>2. after.sync.pc = "fetch" /\ after.sync.usn = cl.sync.usn
  OBVIOUS
<1>3. ASSUME NEW f \in Files
      PROVE  /\ f \in DOMAIN cl.sync.added =>
                  Sha1(after, f) = cl.sync.added[f] /\ f \notin Pending(after)
             /\ f \notin DOMAIN cl.sync.added /\ f \in cl.sync.deleted =>
                  Sha1(after, f) = Absent /\ f \notin Pending(after)
             /\ f \notin DOMAIN cl.sync.added /\ f \notin cl.sync.deleted =>
                  /\ Sha1(after, f) = Sha1(cl, f)
                  /\ f \in Pending(after) <=> f \in Pending(cl) /\ f \notin cl.sync.clean
  <2>1. CASE f \in DOMAIN cl.sync.added
    <3>1. f \in DOMAIN after.db /\ after.db[f] = MediaEntry(cl.sync.added[f], FALSE, FALSE)
      BY <2>1
    <3> QED BY <2>1, <3>1 DEF Sha1, Pending, MediaEntry
  <2>2. CASE f \notin DOMAIN cl.sync.added /\ f \notin DOMAIN after.db
    <3>1. f \notin DOMAIN cl.db \/ f \in cl.sync.deleted
      BY <2>2
    <3> QED BY <2>2, <3>1 DEF Sha1, Pending
  <2>3. CASE f \notin DOMAIN cl.sync.added /\ f \in DOMAIN after.db
    <3>1. /\ f \in DOMAIN cl.db /\ f \notin cl.sync.deleted
          /\ after.db[f].sha1 = cl.db[f].sha1
          /\ after.db[f].sync_required <=> cl.db[f].sync_required /\ f \notin cl.sync.clean
      BY <2>3
    <3> QED BY <2>3, <3>1 DEF Sha1, Pending
  <2> QED BY <2>1, <2>2, <2>3
<1>4. GoneInv(after)
  <2> SUFFICES ASSUME NEW f \in Files, Sha1(after, f) # Absent, cl.disk[f] = Absent
               PROVE  f \in cl.gone
    BY DEF GoneInv
  <2>1. CASE f \in DOMAIN cl.sync.added
    BY <1>1, <2>1 DEF DownloadInv
  <2>2. CASE f \notin DOMAIN cl.sync.added
    BY <1>1, <1>3, <2>2 DEF GoneInv
  <2> QED BY <2>1, <2>2
<1>5. ASSUME NEW f \in Marked(after)
      PROVE  Unknown(srv, after.usn, f)
  <2>1. f \in Files /\ f \in Pending(after) /\ Sha1(after, f) = Absent /\ f \notin cl.gone
    BY RowOf, MarkedFiles
  <2>2. f \notin DOMAIN cl.sync.added /\ f \notin cl.sync.deleted
    BY <1>3, <2>1
  <2>3. f \in Marked(cl)
    BY <1>3, <2>1, <2>2, RowOf
  <2> QED BY <2>2, <2>3 DEF ClientInv, MarkedInv, ToFetch
<1>6. ASSUME NEW f \in Files, Unknown(srv, cl.usn, f), Known(srv, after.usn, f)
      PROVE  \/ f \in Pending(after) \/ Sha1(after, f) = srv.entries[f].sha1
             \/ "busy" \in Faults /\ f \in cl.sync.clean
  <2>1. Decided(cl, f, srv.entries[f].sha1)
    BY <1>1, <1>6 DEF DownloadInv
  <2> QED BY <1>3, <2>1 DEF Decided
<1>7. MarkedInv(after, srv) /\ StageInv(after, srv)
  BY <1>2, <1>5 DEF MarkedInv, StageInv
<1> QED BY <1>4, <1>6, <1>7 DEF ClientInv

\* The answer to an upload: rows are marked clean, and none that was marked as deleted
\* by the trash was there to be sent.
LEMMA ReplyKeeps ==
  ASSUME NEW cl \in ClientStates, NEW after \in ClientStates, NEW srv, ClientInv(cl, srv),
         cl.sync.pc = "reply", after.disk = cl.disk, after.gone = cl.gone,
         after.sync = SendFrom(TRUE), DOMAIN after.db = DOMAIN cl.db,
         \A f \in DOMAIN cl.db :
              /\ after.db[f].sha1 = cl.db[f].sha1
              /\ after.db[f].sync_required => cl.db[f].sync_required
  PROVE  ClientInv(after, srv)
<1>1. after.sync.pc = "send"
  BY DEF SendFrom
<1>2. GoneInv(after)
  BY DEF ClientInv, GoneInv, Sha1
<1>3. Marked(after) \subseteq Marked(cl)
  BY DEF Marked, Pending
<1>4. Marked(cl) = {}
  BY DEF ClientInv, MarkedInv
<1> QED BY <1>1, <1>2, <1>3, <1>4 DEF ClientInv, MarkedInv, StageInv

\* A client that starts over has no rows.
LEMMA RestartKeeps ==
  ASSUME NEW cl \in ClientStates, NEW after \in ClientStates, NEW srv,
         after.sync = Idle, DOMAIN after.db = {}
  PROVE  ClientInv(after, srv)
<1>1. Marked(after) = {} /\ \A f : Sha1(after, f) = Absent
  BY DEF Marked, Pending, Sha1
<1> QED BY <1>1 DEF Idle, ClientInv, GoneInv, MarkedInv, StageInv

---------------------------------------------------------------------------
(* The users' actions. *)

\* What an edit makes of a file: it marks no row, what it removes is known to be the
\* user's doing, and what it changes waits to be uploaded.
EditedFile(after, cl, f) ==
  /\ f \in Marked(after) => f \in Marked(cl)
  /\ after.disk[f] = Absent /\ f \notin after.gone =>
       cl.disk[f] = Absent /\ f \notin cl.gone /\ Sha1(after, f) = Sha1(cl, f)
  /\ f \in Pending(after) \/ (Sha1(after, f) = Sha1(cl, f) /\ f \notin Pending(cl))

\* A file that an edit does not touch.
LEMMA KeptFile ==
  ASSUME NEW cl \in ClientStates, NEW after \in ClientStates, NEW f \in Files,
         SameRow(after, cl, f), after.disk[f] = cl.disk[f], f \in after.gone <=> f \in cl.gone
  PROVE  EditedFile(after, cl, f)
<1>1. Sha1(after, f) = Sha1(cl, f) /\ (f \in Pending(after) <=> f \in Pending(cl))
  BY SameRowSays
<1> QED BY <1>1, RowOf DEF EditedFile

\* An edit, between syncs or during one.
LEMMA EditKeeps ==
  ASSUME NEW cl \in ClientStates, NEW after \in ClientStates, NEW srv, ClientInv(cl, srv),
         "busy" \in Faults \/ cl.sync = Idle,
         after.usn = cl.usn, after.sync = cl.sync,
         \A f \in Files : EditedFile(after, cl, f)
  PROVE  ClientInv(after, srv)
<1>1. GoneInv(after)
  BY DEF ClientInv, GoneInv, EditedFile
<1>2. Marked(after) \subseteq Marked(cl)
  BY MarkedFiles DEF EditedFile
<1>3. MarkedInv(after, srv)
  BY <1>2 DEF ClientInv, MarkedInv
<1>4. ASSUME cl.sync.pc = "download"
      PROVE  DownloadInv(after, srv)
  <2>1. "busy" \in Faults
    BY <1>4 DEF Idle
  <2>2. DownloadInv(cl, srv)
    BY <1>4 DEF ClientInv, StageInv
  <2>3. ASSUME NEW f \in Files, Decided(cl, f, srv.entries[f].sha1)
        PROVE  Decided(after, f, srv.entries[f].sha1)
    BY <2>1, <2>3 DEF EditedFile, Decided
  <2>4. ASSUME NEW f \in DOMAIN cl.sync.added, after.disk[f] = Absent
        PROVE  f \in after.gone
    <3>1. f \in Files
      <4>1. cl.sync \in SyncStates
        BY ClientFields
      <4>2. cl.sync.added \in SomeFiles(Data)
        BY <1>4, <4>1, StageFields
      <4> QED BY <4>2, IsTable
    <3> QED BY <2>2, <2>4, <3>1 DEF EditedFile, DownloadInv
  <2> QED BY <2>2, <2>3, <2>4 DEF DownloadInv
<1> QED BY <1>1, <1>3, <1>4 DEF ClientInv, StageInv

\* A client's step that leaves the server, and the other clients, alone.
LEMMA OneKeeps ==
  ASSUME MediaInv, NEW c \in Clients, NEW after, Becomes(c, after), server' = server,
         clients \in [Clients -> ClientStates], ClientInv(after, server)
  PROVE  MediaInv'
<1>1. ServerInv(server') /\ \A d \in Clients : ClientInv(clients'[d], server')
  <2>1. ASSUME NEW d \in Clients
        PROVE  clients'[d] = IF d = c THEN after ELSE clients[d]
    BY DEF Becomes
  <2> QED BY <2>1 DEF MediaInv
<1> QED BY <1>1 DEF MediaInv

\* What users do is an edit of every file.
LEMMA UserEdits ==
  ASSUME clients \in [Clients -> ClientStates], NEW c \in Clients, UserStep(c)
  PROVE  \E after : LET cl == clients[c] IN
         /\ Edited /\ MayEdit(c) /\ Becomes(c, after)
         /\ after.usn = cl.usn /\ after.sync = cl.sync
         /\ \A f \in Files : EditedFile(after, cl, f)
<1> DEFINE cl == clients[c]
<1>1. cl \in ClientStates
  OBVIOUS
<1> DEFINE Result(after) ==
         /\ Edited /\ MayEdit(c) /\ Becomes(c, after)
         /\ after.usn = cl.usn /\ after.sync = cl.sync
         /\ \A g \in Files : EditedFile(after, cl, g)
<1>2. ASSUME NEW f \in Files, NEW data \in Contents[f], AddFile(c, f, data)
      PROVE  \E after : Result(after)
  <2>1. PICK after :
         /\ Edited /\ MayEdit(c) /\ data # Absent
         /\ Becomes(c, after) /\ Written(after, cl, f, data)
         /\ after.usn = cl.usn /\ after.sync = cl.sync
         /\ after.gone = cl.gone \ {f}
         /\ \A g \in Files \ {f} : SameRow(after, cl, g)
         /\ RowAdded(after, cl, f, data)
    BY <1>2, AddFileStep
  <2>2. after \in ClientStates
    BY <2>1 DEF Becomes
  <2>3. ASSUME NEW g \in Files
        PROVE  EditedFile(after, cl, g)
    <3>1. CASE g = f
      <4>1. after.disk[g] # Absent
        BY <2>1, <3>1 DEF Written
      <4>2. Sha1(after, g) # Absent
            /\ (g \in Pending(after) \/ (Sha1(after, g) = Sha1(cl, g) /\ g \notin Pending(cl)))
        <5>1. CASE Sha1(cl, f) = data
          <6>1. SameRow(after, cl, g)
            BY <2>1, <3>1, <5>1 DEF RowAdded
          <6> QED BY <2>1, <3>1, <5>1, <6>1, SameRowSays
        <5>2. CASE Sha1(cl, f) # data
          <6>1. g \in DOMAIN after.db /\ after.db[g] = MediaEntry(data, TRUE, FALSE)
            BY <2>1, <3>1, <5>2 DEF RowAdded
          <6> QED BY <2>1, <6>1 DEF MediaEntry, Sha1, Pending
        <5> QED BY <5>1, <5>2
      <4> QED BY <2>2, <4>1, <4>2, RowOf DEF EditedFile
    <3>2. CASE g # f
      <4>1. SameRow(after, cl, g) /\ after.disk[g] = cl.disk[g] /\ (g \in after.gone <=> g \in cl.gone)
        BY <2>1, <3>2 DEF Written
      <4> QED BY <1>1, <2>2, <4>1, KeptFile
    <3> QED BY <3>1, <3>2
  <2> QED BY <2>1, <2>3
<1>3. ASSUME NEW f \in Files, NEW data \in Contents[f], WriteOutside(c, f, data)
      PROVE  \E after : Result(after)
  <2>1. PICK after :
         /\ Edited /\ MayEdit(c) /\ data # Absent
         /\ Becomes(c, after) /\ Written(after, cl, f, data)
         /\ after.usn = cl.usn /\ after.sync = cl.sync
         /\ after.gone = cl.gone
         /\ \A g \in Files : SameRow(after, cl, g)
    BY <1>3, WriteOutsideStep
  <2>2. after \in ClientStates
    BY <2>1 DEF Becomes
  <2>3. ASSUME NEW g \in Files
        PROVE  EditedFile(after, cl, g)
    <3>1. CASE g = f
      <4>1. after.disk[g] # Absent /\ Sha1(after, g) = Sha1(cl, g)
            /\ (g \in Pending(after) <=> g \in Pending(cl))
        BY <2>1, <3>1, SameRowSays DEF Written
      <4> QED BY <1>1, <2>1, <2>2, <4>1, RowOf DEF EditedFile
    <3>2. CASE g # f
      <4>1. SameRow(after, cl, g) /\ after.disk[g] = cl.disk[g] /\ (g \in after.gone <=> g \in cl.gone)
        BY <2>1, <3>2 DEF Written
      <4> QED BY <1>1, <2>2, <4>1, KeptFile
    <3> QED BY <3>1, <3>2
  <2> QED BY <2>1, <2>3
<1>4. ASSUME NEW names \in SUBSET Deletable, RemoveFiles(c, names)
      PROVE  \E after : Result(after)
  <2>1. PICK after, moved :
         /\ Edited /\ MayEdit(c) /\ \A f \in names : MayDelete(c, f)
         /\ moved \subseteq Present(cl, names) /\ (Present(cl, names) = names => moved = names)
         /\ names \subseteq Files
         /\ Becomes(c, after)
         /\ after.seen = cl.seen /\ after.usn = cl.usn /\ after.sync = cl.sync
         /\ after.gone = cl.gone \cup names
         /\ \A f \in Files : after.disk[f] = IF f \in moved THEN Absent ELSE cl.disk[f]
         /\ DOMAIN after.db = DOMAIN cl.db
         /\ \A f \in DOMAIN cl.db :
              IF f \in names THEN after.db[f] = MediaEntry(Absent, TRUE, FALSE)
              ELSE SameRow(after, cl, f)
    BY ZenonT(60), <1>4, RemoveFilesStep
  <2>2. after \in ClientStates
    BY <2>1 DEF Becomes
  <2>3. ASSUME NEW g \in Files
        PROVE  EditedFile(after, cl, g)
    <3>1. CASE g \in names
      <4>1. g \in after.gone /\ g \notin Marked(after)
        BY <2>1, <2>2, <3>1, RowOf
      <4>2. g \in Pending(after) \/ (Sha1(after, g) = Sha1(cl, g) /\ g \notin Pending(cl))
        <5>1. CASE g \in DOMAIN cl.db
          BY <2>1, <3>1, <5>1 DEF MediaEntry, Pending
        <5>2. CASE g \notin DOMAIN cl.db
          BY <2>1, <5>2 DEF Sha1, Pending
        <5> QED BY <5>1, <5>2
      <4> QED BY <4>1, <4>2 DEF EditedFile
    <3>2. CASE g \notin names
      <4>1. after.disk[g] = cl.disk[g] /\ (g \in after.gone <=> g \in cl.gone)
        BY <2>1, <3>2 DEF Present
      <4>2. SameRow(after, cl, g)
        BY <2>1, <3>2 DEF SameRow
      <4> QED BY <1>1, <2>2, <4>1, <4>2, KeptFile
    <3> QED BY <3>1, <3>2
  <2> QED BY <2>1, <2>3
<1>5. ASSUME NEW f \in Files, DeleteOutside(c, f)
      PROVE  \E after : Result(after)
  <2>1. PICK after :
         /\ Edited /\ MayEdit(c)
         /\ Becomes(c, after) /\ Written(after, cl, f, Absent)
         /\ after.usn = cl.usn /\ after.sync = cl.sync
         /\ after.gone = cl.gone \cup {f}
         /\ \A g \in Files : SameRow(after, cl, g)
    BY <1>5, DeleteOutsideStep
  <2>2. after \in ClientStates
    BY <2>1 DEF Becomes
  <2>3. ASSUME NEW g \in Files
        PROVE  EditedFile(after, cl, g)
    <3>1. CASE g = f
      <4>1. g \in after.gone /\ g \notin Marked(after)
        BY <2>1, <2>2, <3>1, RowOf
      <4>2. Sha1(after, g) = Sha1(cl, g) /\ (g \in Pending(after) <=> g \in Pending(cl))
        BY <2>1, SameRowSays
      <4> QED BY <4>1, <4>2 DEF EditedFile
    <3>2. CASE g # f
      <4>1. SameRow(after, cl, g) /\ after.disk[g] = cl.disk[g] /\ (g \in after.gone <=> g \in cl.gone)
        BY <2>1, <3>2 DEF Written
      <4> QED BY <1>1, <2>2, <4>1, KeptFile
    <3> QED BY <3>1, <3>2
  <2> QED BY <2>1, <2>3
<1>6. \E after : Result(after)
  BY <1>2, <1>3, <1>4, <1>5 DEF UserStep
<1> QED BY <1>6

---------------------------------------------------------------------------
(* The server's rows while an upload is taken. *)

\* The server's rows for some files are new, with numbers after all that there were;
\* the others are as before.
Moves(srv, now, new) ==
  /\ DOMAIN now.entries = new \cup DOMAIN srv.entries /\ now.usn >= srv.usn
  /\ \A f \in new : now.entries[f].usn \in Nat /\ now.entries[f].usn > srv.usn
  /\ \A f \in DOMAIN srv.entries \ new : now.entries[f] = srv.entries[f]

\* What was beyond a number stays beyond it; what is within one is as it was.
LEMMA MovesNumbers ==
  ASSUME NEW srv, srv \in ServerStates(srv.usn), NEW now, NEW new, Moves(srv, now, new),
         NEW usn \in Nat, NEW f
  PROVE  /\ Unknown(srv, usn, f) => Unknown(now, usn, f)
         /\ usn <= srv.usn /\ Known(now, usn, f) =>
              f \notin new /\ f \in DOMAIN srv.entries /\ now.entries[f] = srv.entries[f]
<1>1. srv.usn \in Nat
  BY DEF ServerStates
<1>2. f \in DOMAIN srv.entries => srv.entries[f].usn \in Nat /\ srv.entries[f].usn <= srv.usn
  BY <1>1, ServerFields
<1>3. f \in new => now.entries[f].usn \in Nat /\ now.entries[f].usn > srv.usn
  BY DEF Moves
<1>4. f \in DOMAIN srv.entries /\ f \notin new => now.entries[f] = srv.entries[f]
  BY DEF Moves
<1>5. f \in DOMAIN now.entries <=> f \in new \/ f \in DOMAIN srv.entries
  BY DEF Moves
<1> QED BY <1>1, <1>2, <1>3, <1>4, <1>5 DEF Known, Unknown

\* Another client's sync is as good for the server after the upload, wherever it is.
LEMMA MovesClient ==
  ASSUME NEW cl \in ClientStates, NEW srv, srv \in ServerStates(srv.usn), NEW now, now.usn \in Nat,
         NEW new, Moves(srv, now, new), ClientInv(cl, srv)
  PROVE  ClientInv(cl, now)
<1>1. cl.usn \in Nat /\ srv.usn \in Nat /\ srv.usn <= now.usn
  BY ClientFields DEF ServerStates, Moves
<1>2. CASE cl.sync.pc = "download"
  <2>1. cl.sync.usn \in Nat
    <3>1. cl.sync \in SyncStates
      BY ClientFields
    <3> QED BY <1>2, <3>1, StageFields
  <2>2. DownloadInv(cl, srv)
    BY <1>2 DEF ClientInv, StageInv
  <2>3. ASSUME NEW f \in Files, Unknown(now, cl.usn, f), Known(now, cl.sync.usn, f)
        PROVE  Decided(cl, f, now.entries[f].sha1)
    <3>1. f \in DOMAIN srv.entries /\ now.entries[f] = srv.entries[f]
      BY <2>1, <2>2, <2>3, MovesNumbers DEF DownloadInv
    <3>2. Unknown(srv, cl.usn, f) /\ Known(srv, cl.sync.usn, f)
      BY <2>3, <3>1 DEF Known, Unknown
    <3> QED BY <2>2, <3>1, <3>2 DEF DownloadInv
  <2>4. \A f \in cl.sync.deleted \cup ToFetch(cl.sync) : Unknown(now, cl.usn, f)
    BY <1>1, <2>2, MovesNumbers DEF DownloadInv
  <2>5. cl.sync.usn <= now.usn
    BY <1>1, <2>1, <2>2 DEF DownloadInv
  <2>6. DownloadInv(cl, now)
    BY <2>2, <2>3, <2>4, <2>5 DEF DownloadInv
  <2>7. ASSUME NEW f \in Marked(cl)
        PROVE  f \in cl.sync.deleted \cup ToFetch(cl.sync) \/ Unknown(now, cl.sync.usn, f)
    <3>1. f \in cl.sync.deleted \cup ToFetch(cl.sync) \/ Unknown(srv, cl.sync.usn, f)
      BY <1>2 DEF ClientInv, MarkedInv
    <3> QED BY <2>1, <3>1, MovesNumbers
  <2> QED BY <1>2, <2>6, <2>7 DEF ClientInv, MarkedInv, StageInv
<1>3. CASE cl.sync.pc \in {"idle", "fetch"}
  <2>1. \A f \in Marked(cl) : Unknown(srv, cl.usn, f)
    BY <1>3 DEF ClientInv, MarkedInv
  <2>2. \A f \in Marked(cl) : Unknown(now, cl.usn, f)
    BY <1>1, <2>1, MovesNumbers
  <2> QED BY <1>3, <2>2 DEF ClientInv, MarkedInv, StageInv
<1>4. CASE cl.sync.pc \notin {"idle", "fetch", "download"}
  BY <1>4 DEF ClientInv, MarkedInv, StageInv
<1> QED BY <1>2, <1>3, <1>4

\* The server's rows move when it takes a zip, and still say what files it has.
LEMMA UploadMoves ==
  ASSUME NEW srv, srv \in ServerStates(srv.usn), ServerInv(srv), NEW zip \in SomeFiles(Data)
  PROVE  LET now == RegisterAll(srv, zip) IN
         now.usn \in Nat /\ ServerInv(now) /\ Moves(srv, now, Registered(srv, zip))
<1> DEFINE new == Registered(srv, zip)
           now == RegisterAll(srv, zip)
<1>1. /\ new \subseteq DOMAIN zip /\ new \subseteq Files /\ Cardinality(new) \in Nat
      /\ now.usn \in Nat /\ now.usn = srv.usn + Cardinality(new)
      /\ DOMAIN now.entries = new \cup DOMAIN srv.entries
      /\ \A f \in new : /\ now.entries[f].sha1 = zip[f]
                        /\ now.entries[f].usn \in Nat /\ now.entries[f].usn > srv.usn
      /\ \A f \in DOMAIN srv.entries \ new : now.entries[f] = srv.entries[f]
      /\ \A f \in Files : now.disk[f] = IF f \in new THEN zip[f] ELSE srv.disk[f]
  BY ZipRegistered
<1>2. srv.usn \in Nat
  BY DEF ServerStates
<1> HIDE DEF new, now
<1>3. Moves(srv, now, new)
  BY <1>1, <1>2 DEF Moves
<1>4. ASSUME NEW f \in Files
      PROVE  now.disk[f] = ServerSha1(now, f)
  <2>1. CASE f \in new
    BY <1>1, <2>1 DEF ServerSha1
  <2>2. CASE f \notin new
    <3>1. f \in DOMAIN now.entries <=> f \in DOMAIN srv.entries
      BY <1>1, <2>2
    <3>2. f \in DOMAIN srv.entries => now.entries[f] = srv.entries[f]
      BY <1>1, <2>2
    <3>3. now.disk[f] = srv.disk[f]
      BY <1>1, <2>2
    <3> QED BY <3>1, <3>2, <3>3 DEF ServerInv, ServerSha1
  <2> QED BY <2>1, <2>2
<1> QED BY <1>1, <1>3, <1>4 DEF new, now, ServerInv

---------------------------------------------------------------------------
(* Every step keeps the invariant. *)

\* It holds at the start.
LEMMA InvInit == Init => MediaInv
<1> SUFFICES ASSUME Init PROVE MediaInv
  OBVIOUS
<1>1. DOMAIN NoFiles = {}
  BY NoFilesTyped
<1>2. server.disk = [f \in Files |-> Absent] /\ server.entries = NoFiles
  BY DEF Init
<1>3. ServerInv(server)
  BY <1>1, <1>2 DEF ServerInv, ServerSha1
<1>4. ASSUME NEW c \in Clients
      PROVE  ClientInv(clients[c], server)
  <2> DEFINE cl == clients[c]
  <2>1. cl.db = NoFiles /\ cl.sync.pc = "idle"
    BY DEF Init, Idle
  <2> HIDE DEF cl
  <2>2. Marked(cl) = {} /\ \A f : Sha1(cl, f) = Absent
    BY <1>1, <2>1 DEF Marked, Pending, Sha1
  <2> QED BY <2>1, <2>2 DEF cl, ClientInv, GoneInv, MarkedInv, StageInv
<1> QED BY <1>3, <1>4 DEF MediaInv

\* Every step keeps it.
LEMMA InvStep ==
  ASSUME TypeOK, MediaInv, NothingHalfWritten, [Next]_vars
  PROVE  MediaInv'
<1>1. clients \in [Clients -> ClientStates] /\ server \in ServerStates(server.usn)
  BY DEF TypeOK
<1>2. ASSUME NEW c \in Clients
      PROVE  clients[c] \in ClientStates /\ ClientInv(clients[c], server) /\ ServerInv(server)
  BY <1>1 DEF MediaInv
<1>3. CASE vars' = vars
  BY <1>3 DEF vars, MediaInv
<1>4. ASSUME NEW c \in Clients, StartSync(c) PROVE MediaInv'
  <2> DEFINE cl == clients[c]
  <2>1. PICK after :
         /\ Quiet /\ cl.sync.pc = "idle" /\ Becomes(c, after)
         /\ after.disk = cl.disk /\ after.seen /\ after.usn = cl.usn
         /\ after.sync = IF cl.usn = server.usn THEN SendFrom(FALSE)
                         ELSE [pc |-> "fetch", usn |-> cl.usn]
         /\ IF cl.seen THEN after.gone = cl.gone /\ after.db = cl.db
            ELSE /\ after.gone = cl.gone \ OnDisk(cl.disk)
                 /\ DOMAIN after.db = DOMAIN cl.db \cup OnDisk(cl.disk)
                 /\ \A f \in DOMAIN after.db : after.db[f] = Rescanned(cl, f)
    BY <1>1, <1>4, StartSyncStep
  <2>2. cl \in ClientStates /\ ClientInv(cl, server) /\ after \in ClientStates
    BY <1>2, <2>1 DEF Becomes
  <2> HIDE DEF cl
  <2>3. ClientInv(after, server)
    BY <1>1, <2>1, <2>2, StartKeeps
  <2> QED BY <1>1, <2>1, <2>3, OneKeeps DEF Quiet
<1>5. ASSUME NEW c \in Clients, FetchChanges(c) PROVE MediaInv'
  <2> DEFINE cl == clients[c]
             batch == ChangesChunk(server, cl.sync.usn)
             deleted == To(cl, server, batch, "Delete")
  <2>1. PICK after :
         /\ Quiet /\ cl.sync.pc = "fetch" /\ Becomes(c, after)
         /\ after.seen = cl.seen /\ after.usn = cl.usn /\ after.gone = cl.gone
         /\ IF batch = {} THEN after.sync = SendFrom(TRUE) /\ SameButSync(after, cl)
            ELSE /\ after.sync = [pc |-> "download", usn |-> LastUsn(server, batch),
                                  todo |-> To(cl, server, batch, "Download"), deleted |-> deleted,
                                  clean |-> To(cl, server, batch, "RemovePending"),
                                  added |-> NoFiles]
                 /\ \A f \in Files : after.disk[f] =
                      IF f \in Moved(cl, server, deleted) THEN Absent ELSE cl.disk[f]
                 /\ DOMAIN after.db = DOMAIN cl.db
                 /\ \A f \in DOMAIN cl.db :
                      IF f \in deleted THEN after.db[f] = MediaEntry(Absent, TRUE, FALSE)
                      ELSE SameRow(after, cl, f)
    <3>1. cl.sync.pc = "fetch" => cl.sync.usn \in Nat
      BY <1>1, FetchNumber
    <3> QED BY <1>1, <1>5, <3>1, FetchChangesStep
  <2>2. cl \in ClientStates /\ ClientInv(cl, server) /\ ServerInv(server) /\ after \in ClientStates
    BY <1>2, <2>1 DEF Becomes
  <2>3. batch = ChangesChunk(server, cl.sync.usn) /\ deleted = To(cl, server, batch, "Delete")
    OBVIOUS
  <2> HIDE DEF cl, batch, deleted
  <2>4. ClientInv(after, server)
    BY <1>1, <2>1, <2>2, <2>3, FetchKeeps
  <2> QED BY <1>1, <2>1, <2>4, OneKeeps DEF Quiet
<1>6. ASSUME NEW c \in Clients, DownloadFiles(c) PROVE MediaInv'
  <2> DEFINE cl == clients[c]
  <2>1. PICK after, S :
         /\ edits' = edits /\ failures' = failures
         /\ cl.sync.pc = "download" /\ Becomes(c, after)
         /\ S \subseteq cl.sync.todo /\ S # {} /\ (Cardinality(S) < ZipFiles => S = cl.sync.todo)
         /\ \/ /\ after.sync = Idle /\ SameButSync(after, cl)
               /\ \/ server' = server /\ \E f \in S : ~ Listed(server, f)
                  \/ \E f \in S : /\ Listed(server, f) /\ server.disk[f] = Absent
                                  /\ server' = ForgetMissingFile(server, f)
            \/ /\ server' = server /\ \A f \in S : Listed(server, f) /\ server.disk[f] # Absent
               /\ after.usn = cl.usn /\ after.gone = cl.gone \ S
               /\ after.sync = [cl.sync EXCEPT !.todo = cl.sync.todo \ S,
                     !.added = Over([f \in S |-> server.disk[f]], cl.sync.added)]
               /\ \A f \in Files : after.disk[f] = IF f \in S THEN server.disk[f] ELSE cl.disk[f]
               /\ \A f \in Files : SameRow(after, cl, f)
               /\ \A f \in S : f \in DOMAIN after.db => ~ after.db[f].fresh
    BY <1>1, <1>6, DownloadFilesStep
  <2>2. cl \in ClientStates /\ ClientInv(cl, server) /\ ServerInv(server) /\ after \in ClientStates
    BY <1>2, <2>1 DEF Becomes
  <2> HIDE DEF cl
  <2>3. \A f \in S : Listed(server, f) => server.disk[f] # Absent
    <3>1. cl.sync.todo \subseteq Files
      <4>1. cl.sync \in SyncStates
        BY <2>2, ClientFields
      <4> QED BY <2>1, <4>1, StageFields
    <3> QED BY <2>1, <2>2, <3>1 DEF Listed, ServerInv, ServerSha1
  <2>4. CASE after.sync = Idle /\ SameButSync(after, cl) /\ server' = server
             /\ \E f \in S : ~ Listed(server, f)
    <3>1. ClientInv(after, server)
      BY <1>1, <2>2, <2>4, EndKeeps
    <3> QED BY <1>1, <2>1, <2>4, <3>1, OneKeeps
  <2>5. CASE /\ server' = server /\ \A f \in S : Listed(server, f)
             /\ after.usn = cl.usn /\ after.gone = cl.gone \ S
             /\ after.sync = [cl.sync EXCEPT !.todo = cl.sync.todo \ S,
                   !.added = Over([f \in S |-> server.disk[f]], cl.sync.added)]
             /\ \A f \in Files : after.disk[f] = IF f \in S THEN server.disk[f] ELSE cl.disk[f]
             /\ \A f \in Files : SameRow(after, cl, f)
             /\ \A f \in S : f \in DOMAIN after.db => ~ after.db[f].fresh
    <3>1. ClientInv(after, server)
      BY ZenonT(60), <1>1, <2>1, <2>2, <2>5, DownloadKeeps
    <3> QED BY SMTT(60), <1>1, <2>1, <2>5, <3>1, OneKeeps
  <2> QED BY <2>1, <2>3, <2>4, <2>5
<1>7. ASSUME NEW c \in Clients, RecordBatch(c) PROVE MediaInv'
  <2> DEFINE cl == clients[c]
  <2>1. PICK after :
         /\ Quiet /\ cl.sync.pc = "download" /\ cl.sync.todo = {} /\ Becomes(c, after)
         /\ after.disk = cl.disk /\ after.gone = cl.gone /\ after.seen
         /\ after.usn = cl.sync.usn /\ after.sync = [pc |-> "fetch", usn |-> cl.sync.usn]
         /\ DOMAIN after.db = DOMAIN cl.sync.added \cup (DOMAIN cl.db \ cl.sync.deleted)
         /\ \A f \in DOMAIN after.db :
              IF f \in DOMAIN cl.sync.added
              THEN after.db[f] = MediaEntry(cl.sync.added[f], FALSE, FALSE)
              ELSE /\ after.db[f].sha1 = cl.db[f].sha1 /\ after.db[f].fresh = cl.db[f].fresh
                   /\ after.db[f].sync_required <=> cl.db[f].sync_required /\ f \notin cl.sync.clean
    BY <1>1, <1>7, RecordBatchStep
  <2>2. cl \in ClientStates /\ ClientInv(cl, server) /\ after \in ClientStates
    BY <1>2, <2>1 DEF Becomes
  <2> HIDE DEF cl
  <2>3. ClientInv(after, server)
    BY <1>1, <2>1, <2>2, RecordKeeps
  <2> QED BY <1>1, <2>1, <2>3, OneKeeps DEF Quiet
<1>8. ASSUME NEW c \in Clients, GatherUpload(c) PROVE MediaInv'
  <2> DEFINE cl == clients[c]
  <2>1. PICK after :
         /\ Quiet /\ cl.sync.pc = "send" /\ Becomes(c, after) /\ SameButSync(after, cl)
         /\ \/ Pending(cl) = {} /\ after.sync \in {[pc |-> "sanity"], Idle}
            \/ /\ after.sync.pc = "upload"
               /\ DOMAIN after.sync.zip \subseteq Pending(cl)
               /\ \A f \in DOMAIN after.sync.zip : after.sync.zip[f] =
                    IF Sha1(cl, f) = Absent THEN Absent ELSE cl.disk[f]
    BY <1>1, <1>8, GatherUploadStep
  <2>2. cl \in ClientStates /\ ClientInv(cl, server) /\ after \in ClientStates
    BY <1>2, <2>1 DEF Becomes
  <2> HIDE DEF cl
  <2>3. ClientInv(after, server)
    <3>1. CASE after.sync = Idle
      BY <1>1, <2>1, <2>2, <3>1, EndKeeps
    <3>2. CASE after.sync # Idle
      <4>1. after.sync.pc \in {"sanity", "upload"}
        BY <2>1, <3>2
      <4> QED BY <2>1, <2>2, <4>1, SendKeeps
    <3> QED BY <3>1, <3>2
  <2> QED BY <1>1, <2>1, <2>3, OneKeeps DEF Quiet
<1>9. ASSUME NEW c \in Clients, UploadChanges(c) PROVE MediaInv'
  <2> DEFINE cl == clients[c]
             zip == cl.sync.zip
             now == RegisterAll(server, zip)
  <2>1. PICK after :
         /\ cl.sync.pc = "upload" /\ zip \in SomeFiles(Data)
         /\ Becomes(c, after) /\ SameButSync(after, cl) /\ server' = now
         /\ after.sync = [pc |-> "reply", files |-> DOMAIN zip, usn |-> server'.usn]
    BY <1>1, <1>9, UploadChangesStep
  <2>2. cl \in ClientStates /\ ClientInv(cl, server) /\ ServerInv(server) /\ after \in ClientStates
    BY <1>2, <2>1 DEF Becomes
  <2>3. zip = cl.sync.zip /\ now = RegisterAll(server, zip)
    OBVIOUS
  <2> HIDE DEF cl, zip, now
  <2>4. now.usn \in Nat /\ Moves(server, now, Registered(server, zip)) /\ ServerInv(now)
    BY <1>1, <2>1, <2>2, <2>3, UploadMoves
  <2>5. ClientInv(after, now) /\ \A d \in Clients : ClientInv(clients[d], now)
    <3>1. after.sync.pc = "reply"
      BY <2>1
    <3>2. ClientInv(after, now)
      BY <2>1, <2>2, <3>1, SendKeeps
    <3>3. ASSUME NEW d \in Clients PROVE ClientInv(clients[d], now)
      BY <1>1, <1>2, <2>4, MovesClient
    <3> QED BY <3>2, <3>3
  <2>6. ASSUME NEW d \in Clients
        PROVE  clients'[d] = IF d = c THEN after ELSE clients[d]
    BY <1>1, <2>1 DEF Becomes
  <2>7. ServerInv(server') /\ \A d \in Clients : ClientInv(clients'[d], server')
    BY <2>1, <2>4, <2>5, <2>6
  <2> QED BY <2>7 DEF MediaInv
<1>10. ASSUME NEW c \in Clients, RecordUpload(c) PROVE MediaInv'
  <2> DEFINE cl == clients[c]
  <2>1. PICK after :
         /\ Quiet /\ cl.sync.pc = "reply" /\ Becomes(c, after)
         /\ after.disk = cl.disk /\ after.gone = cl.gone /\ after.seen = cl.seen
         /\ after.sync = SendFrom(TRUE)
         /\ after.usn = IF cl.usn + Cardinality(cl.sync.files) = cl.sync.usn
                        THEN cl.sync.usn ELSE cl.usn
         /\ DOMAIN after.db = DOMAIN cl.db
         /\ \A f \in DOMAIN cl.db :
              /\ after.db[f].sha1 = cl.db[f].sha1 /\ after.db[f].fresh = cl.db[f].fresh
              /\ after.db[f].sync_required <=> cl.db[f].sync_required /\ f \notin cl.sync.files
    BY <1>1, <1>10, RecordUploadStep
  <2>2. cl \in ClientStates /\ ClientInv(cl, server) /\ after \in ClientStates
    BY <1>2, <2>1 DEF Becomes
  <2> HIDE DEF cl
  <2>3. ClientInv(after, server)
    BY <1>1, <2>1, <2>2, ReplyKeeps
  <2> QED BY <1>1, <2>1, <2>3, OneKeeps DEF Quiet
<1>11. ASSUME NEW c \in Clients, FinalizeSync(c) PROVE MediaInv'
  <2> DEFINE cl == clients[c]
  <2>1. PICK after :
         /\ Quiet /\ cl.sync.pc = "sanity" /\ Becomes(c, after) /\ after.sync = Idle
         /\ after.disk = cl.disk /\ after.gone = cl.gone
         /\ \/ SameButSync(after, cl)
            \/ DOMAIN after.db = {} /\ after.usn = 0 /\ ~ after.seen
    BY <1>1, <1>11, FinalizeSyncStep
  <2>2. cl \in ClientStates /\ ClientInv(cl, server) /\ after \in ClientStates
    BY <1>2, <2>1 DEF Becomes
  <2> HIDE DEF cl
  <2>3. ClientInv(after, server)
    <3>1. CASE SameButSync(after, cl)
      BY <1>1, <2>1, <2>2, <3>1, EndKeeps
    <3>2. CASE DOMAIN after.db = {} /\ after.usn = 0 /\ ~ after.seen
      BY <2>1, <2>2, <3>2, RestartKeeps
    <3> QED BY <2>1, <3>1, <3>2
  <2> QED BY <1>1, <2>1, <2>3, OneKeeps DEF Quiet
<1>12. ASSUME NEW c \in Clients, AbortSync(c) PROVE MediaInv'
  <2> DEFINE cl == clients[c]
  <2>1. PICK after :
         /\ server' = server /\ Becomes(c, after) /\ SameButSync(after, cl) /\ after.sync = Idle
    BY <1>1, <1>12, AbortSyncStep
  <2>2. cl \in ClientStates /\ ClientInv(cl, server) /\ after \in ClientStates
    BY <1>2, <2>1 DEF Becomes
  <2> HIDE DEF cl
  <2>3. ClientInv(after, server)
    BY <1>1, <2>1, <2>2, EndKeeps
  <2> QED BY <1>1, <2>1, <2>3, OneKeeps
<1>13. ASSUME NEW c \in Clients, UploadFails(c) PROVE MediaInv'
  <2> DEFINE cl == clients[c]
  <2>1. PICK after, disk :
         /\ cl.sync.pc = "upload" /\ Becomes(c, after) /\ SameButSync(after, cl) /\ after.sync = Idle
         /\ server' = [server EXCEPT !.disk = disk]
         /\ Faults \cap {"half_upload", "half_delete"} = {} => disk = server.disk
    BY <1>1, <1>13, UploadFailsStep
  <2>2. cl \in ClientStates /\ ClientInv(cl, server) /\ after \in ClientStates
    BY <1>2, <2>1 DEF Becomes
  <2>3. server' = server
    <3>1. disk = server.disk
      BY <2>1 DEF NothingHalfWritten
    <3>2. server = [server EXCEPT !.disk = server.disk]
      BY <1>1 DEF ServerStates
    <3> QED BY <2>1, <3>1, <3>2
  <2> HIDE DEF cl
  <2>4. ClientInv(after, server)
    BY <1>1, <2>1, <2>2, EndKeeps
  <2> QED BY <1>1, <2>1, <2>3, <2>4, OneKeeps
<1>14. ASSUME NEW c \in Clients, UserStep(c) PROVE MediaInv'
  <2> DEFINE cl == clients[c]
  <2>1. PICK after :
         /\ Edited /\ MayEdit(c) /\ Becomes(c, after)
         /\ after.usn = cl.usn /\ after.sync = cl.sync
         /\ \A f \in Files : EditedFile(after, cl, f)
    BY <1>1, <1>14, UserEdits
  <2>2. cl \in ClientStates /\ ClientInv(cl, server) /\ after \in ClientStates
    BY <1>2, <2>1 DEF Becomes
  <2>3. "busy" \in Faults \/ cl.sync = Idle
    BY <2>1 DEF MayEdit
  <2> HIDE DEF cl
  <2>4. ClientInv(after, server)
    BY <2>1, <2>2, <2>3, EditKeeps
  <2> QED BY <1>1, <2>1, <2>4, OneKeeps DEF Edited
<1> QED BY <1>3, <1>4, <1>5, <1>6, <1>7, <1>8, <1>9, <1>10, <1>11, <1>12, <1>13, <1>14
       DEF Next, SyncStep

\* A step of one client leaves the others as they are.
LEMMA OthersStay ==
  ASSUME clients \in [Clients -> ClientStates], NEW c \in Clients, NEW d \in Clients, d # c,
         StartSync(d) \/ SyncStep(d) \/ UserStep(d) \/ AbortSync(d) \/ UploadFails(d)
  PROVE  clients'[c] = clients[c]
<1>1. ASSUME NEW after, Continue(d, after) PROVE clients'[c] = clients[c]
  BY <1>1 DEF Continue
<1>2. CASE StartSync(d)
  BY <1>1, <1>2 DEF StartSync
<1>3. CASE FetchChanges(d)
  BY <1>1, <1>3 DEF FetchChanges
<1>4. CASE DownloadFiles(d)
  BY <1>1, <1>4 DEF DownloadFiles
<1>5. CASE RecordBatch(d)
  BY <1>1, <1>5 DEF RecordBatch
<1>6. CASE GatherUpload(d)
  BY <1>1, <1>6 DEF GatherUpload
<1>7. CASE UploadChanges(d)
  BY <1>1, <1>7 DEF UploadChanges
<1>8. CASE RecordUpload(d)
  BY <1>1, <1>8 DEF RecordUpload
<1>9. CASE FinalizeSync(d)
  BY <1>1, <1>9 DEF FinalizeSync
<1>10. CASE AbortSync(d)
  BY <1>1, <1>10 DEF AbortSync
<1>11. CASE UploadFails(d)
  BY <1>1, <1>11 DEF UploadFails
<1>12. CASE UserStep(d)
  <2>1. PICK after : Becomes(d, after)
    BY <1>12, UserEdits
  <2> QED BY <2>1 DEF Becomes
<1> QED BY <1>2, <1>3, <1>4, <1>5, <1>6, <1>7, <1>8, <1>9, <1>10, <1>11, <1>12 DEF SyncStep

\* A client's sync goes on to another stage, other than being over, by a step of its own.
LEMMA OwnStep ==
  ASSUME clients \in [Clients -> ClientStates], server \in ServerStates(server.usn),
         NEW c \in Clients, [Next]_vars,
         clients'[c].sync.pc # clients[c].sync.pc, clients'[c].sync # Idle
  PROVE  StartSync(c) \/ SyncStep(c)
<1>1. clients' # clients
  OBVIOUS
<1>2. PICK d \in Clients :
        StartSync(d) \/ SyncStep(d) \/ UserStep(d) \/ AbortSync(d) \/ UploadFails(d)
  BY <1>1 DEF Next, vars
<1>3. d = c
  BY <1>2, OthersStay
<1>4. ASSUME UserStep(c) PROVE FALSE
  <2>1. PICK after : Becomes(c, after) /\ after.sync = clients[c].sync
    BY <1>4, UserEdits
  <2> QED BY <2>1 DEF Becomes
<1>5. ASSUME AbortSync(c) PROVE FALSE
  <2>1. PICK after : Becomes(c, after) /\ after.sync = Idle
    BY <1>5, AbortSyncStep
  <2> QED BY <2>1 DEF Becomes
<1>6. ASSUME UploadFails(c) PROVE FALSE
  <2>1. PICK after : Becomes(c, after) /\ after.sync = Idle
    BY <1>6, UploadFailsStep
  <2> QED BY <2>1 DEF Becomes
<1> QED BY <1>2, <1>3, <1>4, <1>5, <1>6

\* A client that is about to send comes to have a zip only by gathering one.
LEMMA ZipIsGathered ==
  ASSUME clients \in [Clients -> ClientStates], server \in ServerStates(server.usn),
         NEW c \in Clients, [Next]_vars, At(c, "send"), clients'[c].sync.pc = "upload"
  PROVE  GatherUpload(c)
<1>1. clients[c].sync.pc = "send"
  BY DEF At
<1>2. StartSync(c) \/ SyncStep(c)
  BY <1>1, OwnStep DEF Idle
<1>3. ~ StartSync(c) /\ ~ FetchChanges(c) /\ ~ DownloadFiles(c) /\ ~ RecordBatch(c)
      /\ ~ UploadChanges(c) /\ ~ RecordUpload(c) /\ ~ FinalizeSync(c)
  BY <1>1 DEF StartSync, FetchChanges, DownloadFiles, RecordBatch, UploadChanges, RecordUpload,
              FinalizeSync, At
<1> QED BY <1>2, <1>3 DEF SyncStep

\* A client that is downloading comes to fetch again only by recording its batch.
LEMMA BatchIsRecorded ==
  ASSUME clients \in [Clients -> ClientStates], server \in ServerStates(server.usn),
         NEW c \in Clients, [Next]_vars, At(c, "download"), clients'[c].sync.pc = "fetch"
  PROVE  RecordBatch(c)
<1>1. clients[c].sync.pc = "download"
  BY DEF At
<1>2. StartSync(c) \/ SyncStep(c)
  BY <1>1, OwnStep DEF Idle
<1>3. ~ StartSync(c) /\ ~ FetchChanges(c) /\ ~ GatherUpload(c)
      /\ ~ UploadChanges(c) /\ ~ RecordUpload(c) /\ ~ FinalizeSync(c)
  BY <1>1 DEF StartSync, FetchChanges, GatherUpload, UploadChanges, RecordUpload,
              FinalizeSync, At
<1>4. ASSUME DownloadFiles(c) PROVE FALSE
  <2> DEFINE cl == clients[c]
  <2>1. PICK after, S :
         /\ edits' = edits /\ failures' = failures
         /\ cl.sync.pc = "download" /\ Becomes(c, after)
         /\ S \subseteq cl.sync.todo /\ S # {} /\ (Cardinality(S) < ZipFiles => S = cl.sync.todo)
         /\ \/ /\ after.sync = Idle /\ SameButSync(after, cl)
               /\ \/ server' = server /\ \E f \in S : ~ Listed(server, f)
                  \/ \E f \in S : /\ Listed(server, f) /\ server.disk[f] = Absent
                                  /\ server' = ForgetMissingFile(server, f)
            \/ /\ server' = server /\ \A f \in S : Listed(server, f) /\ server.disk[f] # Absent
               /\ after.usn = cl.usn /\ after.gone = cl.gone \ S
               /\ after.sync = [cl.sync EXCEPT !.todo = cl.sync.todo \ S,
                     !.added = Over([f \in S |-> server.disk[f]], cl.sync.added)]
               /\ \A f \in Files : after.disk[f] = IF f \in S THEN server.disk[f] ELSE cl.disk[f]
               /\ \A f \in Files : SameRow(after, cl, f)
               /\ \A f \in S : f \in DOMAIN after.db => ~ after.db[f].fresh
    BY <1>4, DownloadFilesStep
  <2> DEFINE todo == clients[c].sync.todo \ S
             added == Over([f \in S |-> server.disk[f]], clients[c].sync.added)
  <2>2. clients'[c] = after
    BY <2>1 DEF Becomes
  <2>3. CASE after.sync = Idle
    BY <2>2, <2>3 DEF Idle
  <2>4. CASE after.sync = [clients[c].sync EXCEPT !.todo = todo, !.added = added]
    <3> DEFINE tables == SomeFiles(Data)
    <3>1. clients[c].sync \in [pc : {"download"}, usn : Nat, todo : SUBSET Files, deleted : SUBSET Files,
                      clean : SUBSET Files, added : tables]
      <4>1. clients[c].sync \in SyncStates
        BY ClientFields
      <4> QED BY <1>1, <4>1, StageFields
    <3> HIDE DEF tables, todo, added
    <3>2. after.sync.pc = "download"
      BY <2>4, <3>1
    <3> QED BY <2>2, <3>2
  <2> QED BY <2>1, <2>3, <2>4
<1> QED BY <1>2, <1>3, <1>4 DEF SyncStep

---------------------------------------------------------------------------
(* The theorems. *)

\* The invariant holds in every state, whatever the requests and answers that are lost,
\* the order in which the clients' come and the files users delete meanwhile: which of
\* the trash's marks a client has, and what it has decided about a batch.
THEOREM MediaSound ==
  ASSUME NothingHalfWritten
  PROVE  Spec => [](TypeOK /\ MediaInv)
<1>1. Init => TypeOK /\ MediaInv
  BY TypesInit, InvInit
<1>2. TypeOK /\ MediaInv /\ [Next]_vars => (TypeOK /\ MediaInv)'
  BY TypesStep, InvStep
<1> QED BY <1>1, <1>2, PTL DEF Spec

\* What a client uploads as deleted, its user has deleted: the marks that a sync
\* which was cut short left in the table are fetched again before anything is sent
\* (media/mod.rs, remove_files; syncer.rs, fetch_changes before send_changes).
THEOREM DeletionsAreUsers ==
  ASSUME NothingHalfWritten
  PROVE  Spec => OnlyUserDeletionsAreUploaded
<1> DEFINE Gone(c) ==
      At(c, "send") /\ clients'[c].sync.pc = "upload" =>
        \A f \in DOMAIN clients'[c].sync.zip :
          clients'[c].sync.zip[f] = Absent => f \in clients[c].gone
<1>1. TypeOK /\ MediaInv /\ [Next]_vars => [\A c \in Clients : Gone(c)]_vars
  <2> SUFFICES ASSUME TypeOK, MediaInv, [Next]_vars, NEW c \in Clients,
                      At(c, "send"), clients'[c].sync.pc = "upload"
               PROVE  Gone(c)
    OBVIOUS
  <2> DEFINE cl == clients[c]
  <2>1. clients \in [Clients -> ClientStates] /\ server \in ServerStates(server.usn)
    BY DEF TypeOK
  <2>2. PICK after :
         /\ cl.sync.pc = "send" /\ Becomes(c, after)
         /\ \/ Pending(cl) = {} /\ after.sync \in {[pc |-> "sanity"], Idle}
            \/ /\ after.sync.pc = "upload"
               /\ DOMAIN after.sync.zip \subseteq Pending(cl)
               /\ \A f \in DOMAIN after.sync.zip : after.sync.zip[f] =
                    IF Sha1(cl, f) = Absent THEN Absent ELSE cl.disk[f]
    BY <2>1, ZipIsGathered, GatherUploadStep
  <2>3. clients'[c] = after /\ cl \in ClientStates
    BY <2>1, <2>2 DEF Becomes
  <2>4. GoneInv(cl) /\ Marked(cl) = {}
    <3>1. ClientInv(cl, server)
      BY DEF MediaInv
    <3> QED BY <2>2, <3>1 DEF ClientInv, MarkedInv
  <2>5. after.sync.pc = "upload"
    BY <2>3
  <2> HIDE DEF cl
  <2>6. ASSUME NEW f \in DOMAIN after.sync.zip, after.sync.zip[f] = Absent
        PROVE  f \in cl.gone
    <3>1. f \in Pending(cl) /\ (Sha1(cl, f) = Absent \/ cl.disk[f] = Absent)
      BY <2>2, <2>5, <2>6 DEF Idle
    <3>2. f \in Files
      BY <2>3, <3>1, ClientFields DEF Pending
    <3> QED BY <2>3, <2>4, <3>1, <3>2, RowOf DEF GoneInv
  <2> QED BY <2>3, <2>6 DEF cl
<1> QED BY <1>1, MediaSound, PTL DEF Spec, OnlyUserDeletionsAreUploaded

\* What a client's number passes when it records a batch is accounted for: rows that
\* other clients have changed since the batch was fetched lie beyond the number, and the
\* others are in the table or wait to be uploaded.
THEOREM BatchesAreAccountedFor ==
  ASSUME NothingHalfWritten
  PROVE  Spec => RowsPassedAreAccountedFor
<1> DEFINE Accounted(c) ==
      At(c, "download") /\ clients'[c].sync.pc = "fetch" =>
       \A f \in DOMAIN server.entries :
         clients[c].usn < server.entries[f].usn /\ server.entries[f].usn <= clients'[c].usn =>
           \/ f \in Pending(clients'[c])
           \/ Sha1(clients'[c], f) = server.entries[f].sha1
           \/ "busy" \in Faults /\ f \in clients[c].sync.clean
<1>1. TypeOK /\ MediaInv /\ [Next]_vars => [\A c \in Clients : Accounted(c)]_vars
  <2> SUFFICES ASSUME TypeOK, MediaInv, [Next]_vars, NEW c \in Clients,
                      At(c, "download"), clients'[c].sync.pc = "fetch"
               PROVE  Accounted(c)
    OBVIOUS
  <2> DEFINE cl == clients[c]
  <2>1. clients \in [Clients -> ClientStates] /\ server \in ServerStates(server.usn)
    BY DEF TypeOK
  <2>2. PICK after :
         /\ cl.sync.pc = "download" /\ cl.sync.todo = {} /\ Becomes(c, after)
         /\ after.disk = cl.disk /\ after.gone = cl.gone
         /\ after.usn = cl.sync.usn /\ after.sync = [pc |-> "fetch", usn |-> cl.sync.usn]
         /\ DOMAIN after.db = DOMAIN cl.sync.added \cup (DOMAIN cl.db \ cl.sync.deleted)
         /\ \A f \in DOMAIN after.db :
              IF f \in DOMAIN cl.sync.added
              THEN after.db[f] = MediaEntry(cl.sync.added[f], FALSE, FALSE)
              ELSE /\ after.db[f].sha1 = cl.db[f].sha1 /\ after.db[f].fresh = cl.db[f].fresh
                   /\ after.db[f].sync_required <=> cl.db[f].sync_required /\ f \notin cl.sync.clean
    BY <2>1, BatchIsRecorded, RecordBatchStep
  <2>3. clients'[c] = after /\ cl \in ClientStates /\ after \in ClientStates
    BY <2>1, <2>2 DEF Becomes
  <2>4. ClientInv(cl, server)
    BY DEF MediaInv
  <2> HIDE DEF cl
  <2>5. \A f \in Files : Unknown(server, cl.usn, f) /\ Known(server, after.usn, f) =>
              \/ f \in Pending(after) \/ Sha1(after, f) = server.entries[f].sha1
              \/ "busy" \in Faults /\ f \in cl.sync.clean
    BY <2>1, <2>2, <2>3, <2>4, RecordKeeps
  <2>6. DOMAIN server.entries \subseteq Files /\ cl.usn \in Nat
        /\ \A f \in DOMAIN server.entries : server.entries[f].usn \in Nat
    <3>1. server.usn \in Nat
      BY <2>1 DEF ServerStates
    <3> QED BY <2>1, <2>3, <3>1, ServerFields, ClientFields
  <2> QED BY <2>3, <2>5, <2>6 DEF cl, Known, Unknown
<1> QED BY <1>1, MediaSound, PTL DEF Spec, RowsPassedAreAccountedFor
====
