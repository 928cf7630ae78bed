---- MODULE ModificationStamp ----
(***************************************************************************)
(* The readers of col.mod beside the transactions that write it: a normal  *)
(* sync (sync/collection/{normal,finish}.rs), the sync status check, and   *)
(* the backup check.  They all trust one stamp to say whether the          *)
(* collection has changed, while undo sets that stamp back and a sync      *)
(* takes it from the clock of another machine.                             *)
(***************************************************************************)
EXTENDS Transactions, Integers

CONSTANTS Skews,        \* by how much the server's clock may be ahead of clock
          TiedStamps    \* may the two clocks name the same moment for two stamps

ASSUME SkewsAssumption == Skews \subseteq Int
ASSUME TiedStampsAssumption == TiedStamps \in BOOLEAN

VARIABLES synced,    \* col.ls, with the rows the server has and when it got them
          backup     \* last_backup_modified, with the rows in the backup

stampVars == <<vars, synced, backup>>

NoBackup == [mod |-> 0]
SyncTx == [phase : {"sync"}, base_rows : [Keys -> Vals]]

StampTypeOK ==
  /\ tx.phase = "sync" \/ TypeOK
  /\ tx.phase = "sync" => tx \in SyncTx
  /\ synced \in [mod : Nat, rows : [Keys -> Vals], at : Nat]
  /\ backup \in {NoBackup} \cup [mod : Nat, rows : [Keys -> Vals]]

StampInit ==
  /\ Init
  /\ synced = [mod |-> mod, rows |-> rows, at |-> clock]
  /\ backup = NoBackup

\* Faulty variant: the history outlives the sync.
BeginSyncKeepingUndo ==
  /\ InTx("idle")
  /\ tx' = [phase |-> "sync", base_rows |-> rows]
  /\ UNCHANGED <<rows, mod, undo, clock, synced, backup>>

\* A normal sync: the history is discarded, then a plain transaction begins.
BeginSync ==
  /\ InTx("idle")
  /\ undo' = Discard(undo)
  /\ tx' = [phase |-> "sync", base_rows |-> rows]
  /\ UNCHANGED <<rows, mod, clock, synced, backup>>

\* A row received from the server is stored without an undo record.
ApplyRemote(k, v) ==
  /\ InTx("sync")
  /\ rows' = [rows EXCEPT ![k] = v]
  /\ UNCHANGED <<mod, undo, tx, clock, synced, backup>>

\* Faulty variant: only the stamp of the last sync is set.
FinishSyncUnstamped ==
  /\ InTx("sync")
  /\ clock < MaxClock
  /\ \E ahead \in Skews :
       LET stamp == clock + 1 + ahead
       IN /\ stamp > 0
          /\ TiedStamps \/ stamp # backup.mod
          /\ synced' = [mod |-> stamp, rows |-> rows, at |-> clock + 1]
  /\ clock' = clock + 1
  /\ tx' = Idle
  /\ UNCHANGED <<rows, mod, undo, backup>>

\* finalize_sync: both stamps become TimestampMillis::now() of the server.
FinishSync ==
  /\ InTx("sync")
  /\ clock < MaxClock
  /\ \E ahead \in Skews :
       LET stamp == clock + 1 + ahead
       IN /\ stamp > 0
          /\ TiedStamps \/ stamp # backup.mod
          /\ mod' = stamp
          /\ synced' = [mod |-> stamp, rows |-> rows, at |-> clock + 1]
  /\ clock' = clock + 1
  /\ tx' = Idle
  /\ UNCHANGED <<rows, undo, backup>>

FailSync ==
  /\ InTx("sync")
  /\ rows' = tx.base_rows
  /\ tx' = Idle
  /\ UNCHANGED <<mod, undo, clock, synced, backup>>

ChangedSinceBackup == backup = NoBackup \/ backup.mod # mod
ChangedSinceSync == mod > synced.mod

\* maybe_backup skips a collection that has not changed.
Backup ==
  /\ InTx("idle")
  /\ ChangedSinceBackup
  /\ backup' = [mod |-> mod, rows |-> rows]
  /\ UNCHANGED <<rows, mod, undo, tx, clock, synced>>

\* Nothing happens for a while.
TimePasses ==
  /\ clock < MaxClock
  /\ clock' = clock + 1
  /\ UNCHANGED <<rows, mod, undo, tx, synced, backup>>

\* A step of an operation, of undo or of redo.  Any stamp it takes is of the
\* client's clock, which may by now show what the server's did at a sync.
Operate ==
  /\ Next
  /\ clock' # clock => TiedStamps \/ clock' \notin {synced.mod, backup.mod}
  /\ UNCHANGED <<synced, backup>>

StampNext ==
  \/ Operate
  \/ TimePasses
  \/ BeginSync
  \/ \E k \in Keys, v \in Vals : ApplyRemote(k, v)
  \/ FinishSync
  \/ FailSync
  \/ Backup

StampSpec == StampInit /\ [][StampNext]_stampVars

---------------------------------------------------------------------------

\* Rows the server does not have are never taken for a collection in sync, also
\* after undo has set the stamp back.  The stamp differs from the one the server
\* has, so that SyncMeta::compared_to_remote does not skip the sync; and the
\* check on the client alone sees the change too, unless it was made within the
\* time by which the server's clock was ahead when the last sync ended.
UnsyncedChangesAreStamped ==
  (InTx("idle") /\ rows # synced.rows) =>
    /\ mod # synced.mod
    /\ ChangedSinceSync \/ mod \in (synced.at + 1)..(synced.mod - 1)

\* sync_status_offline "checks local collection only.  If local collection is
\* clean" it answers NoChanges (sync/collection/status.rs:15): so a collection
\* that is not clean is seen, whatever the server's clock said.
OfflineStatusSeesChanges ==
  (InTx("idle") /\ rows # synced.rows) => ChangedSinceSync

\* When the stamp equals that of the last backup, the backup has these rows:
\* changed_since_last_backup skips the backup otherwise.
UnsavedChangesAreStamped ==
  (InTx("idle") /\ backup # NoBackup /\ rows # backup.rows) => ChangedSinceBackup
====
