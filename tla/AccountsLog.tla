------------------------------ MODULE AccountsLog ------------------------------
(***************************************************************************)
(* The accounts database, crates/accounts/src/store.rs: a buffer of        *)
(* accounts with an index into it, counters, and a log that open replays.  *)
(* Threads store and remove accounts, two of them the same account too:    *)
(* the locks of the executor do not keep transactions apart that declare   *)
(* an account read-only and store to it (module Executor).  snapshot       *)
(* rewrites the log meanwhile; writes fail, the process is killed, the     *)
(* power fails.                                                            *)
(*                                                                         *)
(* An account takes one place in the buffer, so a location is the index of *)
(* that place.  A log record is whole, or torn: cut short with at least    *)
(* one byte missing.                                                       *)
(***************************************************************************)
EXTENDS Naturals, Sequences, FiniteSets, SequencesExt

CONSTANTS
    Threads,
    Keys,
    Accounts,      \* what can be stored under a key
    MaxStored,     \* bound on the buffer of one process
    MaxRecords,    \* bound on the log
    MaxErrors      \* bound on I/O errors

VARIABLES
    storage,       \* the accounts in the order of their store
    index,         \* key -> [offset, write_version], for the keys that exist
    write_version,
    account_count,
    total_bytes,
    call,          \* per thread: the call in progress and where it is
    log,           \* accounts.log, the records in the file of that name
    synced,        \* how many of them are known to be on the medium
    handle,        \* what Persist.log writes to: "closed", "log", or "unlinked" for
                   \* a file that a snapshot has replaced
    snapshot,      \* the snapshot in progress: its step, the keys ahead of the
                   \* iteration, accounts.log.tmp, and whether it ran undisturbed
    possible,      \* history: per key, what a load, or one after a restart, may show
    written,       \* history: per key, what the calls leave that overlap with one in progress
    crossings,     \* history: the calls of this process that came upon another one on
                   \* the same account
    trouble,       \* history: what has happened since the log last told the truth
    errors

memory == <<storage, index, write_version, account_count, total_bytes>>
disk == <<log, synced>>
history == <<possible, written, crossings, trouble>>
vars == <<memory, call, disk, handle, snapshot, history, errors>>

Absent == "absent"

Idle == [op |-> "none"]

NoSnapshot == [step |-> "none"]

Put(k, a) == [tag |-> "put", key |-> k, account |-> a]

Delete(k) == [tag |-> "delete", key |-> k]

Torn == [tag |-> "torn"]

up == handle # "closed"

load(k) ==
    IF k \in DOMAIN index /\ index[k].offset <= Len(storage) THEN storage[index[k].offset]
    ELSE Absent

-------------------------------------------------------------------------------
(* Replay *)

EmptyDb == [storage |-> <<>>, index |-> [k \in {} |-> 0], account_count |-> 0]

\* One record read back, through store or remove without a log behind them.
Replayed(db, r) ==
    IF r.tag = "put"
    THEN LET offset == Len(db.storage) + 1
         IN  [storage |-> Append(db.storage, r.account),
              index |-> [k \in DOMAIN db.index \cup {r.key} |->
                            IF k = r.key THEN [offset |-> offset, write_version |-> offset]
                            ELSE db.index[k]],
              account_count |-> IF r.key \in DOMAIN db.index THEN db.account_count
                                ELSE db.account_count + 1]
    ELSE IF r.key \in DOMAIN db.index
         THEN [db EXCEPT !.index = [k \in DOMAIN db.index \ {r.key} |-> db.index[k]],
                         !.account_count = @ - 1]
         ELSE db

\* The sets of records that a scan of f may read.  A torn record takes at least
\* the first byte of the next one for its own; the scan then stops, or happens to
\* meet the start of a later record.  Which it is depends on lengths and bytes.
ReadableParts(f) ==
    {part \in SUBSET DOMAIN f : \A i \in DOMAIN f :
        IF f[i].tag = "torn"
        THEN i \notin part /\ ((i = 1 \/ i - 1 \in part) => i + 1 \notin part)
        ELSE i \in part \/ (i > 1 /\ i - 1 \notin part)}

replay(f, part) ==
    FoldLeft(Replayed, EmptyDb, [i \in 1..Cardinality(part) |-> f[SetToSortSeq(part, <)[i]]])

\* What the next open may find under key k.
Restored(k) ==
    {LET db == replay(log, part)
     IN  IF k \in DOMAIN db.index THEN db.storage[db.index[k].offset] ELSE Absent :
        part \in ReadableParts(log)}

-------------------------------------------------------------------------------
(* Opening the database *)

Init ==
    /\ storage = <<>>
    /\ index = [k \in {} |-> 0]
    /\ write_version = 0
    /\ account_count = 0
    /\ total_bytes = 0
    /\ call = [t \in Threads |-> Idle]
    /\ log = <<>>
    /\ synced = 0
    /\ handle = "closed"
    /\ snapshot = NoSnapshot
    /\ possible = [k \in Keys |-> {Absent}]
    /\ written = [k \in Keys |-> {}]
    /\ crossings = 0
    /\ trouble = {}
    /\ errors = 0

\* open replays the log into an empty database and goes on appending to the file
\* as it is.
Open ==
    /\ ~up
    /\ \E part \in ReadableParts(log) :
          LET db == replay(log, part)
          IN  /\ storage' = db.storage
              /\ index' = db.index
              /\ write_version' = Len(db.storage)
              /\ account_count' = db.account_count
              /\ total_bytes' = Len(db.storage)
              /\ possible' = [k \in Keys |-> IF k \in DOMAIN db.index
                                             THEN {db.storage[db.index[k].offset]}
                                             ELSE {Absent}]
    /\ handle' = "log"
    /\ trouble' = IF \E i \in DOMAIN log : log[i].tag = "torn" THEN {"torn"} ELSE {}
    /\ UNCHANGED <<call, disk, snapshot, written, crossings, errors>>

-------------------------------------------------------------------------------
(* Persist::append *)

\* The caller learns nothing of a failed write.
append(r) ==
    \/ /\ IF handle = "log" THEN log' = Append(log, r) ELSE log' = log
       /\ trouble' = IF handle = "log" THEN trouble ELSE trouble \cup {"overlap"}
       /\ UNCHANGED errors
    \/ /\ errors < MaxErrors
       /\ log' \in IF handle = "log" THEN {log, Append(log, Torn)} ELSE {log}
       /\ trouble' = trouble \cup {"error"}
       /\ errors' = errors + 1

\* A snapshot is disturbed by every call that overlaps it.
Disturbed ==
    IF snapshot.step = "none" THEN snapshot ELSE [snapshot EXCEPT !.undisturbed = FALSE]

-------------------------------------------------------------------------------
(* store, one step per lock that it takes *)

At(t, op, pc) == call[t].op = op /\ call[t].pc = pc

Goto(t, pc) == call' = [call EXCEPT ![t].pc = pc]

Working(k) == {t \in Threads : call[t] # Idle /\ call[t].key = k}

InProgress(k) == Working(k) # {}

\* A call that will leave x under k begins, and ends.  Of calls that overlap any may be
\* the last.
Begin(k, x) ==
    /\ possible' = [possible EXCEPT ![k] = @ \cup {x}]
    /\ written' = [written EXCEPT ![k] = @ \cup {x}]
    /\ crossings' = IF InProgress(k) THEN crossings + 1 ELSE crossings

End(t) ==
    /\ call' = [call EXCEPT ![t] = Idle]
    /\ possible' = [possible EXCEPT ![call[t].key] = written[call[t].key]]
    /\ written' = [written EXCEPT ![call[t].key] = IF Working(call[t].key) = {t} THEN {} ELSE @]
    /\ UNCHANGED crossings

store(t, k, a) ==
    /\ up
    /\ call[t] = Idle
    /\ Len(storage) + Cardinality({u \in Threads : call[u] # Idle}) < MaxStored
    /\ Len(log) < MaxRecords
    /\ write_version' = write_version + 1
    /\ call' = [call EXCEPT ![t] = [op |-> "store", key |-> k, account |-> a, pc |-> "extend",
                                    write_version |-> write_version + 1, offset |-> 0,
                                    is_new |-> FALSE]]
    /\ Begin(k, a)
    /\ snapshot' = Disturbed
    /\ UNCHANGED <<storage, index, account_count, total_bytes, disk, handle, trouble, errors>>

\* Mutant of StoreExtend: the version serves as the offset.
StoreExtend_ByVersion(t) ==
    /\ At(t, "store", "extend")
    /\ storage' = Append(storage, call[t].account)
    /\ call' = [call EXCEPT ![t].pc = "contains", ![t].offset = call[t].write_version]
    /\ UNCHANGED <<index, write_version, account_count, total_bytes, disk, handle, snapshot,
                   history, errors>>

StoreExtend(t) ==
    /\ At(t, "store", "extend")
    /\ storage' = Append(storage, call[t].account)
    /\ call' = [call EXCEPT ![t].pc = "contains", ![t].offset = Len(storage) + 1]
    /\ UNCHANGED <<index, write_version, account_count, total_bytes, disk, handle, snapshot,
                   history, errors>>

StoreContains(t) ==
    /\ At(t, "store", "contains")
    /\ call' = [call EXCEPT ![t].pc = "insert", ![t].is_new = call[t].key \notin DOMAIN index]
    /\ UNCHANGED <<memory, disk, handle, snapshot, history, errors>>

StoreInsert(t) ==
    /\ At(t, "store", "insert")
    /\ index' = [k \in DOMAIN index \cup {call[t].key} |->
                    IF k = call[t].key
                    THEN [offset |-> call[t].offset, write_version |-> call[t].write_version]
                    ELSE index[k]]
    /\ Goto(t, "count")
    /\ UNCHANGED <<storage, write_version, account_count, total_bytes, disk, handle, snapshot,
                   history, errors>>

\* Mutant of StoreCount: an update counts as a new account.
StoreCount_Always(t) ==
    /\ At(t, "store", "count")
    /\ account_count' = account_count + 1
    /\ total_bytes' = total_bytes + 1
    /\ Goto(t, "append")
    /\ UNCHANGED <<storage, index, write_version, disk, handle, snapshot, history, errors>>

StoreCount(t) ==
    /\ At(t, "store", "count")
    /\ account_count' = IF call[t].is_new THEN account_count + 1 ELSE account_count
    /\ total_bytes' = total_bytes + 1
    /\ Goto(t, "append")
    /\ UNCHANGED <<storage, index, write_version, disk, handle, snapshot, history, errors>>

\* The record goes to the log, and store returns.
StoreAppend(t) ==
    /\ At(t, "store", "append")
    /\ append(Put(call[t].key, call[t].account))
    /\ End(t)
    /\ UNCHANGED <<memory, synced, handle, snapshot>>

-------------------------------------------------------------------------------
(* remove *)

\* Of a key that is not there remove changes nothing.
remove(t, k) ==
    /\ up
    /\ call[t] = Idle
    /\ k \in DOMAIN index
    /\ Len(log) < MaxRecords
    /\ index' = [j \in DOMAIN index \ {k} |-> index[j]]
    /\ call' = [call EXCEPT ![t] = [op |-> "remove", key |-> k, pc |-> "append"]]
    /\ Begin(k, Absent)
    /\ snapshot' = Disturbed
    /\ UNCHANGED <<storage, write_version, account_count, total_bytes, disk, handle, trouble,
                   errors>>

\* Mutant of RemoveAppend: the tombstone is not written.
RemoveAppend_NoTombstone(t) ==
    /\ At(t, "remove", "append")
    /\ account_count' = IF account_count > 0 THEN account_count - 1 ELSE account_count
    /\ End(t)
    /\ UNCHANGED <<storage, index, write_version, total_bytes, disk, trouble, errors, handle,
                   snapshot>>

\* The lock on the count is held until the tombstone is in the log.
RemoveAppend(t) ==
    /\ At(t, "remove", "append")
    /\ account_count' = IF account_count > 0 THEN account_count - 1 ELSE account_count
    /\ append(Delete(call[t].key))
    /\ End(t)
    /\ UNCHANGED <<storage, index, write_version, total_bytes, synced, handle, snapshot>>

-------------------------------------------------------------------------------
(* snapshot *)

\* accounts.log.tmp is created, or emptied when an earlier snapshot left one.
SnapshotCreate ==
    /\ up
    /\ snapshot = NoSnapshot
    /\ snapshot' = [step |-> "iterate", ahead |-> Keys, tmp |-> <<>>,
                    undisturbed |-> \A t \in Threads : call[t] = Idle]
    /\ UNCHANGED <<memory, call, disk, handle, history, errors>>

\* The iteration meets every place of the index once, in an order of its own, and
\* writes what it finds there.
SnapshotVisit ==
    /\ snapshot.step = "iterate"
    /\ \E k \in snapshot.ahead :
          snapshot' = [snapshot EXCEPT
              !.ahead = @ \ {k},
              !.tmp = IF load(k) # Absent THEN Append(@, Put(k, load(k))) ELSE @]
    /\ UNCHANGED <<memory, call, disk, handle, history, errors>>

\* sync_all and the rename: the file behind the handle has lost its name.  A
\* snapshot that nothing disturbed puts the log right again.
SnapshotRename ==
    /\ snapshot.step = "iterate"
    /\ snapshot.ahead = {}
    /\ log' = snapshot.tmp
    /\ synced' = Len(snapshot.tmp)
    /\ handle' = "unlinked"
    /\ snapshot' = [snapshot EXCEPT !.step = "renamed"]
    /\ trouble' = IF snapshot.undisturbed THEN {} ELSE trouble \cup {"overlap"}
    /\ UNCHANGED <<memory, call, possible, written, crossings, errors>>

\* The handle is replaced by one for the new file.
SnapshotReopen ==
    /\ snapshot.step = "renamed"
    /\ handle' = "log"
    /\ snapshot' = NoSnapshot
    /\ UNCHANGED <<memory, call, disk, history, errors>>

\* create, write, sync, rename or open fails: snapshot returns the error, and when
\* it was open that failed the handle stays with the unlinked file.
SnapshotFails ==
    /\ snapshot.step # "none"
    /\ errors < MaxErrors
    /\ errors' = errors + 1
    /\ snapshot' = NoSnapshot
    /\ UNCHANGED <<memory, call, disk, handle, history>>

-------------------------------------------------------------------------------
(* The end of the process *)

Forget ==
    /\ storage' = <<>>
    /\ index' = [k \in {} |-> 0]
    /\ write_version' = 0
    /\ account_count' = 0
    /\ total_bytes' = 0
    /\ call' = [t \in Threads |-> Idle]
    /\ handle' = "closed"
    /\ snapshot' = NoSnapshot
    /\ written' = [k \in Keys |-> {}]
    /\ crossings' = 0

\* The system keeps what was written.
Kill ==
    /\ up
    /\ Forget
    /\ UNCHANGED <<disk, possible, trouble, errors>>

\* flush hands the records to the system and no further: any tail that was not
\* synced is lost, and the last record kept may be torn.
PowerLoss ==
    /\ Forget
    /\ \E n \in synced..Len(log) :
          LET kept == SubSeq(log, 1, n)
          IN  log' \in {kept} \cup IF n > synced THEN {[kept EXCEPT ![n] = Torn]} ELSE {}
    /\ trouble' = trouble \cup {"power"}
    /\ UNCHANGED <<synced, possible, errors>>

Next ==
    \/ Open
    \/ \E t \in Threads :
          \/ \E k \in Keys : \E a \in Accounts : store(t, k, a)
          \/ StoreExtend(t)
          \/ StoreContains(t)
          \/ StoreInsert(t)
          \/ StoreCount(t)
          \/ StoreAppend(t)
          \/ \E k \in Keys : remove(t, k)
          \/ RemoveAppend(t)
    \/ SnapshotCreate
    \/ SnapshotVisit
    \/ SnapshotRename
    \/ SnapshotReopen
    \/ SnapshotFails
    \/ Kill
    \/ PowerLoss

Spec == Init /\ [][Next]_vars

-------------------------------------------------------------------------------
(* Properties *)

Quiet == \A t \in Threads : call[t] = Idle

\* While nothing has gone wrong with the log, a kill at any moment, inside store,
\* remove or snapshot, is followed by an open that finds under each key what the
\* last finished call left there, or one that overlapped with it, or what a call in
\* progress was to leave.
KillKeepsAccounts == trouble = {} => \A k \in Keys : Restored(k) \subseteq possible[k]

\* A key that no call is at work on loads as the last call on it left it, or one that
\* overlapped with that one on the same key, however the versions and buffer places of
\* concurrent stores interleave, and whatever the log has gone through.
LoadsLatest ==
    up => \A k \in Keys : ~InProgress(k) => load(k) \in possible[k]

\* Between calls the counters that stats reports are those of the index and the buffer,
\* also after a replay of updates and tombstones, as long as no two calls have crossed on
\* one account; store looks for the key and inserts it in two steps, and each call that
\* crosses another one puts the count out by one at most.
CountersExact ==
    (up /\ Quiet) => /\ account_count <= Cardinality(DOMAIN index) + crossings
                     /\ Cardinality(DOMAIN index) <= account_count + crossings
                     /\ total_bytes = Len(storage)

\* What load and stats answer is exact but for calls that cross on one account.
MemoryExact == LoadsLatest /\ CountersExact

\* What open and replay say of restarts and of a torn tail: the state survives a
\* restart, and a torn tail is where the replay stops cleanly.
TornTailHarmless ==
    trouble \subseteq {"torn"} => \A k \in Keys : Restored(k) \subseteq possible[k]

-------------------------------------------------------------------------------
(* Documented, but not what the code does *)

\* What the field account_count is said to be, the number of accounts stored.
CountsAccounts == (up /\ Quiet) => account_count = Cardinality(DOMAIN index)

\* What open says of a restart, that the state survives it: between calls the log
\* restores what load shows.
RestartShowsMemory ==
    (up /\ Quiet /\ trouble = {}) => \A k \in Keys : Restored(k) = {load(k)}

\* What snapshot says, that it replaces the log atomically by the live accounts:
\* a store that overlaps it is kept.
SnapshotKeepsStores ==
    trouble \subseteq {"overlap"} => \A k \in Keys : Restored(k) \subseteq possible[k]
===============================================================================
