------------------------------ MODULE Blockstore ------------------------------
(***************************************************************************)
(* The append-only block ledger of crates/blockstore: one file of          *)
(* checksummed frames, the in-memory list of records, and the ways in      *)
(* which the process, the machine and the medium can fail under it.        *)
(*                                                                         *)
(* A frame is either whole (magic, length, payload and checksum all there, *)
(* so it carries a record) or unreadable.  A frame cut short by a failed   *)
(* write stays in the file; whatever is written behind it is read as part  *)
(* of its payload, the checksum fails, and replay stops there.  It also    *)
(* stops at a frame whose payload is over MAX_FRAME_PAYLOAD, which         *)
(* append_record writes like any other, and where a read returns an error. *)
(*                                                                         *)
(* A block hash is the pair of the parent's hash and the contents it       *)
(* commits to: SHA-256 modelled as an injective function.                  *)
(***************************************************************************)
EXTENDS Naturals, Sequences

CONSTANTS
    Contents,      \* what a block commits to besides its parent: slot, height,
                   \* PoH hash, entry count, state root and transactions
    Oversize,      \* the contents that encode to more than MAX_FRAME_PAYLOAD bytes
    MaxFrames,     \* bound on the number of frames in the file
    MaxErrors,     \* bound on I/O errors
    MaxDecays      \* bound on frames the medium destroys

ASSUME BlockstoreAssumption == MaxFrames \in Nat /\ MaxErrors \in Nat /\ MaxDecays \in Nat

VARIABLES
    file,          \* blocks.log as the page cache shows it: a sequence of frames
    synced,        \* how many leading frames are known to be on the medium
    records,       \* Blockstore.records: the validated records, oldest first
    phase,         \* "closed", "open", or "written" inside append_record, between
                   \* write_all and the end of sync_data
    clean,         \* history: nothing has failed since the store was opened
    promised,      \* history: the ledger at the latest acknowledgement that a
                   \* clean store without an oversize block gave, less what the
                   \* medium destroyed or did not give back to a replay
    errors,        \* how many I/O errors happened so far
    decays         \* how many frames decayed so far

vars == <<file, synced, records, phase, clean, promised, errors, decays>>

-------------------------------------------------------------------------------
(* Records and frames *)

GENESIS_PARENT == <<>>

compute_hash(parent, c) == <<parent, c>>

BlockRecord(parent, c) ==
    [parent_hash |-> parent, contents |-> c, block_hash |-> compute_hash(parent, c)]

verify_hash(r) == r.block_hash = compute_hash(r.parent_hash, r.contents)

expected_parent(rs) == IF rs = <<>> THEN GENESIS_PARENT ELSE rs[Len(rs)].block_hash

Frame(r) == [kind |-> "whole", record |-> r]

Torn == [kind |-> "torn"]

\* The records handed to append_record by a caller that builds them itself: any
\* known parent, and a hash that verifies or that belongs to no block.
CallerRecords ==
    LET parents == {GENESIS_PARENT} \cup {records[i].block_hash : i \in DOMAIN records}
    IN  {BlockRecord(p, c) : p \in parents, c \in Contents} \cup
        {[BlockRecord(p, c) EXCEPT !.block_hash = GENESIS_PARENT] :
            p \in parents, c \in Contents}

-------------------------------------------------------------------------------
(* Replay: the longest prefix of frames that read back and chain up *)

ParentAt(f, i) == IF i = 1 THEN GENESIS_PARENT ELSE f[i - 1].record.block_hash

Accepts(f, i) ==
    /\ f[i].kind = "whole"
    /\ f[i].record.contents \notin Oversize
    /\ f[i].record.parent_hash = ParentAt(f, i)
    /\ verify_hash(f[i].record)

\* Mutant of valid_len: the scan stops before the last frame.
valid_len_OneShort(f) ==
    CHOOSE n \in 0..Len(f) :
        /\ \A i \in 1..n : Accepts(f, i)
        /\ n + 1 < Len(f) => ~Accepts(f, n + 1)

valid_len(f) ==
    CHOOSE n \in 0..Len(f) :
        /\ \A i \in 1..n : Accepts(f, i)
        /\ n < Len(f) => ~Accepts(f, n + 1)

replay(f) == [i \in 1..valid_len(f) |-> f[i].record]

-------------------------------------------------------------------------------
(* Opening the store *)

Init ==
    /\ file = <<>>
    /\ synced = 0
    /\ records = <<>>
    /\ phase = "closed"
    /\ clean = TRUE
    /\ promised = <<>>
    /\ errors = 0
    /\ decays = 0

\* The first n elements of a sequence, or all if there are no more.
Upto(s, n) == IF n < Len(s) THEN SubSeq(s, 1, n) ELSE s

\* Mutant of OpenAt: the frames behind the valid ones are left in the file.
OpenAt_NoTruncate(n) ==
    /\ phase = "closed"
    /\ records' = [i \in 1..n |-> file[i].record]
    /\ phase' = "open"
    /\ clean' = TRUE
    /\ UNCHANGED <<file, synced>>

\* open, when replay found the first n frames valid: only when the file is longer
\* it is truncated and synced.
OpenAt(n) ==
    /\ phase = "closed"
    /\ records' = [i \in 1..n |-> file[i].record]
    /\ file' = SubSeq(file, 1, n)
    /\ synced' = IF n # Len(file) THEN n ELSE synced
    /\ phase' = "open"
    /\ clean' = TRUE

Open ==
    /\ OpenAt(valid_len(file))
    /\ UNCHANGED <<promised, errors, decays>>

\* A read fails during the replay.  fill takes it for the end of the file, so the
\* frames from there on are cut off like a torn tail, the valid ones too.
OpenReadFails ==
    /\ errors < MaxErrors
    /\ \E n \in 0..valid_len(file) : OpenAt(n) /\ promised' = Upto(promised, n)
    /\ errors' = errors + 1
    /\ UNCHANGED decays

\* open returns an error when set_len or the sync behind it fails: the file is
\* as it was, or already cut, also where a read failed before.
OpenFails ==
    /\ phase = "closed"
    /\ \E n \in 0..valid_len(file) :
          /\ n # Len(file)
          /\ errors' = errors + (IF n = valid_len(file) THEN 1 ELSE 2)
          /\ \/ UNCHANGED <<file, synced, promised>>
             \/ /\ file' = SubSeq(file, 1, n)
                /\ synced' = IF synced < n THEN synced ELSE n
                /\ promised' = Upto(promised, n)
    /\ errors' <= MaxErrors
    /\ UNCHANGED <<records, phase, clean, decays>>

-------------------------------------------------------------------------------
(* Appending a record *)

write_all(r) ==
    \/ /\ file' = Append(file, Frame(r))
       /\ phase' = "written"
       /\ UNCHANGED <<clean, errors>>
    \/ /\ errors < MaxErrors
       /\ \/ file' = file /\ clean' = clean
          \/ file' = Append(file, Torn) /\ clean' = FALSE
       /\ errors' = errors + 1
       /\ phase' = phase

\* Mutant of append_record: the parent is not checked.
append_record_AnyParent(r) ==
    /\ phase = "open"
    /\ Len(file) < MaxFrames
    /\ verify_hash(r)
    /\ write_all(r)
    /\ UNCHANGED <<synced, records, promised, decays>>

\* append_record up to write_all.  A failed write returns the error and leaves
\* in the file whatever part of the frame it wrote.
append_record(r) ==
    /\ phase = "open"
    /\ Len(file) < MaxFrames
    /\ r.parent_hash = expected_parent(records)
    /\ verify_hash(r)
    /\ write_all(r)
    /\ UNCHANGED <<synced, records, promised, decays>>

AppendRecord == \E r \in CallerRecords : append_record(r)

AppendBlock == \E c \in Contents : append_record(BlockRecord(expected_parent(records), c))

\* No block of the list is too large to be read back.
Legible(rs) == \A i \in 1..Len(rs) : rs[i].contents \notin Oversize

\* Mutant of AppendSynced: the append is acknowledged without a sync.
AppendSynced_Unsynced ==
    /\ phase = "written"
    /\ records' = Append(records, file[Len(file)].record)
    /\ promised' = IF clean /\ Legible(records') THEN records' ELSE promised
    /\ phase' = "open"
    /\ UNCHANGED <<file, synced, clean, errors, decays>>

\* sync_data succeeds: the whole file is on the medium, the record is pushed and
\* the append is acknowledged.
AppendSynced ==
    /\ phase = "written"
    /\ synced' = Len(file)
    /\ records' = Append(records, file[Len(file)].record)
    /\ promised' = IF clean /\ Legible(records') THEN records' ELSE promised
    /\ phase' = "open"
    /\ UNCHANGED <<file, clean, errors, decays>>

\* sync_data fails: the error is returned, the frame stays in the file but its
\* record is not pushed.
AppendSyncFails ==
    /\ phase = "written"
    /\ errors < MaxErrors
    /\ errors' = errors + 1
    /\ phase' = "open"
    /\ clean' = FALSE
    /\ UNCHANGED <<file, synced, records, promised, decays>>

-------------------------------------------------------------------------------
(* Failures of the process, the machine and the medium *)

Forget ==
    /\ records' = <<>>
    /\ phase' = "closed"

\* The process dies; the page cache keeps what it wrote.
Kill ==
    /\ phase # "closed"
    /\ Forget
    /\ UNCHANGED <<file, synced, clean, promised, errors, decays>>

\* The machine dies: of the frames not yet synced any tail is lost, and any of
\* the others may have reached the medium only in part.
PowerLoss ==
    /\ \E n \in synced..Len(file) : \E lost \in SUBSET (synced + 1 .. n) :
          file' = [i \in 1..n |-> IF i \in lost THEN Torn ELSE file[i]]
    /\ Forget
    /\ UNCHANGED <<synced, clean, promised, errors, decays>>

\* A frame decays on the medium.
BitRot ==
    /\ decays < MaxDecays
    /\ \E i \in 1..synced :
          /\ file[i].kind = "whole"
          /\ file' = [file EXCEPT ![i] = Torn]
          /\ promised' = Upto(promised, i - 1)
    /\ clean' = FALSE
    /\ decays' = decays + 1
    /\ UNCHANGED <<synced, records, phase, errors>>

Next ==
    \/ Open
    \/ OpenReadFails
    \/ OpenFails
    \/ AppendRecord
    \/ AppendBlock
    \/ AppendSynced
    \/ AppendSyncFails
    \/ Kill
    \/ PowerLoss
    \/ BitRot

Spec == Init /\ [][Next]_vars

-------------------------------------------------------------------------------
(* Properties *)

IsPrefixOf(s, t) == Len(s) <= Len(t) /\ \A i \in 1..Len(s) : s[i] = t[i]

Chained(rs) ==
    \A i \in 1..Len(rs) :
        /\ rs[i].parent_hash = (IF i = 1 THEN GENESIS_PARENT ELSE rs[i - 1].block_hash)
        /\ verify_hash(rs[i])

\* The store's bookkeeping stays in range: in particular no more frames are
\* counted as synced than the file holds, whatever open cuts off.
TypeOK ==
    /\ synced \in 0..Len(file)
    /\ phase \in {"closed", "open", "written"}
    /\ phase = "closed" => records = <<>>
    /\ phase = "written" => /\ Len(file) > synced
                            /\ file[Len(file)].kind = "whole"
    /\ clean \in BOOLEAN
    /\ errors \in 0..MaxErrors
    /\ decays \in 0..MaxDecays

\* Every block acknowledged by a store that had seen no failure since it was
\* opened, and no oversize block, is read back by replay from the synced frames
\* alone: it survives every later kill, power loss, failed append and failed
\* open.  Only a decayed frame or a failed read of an open takes it away, and only
\* together with the frame that it is in or an earlier one.
PromisedSurvive == IsPrefixOf(promised, replay(SubSeq(file, 1, synced)))

\* A running store shows every promised block, in place, before anything else:
\* open truncates into the acknowledged ledger only where a read fails.
RecordsExtendPromise == phase # "closed" => IsPrefixOf(promised, records)

\* While nothing has failed since open, a restart would read from the file the
\* records in memory, up to the first that is oversize and not one less.
MemoryMatchesFile ==
    (phase = "open" /\ clean) =>
        LET back == replay(file)
        IN  /\ IsPrefixOf(back, records)
            /\ Len(back) < Len(records) => records[Len(back) + 1].contents \in Oversize

\* The records form an unbroken hash chain from the genesis parent, also when
\* failed appends and crashes left foreign frames in the file.
ChainUnbroken == Chained(records)

L == INSTANCE Ledger WITH committed <- promised,
                          visible <- records,
                          up <- (phase # "closed"),
                          sound <- (phase # "closed" /\ clean /\ Legible(records)),
                          faults <- errors + decays

\* The store is a ledger: a sound append commits, an undisturbed open recovers
\* every committed block, and failed appends, failed opens and reads, oversize
\* blocks, kills, power losses and decay do to its user no more than the abstract
\* ledger says.  In particular open cuts nothing committed off unless a read fails.
ImplementsLedger == L!Spec

-------------------------------------------------------------------------------
(* Documented, but not what the code does *)

\* What the header of store.rs says of every acknowledged append, without the
\* provisos on failures and sizes: the records the store reports are all found
\* again by the next open.
AcknowledgedSurvive == phase # "closed" => IsPrefixOf(records, replay(file))

\* What the header says of open, that the valid prefix survives: only decay takes
\* an acknowledged block away.  A failed read of the replay does as well.
ValidPrefixSurvives ==
    [][decays' = decays => IsPrefixOf(promised, promised')]_vars
===============================================================================
