----------------------------------- MODULE Poh -----------------------------------
(***************************************************************************)
(* Proof of history: PohRecorder (poh/src/recorder.rs) records ticks and   *)
(* transactions of clients, a block maker cuts the entries into blocks at  *)
(* new_slot, and PohVerifier (verifier.rs) and Entry::verify_poh_chain     *)
(* (entry.rs) judge them.                                                  *)
(*                                                                         *)
(* SHA-256 is free of collisions: a hash is the preimage it was made of    *)
(* and the number of times it was hashed again since, so that a chain of   *)
(* a hashes followed by one of b is one of a + b.  Transactions and        *)
(* signatures are sequences of bytes, of which an entry's hash sees only   *)
(* the concatenation.  The recorder is shared behind one lock, so that     *)
(* each of its methods is a step.  The block maker is outside the crate.   *)
(***************************************************************************)
EXTENDS Naturals, SequencesExt

CONSTANTS
    Transactions,      \* pairs <<transaction, signature>> of byte sequences
    hashes_per_tick,
    MaxEntries,        \* bound on the entries ever recorded
    MaxSlot            \* bound on the slots

ASSUME PohAssumption == hashes_per_tick \in Nat /\ MaxEntries \in Nat /\ MaxSlot \in Nat

VARIABLES
    poh_slot,
    tick_height,
    hash_count,
    current_entries,
    entry_index,
    prev_hash,
    emitted,           \* what went into the entry channel, [entry, tick_height]
    poh_blocks         \* the blocks that were made

pohvars == <<poh_slot, tick_height, hash_count, current_entries, entry_index, prev_hash,
             emitted, poh_blocks>>

-------------------------------------------------------------------------------
(* PohHasher *)

GenesisHash == [of |-> <<>>, times |-> 0]

hash_n(h, n) == [h EXCEPT !.times = @ + n]

\* A hash of a hash and what is mixed in.
Digest(h, data) == [of |-> <<h>> \o data, times |-> 0]

hash_chain(start, steps) == hash_n(start, steps)

-------------------------------------------------------------------------------
(* Entries and blocks *)

Tick == <<<<"t", "i", "c", "k">>>>

\* What of the data gets into the hash.
Flat(data) == FlattenSeq(data)

compute_hash(entry) ==
    Digest(hash_chain(entry.prev_hash, entry.num_hashes), <<entry.slot, entry.index, Flat(entry.data)>>)

PohEntry(prev, n, s, i, data) ==
    LET entry == [prev_hash |-> prev, num_hashes |-> n, slot |-> s, index |-> i, data |-> data]
    IN  [hash |-> compute_hash(entry)] @@ entry

verify(entry) == entry.hash = compute_hash(entry)

Linked(entries) ==
    \A i \in 1..(Len(entries) - 1) : entries[i + 1].prev_hash = entries[i].hash

\* Mutant of verify_poh_chain: the first entry is not compared with the parent.
verify_poh_chain_AnyParent(block) ==
    /\ block.entries # <<>>
    /\ \A i \in DOMAIN block.entries : verify(block.entries[i])
    /\ Linked(block.entries)

verify_poh_chain(block) ==
    /\ block.entries # <<>>
    /\ \A i \in DOMAIN block.entries : verify(block.entries[i])
    /\ Linked(block.entries)
    /\ Head(block.entries).prev_hash = block.parent_hash

TotalHashes(entries) == FoldLeft(LAMBDA sum, entry : sum + entry.num_hashes, 0, entries)

\* [valid, total_hashes_verified]
verify_slot_entries(entries) ==
    IF entries # <<>> /\ (\A i \in DOMAIN entries : verify(entries[i])) /\ Linked(entries)
    THEN [valid |-> TRUE, hashes |-> TotalHashes(entries)]
    ELSE [valid |-> FALSE, hashes |-> 0]

verify_block(block) ==
    LET result == verify_slot_entries(block.entries)
    IN  IF result.valid /\ Last(block.entries).hash # block.hash
        THEN [result EXCEPT !.valid = FALSE]
        ELSE result

verify_chain_link(parent, child) ==
    /\ child.parent_hash = parent.hash
    /\ child.slot = parent.slot + 1
    /\ child.height = parent.height + 1

-------------------------------------------------------------------------------
(* PohRecorder *)

PohInit ==
    /\ poh_slot = 0
    /\ tick_height = 0
    /\ hash_count = 0
    /\ current_entries = <<>>
    /\ entry_index = 0
    /\ prev_hash = GenesisHash
    /\ emitted = <<>>
    /\ poh_blocks = <<>>

Record(entry, height) ==
    /\ Len(emitted) < MaxEntries
    /\ prev_hash' = entry.hash
    /\ entry_index' = entry_index + 1
    /\ current_entries' = Append(current_entries, entry)
    /\ emitted' = Append(emitted, [entry |-> entry, tick_height |-> height])
    /\ UNCHANGED <<poh_slot, poh_blocks>>

record_transaction(tx) ==
    /\ hash_count' = hash_count + 1
    /\ Record(PohEntry(prev_hash, 1, poh_slot, entry_index, tx), tick_height)
    /\ UNCHANGED tick_height

\* Mutant of record_tick: one hash per tick is counted.
record_tick_One ==
    /\ tick_height' = tick_height + 1
    /\ hash_count' = hash_count + 1
    /\ Record(PohEntry(prev_hash, hashes_per_tick, poh_slot, entry_index, Tick), tick_height')

record_tick ==
    /\ tick_height' = tick_height + 1
    /\ hash_count' = hash_count + hashes_per_tick
    /\ Record(PohEntry(prev_hash, hashes_per_tick, poh_slot, entry_index, Tick), tick_height')

\* Mutant of new_slot: the chain starts again with every slot.
new_slot_Restart(s) ==
    /\ poh_slot' = s
    /\ entry_index' = 0
    /\ current_entries' = <<>>
    /\ prev_hash' = GenesisHash
    /\ UNCHANGED <<tick_height, hash_count, emitted>>

\* Mutant of new_slot: the entries stay.
new_slot_Keeps(s) ==
    /\ poh_slot' = s
    /\ entry_index' = 0
    /\ UNCHANGED <<tick_height, hash_count, current_entries, prev_hash, emitted>>

new_slot(s) ==
    /\ poh_slot' = s
    /\ entry_index' = 0
    /\ current_entries' = <<>>
    /\ UNCHANGED <<tick_height, hash_count, prev_hash, emitted>>

\* The block maker calls new_slot and makes a block of the entries it returns.  A slot
\* without entries gives no block, and slots may be skipped.
MakeBlock(s) ==
    /\ s > poh_slot
    /\ poh_blocks' = IF current_entries = <<>> THEN poh_blocks ELSE Append(poh_blocks,
           [hash        |-> Last(current_entries).hash,
            slot        |-> poh_slot,
            parent_hash |-> IF poh_blocks = <<>> THEN GenesisHash ELSE Last(poh_blocks).hash,
            entries     |-> current_entries,
            height      |-> Len(poh_blocks)])
    /\ new_slot(s)

PohNext ==
    \/ \E tx \in Transactions : record_transaction(tx)
    \/ record_tick
    \/ \E s \in 0..MaxSlot : MakeBlock(s)

PohSpec == PohInit /\ [][PohNext]_pohvars

-------------------------------------------------------------------------------
(* Properties *)

\* Every block of the recorder's entries is accepted by both verifiers, and links to the
\* block before it exactly when no slot lies between them.
RecordedVerifies ==
    \A b \in DOMAIN poh_blocks :
        /\ verify_poh_chain(poh_blocks[b])
        /\ verify_block(poh_blocks[b]).valid
        /\ b > 1 => (verify_chain_link(poh_blocks[b - 1], poh_blocks[b])
                        <=> poh_blocks[b].slot = poh_blocks[b - 1].slot + 1)

\* The work that the verifier counts in all blocks, with that of the running slot, is
\* what the recorder says it did.
WorkAccounted ==
    hash_count = TotalHashes(current_entries) +
        FoldLeft(LAMBDA sum, block : sum + verify_block(block).hashes, 0, poh_blocks)

\* The receiver of the channel sees every entry once and in order, across slots.
EmittedInOrder ==
    [i \in DOMAIN emitted |-> emitted[i].entry] =
        FlattenSeq([b \in DOMAIN poh_blocks |-> poh_blocks[b].entries]) \o current_entries

\* The recorder's blocks, work and channel tell one history.
HistorySound == RecordedVerifies /\ WorkAccounted /\ EmittedInOrder

\* Blocks that differ from a recorded one in one entry: left out, repeated, moved, with
\* other content, or with its work moved into prev_hash.
Tampered(block) ==
    LET es == block.entries
        with(i, entry) == [block EXCEPT !.entries[i] = entry]
    IN       {[block EXCEPT !.entries = RemoveAt(es, i)] : i \in DOMAIN es}
        \cup {[block EXCEPT !.entries = InsertAt(es, i, es[i])] : i \in DOMAIN es}
        \cup {[block EXCEPT !.entries[i] = es[j], !.entries[j] = es[i]] :
                 i, j \in {i \in DOMAIN es : es[i] # es[1]} \cup {1}}
        \cup {with(i, [es[i] EXCEPT !.num_hashes = @ + 1]) : i \in DOMAIN es}
        \cup {with(i, [es[i] EXCEPT !.slot = @ + 1]) : i \in DOMAIN es}
        \cup {with(i, [es[i] EXCEPT !.data = tx]) : i \in DOMAIN es, tx \in Transactions}
        \cup {with(i, PohEntry(es[i].prev_hash, es[i].num_hashes, es[i].slot, es[i].index, tx)) :
                 i \in DOMAIN es, tx \in Transactions}
        \cup {with(i, [es[i] EXCEPT !.prev_hash = hash_n(@, k), !.num_hashes = @ - k]) :
                 i \in DOMAIN es, k \in 0..1}

\* What the hash of an entry commits to.
Committed(block) ==
    [i \in DOMAIN block.entries |-> [block.entries[i] EXCEPT !.data = Flat(@)]]

\* A block that both verifiers accept under the recorded hash and parent has the recorded
\* entries, up to where transactions and signatures begin.
TamperDetected ==
    \A b \in DOMAIN poh_blocks : \A other \in Tampered(poh_blocks[b]) :
        (verify_poh_chain(other) /\ verify_block(other).valid)
            => Committed(other) = Committed(poh_blocks[b])

-------------------------------------------------------------------------------
(* Documented, but not what the code does *)

\* What the comment on verify says: "a tampered `num_hashes`, `prev_hash` or payload all
\* fail".  Bytes moved between transaction and signature do not, nor does work moved
\* into prev_hash.
EntryTamperDetected ==
    \A b \in DOMAIN poh_blocks : \A other \in Tampered(poh_blocks[b]) :
        \A i \in DOMAIN other.entries :
            verify(other.entries[i]) => other.entries[i] \in ToSet(poh_blocks[b].entries)
===============================================================================
