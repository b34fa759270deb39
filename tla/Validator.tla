------------------------------- MODULE Validator -------------------------------
(***************************************************************************)
(* The validator process, validator/src/main.rs: the tick loop and the     *)
(* block producer on the shared ValidatorState, the mempool they drain,    *)
(* the accounts they change and the ledger (module Blockstore) they append *)
(* to, through crashes and restarts.                                       *)
(*                                                                         *)
(* produce_block holds the state's write lock from its first to its last   *)
(* line, so ticks wait for it; a crash and a client do not.  The accounts   *)
(* log is the sequence of the transactions executed (module Executor says  *)
(* what each does), and the state root is how often each of them was.      *)
(***************************************************************************)
EXTENDS Blockstore, FiniteSets

CONSTANTS
    Txs,           \* transactions that clients send
    LeaderSlots,   \* the slots whose leader this validator is
    TICKS_PER_SLOT,
    MAX_TXS_PER_BLOCK,
    MaxSlot,       \* bound on the slot clock
    MaxExecuted    \* bound on the accounts log

\* A block of the producer is never oversize: it has at most 128 transactions, each
\* of which came as JSON in a request of at most 64 KiB.
ASSUME BlocksFit == Oversize = {}

VARIABLES
    mempool,             \* the pending transactions
    tick_height,
    current_slot,
    block_height,
    last_produced_slot,  \* None, or Some(slot)
    producer,            \* the producer loop: "idle", "leader" once the check has
                         \* passed, "executing" and "appending" in produce_block
    transactions,        \* the transactions produce_block drained
    todo,                \* those of them that are still to be executed
    accounts_log,        \* the accounts log: the executed transactions
    published            \* history: the records handed to propagate_block

clock == <<tick_height, current_slot>>
production == <<block_height, last_produced_slot, producer, transactions, todo>>
store == <<file, synced, records, phase, clean, promised, errors, decays>>
allvars == <<store, mempool, clock, production, accounts_log, published>>

None == {}

Some(x) == {x}

Last(s) == s[Len(s)]

compute_state_root(log) == [t \in Txs |-> Cardinality({i \in DOMAIN log : log[i] = t})]

\* What a record commits to besides its parent.
Block(slot, height, root, txs) ==
    [slot |-> slot, height |-> height, state_root |-> root, transactions |-> txs]

up == phase # "closed"

\* The write lock of ValidatorState is free.
Unlocked == producer \in {"idle", "leader"}

-------------------------------------------------------------------------------
(* Start and stop *)

NodeInit ==
    /\ Init
    /\ mempool = {}
    /\ tick_height = 0
    /\ current_slot = 0
    /\ block_height = 0
    /\ last_produced_slot = None
    /\ producer = "idle"
    /\ transactions = {}
    /\ todo = {}
    /\ accounts_log = <<>>
    /\ published = {}

\* Mutant of Restart: the height is not raised.
Restart_SameHeight ==
    /\ Open \/ OpenReadFails
    /\ current_slot' = IF records' = <<>> THEN 0 ELSE Last(records').contents.slot + 1
    /\ block_height' = IF records' = <<>> THEN 0 ELSE Last(records').contents.height
    /\ UNCHANGED <<mempool, tick_height, last_produced_slot, producer, transactions, todo,
                   accounts_log, published>>

\* Mutant of Restart: the slot is not raised.
Restart_SameSlot ==
    /\ Open \/ OpenReadFails
    /\ current_slot' = IF records' = <<>> THEN 0 ELSE Last(records').contents.slot
    /\ block_height' = IF records' = <<>> THEN 0 ELSE Last(records').contents.height + 1
    /\ UNCHANGED <<mempool, tick_height, last_produced_slot, producer, transactions, todo,
                   accounts_log, published>>

\* ValidatorState::new resumes behind the last block that the ledger replays.
Restart ==
    /\ Open \/ OpenReadFails
    /\ current_slot' = IF records' = <<>> THEN 0 ELSE Last(records').contents.slot + 1
    /\ block_height' = IF records' = <<>> THEN 0 ELSE Last(records').contents.height + 1
    /\ UNCHANGED <<mempool, tick_height, last_produced_slot, producer, transactions, todo,
                   accounts_log, published>>

\* The ledger does not open, and the node exits.
RestartFails ==
    /\ OpenFails
    /\ UNCHANGED <<mempool, clock, production, accounts_log, published>>

\* What lives in memory only is gone; the mempool is not persisted.
ProcessDies ==
    /\ mempool' = {}
    /\ tick_height' = 0
    /\ current_slot' = 0
    /\ block_height' = 0
    /\ last_produced_slot' = None
    /\ producer' = "idle"
    /\ transactions' = {}
    /\ todo' = {}
    /\ UNCHANGED published

Crash ==
    /\ Kill
    /\ ProcessDies
    /\ UNCHANGED accounts_log

\* The accounts log is flushed to the system but never synced: a power loss may
\* take any tail of it.
Blackout ==
    /\ PowerLoss
    /\ ProcessDies
    /\ \E n \in 0..Len(accounts_log) : accounts_log' = SubSeq(accounts_log, 1, n)

-------------------------------------------------------------------------------
(* Clients and the slot clock *)

\* An accepted send_transaction: the mempool refuses what it already holds.
send_transaction(t) ==
    /\ up
    /\ t \notin mempool
    /\ mempool' = mempool \cup {t}
    /\ UNCHANGED <<store, clock, production, accounts_log, published>>

\* process_tick, with the advance_slot that it calls on a slot's last tick.
process_tick ==
    /\ up
    /\ Unlocked
    /\ \/ /\ tick_height + 1 < TICKS_PER_SLOT
          /\ tick_height' = tick_height + 1
          /\ UNCHANGED current_slot
       \/ /\ tick_height + 1 >= TICKS_PER_SLOT
          /\ current_slot < MaxSlot
          /\ tick_height' = 0
          /\ current_slot' = current_slot + 1
    /\ UNCHANGED <<store, mempool, production, accounts_log, published>>

-------------------------------------------------------------------------------
(* The producer loop *)

\* The leader check takes the read lock and releases it.
is_leader ==
    /\ up
    /\ producer = "idle"
    /\ current_slot \in LeaderSlots
    /\ producer' = "leader"
    /\ UNCHANGED <<store, mempool, clock, block_height, last_produced_slot, transactions, todo,
                   accounts_log, published>>

\* produce_block returns at once for a slot it has a block for.
AlreadyProduced ==
    /\ producer = "leader"
    /\ last_produced_slot = Some(current_slot)
    /\ producer' = "idle"
    /\ UNCHANGED <<store, mempool, clock, block_height, last_produced_slot, transactions, todo,
                   accounts_log, published>>

\* produce_block takes the write lock and drains the mempool.
produce_block ==
    /\ producer = "leader"
    /\ last_produced_slot # Some(current_slot)
    /\ \E txs \in SUBSET mempool :
          /\ Cardinality(txs) <= MAX_TXS_PER_BLOCK
          /\ Cardinality(txs) = MAX_TXS_PER_BLOCK \/ txs = mempool
          /\ Len(accounts_log) + Cardinality(txs) <= MaxExecuted
          /\ mempool' = mempool \ txs
          /\ transactions' = txs
          /\ todo' = txs
    /\ producer' = "executing"
    /\ UNCHANGED <<store, clock, block_height, last_produced_slot, accounts_log, published>>

\* execute_batch, one transaction at a time.
ExecuteTransaction ==
    /\ producer = "executing"
    /\ \E t \in todo : accounts_log' = Append(accounts_log, t) /\ todo' = todo \ {t}
    /\ UNCHANGED <<store, mempool, clock, block_height, last_produced_slot, producer,
                   transactions, published>>

\* The end of produce_block, the same whether the append succeeded or not.
Produced ==
    /\ block_height' = block_height + 1
    /\ last_produced_slot' = Some(current_slot)
    /\ producer' = "idle"
    /\ transactions' = {}

\* Mutant of ledger_append: the block is published before the sync.
ledger_append_Published ==
    LET root == compute_state_root(accounts_log)
        r == BlockRecord(expected_parent(records),
                         Block(current_slot, block_height, root, transactions))
    IN  /\ producer = "executing"
        /\ todo = {}
        /\ append_record(r)
        /\ IF phase' = "written"
           THEN /\ producer' = "appending"
                /\ UNCHANGED <<block_height, last_produced_slot, transactions>>
           ELSE Produced
        /\ published' = published \cup {r}
        /\ UNCHANGED <<mempool, clock, todo, accounts_log>>

\* ledger.append up to the write of the frame.
ledger_append ==
    LET root == compute_state_root(accounts_log)
        r == BlockRecord(expected_parent(records),
                         Block(current_slot, block_height, root, transactions))
    IN  /\ producer = "executing"
        /\ todo = {}
        /\ append_record(r)
        /\ IF phase' = "written"
           THEN /\ producer' = "appending"
                /\ UNCHANGED <<block_height, last_produced_slot, transactions>>
           ELSE Produced
        /\ UNCHANGED <<mempool, clock, todo, accounts_log, published>>

\* The append is acknowledged, and the block handed on to be propagated.
AppendAcknowledged ==
    /\ AppendSynced
    /\ published' = published \cup {Last(records')}
    /\ Produced
    /\ UNCHANGED <<mempool, clock, todo, accounts_log>>

AppendFailed ==
    /\ AppendSyncFails
    /\ Produced
    /\ UNCHANGED <<mempool, clock, todo, accounts_log, published>>

NodeNext ==
    \/ Restart
    \/ RestartFails
    \/ Crash
    \/ Blackout
    \/ \E t \in Txs : send_transaction(t)
    \/ process_tick
    \/ is_leader
    \/ AlreadyProduced
    \/ produce_block
    \/ ExecuteTransaction
    \/ ledger_append
    \/ AppendAcknowledged
    \/ AppendFailed

NodeSpec == NodeInit /\ [][NodeNext]_allvars

-------------------------------------------------------------------------------
(* Properties *)

\* Until an operation on the ledger file fails, the node never hands two different
\* blocks of one slot to the network: neither the independent timers nor crashes
\* and restarts, which forget last_produced_slot, make produce_block publish a slot
\* twice.
OneBlockPerSlot ==
    errors = 0 => \A r, q \in published : r.contents.slot = q.contents.slot => r = q

\* Until an operation on the ledger file fails, a running node finds in its ledger
\* every block it ever published: what went to the network before a crash is on the
\* chain it resumes after it.
PublishedOnChain ==
    (up /\ errors = 0) => \A r \in published : \E i \in 1..Len(records) : records[i] = r

\* What the network has seen of this validator is one chain, of one block per slot.
PublishedOnce == OneBlockPerSlot /\ PublishedOnChain

\* Along the ledger slots and heights rise strictly, through failed appends,
\* crashes and the slot and height that ValidatorState::new resumes with.
LedgerRises ==
    \A i \in 2..Len(records) :
        /\ records[i - 1].contents.slot < records[i].contents.slot
        /\ records[i - 1].contents.height < records[i].contents.height

-------------------------------------------------------------------------------
(* Documented, but not what the code does *)

\* What the producer loop's comment says, that leadership check and production
\* are one scope: a block is of a slot that this validator leads.
OnlyOwnSlots == \A r \in published : r.contents.slot \in LeaderSlots

\* What record.rs says of honest nodes: the state root of a block is what
\* executing the transactions of its chain, each block once, leads to.
RootReproducible ==
    \A i \in 1..Len(records) : \A t \in Txs :
        records[i].contents.state_root[t] =
            Cardinality({j \in 1..i : t \in records[j].contents.transactions})
===============================================================================
