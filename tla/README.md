# TrustNode in TLA+

Specifications, model-checking configurations and machine-checked proofs for the
TrustNode validator (`src/crates/*`, `src/validator`). `PROJECT.json` is the
index: which definition stands for which lines of code, which run checks which
property, what disagrees with the documentation, and which hazards are covered.

## 1. The system

| Part | Code | State | Operations that change it | Modelled in |
|---|---|---|---|---|
| Block ledger | `crates/blockstore` | `blocks.log`, list of records | `open` (replay, truncate), `append`, `append_record` | `Blockstore`, `Ledger` |
| Mempool | `crates/mempool` | two indexes, next sequence number, counters | `insert`, `drain`, `remove`, `expire` | `Mempool` |
| Scheduler | `crates/tx-processor/src/scheduler.rs` | pending queue, batches | `enqueue`, `schedule`, `next_batch`, `drain_remaining` | `Scheduler` |
| Executor | `crates/tx-processor/src/executor.rs`, `transaction.rs` | account locks, totals, one stack per thread | `execute_batch`, `execute_transaction` | `Executor` |
| Native programs | `crates/program-executor` | the accounts | 8 instructions of the system and the token program | `Programs` |
| Validator process | `validator/src/main.rs` | slot clock, height, last produced slot | tick loop, producer loop, `produce_block`, restart | `Validator` |
| Tower | `crates/consensus/src/tower.rs`, `vote.rs` | vote states, tree of nodes, root, best head | `register_validator`, `process_vote`, `advance_root` | `Tower` |
| Accounts database | `crates/accounts` | map, append-only log | `store`, `remove`, `open`, `snapshot` | `AccountsLog`; as a map in `Programs`/`Executor`, abstractly in `Validator` |
| State root | `crates/accounts/src/merkle.rs` | none | `compute`, `prove`, `verify` | `Merkle`; injective in `Validator` |
| Leader schedule | `crates/consensus/src/leader.rs` | schedule | `compute_schedule` | `LeaderSchedule`; a constant of `Validator` |
| Fork choice | `crates/consensus/src/fork_choice.rs` | blocks, blocks by slot, best head | `add_block`, `prune` | `ForkChoice` |
| Gossip | `crates/gossip`, tasks in `validator/src/network.rs` | record table, contacts, prunes, pings, send queue | push, pull, prune, ping, send | `Gossip` |
| Turbine | `crates/turbine`, tasks in `validator/src/network.rs` | shred buffers, send queue | propagate, receive, forward, prune, reassemble | `Turbine` on `Gossip`, `Neighborhoods`, `Erasure` |
| Proof of history | `crates/poh` | hash chain, entries of the slot | tick, record, `new_slot`, verify | `Poh` |
| RPC | `crates/rpc` | transaction status, slot | `send_transaction`, `update_slot` | `Rpc`, `Encoding`; the accepted case in `Validator` |
| Transport, genesis | `crates/net`, `validator/src/genesis.rs` | sockets, files | I/O | loss, damage and the size limit of datagrams in `Gossip` and `Turbine`; the initial accounts in `Programs` |

How they interact: a client's transaction enters through RPC into the mempool.
Every 400 ms the producer loop asks whether the node leads the current slot; if
so `produce_block` drains the mempool, schedules the transactions into
conflict-free batches, executes each batch with one thread per transaction on
the shared accounts, computes the state root, appends the block to the ledger
and hands it to Turbine, which cuts it into shreds and sends them down a tree of
validators, to the addresses that gossip has put into the contact table. An
independent loop moves the slot clock and prunes old shreds. After a restart the
node resumes behind the last block that the ledger replays. Tower, fork choice
and proof of history exist in the repository but nothing feeds them votes, blocks
or ticks yet; they are modelled as the libraries that they are.

What is hard here: I/O that fails or is cut off between `write_all` and
`sync_data`; two persistent stores (accounts and ledger) without a common
commit; locks that are released between check and use; threads that lock several
accounts; `u64` sums that wrap in a release build; votes that arrive late, twice
or out of order; shared maps that are scanned without a lock; datagrams that are
lost, damaged, duplicated and reordered; tables and buffers at their limit.

## 2. Modules

**`Blockstore`** models the file as a sequence of frames, each whole or torn,
and what of it is synced. A frame cut short stays in the file, and what follows
it is not readable: that is what the length prefix and the checksum amount to.
`append_record` is two steps, up to `write_all` and from `sync_data` on, so that
a kill, a power loss or an error can fall between. A read that fails during
`open` is taken for the end of the file, as `fill` does, and cuts valid frames
off; a block larger than `MAX_FRAME_PAYLOAD` (`Oversize`) is written and
acknowledged but not read back. A hash is the pair of what is hashed. `clean` and
`promised` are history variables: a store is clean while nothing has failed since
it was opened, and what a clean store without an oversize block acknowledges is
promised. `Ledger` is the abstract promise: a committed sequence that grows while
the ledger is sound and that only a fault of the medium can shorten, and a visible
one that a crash hides and an open recovers. `ImplementsLedger` maps committed to
`promised`, visible to `records`, sound to `clean` without an oversize record, and
the count of faults to the errors and decays so far.

**`Mempool`** splits `insert` where the code waits for the lock: signature, fee
and clock before it (`InsertCalled`), duplicate check, expiry, eviction and
insertion under it (`InsertLocked`). `handed`, `total_handed` and `out` are
history.

**`Scheduler`** takes one step per iteration of the inner loop of `schedule`
(`LookAt`) and one at the end of a pass (`EndPass`, `GiveUp`); `total_compute`
is taken modulo `Word`, which stands for 2^64. `Init` chooses the batch size that
`Scheduler::new` is given.

**`Executor`** runs one thread per transaction with a program counter at every
access of the accounts or of a lock. A transfer is load, load, store, store.
Account keys are numbers, since locks are taken in key order; `Init` chooses the
batch and the balances. `Serially` runs transactions one after the other with the
same checks (`Effect`) and is the reference for `Serializable`. Nothing in the
code compares what a transaction declares writable with what its programs store
to: `Declared` says that a batch agrees with itself, and one batch of the run does
not. A meta flagged as signer that is not the signer fails like any other check on
the source.

**`Programs`** is the account map under the instructions of both programs, each
an action with the checks in the order of the code; `done` records the
instruction for the action properties. A rejected instruction changes nothing
and is no step. Initialising a mint is reachable through the dispatcher only;
through the executor the signer would have to pay the fee from an account that
must not exist.

**`AccountsLog`** takes one step per lock in `store` and `remove`, and one per
file operation in `snapshot`. An account is one place of the buffer; a log record
is whole or torn. What a replay makes of the bytes behind a torn record depends on
lengths (it stops, or meets a later record by chance), so `ReadableParts` is the
set of all outcomes; that misread bytes form an account of their own is left out.
Two threads may be at work on one account, as transactions that declare it
read-only are. A rename is taken to be on the medium when it returns.
`possible` (what a restart may show under each key), `written` (what the calls
that overlap on a key were to leave there), `crossings` (the calls that began
while another one was at work on their key) and `trouble` (why the log may not
show what it should) are history: `trouble` is emptied by an open that finds no
torn record and by a snapshot that no call overlaps.

**`Validator`** extends `Blockstore` and adds the process: clock, mempool as a
set, the producer with its lock discipline (`is_leader` takes and releases the
read lock, `produce_block` up to `Produced` holds the write lock), the accounts
log as the sequence of executed transactions, crashes. What is only in memory is
lost by a crash; a power loss may also take a tail of the accounts log, which is
never synced.

**`Tower`** is parameterised by the votes that may arrive. A vote names a block, a
slot and a parent slot, as its signer likes: nothing compares the slot with that
of the block's node. Validation and tally of a vote are one step (`TallyVote`,
`RejectVote`), the scan of the leaves and the write of `best_head` are two more,
and up to `MaxCalls` calls overlap. A call holds its validator's entry, so one
validator has one call at a time. `advance_root` sets the root, visits the entries
one by one, waiting for the calls that hold them (`VisitState`), and prunes
(`Prune`); calls run between these steps. The sub-steps of the tally (node, slot
index, child link) are not interleaved with each other. `counted` (who was counted
for a block, under which slot), `lowered` (whose stake shrank after that) and
`settled` (the last tally overlapped nothing) are history.

**`Gossip`** is one `GossipProtocol` per node, the task that sends its queue and
the datagrams on the way. A handler queues its answers without a destination and
the send task fans each out to every contact with a usable address, so a pong or
a pull response goes to everybody; the model keeps that. The table is a sequence
of sets of ids, oldest first, a set being what one millisecond brought in, and
the cutoff of a pull is any cut of it. A scenario fixes the table size and how
many pushes, pulls, prunes, pings, losses and duplicates a behaviour may have, and
for Turbine which blocks are produced in which deployment.
`unspecified` holds the contacts whose address a pull response has replaced by the
unusable one that a node advertises; `accepted` and `lost` are history.

**`Turbine`** extends `Gossip` with the propagator of every node: `propagate`,
`forward_shreds` and `receive_shred`, the shred sender, which reads the contact
table, and the tick loop with its pruning. A shred is its block, the id by which
`receive_shred` tells shreds apart, the index under which `decode` takes it, the
index it was cut for, and whether the payload has its hash; the signature covers
the index and not the id. Damage on the way changes one of them. A deployment says
which tree each node holds, which contacts carry a TPU address and whether shreds
are signed: `live` is what `Network::start` makes of the command line, a tree of
one node and contacts with the gossip port (`parse_peer`); in the others the tree
of all validators and TPU addresses are given, as the comment on `network.rs:152`
announces. A contact that a pull response has replaced has the address 0.0.0.0,
which is the sender's own host. A shred that is too large for a datagram is
skipped.
**`Neighborhoods`** computes `build_tree` one queue entry per round, with the
index confusion of the code and its panics; **`Erasure`** is the Reed-Solomon
code from GF(256) up to `encode` and `decode`, on bytes as sets of bits.

**`Poh`** is the recorder, one step per method, the channel of entries, and the
two verifiers on the blocks cut at `new_slot`. A hash is its preimage and the
number of times it was hashed again. **`ForkChoice`** takes `add_block` lock by
lock for overlapping callers, who may add a block again with another power; `adds`
remembers the calls and whether each ran alone. **`Rpc`** takes `sendTransaction`
step by step, with the block producer and the slot clock in between. **`Merkle`**,
**`LeaderSchedule`** and **`Encoding`** are pure operators; the truncated
floating-point share of a validator is the exact share or, when that is whole,
possibly the number below it; the sum of the stakes wraps. `MCParts` runs the
small state machines and the pure operators side by side: a behaviour is one of
the machines, or the choice of one input.

`DataFacts` and the modules named `*Proofs` hold the theorems. The `MC*`
modules define the constants of the runs. Definitions named `X_Variant` are
faulty variants of `X`; each property of a passing run is violated when one of
them takes the place of `X` (list in `PROJECT.json`).

## 3. Runs

| Run | Instance | Shows |
|---|---|---|
| `blockstore` | 4 frames, 3 block contents, one of them too large to be read back, 2 I/O errors, 1 decayed frame | `PromisedSurvive`, `ChainUnbroken`, `ImplementsLedger` |
| `mempool` | 2 clients, 4 inserts, pool of 2, 4 points of time, 5 transactions (equal, higher, too low fee, unsigned) | `PoolSound`, `Accounted`, `DrainTakesTheBest`, `NothingLostEarly` |
| `scheduler` | any queue of 5 transactions on 2 accounts, one with a budget that wraps the sum, batches of none or 2 transactions and 3 units | `ConflictFree`, `QueueHonoured`, `WithinLimits`, `ScheduleReturns` |
| `executor` | four batches on 5 accounts: 4 threads with a success, a rollback of a created account, an exhausted budget and a missing signature; 3 payers in a ring; a payer who can pay once; stores to an account declared read-only | `Serializable`, `LocksProtect`, `NoDeadlock`, `BatchReturns` |
| `programs` | 4 keys, 6 instructions, 8 as the size of a word | `SupplyExact`, `TokensRooted`, `AuthorizedOnly`, `LamportsMove` |
| `accounts` | 2 threads on 2 accounts, the same one or two, with 2 values, a buffer of 2, a log of 3, snapshots, one I/O error, kills and power losses | `KillKeepsAccounts`, `MemoryExact` |
| `validator` | 3 slots, 1 transaction sent any number of times and executed twice, 3 frames, crashes, one I/O error | `PublishedOnce`, `LedgerRises` |
| `tower` | 3 blocks with a fork, a vote that names another slot than the block's node has, 2 validators, one registering late, a stake that rises or falls to zero, 2 overlapping calls, a move of the root to 2 | `OneVotePerSlot`, `ConfirmedUnique`, `BestHeadCurrent` |
| `network` | 3 running nodes of 5 in a line, two with a peer that is down; tables of 1, 2 and 3 ids; 17 scenarios of pushes, pulls, prunes, pings, blocks, losses, damages and duplicates in four deployments; two blocks of one slot, shreds too large; 2 data shreds and 1 parity shred | `SilentIsSpread`, `EvictsOldest`, `Quiesces`, `BlocksArrive`, `KeepsReassembled` |
| `parts` | recorder: 4 entries; fork choice: 4 blocks, one of them with two powers, 2 callers; RPC: 2 clients, 3 sends; lists of up to 7 leaves, 4 stakes and 7 slots with sums that wrap at 9, trees of up to 44 validators at depths 1 to 5, all losses of shreds of four blocks, instruction data of up to 6 bytes | `HistorySound`, `TamperDetected`, `ForkSound`, `StatusSound`, `StateRootExact`, `ScheduleSound`, `TreeSound`, `ErasureSound`, `FormatsExact` |

Two more runs, `accounts_torn_tail` and `programs_self_transfer`, end in a
violation; section 4 is about them. Where several statements about one component
stand or fall together they are one property, a conjunction whose parts have
names and comments of their own: `PoolSound` of both indexes and the limit,
`WithinLimits` of size and compute of a batch, `QueueHonoured` of what is neither
lost nor overtaken without a cause, `PublishedOnce` of what the network has seen and
what the ledger keeps, and so on.

Why the bounds are enough: each is one more than the shortest scenario that the
properties are about. Losing a block behind a failed append takes two frames and
one error; the third and fourth frame and the second error let the store go on,
reopen and fail again. A pool of two with four inserts fills, expires, evicts and
refuses. Six instructions are the shortest sequence that creates a mint and two
token accounts, mints, transfers and burns. A fork with an extension on one side
has a leaf that is lighter alone and heavier as a chain; two validators, one of
them with the default stake, are two calls that overlap, and one can outvote the
other. Two threads on one account are what it takes for two calls to cross. Three
nodes in a line are the smallest network in which something has to be forwarded by
a node that neither made it nor is the last to get it; with a peer that is down
and itself the middle one has four contacts, so that the draw of three leaves one
out; and a table of one or two ids evicts while three are around. One lost or
damaged shred is what one parity shred makes up for. Lists of up to seven leaves
have every pattern of odd and even levels up to a depth of three. Trees are built
for up to 44 validators at depths 1 to 5, which covers every size at which
`build_tree` ceases to take everybody in or to stay within bounds (section 4).

`Word` stands for the number of values of `u64`. It is 8 in `mempool`, `executor`
and `programs`, 10 in `scheduler` and 9 in `parts`, and sums reach it there: in
`scheduler` the budget of one transaction is 9, so that it wraps with that of any
other, while the sums of the others stay below. In `tower` it is 16 and nothing
saturates; that saturation does no harm is part of the proof of `ConfirmedOnce`.

Fairness. `Scheduler`: the thread inside `schedule` keeps running, since it waits
for nothing. `Executor`: every thread that can take a step does (the operating
system schedules the threads, and a free lock is granted). `Gossip`: the send task
of a running node, which loops with a pause, sends what is queued, and the receive
task handles what arrives; loss is a step of its own and bounded by the scenario.
No fairness is assumed of clients, disks, crashes or clocks.

Deadlock is checked except in `Scheduler`, where a bounded set of transactions
may all be done, in `Programs`, where the number of instructions is bounded, in
`network`, where a scenario ends in silence, and in `parts`, where an algorithm
has one input.
In `Executor` a joined batch stutters, and any other state without a step is a
deadlock.

`programs` uses the symmetry of the three keys that are not in the genesis, and
`accounts` that of threads, keys and values; no definition tells them apart.

## 4. Where the code and its documentation part

Two runs state a sentence of the documentation and end in a violation
(`findings` in `PROJECT.json` quotes the sentence):

| Run | What happens |
|---|---|
| `accounts_torn_tail` | `open` leaves a torn record in the accounts log; what is stored behind it is gone after the next `open` |
| `programs_self_transfer` | a transfer to oneself raises the total |

The modules state further sentences of this kind under "Documented, but not what
the code does". Each is refuted by TLC when it replaces the properties of the
configuration named here:

| Property | Configuration | Sentence | What happens |
|---|---|---|---|
| `AcknowledgedSurvive` | `Blockstore.cfg` | blockstore `store.rs:12-13`, each append is synced before it is acknowledged and the valid prefix survives | a failed append (`store.rs:220`) leaves its frame; acknowledged blocks behind it are gone after the next open |
| `ValidPrefixSurvives` | `Blockstore.cfg` | blockstore `store.rs:12`, the valid prefix survives | a read that fails during `open` counts as the end of the file (`store.rs:49`), and valid blocks are cut off |
| `NotDrainedAgain` | `MCMempool.cfg` | mempool `lib.rs:7-8`, a client that retries is not charged twice | only parked transactions are compared |
| `NothingStaleDrained` | `MCMempool.cfg` | mempool `lib.rs:11-13`, overaged entries are dropped | `drain` does not expire |
| `OverBudgetAlone` | `MCScheduler.cfg` | `scheduler.rs:339-341`, an over-budget transaction never shares a batch | the sum of two budgets wraps |
| `RecordedInExecutionOrder` | `MCScheduler.cfg` | `record.rs:38`, transactions in execution order | transactions behind one that is put off overtake it |
| `RaceFree` | `MCExecutor.cfg` | `executor.rs:67-70`, no two transactions race on one account | transfers race on a destination that they declare read-only (`executor.rs:161`) |
| `FailureUndone` | `MCExecutor.cfg` | `executor.rs:127`, a later failure rolls back instruction effects | only the accounts declared writable are restored; a store to another one stays |
| `Deterministic` | `MCExecutor.cfg` | `record.rs:7-10`, two nodes agree | two transactions of one payer share a batch |
| `CountsAccounts` | `MCAccountsLog.cfg` | accounts `store.rs:81`, total accounts stored | calls that cross on one account leave the count off |
| `RestartShowsMemory` | `MCAccountsLog.cfg` | accounts `store.rs:102-103`, what is stored is replayed | calls that cross may reach the log in another order than the index |
| `SnapshotKeepsStores` | `MCAccountsLog.cfg` | accounts `store.rs:192-193`, only the live accounts are rewritten and the log replaced atomically | a store behind the iteration, or before the handle is replaced, is not in the new file |
| `OnlyOwnSlots` | `Validator.cfg` | `main.rs:391`, leadership check and production in one scope | a tick between the check and `produce_block` makes a block for a slot of another leader |
| `RootReproducible` | `Validator.cfg` | `record.rs:7-10` | a crash after execution and before the append leaves effects that no block records |
| `OneBlockPerSlot` without its condition on errors | `Validator.cfg` | `main.rs:533-535`, at most one block per slot | the failed append above, then a restart |
| `SupermajorityUnique` | `MCTower.cfg` | `tower.rs:273-275`, a strict 2/3 supermajority | a stake that falls after the vote lowers the total and not the weights, and two blocks of a slot have one; so do votes that name another slot |
| `OneBlockPerSlot` of `Tower` | `MCTower.cfg` | `tower.rs:180`, a validator can only vote once per slot | a vote may name another slot than the block's node has, and its validator counts for two blocks of one slot |
| `BestHeadAlwaysCurrent` | `MCTower.cfg` | `tower.rs:47`, the current best fork head | of two overlapping votes the one with the older scan may write `best_head` last |
| `LinkedBothWays` | `MCTower.cfg` | `tower.rs:25`, the parent's hash once linked | it is only set when the node is created |
| `HeadDetermined` | `MCTower.cfg` | `tower.rs:223`, ties break on higher slot for determinism | equal slots leave it to the map |
| `RefusedVoteKeepsLockout` | `MCTower.cfg` | `vote.rs:190-192`, when the lockout is reset | it is reset before the vote is refused |
| `ChainsEnd` | `MCTower.cfg` with `Votes <- ReturningVotes` and `Blocks = {b1, b2}` | `tower.rs:255`, back to its fork root | votes that come back to a block once the root has passed it close a circle of parents, in which the recursion does not return |
| `ContactsDialable` | `MCNetwork.cfg` | `network.rs:57`, advertised so that peers can find us | the advertised address is the bound one, 0.0.0.0, and replaces a usable one |
| `PruneHonoured` | `MCNetwork.cfg` | `protocol.rs:150`, a peer asked us to stop sending | the send task sends every queued message to every contact |
| `PongFromPeer` | `MCNetwork.cfg` | `network.rs:89`, peer liveness | the nonce is cleared by a pong of anyone |
| `PeersGetBlocks` | `MCNetwork.cfg` | `main.rs:398-399`, propagate the block to peers | a node of `Network::start` is alone in its tree and sends its blocks to nobody |
| `ShredsFit` | `MCNetwork.cfg` | net `lib.rs:20-21`, shreds top out far below the limit | a shred is a sixteenth of a block, as JSON; those of a large block are skipped |
| `InconsistentIsNone` | `MCNetwork.cfg` | `erasure.rs:255`, `None` on any inconsistency | shreds of two blocks of a slot, or an unsigned one with another index, are decoded together |
| `BuffersBounded` | `MCNetwork.cfg` | `network.rs:12-13`, no unbounded buffering | only slots behind the clock are pruned, slots ahead of it stay |
| `EntryTamperDetected` | `MCParts.cfg` | `entry.rs:188-189`, a tampered field fails | bytes move between transaction and signature, or work into `prev_hash`, unseen by `verify` alone |
| `HeadAlwaysHeaviest` | `MCParts.cfg` | `fork_choice.rs:27`, the current best head | of two overlapping calls the lighter may write last |
| `SlotAlwaysAgrees` | `MCParts.cfg` | `fork_choice.rs:95`, the heaviest fork at a slot | a block added again with a lower power replaces the record and not the head |
| `HeadHasHeaviestChain` | `MCParts.cfg` | `fork_choice.rs:4-5`, chain weight | blocks are compared by their own power |
| `PendingUntilInclusion` | `MCParts.cfg` | `handler.rs:303` | nothing changes the status when a block takes the transaction |
| `SlotFollows` | `MCParts.cfg` | `handler.rs:390`, called by the validator | it has no caller |
| `FinalizedStays` | `MCParts.cfg` | `handler.rs:332`, a status called finalized | the same transaction sent again and failing is reported failed |
| `TreeBalanced` | `MCParts.cfg` | `neighborhoods.rs:40`, a balanced tree | validators are left out, or the index is out of bounds |
| `TreeByStake` | `MCParts.cfg` | `neighborhoods.rs:41`, higher stake is closer to the root | fails from 14 validators on |
| `ScheduleFitsEpoch` | `MCParts.cfg` | `leader.rs:51`, the leader schedule for the current epoch | the sum of the stakes wraps, and the shares of the smaller total fill more than the epoch; with a total of zero, slots are pushed without end |

`build_tree` takes in all of up to 4, 13, 17, 25 and 40 validators at depths 1 to
5. It indexes out of bounds from 18, 26, 41 and 41 validators at depths 2 to 5, and
never at depth 1. `TreeSound` states both exactly. The operator
`InconsistentRefused` of `Erasure` is the sentence of `InconsistentIsNone` about
`decode` alone; it fails on shreds of two blocks of one size. `Quiesces` is about
tables that can remember every id: with smaller ones an evicted id is taken for new
and pushed on again.

## 5. Theorems

`BlockstoreProofs` proves, for every set of contents, oversize ones among them, and
every bound on frames, errors and decays, that `TypeOK`, `PromisedSurvive`,
`RecordsExtendPromise`, `ChainUnbroken` and `MemoryMatchesFile` are invariants of
`Blockstore`. The only assumption is that the bounds are natural numbers. None of
them is inductive by itself: whether a promised block survives a power loss depends
on which frames are synced and on the link of every frame in front of it. The
inductive invariant `IInv` adds to the types that the promised blocks are the
leading frames of the synced file and are accepted there (`PromiseOnMedium`), that
the records in memory are a chain and start with the promised blocks
(`RecordsExtendPromise`), that in a clean store they are the frames of the file
(`FileIsRecords`), and that a frame in flight links to them (`InFlightChains`). One
lemma per action shows that it is preserved. `valid_len` is defined by `CHOOSE`, so
a lemma first shows that the number exists and is unique, by taking the least frame
that is not accepted; from it follow what `replay` returns and that it only depends
on the frames that it accepts.

The refinement (`Refinement`) uses the same invariant: an acknowledged append of a
sound store is a commit, one of any other store is tentative, an error is a fault,
an open recovers what is committed, one whose read fails recovers a part, and
every other step leaves the abstract ledger alone or decays it.

`DataFacts` has what these proofs need of data and no library theorem gives: the
least and the greatest of a set of naturals, and sums of a function over finite
sets (they grow with the set, add up over disjoint sets, and compare pointwise),
by induction through a least counterexample.

`TowerProofs` proves for every set of votes, validators and stakes and any number
of overlapping calls that `TypeOK`, `OneVotePerSlot`, `ConfirmedUnique` and
`BestHeadCurrent` are invariants of `Tower`. The strengthening `IInv` says that a
counted vote is for a slot at or before its validator's last vote, so that the
check against `last_vote_slot` keeps a second vote of the slot out (`Counted`), that
the voters of a node are those counted for it (`Recorded`), and that its weight is
at most the stakes that its voters have today, unless one of them has lost stake
since (`Backed`). Two blocks of a slot then have disjoint voters, and two disjoint
sets cannot both have more than two thirds of the total, saturated or not.
`HeadInv` adds that a call without company writes what its own scan found.

`ValidatorProofs` proves `LedgerRises` and `PublishedOnce` for any leader schedule,
clients, slots, crashes, power losses and errors. The file may hold frames of
failed appends, in no order at all, so nothing can be said of the file as a whole.
What survives every truncation and power loss is a fact about each frame alone: a
parent hash commits to the contents of the parent, and a block is built only on a
parent of an earlier slot and lower height (`Rises`). Whatever prefix chains up,
rises. `ClockAhead` says that the clock is at the slot of the last record only if
`last_produced_slot` knows it, `Producing` that this knowledge does not change
under the write lock, and `PublishedPromised` that until an error what is
published is promised. The invariant of `BlockstoreProofs` is part of this one, and
its lemmas are reused action by action. The assumption `BlocksFit` is that no block
is larger than a frame may be: a block has at most 128 transactions, each from a
request of at most 64 KiB.

`MempoolProofs` proves `PoolSound`, `Accounted` and `NothingLostEarly` for any
transactions, clients, limits and clock. The strengthening is that the pool is
finite, which lets the sizes of what `insert`, `drain` and `expire` move be added
up, and that no entry was received after the present time of the clock.

`SchedulerProofs` proves `ConflictFree` and `WithinLimits`. `schedule` compares a
transaction only with the account sets and the wrapped sum that a batch has
gathered; that these cover the accounts of its members (`Gathered`) and equal the
sum of their budgets modulo `Word` (`Budgeted`) is what makes them inductive.

`ExecutorProofs` proves `LocksProtect` and `NoDeadlock`, for any batch, whether or
not it declares what it stores to. A key in two lock sets is exclusive to neither
(`Separate`), what a thread holds lies below what it still wants (`Ordered`), and
what it has saved or is about to store is a balance (`Snapped`, `Loaded`). If all
threads waited, nobody could hold the greatest key that is waited for, and one of
those that wait for it could take it. The assumptions are on the inputs: finitely
many threads, well-formed transactions and balances.

`RpcProofs` proves `StatusSound`: a request in progress carries only outcomes and
slots that are already facts.

Only model-checked: everything about `AccountsLog`, `Programs`, `Gossip`,
`Turbine`, `Poh` and `ForkChoice`, and `Serializable`, `QueueHonoured` and
`DrainTakesTheBest`. Liveness
(`ScheduleReturns`, `BatchReturns`, `Quiesces`) and what recursive definitions
compute (the pure algorithms of `parts`) are out of the prover's reach and stay
with TLC.

## 6. Open ends

`AccountsLog` speaks of single accounts and `Programs` of uninterrupted
instructions. Composed, they would show the totals across a kill between the two
stores of a transfer; since every store is a record of its own there is no total
to promise, and the hazard is listed without a property. `Validator` keeps the
accounts log abstract for the same reason: `RootReproducible` already fails there.
Next in line for proofs are `QueueHonoured`, which needs the order of the pending
queue through a whole `schedule`, and `KillKeepsAccounts`.

## 7. Not modelled

Signatures and hashes are ideal: a signature is valid or not, a hash is
injective. The frames of the log files and of datagrams are whole or not; their
bytes, logging, the command line, identity files, the benchmark, the HTTP server,
sockets, statistics and the JSON of the genesis are pure I/O and left out. So are
the compute metering inside a program, which no other decision reads than the one
in `Executor`, the queries of RPC that only read, `apply_batch`, which is a
sequence of stores and has no caller, and `flush_transactions`, which always
returns early.
