--------------------------------- MODULE Turbine ---------------------------------
(***************************************************************************)
(* Block propagation: TurbinePropagator (turbine/src/propagate.rs) of each *)
(* node with the shred tasks of validator/network.rs, beside the gossip    *)
(* that fills the contact table which the shred sender reads.              *)
(*                                                                         *)
(* A block is encoded into shreds of which any DATA_SHARDS give it back    *)
(* (module Erasure).  Whoever decides that a node forwards what it has     *)
(* accepted is outside the crate: here every accepted shred is handed to   *)
(* forward_shreds once.  The scenario also says which blocks are produced  *)
(* in which deployment.                                                    *)
(***************************************************************************)
EXTENDS Gossip, Neighborhoods

CONSTANTS
    Block,          \* per block, its slot, the node that produces it, and the indexes of
                    \* its shreds that are larger than a datagram
    Deployment,     \* per deployment, the tree that each node holds, the peers whose contact
                    \* carries their TPU address, and whether the nodes sign their shreds
    DATA_SHARDS,
    PARITY_SHARDS,
    SHRED_RETENTION_SLOTS,
    PRUNE_INTERVAL  \* 64: ticks prune in every slot that is a multiple of it

Blocks == DOMAIN Block

Slots == {Block[b].slot : b \in Blocks}

Indexes == 0..(DATA_SHARDS + PARITY_SHARDS - 1)

ASSUME TurbineAssumption ==
    /\ DATA_SHARDS \in Nat \ {0}
    /\ PARITY_SHARDS \in Nat
    /\ SHRED_RETENTION_SLOTS \in Nat
    /\ PRUNE_INTERVAL \in Nat \ {0}
    /\ \A b \in Blocks : /\ Block[b].slot \in Nat
                         /\ Block[b].leader \in Running
                         /\ Block[b].oversize \subseteq Indexes
    /\ \A sc \in Scenarios : sc.blocks \subseteq Blocks /\ sc.deployment \in DOMAIN Deployment

VARIABLES
    slot,              \* per node, its clock
    received_shreds,   \* per node and slot, the buffered shreds in order of arrival
    shred_queue,       \* per node, the shred_sender channel: <<[to, shreds], ...>>
    shred_wire,        \* the datagrams under way, [to, shred]
    forwarded,         \* per node, the shreds handed to forward_shreds
    produced,          \* the blocks that were propagated
    missing,           \* history: per block, the indexes that some hop did not deliver
    pruned_slots       \* history: per node, the slots it had pruned

shredvars == <<slot, received_shreds, shred_queue, shred_wire, forwarded, produced, missing, pruned_slots>>
vars == <<gossipvars, shredvars>>

\* The neighbours and the children of each node in the tree that it holds.
Neighbors == [d \in DOMAIN Deployment |-> [n \in Nodes |-> neighbors(Deployment[d].tree[n], n)]]

ChildrenOf ==
    LET below(nodes, n) == {nodes[j].validator : j \in {j \in DOMAIN nodes : \E i \in DOMAIN nodes :
                               nodes[i].validator = n /\ Contains(nodes[i].children, j)}}
    IN  [d \in DOMAIN Deployment |-> [n \in Nodes |-> below(Deployment[d].tree[n], n)]]

Children(n) == ChildrenOf[scenario.deployment][n]

signed == Deployment[scenario.deployment].signed

\* An id that no shred of a block has: another slot, or the other shred type.
ForeignId == DATA_SHARDS + PARITY_SHARDS

\* encode: the shreds of a block.  cut is the index that the payload was cut for, and is
\* what the signature of a signed shred vouches for; intact is whether the payload has
\* the hash that the shred carries.
encode(b) ==
    {[block |-> b, index |-> i, id |-> i, cut |-> i, intact |-> TRUE] : i \in Indexes}

TurbineInit ==
    /\ slot = [n \in Nodes |-> 1]
    /\ received_shreds = [n \in Nodes |-> [s \in Slots |-> <<>>]]
    /\ shred_queue = [n \in Nodes |-> <<>>]
    /\ shred_wire = {}
    /\ forwarded = [n \in Nodes |-> {}]
    /\ produced = {}
    /\ missing = [b \in Blocks |-> {}]
    /\ pruned_slots = [n \in Nodes |-> {}]

-------------------------------------------------------------------------------

\* One entry of the channel per destination.
SendShreds(n, dests, shreds) ==
    LET order == SetToSeq(dests)
    IN  shred_queue' = [shred_queue EXCEPT ![n] =
            @ \o [i \in 1..Len(order) |-> [to |-> order[i], shreds |-> shreds]]]

\* Mutant of propagate_block: the data shreds only.
propagate_block_NoParity(b) ==
    LET n == Block[b].leader
    IN  /\ b \in scenario.blocks \ produced
        /\ produced' = produced \cup {b}
        /\ SendShreds(n, Neighbors[scenario.deployment][n], {f \in encode(b) : f.index < DATA_SHARDS})
        /\ UNCHANGED <<gossipvars, slot, received_shreds, shred_wire, forwarded, missing, pruned_slots>>

\* The leader encodes its block and queues every shred for every neighbour.
propagate_block(b) ==
    LET n == Block[b].leader
    IN  /\ b \in scenario.blocks \ produced
        /\ produced' = produced \cup {b}
        /\ SendShreds(n, Neighbors[scenario.deployment][n], encode(b))
        /\ UNCHANGED <<gossipvars, slot, received_shreds, shred_wire, forwarded, missing, pruned_slots>>

\* The peers that a node's bootstrap contacts give the TPU address of.
Reach(n) == Bootstrap[n] \cap Deployment[scenario.deployment].tpu[n] \cap Running

\* Whose TPU socket gets what is sent to the contact of p.  Without one nothing is sent.
\* A contact from the command line has the gossip port, where shreds are ignored.  One
\* from a pull response has 0.0.0.0, which is the sender's own host.
Receivers(n, p) ==
    IF p \in unspecified[n] THEN {{}, {n}} ELSE {Reach(n) \cap {p}}

\* The indexes of a block among some shreds.
Cut(fs, b) == {f.cut : f \in {f \in fs : f.block = b}}

\* The TPU send task.  A shred that encode refuses or the socket does not take is
\* logged, and the next one is sent.
TpuSend(n) ==
    /\ shred_queue[n] # <<>>
    /\ LET out  == Head(shred_queue[n])
           sent == {f \in out.shreds : f.cut \notin Block[f.block].oversize}
       IN  \E to \in Receivers(n, out.to) :
              /\ shred_wire' = shred_wire \cup {[to |-> r, shred |-> f] : r \in to, f \in sent}
              /\ missing' = IF out.to \notin Reach(n) THEN missing
                            ELSE [b \in Blocks |-> missing[b] \cup
                                     Cut(IF out.to \in to THEN out.shreds \ sent ELSE out.shreds, b)]
    /\ shred_queue' = [shred_queue EXCEPT ![n] = Tail(@)]
    /\ UNCHANGED <<gossipvars, slot, received_shreds, forwarded, produced, pruned_slots>>

LoseShred(p) ==
    /\ Spend("losses")
    /\ shred_wire' = shred_wire \ {p}
    /\ missing' = [missing EXCEPT ![p.shred.block] = @ \cup {p.shred.cut}]
    /\ UNCHANGED <<table, peers, pending_pings, queue, wire, lost, slot, received_shreds,
                   shred_queue, forwarded, produced, pruned_slots>>

\* The payload has the hash in the shred.
verify(f) == f.intact

\* The signature covers type, slot, index and payload, not the id.
verify_signature(f) == f.index = f.cut

\* Mutant of Stored: the payload hash is not compared.
Stored_Unverified(buffer, f) ==
    IF \/ signed /\ ~verify_signature(f)
       \/ \E i \in DOMAIN buffer : buffer[i].id = f.id
    THEN buffer
    ELSE Append(buffer, f)

\* The buffer of a slot after receive_shred: a signature must verify if there is one, and
\* one shred is kept per id.
Stored(buffer, f) ==
    IF \/ ~verify(f)
       \/ signed /\ ~verify_signature(f)
       \/ \E i \in DOMAIN buffer : buffer[i].id = f.id
    THEN buffer
    ELSE Append(buffer, f)

\* What the network can make of a shred without decode refusing it.
Damaged(f) ==
    {[f EXCEPT !.intact = FALSE]}
        \cup {[f EXCEPT !.id = i] : i \in (Indexes \cup {ForeignId}) \ {f.id}}
        \cup {[f EXCEPT !.index = i] : i \in Indexes \ {f.index}}

\* A datagram is delivered, once or once more, or arrives damaged.  With its id changed a
\* shred takes the place of the one that has this id.
receive_shred(p) ==
    LET b == p.shred.block
        s == Block[b].slot
        buffer == received_shreds[p.to][s]
        take(f) == received_shreds' = [received_shreds EXCEPT ![p.to][s] = Stored(@, f)]
    IN  /\ \/ /\ shred_wire' = shred_wire \ {p}
              /\ take(p.shred)
              /\ UNCHANGED <<budget, missing>>
           \/ /\ Spend("duplicates")
              /\ take(p.shred)
              /\ UNCHANGED <<shred_wire, missing>>
           \/ \E f \in Damaged(p.shred) :
              /\ Spend("damages")
              /\ shred_wire' = shred_wire \ {p}
              /\ take(f)
              /\ missing' = [missing EXCEPT ![b] = @ \cup
                    (IF Stored(buffer, f) = buffer THEN {f.cut} ELSE {f.id} \ {f.cut, ForeignId})]
        /\ UNCHANGED <<table, peers, pending_pings, queue, wire, lost, slot, shred_queue,
                       forwarded, produced, pruned_slots>>

\* To the children in the tree.
forward_shreds(n) ==
    \E s \in Slots :
        LET new == ToSet(received_shreds[n][s]) \ forwarded[n]
        IN  /\ new # {} /\ Children(n) # {}
            /\ forwarded' = [forwarded EXCEPT ![n] = @ \cup new]
            /\ SendShreds(n, Children(n), new)
            /\ UNCHANGED <<gossipvars, slot, received_shreds, shred_wire, produced, missing, pruned_slots>>

\* Mutant of prune_slots_below: the slot itself goes as well.
prune_slots_below_Through(buffers, bound) ==
    [s \in Slots |-> IF s <= bound THEN <<>> ELSE buffers[s]]

\* What prune_slots_below leaves of the buffers.
prune_slots_below(buffers, bound) == [s \in Slots |-> IF s < bound THEN <<>> ELSE buffers[s]]

\* The tick loop advances the slot and now and then prunes behind it.
process_tick(n) ==
    LET now   == slot[n] + 1
        bound == IF now % PRUNE_INTERVAL # 0 \/ now < SHRED_RETENTION_SLOTS
                 THEN 0
                 ELSE now - SHRED_RETENTION_SLOTS
    IN  /\ Spend("ticks")
        /\ slot' = [slot EXCEPT ![n] = now]
        /\ received_shreds' = [received_shreds EXCEPT ![n] = prune_slots_below(@, bound)]
        /\ pruned_slots' = [pruned_slots EXCEPT ![n] = @ \cup {s \in Slots : s < bound}]
        /\ UNCHANGED <<table, peers, pending_pings, queue, wire, lost, shred_queue,
                       shred_wire, forwarded, produced, missing>>

\* The first shred of each index, of the lowest DATA_SHARDS indexes.
Selected(buffer) ==
    LET first  == {i \in DOMAIN buffer : \A j \in 1..(i - 1) : buffer[j].index # buffer[i].index}
        lowest == {i \in first :
                      Cardinality({j \in first : buffer[j].index < buffer[i].index}) < DATA_SHARDS}
    IN  {buffer[i] : i \in lowest}

None == "None"

Garbage == "garbage"

\* What decode returns for the shreds in a buffer: the block that all those selected were
\* cut from, None, or the bytes of no block.
Decoded(buffer) ==
    LET selected == Selected(buffer)
        b        == (CHOOSE f \in selected : TRUE).block
    IN  IF Cardinality(selected) < DATA_SHARDS THEN None
        ELSE IF \A f \in selected : f.block = b /\ f.intact /\ f.index = f.cut THEN b
        ELSE Garbage

try_reassemble(n, s) == Decoded(received_shreds[n][s])

TurbineNext ==
    \/ \E b \in Blocks : propagate_block(b)
    \/ \E n \in Running : TpuSend(n)
    \/ \E p \in shred_wire : LoseShred(p)
    \/ \E p \in shred_wire : receive_shred(p)
    \/ \E n \in Running : forward_shreds(n)
    \/ \E n \in Running : process_tick(n)

Init == GossipInit /\ TurbineInit

Next == (GossipNext /\ UNCHANGED shredvars) \/ TurbineNext

\* The loops of the network tasks never stop.
Fairness ==
    /\ \A n \in Running : WF_vars(GossipSend(n) /\ UNCHANGED shredvars)
    /\ WF_vars(handle_message /\ UNCHANGED shredvars)

Spec == Init /\ [][Next]_vars /\ Fairness

-------------------------------------------------------------------------------
(* Properties *)

\* received_shreds holds shreds of its slot only, one per id.
TurbineTypeOK ==
    /\ \A n \in Nodes : slot[n] \in Nat \ {0}
    /\ \A n \in Nodes, s \in Slots :
          LET buffer == received_shreds[n][s]
          IN  /\ \A i \in DOMAIN buffer : Block[buffer[i].block].slot = s
              /\ \A i, j \in DOMAIN buffer : i # j => buffer[i].id # buffer[j].id
    /\ produced \subseteq scenario.blocks

\* The nodes that the block of a leader gets to: its neighbours, and what is below them.
Audience(n) ==
    LET below(ps) == ps \cup UNION {Children(p) \cap Reach(p) : p \in ps}
    IN  FoldSet(LAMBDA m, ps : below(ps), Neighbors[scenario.deployment][n] \cap Reach(n), Nodes)

\* No other block of the slot is produced.
OnlyBlock(b) == \A c \in scenario.blocks \ {b} : Block[c].slot # Block[b].slot

\* Nothing of a block is left to be sent, received or forwarded.
Delivered(b) ==
    /\ b \in produced
    /\ \A p \in shred_wire : p.shred.block # b
    /\ \A n \in Nodes :
          /\ Children(n) # {} => ToSet(received_shreds[n][Block[b].slot]) \subseteq forwarded[n]
          /\ \A out \in ToSet(shred_queue[n]) : \A f \in out.shreds : f.block # b

\* The only block of a slot is reassembled by every node that it can get to, if as many
\* of its shreds as there are parity shreds were lost, damaged, kept out by one with
\* their id, or too large to be sent, on whatever hops, and whatever was duplicated and
\* reordered.
Reassembles ==
    \A b \in scenario.blocks :
        (/\ OnlyBlock(b) /\ signed
         /\ Delivered(b) /\ Cardinality(missing[b]) <= PARITY_SHARDS)
            => \A n \in Audience(Block[b].leader) :
                  Block[b].slot \notin UNION {pruned_slots[m] : m \in Nodes}
                      => try_reassemble(n, Block[b].slot) = b

\* What try_reassemble returns for a slot with one signed block is this block, whatever
\* was damaged on the way.
NeverGarbage ==
    \A b \in scenario.blocks, n \in Running :
        OnlyBlock(b) /\ signed => try_reassemble(n, Block[b].slot) \in {None, b}

\* Turbine delivers: the block to whoever can get enough shreds, and never another one.
BlocksArrive == TurbineTypeOK /\ Reassembles /\ NeverGarbage

\* The only block of a slot, once it can be reassembled, stays so while the slot is in
\* the window.
KeepsReassembled ==
    [][signed => \A b \in scenario.blocks, n \in Running :
          (/\ OnlyBlock(b)
           /\ try_reassemble(n, Block[b].slot) = b
           /\ Block[b].slot + SHRED_RETENTION_SLOTS >= slot'[n])
              => Decoded(received_shreds'[n][Block[b].slot]) = b]_vars

-------------------------------------------------------------------------------
(* Documented, but not what the code does *)

\* What main.rs says of propagate_block: "Propagate the block to peers as erasure-coded,
\* signed shreds over the TPU socket."  The tree that Network::start builds has one node.
PeersGetBlocks ==
    \A b \in scenario.blocks : Delivered(b) => \E n \in Running \ {Block[b].leader} :
        try_reassemble(n, Block[b].slot) = b

\* What crates/net says of its limit: "Shreds top out at ~1232 bytes [...], so this is
\* generous."  A shred is a sixteenth of a block, as JSON.
ShredsFit == \A b \in scenario.blocks : Delivered(b) /\ Audience(Block[b].leader) # {} =>
                \E n \in Running : received_shreds[n][Block[b].slot] # <<>>

\* What decode says: "Returns `None` on any inconsistency".  Shreds of two blocks of a
\* slot, or an unsigned one with another index, are put together.
InconsistentIsNone ==
    \A n \in Nodes, s \in Slots : try_reassemble(n, s) # Garbage

\* What network.rs says of the buffers: "a validator cannot be forced to buffer unbounded
\* partial blocks".  Only slots behind the window are dropped.
BuffersBounded ==
    \A n \in Nodes : \A s \in Slots : received_shreds[n][s] # <<>> => s <= slot[n]
===============================================================================
