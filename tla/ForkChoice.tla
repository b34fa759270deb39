------------------------------- MODULE ForkChoice -------------------------------
(***************************************************************************)
(* consensus/src/fork_choice.rs: the tree of blocks with the heaviest one  *)
(* as head.  add_block inserts into two maps, reads the head under a read  *)
(* lock and replaces it under a later write lock; the calls of several     *)
(* threads and prune come in between.  The node does not use ForkChoice    *)
(* yet; the blocks, the power a call gives them and their order of arrival *)
(* are arbitrary.  An added block is its hash and its voting power; slot,  *)
(* parent and timestamp go with the hash.                                  *)
(***************************************************************************)
EXTENDS Naturals, SequencesExt

CONSTANTS
    ForkBlocks,      \* the genesis block and others
    Root,            \* the genesis block
    ForkSlot,
    ForkParent,      \* a function on the blocks other than Root
    Powers,          \* the voting powers that a call may give a block
    Timestamp,
    Callers,         \* threads that call add_block
    MaxAdds          \* bound on calls of add_block

ASSUME ForkAssumption ==
    /\ Root \in ForkBlocks
    /\ \A b \in ForkBlocks \ {Root} : ForkSlot[ForkParent[b]] < ForkSlot[b]

VARIABLES
    fork_blocks,     \* `blocks`: per known hash, the voting power
    slot_blocks,     \* per slot, the hashes in order of arrival
    fork_head,       \* best_head, a copy of the block
    adding,          \* per thread, [step, block, alone]
    adds,            \* history: the calls that have returned, in order of the end, with
                     \* whether another one ran at the same time
    pruned_to        \* history: the highest slot pruned to

forkvars == <<fork_blocks, slot_blocks, fork_head, adding, adds, pruned_to>>

ForkSlots == {ForkSlot[b] : b \in ForkBlocks}

NotAdding == [step |-> "idle"]

ForkBlock(b, power) == [hash |-> b, power |-> power]

Heavier(b, c) ==
    \/ b.power > c.power
    \/ b.power = c.power /\ Timestamp[b.hash] > Timestamp[c.hash]

ForkInit ==
    /\ fork_blocks = Root :> 0
    /\ slot_blocks = [s \in ForkSlots |-> IF s = ForkSlot[Root] THEN <<Root>> ELSE <<>>]
    /\ fork_head = ForkBlock(Root, 0)
    /\ adding = [t \in Callers |-> NotAdding]
    /\ adds = <<>>
    /\ pruned_to = 0

Calls == {t \in Callers : adding[t] # NotAdding}

-------------------------------------------------------------------------------
(* add_block, one step per lock *)

\* A hash that is known already gets the power of this call.
InsertBlock(t, b) ==
    /\ adding[t] = NotAdding
    /\ Len(adds) + Cardinality(Calls) < MaxAdds
    /\ fork_blocks' = b.hash :> b.power @@ fork_blocks
    /\ adding' = [c \in Callers |->
          IF c = t THEN [step |-> "index", block |-> b, alone |-> Calls = {}]
          ELSE IF c \in Calls THEN [adding[c] EXCEPT !.alone = FALSE]
          ELSE NotAdding]
    /\ UNCHANGED <<slot_blocks, fork_head, adds, pruned_to>>

\* Mutant of IndexSlot: the list of the slot is replaced.
IndexSlot_Replaces(t) ==
    /\ adding[t].step = "index"
    /\ slot_blocks' = [slot_blocks EXCEPT ![ForkSlot[adding[t].block.hash]] = <<adding[t].block.hash>>]
    /\ adding' = [adding EXCEPT ![t].step = "compare"]
    /\ UNCHANGED <<fork_blocks, fork_head, adds, pruned_to>>

IndexSlot(t) ==
    /\ adding[t].step = "index"
    /\ slot_blocks' = [slot_blocks EXCEPT ![ForkSlot[adding[t].block.hash]] = Append(@, adding[t].block.hash)]
    /\ adding' = [adding EXCEPT ![t].step = "compare"]
    /\ UNCHANGED <<fork_blocks, fork_head, adds, pruned_to>>

Return(t) ==
    /\ adding' = [adding EXCEPT ![t] = NotAdding]
    /\ adds' = Append(adds, [block |-> adding[t].block, alone |-> adding[t].alone])

\* Mutant of CompareHead: a later timestamp is enough.
CompareHead_Latest(t) ==
    /\ adding[t].step = "compare"
    /\ IF Timestamp[adding[t].block.hash] > Timestamp[fork_head.hash]
       THEN adding' = [adding EXCEPT ![t].step = "write"] /\ UNCHANGED adds
       ELSE Return(t)
    /\ UNCHANGED <<fork_blocks, slot_blocks, fork_head, pruned_to>>

\* Reads the head; a block that is not heavier leaves it.
CompareHead(t) ==
    /\ adding[t].step = "compare"
    /\ IF Heavier(adding[t].block, fork_head)
       THEN adding' = [adding EXCEPT ![t].step = "write"] /\ UNCHANGED adds
       ELSE Return(t)
    /\ UNCHANGED <<fork_blocks, slot_blocks, fork_head, pruned_to>>

WriteHead(t) ==
    /\ adding[t].step = "write"
    /\ fork_head' = adding[t].block
    /\ Return(t)
    /\ UNCHANGED <<fork_blocks, slot_blocks, pruned_to>>

\* Mutant of prune: the slot itself goes as well.
prune_Through(before_slot) ==
    /\ fork_blocks' = Restrict(fork_blocks, {b \in DOMAIN fork_blocks : ForkSlot[b] > before_slot})
    /\ pruned_to' = IF before_slot > pruned_to THEN before_slot ELSE pruned_to
    /\ UNCHANGED <<slot_blocks, fork_head, adding, adds>>

\* The index by slot and the head stay as they are.
prune(before_slot) ==
    /\ fork_blocks' = Restrict(fork_blocks, {b \in DOMAIN fork_blocks : ForkSlot[b] >= before_slot})
    /\ pruned_to' = IF before_slot > pruned_to THEN before_slot ELSE pruned_to
    /\ UNCHANGED <<slot_blocks, fork_head, adding, adds>>

ForkNext ==
    \/ \E t \in Callers, b \in ForkBlocks \ {Root} : \E p \in Powers[b] : InsertBlock(t, ForkBlock(b, p))
    \/ \E t \in Calls : IndexSlot(t) \/ CompareHead(t) \/ WriteHead(t)
    \/ \E s \in ForkSlots : prune(s)

ForkSpec == ForkInit /\ [][ForkNext]_forkvars

-------------------------------------------------------------------------------
(* Queries *)

blocks_at_slot(s) ==
    LET known == SelectSeq(slot_blocks[s], LAMBDA b : b \in DOMAIN fork_blocks)
    IN  [i \in DOMAIN known |-> ForkBlock(known[i], fork_blocks[known[i]])]

\* The blocks that max_by_key may return: the last of the heaviest.
heaviest_at_slot(s) ==
    LET at   == blocks_at_slot(s)
        best == {i \in DOMAIN at : \A j \in DOMAIN at : at[j].power <= at[i].power}
    IN  {at[i] : i \in {i \in best : \A j \in best : j <= i}}

\* From the oldest known ancestor to the block; the bound is the number of blocks.
chain_from(b) ==
    LET up(chain) == IF Head(chain) = Root \/ ForkParent[Head(chain)] \notin DOMAIN fork_blocks
                     THEN chain
                     ELSE <<ForkParent[Head(chain)]>> \o chain
    IN  IF b \notin DOMAIN fork_blocks THEN <<>>
        ELSE FoldLeft(LAMBDA chain, i : up(chain), <<b>>, [i \in 1..Cardinality(ForkBlocks) |-> i])

fork_weight(b) == FoldLeft(LAMBDA sum, c : sum + fork_blocks[c], 0, chain_from(b))

-------------------------------------------------------------------------------
(* Properties *)

\* No block of a call that ran alone is heavier than the head, whatever other calls did
\* before and after it, at the same time among themselves, and whatever was pruned.
HeadIsHeaviest ==
    \A i \in DOMAIN adds : adds[i].alone => ~Heavier(adds[i].block, fork_head)

\* While no two calls overlap, heaviest_at_slot answers the slot of the head with the
\* power of the head, unless a repeat has given the head's block another one.
SlotAgrees ==
    (/\ Calls = {} /\ \A i \in DOMAIN adds : adds[i].alone
     /\ fork_head.hash \in DOMAIN fork_blocks
     /\ fork_blocks[fork_head.hash] = fork_head.power)
        => \A b \in heaviest_at_slot(ForkSlot[fork_head.hash]) : b.power = fork_head.power

\* The two maps agree between calls, overlapping or not: the index finds exactly the
\* blocks that were added for a slot and not pruned since.
IndexComplete ==
    Calls = {} => \A s \in ForkSlots :
        ToSet(blocks_at_slot(s)) =
            {ForkBlock(b, fork_blocks[b]) : b \in {b \in DOMAIN fork_blocks : ForkSlot[b] = s}}

\* prune never takes a block of its slot or a later one, so that the chain of a block
\* whose ancestors were all added reaches back to the slot pruned to.
PruneKeepsChains ==
    \A b \in DOMAIN fork_blocks :
        LET first == Head(chain_from(b))
        IN  first # Root =>
                \/ ForkSlot[ForkParent[first]] < pruned_to
                \/ ForkParent[first] \notin {Root} \cup {add.block.hash : add \in ToSet(adds)}
                                              \cup {adding[t].block.hash : t \in Calls}

\* Head, index and chains of fork choice agree with the blocks that were added.
ForkSound == HeadIsHeaviest /\ SlotAgrees /\ IndexComplete /\ PruneKeepsChains

-------------------------------------------------------------------------------
(* Documented, but not what the code does *)

\* What the field best_head is, "the current best head", with overlapping calls too.
HeadAlwaysHeaviest ==
    Calls = {} => \A i \in DOMAIN adds : ~Heavier(adds[i].block, fork_head)

\* What best_head and heaviest_at_slot, "the heaviest fork at a slot (most voting power)",
\* say of one slot, when a block is added again with a lower power.
SlotAlwaysAgrees ==
    (/\ Calls = {} /\ \A i \in DOMAIN adds : adds[i].alone
     /\ fork_head.hash \in DOMAIN fork_blocks)
        => \A b \in heaviest_at_slot(ForkSlot[fork_head.hash]) : b.power = fork_head.power

\* What "PoH chain weight" in the header of the file suggests: the head has the heaviest
\* chain behind it.
HeadHasHeaviestChain ==
    (Calls = {} /\ pruned_to = 0 /\ \A i \in DOMAIN adds : adds[i].alone)
        => \A b \in DOMAIN fork_blocks : fork_weight(b) <= fork_weight(fork_head.hash)
===============================================================================
