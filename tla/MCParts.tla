--------------------------------- MODULE MCParts ---------------------------------
(***************************************************************************)
(* The smaller parts of the node in one run: a behaviour is one of the     *)
(* proof of history recorder, fork choice or the RPC handler, or the       *)
(* choice of one input for a pure algorithm.                               *)
(***************************************************************************)
EXTENDS Poh, ForkChoice, Rpc, Merkle, LeaderSchedule, Neighborhoods, Erasure, Encoding

CONSTANTS b1, b2, b3     \* blocks besides Root

VARIABLES
    part,      \* what this behaviour is about
    input      \* the input of a pure algorithm

partvars == <<pohvars, forkvars, rpcvars, part, input>>

-------------------------------------------------------------------------------
(* Values of constants *)

\* Transactions and signatures whose bytes run together in the hash of an entry.
MCTransactions == {<< <<1>>, <<2>> >>, << <<1, 2>>, <<>> >>}

MCForkSlot == Root :> 0 @@ b1 :> 1 @@ b2 :> 1 @@ b3 :> 2

MCForkParent == b1 :> Root @@ b2 :> Root @@ b3 :> b1

\* b2 may be added again with another power.
MCPowers == Root :> {0} @@ b1 :> {5} @@ b2 :> {3, 7} @@ b3 :> {5}

MCTimestamp == Root :> 0 @@ b1 :> 1 @@ b2 :> 2 @@ b3 :> 3

-------------------------------------------------------------------------------
(* Inputs of the pure algorithms *)

UpTo(n, S) == UNION {[1..m -> S] : m \in 0..n}

Leaves == {<<1>>, <<2>>}

MerkleInputs == {[of |-> "merkle", hashes |-> h] : h \in UpTo(7, Leaves)}

ScheduleInputs ==
    UNION {{[of |-> "schedule", stakes |-> s, slots |-> n, short |-> x] : x \in SUBSET Exact(s, n)} :
               s \in {new(s) : s \in UpTo(4, 0..3) \ {<<>>}}, n \in 1..7}

\* Equal, falling, rising and mixed stakes.
Stakes(n) == {[i \in 1..n |-> 1], [i \in 1..n |-> n - i], [i \in 1..n |-> i], [i \in 1..n |-> (7 * i) % 5]}

\* Beyond the largest size for which a tree is built at all.
MaxTree == 44

TreeInputs ==
    UNION {[of : {"tree"}, stakes : Stakes(n), depth : 1..5] : n \in 0..MaxTree}

Blocks == {<<>>, <<{}>>, <<0..7, {0, 3}, {}>>, <<{1}, {2}, {7}, {0, 7}, {5}, {}, {6}>>}

ErasureInputs ==
    UNION {{[of |-> "erasure", k |-> k, data |-> d, lost |-> x] : d \in Blocks, x \in SUBSET (0..(k + 1))} :
               k \in 2..3}

InstructionInputs ==
    {[of |-> "instruction", data |-> <<i>> \o d] : i \in 0..9, d \in UpTo(5, {4, 5})}
        \cup {[of |-> "instruction", data |-> <<>>]}

BytesInputs == {[of |-> "bytes", bytes |-> b] : b \in UpTo(3, {0, 1, 57, 58, 255})}

\* Transactions that differ in where lists and data begin and end.
Messages ==
    [header       : {<<0>>},
     account_keys : UpTo(2, {<<0>>, <<1>>}),
     instructions : UpTo(2, [program_id : {<<0>>, <<1>>},
                             accounts   : UpTo(1, {<<0, 1>>, <<1, 0>>}),
                             data       : UpTo(2, {<<0>>, <<1>>})])]

Inputs ==
    MerkleInputs \cup ScheduleInputs \cup TreeInputs \cup ErasureInputs \cup InstructionInputs
        \cup BytesInputs \cup {[of |-> "messages"]}

-------------------------------------------------------------------------------
(* The specification *)

Init ==
    /\ part \in {"poh", "fork", "rpc", "pure"}
    /\ input = [of |-> "none"]
    /\ PohInit
    /\ ForkInit
    /\ RpcInit
    /\ part # "rpc" => with_mempool

Choose ==
    /\ part = "pure"
    /\ input.of = "none"
    /\ input' \in Inputs
    /\ UNCHANGED <<pohvars, forkvars, rpcvars, part>>

Next ==
    \/ part = "poh" /\ PohNext /\ UNCHANGED <<forkvars, rpcvars, part, input>>
    \/ part = "fork" /\ ForkNext /\ UNCHANGED <<pohvars, rpcvars, part, input>>
    \/ part = "rpc" /\ RpcNext /\ UNCHANGED <<pohvars, forkvars, part, input>>
    \/ Choose

Spec == Init /\ [][Next]_partvars

-------------------------------------------------------------------------------
(* Properties of the pure algorithms *)

\* StateRoot::prove and MerkleProof::verify agree with compute for lists of every length,
\* and compute tells lists of accounts apart.
StateRootExact ==
    input.of = "merkle" =>
        /\ ProofsVerify(input.hashes, Leaves)
        /\ NothingBeyond(input.hashes)
        /\ RootBinds(input.hashes, Leaves)

\* compute_schedule leaves no slot without a leader and gives slots by stake, whatever the
\* rounding of shares does.
ScheduleSound ==
    input.of = "schedule" /\ ~Endless(input.stakes) =>
        /\ EverySlotLed(input.stakes, input.slots, input.short)
        /\ SharesFair(input.stakes, input.slots, input.short)

\* build_tree leaves validators out, or panics, for exactly the known sizes, and the links
\* of the tree are those that path_to and the senders of shreds follow.
TreeSound ==
    input.of = "tree" =>
        LET tree == build_tree(input.stakes, input.depth)
        IN  /\ KnownSizes(input.stakes, tree, input.depth)
            /\ WellLinked(input.stakes, tree, input.depth)

\* ErasureCoder::decode inverts encode, whichever shreds of a block are lost, and refuses
\* shreds whose sizes differ.
ErasureSound ==
    input.of = "erasure" =>
        /\ AnyShredsDecode(input.k, 2, input.data, input.lost)
        /\ MixedSizesRefused(input.k, 2, input.data, input.lost)

\* Instructions are read as they are written, the text of a signature loses nothing of
\* it, and Transaction::hash commits to all of a transaction.
FormatsExact ==
    /\ input.of = "instruction" =>
          DecodesExactly(SystemInstruction, input.data) /\ DecodesExactly(TokenInstruction, input.data)
    /\ input.of = "bytes" => Base58Exact(input.bytes)
    /\ input.of = "messages" => MessageInjective(Messages)

-------------------------------------------------------------------------------
(* Documented, but not what the code does *)

\* build_tree: "Validators are arranged in a balanced tree".
TreeBalanced ==
    input.of = "tree" =>
        BalancedTree(input.stakes, build_tree(input.stakes, input.depth), input.depth)

\* build_tree: "Higher-stake validators are placed closer to the root."
TreeByStake ==
    input.of = "tree" => StakeOrdered(input.stakes, build_tree(input.stakes, input.depth))

\* compute_schedule: "the leader schedule for the current epoch".
ScheduleFitsEpoch ==
    input.of = "schedule" => EpochLong(input.stakes, input.slots, input.short)
===============================================================================
