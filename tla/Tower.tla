--------------------------------- MODULE Tower ---------------------------------
(***************************************************************************)
(* The vote tree of crates/consensus: tower.rs with the VoteState of       *)
(* vote.rs.  A vote names a block, a slot and a parent slot, three fields  *)
(* that its signer chooses: nothing compares the slot with that of a node  *)
(* the block has already, and a vote does not carry its parent's hash.     *)
(*                                                                         *)
(* process_vote runs on &self: calls for different validators overlap, and *)
(* each holds its own validator's entry until it returns.  A call tallies  *)
(* the vote, scans the tree for the best head and writes it, in three      *)
(* steps.  advance_root sets the root, visits the validators' entries one  *)
(* by one, waiting for the calls that hold them, and prunes; calls overlap *)
(* it too.  Votes that carry no valid signature change nothing and are     *)
(* left out, and so are the fields that no decision reads (history,        *)
(* multiplier, counters, a node's parent_slot).                            *)
(***************************************************************************)
EXTENDS Naturals, FiniteSets, Functions

CONSTANTS
    Blocks,
    Votes,         \* the votes that may arrive, for any validator
    Validators,
    Genesis,       \* the stakes registered before the first vote
    Stakes,        \* the stakes that register_validator may be called with
    MaxCalls,      \* bound on the calls of process_vote in progress at once
    Roots,         \* the slots that the caller may advance the root to
    MaxMoves,      \* bound on the calls of advance_root
    MaxUpdates,    \* bound on the calls of register_validator
    Word           \* the number of values of u64

ASSUME TowerAssumption ==
    /\ Votes \subseteq [slot : Nat, block_hash : Blocks, parent_slot : SUBSET Nat]
    /\ \A x \in Votes : Cardinality(x.parent_slot) <= 1
    /\ IsFiniteSet(Validators)
    /\ Stakes \subseteq Nat
    /\ DOMAIN Genesis \subseteq Validators
    /\ \A v \in DOMAIN Genesis : Genesis[v] \in Nat
    /\ Roots \subseteq Nat
    /\ Word \in Nat \ {0}

VARIABLES
    stakes,             \* the stake of each registered validator
    validator_states,   \* the validators that have a VoteState
    last_vote_slot,     \* VoteState, per validator
    consecutive_votes,
    nodes,              \* the blocks that have a TowerNode
    node_slot,          \* TowerNode, per block: the slot that its first vote named
    parent_hash,        \* the parent, as a set of at most one block
    weight,
    voters,
    children,
    slot_to_hash,       \* per slot, a set of at most one block
    root_slot,
    best_head,          \* a set of at most one block
    tallied,            \* validators whose call has tallied and not yet scanned
    found,              \* per validator, what its call's scan found
    writing,            \* validators whose call has scanned and not yet returned
    advancing,          \* an advance_root is in progress
    visiting,           \* the validators that it has yet to visit
    counted,            \* history: per block, the voters and the slots they named
    lowered,            \* history: validators whose stake shrank once counted
    settled,            \* history: the last tally overlapped no other call
    moves,              \* the calls of advance_root so far
    updates             \* the calls of register_validator so far

votestate == <<stakes, validator_states, last_vote_slot, consecutive_votes>>
tree == <<nodes, node_slot, parent_hash, weight, voters, children, slot_to_hash>>
calls == <<tallied, found, writing>>
root == <<root_slot, advancing, visiting>>
history == <<counted, lowered, settled, moves, updates>>
vars == <<votestate, tree, root, best_head, calls, history>>

Slots == {x.slot : x \in Votes} \cup UNION {x.parent_slot : x \in Votes}

\* saturating arithmetic on u64
Saturated(n) == IF n < Word THEN n ELSE Word - 1

DEFAULT_STAKE == 1

stake_of(v) == IF v \in DOMAIN stakes THEN stakes[v] ELSE DEFAULT_STAKE

total_stake ==
    Saturated(SumFunctionOnSet([v \in Validators |-> stake_of(v)],
                               DOMAIN stakes \cup validator_states))

InCall == tallied \cup writing

-------------------------------------------------------------------------------
(* VoteState *)

lockout_slots(n) == 2 ^ (IF n < 31 THEN n ELSE 31)

can_switch_fork(slot, last, n) == slot >= last + lockout_slots(n)

-------------------------------------------------------------------------------
(* The heaviest chain *)

\* The block and its ancestors, as far as their nodes name parents.
Lineage(b) ==
    LET up[n \in 0 .. Cardinality(Blocks)] ==
            IF n = 0 THEN {b} ELSE up[n - 1] \cup UNION {parent_hash[c] : c \in up[n - 1]}
    IN  up[Cardinality(Blocks)]

\* Saturating additions along the chain: a block without a node weighs nothing.
chain_weight(b) == Saturated(SumFunctionOnSet(weight, Lineage(b)))

leaves == {b \in nodes : node_slot[b] >= root_slot /\ children[b] = {}}

\* The ancestry of the block ends; chain_weight recurses until it does.
HasForkRoot(b) == \A c \in Lineage(b) : \A p \in parent_hash[c] : c \notin Lineage(p)

\* The leaves that update_best_head may end on: the map is iterated in no fixed
\* order, so equal weight and slot leave the choice open.
Heaviest ==
    {b \in leaves : \A c \in leaves :
        \/ chain_weight(b) > chain_weight(c)
        \/ chain_weight(b) = chain_weight(c) /\ node_slot[b] >= node_slot[c]}

\* Mutant of Supermajority: a third of the stake is enough.
Supermajority_Third(b) == total_stake # 0 /\ Saturated(weight[b] * 3) > total_stake

\* What is_slot_confirmed asks of a block of the slot: more than two thirds of the
\* total stake voted for it.
Supermajority(b) ==
    total_stake # 0 /\ Saturated(weight[b] * 3) > Saturated(total_stake * 2)

-------------------------------------------------------------------------------
(* Operations *)

Init ==
    /\ stakes = Genesis
    /\ validator_states = DOMAIN Genesis
    /\ last_vote_slot = [v \in Validators |-> 0]
    /\ consecutive_votes = [v \in Validators |-> 0]
    /\ nodes = {}
    /\ node_slot = [b \in Blocks |-> 0]
    /\ parent_hash = [b \in Blocks |-> {}]
    /\ weight = [b \in Blocks |-> 0]
    /\ voters = [b \in Blocks |-> {}]
    /\ children = [b \in Blocks |-> {}]
    /\ slot_to_hash = [s \in Slots |-> {}]
    /\ root_slot = 0
    /\ advancing = FALSE
    /\ visiting = {}
    /\ best_head = {}
    /\ tallied = {}
    /\ found = [v \in Validators |-> {}]
    /\ writing = {}
    /\ counted = [b \in Blocks |-> {}]
    /\ lowered = {}
    /\ settled = TRUE
    /\ moves = 0
    /\ updates = 0

\* Registers the validator or changes its stake, also after it has voted.  Its
\* entry is free: a call that holds it makes the registration wait.
register_validator(v, stake) ==
    /\ v \notin InCall
    /\ updates < MaxUpdates
    /\ updates' = updates + 1
    /\ stakes' = [w \in DOMAIN stakes \cup {v} |-> IF w = v THEN stake ELSE stakes[w]]
    /\ validator_states' = validator_states \cup {v}
    /\ lowered' = IF stake < stake_of(v) /\ \E b \in Blocks : v \in voters[b]
                  THEN lowered \cup {v} ELSE lowered
    /\ UNCHANGED <<last_vote_slot, consecutive_votes, tree, root, best_head, calls, counted,
                   settled, moves>>

BuildsOnRoot(x) == x.parent_slot = {root_slot} /\ x.slot > root_slot

\* The lockout that the checks of process_vote see: a vote that builds on the
\* root has already reset it.
EffectiveVotes(v, x) == IF BuildsOnRoot(x) THEN 0 ELSE consecutive_votes[v]

IsForkSwitch(v, x) == x.parent_slot # {last_vote_slot[v]}

\* Mutant of Accepted: a vote that builds on the root skips the checks.
Accepted_RerootUnchecked(v, x) ==
    \/ BuildsOnRoot(x)
    \/ /\ x.slot > last_vote_slot[v]
       /\ IsForkSwitch(v, x) => can_switch_fork(x.slot, last_vote_slot[v], consecutive_votes[v])

Accepted(v, x) ==
    /\ x.slot > last_vote_slot[v]
    /\ IsForkSwitch(v, x) => can_switch_fork(x.slot, last_vote_slot[v], EffectiveVotes(v, x))

\* Neither the call of v nor too many others are in progress.
MayCall(v) == v \notin InCall /\ Cardinality(InCall) < MaxCalls

\* process_vote returns false, having created the state and reset the lockout.
RejectVote(v, x) ==
    /\ MayCall(v)
    /\ ~Accepted(v, x)
    /\ validator_states' = validator_states \cup {v}
    /\ consecutive_votes' = [consecutive_votes EXCEPT ![v] = EffectiveVotes(v, x)]
    /\ UNCHANGED <<stakes, last_vote_slot, tree, root, best_head, calls, history>>

\* process_vote up to the link from the parent.  The parent's hash is looked up
\* before the vote's own slot is mapped, for a new node, and again after it, for
\* the link.
TallyVote(v, x) ==
    LET b == x.block_hash
        votes == IF IsForkSwitch(v, x) THEN 0 ELSE EffectiveVotes(v, x)
        mapped == [slot_to_hash EXCEPT ![x.slot] = {b}]
        Parents(map) == UNION {map[s] : s \in x.parent_slot}
        new == v \notin voters[b]
    IN  /\ MayCall(v)
        /\ Accepted(v, x)
        /\ validator_states' = validator_states \cup {v}
        /\ last_vote_slot' = [last_vote_slot EXCEPT ![v] = x.slot]
        /\ consecutive_votes' = [consecutive_votes EXCEPT ![v] = votes + 1]
        /\ nodes' = nodes \cup {b}
        /\ node_slot' = IF b \in nodes THEN node_slot ELSE [node_slot EXCEPT ![b] = x.slot]
        /\ parent_hash' = IF b \in nodes THEN parent_hash
                          ELSE [parent_hash EXCEPT ![b] = Parents(slot_to_hash)]
        /\ weight' = IF new THEN [weight EXCEPT ![b] = Saturated(@ + stake_of(v))] ELSE weight
        /\ voters' = [voters EXCEPT ![b] = @ \cup {v}]
        /\ slot_to_hash' = mapped
        /\ children' = [p \in Blocks |->
               IF p \in Parents(mapped) \cap (nodes \cup {b}) THEN children[p] \cup {b}
               ELSE children[p]]
        /\ tallied' = tallied \cup {v}
        /\ counted' = IF new THEN [counted EXCEPT ![b] = @ \cup {<<v, x.slot>>}] ELSE counted
        /\ settled' = (InCall = {} /\ ~advancing)
        /\ UNCHANGED <<stakes, root, best_head, found, writing, lowered, moves, updates>>

\* update_best_head reads the tree.  An ancestry that runs in a circle overflows
\* the stack: then the call does not come back.
ScanLeaves(v) ==
    /\ v \in tallied
    /\ \A b \in leaves : HasForkRoot(b)
    /\ \/ \E b \in Heaviest : found' = [found EXCEPT ![v] = {b}]
       \/ leaves = {} /\ UNCHANGED found
    /\ tallied' = tallied \ {v}
    /\ writing' = writing \cup {v}
    /\ UNCHANGED <<votestate, tree, root, best_head, history>>

\* Mutant of WriteBestHead: a head once written stays.
WriteBestHead_FirstStays(v) ==
    /\ v \in writing
    /\ best_head' = IF best_head # {} THEN best_head ELSE found[v]
    /\ found' = [found EXCEPT ![v] = {}]
    /\ writing' = writing \ {v}
    /\ UNCHANGED <<votestate, tree, root, tallied, history>>

\* What it found is written, and process_vote returns true.
WriteBestHead(v) ==
    /\ v \in writing
    /\ best_head' = IF found[v] = {} THEN best_head ELSE found[v]
    /\ found' = [found EXCEPT ![v] = {}]
    /\ writing' = writing \ {v}
    /\ UNCHANGED <<votestate, tree, root, tallied, history>>

\* The caller may advance the root to any slot: advance_root itself does not ask
\* whether it is confirmed.
advance_root(r) ==
    /\ ~advancing
    /\ moves < MaxMoves
    /\ moves' = moves + 1
    /\ advancing' = TRUE
    /\ root_slot' = r
    /\ visiting' = Validators
    /\ settled' = FALSE
    /\ UNCHANGED <<votestate, tree, best_head, calls, counted, lowered, updates>>

\* advance_root comes to a validator's entry, if it has one by now, and settles
\* its lockout once the root has reached its last vote.
VisitState(v) ==
    /\ v \in visiting \ InCall
    /\ visiting' = visiting \ {v}
    /\ consecutive_votes' =
           IF v \in validator_states /\ last_vote_slot[v] <= root_slot
           THEN [consecutive_votes EXCEPT ![v] = 0] ELSE consecutive_votes
    /\ UNCHANGED <<stakes, validator_states, last_vote_slot, tree, root_slot, advancing,
                   best_head, calls, history>>

\* advance_root prunes what lies before the root and returns.
Prune ==
    LET kept == {b \in nodes : node_slot[b] >= root_slot}
    IN  /\ advancing /\ visiting = {}
        /\ advancing' = FALSE
        /\ nodes' = kept
        /\ node_slot' = [b \in Blocks |-> IF b \in kept THEN node_slot[b] ELSE 0]
        /\ parent_hash' = [b \in Blocks |-> IF b \in kept THEN parent_hash[b] ELSE {}]
        /\ weight' = [b \in Blocks |-> IF b \in kept THEN weight[b] ELSE 0]
        /\ voters' = [b \in Blocks |-> IF b \in kept THEN voters[b] ELSE {}]
        /\ children' = [b \in Blocks |-> IF b \in kept THEN children[b] ELSE {}]
        /\ slot_to_hash' = [s \in Slots |-> IF s >= root_slot THEN slot_to_hash[s] ELSE {}]
        /\ settled' = FALSE
        /\ UNCHANGED <<votestate, root_slot, visiting, best_head, calls, counted, lowered,
                       moves, updates>>

Next ==
    \/ \E v \in Validators : \E stake \in Stakes : register_validator(v, stake)
    \/ \E v \in Validators : \E x \in Votes : RejectVote(v, x) \/ TallyVote(v, x)
    \/ \E v \in Validators : ScanLeaves(v) \/ WriteBestHead(v)
    \/ \E r \in Roots : advance_root(r)
    \/ \E v \in Validators : VisitState(v)
    \/ Prune

Spec == Init /\ [][Next]_vars

-------------------------------------------------------------------------------
(* Properties *)

\* The state keeps its shape; a block without a node has no fields, so that a
\* vote for a pruned block starts from nothing, and a call is in one place.
TypeOK ==
    /\ DOMAIN stakes \subseteq validator_states /\ validator_states \subseteq Validators
    /\ \A v \in DOMAIN stakes : stakes[v] \in Nat
    /\ last_vote_slot \in [Validators -> Nat]
    /\ consecutive_votes \in [Validators -> Nat]
    /\ nodes \subseteq Blocks
    /\ weight \in [Blocks -> Nat]
    /\ voters \in [Blocks -> SUBSET Validators]
    /\ children \in [Blocks -> SUBSET Blocks]
    /\ \A b \in Blocks \ nodes : weight[b] = 0 /\ voters[b] = {} /\ children[b] = {}
    /\ counted \in [Blocks -> SUBSET (Validators \X Nat)]
    /\ tallied \cap writing = {}

\* process_vote's comment, "a validator can only vote once per slot": under the
\* slot that a vote names, a validator is counted for one block at most, whatever
\* votes arrive, in whatever order, and however the root moves and prunes.
OneVotePerSlot ==
    \A a, b \in Blocks : a # b => counted[a] \cap counted[b] = {}

\* Every vote counted for the block named the slot that its node has, and no
\* stake counted in its weight has shrunk since.
FairlyCounted(b) ==
    /\ \A vote \in counted[b] : vote[1] \in voters[b] => vote[2] = node_slot[b]
    /\ voters[b] \cap lowered = {}

\* is_slot_confirmed never speaks for two blocks of a slot at once, although stake
\* may be registered, raised and given by default while the votes come in: as
\* long as the votes for the two name that slot and no voter's stake shrinks.
ConfirmedUnique ==
    \A a, b \in nodes :
        (/\ node_slot[a] = node_slot[b]
         /\ FairlyCounted(a) /\ FairlyCounted(b)
         /\ Supermajority(a) /\ Supermajority(b)) => a = b

\* What the field's doc says, "the current best fork head": after overlapping
\* calls and root moves, one call of process_vote that overlaps nothing is enough
\* to make best_head the current best again.
BestHeadCurrent ==
    (InCall = {} /\ settled /\ leaves # {}) => best_head # {} /\ best_head \subseteq Heaviest

-------------------------------------------------------------------------------
(* Documented, but not what the code does *)

\* What is_slot_confirmed's doc says, "a strict 2/3 supermajority": two blocks of
\* a slot cannot both have one.
SupermajorityUnique ==
    \A a, b \in nodes :
        (node_slot[a] = node_slot[b] /\ Supermajority(a) /\ Supermajority(b)) => a = b

\* What process_vote's comment says of the node's slot: no validator is counted
\* for two blocks of one slot.
OneBlockPerSlot ==
    \A a, b \in nodes : (a # b /\ node_slot[a] = node_slot[b]) => voters[a] \cap voters[b] = {}

\* What best_head's doc says, without the proviso: whenever no call is in progress.
BestHeadAlwaysCurrent ==
    (InCall = {} /\ ~advancing /\ leaves # {}) => best_head \subseteq Heaviest

\* What chain_weight's doc says, "back to its fork root": every chain has one.
ChainsEnd == \A b \in leaves : HasForkRoot(b)

\* What the field's doc says, "once linked": a block listed as a child knows its
\* parent's hash.
LinkedBothWays == \A p \in nodes : \A c \in children[p] : c \in nodes => parent_hash[c] = {p}

\* What update_best_head's doc says of ties: the rule leaves one head.
HeadDetermined == Cardinality(Heaviest) <= 1

\* What reset_lockout's doc says: a lockout is reset by a vote that re-roots the
\* tower or by the root, so a vote that is refused leaves it alone.
RefusedVoteKeepsLockout ==
    [][\A v \in Validators :
          (consecutive_votes'[v] < consecutive_votes[v] /\ UNCHANGED root)
              => last_vote_slot'[v] > last_vote_slot[v]]_vars
===============================================================================
