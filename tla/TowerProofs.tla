------------------------------ MODULE TowerProofs ------------------------------
(***************************************************************************)
(* Of Tower, for any votes, any validators and stakes, any number of calls *)
(* that overlap each other and advance_root: the state keeps its shape, a  *)
(* validator is counted for one block at most under the slot its vote      *)
(* names, two fairly counted blocks of a slot are not both confirmed, and  *)
(* a call that overlaps nothing leaves best_head the current best.         *)
(*                                                                         *)
(* OneVotePerSlot is not inductive: a state in which a counted vote lies   *)
(* ahead of its validator's last_vote_slot would let the next vote be a    *)
(* second one in that slot.  The strengthening says that it never does,    *)
(* also of the votes that the root has left behind.  ConfirmedUnique needs *)
(* that a block's weight is backed by what its voters count for today,     *)
(* unless one of them has lost stake.                                      *)
(***************************************************************************)
EXTENDS Tower, DataFacts

(* Most leaves are first-order, so Zenon is asked first. *)
USE ZenonT(2), SMT, ZenonT(10)

\* Every counted vote is at or before the last vote of its validator.
Counted == \A b \in Blocks : \A vote \in counted[b] : vote[2] <= last_vote_slot[vote[1]]

\* A voter of a block has a counted vote for it.
Recorded == \A b \in Blocks : \A v \in voters[b] : \E s \in Nat : <<v, s>> \in counted[b]

\* What each validator counts for.
StakeMap == [v \in Validators |-> stake_of(v)]

\* The weight of a block is never more than what its voters count for today, unless
\* one of them has lost stake.  It may be less: a vote keeps the credit it was given.
Backed ==
    \A b \in Blocks :
        /\ voters[b] \subseteq validator_states
        /\ voters[b] \cap lowered = {} => weight[b] <= SumFunctionOnSet(StakeMap, voters[b])

IInv == TypeOK /\ Counted /\ Recorded /\ OneVotePerSlot /\ Backed

-------------------------------------------------------------------------------
(* Stakes *)

\* Saturation stays within the naturals and never adds.
LEMMA SaturatedFacts == ASSUME NEW n \in Nat PROVE Saturated(n) \in Nat /\ Saturated(n) <= n
  BY TowerAssumption DEF Saturated

\* What validators count for, and that a set of them is finite.
LEMMA StakeFacts ==
  ASSUME TypeOK, NEW T \in SUBSET Validators
  PROVE  /\ \A v \in Validators : /\ stake_of(v) \in Nat
                                  /\ StakeMap[v] = stake_of(v)
                                  /\ StakeMap[v] \in Nat /\ StakeMap[v] \in Int
         /\ IsFiniteSet(T)
         /\ SumFunctionOnSet(StakeMap, T) \in Nat
<1>1. \A v \in Validators : stake_of(v) \in Nat
  BY DEF TypeOK, stake_of, DEFAULT_STAKE
<1>2. \A v \in Validators : StakeMap[v] = stake_of(v) /\ StakeMap[v] \in Nat /\ StakeMap[v] \in Int
  BY <1>1 DEF StakeMap
<1>3. IsFiniteSet(T)
  BY TowerAssumption, FS_Subset
<1>4. SumFunctionOnSet(StakeMap, T) \in Nat
  BY <1>2, <1>3, SumNat
<1> QED
  BY <1>1, <1>2, <1>3, <1>4

-------------------------------------------------------------------------------
(* The steps *)

\* An empty tree has no votes.
LEMMA InitIInv == Init => IInv
<1> SUFFICES ASSUME Init PROVE IInv
  OBVIOUS
<1>1. TypeOK
  BY TowerAssumption DEF Init, TypeOK
<1>2. Counted /\ Recorded /\ OneVotePerSlot
  BY DEF Init, Counted, Recorded, OneVotePerSlot
<1>3. Backed
  BY SumEmpty DEF Init, Backed
<1> QED
  BY <1>1, <1>2, <1>3 DEF IInv

\* A step that leaves the votes and the stakes alone, whatever it does to the
\* lockouts, the root and the calls, preserves what is said of them.
LEMMA SameVotes ==
  ASSUME IInv, TypeOK', validator_states \subseteq validator_states',
         UNCHANGED <<stakes, weight, voters, counted, last_vote_slot, lowered>>
  PROVE  IInv'
<1>1. Counted' /\ Recorded' /\ OneVotePerSlot'
  BY DEF IInv, Counted, Recorded, OneVotePerSlot
<1>2. StakeMap' = StakeMap
  BY DEF StakeMap, stake_of
<1>3. Backed'
  BY <1>2 DEF IInv, Backed
<1> QED
  BY <1>1, <1>3 DEF IInv

\* A registration changes what one validator counts for.  If that shrinks, the
\* blocks that have counted it are no longer spoken of.
LEMMA RegisterStep ==
  ASSUME IInv, NEW v \in Validators, NEW stake \in Stakes, register_validator(v, stake)
  PROVE  IInv'
<1>0. stake \in Nat
  BY TowerAssumption
<1>1. /\ stakes' = [w \in DOMAIN stakes \cup {v} |-> IF w = v THEN stake ELSE stakes[w]]
      /\ validator_states' = validator_states \cup {v}
      /\ UNCHANGED <<weight, voters, children, nodes, counted, last_vote_slot,
                     consecutive_votes, tallied, writing>>
  BY DEF register_validator, tree, calls
<1>2. TypeOK'
  <2>1. DOMAIN stakes' = DOMAIN stakes \cup {v}
    BY <1>1
  <2>2. \A w \in DOMAIN stakes' : stakes'[w] \in Nat
    BY <1>0, <1>1, <2>1 DEF IInv, TypeOK
  <2> QED
    BY <1>1, <2>1, <2>2 DEF IInv, TypeOK
<1>3. Counted' /\ Recorded' /\ OneVotePerSlot'
  BY <1>1 DEF IInv, Counted, Recorded, OneVotePerSlot
<1>4. Backed'
  <2> SUFFICES ASSUME NEW b \in Blocks
               PROVE  /\ voters[b] \subseteq validator_states'
                      /\ voters[b] \cap lowered' = {} =>
                            weight[b] <= SumFunctionOnSet(StakeMap', voters[b])
    BY <1>1 DEF Backed
  <2>1. voters[b] \subseteq validator_states'
    BY <1>1 DEF IInv, Backed
  <2> SUFFICES ASSUME voters[b] \cap lowered' = {}
               PROVE  weight[b] <= SumFunctionOnSet(StakeMap', voters[b])
    BY <2>1
  <2>2. lowered \subseteq lowered'
    BY DEF register_validator
  <2>3. /\ voters[b] \in SUBSET Validators /\ weight[b] \in Nat
        /\ weight[b] <= SumFunctionOnSet(StakeMap, voters[b])
    BY <2>2 DEF IInv, TypeOK, Backed
  <2>4. \A w \in voters[b] : StakeMap[w] <= StakeMap'[w]
    <3> TAKE w \in voters[b]
    <3>1. w \in Validators /\ stake_of(w) \in Nat
      BY <2>3, StakeFacts DEF IInv
    <3>2. CASE w = v
      <4>1. ~(stake < stake_of(v))
        BY <3>2, <1>1 DEF register_validator
      <4>2. StakeMap'[v] = stake
        BY <1>1 DEF StakeMap, stake_of
      <4> QED
        BY <3>1, <3>2, <4>1, <4>2, <1>0 DEF StakeMap
    <3>3. CASE w # v
      <4>1. stake_of(w)' = stake_of(w)
        BY <3>3, <1>1 DEF stake_of
      <4> QED
        BY <3>1, <4>1 DEF StakeMap
    <3> QED
      BY <3>2, <3>3
  <2>5. /\ IsFiniteSet(voters[b])
        /\ \A w \in voters[b] : StakeMap[w] \in Int
        /\ SumFunctionOnSet(StakeMap, voters[b]) \in Nat
    BY <2>3, StakeFacts DEF IInv
  <2>6. \A w \in Validators : StakeMap'[w] \in Nat /\ StakeMap'[w] \in Int
    <3>1. \A w \in Validators : stake_of(w)' \in Nat
      BY <1>2 DEF TypeOK, stake_of, DEFAULT_STAKE
    <3> QED
      BY <3>1 DEF StakeMap
  <2>7. SumFunctionOnSet(StakeMap', voters[b]) \in Nat
    BY <2>3, <2>5, <2>6, SumNat
  <2>8. SumFunctionOnSet(StakeMap, voters[b]) <= SumFunctionOnSet(StakeMap', voters[b])
    BY <2>3, <2>4, <2>5, <2>6, SumMonotone
  <2> QED
    BY <2>3, <2>5, <2>7, <2>8
<1> QED
  BY <1>2, <1>3, <1>4 DEF IInv

\* A vote that passes the checks of process_vote is later than every counted
\* vote of its validator.
LEMMA TallyStep ==
  ASSUME IInv, NEW v \in Validators, NEW x \in Votes, TallyVote(v, x)
  PROVE  IInv'
<1> DEFINE b == x.block_hash
           votes == IF IsForkSwitch(v, x) THEN 0 ELSE EffectiveVotes(v, x)
<1>0. b \in Blocks /\ x.slot \in Nat
  BY TowerAssumption
<1> HIDE DEF b
<1>1. /\ x.slot > last_vote_slot[v]
      /\ last_vote_slot' = [last_vote_slot EXCEPT ![v] = x.slot]
      /\ voters' = [voters EXCEPT ![b] = @ \cup {v}]
      /\ nodes' = nodes \cup {b}
      /\ validator_states' = validator_states \cup {v}
      /\ counted' = IF v \notin voters[b]
                    THEN [counted EXCEPT ![b] = @ \cup {<<v, x.slot>>}] ELSE counted
      /\ weight' = IF v \notin voters[b]
                   THEN [weight EXCEPT ![b] = Saturated(@ + stake_of(v))] ELSE weight
      /\ UNCHANGED <<stakes, lowered>>
  BY DEF TallyVote, Accepted, b
<1>2. stake_of(v) \in Nat /\ weight[b] + stake_of(v) \in Nat
  <2>1. TypeOK /\ {} \in SUBSET Validators
    BY DEF IInv
  <2>2. stake_of(v) \in Nat
    BY <2>1, StakeFacts
  <2>3. weight[b] \in Nat
    BY <1>0 DEF IInv, TypeOK
  <2> QED
    BY <2>2, <2>3
<1>3. /\ Saturated(weight[b] + stake_of(v)) \in Nat
      /\ Saturated(weight[b] + stake_of(v)) <= weight[b] + stake_of(v)
  BY <1>2, SaturatedFacts
<1>4. TypeOK'
  <2>1. votes \in Nat
    BY DEF IInv, TypeOK, EffectiveVotes
  <2>2. consecutive_votes' = [consecutive_votes EXCEPT ![v] = votes + 1]
    BY DEF TallyVote
  <2>3. consecutive_votes' \in [Validators -> Nat]
    BY <2>1, <2>2 DEF IInv, TypeOK
  <2>4. weight' \in [Blocks -> Nat] /\ \A c \in Blocks \ nodes' : weight'[c] = 0
    BY <1>0, <1>1, <1>3 DEF IInv, TypeOK
  <2>5. \E P : children' = [p \in Blocks |->
            IF p \in P \cap (nodes \cup {b}) THEN children[p] \cup {b} ELSE children[p]]
    BY DEF TallyVote, b
  <2>6. /\ children' \in [Blocks -> SUBSET Blocks]
        /\ \A c \in Blocks \ nodes' : children'[c] = {}
    BY <2>5, <1>0, <1>1 DEF IInv, TypeOK
  <2>7. /\ voters' \in [Blocks -> SUBSET Validators]
        /\ \A c \in Blocks \ nodes' : voters'[c] = {}
    BY <1>0, <1>1 DEF IInv, TypeOK
  <2>8. last_vote_slot' \in [Validators -> Nat] /\ nodes' \subseteq Blocks
    BY <1>0, <1>1 DEF IInv, TypeOK
  <2>9. counted' \in [Blocks -> SUBSET (Validators \X Nat)]
    BY <1>0, <1>1 DEF IInv, TypeOK
  <2>10. /\ DOMAIN stakes' \subseteq validator_states' /\ validator_states' \subseteq Validators
         /\ \A w \in DOMAIN stakes' : stakes'[w] \in Nat
    BY <1>1 DEF IInv, TypeOK
  <2>11. tallied' \cap writing' = {}
    BY DEF IInv, TypeOK, TallyVote, MayCall, InCall
  <2> QED
    BY <2>3, <2>4, <2>6, <2>7, <2>8, <2>9, <2>10, <2>11 DEF TypeOK
<1>5. \A c \in Blocks : \A vote \in counted'[c] :
         \/ vote \in counted[c]
         \/ c = b /\ vote = <<v, x.slot>>
  BY <1>0, <1>1 DEF IInv, TypeOK
<1>6. \A c \in Blocks : \A vote \in counted[c] :
         /\ vote \in Validators \X Nat
         /\ vote[2] <= last_vote_slot[vote[1]]
         /\ vote # <<v, x.slot>>
  <2> TAKE c \in Blocks
  <2> TAKE vote \in counted[c]
  <2>1. vote \in Validators \X Nat /\ vote[2] <= last_vote_slot[vote[1]]
    BY DEF IInv, TypeOK, Counted
  <2>2. last_vote_slot[v] \in Nat
    BY DEF IInv, TypeOK
  <2> QED
    BY <2>1, <2>2, <1>0, <1>1
<1>7. Counted'
  <2> SUFFICES ASSUME NEW c \in Blocks, NEW vote \in counted'[c]
               PROVE  vote[2] <= last_vote_slot'[vote[1]]
    BY DEF Counted
  <2>1. CASE vote \in counted[c]
    <3>1. vote \in Validators \X Nat /\ vote[2] <= last_vote_slot[vote[1]]
      BY <2>1, <1>6
    <3>2. last_vote_slot \in [Validators -> Nat]
      BY DEF IInv, TypeOK
    <3>3. last_vote_slot[vote[1]] <= last_vote_slot'[vote[1]]
      BY <3>1, <3>2, <1>0, <1>1
    <3>4. vote[2] \in Nat /\ last_vote_slot[vote[1]] \in Nat /\ last_vote_slot'[vote[1]] \in Nat
      BY <3>1, <1>4 DEF IInv, TypeOK
    <3> QED
      BY <3>1, <3>3, <3>4
  <2>2. CASE vote = <<v, x.slot>>
    <3>1. last_vote_slot'[v] = x.slot
      BY <1>1 DEF IInv, TypeOK
    <3> QED
      BY <2>2, <3>1, <1>0
  <2> QED
    BY <2>1, <2>2, <1>5
<1>8. Recorded'
  <2> SUFFICES ASSUME NEW c \in Blocks, NEW w \in voters'[c]
               PROVE  \E s \in Nat : <<w, s>> \in counted'[c]
    BY DEF Recorded
  <2>1. counted[c] \subseteq counted'[c]
    BY <1>1 DEF IInv, TypeOK
  <2>2. CASE w \in voters[c]
    BY <2>1, <2>2 DEF IInv, Recorded
  <2>3. CASE w \notin voters[c]
    <3>1. c = b /\ w = v /\ v \notin voters[b]
      BY <2>3, <1>1 DEF IInv, TypeOK
    <3>2. <<v, x.slot>> \in counted'[b]
      BY <3>1, <1>0, <1>1 DEF IInv, TypeOK
    <3> QED
      BY <3>1, <3>2, <1>0
  <2> QED
    BY <2>2, <2>3
<1>9. OneVotePerSlot'
  <2> SUFFICES ASSUME NEW c \in Blocks, NEW d \in Blocks, c # d,
                      NEW vote \in counted'[c], vote \in counted'[d]
               PROVE  FALSE
    BY DEF OneVotePerSlot
  <2>1. CASE vote = <<v, x.slot>>
    BY <2>1, <1>5, <1>6
  <2>2. CASE vote # <<v, x.slot>>
    BY <2>2, <1>5 DEF IInv, OneVotePerSlot
  <2> QED
    BY <2>1, <2>2
<1>10. Backed'
  <2>1. StakeMap' = StakeMap
    BY <1>1 DEF StakeMap, stake_of
  <2> SUFFICES ASSUME NEW c \in Blocks
               PROVE  /\ voters'[c] \subseteq validator_states'
                      /\ voters'[c] \cap lowered = {} =>
                            weight'[c] <= SumFunctionOnSet(StakeMap, voters'[c])
    BY <1>1, <2>1 DEF Backed
  <2>2. /\ voters[c] \in SUBSET Validators /\ weight[c] \in Nat
        /\ voters[c] \subseteq validator_states
        /\ voters[c] \cap lowered = {} => weight[c] <= SumFunctionOnSet(StakeMap, voters[c])
    BY DEF IInv, TypeOK, Backed
  <2>3. CASE c # b \/ v \in voters[b]
    <3>1. voters'[c] = voters[c] /\ weight'[c] = weight[c]
      BY <2>3, <1>1 DEF IInv, TypeOK
    <3> QED
      BY <3>1, <2>2, <1>1
  <2>4. CASE c = b /\ v \notin voters[b]
    <3> DEFINE Sum(T) == SumFunctionOnSet(StakeMap, T)
    <3>1. voters'[c] = voters[c] \cup {v} /\ weight'[c] = Saturated(weight[c] + stake_of(v))
      BY <2>4, <1>1 DEF IInv, TypeOK
    <3>2. /\ IsFiniteSet(voters[c]) /\ Sum(voters[c]) \in Nat
          /\ StakeMap[v] = stake_of(v)
          /\ \A w \in voters[c] \cup {v} : StakeMap[w] \in Int
      BY <2>2, StakeFacts DEF IInv
    <3>3. Sum(voters[c] \cup {v}) = StakeMap[v] + Sum(voters[c])
      BY <2>4, <3>2, SumAdd
    <3>4. ASSUME voters'[c] \cap lowered = {} PROVE weight'[c] <= Sum(voters'[c])
      <4>1. weight[c] <= Sum(voters[c])
        BY <3>1, <3>4, <2>2
      <4>2. weight'[c] <= weight[c] + stake_of(v) /\ weight'[c] \in Nat
        BY <3>1, <1>3, <2>4
      <4> HIDE DEF Sum
      <4> QED
        BY <4>1, <4>2, <3>1, <3>2, <3>3, <2>2, <1>2
    <3> QED
      BY <3>1, <3>4, <2>2, <1>1
  <2> QED
    BY <2>3, <2>4
<1> QED
  BY <1>4, <1>7, <1>8, <1>9, <1>10 DEF IInv

\* Pruning takes blocks away, with their votes, and adds none.
LEMMA PruneStep ==
  ASSUME IInv, Prune
  PROVE  IInv'
<1> DEFINE kept == {b \in nodes : node_slot[b] >= root_slot}
<1>1. /\ nodes' = kept
      /\ voters' = [b \in Blocks |-> IF b \in kept THEN voters[b] ELSE {}]
      /\ weight' = [b \in Blocks |-> IF b \in kept THEN weight[b] ELSE 0]
      /\ children' = [b \in Blocks |-> IF b \in kept THEN children[b] ELSE {}]
      /\ UNCHANGED <<stakes, validator_states, last_vote_slot, consecutive_votes, counted,
                     lowered, tallied, writing>>
  BY DEF Prune, votestate, calls
<1>2. kept \subseteq nodes
  OBVIOUS
<1> HIDE DEF kept
<1>3. TypeOK'
  BY <1>1, <1>2 DEF IInv, TypeOK
<1>4. Counted' /\ Recorded' /\ OneVotePerSlot'
  BY <1>1 DEF IInv, Counted, Recorded, OneVotePerSlot
<1>5. Backed'
  <2>1. StakeMap' = StakeMap
    BY <1>1 DEF StakeMap, stake_of
  <2> SUFFICES ASSUME NEW b \in Blocks
               PROVE  /\ voters'[b] \subseteq validator_states
                      /\ voters'[b] \cap lowered = {} =>
                            weight'[b] <= SumFunctionOnSet(StakeMap, voters'[b])
    BY <1>1, <2>1 DEF Backed
  <2>2. CASE b \in kept
    BY <1>1, <2>2 DEF IInv, Backed
  <2>3. CASE b \notin kept
    <3>1. voters'[b] = {} /\ weight'[b] = 0
      BY <1>1, <2>3
    <3> QED
      BY <3>1, SumEmpty
  <2> QED
    BY <2>2, <2>3
<1> QED
  BY <1>3, <1>4, <1>5 DEF IInv

\* Every step of Tower preserves the invariant, one case per operation.
LEMMA NextIInv == IInv /\ [Next]_vars => IInv'
<1> SUFFICES ASSUME IInv, [Next]_vars PROVE IInv'
  OBVIOUS
<1>1. ASSUME NEW v \in Validators, NEW stake \in Stakes, register_validator(v, stake)
      PROVE  IInv'
  BY <1>1, RegisterStep
<1>2. ASSUME NEW v \in Validators, NEW x \in Votes, RejectVote(v, x) PROVE IInv'
  <2>1. EffectiveVotes(v, x) \in Nat
    BY DEF IInv, TypeOK, EffectiveVotes
  <2>2. TypeOK'
    BY <1>2, <2>1 DEF IInv, TypeOK, RejectVote, tree, calls, history
  <2> QED
    BY <1>2, <2>2, SameVotes DEF RejectVote, tree, history
<1>3. ASSUME NEW v \in Validators, NEW x \in Votes, TallyVote(v, x) PROVE IInv'
  BY <1>3, TallyStep
<1>4. ASSUME NEW v \in Validators, ScanLeaves(v) PROVE IInv'
  <2>1. TypeOK'
    BY <1>4 DEF IInv, TypeOK, ScanLeaves, tree, votestate, history
  <2> QED
    BY <1>4, <2>1, SameVotes DEF ScanLeaves, tree, votestate, history
<1>5. ASSUME NEW v \in Validators, WriteBestHead(v) PROVE IInv'
  <2>1. TypeOK'
    BY <1>5 DEF IInv, TypeOK, WriteBestHead, tree, votestate, history
  <2> QED
    BY <1>5, <2>1, SameVotes DEF WriteBestHead, tree, votestate, history
<1>6. ASSUME NEW r \in Roots, advance_root(r) PROVE IInv'
  <2>1. TypeOK'
    BY <1>6 DEF IInv, TypeOK, advance_root, tree, votestate, calls
  <2> QED
    BY <1>6, <2>1, SameVotes DEF advance_root, tree, votestate
<1>7. ASSUME NEW v \in Validators, VisitState(v) PROVE IInv'
  <2>1. consecutive_votes' \in [Validators -> Nat]
    BY <1>7 DEF VisitState, IInv, TypeOK
  <2>2. TypeOK'
    BY <1>7, <2>1 DEF IInv, TypeOK, VisitState, tree, calls, history
  <2> QED
    BY <1>7, <2>2, SameVotes DEF VisitState, tree, history
<1>8. ASSUME Prune PROVE IInv'
  BY <1>8, PruneStep
<1>9. CASE UNCHANGED vars
  <2>1. TypeOK'
    BY <1>9 DEF IInv, TypeOK, vars, tree, votestate, calls, history
  <2> QED
    BY <1>9, <2>1, SameVotes DEF vars, tree, votestate, history
<1> QED
  BY <1>1, <1>2, <1>3, <1>4, <1>5, <1>6, <1>7, <1>8, <1>9 DEF Next

\* The strengthened invariant holds in every reachable state of the tower.
THEOREM Invariance == Spec => []IInv
  BY InitIInv, NextIInv, PTL DEF Spec

-------------------------------------------------------------------------------
(* What follows of votes and confirmation *)

\* The tower's state keeps its shape: among the rest, a pruned block that is
\* voted for again starts without weight, voters or children.
THEOREM TypeCorrect == Spec => []TypeOK
<1>1. IInv => TypeOK
  BY DEF IInv
<1> QED
  BY <1>1, Invariance, PTL

\* process_vote never counts one validator for two blocks under one slot that
\* its votes name, with any number of calls overlapping, votes in any order,
\* whatever block, slot and parent they name, and the root moving.
THEOREM VotesOnce == Spec => []OneVotePerSlot
<1>1. IInv => OneVotePerSlot
  BY DEF IInv
<1> QED
  BY <1>1, Invariance, PTL

\* Two disjoint sets of voters that have lost no stake cannot both have two thirds
\* of the total.
LEMMA TwoSupermajorities ==
  ASSUME IInv, NEW a \in nodes, NEW b \in nodes, voters[a] \cap voters[b] = {},
         voters[a] \cap lowered = {}, voters[b] \cap lowered = {},
         Supermajority(a), Supermajority(b)
  PROVE  FALSE
<1> DEFINE Sum(T) == SumFunctionOnSet(StakeMap, T)
<1>1. /\ voters[a] \in SUBSET Validators /\ voters[b] \in SUBSET Validators
      /\ voters[a] \cup voters[b] \in SUBSET validator_states
      /\ validator_states \in SUBSET Validators
      /\ DOMAIN stakes \cup validator_states = validator_states
      /\ weight[a] \in Nat /\ weight[b] \in Nat
      /\ weight[a] <= Sum(voters[a]) /\ weight[b] <= Sum(voters[b])
  BY DEF IInv, TypeOK, Backed
<1>2. total_stake = Saturated(Sum(validator_states))
  BY <1>1 DEF total_stake, StakeMap
<1>3. /\ IsFiniteSet(voters[a]) /\ IsFiniteSet(voters[b]) /\ IsFiniteSet(validator_states)
      /\ Sum(voters[a]) \in Nat /\ Sum(voters[b]) \in Nat /\ Sum(validator_states) \in Nat
      /\ \A v \in Validators : StakeMap[v] \in Nat /\ StakeMap[v] \in Int
  BY <1>1, StakeFacts DEF IInv
<1>4. \A v \in voters[a] \cup voters[b] : StakeMap[v] \in Int
  BY <1>1, <1>3
<1>5. Sum(voters[a] \cup voters[b]) = Sum(voters[a]) + Sum(voters[b])
  BY <1>3, <1>4, SumDisjoint
<1>6. \A v \in validator_states : StakeMap[v] \in Nat
  BY <1>1, <1>3
<1>7. Sum(voters[a] \cup voters[b]) <= Sum(validator_states)
  BY <1>1, <1>3, <1>6, SumSubset
<1> HIDE DEF Sum
<1>8. weight[a] + weight[b] <= Sum(validator_states)
  BY <1>1, <1>3, <1>5, <1>7
<1>9. Word \in Nat \ {0}
  BY TowerAssumption
<1>10. PICK w \in Nat : w = Sum(validator_states)
  BY <1>3
<1>11. /\ Saturated(weight[a] * 3) > Saturated(Saturated(w) * 2)
       /\ Saturated(weight[b] * 3) > Saturated(Saturated(w) * 2)
  BY <1>2, <1>10 DEF Supermajority
<1>12. Saturated(w) = w /\ Saturated(w * 2) = w * 2
  BY <1>1, <1>9, <1>11 DEF Saturated
<1>13. weight[a] * 3 > w * 2 /\ weight[b] * 3 > w * 2
  BY <1>1, <1>9, <1>11, <1>12 DEF Saturated
<1> QED
  BY <1>1, <1>8, <1>10, <1>13

\* is_slot_confirmed never holds of two fairly counted blocks of a slot, whatever
\* the stakes, near the top of u64 too, and although validators register and
\* raise their stakes while votes come in.
THEOREM ConfirmedOnce == Spec => []ConfirmedUnique
<1>1. IInv => ConfirmedUnique
  <2> SUFFICES ASSUME IInv, NEW a \in nodes, NEW b \in nodes, node_slot[a] = node_slot[b],
                      FairlyCounted(a), FairlyCounted(b), Supermajority(a), Supermajority(b),
                      a # b
               PROVE  FALSE
    BY DEF ConfirmedUnique
  <2>1. a \in Blocks /\ b \in Blocks
    BY DEF IInv, TypeOK
  <2>2. ASSUME NEW v \in voters[a], v \in voters[b] PROVE FALSE
    <3>1. PICK s \in Nat : <<v, s>> \in counted[a]
      BY <2>1, <2>2 DEF IInv, Recorded
    <3>2. PICK t \in Nat : <<v, t>> \in counted[b]
      BY <2>1, <2>2 DEF IInv, Recorded
    <3>3. s = node_slot[a] /\ t = node_slot[b]
      BY <3>1, <3>2, <2>2 DEF FairlyCounted
    <3> QED
      BY <3>1, <3>2, <3>3, <2>1 DEF IInv, OneVotePerSlot
  <2>3. voters[a] \cap voters[b] = {}
    BY <2>2
  <2> QED
    BY <2>3, TwoSupermajorities DEF FairlyCounted
<1> QED
  BY <1>1, Invariance, PTL

-------------------------------------------------------------------------------
(* The best head *)

\* As long as the last tally is settled there is its call at most, no advance_root,
\* and what the call has found is the head of the tree as it is.
HeadInv ==
    /\ tallied \cap writing = {}
    /\ ~advancing => visiting = {}
    /\ settled => /\ ~advancing
                  /\ \A v, w \in InCall : v = w
                  /\ \A v \in writing :
                        leaves # {} => found[v] # {} /\ found[v] \subseteq Heaviest
    /\ found \in [Validators -> SUBSET Blocks]
    /\ BestHeadCurrent

\* The leaves and the heaviest of them depend on the tree and the root alone.
LEMMA SameHeaviest ==
  ASSUME UNCHANGED <<tree, root_slot>>
  PROVE  Heaviest' = Heaviest /\ leaves' = leaves
<1>1. leaves' = leaves
  BY DEF leaves, tree
<1>2. \A b : chain_weight(b)' = chain_weight(b)
  BY DEF chain_weight, Lineage, tree
<1>3. UNCHANGED node_slot
  BY DEF tree
<1> QED
  BY <1>1, <1>2, <1>3 DEF Heaviest

\* A step that leaves the tree, the calls and the root alone leaves the head.
LEMMA SameHead ==
  ASSUME HeadInv, UNCHANGED <<tree, root_slot, advancing, visiting, best_head, tallied, found,
                              writing, settled>>
  PROVE  HeadInv'
<1>1. Heaviest' = Heaviest /\ leaves' = leaves
  BY SameHeaviest
<1> QED
  BY <1>1 DEF HeadInv, BestHeadCurrent, InCall

\* A lone call of process_vote scans the tree that its own tally left, and writes
\* what it found before anything changes it.
LEMMA HeadStep == TypeOK /\ HeadInv /\ [Next]_vars => HeadInv'
<1> SUFFICES ASSUME TypeOK, HeadInv, [Next]_vars PROVE HeadInv'
  OBVIOUS
<1>1. ASSUME NEW v \in Validators, NEW stake \in Stakes, register_validator(v, stake)
      PROVE  HeadInv'
  BY <1>1, SameHead DEF register_validator, root, calls
<1>2. ASSUME NEW v \in Validators, NEW x \in Votes, RejectVote(v, x) PROVE HeadInv'
  BY <1>2, SameHead DEF RejectVote, root, calls, history
<1>3. ASSUME NEW v \in Validators, NEW x \in Votes, TallyVote(v, x) PROVE HeadInv'
  <2>1. /\ v \notin tallied \cup writing
        /\ tallied' = tallied \cup {v}
        /\ settled' = (InCall = {} /\ ~advancing)
        /\ UNCHANGED <<root_slot, advancing, visiting, best_head, found, writing>>
    BY <1>3 DEF TallyVote, MayCall, InCall, root
  <2>2. ASSUME settled' PROVE InCall' = {v} /\ writing' = {} /\ ~advancing'
    BY <2>1, <2>2 DEF InCall
  <2>3. InCall' # {}
    BY <2>1 DEF InCall
  <2> QED
    BY <2>1, <2>2, <2>3 DEF HeadInv, BestHeadCurrent
<1>4. ASSUME NEW v \in Validators, ScanLeaves(v) PROVE HeadInv'
  <2>1. /\ v \in tallied
        /\ tallied' = tallied \ {v} /\ writing' = writing \cup {v}
        /\ UNCHANGED <<root_slot, advancing, visiting, best_head, settled, tree>>
    BY <1>4 DEF ScanLeaves, root, history
  <2>2. Heaviest' = Heaviest /\ leaves' = leaves
    BY <2>1, SameHeaviest
  <2>3. InCall' = InCall /\ v \in InCall
    BY <2>1 DEF InCall
  <2>4. /\ found' \in [Validators -> SUBSET Blocks]
        /\ leaves # {} => found'[v] # {} /\ found'[v] \subseteq Heaviest
    <3>1. CASE leaves = {} /\ UNCHANGED found
      BY <3>1 DEF HeadInv
    <3>2. ASSUME NEW b \in Heaviest, found' = [found EXCEPT ![v] = {b}]
          PROVE  /\ found' \in [Validators -> SUBSET Blocks]
                 /\ found'[v] # {} /\ found'[v] \subseteq Heaviest
      <4>1. b \in Blocks
        BY <3>2 DEF Heaviest, leaves, TypeOK
      <4> QED
        BY <3>2, <4>1 DEF HeadInv
    <3> QED
      BY <3>1, <3>2, <1>4 DEF ScanLeaves
  <2>5. ASSUME settled' PROVE writing' = {v}
    <3>1. \A w \in InCall : w = v
      BY <2>1, <2>3, <2>5 DEF HeadInv
    <3> QED
      BY <2>1, <2>3, <3>1 DEF InCall
  <2>6. tallied' \cap writing' = {}
    BY <2>1 DEF HeadInv
  <2>7. InCall' # {}
    BY <2>3
  <2> QED
    BY <2>1, <2>2, <2>3, <2>4, <2>5, <2>6, <2>7 DEF HeadInv, BestHeadCurrent
<1>5. ASSUME NEW v \in Validators, WriteBestHead(v) PROVE HeadInv'
  <2>1. /\ v \in writing
        /\ best_head' = IF found[v] = {} THEN best_head ELSE found[v]
        /\ found' = [found EXCEPT ![v] = {}]
        /\ writing' = writing \ {v}
        /\ UNCHANGED <<root_slot, advancing, visiting, settled, tree, tallied>>
    BY <1>5 DEF WriteBestHead, root, history
  <2>2. Heaviest' = Heaviest /\ leaves' = leaves
    BY <2>1, SameHeaviest
  <2>3. found' \in [Validators -> SUBSET Blocks]
    BY <2>1 DEF HeadInv
  <2>4. ASSUME settled' PROVE InCall' = {}
    <3>1. \A w \in InCall : w = v
      BY <2>1, <2>4 DEF HeadInv, InCall
    <3> QED
      BY <2>1, <3>1 DEF InCall, HeadInv
  <2>5. BestHeadCurrent'
    <3> SUFFICES ASSUME settled', leaves # {} PROVE best_head' # {} /\ best_head' \subseteq Heaviest
      BY <2>2 DEF BestHeadCurrent
    <3>1. found[v] # {} /\ found[v] \subseteq Heaviest
      BY <2>1 DEF HeadInv
    <3> QED
      BY <2>1, <3>1
  <2> QED
    BY <2>1, <2>2, <2>3, <2>4, <2>5 DEF HeadInv, InCall
<1>6. ASSUME NEW r \in Roots, advance_root(r) PROVE HeadInv'
  BY <1>6 DEF advance_root, calls, HeadInv, BestHeadCurrent
<1>7. ASSUME NEW v \in Validators, VisitState(v) PROVE HeadInv'
  <2>1. /\ v \in visiting
        /\ UNCHANGED <<advancing, tallied, writing, found, settled>>
    BY <1>7 DEF VisitState, calls, history
  <2>2. advancing /\ ~settled
    BY <2>1 DEF HeadInv
  <2> QED
    BY <2>1, <2>2 DEF HeadInv, BestHeadCurrent
<1>8. ASSUME Prune PROVE HeadInv'
  BY <1>8 DEF Prune, calls, HeadInv, BestHeadCurrent
<1>9. CASE UNCHANGED vars
  BY <1>9, SameHead DEF vars, root, calls, history
<1> QED
  BY <1>1, <1>2, <1>3, <1>4, <1>5, <1>6, <1>7, <1>8, <1>9 DEF Next

\* Whatever has gone before, overlapping calls and root moves included, a call of
\* process_vote that overlaps nothing leaves best_head a heaviest leaf.
THEOREM HeadCurrent == Spec => []BestHeadCurrent
<1>1. Init => HeadInv
  BY DEF Init, HeadInv, BestHeadCurrent, InCall, leaves
<1>2. HeadInv => BestHeadCurrent
  BY DEF HeadInv
<1> QED
  BY <1>1, <1>2, HeadStep, TypeCorrect, PTL DEF Spec
===============================================================================
