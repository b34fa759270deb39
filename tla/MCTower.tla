-------------------------------- MODULE MCTower --------------------------------
(* Small sets of votes for Tower. *)
EXTENDS Tower, TLC

CONSTANTS b1, b2, b3, v1, v2

Ballot(slot, block, parent) == [slot |-> slot, block_hash |-> block, parent_slot |-> parent]

\* A fork in slot 1, extended on one side, each block with the slot it is in.
ForkVotes == {Ballot(1, b1, {0}), Ballot(1, b2, {0}), Ballot(2, b3, {1})}

\* A vote that names another slot than the block's node has.
MCVotes == ForkVotes \cup {Ballot(2, b2, {1})}

\* Votes that come back to a block after the root has passed it.
ReturningVotes == {Ballot(1, b1, {0}), Ballot(2, b1, {1}), Ballot(3, b1, {2}), Ballot(4, b2, {3})}

\* The validator v2 is not registered: it has the default stake when it votes.
MCGenesis == v1 :> 2
===============================================================================
