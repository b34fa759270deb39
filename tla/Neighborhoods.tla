------------------------------ MODULE Neighborhoods ------------------------------
(***************************************************************************)
(* The Turbine tree: Neighborhood::build_tree, path_to and neighbors of    *)
(* turbine/src/neighborhoods.rs.                                           *)
(*                                                                         *)
(* A validator is its place in the argument, from 1; places in the list of *)
(* nodes count from 1 as well.  One round of the loop takes one entry off  *)
(* the queue, an entry being a parent and the validators left for its      *)
(* subtree.  The parent of an entry is written as the place of a validator *)
(* in the sorted list and read as the place of a node.                     *)
(***************************************************************************)
EXTENDS Integers, SequencesExt

FAN_OUT == 3

\* Places by stake, highest first; sort_by_key is stable.
ByStake(stakes) ==
    SortSeq([i \in DOMAIN stakes |-> i],
            LAMBDA i, j : stakes[i] > stakes[j] \/ (stakes[i] = stakes[j] /\ i < j))

Take(s, k) == SubSeq(s, 1, IF Len(s) < k THEN Len(s) ELSE k)

Skip(s, k) == SubSeq(s, k + 1, Len(s))

\* Mutant of Shares: rounded down, so that the end of the list is cut off.
Shares_Floor(children, rest) ==
    LET per_child == Len(rest) \div Len(children)
        filled    == SelectSeq([i \in 1..Len(children) |-> i], LAMBDA i : (i - 1) * per_child < Len(rest))
    IN  [i \in 1..Len(filled) |->
            [parent |-> children[i], remaining |-> Take(Skip(rest, (i - 1) * per_child), per_child)]]

\* rest in runs of ceil(len / parts), one per child while there are any.
Shares(children, rest) ==
    LET per_child == (Len(rest) + Len(children) - 1) \div Len(children)
        filled    == SelectSeq([i \in 1..Len(children) |-> i], LAMBDA i : (i - 1) * per_child < Len(rest))
    IN  [i \in 1..Len(filled) |->
            [parent |-> children[i], remaining |-> Take(Skip(rest, (i - 1) * per_child), per_child)]]

Node(v, depth, parent) == [validator |-> v, depth |-> depth, parent |-> parent, children |-> <<>>]

\* Mutant of AddChildren: children one level too low.
AddChildren_Grandchildren(nodes, parent, vs) ==
    [i \in DOMAIN nodes |->
        IF i = parent THEN [nodes[i] EXCEPT !.children = [c \in 1..Len(vs) |-> Len(nodes) + c]]
                      ELSE nodes[i]]
        \o [c \in 1..Len(vs) |-> Node(vs[c], nodes[parent].depth, parent)]

AddChildren(nodes, parent, vs) ==
    [i \in DOMAIN nodes |->
        IF i = parent THEN [nodes[i] EXCEPT !.children = [c \in 1..Len(vs) |-> Len(nodes) + c]]
                      ELSE nodes[i]]
        \o [c \in 1..Len(vs) |-> Node(vs[c], nodes[parent].depth + 1, parent)]

\* One round of the loop over the queue; an index out of bounds panics.
BuildRound(tree, order, max_depth) ==
    LET entry    == Head(tree.queue)
        rest     == Tail(tree.queue)
        children == Take(entry.remaining, FAN_OUT)
        left     == Skip(entry.remaining, FAN_OUT)
    IN  IF entry.remaining = <<>>
        THEN [tree EXCEPT !.queue = rest]
        ELSE IF entry.parent > Len(tree.nodes)
        THEN [tree EXCEPT !.panics = TRUE, !.queue = <<>>]
        ELSE IF tree.nodes[entry.parent].depth >= max_depth
        THEN [tree EXCEPT !.queue = rest]
        ELSE [tree EXCEPT !.nodes = AddChildren(@, entry.parent, [c \in 1..Len(children) |-> order[children[c]]]),
                          !.queue = rest \o (IF left = <<>> THEN <<>> ELSE Shares(children, left))]

\* A round uses up a validator of the queue or an entry: as many as there are
\* validators are enough.
build_tree(stakes, max_depth) ==
    LET total == Len(stakes)
        order == ByStake(stakes)
        start == [nodes  |-> <<Node(order[1], 0, 0)>>,
                  queue  |-> <<[parent |-> 1, remaining |-> [i \in 1..(total - 1) |-> i + 1]]>>,
                  panics |-> FALSE]
    IN  IF total = 0
        THEN [nodes |-> <<>>, queue |-> <<>>, panics |-> FALSE]
        ELSE FoldLeft(LAMBDA tree, i : IF tree.queue = <<>> THEN tree ELSE BuildRound(tree, order, max_depth),
                      start, [i \in 1..total |-> i])

\* The validators of the nodes from the root to a node; at most as many steps as
\* there are nodes.
path_to(nodes, v) ==
    LET up(path) == LET p == nodes[Head(path)].parent IN IF p = 0 THEN path ELSE <<p>> \o path
        place    == CHOOSE i \in DOMAIN nodes : nodes[i].validator = v
        path     == FoldLeft(LAMBDA s, i : up(s), <<place>>, nodes)
    IN  [i \in DOMAIN path |-> nodes[path[i]].validator]

\* Parent and children of a validator; none if it is not in the tree.
neighbors(nodes, v) ==
    {nodes[j].validator : j \in {j \in DOMAIN nodes : \E i \in DOMAIN nodes :
        nodes[i].validator = v /\ (j = nodes[i].parent \/ Contains(nodes[i].children, j))}}

-------------------------------------------------------------------------------
(* Properties of the tree of a list of stakes *)

\* Every validator of the list is in the tree exactly once.
SpansAll(stakes, tree) ==
    /\ ~tree.panics
    /\ Len(tree.nodes) = Len(stakes)
    /\ {tree.nodes[i].validator : i \in DOMAIN tree.nodes} = DOMAIN stakes

\* Per depth from 1, the most validators for which the tree holds all of them, and the
\* most for which no index is out of bounds; at depth 1 none ever is.
MostSpanned == <<4, 13, 17, 25, 40>>
MostBuilt == 2 :> 17 @@ 3 :> 25 @@ 4 :> 40 @@ 5 :> 40

\* The tree holds everybody up to a number of validators that depends on the depth, is
\* short of some above it, and panics above another one.  Nobody is in it twice, and
\* those left out are left out for the depth.
KnownSizes(stakes, tree, max_depth) ==
    /\ SpansAll(stakes, tree) <=> Len(stakes) <= MostSpanned[max_depth]
    /\ tree.panics <=> max_depth \in DOMAIN MostBuilt /\ Len(stakes) > MostBuilt[max_depth]
    /\ \A i, j \in DOMAIN tree.nodes : tree.nodes[i].validator = tree.nodes[j].validator => i = j
    /\ ~tree.panics /\ Len(tree.nodes) < Len(stakes)
          => \E i \in DOMAIN tree.nodes : tree.nodes[i].depth = max_depth

\* The links agree in both directions, a child is one level below its parent, and the
\* path to every validator starts at the one with the highest stake.
WellLinked(stakes, tree, max_depth) ==
    \A i \in DOMAIN tree.nodes :
        LET node == tree.nodes[i]
            path == path_to(tree.nodes, node.validator)
        IN  /\ node.depth <= max_depth
            /\ Len(node.children) <= FAN_OUT
            /\ Len(path) = node.depth + 1
            /\ path[1] = ByStake(stakes)[1]
            /\ \A j \in DOMAIN tree.nodes :
                  Contains(node.children, j) <=> tree.nodes[j].parent = i

-------------------------------------------------------------------------------
(* Documented, but not what the code does *)

\* What the comment on build_tree says: "Higher-stake validators are placed closer to
\* the root."
StakeOrdered(stakes, tree) ==
    \A i, j \in DOMAIN tree.nodes :
        stakes[tree.nodes[i].validator] > stakes[tree.nodes[j].validator]
            => tree.nodes[i].depth <= tree.nodes[j].depth

\* The number of nodes of a full tree.
Capacity(max_depth) == FoldLeft(LAMBDA sum, d : sum + FAN_OUT^d, 1, [d \in 1..max_depth |-> d])

\* What the comment on build_tree says: "Validators are arranged in a balanced tree".  A
\* balanced tree of this depth has room for them.
BalancedTree(stakes, tree, max_depth) ==
    Len(stakes) <= Capacity(max_depth) => SpansAll(stakes, tree)
===============================================================================
