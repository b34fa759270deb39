-------------------------------- MODULE MCNetwork --------------------------------
(* Five validators of which three run, in a line for gossip and for Turbine. *)
EXTENDS Turbine

\* 2 and 5 also have a peer that is down.
MCBootstrap == 1 :> {2} @@ 2 :> {1, 3, 5} @@ 3 :> {} @@ 4 :> {} @@ 5 :> {2, 3}

MCKind == 1 :> "vote" @@ 2 :> "vote" @@ 3 :> "block"

\* c is a second block of the slot of a, from a node that is leader in its own schedule;
\* one shred of d and every shred of e is too large for a datagram.
MCBlock ==
    LET block(s, n, o) == [slot |-> s, leader |-> n, oversize |-> o]
    IN  "a" :> block(1, 1, {}) @@ "b" :> block(2, 5, {}) @@ "c" :> block(1, 5, {})
            @@ "d" :> block(1, 1, {2}) @@ "e" :> block(1, 1, Indexes)

\* live is what Network::start makes of the command line: everyone alone in the tree, and
\* contacts with the gossip port.  In the others the tree is that of all validators, with
\* 1 the root, 2 its first child and 5 a child of 2, and contacts carry TPU addresses: along
\* the line, or of 2 only.
MCDeployment ==
    LET alone  == [n \in Nodes |-> [build_tree(<<1>>, 1).nodes EXCEPT ![1].validator = n]]
        all    == [n \in Nodes |-> build_tree(<<9, 8, 7, 6, 5>>, 4).nodes]
        none   == [n \in Nodes |-> {}]
        inline == 1 :> {2} @@ 2 :> {1, 5} @@ 3 :> {} @@ 4 :> {} @@ 5 :> {}
        facing == 1 :> {2} @@ 2 :> {} @@ 3 :> {} @@ 4 :> {} @@ 5 :> {2}
    IN  [live     |-> [tree |-> alone, tpu |-> none, signed |-> TRUE],
         seeded   |-> [tree |-> all, tpu |-> inline, signed |-> TRUE],
         facing   |-> [tree |-> all, tpu |-> facing, signed |-> TRUE],
         unsigned |-> [tree |-> all, tpu |-> inline, signed |-> FALSE]]

Quiet == [pushes |-> 0, pings |-> 0, prunes |-> 0, pulls |-> 0, duplicates |-> 0,
          losses |-> 0, damages |-> 0, ticks |-> 0]

Scenario(max, held, spend, deployment, blocks) ==
    [max_entries |-> max, held |-> held, budget |-> [k \in DOMAIN Quiet |-> IF k \in DOMAIN spend THEN spend[k] ELSE 0],
     deployment |-> deployment, blocks |-> blocks]

\* One scenario per initial state.
MCScenarios == {
    Scenario(1, <<>>, [pushes |-> 2, losses |-> 1], "live", {}),
    Scenario(2, <<{1}, {2}>>, [pushes |-> 1, pulls |-> 1], "live", {}),
    Scenario(3, <<>>, [pushes |-> 2, duplicates |-> 1], "live", {}),
    Scenario(3, <<>>, [pushes |-> 1, prunes |-> 1, losses |-> 1], "live", {}),
    Scenario(3, <<>>, [pushes |-> 1, pulls |-> 1], "live", {}),
    Scenario(3, <<>>, [pings |-> 2, losses |-> 1], "live", {}),
    Scenario(3, <<>>, [pings |-> 1, pulls |-> 1], "live", {}),
    Scenario(3, <<>>, [ticks |-> 1], "live", {"a", "b"}),
    Scenario(3, <<>>, [damages |-> 1, duplicates |-> 1], "seeded", {"a"}),
    Scenario(3, <<>>, [losses |-> 1, duplicates |-> 1], "seeded", {"a"}),
    Scenario(3, <<>>, [losses |-> 1, ticks |-> 2], "seeded", {"a"}),
    Scenario(3, <<>>, [losses |-> 1, ticks |-> 2], "facing", {"b"}),
    Scenario(3, <<>>, [pulls |-> 1], "facing", {"a"}),
    Scenario(3, <<>>, [duplicates |-> 1], "seeded", {"d"}),
    Scenario(3, <<>>, [duplicates |-> 1], "seeded", {"e"}),
    Scenario(3, <<>>, [losses |-> 1], "facing", {"a", "c"}),
    Scenario(3, <<>>, [damages |-> 1], "unsigned", {"a"})}
===============================================================================
