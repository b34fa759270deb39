--------------------------------- MODULE Gossip ---------------------------------
(***************************************************************************)
(* Gossip between validators: GossipProtocol (gossip/src/protocol.rs) on   *)
(* the CRDS table (crds.rs), and the gossip tasks of validator/network.rs  *)
(* on the UDP transport of crates/net.                                     *)
(*                                                                         *)
(* A handler queues its answers without a destination; the send task later *)
(* fans each queued message out to every contact with a usable address.    *)
(* Datagrams are lost, duplicated and reordered; those that are damaged    *)
(* fail decode or verify_signature and count as lost.                      *)
(*                                                                         *)
(* Time is abstracted to order: a table is a sequence of sets of ids, the  *)
(* ones inserted in one millisecond, oldest first.  The timestamp of a     *)
(* pull filter is then any cut of the responder's sequence.  Messages of   *)
(* one content queued together are one; statistics are left out.           *)
(***************************************************************************)
EXTENDS Naturals, SequencesExt

CONSTANTS
    Nodes,
    Running,       \* the nodes that are up; the others never answer
    Bootstrap,     \* per node, the --peer contacts it starts with
    Data,          \* ids of pushed data
    Kind,          \* the kind of each id
    Client,        \* signs the pushes that enter from outside
    MAX_DATAGRAM,  \* the pull response items that fit into a datagram
    Scenarios      \* what to start with: max_entries, the entries held everywhere
                   \* since earlier, and the budget that bounds what comes from
                   \* outside and what the network does

ASSUME GossipAssumption ==
    /\ Running \subseteq Nodes
    /\ Bootstrap \in [Nodes -> SUBSET Nodes]
    /\ Client \notin Nodes
    /\ \A sc \in Scenarios : sc.max_entries \in Nat
    /\ MAX_DATAGRAM \in Nat

VARIABLES
    scenario,        \* the one that was chosen
    entries,         \* per node, the CRDS table
    contacts,        \* per node, the peers with a ContactInfo
    unspecified,     \* per node, those of them whose address is 0.0.0.0
    pruned,          \* per node, <<peer, kind>>
    pending_pings,   \* per node, [nonce, peer]
    queue,           \* per node, the messages in the msg_sender channel
    wire,            \* the datagrams under way, [to, msg]
    budget,          \* how often it may still happen, per kind of event
    accepted,        \* history: per node, the ids it ever inserted
    lost             \* history: a datagram was lost

table == <<scenario, entries, accepted>>
peers == <<contacts, unspecified, pruned>>
gossipvars == <<table, peers, pending_pings, queue, wire, budget, lost>>

Kinds == {Kind[d] : d \in Data}

max_entries == scenario.max_entries

Held(crds) == UNION ToSet(crds)

Contacts(n) == contacts[n]

\* The contacts that the send task reaches.
Dialable(n) == contacts[n] \ (unspecified[n] \cup {n})

-------------------------------------------------------------------------------
(* Messages.  Only the fields that a handler reads are kept. *)

Push(n, d) == [type |-> "Push", from |-> n, id |-> d]
PullRequest(n, kinds) == [type |-> "PullRequest", from |-> n, filters |-> kinds]
PullResponse(n, ids) == [type |-> "PullResponse", from |-> n, items |-> ids]
Prune(n, kinds) == [type |-> "Prune", from |-> n, kinds |-> kinds]
Ping(n, i) == [type |-> "Ping", from |-> n, nonce |-> i]
Pong(n, i) == [type |-> "Pong", from |-> n, nonce |-> i]

Message ==
         {Push(n, d) : n \in Nodes \cup {Client}, d \in Data}
    \cup {PullRequest(n, k) : n \in Nodes, k \in SUBSET Kinds}
    \cup {PullResponse(n, s) : n \in Nodes, s \in SUBSET Data}
    \cup {Prune(n, k) : n \in Nodes, k \in SUBSET Kinds}
    \cup [type : {"Ping", "Pong"}, from : Nodes, nonce : Nat]

\* encode refuses what does not fit into a datagram.
Encodes(m) == m.type = "PullResponse" => Cardinality(m.items) <= MAX_DATAGRAM

-------------------------------------------------------------------------------
(* The CRDS table *)

Older(crds, d, e) == \E i, j \in DOMAIN crds : i < j /\ d \in crds[i] /\ e \in crds[j]

Without(crds, ids) ==
    SelectSeq([i \in DOMAIN crds |-> crds[i] \ ids], LAMBDA ms : ms # {})

\* Mutant of prune_old: sorted the other way round.
prune_old_Newest(crds) ==
    LET excess == Cardinality(Held(crds)) - (max_entries * 9) \div 10
    IN  {Without(crds, ids) : ids \in
            {s \in kSubset(excess, Held(crds)) :
                \A e \in s : \A d \in Held(crds) : Older(crds, e, d) => d \in s}}

\* The tables that prune_old may leave: ties fall in the order of the map.
prune_old(crds) ==
    LET excess == Cardinality(Held(crds)) - (max_entries * 9) \div 10
    IN  {Without(crds, ids) : ids \in
            {s \in kSubset(excess, Held(crds)) :
                \A e \in s : \A d \in Held(crds) : Older(crds, d, e) => d \in s}}

\* d goes into a new millisecond or into the current one.
Inserted(crds, d) ==
    {Append(crds, {d})}
        \cup {[crds EXCEPT ![Len(crds)] = @ \cup {d}] : i \in DOMAIN crds}

\* Mutant of insert_push: the length is the one before the insertion.
insert_push_StaleLen(crds, d) ==
    IF d \in Held(crds)
    THEN {crds}
    ELSE UNION {IF Cardinality(Held(crds)) > max_entries THEN prune_old(c) ELSE {c} :
                    c \in Inserted(crds, d)}

\* Mutant of insert_push: no look for a known id.
insert_push_Again(crds, d) ==
    UNION {IF Cardinality(Held(c)) > max_entries THEN prune_old(c) ELSE {c} : c \in Inserted(crds, d)}

\* The tables that insert_push may leave.
insert_push(crds, d) ==
    IF d \in Held(crds)
    THEN {crds}
    ELSE UNION {IF Cardinality(Held(c)) > max_entries THEN prune_old(c) ELSE {c} :
                    c \in Inserted(crds, d)}

\* The same for several ids, one after the other in any order.
insert_all(crds, ids) ==
    UNION {FoldLeft(LAMBDA cs, d : UNION {insert_push(c, d) : c \in cs}, {crds}, order) :
               order \in SetToSeqs(ids)}

\* Mutant of random_contacts: one contact fewer.
random_contacts_Two(n) ==
    {ps \in SUBSET Contacts(n) :
        Cardinality(ps) = IF Cardinality(Contacts(n)) < 2 THEN Cardinality(Contacts(n)) ELSE 2}

\* The sets that random_contacts(3) may return.
random_contacts(n) ==
    {ps \in SUBSET Contacts(n) :
        Cardinality(ps) = IF Cardinality(Contacts(n)) < 3 THEN Cardinality(Contacts(n)) ELSE 3}

-------------------------------------------------------------------------------
(* From outside *)

GossipInit ==
    /\ scenario \in Scenarios
    /\ entries = [n \in Nodes |-> scenario.held]
    /\ accepted = [n \in Nodes |-> Held(scenario.held)]
    /\ budget = scenario.budget
    /\ contacts = [n \in Nodes |-> Bootstrap[n] \cup {n}]
    /\ unspecified = [n \in Nodes |-> {}]
    /\ pruned = [n \in Nodes |-> {}]
    /\ pending_pings = [n \in Nodes |-> {}]
    /\ queue = [n \in Nodes |-> {}]
    /\ wire = {}
    /\ lost = FALSE

Spend(what) ==
    /\ budget[what] > 0
    /\ budget' = [budget EXCEPT ![what] = @ - 1]

Queue(n, ms) == queue' = [queue EXCEPT ![n] = @ \cup ms]

\* One round of the ping task's loop; the nonce is new.
send_ping(n, peer) ==
    /\ Spend("pings")
    /\ pending_pings' = [pending_pings EXCEPT ![n] = @ \cup {[nonce |-> budget.pings, peer |-> peer]}]
    /\ Queue(n, {Ping(n, budget.pings)})
    /\ UNCHANGED <<table, peers, wire, lost>>

send_prune(n, kinds) ==
    /\ Spend("prunes")
    /\ Queue(n, {Prune(n, kinds)})
    /\ UNCHANGED <<table, peers, pending_pings, wire, lost>>

send_pull_request(n, kinds) ==
    /\ Spend("pulls")
    /\ Queue(n, {PullRequest(n, kinds)})
    /\ UNCHANGED <<table, peers, pending_pings, wire, lost>>

-------------------------------------------------------------------------------
(* The send task and the network *)

\* The send task takes a message and sends it to every contact it can dial; what is
\* sent to a node that is down is gone.
GossipSend(n) ==
    \E m \in queue[n] :
        /\ queue' = [queue EXCEPT ![n] = @ \ {m}]
        /\ wire' = wire \cup (IF Encodes(m) THEN {[to |-> c, msg |-> m] : c \in Dialable(n) \cap Running}
                                            ELSE {})
        /\ UNCHANGED <<table, peers, pending_pings, budget, lost>>

\* A datagram is lost or damaged.
Lose(p) ==
    /\ Spend("losses")
    /\ wire' = wire \ {p}
    /\ lost' = TRUE
    /\ UNCHANGED <<table, peers, pending_pings, queue>>

\* The receive task gets a datagram; the network may deliver it once more.
Receive(p) ==
    \/ wire' = wire \ {p} /\ UNCHANGED budget
    \/ Spend("duplicates") /\ UNCHANGED wire

-------------------------------------------------------------------------------
(* handle_message *)

Accept(n, crds) ==
    /\ entries' = [entries EXCEPT ![n] = crds]
    /\ UNCHANGED scenario

\* What forward_push queues when these contacts were drawn.
forward_push(n, m, drawn) ==
    IF \A p \in drawn : p = n \/ p = m.from \/ <<p, Kind[m.id]>> \in pruned[n]
    THEN {}
    ELSE {Push(n, m.id)}

\* Mutant of handle_push: known data is forwarded as well.
handle_push_Known(n, m) ==
    /\ \E crds \in insert_push(entries[n], m.id) : Accept(n, crds)
    /\ accepted' = [accepted EXCEPT ![n] = @ \cup {m.id}]
    /\ \E drawn \in random_contacts(n) : Queue(n, forward_push(n, m, drawn))
    /\ UNCHANGED <<peers, pending_pings, lost>>

handle_push(n, m) ==
    /\ IF m.id \in Held(entries[n])
       THEN UNCHANGED <<table, queue>>
       ELSE /\ \E crds \in insert_push(entries[n], m.id) : Accept(n, crds)
            /\ accepted' = [accepted EXCEPT ![n] = @ \cup {m.id}]
            /\ \E drawn \in random_contacts(n) : Queue(n, forward_push(n, m, drawn))
    /\ UNCHANGED <<peers, pending_pings, lost>>

\* A client's push of new data gets to a node.
Publish(n, d) ==
    /\ Spend("pushes")
    /\ \A m \in Nodes : d \notin accepted[m]
    /\ handle_push(n, Push(Client, d))
    /\ UNCHANGED wire

\* The items of each kind asked for that are newer than the filter's timestamp.
\* The requester's own contact_info is not looked at.
handle_pull_request(p) ==
    LET n == p.to
        m == p.msg
    IN  /\ m.type = "PullRequest"
        /\ Receive(p)
        /\ \E cut \in [m.filters -> 0..Len(entries[n])] :
              LET newer(k) == Held(SubSeq(entries[n], cut[k] + 1, Len(entries[n])))
              IN  Queue(n, {PullResponse(n, {d \in Held(entries[n]) :
                              \E k \in m.filters : Kind[d] = k /\ d \in newer(k)})})
        /\ UNCHANGED <<table, peers, pending_pings, lost>>

\* The contact_info of a response replaces what is known of the responder.  Its
\* addresses are those of sockets bound to 0.0.0.0.
handle_pull_response(p) ==
    LET n == p.to
        m == p.msg
    IN  /\ m.type = "PullResponse"
        /\ Receive(p)
        /\ \E crds \in insert_all(entries[n], m.items) : Accept(n, crds)
        /\ accepted' = [accepted EXCEPT ![n] = @ \cup m.items]
        /\ contacts' = [contacts EXCEPT ![n] = @ \cup {m.from}]
        /\ unspecified' = [unspecified EXCEPT ![n] = @ \cup {m.from}]
        /\ UNCHANGED <<pruned, pending_pings, queue, lost>>

handle_prune(p) ==
    /\ p.msg.type = "Prune"
    /\ Receive(p)
    /\ pruned' = [pruned EXCEPT ![p.to] = @ \cup ({p.msg.from} \X p.msg.kinds)]
    /\ UNCHANGED <<table, contacts, unspecified, pending_pings, queue, lost>>

handle_ping(p) ==
    /\ p.msg.type = "Ping"
    /\ Receive(p)
    /\ Queue(p.to, {Pong(p.to, p.msg.nonce)})
    /\ UNCHANGED <<table, peers, pending_pings, lost>>

\* Mutant of handle_pong: the nonce must be one sent to this peer.
handle_pong_Peer(p) ==
    /\ p.msg.type = "Pong"
    /\ Receive(p)
    /\ pending_pings' = [pending_pings EXCEPT ![p.to] =
           {q \in @ : ~(q.nonce = p.msg.nonce /\ q.peer = p.msg.from)}]
    /\ UNCHANGED <<table, peers, queue, lost>>

\* Whoever answers clears the nonce.
handle_pong(p) ==
    /\ p.msg.type = "Pong"
    /\ Receive(p)
    /\ pending_pings' = [pending_pings EXCEPT ![p.to] = {q \in @ : q.nonce # p.msg.nonce}]
    /\ UNCHANGED <<table, peers, queue, lost>>

handle_message ==
    \E p \in wire :
        \/ p.msg.type = "Push" /\ Receive(p) /\ handle_push(p.to, p.msg)
        \/ handle_pull_request(p)
        \/ handle_pull_response(p)
        \/ handle_prune(p)
        \/ handle_ping(p)
        \/ handle_pong(p)

GossipNext ==
    \/ \E n \in Running, d \in Data : Publish(n, d)
    \/ \E n \in Running : \E peer \in Bootstrap[n] : send_ping(n, peer)
    \/ \E n \in Running, kinds \in SUBSET Kinds \ {{}} : send_prune(n, kinds)
    \/ \E n \in Running, kinds \in SUBSET Kinds \ {{}} : send_pull_request(n, kinds)
    \/ \E n \in Running : GossipSend(n)
    \/ \E p \in wire : Lose(p)
    \/ handle_message

\* The send and receive loops of network.rs never stop.
GossipFairness ==
    /\ \A n \in Running : WF_gossipvars(GossipSend(n))
    /\ WF_gossipvars(handle_message)

GossipSpec == GossipInit /\ [][GossipNext]_gossipvars /\ GossipFairness

-------------------------------------------------------------------------------
(* Properties *)

\* The tables of Crds and GossipProtocol keep their shape; no id is in a table twice.
GossipTypeOK ==
    /\ scenario \in Scenarios
    /\ \A n \in Nodes :
          /\ \A i, j \in DOMAIN entries[n] : i # j => entries[n][i] \cap entries[n][j] = {}
          /\ Held(entries[n]) \subseteq accepted[n]
          /\ accepted[n] \subseteq Data
          /\ n \in contacts[n]
          /\ unspecified[n] \subseteq contacts[n]
          /\ contacts[n] \subseteq Nodes
          /\ pruned[n] \subseteq Nodes \X Kinds
          /\ queue[n] \subseteq Message
    /\ \A p \in wire : p.to \in Running /\ p.msg \in Message

\* Nothing is queued or under way.
Silent == wire = {} /\ \A n \in Nodes : queue[n] = {}

\* Nothing was lost and no pull response has replaced an address.
Undisturbed == ~lost /\ \A n \in Nodes : unspecified[n] = {}

\* Without losses and prunes a push reaches everyone: once the network is silent, an
\* id that a node has accepted was accepted by the running peers that it bootstrapped
\* from, and so on along the contacts.  Drawing three contacts is just enough for
\* forward_push never to draw only itself and the sender.
Flooded ==
    (Silent /\ Undisturbed /\ \A n \in Nodes : pruned[n] = {})
        => \A n \in Running : \A p \in Bootstrap[n] \cap Running : accepted[n] \subseteq accepted[p]

\* Without losses a nonce stays in pending_pings only if nobody whom the ping reaches
\* knows the node that sent it: pongs go to the answerer's contacts, not to the sender.
PingsSettle ==
    (Silent /\ Undisturbed)
        => \A n \in Running : pending_pings[n] # {} =>
              \A p \in Dialable(n) \cap Running : n \notin Dialable(p)

\* Gossip does its work: when it falls silent, what was pushed is everywhere and what was
\* pinged has answered.
SilentIsSpread == GossipTypeOK /\ Flooded /\ PingsSettle

\* No handler leaves a table larger than max_entries, and a table gives up an entry only
\* when it has no older one left, however many entries one pull response brings in.
EvictsOldest ==
    [][\A n \in Nodes :
          /\ Cardinality(Held(entries'[n])) <= max_entries
          /\ \A d \in Held(entries[n]) \ Held(entries'[n]) :
                \A e \in Held(entries[n]) \cap Held(entries'[n]) : ~Older(entries[n], e, d)]_gossipvars

\* While the tables are large enough to remember every id, pushes die out: the network
\* falls silent and stays so.
Quiesces == max_entries >= Cardinality(Data) => <>[]Silent

-------------------------------------------------------------------------------
(* Documented, but not what the code does *)

\* What network.rs says of self_contact, advertised "so peers can find us via pull
\* requests": a contact can be dialled.
ContactsDialable == \A n \in Nodes : contacts[n] \ {n} \subseteq Dialable(n)

\* What is_pruned is for: a peer that has pruned a kind is sent no push of it.
PruneHonoured ==
    [][\A p \in wire' \ wire : p.msg.type = "Push" =>
          <<p.to, Kind[p.msg.id]>> \notin UNION {pruned[n] : n \in {p.msg.from} \cap Nodes}]_gossipvars

\* What "ping every bootstrap peer" in network.rs is for: only its own answer clears
\* the ping of a peer.
PongFromPeer ==
    [][\A n \in Nodes : \A q \in pending_pings[n] \ pending_pings'[n] :
          \E p \in wire : p.msg = Pong(q.peer, q.nonce)]_gossipvars
===============================================================================
