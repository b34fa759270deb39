----------------------------------- MODULE Rpc -----------------------------------
(***************************************************************************)
(* The JSON-RPC handler (rpc/src/handler.rs): sendTransaction with its two *)
(* modes, the table of statuses behind getTransaction, and the slot that   *)
(* getSlot and getBlockHeight answer with.                                 *)
(*                                                                         *)
(* Requests are handled concurrently.  With a mempool, the insertion and   *)
(* the write of the status are separate steps, and the block producer may  *)
(* take the transaction in between; without one, the handler executes the  *)
(* transaction (atomic for conflicting ones, module Executor), then reads  *)
(* the slot, then writes the status.  Mempool and executor are reduced to  *)
(* what the handler sees of them.  A transaction stands for its signature, *)
(* the key of the table, and may be sent again.                            *)
(***************************************************************************)
EXTENDS Naturals, SequencesExt

CONSTANTS
    RpcTxs,
    Clients,
    MaxSends,      \* bound on calls of sendTransaction
    MaxNodeSlot    \* bound on the node's slot

ASSUME RpcAssumption == MaxSends \in Nat /\ MaxNodeSlot \in Nat

VARIABLES
    with_mempool,    \* the mode of the handler
    node_slot,       \* the slot of the validator
    rpc_slot,        \* the handler's copy of it
    transactions,    \* per transaction, its status (or NoStatus)
    mempool,         \* the transactions that are parked
    outcomes,        \* per transaction, its executions: <<success, ...>>
    request,         \* per client, what sendTransaction is about to do
    answered,        \* history: the transactions whose signature was returned
    sends            \* history: the calls of sendTransaction

rpcvars == <<with_mempool, node_slot, rpc_slot, transactions, mempool, outcomes, request,
             answered, sends>>

NoStatus == [status |-> "null", slot |-> 0]

NoRequest == [step |-> "none"]

RpcInit ==
    /\ with_mempool \in BOOLEAN
    /\ node_slot = 0
    /\ rpc_slot = 0
    /\ transactions = [t \in RpcTxs |-> NoStatus]
    /\ mempool = {}
    /\ outcomes = [t \in RpcTxs |-> <<>>]
    /\ request = [c \in Clients |-> NoRequest]
    /\ answered = {}
    /\ sends = 0

-------------------------------------------------------------------------------
(* sendTransaction *)

\* mempool.insert refuses what is parked already, and may refuse for other reasons.
InsertMempool(c, t) ==
    /\ with_mempool
    /\ request[c] = NoRequest
    /\ sends < MaxSends
    /\ sends' = sends + 1
    /\ \/ UNCHANGED <<mempool, request>>
       \/ /\ t \notin mempool
          /\ mempool' = mempool \cup {t}
          /\ request' = [request EXCEPT ![c] = [step |-> "pending", tx |-> t]]
    /\ UNCHANGED <<with_mempool, node_slot, rpc_slot, transactions, outcomes, answered>>

Answer(c, t, status) ==
    /\ transactions' = [transactions EXCEPT ![t] = status]
    /\ answered' = answered \cup {t}
    /\ request' = [request EXCEPT ![c] = NoRequest]

WritePending(c) ==
    /\ request[c].step = "pending"
    /\ Answer(c, request[c].tx, [status |-> "pending", slot |-> 0])
    /\ UNCHANGED <<with_mempool, node_slot, rpc_slot, mempool, outcomes, sends>>

\* The executor does not look whether the transaction was executed before.
ExecuteInline(c, t) ==
    /\ ~with_mempool
    /\ request[c] = NoRequest
    /\ sends < MaxSends
    /\ sends' = sends + 1
    /\ \E success \in BOOLEAN :
          /\ outcomes' = [outcomes EXCEPT ![t] = Append(@, success)]
          /\ request' = [request EXCEPT ![c] = [step |-> "slot", tx |-> t, success |-> success]]
    /\ UNCHANGED <<with_mempool, node_slot, rpc_slot, transactions, mempool, answered>>

ReadSlot(c) ==
    /\ request[c].step = "slot"
    /\ request' = [request EXCEPT ![c] =
           [step |-> "write", tx |-> @.tx, success |-> @.success, slot |-> rpc_slot]]
    /\ UNCHANGED <<with_mempool, node_slot, rpc_slot, transactions, mempool, outcomes, answered, sends>>

\* Mutant of WriteStatus: whatever the result.
WriteStatus_Finalized(c) ==
    /\ request[c].step = "write"
    /\ Answer(c, request[c].tx, [status |-> "finalized", slot |-> request[c].slot])
    /\ UNCHANGED <<with_mempool, node_slot, rpc_slot, mempool, outcomes, sends>>

\* Mutant of WriteStatus: nothing is kept of a failed transaction.
WriteStatus_Successes(c) ==
    /\ request[c].step = "write"
    /\ IF request[c].success
       THEN Answer(c, request[c].tx, [status |-> "finalized", slot |-> request[c].slot])
       ELSE Answer(c, request[c].tx, NoStatus)
    /\ UNCHANGED <<with_mempool, node_slot, rpc_slot, mempool, outcomes, sends>>

WriteStatus(c) ==
    /\ request[c].step = "write"
    /\ Answer(c, request[c].tx,
              [status |-> IF request[c].success THEN "finalized" ELSE "failed",
               slot   |-> request[c].slot])
    /\ UNCHANGED <<with_mempool, node_slot, rpc_slot, mempool, outcomes, sends>>

-------------------------------------------------------------------------------
(* The rest of the node *)

\* The block producer drains and executes what is parked; the handler is not told.
Produce ==
    /\ mempool # {}
    /\ \E t \in mempool, success \in BOOLEAN :
          /\ mempool' = mempool \ {t}
          /\ outcomes' = [outcomes EXCEPT ![t] = Append(@, success)]
    /\ UNCHANGED <<with_mempool, node_slot, rpc_slot, transactions, request, answered, sends>>

AdvanceSlot ==
    /\ node_slot < MaxNodeSlot
    /\ node_slot' = node_slot + 1
    /\ UNCHANGED <<with_mempool, rpc_slot, transactions, mempool, outcomes, request, answered, sends>>

\* Called by an embedder that hands its slot on; the node's own loop does not.
update_slot ==
    /\ rpc_slot' = node_slot
    /\ UNCHANGED <<with_mempool, node_slot, transactions, mempool, outcomes, request, answered, sends>>

RpcNext ==
    \/ \E c \in Clients, t \in RpcTxs : InsertMempool(c, t) \/ ExecuteInline(c, t)
    \/ \E c \in Clients : WritePending(c) \/ ReadSlot(c) \/ WriteStatus(c)
    \/ Produce
    \/ AdvanceSlot
    \/ update_slot

RpcSpec == RpcInit /\ [][RpcNext]_rpcvars

-------------------------------------------------------------------------------
(* Queries *)

get_slot == rpc_slot

get_block_height == rpc_slot

get_transaction(t) == transactions[t]

-------------------------------------------------------------------------------
(* Properties *)

\* A client that has a signature finds its status from then on, whatever the other
\* requests and the producer do.
AnsweredIsKnown == \A t \in answered : get_transaction(t) # NoStatus

\* Executed inline, a transaction that is reported finalized has taken effect, and one
\* that is reported failed has not, unless it was sent twice; its slot has been reached.
StatusTruthful ==
    ~with_mempool => \A t \in RpcTxs :
        LET status == get_transaction(t)
            result == status.status = "finalized"
        IN  status # NoStatus =>
                /\ result \in ToSet(outcomes[t])
                /\ status.slot <= get_slot

\* What a client is told of its transactions is there, and true.
StatusSound == AnsweredIsKnown /\ StatusTruthful

-------------------------------------------------------------------------------
(* Documented, but not what the code does *)

\* What send_transaction says: "the status stays `pending` until inclusion".
PendingUntilInclusion ==
    \A t \in RpcTxs : (get_transaction(t).status = "pending" /\ request = [c \in Clients |-> NoRequest])
                          => t \in mempool

\* What update_slot says: "called by the validator".
SlotFollows == with_mempool => get_slot = node_slot

\* A status that says finalized is final; a transaction that is sent again and fails is
\* reported failed, although it has taken effect.
FinalizedStays ==
    [][\A t \in RpcTxs : transactions[t].status = "finalized" => transactions'[t].status = "finalized"]_rpcvars
===============================================================================
