-------------------------------- MODULE RpcProofs --------------------------------
(***************************************************************************)
(* What a client learns from the RPC handler, for any number of clients    *)
(* and transactions: proofs about module Rpc.                              *)
(***************************************************************************)
EXTENDS Rpc, TLAPS

(* Most leaves are first-order, so Zenon is asked first. *)
USE ZenonT(2), SMT, ZenonT(10)

Statuses == [status : {"null", "pending", "finalized", "failed"}, slot : Nat]

Requests ==
    {NoRequest} \cup [step : {"pending"}, tx : RpcTxs]
                \cup [step : {"slot"}, tx : RpcTxs, success : BOOLEAN]
                \cup [step : {"write"}, tx : RpcTxs, success : BOOLEAN, slot : Nat]

Types ==
    /\ with_mempool \in BOOLEAN
    /\ node_slot \in Nat
    /\ rpc_slot \in Nat
    /\ transactions \in [RpcTxs -> Statuses]
    /\ mempool \subseteq RpcTxs
    /\ outcomes \in [RpcTxs -> Seq(BOOLEAN)]
    /\ request \in [Clients -> Requests]
    /\ answered \subseteq RpcTxs

Executed(t, success) == \E i \in 1..Len(outcomes[t]) : outcomes[t][i] = success

\* What a handler without a mempool holds back between its steps is true already: the
\* execution it reports has taken place, in a slot that has been reached.
RequestsTrue ==
    \A c \in Clients :
        /\ request[c].step \in {"slot", "write"} =>
               ~with_mempool /\ Executed(request[c].tx, request[c].success)
        /\ request[c].step = "write" => request[c].slot <= rpc_slot
        /\ request[c].step = "pending" => with_mempool

\* The table, in terms of the executions.
TableTrue ==
    \A t \in RpcTxs :
        /\ transactions[t].status = "pending" => with_mempool
        /\ transactions[t].status = "null" => transactions[t] = NoStatus
        /\ transactions[t].status = "finalized" => Executed(t, TRUE)
        /\ transactions[t].status = "failed" => Executed(t, FALSE)
        /\ transactions[t].slot <= rpc_slot

IInv == Types /\ rpc_slot <= node_slot /\ AnsweredIsKnown /\ RequestsTrue /\ TableTrue

\* The fields of a request, by its step.
LEMMA RequestFields ==
    ASSUME Types, NEW c \in Clients
    PROVE  /\ request[c].step \in {"slot", "write"} =>
                  request[c].tx \in RpcTxs /\ request[c].success \in BOOLEAN
           /\ request[c].step = "write" => request[c].slot \in Nat
<1>1. request[c] \in Requests
    BY DEF Types
<1>2. CASE request[c] = NoRequest
    BY <1>2 DEF NoRequest
<1>3. CASE request[c] \in [step : {"pending"}, tx : RpcTxs]
    BY <1>3
<1>4. CASE request[c] \in [step : {"slot"}, tx : RpcTxs, success : BOOLEAN]
    BY <1>4
<1>5. CASE request[c] \in [step : {"write"}, tx : RpcTxs, success : BOOLEAN, slot : Nat]
    BY <1>5
<1> QED BY <1>1, <1>2, <1>3, <1>4, <1>5 DEF Requests

\* Nothing is parked, executed or known at the start.
LEMMA RpcInitial == RpcInit => IInv
<1> SUFFICES ASSUME RpcInit PROVE IInv
    OBVIOUS
<1>1. Types
    <2>1. NoStatus \in Statuses /\ NoRequest \in Requests
        BY DEF NoStatus, Statuses, Requests
    <2> QED BY <2>1 DEF RpcInit, Types
<1>2. RequestsTrue
    BY DEF RpcInit, RequestsTrue, NoRequest
<1>3. TableTrue
    <2>1. \A t \in RpcTxs : transactions[t] = [status |-> "null", slot |-> 0]
        BY DEF RpcInit, NoStatus
    <2>2. \A t \in RpcTxs : transactions[t].status = "null" /\ transactions[t].slot <= rpc_slot
        BY <2>1 DEF RpcInit
    <2>3. "null" # "pending" /\ "null" # "finalized" /\ "null" # "failed"
        OBVIOUS
    <2> QED BY <2>1, <2>2, <2>3 DEF TableTrue, NoStatus
<1> QED BY <1>1, <1>2, <1>3 DEF RpcInit, IInv, AnsweredIsKnown

\* The steps that begin a request: an execution is there before anything is said of it.
LEMMA RpcBegins ==
    ASSUME IInv, NEW c \in Clients, NEW t \in RpcTxs, InsertMempool(c, t) \/ ExecuteInline(c, t)
    PROVE  IInv'
<1>1. CASE InsertMempool(c, t)
    <2>1. mempool' \subseteq RpcTxs /\ request' \in [Clients -> Requests]
        BY <1>1 DEF InsertMempool, IInv, Types, Requests
    <2>2. RequestsTrue'
        <3>1. CASE request' = request
            BY <1>1, <3>1 DEF InsertMempool, IInv, RequestsTrue, Executed
        <3>2. CASE request' = [request EXCEPT ![c] = [step |-> "pending", tx |-> t]]
            BY <1>1, <3>2 DEF InsertMempool, IInv, Types, RequestsTrue, Executed
        <3> QED BY <1>1, <3>1, <3>2 DEF InsertMempool
    <2>3. TableTrue' /\ AnsweredIsKnown'
        BY <1>1 DEF InsertMempool, IInv, TableTrue, Executed, AnsweredIsKnown, get_transaction
    <2> QED
        BY <1>1, <2>1, <2>2, <2>3 DEF InsertMempool, IInv, Types
<1>2. CASE ExecuteInline(c, t)
    <2>1. PICK success \in BOOLEAN :
              /\ outcomes' = [outcomes EXCEPT ![t] = Append(@, success)]
              /\ request' = [request EXCEPT ![c] = [step |-> "slot", tx |-> t, success |-> success]]
        BY <1>2 DEF ExecuteInline
    <2>2. \A u \in RpcTxs, s \in BOOLEAN : Executed(u, s) => Executed(u, s)'
        BY <2>1 DEF Executed, IInv, Types
    <2>3. Executed(t, success)'
        <3>1. Len(outcomes'[t]) \in 1..Len(outcomes'[t]) /\ outcomes'[t][Len(outcomes'[t])] = success
            BY <2>1 DEF IInv, Types
        <3> QED BY <3>1 DEF Executed
    <2>4. Types'
        BY <1>2, <2>1 DEF ExecuteInline, IInv, Types, Requests
    <2>5. RequestsTrue'
        BY <1>2, <2>1, <2>2, <2>3 DEF ExecuteInline, IInv, Types, Requests, NoRequest, RequestsTrue
    <2>6. TableTrue'
        BY <1>2, <2>2 DEF ExecuteInline, IInv, Types, TableTrue
    <2> QED
        BY <1>2, <2>4, <2>5, <2>6 DEF ExecuteInline, IInv, AnsweredIsKnown, get_transaction
<1> QED BY <1>1, <1>2

\* The steps that go on with a request, up to the answer.
LEMMA RpcAnswers ==
    ASSUME IInv, NEW c \in Clients, WritePending(c) \/ ReadSlot(c) \/ WriteStatus(c)
    PROVE  IInv'
<1> USE DEF IInv, Types
<1>1. CASE WritePending(c)
    BY <1>1 DEF WritePending, Answer, AnsweredIsKnown, RequestsTrue, TableTrue, NoStatus, NoRequest,
                Statuses, Requests, get_transaction, Executed
<1>2. CASE ReadSlot(c)
    <2>1. /\ request[c].tx \in RpcTxs /\ request[c].success \in BOOLEAN
          /\ ~with_mempool /\ Executed(request[c].tx, request[c].success)
        BY <1>2, RequestFields DEF ReadSlot, RequestsTrue
    <2>2. Types'
        BY <1>2, <2>1 DEF ReadSlot, Requests
    <2>3. RequestsTrue'
        BY <1>2, <2>1 DEF ReadSlot, RequestsTrue, Executed
    <2>4. (rpc_slot <= node_slot /\ AnsweredIsKnown /\ TableTrue)'
        BY <1>2 DEF ReadSlot, AnsweredIsKnown, TableTrue, get_transaction, Executed
    <2> QED BY <2>2, <2>3, <2>4
<1>3. CASE WriteStatus(c)
    <2> DEFINE t == request[c].tx
               status == [status |-> IF request[c].success THEN "finalized" ELSE "failed",
                          slot   |-> request[c].slot]
    <2>1. /\ t \in RpcTxs /\ request[c].success \in BOOLEAN /\ request[c].slot \in Nat
          /\ Executed(t, request[c].success) /\ request[c].slot <= rpc_slot
        BY <1>3, RequestFields DEF WriteStatus, RequestsTrue
    <2>2. /\ status \in Statuses /\ status.status \in {"finalized", "failed"}
          /\ status.status = "finalized" => request[c].success = TRUE
          /\ status.status = "failed" => request[c].success = FALSE
          /\ status.slot <= rpc_slot
        BY <2>1 DEF Statuses
    <2>3. /\ transactions' = [transactions EXCEPT ![t] = status] /\ answered' = answered \cup {t}
          /\ request' = [request EXCEPT ![c] = NoRequest]
          /\ UNCHANGED <<with_mempool, node_slot, rpc_slot, mempool, outcomes>>
        BY <1>3 DEF WriteStatus, Answer
    <2> HIDE DEF status, t
    <2>4. Types'
        BY <2>1, <2>2, <2>3 DEF Requests
    <2>5. RequestsTrue'
        BY <2>3 DEF RequestsTrue, NoRequest, Executed
    <2>6. TableTrue'
        BY <2>1, <2>2, <2>3 DEF TableTrue, Executed
    <2>7. (rpc_slot <= node_slot /\ AnsweredIsKnown)'
        BY <2>1, <2>2, <2>3 DEF AnsweredIsKnown, get_transaction, NoStatus
    <2> QED BY <2>4, <2>5, <2>6, <2>7
<1> QED BY <1>1, <1>2, <1>3

\* The steps of the node around the handler.
LEMMA RpcSurroundings ==
    ASSUME IInv, Produce \/ AdvanceSlot \/ update_slot
    PROVE  IInv'
<1>1. CASE Produce
    <2>1. PICK t \in mempool, success \in BOOLEAN :
              outcomes' = [outcomes EXCEPT ![t] = Append(@, success)] /\ mempool' = mempool \ {t}
        BY <1>1 DEF Produce
    <2>2. \A u \in RpcTxs, s \in BOOLEAN : Executed(u, s) => Executed(u, s)'
        BY <2>1 DEF Executed, IInv, Types
    <2>3. Types'
        BY <1>1, <2>1 DEF Produce, IInv, Types
    <2>4. RequestsTrue'
        <3>1. \A c \in Clients : request[c].step \in {"slot", "write"} =>
                  request[c].tx \in RpcTxs /\ request[c].success \in BOOLEAN
            BY RequestFields DEF IInv
        <3> QED
            BY <1>1, <2>2, <3>1 DEF Produce, IInv, RequestsTrue
    <2>5. TableTrue'
        BY <1>1, <2>2 DEF Produce, IInv, Types, TableTrue
    <2> QED
        BY <1>1, <2>3, <2>4, <2>5 DEF Produce, IInv, AnsweredIsKnown, get_transaction
<1>2. CASE AdvanceSlot
    BY <1>2 DEF AdvanceSlot, IInv, Types, AnsweredIsKnown, RequestsTrue, TableTrue, get_transaction,
                Executed
<1>3. CASE update_slot
    <2>1. RequestsTrue'
        <3>1. \A c \in Clients : request[c].step = "write" => request[c].slot \in Nat
            BY RequestFields DEF IInv
        <3> QED
            BY <1>3, <3>1 DEF update_slot, IInv, Types, RequestsTrue, Executed
    <2>2. TableTrue'
        <3>1. \A t \in RpcTxs : transactions[t].slot \in Nat
            BY DEF IInv, Types, Statuses
        <3> QED
            BY <1>3, <3>1 DEF update_slot, IInv, Types, TableTrue, Executed
    <2> QED
        BY <1>3, <2>1, <2>2 DEF update_slot, IInv, Types, AnsweredIsKnown, get_transaction
<1> QED BY <1>1, <1>2, <1>3

\* A client that was given a signature finds a status under it, and the status tells the
\* truth, however requests overlap with each other, with the producer and with the slots.
THEOREM StatusHolds == RpcSpec => []StatusSound
<1>1. IInv /\ [RpcNext]_rpcvars => IInv'
    <2> SUFFICES ASSUME IInv, [RpcNext]_rpcvars PROVE IInv'
        OBVIOUS
    <2>1. CASE RpcNext
        BY <2>1, RpcBegins, RpcAnswers, RpcSurroundings DEF RpcNext
    <2>2. CASE UNCHANGED rpcvars
        BY <2>2 DEF rpcvars, IInv, Types, AnsweredIsKnown, RequestsTrue, TableTrue, Executed,
                    get_transaction
    <2> QED BY <2>1, <2>2
<1>2. IInv => StatusSound
    <2> SUFFICES ASSUME IInv, ~with_mempool, NEW t \in RpcTxs, transactions[t] # NoStatus
                 PROVE  /\ (transactions[t].status = "finalized") \in ToSet(outcomes[t])
                        /\ transactions[t].slot <= rpc_slot
        BY DEF IInv, StatusSound, StatusTruthful, get_transaction, get_slot
    <2>1. transactions[t].status \in {"finalized", "failed"}
        BY DEF IInv, Types, Statuses, TableTrue
    <2>2. Executed(t, transactions[t].status = "finalized")
        <3>1. CASE transactions[t].status = "finalized"
            BY <3>1 DEF IInv, TableTrue, Executed
        <3>2. CASE transactions[t].status = "failed"
            BY <3>2 DEF IInv, TableTrue, Executed
        <3> QED BY <2>1, <3>1, <3>2
    <2>3. transactions[t].slot <= rpc_slot
        BY DEF IInv, TableTrue
    <2> QED
        BY <2>2, <2>3 DEF Executed, ToSet
<1> QED BY RpcInitial, <1>1, <1>2, PTL DEF RpcSpec
===============================================================================
