------------------------------- MODULE Executor -------------------------------
(***************************************************************************)
(* Parallel execution of one batch, crates/tx-processor/src/executor.rs:   *)
(* execute_batch starts a thread per transaction, and each runs            *)
(* execute_transaction.  Every lock acquisition, AccountsDB.load and       *)
(* AccountsDB.store is a step, so the threads interleave as the code lets  *)
(* them.                                                                   *)
(*                                                                         *)
(* An account is its balance, lamports or tokens; instructions are the     *)
(* transfers of the system and the token program, and calls of a program   *)
(* that is not deployed.                                                   *)
(***************************************************************************)
EXTENDS Integers, Sequences, FiniteSets

CONSTANTS
    Threads,       \* the threads, one for each transaction of a batch
    Inputs,        \* what execute_batch may be called with: the transactions txs, by
                   \* thread, and the balances
    NumKeys,       \* pubkeys are 1..NumKeys, in their byte order
    Authority,     \* the authority of each token account
    NoAccount,     \* AccountsDB.load finds nothing
    Word           \* balances are below Word

Keys == 1..NumKeys

Balances == 0..(Word - 1) \cup {NoAccount}

\* writable is the set of the keys whose metas are writable.
Instruction ==
    [program : STRING, from : Keys, to : Keys, amount : Nat, writable : SUBSET Keys]

Transaction ==
    [signer : Keys, fee : Nat, compute_budget : Nat, signed : BOOLEAN,
     instructions : Seq(Instruction)]

ASSUME ExecutorAssumption ==
    /\ NumKeys \in Nat
    /\ Word \in Nat
    /\ NoAccount \notin Int
    /\ IsFiniteSet(Threads)
    /\ \A in \in Inputs :
        /\ in.balances \in [Keys -> Balances]
        /\ DOMAIN in.txs \subseteq Threads
        /\ in.txs \in [DOMAIN in.txs -> Transaction]

VARIABLES
    input,         \* what execute_batch was called with
    db,            \* AccountsDB: pubkey -> balance or NoAccount
    pc,            \* where each thread is in execute_transaction
    held,          \* the account locks each thread holds (its _guards)
    ix,            \* the instruction it executes
    compute,       \* its ExecutionContext.compute_units
    from_account, to_account,  \* its loaded copies of accounts
    snapshot,      \* what snapshot_transaction recorded so far
    result,        \* "none", "success" or "failure"
    total_executed, total_compute

locals == <<ix, compute, from_account, to_account, snapshot>>
totals == <<total_executed, total_compute>>
vars == <<input, db, pc, held, locals, result, totals>>

-------------------------------------------------------------------------------
(* Transactions *)

Tx == input.txs

Batch == DOMAIN Tx

Metas(t) == {Tx[t].instructions[i] : i \in DOMAIN Tx[t].instructions}

write_accounts(t) == UNION {{m.from, m.to} \cap m.writable : m \in Metas(t)}

read_accounts(t) == UNION {{m.from, m.to} \ m.writable : m \in Metas(t)}

MIN_FEE == 1   \* stands for 5000 lamports

validate(t) ==
    /\ Tx[t].instructions # << >>
    /\ Tx[t].compute_budget > 0
    /\ Tx[t].fee >= MIN_FEE

mutable_accounts(t) == write_accounts(t) \cup {Tx[t].signer}

\* Mutant of Exclusive: the fee payer is not locked.
Exclusive_NoPayer(t) == write_accounts(t)

\* lock_accounts: the writable accounts and the fee payer exclusively, the
\* others shared; a key that is both keeps the write entry.
Exclusive(t) == write_accounts(t) \cup {Tx[t].signer}

lock_accounts(t) == Exclusive(t) \cup read_accounts(t)

Instr(t) == Tx[t].instructions[ix[t]]

\* Compute units a native program consumes: 1 stands for 50.
Cost(program) ==
    CASE program = "system" -> 6
      [] program = "token" -> 7
      [] OTHER -> 0

-------------------------------------------------------------------------------
(* Locks *)

\* Mutant of CanLock: a reader does not wait for a writer.
CanLock_ReadersPass(t, k) ==
    \A u \in Batch \ {t} : k \in held[u] => k \notin Exclusive(t)

\* The locks of other threads that keep t from locking k.
CanLock(t, k) ==
    \A u \in Batch \ {t} :
        k \in held[u] => k \notin Exclusive(t) /\ k \notin Exclusive(u)

\* Mutant of NextLock: the payer is locked first, out of order.
NextLock_PayerFirst(t) ==
    IF Tx[t].signer \notin held[t]
    THEN Tx[t].signer
    ELSE CHOOSE k \in lock_accounts(t) \ held[t] : \A j \in lock_accounts(t) \ held[t] : k <= j

\* Locks are taken in the order of the keys.
NextLock(t) ==
    CHOOSE k \in lock_accounts(t) \ held[t] : \A j \in lock_accounts(t) \ held[t] : k <= j

Least(S) == CHOOSE k \in S : \A j \in S : k <= j

-------------------------------------------------------------------------------
(* The steps of execute_transaction *)

Goto(t, label) == pc' = [pc EXCEPT ![t] = label]

\* Return: the guards are dropped.
Return(t, outcome) ==
    /\ Goto(t, "done")
    /\ held' = [held EXCEPT ![t] = {}]
    /\ result' = [result EXCEPT ![t] = outcome]

Init ==
    /\ input \in Inputs
    /\ db = input.balances
    /\ pc = [t \in Batch |-> "start"]
    /\ held = [t \in Batch |-> {}]
    /\ ix = [t \in Batch |-> 1]
    /\ compute = [t \in Batch |-> 0]
    /\ from_account = [t \in Batch |-> NoAccount]
    /\ to_account = [t \in Batch |-> NoAccount]
    /\ snapshot = [t \in Batch |-> << >>]
    /\ result = [t \in Batch |-> "none"]
    /\ total_executed = 0
    /\ total_compute = 0

Start(t) ==
    /\ pc[t] = "start"
    /\ IF validate(t) /\ Tx[t].signed
       THEN Goto(t, "lock") /\ UNCHANGED <<held, result>>
       ELSE Return(t, "failure")
    /\ UNCHANGED <<db, locals, totals>>

Lock(t) ==
    /\ pc[t] = "lock"
    /\ lock_accounts(t) \ held[t] # {}
    /\ CanLock(t, NextLock(t))
    /\ held' = [held EXCEPT ![t] = @ \cup {NextLock(t)}]
    /\ UNCHANGED <<db, pc, locals, result, totals>>

\* Mutant of FeeLoad: the fee is charged before all locks are held.
FeeLoad_PayerLockOnly(t) ==
    LET payer == db[Tx[t].signer]
    IN  /\ pc[t] = "lock"
        /\ Tx[t].signer \in held[t]
        /\ compute' = [compute EXCEPT ![t] = @ + 3]
        /\ IF 3 > Tx[t].compute_budget \/ payer = NoAccount
           THEN Return(t, "failure") /\ UNCHANGED from_account
           ELSE IF payer < Tx[t].fee
                THEN Return(t, "failure") /\ UNCHANGED from_account
                ELSE /\ from_account' = [from_account EXCEPT ![t] = payer]
                     /\ Goto(t, "fee")
                     /\ UNCHANGED <<held, result>>
        /\ UNCHANGED <<db, ix, to_account, snapshot, totals>>

\* execute_fee_payment up to its checks: fee processing costs 150 units.
FeeLoad(t) ==
    LET payer == db[Tx[t].signer]
    IN  /\ pc[t] = "lock"
        /\ lock_accounts(t) \ held[t] = {}
        /\ compute' = [compute EXCEPT ![t] = @ + 3]
        /\ IF 3 > Tx[t].compute_budget \/ payer = NoAccount
           THEN Return(t, "failure") /\ UNCHANGED from_account
           ELSE IF payer < Tx[t].fee
                THEN Return(t, "failure") /\ UNCHANGED from_account
                ELSE /\ from_account' = [from_account EXCEPT ![t] = payer]
                     /\ Goto(t, "fee")
                     /\ UNCHANGED <<held, result>>
        /\ UNCHANGED <<db, ix, to_account, snapshot, totals>>

FeeStore(t) ==
    /\ pc[t] = "fee"
    /\ db' = [db EXCEPT ![Tx[t].signer] = from_account[t] - Tx[t].fee]
    /\ Goto(t, "snapshot")
    /\ UNCHANGED <<held, locals, result, totals>>

\* snapshot_transaction loads one account after the other.
Snapshot(t) ==
    /\ pc[t] = "snapshot"
    /\ LET left == mutable_accounts(t) \ DOMAIN snapshot[t]
           done == {Least(left)} \cup DOMAIN snapshot[t]
       IN  IF left = {}
           THEN Goto(t, "load_from") /\ UNCHANGED snapshot
           ELSE /\ snapshot' = [snapshot EXCEPT ![t] =
                      [k \in done |-> IF k = Least(left) THEN db[k] ELSE @[k]]]
                /\ UNCHANGED pc
    /\ UNCHANGED <<db, held, ix, compute, from_account, to_account, result, totals>>

\* A program's checks on the account it debits.
SourceOK(t, account) ==
    /\ account # NoAccount
    /\ \/ /\ Instr(t).program = "system"
          /\ Instr(t).from = Tx[t].signer
          /\ account >= Instr(t).amount
       \/ /\ Instr(t).program = "token"
          /\ Instr(t).from # Instr(t).to

\* A program's checks on the account it credits, which a system transfer may
\* create, and the token program's on the source once both are loaded.
DestinationOK(t, source, account) ==
    /\ Instr(t).program = "token" =>
          /\ account # NoAccount
          /\ Authority[Instr(t).from] = Tx[t].signer
          /\ source >= Instr(t).amount
    /\ account # NoAccount => account + Instr(t).amount < Word

Balance(account) == IF account = NoAccount THEN 0 ELSE account

LoadFrom(t) ==
    LET account == db[Instr(t).from]
    IN  /\ pc[t] = "load_from"
        /\ from_account' = [from_account EXCEPT ![t] = account]
        /\ Goto(t, IF SourceOK(t, account) THEN "load_to" ELSE "rollback")
        /\ UNCHANGED <<db, held, ix, compute, to_account, snapshot, result, totals>>

LoadTo(t) ==
    LET account == db[Instr(t).to]
    IN  /\ pc[t] = "load_to"
        /\ to_account' = [to_account EXCEPT ![t] = Balance(account)]
        /\ Goto(t, IF DestinationOK(t, from_account[t], account) THEN "store_from" ELSE "rollback")
        /\ UNCHANGED <<db, held, ix, compute, from_account, snapshot, result, totals>>

StoreFrom(t) ==
    /\ pc[t] = "store_from"
    /\ db' = [db EXCEPT ![Instr(t).from] = from_account[t] - Instr(t).amount]
    /\ Goto(t, "store_to")
    /\ UNCHANGED <<held, locals, result, totals>>

\* The second store, and execute_instruction charging the compute units after
\* it: over budget, the effects are there to be rolled back.
StoreTo(t) ==
    LET spent == compute[t] + Cost(Instr(t).program)
    IN  /\ pc[t] = "store_to"
        /\ db' = [db EXCEPT ![Instr(t).to] = to_account[t] + Instr(t).amount]
        /\ compute' = [compute EXCEPT ![t] = spent]
        /\ IF spent > Tx[t].compute_budget
           THEN Goto(t, "rollback") /\ UNCHANGED ix
           ELSE IF ix[t] < Len(Tx[t].instructions)
                THEN Goto(t, "load_from") /\ ix' = [ix EXCEPT ![t] = @ + 1]
                ELSE Goto(t, "finish") /\ UNCHANGED ix
        /\ UNCHANGED <<held, from_account, to_account, snapshot, result, totals>>

\* Mutant of Rollback: the iteration does not advance.
Rollback_KeepsSnapshot(t) ==
    /\ pc[t] = "rollback"
    /\ LET left == DOMAIN snapshot[t]
       IN  IF left = {}
           THEN Return(t, "failure") /\ UNCHANGED <<db, snapshot>>
           ELSE /\ db' = [db EXCEPT ![Least(left)] = snapshot[t][Least(left)]]
                /\ UNCHANGED <<pc, held, result, snapshot>>
    /\ UNCHANGED <<ix, compute, from_account, to_account, totals>>

\* Mutant of Rollback: accounts that were created are not removed.
Rollback_KeepsCreated(t) ==
    /\ pc[t] = "rollback"
    /\ LET left == DOMAIN snapshot[t]
       IN  IF left = {}
           THEN Return(t, "failure") /\ UNCHANGED <<db, snapshot>>
           ELSE /\ db' = IF snapshot[t][Least(left)] = NoAccount THEN db
                         ELSE [db EXCEPT ![Least(left)] = snapshot[t][Least(left)]]
                /\ snapshot' = [snapshot EXCEPT ![t] = [k \in left \ {Least(left)} |-> @[k]]]
                /\ UNCHANGED <<pc, held, result>>
    /\ UNCHANGED <<ix, compute, from_account, to_account, totals>>

\* rollback_transaction puts one account back after the other.
Rollback(t) ==
    /\ pc[t] = "rollback"
    /\ LET left == DOMAIN snapshot[t]
       IN  IF left = {}
           THEN Return(t, "failure") /\ UNCHANGED <<db, snapshot>>
           ELSE /\ db' = [db EXCEPT ![Least(left)] = snapshot[t][Least(left)]]
                /\ snapshot' = [snapshot EXCEPT ![t] = [k \in left \ {Least(left)} |-> @[k]]]
                /\ UNCHANGED <<pc, held, result>>
    /\ UNCHANGED <<ix, compute, from_account, to_account, totals>>

\* The 150 units of the last consume_compute are counted, over budget or not.
Finish(t) ==
    /\ pc[t] = "finish"
    /\ total_executed' = total_executed + 1
    /\ total_compute' = total_compute + compute[t] + 3
    /\ Return(t, "success")
    /\ UNCHANGED <<db, locals>>

Step(t) ==
    /\ t \in Batch
    /\ UNCHANGED input
    /\ \/ Start(t)
       \/ Lock(t)
       \/ FeeLoad(t)
       \/ FeeStore(t)
       \/ Snapshot(t)
       \/ LoadFrom(t)
       \/ LoadTo(t)
       \/ StoreFrom(t)
       \/ StoreTo(t)
       \/ Rollback(t)
       \/ Finish(t)

AllDone == \A t \in Batch : pc[t] = "done"

\* execute_batch returns when it has joined every thread.
Joined == AllDone /\ UNCHANGED vars

Next == (\E t \in Threads : Step(t)) \/ Joined

\* The threads are operating-system threads: each one that can run runs.
Spec == Init /\ [][Next]_vars /\ \A t \in Threads : WF_vars(Step(t))

-------------------------------------------------------------------------------
(* What a transaction should do, all at once *)

\* The effect of instruction i of t on the balances b, or the fact that it fails.
Effect(t, i, b) ==
    LET m == Tx[t].instructions[i]
        enough == b[m.from] # NoAccount /\ b[m.from] >= m.amount
        fits == b[m.to] = NoAccount \/ b[m.to] + m.amount < Word
        ok == /\ m.program \in {"system", "token"}
              /\ enough /\ fits
              /\ m.program = "system" => m.from = Tx[t].signer
              /\ m.program = "token" => /\ b[m.to] # NoAccount
                                        /\ m.from # m.to
                                        /\ Authority[m.from] = Tx[t].signer
    IN  [ok |-> ok,
         db |-> IF ok THEN [b EXCEPT ![m.from] = @ - m.amount, ![m.to] = Balance(@) + m.amount]
                      ELSE b]

\* The balances after t alone: nothing when it is rejected or cannot pay its
\* fee, the fee alone when an instruction fails or the budget runs out.
Apply(t, b) ==
    LET n == Len(Tx[t].instructions)
        payer == Tx[t].signer
        pays == /\ validate(t) /\ Tx[t].signed /\ 3 <= Tx[t].compute_budget
                /\ b[payer] # NoAccount /\ b[payer] >= Tx[t].fee
        charged == [b EXCEPT ![payer] = @ - Tx[t].fee]
        Run[i \in 0..n] ==
            IF i = 0 THEN [ok |-> TRUE, db |-> charged, cu |-> 3]
            ELSE LET before == Run[i - 1]
                     e == Effect(t, i, before.db)
                     cu == before.cu + Cost(Tx[t].instructions[i].program)
                 IN  [ok |-> before.ok /\ e.ok /\ cu <= Tx[t].compute_budget,
                      db |-> e.db, cu |-> cu]
    IN  IF ~pays THEN [ok |-> FALSE, db |-> b]
        ELSE IF Run[n].ok THEN [ok |-> TRUE, db |-> Run[n].db]
        ELSE [ok |-> FALSE, db |-> charged]

\* The batch executed one transaction after the other in the given order.
Serially(order) ==
    LET Run[i \in 0..Len(order)] ==
            IF i = 0 THEN [db |-> input.balances, ok |-> {}]
            ELSE LET e == Apply(order[i], Run[i - 1].db)
                 IN  [db |-> e.db,
                      ok |-> Run[i - 1].ok \cup (IF e.ok THEN {order[i]} ELSE {})]
    IN  Run[Len(order)]

Orders ==
    {f \in [1..Cardinality(Batch) -> Batch] : \A i, j \in DOMAIN f : i # j => f[i] # f[j]}

-------------------------------------------------------------------------------
(* Properties *)

\* Balances stay in range, a thread past lock_accounts holds all its locks, and
\* the executor's count agrees with the verdicts.
TypeOK ==
    /\ \A k \in Keys : db[k] \in Balances
    /\ \A t \in Batch :
        /\ held[t] \subseteq lock_accounts(t)
        /\ pc[t] \notin {"start", "lock", "done"} => held[t] = lock_accounts(t)
        /\ pc[t] = "done" <=> result[t] # "none"
    /\ total_executed = Cardinality({t \in Batch : result[t] = "success"})

\* The batch ends as some order of its transactions run one at a time.
InSomeOrder ==
    \E order \in Orders :
        /\ db = Serially(order).db
        /\ {t \in Batch : result[t] = "success"} = Serially(order).ok

\* Every transaction declares what its transfers store to as writable, or pays from it.
\* The code leaves this to the client: nothing compares the metas with the stores.
Declared ==
    \A t \in Batch : \A m \in Metas(t) :
        m.program \in {"system", "token"} => {m.from, m.to} \subseteq Exclusive(t)

\* A batch whose transactions declare their stores ends in the balances, and with the
\* verdicts, of some order of them run one at a time: no update is lost or half done,
\* whatever the threads do, and a failed transaction leaves its fee and nothing else.
Serializable == AllDone /\ Declared => InSomeOrder

\* A thread that cannot go on: the lock it wants is taken, or it wants to read
\* and a thread that waits to write goes first, as parking_lot's locks do it.
Waits(t) == pc[t] = "lock" /\ lock_accounts(t) \ held[t] # {}

Blocked(t) ==
    /\ Waits(t)
    /\ \/ ~CanLock(t, NextLock(t))
       \/ /\ NextLock(t) \notin Exclusive(t)
          /\ \E u \in Batch \ {t} :
                Waits(u) /\ NextLock(u) = NextLock(t) /\ NextLock(u) \in Exclusive(u)

\* What the sorted order of lock_accounts is for: the threads never all wait for
\* one another.
NoDeadlock == AllDone \/ \E t \in Batch : pc[t] # "done" /\ ~Blocked(t)

\* Every transaction of the batch gets its result.
BatchReturns == <>AllDone

\* The accounts of which a thread has a copy that it may store: those of its instruction,
\* and from the snapshot on those that a failure puts back.
InUse(t) ==
    CASE pc[t] = "fee" -> {Tx[t].signer}
      [] pc[t] = "load_to" -> {Instr(t).from} \cup DOMAIN snapshot[t]
      [] pc[t] = "store_from" -> {Instr(t).from, Instr(t).to} \cup DOMAIN snapshot[t]
      [] pc[t] = "store_to" -> {Instr(t).to} \cup DOMAIN snapshot[t]
      [] pc[t] \in {"snapshot", "load_from", "rollback"} -> DOMAIN snapshot[t]
      [] OTHER -> {}

\* Two threads work on one account at a time only if both declared it read-only: one
\* that declares an account writable, or pays from it, keeps out everybody, those who
\* store to it without saying so included.
DeclarersAlone ==
    \A t, u \in Batch : t # u => InUse(t) \cap InUse(u) \cap (Exclusive(t) \cup Exclusive(u)) = {}

\* What the locks of execute_batch do for every batch, declared or not: a thread works
\* only with all of its locks, what it declared is its own, and balances stay in range.
LocksProtect == TypeOK /\ DeclarersAlone

-------------------------------------------------------------------------------
(* Documented, but not what the code does *)

\* What the comment on account_locks says of a batch: no two transactions ever
\* race on the same account.
RaceFree == \A t, u \in Batch : t # u => InUse(t) \cap InUse(u) = {}

\* What execute_transaction says of a failure, that it rolls back the effects of the
\* instructions, for the accounts that were not declared writable too.
FailureUndone == AllDone => InSomeOrder

\* What record.rs says of two nodes: the same transactions from the same state
\* give the same state.
Deterministic ==
    AllDone => \A order \in Orders : db = Serially(order).db
===============================================================================
