----------------------------- MODULE ExecutorProofs -----------------------------
(***************************************************************************)
(* The account locks of Executor, for every batch, every set of balances   *)
(* and any number of threads: a thread works under all of its locks and    *)
(* alone on what it declared, balances stay in range, and the threads      *)
(* never all wait for one another.                                         *)
(*                                                                         *)
(* What is added to make this inductive: a key in two lock sets is locked  *)
(* exclusively by neither (Separate); what a thread holds lies below what  *)
(* it still wants (Ordered); it can put back only what it has locked       *)
(* (Snapped); and what it is about to store fits a balance (Loaded).       *)
(***************************************************************************)
EXTENDS Executor, DataFacts, FiniteSetTheorems

(* Most leaves are first-order, so Zenon is asked first. *)
USE ZenonT(2), SMT, ZenonT(10)

Labels == {"start", "lock", "fee", "snapshot", "load_from", "load_to", "store_from", "store_to",
           "rollback", "finish", "done"}

Working == Labels \ {"start", "lock", "done"}

Types ==
    /\ input \in Inputs
    /\ db \in [Keys -> Balances]
    /\ pc \in [Batch -> Labels]
    /\ held \in [Batch -> SUBSET Keys]
    /\ ix \in [Batch -> Nat]
    /\ from_account \in [Batch -> Balances]
    /\ to_account \in [Batch -> Balances]
    /\ DOMAIN snapshot = Batch
    /\ \A t \in Batch : /\ DOMAIN snapshot[t] \subseteq Keys
                        /\ \A k \in DOMAIN snapshot[t] : snapshot[t][k] \in Balances
    /\ result \in [Batch -> {"none", "success", "failure"}]

\* A thread is at one of its instructions, and what it has checked still holds of the
\* copies it has loaded.
Loaded(t) ==
    /\ pc[t] = "start" => ix[t] = 1
    /\ pc[t] \in Working \cup {"lock"} => ix[t] \in 1..Len(Tx[t].instructions)
    /\ pc[t] = "fee" => from_account[t] \in Int /\ from_account[t] >= Tx[t].fee
    /\ pc[t] = "load_to" =>
          /\ from_account[t] \in Int
          /\ Instr(t).program \in {"system", "token"}
          /\ Instr(t).program = "system" => from_account[t] >= Instr(t).amount
    /\ pc[t] = "store_from" => from_account[t] \in Int /\ from_account[t] >= Instr(t).amount
    /\ pc[t] \in {"store_from", "store_to"} =>
          /\ Instr(t).program \in {"system", "token"}
          /\ to_account[t] \in Int
          /\ to_account[t] + Instr(t).amount < Word

Locked(t) ==
    /\ held[t] \subseteq lock_accounts(t)
    /\ pc[t] \in Working => held[t] = lock_accounts(t)
    /\ pc[t] \in {"start", "done"} => held[t] = {}

Ordered(t) == \A k \in held[t], j \in lock_accounts(t) \ held[t] : k < j

Separate(t, u) == held[t] \cap held[u] \cap (Exclusive(t) \cup Exclusive(u)) = {}

Locks ==
    /\ \A t \in Batch : Locked(t) /\ Ordered(t)
    /\ \A t, u \in Batch : t # u => Separate(t, u)

Verdicts ==
    /\ \A t \in Batch : pc[t] = "done" <=> result[t] # "none"
    /\ total_executed = Cardinality({t \in Batch : result[t] = "success"})

Snapped == \A t \in Batch : DOMAIN snapshot[t] \subseteq mutable_accounts(t)

IInv == Types /\ (\A t \in Batch : Loaded(t)) /\ Locks /\ Snapped /\ Verdicts

-------------------------------------------------------------------------------
(* Batches *)

\* What the batch consists of.
LEMMA BatchTypes ==
    ASSUME input \in Inputs
    PROVE  /\ input.balances \in [Keys -> Balances]
           /\ Batch \subseteq Threads
           /\ \A t \in Batch : /\ Tx[t] \in Transaction
                               /\ DOMAIN Tx[t].instructions = 1..Len(Tx[t].instructions)
                               /\ \A i \in 1..Len(Tx[t].instructions) :
                                     Tx[t].instructions[i] \in Instruction
<1>1. /\ input.balances \in [Keys -> Balances]
      /\ DOMAIN Tx \subseteq Threads
      /\ Tx \in [DOMAIN Tx -> Transaction]
    BY ExecutorAssumption DEF Tx
<1>2. ASSUME NEW t \in Batch
      PROVE  /\ Tx[t] \in Transaction
             /\ DOMAIN Tx[t].instructions = 1..Len(Tx[t].instructions)
             /\ \A i \in 1..Len(Tx[t].instructions) : Tx[t].instructions[i] \in Instruction
    <2>1. Tx[t] \in Transaction
        BY <1>1, <1>2 DEF Batch
    <2>2. Tx[t].instructions \in Seq(Instruction)
        BY <2>1 DEF Transaction
    <2> HIDE DEF Instruction
    <2> QED BY <2>1, <2>2
<1> QED BY <1>1, <1>2 DEF Batch

\* The locks a transaction takes are on keys.
LEMMA LockTypes ==
    ASSUME input \in Inputs, NEW t \in Batch
    PROVE  /\ lock_accounts(t) \subseteq Keys
           /\ Exclusive(t) \subseteq lock_accounts(t)
           /\ mutable_accounts(t) \subseteq Keys
           /\ mutable_accounts(t) \subseteq lock_accounts(t)
           /\ \A m \in Metas(t) : m.from \in lock_accounts(t) /\ m.to \in lock_accounts(t)
<1>1. Tx[t] \in Transaction /\ DOMAIN Tx[t].instructions = 1..Len(Tx[t].instructions)
    BY BatchTypes
<1>2. \A m \in Metas(t) : m.from \in Keys /\ m.to \in Keys
    BY <1>1, BatchTypes DEF Metas, Instruction
<1>3. Tx[t].signer \in Keys
    BY <1>1 DEF Transaction
<1>4. write_accounts(t) \subseteq Keys /\ read_accounts(t) \subseteq Keys
    BY <1>2 DEF write_accounts, read_accounts
<1>5. ASSUME NEW m \in Metas(t) PROVE {m.from, m.to} \subseteq lock_accounts(t)
    <2>1. {m.from, m.to} \subseteq write_accounts(t) \cup read_accounts(t)
        BY DEF write_accounts, read_accounts
    <2> QED BY <2>1 DEF lock_accounts, Exclusive
<1> QED BY <1>3, <1>4, <1>5 DEF lock_accounts, Exclusive, mutable_accounts

\* The batch does not change while it is executed.
LEMMA SameBatch ==
    ASSUME input' = input
    PROVE  /\ Tx' = Tx
           /\ Batch' = Batch
           /\ \A t : /\ Exclusive(t)' = Exclusive(t)
                     /\ lock_accounts(t)' = lock_accounts(t)
                     /\ mutable_accounts(t)' = mutable_accounts(t)
BY DEF Tx, Batch, Exclusive, lock_accounts, mutable_accounts, write_accounts, read_accounts, Metas

\* The first lock that a thread misses.
LEMMA NextLockIsLeast ==
    ASSUME input \in Inputs, NEW t \in Batch, lock_accounts(t) \ held[t] # {}
    PROVE  /\ NextLock(t) \in lock_accounts(t) \ held[t]
           /\ \A j \in lock_accounts(t) \ held[t] : NextLock(t) <= j
<1>1. lock_accounts(t) \ held[t] \in SUBSET Nat
    BY LockTypes DEF Keys
<1>2. \E k \in lock_accounts(t) \ held[t] : \A j \in lock_accounts(t) \ held[t] : k <= j
    BY <1>1, LeastNatural
<1> QED BY <1>2 DEF NextLock

-------------------------------------------------------------------------------
(* The locks *)

\* A step that leaves the locks alone, or gives all of its thread's locks back at the end.
LEMMA KeepsLocks ==
    ASSUME IInv, NEW t \in Batch, input' = input, NEW label \in Labels,
           pc' = [pc EXCEPT ![t] = label],
           \/ held' = held /\ label \in Working /\ held[t] = lock_accounts(t)
           \/ held' = held /\ label = "lock" /\ pc[t] \in {"start", "lock"}
           \/ held' = [held EXCEPT ![t] = {}] /\ label = "done"
    PROVE  Locks'
<1>1. Types /\ Locks
    BY DEF IInv
<1>2. \A u \in Batch : held'[u] = held[u] \/ (u = t /\ held'[u] = {})
    BY <1>1 DEF Types
<1>3. ASSUME NEW u \in Batch PROVE Locked(u)' /\ Ordered(u)'
    <2>1. Locked(u) /\ Ordered(u)
        BY <1>1 DEF Locks
    <2>2. CASE u # t
        <3>1. held'[u] = held[u] /\ pc'[u] = pc[u]
            BY <1>1, <1>2, <2>2 DEF Types
        <3> QED BY <2>1, <3>1, SameBatch DEF Locked, Ordered
    <2>3. CASE u = t
        <3>1. pc'[u] = label
            BY <1>1, <2>3 DEF Types
        <3>2. CASE held' = held /\ label \in Working /\ held[t] = lock_accounts(t)
            BY <2>1, <2>3, <3>1, <3>2, SameBatch DEF Locked, Ordered, Working
        <3>3. CASE held' = held /\ label = "lock" /\ pc[t] \in {"start", "lock"}
            BY <2>1, <2>3, <3>1, <3>3, SameBatch DEF Locked, Ordered, Working
        <3>4. CASE held' = [held EXCEPT ![t] = {}] /\ label = "done"
            <4>1. held'[u] = {}
                BY <1>1, <2>3, <3>4 DEF Types
            <4> QED BY <3>1, <3>4, <4>1 DEF Locked, Ordered, Working
        <3> QED BY <3>2, <3>3, <3>4
    <2> QED BY <2>2, <2>3
<1>4. ASSUME NEW u \in Batch, NEW w \in Batch, u # w PROVE Separate(u, w)'
    BY <1>1, <1>2, <1>4, SameBatch DEF Locks, Separate
<1> QED BY <1>3, <1>4, SameBatch DEF Locks

\* A thread takes the next key, which no other thread holds against it.
LEMMA TakesLock ==
    ASSUME IInv, NEW t \in Batch, input' = input, Lock(t)
    PROVE  Locks' /\ held' \in [Batch -> SUBSET Keys]
<1>1. Types /\ Locks
    BY DEF IInv
<1> DEFINE k == NextLock(t)
<1>2. k \in lock_accounts(t) \ held[t] /\ \A j \in lock_accounts(t) \ held[t] : k <= j
    BY <1>1, NextLockIsLeast DEF Types, Lock
<1>3. /\ pc' = pc /\ pc[t] = "lock"
      /\ held' = [held EXCEPT ![t] = held[t] \cup {k}]
      /\ \A u \in Batch \ {t} : k \in held[u] => k \notin Exclusive(t) /\ k \notin Exclusive(u)
    BY DEF Lock, CanLock
<1> HIDE DEF k
<1>4. held'[t] = held[t] \cup {k} /\ \A u \in Batch : u # t => held'[u] = held[u]
    BY <1>1, <1>3 DEF Types
<1>5. lock_accounts(t) \subseteq Nat /\ lock_accounts(t) \subseteq Keys
    BY <1>1, LockTypes DEF Types, Keys
<1>6. ASSUME NEW u \in Batch PROVE Locked(u)' /\ Ordered(u)'
    <2>1. Locked(u) /\ Ordered(u)
        BY <1>1 DEF Locks
    <2>2. CASE u # t
        BY <1>3, <1>4, <2>1, <2>2, SameBatch DEF Locked, Ordered
    <2>3. CASE u = t
        <3>1. Locked(u)'
            BY <1>2, <1>3, <1>4, <2>1, <2>3, SameBatch DEF Locked, Working
        <3>2. Ordered(u)'
            BY <1>2, <1>4, <1>5, <2>1, <2>3, SameBatch DEF Ordered, Locked
        <3> QED BY <3>1, <3>2
    <2> QED BY <2>2, <2>3
<1>7. ASSUME NEW u \in Batch, NEW w \in Batch, u # w PROVE Separate(u, w)'
    <2>1. Separate(u, w)
        BY <1>1, <1>7 DEF Locks
    <2>2. CASE u = t
        BY <1>3, <1>4, <1>7, <2>1, <2>2, SameBatch DEF Separate
    <2>3. CASE w = t
        BY <1>3, <1>4, <1>7, <2>1, <2>3, SameBatch DEF Separate
    <2>4. CASE u # t /\ w # t
        BY <1>4, <2>1, <2>4, SameBatch DEF Separate
    <2> QED BY <2>2, <2>3, <2>4
<1>8. held' \in [Batch -> SUBSET Keys]
    BY <1>1, <1>2, <1>3, <1>5 DEF Types
<1> QED BY <1>6, <1>7, <1>8, SameBatch DEF Locks

\* Every step of a thread is one of the two kinds.
LEMMA LocksStep ==
    ASSUME IInv, NEW t \in Batch, Step(t)
    PROVE  Locks'
<1>1. Types /\ Locks /\ Locked(t) /\ input' = input
    BY DEF IInv, Locks, Step
<1>2. CASE Start(t)
    BY <1>1, <1>2, KeepsLocks DEF Start, Goto, Return, Labels
<1>3. CASE Lock(t)
    BY <1>1, <1>3, TakesLock
<1>4. CASE FeeLoad(t)
    <2>1. held[t] = lock_accounts(t)
        BY <1>1, <1>4 DEF Locked, FeeLoad
    <2> QED BY <1>1, <1>4, <2>1, KeepsLocks DEF FeeLoad, Goto, Return, Labels, Working
<1>5. CASE \/ FeeStore(t) \/ Snapshot(t) \/ LoadFrom(t) \/ LoadTo(t)
           \/ StoreFrom(t) \/ StoreTo(t) \/ Rollback(t) \/ Finish(t)
    <2>1. pc[t] \in Working /\ held[t] = lock_accounts(t)
        BY <1>1, <1>5 DEF Locked, Working, Labels, FeeStore, Snapshot, LoadFrom, LoadTo,
                          StoreFrom, StoreTo, Rollback, Finish
    <2>2. \E label \in Labels :
              /\ pc' = [pc EXCEPT ![t] = label]
              /\ \/ held' = held /\ label \in Working
                 \/ held' = [held EXCEPT ![t] = {}] /\ label = "done"
        <3>1. pc' = pc => pc' = [pc EXCEPT ![t] = pc[t]]
            BY <1>1 DEF Types
        <3>2. CASE FeeStore(t)
            BY <3>2 DEF FeeStore, Goto, Labels, Working
        <3>3. CASE Snapshot(t)
            BY <3>1, <3>3, <2>1 DEF Snapshot, Goto, Labels, Working
        <3>4. CASE LoadFrom(t)
            BY <3>4 DEF LoadFrom, Goto, Labels, Working
        <3>5. CASE LoadTo(t)
            BY <3>5 DEF LoadTo, Goto, Labels, Working
        <3>6. CASE StoreFrom(t)
            BY <3>6 DEF StoreFrom, Goto, Labels, Working
        <3>7. CASE StoreTo(t)
            BY <3>7 DEF StoreTo, Goto, Labels, Working
        <3>8. CASE Rollback(t)
            BY <3>1, <3>8, <2>1 DEF Rollback, Return, Goto, Labels, Working
        <3>9. CASE Finish(t)
            BY <3>9 DEF Finish, Return, Goto, Labels, Working
        <3> QED BY <1>5, <3>2, <3>3, <3>4, <3>5, <3>6, <3>7, <3>8, <3>9
    <2> QED BY <1>1, <2>1, <2>2, KeepsLocks
<1> QED BY <1>2, <1>3, <1>4, <1>5 DEF Step

-------------------------------------------------------------------------------
(* Balances and copies *)

\* The fields of an instruction that a thread is at.
LEMMA InstrTypes ==
    ASSUME IInv, NEW t \in Batch, pc[t] \in Working
    PROVE  /\ Instr(t).from \in Keys /\ Instr(t).to \in Keys /\ Instr(t).amount \in Nat
           /\ Tx[t].fee \in Nat /\ Tx[t].signer \in Keys
           /\ Len(Tx[t].instructions) \in Nat
<1>1. Tx[t] \in Transaction /\ ix[t] \in 1..Len(Tx[t].instructions)
    BY BatchTypes DEF IInv, Types, Loaded
<1>2. Instr(t) \in Instruction
    BY <1>1, BatchTypes DEF IInv, Types, Instr
<1> QED BY <1>1, <1>2 DEF Transaction, Instruction

\* What a thread has loaded is its own.
LEMMA OthersLoaded ==
    ASSUME IInv, input' = input, NEW u \in Batch, pc'[u] = pc[u], ix'[u] = ix[u],
           from_account'[u] = from_account[u], to_account'[u] = to_account[u]
    PROVE  Loaded(u)'
BY SameBatch DEF IInv, Loaded, Instr, Working

\* The least key of a set.
LEMMA LeastKey ==
    ASSUME NEW S \in SUBSET Keys, S # {}
    PROVE  Least(S) \in S
<1>1. \E k \in S : \A j \in S : k <= j
    BY LeastNatural DEF Keys
<1> QED BY <1>1 DEF Least

\* A value that fits is a balance.
LEMMA FitsBalance ==
    ASSUME NEW n \in Int, 0 <= n, n < Word
    PROVE  n \in Balances
BY ExecutorAssumption DEF Balances

\* What is left after a debit that was checked, and the sum after a credit that was.
LEMMA RestFits ==
    ASSUME NEW n \in Int, NEW m \in Nat, n >= m, n < Word
    PROVE  n - m \in Balances
<1>1. Word \in Nat
    BY ExecutorAssumption
<1>2. n - m \in Int /\ 0 <= n - m /\ n - m < Word
    BY <1>1
<1> QED BY <1>2, FitsBalance

LEMMA SumFits ==
    ASSUME NEW n \in Int, NEW m \in Nat, 0 <= n, n + m < Word
    PROVE  n + m \in Balances
<1>1. n + m \in Int /\ 0 <= n + m
    OBVIOUS
<1> QED BY <1>1, FitsBalance

\* A balance is a number, or that of no account.
LEMMA BalanceCases ==
    ASSUME NEW n \in Balances
    PROVE  n # NoAccount => n \in Int /\ 0 <= n /\ n < Word
BY ExecutorAssumption DEF Balances

\* Storing a balance keeps the accounts in range.
LEMMA StoreTypes ==
    ASSUME Types, NEW k \in Keys, NEW n \in Balances, db' = [db EXCEPT ![k] = n]
    PROVE  db' \in [Keys -> Balances]
BY DEF Types

\* Nothing is said of a thread that is done.
LEMMA DoneLoaded ==
    ASSUME NEW t, pc'[t] = "done"
    PROVE  Loaded(t)'
BY DEF Loaded, Working, Labels

\* The steps before the first instruction.
LEMMA DataBegins ==
    ASSUME IInv, NEW t \in Batch, input' = input,
           Start(t) \/ Lock(t) \/ FeeLoad(t) \/ FeeStore(t) \/ Snapshot(t)
    PROVE  Types' /\ Loaded(t)'
<1> USE DEF Goto, Return, Labels, Working
<1>1. Types /\ Loaded(t) /\ Batch' = Batch /\ Tx' = Tx
    BY SameBatch DEF IInv
<1>2. Tx[t] \in Transaction /\ Tx[t].instructions \in Seq(Instruction)
    BY <1>1, BatchTypes DEF Types, Transaction
<1>3. CASE Start(t)
    <2>1. Types'
        BY <1>1, <1>3 DEF Start, Types, locals, totals
    <2>2. pc'[t] = "lock" => Tx[t].instructions # << >>
        BY <1>1, <1>3 DEF Start, Types, validate
    <2>3. Tx[t].instructions # << >> => 1 \in 1..Len(Tx[t].instructions)
        BY <1>2
    <2>4. Loaded(t)'
        <3>1. pc'[t] \in {"lock", "done"} /\ ix'[t] = 1
            BY <1>1, <1>3 DEF Start, Types, Loaded, locals
        <3> QED BY <1>1, <2>2, <2>3, <3>1 DEF Loaded
    <2> QED BY <2>1, <2>4
<1>4. CASE Lock(t)
    <2>1. held' \in [Batch -> SUBSET Keys]
        BY <1>4, TakesLock
    <2> QED BY <1>1, <1>4, <2>1 DEF Lock, Types, Loaded, Instr, locals, totals
<1>5. CASE FeeLoad(t)
    <2>1. Tx[t].signer \in Keys /\ Tx[t].fee \in Nat
        BY <1>2 DEF Transaction
    <2>2. db[Tx[t].signer] \in Balances
        BY <1>1, <2>1 DEF Types
    <2>3. pc[t] = "lock"
        BY <1>5 DEF FeeLoad
    <2>4. \/ /\ pc' = [pc EXCEPT ![t] = "done"]
             /\ held' = [held EXCEPT ![t] = {}]
             /\ result' = [result EXCEPT ![t] = "failure"]
             /\ from_account' = from_account
          \/ /\ db[Tx[t].signer] # NoAccount /\ ~(db[Tx[t].signer] < Tx[t].fee)
             /\ pc' = [pc EXCEPT ![t] = "fee"]
             /\ from_account' = [from_account EXCEPT ![t] = db[Tx[t].signer]]
             /\ UNCHANGED <<held, result>>
        BY <1>5 DEF FeeLoad
    <2>5. UNCHANGED <<db, ix, to_account, snapshot>>
        BY <1>5 DEF FeeLoad
    <2>6. Types'
        BY <1>1, <2>2, <2>4, <2>5 DEF Types
    <2>7. CASE pc'[t] = "done"
        BY <2>6, <2>7, DoneLoaded
    <2>8. CASE pc'[t] # "done"
        <3>1. /\ pc'[t] = "fee" /\ from_account'[t] = db[Tx[t].signer]
              /\ db[Tx[t].signer] # NoAccount /\ ~(db[Tx[t].signer] < Tx[t].fee)
              /\ ix' = ix
            BY <1>1, <2>4, <2>8, <2>5 DEF Types
        <3>2. from_account'[t] \in Int /\ from_account'[t] >= Tx[t].fee
            <4>1. db[Tx[t].signer] \in Int
                BY <2>2, <3>1, BalanceCases
            <4> QED BY <2>1, <3>1, <4>1
        <3>3. ix'[t] \in 1..Len(Tx[t].instructions)
            BY <1>1, <2>3, <3>1 DEF Loaded
        <3> QED BY <1>1, <2>6, <3>1, <3>2, <3>3 DEF Loaded
    <2> QED BY <2>7, <2>8
<1>6. CASE FeeStore(t)
    <2>1. pc[t] = "fee"
        BY <1>6 DEF FeeStore
    <2>2. Tx[t].fee \in Nat /\ Tx[t].signer \in Keys
        BY <2>1, InstrTypes
    <2>3. from_account[t] \in Int /\ from_account[t] >= Tx[t].fee /\ from_account[t] < Word
        BY <1>1, <2>1, BalanceCases, ExecutorAssumption DEF Types, Loaded
    <2>4. from_account[t] - Tx[t].fee \in Balances
        BY <2>2, <2>3, RestFits
    <2>5. db' \in [Keys -> Balances]
        BY <1>1, <1>6, <2>2, <2>4, StoreTypes DEF FeeStore
    <2>6. Types'
        BY <1>1, <1>6, <2>5 DEF FeeStore, Types, locals
    <2>7. Loaded(t)'
        BY <1>1, <1>6, <2>1 DEF FeeStore, Types, Loaded, locals
    <2> QED BY <2>6, <2>7
<1>7. CASE Snapshot(t)
    <2> DEFINE left == mutable_accounts(t) \ DOMAIN snapshot[t]
               taken == {Least(left)} \cup DOMAIN snapshot[t]
    <2>1. left \in SUBSET Keys
        BY <1>1, LockTypes DEF Types
    <2>2. left # {} => Least(left) \in Keys
        BY <2>1, LeastKey
    <2>3. left = {} => pc' = [pc EXCEPT ![t] = "load_from"] /\ snapshot' = snapshot
        BY <1>7 DEF Snapshot
    <2>4. left # {} => /\ pc' = pc
                       /\ snapshot' = [snapshot EXCEPT ![t] =
                             [k \in taken |-> IF k = Least(left) THEN db[k] ELSE snapshot[t][k]]]
        BY <1>7 DEF Snapshot
    <2>5. /\ UNCHANGED <<db, held, ix, from_account, to_account, result>> /\ pc[t] = "snapshot"
        BY <1>7 DEF Snapshot
    <2> HIDE DEF left
    <2>6. /\ DOMAIN snapshot' = Batch
          /\ \A u \in Batch : /\ DOMAIN snapshot'[u] \subseteq Keys
                              /\ \A k \in DOMAIN snapshot'[u] : snapshot'[u][k] \in Balances
        <3>1. CASE left = {}
            BY <1>1, <2>3, <3>1 DEF Types
        <3>2. CASE left # {}
            <4>1. DOMAIN snapshot' = Batch /\ \A u \in Batch \ {t} : snapshot'[u] = snapshot[u]
                BY <1>1, <2>4, <3>2 DEF Types
            <4>2. snapshot'[t] = [k \in taken |-> IF k = Least(left) THEN db[k] ELSE snapshot[t][k]]
                BY <1>1, <2>4, <3>2 DEF Types
            <4>3. /\ DOMAIN snapshot'[t] \subseteq Keys
                  /\ \A k \in DOMAIN snapshot'[t] : snapshot'[t][k] \in Balances
                BY <1>1, <2>2, <3>2, <4>2 DEF Types
            <4> QED BY <1>1, <4>1, <4>3 DEF Types
        <3> QED BY <3>1, <3>2
    <2>7. pc' \in [Batch -> Labels] /\ pc'[t] \in {"snapshot", "load_from"}
        BY <1>1, <2>3, <2>4, <2>5 DEF Types
    <2>8. Types'
        BY <1>1, <2>5, <2>6, <2>7 DEF Types
    <2>9. Loaded(t)'
        BY <1>1, <2>5, <2>7 DEF Loaded
    <2> QED BY <2>8, <2>9
<1> QED BY <1>3, <1>4, <1>5, <1>6, <1>7

\* The steps of a transfer: what is stored was checked when it was loaded.
LEMMA DataTransfers ==
    ASSUME IInv, NEW t \in Batch, input' = input,
           LoadFrom(t) \/ LoadTo(t) \/ StoreFrom(t) \/ StoreTo(t)
    PROVE  Types' /\ Loaded(t)'
<1> USE DEF Goto, Labels, Working
<1>1. Types /\ Loaded(t) /\ Batch' = Batch /\ Tx' = Tx
    BY SameBatch DEF IInv
<1>2. pc[t] \in Working
    BY DEF LoadFrom, LoadTo, StoreFrom, StoreTo
<1>3. /\ Instr(t).from \in Keys /\ Instr(t).to \in Keys /\ Instr(t).amount \in Nat
      /\ Len(Tx[t].instructions) \in Nat
    BY <1>2, InstrTypes
<1>4. ix'[t] = ix[t] => Instr(t)' = Instr(t)
    BY <1>1 DEF Instr
<1>5. from_account[t] \in Balances /\ to_account[t] \in Balances /\ ix[t] \in 1..Len(Tx[t].instructions)
    BY <1>1, <1>2 DEF Types, Loaded
<1>6. CASE LoadFrom(t)
    <2> DEFINE account == db[Instr(t).from]
    <2>1. account \in Balances
        BY <1>1, <1>3 DEF Types
    <2>2. Types'
        BY <1>1, <1>6, <2>1 DEF LoadFrom, Types, totals
    <2>3. /\ pc'[t] = IF SourceOK(t, account) THEN "load_to" ELSE "rollback"
          /\ from_account'[t] = account /\ ix'[t] = ix[t]
        BY <1>1, <1>6 DEF LoadFrom, Types
    <2>4. SourceOK(t, account) =>
              /\ account \in Int
              /\ Instr(t).program \in {"system", "token"}
              /\ Instr(t).program = "system" => account >= Instr(t).amount
        BY <2>1, BalanceCases DEF SourceOK
    <2>5. Loaded(t)'
        BY <1>1, <1>4, <1>5, <2>3, <2>4 DEF Loaded
    <2> QED BY <2>2, <2>5
<1>7. CASE LoadTo(t)
    <2> DEFINE account == db[Instr(t).to]
    <2>1. account \in Balances
        BY <1>1, <1>3 DEF Types
    <2>2. Balance(account) \in Balances
        <3>1. from_account[t] \in Int /\ 0 <= from_account[t] /\ from_account[t] < Word
            <4>1. from_account[t] \in Int
                BY <1>1, <1>7 DEF LoadTo, Loaded
            <4>2. from_account[t] # NoAccount
                BY <4>1, ExecutorAssumption
            <4> QED BY <1>5, <4>2, BalanceCases
        <3>2. 0 < Word
            BY <3>1, ExecutorAssumption
        <3>3. 0 \in Balances
            BY <3>2, FitsBalance
        <3> QED BY <2>1, <3>3 DEF Balance
    <2>3. Types'
        BY <1>1, <1>7, <2>2 DEF LoadTo, Types, totals
    <2>4. /\ pc'[t] = IF DestinationOK(t, from_account[t], account) THEN "store_from" ELSE "rollback"
          /\ to_account'[t] = Balance(account) /\ ix'[t] = ix[t] /\ from_account'[t] = from_account[t]
        BY <1>1, <1>7 DEF LoadTo, Types
    <2>5. pc[t] = "load_to"
        BY <1>7 DEF LoadTo
    <2>6. /\ from_account[t] \in Int /\ from_account[t] < Word
          /\ Instr(t).program \in {"system", "token"}
          /\ Instr(t).program = "system" => from_account[t] >= Instr(t).amount
        BY <1>1, <1>5, <2>5, BalanceCases, ExecutorAssumption DEF Loaded
    <2>7. ASSUME DestinationOK(t, from_account[t], account)
          PROVE  /\ from_account[t] >= Instr(t).amount
                 /\ Balance(account) \in Int
                 /\ Balance(account) + Instr(t).amount < Word
        <3>1. from_account[t] >= Instr(t).amount
            BY <2>6, <2>7 DEF DestinationOK
        <3>2. CASE account = NoAccount
            <4>1. Balance(account) = 0 /\ Word \in Nat
                BY <3>2, ExecutorAssumption DEF Balance
            <4> QED BY <1>3, <2>6, <3>1, <4>1
        <3>3. CASE account # NoAccount
            BY <2>1, <2>7, <3>1, <3>3, BalanceCases DEF Balance, DestinationOK
        <3> QED BY <3>2, <3>3
    <2>8. Loaded(t)'
        BY <1>1, <1>4, <1>5, <2>4, <2>6, <2>7 DEF Loaded
    <2> QED BY <2>3, <2>8
<1>8. CASE StoreFrom(t)
    <2>1. pc[t] = "store_from"
        BY <1>8 DEF StoreFrom
    <2>2. /\ from_account[t] \in Int /\ from_account[t] < Word
          /\ from_account[t] >= Instr(t).amount
        BY <1>1, <1>5, <2>1, BalanceCases, ExecutorAssumption DEF Loaded
    <2>3. from_account[t] - Instr(t).amount \in Balances
        BY <1>3, <2>2, RestFits
    <2>4. db' \in [Keys -> Balances]
        BY <1>1, <1>3, <1>8, <2>3, StoreTypes DEF StoreFrom
    <2>5. Types'
        BY <1>1, <1>8, <2>4 DEF StoreFrom, Types, locals
    <2>6. pc'[t] = "store_to" /\ ix'[t] = ix[t] /\ to_account' = to_account
        BY <1>1, <1>8 DEF StoreFrom, Types, locals
    <2>7. Loaded(t)'
        BY <1>1, <1>4, <1>5, <2>1, <2>6 DEF Loaded
    <2> QED BY <2>5, <2>7
<1>9. CASE StoreTo(t)
    <2>1. pc[t] = "store_to"
        BY <1>9 DEF StoreTo
    <2>2. to_account[t] \in Int /\ 0 <= to_account[t] /\ to_account[t] + Instr(t).amount < Word
        BY <1>1, <1>5, <2>1, BalanceCases, ExecutorAssumption DEF Loaded
    <2>3. to_account[t] + Instr(t).amount \in Balances
        BY <1>3, <2>2, SumFits
    <2>4. db' \in [Keys -> Balances]
        BY <1>1, <1>3, <1>9, <2>3, StoreTypes DEF StoreTo
    <2>5. /\ UNCHANGED <<held, from_account, to_account, snapshot, result>>
          /\ \/ pc' = [pc EXCEPT ![t] = "rollback"] /\ ix' = ix
             \/ pc' = [pc EXCEPT ![t] = "finish"] /\ ix' = ix
             \/ /\ pc' = [pc EXCEPT ![t] = "load_from"] /\ ix' = [ix EXCEPT ![t] = ix[t] + 1]
                /\ ix[t] < Len(Tx[t].instructions)
        BY <1>9 DEF StoreTo
    <2>6. Types'
        <3>1. pc' \in [Batch -> Labels] /\ ix' \in [Batch -> Nat]
            <4>1. pc \in [Batch -> Labels] /\ ix \in [Batch -> Nat]
                BY <1>1 DEF Types
            <4> QED BY <2>5, <4>1
        <3> QED BY <1>1, <2>4, <2>5, <3>1 DEF Types
    <2>7. ix'[t] \in 1..Len(Tx[t].instructions)
        <3>1. ix'[t] = ix[t] \/ (ix'[t] = ix[t] + 1 /\ ix[t] < Len(Tx[t].instructions))
            BY <1>1, <2>5 DEF Types
        <3> QED BY <1>3, <1>5, <3>1
    <2>8. pc'[t] \in {"rollback", "finish", "load_from"}
        BY <1>1, <2>5 DEF Types
    <2>9. Loaded(t)'
        BY <1>1, <2>7, <2>8 DEF Loaded
    <2> QED BY <2>6, <2>9
<1> QED BY <1>6, <1>7, <1>8, <1>9

\* The steps that end a transaction: what is put back was a balance.
LEMMA DataEnds ==
    ASSUME IInv, NEW t \in Batch, input' = input, Rollback(t) \/ Finish(t)
    PROVE  Types' /\ Loaded(t)'
<1> USE DEF Goto, Return, Labels, Working
<1>1. Types /\ Loaded(t) /\ Batch' = Batch /\ Tx' = Tx
    BY SameBatch DEF IInv
<1>2. CASE Finish(t)
    <2>1. Types'
        BY <1>1, <1>2 DEF Finish, Types, locals
    <2>2. pc'[t] = "done"
        BY <1>1, <1>2 DEF Finish, Types
    <2> QED BY <2>1, <2>2, DoneLoaded
<1>3. CASE Rollback(t)
    <2> DEFINE left == DOMAIN snapshot[t]
    <2>1. UNCHANGED <<ix, from_account, to_account>> /\ pc[t] = "rollback"
        BY <1>3 DEF Rollback
    <2>2. CASE left = {}
        <3>1. Types'
            BY <1>1, <1>3, <2>2 DEF Rollback, Types
        <3>2. pc'[t] = "done"
            BY <1>1, <1>3, <2>2 DEF Rollback, Types
        <3> QED BY <3>1, <3>2, DoneLoaded
    <2>3. CASE left # {}
        <3>1. Least(left) \in left /\ left \subseteq Keys
            BY <1>1, <2>3, LeastKey DEF Types
        <3>2. snapshot[t][Least(left)] \in Balances
            BY <1>1, <3>1 DEF Types
        <3>3. /\ db' = [db EXCEPT ![Least(left)] = snapshot[t][Least(left)]]
              /\ snapshot' = [snapshot EXCEPT ![t] = [k \in left \ {Least(left)} |-> snapshot[t][k]]]
              /\ UNCHANGED <<pc, held, result>>
            BY <1>3, <2>3 DEF Rollback
        <3>4. db' \in [Keys -> Balances]
            BY <1>1, <3>1, <3>2, <3>3, StoreTypes
        <3>5. /\ DOMAIN snapshot' = Batch
              /\ \A u \in Batch : /\ DOMAIN snapshot'[u] \subseteq Keys
                                  /\ \A k \in DOMAIN snapshot'[u] : snapshot'[u][k] \in Balances
            BY <1>1, <3>1, <3>3 DEF Types
        <3>6. Types'
            BY <1>1, <2>1, <3>3, <3>4, <3>5 DEF Types
        <3>7. Loaded(t)'
            BY <2>1, <3>3, <1>1, OthersLoaded
        <3> QED BY <3>6, <3>7
    <2> QED BY <2>2, <2>3
<1> QED BY <1>2, <1>3

\* What can be put back is what the snapshot goes over.
LEMMA SnappedStep ==
    ASSUME IInv, NEW t \in Batch, Step(t)
    PROVE  Snapped'
<1>1. Types /\ Snapped /\ Batch' = Batch /\ \A u : mutable_accounts(u)' = mutable_accounts(u)
    BY SameBatch DEF IInv, Step
<1>2. CASE UNCHANGED snapshot
    BY <1>1, <1>2 DEF Snapped
<1>3. CASE Snapshot(t)
    <2> DEFINE left == mutable_accounts(t) \ DOMAIN snapshot[t]
               taken == {Least(left)} \cup DOMAIN snapshot[t]
    <2>1. CASE left = {}
        BY <1>2, <1>3, <2>1 DEF Snapshot
    <2>2. CASE left # {}
        <3>1. Least(left) \in left
            <4>1. left \in SUBSET Keys
                BY <1>1, LockTypes DEF Types
            <4> QED BY <2>2, <4>1, LeastKey
        <3>2. snapshot' = [snapshot EXCEPT ![t] =
                  [k \in taken |-> IF k = Least(left) THEN db[k] ELSE snapshot[t][k]]]
            BY <1>3, <2>2 DEF Snapshot
        <3>3. DOMAIN snapshot'[t] = taken /\ \A u \in Batch \ {t} : snapshot'[u] = snapshot[u]
            BY <1>1, <3>2 DEF Types
        <3>4. taken \subseteq mutable_accounts(t)
            BY <1>1, <3>1 DEF Snapped
        <3> HIDE DEF taken
        <3> QED BY <1>1, <3>3, <3>4 DEF Snapped
    <2> QED BY <2>1, <2>2
<1>4. CASE Rollback(t)
    <2> DEFINE left == DOMAIN snapshot[t]
               rest == left \ {Least(left)}
    <2>1. CASE left = {}
        BY <1>2, <1>4, <2>1 DEF Rollback
    <2>2. CASE left # {}
        <3>1. snapshot' = [snapshot EXCEPT ![t] = [k \in rest |-> snapshot[t][k]]]
            BY <1>4, <2>2 DEF Rollback
        <3>2. DOMAIN snapshot'[t] = rest /\ \A u \in Batch \ {t} : snapshot'[u] = snapshot[u]
            BY <1>1, <3>1 DEF Types
        <3>3. rest \subseteq mutable_accounts(t)
            BY <1>1 DEF Snapped
        <3> HIDE DEF rest
        <3> QED BY <1>1, <3>2, <3>3 DEF Snapped
    <2> QED BY <2>1, <2>2
<1> QED BY <1>2, <1>3, <1>4 DEF Step, Start, Lock, FeeLoad, FeeStore, LoadFrom, LoadTo,
                               StoreFrom, StoreTo, Finish, locals

-------------------------------------------------------------------------------
(* Verdicts *)

\* A thread that is not done gets its verdict once, and a success is counted.
LEMMA VerdictsStep ==
    ASSUME IInv, NEW t \in Batch, Step(t)
    PROVE  Verdicts'
<1> DEFINE winners == {u \in Batch : result[u] = "success"}
<1>1. Types /\ Verdicts /\ Batch' = Batch /\ pc[t] # "done" /\ result[t] = "none"
    <2>1. pc[t] # "done"
        BY DEF Step, Start, Lock, FeeLoad, FeeStore, Snapshot, LoadFrom, LoadTo, StoreFrom,
               StoreTo, Rollback, Finish
    <2> QED BY <2>1, SameBatch DEF IInv, Step, Verdicts
<1>2. CASE pc'[t] # "done" /\ UNCHANGED <<result, total_executed>> /\ \A u \in Batch \ {t} : pc'[u] = pc[u]
    BY <1>1, <1>2 DEF Verdicts
<1>3. CASE /\ pc' = [pc EXCEPT ![t] = "done"] /\ result' = [result EXCEPT ![t] = "failure"]
           /\ UNCHANGED total_executed
    <2>1. {u \in Batch : result'[u] = "success"} = winners
        BY <1>1, <1>3 DEF Types
    <2>2. \A u \in Batch : pc'[u] = "done" <=> result'[u] # "none"
        BY <1>1, <1>3 DEF Types, Verdicts
    <2> QED BY <1>1, <1>3, <2>1, <2>2 DEF Verdicts
<1>4. CASE /\ pc' = [pc EXCEPT ![t] = "done"] /\ result' = [result EXCEPT ![t] = "success"]
           /\ total_executed' = total_executed + 1
    <2>1. {u \in Batch : result'[u] = "success"} = winners \cup {t} /\ t \notin winners
        BY <1>1, <1>4 DEF Types
    <2>2. IsFiniteSet(winners)
        BY <1>1, BatchTypes, FS_Subset, ExecutorAssumption DEF Types
    <2>3. Cardinality(winners \cup {t}) = Cardinality(winners) + 1
        BY <2>1, <2>2, FS_AddElement
    <2>4. \A u \in Batch : pc'[u] = "done" <=> result'[u] # "none"
        BY <1>1, <1>4 DEF Types, Verdicts
    <2> QED BY <1>1, <1>4, <2>1, <2>3, <2>4 DEF Verdicts
<1>5. CASE Start(t) \/ FeeLoad(t)
    BY <1>1, <1>2, <1>3, <1>5 DEF Start, FeeLoad, Goto, Return, Types, totals
<1>6. CASE Rollback(t)
    BY <1>1, <1>2, <1>3, <1>6 DEF Rollback, Goto, Return, Types, totals
<1>7. CASE Finish(t)
    BY <1>4, <1>7 DEF Finish, Goto, Return
<1>8. CASE \/ Lock(t) \/ FeeStore(t) \/ Snapshot(t) \/ LoadFrom(t)
           \/ LoadTo(t) \/ StoreFrom(t) \/ StoreTo(t)
    <2>1. UNCHANGED <<result, total_executed>>
        BY <1>8 DEF Lock, FeeStore, Snapshot, LoadFrom, LoadTo, StoreFrom, StoreTo, totals
    <2>2. pc' = pc \/ \E label \in Labels \ {"done"} : pc' = [pc EXCEPT ![t] = label]
        <3>1. CASE Lock(t) \/ FeeStore(t) \/ Snapshot(t)
            BY <3>1 DEF Lock, FeeStore, Snapshot, Goto, Labels
        <3>2. CASE LoadFrom(t) \/ LoadTo(t)
            BY <3>2 DEF LoadFrom, LoadTo, Goto, Labels
        <3>3. CASE StoreFrom(t) \/ StoreTo(t)
            BY <3>3 DEF StoreFrom, StoreTo, Goto, Labels
        <3> QED BY <1>8, <3>1, <3>2, <3>3
    <2>3. pc'[t] # "done" /\ \A u \in Batch \ {t} : pc'[u] = pc[u]
        BY <1>1, <2>2 DEF Types
    <2> QED BY <1>2, <2>1, <2>3
<1> QED BY <1>5, <1>6, <1>7, <1>8 DEF Step

-------------------------------------------------------------------------------
(* Theorems *)

\* At the start every thread is before its checks, without locks and verdicts.
LEMMA InitIInv == Init => IInv
<1> SUFFICES ASSUME Init PROVE IInv
    OBVIOUS
<1>1. NoAccount \in Balances /\ "start" \in Labels /\ input \in Inputs
    BY DEF Balances, Labels, Init
<1>2. Types
    BY <1>1, BatchTypes DEF Init, Types
<1>3. \A t \in Batch : Loaded(t)
    BY <1>2 DEF Init, Loaded, Working, Labels
<1>4. Locks
    BY <1>2 DEF Init, Locks, Locked, Ordered, Separate, Working, Labels
<1>5. Verdicts
    <2>1. {t \in Batch : result[t] = "success"} = {}
        BY DEF Init
    <2> QED BY <2>1, FS_EmptySet DEF Init, Verdicts
<1>6. Snapped
    <2>1. \A t \in Batch : DOMAIN snapshot[t] = {}
        BY <1>2 DEF Init
    <2> QED BY <2>1 DEF Snapped
<1> QED BY <1>2, <1>3, <1>4, <1>5, <1>6 DEF IInv

\* One thread's step keeps the other threads' copies as they are.
LEMMA StepIInv ==
    ASSUME IInv, NEW t \in Batch, Step(t)
    PROVE  IInv'
<1>1. input' = input /\ Types
    BY DEF Step, IInv
<1>2. Types' /\ Loaded(t)'
    BY <1>1, DataBegins, DataTransfers, DataEnds DEF Step
<1>3. ASSUME NEW u \in Batch, u # t
      PROVE  /\ pc'[u] = pc[u] /\ ix'[u] = ix[u]
             /\ from_account'[u] = from_account[u] /\ to_account'[u] = to_account[u]
    <2> USE <1>1, <1>3 DEF Types, Goto, Return, locals
    <2>1. CASE Start(t) \/ Lock(t) \/ FeeStore(t) \/ Snapshot(t) \/ StoreFrom(t)
        BY <2>1 DEF Start, Lock, FeeStore, Snapshot, StoreFrom
    <2>2. CASE FeeLoad(t)
        BY <2>2 DEF FeeLoad
    <2>3. CASE LoadFrom(t) \/ LoadTo(t)
        BY <2>3 DEF LoadFrom, LoadTo
    <2>4. CASE StoreTo(t)
        BY <2>4 DEF StoreTo
    <2>5. CASE Rollback(t) \/ Finish(t)
        BY <2>5 DEF Rollback, Finish
    <2> QED BY <2>1, <2>2, <2>3, <2>4, <2>5 DEF Step
<1>4. \A u \in Batch : Loaded(u)'
    BY <1>1, <1>2, <1>3, OthersLoaded
<1> QED BY <1>1, <1>2, <1>4, LocksStep, SnappedStep, VerdictsStep, SameBatch DEF IInv

\* The invariant in one piece.
LEMMA Invariance == Spec => []IInv
<1>1. IInv /\ [Next]_vars => IInv'
    <2> SUFFICES ASSUME IInv, [Next]_vars PROVE IInv'
        OBVIOUS
    <2>1. CASE \E t \in Threads : Step(t)
        BY <2>1, StepIInv DEF Step
    <2>2. CASE UNCHANGED vars
        <3>1. /\ UNCHANGED <<input, db, pc, held, ix, from_account, to_account, snapshot, result,
                             total_executed>>
              /\ Batch' = Batch
            BY <2>2, SameBatch DEF vars, locals, totals
        <3>2. \A t \in Batch : Loaded(t)'
            BY <3>1, OthersLoaded
        <3>3. Types'
            BY <3>1 DEF IInv, Types
        <3>4. Locks'
            <4>1. \A t : Exclusive(t)' = Exclusive(t) /\ lock_accounts(t)' = lock_accounts(t)
                BY <3>1, SameBatch
            <4>2. \A t \in Batch : Locked(t)' /\ Ordered(t)'
                BY <3>1, <4>1 DEF IInv, Locks, Locked, Ordered
            <4>3. \A t, u \in Batch : t # u => Separate(t, u)'
                BY <3>1, <4>1 DEF IInv, Locks, Separate
            <4> QED BY <3>1, <4>2, <4>3 DEF Locks
        <3>5. Verdicts'
            BY <3>1 DEF IInv, Verdicts
        <3>6. Snapped'
            BY <3>1, SameBatch DEF IInv, Snapped
        <3> QED BY <3>1, <3>2, <3>3, <3>4, <3>5, <3>6 DEF IInv
    <2> QED BY <2>1, <2>2 DEF Next, Joined
<1> QED BY InitIInv, <1>1, PTL DEF Spec

\* For every batch, whether or not its transfers declare what they store to: a thread works
\* under all of its locks, alone on what it declared writable or pays from, and balances
\* stay in range.
THEOREM LocksSuffice == Spec => []LocksProtect
<1>1. IInv => TypeOK
    BY DEF IInv, Types, Locks, Locked, Verdicts, TypeOK, Working
<1>2. ASSUME IInv, NEW t \in Batch PROVE InUse(t) \subseteq held[t]
    <2> DEFINE places == {"load_to", "store_from", "store_to"}
    <2>1. ASSUME pc[t] \in Working
          PROVE  /\ held[t] = lock_accounts(t) /\ DOMAIN snapshot[t] \subseteq held[t]
                 /\ Tx[t].signer \in held[t]
        <3>1. held[t] = lock_accounts(t)
            BY <1>2, <2>1 DEF IInv, Locks, Locked
        <3>2. DOMAIN snapshot[t] \subseteq mutable_accounts(t) /\ Tx[t].signer \in mutable_accounts(t)
            BY <1>2 DEF IInv, Snapped, mutable_accounts
        <3>3. mutable_accounts(t) \subseteq lock_accounts(t)
            BY <1>2, LockTypes DEF IInv, Types
        <3> QED BY <3>1, <3>2, <3>3
    <2>2. CASE pc[t] \in places
        <3>1. pc[t] \in Working
            BY <2>2 DEF Working, Labels
        <3>2. ix[t] \in DOMAIN Tx[t].instructions
            BY <1>2, <3>1, BatchTypes DEF IInv, Types, Loaded
        <3>3. Instr(t) \in Metas(t)
            BY <3>2 DEF Metas, Instr
        <3>4. Instr(t).from \in lock_accounts(t) /\ Instr(t).to \in lock_accounts(t)
            BY <1>2, <3>3, LockTypes DEF IInv, Types
        <3> QED BY <2>1, <2>2, <3>1, <3>4 DEF InUse
    <2>3. CASE pc[t] \in {"fee", "snapshot", "load_from", "rollback"}
        <3>1. pc[t] \in Working
            BY <2>3 DEF Working, Labels
        <3> QED BY <2>1, <2>3, <3>1 DEF InUse
    <2>4. CASE pc[t] \notin places \cup {"fee", "snapshot", "load_from", "rollback"}
        BY <2>4 DEF InUse
    <2> QED BY <2>2, <2>3, <2>4
<1>3. IInv => DeclarersAlone
    BY <1>2 DEF DeclarersAlone, IInv, Locks, Separate
<1> QED BY Invariance, <1>1, <1>3, PTL DEF LocksProtect

\* The threads of a batch never all wait for one another, whatever they lock, and although
\* a reader also waits for a writer that waits: of those that wait, one waits for the
\* greatest key, and whoever holds it or is to have it first waits for a greater one.
THEOREM DeadlockFree == Spec => []NoDeadlock
<1>1. IInv => NoDeadlock
    <2> SUFFICES ASSUME IInv, NEW a \in Batch, pc[a] # "done",
                        \A t \in Batch : pc[t] # "done" => Blocked(t)
                 PROVE  FALSE
        BY DEF NoDeadlock, AllDone
    <2> DEFINE wanted == {NextLock(t) : t \in {u \in Batch : pc[u] # "done"}}
    <2>1. ASSUME NEW t \in Batch, pc[t] # "done"
          PROVE  /\ Waits(t)
                 /\ NextLock(t) \in lock_accounts(t) \ held[t]
                 /\ NextLock(t) \in Nat /\ NextLock(t) <= NumKeys
        <3>1. Waits(t)
            BY <2>1 DEF Blocked
        <3>2. NextLock(t) \in lock_accounts(t) \ held[t]
            BY <3>1, NextLockIsLeast DEF Waits, IInv, Types
        <3>3. NextLock(t) \in 1..NumKeys
            BY <3>2, LockTypes DEF IInv, Types, Keys
        <3>4. NumKeys \in Nat
            BY ExecutorAssumption
        <3> QED BY <3>1, <3>2, <3>3, <3>4
    <2>2. wanted \in SUBSET Nat /\ wanted # {} /\ \A k \in wanted : k <= NumKeys
        BY <2>1
    <2>3. PICK top \in wanted : \A k \in wanted : k <= top
        BY <2>2, GreatestNatural, ExecutorAssumption
    <2>4. ASSUME NEW t \in Batch, pc[t] # "done", NextLock(t) = top
          PROVE  CanLock(t, top)
        <3> SUFFICES ASSUME NEW u \in Batch \ {t}, top \in held[u]
                     PROVE  FALSE
            BY DEF CanLock
        <3>1. pc[u] # "done"
            BY DEF IInv, Locks, Locked
        <3>2. NextLock(u) \in lock_accounts(u) \ held[u] /\ NextLock(u) \in wanted /\ NextLock(u) \in Nat
            BY <2>1, <3>1
        <3>3. top < NextLock(u)
            BY <3>2 DEF IInv, Locks, Ordered
        <3> QED BY <2>2, <2>3, <3>2, <3>3
    <2>5. PICK t \in Batch : pc[t] # "done" /\ NextLock(t) = top
        BY <2>3
    <2>6. CanLock(t, NextLock(t)) /\ Blocked(t)
        BY <2>4, <2>5
    <2>7. PICK u \in Batch \ {t} : Waits(u) /\ NextLock(u) = top /\ top \in Exclusive(u)
        BY <2>5, <2>6 DEF Blocked
    <2>8. pc[u] # "done" /\ Blocked(u)
        BY <2>7 DEF Waits
    <2>9. CanLock(u, NextLock(u))
        BY <2>4, <2>7, <2>8
    <2> QED BY <2>7, <2>8, <2>9 DEF Blocked
<1> QED BY Invariance, <1>1, PTL
===============================================================================
