---------------------------- MODULE SchedulerProofs ----------------------------
(***************************************************************************)
(* The batches of Scheduler, for every set of transactions, every limit    *)
(* and every order of calls: transactions of one batch do not conflict,    *)
(* every batch keeps to the limits as far as its sum fits u64, and no pass *)
(* comes out empty-handed.                                                 *)
(*                                                                         *)
(* schedule() only compares a transaction with the account sets that the   *)
(* batch has gathered; that these cover the accounts of all its members is *)
(* what makes the invariant inductive.                                     *)
(***************************************************************************)
EXTENDS Scheduler, DataFacts, TLAPS

(* Most leaves are first-order, so Zenon is asked first. *)
USE ZenonT(2), SMT, ZenonT(10)

Accounts == UNION {Writes[t] \cup Reads[t] : t \in Txs}

TransactionBatch ==
    [transactions : Seq(Txs), total_compute : 0..(Word - 1),
     writes : SUBSET Accounts, reads : SUBSET Accounts]

Gathered(b) ==
    \A i \in DOMAIN b.transactions :
        Writes[b.transactions[i]] \subseteq b.writes /\ Reads[b.transactions[i]] \subseteq b.reads

Apart(b) ==
    \A i, j \in DOMAIN b.transactions :
        i # j => Writes[b.transactions[i]] \cap
                 (Writes[b.transactions[j]] \cup Reads[b.transactions[j]]) = {}

Good(b, size) == Gathered(b) /\ Apart(b) /\ Len(b.transactions) <= size

Types ==
    /\ max_batch_size \in Nat
    /\ pending \in Seq(Txs) /\ remaining \in Seq(Txs) /\ still_remaining \in Seq(Txs)
    /\ batches \in Seq(TransactionBatch) /\ executed \in Seq(TransactionBatch)
    /\ batch \in TransactionBatch
    /\ pc \in {"idle", "pass"}

Phases ==
    /\ batch.transactions = << >> => batch = EmptyBatch
    /\ pc = "idle" => remaining = << >> /\ still_remaining = << >> /\ batch = EmptyBatch
    /\ pc = "pass" => pending = << >> /\ (remaining # << >> \/ still_remaining # << >>
                                          \/ batch.transactions # << >>)

IInv ==
    /\ Types /\ Phases /\ FirstIsPlaced
    /\ Good(batch, max_batch_size)
    /\ \A i \in 1..Len(batches) : Good(batches[i], max_batch_size)
    /\ \A i \in 1..Len(executed) : Good(executed[i], max_batch_size)

\* A batch without transactions.
LEMMA EmptyIsGood ==
    ASSUME max_batch_size \in Nat
    PROVE  EmptyBatch \in TransactionBatch /\ Good(EmptyBatch, max_batch_size)
<1>1. DOMAIN EmptyBatch.transactions = {} /\ Len(EmptyBatch.transactions) = 0
    BY DEF EmptyBatch
<1>2. EmptyBatch \in TransactionBatch
    BY SchedulerAssumption DEF EmptyBatch, TransactionBatch
<1> QED BY <1>1, <1>2 DEF Good, Gathered, Apart

\* A transaction that a pass places is apart from everything the batch holds.
LEMMA PushIsGood ==
    ASSUME max_batch_size \in Nat, NEW b \in TransactionBatch, Good(b, max_batch_size), NEW t \in Txs, Places(b, t)
    PROVE  Push(b, t) \in TransactionBatch /\ Good(Push(b, t), max_batch_size) /\ Push(b, t).transactions # << >>
<1> DEFINE n == Len(b.transactions)
           p == Push(b, t)
<1>1. /\ b.transactions \in Seq(Txs) /\ n \in Nat /\ b.total_compute \in 0..(Word - 1)
      /\ b.writes \in SUBSET Accounts /\ b.reads \in SUBSET Accounts
    BY DEF TransactionBatch
<1>2. /\ p.transactions = Append(b.transactions, t)
      /\ p.writes = b.writes \cup Writes[t] /\ p.reads = b.reads \cup Reads[t]
      /\ p.total_compute = (b.total_compute + Compute[t]) % Word
    BY DEF Push
<1>3. /\ p.transactions \in Seq(Txs) /\ Len(p.transactions) = n + 1
      /\ DOMAIN p.transactions = 1..(n + 1) /\ DOMAIN b.transactions = 1..n
      /\ \A i \in 1..n : p.transactions[i] = b.transactions[i]
      /\ p.transactions[n + 1] = t
    BY <1>1, <1>2
<1>4. (b.total_compute + Compute[t]) % Word \in 0..(Word - 1)
    <2>1. b.total_compute + Compute[t] \in Nat /\ Word \in Nat /\ Word > 0
        BY <1>1, SchedulerAssumption
    <2> QED BY <2>1
<1>5. p \in TransactionBatch
    <2>1. Writes[t] \subseteq Accounts /\ Reads[t] \subseteq Accounts
        BY DEF Accounts
    <2> QED BY <1>1, <1>2, <1>3, <1>4, <2>1 DEF Push, TransactionBatch
<1>6. Gathered(p)
    <2>1. ASSUME NEW i \in 1..(n + 1)
          PROVE  Writes[p.transactions[i]] \subseteq p.writes /\ Reads[p.transactions[i]] \subseteq p.reads
        <3>1. CASE i = n + 1
            BY <1>2, <1>3, <3>1
        <3>2. CASE i # n + 1
            <4>1. i \in 1..n
                BY <1>1, <2>1, <3>2
            <4> QED BY <1>2, <1>3, <4>1 DEF Good, Gathered
        <3> QED BY <3>1, <3>2
    <2> QED BY <1>3, <2>1 DEF Gathered
<1>7. n > 0 => Writes[t] \cap (b.writes \cup b.reads) = {} /\ Reads[t] \cap b.writes = {}
    BY <1>1 DEF Places, Conflicts
<1>8. Apart(p)
    <2>1. ASSUME NEW i \in 1..(n + 1), NEW j \in 1..(n + 1), i # j
          PROVE  Writes[p.transactions[i]] \cap
                 (Writes[p.transactions[j]] \cup Reads[p.transactions[j]]) = {}
        <3>1. CASE i \in 1..n /\ j \in 1..n
            BY <1>3, <2>1, <3>1 DEF Good, Apart
        <3>2. CASE i = n + 1
            <4>1. j \in 1..n /\ n > 0
                BY <1>1, <2>1, <3>2
            <4>2. Writes[b.transactions[j]] \subseteq b.writes /\ Reads[b.transactions[j]] \subseteq b.reads
                BY <1>3, <4>1 DEF Good, Gathered
            <4> QED BY <1>3, <1>7, <3>2, <4>1, <4>2
        <3>3. CASE j = n + 1
            <4>1. i \in 1..n /\ n > 0
                BY <1>1, <2>1, <3>3
            <4>2. Writes[b.transactions[i]] \subseteq b.writes /\ Reads[b.transactions[i]] \subseteq b.reads
                BY <1>3, <4>1 DEF Good, Gathered
            <4> QED BY <1>3, <1>7, <3>3, <4>1, <4>2
        <3> QED BY <1>1, <2>1, <3>1, <3>2, <3>3
    <2> QED BY <1>3, <2>1 DEF Apart
<1>9. Len(p.transactions) <= max_batch_size
    BY <1>1, <1>3 DEF Places, HasRoom
<1>10. p.transactions # << >>
    BY <1>1, <1>3
<1> QED BY <1>5, <1>6, <1>8, <1>9, <1>10 DEF Good

\* An empty batch with room takes any transaction, over budget or not.
LEMMA FirstFits ==
    ASSUME max_batch_size \in Nat, max_batch_size > 0, NEW t \in Txs
    PROVE  Places(EmptyBatch, t)
<1>1. EmptyBatch.transactions = << >> /\ EmptyBatch.writes = {} /\ EmptyBatch.reads = {}
    BY DEF EmptyBatch
<1>2. HasRoom(EmptyBatch) /\ ~Conflicts(EmptyBatch, t)
    BY <1>1 DEF HasRoom, Conflicts
<1> QED BY <1>1, <1>2 DEF Places

\* One iteration of the inner loop.
LEMMA LookAtStep ==
    ASSUME IInv, LookAt
    PROVE  IInv'
<1> DEFINE t == Head(remaining)
<1>1. /\ pc = "pass" /\ remaining # << >> /\ remaining' = Tail(remaining)
      /\ UNCHANGED <<max_batch_size, pending, batches, pc, executed>>
    BY DEF LookAt
<1>2. Types /\ Phases /\ FirstIsPlaced /\ Good(batch, max_batch_size)
    BY DEF IInv
<1>3. t \in Txs /\ Tail(remaining) \in Seq(Txs)
    BY <1>1, <1>2 DEF Types
<1>4. /\ \A i \in 1..Len(batches') : Good(batches'[i], max_batch_size')
      /\ \A i \in 1..Len(executed') : Good(executed'[i], max_batch_size')
    BY <1>1 DEF IInv
<1> HIDE DEF t
<1>5. CASE Places(batch, t)
    <2>1. batch' = Push(batch, t) /\ still_remaining' = still_remaining
        BY <1>5 DEF LookAt, t
    <2>2. Push(batch, t) \in TransactionBatch /\ Good(Push(batch, t), max_batch_size) /\ Push(batch, t).transactions # << >>
        BY <1>2, <1>3, <1>5, PushIsGood DEF Types
    <2>3. Types' /\ Phases' /\ FirstIsPlaced'
        BY <1>1, <1>2, <1>3, <2>1, <2>2 DEF Types, Phases, FirstIsPlaced
    <2>4. Good(batch', max_batch_size')
        BY <1>1, <2>1, <2>2
    <2> QED BY <1>4, <2>3, <2>4 DEF IInv
<1>6. CASE ~Places(batch, t)
    <2>1. still_remaining' = Append(still_remaining, t) /\ batch' = batch
        BY <1>6 DEF LookAt, t
    <2>2. still_remaining' \in Seq(Txs) /\ still_remaining' # << >>
        <3>1. still_remaining' \in Seq(Txs) /\ Len(still_remaining') = Len(still_remaining) + 1
              /\ Len(still_remaining) \in Nat
            BY <1>2, <1>3, <2>1 DEF Types
        <3> QED BY <3>1
    <2>3. FirstIsPlaced'
        <3>1. ASSUME max_batch_size > 0 PROVE batch.transactions # << >>
            BY <1>2, <1>3, <1>6, <3>1, FirstFits DEF Types, Phases
        <3> QED BY <1>1, <2>1, <3>1 DEF FirstIsPlaced
    <2>4. Types' /\ Phases'
        BY <1>1, <1>2, <1>3, <2>1, <2>2 DEF Types, Phases
    <2>5. Good(batch', max_batch_size')
        BY <1>1, <1>2, <2>1
    <2> QED BY <1>4, <2>3, <2>4, <2>5 DEF IInv
<1> QED BY <1>5, <1>6

\* The end of a pass that filled a batch.
LEMMA EndPassStep ==
    ASSUME IInv, EndPass
    PROVE  IInv'
<1>1. /\ pc = "pass" /\ batches' = Append(batches, batch) /\ batch' = EmptyBatch
      /\ remaining' = still_remaining /\ still_remaining' = << >>
      /\ pc' = IF still_remaining = << >> THEN "idle" ELSE "pass"
      /\ UNCHANGED <<max_batch_size, pending, executed>>
    BY DEF EndPass
<1>2. Types /\ Phases /\ Good(batch, max_batch_size)
    BY DEF IInv
<1>3. EmptyBatch \in TransactionBatch /\ Good(EmptyBatch, max_batch_size)
    BY <1>2, EmptyIsGood DEF Types
<1>4. /\ Len(batches') = Len(batches) + 1 /\ Len(batches) \in Nat
      /\ \A i \in 1..Len(batches) : batches'[i] = batches[i]
      /\ batches'[Len(batches) + 1] = batch
      /\ batches' \in Seq(TransactionBatch)
    <2> HIDE DEF TransactionBatch
    <2> QED BY <1>1, <1>2 DEF Types
<1>5. Types'
    BY <1>1, <1>2, <1>3, <1>4 DEF Types
<1>6. Phases' /\ FirstIsPlaced'
    BY <1>1, <1>2 DEF Phases, FirstIsPlaced
<1>7. ASSUME NEW i \in 1..Len(batches') PROVE Good(batches'[i], max_batch_size)
    <2>1. CASE i \in 1..Len(batches)
        BY <1>4, <2>1 DEF IInv
    <2>2. CASE i = Len(batches) + 1
        BY <1>2, <1>4, <2>2
    <2> QED BY <1>4, <2>1, <2>2
<1>8. /\ Good(batch', max_batch_size')
      /\ \A i \in 1..Len(batches') : Good(batches'[i], max_batch_size')
      /\ \A i \in 1..Len(executed') : Good(executed'[i], max_batch_size')
    BY <1>1, <1>3, <1>7 DEF IInv
<1> QED BY <1>5, <1>6, <1>8 DEF IInv

\* The operations around schedule().
LEMMA OuterStep ==
    ASSUME IInv, (\E t \in Txs : Enqueue(t)) \/ ScheduleCalled \/ GiveUp \/ drain_remaining
    PROVE  IInv'
<1>1. UNCHANGED <<max_batch_size, batches, batch, executed>>
    BY DEF Enqueue, ScheduleCalled, GiveUp, drain_remaining, loop
<1>2. /\ Good(batch', max_batch_size')
      /\ \A i \in 1..Len(batches') : Good(batches'[i], max_batch_size')
      /\ \A i \in 1..Len(executed') : Good(executed'[i], max_batch_size')
    BY <1>1 DEF IInv
<1>3. Types' /\ Phases' /\ FirstIsPlaced'
    <2> USE <1>1 DEF IInv, Types, Phases, FirstIsPlaced
    <2>1. CASE \E t \in Txs : Enqueue(t)
        BY <2>1 DEF Enqueue, loop
    <2>2. CASE ScheduleCalled
        BY <2>2 DEF ScheduleCalled
    <2>3. CASE GiveUp
        BY <2>3 DEF GiveUp
    <2>4. CASE drain_remaining
        BY <2>4 DEF drain_remaining, loop
    <2> QED BY <2>1, <2>2, <2>3, <2>4
<1> QED BY <1>2, <1>3 DEF IInv

\* next_batch hands a batch on as it is.
LEMMA NextBatchStep ==
    ASSUME IInv, next_batch
    PROVE  IInv'
<1>1. /\ batches # << >> /\ batches' = Tail(batches) /\ executed' = Append(executed, Head(batches))
      /\ UNCHANGED <<max_batch_size, pending, pc, remaining, still_remaining, batch>>
    BY DEF next_batch, loop
<1>2. Types /\ Phases /\ FirstIsPlaced /\ Good(batch, max_batch_size)
    BY DEF IInv
<1> HIDE DEF TransactionBatch
<1>3. /\ batches' \in Seq(TransactionBatch) /\ Len(batches') = Len(batches) - 1 /\ Len(batches) \in Nat
      /\ \A i \in 1..Len(batches') : batches'[i] = batches[i + 1]
      /\ Head(batches) = batches[1] /\ 1 \in 1..Len(batches)
    BY <1>1, <1>2 DEF Types
<1>4. /\ executed' \in Seq(TransactionBatch) /\ Len(executed') = Len(executed) + 1 /\ Len(executed) \in Nat
      /\ \A i \in 1..Len(executed) : executed'[i] = executed[i]
      /\ executed'[Len(executed) + 1] = batches[1]
    BY <1>1, <1>2, <1>3 DEF Types
<1>5. Types' /\ Phases' /\ FirstIsPlaced'
    BY <1>1, <1>2, <1>3, <1>4 DEF Types, Phases, FirstIsPlaced
<1>6. ASSUME NEW i \in 1..Len(batches') PROVE Good(batches'[i], max_batch_size)
    <2>1. i + 1 \in 1..Len(batches)
        BY <1>3
    <2> QED BY <1>3, <2>1 DEF IInv
<1>7. ASSUME NEW i \in 1..Len(executed') PROVE Good(executed'[i], max_batch_size)
    <2>1. CASE i \in 1..Len(executed)
        BY <1>4, <2>1 DEF IInv
    <2>2. CASE i = Len(executed) + 1
        BY <1>3, <1>4, <2>2 DEF IInv
    <2> QED BY <1>4, <2>1, <2>2
<1>8. /\ Good(batch', max_batch_size')
      /\ \A i \in 1..Len(batches') : Good(batches'[i], max_batch_size')
      /\ \A i \in 1..Len(executed') : Good(executed'[i], max_batch_size')
    BY <1>1, <1>2, <1>6, <1>7
<1> QED BY <1>5, <1>8 DEF IInv

\* The invariant in one piece.
LEMMA Invariance == Spec => []IInv
<1>1. Init => IInv
    <2> SUFFICES ASSUME Init PROVE IInv
        OBVIOUS
    <2>1. max_batch_size \in Nat
        BY SchedulerAssumption DEF Init
    <2>2. EmptyBatch \in TransactionBatch /\ Good(EmptyBatch, max_batch_size)
        BY <2>1, EmptyIsGood
    <2> QED BY <2>1, <2>2 DEF Init, IInv, Types, Phases, FirstIsPlaced
<1>2. IInv /\ [Next]_vars => IInv'
    <2> SUFFICES ASSUME IInv, [Next]_vars PROVE IInv'
        OBVIOUS
    <2>1. CASE Next
        BY <2>1, LookAtStep, EndPassStep, OuterStep, NextBatchStep DEF Next
    <2>2. CASE UNCHANGED vars
        <3>1. UNCHANGED <<max_batch_size, pending, batches, executed, pc, remaining, still_remaining, batch>>
            BY <2>2 DEF vars, loop
        <3> QED BY <3>1 DEF IInv, Types, Phases, FirstIsPlaced
    <2> QED BY <2>1, <2>2
<1> QED BY <1>1, <1>2, PTL DEF Spec

\* What is said of every batch, in terms of the three places where batches are.
LEMMA EveryBatch ==
    ASSUME IInv, NEW b \in AllBatches
    PROVE  Good(b, max_batch_size) /\ b \in TransactionBatch
<1> HIDE DEF TransactionBatch
<1>1. /\ batches \in Seq(TransactionBatch) /\ executed \in Seq(TransactionBatch)
      /\ batch \in TransactionBatch
    BY DEF IInv, Types
<1>2. CASE b = batch
    BY <1>1, <1>2 DEF IInv
<1>3. CASE b \in Members(batches)
    BY <1>1, <1>3 DEF IInv, Members
<1>4. CASE b \in Members(executed)
    BY <1>1, <1>4 DEF IInv, Members
<1> QED BY <1>2, <1>3, <1>4 DEF AllBatches

\* No two transactions of a batch conflict, for every queue and all limits: what the
\* executor relies on when it runs a batch in parallel.
THEOREM NoConflicts == Spec => []ConflictFree
<1>1. IInv => ConflictFree
    BY EveryBatch DEF ConflictFree, Good, Apart
<1> QED BY Invariance, <1>1, PTL

-------------------------------------------------------------------------------
(* The compute cap *)

\* As long as the budgets of a batch add up within u64 its total is their sum, which
\* is over the cap only when it has one term.
Budgeted(b) ==
    SumCompute(b.transactions) < Word =>
        /\ b.total_compute = SumCompute(b.transactions)
        /\ b.total_compute <= max_batch_compute \/ Len(b.transactions) = 1

\* A transaction adds its budget to the sum.
LEMMA SumAppend ==
  ASSUME NEW s \in Seq(Txs), NEW t \in Txs
  PROVE  SumCompute(Append(s, t)) = SumCompute(s) + Compute[t] /\ SumCompute(s) \in Nat
<1> DEFINE D == 1..Len(s)
           n == Len(s) + 1
           f == [i \in D |-> Compute[s[i]]]
           h == [i \in D \cup {n} |-> Compute[Append(s, t)[i]]]
<1>1. /\ Len(s) \in Nat /\ DOMAIN s = D /\ DOMAIN Append(s, t) = D \cup {n} /\ n \notin D
      /\ \A i \in D : Append(s, t)[i] = s[i] /\ s[i] \in Txs
      /\ Append(s, t)[n] = t
  OBVIOUS
<1>2. SumCompute(s) = SumFunctionOnSet(f, D) /\ SumCompute(Append(s, t)) = SumFunctionOnSet(h, D \cup {n})
  BY <1>1 DEF SumCompute, SumFunction
<1>3. IsFiniteSet(D)
  BY FS_Interval, <1>1
<1>4. \A u \in Txs : Compute[u] \in Nat
  BY SchedulerAssumption
<1>5. /\ \A i \in D : f[i] = h[i] /\ f[i] \in Nat
      /\ h[n] = Compute[t] /\ \A i \in D \cup {n} : h[i] \in Nat /\ h[i] \in Int
  BY <1>1, <1>4
<1> HIDE DEF D, n, f, h
<1>6. SumFunctionOnSet(h, D \cup {n}) = h[n] + SumFunctionOnSet(h, D)
  BY <1>1, <1>3, <1>5, SumAdd
<1>7. SumFunctionOnSet(f, D) = SumFunctionOnSet(h, D)
  BY <1>3, <1>5, SumAgrees
<1>8. SumFunctionOnSet(f, D) \in Nat
  BY <1>3, <1>5, SumNat
<1> QED
  BY <1>2, <1>4, <1>5, <1>6, <1>7, <1>8

\* The sum of the budgets of a batch.
LEMMA SumOfBudgets ==
  ASSUME NEW s \in Seq(Txs)
  PROVE  SumCompute(s) \in Nat
<1> DEFINE D == 1..Len(s)
           f == [i \in D |-> Compute[s[i]]]
<1>1. DOMAIN s = D /\ \A i \in D : s[i] \in Txs
  OBVIOUS
<1>2. SumCompute(s) = SumFunctionOnSet(f, D)
  BY <1>1 DEF SumCompute, SumFunction
<1>3. IsFiniteSet(D)
  BY FS_Interval
<1>4. \A i \in D : f[i] \in Nat
  BY <1>1, SchedulerAssumption
<1> QED
  BY <1>2, <1>3, <1>4, SumNat

\* A batch without transactions.
LEMMA EmptyIsBudgeted == Budgeted(EmptyBatch)
<1>1. EmptyBatch.transactions = << >> /\ EmptyBatch.total_compute = 0
  BY DEF EmptyBatch
<1>2. SumCompute(<< >>) = 0
  <2>1. DOMAIN [i \in DOMAIN << >> |-> Compute[<< >>[i]]] = {}
    OBVIOUS
  <2> QED
    BY <2>1, SumEmpty DEF SumCompute, SumFunction
<1>3. max_batch_compute >= 0 /\ Len(<< >>) = 0
  BY SchedulerAssumption
<1> QED
  BY <1>1, <1>2, <1>3 DEF Budgeted

\* A number below the modulus is its own remainder.
LEMMA SmallRemainder ==
  ASSUME NEW n \in Nat, NEW w \in Nat, n < w
  PROVE  n % w = n
OBVIOUS

\* A pass that places a transaction has compared the sum, as far as it fits, with the
\* cap.
LEMMA PushIsBudgeted ==
  ASSUME NEW b \in TransactionBatch, Budgeted(b), NEW t \in Txs, Places(b, t)
  PROVE  Budgeted(Push(b, t))
<1> DEFINE s == b.transactions
           n == SumCompute(s) + Compute[t]
           p == Push(b, t)
<1>1. /\ s \in Seq(Txs) /\ Len(s) \in Nat /\ Word \in Nat \ {0}
      /\ Compute[t] \in Nat /\ max_batch_compute \in Nat
  BY SchedulerAssumption DEF TransactionBatch
<1>2. p.transactions = Append(s, t) /\ p.total_compute = (b.total_compute + Compute[t]) % Word
  BY DEF Push
<1>3. SumCompute(p.transactions) = n /\ SumCompute(s) \in Nat /\ n \in Nat
  BY <1>1, <1>2, SumAppend
<1>4. SUFFICES ASSUME n < Word
               PROVE  p.total_compute = n /\ (n <= max_batch_compute \/ Len(p.transactions) = 1)
  BY <1>3 DEF Budgeted
<1>5. b.total_compute = SumCompute(s)
  <2>1. SumCompute(s) < Word
    BY <1>1, <1>3, <1>4
  <2> QED
    BY <2>1 DEF Budgeted
<1>6. (b.total_compute + Compute[t]) % Word = n
  BY <1>1, <1>3, <1>4, <1>5, SmallRemainder
<1>7. CASE OverBudget(b, t)
  <2>1. s = << >>
    BY <1>7 DEF Places
  <2>2. Len(p.transactions) = 1
    BY <1>1, <1>2, <2>1
  <2> QED
    BY <1>2, <1>6, <2>2
<1>8. CASE ~OverBudget(b, t)
  <2>1. n <= max_batch_compute
    BY <1>1, <1>3, <1>6, <1>8 DEF OverBudget
  <2> QED
    BY <1>2, <1>6, <2>1
<1> QED
  BY <1>7, <1>8

\* Batches come from pushing onto the batch of the pass.
LEMMA BatchesGrow ==
  ASSUME IInv, [Next]_vars, NEW b \in AllBatches'
  PROVE  \/ b \in AllBatches
         \/ b = EmptyBatch
         \/ \E t \in Txs : Places(batch, t) /\ b = Push(batch, t)
<1>1. /\ batches \in Seq(TransactionBatch) /\ executed \in Seq(TransactionBatch)
      /\ batch \in TransactionBatch /\ remaining \in Seq(Txs)
  BY DEF IInv, Types
<1>2. CASE LookAt
  <2>1. /\ batches' = batches /\ executed' = executed
        /\ batch' = batch \/ (batch' = Push(batch, Head(remaining)) /\ Places(batch, Head(remaining)))
        /\ Head(remaining) \in Txs
    BY <1>1, <1>2 DEF LookAt
  <2> QED
    BY <2>1 DEF AllBatches
<1>3. CASE EndPass
  <2>1. batches' = Append(batches, batch) /\ executed' = executed /\ batch' = EmptyBatch
    BY <1>3 DEF EndPass
  <2> HIDE DEF TransactionBatch
  <2>2. \A i \in DOMAIN batches' : batches'[i] = batch \/ batches'[i] \in Members(batches)
    BY <1>1, <2>1 DEF Members
  <2>3. \A c \in Members(batches') : c = batch \/ c \in Members(batches)
    BY <2>2 DEF Members
  <2> QED
    BY <2>1, <2>3 DEF AllBatches
<1>4. CASE next_batch
  <2>1. /\ batches # << >> /\ batches' = Tail(batches) /\ executed' = Append(executed, Head(batches))
        /\ batch' = batch
    BY <1>4 DEF next_batch, loop
  <2> HIDE DEF TransactionBatch
  <2>2. /\ \A i \in DOMAIN batches' : batches'[i] \in Members(batches)
        /\ Head(batches) \in Members(batches)
    BY <1>1, <2>1 DEF Members
  <2>3. \A i \in DOMAIN executed' : executed'[i] = Head(batches) \/ executed'[i] \in Members(executed)
    <3>1. Head(batches) \in TransactionBatch
      BY <1>1, <2>1
    <3> QED
      BY <1>1, <2>1, <3>1 DEF Members
  <2>4. /\ \A c \in Members(batches') : c \in Members(batches)
        /\ \A c \in Members(executed') : c = Head(batches) \/ c \in Members(executed)
    BY <2>2, <2>3 DEF Members
  <2> QED
    BY <2>1, <2>2, <2>4 DEF AllBatches
<1>5. CASE UNCHANGED <<batches, batch, executed>>
  BY <1>5 DEF AllBatches
<1>6. LookAt \/ EndPass \/ next_batch \/ UNCHANGED <<batches, batch, executed>>
  BY DEF Next, vars, loop, Enqueue, ScheduleCalled, GiveUp, drain_remaining
<1> QED
  BY <1>2, <1>3, <1>4, <1>5, <1>6

\* Every batch keeps to the limits that Scheduler::new was given as far as its sum fits
\* u64, and a pass places the first transaction that it looks at, whatever its budget:
\* the outer loop of schedule() does not spin.
THEOREM LimitsKept == Spec => []WithinLimits
<1> DEFINE BudgetInv == \A b \in AllBatches : Budgeted(b)
<1>1. Init => BudgetInv
  <2> SUFFICES ASSUME Init PROVE BudgetInv
    OBVIOUS
  <2>1. AllBatches = {EmptyBatch}
    BY DEF Init, AllBatches, Members
  <2> QED
    BY <2>1, EmptyIsBudgeted
<1>2. IInv /\ BudgetInv /\ [Next]_vars => BudgetInv'
  <2> SUFFICES ASSUME IInv, BudgetInv, [Next]_vars, NEW b \in AllBatches' PROVE Budgeted(b)
    OBVIOUS
  <2>1. Budgeted(batch) /\ batch \in TransactionBatch
    BY DEF IInv, Types, AllBatches
  <2> QED
    BY <2>1, BatchesGrow, EmptyIsBudgeted, PushIsBudgeted
<1>3. IInv /\ BudgetInv => WithinLimits
  <2> SUFFICES ASSUME IInv, BudgetInv PROVE WithinLimits
    OBVIOUS
  <2>1. \A b \in AllBatches : b \in TransactionBatch /\ Len(b.transactions) <= max_batch_size
    BY EveryBatch DEF Good
  <2>2. \A b \in AllBatches : /\ Members(b.transactions) \subseteq Txs
                              /\ b.total_compute \in 0..(Word - 1)
    <3> SUFFICES ASSUME NEW b \in AllBatches
                 PROVE  Members(b.transactions) \subseteq Txs /\ b.total_compute \in 0..(Word - 1)
      OBVIOUS
    <3>1. b.transactions \in Seq(Txs) /\ b.total_compute \in 0..(Word - 1)
      BY <2>1 DEF TransactionBatch
    <3>2. Members(b.transactions) \subseteq Txs
      BY <3>1 DEF Members
    <3> QED
      BY <3>1, <3>2
  <2>3. Members(pending) \cup Members(remaining) \cup Members(still_remaining) \subseteq Txs
    BY DEF IInv, Types, Members
  <2>4. TypeOK
    BY <2>2, <2>3 DEF TypeOK, IInv, Phases
  <2>5. BudgetKept
    <3> SUFFICES ASSUME NEW b \in AllBatches, ~(SumCompute(b.transactions) >= Word)
                 PROVE  SumCompute(b.transactions) <= max_batch_compute \/ Len(b.transactions) = 1
      BY DEF BudgetKept
    <3>1. Budgeted(b) /\ b.transactions \in Seq(Txs)
      BY <2>1 DEF TransactionBatch
    <3>2. SumCompute(b.transactions) \in Nat /\ Word \in Nat
      BY <2>2, <3>1, SumOfBudgets, SchedulerAssumption
    <3>3. SumCompute(b.transactions) < Word
      BY <3>2
    <3> QED
      BY <3>1, <3>3 DEF Budgeted
  <2> QED
    BY <2>1, <2>4, <2>5 DEF WithinLimits, SizeCapped, IInv
<1> QED
  BY <1>1, <1>2, <1>3, Invariance, PTL DEF Spec
===============================================================================
