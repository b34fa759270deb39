------------------------------- MODULE Scheduler -------------------------------
(***************************************************************************)
(* The batching loop of crates/tx-processor/src/scheduler.rs.  schedule()  *)
(* takes the queue and makes pass after pass over what is left, each pass  *)
(* filling one batch with transactions that do not conflict.  One step     *)
(* here is one iteration of a loop of schedule(); it holds &mut self, so   *)
(* no other operation runs before it returns (pc = "idle").                *)
(***************************************************************************)
EXTENDS Naturals, Sequences, FiniteSets, Functions

CONSTANTS
    Txs,                 \* the transactions, each enqueued at most once
    Reads, Writes,       \* read_accounts() and write_accounts() of each
    Compute,             \* compute_budget of each
    Sizes,               \* the max_batch_size that Scheduler::new may be given
    max_batch_compute,
    Word                 \* u64 arithmetic is modulo Word

ASSUME SchedulerAssumption ==
    /\ Compute \in [Txs -> 0..(Word - 1)]
    /\ Sizes \subseteq Nat
    /\ max_batch_compute \in 0..(Word - 1)
    /\ Word \in Nat \ {0}

VARIABLES
    pending,             \* Scheduler.pending
    batches,             \* Scheduler.batches
    max_batch_size,      \* Scheduler.max_batch_size
    total_scheduled,     \* Scheduler.total_scheduled
    pc,                  \* "idle", or "pass" inside schedule()
    remaining,           \* local: what the current pass has still to look at
    still_remaining,     \* local: what it leaves to the next pass
    batch,               \* local: the batch it fills
    executed,            \* history: the batches taken by next_batch
    order,               \* history: the transactions in the order of enqueue
    drained              \* history: what drain_remaining took away

loop == <<pc, remaining, still_remaining, batch>>
vars == <<max_batch_size, pending, batches, total_scheduled, loop, executed, order, drained>>

-------------------------------------------------------------------------------
(* Batches and conflicts *)

EmptyBatch == [transactions |-> << >>, total_compute |-> 0, writes |-> {}, reads |-> {}]

Members(s) == {s[i] : i \in DOMAIN s}

\* The batch with t pushed; total_compute += wraps in a release build.
Push(b, t) ==
    [transactions |-> Append(b.transactions, t),
     total_compute |-> (b.total_compute + Compute[t]) % Word,
     writes |-> b.writes \cup Writes[t],
     reads |-> b.reads \cup Reads[t]]

\* Mutant of Conflicts: reads are not checked.
Conflicts_WritesOnly(b, t) == Writes[t] \cap (b.writes \cup b.reads) # {}

Conflicts(b, t) ==
    \/ Writes[t] \cap (b.writes \cup b.reads) # {}
    \/ Reads[t] \cap b.writes # {}

\* Mutant of OverBudget: what the batch already holds is not added.
OverBudget_OwnOnly(b, t) == Compute[t] > max_batch_compute

OverBudget(b, t) == (b.total_compute + Compute[t]) % Word > max_batch_compute

\* Mutant of HasRoom: an off-by-one in the size check.
HasRoom_OffByOne(b) == Len(b.transactions) <= max_batch_size

HasRoom(b) == Len(b.transactions) < max_batch_size

\* Mutant of Places: an empty batch takes nothing that is over budget.
Places_NoForcedPlacement(b, t) == HasRoom(b) /\ ~OverBudget(b, t) /\ ~Conflicts(b, t)

\* Does the pass put t into the batch b?  An empty batch takes a transaction
\* that is over budget all by itself.
Places(b, t) ==
    /\ HasRoom(b)
    /\ IF OverBudget(b, t) THEN b.transactions = << >> ELSE ~Conflicts(b, t)

-------------------------------------------------------------------------------
(* Operations *)

Init ==
    /\ max_batch_size \in Sizes
    /\ pending = << >>
    /\ batches = << >>
    /\ total_scheduled = 0
    /\ pc = "idle"
    /\ remaining = << >>
    /\ still_remaining = << >>
    /\ batch = EmptyBatch
    /\ executed = << >>
    /\ order = << >>
    /\ drained = << >>

Enqueue(t) ==
    /\ pc = "idle"
    /\ t \notin Members(order)
    /\ pending' = Append(pending, t)
    /\ order' = Append(order, t)
    /\ UNCHANGED <<max_batch_size, batches, total_scheduled, loop, executed, drained>>

ScheduleCalled ==
    /\ pc = "idle"
    /\ pending # << >>
    /\ remaining' = pending
    /\ pending' = << >>
    /\ pc' = "pass"
    /\ UNCHANGED <<max_batch_size, batches, total_scheduled, still_remaining, batch,
                   executed, order, drained>>

\* Mutant of LookAt: the pass takes transactions from the end, as pop() would.
LookAt_LastFirst ==
    LET t == remaining[Len(remaining)]
    IN  /\ pc = "pass"
        /\ remaining # << >>
        /\ remaining' = SubSeq(remaining, 1, Len(remaining) - 1)
        /\ IF Places(batch, t)
           THEN /\ batch' = Push(batch, t)
                /\ UNCHANGED still_remaining
           ELSE /\ still_remaining' = Append(still_remaining, t)
                /\ UNCHANGED batch
        /\ UNCHANGED <<max_batch_size, pending, batches, total_scheduled, pc, executed, order,
                       drained>>

\* One iteration of the inner loop.
LookAt ==
    /\ pc = "pass"
    /\ remaining # << >>
    /\ remaining' = Tail(remaining)
    /\ IF Places(batch, Head(remaining))
       THEN /\ batch' = Push(batch, Head(remaining))
            /\ UNCHANGED still_remaining
       ELSE /\ still_remaining' = Append(still_remaining, Head(remaining))
            /\ UNCHANGED batch
    /\ UNCHANGED <<max_batch_size, pending, batches, total_scheduled, pc, executed, order,
                   drained>>

\* Mutant of GiveUp: the outer loop goes on.
GiveUp_Spins ==
    /\ pc = "pass" /\ remaining = << >>
    /\ batch.transactions = << >>
    /\ remaining' = still_remaining
    /\ still_remaining' = << >>
    /\ UNCHANGED <<max_batch_size, pending, batches, total_scheduled, pc, batch, executed,
                   order, drained>>

\* The end of a pass that placed nothing: what is left goes back to pending.
GiveUp ==
    /\ pc = "pass" /\ remaining = << >>
    /\ batch.transactions = << >>
    /\ pending' = pending \o still_remaining
    /\ still_remaining' = << >>
    /\ pc' = "idle"
    /\ UNCHANGED <<max_batch_size, batches, total_scheduled, remaining, batch, executed,
                   order, drained>>

\* Mutant of EndPass: the next pass goes on with the same batch.
EndPass_KeepsBatch ==
    /\ pc = "pass" /\ remaining = << >>
    /\ batch.transactions # << >>
    /\ batches' = Append(batches, batch)
    /\ total_scheduled' = total_scheduled + Len(batch.transactions)
    /\ remaining' = still_remaining
    /\ still_remaining' = << >>
    /\ pc' = IF still_remaining = << >> THEN "idle" ELSE "pass"
    /\ UNCHANGED <<max_batch_size, pending, batch, executed, order, drained>>

\* Mutant of EndPass: what is left is dropped.
EndPass_DropsRest ==
    /\ pc = "pass" /\ remaining = << >>
    /\ batch.transactions # << >>
    /\ batches' = Append(batches, batch)
    /\ total_scheduled' = total_scheduled + Len(batch.transactions)
    /\ batch' = EmptyBatch
    /\ remaining' = << >>
    /\ still_remaining' = << >>
    /\ pc' = "idle"
    /\ UNCHANGED <<max_batch_size, pending, executed, order, drained>>

\* The end of a pass that filled a batch.
EndPass ==
    /\ pc = "pass" /\ remaining = << >>
    /\ batch.transactions # << >>
    /\ batches' = Append(batches, batch)
    /\ total_scheduled' = total_scheduled + Len(batch.transactions)
    /\ batch' = EmptyBatch
    /\ remaining' = still_remaining
    /\ still_remaining' = << >>
    /\ pc' = IF still_remaining = << >> THEN "idle" ELSE "pass"
    /\ UNCHANGED <<max_batch_size, pending, executed, order, drained>>

next_batch ==
    /\ pc = "idle"
    /\ batches # << >>
    /\ executed' = Append(executed, Head(batches))
    /\ batches' = Tail(batches)
    /\ UNCHANGED <<max_batch_size, pending, total_scheduled, loop, order, drained>>

drain_remaining ==
    /\ pc = "idle"
    /\ pending # << >>
    /\ drained' = drained \o pending
    /\ pending' = << >>
    /\ UNCHANGED <<max_batch_size, batches, total_scheduled, loop, executed, order>>

ScheduleStep == LookAt \/ GiveUp \/ EndPass

Next ==
    \/ \E t \in Txs : Enqueue(t)
    \/ ScheduleCalled
    \/ LookAt
    \/ GiveUp
    \/ EndPass
    \/ next_batch
    \/ drain_remaining

Spec == Init /\ [][Next]_vars

\* schedule() runs on the caller's thread until it returns.
FairSpec == Spec /\ WF_vars(ScheduleStep)

-------------------------------------------------------------------------------
(* Properties *)

\* Every batch formed so far, the one being filled included.
AllBatches == Members(executed) \cup Members(batches) \cup {batch}

\* The locals of schedule() are empty outside it, and inside it the outer loop
\* always has something left to do; compute totals are u64.
TypeOK ==
    /\ Members(pending) \cup Members(remaining) \cup Members(still_remaining) \subseteq Txs
    /\ \A b \in AllBatches : /\ Members(b.transactions) \subseteq Txs
                             /\ b.total_compute \in 0..(Word - 1)
    /\ pc = "idle" => remaining = << >> /\ still_remaining = << >> /\ batch = EmptyBatch
    /\ pc = "pass" => pending = << >> /\ (remaining # << >> \/ still_remaining # << >>
                                          \/ batch.transactions # << >>)

\* Two transactions of one batch never touch the same account unless both only
\* read it: the executor runs them at the same time on the strength of this.
ConflictFree ==
    \A b \in AllBatches : \A i, j \in DOMAIN b.transactions :
        i # j => Writes[b.transactions[i]] \cap
                 (Writes[b.transactions[j]] \cup Reads[b.transactions[j]]) = {}

\* No transaction is dropped and none is scheduled twice: what was enqueued is,
\* once, in the queue, in a batch, or with whoever took it.
Conserved ==
    LET Count(t, s) == Cardinality({i \in DOMAIN s : s[i] = t})
        Batched(t, bs) == Cardinality({p \in (DOMAIN bs) \X (1..Cardinality(Txs)) :
                              p[2] \in DOMAIN bs[p[1]].transactions
                              /\ bs[p[1]].transactions[p[2]] = t})
    IN  \A t \in Txs :
            Count(t, order) = Count(t, pending) + Count(t, remaining) + Count(t, still_remaining)
                              + Count(t, batch.transactions) + Count(t, drained)
                              + Batched(t, batches) + Batched(t, executed)

SumCompute(s) == SumFunction([i \in DOMAIN s |-> Compute[s[i]]])

Precedes(t, u) == \E m, n \in DOMAIN order : m < n /\ order[m] = t /\ order[n] = u

\* A transaction gets into an earlier batch than one enqueued before it only for a
\* cause: that one conflicted with what the batch held when the pass looked at it,
\* or would have gone over the cap.
OvertakenForCause ==
    LET formed == executed \o batches
    IN  \A i, j \in DOMAIN formed :
            \A u \in Members(formed[i].transactions), t \in Members(formed[j].transactions) :
                (i < j /\ Precedes(t, u)) =>
                    LET held == SelectSeq(formed[i].transactions, LAMBDA x : Precedes(x, t))
                    IN  \/ \E x \in Members(held) :
                              \/ Writes[t] \cap (Writes[x] \cup Reads[x]) # {}
                              \/ Reads[t] \cap Writes[x] # {}
                        \/ (SumCompute(held) + Compute[t]) % Word > max_batch_compute

\* schedule() honours the queue: nothing enqueued is lost or doubled, or overtaken
\* without a cause.
QueueHonoured == Conserved /\ OvertakenForCause

\* A pass cannot come out empty-handed unless batches may hold nothing at all:
\* the first transaction it looks at is placed, over budget or not.  This is
\* what keeps the outer loop from spinning.
FirstIsPlaced ==
    (max_batch_size > 0 /\ still_remaining # << >>) => batch.transactions # << >>

\* No batch is larger than max_batch_size.
SizeCapped == \A b \in AllBatches : Len(b.transactions) <= max_batch_size

\* What the comments in schedule() say of the compute cap, as far as it goes: a batch
\* stays under it or is one transaction that is over it alone, unless the budgets
\* of the batch add up beyond u64.
BudgetKept ==
    \A b \in AllBatches :
        \/ SumCompute(b.transactions) <= max_batch_compute
        \/ Len(b.transactions) = 1
        \/ SumCompute(b.transactions) >= Word

\* The limits that Scheduler::new is given are kept by every batch whose sum fits u64,
\* and no limit keeps a transaction out of all batches.
WithinLimits == TypeOK /\ SizeCapped /\ BudgetKept /\ FirstIsPlaced

\* schedule() returns, for every queue and for every limit, zero included.
ScheduleReturns == (pc = "pass") ~> (pc = "idle")

-------------------------------------------------------------------------------
(* Documented, but not what the code does *)

\* What a test of schedule() says of a transaction over the cap, that it can never
\* share a batch, whatever its budget.
OverBudgetAlone ==
    \A b \in AllBatches :
        SumCompute(b.transactions) <= max_batch_compute \/ Len(b.transactions) = 1

\* What BlockRecord.transactions is documented to hold: the order in which
\* produce_block enqueues (and records) transactions is the order in which they
\* execute, as far as it can be told apart, which is between transactions that
\* conflict.
RecordedInExecutionOrder ==
    \A m, n \in DOMAIN order :
        (m < n /\ Writes[order[m]] \cap (Writes[order[n]] \cup Reads[order[n]]) # {})
        => ~ \E i, j \in DOMAIN executed :
                /\ i < j
                /\ order[n] \in Members(executed[i].transactions)
                /\ order[m] \in Members(executed[j].transactions)
===============================================================================
