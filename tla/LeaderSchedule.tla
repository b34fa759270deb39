----------------------------- MODULE LeaderSchedule -----------------------------
(***************************************************************************)
(* consensus/src/leader.rs: LeaderSchedule::compute_schedule and its       *)
(* queries.  Validators are their places in the list sorted by stake, from *)
(* 1; slots count from 0.                                                  *)
(*                                                                         *)
(* A share is a product of f64 values, truncated.  While stake times epoch *)
(* length stays below 2^52, the error can only turn an exact whole share   *)
(* into the number below it; `short` is the set of validators whose share  *)
(* comes out that way.  With no stake at all the shares are NaN, which     *)
(* converts to 0.  The sum of the stakes is one of u64 values, which wraps *)
(* in a release build.                                                     *)
(***************************************************************************)
EXTENDS Naturals, SequencesExt

CONSTANT Word      \* the number of values of a u64

ASSUME WordAssumption == Word \in Nat \ {0}

\* LeaderSchedule::new sorts the validators it is given.
new(stakes) == SortSeq(stakes, LAMBDA a, b : a > b)

SumOfStakes(stakes) == FoldLeft(LAMBDA a, b : a + b, 0, stakes)

TotalStake(stakes) == SumOfStakes(stakes) % Word

\* A stake over a total of 0 is infinite, which converts to the largest u64: the loop
\* that pushes as many slots does not end in practice.
Endless(stakes) == TotalStake(stakes) = 0 /\ SumOfStakes(stakes) > 0

\* floor(stake * total_slots / total_stake)
WholeShare(stakes, i, total_slots) ==
    IF TotalStake(stakes) = 0 THEN 0 ELSE (stakes[i] * total_slots) \div TotalStake(stakes)

\* The shares that are whole numbers, and may come out one short.
Exact(stakes, total_slots) ==
    {i \in DOMAIN stakes : WholeShare(stakes, i, total_slots) > 0
                        /\ (stakes[i] * total_slots) % TotalStake(stakes) = 0}

num_slots(stakes, i, total_slots, short) ==
    WholeShare(stakes, i, total_slots) - (IF i \in short THEN 1 ELSE 0)

Proportional(stakes, total_slots, short) ==
    FlattenSeq([i \in DOMAIN stakes |-> [k \in 1..num_slots(stakes, i, total_slots, short) |-> i]])

\* Mutant of compute_schedule: the rest stays empty.
compute_schedule_NoFill(stakes, total_slots, short) == Proportional(stakes, total_slots, short)

\* Mutant of compute_schedule: the rest is filled from the lowest stake.
compute_schedule_LowestFirst(stakes, total_slots, short) ==
    LET prefix == Proportional(stakes, total_slots, short)
    IN  prefix \o [k \in 1..(total_slots - Len(prefix)) |-> Len(stakes) - ((k - 1) % Len(stakes))]

\* What is left is filled round robin from the highest stake.
compute_schedule(stakes, total_slots, short) ==
    LET prefix == Proportional(stakes, total_slots, short)
    IN  prefix \o [k \in 1..(total_slots - Len(prefix)) |-> ((k - 1) % Len(stakes)) + 1]

leader_for_slot(schedule, slot) == schedule[(slot % Len(schedule)) + 1]

slots_for_leader(schedule, i) == {s \in 0..(Len(schedule) - 1) : schedule[s + 1] = i}

-------------------------------------------------------------------------------
(* Properties of the schedule of a list of stakes *)

\* Every slot of every epoch has a leader: the schedule is at least an epoch long, and
\* exactly that if the sum of the stakes is one of u64, and the slots of the leaders are
\* a partition that leader_for_slot agrees with.
EverySlotLed(stakes, total_slots, short) ==
    LET schedule == compute_schedule(stakes, total_slots, short)
    IN  /\ Len(schedule) >= total_slots
        /\ SumOfStakes(stakes) < Word => Len(schedule) = total_slots
        /\ \A s \in 0..(2 * total_slots) :
              \E i \in DOMAIN stakes :
                  /\ leader_for_slot(schedule, s) = i
                  /\ \A j \in DOMAIN stakes : s % Len(schedule) \in slots_for_leader(schedule, j) <=> j = i

\* More stake never means fewer slots, and nobody is off their share by more than the
\* truncation and, if the sum of the stakes is one of u64, the round robin can make it.
SharesFair(stakes, total_slots, short) ==
    LET schedule == compute_schedule(stakes, total_slots, short)
        count(i) == Cardinality(slots_for_leader(schedule, i))
    IN  /\ \A i, j \in DOMAIN stakes : stakes[i] > stakes[j] => count(i) >= count(j)
        /\ SumOfStakes(stakes) \in 1..(Word - 1) =>
              \A i \in DOMAIN stakes :
                  count(i) \in (WholeShare(stakes, i, total_slots) - (IF i \in short THEN 1 ELSE 0))
                                   ..(WholeShare(stakes, i, total_slots) + 1)

-------------------------------------------------------------------------------
(* Documented, but not what the code does *)

\* What compute_schedule says, "the leader schedule for the current epoch": it ends, and
\* is as long as the epoch, whatever the stakes.
EpochLong(stakes, total_slots, short) ==
    ~Endless(stakes) /\ Len(compute_schedule(stakes, total_slots, short)) = total_slots
===============================================================================
