-------------------------------- MODULE Mempool --------------------------------
(***************************************************************************)
(* The transaction pool of crates/mempool, called by several clients at    *)
(* once.  Everything under the write lock is one step; what insert does    *)
(* before it takes the lock (the checks on the transaction and the reading *)
(* of the clock) is a step of its own, so a caller may be overtaken        *)
(* between the two.                                                        *)
(*                                                                         *)
(* A transaction stands for its hash: Transaction::hash commits to every   *)
(* field, so equal hashes mean the same transaction.                       *)
(***************************************************************************)
EXTENDS Integers, Sequences, FiniteSets

CONSTANTS
    Txs,           \* the transactions clients submit
    Fee,           \* Fee[t]: the fee transaction t offers
    Signed,        \* the transactions whose signature verifies
    Clients,       \* the threads that call insert
    Idle,          \* the value of call[c] when client c is not inside insert
    max_size, max_age_ms, min_fee,      \* MempoolConfig
    Limits,        \* the limits drain is called with
    MaxTime,       \* bound on the clock
    MaxCalls,      \* bound on the number of calls of insert
    Word           \* u64 arithmetic is modulo Word

ASSUME MempoolAssumption ==
    /\ Fee \in [Txs -> Nat]
    /\ Signed \subseteq Txs
    /\ max_size \in Nat /\ max_age_ms \in Nat /\ min_fee \in Nat
    /\ Limits \subseteq Nat
    /\ MaxTime \in Nat /\ MaxCalls \in Nat
    /\ Word \in Nat /\ Word > MaxTime
    /\ Idle \notin [tx : Txs, now : Nat]

VARIABLES
    by_hash,       \* Inner.by_hash: parked transaction -> insertion sequence
    by_seq,        \* Inner.by_seq: insertion sequence -> entry
    next_seq,      \* Inner.next_seq
    clock,         \* the wall clock now_ms() reads
    call,          \* call[c]: the transaction and the time client c waits for the
                   \* lock with
    calls,         \* how many calls of insert were made
    total_accepted, total_rejected, total_evicted, total_expired,
    out,           \* what drain returned, if the last step was a drain
    handed,        \* history: the transactions drained or removed so far
    total_handed   \* history: how many entries were drained or removed

pool == <<by_hash, by_seq, next_seq>>
counters == <<total_accepted, total_rejected, total_evicted, total_expired>>
vars == <<pool, clock, call, calls, counters, out, handed, total_handed>>

-------------------------------------------------------------------------------
(* Entries and the two indexes *)

Entry == [tx : Txs, fee : Nat, received_at : Nat]

Without(f, S) == [x \in DOMAIN f \ S |-> f[x]]

\* Mutant of age_ms: a wrapping subtraction.
age_ms_Wrapping(e, now) == (now - e.received_at) % Word

age_ms(e, now) == IF now >= e.received_at THEN now - e.received_at ELSE 0

Stale(now) == {s \in DOMAIN by_seq : age_ms(by_seq[s], now) > max_age_ms}

\* The order in which drain takes entries: fee descending, then first come.
Before(r, s) ==
    \/ by_seq[r].fee > by_seq[s].fee
    \/ by_seq[r].fee = by_seq[s].fee /\ r < s

\* The entry insert gives up first among those in S: lowest fee, then oldest.
IsVictim(v, S) ==
    \A s \in S : by_seq[v].fee < by_seq[s].fee \/ (by_seq[v].fee = by_seq[s].fee /\ v <= s)

\* Mutant of remove_seqs: the hash index is forgotten.
remove_seqs_KeepsHashes(S) ==
    /\ by_seq' = Without(by_seq, S)
    /\ UNCHANGED <<by_hash, next_seq>>

\* remove_seq for every sequence number in S.
remove_seqs(S) ==
    /\ by_seq' = Without(by_seq, S)
    /\ by_hash' = Without(by_hash, {by_seq[s].tx : s \in S})
    /\ UNCHANGED next_seq

\* remove_seq for every number in S, then a new entry for the waiting call k.
replace_seqs(S, k) ==
    /\ by_seq' = [s \in (DOMAIN by_seq \ S) \cup {next_seq} |->
                    IF s = next_seq
                    THEN [tx |-> k.tx, fee |-> Fee[k.tx], received_at |-> k.now]
                    ELSE by_seq[s]]
    /\ by_hash' = [t \in (DOMAIN by_hash \ {by_seq[s].tx : s \in S}) \cup {k.tx} |->
                    IF t = k.tx THEN next_seq ELSE by_hash[t]]
    /\ next_seq' = next_seq + 1

-------------------------------------------------------------------------------
(* insert *)

Init ==
    /\ by_hash = << >>
    /\ by_seq = << >>
    /\ next_seq = 0
    /\ clock = 0
    /\ call = [c \in Clients |-> Idle]
    /\ calls = 0
    /\ total_accepted = 0 /\ total_rejected = 0
    /\ total_evicted = 0 /\ total_expired = 0
    /\ out = << >>
    /\ handed = {} /\ total_handed = 0

\* Mutant of InsertCalled: the fee floor is not checked.
InsertCalled_AnyFee(c, t) ==
    /\ call[c] = Idle
    /\ calls < MaxCalls
    /\ calls' = calls + 1
    /\ out' = << >>
    /\ \/ /\ t \notin Signed
          /\ total_rejected' = total_rejected + 1
          /\ UNCHANGED call
       \/ /\ t \in Signed
          /\ call' = [call EXCEPT ![c] = [tx |-> t, now |-> clock]]
          /\ UNCHANGED total_rejected
    /\ UNCHANGED <<pool, clock, total_accepted, total_evicted, total_expired, handed, total_handed>>

\* The part of insert before the lock: the transaction is refused, or the clock
\* is read and the call waits.
InsertCalled(c, t) ==
    /\ call[c] = Idle
    /\ calls < MaxCalls
    /\ calls' = calls + 1
    /\ out' = << >>
    /\ \/ /\ t \notin Signed \/ Fee[t] < min_fee
          /\ total_rejected' = total_rejected + 1
          /\ UNCHANGED call
       \/ /\ t \in Signed /\ Fee[t] >= min_fee
          /\ call' = [call EXCEPT ![c] = [tx |-> t, now |-> clock]]
          /\ UNCHANGED total_rejected
    /\ UNCHANGED <<pool, clock, total_accepted, total_evicted, total_expired, handed, total_handed>>

\* Duplicates are refused before stale entries are dropped.
InsertDuplicate(c) ==
    /\ call[c].tx \in DOMAIN by_hash
    /\ total_rejected' = total_rejected + 1
    /\ UNCHANGED <<pool, total_accepted, total_evicted, total_expired>>

\* A full pool with no cheaper entry: stale entries are dropped all the same.
InsertFull(c) ==
    LET stale == Stale(call[c].now)
        live == DOMAIN by_seq \ stale
    IN  /\ call[c].tx \notin DOMAIN by_hash
        /\ Cardinality(live) >= max_size
        /\ \A v \in live : IsVictim(v, live) => Fee[call[c].tx] <= by_seq[v].fee
        /\ remove_seqs(stale)
        /\ total_expired' = total_expired + Cardinality(stale)
        /\ total_rejected' = total_rejected + 1
        /\ UNCHANGED <<total_accepted, total_evicted>>

InsertEvicting(c) ==
    LET stale == Stale(call[c].now)
        live == DOMAIN by_seq \ stale
    IN  /\ call[c].tx \notin DOMAIN by_hash
        /\ Cardinality(live) >= max_size
        /\ \E v \in live :
              /\ IsVictim(v, live)
              /\ Fee[call[c].tx] > by_seq[v].fee
              /\ replace_seqs(stale \cup {v}, call[c])
        /\ total_expired' = total_expired + Cardinality(stale)
        /\ total_evicted' = total_evicted + 1
        /\ total_accepted' = total_accepted + 1
        /\ UNCHANGED total_rejected

\* Mutant of InsertAdmitted: an off-by-one in the size check.
InsertAdmitted_StaleFillPool(c) ==
    LET stale == Stale(call[c].now)
    IN  /\ call[c].tx \notin DOMAIN by_hash
        /\ Cardinality(DOMAIN by_seq) <= max_size
        /\ replace_seqs(stale, call[c])
        /\ total_expired' = total_expired + Cardinality(stale)
        /\ total_accepted' = total_accepted + 1
        /\ UNCHANGED <<total_rejected, total_evicted>>

InsertAdmitted(c) ==
    LET stale == Stale(call[c].now)
    IN  /\ call[c].tx \notin DOMAIN by_hash
        /\ Cardinality(DOMAIN by_seq \ stale) < max_size
        /\ replace_seqs(stale, call[c])
        /\ total_expired' = total_expired + Cardinality(stale)
        /\ total_accepted' = total_accepted + 1
        /\ UNCHANGED <<total_rejected, total_evicted>>

\* The part of insert under the write lock.
InsertLocked(c) ==
    /\ call[c] # Idle
    /\ InsertDuplicate(c) \/ InsertFull(c) \/ InsertEvicting(c) \/ InsertAdmitted(c)
    /\ call' = [call EXCEPT ![c] = Idle]
    /\ out' = << >>
    /\ UNCHANGED <<clock, calls, handed, total_handed>>

-------------------------------------------------------------------------------
(* drain, remove, expire and the clock *)

\* How many parked entries drain takes before entry s.
Rank(s) == Cardinality({r \in DOMAIN by_seq : Before(r, s)})

Best(limit) == {s \in DOMAIN by_seq : Rank(s) < limit}

Numbered(s) ==
    [seq |-> s, tx |-> by_seq[s].tx, fee |-> by_seq[s].fee, received_at |-> by_seq[s].received_at]

\* Mutant of Drain: first come, first served, whatever the fee.
Drain_FIFO(limit) ==
    LET taken == {s \in DOMAIN by_seq : Cardinality({r \in DOMAIN by_seq : r < s}) < limit}
    IN  /\ out' = [i \in 1..Cardinality(taken) |->
                     Numbered(CHOOSE s \in taken :
                        Cardinality({r \in DOMAIN by_seq : r < s}) = i - 1)]
        /\ remove_seqs(taken)
        /\ handed' = handed \cup {by_seq[s].tx : s \in taken}
        /\ total_handed' = total_handed + Cardinality(taken)
        /\ UNCHANGED <<clock, call, calls, counters>>

\* Up to limit entries leave, best first; stale ones are not looked for.
Drain(limit) ==
    LET taken == Best(limit)
    IN  /\ out' = [i \in 1..Cardinality(taken) |->
                     Numbered(CHOOSE s \in taken : Rank(s) = i - 1)]
        /\ remove_seqs(taken)
        /\ handed' = handed \cup {by_seq[s].tx : s \in taken}
        /\ total_handed' = total_handed + Cardinality(taken)
        /\ UNCHANGED <<clock, call, calls, counters>>

Remove(t) ==
    /\ t \in DOMAIN by_hash
    /\ remove_seqs({by_hash[t]} \cap DOMAIN by_seq)
    /\ handed' = handed \cup {t}
    /\ total_handed' = total_handed + 1
    /\ out' = << >>
    /\ UNCHANGED <<clock, call, calls, counters>>

\* Mutant of Expire: total_expired is not raised.
Expire_Uncounted ==
    /\ remove_seqs(Stale(clock))
    /\ out' = << >>
    /\ UNCHANGED <<clock, call, calls, counters, handed, total_handed>>

Expire ==
    /\ remove_seqs(Stale(clock))
    /\ total_expired' = total_expired + Cardinality(Stale(clock))
    /\ out' = << >>
    /\ UNCHANGED <<clock, call, calls, total_accepted, total_rejected, total_evicted,
                   handed, total_handed>>

Tick ==
    /\ clock < MaxTime
    /\ clock' = clock + 1
    /\ out' = << >>
    /\ UNCHANGED <<pool, call, calls, counters, handed, total_handed>>

Next ==
    \/ \E c \in Clients, t \in Txs : InsertCalled(c, t)
    \/ \E c \in Clients : InsertLocked(c)
    \/ \E limit \in Limits : Drain(limit)
    \/ \E t \in Txs : Remove(t)
    \/ Expire
    \/ Tick

Spec == Init /\ [][Next]_vars

-------------------------------------------------------------------------------
(* Properties *)

\* Numbers below next_seq are the only ones in use, no entry is from the future,
\* and only transactions that insert has checked wait for the lock.
TypeOK ==
    /\ DOMAIN by_seq \subseteq 0..(next_seq - 1)
    /\ \A s \in DOMAIN by_seq : by_seq[s] \in Entry /\ by_seq[s].received_at <= clock
    /\ next_seq \in Nat
    /\ clock \in 0..MaxTime
    /\ \A c \in Clients : call[c] # Idle =>
          /\ call[c].tx \in Signed
          /\ Fee[call[c].tx] >= min_fee
          /\ call[c].now \in 0..clock
    /\ total_accepted = next_seq

\* The two indexes describe the same pool: every parked entry is found under its
\* hash and every hash leads to its entry.  A hash left behind by remove_seq
\* would refuse its transaction for ever; a missing one would park it twice.
IndexesAgree ==
    /\ \A s \in DOMAIN by_seq : by_seq[s].tx \in DOMAIN by_hash /\ by_hash[by_seq[s].tx] = s
    /\ \A t \in DOMAIN by_hash : by_hash[t] \in DOMAIN by_seq /\ by_seq[by_hash[t]].tx = t

\* The pool never holds more than max_size entries, whatever mix of stale,
\* evicted and waiting transactions the callers bring.
Bounded == Cardinality(DOMAIN by_seq) <= max_size

\* What every method of the pool may rely on when it takes the lock: both indexes tell
\* the same, within the limit.
PoolSound == TypeOK /\ IndexesAgree /\ Bounded

\* No admitted transaction disappears uncounted: each one is still parked, was
\* handed out, or shows in total_evicted or total_expired.
Accounted ==
    total_accepted = Cardinality(DOMAIN by_seq) + total_evicted + total_expired + total_handed

\* drain returns the best entries in the order of fee, first come first served
\* among equal fees, and leaves nothing better behind.
DrainTakesTheBest ==
    \A i \in 1..Len(out) :
        LET outranks(fee, seq) == out[i].fee > fee \/ (out[i].fee = fee /\ out[i].seq < seq)
        IN  /\ \A j \in i + 1 .. Len(out) : outranks(out[j].fee, out[j].seq)
            /\ \A s \in DOMAIN by_seq : outranks(by_seq[s].fee, s)

\* An entry that leaves the pool without being handed out, and not in exchange
\* for a strictly better paid one, is older than max_age_ms by the wall clock:
\* a caller that was overtaken between reading the clock and taking the lock
\* never makes a fresh entry expire.
NothingLostEarly ==
    [][\A s \in DOMAIN by_seq \ DOMAIN by_seq' :
          \/ total_handed' > total_handed
          \/ clock - by_seq[s].received_at > max_age_ms
          \/ \E n \in DOMAIN by_seq' \ DOMAIN by_seq :
                /\ by_seq'[n].fee > by_seq[s].fee
                /\ \A r \in DOMAIN by_seq \cap DOMAIN by_seq' : by_seq[r].fee >= by_seq[s].fee
      ]_vars

-------------------------------------------------------------------------------
(* Documented, but not what the code does *)

\* What the header of lib.rs says deduplication achieves: a transaction that a
\* client submits again is not handed to the block producer a second time.
NotDrainedAgain == [][\A i \in 1..Len(out') : out'[i].tx \notin handed]_out

\* What the header of lib.rs says of overaged entries: the pool drops them, so
\* none is handed to the block producer.
NothingStaleDrained == \A i \in 1..Len(out) : clock - out[i].received_at <= max_age_ms
===============================================================================
