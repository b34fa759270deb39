----------------------------- MODULE MempoolProofs -----------------------------
(***************************************************************************)
(* Of Mempool, for any number of clients, transactions and calls: the two  *)
(* indexes describe one pool within its limit, every admitted transaction  *)
(* is accounted for, and none is lost early.                               *)
(*                                                                         *)
(* The pool is finite at every step, which is what lets the sizes of the   *)
(* sets that insert, drain and expire move be added up.                    *)
(***************************************************************************)
EXTENDS Mempool, FiniteSetTheorems, TLAPS

(* Most leaves are first-order, so Zenon is asked first. *)
USE ZenonT(2), SMT, ZenonT(10)

Counters ==
    total_evicted \in Nat /\ total_expired \in Nat /\ total_handed \in Nat

IInv ==
    /\ TypeOK /\ IndexesAgree /\ Bounded /\ Accounted /\ Counters
    /\ IsFiniteSet(DOMAIN by_seq)
    /\ DOMAIN call = Clients

\* The parts of the invariant that speak of the pool.
PoolInv ==
    /\ DOMAIN by_seq \subseteq 0..(next_seq - 1)
    /\ \A s \in DOMAIN by_seq : by_seq[s] \in Entry /\ by_seq[s].received_at <= clock
    /\ next_seq \in Nat
    /\ IndexesAgree
    /\ Bounded
    /\ IsFiniteSet(DOMAIN by_seq)

-------------------------------------------------------------------------------
(* Moves of the pool *)

\* Entries that leave: both indexes lose them, and nothing else.
LEMMA RemoveSeqs ==
    ASSUME IInv, NEW S \in SUBSET DOMAIN by_seq, remove_seqs(S), clock' = clock
    PROVE  /\ PoolInv'
           /\ next_seq' = next_seq
           /\ DOMAIN by_seq' = DOMAIN by_seq \ S
           /\ \A s \in DOMAIN by_seq' : by_seq'[s] = by_seq[s]
           /\ IsFiniteSet(S)
           /\ Cardinality(DOMAIN by_seq') = Cardinality(DOMAIN by_seq) - Cardinality(S)
<1> DEFINE hashes == {by_seq[s].tx : s \in S}
<1>1. /\ by_seq' = [s \in DOMAIN by_seq \ S |-> by_seq[s]]
      /\ by_hash' = [t \in DOMAIN by_hash \ hashes |-> by_hash[t]]
      /\ next_seq' = next_seq
    BY DEF remove_seqs, Without
<1>2. /\ DOMAIN by_seq' = DOMAIN by_seq \ S
      /\ \A s \in DOMAIN by_seq' : by_seq'[s] = by_seq[s]
      /\ DOMAIN by_hash' = DOMAIN by_hash \ hashes
      /\ \A t \in DOMAIN by_hash' : by_hash'[t] = by_hash[t]
    BY <1>1
<1>3. IsFiniteSet(DOMAIN by_seq) /\ IsFiniteSet(S) /\ (DOMAIN by_seq) \cap S = S
    BY FS_Subset DEF IInv
<1>4. /\ IsFiniteSet(DOMAIN by_seq')
      /\ Cardinality(DOMAIN by_seq') = Cardinality(DOMAIN by_seq) - Cardinality(S)
    <2>1. /\ IsFiniteSet((DOMAIN by_seq) \ S)
          /\ Cardinality((DOMAIN by_seq) \ S) = Cardinality(DOMAIN by_seq) - Cardinality(S)
        BY <1>3, FS_Difference
    <2> QED BY <1>2, <2>1
<1>5. Bounded'
    <2>1. Cardinality(DOMAIN by_seq) \in Nat /\ Cardinality(S) \in Nat
        BY <1>3, FS_CardinalityType
    <2> QED BY <1>4, <2>1, MempoolAssumption DEF IInv, Bounded
<1>6. IndexesAgree'
    <2>1. ASSUME NEW s \in DOMAIN by_seq'
          PROVE  by_seq'[s].tx \in DOMAIN by_hash' /\ by_hash'[by_seq'[s].tx] = s
        <3>1. s \in DOMAIN by_seq /\ s \notin S /\ by_seq'[s] = by_seq[s]
            BY <1>2, <2>1
        <3>2. by_seq[s].tx \in DOMAIN by_hash /\ by_hash[by_seq[s].tx] = s
            BY <3>1 DEF IInv, IndexesAgree
        <3>3. by_seq[s].tx \notin hashes
            BY <3>1, <3>2 DEF IInv, IndexesAgree
        <3> QED BY <1>2, <3>1, <3>2, <3>3
    <2>2. ASSUME NEW t \in DOMAIN by_hash'
          PROVE  by_hash'[t] \in DOMAIN by_seq' /\ by_seq'[by_hash'[t]].tx = t
        <3>1. t \in DOMAIN by_hash /\ t \notin hashes /\ by_hash'[t] = by_hash[t]
            BY <1>2, <2>2
        <3>2. by_hash[t] \in DOMAIN by_seq /\ by_seq[by_hash[t]].tx = t
            BY <3>1 DEF IInv, IndexesAgree
        <3>3. by_hash[t] \notin S
            BY <3>1, <3>2
        <3> QED BY <1>2, <3>1, <3>2, <3>3
    <2> QED BY <2>1, <2>2 DEF IndexesAgree
<1> QED BY <1>1, <1>2, <1>3, <1>4, <1>5, <1>6 DEF IInv, TypeOK, PoolInv

\* Entries that leave and one that comes: it is the last one, and alone under its hash.
LEMMA ReplaceSeqs ==
    ASSUME IInv, NEW S \in SUBSET DOMAIN by_seq, NEW k, replace_seqs(S, k), clock' = clock,
           k.tx \in Txs, k.tx \notin DOMAIN by_hash, k.now \in 0..clock,
           Cardinality(DOMAIN by_seq \ S) < max_size
    PROVE  /\ PoolInv'
           /\ next_seq' = next_seq + 1
           /\ DOMAIN by_seq' = (DOMAIN by_seq \ S) \cup {next_seq}
           /\ \A s \in DOMAIN by_seq \ S : by_seq'[s] = by_seq[s]
           /\ next_seq \notin DOMAIN by_seq
           /\ by_seq'[next_seq] = [tx |-> k.tx, fee |-> Fee[k.tx], received_at |-> k.now]
           /\ IsFiniteSet(S)
           /\ Cardinality(DOMAIN by_seq') = Cardinality(DOMAIN by_seq) - Cardinality(S) + 1
<1> DEFINE hashes == {by_seq[s].tx : s \in S}
           entry == [tx |-> k.tx, fee |-> Fee[k.tx], received_at |-> k.now]
<1>1. /\ DOMAIN by_seq' = (DOMAIN by_seq \ S) \cup {next_seq}
      /\ \A s \in DOMAIN by_seq' : by_seq'[s] = IF s = next_seq THEN entry ELSE by_seq[s]
      /\ DOMAIN by_hash' = (DOMAIN by_hash \ hashes) \cup {k.tx}
      /\ \A t \in DOMAIN by_hash' : by_hash'[t] = IF t = k.tx THEN next_seq ELSE by_hash[t]
      /\ next_seq' = next_seq + 1
    BY DEF replace_seqs
<1>2. next_seq \notin DOMAIN by_seq /\ next_seq \in Nat
    BY DEF IInv, TypeOK
<1>3. IsFiniteSet(DOMAIN by_seq) /\ IsFiniteSet(S) /\ (DOMAIN by_seq) \cap S = S
    BY FS_Subset DEF IInv
<1>4. /\ IsFiniteSet(DOMAIN by_seq \ S)
      /\ Cardinality(DOMAIN by_seq \ S) = Cardinality(DOMAIN by_seq) - Cardinality(S)
    BY <1>3, FS_Difference
<1>5. /\ IsFiniteSet(DOMAIN by_seq')
      /\ Cardinality(DOMAIN by_seq') = Cardinality(DOMAIN by_seq \ S) + 1
    <2>1. next_seq \notin (DOMAIN by_seq) \ S
        BY <1>2
    <2>2. /\ IsFiniteSet(((DOMAIN by_seq) \ S) \cup {next_seq})
          /\ Cardinality(((DOMAIN by_seq) \ S) \cup {next_seq}) = Cardinality((DOMAIN by_seq) \ S) + 1
        BY <1>4, <2>1, FS_AddElement
    <2> QED BY <1>1, <2>2
<1>6. Bounded'
    <2>1. Cardinality(DOMAIN by_seq \ S) \in Nat
        BY <1>4, FS_CardinalityType
    <2> QED BY <1>5, <2>1, MempoolAssumption DEF Bounded
<1>7. entry \in Entry /\ entry.tx = k.tx /\ entry.received_at <= clock
    BY MempoolAssumption DEF Entry, IInv, TypeOK
<1> HIDE DEF entry
<1>8. IndexesAgree'
    <2>1. ASSUME NEW s \in DOMAIN by_seq'
          PROVE  by_seq'[s].tx \in DOMAIN by_hash' /\ by_hash'[by_seq'[s].tx] = s
        <3>1. CASE s = next_seq
            BY <1>1, <1>7, <3>1
        <3>2. CASE s # next_seq
            <4>1. s \in DOMAIN by_seq /\ s \notin S /\ by_seq'[s] = by_seq[s]
                BY <1>1, <2>1, <3>2
            <4>2. by_seq[s].tx \in DOMAIN by_hash /\ by_hash[by_seq[s].tx] = s
                BY <4>1 DEF IInv, IndexesAgree
            <4>3. by_seq[s].tx \notin hashes
                BY <4>1, <4>2 DEF IInv, IndexesAgree
            <4>4. by_seq[s].tx # k.tx
                BY <4>2
            <4> QED BY <1>1, <4>1, <4>2, <4>3, <4>4
        <3> QED BY <3>1, <3>2
    <2>2. ASSUME NEW t \in DOMAIN by_hash'
          PROVE  by_hash'[t] \in DOMAIN by_seq' /\ by_seq'[by_hash'[t]].tx = t
        <3>1. CASE t = k.tx
            BY <1>1, <1>7, <3>1
        <3>2. CASE t # k.tx
            <4>1. t \in DOMAIN by_hash /\ t \notin hashes /\ by_hash'[t] = by_hash[t]
                BY <1>1, <2>2, <3>2
            <4>2. by_hash[t] \in DOMAIN by_seq /\ by_seq[by_hash[t]].tx = t
                BY <4>1 DEF IInv, IndexesAgree
            <4>3. by_hash[t] \notin S /\ by_hash[t] # next_seq
                BY <1>2, <4>1, <4>2
            <4> QED BY <1>1, <4>1, <4>2, <4>3
        <3> QED BY <3>1, <3>2
    <2> QED BY <2>1, <2>2 DEF IndexesAgree
<1>9. /\ DOMAIN by_seq' \subseteq 0..(next_seq' - 1)
      /\ \A s \in DOMAIN by_seq' : by_seq'[s] \in Entry /\ by_seq'[s].received_at <= clock'
      /\ next_seq' \in Nat
    BY <1>1, <1>2, <1>7 DEF IInv, TypeOK
<1> QED BY <1>1, <1>2, <1>3, <1>4, <1>5, <1>6, <1>8, <1>9 DEF PoolInv, entry

-------------------------------------------------------------------------------
(* Steps *)

\* What insert works with under the lock.
LEMMA CallTypes ==
    ASSUME IInv, NEW c \in Clients, call[c] # Idle
    PROVE  /\ call[c].tx \in Txs /\ Fee[call[c].tx] \in Nat
           /\ call[c].now \in 0..clock /\ clock \in Nat
           /\ Stale(call[c].now) \in SUBSET DOMAIN by_seq
BY MempoolAssumption DEF IInv, TypeOK, Stale

\* The invariant, from its parts.
LEMMA Assemble ==
    ASSUME IInv, PoolInv', Counters', Accounted', total_accepted' = next_seq',
           clock' = clock, DOMAIN call' = Clients,
           \A c \in Clients : call'[c] \in {Idle, call[c]}
    PROVE  IInv'
BY DEF IInv, PoolInv, TypeOK

\* The steps of insert under the lock.
LEMMA InsertStep ==
    ASSUME IInv, NEW c \in Clients, InsertLocked(c)
    PROVE  IInv'
<1> DEFINE now == call[c].now
           stale == Stale(now)
           live == (DOMAIN by_seq) \ stale
<1>1. /\ call[c] # Idle
      /\ UNCHANGED <<clock, calls, handed, total_handed>>
      /\ call' = [call EXCEPT ![c] = Idle]
    BY DEF InsertLocked
<1>2. DOMAIN call' = Clients /\ \A d \in Clients : call'[d] \in {Idle, call[d]}
    BY <1>1 DEF IInv
<1>3. /\ call[c].tx \in Txs /\ now \in 0..clock /\ stale \in SUBSET DOMAIN by_seq
    BY <1>1, CallTypes
<1>4. /\ IsFiniteSet(DOMAIN by_seq) /\ IsFiniteSet(stale) /\ IsFiniteSet(live)
      /\ Cardinality(DOMAIN by_seq) \in Nat /\ Cardinality(stale) \in Nat /\ Cardinality(live) \in Nat
      /\ Cardinality(live) <= Cardinality(DOMAIN by_seq)
    <2>1. IsFiniteSet(DOMAIN by_seq) /\ live \in SUBSET DOMAIN by_seq
        BY DEF IInv
    <2> HIDE DEF live
    <2> QED BY <1>3, <2>1, FS_Subset, FS_CardinalityType
<1>5. Counters /\ Accounted /\ total_accepted = next_seq /\ next_seq \in Nat
    BY DEF IInv, TypeOK
<1>6. CASE InsertDuplicate(c)
    BY <1>1, <1>2, <1>6 DEF InsertDuplicate, IInv, TypeOK, IndexesAgree, Bounded, Accounted, Counters,
                            pool
<1>7. CASE InsertFull(c)
    <2>1. /\ remove_seqs(stale)
          /\ total_expired' = total_expired + Cardinality(stale)
          /\ UNCHANGED <<total_accepted, total_evicted>>
        BY <1>7 DEF InsertFull
    <2>2. /\ PoolInv' /\ next_seq' = next_seq
          /\ Cardinality(DOMAIN by_seq') = Cardinality(DOMAIN by_seq) - Cardinality(stale)
        BY <1>1, <1>3, <2>1, RemoveSeqs
    <2> HIDE DEF stale
    <2>3. Counters' /\ Accounted'
        BY <1>1, <1>4, <1>5, <2>1, <2>2 DEF Counters, Accounted
    <2> QED BY <1>1, <1>2, <1>5, <2>1, <2>2, <2>3, Assemble
<1>8. CASE InsertEvicting(c)
    <2>1. PICK v \in live : replace_seqs(stale \cup {v}, call[c])
        BY <1>8 DEF InsertEvicting
    <2>2. /\ call[c].tx \notin DOMAIN by_hash
          /\ total_expired' = total_expired + Cardinality(stale)
          /\ total_evicted' = total_evicted + 1
          /\ total_accepted' = total_accepted + 1
        BY <1>8 DEF InsertEvicting
    <2> DEFINE gone == stale \cup {v}
    <2>3. v \notin stale /\ gone \in SUBSET DOMAIN by_seq /\ (DOMAIN by_seq) \ gone = live \ {v}
        BY <1>3, <2>1
    <2> HIDE DEF stale, live
    <2>4. Cardinality(gone) = Cardinality(stale) + 1
        BY <1>4, <2>3, FS_AddElement
    <2>5. Cardinality((DOMAIN by_seq) \ gone) = Cardinality(live) - 1
        BY <1>4, <2>1, <2>3, FS_RemoveElement
    <2>6. Cardinality((DOMAIN by_seq) \ gone) < max_size
        BY <1>4, <2>5, MempoolAssumption DEF IInv, Bounded
    <2> HIDE DEF gone
    <2>7. /\ PoolInv' /\ next_seq' = next_seq + 1
          /\ Cardinality(DOMAIN by_seq') = Cardinality(DOMAIN by_seq) - Cardinality(gone) + 1
        BY <1>1, <1>3, <2>1, <2>2, <2>3, <2>6, ReplaceSeqs DEF gone
    <2>8. Counters' /\ Accounted'
        BY <1>1, <1>4, <1>5, <2>2, <2>4, <2>7 DEF Counters, Accounted
    <2> QED BY <1>1, <1>2, <1>5, <2>2, <2>7, <2>8, Assemble
<1>9. CASE InsertAdmitted(c)
    <2>1. /\ call[c].tx \notin DOMAIN by_hash
          /\ Cardinality(DOMAIN by_seq \ stale) < max_size
          /\ replace_seqs(stale, call[c])
          /\ total_expired' = total_expired + Cardinality(stale)
          /\ total_accepted' = total_accepted + 1
          /\ UNCHANGED total_evicted
        BY <1>9 DEF InsertAdmitted
    <2> HIDE DEF stale
    <2>2. /\ PoolInv' /\ next_seq' = next_seq + 1
          /\ Cardinality(DOMAIN by_seq') = Cardinality(DOMAIN by_seq) - Cardinality(stale) + 1
        BY <1>1, <1>3, <2>1, ReplaceSeqs
    <2>3. Counters' /\ Accounted'
        BY <1>1, <1>4, <1>5, <2>1, <2>2 DEF Counters, Accounted
    <2> QED BY <1>1, <1>2, <1>5, <2>1, <2>2, <2>3, Assemble
<1> QED BY <1>6, <1>7, <1>8, <1>9 DEF InsertLocked

\* The steps that only take entries away.
LEMMA TakingStep ==
    ASSUME IInv, (\E limit \in Limits : Drain(limit)) \/ (\E t \in Txs : Remove(t)) \/ Expire
    PROVE  IInv'
<1>1. /\ UNCHANGED <<clock, call>> /\ Counters /\ Accounted
      /\ total_accepted = next_seq /\ next_seq \in Nat /\ DOMAIN call = Clients
    BY DEF IInv, TypeOK, Drain, Remove, Expire
<1>2. IsFiniteSet(DOMAIN by_seq) /\ Cardinality(DOMAIN by_seq) \in Nat
    BY FS_CardinalityType DEF IInv
<1>3. ASSUME NEW S \in SUBSET DOMAIN by_seq, remove_seqs(S),
             UNCHANGED <<total_accepted, total_evicted>>,
             \/ /\ total_expired' = total_expired + Cardinality(S)
                /\ total_handed' = total_handed
             \/ /\ total_handed' = total_handed + Cardinality(S)
                /\ total_expired' = total_expired
      PROVE  IInv'
    <2>1. /\ PoolInv' /\ next_seq' = next_seq /\ IsFiniteSet(S)
          /\ Cardinality(DOMAIN by_seq') = Cardinality(DOMAIN by_seq) - Cardinality(S)
        BY <1>1, <1>3, RemoveSeqs
    <2>2. Cardinality(S) \in Nat
        BY <2>1, FS_CardinalityType
    <2>3. Counters' /\ Accounted'
        BY <1>1, <1>2, <1>3, <2>1, <2>2 DEF Counters, Accounted
    <2> QED BY <1>1, <1>3, <2>1, <2>3, Assemble
<1>4. ASSUME NEW limit \in Limits, Drain(limit) PROVE IInv'
    <2>1. Best(limit) \in SUBSET DOMAIN by_seq
        BY DEF Best
    <2> QED BY <1>3, <1>4, <2>1 DEF Drain, counters
<1>5. ASSUME NEW t \in Txs, Remove(t) PROVE IInv'
    <2>1. {by_hash[t]} \cap DOMAIN by_seq = {by_hash[t]}
        BY <1>5 DEF Remove, IInv, IndexesAgree
    <2>2. Cardinality({by_hash[t]}) = 1
        BY FS_Singleton
    <2> QED BY <1>3, <1>5, <2>1, <2>2 DEF Remove, counters
<1>6. CASE Expire
    <2>1. Stale(clock) \in SUBSET DOMAIN by_seq
        BY DEF Stale
    <2> QED BY <1>3, <1>6, <2>1 DEF Expire
<1> QED BY <1>4, <1>5, <1>6

\* The steps that leave the pool alone.
LEMMA WaitingStep ==
    ASSUME IInv, (\E c \in Clients, t \in Txs : InsertCalled(c, t)) \/ Tick \/ UNCHANGED vars
    PROVE  IInv'
<1>1. CASE \E c \in Clients, t \in Txs : InsertCalled(c, t)
    <2>1. PICK c \in Clients, t \in Txs : InsertCalled(c, t)
        BY <1>1
    <2>2. /\ UNCHANGED <<by_hash, by_seq, next_seq, clock, total_accepted, total_evicted,
                         total_expired, total_handed>>
          /\ \/ call' = call
             \/ /\ t \in Signed /\ Fee[t] >= min_fee
                /\ call' = [call EXCEPT ![c] = [tx |-> t, now |-> clock]]
        BY <2>1 DEF InsertCalled, pool
    <2>3. DOMAIN call' = Clients
        BY <2>2 DEF IInv
    <2>4. \A d \in Clients : call'[d] # Idle =>
              /\ call'[d].tx \in Signed
              /\ Fee[call'[d].tx] >= min_fee
              /\ call'[d].now \in 0..clock
        BY <2>2 DEF IInv, TypeOK
    <2> QED BY <2>2, <2>3, <2>4 DEF IInv, TypeOK, IndexesAgree, Bounded, Accounted, Counters
<1>2. CASE Tick
    <2>1. /\ clock' = clock + 1 /\ clock < MaxTime
          /\ UNCHANGED <<by_hash, by_seq, next_seq, call, total_accepted, total_evicted,
                         total_expired, total_handed>>
        BY <1>2 DEF Tick, pool, counters
    <2>2. TypeOK'
        <3>1. \A s \in DOMAIN by_seq : by_seq[s].received_at <= clock'
            BY <2>1, MempoolAssumption DEF IInv, TypeOK, Entry
        <3> QED BY <2>1, <3>1, MempoolAssumption DEF IInv, TypeOK
    <2> QED BY <2>1, <2>2 DEF IInv, IndexesAgree, Bounded, Accounted, Counters
<1>3. CASE UNCHANGED vars
    BY <1>3 DEF vars, pool, counters, IInv, TypeOK, IndexesAgree, Bounded, Accounted, Counters
<1> QED BY <1>1, <1>2, <1>3

-------------------------------------------------------------------------------
(* Theorems *)

\* An empty pool.
LEMMA InitIInv == Init => IInv
<1> SUFFICES ASSUME Init PROVE IInv
    OBVIOUS
<1>1. DOMAIN by_seq = {} /\ DOMAIN by_hash = {}
    BY DEF Init
<1>2. IsFiniteSet(DOMAIN by_seq) /\ Cardinality(DOMAIN by_seq) = 0
    BY <1>1, FS_EmptySet
<1> QED
    BY <1>1, <1>2, MempoolAssumption DEF Init, IInv, TypeOK, IndexesAgree, Bounded, Accounted, Counters

\* The invariant in one piece.
LEMMA Invariance == Spec => []IInv
<1>1. IInv /\ [Next]_vars => IInv'
    BY InsertStep, TakingStep, WaitingStep DEF Next
<1> QED BY InitIInv, <1>1, PTL DEF Spec

\* The pool is sound for every mix of callers: both indexes agree, within the limit, and
\* no entry is from the future.
THEOREM Sound == Spec => []PoolSound
<1>1. IInv => PoolSound
    BY DEF IInv, PoolSound
<1> QED BY Invariance, <1>1, PTL

\* The counters add up: no admitted transaction disappears uncounted.
THEOREM AllAccounted == Spec => []Accounted
<1>1. IInv => Accounted
    BY DEF IInv
<1> QED BY Invariance, <1>1, PTL

\* An entry whose age is over the limit by a clock that was read earlier is over it now.
LEMMA StaleIsOld ==
    ASSUME IInv, NEW now \in 0..clock, NEW s \in Stale(now)
    PROVE  clock - by_seq[s].received_at > max_age_ms
BY MempoolAssumption DEF IInv, TypeOK, Entry, Stale, age_ms

\* Entries leave the pool handed out, for a better paid one, or too old; never because a
\* caller came late with the time it had read.
THEOREM NoneLostEarly == Spec => NothingLostEarly
<1> DEFINE Left(s) ==
              \/ total_handed' > total_handed
              \/ clock - by_seq[s].received_at > max_age_ms
              \/ \E n \in DOMAIN by_seq' \ DOMAIN by_seq :
                    /\ by_seq'[n].fee > by_seq[s].fee
                    /\ \A r \in DOMAIN by_seq \cap DOMAIN by_seq' : by_seq[r].fee >= by_seq[s].fee
<1>1. ASSUME IInv, Next, NEW s \in DOMAIN by_seq \ DOMAIN by_seq'
      PROVE  Left(s)
    <2>1. CASE \/ \E c \in Clients, t \in Txs : InsertCalled(c, t)
               \/ Tick
        BY <1>1, <2>1 DEF InsertCalled, Tick, pool
    <2>2. ASSUME NEW c \in Clients, InsertLocked(c) PROVE Left(s)
        <3> DEFINE stale == Stale(call[c].now)
                   live == (DOMAIN by_seq) \ stale
        <3>1. call[c].now \in 0..clock /\ stale \in SUBSET DOMAIN by_seq /\ call[c] # Idle
            BY <1>1, <2>2, CallTypes DEF InsertLocked
        <3>2. CASE s \in stale
            BY <1>1, <3>1, <3>2, StaleIsOld
        <3>3. CASE s \notin stale
            <4>1. InsertEvicting(c)
                <5>1. CASE InsertDuplicate(c)
                    BY <1>1, <5>1 DEF InsertDuplicate, pool
                <5>2. CASE InsertFull(c)
                    BY <1>1, <3>3, <5>2 DEF InsertFull, remove_seqs, Without
                <5>3. CASE InsertAdmitted(c)
                    BY <1>1, <3>3, <5>3 DEF InsertAdmitted, replace_seqs
                <5> QED BY <2>2, <5>1, <5>2, <5>3 DEF InsertLocked
            <4>2. PICK v \in live : /\ IsVictim(v, live)
                                    /\ Fee[call[c].tx] > by_seq[v].fee
                                    /\ replace_seqs(stale \cup {v}, call[c])
                BY <4>1 DEF InsertEvicting
            <4>3. /\ DOMAIN by_seq' = ((DOMAIN by_seq) \ (stale \cup {v})) \cup {next_seq}
                  /\ by_seq'[next_seq].fee = Fee[call[c].tx]
                BY <4>2 DEF replace_seqs
            <4>4. s = v
                BY <1>1, <3>3, <4>3
            <4>5. next_seq \in DOMAIN by_seq' \ DOMAIN by_seq
                BY <1>1, <4>3 DEF IInv, TypeOK
            <4>6. ASSUME NEW r \in DOMAIN by_seq \cap DOMAIN by_seq'
                  PROVE  by_seq[r].fee >= by_seq[v].fee
                <5>1. r \in live
                    BY <4>3, <4>5
                <5>2. by_seq[r].fee \in Nat /\ by_seq[v].fee \in Nat
                    BY <1>1, <4>2 DEF IInv, TypeOK, Entry
                <5> QED BY <4>2, <5>1, <5>2 DEF IsVictim
            <4> QED BY <4>2, <4>3, <4>4, <4>5, <4>6
        <3> QED BY <3>2, <3>3
    <2>3. ASSUME NEW limit \in Limits, Drain(limit) PROVE Left(s)
        <3>1. s \in Best(limit) /\ Best(limit) \in SUBSET DOMAIN by_seq
            BY <1>1, <2>3 DEF Drain, remove_seqs, Without, Best
        <3>2. IsFiniteSet(Best(limit)) /\ Cardinality(Best(limit)) \in Nat
            BY <1>1, <3>1, FS_Subset, FS_CardinalityType DEF IInv
        <3>3. Cardinality(Best(limit)) # 0
            BY <3>1, <3>2, FS_EmptySet
        <3>4. total_handed' = total_handed + Cardinality(Best(limit)) /\ total_handed \in Nat
            BY <1>1, <2>3 DEF Drain, IInv, Counters
        <3>5. total_handed' > total_handed
            BY <3>2, <3>3, <3>4
        <3> QED BY <3>5
    <2>4. ASSUME NEW t \in Txs, Remove(t) PROVE Left(s)
        BY <1>1, <2>4 DEF Remove, IInv, Counters
    <2>5. CASE Expire
        <3>1. s \in Stale(clock) /\ clock \in 0..clock
            <4>1. by_seq' = Without(by_seq, Stale(clock)) /\ clock \in Nat
                BY <1>1, <2>5 DEF Expire, remove_seqs, IInv, TypeOK
            <4>2. DOMAIN by_seq' = DOMAIN by_seq \ Stale(clock)
                BY <4>1 DEF Without
            <4> QED BY <1>1, <4>1, <4>2
        <3> QED BY <1>1, <3>1, StaleIsOld
    <2> QED BY <1>1, <2>1, <2>2, <2>3, <2>4, <2>5 DEF Next
<1>2. IInv /\ [Next]_vars => [\A s \in DOMAIN by_seq \ DOMAIN by_seq' : Left(s)]_vars
    BY <1>1
<1> QED BY Invariance, <1>2, PTL DEF Spec, NothingLostEarly
===============================================================================
