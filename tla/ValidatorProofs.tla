---------------------------- MODULE ValidatorProofs ----------------------------
(***************************************************************************)
(* Of Validator, for any leader schedule, any clients and any number of    *)
(* crashes, power losses, errors and slots: slots and heights rise along   *)
(* the ledger, and until an operation on the ledger file fails what was    *)
(* published is one chain of one block per slot.                           *)
(*                                                                         *)
(* The file may hold frames of failed appends, between which nothing       *)
(* rises.  What carries the argument across a restart is a fact about each *)
(* frame alone: a parent hash commits to the contents of the parent, and a *)
(* block is only built on a parent of an earlier slot and a lower height.  *)
(* So whatever prefix of the file chains up, rises.                        *)
(***************************************************************************)
EXTENDS Validator, BlockstoreProofs

(* Most leaves are first-order, so Zenon is asked first. *)
USE ZenonT(2), SMT, ZenonT(10)

\* A record is later and higher than the block that its parent hash stands for.
Rises(r) ==
    /\ r.contents.slot \in Nat /\ r.contents.height \in Nat
    /\ \A p, c : r.parent_hash = compute_hash(p, c) =>
                     c.slot < r.contents.slot /\ c.height < r.contents.height

FramesRise ==
    /\ \A i \in 1..Len(file) : file[i].kind = "whole" => Rises(file[i].record)
    /\ \A i \in 1..Len(records) : Rises(records[i])

\* The clock is not behind the ledger, and at its last slot only if the node knows that it
\* has produced this slot.
ClockAhead ==
    records # << >> =>
        /\ Last(records).contents.slot <= current_slot
        /\ Last(records).contents.slot = current_slot => last_produced_slot = Some(current_slot)
        /\ Last(records).contents.height < block_height

\* What produce_block relies on from its check to its end.
Producing ==
    /\ producer \in {"executing", "appending"} => last_produced_slot # Some(current_slot)
    /\ phase = "closed" => producer = "idle"
    /\ phase = "written" =>
          /\ producer = "appending"
          /\ file[Len(file)].record.contents.slot = current_slot
          /\ file[Len(file)].record.contents.height = block_height

\* Until an error, what was published was promised.
PublishedPromised ==
    errors = 0 => clean /\ \A r \in published : \E i \in 1..Len(promised) : promised[i] = r

NodeInv ==
    /\ IInv
    /\ current_slot \in Nat /\ block_height \in Nat
    /\ FramesRise
    /\ ClockAhead
    /\ Producing
    /\ PublishedPromised

\* The sequences of the store.
LEMMA StoreShape ==
    ASSUME IInv
    PROVE  /\ IsSequence(file) /\ IsSequence(records) /\ IsSequence(promised)
           /\ Len(file) \in Nat /\ Len(records) \in Nat /\ Len(promised) \in Nat
           /\ records = << >> <=> Len(records) = 0
           /\ errors \in Nat
<1>1. IsSequence(file) /\ IsSequence(records) /\ IsSequence(promised) /\ errors \in Nat
    BY BlockstoreAssumption DEF IInv, Shape, TypeOK
<1>2. Len(file) \in Nat /\ Len(records) \in Nat /\ Len(promised) \in Nat
    BY <1>1, SequenceShape
<1>3. records = << >> <=> Len(records) = 0
    BY <1>1 DEF IsSequence
<1> QED BY <1>1, <1>2, <1>3

-------------------------------------------------------------------------------
(* Steps *)

\* A restart resumes behind whatever the file chains up to, as far as it is read.
LEMMA RestartStep == NodeInv /\ Restart => NodeInv'
<1> SUFFICES ASSUME NodeInv, Restart PROVE NodeInv'
    OBVIOUS
<1>1. PICK n \in 0..valid_len(file) :
          /\ OpenAt(n)
          /\ \/ n = valid_len(file) /\ promised' = promised /\ errors' = errors
             \/ errors' = errors + 1
    BY StoreShape, ValidLen DEF NodeInv, Restart, Open, OpenReadFails
<1>2. IInv'
    BY OpenStep, OpenReadFailsStep DEF NodeInv, Restart
<1>3. /\ phase = "closed" /\ phase' = "open" /\ clean' = TRUE
      /\ file' = SubSeq(file, 1, n)
      /\ UNCHANGED <<last_produced_slot, producer, published>>
    BY <1>1 DEF Restart, OpenAt
<1>4. /\ n \in 0..Len(file) /\ n \in Nat /\ \A i \in 1..n : Accepts(file, i)
      /\ Len(records') = n
      /\ \A i \in 1..n : records'[i] = file[i].record
    <2>1. n \in 0..Len(file) /\ n \in Nat /\ \A i \in 1..n : Accepts(file, i)
        BY <1>1, StoreShape, ValidLen DEF NodeInv
    <2> QED BY <1>1, <2>1, OpenLength DEF NodeInv, OpenAt
<1>5. Len(file') = n /\ \A i \in 1..n : file'[i] = file[i]
    BY <1>3, <1>4, StoreShape, PrefixFacts DEF NodeInv
<1>6. \A i \in 1..n : file[i].kind = "whole" /\ Rises(file[i].record)
    BY <1>4, StoreShape DEF NodeInv, FramesRise, Accepts
<1>7. FramesRise'
    BY <1>4, <1>5, <1>6 DEF FramesRise
<1>8. /\ records' # << >> => Len(records') \in 1..n
      /\ current_slot' = IF records' = << >> THEN 0 ELSE Last(records').contents.slot + 1
      /\ block_height' = IF records' = << >> THEN 0 ELSE Last(records').contents.height + 1
    <2>1. records' = << >> <=> Len(records') = 0
        BY <1>2 DEF IInv, Shape, IsSequence
    <2> QED BY <1>4, <2>1 DEF Restart
<1>9. records' # << >> => Rises(Last(records'))
    BY <1>4, <1>6, <1>8 DEF Last
<1>10. current_slot' \in Nat /\ block_height' \in Nat /\ ClockAhead'
    BY <1>8, <1>9 DEF Rises, ClockAhead, Last
<1>11. Producing'
    BY <1>3 DEF NodeInv, Producing
<1>12. PublishedPromised'
    BY <1>1, <1>3, StoreShape DEF NodeInv, PublishedPromised
<1> QED BY <1>2, <1>7, <1>10, <1>11, <1>12 DEF NodeInv

\* A crash takes the memory, and from the file at most whole frames away.
LEMMA CrashesStep == NodeInv /\ (Crash \/ Blackout) => NodeInv'
<1> SUFFICES ASSUME NodeInv, Crash \/ Blackout PROVE NodeInv'
    OBVIOUS
<1>1. /\ records' = << >> /\ phase' = "closed"
      /\ current_slot' = 0 /\ block_height' = 0 /\ producer' = "idle"
      /\ UNCHANGED <<clean, promised, errors, published>>
    BY DEF Crash, Blackout, Kill, PowerLoss, Forget, ProcessDies
<1>2. IInv'
    BY CrashStep DEF NodeInv, Crash, Blackout
<1>3. FramesRise'
    <2>1. CASE Crash
        BY <1>1, <2>1 DEF Crash, Kill, NodeInv, FramesRise
    <2>2. CASE Blackout
        <3>1. PICK n \in synced..Len(file) : \E lost \in SUBSET (synced + 1 .. n) :
                  file' = [i \in 1..n |-> IF i \in lost THEN Torn ELSE file[i]]
            BY <2>2 DEF Blackout, PowerLoss
        <3>2. n \in Nat /\ n <= Len(file)
            BY <3>1, StoreShape DEF NodeInv, IInv, Shape
        <3>3. Len(file') = n
            BY <3>1, <3>2, FunctionIsSequence
        <3>4. \A i \in 1..n : file'[i] = file[i] \/ file'[i].kind = "torn"
            BY <3>1 DEF Torn
        <3> QED BY <1>1, <3>2, <3>3, <3>4, StoreShape DEF NodeInv, FramesRise
    <2> QED BY <2>1, <2>2
<1>4. ClockAhead' /\ Producing' /\ PublishedPromised'
    BY <1>1 DEF NodeInv, ClockAhead, Producing, PublishedPromised
<1> QED BY <1>1, <1>2, <1>3, <1>4 DEF NodeInv

\* A new block is later and higher than the one that it is built on.
LEMMA NewBlockRises ==
    ASSUME NodeInv, producer = "executing", NEW root, NEW txs
    PROVE  Rises(BlockRecord(expected_parent(records), Block(current_slot, block_height, root, txs)))
<1> DEFINE r == BlockRecord(expected_parent(records), Block(current_slot, block_height, root, txs))
<1>1. /\ r.contents.slot = current_slot /\ r.contents.height = block_height
      /\ r.parent_hash = expected_parent(records)
    BY DEF BlockRecord, Block
<1>2. ASSUME NEW p, NEW c, expected_parent(records) = compute_hash(p, c)
      PROVE  c.slot < current_slot /\ c.height < block_height
    <2>1. records # << >> /\ Last(records).block_hash = compute_hash(p, c)
        BY <1>2 DEF expected_parent, GENESIS_PARENT, compute_hash, Last
    <2>2. Len(records) \in 1..Len(records)
        BY <2>1, StoreShape DEF NodeInv
    <2>3. verify_hash(Last(records)) /\ Rises(Last(records))
        BY <2>2 DEF NodeInv, IInv, ChainUnbroken, Chained, FramesRise, Last
    <2>4. c = Last(records).contents
        BY <2>1, <2>3 DEF verify_hash, compute_hash
    <2>5. Last(records).contents.slot # current_slot
        BY <2>1 DEF NodeInv, ClockAhead, Producing
    <2> QED BY <2>1, <2>3, <2>4, <2>5 DEF NodeInv, ClockAhead, Rises
<1> QED BY <1>1, <1>2 DEF Rises, NodeInv

\* Up to the write of the frame.
LEMMA LedgerAppendStep == NodeInv /\ ledger_append => NodeInv'
<1> SUFFICES ASSUME NodeInv, ledger_append PROVE NodeInv'
    OBVIOUS
<1> DEFINE r == BlockRecord(expected_parent(records),
                            Block(current_slot, block_height, compute_state_root(accounts_log), transactions))
<1>1. /\ append_record(r) /\ producer = "executing"
      /\ UNCHANGED <<current_slot, published>>
      /\ IF phase' = "written"
         THEN producer' = "appending" /\ UNCHANGED <<block_height, last_produced_slot>>
         ELSE Produced
    BY DEF ledger_append, clock
<1>2. r.contents.slot = current_slot /\ r.contents.height = block_height
    BY DEF BlockRecord, Block
<1>3. Rises(r)
    BY <1>1, NewBlockRises
<1> HIDE DEF r
<1>4. IInv'
    BY <1>1, AppendRecordStep DEF NodeInv
<1>5. phase = "open" /\ UNCHANGED <<records, promised>> /\ write_all(r)
    BY <1>1 DEF append_record
<1>6. \A e : /\ Len(Append(file, e)) = Len(file) + 1
             /\ \A i \in 1..Len(file) : Append(file, e)[i] = file[i]
             /\ Append(file, e)[Len(file) + 1] = e
    BY StoreShape, AppendFacts DEF NodeInv
<1>7. FramesRise'
    <2>1. CASE file' = file
        BY <1>5, <2>1 DEF NodeInv, FramesRise
    <2>2. CASE file' = Append(file, Frame(r))
        <3>1. ASSUME NEW i \in 1..Len(file'), file'[i].kind = "whole" PROVE Rises(file'[i].record)
            <4>1. CASE i \in 1..Len(file)
                BY <1>6, <2>2, <3>1, <4>1 DEF NodeInv, FramesRise
            <4>2. CASE i = Len(file) + 1
                BY <1>3, <1>6, <2>2, <4>2 DEF Frame
            <4> QED BY <1>6, <2>2, <4>1, <4>2, StoreShape DEF NodeInv
        <3> QED BY <1>5, <3>1 DEF NodeInv, FramesRise
    <2>3. CASE file' = Append(file, Torn)
        <3>1. ASSUME NEW i \in 1..Len(file'), file'[i].kind = "whole" PROVE Rises(file'[i].record)
            <4>1. CASE i \in 1..Len(file)
                BY <1>6, <2>3, <3>1, <4>1 DEF NodeInv, FramesRise
            <4>2. CASE i = Len(file) + 1
                BY <1>6, <2>3, <3>1, <4>2 DEF Torn
            <4> QED BY <1>6, <2>3, <4>1, <4>2, StoreShape DEF NodeInv
        <3> QED BY <1>5, <3>1 DEF NodeInv, FramesRise
    <2> QED BY <1>5, <2>1, <2>2, <2>3 DEF write_all
<1>8. CASE phase' = "written"
    <2>1. file' = Append(file, Frame(r)) /\ UNCHANGED <<clean, errors>>
        BY <1>5, <1>8 DEF write_all
    <2>2. file'[Len(file')].record = r
        BY <1>6, <2>1 DEF Frame
    <2>3. ClockAhead' /\ Producing' /\ PublishedPromised'
        BY <1>1, <1>2, <1>5, <1>8, <2>1, <2>2 DEF NodeInv, ClockAhead, Producing, PublishedPromised, Last
    <2> QED BY <1>1, <1>4, <1>7, <1>8, <2>3 DEF NodeInv
<1>9. CASE phase' # "written"
    <2>1. phase' = "open" /\ errors' = errors + 1
        BY <1>5, <1>9 DEF write_all
    <2>2. block_height' = block_height + 1 /\ last_produced_slot' = Some(current_slot) /\ producer' = "idle"
        BY <1>1, <1>9 DEF Produced
    <2>3. records # << >> => Last(records).contents.height \in Nat
        BY StoreShape DEF NodeInv, FramesRise, Rises, Last
    <2>4. ClockAhead'
        BY <1>1, <1>5, <2>2, <2>3 DEF NodeInv, ClockAhead, Last
    <2>5. Producing' /\ PublishedPromised'
        BY <2>1, <2>2, StoreShape DEF NodeInv, Producing, PublishedPromised
    <2> QED BY <1>1, <1>4, <1>7, <2>2, <2>4, <2>5 DEF NodeInv
<1> QED BY <1>8, <1>9

\* The block that is acknowledged and published is the one that was written.
LEMMA AcknowledgedStep == NodeInv /\ AppendAcknowledged => NodeInv'
<1> SUFFICES ASSUME NodeInv, AppendAcknowledged PROVE NodeInv'
    OBVIOUS
<1> DEFINE r == file[Len(file)].record
<1>1. /\ phase = "written" /\ phase' = "open" /\ records' = Append(records, r)
      /\ promised' = IF clean THEN records' ELSE promised
      /\ published' = published \cup {Last(records')}
      /\ UNCHANGED <<file, clean, errors, current_slot>>
      /\ block_height' = block_height + 1 /\ last_produced_slot' = Some(current_slot) /\ producer' = "idle"
    BY BlocksFit DEF AppendAcknowledged, AppendSynced, Produced, clock, Legible
<1>2. IInv'
    BY AppendSyncedStep DEF NodeInv, AppendAcknowledged
<1>3. /\ Len(records') = Len(records) + 1
      /\ \A i \in 1..Len(records) : records'[i] = records[i]
      /\ records'[Len(records) + 1] = r
    BY <1>1, StoreShape, AppendFacts DEF NodeInv
<1>4. Last(records') = r /\ r.contents.slot = current_slot /\ r.contents.height = block_height
    BY <1>1, <1>3 DEF Last, NodeInv, Producing
<1>5. Rises(r)
    <2>1. Len(file) \in 1..Len(file) /\ file[Len(file)].kind = "whole"
        BY <1>1, StoreShape DEF NodeInv, IInv, Shape, TypeOK
    <2> QED BY <2>1 DEF NodeInv, FramesRise
<1> HIDE DEF r
<1>6. FramesRise'
    <2>1. ASSUME NEW i \in 1..Len(records') PROVE Rises(records'[i])
        <3>1. CASE i \in 1..Len(records)
            BY <1>3, <3>1 DEF NodeInv, FramesRise
        <3>2. CASE i = Len(records) + 1
            BY <1>3, <1>5, <3>2
        <3> QED BY <1>3, <3>1, <3>2, StoreShape DEF NodeInv
    <2> QED BY <1>1, <2>1 DEF NodeInv, FramesRise
<1>7. ClockAhead' /\ Producing'
    BY <1>1, <1>4 DEF NodeInv, ClockAhead, Producing, Last
<1>8. PublishedPromised'
    <2> SUFFICES ASSUME errors = 0 PROVE clean /\ \A q \in published' :
                     \E i \in 1..Len(promised') : promised'[i] = q
        BY <1>1 DEF PublishedPromised
    <2>1. clean /\ promised' = records'
        BY <1>1 DEF NodeInv, PublishedPromised
    <2>2. ASSUME NEW q \in published PROVE \E i \in 1..Len(records) : records[i] = q
        BY <1>1, <2>2, StoreShape DEF NodeInv, PublishedPromised, IInv, RecordsExtendPromise, IsPrefixOf
    <2>3. ASSUME NEW q \in published PROVE \E i \in 1..Len(records') : records'[i] = q
        <3>1. PICK i \in 1..Len(records) : records[i] = q
            BY <2>2, <2>3
        <3> QED BY <1>3, <3>1, StoreShape DEF NodeInv
    <2>4. \E i \in 1..Len(records') : records'[i] = Last(records')
        BY <1>3, <1>4, StoreShape DEF NodeInv
    <2> QED BY <1>1, <2>1, <2>3, <2>4
<1> QED BY <1>1, <1>2, <1>6, <1>7, <1>8 DEF NodeInv

\* A failed open, and a failed sync.
LEMMA FailuresStep == NodeInv /\ (RestartFails \/ AppendFailed) => NodeInv'
<1> SUFFICES ASSUME NodeInv, RestartFails \/ AppendFailed PROVE NodeInv'
    OBVIOUS
<1>1. CASE RestartFails
    <2>1. PICK n \in 0..valid_len(file) :
              /\ errors' = errors + (IF n = valid_len(file) THEN 1 ELSE 2)
              /\ file' = file \/ file' = SubSeq(file, 1, n)
        BY <1>1 DEF RestartFails, OpenFails
    <2>0. /\ phase = "closed"
          /\ UNCHANGED <<records, phase, current_slot, block_height, last_produced_slot,
                         producer, published>>
        BY <1>1 DEF RestartFails, OpenFails, clock, production
    <2>2. IInv'
        BY <1>1, OpenFailsStep DEF NodeInv, RestartFails
    <2>3. FramesRise'
        <3>1. CASE file' = file
            BY <2>0, <3>1 DEF NodeInv, FramesRise
        <3>2. CASE file' = SubSeq(file, 1, n)
            <4>1. n \in 0..Len(file)
                BY StoreShape, ValidLen DEF NodeInv
            <4>2. Len(file') = n /\ \A i \in 1..n : file'[i] = file[i]
                BY <3>2, <4>1, StoreShape, PrefixFacts DEF NodeInv
            <4> QED BY <2>0, <4>1, <4>2, StoreShape DEF NodeInv, FramesRise
        <3> QED BY <2>1, <3>1, <3>2
    <2>4. ClockAhead' /\ Producing'
        BY <2>0 DEF NodeInv, ClockAhead, Producing
    <2>5. PublishedPromised'
        BY <2>1, StoreShape DEF NodeInv, PublishedPromised
    <2> QED BY <2>0, <2>2, <2>3, <2>4, <2>5 DEF NodeInv
<1>2. CASE AppendFailed
    <2>1. /\ phase' = "open" /\ errors' = errors + 1
          /\ UNCHANGED <<file, records, promised, current_slot, published>>
          /\ block_height' = block_height + 1 /\ last_produced_slot' = Some(current_slot) /\ producer' = "idle"
        BY <1>2 DEF AppendFailed, AppendSyncFails, Produced, clock
    <2>2. IInv'
        BY <1>2, AppendSyncFailsStep DEF NodeInv, AppendFailed
    <2>3. records # << >> => Last(records).contents.height \in Nat
        BY StoreShape DEF NodeInv, FramesRise, Rises, Last
    <2>4. ClockAhead'
        BY <2>1, <2>3 DEF NodeInv, ClockAhead, Last
    <2>5. FramesRise' /\ Producing' /\ PublishedPromised'
        BY <2>1, StoreShape DEF NodeInv, FramesRise, Producing, PublishedPromised
    <2> QED BY <2>1, <2>2, <2>4, <2>5 DEF NodeInv
<1> QED BY <1>1, <1>2

\* Clients, the clock and the producer until the append leave the ledger alone.
LEMMA MemoryStep ==
    ASSUME NodeInv,
           \/ \E t \in Txs : send_transaction(t)
           \/ process_tick \/ is_leader \/ AlreadyProduced \/ produce_block \/ ExecuteTransaction
           \/ UNCHANGED allvars
    PROVE  NodeInv'
<1>1. /\ UNCHANGED <<file, synced, records, phase, clean, promised, errors, decays, block_height,
                     last_produced_slot, published>>
    BY DEF send_transaction, process_tick, is_leader, AlreadyProduced, produce_block,
           ExecuteTransaction, allvars, store, production
<1>2. IInv' /\ FramesRise' /\ PublishedPromised'
    BY <1>1 DEF NodeInv, IInv, Shape, TypeOK, PromiseOnMedium, RecordsExtendPromise, FileIsRecords,
                InFlightChains, ChainUnbroken, FramesRise, PublishedPromised
<1>3. CASE process_tick
    <2>1. /\ producer' = producer /\ producer \in {"idle", "leader"} /\ phase # "closed"
          /\ current_slot' \in {current_slot, current_slot + 1}
        BY <1>3 DEF process_tick, production, Unlocked, up
    <2>2. records # << >> => Last(records).contents.slot \in Nat
        BY StoreShape DEF NodeInv, FramesRise, Rises, Last
    <2>3. ClockAhead' /\ current_slot' \in Nat
        BY <1>1, <2>1, <2>2 DEF NodeInv, ClockAhead, Last
    <2>4. Producing'
        BY <1>1, <2>1 DEF NodeInv, Producing
    <2> QED BY <1>1, <1>2, <2>3, <2>4 DEF NodeInv
<1>4. CASE ~process_tick
    <2>1. current_slot' = current_slot
        BY <1>4 DEF send_transaction, is_leader, AlreadyProduced, produce_block,
                    ExecuteTransaction, allvars, clock
    <2>2. \/ producer' = producer
          \/ producer' = "leader" /\ producer = "idle" /\ phase # "closed"
          \/ producer' = "idle" /\ producer = "leader"
          \/ producer' = "executing" /\ producer = "leader" /\ last_produced_slot # Some(current_slot)
        BY <1>4 DEF send_transaction, is_leader, AlreadyProduced, produce_block,
                    ExecuteTransaction, allvars, production, up
    <2>3. ClockAhead' /\ Producing'
        BY <1>1, <2>1, <2>2 DEF NodeInv, ClockAhead, Producing, Last
    <2> QED BY <1>1, <1>2, <2>1, <2>3 DEF NodeInv
<1> QED BY <1>3, <1>4

\* The invariant in one piece.
LEMMA NodeInvariance == NodeSpec => []NodeInv
<1>1. NodeInit => NodeInv
    <2> SUFFICES ASSUME NodeInit PROVE NodeInv
        OBVIOUS
    <2>1. IInv
        BY InitIInv DEF NodeInit
    <2>2. file = << >> /\ records = << >> /\ Len(<< >>) = 0
        BY DEF NodeInit, Init
    <2>3. FramesRise /\ ClockAhead
        BY <2>2 DEF FramesRise, ClockAhead
    <2>4. Producing /\ PublishedPromised
        BY DEF NodeInit, Init, Producing, PublishedPromised
    <2> QED BY <2>1, <2>3, <2>4 DEF NodeInit, NodeInv
<1>2. NodeInv /\ [NodeNext]_allvars => NodeInv'
    BY RestartStep, CrashesStep, LedgerAppendStep, AcknowledgedStep, FailuresStep, MemoryStep DEF NodeNext
<1> QED BY <1>1, <1>2, PTL DEF NodeSpec

-------------------------------------------------------------------------------
(* Results *)

\* The slots of a sequence of blocks, each later than the one before, are all different.
LEMMA RisingSlots ==
    ASSUME NEW rs, NEW n \in Nat,
           \A i \in 1..n : rs[i].contents.slot \in Nat,
           \A i \in 2..n : rs[i - 1].contents.slot < rs[i].contents.slot,
           NEW a \in 1..n, NEW b \in 1..n, a < b
    PROVE  rs[a].contents.slot < rs[b].contents.slot
<1> SUFFICES ASSUME ~(rs[a].contents.slot < rs[b].contents.slot) PROVE FALSE
    OBVIOUS
<1> DEFINE T == {j \in Nat : a < j /\ j <= n /\ ~(rs[a].contents.slot < rs[j].contents.slot)}
<1>1. b \in T
    OBVIOUS
<1>2. PICK j \in T : \A m \in T : j <= m
    BY <1>1, LeastNatural
<1>3. j \in 2..n /\ j - 1 \in 1..n /\ rs[j - 1].contents.slot < rs[j].contents.slot
    BY <1>2
<1>4. CASE j - 1 = a
    BY <1>2, <1>3, <1>4
<1>5. CASE j - 1 > a
    <2>1. j - 1 \notin T
        BY <1>2, <1>3
    <2>2. rs[a].contents.slot < rs[j - 1].contents.slot
        BY <1>3, <1>5, <2>1
    <2> QED BY <1>2, <1>3, <2>2
<1>6. j \in Nat /\ a \in Nat /\ a < j
    BY <1>2
<1>7. j - 1 = a \/ j - 1 > a
    BY <1>6
<1> QED BY <1>4, <1>5, <1>7

\* A block that names the hash of another as its parent is later and higher.
LEMMA ChildRises ==
    ASSUME NEW r, NEW q, Rises(r), verify_hash(q), r.parent_hash = q.block_hash
    PROVE  q.contents.slot < r.contents.slot /\ q.contents.height < r.contents.height
BY DEF Rises, verify_hash

\* Along the ledger slots and heights rise strictly, whatever produce_block and
\* Blockstore::open went through: any failed appends, crashes and power losses.
THEOREM Rising == NodeSpec => []LedgerRises
<1>1. NodeInv => LedgerRises
    <2> SUFFICES ASSUME NodeInv, NEW i \in 2..Len(records)
                 PROVE  /\ records[i - 1].contents.slot < records[i].contents.slot
                        /\ records[i - 1].contents.height < records[i].contents.height
        BY DEF LedgerRises
    <2>1. i \in 1..Len(records) /\ i - 1 \in 1..Len(records) /\ i # 1
        BY StoreShape DEF NodeInv
    <2>2. /\ Rises(records[i]) /\ verify_hash(records[i - 1])
          /\ records[i].parent_hash = records[i - 1].block_hash
        BY <2>1 DEF NodeInv, FramesRise, IInv, ChainUnbroken, Chained
    <2> QED BY <2>2, ChildRises
<1> QED BY <1>1, NodeInvariance, PTL

\* Until an operation on the ledger file fails, produce_block publishes one block per
\* slot over any number of
\* restarts, and a running node has every block that it published on its chain.
THEOREM Published == NodeSpec => []PublishedOnce
<1>1. NodeInv => PublishedOnChain
    BY StoreShape DEF NodeInv, IInv, PublishedOnChain, PublishedPromised, RecordsExtendPromise,
                      IsPrefixOf, up
<1>2. NodeInv => OneBlockPerSlot
    <2> SUFFICES ASSUME NodeInv, errors = 0, NEW r \in published, NEW q \in published,
                        r.contents.slot = q.contents.slot
                 PROVE  r = q
        BY DEF OneBlockPerSlot
    <2>1. PICK a \in 1..Len(promised) : promised[a] = r
        BY DEF NodeInv, PublishedPromised
    <2>2. PICK b \in 1..Len(promised) : promised[b] = q
        BY DEF NodeInv, PublishedPromised
    <2>3. Len(promised) \in Nat /\ Len(file) \in Nat /\ Len(promised) <= Len(file)
        BY StoreShape DEF NodeInv, IInv, Shape, TypeOK, PromiseOnMedium
    <2>4. ASSUME NEW i \in 1..Len(promised)
          PROVE  Accepts(file, i) /\ promised[i] = file[i].record /\ Rises(promised[i])
        BY <2>3 DEF NodeInv, IInv, PromiseOnMedium, Carries, FramesRise, Accepts
    <2>5. ASSUME NEW i \in 2..Len(promised)
          PROVE  promised[i - 1].contents.slot < promised[i].contents.slot
        <3>1. i \in 1..Len(promised) /\ i - 1 \in 1..Len(promised) /\ i # 1
            BY <2>3
        <3>2. /\ Rises(promised[i]) /\ verify_hash(promised[i - 1])
              /\ promised[i].parent_hash = promised[i - 1].block_hash
            BY <2>4, <3>1 DEF Accepts, ParentAt
        <3> QED BY <3>2, ChildRises
    <2>6. \A i \in 1..Len(promised) : promised[i].contents.slot \in Nat
        BY <2>4 DEF Rises
    <2>7. \A i, j \in 1..Len(promised) : i < j => promised[i].contents.slot < promised[j].contents.slot
        BY <2>3, <2>5, <2>6, RisingSlots
    <2>8. ~(a < b) /\ ~(b < a)
        BY <2>1, <2>2, <2>6, <2>7
    <2> QED BY <2>1, <2>2, <2>3, <2>7, <2>8
<1>3. NodeInv => PublishedOnce
    BY <1>1, <1>2 DEF PublishedOnce
<1> QED BY <1>3, NodeInvariance, PTL
===============================================================================
