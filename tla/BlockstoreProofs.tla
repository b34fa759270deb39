--------------------------- MODULE BlockstoreProofs ---------------------------
(***************************************************************************)
(* The safety properties of Blockstore for every set of contents and every *)
(* bound.  The inductive invariant says where the bytes are: the promised  *)
(* blocks are the first frames of the synced part of the file, and while   *)
(* nothing has failed since open the file is the records, frame by frame,  *)
(* whether replay would accept the frames or not.                          *)
(***************************************************************************)
EXTENDS Blockstore, DataFacts

(* Most leaves are first-order, so Zenon is asked first. *)
USE ZenonT(2), SMT, ZenonT(10)

\* The frames of f up to n read back, chain up and carry the records rs.
Carries(f, rs, n) == \A i \in 1..n : Accepts(f, i) /\ f[i].record = rs[i]

\* The type invariant, with what is a sequence said to be one.
Shape ==
    /\ IsSequence(file)
    /\ IsSequence(records)
    /\ IsSequence(promised)
    /\ synced \in Nat
    /\ TypeOK

\* The promised blocks are on the medium.
PromiseOnMedium ==
    /\ Len(promised) <= synced
    /\ Carries(file, promised, Len(promised))

\* The first n frames of f were written for the records rs.
Written(f, rs, n) == \A i \in 1..n : f[i].kind = "whole" /\ f[i].record = rs[i]

\* A store that has seen no failure since open has written its records and
\* nothing else.
FileIsRecords ==
    (phase # "closed" /\ clean) =>
        /\ Written(file, records, Len(records))
        /\ Len(file) = IF phase = "written" THEN Len(records) + 1 ELSE Len(records)

\* The record in flight extends the chain in memory.
InFlightChains ==
    phase = "written" =>
        /\ file[Len(file)].kind = "whole"
        /\ file[Len(file)].record.parent_hash = expected_parent(records)
        /\ verify_hash(file[Len(file)].record)

\* The inductive invariant.
IInv ==
    /\ Shape
    /\ PromiseOnMedium
    /\ RecordsExtendPromise
    /\ FileIsRecords
    /\ InFlightChains
    /\ ChainUnbroken

-------------------------------------------------------------------------------
(* Replay *)

\* valid_len is the length of the longest prefix that replay accepts.
LEMMA ValidLen ==
    ASSUME NEW f, IsSequence(f)
    PROVE  /\ valid_len(f) \in 0..Len(f)
           /\ \A i \in 1..valid_len(f) : Accepts(f, i)
           /\ valid_len(f) < Len(f) => ~Accepts(f, valid_len(f) + 1)
<1> DEFINE P(n) == /\ \A i \in 1..n : Accepts(f, i)
                   /\ n < Len(f) => ~Accepts(f, n + 1)
           Good == {n \in 0..Len(f) : \A i \in 1..n : Accepts(f, i)}
<1>1. Len(f) \in Nat
  BY SequenceShape
<1>2. 0 \in Good
  BY <1>1
<1>3. Good \in SUBSET Nat /\ \A m \in Good : m <= Len(f)
  BY <1>1
<1>4. PICK n \in Good : \A m \in Good : m <= n
  <2> HIDE DEF Good
  <2> QED
    BY <1>1, <1>2, <1>3, GreatestNatural
<1>5. n < Len(f) => ~Accepts(f, n + 1)
  <2> SUFFICES ASSUME n < Len(f), Accepts(f, n + 1) PROVE FALSE
    OBVIOUS
  <2>1. n + 1 \in Good
    BY <1>1
  <2> QED
    BY <1>1, <1>4, <2>1
<1>6. \E m \in 0..Len(f) : P(m)
  BY <1>4, <1>5
<1>7. valid_len(f) \in 0..Len(f) /\ P(valid_len(f))
  <2>1. valid_len(f) = CHOOSE m \in 0..Len(f) : P(m)
    BY DEF valid_len
  <2> HIDE DEF P
  <2> QED
    BY <1>6, <2>1
<1> QED
  BY <1>7

\* Whatever prefix is accepted, replay keeps it.
LEMMA ReplayKeeps ==
    ASSUME NEW f, IsSequence(f), NEW n \in 0..Len(f), \A i \in 1..n : Accepts(f, i)
    PROVE  n <= valid_len(f)
BY ValidLen, SequenceShape

\* replay returns the records of the accepted prefix.
LEMMA ReplayFacts ==
    ASSUME NEW f, IsSequence(f)
    PROVE  /\ IsSequence(replay(f))
           /\ Len(replay(f)) = valid_len(f)
           /\ \A i \in 1..valid_len(f) : replay(f)[i] = f[i].record
           /\ Chained(replay(f))
<1>1. valid_len(f) \in Nat /\ valid_len(f) <= Len(f) /\ Len(f) \in Nat
  BY ValidLen, SequenceShape
<1>2. \A i \in 1..valid_len(f) : replay(f)[i] = f[i].record
  BY DEF replay
<1>3. replay(f) = [i \in 1..valid_len(f) |-> replay(f)[i]]
  BY DEF replay
<1>4. IsSequence(replay(f)) /\ Len(replay(f)) = valid_len(f)
  BY <1>1, <1>3, FunctionIsSequence
<1>5. Chained(replay(f))
  <2> SUFFICES ASSUME NEW i \in 1..valid_len(f)
               PROVE  /\ replay(f)[i].parent_hash =
                           (IF i = 1 THEN GENESIS_PARENT ELSE replay(f)[i - 1].block_hash)
                      /\ verify_hash(replay(f)[i])
    BY <1>4 DEF Chained
  <2>1. Accepts(f, i)
    BY ValidLen
  <2>2. i # 1 => i - 1 \in 1..valid_len(f)
    BY <1>1
  <2> QED
    BY <1>2, <2>1, <2>2 DEF Accepts, ParentAt
<1> QED
  BY <1>2, <1>4, <1>5

\* Whether a frame is accepted depends on it and on the one before it.
LEMMA AcceptsLocal ==
    ASSUME NEW f, NEW g, NEW n \in Nat, \A i \in 1..n : f[i] = g[i],
           NEW i \in 1..n
    PROVE  Accepts(f, i) <=> Accepts(g, i)
<1>1. f[i] = g[i] /\ (i # 1 => i - 1 \in 1..n)
  OBVIOUS
<1> QED
  BY <1>1 DEF Accepts, ParentAt

\* So does what a prefix of the file carries.
LEMMA CarriesLocal ==
    ASSUME NEW f, NEW g, NEW rs, NEW n \in Nat, \A i \in 1..n : f[i] = g[i],
           Carries(f, rs, n)
    PROVE  Carries(g, rs, n)
BY AcceptsLocal DEF Carries

\* A frame written for a record of an unbroken chain is accepted unless it is oversize.
LEMMA WrittenAccepted ==
    ASSUME NEW f, NEW rs, NEW n \in Nat, Written(f, rs, n), n <= Len(rs), Len(rs) \in Nat,
           Chained(rs), NEW i \in 1..n
    PROVE  Accepts(f, i) <=> rs[i].contents \notin Oversize
<1>1. /\ f[i].kind = "whole" /\ f[i].record = rs[i]
      /\ i # 1 => f[i - 1].record = rs[i - 1]
  BY DEF Written
<1>2. /\ rs[i].parent_hash = (IF i = 1 THEN GENESIS_PARENT ELSE rs[i - 1].block_hash)
      /\ verify_hash(rs[i])
  <2>1. i \in 1..Len(rs)
    OBVIOUS
  <2> QED
    BY <2>1 DEF Chained
<1> QED
  BY <1>1, <1>2 DEF Accepts, ParentAt

-------------------------------------------------------------------------------
(* The invariant holds initially and every step keeps it *)

\* An empty file promises nothing.
LEMMA InitIInv == Init => IInv
<1> SUFFICES ASSUME Init PROVE IInv
  OBVIOUS
<1>1. IsSequence(<< >>) /\ Len(<< >>) = 0
  BY DEF IsSequence
<1> QED
  BY <1>1, BlockstoreAssumption DEF Init, IInv, Shape, TypeOK, PromiseOnMedium, Carries,
     RecordsExtendPromise, FileIsRecords, Written, IsPrefixOf, InFlightChains, ChainUnbroken,
     Chained

\* The first n elements of a sequence.
LEMMA UptoFacts ==
    ASSUME NEW s, IsSequence(s), NEW n \in Nat
    PROVE  /\ IsSequence(Upto(s, n)) /\ Len(Upto(s, n)) \in Nat
           /\ Len(Upto(s, n)) <= n /\ Len(Upto(s, n)) <= Len(s)
           /\ \A i \in 1..Len(Upto(s, n)) : Upto(s, n)[i] = s[i]
<1>1. Len(s) \in Nat
  BY SequenceShape
<1>2. CASE n < Len(s)
  <2>1. n \in 0..Len(s) /\ Upto(s, n) = SubSeq(s, 1, n)
    BY <1>1, <1>2 DEF Upto
  <2> QED
    BY <1>1, <2>1, PrefixFacts
<1>3. CASE ~(n < Len(s))
  <2>1. Upto(s, n) = s
    BY <1>3 DEF Upto
  <2> QED
    BY <1>1, <1>3, <2>1
<1> QED
  BY <1>2, <1>3

\* open on the n frames that replay has read: when they are accepted and the
\* promise reaches no further, the file is afterwards what replay found.
LEMMA OpenAtStep ==
    ASSUME IInv, NEW n \in 0..valid_len(file), OpenAt(n),
           IsSequence(promised'), Len(promised') <= n, Len(promised') <= Len(promised),
           \A i \in 1..Len(promised') : promised'[i] = promised[i],
           errors' \in 0..MaxErrors, decays' = decays
    PROVE  IInv'
<1> USE DEF IInv, Shape
<1>1. Len(file) \in Nat /\ Len(promised) \in Nat /\ Len(promised') \in Nat
  BY SequenceShape
<1>2. n \in 0..Len(file) /\ n \in Nat /\ \A i \in 1..n : Accepts(file, i)
  BY <1>1, ValidLen
<1>3. /\ IsSequence(file') /\ Len(file') = n
      /\ \A i \in 1..n : file'[i] = file[i]
  BY <1>2, PrefixFacts DEF OpenAt
<1>4. /\ IsSequence(records') /\ Len(records') = n
      /\ \A i \in 1..n : records'[i] = file[i].record
  <2>1. \A i \in 1..n : records'[i] = file[i].record
    BY DEF OpenAt
  <2>2. records' = [i \in 1..n |-> records'[i]]
    BY DEF OpenAt
  <2> QED
    BY <1>2, <2>1, <2>2, FunctionIsSequence
<1>5. \A i \in 1..n : Accepts(file', i)
  BY <1>2, <1>3, AcceptsLocal
<1>6. Chained(records')
  <2> SUFFICES ASSUME NEW i \in 1..n
               PROVE  /\ records'[i].parent_hash =
                           (IF i = 1 THEN GENESIS_PARENT ELSE records'[i - 1].block_hash)
                      /\ verify_hash(records'[i])
    BY <1>4 DEF Chained
  <2>1. Accepts(file, i) /\ (i # 1 => i - 1 \in 1..n)
    BY <1>2
  <2> QED
    BY <1>4, <2>1 DEF Accepts, ParentAt
<1>7. TypeOK' /\ synced' \in Nat
  BY <1>1, <1>2, <1>3 DEF OpenAt, TypeOK
<1>8. PromiseOnMedium'
  <2>1. Len(promised') <= synced'
    BY <1>1, <1>2 DEF OpenAt, PromiseOnMedium
  <2>2. Carries(file, promised', Len(promised'))
    BY <1>1 DEF PromiseOnMedium, Carries
  <2>3. \A i \in 1..Len(promised') : file[i] = file'[i]
    BY <1>1, <1>2, <1>3
  <2> QED
    BY <1>1, <2>1, <2>2, <2>3, CarriesLocal DEF PromiseOnMedium
<1>9. RecordsExtendPromise'
  <2>1. ASSUME NEW i \in 1..Len(promised') PROVE promised'[i] = records'[i]
    <3>1. i \in 1..n /\ i \in 1..Len(promised)
      BY <1>1, <1>2
    <3> QED
      BY <1>4, <3>1 DEF PromiseOnMedium, Carries
  <2> QED
    BY <1>4, <2>1 DEF RecordsExtendPromise, IsPrefixOf
<1>10. FileIsRecords'
  <2>1. \A i \in 1..n : file[i].kind = "whole"
    BY <1>2 DEF Accepts
  <2> QED
    BY <1>3, <1>4, <2>1 DEF OpenAt, FileIsRecords, Written
<1>11. InFlightChains'
  BY DEF OpenAt, InFlightChains
<1> QED
  BY <1>3, <1>4, <1>6, <1>7, <1>8, <1>9, <1>10, <1>11 DEF ChainUnbroken

\* The promised blocks are among those that an undisturbed replay accepts.
LEMMA PromiseAccepted ==
    ASSUME IInv
    PROVE  /\ valid_len(file) \in 0..Len(file) /\ Len(file) \in Nat
           /\ Len(promised) \in Nat /\ Len(promised) <= valid_len(file)
<1>1. Len(file) \in Nat /\ Len(promised) \in Nat
  BY SequenceShape DEF IInv, Shape
<1> QED
  BY <1>1, ValidLen, ReplayKeeps DEF IInv, Shape, PromiseOnMedium, Carries, TypeOK

\* open, undisturbed.
LEMMA OpenStep == IInv /\ Open => IInv'
<1> SUFFICES ASSUME IInv, Open PROVE IInv'
  OBVIOUS
<1>1. /\ OpenAt(valid_len(file)) /\ promised' = promised /\ errors' = errors /\ decays' = decays
  BY DEF Open
<1>2. valid_len(file) \in 0..valid_len(file)
  BY PromiseAccepted
<1>3. IsSequence(promised') /\ errors' \in 0..MaxErrors
  BY <1>1 DEF IInv, Shape, TypeOK
<1> QED
  BY <1>1, <1>2, <1>3, PromiseAccepted, OpenAtStep

\* open with a failed read: what it cuts off is no longer promised.
LEMMA OpenReadFailsStep == IInv /\ OpenReadFails => IInv'
<1> SUFFICES ASSUME IInv, OpenReadFails PROVE IInv'
  OBVIOUS
<1>1. PICK n \in 0..valid_len(file) : OpenAt(n) /\ promised' = Upto(promised, n)
  BY DEF OpenReadFails
<1>2. n \in Nat
  BY PromiseAccepted
<1>3. /\ IsSequence(promised') /\ Len(promised') <= n /\ Len(promised') <= Len(promised)
      /\ \A i \in 1..Len(promised') : promised'[i] = promised[i]
  BY <1>1, <1>2, UptoFacts DEF IInv, Shape
<1>4. errors' \in 0..MaxErrors /\ decays' = decays
  BY BlockstoreAssumption DEF OpenReadFails, IInv, Shape, TypeOK
<1> QED
  BY <1>1, <1>3, <1>4, OpenAtStep

\* An open that fails leaves the file, or has cut off what replay rejects or did
\* not read, and the promise with it.
LEMMA OpenFailsStep == IInv /\ OpenFails => IInv'
<1> SUFFICES ASSUME IInv, OpenFails PROVE IInv'
  OBVIOUS
<1> USE DEF IInv, Shape
<1>1. Len(file) \in Nat /\ Len(promised) \in Nat
  BY SequenceShape
<1>2. PICK n \in 0..valid_len(file) :
        /\ errors' = errors + (IF n = valid_len(file) THEN 1 ELSE 2)
        /\ \/ UNCHANGED <<file, synced, promised>>
           \/ /\ file' = SubSeq(file, 1, n)
              /\ synced' = IF synced < n THEN synced ELSE n
              /\ promised' = Upto(promised, n)
  BY DEF OpenFails
<1>3. n \in Nat /\ n \in 0..Len(file)
  BY PromiseAccepted
<1>4. errors' \in 0..MaxErrors
  <2>1. errors \in Nat /\ errors' <= MaxErrors
    BY BlockstoreAssumption DEF OpenFails, TypeOK
  <2> QED
    BY <1>2, <2>1, BlockstoreAssumption
<1>5. /\ IsSequence(file') /\ Len(file') \in Nat
      /\ IsSequence(promised') /\ Len(promised') \in Nat
      /\ Len(promised') <= Len(promised)
      /\ \A i \in 1..Len(promised') : promised'[i] = promised[i] /\ file'[i] = file[i]
      /\ synced' \in 0..Len(file') /\ synced' \in Nat
      /\ Len(promised') <= synced'
  <2>1. CASE UNCHANGED <<file, synced, promised>>
    BY <1>1, <2>1 DEF PromiseOnMedium, TypeOK
  <2>2. CASE /\ file' = SubSeq(file, 1, n)
             /\ synced' = IF synced < n THEN synced ELSE n
             /\ promised' = Upto(promised, n)
    <3>1. /\ IsSequence(file') /\ Len(file') = n
          /\ \A i \in 1..n : file'[i] = file[i]
      BY <1>3, <2>2, PrefixFacts
    <3>2. /\ IsSequence(promised') /\ Len(promised') \in Nat
          /\ Len(promised') <= n /\ Len(promised') <= Len(promised)
          /\ \A i \in 1..Len(promised') : promised'[i] = promised[i]
      BY <1>3, <2>2, UptoFacts
    <3>3. synced' \in 0..n /\ synced' \in Nat /\ Len(promised') <= synced'
      BY <1>1, <1>3, <2>2, <3>2 DEF PromiseOnMedium, TypeOK
    <3> QED
      BY <1>3, <3>1, <3>2, <3>3
  <2> QED
    BY <1>2, <2>1, <2>2
<1>6. TypeOK'
  BY <1>4, <1>5 DEF OpenFails, TypeOK
<1>7. PromiseOnMedium'
  <2>1. Carries(file, promised', Len(promised'))
    BY <1>1, <1>5 DEF PromiseOnMedium, Carries
  <2>2. \A i \in 1..Len(promised') : file[i] = file'[i]
    BY <1>5
  <2> QED
    BY <1>5, <2>1, <2>2, CarriesLocal DEF PromiseOnMedium
<1> QED
  BY <1>5, <1>6, <1>7 DEF OpenFails, RecordsExtendPromise, FileIsRecords, InFlightChains,
     ChainUnbroken

\* append_record: whether the write succeeds or not, the frames before it stay.
LEMMA AppendRecordStep ==
    ASSUME NEW r, IInv, append_record(r)
    PROVE  IInv'
<1> USE DEF IInv, Shape
<1>1. Len(file) \in Nat /\ Len(promised) \in Nat /\ Len(records) \in Nat
  BY SequenceShape
<1>2. /\ UNCHANGED <<synced, records, promised, decays>>
      /\ phase = "open"
      /\ r.parent_hash = expected_parent(records)
      /\ verify_hash(r)
  BY DEF append_record
<1>3. CASE /\ file' = Append(file, Frame(r)) /\ phase' = "written"
           /\ UNCHANGED <<clean, errors>>
  <2>1. /\ IsSequence(file') /\ Len(file') = Len(file) + 1
        /\ \A i \in 1..Len(file) : file'[i] = file[i]
        /\ file'[Len(file')] = Frame(r)
    BY <1>1, <1>3, AppendFacts
  <2>2. TypeOK'
    <3>1. synced' \in 0..Len(file') /\ Len(file') > synced'
      BY <1>1, <1>2, <2>1 DEF TypeOK
    <3> QED
      BY <1>2, <1>3, <2>1, <3>1, BlockstoreAssumption DEF TypeOK, Frame
  <2>3. PromiseOnMedium'
    BY <1>1, <1>2, <2>1, CarriesLocal DEF PromiseOnMedium, TypeOK
  <2>4. FileIsRecords'
    BY <1>1, <1>2, <1>3, <2>1 DEF FileIsRecords, Written
  <2>5. InFlightChains'
    BY <1>2, <1>3, <2>1 DEF InFlightChains, Frame
  <2> QED
    BY <1>2, <1>3, <2>1, <2>2, <2>3, <2>4, <2>5 DEF RecordsExtendPromise, ChainUnbroken
<1>4. CASE /\ errors < MaxErrors /\ errors' = errors + 1 /\ phase' = phase
           /\ file' = file /\ clean' = clean
  BY <1>2, <1>4, BlockstoreAssumption DEF TypeOK, PromiseOnMedium, RecordsExtendPromise,
     FileIsRecords, InFlightChains, ChainUnbroken
<1>5. CASE /\ errors < MaxErrors /\ errors' = errors + 1 /\ phase' = phase
           /\ file' = Append(file, Torn) /\ clean' = FALSE
  <2>1. /\ IsSequence(file') /\ Len(file') = Len(file) + 1
        /\ \A i \in 1..Len(file) : file'[i] = file[i]
        /\ file'[Len(file')] = Torn
    BY <1>1, <1>5, AppendFacts
  <2>2. TypeOK'
    <3>1. synced' \in 0..Len(file') /\ Len(file') > synced'
      BY <1>1, <1>2, <2>1 DEF TypeOK
    <3>2. clean' \in BOOLEAN
      BY <1>5
    <3> QED
      BY <1>2, <1>5, <2>1, <3>1, <3>2, BlockstoreAssumption DEF TypeOK
  <2>3. PromiseOnMedium'
    BY <1>1, <1>2, <2>1, CarriesLocal DEF PromiseOnMedium, TypeOK
  <2> QED
    BY <1>2, <1>5, <2>1, <2>2, <2>3 DEF RecordsExtendPromise, FileIsRecords, InFlightChains,
       ChainUnbroken
<1> QED
  BY <1>3, <1>4, <1>5 DEF append_record, write_all

\* The acknowledgement: the promise moves up to the records, all of them now
\* within the synced part of the file.
LEMMA AppendSyncedStep == IInv /\ AppendSynced => IInv'
<1> SUFFICES ASSUME IInv, AppendSynced PROVE IInv'
  OBVIOUS
<1> USE DEF IInv, Shape
<1> DEFINE r == file[Len(file)].record
<1>1. Len(file) \in Nat /\ Len(promised) \in Nat /\ Len(records) \in Nat
  BY SequenceShape
<1>2. /\ phase = "written" /\ phase' = "open"
      /\ UNCHANGED <<file, clean, errors, decays>>
      /\ synced' = Len(file)
      /\ records' = Append(records, r)
      /\ promised' = IF clean /\ Legible(records') THEN records' ELSE promised
  BY DEF AppendSynced
<1>3. /\ IsSequence(records') /\ Len(records') = Len(records) + 1
      /\ \A i \in 1..Len(records) : records'[i] = records[i]
      /\ records'[Len(records) + 1] = r
  BY <1>2, AppendFacts
<1>4. TypeOK' /\ synced' \in Nat
  BY <1>1, <1>2 DEF TypeOK
<1>5. Chained(records')
  <2> SUFFICES ASSUME NEW i \in 1..(Len(records) + 1)
               PROVE  /\ records'[i].parent_hash =
                           (IF i = 1 THEN GENESIS_PARENT ELSE records'[i - 1].block_hash)
                      /\ verify_hash(records'[i])
    BY <1>3 DEF Chained
  <2>1. CASE i \in 1..Len(records)
    <3>1. records'[i] = records[i] /\ (i # 1 => records'[i - 1] = records[i - 1])
      BY <1>1, <1>3, <2>1
    <3>2. /\ records[i].parent_hash = (IF i = 1 THEN GENESIS_PARENT ELSE records[i - 1].block_hash)
          /\ verify_hash(records[i])
      BY <2>1 DEF ChainUnbroken, Chained
    <3> QED
      BY <3>1, <3>2 DEF verify_hash
  <2>2. CASE i = Len(records) + 1
    <3>1. r.parent_hash = expected_parent(records) /\ verify_hash(r)
      BY <1>2 DEF InFlightChains
    <3>2. Len(records) = 0 <=> records = << >>
      BY <1>1, SequenceShape
    <3> QED
      BY <1>1, <1>3, <2>2, <3>1, <3>2 DEF expected_parent
  <2> QED
    BY <1>1, <2>1, <2>2
<1>6. clean => Written(file, records', Len(records')) /\ Len(file) = Len(records')
  <2> SUFFICES ASSUME clean
               PROVE  Written(file, records', Len(records')) /\ Len(file) = Len(records')
    OBVIOUS
  <2>1. Written(file, records, Len(records)) /\ Len(file) = Len(records) + 1
    BY <1>2 DEF FileIsRecords
  <2>2. file[Len(file)].kind = "whole"
    BY <1>2 DEF InFlightChains
  <2> QED
    BY <1>1, <1>3, <2>1, <2>2 DEF Written
<1>7. PromiseOnMedium'
  <2>1. CASE clean /\ Legible(records')
    <3>1. promised' = records' /\ Len(records') \in Nat /\ Len(promised') <= synced'
      BY <1>1, <1>2, <1>3, <1>6, <2>1
    <3>2. ASSUME NEW i \in 1..Len(records')
          PROVE  Accepts(file, i) /\ file[i].record = records'[i]
      <4>1. records'[i].contents \notin Oversize
        BY <2>1 DEF Legible
      <4>2. Written(file, records', Len(records'))
        BY <1>6, <2>1
      <4>3. file[i].record = records'[i]
        BY <4>2 DEF Written
      <4> QED
        BY <1>5, <3>1, <4>1, <4>2, <4>3, WrittenAccepted
    <3> QED
      BY <1>2, <3>1, <3>2 DEF PromiseOnMedium, Carries
  <2>2. CASE ~(clean /\ Legible(records'))
    BY <1>1, <1>2, <2>2 DEF PromiseOnMedium, TypeOK
  <2> QED
    BY <2>1, <2>2
<1>8. RecordsExtendPromise'
  BY <1>1, <1>2, <1>3 DEF RecordsExtendPromise, IsPrefixOf
<1>9. FileIsRecords'
  BY <1>2, <1>6 DEF FileIsRecords
<1> QED
  BY <1>2, <1>3, <1>4, <1>5, <1>7, <1>8, <1>9 DEF InFlightChains, ChainUnbroken

\* A failed sync leaves file and records; the store is no longer clean.
LEMMA AppendSyncFailsStep == IInv /\ AppendSyncFails => IInv'
<1> SUFFICES ASSUME IInv, AppendSyncFails PROVE IInv'
  OBVIOUS
<1>1. clean' \in BOOLEAN
  BY DEF AppendSyncFails
<1> QED
  BY <1>1, BlockstoreAssumption DEF AppendSyncFails, IInv, Shape, TypeOK, PromiseOnMedium,
     RecordsExtendPromise, FileIsRecords, InFlightChains, ChainUnbroken

\* A dead process leaves the file, and of the file a power loss leaves at least
\* the synced frames.
LEMMA CrashStep == IInv /\ (Kill \/ PowerLoss) => IInv'
<1> SUFFICES ASSUME IInv, Kill \/ PowerLoss PROVE IInv'
  OBVIOUS
<1> USE DEF IInv, Shape
<1>1. Len(file) \in Nat /\ Len(promised) \in Nat
  BY SequenceShape
<1>2. /\ records' = << >> /\ phase' = "closed"
      /\ UNCHANGED <<synced, clean, promised, errors, decays>>
  BY DEF Kill, PowerLoss, Forget
<1>3. /\ IsSequence(file') /\ Len(file') \in Nat
      /\ synced <= Len(file')
      /\ \A i \in 1..synced : file'[i] = file[i]
  <2>1. CASE Kill
    BY <1>1, <2>1 DEF Kill, TypeOK
  <2>2. CASE PowerLoss
    <3>1. PICK n \in synced..Len(file) : \E lost \in SUBSET (synced + 1 .. n) :
            file' = [i \in 1..n |-> IF i \in lost THEN Torn ELSE file[i]]
      BY <2>2 DEF PowerLoss
    <3>2. n \in Nat /\ file' = [i \in 1..n |-> file'[i]]
      BY <1>1, <3>1 DEF TypeOK
    <3>3. IsSequence(file') /\ Len(file') = n
      BY <3>2, FunctionIsSequence
    <3> QED
      BY <1>1, <3>1, <3>2, <3>3
  <2> QED
    BY <2>1, <2>2
<1>4. IsSequence(records') /\ Chained(records')
  BY <1>2 DEF IsSequence, Chained
<1>5. PromiseOnMedium'
  BY <1>1, <1>2, <1>3, CarriesLocal DEF PromiseOnMedium
<1> QED
  BY <1>2, <1>3, <1>4, <1>5
     DEF TypeOK, RecordsExtendPromise, FileIsRecords, InFlightChains, ChainUnbroken

\* A decayed frame ends the promise in front of it.
LEMMA BitRotStep == IInv /\ BitRot => IInv'
<1> SUFFICES ASSUME IInv, BitRot PROVE IInv'
  OBVIOUS
<1> USE DEF IInv, Shape
<1>1. Len(file) \in Nat /\ Len(promised) \in Nat /\ Len(records) \in Nat
  BY SequenceShape
<1>2. PICK k \in 1..synced :
        /\ file' = [file EXCEPT ![k] = Torn]
        /\ promised' = Upto(promised, k - 1)
  BY DEF BitRot
<1>3. /\ clean' = FALSE /\ decays < MaxDecays /\ decays' = decays + 1
      /\ UNCHANGED <<synced, records, phase, errors>>
  BY DEF BitRot
<1>4. /\ IsSequence(file') /\ Len(file') = Len(file)
      /\ \A i \in 1..Len(file) : i # k => file'[i] = file[i]
  <2>1. file = [i \in 1..Len(file) |-> file[i]]
    BY SequenceShape
  <2>2. file' = [i \in 1..Len(file) |-> file'[i]]
    BY <1>2, <2>1
  <2> QED
    BY <1>1, <1>2, <2>1, <2>2, FunctionIsSequence
<1>5. /\ IsSequence(promised') /\ Len(promised') \in Nat
      /\ Len(promised') <= Len(promised)
      /\ Len(promised') < k
      /\ \A i \in 1..Len(promised') : promised'[i] = promised[i]
  <2>1. k - 1 \in Nat
    BY <1>2
  <2> QED
    BY <1>1, <1>2, <2>1, UptoFacts
<1>6. PromiseOnMedium'
  <2>1. Carries(file, promised', Len(promised'))
    BY <1>1, <1>5 DEF PromiseOnMedium, Carries
  <2>2. \A i \in 1..Len(promised') : file[i] = file'[i]
    BY <1>1, <1>2, <1>4, <1>5 DEF TypeOK
  <2>3. Carries(file', promised', Len(promised'))
    BY <1>5, <2>1, <2>2, CarriesLocal
  <2> QED
    BY <1>1, <1>2, <1>3, <1>5, <2>3 DEF PromiseOnMedium
<1>7. phase = "written" => Len(file) > synced /\ file'[Len(file)] = file[Len(file)]
  <2> SUFFICES ASSUME phase = "written"
               PROVE  Len(file) > synced /\ file'[Len(file)] = file[Len(file)]
    OBVIOUS
  <2>1. Len(file) > synced
    BY DEF TypeOK
  <2>2. Len(file) \in 1..Len(file) /\ Len(file) # k
    BY <1>1, <2>1
  <2> QED
    BY <1>4, <2>1, <2>2
<1>8. InFlightChains'
  BY <1>3, <1>4, <1>7 DEF InFlightChains
<1>9. TypeOK'
  <2>1. clean' \in BOOLEAN
    BY <1>3
  <2> QED
    BY <1>1, <1>3, <1>4, <1>7, <2>1, BlockstoreAssumption DEF TypeOK
<1>10. RecordsExtendPromise'
  BY <1>1, <1>3, <1>5 DEF RecordsExtendPromise, IsPrefixOf
<1> QED
  BY <1>3, <1>4, <1>5, <1>6, <1>8, <1>9, <1>10 DEF FileIsRecords, ChainUnbroken

\* The inductive invariant holds in every state that appends, crashes, failed
\* I/O and decay lead to.
THEOREM Invariance == Spec => []IInv
<1>1. IInv /\ [Next]_vars => IInv'
  <2> SUFFICES ASSUME IInv, [Next]_vars PROVE IInv'
    OBVIOUS
  <2>1. CASE Open
    BY <2>1, OpenStep
  <2>2. CASE OpenReadFails \/ OpenFails
    BY <2>2, OpenReadFailsStep, OpenFailsStep
  <2>3. CASE AppendRecord \/ AppendBlock
    BY <2>3, AppendRecordStep DEF AppendRecord, AppendBlock
  <2>4. CASE AppendSynced
    BY <2>4, AppendSyncedStep
  <2>5. CASE AppendSyncFails
    BY <2>5, AppendSyncFailsStep
  <2>6. CASE Kill \/ PowerLoss
    BY <2>6, CrashStep
  <2>7. CASE BitRot
    BY <2>7, BitRotStep
  <2>8. CASE UNCHANGED vars
    BY <2>8 DEF vars, IInv, Shape, TypeOK, PromiseOnMedium, RecordsExtendPromise,
       FileIsRecords, InFlightChains, ChainUnbroken
  <2> QED
    BY <2>1, <2>2, <2>3, <2>4, <2>5, <2>6, <2>7, <2>8 DEF Next
<1> QED
  BY <1>1, InitIInv, PTL DEF Spec

-------------------------------------------------------------------------------
(* The properties *)

\* The bookkeeping of the store stays in range, whatever fails.
THEOREM TypeCorrect == Spec => []TypeOK
BY Invariance, PTL DEF IInv, Shape

\* The durability of acknowledged blocks: replay of the synced frames alone finds
\* every block that append_record acknowledged while nothing had failed since open
\* and no block was over MAX_FRAME_PAYLOAD, whatever I/O errors, kills and power
\* losses follow, until the medium destroys its frame or a read of a later open
\* fails in front of it.
THEOREM Durability == Spec => []PromisedSurvive
<1>1. IInv => PromisedSurvive
  <2> SUFFICES ASSUME IInv PROVE PromisedSurvive
    OBVIOUS
  <2> DEFINE g == SubSeq(file, 1, synced)
  <2>1. Len(file) \in Nat /\ Len(promised) \in Nat /\ synced \in 0..Len(file)
    BY SequenceShape DEF IInv, Shape, TypeOK
  <2>2. IsSequence(g) /\ Len(g) = synced /\ \A i \in 1..synced : g[i] = file[i]
    BY <2>1, PrefixFacts DEF IInv, Shape
  <2> HIDE DEF g
  <2>3. Len(promised) <= synced /\ Carries(g, promised, Len(promised))
    BY <2>1, <2>2, CarriesLocal DEF IInv, PromiseOnMedium
  <2>4. Len(promised) <= valid_len(g)
    BY <2>1, <2>2, <2>3, ReplayKeeps DEF Carries
  <2>5. valid_len(g) \in Nat
    BY <2>1, <2>2, ValidLen
  <2>6. IsPrefixOf(promised, replay(g))
    BY <2>1, <2>2, <2>3, <2>4, <2>5, ReplayFacts DEF IsPrefixOf, Carries
  <2> QED
    BY <2>6 DEF PromisedSurvive, g
<1> QED
  BY <1>1, Invariance, PTL

\* Open truncates into the acknowledged ledger only where a read of its replay fails:
\* a running store shows whatever is promised, in place.
THEOREM Recovery == Spec => []RecordsExtendPromise
BY Invariance, PTL DEF IInv

\* The records in memory always form one hash chain from the genesis parent.
THEOREM Chain == Spec => []ChainUnbroken
BY Invariance, PTL DEF IInv

\* While nothing has failed since open, a restart would read the records that are
\* in memory, up to the first whose payload replay refuses as too large.
THEOREM Agreement == Spec => []MemoryMatchesFile
<1>1. IInv => MemoryMatchesFile
  <2> SUFFICES ASSUME IInv, phase = "open", clean
               PROVE  /\ IsPrefixOf(replay(file), records)
                      /\ Len(replay(file)) < Len(records) =>
                            records[Len(replay(file)) + 1].contents \in Oversize
    BY DEF MemoryMatchesFile
  <2> DEFINE n == valid_len(file)
  <2>1. /\ IsSequence(file) /\ IsSequence(records) /\ Len(records) \in Nat
        /\ Len(file) = Len(records)
        /\ Written(file, records, Len(records))
        /\ Chained(records)
    BY SequenceShape DEF IInv, Shape, FileIsRecords, ChainUnbroken
  <2>2. n \in 0..Len(records) /\ (n < Len(records) => ~Accepts(file, n + 1))
    BY <2>1, ValidLen
  <2>3. Len(replay(file)) = n /\ \A i \in 1..n : replay(file)[i] = file[i].record
    BY <2>1, ReplayFacts
  <2> HIDE DEF n
  <2>4. IsPrefixOf(replay(file), records)
    BY <2>1, <2>2, <2>3 DEF IsPrefixOf, Written
  <2>5. n < Len(records) => records[n + 1].contents \in Oversize
    <3> SUFFICES ASSUME n < Len(records) PROVE records[n + 1].contents \in Oversize
      OBVIOUS
    <3>1. n + 1 \in 1..Len(records) /\ ~Accepts(file, n + 1)
      BY <2>1, <2>2
    <3> QED
      BY <2>1, <3>1, WrittenAccepted
  <2> QED
    BY <2>3, <2>4, <2>5
<1> QED
  BY <1>1, Invariance, PTL

-------------------------------------------------------------------------------
(* Refinement *)

\* An acknowledged append is a commit of a sound ledger or tentative, and both put one
\* record behind those that are visible.
LEMMA AppendRefines == IInv /\ AppendSynced => L!Commit \/ L!AppendTentatively
<1> SUFFICES ASSUME IInv, AppendSynced PROVE L!Commit \/ L!AppendTentatively
  OBVIOUS
<1>1. IsSequence(records) /\ Len(records) \in Nat /\ clean \in BOOLEAN
  BY SequenceShape DEF IInv, Shape, TypeOK
<1>2. /\ records' = Append(records, file[Len(file)].record)
      /\ promised' = IF clean /\ Legible(records') THEN records' ELSE promised
      /\ phase = "written" /\ phase' = "open" /\ UNCHANGED <<clean, errors, decays>>
  BY DEF AppendSynced
<1>3. /\ Len(records') = Len(records) + 1
      /\ \A i \in 1..Len(records) : records'[i] = records[i]
  BY <1>1, <1>2, AppendFacts
<1>4. L!Grow
  BY <1>1, <1>3 DEF L!Grow, L!Extends
<1>5. CASE clean /\ Legible(records')
  <2>1. Legible(records)
    <3> SUFFICES ASSUME NEW i \in 1..Len(records) PROVE records[i].contents \notin Oversize
      BY DEF Legible
    <3>1. i \in 1..Len(records') /\ records'[i] = records[i]
      BY <1>1, <1>3
    <3> QED
      BY <1>5, <3>1 DEF Legible
  <2>2. (phase # "closed" /\ clean /\ Legible(records)) /\
        (phase' # "closed" /\ clean' /\ Legible(records'))
    BY <1>2, <1>5, <2>1
  <2> QED
    BY <1>2, <1>4, <1>5, <2>2 DEF L!Commit
<1>6. CASE ~(clean /\ Legible(records'))
  <2>1. (phase' # "closed" /\ clean' /\ Legible(records')) = FALSE
    BY <1>2, <1>6
  <2> QED
    BY <1>2, <1>4, <1>6, <2>1 DEF L!AppendTentatively
<1> QED
  BY <1>5, <1>6

\* The records that open keeps of an accepted prefix are within the size bound.
LEMMA OpenLegible ==
    ASSUME IInv, NEW n \in 0..valid_len(file), OpenAt(n), IsSequence(records'), Len(records') = n
    PROVE  phase' # "closed" /\ clean' /\ Legible(records')
<1>1. ASSUME NEW i \in 1..n PROVE records'[i].contents \notin Oversize
  <2>1. Accepts(file, i) /\ records'[i] = file[i].record
    BY ValidLen, PromiseAccepted DEF IInv, Shape, OpenAt
  <2> QED
    BY <2>1 DEF Accepts
<1> QED
  BY <1>1 DEF OpenAt, Legible

\* The length of what open keeps.
LEMMA OpenLength ==
    ASSUME IInv, NEW n \in 0..valid_len(file), OpenAt(n)
    PROVE  IsSequence(records') /\ Len(records') = n
<1>1. n \in Nat /\ records' = [i \in 1..n |-> records'[i]]
  BY PromiseAccepted DEF OpenAt
<1> QED
  BY <1>1, FunctionIsSequence

\* open shows the committed blocks first.
LEMMA OpenRefines == IInv /\ Open => L!Recover
<1> SUFFICES ASSUME IInv, Open PROVE L!Recover
  OBVIOUS
<1>1. /\ RecordsExtendPromise' /\ promised' = promised /\ phase = "closed" /\ phase' = "open"
      /\ errors' = errors /\ decays' = decays
  BY OpenStep DEF IInv, Open, OpenAt
<1>2. L!Extends(records', promised)
  BY <1>1 DEF RecordsExtendPromise, IsPrefixOf, L!Extends
<1>3. phase' # "closed" /\ clean' /\ Legible(records')
  <2>1. valid_len(file) \in 0..valid_len(file) /\ OpenAt(valid_len(file))
    BY PromiseAccepted DEF Open
  <2> QED
    BY <2>1, OpenLength, OpenLegible
<1> QED
  BY <1>1, <1>2, <1>3 DEF L!Recover

\* open with a failed read shows the committed blocks that it kept.
LEMMA OpenReadFailsRefines == IInv /\ OpenReadFails => L!RecoverPartly
<1> SUFFICES ASSUME IInv, OpenReadFails PROVE L!RecoverPartly
  OBVIOUS
<1>1. PICK n \in 0..valid_len(file) : OpenAt(n) /\ promised' = Upto(promised, n)
  BY DEF OpenReadFails
<1>2. /\ RecordsExtendPromise' /\ phase = "closed" /\ phase' = "open"
      /\ errors' = errors + 1 /\ decays' = decays
  BY <1>1, OpenReadFailsStep DEF IInv, OpenReadFails, OpenAt
<1>3. L!Extends(records', promised')
  BY <1>2 DEF RecordsExtendPromise, IsPrefixOf, L!Extends
<1>4. L!Extends(promised, promised')
  <2>1. n \in Nat
    BY PromiseAccepted
  <2> QED
    BY <1>1, <2>1, UptoFacts DEF IInv, Shape, L!Extends
<1>5. phase' # "closed" /\ clean' /\ Legible(records')
  BY <1>1, OpenLength, OpenLegible
<1>6. errors' + decays' > errors + decays
  BY <1>2, BlockstoreAssumption DEF IInv, Shape, TypeOK
<1> QED
  BY <1>2, <1>3, <1>4, <1>5, <1>6 DEF L!RecoverPartly

\* A failed open is a fault, or loses what it has cut off unread.
LEMMA OpenFailsRefines == IInv /\ OpenFails => L!Fault \/ L!Decay
<1> SUFFICES ASSUME IInv, OpenFails PROVE L!Fault \/ L!Decay
  OBVIOUS
<1>1. PICK n \in 0..valid_len(file) :
        /\ errors' = errors + (IF n = valid_len(file) THEN 1 ELSE 2)
        /\ promised' = promised \/ promised' = Upto(promised, n)
  BY DEF OpenFails
<1>2. phase = "closed" /\ UNCHANGED <<records, phase, clean, decays>>
  BY DEF OpenFails
<1>3. errors' + decays' > errors + decays
  BY <1>1, <1>2, BlockstoreAssumption DEF IInv, Shape, TypeOK
<1>4. (phase' # "closed" /\ clean' /\ Legible(records')) = FALSE
  BY <1>2
<1>5. CASE promised' = promised
  BY <1>2, <1>3, <1>4, <1>5 DEF L!Fault
<1>6. CASE promised' = Upto(promised, n)
  <2>1. n \in Nat
    BY PromiseAccepted
  <2>2. L!Extends(promised, promised')
    BY <1>6, <2>1, UptoFacts DEF IInv, Shape, L!Extends
  <2> QED
    BY <1>2, <1>3, <1>4, <2>2 DEF L!Decay
<1> QED
  BY <1>1, <1>5, <1>6

\* A failed append is a fault.
LEMMA FaultRefines ==
    ASSUME IInv, errors' = errors + 1, clean' => clean,
           UNCHANGED <<promised, records, decays>>, phase # "closed", phase' # "closed"
    PROVE  L!Fault
<1>1. errors' + decays' > errors + decays
  BY BlockstoreAssumption DEF IInv, Shape, TypeOK
<1>2. Legible(records') = Legible(records)
  BY DEF Legible
<1> QED
  BY <1>1, <1>2 DEF L!Fault

\* A decayed frame takes promised blocks away from the end only.
LEMMA DecayRefines == IInv /\ BitRot => L!Decay
<1> SUFFICES ASSUME IInv, BitRot PROVE L!Decay
  OBVIOUS
<1>1. IsSequence(promised) /\ synced \in Nat
  BY DEF IInv, Shape
<1>2. PICK k \in 1..synced : promised' = Upto(promised, k - 1)
  BY DEF BitRot
<1>3. L!Extends(promised, promised')
  <2>1. k - 1 \in Nat
    BY <1>1, <1>2
  <2> QED
    BY <1>1, <1>2, <2>1, UptoFacts DEF L!Extends
<1>4. /\ (phase' # "closed" /\ clean' /\ Legible(records')) = FALSE
      /\ UNCHANGED <<records, phase, errors>> /\ decays' = decays + 1
  BY DEF BitRot
<1>5. errors' + decays' > errors + decays
  BY <1>4, BlockstoreAssumption DEF IInv, Shape, TypeOK
<1> QED
  BY <1>3, <1>4, <1>5 DEF L!Decay

\* The block store implements the ledger: every step of open, append, failing I/O, kill,
\* power loss and decay is one that the abstract ledger allows, or invisible; what is
\* committed shrinks only in a step in which the medium fails.
THEOREM Refinement == Spec => ImplementsLedger
<1>1. Init => L!Init
  BY DEF Init, L!Init
<1>2. IInv /\ [Next]_vars => [L!Next]_(L!ledgerVars)
  <2> SUFFICES ASSUME IInv, [Next]_vars PROVE [L!Next]_(L!ledgerVars)
    OBVIOUS
  <2> USE DEF L!Next, L!ledgerVars
  <2>1. CASE Open
    BY <2>1, OpenRefines
  <2>2. CASE OpenReadFails
    BY <2>2, OpenReadFailsRefines
  <2>3. CASE OpenFails
    BY <2>3, OpenFailsRefines
  <2>4. CASE AppendRecord \/ AppendBlock
    <3>1. PICK r : append_record(r)
      BY <2>4 DEF AppendRecord, AppendBlock
    <3>2. /\ write_all(r) /\ phase = "open"
          /\ UNCHANGED <<promised, records, decays>>
      BY <3>1 DEF append_record
    <3>3. CASE phase' = "written" /\ UNCHANGED <<clean, errors>>
      <4>1. Legible(records') = Legible(records)
        BY <3>2 DEF Legible
      <4> QED
        BY <3>2, <3>3, <4>1
    <3>4. CASE errors' = errors + 1 /\ (clean' => clean) /\ phase' = phase
      BY <3>2, <3>4, FaultRefines
    <3> QED
      BY <3>2, <3>3, <3>4 DEF write_all
  <2>5. CASE AppendSynced
    BY <2>5, AppendRefines
  <2>6. CASE AppendSyncFails
    BY <2>6, FaultRefines DEF AppendSyncFails
  <2>7. CASE Kill \/ PowerLoss
    <3>1. /\ records' = << >> /\ phase' = "closed"
          /\ UNCHANGED <<promised, errors, decays>>
          /\ phase = "closed" => records = << >>
      BY <2>7 DEF Kill, PowerLoss, Forget, IInv, Shape, TypeOK
    <3>2. (phase' # "closed" /\ clean' /\ Legible(records')) = FALSE
      BY <3>1
    <3>3. CASE phase = "closed"
      BY <3>1, <3>2, <3>3
    <3>4. CASE phase # "closed"
      BY <3>1, <3>2, <3>4 DEF L!Crash
    <3> QED
      BY <3>3, <3>4
  <2>8. CASE BitRot
    BY <2>8, DecayRefines
  <2>9. CASE UNCHANGED vars
    <3>1. UNCHANGED <<promised, records, phase, clean, errors, decays>>
      BY <2>9 DEF vars
    <3>2. Legible(records') = Legible(records)
      BY <3>1 DEF Legible
    <3> QED
      BY <3>1, <3>2
  <2> QED
    BY <2>1, <2>2, <2>3, <2>4, <2>5, <2>6, <2>7, <2>8, <2>9 DEF Next
<1> QED
  BY <1>1, <1>2, Invariance, PTL DEF Spec, ImplementsLedger, L!Spec
===============================================================================
