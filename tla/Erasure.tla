--------------------------------- MODULE Erasure ---------------------------------
(***************************************************************************)
(* Reed-Solomon coding of turbine/src/erasure.rs: arithmetic in GF(256),   *)
(* the systematic generator matrix, encode and decode.  A byte is the set  *)
(* of its bits, so that xor is symmetric difference.  A shred is its       *)
(* index, from 0, and its payload; rows, columns and bytes of a sequence   *)
(* count from 1.                                                           *)
(***************************************************************************)
EXTENDS Naturals, SequencesExt

-------------------------------------------------------------------------------
(* GF(256) with the polynomial x^8 + x^4 + x^3 + x^2 + 1 *)

Byte == SUBSET (0..7)

ToByte(n) == {i \in 0..7 : (n \div 2^i) % 2 = 1}

ToNat(a) == FoldSet(LAMBDA i, n : n + 2^i, 0, a)

Xor(a, b) == (a \cup b) \ (a \cap b)

\* A sequence in extension, so that its elements are computed once.
Vector(f) == <<>> \o f

\* The step with which the code fills its tables.
xtimes(a) ==
    LET x == {i + 1 : i \in a} IN IF 8 \in x THEN Xor(x, {0, 2, 3, 4, 8}) ELSE x

\* The powers of x, from x^0 to the x^14 of the product of two bytes.
exp == <<{0}, {1}, {2}, {3}, {4}, {5}, {6}, {7}, {0, 2, 3, 4}, {1, 3, 4, 5}, {2, 4, 5, 6},
         {3, 5, 6, 7}, {0, 2, 3, 6, 7}, {0, 1, 2, 7}, {0, 1, 4}>>

ASSUME ExpAssumption == \A i \in 1..14 : exp[i + 1] = xtimes(exp[i])

\* The product of two polynomials in x: that of their terms, summed.  With x primitive it
\* is exp of the sum of the logarithms.
mul(a, b) ==
    {i \in 0..7 : Cardinality({t \in a \X b : i \in exp[t[1] + t[2] + 1]}) % 2 = 1}

inv(a) == CHOOSE b \in Byte : mul(a, b) = {0}

pow(base, e) == FoldLeft(LAMBDA out, i : mul(out, base), {0}, [i \in 1..e |-> i])

Dot(u, v) ==
    LET terms == Vector([t \in DOMAIN u |-> mul(u[t], v[t])])
    IN  {i \in 0..7 : Cardinality({t \in DOMAIN terms : i \in terms[t]}) % 2 = 1}

-------------------------------------------------------------------------------
(* Matrices *)

Singular == <<>>

\* One column of the Gauss-Jordan elimination.
Eliminate(a, col) ==
    LET pivots  == {r \in col..Len(a) : a[r][col] # {}}
        piv     == CHOOSE r \in pivots : \A q \in pivots : r <= q
        swap    == [a EXCEPT ![col] = a[piv], ![piv] = a[col]]
        piv_inv == inv(swap[col][col])
        unit    == Vector([c \in DOMAIN a[1] |-> mul(swap[col][c], piv_inv)])
    IN  IF a = Singular \/ pivots = {} THEN Singular
        ELSE Vector([r \in DOMAIN a |->
                 IF r = col THEN unit
                 ELSE Vector([c \in DOMAIN unit |-> Xor(swap[r][c], mul(swap[r][col], unit[c]))])])

\* Of the matrix with the identity beside it, the half where the identity was.
mat_inv(m) ==
    LET n == Len(m)
        a == Vector([r \in 1..n |-> m[r] \o [c \in 1..n |-> IF c = r THEN {0} ELSE {}]])
        b == FoldLeft(Eliminate, a, [c \in 1..n |-> c])
    IN  IF b = Singular THEN Singular ELSE Vector([r \in 1..n |-> SubSeq(b[r], n + 1, 2 * n)])

\* The Vandermonde matrix V[r][c] = r^c.
Vandermonde(k, m) == Vector([r \in 1..(k + m) |-> Vector([c \in 1..k |-> pow(ToByte(r - 1), c - 1)])])

\* Mutant of generator: not multiplied with the inverse of the top.
generator_Raw(k, m) == Vandermonde(k, m)

generator(k, m) ==
    LET v       == Vandermonde(k, m)
        top_inv == mat_inv(SubSeq(v, 1, k))
    IN  Vector([r \in 1..(k + m) |->
            Vector([c \in 1..k |-> Dot(v[r], [t \in 1..k |-> top_inv[t][c]])])])

-------------------------------------------------------------------------------
(* encode and decode *)

LENGTH_BYTES == 8

Zeros(n) == [i \in 1..n |-> {}]

\* The length as 8 bytes, little endian, the data, and zeros to a multiple of k.
Padded(k, data) ==
    LET shard_size == (LENGTH_BYTES + Len(data) + k - 1) \div k
    IN  <<ToByte(Len(data))>> \o Zeros(LENGTH_BYTES - 1) \o data \o Zeros(shard_size * k - LENGTH_BYTES - Len(data))

encode_shreds(k, m, data) ==
    LET buf        == Padded(k, data)
        shard_size == Len(buf) \div k
        g          == generator(k, m)
        shard(i)   == SubSeq(buf, (i - 1) * shard_size + 1, i * shard_size)
    IN  Vector([i \in 1..(k + m) |->
            [index   |-> i - 1,
             payload |-> IF i <= k THEN shard(i)
                         ELSE Vector([j \in 1..shard_size |-> Dot(g[i], [c \in 1..k |-> shard(c)[j]])])]])

\* The first shred of each index in range, by index.
ByIndex(shreds, total) ==
    LET first(i) == CHOOSE s \in DOMAIN shreds :
                        shreds[s].index = i /\ \A q \in 1..(s - 1) : shreds[q].index # i
        known    == SelectSeq([i \in 1..total |-> i - 1], LAMBDA i : \E s \in DOMAIN shreds : shreds[s].index = i)
    IN  Vector([i \in DOMAIN known |-> shreds[first(known[i])]])

NoData == [some |-> FALSE, data |-> <<>>]

\* Mutant of SizesMatch: only shorter payloads are refused.
SizesMatch_Longer(selected) ==
    \A r \in DOMAIN selected : Len(selected[r].payload) >= Len(selected[1].payload)

SizesMatch(selected) ==
    \A r \in DOMAIN selected : Len(selected[r].payload) = Len(selected[1].payload)

\* The slice buf[..8] panics for k payloads of fewer than 8 bytes together; encode never
\* makes such payloads.
decode(k, m, shreds) ==
    LET known    == ByIndex(shreds, k + m)
        selected == SubSeq(known, 1, k)
        size     == Len(known[1].payload)
        g        == generator(k, m)
        sub_inv  == mat_inv(Vector([r \in 1..k |-> g[selected[r].index + 1]]))
        buf      == FlattenSeq([c \in 1..k |->
                        Vector([j \in 1..size |-> Dot(sub_inv[c], [r \in 1..k |-> selected[r].payload[j]])])])
        length   == ToNat(buf[1])
        fits     == length <= Len(buf) - LENGTH_BYTES /\ \A i \in 2..LENGTH_BYTES : buf[i] = {}
    IN  IF Len(known) < k THEN NoData
        ELSE IF size = 0 \/ ~SizesMatch(selected) THEN NoData
        ELSE IF sub_inv = Singular THEN NoData
        ELSE IF ~fits THEN NoData
        ELSE [some |-> TRUE, data |-> SubSeq(buf, LENGTH_BYTES + 1, LENGTH_BYTES + length)]

-------------------------------------------------------------------------------
(* Properties of a block of data cut into k data and m parity shreds *)

\* Any k shreds, in any order and with repetitions, give the data back with its exact
\* length; fewer give nothing.  lost is the set of indexes that are missing.
AnyShredsDecode(k, m, data, lost) ==
    LET sent    == encode_shreds(k, m, data)
        arrived == SelectSeq(sent, LAMBDA f : f.index \notin lost)
    IN  \A shreds \in {arrived, Reverse(arrived), arrived \o arrived} :
            decode(k, m, shreds) = IF Cardinality(lost) <= m THEN [some |-> TRUE, data |-> data] ELSE NoData

\* Shreds of two blocks of a slot that differ in their shard size are told apart.
MixedSizesRefused(k, m, data, lost) ==
    LET one   == SelectSeq(encode_shreds(k, m, data), LAMBDA f : f.index \in lost)
        other == SelectSeq(encode_shreds(k, m, data \o Zeros(k)), LAMBDA f : f.index \notin lost)
    IN  Cardinality(lost) \in 1..(k - 1) /\ (\E i \in lost : i < k) /\ (\E i \in 0..(k - 1) : i \notin lost)
            => decode(k, m, one \o other) = NoData

-------------------------------------------------------------------------------
(* Documented, but not what the code does *)

\* decode "Returns `None` on any inconsistency": shreds of two blocks of the same size are
\* put together without a word, and the bytes are those of neither block.
InconsistentRefused(k, m, data, other, lost) ==
    LET one == SelectSeq(encode_shreds(k, m, data), LAMBDA f : f.index \in lost)
        two == SelectSeq(encode_shreds(k, m, other), LAMBDA f : f.index \notin lost)
        got == decode(k, m, one \o two)
    IN  got.some => got.data \in {data, other}
===============================================================================
