------------------------------- MODULE DataFacts -------------------------------
(***************************************************************************)
(* Facts about naturals, sequences and sums that the proofs cite.  The     *)
(* sequences of the models hold values of no fixed set (a block hash       *)
(* contains its parent's), so a sequence is recognised by its shape.  A    *)
(* sum is the community modules' SumFunctionOnSet, of a function over a    *)
(* finite set.  Where a proof needs induction it takes the least           *)
(* counterexample.                                                         *)
(***************************************************************************)
EXTENDS Integers, Sequences, Functions, FiniteSetTheorems, WellFoundedInduction, TLAPS

(* Most leaves are first-order, so Zenon is asked first. *)
USE ZenonT(2), SMT, ZenonT(10)

IsSequence(s) == \E S : s \in Seq(S)

\* A set of naturals that is not empty has a least element.
LEMMA LeastNatural ==
    ASSUME NEW T \in SUBSET Nat, T # {}
    PROVE  \E n \in T : \A m \in T : n <= m
<1>1. \E n \in T : \A m \in T : ~(<<m, n>> \in OpToRel(<, Nat))
  BY NatLessThanWellFounded, WFMin
<1>2. \A m, n \in Nat : m < n => <<m, n>> \in OpToRel(<, Nat)
  BY Zenon DEF OpToRel
<1>3. PICK n \in T : \A m \in T : ~(<<m, n>> \in OpToRel(<, Nat))
  BY <1>1
<1>4. \A m \in T : ~(m < n)
  BY <1>2, <1>3
<1> QED
  BY <1>4

\* A bounded set of naturals that is not empty has a greatest element.
LEMMA GreatestNatural ==
    ASSUME NEW T \in SUBSET Nat, T # {}, NEW b \in Nat, \A m \in T : m <= b
    PROVE  \E n \in T : \A m \in T : m <= n
<1> DEFINE U == {k \in Nat : b - k \in T}
<1>1. U # {}
  <2>1. PICK n \in T : TRUE
    OBVIOUS
  <2>2. b - n \in Nat /\ b - (b - n) = n
    BY <2>1
  <2> QED
    BY <2>1, <2>2
<1>2. PICK k \in U : \A m \in U : k <= m
  BY <1>1, LeastNatural
<1>3. ASSUME NEW m \in T PROVE m <= b - k
  <2>1. b - m \in Nat /\ b - (b - m) = m
    BY <1>3
  <2>2. b - m \in U
    BY <2>1, <1>3
  <2> QED
    BY <1>2, <2>1, <2>2
<1> QED
  BY <1>2, <1>3

\* The length and the domain of a sequence.
LEMMA SequenceShape ==
    ASSUME NEW s, IsSequence(s)
    PROVE  /\ Len(s) \in Nat
           /\ DOMAIN s = 1..Len(s)
           /\ s = [i \in 1..Len(s) |-> s[i]]
BY DEF IsSequence

\* A function on an initial segment of the naturals is a sequence.
LEMMA FunctionIsSequence ==
    ASSUME NEW n \in Nat, NEW f, f = [i \in 1..n |-> f[i]]
    PROVE  IsSequence(f) /\ Len(f) = n
<1> DEFINE S == {f[i] : i \in 1..n}
<1>1. f \in Seq(S)
  OBVIOUS
<1>2. Len(f) = n
  <2>1. DOMAIN f = 1..n
    OBVIOUS
  <2>2. Len(f) \in Nat /\ DOMAIN f = 1..Len(f)
    BY <1>1
  <2> QED
    BY <2>1, <2>2
<1>3. IsSequence(f)
  <2> HIDE DEF S
  <2> QED
    BY <1>1 DEF IsSequence
<1> QED
  BY <1>2, <1>3

\* Append adds one element at the end and moves none.
LEMMA AppendFacts ==
    ASSUME NEW s, IsSequence(s), NEW e
    PROVE  /\ IsSequence(Append(s, e))
           /\ Len(Append(s, e)) = Len(s) + 1
           /\ \A i \in 1..Len(s) : Append(s, e)[i] = s[i]
           /\ Append(s, e)[Len(s) + 1] = e
<1>1. PICK S : s \in Seq(S)
  BY DEF IsSequence
<1> DEFINE T == S \cup {e}
<1>2. s \in Seq(T) /\ e \in T
  BY <1>1
<1>3. Append(s, e) \in Seq(T)
  BY <1>2
<1>4. IsSequence(Append(s, e))
  <2> HIDE DEF T
  <2> QED
    BY <1>3 DEF IsSequence
<1> QED
  BY <1>2, <1>4

\* A prefix of a sequence has its first elements.
LEMMA PrefixFacts ==
    ASSUME NEW s, IsSequence(s), NEW n \in 0..Len(s)
    PROVE  /\ IsSequence(SubSeq(s, 1, n))
           /\ Len(SubSeq(s, 1, n)) = n
           /\ \A i \in 1..n : SubSeq(s, 1, n)[i] = s[i]
<1>1. PICK S : s \in Seq(S)
  BY DEF IsSequence
<1>2. SubSeq(s, 1, n) \in Seq(S)
  BY <1>1
<1>3. IsSequence(SubSeq(s, 1, n))
  BY <1>2 DEF IsSequence
<1> QED
  BY <1>1, <1>3

-------------------------------------------------------------------------------
(* Sums *)

\* The function that SumFunctionOnSet iterates, on the subsets of S.
IsIteration(g, f, S) ==
    g = [s \in SUBSET S |->
            IF s = {} THEN 0 ELSE f[CHOOSE x \in s : TRUE] + g[s \ {CHOOSE x \in s : TRUE}]]

\* Subsets of at most n elements have an iteration: one for n elements is one for
\* n + 1 after another round.
LEMMA IterationExists ==
    ASSUME NEW S, IsFiniteSet(S), NEW f
    PROVE  \E g : IsIteration(g, f, S)
<1> DEFINE Pick(s) == CHOOSE x \in s : TRUE
           Upto(g, n) == /\ g = [s \in SUBSET S |-> g[s]]
                         /\ \A s \in SUBSET S : Cardinality(s) <= n =>
                               g[s] = IF s = {} THEN 0 ELSE f[Pick(s)] + g[s \ {Pick(s)}]
           Bad == {n \in Nat : ~ \E g : Upto(g, n)}
<1>0. \A s \in SUBSET S : IsFiniteSet(s) /\ Cardinality(s) \in Nat /\ Cardinality(s) <= Cardinality(S)
  BY FS_Subset, FS_CardinalityType
<1>1. Cardinality(S) \in Nat
  BY FS_CardinalityType
<1>2. ASSUME NEW s \in SUBSET S, s # {}
      PROVE  /\ Pick(s) \in s
             /\ s \ {Pick(s)} \in SUBSET S
             /\ Cardinality(s \ {Pick(s)}) = Cardinality(s) - 1
  <2>1. Pick(s) \in s
    BY <1>2
  <2> QED
    BY <2>1, <1>0, FS_RemoveElement
<1>3. Upto([s \in SUBSET S |-> 0], 0)
  <2>1. \A s \in SUBSET S : Cardinality(s) <= 0 => s = {}
    BY <1>0, FS_EmptySet
  <2> QED
    BY <2>1
<1>4. ASSUME NEW n \in Nat, NEW g, Upto(g, n)
      PROVE  \E h : Upto(h, n + 1)
  <2> DEFINE h == [s \in SUBSET S |->
                      IF s = {} THEN 0 ELSE f[Pick(s)] + g[s \ {Pick(s)}]]
  <2>1. \A s \in SUBSET S : Cardinality(s) <= n => h[s] = g[s]
    BY <1>4
  <2>2. \A s \in SUBSET S : (Cardinality(s) <= n + 1 /\ s # {}) =>
            h[s \ {Pick(s)}] = g[s \ {Pick(s)}]
    <3> SUFFICES ASSUME NEW s \in SUBSET S, Cardinality(s) <= n + 1, s # {}
                 PROVE  h[s \ {Pick(s)}] = g[s \ {Pick(s)}]
      OBVIOUS
    <3>1. Cardinality(s \ {Pick(s)}) <= n /\ s \ {Pick(s)} \in SUBSET S
      <4> HIDE DEF Pick
      <4> QED
        BY <1>0, <1>2
    <3> HIDE DEF h, Pick
    <3> QED
      BY <3>1, <2>1
  <2>3. Upto(h, n + 1)
    <3>1. \A s \in SUBSET S : Cardinality(s) <= n + 1 =>
              h[s] = IF s = {} THEN 0 ELSE f[Pick(s)] + h[s \ {Pick(s)}]
      <4> SUFFICES ASSUME NEW s \in SUBSET S, Cardinality(s) <= n + 1
                   PROVE  h[s] = IF s = {} THEN 0 ELSE f[Pick(s)] + h[s \ {Pick(s)}]
        OBVIOUS
      <4>1. h[s] = IF s = {} THEN 0 ELSE f[Pick(s)] + g[s \ {Pick(s)}]
        OBVIOUS
      <4> HIDE DEF h, Pick
      <4> QED
        BY <4>1, <2>2
    <3>2. h = [s \in SUBSET S |-> h[s]]
      OBVIOUS
    <3> HIDE DEF h, Pick
    <3> QED
      BY <3>1, <3>2
  <2> HIDE DEF h, Upto
  <2> QED
    BY <2>3
<1>5. Bad = {}
  <2> HIDE DEF Upto
  <2> SUFFICES ASSUME Bad # {} PROVE FALSE
    OBVIOUS
  <2>1. PICK n \in Bad : \A m \in Bad : n <= m
    BY LeastNatural
  <2>2. n # 0
    BY <1>3
  <2>3. n - 1 \in Nat /\ n - 1 \notin Bad
    BY <2>1, <2>2
  <2>4. PICK g : Upto(g, n - 1)
    BY <2>3
  <2>5. \E h : Upto(h, (n - 1) + 1)
    BY <2>3, <2>4, <1>4
  <2> QED
    BY <2>1, <2>5
<1>6. PICK g : Upto(g, Cardinality(S))
  <2> HIDE DEF Upto
  <2> QED
    BY <1>1, <1>5
<1>7. \A s \in SUBSET S : g[s] = IF s = {} THEN 0 ELSE f[Pick(s)] + g[s \ {Pick(s)}]
  BY <1>0, <1>6
<1>8. [s \in SUBSET S |-> g[s]] =
          [s \in SUBSET S |-> IF s = {} THEN 0 ELSE f[Pick(s)] + g[s \ {Pick(s)}]]
  <2> HIDE DEF Pick
  <2> QED
    BY <1>7
<1>9. g = [s \in SUBSET S |-> g[s]]
  BY <1>6
<1>10. IsIteration(g, f, S)
  <2>1. g = [s \in SUBSET S |-> IF s = {} THEN 0 ELSE f[Pick(s)] + g[s \ {Pick(s)}]]
    <3> HIDE DEF Pick, Upto
    <3> QED
      BY <1>8, <1>9
  <2> QED
    BY <2>1 DEF IsIteration
<1> HIDE DEF Upto
<1> QED
  BY <1>10

\* A sum is the value of an iteration.
LEMMA SumIteration ==
    ASSUME NEW S, IsFiniteSet(S), NEW f
    PROVE  \E g : IsIteration(g, f, S) /\ SumFunctionOnSet(f, S) = g[S]
<1> DEFINE c == CHOOSE g : IsIteration(g, f, S)
<1>1. IsIteration(c, f, S)
  BY IterationExists
<1>2. SumFunctionOnSet(f, S) = c[S]
  BY DEF SumFunctionOnSet, FoldFunctionOnSet, MapThenFoldSet, IsIteration
<1> HIDE DEF c
<1> QED
  BY <1>1, <1>2

\* Iterations of functions that agree agree on the subsets they share.
LEMMA IterationAgrees ==
    ASSUME NEW S, IsFiniteSet(S), NEW T, NEW f, NEW h, NEW g, NEW k,
           IsIteration(g, f, S), IsIteration(k, h, T), S \subseteq T,
           \A x \in S : f[x] = h[x]
    PROVE  g[S] = k[S]
<1> DEFINE Pick(s) == CHOOSE x \in s : TRUE
           Bad == {n \in Nat : \E s \in SUBSET S : Cardinality(s) = n /\ g[s] # k[s]}
<1>1. \A s \in SUBSET S : IsFiniteSet(s) /\ Cardinality(s) \in Nat
  BY FS_Subset, FS_CardinalityType
<1>2. \A s \in SUBSET S : s \in SUBSET T
  OBVIOUS
<1>3. \A s \in SUBSET S : g[s] = IF s = {} THEN 0 ELSE f[Pick(s)] + g[s \ {Pick(s)}]
  BY DEF IsIteration
<1>4. \A s \in SUBSET T : k[s] = IF s = {} THEN 0 ELSE h[Pick(s)] + k[s \ {Pick(s)}]
  BY DEF IsIteration
<1>5. ASSUME NEW n \in Bad, \A m \in Bad : n <= m PROVE FALSE
  <2>1. PICK s \in SUBSET S : Cardinality(s) = n /\ g[s] # k[s]
    BY <1>5
  <2>2. s # {}
    BY <2>1, <1>2, <1>3, <1>4
  <2>3. Pick(s) \in s
    BY <2>2
  <2>4. s \ {Pick(s)} \in SUBSET S /\ Cardinality(s \ {Pick(s)}) = n - 1
    <3>1. IsFiniteSet(s)
      BY <1>1
    <3> HIDE DEF Pick
    <3> QED
      BY <2>1, <2>3, <3>1, FS_RemoveElement
  <2>5. g[s \ {Pick(s)}] = k[s \ {Pick(s)}]
    <3> HIDE DEF Pick
    <3> QED
      BY <1>1, <1>5, <2>4
  <2>6. f[Pick(s)] = h[Pick(s)]
    BY <2>3
  <2> HIDE DEF Pick
  <2> QED
    BY <1>2, <1>3, <1>4, <2>1, <2>2, <2>5, <2>6
<1>6. Bad = {}
  BY <1>5, LeastNatural
<1> QED
  BY <1>1, <1>6

\* The empty sum.
LEMMA SumEmpty == ASSUME NEW f PROVE SumFunctionOnSet(f, {}) = 0
<1>1. PICK g : IsIteration(g, f, {}) /\ SumFunctionOnSet(f, {}) = g[{}]
  BY FS_EmptySet, SumIteration
<1> QED
  BY <1>1 DEF IsIteration

\* Functions that agree on S have the same sum over it.
LEMMA SumAgrees ==
    ASSUME NEW S, IsFiniteSet(S), NEW f, NEW h, \A x \in S : f[x] = h[x]
    PROVE  SumFunctionOnSet(f, S) = SumFunctionOnSet(h, S)
<1>1. PICK g : IsIteration(g, f, S) /\ SumFunctionOnSet(f, S) = g[S]
  BY SumIteration
<1>2. PICK k : IsIteration(k, h, S) /\ SumFunctionOnSet(h, S) = k[S]
  BY SumIteration
<1> QED
  BY <1>1, <1>2, IterationAgrees

\* A sum takes the chosen element first.
LEMMA SumChosen ==
    ASSUME NEW S, IsFiniteSet(S), S # {}, NEW f
    PROVE  LET x == CHOOSE x \in S : TRUE
           IN  SumFunctionOnSet(f, S) = f[x] + SumFunctionOnSet(f, S \ {x})
<1> DEFINE x == CHOOSE x \in S : TRUE
<1>1. PICK g : IsIteration(g, f, S) /\ SumFunctionOnSet(f, S) = g[S]
  BY SumIteration
<1>2. IsFiniteSet(S \ {x})
  BY FS_RemoveElement
<1>3. PICK k : IsIteration(k, f, S \ {x}) /\ SumFunctionOnSet(f, S \ {x}) = k[S \ {x}]
  BY <1>2, SumIteration
<1>4. k[S \ {x}] = g[S \ {x}]
  BY <1>1, <1>2, <1>3, IterationAgrees
<1>5. g[S] = f[x] + g[S \ {x}]
  BY <1>1 DEF IsIteration
<1> QED
  BY <1>1, <1>3, <1>4, <1>5

\* A sum of integers is an integer.
LEMMA SumInt ==
    ASSUME NEW S, IsFiniteSet(S), NEW f, \A x \in S : f[x] \in Int
    PROVE  SumFunctionOnSet(f, S) \in Int
<1> DEFINE Bad == {n \in Nat : \E T \in SUBSET S :
                      Cardinality(T) = n /\ SumFunctionOnSet(f, T) \notin Int}
<1>1. \A T \in SUBSET S : IsFiniteSet(T) /\ Cardinality(T) \in Nat
  BY FS_Subset, FS_CardinalityType
<1>2. ASSUME NEW n \in Bad, \A m \in Bad : n <= m PROVE FALSE
  <2>1. PICK T \in SUBSET S : Cardinality(T) = n /\ SumFunctionOnSet(f, T) \notin Int
    BY <1>2
  <2> DEFINE x == CHOOSE x \in T : TRUE
  <2>2. T # {}
    BY <2>1, SumEmpty
  <2>3. x \in T
    BY <2>2
  <2>4. SumFunctionOnSet(f, T) = f[x] + SumFunctionOnSet(f, T \ {x})
    BY <1>1, <2>2, SumChosen
  <2> HIDE DEF x
  <2>5. T \ {x} \in SUBSET S /\ Cardinality(T \ {x}) = n - 1
    BY <1>1, <2>1, <2>3, FS_RemoveElement
  <2>6. SumFunctionOnSet(f, T \ {x}) \in Int
    BY <1>1, <1>2, <2>5
  <2>7. f[x] \in Int
    BY <2>3
  <2> QED
    BY <2>1, <2>4, <2>6, <2>7
<1>3. Bad = {}
  BY <1>2, LeastNatural
<1> QED
  BY <1>1, <1>3

\* A sum can take any element first: addition does not depend on the order.
LEMMA SumRemove ==
    ASSUME NEW S, IsFiniteSet(S), NEW f, \A x \in S : f[x] \in Int, NEW x \in S
    PROVE  SumFunctionOnSet(f, S) = f[x] + SumFunctionOnSet(f, S \ {x})
<1> DEFINE Sum(T) == SumFunctionOnSet(f, T)
           Bad == {n \in Nat : \E T \in SUBSET S : Cardinality(T) = n
                      /\ \E y \in T : Sum(T) # f[y] + Sum(T \ {y})}
<1>1. \A T \in SUBSET S : IsFiniteSet(T) /\ Cardinality(T) \in Nat
  BY FS_Subset, FS_CardinalityType
<1>2. \A T \in SUBSET S : Sum(T) \in Int
  BY <1>1, SumInt
<1>3. ASSUME NEW n \in Bad, \A m \in Bad : n <= m PROVE FALSE
  <2>1. PICK T \in SUBSET S : Cardinality(T) = n /\ \E y \in T : Sum(T) # f[y] + Sum(T \ {y})
    BY <1>3
  <2>2. PICK y \in T : Sum(T) # f[y] + Sum(T \ {y})
    BY <2>1
  <2> DEFINE c == CHOOSE c \in T : TRUE
  <2>3. c \in T
    BY <2>2
  <2>4. Sum(T) = f[c] + Sum(T \ {c})
    BY <1>1, <2>3, SumChosen
  <2> HIDE DEF c
  <2>5. y # c
    BY <2>2, <2>4
  <2>6. /\ T \ {c} \in SUBSET S /\ Cardinality(T \ {c}) = n - 1
        /\ T \ {y} \in SUBSET S /\ Cardinality(T \ {y}) = n - 1
    BY <1>1, <2>1, <2>2, <2>3, FS_RemoveElement
  <2>7. n - 1 \in Nat /\ n - 1 \notin Bad
    BY <1>1, <1>3, <2>6
  <2>8. \A U \in SUBSET S : Cardinality(U) = n - 1 => \A z \in U : Sum(U) = f[z] + Sum(U \ {z})
    <3> HIDE DEF Sum
    <3> QED
      BY <2>7
  <2>9. Sum(T \ {c}) = f[y] + Sum((T \ {c}) \ {y})
    <3> HIDE DEF Sum
    <3> QED
      BY <2>5, <2>6, <2>8
  <2>10. Sum(T \ {y}) = f[c] + Sum((T \ {y}) \ {c})
    <3> HIDE DEF Sum
    <3> QED
      BY <2>3, <2>5, <2>6, <2>8
  <2>11. (T \ {c}) \ {y} = (T \ {y}) \ {c} /\ (T \ {y}) \ {c} \in SUBSET S
    OBVIOUS
  <2>12. f[c] \in Int /\ f[y] \in Int /\ Sum((T \ {y}) \ {c}) \in Int
    BY <1>2, <2>3
  <2>13. \A a, b, r \in Int : a + (b + r) = b + (a + r)
    OBVIOUS
  <2> HIDE DEF Sum, Bad
  <2>14. PICK r \in Int : r = Sum((T \ {y}) \ {c})
    BY <2>12
  <2>15. Sum(T \ {c}) = f[y] + r
    BY <2>9, <2>11, <2>14
  <2>16. Sum(T) = f[y] + (f[c] + r)
    BY <2>4, <2>12, <2>13, <2>15
  <2> QED
    BY <2>2, <2>10, <2>14, <2>16
<1>4. Bad = {}
  BY <1>3, LeastNatural
<1> HIDE DEF Sum
<1>5. Sum(S) = f[x] + Sum(S \ {x})
  BY <1>1, <1>4
<1> QED
  BY <1>5 DEF Sum

\* A sum over one element more.
LEMMA SumAdd ==
    ASSUME NEW S, IsFiniteSet(S), NEW x, x \notin S, NEW f, \A y \in S \cup {x} : f[y] \in Int
    PROVE  SumFunctionOnSet(f, S \cup {x}) = f[x] + SumFunctionOnSet(f, S)
<1>1. IsFiniteSet(S \cup {x})
  BY FS_AddElement
<1>2. SumFunctionOnSet(f, S \cup {x}) = f[x] + SumFunctionOnSet(f, (S \cup {x}) \ {x})
  BY <1>1, SumRemove
<1>3. (S \cup {x}) \ {x} = S
  OBVIOUS
<1> QED
  BY <1>2, <1>3

\* A function that differs from f at one element only.
LEMMA SumUpdate ==
    ASSUME NEW S, IsFiniteSet(S), NEW f, NEW h, NEW x \in S,
           \A y \in S : f[y] \in Int, h[x] \in Int, \A y \in S \ {x} : h[y] = f[y]
    PROVE  /\ SumFunctionOnSet(h, S) = SumFunctionOnSet(f, S) - f[x] + h[x]
           /\ SumFunctionOnSet(f, S) \in Int
<1>1. IsFiniteSet(S \ {x})
  BY FS_RemoveElement
<1>2. SumFunctionOnSet(f, S) = f[x] + SumFunctionOnSet(f, S \ {x})
  BY SumRemove
<1>3. SumFunctionOnSet(h, S) = h[x] + SumFunctionOnSet(h, S \ {x})
  BY SumRemove
<1>4. SumFunctionOnSet(h, S \ {x}) = SumFunctionOnSet(f, S \ {x})
  BY <1>1, SumAgrees
<1>5. SumFunctionOnSet(f, S \ {x}) \in Int
  BY <1>1, SumInt
<1> QED
  BY <1>2, <1>3, <1>4, <1>5

\* Larger summands give a larger sum.
LEMMA SumMonotone ==
    ASSUME NEW S, IsFiniteSet(S), NEW f, NEW h,
           \A x \in S : f[x] \in Int /\ h[x] \in Int /\ f[x] <= h[x]
    PROVE  SumFunctionOnSet(f, S) <= SumFunctionOnSet(h, S)
<1> DEFINE F(T) == SumFunctionOnSet(f, T)
           H(T) == SumFunctionOnSet(h, T)
           Bad == {n \in Nat : \E T \in SUBSET S : Cardinality(T) = n /\ ~(F(T) <= H(T))}
<1>1. \A T \in SUBSET S : IsFiniteSet(T) /\ Cardinality(T) \in Nat
  BY FS_Subset, FS_CardinalityType
<1>2. \A T \in SUBSET S : F(T) \in Int /\ H(T) \in Int
  BY <1>1, SumInt
<1>3. F({}) = 0 /\ H({}) = 0
  BY SumEmpty
<1>4. \A T \in SUBSET S : \A x \in T : F(T) = f[x] + F(T \ {x}) /\ H(T) = h[x] + H(T \ {x})
  BY <1>1, SumRemove
<1> HIDE DEF F, H
<1>5. ASSUME NEW n \in Bad, \A m \in Bad : n <= m PROVE FALSE
  <2>1. PICK T \in SUBSET S : Cardinality(T) = n /\ ~(F(T) <= H(T))
    BY <1>5
  <2>2. PICK x \in T : TRUE
    BY <1>3, <2>1
  <2>3. T \ {x} \in SUBSET S /\ Cardinality(T \ {x}) = n - 1
    BY <1>1, <2>1, <2>2, FS_RemoveElement
  <2>4. F(T \ {x}) <= H(T \ {x})
    BY <1>1, <1>5, <2>3
  <2>5. PICK a \in Int : a = F(T \ {x})
    BY <1>2, <2>3
  <2>6. PICK b \in Int : b = H(T \ {x})
    BY <1>2, <2>3
  <2>7. F(T) = f[x] + a /\ H(T) = h[x] + b
    BY <1>4, <2>2, <2>5, <2>6
  <2>8. f[x] \in Int /\ h[x] \in Int /\ f[x] <= h[x]
    BY <2>2
  <2> HIDE DEF Bad
  <2> QED
    BY <2>1, <2>4, <2>5, <2>6, <2>7, <2>8
<1>6. Bad = {}
  BY <1>5, LeastNatural
<1>7. F(S) <= H(S)
  BY <1>1, <1>6
<1> QED
  BY <1>7 DEF F, H

\* The sum over two sets without a common element.
LEMMA SumDisjoint ==
    ASSUME NEW A, NEW B, IsFiniteSet(A), IsFiniteSet(B), A \cap B = {},
           NEW f, \A x \in A \cup B : f[x] \in Int
    PROVE  SumFunctionOnSet(f, A \cup B) = SumFunctionOnSet(f, A) + SumFunctionOnSet(f, B)
<1> DEFINE Sum(T) == SumFunctionOnSet(f, T)
           Bad == {n \in Nat : \E T \in SUBSET B :
                      Cardinality(T) = n /\ Sum(A \cup T) # Sum(A) + Sum(T)}
<1>1. \A T \in SUBSET B : IsFiniteSet(T) /\ Cardinality(T) \in Nat
  BY FS_Subset, FS_CardinalityType
<1>2. \A T \in SUBSET B : IsFiniteSet(A \cup T)
  BY <1>1, FS_Union
<1>3. Sum(A) \in Int /\ \A T \in SUBSET B : Sum(T) \in Int
  BY <1>1, SumInt
<1>4. Sum({}) = 0
  BY SumEmpty
<1>5. \A T \in SUBSET B : \A x \in T :
          Sum(T) = f[x] + Sum(T \ {x}) /\ Sum(A \cup T) = f[x] + Sum((A \cup T) \ {x})
  BY <1>1, <1>2, SumRemove
<1> HIDE DEF Sum
<1>6. ASSUME NEW n \in Bad, \A m \in Bad : n <= m PROVE FALSE
  <2>1. PICK T \in SUBSET B : Cardinality(T) = n /\ Sum(A \cup T) # Sum(A) + Sum(T)
    BY <1>6
  <2>2. PICK x \in T : TRUE
    <3>1. A \cup {} = A
      OBVIOUS
    <3>2. Sum(A) = Sum(A) + Sum({})
      BY <1>3, <1>4
    <3> QED
      BY <3>1, <3>2, <2>1
  <2>3. T \ {x} \in SUBSET B /\ Cardinality(T \ {x}) = n - 1
    BY <1>1, <2>1, <2>2, FS_RemoveElement
  <2>4. PICK U \in SUBSET B : U = T \ {x} /\ Cardinality(U) = n - 1
    BY <2>3
  <2>5. Sum(A \cup U) = Sum(A) + Sum(U)
    <3>1. n - 1 \in Nat /\ n - 1 \notin Bad
      <4>1. n \in Nat /\ n - 1 \in Nat
        BY <1>1, <2>4
      <4> HIDE DEF Bad
      <4> QED
        BY <4>1, <1>6
    <3> QED
      BY <3>1, <2>4
  <2>6. (A \cup T) \ {x} = A \cup U
    BY <2>2, <2>4
  <2>7. PICK a \in Int : a = Sum(A)
    BY <1>3
  <2>8. PICK r \in Int : r = Sum(U)
    BY <1>3
  <2>9. Sum(T) = f[x] + r
    BY <1>5, <2>2, <2>4, <2>8
  <2>10. Sum(A \cup T) = f[x] + Sum((A \cup T) \ {x})
    BY <1>5, <2>2
  <2>11. Sum(A \cup T) = f[x] + (a + r)
    BY <2>10, <2>5, <2>6, <2>7, <2>8
  <2>12. f[x] \in Int
    BY <2>2
  <2> HIDE DEF Bad
  <2> QED
    BY <2>1, <2>7, <2>9, <2>11, <2>12
<1>7. Bad = {}
  BY <1>6, LeastNatural
<1>8. Sum(A \cup B) = Sum(A) + Sum(B)
  BY <1>1, <1>7
<1> QED
  BY <1>8 DEF Sum

\* A sum of naturals is a natural.
LEMMA SumNat ==
    ASSUME NEW S, IsFiniteSet(S), NEW f, \A x \in S : f[x] \in Nat
    PROVE  SumFunctionOnSet(f, S) \in Nat
<1> DEFINE Bad == {n \in Nat : \E T \in SUBSET S :
                      Cardinality(T) = n /\ SumFunctionOnSet(f, T) \notin Nat}
<1>1. \A T \in SUBSET S : IsFiniteSet(T) /\ Cardinality(T) \in Nat
  BY FS_Subset, FS_CardinalityType
<1>2. ASSUME NEW n \in Bad, \A m \in Bad : n <= m PROVE FALSE
  <2>1. PICK T \in SUBSET S : Cardinality(T) = n /\ SumFunctionOnSet(f, T) \notin Nat
    BY <1>2
  <2>2. PICK x \in T : TRUE
    BY <2>1, SumEmpty
  <2>3. SumFunctionOnSet(f, T) = f[x] + SumFunctionOnSet(f, T \ {x})
    BY <1>1, <2>2, SumRemove
  <2>4. T \ {x} \in SUBSET S /\ Cardinality(T \ {x}) = n - 1
    BY <1>1, <2>1, <2>2, FS_RemoveElement
  <2>5. SumFunctionOnSet(f, T \ {x}) \in Nat
    BY <1>1, <1>2, <2>4
  <2>6. f[x] \in Nat
    BY <2>2
  <2> QED
    BY <2>1, <2>3, <2>5, <2>6
<1>3. Bad = {}
  BY <1>2, LeastNatural
<1> QED
  BY <1>1, <1>3

\* The sum of naturals over a smaller set is smaller.
LEMMA SumSubset ==
    ASSUME NEW S, IsFiniteSet(S), NEW T \in SUBSET S, NEW f, \A x \in S : f[x] \in Nat
    PROVE  SumFunctionOnSet(f, T) <= SumFunctionOnSet(f, S)
<1>1. IsFiniteSet(T) /\ IsFiniteSet(S \ T)
  BY FS_Subset
<1>2. T \cup (S \ T) = S
  OBVIOUS
<1>3. SumFunctionOnSet(f, S) = SumFunctionOnSet(f, T) + SumFunctionOnSet(f, S \ T)
  BY <1>1, <1>2, SumDisjoint
<1>4. SumFunctionOnSet(f, T) \in Nat /\ SumFunctionOnSet(f, S \ T) \in Nat
  BY <1>1, SumNat
<1> QED
  BY <1>3, <1>4
===============================================================================
