--------------------------------- MODULE Merkle ---------------------------------
(***************************************************************************)
(* The state root of accounts/src/merkle.rs: StateRoot::compute, prove and *)
(* MerkleProof::verify.  SHA-256 of a pair is the pair: free of collisions *)
(* and never a leaf.  Indexes count from 0 as in the code.                 *)
(***************************************************************************)
EXTENDS Naturals, SequencesExt

Zero == <<>>

Hash(a, b) == <<a, b>>

\* One level up; an odd element is promoted.
NextLevel(level) ==
    [i \in 1..((Len(level) + 1) \div 2) |->
        IF 2 * i <= Len(level) THEN Hash(level[2 * i - 1], level[2 * i]) ELSE level[2 * i - 1]]

\* Mutant of compute: an odd element is paired with itself.
compute_Doubled(hashes) ==
    IF hashes = <<>> THEN Zero
    ELSE FoldLeft(LAMBDA level, i : IF Len(level) = 1 THEN level
                                    ELSE NextLevel(IF Len(level) % 2 = 1 THEN Append(level, Last(level)) ELSE level),
                  hashes, hashes)[1]

\* As many rounds as there are leaves are enough; a single element stays.
compute(hashes) ==
    IF hashes = <<>> THEN Zero
    ELSE FoldLeft(LAMBDA level, i : NextLevel(level), hashes, hashes)[1]

\* Mutant of ProveLevel: the side of the sibling swapped.
ProveLevel_Swapped(st) ==
    LET pair == st.index \div 2
        odd  == st.index % 2 = 1
    IN  [level    |-> NextLevel(st.level),
         index    |-> pair,
         siblings |-> IF 2 * pair + 2 <= Len(st.level)
                      THEN Append(st.siblings, [hash |-> st.level[IF odd THEN 2 * pair + 1 ELSE 2 * pair + 2],
                                                is_left |-> ~odd])
                      ELSE st.siblings]

\* One level of prove: the sibling, if the index has one.
ProveLevel(st) ==
    LET pair == st.index \div 2
        odd  == st.index % 2 = 1
    IN  [level    |-> NextLevel(st.level),
         index    |-> pair,
         siblings |-> IF 2 * pair + 2 <= Len(st.level)
                      THEN Append(st.siblings, [hash |-> st.level[IF odd THEN 2 * pair + 1 ELSE 2 * pair + 2],
                                                is_left |-> odd])
                      ELSE st.siblings]

prove(hashes, index) ==
    IF index >= Len(hashes) THEN [leaf |-> Zero, siblings |-> <<>>]
    ELSE [leaf     |-> hashes[index + 1],
          siblings |-> FoldLeft(LAMBDA st, i : IF Len(st.level) = 1 THEN st ELSE ProveLevel(st),
                                [level |-> hashes, index |-> index, siblings |-> <<>>], hashes).siblings]

verify_proof(proof, root) ==
    root = FoldLeft(LAMBDA h, s : IF s.is_left THEN Hash(s.hash, h) ELSE Hash(h, s.hash),
                    proof.leaf, proof.siblings)

-------------------------------------------------------------------------------
(* Properties of the root of a list of leaves *)

\* The proof of every leaf verifies against the root, with the odd leaves that are
\* promoted over one or more levels, and against no root of a list that differs in a leaf.
ProofsVerify(hashes, Leaves) ==
    LET root == compute(hashes)
    IN  \A i \in DOMAIN hashes :
            /\ prove(hashes, i - 1).leaf = hashes[i]
            /\ verify_proof(prove(hashes, i - 1), root)
            /\ \A j \in DOMAIN hashes : \A x \in Leaves \ {hashes[j]} :
                  ~verify_proof(prove(hashes, i - 1), compute([hashes EXCEPT ![j] = x]))

\* Outside the list there is nothing to prove: what prove returns verifies against the
\* root of no list but the empty one.
NothingBeyond(hashes) ==
    hashes # <<>> => ~verify_proof(prove(hashes, Len(hashes)), compute(hashes))

\* The root binds the list: another order, or a list shorter or longer by a leaf, has
\* another root.
RootBinds(hashes, Leaves) ==
    /\ \A i, j \in DOMAIN hashes :
          hashes[i] # hashes[j] => compute(hashes) # compute([hashes EXCEPT ![i] = hashes[j], ![j] = hashes[i]])
    /\ \A x \in Leaves : compute(hashes) # compute(Append(hashes, x))
===============================================================================
