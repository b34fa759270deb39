------------------------------ MODULE MCExecutor ------------------------------
(* Executor on batches of up to four transactions over five accounts: the      *)
(* wallets 1, 2 and 3 (the last not yet there) and the token accounts 4 and 5. *)
EXTENDS Executor, TLC

CONSTANTS a, b, c, d

Transfer(from, to, amount, writable) ==
    [program |-> "system", from |-> from, to |-> to, amount |-> amount, writable |-> writable]
TokenTransfer(from, to, amount) ==
    [program |-> "token", from |-> from, to |-> to, amount |-> amount, writable |-> {from, to}]
Unknown(key) ==
    [program |-> "unknown", from |-> key, to |-> key, amount |-> 0, writable |-> {}]

Signed(signer, budget, instructions) ==
    [signer |-> signer, fee |-> 1, compute_budget |-> budget, signed |-> TRUE,
     instructions |-> instructions]

MCGenesis == <<4, 3, NoAccount, 2, 1>>
MCAuthority == 4 :> 1 @@ 5 :> 2

\* Transactions that share accounts: a succeeds, b creates account 3 and then
\* fails, c runs out of compute units after its effects, d has no signature.
MCShared ==
    a :> Signed(1, 30, <<Transfer(1, 2, 2, {1, 2}), TokenTransfer(4, 5, 1)>>) @@
    b :> Signed(2, 30, <<Transfer(2, 3, 2, {2, 3}), Unknown(1)>>) @@
    c :> Signed(2, 9, <<TokenTransfer(5, 4, 1)>>) @@
    d :> [Signed(1, 30, <<Transfer(1, 3, 1, {1, 3})>>) EXCEPT !.signed = FALSE]

\* Three payers in a ring, each crediting the next one: 1 to 2 to 3 to 1.
MCRing ==
    a :> Signed(1, 30, <<Transfer(1, 2, 2, {1, 2})>>) @@
    b :> Signed(2, 30, <<Transfer(2, 3, 3, {2, 3})>>) @@
    c :> Signed(3, 30, <<Transfer(3, 1, 1, {3, 1})>>)

MCRingGenesis == <<4, 3, 2, 2, 1>>

\* Two transfers to an account that both declare read-only, one of which fails after
\* storing, and a transaction that pays from it.
MCUndeclared ==
    a :> Signed(1, 30, <<Transfer(1, 3, 1, {1})>>) @@
    b :> Signed(2, 30, <<Transfer(2, 3, 1, {2}), Unknown(5)>>) @@
    c :> Signed(3, 30, <<Transfer(3, 2, 1, {3, 2})>>)

\* Two token transactions of one payer who can pay for one.
MCPayer ==
    a :> Signed(1, 30, <<TokenTransfer(4, 5, 1)>>) @@
    b :> Signed(1, 30, <<Unknown(2)>>)

MCPayerGenesis == <<1, 3, NoAccount, 2, 1>>

MCInputs ==
    {[txs |-> MCShared, balances |-> MCGenesis],
     [txs |-> MCRing, balances |-> MCRingGenesis],
     [txs |-> MCPayer, balances |-> MCPayerGenesis],
     [txs |-> MCUndeclared, balances |-> MCRingGenesis]}
===============================================================================
