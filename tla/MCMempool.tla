------------------------------- MODULE MCMempool -------------------------------
(* Mempool on small instances: two equal fees, one higher, one below min_fee,  *)
(* and one transaction that is not signed.                                     *)
EXTENDS Mempool, TLC

CONSTANTS a, b, rich, cheap, unsigned

MCTxs == {a, b, rich, cheap, unsigned}
MCSigned == MCTxs \ {unsigned}
MCFee == a :> 2 @@ b :> 2 @@ rich :> 3 @@ cheap :> 1 @@ unsigned :> 2
===============================================================================
