------------------------------ MODULE MCPrograms ------------------------------
(* Programs on four keys, one of them a wallet at the start.                   *)
EXTENDS Programs, TLC

CONSTANTS k1, k2, k3, k4

MCGenesis == k1 :> 3
MCSymmetry == Permutations({k2, k3, k4})
===============================================================================
