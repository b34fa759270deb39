----------------------------- MODULE MCAccountsLog -----------------------------
(* Threads, keys and accounts are interchangeable: no definition of AccountsLog *)
(* tells two of them apart.                                                     *)
EXTENDS AccountsLog

Symmetry == Permutations(Threads) \cup Permutations(Keys) \cup Permutations(Accounts)
===============================================================================
