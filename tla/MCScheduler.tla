------------------------------ MODULE MCScheduler ------------------------------
(* Scheduler on five transactions over two accounts: a chain of conflicts      *)
(* (wa, wab, wb), a reader, and a transaction over the batch budget.           *)
EXTENDS Scheduler, TLC

CONSTANTS x, y, wa, wab, wb, ra, big

MCTxs == {wa, wab, wb, ra, big}
MCWrites == wa :> {x} @@ wab :> {x, y} @@ wb :> {y} @@ ra :> {} @@ big :> {}
MCReads == wa :> {} @@ wab :> {} @@ wb :> {} @@ ra :> {x} @@ big :> {y}
MCCompute == wa :> 2 @@ wab :> 2 @@ wb :> 2 @@ ra :> 1 @@ big :> 9
===============================================================================
