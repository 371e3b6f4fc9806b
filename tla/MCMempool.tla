------------------------------ MODULE MCMempool ------------------------------
(***************************************************************************)
(* Transactions for Mempool: g is on the chain.  a and b spend the same    *)
(* output of it, b another one as well, which f spends too; d depends on   *)
(* a; e weighs as much as a block.                                         *)
(***************************************************************************)
EXTENDS Mempool, TLC

CONSTANTS g, a1, b1, d1, e1, f1

PoolTxs == {g, a1, b1, d1, e1, f1}
PoolOuts == {<<g, 1>>, <<g, 2>>, <<g, 3>>, <<a1, 1>>}
PoolVin == g :> {} @@ a1 :> {<<g, 1>>} @@ b1 :> {<<g, 1>>, <<g, 2>>} @@ d1 :> {<<a1, 1>>} @@ e1 :> {<<g, 3>>}
           @@ f1 :> {<<g, 2>>}
PoolWeight == g :> 1 @@ a1 :> 1 @@ b1 :> 1 @@ d1 :> 1 @@ e1 :> 2 @@ f1 :> 1
PoolHash == g :> 5 @@ a1 :> 1 @@ b1 :> 2 @@ d1 :> 3 @@ e1 :> 4 @@ f1 :> 6
PoolPriority == g :> 1 @@ a1 :> 3 @@ b1 :> 2 @@ d1 :> 4 @@ e1 :> 5 @@ f1 :> 6
PoolKeeps == {<<a1, b1>>}
=============================================================================
