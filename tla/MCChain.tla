------------------------------ MODULE MCChain ------------------------------
(***************************************************************************)
(* Small block trees for Chain.                                            *)
(***************************************************************************)
EXTENDS Chain, TLC

CONSTANTS G, A1, A2, A3, A4, B1, B2, B3,
          cG, cA1, cA2, cA3, cA4, cB1, cB2, cB3, tX, tY, tZ, tW

(***************************************************************************)
(* Two branches from the genesis block.  A node that has A2 moves to B at  *)
(* B3 and back to A at A4.                                                 *)
(***************************************************************************)
TreeBlocks == {G, A1, A2, A3, A4, B1, B2, B3}
TreePrev == G :> None @@ A1 :> G @@ A2 :> A1 @@ A3 :> A2 @@ A4 :> A3
            @@ B1 :> G @@ B2 :> B1 @@ B3 :> B2
UnitWork == [b \in TreeBlocks |-> 1]

\* B2 outweighs the taller A3, A4 outweighs everything.
ShortWork == [UnitWork EXCEPT ![B2] = 3, ![A4] = 3]

TreeTx == {cG, cA1, cA2, cA3, cA4, cB1, cB2, cB3, tX, tY, tZ, tW}
TreeOuts == [t \in TreeTx |-> IF t \in {cG, tX} THEN 2 ELSE 1]

FewBlocks == {A1, A2, A3, B1, B2, B3}

\* The coinbase of each block alone, and the blocks with other transactions.
Bases == G :> <<cG>> @@ A1 :> <<cA1>> @@ A2 :> <<cA2>> @@ A3 :> <<cA3>> @@ A4 :> <<cA4>>
         @@ B1 :> <<cB1>> @@ B2 :> <<cB2>> @@ B3 :> <<cB3>>

\* tX is on both branches at different heights; tY on A and tZ on B spend the same output of
\* the genesis block.  No branch spends what it made itself.
ApartVtx == [Bases EXCEPT ![A1] = <<cA1, tX>>, ![A3] = <<cA3, tY>>,
                          ![B2] = <<cB2, tX>>, ![B3] = <<cB3, tZ>>]
ApartVin == [t \in TreeTx |-> CASE t = tX -> {<<cG, 1>>} [] t \in {tY, tZ} -> {<<cG, 2>>} [] OTHER -> {}]

\* tY on A and tZ on B spend the same outputs of tX and of the genesis block: tY two
\* blocks after tX and together with a coinbase of its branch, tZ in the block of tX.  tW
\* spends a coinbase of B and is in no block.
ChainVtx == [Bases EXCEPT ![A1] = <<cA1, tX>>, ![A3] = <<cA3, tY>>, ![B2] = <<cB2, tX, tZ>>]
ChainVin == [t \in TreeTx |-> CASE t = tX -> {<<cG, 1>>}
                                [] t = tY -> {<<tX, 1>>, <<cG, 2>>, <<cA1, 1>>}
                                [] t = tZ -> {<<tX, 1>>, <<cG, 2>>}
                                [] t = tW -> {<<cB1, 1>>}
                                [] OTHER -> {}]

\* B3 spends again what tZ has spent in B2.
TwiceVtx == [Bases EXCEPT ![A1] = <<cA1, tX>>, ![A3] = <<cA3, tY>>,
                          ![B2] = <<cB2, tX, tZ>>, ![B3] = <<cB3, tY>>]
TwiceVin == [t \in TreeTx |-> CASE t = tX -> {<<cG, 1>>} [] t \in {tY, tZ} -> {<<tX, 1>>} [] OTHER -> {}]

\* CBlockIndex objects in the order of the heights (as usde_FillBlockIndex and
\* emc2_FillBlockIndex create them), in the opposite order (as shc_FillBlockIndex does), and
\* in another: where the allocator puts one at run time is not known.
Rising == G :> 0 @@ A1 :> 1 @@ B1 :> 2 @@ A2 :> 3 @@ B2 :> 4 @@ A3 :> 5 @@ B3 :> 6 @@ A4 :> 7
Falling == [b \in TreeBlocks |-> 7 - Rising[b]]
Mixed == G :> 2 @@ A1 :> 3 @@ B1 :> 4 @@ A2 :> 0 @@ B2 :> 5 @@ A3 :> 7 @@ B3 :> 1 @@ A4 :> 6
AnyOrder == {Rising, Falling, Mixed}
InOrder == {Rising}
=============================================================================
