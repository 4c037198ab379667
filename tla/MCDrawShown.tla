---------------------------- MODULE MCDrawShown ----------------------------
(* The accepting block g of CLOSE, a branch a1..a4 above its target a1,    *)
(* and a branch with another target b1.                                     *)
EXTENDS DrawShown

CONSTANTS g, a1, a2, a3, a4, b1

MCBlocks == {g, a1, a2, a3, a4, b1}
MCPath == [b \in MCBlocks |->
             CASE b = g -> {g}
               [] b = a1 -> {g, a1}
               [] b = a2 -> {g, a1, a2}
               [] b = a3 -> {g, a1, a2, a3}
               [] b = a4 -> {g, a1, a2, a3, a4}
               [] b = b1 -> {g, b1}]
=============================================================================
