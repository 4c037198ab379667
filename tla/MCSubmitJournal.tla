-------------------------- MODULE MCSubmitJournal --------------------------
EXTENDS SubmitJournal, TLC

CONSTANTS a, b, c, d, o, p

(* A transaction spending the round's UTXO o and a wallet UTXO p, its fee  *)
(* bumps b and c, and another one, d, that shares the wallet UTXO.         *)
Both == {o, p}
MCInputsOf == (a :> Both) @@ (b :> Both) @@ (c :> Both) @@ (d :> {p})
MCReplaces == (a :> NoTx) @@ (b :> a) @@ (c :> a) @@ (d :> NoTx)
MCRootOf == (a :> a) @@ (b :> a) @@ (c :> a) @@ (d :> d)
TabSymmetry == Permutations(Tabs)
============================================================================
