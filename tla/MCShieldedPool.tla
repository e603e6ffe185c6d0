---------------------------- MODULE MCShieldedPool ----------------------------
(* Small instances of ShieldedPool: alice starts with all the tokens, bob  *)
(* without a token account. *)
EXTENDS ShieldedPool, TLC

CONSTANTS alice, bob, Supply

MCInitialBalance == (alice :> Supply) @@ (bob :> 0)

(* Receipt ids are interchangeable. *)
ReceiptSymmetry == Permutations(ReceiptIds)
===============================================================================
