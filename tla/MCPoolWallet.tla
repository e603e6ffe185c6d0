----------------------------- MODULE MCPoolWallet -----------------------------
(* Small instances of PoolWallet: alice and bob through one client, as the *)
(* demo has them, or each through a client of its own. *)
EXTENDS PoolWallet, TLC

CONSTANTS alice, bob, shared, alices, bobs

SharedClient == (alice :> shared) @@ (bob :> shared)
OwnClients == (alice :> alices) @@ (bob :> bobs)

(* Tasks are interchangeable, and so are the users, together with their    *)
(* clients. *)
Swap(x, y) == (x :> y) @@ (y :> x)
Users2 == {Swap(alice, alice) @@ Swap(bob, bob) @@ Swap(alices, alices) @@ Swap(bobs, bobs),
           Swap(alice, bob) @@ Swap(alices, bobs)}
Symmetry == {f @@ g : f \in Permutations(Tasks), g \in Users2}
===============================================================================
