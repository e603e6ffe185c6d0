----------------------------- MODULE MCDeployment -----------------------------
(* A small instance of Deployment. *)
EXTENDS Deployment

TwoCircuits == <<"deposit", "transfer">>

(* As in the repository, and with what the runbook asks to add: testnet    *)
(* has no owner in its file. *)
Files ==
    [sandbox |-> [account |-> "pool", owner |-> "pool", usdcToken |-> "usdc"],
     testnet |-> [account |-> "pool", usdcToken |-> "usdc"],
     mainnet |-> [account |-> "pool", owner |-> "multisig", usdcToken |-> "usdc"]]

Flags == {<<"--network", "testnet">>, <<"--network", "mainnet">>, <<"--owner", "ledger">>,
          <<"--account", "other">>, <<"--wasm", "another">>, <<"--confirm-mainnet">>,
          <<"--skip-readiness">>}

UpToThreeFlags == UNION {[1 .. n -> Flags] : n \in 0 .. 3}

Artifact(verifier, deployable) ==
    [verifier |-> verifier, deployable |-> deployable, stale |-> FALSE]
AnyArtifact == {Artifact(v, d) : v \in Verifiers, d \in BOOLEAN}
===============================================================================
