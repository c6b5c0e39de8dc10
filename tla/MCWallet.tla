------------------------------- MODULE MCWallet -------------------------------
(* One user, two goroutines.                                                 *)
EXTENDS Wallet, TLC

CONSTANTS u1, coin, token

Output(asset, amount) == [tx |-> "t1", user |-> u1, asset |-> asset, amount |-> amount]

\* A transaction with three outputs in one asset, an empty one included: their
\* webhooks report different amounts for one row.
OneAsset == {Output(coin, 0), Output(coin, 1), Output(coin, 2)}

\* A transaction that pays in two assets.
TwoAssets == {Output(coin, 1), Output(token, 1)}

ProcSymmetry == Permutations(Procs)
=============================================================================
