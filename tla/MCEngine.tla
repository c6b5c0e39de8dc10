------------------------------- MODULE MCEngine -------------------------------
(* The engine, its journal and its hub on a small instance: orders that rest, *)
(* trade in part and in full, cancels of one's own and of another's order,    *)
(* and an order for a symbol that is not traded.                              *)
EXTENDS Engine

MCRequests ==
  {[type |-> "place_limit", symbol |-> "X", user |-> 1, side |-> "buy",
    price |-> 1, qty |-> 2],
   [type |-> "place_limit", symbol |-> "X", user |-> 2, side |-> "sell",
    price |-> 1, qty |-> 1],
   [type |-> "place_market", symbol |-> "X", user |-> 2, side |-> "sell", qty |-> 2],
   [type |-> "place_limit", symbol |-> "Z", user |-> 1, side |-> "buy",
    price |-> 1, qty |-> 1],
   [type |-> "cancel", symbol |-> "X", user |-> 1]}

MCTopic == [c \in Subscribers |-> "X"]
=============================================================================
