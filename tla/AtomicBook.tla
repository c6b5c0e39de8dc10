------------------------------ MODULE AtomicBook ------------------------------
(***************************************************************************)
(* What an order book promises: an accepted order has its whole effect in  *)
(* one atomic step, whose trades and resting orders are the price-time     *)
(* allocation of module Matching; the call then returns before the next.   *)
(***************************************************************************)
EXTENDS Matching

CONSTANTS Ids, NoOrder, Prices, Qtys, MaxSeq

VARIABLES
  book, seq, trades, err,
  placed      \* the order of the call that has not returned, or NoOrder

Sides == {"buy", "sell"}

Init == book = <<>> /\ seq = 0 /\ trades = <<>> /\ err = "none" /\ placed = NoOrder

Idle == placed = NoOrder /\ placed' = NoOrder

Fail(e) == Idle /\ err' = e /\ UNCHANGED seq /\ trades' = <<>> /\ UNCHANGED book

\* A call refused for its arguments, or for its id, changes nothing.
Refuse ==
  \/ Fail("invalid") /\ \E n \in Prices \cup Qtys : n <= 0
  \/ Fail("duplicate") /\ DOMAIN book # {}
  \/ Fail("not found") /\ Ids \ DOMAIN book # {}

Accept(id, side, price, qty, limit) ==
  /\ placed = NoOrder /\ seq < MaxSeq
  /\ seq' = seq + 1
  /\ err' = "none"
  /\ LET o == [id |-> id, side |-> side, price |-> price, qty |-> qty,
               remaining |-> qty, seq |-> seq + 1]
     IN  /\ placed' = o
         /\ id \notin DOMAIN book
         /\ book' = Placed(book, id, o, limit)
         /\ trades' = Trades(book, o)

PlaceLimit(id, side, price, qty) ==
  price > 0 /\ qty > 0 /\ Accept(id, side, price, qty, TRUE)

PlaceMarket(id, side, qty) ==
  qty > 0 /\ Accept(id, side, 0, qty, FALSE)

Return == placed # NoOrder /\ placed' = NoOrder /\ UNCHANGED <<book, seq, trades, err>>

Cancel(id) ==
  /\ Idle /\ err' = "none" /\ UNCHANGED seq
  /\ trades' = <<>>
  /\ id \in DOMAIN book
  /\ book' = Without(book, id)

Next ==
  \/ Refuse
  \/ Return
  \/ \E id \in Ids : Cancel(id)
  \/ \E id \in Ids, side \in Sides, price \in Prices, qty \in Qtys :
       PlaceLimit(id, side, price, qty)
  \/ \E id \in Ids, side \in Sides, qty \in Qtys : PlaceMarket(id, side, qty)

Spec == Init /\ [][Next]_<<book, seq, trades, err, placed>>

=============================================================================
