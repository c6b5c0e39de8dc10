------------------------------ MODULE OrderBook ------------------------------
(***************************************************************************)
(* The limit order book of one symbol (orderbook/orderbook.go).            *)
(*                                                                         *)
(* A single goroutine owns the book, so calls never overlap; inside a call *)
(* the matching loop is modelled one fill per step, which lets the         *)
(* invariants speak about the book in the middle of a match.  Between      *)
(* PlaceLimit or PlaceMarket and rest no other call can start.             *)
(*                                                                         *)
(* A bookSide's levels map and its sorted price slice are changed by the   *)
(* same two branches (add, remove); prices[s] is the set of their keys.    *)
(* The order of the slice itself is left out.                              *)
(***************************************************************************)
EXTENDS Integers, Sequences

CONSTANTS
  Ids,        \* order ids a caller may use
  NoId,       \* the empty id
  Prices,     \* prices a caller may pass, invalid ones included
  Qtys,       \* quantities a caller may pass, invalid ones included
  MaxPrice,   \* the largest representable price
  MaxSeq      \* bound of the model: orders accepted by the book

ASSUME InputAssumption ==
  /\ NoId \notin Ids
  /\ MaxPrice \in Nat
  /\ Prices \subseteq (-MaxPrice) .. MaxPrice
  /\ Qtys \subseteq Int
  /\ MaxSeq \in Nat

VARIABLES
  levels,     \* levels[s][p]: FIFO queue of the order ids resting at p
  prices,     \* prices[s]: the prices that have a level
  live,       \* live[id]: the resting order, NoOrder when the key is absent
  seq,        \* the last time-priority number the book assigned
  pc,         \* "idle", or the call whose match is running
  taker,      \* the incoming order
  trades,     \* the trades of the last call
  err         \* the error of the last call

vars == <<levels, prices, live, seq, pc, taker, trades, err>>

Sides == {"buy", "sell"}

Opposite(s) == IF s = "buy" THEN "sell" ELSE "buy"

Order == [id : Ids \cup {NoId}, side : Sides, price : Int, qty : Int,
          remaining : Int, seq : Nat]

\* The zero Order: what a lookup of an absent key returns.
NoOrder == [id |-> NoId, side |-> "buy", price |-> 0, qty |-> 0,
            remaining |-> 0, seq |-> 0]

Trade == [taker : Ids, maker : Ids, price : Int, qty : Int]

Live == {id \in Ids : live[id] # NoOrder}

IsBest(s, p) ==
  /\ p \in prices[s]
  /\ \A q \in prices[s] : IF s = "sell" THEN p <= q ELSE q <= p

\* The lowest ask or the highest bid; used only when prices[s] # {}.
best(s) == CHOOSE p \in prices[s] : IsBest(s, p)

\* Mutant of crosses: an equal price does not cross.
crossesStrictly(o, restingPrice) ==
  \/ o.price = 0
  \/ o.side = "buy" /\ o.price > restingPrice
  \/ o.side = "sell" /\ o.price < restingPrice

\* Price 0 marks a market order.
crosses(o, restingPrice) ==
  \/ o.price = 0
  \/ o.side = "buy" /\ o.price >= restingPrice
  \/ o.side = "sell" /\ o.price <= restingPrice

\* The condition under which the matching loop makes one more fill.
CanMatch(o) ==
  /\ o.remaining > 0
  /\ prices[Opposite(o.side)] # {}
  /\ crosses(o, best(Opposite(o.side)))

min64(a, b) == IF a < b THEN a ELSE b

Without(q, i) == [j \in 1 .. Len(q) - 1 |-> IF j < i THEN q[j] ELSE q[j + 1]]

\* Mutant of add: the order goes to the front of its level.
addFront(s, p, id) ==
  /\ levels' = [levels EXCEPT ![s][p] =
                   IF p \in prices[s] THEN <<id>> \o @ ELSE <<id>>]
  /\ prices' = [prices EXCEPT ![s] = @ \cup {p}]

\* Push the id on the back of its level, opening the level if there is none.
add(s, p, id) ==
  /\ levels' = [levels EXCEPT ![s][p] =
                   IF p \in prices[s] THEN Append(@, id) ELSE <<id>>]
  /\ prices' = [prices EXCEPT ![s] = @ \cup {p}]

\* Mutant of remove: an emptied level is not closed.
removeKeepsLevel(s, p, i) ==
  /\ levels' = [levels EXCEPT ![s][p] = Without(@, i)]
  /\ UNCHANGED prices

\* Drop the i-th element of a level, closing the level if it was the last.
remove(s, p, i) ==
  LET q == Without(levels[s][p], i)
  IN  /\ levels' = [levels EXCEPT ![s][p] = q]
      /\ prices' = [prices EXCEPT ![s] = IF Len(q) = 0 THEN @ \ {p} ELSE @]

-----------------------------------------------------------------------------

Init ==
  /\ levels = [s \in Sides |-> [p \in Prices |-> <<>>]]
  /\ prices = [s \in Sides |-> {}]
  /\ live = [id \in Ids |-> NoOrder]
  /\ seq = 0
  /\ pc = "idle"
  /\ taker = NoOrder
  /\ trades = <<>>
  /\ err = "none"

\* A call that fails its checks returns at once and changes nothing.
Fail(e) ==
  /\ trades' = <<>>
  /\ err' = e
  /\ UNCHANGED <<levels, prices, live, seq, pc, taker>>

\* The common part of the two place calls: number the order, start matching.
StartMatch(call, id, side, price, qty) ==
  /\ seq < MaxSeq
  /\ seq' = seq + 1
  /\ taker' = [id |-> id, side |-> side, price |-> price, qty |-> qty,
               remaining |-> qty, seq |-> seq + 1]
  /\ pc' = call
  /\ trades' = <<>>
  /\ err' = "none"
  /\ UNCHANGED <<levels, prices, live>>

\* Mutant of PlaceLimit: a live id is accepted again.
PlaceLimitAgain(id, side, price, qty) ==
  /\ pc = "idle"
  /\ \/ (price <= 0 \/ qty <= 0) /\ Fail("invalid")
     \/ price > 0 /\ qty > 0 /\ StartMatch("limit", id, side, price, qty)

PlaceLimit(id, side, price, qty) ==
  /\ pc = "idle"
  /\ \/ (price <= 0 \/ qty <= 0) /\ Fail("invalid")
     \/ price > 0 /\ qty > 0 /\ id \in Live /\ Fail("duplicate")
     \/ /\ price > 0 /\ qty > 0 /\ id \notin Live
        /\ StartMatch("limit", id, side, price, qty)

PlaceMarket(id, side, qty) ==
  /\ pc = "idle"
  /\ \/ qty <= 0 /\ Fail("invalid")
     \/ qty > 0 /\ id \in Live /\ Fail("duplicate")
     \/ qty > 0 /\ id \notin Live /\ StartMatch("market", id, side, 0, qty)

\* Mutant of match: the youngest order of the level is filled first.
matchYoungest ==
  /\ pc # "idle"
  /\ CanMatch(taker)
  /\ LET opp == Opposite(taker.side)
         price == best(opp)
         last == Len(levels[opp][price])
         maker == live[levels[opp][price][last]]
         qty == min64(taker.remaining, maker.remaining)
     IN  /\ trades' = Append(trades, [taker |-> taker.id, maker |-> maker.id,
                                      price |-> price, qty |-> qty])
         /\ taker' = [taker EXCEPT !.remaining = @ - qty]
         /\ IF maker.remaining = qty
            THEN /\ remove(opp, price, last)
                 /\ live' = [live EXCEPT ![maker.id] = NoOrder]
            ELSE /\ live' = [live EXCEPT ![maker.id].remaining = @ - qty]
                 /\ UNCHANGED <<levels, prices>>
  /\ UNCHANGED <<seq, pc, err>>

\* One fill of the matching loop: the front order of the best level.  (The
\* inner loop stays on a level while it has orders, which is the best level
\* for as long as it has them.)
match ==
  /\ pc # "idle"
  /\ CanMatch(taker)
  /\ LET opp == Opposite(taker.side)
         price == best(opp)
         maker == live[Head(levels[opp][price])]
         qty == min64(taker.remaining, maker.remaining)
     IN  /\ trades' = Append(trades, [taker |-> taker.id, maker |-> maker.id,
                                      price |-> price, qty |-> qty])
         /\ taker' = [taker EXCEPT !.remaining = @ - qty]
         /\ IF maker.remaining = qty
            THEN /\ remove(opp, price, 1)
                 /\ live' = [live EXCEPT ![maker.id] = NoOrder]
            ELSE /\ live' = [live EXCEPT ![maker.id].remaining = @ - qty]
                 /\ UNCHANGED <<levels, prices>>
  /\ UNCHANGED <<seq, pc, err>>

\* What ends a place call, once the book has been seen to.
Return ==
  /\ pc' = "idle"
  /\ taker' = NoOrder
  /\ UNCHANGED <<seq, trades, err>>

\* Mutant of rest: the loop goes on when nothing is left to rest.
restSpins ==
  /\ pc # "idle" /\ ~CanMatch(taker)
  /\ IF pc = "limit" /\ taker.remaining > 0
     THEN /\ add(taker.side, taker.price, taker.id)
          /\ live' = [live EXCEPT ![taker.id] = taker]
          /\ Return
     ELSE UNCHANGED vars

\* Mutant of rest: an order that has traded does not rest.
restUntraded ==
  /\ pc # "idle" /\ ~CanMatch(taker)
  /\ IF pc = "limit" /\ taker.remaining > 0 /\ trades = <<>>
     THEN /\ add(taker.side, taker.price, taker.id)
          /\ live' = [live EXCEPT ![taker.id] = taker]
     ELSE UNCHANGED <<levels, prices, live>>
  /\ Return

\* The loop is over: a limit order rests what is left, a market order drops it.
rest ==
  /\ pc # "idle"
  /\ ~CanMatch(taker)
  /\ IF pc = "limit" /\ taker.remaining > 0
     THEN /\ add(taker.side, taker.price, taker.id)
          /\ live' = [live EXCEPT ![taker.id] = taker]
     ELSE UNCHANGED <<levels, prices, live>>
  /\ Return

Cancel(id) ==
  /\ pc = "idle"
  /\ \/ id \notin Live /\ Fail("not found")
     \/ /\ id \in Live
        /\ \E i \in 1 .. Len(levels[live[id].side][live[id].price]) :
             /\ levels[live[id].side][live[id].price][i] = id
             /\ remove(live[id].side, live[id].price, i)
        /\ live' = [live EXCEPT ![id] = NoOrder]
        /\ trades' = <<>>
        /\ err' = "none"
        /\ UNCHANGED <<seq, pc, taker>>

Next ==
  \/ \E id \in Ids, side \in Sides, price \in Prices, qty \in Qtys :
       PlaceLimit(id, side, price, qty)
  \/ \E id \in Ids, side \in Sides, qty \in Qtys : PlaceMarket(id, side, qty)
  \/ match
  \/ rest
  \/ \E id \in Ids : Cancel(id)

\* The engine goroutine runs a call it has started to its end.
Fairness == WF_vars(match) /\ WF_vars(rest)

Spec == Init /\ [][Next]_vars /\ Fairness

-----------------------------------------------------------------------------

\* The variables range over their types (struct Order, bookSide, Trade).
TypeOK ==
  /\ levels \in [Sides -> [Prices -> Seq(Ids)]]
  /\ prices \in [Sides -> SUBSET Prices]
  /\ live \in [Ids -> Order]
  /\ seq \in Nat
  /\ pc \in {"idle", "limit", "market"}
  /\ taker \in Order
  /\ trades \in Seq(Trade)
  /\ err \in {"none", "invalid", "duplicate", "not found"}

\* The price index names exactly the levels that hold an order: remove closes
\* a level with its last order, so best never answers with an empty level.
IndexExact ==
  \A s \in Sides, p \in Prices : p \in prices[s] <=> levels[s][p] # <<>>

\* Whatever stands in a queue is live, on that side and at that price.
QueuedIsLive ==
  \A s \in Sides, p \in Prices : \A i \in 1 .. Len(levels[s][p]) :
    LET o == live[levels[s][p][i]]
    IN  o.id = levels[s][p][i] /\ o.side = s /\ o.price = p

\* Every live order stands in the queue of its side and price.
LiveIsQueued ==
  \A id \in Live :
    /\ live[id].price \in Prices
    /\ \E i \in 1 .. Len(levels[live[id].side][live[id].price]) :
         levels[live[id].side][live[id].price][i] = id

\* The map of live orders and the queues of the two sides hold the same
\* orders at every point of every call, in the middle of a match included.
BookConsistent == IndexExact /\ QueuedIsLive /\ LiveIsQueued

\* Time priority: each queue is in order of arrival, no order stands twice.
TimePriority ==
  \A s \in Sides, p \in Prices : \A i, j \in 1 .. Len(levels[s][p]) :
    i < j => live[levels[s][p][i]].seq < live[levels[s][p][j]].seq

\* A resting order has a positive price and something left to trade, never
\* more than it was placed for: a filled maker leaves the book in the fill.
RestingQuantities ==
  \A id \in Live : /\ live[id].price > 0
                   /\ live[id].remaining \in 1 .. live[id].qty

\* The book is never crossed: every bid is below every ask, whatever limit
\* and market orders were matched, rested or cancelled before.
Uncrossed == \A b \in prices["buy"], a \in prices["sell"] : b < a

\* While a match runs, the incoming order is not on the book, is younger than
\* everything resting there, and has between nothing and all of it left.
MatchState ==
  /\ \A id \in Live : live[id].seq \in 1 .. seq
  /\ pc # "idle" =>
       /\ seq > 0
       /\ taker.id \in Ids \ Live
       /\ taker.seq = seq
       /\ \A id \in Live : live[id].seq < seq
       /\ taker.remaining \in 0 .. taker.qty
       /\ IF pc = "limit" THEN taker.price \in Prices /\ taker.price > 0
                          ELSE taker.price = 0

\* The inductive invariant of the book, between any two fills of the matching
\* loop: levels, prices and live describe the same orders, each level is in
\* order of arrival, every resting order has something left of a positive
\* quantity, no bid reaches an ask, and the order being matched rests nowhere.
BookInv ==
  /\ TypeOK
  /\ BookConsistent
  /\ TimePriority
  /\ RestingQuantities
  /\ Uncrossed
  /\ MatchState

\* Order a has priority over order b of the same side.
HasPriority(a, b) ==
  \/ IF a.side = "sell" THEN a.price < b.price ELSE a.price > b.price
  \/ a.price = b.price /\ a.seq < b.seq

\* Strict price-time priority: each fill is made with the one order of the
\* opposite side that has priority over all the others resting there, at that
\* order's price and no worse than the taker's limit.
PriceTimePriority ==
  [][Len(trades') > Len(trades) =>
       LET t == trades'[Len(trades')]
           m == live[t.maker]
       IN  /\ t.maker \in Live
           /\ m.side # taker.side
           /\ t.price = m.price
           /\ crosses(taker, t.price)
           /\ \A id \in Live \ {t.maker} :
                live[id].side = m.side => HasPriority(m, live[id])]_vars

\* Every place call returns: the matching loop cannot run for ever.
MatchTerminates == pc # "idle" ~> pc = "idle"

=============================================================================
