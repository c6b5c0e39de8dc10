------------------------------- MODULE Matching -------------------------------
(***************************************************************************)
(* What the order book computes, stated without its data structures: how   *)
(* an incoming order is allocated against the resting ones under           *)
(* price-time priority.  A book is a function from the ids of its resting  *)
(* orders to records [user, side, price, qty, remaining, seq].  The        *)
(* stepwise matching loop of module OrderBook is checked to produce        *)
(* exactly these trades and this book.                                     *)
(***************************************************************************)
EXTENDS Integers, Sequences, FiniteSetsExt

\* Resting order a trades before b of the same side: better price, then older.
Before(a, b) ==
  \/ IF a.side = "sell" THEN a.price < b.price ELSE a.price > b.price
  \/ a.price = b.price /\ a.seq < b.seq

\* The resting orders that order o may trade with (price 0: a market order).
Makers(book, o) ==
  {m \in DOMAIN book :
     /\ book[m].side # o.side
     /\ \/ o.price = 0
        \/ o.side = "buy" /\ book[m].price <= o.price
        \/ o.side = "sell" /\ book[m].price >= o.price}

\* The quantity o trades with each maker: what the makers before it leave.
Fills(book, o) ==
  LET makers == Makers(book, o)
      ahead(m) == {k \in makers : Before(book[k], book[m])}
      left(m) == o.remaining - MapThenSumSet(LAMBDA k : book[k].remaining, ahead(m))
      fill(m, l) == IF l <= 0 THEN 0 ELSE IF l < book[m].remaining THEN l
                    ELSE book[m].remaining
  IN  [m \in makers |-> fill(m, left(m))]

\* The trades of o, in the order in which they are made: the i-th is with the
\* maker that comes after i - 1 of the others.
Trades(book, o) ==
  LET fills == Fills(book, o)
      filled == {m \in DOMAIN fills : fills[m] > 0}
      ahead(m) == {k \in filled : Before(book[k], book[m])}
      nth(i) == CHOOSE m \in filled : Cardinality(ahead(m)) = i - 1
  IN  [i \in 1 .. Cardinality(filled) |->
         [maker |-> nth(i), price |-> book[nth(i)].price, qty |-> fills[nth(i)]]]

\* The book after placing o: a maker with nothing left is gone, and only a
\* limit order rests its remainder.
Placed(book, id, o, limit) ==
  LET fills == Fills(book, o)
      gone == {m \in DOMAIN fills : fills[m] = book[m].remaining}
      matched == [m \in DOMAIN book \ gone |->
                    IF m \in DOMAIN fills
                    THEN [book[m] EXCEPT !.remaining = @ - fills[m]] ELSE book[m]]
      rest == o.remaining - MapThenSumSet(LAMBDA m : fills[m], DOMAIN fills)
  IN  IF limit /\ rest > 0
      THEN [m \in DOMAIN matched \cup {id} |->
              IF m \in DOMAIN matched THEN matched[m] ELSE [o EXCEPT !.remaining = rest]]
      ELSE matched

Without(book, id) == [m \in DOMAIN book \ {id} |-> book[m]]

=============================================================================
