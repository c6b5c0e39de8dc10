----------------------------- MODULE MCOrderBook -----------------------------
(* The order book on a small instance, and its atomic specification.         *)
EXTENDS OrderBook

\* The resting orders as the abstract book sees them.
Resting == [id \in Live |-> live[id]]

M == INSTANCE Matching

\* The abstract book takes a place call's effect at once: while the loop is
\* running it already shows the book and the trades the loop will end with.
Abstract ==
  INSTANCE AtomicBook WITH
    placed <- [taker EXCEPT !.remaining = taker.qty],
    book <- IF pc = "idle" THEN Resting
            ELSE M!Placed(Resting, taker.id, taker, pc = "limit"),
    trades <- LET strip(t) == [maker |-> t.maker, price |-> t.price, qty |-> t.qty]
                  done == [i \in 1 .. Len(trades) |-> strip(trades[i])]
              IN  IF pc = "idle" THEN done ELSE done \o M!Trades(Resting, taker)

\* The matching loop computes the price-time allocation: each call of the
\* book is one step of the atomic book, with the same trades in the same
\* order, the same resting orders and the same error.
ImplementsAtomicBook == Abstract!Spec

=============================================================================
