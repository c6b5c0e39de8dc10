------------------------------- MODULE Trading -------------------------------
(***************************************************************************)
(* The trading coordinator (exchange/trading.go) over the ledger and the   *)
(* matching engine: concurrent HTTP handlers lock funds, submit commands   *)
(* to the one engine goroutine, and settle the events it answers with.     *)
(* Every ledger call is one atomic step (module LedgerPost); applying a    *)
(* command is one atomic step of the engine goroutine (module OrderBook).  *)
(*                                                                         *)
(* Each handler serves one request, and the random id of the order it      *)
(* places is the handler itself.  A symbol is the pair strings.Cut makes   *)
(* of it.  The engine trades one, base-quote; a client may name others,    *)
(* and nothing checks the name before funds are locked.                    *)
(*                                                                         *)
(* Faults names what may go wrong besides the interleaving: "ctx" the      *)
(* request's context is cancelled, "ledger" a posting fails (deadlock,     *)
(* lost connection), "journal" an append fails before it writes, "sync" it *)
(* fails after it wrote, "crash" the process dies and is restarted.        *)
(***************************************************************************)
EXTENDS Ledger, Matching, SequencesExt

CONSTANTS
  Handlers,   \* request goroutines
  Prices,     \* prices a client may ask for
  Qtys,       \* quantities a client may ask for
  Symbols,    \* symbols a client may name
  Funds,      \* what every user has deposited of each asset
  QueueCap,   \* the buffer of the engine's command channel (1024)
  RecentTradeCap, \* trades the history keeps (200)
  Faults,     \* the faults that may happen
  MaxCrashes, \* bound of the model: crashes
  MaxHalts    \* bound of the model: halts by an operator

Base == "base"
Quote == "quote"
Sides == {"buy", "sell"}
Traded == <<Base, Quote>>

ASSUME TradingAssumption ==
  /\ Assets = {Base, Quote} /\ Funds \in Nat /\ QueueCap \in Nat \ {0}
  /\ RecentTradeCap \in Nat \ {0}
  /\ Prices \subseteq Int /\ Qtys \subseteq Int /\ Prices \cup Qtys \subseteq Amounts
  /\ Symbols \subseteq Assets \X Assets
  /\ Faults \subseteq {"ctx", "ledger", "journal", "sync", "crash"}

VARIABLES
  book,       \* resting orders with their owners (books and orders)
  seq,        \* the last sequence number the open journal has assigned
  journal,    \* the journal file: the handlers whose commands it holds
  queue,      \* the command channel
  reply,      \* reply[h]: the engine's answer, <<>> while there is none
  pc,         \* pc[h]: where the handler is
  cmd,        \* cmd[h]: the command it submits
  todo,       \* todo[h]: events it still has to settle
  trades,     \* the recent trades of the symbol
  emitted,    \* history: every event the engine has answered with
  halted,     \* the traded symbol is halted
  halts,      \* halts so far
  crashes     \* crashes so far

engineVars == <<book, seq, journal, reply, emitted>>
controlVars == <<halted, halts, crashes>>
vars == <<ledgerVars, engineVars, queue, pc, cmd, todo, trades, controlVars>>

NoCmd == [type |-> "none"]

IsPlace(c) == c.type \in {"limit", "market"}

\* The engine has a book for the symbol of c.
Known(c) == c.symbol = Traded

LockAsset(c) == IF c.side = "buy" THEN c.symbol[2] ELSE c.symbol[1]

LockAmt(c) == IF c.side = "buy" THEN c.price * c.qty ELSE c.qty

TradeKey(ev) == <<"trade", ev.seq, ev.index>>

ImproveKey(ev) == <<"improve", ev.seq, ev.index>>

\* The taker bought below its limit.
Improved(ev) ==
  /\ cmd[ev.taker].type = "limit"
  /\ ev.side = "buy" /\ ev.price < cmd[ev.taker].price

Refund(ev) == (cmd[ev.taker].price - ev.price) * ev.qty

\* What an order reserves for quantity q of it: price*q of quote, or q of base.
Reserved(o, q) == IF o.side = "buy" THEN o.price * q ELSE q

TradesOf(h) == {ev \in emitted : ev.type = "trade" /\ ev.taker = h}

Unfilled(h) == cmd[h].qty - MapThenSumSet(LAMBDA ev : ev.qty, TradesOf(h))

-----------------------------------------------------------------------------

TradingInit ==
  /\ balance = [a \in Accounts |-> IF a[3] = "main" THEN Funds
                                   ELSE IF a[3] = "locked" THEN 0
                                   ELSE -(Funds * Cardinality(Users))]
  /\ posted = <<>>
  /\ book = <<>> /\ seq = 0 /\ journal = <<>> /\ queue = <<>>
  /\ reply = [h \in Handlers |-> <<>>]
  /\ pc = [h \in Handlers |-> "idle"]
  /\ cmd = [h \in Handlers |-> NoCmd]
  /\ todo = [h \in Handlers |-> <<>>]
  /\ trades = <<>> /\ emitted = {}
  /\ halted = FALSE /\ halts = 0 /\ crashes = 0

Goto(h, label) == pc' = [pc EXCEPT ![h] = label]

\* Mutant of PlaceOrder: a limit order is submitted without a lock.
PlaceOrderUnlocked(h, u, symbol, type, side, price, qty) ==
  /\ pc[h] = "idle" /\ type = "limit" /\ price > 0 /\ qty > 0
  /\ cmd' = [cmd EXCEPT ![h] = [type |-> type, id |-> h, user |-> u, symbol |-> symbol,
                               side |-> side, qty |-> qty, price |-> price]]
  /\ Goto(h, "submit")
  /\ UNCHANGED <<ledgerVars, engineVars, queue, todo, trades, controlVars>>

\* PlaceOrder up to the lock.  A market buy is not supported.
PlaceOrder(h, u, symbol, type, side, price, qty) ==
  /\ pc[h] = "idle"
  /\ cmd' = [cmd EXCEPT ![h] =
               [type |-> type, id |-> h, user |-> u, symbol |-> symbol, side |-> side,
                qty |-> qty, price |-> IF type = "limit" THEN price ELSE 0]]
  /\ Goto(h, IF \/ qty <= 0 \/ (type = "limit" /\ price <= 0)
                \/ type = "market" /\ side = "buy"
             THEN "done" ELSE "lock")
  /\ UNCHANGED <<ledgerVars, engineVars, queue, todo, trades, controlVars>>

CancelOrder(h, u, symbol, id) ==
  /\ pc[h] = "idle"
  /\ cmd' = [cmd EXCEPT ![h] = [type |-> "cancel", id |-> id, user |-> u,
                                symbol |-> symbol]]
  /\ Goto(h, "submit")
  /\ UNCHANGED <<ledgerVars, engineVars, queue, todo, trades, controlVars>>

\* Submit, first select: the command goes into the channel.
Enqueue(h) ==
  /\ pc[h] = "submit" /\ Len(queue) < QueueCap
  /\ queue' = Append(queue, h)
  /\ Goto(h, "wait")
  /\ UNCHANGED <<ledgerVars, engineVars, cmd, todo, trades, controlVars>>

\* Submit, second select: the answer is there.  An error of the journal makes
\* PlaceOrder give the lock back.
Receive(h) ==
  /\ pc[h] = "wait" /\ reply[h] # <<>>
  /\ IF reply[h][1].type = "error"
     THEN Goto(h, IF IsPlace(cmd[h]) THEN "release" ELSE "done") /\ UNCHANGED todo
     ELSE Goto(h, "settle") /\ todo' = [todo EXCEPT ![h] = reply[h]]
  /\ UNCHANGED <<ledgerVars, engineVars, queue, cmd, trades, controlVars>>

\* The context is cancelled while Submit waits.  The Unlock that follows uses
\* the same context, fails, and its error is dropped.
CtxCancelled(h) ==
  /\ "ctx" \in Faults /\ pc[h] \in {"submit", "wait"}
  /\ Goto(h, "cancelled")
  /\ UNCHANGED <<ledgerVars, engineVars, queue, cmd, todo, trades, controlVars>>

-----------------------------------------------------------------------------

\* The ledger call the handler makes next, with result res.
Posting(h, res) ==
  LET c == cmd[h]
      ev == Head(todo[h])
  IN  \/ /\ pc[h] = "lock"
         /\ Lock(c.user, LockAsset(c), LockAmt(c), <<"lock", h>>, res)
      \/ /\ pc[h] = "release"
         /\ Unlock(c.user, LockAsset(c), LockAmt(c), <<"unlock-fail", h>>, res)
      \/ /\ pc[h] = "settle" /\ todo[h] # <<>>
         /\ \/ /\ ev.type = "trade" /\ ev.side = "buy"
               /\ SettleTrade(ev.takerUser, ev.makerUser, Base, Quote, ev.price,
                              ev.qty, TradeKey(ev), res)
            \/ /\ ev.type = "trade" /\ ev.side = "sell"
               /\ SettleTrade(ev.makerUser, ev.takerUser, Base, Quote, ev.price,
                              ev.qty, TradeKey(ev), res)
            \/ /\ ev.type = "cancelled"
               /\ Unlock(ev.user, LockAsset(ev), Reserved(ev, ev.qty),
                         <<"unlock-cancel", ev.id>>, res)
            \/ /\ ev.type = "rejected" /\ IsPlace(c)
               /\ Unlock(c.user, LockAsset(c), LockAmt(c), <<"unlock-reject", h>>, res)
      \/ /\ pc[h] = "improve"
         /\ Unlock(ev.takerUser, Quote, Refund(ev), ImproveKey(ev), res)
      \/ /\ pc[h] = "unfilled"
         /\ Unlock(c.user, LockAsset(c), Unfilled(h), <<"unlock-unfilled", h>>, res)

\* The history keeps the last RecentTradeCap trades recorded.
recordTrade(ev) ==
  LET list == Append(trades, ev)
  IN  trades' = IF Len(list) > RecentTradeCap
                THEN SubSeq(list, Len(list) - RecentTradeCap + 1, Len(list)) ELSE list

\* Mutant of NextEvent: every event joins the history.
NextEventRecords(h) ==
  /\ todo' = [todo EXCEPT ![h] = Tail(@)]
  /\ recordTrade(Head(todo[h]))
  /\ Goto(h, "settle")

\* The event is settled: a trade joins the history, the loop goes on.
NextEvent(h) ==
  /\ todo' = [todo EXCEPT ![h] = Tail(@)]
  /\ IF Head(todo[h]).type = "trade" THEN recordTrade(Head(todo[h])) ELSE UNCHANGED trades
  /\ Goto(h, "settle")

\* What follows a posting that succeeded.
Proceed(h) ==
  \/ pc[h] = "lock" /\ Goto(h, "submit") /\ UNCHANGED <<todo, trades>>
  \/ pc[h] \in {"release", "unfilled"} /\ Goto(h, "done") /\ UNCHANGED <<todo, trades>>
  \/ /\ pc[h] = "settle"
     /\ IF Head(todo[h]).type = "trade" /\ Improved(Head(todo[h]))
        THEN Goto(h, "improve") /\ UNCHANGED <<todo, trades>>
        ELSE NextEvent(h)
  \/ pc[h] = "improve" /\ NextEvent(h)

LedgerCall(h) ==
  /\ \E res \in Results :
       /\ Posting(h, res)
       /\ IF res = "ok" THEN Proceed(h)
          ELSE Goto(h, IF pc[h] = "lock" THEN "done" ELSE "failed")
               /\ UNCHANGED <<todo, trades>>
  /\ UNCHANGED <<engineVars, queue, cmd, controlVars>>

\* Mutant of NoPosting: a rejected order is passed over like a rejected cancel.
NoPostingRejected(h) ==
  pc[h] = "settle" /\ todo[h] # <<>> /\ Head(todo[h]).type \in {"accepted", "rejected"}

\* Events without a posting: accepted, and the rejection of a cancel.
NoPosting(h) ==
  /\ pc[h] = "settle" /\ todo[h] # <<>>
  /\ \/ Head(todo[h]).type = "accepted"
     \/ Head(todo[h]).type = "rejected" /\ ~IsPlace(cmd[h])

\* The call reports an error: it was rolled back, or its answer got lost.
LedgerFails(h) ==
  /\ "ledger" \in Faults
  /\ \/ pc[h] \in {"lock", "release", "improve", "unfilled"}
     \/ pc[h] = "settle" /\ todo[h] # <<>> /\ ~NoPosting(h)
  /\ UNCHANGED ledgerVars \/ Posting(h, "ok")
  /\ Goto(h, "failed")
  /\ UNCHANGED <<engineVars, queue, cmd, todo, trades, controlVars>>

SkipEvent(h) ==
  /\ NoPosting(h)
  /\ NextEvent(h)
  /\ UNCHANGED <<ledgerVars, engineVars, queue, cmd, controlVars>>

\* Mutant of Settled: what a market order has not traded stays locked.
SettledKeeps(h) ==
  /\ pc[h] = "settle" /\ todo[h] = <<>>
  /\ Goto(h, "done")
  /\ UNCHANGED <<ledgerVars, engineVars, queue, cmd, todo, trades, controlVars>>

\* Mutant of Settled: a market order that traded in full releases nothing, by
\* a posting of 0.
SettledAlways(h) ==
  /\ pc[h] = "settle" /\ todo[h] = <<>>
  /\ Goto(h, IF cmd[h].type = "market" /\ reply[h][1].type = "accepted"
             THEN "unfilled" ELSE "done")
  /\ UNCHANGED <<ledgerVars, engineVars, queue, cmd, todo, trades, controlVars>>

\* All events are settled.  A market order never rests, so what it has not
\* traded is released.
Settled(h) ==
  /\ pc[h] = "settle" /\ todo[h] = <<>>
  /\ Goto(h, IF /\ cmd[h].type = "market" /\ reply[h][1].type = "accepted"
                /\ Unfilled(h) > 0
             THEN "unfilled" ELSE "done")
  /\ UNCHANGED <<ledgerVars, engineVars, queue, cmd, todo, trades, controlVars>>

-----------------------------------------------------------------------------

Event(type, s) == [type |-> type, seq |-> s, index |-> 0]

\* apply: what command c of handler h, at sequence s, does to book b.
NewOrder(c, s) ==
  [user |-> c.user, symbol |-> c.symbol, side |-> c.side, price |-> c.price,
   qty |-> c.qty, remaining |-> c.qty, seq |-> s]

\* A cancel may only touch the order of the user it names.
MayCancel(b, c) == c.id \in DOMAIN b /\ b[c.id].user = c.user

\* apply: a symbol without a book, or a cancel that may not be carried out.
Rejects(b, c) == ~Known(c) \/ (~IsPlace(c) /\ ~MayCancel(b, c))

BookAfter(b, c, s) ==
  IF Rejects(b, c) THEN b
  ELSE IF IsPlace(c) THEN Placed(b, c.id, NewOrder(c, s), c.type = "limit")
  ELSE Without(b, c.id)

\* apply: the events of a placed order, its acceptance before its trades.
PlaceEvents(b, c, s) ==
  LET fills == Trades(b, NewOrder(c, s))
  IN  <<Event("accepted", s)>> \o
      [i \in 1 .. Len(fills) |->
         [type |-> "trade", seq |-> s, index |-> i, side |-> c.side,
          price |-> fills[i].price, qty |-> fills[i].qty,
          maker |-> fills[i].maker, makerUser |-> b[fills[i].maker].user,
          taker |-> c.id, takerUser |-> c.user]]

\* apply: the event of a cancel reports what is left of the order.
CancelledEvent(b, c, s, left) ==
  [type |-> "cancelled", seq |-> s, index |-> 0, id |-> c.id, user |-> c.user,
   symbol |-> c.symbol, side |-> b[c.id].side, price |-> b[c.id].price, qty |-> left]

\* Mutant of EventsOf: a cancel reports the quantity the order was placed for.
EventsOfWhole(b, c, s) ==
  IF Rejects(b, c) THEN <<Event("rejected", s)>>
  ELSE IF IsPlace(c) THEN PlaceEvents(b, c, s)
  ELSE <<CancelledEvent(b, c, s, b[c.id].qty)>>

\* Mutant of EventsOf: a cancel reports what the order has traded.
EventsOfFilled(b, c, s) ==
  IF Rejects(b, c) THEN <<Event("rejected", s)>>
  ELSE IF IsPlace(c) THEN PlaceEvents(b, c, s)
  ELSE <<CancelledEvent(b, c, s, b[c.id].qty - b[c.id].remaining)>>

EventsOf(b, c, s) ==
  IF Rejects(b, c) THEN <<Event("rejected", s)>>
  ELSE IF IsPlace(c) THEN PlaceEvents(b, c, s)
  ELSE <<CancelledEvent(b, c, s, b[c.id].remaining)>>

\* New: the book recovered from the journal, numbering records by position.
Replay(j) ==
  FoldLeft(LAMBDA b, i : BookAfter(b, cmd[j[i]], i), <<>>, [i \in DOMAIN j |-> i])

\* Run takes the next command off the channel; h has its answer.
Answer(h, evs) ==
  /\ queue # <<>> /\ h = Head(queue)
  /\ queue' = Tail(queue)
  /\ reply' = [reply EXCEPT ![h] = evs]
  /\ UNCHANGED <<ledgerVars, pc, cmd, todo, trades, controlVars>>

\* A new order for a symbol that is halted; cancels are always let through.
Halted(h) == halted /\ IsPlace(cmd[h]) /\ Known(cmd[h])

\* The round of Run that journals the command, then applies it.
Apply(h) ==
  /\ Answer(h, EventsOf(book, cmd[h], seq + 1))
  /\ ~Halted(h)
  /\ journal' = Append(journal, h)
  /\ seq' = seq + 1
  /\ book' = BookAfter(book, cmd[h], seq + 1)
  /\ emitted' = emitted \cup Range(EventsOf(book, cmd[h], seq + 1))

\* The round that refuses a new order because the symbol is halted.
RefuseHalted(h) ==
  /\ Answer(h, <<Event("rejected", 0)>>)
  /\ Halted(h)
  /\ UNCHANGED <<book, seq, journal, emitted>>

\* Mutant of AppendFails: the error is not sent back.
AppendFailsSilent(h) ==
  /\ queue # <<>> /\ h = Head(queue) /\ ~Halted(h)
  /\ queue' = Tail(queue)
  /\ \/ "journal" \in Faults /\ UNCHANGED journal
     \/ "sync" \in Faults /\ journal' = Append(journal, h)
  /\ UNCHANGED <<ledgerVars, pc, cmd, todo, trades, controlVars, book, seq, emitted, reply>>

\* The round whose append fails, before or after it wrote the record.
AppendFails(h) ==
  /\ Answer(h, <<Event("error", 0)>>)
  /\ ~Halted(h)
  /\ \/ "journal" \in Faults /\ UNCHANGED journal
     \/ "sync" \in Faults /\ journal' = Append(journal, h)
  /\ UNCHANGED <<book, seq, emitted>>

Halt ==
  /\ ~halted /\ halts < MaxHalts
  /\ halted' = TRUE /\ halts' = halts + 1
  /\ UNCHANGED <<ledgerVars, engineVars, queue, pc, cmd, todo, trades, crashes>>

Resume ==
  /\ halted /\ halted' = FALSE
  /\ UNCHANGED <<ledgerVars, engineVars, queue, pc, cmd, todo, trades, halts, crashes>>

Running(h) == pc[h] \notin {"idle", "done", "failed", "cancelled", "dead"}

\* The process dies and is restarted: the book comes back from the journal,
\* the balances from the database; requests, history and halts are gone.
Crash ==
  /\ "crash" \in Faults /\ crashes < MaxCrashes
  /\ crashes' = crashes + 1
  /\ book' = Replay(journal) /\ seq' = Len(journal)
  /\ queue' = <<>> /\ trades' = <<>> /\ halted' = FALSE
  /\ reply' = [h \in Handlers |-> <<>>]
  /\ todo' = [h \in Handlers |-> <<>>]
  /\ pc' = [h \in Handlers |-> IF Running(h) THEN "dead" ELSE pc[h]]
  /\ UNCHANGED <<ledgerVars, journal, emitted, cmd, halts>>

Step(h) ==
  \/ Enqueue(h) \/ Receive(h) \/ LedgerCall(h) \/ SkipEvent(h) \/ Settled(h)
  \/ Apply(h) \/ RefuseHalted(h)

TradingNext ==
  \/ \E h \in Handlers :
       \/ \E u \in Users, symbol \in Symbols, type \in {"limit", "market"},
             side \in Sides, price \in Prices, qty \in Qtys :
               PlaceOrder(h, u, symbol, type, side, price, qty)
       \/ \E u \in Users, symbol \in Symbols, id \in Handlers : CancelOrder(h, u, symbol, id)
       \/ Step(h)
       \/ CtxCancelled(h)
       \/ LedgerFails(h)
       \/ AppendFails(h)
  \/ Halt
  \/ Resume
  \/ Crash

\* Handlers and the engine goroutine are scheduled.
TradingFairness == \A h \in Handlers : WF_vars(Step(h))

TradingSpec == TradingInit /\ [][TradingNext]_vars /\ TradingFairness

-----------------------------------------------------------------------------

\* The coordinator's state is well formed: the recent trades of recordTrade
\* hold trades only.
TradingTypeOK ==
  /\ balance \in [Accounts -> Int]
  /\ DOMAIN book \subseteq Handlers
  /\ seq \in 0 .. Cardinality(Handlers)
  /\ journal \in Seq(Handlers) /\ queue \in Seq(Handlers)
  /\ pc \in [Handlers -> {"idle", "lock", "submit", "wait", "release", "settle",
                          "improve", "unfilled", "done", "failed", "cancelled", "dead"}]
  /\ \A h \in Handlers : cmd[h].type \in {"none", "limit", "market", "cancel"}
  /\ \A i \in DOMAIN trades : trades[i].type = "trade"
  /\ halted \in BOOLEAN /\ halts \in 0 .. MaxHalts /\ crashes \in 0 .. MaxCrashes

Posted(key) == key \in DOMAIN posted

\* What user u still has reserved of an asset on the book.
OnBook(u, asset) ==
  MapThenSumSet(LAMBDA id : Reserved(book[id], book[id].remaining),
    {id \in DOMAIN book : book[id].user = u /\ LockAsset(book[id]) = asset})

\* What user u owes of an asset for fills that are not settled.
Owed(u, asset) ==
  LET buyer(ev) == IF ev.side = "buy" THEN ev.takerUser ELSE ev.makerUser
      seller(ev) == IF ev.side = "buy" THEN ev.makerUser ELSE ev.takerUser
      debit(ev) == IF asset = Quote
                   THEN IF buyer(ev) = u THEN ev.price * ev.qty ELSE 0
                   ELSE IF seller(ev) = u THEN ev.qty ELSE 0
  IN  MapThenSumSet(debit, {ev \in emitted : ev.type = "trade" /\ ~Posted(TradeKey(ev))})

\* The lock of order h that neither the book nor a fill needs any more, and
\* that is not released yet.
Releasable(h) ==
  LET c == cmd[h]
      improvements == {ev \in TradesOf(h) : Improved(ev) /\ ~Posted(ImproveKey(ev))}
      cancels == {ev \in emitted : ev.type = "cancelled" /\ ev.id = h}
  IN  IF ~Posted(<<"lock", h>>) THEN 0
      ELSE IF h \notin Range(journal) \/ ~Known(c)
           THEN IF Posted(<<"unlock-fail", h>>) \/ Posted(<<"unlock-reject", h>>)
                THEN 0 ELSE LockAmt(c)
      ELSE MapThenSumSet(Refund, improvements)
           + (IF c.type = "market" /\ ~Posted(<<"unlock-unfilled", h>>)
              THEN Unfilled(h) ELSE 0)
           + (IF Posted(<<"unlock-cancel", h>>) THEN 0
              ELSE MapThenSumSet(LAMBDA ev : Reserved(ev, ev.qty), cancels))

\* Locked funds are fully accounted for, at every interleaving of handlers
\* and engine: a user's locked balance is what the book reserves, plus what
\* unsettled fills take, plus what is still to be released.
LockedAccounting ==
  \A u \in Users, asset \in Assets :
    balance[UserAccount(u, asset, "locked")] =
      OnBook(u, asset) + Owed(u, asset)
      + MapThenSumSet(Releasable,
          {h \in Handlers : IsPlace(cmd[h]) /\ cmd[h].user = u /\ LockAsset(cmd[h]) = asset})

\* "The engine never matches unfunded orders": the locked funds of a user
\* cover their resting orders and every fill still to be settled.
BookIsFunded ==
  \A u \in Users, asset \in Assets :
    balance[UserAccount(u, asset, "locked")] >= OnBook(u, asset) + Owed(u, asset)

\* Without faults no posting of settle is ever refused: a handler that has
\* its answer can always carry out what the answer asks for.
SettlesInFull == \A h \in Handlers : pc[h] # "failed"

Quiet == \A h \in Handlers : ~Running(h)

\* "Fills: each trade event settles via the ledger": when no request is being
\* served, every trade the engine made is posted.
EveryFillSettled ==
  Quiet => \A ev \in emitted : ev.type = "trade" => Posted(TradeKey(ev))

\* When no request is being served, nothing but the resting orders is locked.
NothingStaysLocked ==
  Quiet => \A u \in Users, asset \in Assets :
             balance[UserAccount(u, asset, "locked")] = OnBook(u, asset)

\* "Engine unavailable: the journal never saw the command": a command whose
\* Submit returned an error is not in the journal.
ErrorMeansNotJournaled ==
  \A h \in Handlers :
    pc[h] \in {"cancelled", "release"} => h \notin Range(journal)

\* Every request is answered.
RequestsFinish == \A h \in Handlers : Running(h) ~> ~Running(h)

=============================================================================
