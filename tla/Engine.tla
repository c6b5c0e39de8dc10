------------------------------- MODULE Engine -------------------------------
(***************************************************************************)
(* The event-sourced matching engine (engine/engine.go) with its journal   *)
(* (module Journal) and, as its sink, the market-data hub (module Hub).    *)
(*                                                                         *)
(* One goroutine takes commands off a channel and, for each, checks the    *)
(* halts, appends to the journal, applies to the books, publishes, and     *)
(* answers; operators, subscribers and crashes come in between.  A book is *)
(* a function from the ids of its resting orders (module Matching).        *)
(*                                                                         *)
(* Order ids are random (newID in exchange/trading.go): the n-th command   *)
(* submitted places order n.                                               *)
(***************************************************************************)
EXTENDS Matching, Journal, Hub, SequencesExt

CONSTANTS
  Symbols,    \* symbols the engine trades
  Requests,   \* what clients ask for: commands without the id of the order
  QueueCap,   \* the buffer of the command channel (1024)
  MaxCmds,    \* bound of the model: commands submitted
  MaxFails,   \* bound of the model: failed appends
  MaxCrashes, \* bound of the model: crashes
  MaxHalts    \* bound of the model: halts

ASSUME EngineAssumption ==
  /\ Symbols \subseteq FeedSymbols
  /\ \A r \in Requests : r.symbol \in FeedSymbols /\ r.user \in Nat
  /\ {QueueCap, MaxCmds, MaxFails, MaxCrashes, MaxHalts} \subseteq Nat

VARIABLES
  eng,        \* books, attribution of resting orders, orders numbered per book
  halted,     \* symbols where new orders are paused
  queue,      \* the command channel
  stage,      \* where the loop is: "select", "append", "apply", "publish", "down"
  cur,        \* the command it works on
  curSeq,     \* that command's sequence number
  out,        \* the events it produced
  ncmds, nfails, ncrashes, nhalts,   \* counters of the bounds
  answered,   \* history: the commands answered with events, and their numbers
  refused,    \* history: lines whose append reported an error to this process
  late        \* history, late[s]: orders accepted since s was last halted

engineVars == <<eng, halted, queue, stage, cur, curSeq, out, ncmds, nfails,
                ncrashes, nhalts, answered, refused, late>>
vars == <<engineVars, journalVars, hubVars>>

NoCmd == [type |-> "none"]

IsPlace(c) == c.type \in {"place_limit", "place_market"}

Event(type, seq, i) == [type |-> type, seq |-> seq, index |-> i]

-----------------------------------------------------------------------------
(* apply, as functions of the engine's state and the command.               *)

Fresh == [books |-> [s \in Symbols |-> <<>>], orders |-> <<>>,
          seqs |-> [s \in Symbols |-> 0]]

\* The order the book makes of a place command.
NewOrder(e, c) ==
  [side |-> c.side, price |-> IF c.type = "place_limit" THEN c.price ELSE 0,
   qty |-> c.qty, remaining |-> c.qty, seq |-> e.seqs[c.symbol] + 1]

\* The book refuses a non-positive price or quantity, and a live id.
Invalid(e, c) ==
  \/ c.qty <= 0
  \/ c.type = "place_limit" /\ c.price <= 0
  \/ c.id \in DOMAIN e.books[c.symbol]

\* A cancel that names a user may only touch that user's order.
NotOwner(e, c) ==
  /\ c.user # 0 /\ c.id \in DOMAIN e.orders
  /\ e.orders[c.id].user # c.user

Rejected(e, c) ==
  \/ c.symbol \notin Symbols
  \/ IF IsPlace(c) THEN Invalid(e, c)
     ELSE NotOwner(e, c) \/ c.id \notin DOMAIN e.books[c.symbol]

\* Mutant of AfterPlace: consumed makers keep their attribution.
AfterPlaceKeeps(e, c) ==
  LET b == Placed(e.books[c.symbol], c.id, NewOrder(e, c), c.type = "place_limit")
      own == [user |-> c.user, side |-> c.side, symbol |-> c.symbol]
  IN  [books |-> [e.books EXCEPT ![c.symbol] = b],
       orders |-> IF c.id \in DOMAIN b THEN (c.id :> own) @@ e.orders ELSE e.orders,
       seqs |-> [e.seqs EXCEPT ![c.symbol] = @ + 1]]

\* A maker that was consumed loses its attribution; the taker gets one if it
\* rests.
AfterPlace(e, c) ==
  LET o == NewOrder(e, c)
      b == Placed(e.books[c.symbol], c.id, o, c.type = "place_limit")
      fills == Trades(e.books[c.symbol], o)
      consumed == {fills[i].maker : i \in DOMAIN fills} \ DOMAIN b
      kept == [id \in DOMAIN e.orders \ consumed |-> e.orders[id]]
      own == [user |-> c.user, side |-> c.side, symbol |-> c.symbol]
  IN  [books |-> [e.books EXCEPT ![c.symbol] = b],
       orders |-> IF c.id \in DOMAIN b THEN (c.id :> own) @@ kept ELSE kept,
       seqs |-> [e.seqs EXCEPT ![c.symbol] = @ + 1]]

AfterCancel(e, c) ==
  [e EXCEPT !.books[c.symbol] = Without(@, c.id), !.orders = Without(@, c.id)]

AfterCommand(e, c) ==
  IF Rejected(e, c) THEN e
  ELSE IF IsPlace(c) THEN AfterPlace(e, c) ELSE AfterCancel(e, c)

UserOf(e, id) == IF id \in DOMAIN e.orders THEN e.orders[id].user ELSE 0

\* The events of a command, numbered from 0.
EventsOf(e, c, seq) ==
  IF Rejected(e, c) THEN <<Event("rejected", seq, 0)>>
  ELSE IF ~IsPlace(c) THEN <<Event("cancelled", seq, 0)>>
  ELSE LET fills == Trades(e.books[c.symbol], NewOrder(e, c))
       IN  <<Event("accepted", seq, 0)>> \o
           [i \in DOMAIN fills |->
              Event("trade", seq, i) @@
              [maker |-> fills[i].maker, makerUser |-> UserOf(e, fills[i].maker)]]

\* New: replay the records of a journal, in order.
Replay(records) == FoldLeft(AfterCommand, Fresh, records)

-----------------------------------------------------------------------------

EngineInit ==
  /\ eng = Fresh /\ halted = {} /\ queue = <<>>
  /\ stage = "select" /\ cur = NoCmd /\ curSeq = 0 /\ out = <<>>
  /\ ncmds = 0 /\ nfails = 0 /\ ncrashes = 0 /\ nhalts = 0
  /\ answered = <<>> /\ refused = {} /\ late = [s \in FeedSymbols |-> 0]

\* Mutant of Submit: the channel has no limit.
SubmitUnbounded(c) ==
  /\ stage # "down" /\ ncmds < MaxCmds
  /\ queue' = Append(queue, c)
  /\ ncmds' = ncmds + 1
  /\ UNCHANGED <<journalVars, hubVars, eng, halted, stage, cur, curSeq, out,
                 nfails, ncrashes, nhalts, answered, refused, late>>

\* Submit: a command goes into the channel.
Submit(c) ==
  /\ stage # "down" /\ ncmds < MaxCmds /\ Len(queue) < QueueCap
  /\ queue' = Append(queue, c)
  /\ ncmds' = ncmds + 1
  /\ UNCHANGED <<journalVars, hubVars, eng, halted, stage, cur, curSeq, out,
                 nfails, ncrashes, nhalts, answered, refused, late>>

\* Mutant of Take: the halts are not looked at.
TakeAny ==
  /\ stage = "select" /\ queue # <<>>
  /\ queue' = Tail(queue)
  /\ stage' = "append" /\ cur' = Head(queue)
  /\ UNCHANGED <<journalVars, hubVars, eng, halted, curSeq, out, ncmds, nfails,
                 ncrashes, nhalts, answered, refused, late>>

\* Run takes a command; a new order of a halted symbol is refused unjournaled.
Take ==
  /\ stage = "select" /\ queue # <<>>
  /\ queue' = Tail(queue)
  /\ IF IsPlace(Head(queue)) /\ Head(queue).symbol \in halted
     THEN UNCHANGED <<stage, cur>>
     ELSE stage' = "append" /\ cur' = Head(queue)
  /\ UNCHANGED <<journalVars, hubVars, eng, halted, curSeq, out, ncmds, nfails,
                 ncrashes, nhalts, answered, refused, late>>

Append_ ==
  /\ stage = "append"
  /\ AppendOk(cur)
  /\ curSeq' = next /\ stage' = "apply"
  /\ UNCHANGED <<hubVars, eng, halted, queue, cur, out, ncmds, nfails, ncrashes,
                 nhalts, answered, refused, late>>

\* Mutant of AppendFails: the command is applied all the same.
AppendFailsApplies ==
  /\ stage = "append" /\ nfails < MaxFails
  /\ AppendErr(cur)
  /\ stage' = "apply" /\ curSeq' = next
  /\ nfails' = nfails + 1
  /\ refused' = IF file' = file THEN refused ELSE refused \cup {Len(file')}
  /\ UNCHANGED <<hubVars, eng, halted, queue, cur, out, ncmds, ncrashes,
                 nhalts, answered, late>>

\* The append reports an error: the submitter gets it, nothing is applied.
AppendFails ==
  /\ stage = "append" /\ nfails < MaxFails
  /\ AppendErr(cur)
  /\ stage' = "select" /\ cur' = NoCmd
  /\ nfails' = nfails + 1
  /\ refused' = IF file' = file THEN refused ELSE refused \cup {Len(file')}
  /\ UNCHANGED <<hubVars, eng, halted, queue, curSeq, out, ncmds, ncrashes,
                 nhalts, answered, late>>

\* apply, under the books' lock.
Apply ==
  /\ stage = "apply"
  /\ eng' = AfterCommand(eng, cur)
  /\ out' = EventsOf(eng, cur, curSeq)
  /\ stage' = "publish"
  /\ late' = IF IsPlace(cur) /\ cur.symbol \in halted
             THEN [late EXCEPT ![cur.symbol] = @ + 1] ELSE late
  /\ UNCHANGED <<journalVars, hubVars, halted, queue, cur, curSeq, ncmds, nfails,
                 ncrashes, nhalts, answered, refused>>

\* The sink gets the events, then the submitter.
Sink ==
  /\ stage = "publish"
  /\ Publish(cur.symbol, out)
  /\ answered' = Append(answered, [cmd |-> cur, seq |-> curSeq])
  /\ stage' = "select" /\ cur' = NoCmd /\ out' = <<>> /\ curSeq' = 0
  /\ UNCHANGED <<journalVars, eng, halted, queue, ncmds, nfails, ncrashes,
                 nhalts, refused, late>>

Halt(s) ==
  /\ stage # "down" /\ nhalts < MaxHalts
  /\ halted' = halted \cup {s} /\ nhalts' = nhalts + 1
  /\ late' = IF s \in halted THEN late ELSE [late EXCEPT ![s] = 0]
  /\ UNCHANGED <<journalVars, hubVars, eng, queue, stage, cur, curSeq, out,
                 ncmds, nfails, ncrashes, answered, refused>>

Resume(s) ==
  /\ stage # "down" /\ s \in halted
  /\ halted' = halted \ {s}
  /\ UNCHANGED <<journalVars, hubVars, eng, queue, stage, cur, curSeq, out,
                 ncmds, nfails, ncrashes, nhalts, answered, refused, late>>

\* The process dies, perhaps in the middle of a write.  What is in memory is
\* gone: books, channel, halts and connections.
Crash ==
  /\ stage # "down" /\ ncrashes < MaxCrashes
  /\ stage' = "down" /\ ncrashes' = ncrashes + 1
  /\ IF stage = "append"
     THEN WriteBreaks(cur) \/ (file' = Written(cur) /\ open' = FALSE)
     ELSE UNCHANGED <<file, open>>
  /\ eng' = Fresh /\ halted' = {} /\ queue' = <<>>
  /\ cur' = NoCmd /\ curSeq' = 0 /\ out' = <<>>
  /\ refused' = {} /\ next' = 1
  /\ feed' = [c \in Subscribers |-> IF feed[c] = "none" THEN "none" ELSE "gone"]
  /\ buf' = [c \in Subscribers |-> <<>>]
  /\ UNCHANGED <<closes, got, joined, sent, ncmds, nfails, nhalts,
                 answered, late>>

\* Mutant of Start: the journal is opened with O_TRUNC.
StartTruncates ==
  /\ stage = "down" /\ Readable
  /\ file' = <<>> /\ open' = FALSE /\ next' = 1
  /\ eng' = Fresh /\ stage' = "select"
  /\ UNCHANGED <<hubVars, halted, queue, cur, curSeq, out, ncmds, nfails,
                 ncrashes, nhalts, answered, refused, late>>

\* The journal is opened and replayed; a corrupt one keeps the engine down.
Start ==
  /\ stage = "down"
  /\ OpenFileJournal
  /\ eng' = Replay(file) /\ stage' = "select"
  /\ UNCHANGED <<hubVars, halted, queue, cur, curSeq, out, ncmds, nfails,
                 ncrashes, nhalts, answered, refused, late>>

\* A place request gets a new id; a cancel names an order placed before.
Commands ==
  LET n == ncmds + 1
  IN  {(IF IsPlace(r) THEN [id |-> n] ELSE [n |-> n, id |-> id]) @@ r :
         r \in Requests, id \in 1 .. n}

\* One round of the loop.
Loop == Take \/ Append_ \/ AppendFails \/ Apply \/ Sink

EngineNext ==
  \/ \E c \in Commands : Submit(c)
  \/ Loop
  \/ \E s \in FeedSymbols : Halt(s) \/ Resume(s)
  \/ Crash
  \/ Start
  \/ stage # "down" /\ HubNext /\ UNCHANGED <<engineVars, journalVars>>

Init == EngineInit /\ JournalInit /\ HubInit

EngineSpec == Init /\ [][EngineNext]_vars

-----------------------------------------------------------------------------

\* The engine's state is well formed: the command channel keeps its limit and
\* only orders that were submitted are attributed.
EngineTypeOK ==
  /\ stage \in {"select", "append", "apply", "publish", "down"}
  /\ halted \subseteq FeedSymbols
  /\ Len(queue) <= QueueCap
  /\ curSeq \in Nat /\ next \in Nat \ {0}
  /\ DOMAIN eng.orders \subseteq 1 .. MaxCmds
  /\ refused \subseteq DOMAIN file
  /\ feed \in [Subscribers -> {"none", "open", "dropped", "gone"}]

\* "orders stays exactly the set of live resting orders": an order is
\* attributed if and only if it rests on a book, on that symbol and side, to
\* the user whose command placed it, after recoveries too.
OrdersExact ==
  /\ DOMAIN eng.orders = UNION {DOMAIN eng.books[s] : s \in Symbols}
  /\ \A id \in DOMAIN eng.orders :
       LET o == eng.orders[id]
       IN  /\ id \in DOMAIN eng.books[o.symbol]
           /\ eng.books[o.symbol][id].side = o.side
           /\ Readable => \E i \in DOMAIN file : /\ IsPlace(file[i]) /\ file[i].id = id
                                                 /\ file[i].user = o.user

\* The records of the journal this process has to have applied.
Applied ==
  LET last == IF stage = "apply" THEN Len(file) - 1 ELSE Len(file)
      kept == SetToSortSeq({i \in 1 .. last : i \notin refused}, <)
  IN  [k \in DOMAIN kept |-> file[kept[k]]]

\* "The journal, not the in-memory book, is the source of truth": between any
\* two steps the books are what a replay of the journal gives, leaving out
\* only records whose append reported an error.
BooksAreReplay == stage # "down" /\ Readable => eng = Replay(Applied)

\* "(Seq, Index) uniquely identifies an event": no two answered commands
\* have the same number, across failed appends and restarts, although a
\* number is not always the command's position in the file.
KeysIncrease ==
  \A i, j \in DOMAIN answered : i < j => answered[i].seq < answered[j].seq

\* Write-ahead: as long as the journal can be replayed, every command that
\* was answered with events is in it, in the order of the answers.
AnsweredIsDurable ==
  Readable => LET cmds == [i \in DOMAIN answered |-> answered[i].cmd]
              IN  SelectSeq(file, LAMBDA c : c \in Range(cmds)) = cmds

\* A halt stops new orders: of all the commands that wait in the channel when
\* a symbol is halted, at most the one the loop has already looked at is
\* still accepted.
HaltStopsOrders == \A s \in halted : late[s] <= 1

\* "It never blocks": whatever the subscribers do or fail to do, the loop can
\* hand its events to the hub and answer.
SinkNeverBlocks == stage = "publish" => ENABLED Sink

=============================================================================
