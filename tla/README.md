# Bittech in TLA+

A formal model of the Bittech exchange: the order book, the event-sourced
matching engine with its journal and market-data feed, the double-entry ledger,
the trading coordinator that ties them together, and the wallet. TLC checks the
models on small instances; TLAPS proves the central invariants of the book and
of the ledger for every instance. `PROJECT.json` maps each definition to the
lines it models and lists runs, mutants, hazards, findings and theorems.

Run a model with `tlc -config MCX.cfg MCX`, check a proof with `tlapm XProofs.tla`.

## The system

| Part | State | Operations | What is hard about it |
|---|---|---|---|
| Order book (`orderbook.go`) | FIFO queue per price, sorted price index, live map, sequence | PlaceLimit, PlaceMarket, Cancel | the matching loop edits levels, queues and map while it walks them |
| Engine (`engine.go`) | books, attribution of resting orders, halts, command channel | Run, Submit, Halt, Resume, replay at start | write-ahead order, one goroutine serves all, control-plane races |
| Journal (`journal.go`) | file, next number | Append, Replay, open | torn writes, failed fsync, numbers versus positions |
| Hub and feed (`hub.go`, `handleWS`) | one buffered channel per subscriber | Publish, Subscribe, cancel | never block, never skip, never close twice |
| Ledger (`ledger.go`) | accounts, transactions, entries | Deposit, Lock, Unlock, SettleWithdrawal, SettleTrade, all through Post | concurrent SQL transactions, row-lock order, idempotency keys, lost answers |
| Trading (`trading.go`) | recent trades; everything else is in flight | PlaceOrder, CancelOrder, settle | lock, match and settle are separate steps of concurrent handlers |
| Wallet (`wallet.go`) | addresses, deposits, allowlist, withdrawals | DepositAddress, HandleDeposit, RequestWithdrawal, Approve, Reject | a sequence of auto-committed statements and calls, each of which can be the last |
| Custody (`custody.go`) | broadcasts by key | NewAddress, Withdraw | retried calls |
| Accounts (`account.go`, `auth/`) | users, sessions, TOTP secrets, API keys | Signup, Login, SetupTOTP, ConfirmTOTP, API keys | enrolment races, expiry |
| Rate limiter, money, middleware (`libs/`) | token buckets | Allow; arithmetic | clocks, overflow |

An HTTP handler of the trading API locks funds in the ledger, sends a command to
the engine's goroutine through a channel, and settles the events of the answer in
the ledger. The engine appends each command to its journal before it applies it
and publishes the events to the hub. The wallet moves money between the ledger
and custody, and shares users' locked balances with trading.

What makes the parts correct:

* book: levels, queues, index and map agree; strict price-time priority; the
  book is never crossed; a call ends;
* engine: an answered command is durable; the books are a replay of the journal;
  attribution is exact; event keys never repeat; a halt takes effect;
* feed: no gaps, cut off when lagging, and no effect on the engine;
* ledger: no overdraft, conservation, cached balances equal to the entries,
  at most one posting per key, every call returns;
* trading: locked funds equal what orders, unsettled fills and pending releases
  need; fills settle; requests are answered;
* wallet: custody covers what users own; a deposit is credited once, a withdrawal
  broadcast once; the statuses are true; a withdrawal has one outcome.

## Modules

| Module | Models | Notes |
|---|---|---|
| `OrderBook` | one book, one fill per step | calls run to their end before the next: a single goroutine owns the book |
| `Matching` | the whole outcome of a match, declaratively | takers consume makers in priority order; used by `AtomicBook`, `Engine`, `Trading` |
| `AtomicBook` | what a book promises | a call is accepted, with its whole outcome, in one step; a second one returns |
| `Ledger` | what the ledger promises | one step per posting |
| `LedgerPost` | the SQL transactions of `Post` | key insertion, one row update per entry, commit, rollback; sessions wait for row locks and unique keys |
| `Journal`, `Hub` | the engine's log and its sink | no specification of their own; composed in `Engine` |
| `Engine` | loop, channel, halts, recovery | `EXTENDS Matching, Journal, Hub` |
| `Trading` | handlers over ledger and engine | `EXTENDS Ledger, Matching`; one round of the loop is one step |
| `Wallet` | wallet and custody over the ledger | `EXTENDS Ledger`; one step per statement or call |
| `OrderBookProofs`, `LedgerProofs`, `LeastNumber` | proofs | |
| `MC*` | instances for TLC | |

**OrderBook.** `levels`, `prices`, `live` and `seq` are the fields of the book;
`pc` and `taker` are the call in progress. `match` is one round of the inner loop
(remove a consumed maker, close its level), `rest` what follows the loop. The
sorted price slice is the set of its elements.

**LedgerPost.** `row` is the latest version of each balance, uncommitted ones
included; `balance` and `posted` are what is committed, the variables of `Ledger`.
`Held`, `WaitsForKey` and `WaitsForRow` stand for Postgres at READ COMMITTED: an
UPDATE waits for the holder of its row, an INSERT for an open transaction with its
key. `DeadlockAbort` is Postgres's deadlock detector. `Commit(s, "error")` is a
commit whose answer is lost.

**Engine.** `stage` says where the loop is between taking a command and answering
it; `Halt`, `Resume`, `Submit`, subscribers and `Crash` come in between. A line of
the journal is the command it decodes to or `Corrupt`; a broken write leaves an
unterminated line that the next write continues. A subscriber is one connection.

**Trading.** `pc[h]` is the statement a handler is about to run. The faults of a
run are the members of `Faults`. `Symbols` are the pairs a client may name: the
handler checks none of them before it locks funds, and the engine rejects a
command whose symbol has no book (`Rejects`) after journaling it.

**Wallet.** `pc[p]` is the next statement. `Fails` ends a call after any
statement; `LockBreaks` is a Lock that reports an error, with or without effect.
`lockRequested` reads the row and keeps no lock: the statement runs outside a
transaction. The handlers of `wallethttp` start the calls; `Confirm` is the chain,
which counts the confirmations of each transaction. `withdrawn` holds the keys
custody has seen, `sent` counts broadcasts. `Restart` ends every call at once. With
`Remembers` the provider keeps its keys over a restart, as the `Provider` interface
promises; without, it is the in-memory mock the exchange is wired to.

## Runs

| Run | Question | Distinct states |
|---|---|---|
| `book_safety` | is the book's inductive invariant `BookInv` kept in the middle of a match, is priority strict, do calls end, does the loop implement the declarative allocation | 66 thousand |
| `ledger_safety` | what do concurrent postings with retries, aborts and deadlocks preserve (`PostInv`, sums), do they return, do the SQL statements implement atomic postings | 70 thousand |
| `trading_safety` | three requests without faults: is every locked unit accounted for, does everything settle | 0.9 million |
| `trading_faults` | two requests with cancelled contexts, failed postings and appends, a crash, an unknown symbol: is the book funded | 0.5 million |
| `trading_live` | is every request answered, and every lock that is not needed released, with halts, unknown symbols and a failed fsync | 110 thousand |
| `engine` | journal, recovery, keys, halts, feed | 1.7 million |
| `wallet` | solvency, honest statuses, credits that are postings, one address per user | 1.1 million |
| `trading_ctx`, `trading_crash`, `wallet_race`, `wallet_restart`, `wallet_deposit` | violations, see Findings | |

Each property of a passing run has a mutant: a definition next to the one it
changes, called "Mutant of ...", under which TLC finds the property violated.

**Bounds.** Three ids and four acceptances are the least with which an order is
partly filled, cancelled from the middle of a queue and its id used again; two
prices make a better and a worse level, and price 0 and quantity 0 the refused
inputs. Two sessions suffice for the opposite lock orders of Lock and Unlock; the
deposit of 3 leaves funds on both accounts of the user, without which the two would
not deadlock. Three handlers are a maker, a taker and a cancel that compete. One crash
and one failed append are enough for numbers and positions to differ before and
after a restart; a channel of one batch makes lagging possible. Five wallet calls
are a request, an approval that fails, a second approval, a rejection, and one to
spare; `Required` is 1, so a webhook is either early or final, and the
transaction has outputs of 0, 1 and 2, whose webhooks disagree about one row. Users, handlers and goroutines are
symmetric in runs that check invariants only; runs with temporal properties use no
symmetry.

**Fairness.** The book's `match` and `rest`: the engine's goroutine runs a call to
its end. Posting: Postgres executes a statement that is not blocked and looks for
deadlocks; no cancelled context is taken for granted. Trading: handlers and engine
are scheduled. No fault is fair.

`CHECK_DEADLOCK FALSE` is set where the bounds on calls, or requests that have all
been answered, end every behaviour.

## Findings

* `trading_ctx`: `Submit` returns as soon as the context ends, also when the
  command is in the channel. The comment at `trading.go:110` says the journal never
  saw it; the engine then journals and applies it.
* `trading_crash`: settlement happens after the command is durable and applied, and
  recovery does not settle. A crash in between leaves a trade on the recovered book
  that the ledger never learns of, against `trading.go:9`.
* `wallet_race`: `lockRequested` (`wallet.go:300`) runs `SELECT ... FOR UPDATE`
  outside a transaction, so that an approval and a rejection of one withdrawal both
  proceed. If the user has other locked funds, both postings succeed.
* `wallet_restart`: an approval broadcasts before it updates the row. The mock
  provider keeps its keys in memory, so that after a restart in between the next
  approval broadcasts again; `custody.go:25` says the same key "must never broadcast
  twice". A provider that remembers its keys does not: a second
  broadcast would break `Solvency` in `wallet`.
* `wallet_deposit`: a deposit's posting is keyed by transaction hash
  (`wallet.go:124`), its row by hash and asset. Of a transaction that pays in two
  assets one is posted and both rows end as credited, which `0004_wallets.sql:29`
  defines as "confirmed and posted to the ledger".

## Proofs

**The book** (`OrderBookProofs`). `BookInv` is inductive: types; index, queues and
map agree (`BookConsistent`); queues are in sequence order (`TimePriority`);
resting orders have something left (`RestingQuantities`); no bid at or above an
ask rests (`Uncrossed`); and, in a call, the taker is a well-formed order that is not live
(`MatchState`). `Uncrossed` needs the rest: an order rests only when the best
opposite price does not cross it, and that the best price is the best of all live
orders is `BookConsistent`. Three lemmas carry the argument, on taking an order
out (`RemoveOrder`), putting one at the back of a level (`RestOrder`) and reducing
one (`ReduceOrder`); each action is one of them or leaves the book alone.
`FillsFollowPriority` adds that the front of the best level has priority over
every live order of its side. That a best price exists comes from the
least-number principle (`LeastNumber`), since prices are bounded by `MaxPrice`.
Assumption: `InputAssumption` (ids, integer quantities, bounded integer prices).

**The ledger** (`LedgerProofs`). `PostInv` is inductive for any number of
sessions, accounts and calls. `NoOverdraft` speaks about committed and uncommitted
balances at once; it needs `RowIsolation` (a row that no open transaction holds is
committed, and no two hold the same) for rollback, and `KeyOwnership` (an open
transaction's key is its own) for `AckedIsPosted`.

`PostIsAtomic` proves that the statements implement `Ledger` (`ImplementsLedger`):
`balance` and `posted` are the same variables in both, only `Commit` changes them,
and a commit is one `Post` of the atomic ledger. For that step `PostInv` gives the
key that is not posted yet, the rows that are the committed balances plus the
entries, and the guard that every one of them passed; `OpenIsPositive`, a second
invariant, gives the positive amount that `Start` checked. Assumptions:
`CallAssumption` (well-formed entries, no account twice in a call) and
`PostingAssumption` (a call is one of the five kinds the service makes).

Not provable with the installed provers, hence only model-checked: liveness
(`MatchTerminates`, `PostReturns`, `RequestsFinish`), `SinkNeverBlocks` (ENABLED),
and what the folds of `Matching` and the sums of `Conservation` and
`BalancesMatchEntries` compute for every input, `ImplementsAtomicBook` with them. The
invariants of `Engine`, `Trading` and `Wallet` are model-checked; some are planned as
proofs.

## Not modelled

Cryptography, password hashing and ciphers; JSON, HTTP routing and metrics;
read-only views (balances, open orders, listings, depth); the development engine
binary; the web client; deployment files. Amounts are unbounded integers: 64-bit
wrap-around is not in the models yet. `MemJournal` and `memstore` are test doubles.
A transaction that pays in two assets, and a provider that forgets its keys, are
outside the `wallet` run and in runs of their own. The overflow and malformed-symbol
checks of `SettleTrade` are left out: its callers have made them. A failed fsync
followed by a crash is outside `trading_faults`; there the record the caller was
told had failed comes back, and `BookIsFunded` would fail.

## Plan

1. `BookSide`: the sorted price slice (insertPrice, removePrice) and depth, checked
   against the set-based book and a reference snapshot.
2. `Accounts`: sessions, TOTP enrolment, step-up checks, API keys; composed with
   the wallet's handlers.
3. `Shutdown`: the process's signal handling over engine loop and handlers.
4. `RateLimit` and `Money`: token buckets with skewed clocks; 64-bit arithmetic
   against the integers, with the notional check of `PlaceOrder`.
5. Wallet: reservations (no withdrawal takes another's lock).
6. Proofs: the feed's and the journal's
   invariants for any number of subscribers and records; `StatusHonest`; the trading invariant on one account.
