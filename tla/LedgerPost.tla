------------------------------ MODULE LedgerPost ------------------------------
(***************************************************************************)
(* Service.Post (ledger.go) statement by statement: concurrent sessions    *)
(* post to one Postgres database under READ COMMITTED.                     *)
(*                                                                         *)
(* What Postgres does is external and modelled as the code relies on it:   *)
(* an INSERT of a key another open transaction has inserted waits for that *)
(* transaction to end; an UPDATE locks the row, waits for the holder, and  *)
(* evaluates its WHERE on the newest committed version; a cycle of waits   *)
(* is broken by aborting one of its members; ROLLBACK restores the rows.   *)
(***************************************************************************)
EXTENDS Ledger, FiniteSetsExt

CONSTANTS
  Sessions,   \* goroutines that may be inside Post at the same time
  Calls,      \* the postings they may ask for: [key, entries, amount]
  MaxCalls    \* bound of the model: calls made

ASSUME CallAssumption ==
  /\ MaxCalls \in Nat
  /\ \A c \in Calls :
       /\ c.key \in Keys /\ c.entries \in Seq(Entries) /\ c.amount \in Int
       /\ \A i, j \in DOMAIN c.entries :
            c.entries[i].account = c.entries[j].account => i = j

\* Every call of Post comes from Deposit, Lock, Unlock, SettleWithdrawal or
\* SettleTrade.  The first four check the amount they are given.
IsPosting(c) ==
  \/ \E u \in Users, asset \in Assets, amount \in Amounts :
       /\ c.amount = amount
       /\ c.entries \in {DepositEntries(u, asset, amount), LockEntries(u, asset, amount),
                         UnlockEntries(u, asset, amount), WithdrawalEntries(u, asset, amount)}
  \/ \E buyer, seller \in Users, base, quote \in Assets, price, qty \in Amounts :
       /\ base # quote /\ price > 0 /\ qty > 0 /\ c.amount = qty
       /\ c.entries = TradeEntries(buyer, seller, base, quote, price, qty)

ASSUME PostingAssumption == \A c \in Calls : IsPosting(c)

VARIABLES
  row,        \* row[a]: the newest version of the row, committed or not
  pc,         \* pc[s]: "idle", "begin" (before the INSERT), or "post"
  call,       \* call[s]: the arguments of the last call of s
  n,          \* n[s]: entries of call[s] applied by the open transaction
  result,     \* result[s]: what the last call of s returned
  calls       \* calls made so far

vars == <<balance, posted, row, pc, call, n, result, calls>>

NextEntry(s) == call[s].entries[n[s] + 1]

\* The rows locked by the open transaction of s.
Held(s) ==
  IF pc[s] = "post" THEN {call[s].entries[i].account : i \in 1 .. n[s]} ELSE {}

\* Mutant of WaitsForKey and WaitsForRow: nobody is ever blocked.
NeverWaits(s, t) == FALSE

\* Mutant of Deadlocked: deadlocks are not detected.
Undetected(s) == FALSE

\* s is blocked by t: on the unique index, or on a row.
WaitsForKey(s, t) ==
  s # t /\ pc[s] = "begin" /\ pc[t] = "post" /\ call[t].key = call[s].key

WaitsForRow(s, t) ==
  /\ s # t /\ pc[s] = "post" /\ n[s] < Len(call[s].entries)
  /\ NextEntry(s).account \in Held(t)

\* s is on a cycle of row waits (nobody waits for a row while it holds none).
Deadlocked(s) ==
  \E C \in SUBSET Sessions :
    /\ s \in C
    /\ \A x \in C : /\ \E y \in C : WaitsForRow(x, y)
                    /\ \E y \in C : WaitsForRow(y, x)

\* Double entry: the amounts of each asset sum to zero.
Balanced(es) ==
  \A asset \in Assets :
    MapThenSumSet(LAMBDA i : es[i].amount,
                  {i \in DOMAIN es : es[i].account[2] = asset}) = 0

-----------------------------------------------------------------------------

PostInit ==
  /\ Init
  /\ row = balance
  /\ pc = [s \in Sessions |-> "idle"]
  /\ \E c \in Calls : call = [s \in Sessions |-> c]
  /\ n = [s \in Sessions |-> 0]
  /\ result = [s \in Sessions |-> "none"]
  /\ calls = 0

\* The call of s is over; its transaction, if it is open, is rolled back.
Return(s, res) ==
  /\ pc' = [pc EXCEPT ![s] = "idle"]
  /\ n' = [n EXCEPT ![s] = 0]
  /\ result' = [result EXCEPT ![s] = res]
  /\ row' = [a \in Accounts |-> IF a \in Held(s) THEN balance[a] ELSE row[a]]
  /\ UNCHANGED <<balance, posted, call, calls>>

\* Mutant of Start: an amount that is not positive is let through.
StartUnchecked(s, c) ==
  /\ pc[s] = "idle" /\ calls < MaxCalls
  /\ calls' = calls + 1
  /\ call' = [call EXCEPT ![s] = c]
  /\ pc' = [pc EXCEPT ![s] = "begin"]
  /\ result' = [result EXCEPT ![s] = "none"]
  /\ UNCHANGED <<balance, posted, row, n>>

\* The checks made before the database is touched.
Start(s, c) ==
  /\ pc[s] = "idle" /\ calls < MaxCalls
  /\ calls' = calls + 1
  /\ call' = [call EXCEPT ![s] = c]
  /\ IF c.amount <= 0 \/ ~Balanced(c.entries)
     THEN result' = [result EXCEPT ![s] = "unbalanced"] /\ UNCHANGED pc
     ELSE /\ pc' = [pc EXCEPT ![s] = "begin"]
          /\ result' = [result EXCEPT ![s] = "none"]
  /\ UNCHANGED <<balance, posted, row, n>>

\* Mutant of InsertKey: a key of an open transaction counts as posted.
InsertKeyNoWait(s) ==
  /\ pc[s] = "begin"
  /\ \/ /\ call[s].key \in DOMAIN posted \/ \E t \in Sessions : WaitsForKey(s, t)
        /\ Return(s, "ok")
     \/ /\ call[s].key \notin DOMAIN posted
        /\ \A t \in Sessions : ~WaitsForKey(s, t)
        /\ pc' = [pc EXCEPT ![s] = "post"]
        /\ UNCHANGED <<balance, posted, row, call, n, result, calls>>

\* INSERT INTO transactions ... ON CONFLICT DO NOTHING RETURNING id.
InsertKey(s) ==
  /\ pc[s] = "begin"
  /\ \A t \in Sessions : ~WaitsForKey(s, t)
  /\ \/ call[s].key \in DOMAIN posted /\ Return(s, "ok")
     \/ /\ call[s].key \notin DOMAIN posted
        /\ pc' = [pc EXCEPT ![s] = "post"]
        /\ UNCHANGED <<balance, posted, row, call, n, result, calls>>

\* One round of the loop over the entries: the guarded UPDATE.  No row
\* updated means the account is short.
ApplyEntry(s) ==
  /\ pc[s] = "post" /\ n[s] < Len(call[s].entries)
  /\ \A t \in Sessions : ~WaitsForRow(s, t)
  /\ LET a == NextEntry(s).account
         value == row[a] + NextEntry(s).amount
     IN  \/ ~Guard(a, value) /\ Return(s, "insufficient")
         \/ /\ Guard(a, value)
            /\ row' = [row EXCEPT ![a] = value]
            /\ n' = [n EXCEPT ![s] = @ + 1]
            /\ UNCHANGED <<balance, posted, pc, call, result, calls>>

\* What a COMMIT does besides writing the transaction's rows.
Publish(s, res) ==
  /\ balance' = [a \in Accounts |-> IF a \in Held(s) THEN row[a] ELSE balance[a]]
  /\ pc' = [pc EXCEPT ![s] = "idle"]
  /\ n' = [n EXCEPT ![s] = 0]
  /\ result' = [result EXCEPT ![s] = res]
  /\ UNCHANGED <<row, call, calls>>

\* Mutant of Commit: the transaction ends before all its entries are applied.
CommitEarly(s, res) ==
  /\ pc[s] = "post" /\ n[s] > 0
  /\ posted' = Recorded(call[s].key, call[s].entries)
  /\ Publish(s, res)

\* Mutant of Commit: the first entry is not recorded.
CommitDropsEntry(s, res) ==
  /\ pc[s] = "post" /\ n[s] = Len(call[s].entries)
  /\ posted' = Recorded(call[s].key, Tail(call[s].entries))
  /\ Publish(s, res)

\* COMMIT makes the transaction visible; its answer, res, may be lost.
Commit(s, res) ==
  /\ pc[s] = "post" /\ n[s] = Len(call[s].entries)
  /\ posted' = Recorded(call[s].key, call[s].entries)
  /\ Publish(s, res)

\* The context is cancelled or the connection lost before COMMIT.
Abort(s) == pc[s] # "idle" /\ Return(s, "error")

\* Postgres chooses s as the victim of a deadlock.
DeadlockAbort(s) == Deadlocked(s) /\ Return(s, "deadlock")

PostNext ==
  \E s \in Sessions :
    \/ \E c \in Calls : Start(s, c)
    \/ InsertKey(s)
    \/ ApplyEntry(s)
    \/ Commit(s, "ok")
    \/ Commit(s, "error")
    \/ Abort(s)
    \/ DeadlockAbort(s)

\* Postgres runs every statement that is not blocked and looks for deadlocks;
\* nothing obliges a context to be cancelled or an answer to be lost.
PostFairness ==
  \A s \in Sessions : /\ WF_vars(InsertKey(s)) /\ WF_vars(ApplyEntry(s))
                      /\ WF_vars(Commit(s, "ok")) /\ WF_vars(DeadlockAbort(s))

PostSpec == PostInit /\ [][PostNext]_vars /\ PostFairness

-----------------------------------------------------------------------------

\* Tables and sessions are well formed: a transaction has applied at most its
\* entries, and a call that ended (Return) leaves no count behind.
PostTypeOK ==
  /\ balance \in [Accounts -> Int]
  /\ row \in [Accounts -> Int]
  /\ \A k \in DOMAIN posted : k \in Keys /\ posted[k] \in Seq(Entries)
  /\ pc \in [Sessions -> {"idle", "begin", "post"}]
  /\ call \in [Sessions -> Calls]
  /\ n \in [Sessions -> Nat]
  /\ \A s \in Sessions : IF pc[s] = "post" THEN n[s] <= Len(call[s].entries)
                                          ELSE n[s] = 0
  /\ result \in [Sessions -> Results \cup {"none", "error", "deadlock"}]
  /\ calls \in 0 .. MaxCalls

\* "User accounts can never go negative; an UPDATE guard makes overdrafts
\* impossible even under concurrent settlement": neither a committed balance
\* nor a row version some transaction has written is ever below zero.
NoOverdraft == \A a \in UserAccounts : balance[a] >= 0 /\ row[a] >= 0

\* Uncommitted row versions are private: a row has one writer, and differs
\* from its committed version by exactly what that writer has applied.
RowIsolation ==
  /\ \A s, t \in Sessions : s # t => Held(s) \cap Held(t) = {}
  /\ \A a \in Accounts :
       (\A s \in Sessions : a \notin Held(s)) => row[a] = balance[a]
  /\ \A s \in Sessions : \A i \in 1 .. n[s] :
       LET e == call[s].entries[i] IN row[e.account] = balance[e.account] + e.amount

\* An open transaction owns its key alone, and the key is not posted yet.
KeyOwnership ==
  \A s \in Sessions : pc[s] = "post" =>
    /\ call[s].key \notin DOMAIN posted
    /\ \A t \in Sessions : t # s /\ pc[t] = "post" => call[t].key # call[s].key

\* Success is reported only for a transaction that is committed: the answer
\* "already posted" never refers to one that may still be rolled back.
AckedIsPosted ==
  \A s \in Sessions : result[s] = "ok" => call[s].key \in DOMAIN posted

\* "The sum of ALL account balances per asset is always exactly zero."
Conservation ==
  \A asset \in Assets :
    MapThenSumSet(LAMBDA a : balance[a], {a \in Accounts : a[2] = asset}) = 0

\* What the reconciliation job asserts (CheckInvariants): the cached balance
\* of an account is the sum of its entries over all transactions, each key
\* counted once, however often its posting was retried.
BalancesMatchEntries ==
  \A a \in Accounts :
    balance[a] = MapThenSumSet(LAMBDA k : Delta(posted[k], a), DOMAIN posted)

\* Every call returns: deadlocked postings do not wait for one another for ever.
PostReturns == \A s \in Sessions : pc[s] # "idle" ~> pc[s] = "idle"

\* The statements of Post implement the atomic ledger.
ImplementsLedger == Spec

\* The inductive invariant of Post's transactions: no balance, committed or not, of a
\* user is negative, a row is changed by one open transaction at most and is
\* otherwise as committed, an idempotency key belongs to one open transaction
\* at most, and a call answered without an error has its entries committed.
PostInv ==
  /\ PostTypeOK
  /\ NoOverdraft
  /\ RowIsolation
  /\ KeyOwnership
  /\ AckedIsPosted

=============================================================================
