-------------------------------- MODULE Ledger --------------------------------
(***************************************************************************)
(* The double-entry ledger (ledger.go) as its callers see it: every        *)
(* posting is one atomic step that applies all its entries, or none.       *)
(* Module LedgerPost shows that the SQL transactions implement this.       *)
(*                                                                         *)
(* An account is the bucket (owner, asset, kind) of the accounts table.    *)
(* UserAccount and SystemAccount create the row of a bucket, with balance  *)
(* 0, the first time it is asked for: an absent row is a balance of 0.     *)
(***************************************************************************)
EXTENDS Integers, Sequences

CONSTANTS
  Users,      \* user ids
  System,     \* the owner of system accounts: user_id NULL
  Assets,     \* asset symbols
  Keys,       \* idempotency keys
  Amounts     \* amounts a caller may pass, invalid ones included

ASSUME LedgerAssumption == System \notin Users /\ Amounts \subseteq Int

VARIABLES
  balance,    \* balance[a]: accounts.balance
  posted      \* transactions with their entries: key -> sequence of entries

ledgerVars == <<balance, posted>>

UserAccount(u, asset, kind) == <<u, asset, kind>>

SystemAccount(asset) == <<System, asset, "system">>

UserAccounts == Users \X Assets \X {"main", "locked"}

SystemAccounts == {System} \X Assets \X {"system"}

Accounts == UserAccounts \cup SystemAccounts

Entry(account, amount) == [amount |-> amount, account |-> account]

Entries == [account : Accounts, amount : Int]

\* What a call may return.
Results == {"unbalanced", "insufficient", "ok"}

\* The entries of the postings.  No posting names an account twice.
DepositEntries(u, asset, amount) ==
  <<Entry(SystemAccount(asset), -amount),
    Entry(UserAccount(u, asset, "main"), amount)>>

LockEntries(u, asset, amount) ==
  <<Entry(UserAccount(u, asset, "main"), -amount),
    Entry(UserAccount(u, asset, "locked"), amount)>>

UnlockEntries(u, asset, amount) ==
  <<Entry(UserAccount(u, asset, "locked"), -amount),
    Entry(UserAccount(u, asset, "main"), amount)>>

WithdrawalEntries(u, asset, amount) ==
  <<Entry(UserAccount(u, asset, "locked"), -amount),
    Entry(SystemAccount(asset), amount)>>

\* Quote leg: the buyer pays the seller; base leg: the seller delivers.
TradeEntries(buyer, seller, base, quote, price, qty) ==
  <<Entry(UserAccount(buyer, quote, "locked"), -(price * qty)),
    Entry(UserAccount(seller, quote, "main"), price * qty),
    Entry(UserAccount(seller, base, "locked"), -qty),
    Entry(UserAccount(buyer, base, "main"), qty)>>

\* What the entries es add to account a.
Delta(es, a) ==
  IF \E i \in DOMAIN es : es[i].account = a
  THEN es[CHOOSE i \in DOMAIN es : es[i].account = a].amount
  ELSE 0

\* Mutant of Guard: any account may go below zero.
Unguarded(a, value) == TRUE

\* The guard of the UPDATE: only a system account may go below zero.
Guard(a, value) == a \in SystemAccounts \/ value >= 0

Covered(es) ==
  \A i \in DOMAIN es : Guard(es[i].account, balance[es[i].account] + es[i].amount)

-----------------------------------------------------------------------------

\* Nobody owns anything; every bucket is empty.
Init ==
  /\ balance = [a \in Accounts |-> 0]
  /\ posted = <<>>

\* The transactions and entries tables after one more posting.
Recorded(key, es) ==
  [k \in DOMAIN posted \cup {key} |-> IF k = key THEN es ELSE posted[k]]

\* Post a balanced transaction, with result res.  A key that was posted
\* before makes the call a no-op that reports success.
Post(key, es, res) ==
  \/ key \in DOMAIN posted /\ res = "ok" /\ UNCHANGED ledgerVars
  \/ /\ res = "ok" /\ key \notin DOMAIN posted
     /\ posted' = Recorded(key, es)
     /\ Covered(es)
     /\ balance' = [a \in Accounts |-> balance[a] + Delta(es, a)]
  \/ /\ res = "insufficient" /\ key \notin DOMAIN posted /\ ~Covered(es)
     /\ UNCHANGED ledgerVars

\* The four calls that take an amount refuse one that is not positive.
PostAmount(key, es, amount, res) ==
  \/ amount <= 0 /\ res = "unbalanced" /\ UNCHANGED ledgerVars
  \/ amount > 0 /\ Post(key, es, res)

Deposit(u, asset, amount, key, res) ==
  PostAmount(key, DepositEntries(u, asset, amount), amount, res)

Lock(u, asset, amount, key, res) ==
  PostAmount(key, LockEntries(u, asset, amount), amount, res)

Unlock(u, asset, amount, key, res) ==
  PostAmount(key, UnlockEntries(u, asset, amount), amount, res)

SettleWithdrawal(u, asset, amount, key, res) ==
  PostAmount(key, WithdrawalEntries(u, asset, amount), amount, res)

\* The event of an engine trade: price and quantity are positive.
SettleTrade(buyer, seller, base, quote, price, qty, key, res) ==
  Post(key, TradeEntries(buyer, seller, base, quote, price, qty), res)

Next ==
  \E res \in Results, key \in Keys :
    \/ \E u \in Users, asset \in Assets, amount \in Amounts :
         \/ Deposit(u, asset, amount, key, res)
         \/ Lock(u, asset, amount, key, res)
         \/ Unlock(u, asset, amount, key, res)
         \/ SettleWithdrawal(u, asset, amount, key, res)
    \/ \E buyer, seller \in Users, base, quote \in Assets, price, qty \in Amounts :
         /\ base # quote /\ price > 0 /\ qty > 0
         /\ SettleTrade(buyer, seller, base, quote, price, qty, key, res)

Spec == Init /\ [][Next]_ledgerVars

=============================================================================
