-------------------------------- MODULE Wallet --------------------------------
(***************************************************************************)
(* Deposits and withdrawals (wallet/wallet.go) over the ledger and a       *)
(* custody provider (custody/custody.go).  Concurrent requests, webhooks   *)
(* and operator decisions run the calls of the service; each SQL statement *)
(* commits on its own, so every statement, posting and call to custody is  *)
(* a step.  A call may end after any of them: an error, a cancelled        *)
(* context or a crash.  Whoever made it may make it again.                 *)
(*                                                                         *)
(* The postings of the trading side appear as orders that lock funds.      *)
(***************************************************************************)
EXTENDS Ledger, FiniteSetsExt

CONSTANTS
  Procs,          \* goroutines serving a call
  Outputs,        \* what transactions pay: [tx, user, asset, amount]
  Destinations,   \* addresses a withdrawal may name
  WithdrawLimit,  \* the cap of one request
  Required,       \* ConfirmationsRequired (3)
  Funds,          \* what each user already has of each asset
  Faulty,         \* whether calls may fail half way
  Remembers,      \* whether the provider's keys outlive the process (Mock's do not)
  MaxCalls,       \* bound of the model: calls
  MaxOrders       \* bound of the model: locks by orders

ASSUME WalletAssumption ==
  /\ \A o \in Outputs : o.user \in Users /\ o.asset \in Assets /\ o.amount \in Nat
  /\ {WithdrawLimit, Required, Funds, MaxCalls, MaxOrders} \subseteq Nat
  /\ Faulty \in BOOLEAN /\ Remembers \in BOOLEAN

VARIABLES
  address,    \* deposit_addresses: <<user, asset>> -> address, 0 for no row
  issued,     \* addresses the provider has handed out: 1 .. issued
  deposits,   \* deposits: <<tx, asset>> -> "none", "pending" or "credited"
  allowlist,  \* withdrawal_allowlist
  rows,       \* withdrawals: id -> row
  ids,        \* ids handed out so far
  withdrawn,  \* withdrawn: the ids whose keys the provider remembers
  sent,       \* Broadcasts: the withdrawal ids custody has sent, in order
  depth,      \* confirmations each transaction has on the chain
  pc, arg,    \* the calls being served
  answer,     \* history: addresses returned to users
  calls, orders   \* counters of the bounds

custodyVars == <<withdrawn, sent>>
rowVars == <<address, issued, deposits, allowlist, rows, ids, custodyVars, answer>>
vars == <<ledgerVars, rowVars, pc, arg, depth, calls, orders>>

NoArg == [call |-> "none"]

Paid(o) == <<"deposit", o.tx>>
LockKey(id) == <<"wlock", id>>
SettleKey(id) == <<"wsettle", id>>
UnlockKey(id) == <<"wunlock", id>>

Posted(key) == key \in DOMAIN posted

WalletInit ==
  /\ balance = [a \in Accounts |-> IF a[3] = "main" THEN Funds
                                   ELSE IF a[3] = "locked" THEN 0
                                   ELSE -(Funds * Cardinality(Users))]
  /\ posted = <<>>
  /\ address = [ua \in Users \X Assets |-> 0] /\ issued = 0
  /\ deposits = [d \in {<<o.tx, o.asset>> : o \in Outputs} |-> "none"]
  /\ allowlist = {} /\ rows = <<>> /\ ids = 0 /\ answer = {}
  /\ withdrawn = {} /\ sent = <<>>
  /\ pc = [p \in Procs |-> "idle"] /\ arg = [p \in Procs |-> NoArg]
  /\ depth = [tx \in {o.tx : o \in Outputs} |-> 0]
  /\ calls = 0 /\ orders = 0

\* A call with arguments a is taken up by a free goroutine.
Call(p, label, a) ==
  /\ pc[p] = "idle" /\ calls < MaxCalls
  /\ calls' = calls + 1
  /\ pc' = [pc EXCEPT ![p] = label]
  /\ arg' = [arg EXCEPT ![p] = a]
  /\ UNCHANGED <<ledgerVars, rowVars, depth, orders>>

\* Step p of a call goes on at label; "idle" when the call has returned.
Goto(p, label) ==
  /\ pc' = [pc EXCEPT ![p] = label]
  /\ arg' = [arg EXCEPT ![p] = IF label = "idle" THEN NoArg ELSE @]
  /\ UNCHANGED <<depth, calls, orders>>

\* The call ends early: the step it is about to take fails without effect, or
\* the answer to the last one was lost.
Fails(p) ==
  /\ Faulty /\ pc[p] # "idle"
  /\ Goto(p, "idle")
  /\ UNCHANGED <<ledgerVars, rowVars>>

\* The process is restarted: every call ends, the database stays, and so does
\* what a provider outside the process remembers.
Restart ==
  /\ Faulty
  /\ pc' = [p \in Procs |-> "idle"] /\ arg' = [p \in Procs |-> NoArg]
  /\ withdrawn' = IF Remembers THEN withdrawn ELSE {}
  /\ UNCHANGED <<ledgerVars, address, issued, deposits, allowlist, rows, ids, sent,
                 answer, depth, calls, orders>>

-----------------------------------------------------------------------------
(* DepositAddress                                                           *)

SelectAddress(p) ==
  LET ua == <<arg[p].user, arg[p].asset>>
  IN  /\ pc[p] = "address"
      /\ IF address[ua] # 0
         THEN Goto(p, "idle") /\ answer' = answer \cup {<<ua, address[ua]>>}
         ELSE Goto(p, "create") /\ UNCHANGED answer
      /\ UNCHANGED <<ledgerVars, address, issued, deposits, allowlist, rows, ids, custodyVars>>

\* custody.NewAddress: a fresh address.
NewAddress(p) ==
  /\ pc[p] = "create"
  /\ issued' = issued + 1
  /\ pc' = [pc EXCEPT ![p] = "insert"]
  /\ arg' = [arg EXCEPT ![p].fresh = issued + 1]
  /\ UNCHANGED <<ledgerVars, address, deposits, allowlist, rows, ids, custodyVars, answer,
                 depth, calls, orders>>

\* Mutant of InsertAddress: the loser of the race answers with its own address.
InsertAddressOwn(p) ==
  LET ua == <<arg[p].user, arg[p].asset>>
  IN  /\ pc[p] = "insert"
      /\ address' = [address EXCEPT ![ua] = IF @ = 0 THEN arg[p].fresh ELSE @]
      /\ answer' = answer \cup {<<ua, arg[p].fresh>>}
      /\ Goto(p, "idle")
      /\ UNCHANGED <<ledgerVars, issued, deposits, allowlist, rows, ids, custodyVars>>

\* The loser of a race to insert the row reads back the winner's.
InsertAddress(p) ==
  LET ua == <<arg[p].user, arg[p].asset>>
  IN  /\ pc[p] = "insert"
      /\ address' = [address EXCEPT ![ua] = IF @ = 0 THEN arg[p].fresh ELSE @]
      /\ answer' = answer \cup {<<ua, address'[ua]>>}
      /\ Goto(p, "idle")
      /\ UNCHANGED <<ledgerVars, issued, deposits, allowlist, rows, ids, custodyVars>>

-----------------------------------------------------------------------------
(* HandleDeposit                                                            *)

\* Refuse an amount that is not positive, look up the address, upsert the
\* deposit; go on when it is final and new.  Rows of deposit_addresses
\* never change, so that the lookup and the upsert are one step.
UpsertDeposit(p) ==
  LET o == arg[p].output
      d == <<o.tx, o.asset>>
  IN  /\ pc[p] = "deposit"
      /\ IF o.amount <= 0 \/ address[<<o.user, o.asset>>] = 0
         THEN Goto(p, "idle") /\ UNCHANGED deposits
         ELSE /\ deposits' = [deposits EXCEPT ![d] = IF @ = "none" THEN "pending" ELSE @]
              /\ Goto(p, IF deposits[d] = "credited" \/ arg[p].confirmations < Required
                         THEN "idle" ELSE "credit")
      /\ UNCHANGED <<ledgerVars, address, issued, allowlist, rows, ids, custodyVars, answer>>

\* Mutant of Credit: an error of ledger.Deposit is not looked at.
CreditUnchecked(p) ==
  LET o == arg[p].output
  IN  /\ pc[p] = "credit"
      /\ Deposit(o.user, o.asset, o.amount, Paid(o), "ok") \/ UNCHANGED ledgerVars
      /\ Goto(p, "mark")
      /\ UNCHANGED rowVars

Credit(p) ==
  LET o == arg[p].output
  IN  /\ pc[p] = "credit"
      /\ Deposit(o.user, o.asset, o.amount, Paid(o), "ok")
      /\ Goto(p, "mark")
      /\ UNCHANGED rowVars

MarkCredited(p) ==
  LET o == arg[p].output
  IN  /\ pc[p] = "mark"
      /\ deposits' = [deposits EXCEPT ![<<o.tx, o.asset>>] = "credited"]
      /\ Goto(p, "idle")
      /\ UNCHANGED <<ledgerVars, address, issued, allowlist, rows, ids, custodyVars, answer>>

-----------------------------------------------------------------------------
(* AddAllowlistAddress and RequestWithdrawal                                *)

AddAllowlistAddress(u, asset, dest) ==
  /\ allowlist' = allowlist \cup {<<u, asset, dest>>}
  /\ UNCHANGED <<ledgerVars, address, issued, deposits, rows, ids, custodyVars, answer,
                 pc, arg, depth, calls, orders>>

\* Mutant of CheckRequest: the destination is not looked up.
CheckRequestOpen(p) ==
  /\ pc[p] = "request"
  /\ Goto(p, IF arg[p].amount > 0 /\ arg[p].amount <= WithdrawLimit THEN "row" ELSE "idle")
  /\ UNCHANGED <<ledgerVars, rowVars>>

\* The checks of a request: amount, cap, allowlisted destination.
CheckRequest(p) ==
  LET a == arg[p]
  IN  /\ pc[p] = "request"
      /\ Goto(p, IF /\ a.amount > 0 /\ a.amount <= WithdrawLimit
                    /\ <<a.user, a.asset, a.dest>> \in allowlist
                 THEN "row" ELSE "idle")
      /\ UNCHANGED <<ledgerVars, rowVars>>

InsertRow(p) ==
  LET a == arg[p]
  IN  /\ pc[p] = "row"
      /\ ids' = ids + 1
      /\ rows' = [id \in DOMAIN rows \cup {ids'} |->
                    IF id \in DOMAIN rows THEN rows[id]
                    ELSE [user |-> a.user, asset |-> a.asset, amount |-> a.amount,
                          dest |-> a.dest, status |-> "requested"]]
      /\ pc' = [pc EXCEPT ![p] = "lock"]
      /\ arg' = [arg EXCEPT ![p].id = ids']
      /\ UNCHANGED <<ledgerVars, address, issued, deposits, allowlist, custodyVars, answer,
                     depth, calls, orders>>

LockFunds(p) ==
  LET a == arg[p]
  IN  /\ pc[p] = "lock"
      /\ \E res \in Results :
           /\ Lock(a.user, a.asset, a.amount, LockKey(a.id), res)
           /\ Goto(p, IF res = "ok" THEN "idle" ELSE "delete")
      /\ UNCHANGED rowVars

\* Lock reports another error: with Faulty, after committing or before.
LockBreaks(p) ==
  LET a == arg[p]
  IN  /\ Faulty /\ pc[p] = "lock"
      /\ \/ Lock(a.user, a.asset, a.amount, LockKey(a.id), "ok")
         \/ UNCHANGED ledgerVars
      /\ Goto(p, "delete")
      /\ UNCHANGED rowVars

\* The funds could not be locked: the request is rolled back.
DeleteRow(p) ==
  /\ pc[p] = "delete"
  /\ rows' = [id \in DOMAIN rows \ {arg[p].id} |-> rows[id]]
  /\ Goto(p, "idle")
  /\ UNCHANGED <<ledgerVars, address, issued, deposits, allowlist, ids, custodyVars, answer>>

-----------------------------------------------------------------------------
(* ApproveWithdrawal and RejectWithdrawal                                   *)

\* lockRequested reads the row and releases its lock with the statement: the
\* row is as it was read, in arg[p].row, for the rest of the call.
lockRequested(p) ==
  /\ pc[p] \in {"approve", "reject"}
  /\ IF arg[p].id \in DOMAIN rows /\ rows[arg[p].id].status = "requested"
     THEN /\ pc' = [pc EXCEPT ![p] = IF @ = "approve" THEN "settle" ELSE "unlock"]
          /\ arg' = [arg EXCEPT ![p].row = rows[arg[p].id]]
          /\ UNCHANGED <<depth, calls, orders>>
     ELSE Goto(p, "idle")
  /\ UNCHANGED <<ledgerVars, rowVars>>

\* Mutant of Settle: the broadcast goes ahead although the posting failed.
SettleAnyway(p) ==
  LET w == arg[p].row
  IN  /\ pc[p] = "settle"
      /\ \E res \in Results :
           SettleWithdrawal(w.user, w.asset, w.amount, SettleKey(arg[p].id), res)
      /\ Goto(p, "broadcast")
      /\ UNCHANGED rowVars

Settle(p) ==
  LET w == arg[p].row
  IN  /\ pc[p] = "settle"
      /\ \E res \in Results :
           /\ SettleWithdrawal(w.user, w.asset, w.amount, SettleKey(arg[p].id), res)
           /\ Goto(p, IF res = "ok" THEN "broadcast" ELSE "idle")
      /\ UNCHANGED rowVars

\* Mutant of Withdraw: an error of the provider is not looked at.
WithdrawUnchecked(p) ==
  /\ pc[p] = "broadcast"
  /\ \/ UNCHANGED custodyVars
     \/ /\ arg[p].id \notin withdrawn
        /\ withdrawn' = withdrawn \cup {arg[p].id}
        /\ sent' = Append(sent, arg[p].id)
  /\ Goto(p, "done")
  /\ UNCHANGED <<ledgerVars, address, issued, deposits, allowlist, rows, ids, answer>>

\* custody.Withdraw: a key that is remembered is not sent again.
Withdraw(p) ==
  /\ pc[p] = "broadcast"
  /\ withdrawn' = withdrawn \cup {arg[p].id}
  /\ sent' = IF arg[p].id \in withdrawn THEN sent ELSE Append(sent, arg[p].id)
  /\ Goto(p, "done")
  /\ UNCHANGED <<ledgerVars, address, issued, deposits, allowlist, rows, ids, answer>>

Unlock_(p) ==
  LET w == arg[p].row
  IN  /\ pc[p] = "unlock"
      /\ \E res \in Results :
           /\ Unlock(w.user, w.asset, w.amount, UnlockKey(arg[p].id), res)
           /\ Goto(p, IF res = "ok" THEN "refused" ELSE "idle")
      /\ UNCHANGED rowVars

\* The UPDATE that ends both calls: it sets the status whatever it is by now.
UpdateStatus(p) ==
  /\ pc[p] \in {"done", "refused"}
  /\ rows' = [id \in DOMAIN rows |->
                IF id = arg[p].id
                THEN [rows[id] EXCEPT !.status = IF pc[p] = "done" THEN "broadcast"
                                                 ELSE "rejected"]
                ELSE rows[id]]
  /\ Goto(p, "idle")
  /\ UNCHANGED <<ledgerVars, address, issued, deposits, allowlist, ids, custodyVars, answer>>

-----------------------------------------------------------------------------

\* The trading side reserves funds of the same user for an order.
OrderLock(u, asset) ==
  /\ orders < MaxOrders
  /\ orders' = orders + 1
  /\ Lock(u, asset, 1, <<"lock", orders>>, "ok")
  /\ UNCHANGED <<rowVars, pc, arg, depth, calls>>

\* The chain buries a transaction under one more block.
Confirm(tx) ==
  /\ depth[tx] < Required
  /\ depth' = [depth EXCEPT ![tx] = @ + 1]
  /\ UNCHANGED <<ledgerVars, rowVars, pc, arg, calls, orders>>

-----------------------------------------------------------------------------
(* The handlers of wallethttp that start a call                             *)

handleAddress(p) ==
  \E u \in Users, a \in Assets :
    Call(p, "address", [call |-> "address", user |-> u, asset |-> a, fresh |-> 0])

\* Webhooks may be late, repeated and out of order: n is any past depth.
handleDepositWebhook(p) ==
  \E o \in Outputs, n \in 0 .. Required :
    n <= depth[o.tx] /\ Call(p, "deposit", [call |-> "deposit", output |-> o,
                                            confirmations |-> n])

handleWithdraw(p) ==
  \E u \in Users, a \in Assets, amount \in Amounts, dest \in Destinations :
    Call(p, "request", [call |-> "request", user |-> u, asset |-> a,
                        amount |-> amount, dest |-> dest, id |-> 0])

\* handleApprove and handleReject, of an id that was handed out.
decide(p) ==
  \E id \in 1 .. ids, decision \in {"approve", "reject"} :
    Call(p, decision, [call |-> decision, id |-> id, row |-> NoArg])

Start(p) == handleAddress(p) \/ handleDepositWebhook(p) \/ handleWithdraw(p) \/ decide(p)

Step(p) ==
  \/ SelectAddress(p) \/ NewAddress(p) \/ InsertAddress(p)
  \/ UpsertDeposit(p) \/ Credit(p) \/ MarkCredited(p)
  \/ CheckRequest(p) \/ InsertRow(p) \/ LockFunds(p) \/ LockBreaks(p) \/ DeleteRow(p)
  \/ lockRequested(p) \/ Settle(p) \/ Withdraw(p) \/ Unlock_(p) \/ UpdateStatus(p)

WalletNext ==
  \/ \E p \in Procs : Start(p) \/ Step(p) \/ Fails(p)
  \/ \E u \in Users, a \in Assets, dest \in Destinations : AddAllowlistAddress(u, a, dest)
  \/ \E u \in Users, a \in Assets : OrderLock(u, a)
  \/ \E tx \in DOMAIN depth : Confirm(tx)
  \/ Restart

WalletSpec == WalletInit /\ [][WalletNext]_vars

-----------------------------------------------------------------------------

\* Rows, calls and postings are well formed.  A row names a positive amount
\* within the cap and a destination its user allowlisted, as RequestWithdrawal
\* demands before it inserts one.
WalletTypeOK ==
  /\ balance \in [Accounts -> Int]
  /\ address \in [Users \X Assets -> 0 .. issued]
  /\ \A d \in DOMAIN deposits : deposits[d] \in {"none", "pending", "credited"}
  /\ DOMAIN rows \subseteq 1 .. ids
  /\ \A id \in DOMAIN rows :
       /\ rows[id].amount \in 1 .. WithdrawLimit
       /\ <<rows[id].user, rows[id].asset, rows[id].dest>> \in allowlist
       /\ rows[id].status \in {"requested", "broadcast", "rejected"}
  /\ \A p \in Procs : pc[p] = "idle" <=> arg[p] = NoArg

\* What custody holds of an asset: what was there, what the chain made final,
\* less what was sent.
Holdings(asset) ==
  Funds * Cardinality(Users)
    + MapThenSumSet(LAMBDA o : o.amount,
                    {o \in Outputs : o.asset = asset /\ depth[o.tx] >= Required})
    - MapThenSumSet(LAMBDA i : IF posted[SettleKey(sent[i])][1].account[2] = asset
                               THEN posted[SettleKey(sent[i])][2].amount ELSE 0,
                    DOMAIN sent)

\* The exchange can pay everybody: custody holds at least what the ledger owes
\* its users, whatever webhooks, decisions, retries and failures came in which
\* order; in particular nothing is sent before its posting took the money off
\* the books (ApproveWithdrawal settles first), and nothing is credited before
\* the chain made it final (HandleDeposit).
Solvency ==
  \A asset \in Assets :
    /\ \A i \in DOMAIN sent : Posted(SettleKey(sent[i]))
    /\ Holdings(asset) >= MapThenSumSet(LAMBDA a : balance[a],
                                        {a \in UserAccounts : a[2] = asset})

\* "The same key must never broadcast twice" (custody.go:25): a withdrawal is
\* sent at most once, although an approval that ended before its UPDATE leaves
\* the row "requested" and is made again.
BroadcastOnce == \A i, j \in DOMAIN sent : sent[i] = sent[j] => i = j

\* The status a user reads is true: "broadcast" only once custody has sent the
\* money, "rejected" only once the funds were returned.
StatusHonest ==
  \A id \in DOMAIN rows :
    /\ rows[id].status = "broadcast" => \E i \in DOMAIN sent : sent[i] = id
    /\ rows[id].status = "rejected" => Posted(UnlockKey(id))

\* A deposit whose row says "credited" has been posted, whatever failed between
\* HandleDeposit's posting and its UPDATE, and although its webhooks race and
\* repeat: the posting of its transaction credits one of the transaction's
\* outputs, in full and to its user.  When the transaction has one output only,
\* that is the deposit itself.
CreditedIsPosted ==
  \A o \in Outputs :
    deposits[<<o.tx, o.asset>>] = "credited" =>
      /\ Posted(Paid(o))
      /\ posted[Paid(o)] \in {DepositEntries(q.user, q.asset, q.amount) :
                               q \in {q \in Outputs : q.tx = o.tx /\ q.amount > 0}}

\* "credited: confirmed and posted to the ledger" (0004_wallets.sql:29): a
\* deposit whose row says "credited" was posted to its own user, in its own
\* asset and amount, also when its transaction pays in another asset too.
DepositReachesUser ==
  \A o \in Outputs :
    deposits[<<o.tx, o.asset>>] = "credited" =>
      Posted(Paid(o)) /\ posted[Paid(o)] = DepositEntries(o.user, o.asset, o.amount)

\* All calls of DepositAddress for a user and an asset answer with the address
\* of the row, the one HandleDeposit credits, also when two calls race.
OneAddress == \A <<ua, x>> \in answer : x = address[ua]

\* No withdrawal is both paid out and refunded: lockRequested is meant "to
\* serialize concurrent approve/reject" (wallet.go:301).
DecidedOnce == \A id \in 1 .. ids : ~(Posted(SettleKey(id)) /\ Posted(UnlockKey(id)))

=============================================================================
