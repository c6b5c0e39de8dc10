----------------------------- MODULE MCLedgerPost -----------------------------
(* Concurrent postings on a small instance: two users, two assets, and one   *)
(* call of each kind that competes for the same rows.                        *)
EXTENDS LedgerPost

CONSTANTS u1, u2, base, quote

C(key, es, amount) == [key |-> key, entries |-> es, amount |-> amount]

MCCalls ==
  {C("deposit1", DepositEntries(u1, quote, 3), 3),
   C("deposit2", DepositEntries(u2, base, 1), 1),
   C("lock1", LockEntries(u1, quote, 2), 2),
   C("lock1b", LockEntries(u1, quote, 1), 1),
   C("lock2", LockEntries(u2, base, 1), 1),
   C("trade", TradeEntries(u1, u2, base, quote, 2, 1), 1),
   C("unlock1", UnlockEntries(u1, quote, 1), 1),
   C("withdraw2", WithdrawalEntries(u2, base, 1), 1),
   C("bad", LockEntries(u1, quote, 0), 0)}

MCKeys == {c.key : c \in MCCalls}
=============================================================================
