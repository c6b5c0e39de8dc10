----------------------------- MODULE LedgerProofs -----------------------------
(***************************************************************************)
(* Proofs about module LedgerPost: for any users, assets, sessions and     *)
(* postings, concurrent transactions never overdraw a user's account, keep *)
(* their row versions private, and report success only for what is         *)
(* committed.                                                              *)
(***************************************************************************)
EXTENDS LedgerPost, SequenceTheorems, TLAPS

(* A call that an open transaction works on: its next entry, and the rows its
   earlier entries have locked. *)
LEMMA CallShape ==
  ASSUME PostTypeOK, NEW s \in Sessions
  PROVE  /\ call[s] \in Calls /\ call[s].key \in Keys
         /\ call[s].entries \in Seq(Entries) /\ Len(call[s].entries) \in Nat
         /\ n[s] \in Nat
         /\ \A i \in 1 .. Len(call[s].entries) :
              /\ call[s].entries[i].account \in Accounts
              /\ call[s].entries[i].amount \in Int
         /\ \A i, j \in 1 .. Len(call[s].entries) :
              call[s].entries[i].account = call[s].entries[j].account => i = j
<1>1. call[s] \in Calls /\ n[s] \in Nat
  BY DEF PostTypeOK
<1>2. call[s].key \in Keys /\ call[s].entries \in Seq(Entries)
  BY <1>1, CallAssumption
<1>3. DOMAIN call[s].entries = 1 .. Len(call[s].entries) /\ Len(call[s].entries) \in Nat
  BY <1>2, LenProperties
<1>4. \A i \in 1 .. Len(call[s].entries) : call[s].entries[i] \in Entries
  BY <1>2, <1>3, ElementOfSeq
<1>5. \A i, j \in 1 .. Len(call[s].entries) :
        call[s].entries[i].account = call[s].entries[j].account => i = j
  BY <1>1, <1>3, CallAssumption
<1>6. QED
  BY <1>1, <1>2, <1>3, <1>4, <1>5 DEF Entries

(* The locked rows are accounts. *)
LEMMA HeldAccounts ==
  ASSUME PostTypeOK, NEW s \in Sessions
  PROVE  Held(s) \subseteq Accounts
<1>1. CASE pc[s] = "post"
  <2>1. n[s] <= Len(call[s].entries)
    BY <1>1 DEF PostTypeOK
  <2>2. \A i \in 1 .. n[s] : i \in 1 .. Len(call[s].entries)
    BY <2>1, CallShape
  <2>3. QED
    BY <1>1, <2>2, CallShape DEF Held
<1>2. CASE pc[s] # "post"
  BY <1>2 DEF Held
<1>3. QED
  BY <1>1, <1>2

(* An entry that is applied belongs to an open transaction, which holds its
   row. *)
LEMMA AppliedEntry ==
  ASSUME PostTypeOK, NEW s \in Sessions, NEW i \in 1 .. n[s]
  PROVE  /\ pc[s] = "post" /\ i \in 1 .. Len(call[s].entries)
         /\ call[s].entries[i].account \in Held(s)
         /\ call[s].entries[i].account \in Accounts
         /\ call[s].entries[i].amount \in Int
<1>1. n[s] \in Nat /\ Len(call[s].entries) \in Nat
  BY CallShape
<1>2. pc[s] = "post"
  BY <1>1 DEF PostTypeOK
<1>3. n[s] <= Len(call[s].entries)
  BY <1>2 DEF PostTypeOK
<1>4. i \in 1 .. Len(call[s].entries)
  BY <1>1, <1>3
<1>5. QED
  BY <1>2, <1>4, CallShape DEF Held

(* Locks that do not change: a session whose pc, call and n stay keeps its
   rows. *)
LEMMA HeldKept ==
  ASSUME NEW s \in Sessions, pc'[s] = pc[s], call'[s] = call[s], n'[s] = n[s]
  PROVE  Held(s)' = Held(s)
BY DEF Held

-----------------------------------------------------------------------------

(* The empty ledger satisfies the invariant. *)
LEMMA PostInitInv == PostInit => PostInv
<1> SUFFICES ASSUME PostInit
             PROVE  PostInv
  OBVIOUS
<1> USE DEF PostInit, Init
<1>1. PostTypeOK
  <2>1. balance \in [Accounts -> Int] /\ row \in [Accounts -> Int]
    OBVIOUS
  <2>2. DOMAIN posted = {}
    OBVIOUS
  <2>3. calls \in 0 .. MaxCalls
    BY CallAssumption
  <2>4. QED
    BY <2>1, <2>2, <2>3 DEF PostTypeOK
<1>2. \A s \in Sessions : Held(s) = {}
  BY DEF Held
<1>3. NoOverdraft
  BY DEF NoOverdraft, Accounts
<1>4. RowIsolation
  <2>1. \A s \in Sessions : n[s] = 0
    OBVIOUS
  <2>2. \A s \in Sessions : 1 .. n[s] = {}
    BY <2>1
  <2>3. \A s, t \in Sessions : s # t => Held(s) \cap Held(t) = {}
    BY <1>2
  <2>4. \A a \in Accounts : row[a] = balance[a]
    OBVIOUS
  <2>5. QED
    BY <2>2, <2>3, <2>4 DEF RowIsolation
<1>5. KeyOwnership /\ AckedIsPosted
  BY DEF KeyOwnership, AckedIsPosted
<1>6. QED
  BY <1>1, <1>3, <1>4, <1>5 DEF PostInv

(* Returning from a call, with a rollback of what its transaction wrote,
   preserves the invariant. *)
LEMMA ReturnInv ==
  ASSUME PostInv, NEW s \in Sessions,
         NEW res \in Results \cup {"none", "error", "deadlock"},
         res = "ok" => call[s].key \in DOMAIN posted,
         Return(s, res)
  PROVE  PostInv'
<1> USE DEF PostInv
<1>1. /\ pc' = [pc EXCEPT ![s] = "idle"] /\ n' = [n EXCEPT ![s] = 0]
      /\ result' = [result EXCEPT ![s] = res]
      /\ row' = [a \in Accounts |-> IF a \in Held(s) THEN balance[a] ELSE row[a]]
      /\ balance' = balance /\ posted' = posted /\ call' = call /\ calls' = calls
  BY DEF Return
<1>2. /\ balance \in [Accounts -> Int] /\ row \in [Accounts -> Int]
      /\ pc \in [Sessions -> {"idle", "begin", "post"}] /\ n \in [Sessions -> Nat]
      /\ result \in [Sessions -> Results \cup {"none", "error", "deadlock"}]
  BY DEF PostTypeOK
<1>3. PostTypeOK'
  <2>1. row' \in [Accounts -> Int]
    BY <1>1, <1>2
  <2>2. /\ pc' \in [Sessions -> {"idle", "begin", "post"}]
        /\ n' \in [Sessions -> Nat]
        /\ result' \in [Sessions -> Results \cup {"none", "error", "deadlock"}]
    BY <1>1, <1>2
  <2>3. \A t \in Sessions : IF pc'[t] = "post" THEN n'[t] <= Len(call'[t].entries)
                                               ELSE n'[t] = 0
    BY <1>1, <1>2 DEF PostTypeOK
  <2>4. QED
    BY <1>1, <2>1, <2>2, <2>3 DEF PostTypeOK
<1>4. Held(s)' = {} /\ \A t \in Sessions \ {s} : Held(t)' = Held(t)
  <2>1. Held(s)' = {}
    BY <1>1, <1>2 DEF Held
  <2>2. \A t \in Sessions \ {s} : pc'[t] = pc[t] /\ call'[t] = call[t] /\ n'[t] = n[t]
    BY <1>1, <1>2
  <2>3. QED
    BY <2>1, <2>2, HeldKept
<1>5. NoOverdraft'
  BY <1>1, <1>2 DEF NoOverdraft, Accounts
<1>6. RowIsolation'
  <2>1. \A t, w \in Sessions : t # w => Held(t)' \cap Held(w)' = {}
    BY <1>4 DEF RowIsolation
  <2>2. ASSUME NEW a \in Accounts, \A t \in Sessions : a \notin Held(t)'
        PROVE  row'[a] = balance'[a]
    BY SMTT(40), <2>2, <1>1, <1>4 DEF RowIsolation
  <2>3. ASSUME NEW t \in Sessions, NEW i \in 1 .. n'[t]
        PROVE  row'[call'[t].entries[i].account] =
                 balance'[call'[t].entries[i].account] + call'[t].entries[i].amount
    <3>1. t # s /\ i \in 1 .. n[t]
      BY <2>3, <1>1, <1>2
    <3>2. call[t].entries[i].account \in Held(t) /\ call[t].entries[i].account \in Accounts
      BY <3>1, AppliedEntry
    <3>3. call[t].entries[i].account \notin Held(s)
      BY <3>1, <3>2 DEF RowIsolation
    <3>4. row'[call[t].entries[i].account] = row[call[t].entries[i].account]
      BY <3>2, <3>3, <1>1
    <3>5. QED
      BY <3>1, <3>4, <1>1 DEF RowIsolation
  <2>4. QED
    BY <2>1, <2>2, <2>3 DEF RowIsolation
<1>7. KeyOwnership'
  BY <1>1, <1>2 DEF KeyOwnership
<1>8. AckedIsPosted'
  BY <1>1, <1>2 DEF AckedIsPosted
<1>9. QED
  BY <1>3, <1>5, <1>6, <1>7, <1>8

(* Checking the arguments and starting a transaction preserves it. *)
LEMMA StartInv ==
  ASSUME PostInv, NEW s \in Sessions, NEW c \in Calls, Start(s, c)
  PROVE  PostInv'
<1> USE DEF PostInv
<1>1. /\ pc[s] = "idle" /\ calls < MaxCalls /\ calls' = calls + 1
      /\ call' = [call EXCEPT ![s] = c] /\ balance' = balance
      /\ posted' = posted /\ row' = row /\ n' = n
  BY DEF Start
<1>2. /\ pc \in [Sessions -> {"idle", "begin", "post"}] /\ n \in [Sessions -> Nat]
      /\ result \in [Sessions -> Results \cup {"none", "error", "deadlock"}]
      /\ call \in [Sessions -> Calls] /\ n[s] = 0
  BY <1>1 DEF PostTypeOK
<1>3. PICK p \in {"idle", "begin"}, r \in {"unbalanced", "none"} :
        pc' = [pc EXCEPT ![s] = p] /\ result' = [result EXCEPT ![s] = r]
  <2>1. CASE c.amount <= 0 \/ ~ Balanced(c.entries)
    <3>1. pc' = pc /\ result' = [result EXCEPT ![s] = "unbalanced"]
      BY <2>1 DEF Start
    <3>2. pc' = [pc EXCEPT ![s] = "idle"]
      BY <3>1, <1>1, <1>2
    <3>3. QED
      BY ZenonT(60), <3>1, <3>2
  <2>2. CASE ~ (c.amount <= 0 \/ ~ Balanced(c.entries))
    BY <2>2 DEF Start
  <2>3. QED
    BY <2>1, <2>2
<1>4. PostTypeOK'
  <2>1. /\ pc' \in [Sessions -> {"idle", "begin", "post"}]
        /\ call' \in [Sessions -> Calls]
        /\ result' \in [Sessions -> Results \cup {"none", "error", "deadlock"}]
    BY <1>1, <1>2, <1>3 DEF Results
  <2>2. calls' \in 0 .. MaxCalls
    BY <1>1, CallAssumption DEF PostTypeOK
  <2>3. \A t \in Sessions : IF pc'[t] = "post" THEN n'[t] <= Len(call'[t].entries)
                                               ELSE n'[t] = 0
    BY <1>1, <1>2, <1>3 DEF PostTypeOK
  <2>4. QED
    BY <1>1, <2>1, <2>2, <2>3 DEF PostTypeOK
<1>5. \A t \in Sessions : Held(t)' = Held(t)
  <2>1. Held(s)' = {} /\ Held(s) = {}
    BY <1>1, <1>2, <1>3 DEF Held
  <2>2. \A t \in Sessions \ {s} : pc'[t] = pc[t] /\ call'[t] = call[t] /\ n'[t] = n[t]
    BY <1>1, <1>2, <1>3
  <2>3. QED
    BY <2>1, <2>2, HeldKept
<1>6. NoOverdraft'
  BY <1>1 DEF NoOverdraft
<1>7. RowIsolation'
  <2>1. \A t, w \in Sessions : t # w => Held(t)' \cap Held(w)' = {}
    BY <1>5 DEF RowIsolation
  <2>2. \A a \in Accounts : (\A t \in Sessions : a \notin Held(t)') => row'[a] = balance'[a]
    BY <1>1, <1>5 DEF RowIsolation
  <2>3. ASSUME NEW t \in Sessions, NEW i \in 1 .. n'[t]
        PROVE  row'[call'[t].entries[i].account] =
                 balance'[call'[t].entries[i].account] + call'[t].entries[i].amount
    <3>1. t # s /\ i \in 1 .. n[t]
      BY <2>3, <1>1, <1>2
    <3>2. call'[t] = call[t]
      BY <3>1, <1>1, <1>2
    <3>3. QED
      BY <3>1, <3>2, <1>1 DEF RowIsolation
  <2>4. QED
    BY <2>1, <2>2, <2>3 DEF RowIsolation
<1>8. KeyOwnership'
  BY <1>1, <1>2, <1>3 DEF KeyOwnership
<1>9. AckedIsPosted'
  BY <1>1, <1>2, <1>3 DEF AckedIsPosted
<1>10. QED
  BY <1>4, <1>6, <1>7, <1>8, <1>9

(* Claiming the idempotency key, or finding it posted, preserves it. *)
LEMMA InsertKeyInv ==
  ASSUME PostInv, NEW s \in Sessions, InsertKey(s)
  PROVE  PostInv'
<1> USE DEF PostInv
<1>1. CASE call[s].key \in DOMAIN posted
  <2>1. Return(s, "ok")
    BY <1>1 DEF InsertKey
  <2>2. QED
    BY <1>1, <2>1, ReturnInv DEF Results
<1>2. CASE call[s].key \notin DOMAIN posted
  <2>1. /\ pc[s] = "begin" /\ pc' = [pc EXCEPT ![s] = "post"]
        /\ \A t \in Sessions : ~ WaitsForKey(s, t)
        /\ balance' = balance /\ posted' = posted /\ row' = row /\ call' = call
        /\ n' = n /\ result' = result /\ calls' = calls
    BY <1>2 DEF InsertKey
  <2>2. /\ pc \in [Sessions -> {"idle", "begin", "post"}] /\ n[s] = 0
        /\ Len(call[s].entries) \in Nat
    BY <2>1, CallShape DEF PostTypeOK
  <2>3. PostTypeOK'
    <3>1. pc' \in [Sessions -> {"idle", "begin", "post"}]
      BY <2>1, <2>2
    <3>2. \A t \in Sessions : IF pc'[t] = "post" THEN n'[t] <= Len(call'[t].entries)
                                                 ELSE n'[t] = 0
      BY <2>1, <2>2 DEF PostTypeOK
    <3>3. QED
      BY <2>1, <3>1, <3>2 DEF PostTypeOK
  <2>4. \A t \in Sessions : Held(t)' = Held(t)
    <3>1. Held(s)' = {} /\ Held(s) = {}
      BY <2>1, <2>2 DEF Held
    <3>2. \A t \in Sessions \ {s} : pc'[t] = pc[t] /\ call'[t] = call[t] /\ n'[t] = n[t]
      BY <2>1, <2>2
    <3>3. QED
      BY <3>1, <3>2, HeldKept
  <2>5. NoOverdraft' /\ RowIsolation'
    BY <2>1, <2>4 DEF NoOverdraft, RowIsolation
  <2>6. KeyOwnership'
    <3>1. \A t \in Sessions \ {s} : pc'[t] = pc[t]
      BY <2>1, <2>2
    <3>2. \A t \in Sessions \ {s} : pc[t] = "post" => call[t].key # call[s].key
      BY <2>1 DEF WaitsForKey
    <3>3. QED
      BY <1>2, <2>1, <3>1, <3>2 DEF KeyOwnership
  <2>7. AckedIsPosted'
    BY SMTT(40), <2>1 DEF AckedIsPosted
  <2>8. QED
    BY <2>3, <2>5, <2>6, <2>7
<1>3. QED
  BY <1>1, <1>2

(* One guarded UPDATE preserves it: the row was free, so its newest version is
   the committed one. *)
LEMMA ApplyEntryInv ==
  ASSUME PostInv, NEW s \in Sessions, ApplyEntry(s)
  PROVE  PostInv'
<1> DEFINE m == n[s] + 1
           a == call[s].entries[m].account
           value == row[a] + call[s].entries[m].amount
<1> USE DEF PostInv
<1>1. pc[s] = "post" /\ n[s] < Len(call[s].entries)
  BY DEF ApplyEntry
<1>2. /\ n[s] \in Nat /\ Len(call[s].entries) \in Nat
      /\ m \in 1 .. Len(call[s].entries) /\ m \in Nat
      /\ a \in Accounts /\ call[s].entries[m].amount \in Int
  <2>1. n[s] \in Nat /\ Len(call[s].entries) \in Nat
    BY CallShape
  <2>2. m \in 1 .. Len(call[s].entries) /\ m \in Nat
    BY SMTT(40), <2>1, <1>1
  <2>3. QED
    BY <2>1, <2>2, CallShape
<1>3. \A t \in Sessions \ {s} : a \notin Held(t)
  BY ZenonT(60), <1>1 DEF ApplyEntry, WaitsForRow, NextEntry
<1>4. CASE ~ Guard(a, value)
  <2>1. Return(s, "insufficient")
    BY ZenonT(60), <1>4 DEF ApplyEntry, NextEntry
  <2>2. QED
    BY SMTT(40), <2>1, ReturnInv DEF Results
<1>5. CASE Guard(a, value)
  <2>1. /\ row' = [row EXCEPT ![a] = value] /\ n' = [n EXCEPT ![s] = m]
        /\ balance' = balance /\ posted' = posted /\ pc' = pc /\ call' = call
        /\ result' = result /\ calls' = calls
    BY ZenonT(60), <1>5 DEF ApplyEntry, NextEntry
  <2>2. /\ row \in [Accounts -> Int] /\ n \in [Sessions -> Nat] /\ value \in Int
        /\ balance \in [Accounts -> Int]
    BY <1>2 DEF PostTypeOK
  <2>3. a \notin Held(s)
    <3>1. \A i \in 1 .. n[s] : i \in 1 .. Len(call[s].entries) /\ i # m
      BY <1>1, <1>2
    <3>2. \A i \in 1 .. n[s] : call[s].entries[i].account # a
      BY SMTT(40), <3>1, <1>2, CallShape
    <3>3. QED
      BY <1>1, <3>2 DEF Held
  <2>4. row[a] = balance[a]
    BY SMTT(40), <1>2, <1>3, <2>3 DEF RowIsolation
  <2>5. Held(s)' = Held(s) \cup {a}
    <3>1. 1 .. n'[s] = (1 .. n[s]) \cup {m}
      BY SMTT(40), <2>1, <2>2, <1>2
    <3>2. QED
      BY SMTT(40), <3>1, <2>1, <1>1 DEF Held
  <2>6. \A t \in Sessions \ {s} : Held(t)' = Held(t)
    BY <2>1, <2>2, HeldKept
  <2> HIDE DEF value, a
  <2>7. PostTypeOK'
    <3>1. row' \in [Accounts -> Int] /\ n' \in [Sessions -> Nat]
      BY <2>1, <2>2, <1>2
    <3>2. \A t \in Sessions : IF pc'[t] = "post" THEN n'[t] <= Len(call'[t].entries)
                                                 ELSE n'[t] = 0
      BY <2>1, <2>2, <1>1, <1>2 DEF PostTypeOK
    <3>3. QED
      BY <2>1, <3>1, <3>2 DEF PostTypeOK
  <2>8. NoOverdraft'
    <3>1. a \in UserAccounts => value >= 0
      BY <1>5, LedgerAssumption DEF Guard, UserAccounts, SystemAccounts
    <3>2. \A x \in UserAccounts : x \in Accounts
      BY DEF Accounts
    <3>3. QED
      BY <2>1, <2>2, <3>1, <3>2 DEF NoOverdraft
  <2>9. RowIsolation'
    <3>1. \A t, w \in Sessions : t # w => Held(t)' \cap Held(w)' = {}
      BY <1>3, <2>5, <2>6 DEF RowIsolation
    <3>2. ASSUME NEW x \in Accounts, \A t \in Sessions : x \notin Held(t)'
          PROVE  row'[x] = balance'[x]
      <4>1. x # a /\ \A t \in Sessions : x \notin Held(t)
        BY SMTT(40), <3>2, <2>5, <2>6
      <4>2. QED
        BY <4>1, <2>1, <2>2 DEF RowIsolation
    <3>3. ASSUME NEW t \in Sessions, NEW i \in 1 .. n'[t]
          PROVE  row'[call'[t].entries[i].account] =
                   balance'[call'[t].entries[i].account] + call'[t].entries[i].amount
      <4>1. CASE t = s /\ i = m
        <5>1. call'[t].entries[i] = call[s].entries[m] /\ balance' = balance
          BY <4>1, <2>1
        <5>2. row'[a] = value
          BY <2>1, <2>2, <1>2
        <5>3. value = balance[a] + call[s].entries[m].amount
          BY <2>4 DEF value
        <5>4. QED
          BY <5>1, <5>2, <5>3 DEF a
      <4>2. CASE ~ (t = s /\ i = m)
        <5>1. i \in 1 .. n[t]
          BY <4>2, <2>1, <2>2, <1>2
        <5>2. call[t].entries[i].account \in Held(t)
          BY <5>1, AppliedEntry
        <5>3. call[t].entries[i].account # a
          BY <5>2, <1>3, <2>3
        <5>4. row'[call[t].entries[i].account] = row[call[t].entries[i].account]
          BY <5>3, <2>1, <2>2
        <5>5. QED
          BY <5>1, <5>4, <2>1 DEF RowIsolation
      <4>3. QED
        BY SMTT(40), <4>1, <4>2
    <3>4. QED
      BY <3>1, <3>2, <3>3 DEF RowIsolation
  <2>10. KeyOwnership' /\ AckedIsPosted'
    BY <2>1 DEF KeyOwnership, AckedIsPosted
  <2>11. QED
    BY SMTT(40), <2>7, <2>8, <2>9, <2>10
<1>6. QED
  BY <1>4, <1>5

(* COMMIT preserves it: the rows it publishes are the ones it alone wrote. *)
LEMMA CommitInv ==
  ASSUME PostInv, NEW s \in Sessions, NEW res \in {"ok", "error"}, Commit(s, res)
  PROVE  PostInv'
<1> USE DEF PostInv
<1>1. /\ pc[s] = "post" /\ n[s] = Len(call[s].entries)
      /\ balance' = [a \in Accounts |-> IF a \in Held(s) THEN row[a] ELSE balance[a]]
      /\ posted' = [k \in DOMAIN posted \cup {call[s].key} |->
                      IF k = call[s].key THEN call[s].entries ELSE posted[k]]
      /\ pc' = [pc EXCEPT ![s] = "idle"] /\ n' = [n EXCEPT ![s] = 0]
      /\ result' = [result EXCEPT ![s] = res]
      /\ row' = row /\ call' = call /\ calls' = calls
  BY DEF Commit, Publish, Recorded
<1>2. /\ balance \in [Accounts -> Int] /\ row \in [Accounts -> Int]
      /\ pc \in [Sessions -> {"idle", "begin", "post"}] /\ n \in [Sessions -> Nat]
      /\ result \in [Sessions -> Results \cup {"none", "error", "deadlock"}]
  BY DEF PostTypeOK
<1>3. DOMAIN posted' = DOMAIN posted \cup {call[s].key}
  BY SMTT(40), <1>1
<1>4. PostTypeOK'
  <2>1. balance' \in [Accounts -> Int] /\ row' \in [Accounts -> Int]
    BY <1>1, <1>2
  <2>2. /\ pc' \in [Sessions -> {"idle", "begin", "post"}]
        /\ n' \in [Sessions -> Nat]
        /\ result' \in [Sessions -> Results \cup {"none", "error", "deadlock"}]
    BY <1>1, <1>2 DEF Results
  <2>3. \A t \in Sessions : IF pc'[t] = "post" THEN n'[t] <= Len(call'[t].entries)
                                               ELSE n'[t] = 0
    BY <1>1, <1>2 DEF PostTypeOK
  <2>4. \A k \in DOMAIN posted' : k \in Keys /\ posted'[k] \in Seq(Entries)
    <3>1. call[s].key \in Keys /\ call[s].entries \in Seq(Entries)
      BY CallShape
    <3>2. QED
      BY <3>1, <1>1 DEF PostTypeOK
  <2>5. QED
    BY ZenonT(60), <1>1, <2>1, <2>2, <2>3, <2>4 DEF PostTypeOK
<1>5. Held(s)' = {} /\ \A t \in Sessions \ {s} : Held(t)' = Held(t)
  <2>1. Held(s)' = {}
    BY <1>1, <1>2 DEF Held
  <2>2. \A t \in Sessions \ {s} : pc'[t] = pc[t] /\ call'[t] = call[t] /\ n'[t] = n[t]
    BY <1>1, <1>2
  <2>3. QED
    BY <2>1, <2>2, HeldKept
<1>6. NoOverdraft'
  BY SMTT(40), <1>1, <1>2 DEF NoOverdraft, Accounts
<1>7. RowIsolation'
  <2>1. \A t, w \in Sessions : t # w => Held(t)' \cap Held(w)' = {}
    BY <1>5 DEF RowIsolation
  <2>2. ASSUME NEW a \in Accounts, \A t \in Sessions : a \notin Held(t)'
        PROVE  row'[a] = balance'[a]
    <3>1. CASE a \in Held(s)
      BY SMTT(40), <3>1, <1>1
    <3>2. CASE a \notin Held(s)
      BY SMTT(40), <3>2, <2>2, <1>1, <1>5 DEF RowIsolation
    <3>3. QED
      BY <3>1, <3>2
  <2>3. ASSUME NEW t \in Sessions, NEW i \in 1 .. n'[t]
        PROVE  row'[call'[t].entries[i].account] =
                 balance'[call'[t].entries[i].account] + call'[t].entries[i].amount
    <3>1. t # s /\ i \in 1 .. n[t]
      BY <2>3, <1>1, <1>2
    <3>2. call[t].entries[i].account \in Held(t) /\ call[t].entries[i].account \in Accounts
      BY <3>1, AppliedEntry
    <3>3. call[t].entries[i].account \notin Held(s)
      BY SMTT(40), <3>1, <3>2 DEF RowIsolation
    <3>4. balance'[call[t].entries[i].account] = balance[call[t].entries[i].account]
      BY <3>2, <3>3, <1>1
    <3>5. row[call[t].entries[i].account] =
            balance[call[t].entries[i].account] + call[t].entries[i].amount
      BY <3>1 DEF RowIsolation
    <3>6. row' = row /\ call'[t] = call[t]
      BY <3>1, <1>1
    <3>7. QED
      BY <3>4, <3>5, <3>6
  <2>4. QED
    BY SMTT(40), <2>1, <2>2, <2>3 DEF RowIsolation
<1>8. KeyOwnership'
  <2>1. \A t \in Sessions : pc'[t] = "post" => t # s /\ pc[t] = "post"
    BY <1>1, <1>2
  <2>2. \A t \in Sessions : pc'[t] = "post" => call[t].key # call[s].key
    BY <1>1, <2>1 DEF KeyOwnership
  <2>3. QED
    BY <1>1, <1>3, <2>1, <2>2 DEF KeyOwnership
<1>9. AckedIsPosted'
  BY <1>1, <1>2, <1>3 DEF AckedIsPosted
<1>10. QED
  BY <1>4, <1>6, <1>7, <1>8, <1>9

(* Every statement of every session preserves the invariant. *)
LEMMA PostNextInv == PostInv /\ [PostNext]_vars => PostInv'
<1> SUFFICES ASSUME PostInv, [PostNext]_vars
             PROVE  PostInv'
  OBVIOUS
<1>1. ASSUME NEW s \in Sessions, NEW c \in Calls, Start(s, c)
      PROVE  PostInv'
  BY <1>1, StartInv
<1>2. ASSUME NEW s \in Sessions, InsertKey(s)
      PROVE  PostInv'
  BY <1>2, InsertKeyInv
<1>3. ASSUME NEW s \in Sessions, ApplyEntry(s)
      PROVE  PostInv'
  BY <1>3, ApplyEntryInv
<1>4. ASSUME NEW s \in Sessions, NEW res \in {"ok", "error"}, Commit(s, res)
      PROVE  PostInv'
  BY <1>4, CommitInv
<1>5. ASSUME NEW s \in Sessions, NEW res \in {"error", "deadlock"}, Return(s, res)
      PROVE  PostInv'
  BY <1>5, ReturnInv
<1>6. CASE UNCHANGED vars
  <2>1. /\ balance' = balance /\ posted' = posted /\ row' = row /\ pc' = pc
        /\ call' = call /\ n' = n /\ result' = result /\ calls' = calls
    BY <1>6 DEF vars
  <2>2. \A s \in Sessions : Held(s)' = Held(s)
    BY <2>1, HeldKept
  <2>3. PostTypeOK' /\ NoOverdraft' /\ KeyOwnership' /\ AckedIsPosted'
    BY SMTT(40), <2>1 DEF PostInv, PostTypeOK, NoOverdraft, KeyOwnership, AckedIsPosted
  <2>4. RowIsolation'
    BY <2>1, <2>2 DEF PostInv, RowIsolation
  <2>5. QED
    BY <2>3, <2>4 DEF PostInv
<1>7. QED
  BY <1>1, <1>2, <1>3, <1>4, <1>5, <1>6 DEF PostNext, Abort, DeadlockAbort

(* The transactions of any number of sessions keep the inductive invariant. *)
THEOREM LedgerInvariant == PostSpec => []PostInv
<1>1. QED
  BY PostInitInv, PostNextInv, PTL DEF PostSpec

(* No interleaving of postings overdraws a user's account: the guard of the
   UPDATE, evaluated on a row nobody else is writing, is enough. *)
THEOREM NeverOverdrawn == PostSpec => []NoOverdraft
<1>1. PostInv => NoOverdraft
  BY DEF PostInv
<1>2. QED
  BY <1>1, LedgerInvariant, PTL

(* A posting is acknowledged only once it is committed, also when the answer
   is "already posted". *)
THEOREM AcknowledgedIsCommitted == PostSpec => []AckedIsPosted
<1>1. PostInv => AckedIsPosted
  BY DEF PostInv
<1>2. QED
  BY <1>1, LedgerInvariant, PTL

-----------------------------------------------------------------------------
(* Refinement: the statements of Post implement the atomic ledger.          *)

(* Start lets only positive amounts through to the database. *)
OpenIsPositive == \A s \in Sessions : pc[s] # "idle" => call[s].amount > 0

(* Every statement keeps the amount that Start has checked. *)
LEMMA PositiveNext ==
  ASSUME PostInv, OpenIsPositive, [PostNext]_vars
  PROVE  OpenIsPositive'
<1> USE DEF PostInv, PostTypeOK, OpenIsPositive
<1>1. ASSUME NEW s \in Sessions, NEW c \in Calls, Start(s, c)
      PROVE  OpenIsPositive'
  <2>1. c.amount \in Int
    BY CallAssumption
  <2>2. QED
    BY <1>1, <2>1 DEF Start
<1>2. ASSUME NEW s \in Sessions, NEW res, Return(s, res)
      PROVE  OpenIsPositive'
  BY <1>2 DEF Return
<1>3. ASSUME NEW s \in Sessions, InsertKey(s)
      PROVE  OpenIsPositive'
  BY <1>2, <1>3 DEF InsertKey
<1>4. ASSUME NEW s \in Sessions, ApplyEntry(s)
      PROVE  OpenIsPositive'
  BY <1>2, <1>4 DEF ApplyEntry
<1>5. ASSUME NEW s \in Sessions, NEW res, Commit(s, res)
      PROVE  OpenIsPositive'
  BY <1>5 DEF Commit, Publish
<1>6. CASE UNCHANGED vars
  BY <1>6 DEF vars
<1>7. QED
  BY <1>1, <1>2, <1>3, <1>4, <1>5, <1>6 DEF PostNext, Abort, DeadlockAbort

(* A transaction that has applied all its entries was covered by the committed
   balances, and its rows are those balances plus its entries. *)
LEMMA CommitPosts ==
  ASSUME PostInv, NEW s \in Sessions, NEW res, Commit(s, res)
  PROVE  Post(call[s].key, call[s].entries, "ok")
<1> DEFINE es == call[s].entries
<1> USE DEF PostInv
<1>1. /\ pc[s] = "post" /\ n[s] = Len(es)
      /\ posted' = Recorded(call[s].key, es)
      /\ balance' = [a \in Accounts |-> IF a \in Held(s) THEN row[a] ELSE balance[a]]
  BY DEF Commit, Publish
<1>2. call[s].key \notin DOMAIN posted
  BY <1>1 DEF KeyOwnership
<1>3. es \in Seq(Entries) /\ Len(es) \in Nat /\ DOMAIN es = 1 .. Len(es)
  BY CallShape, LenProperties
<1>4. \A i \in DOMAIN es : /\ es[i].account \in Accounts
                           /\ es[i].account \in Held(s)
                           /\ row[es[i].account] = balance[es[i].account] + es[i].amount
  BY <1>1, <1>3, AppliedEntry DEF RowIsolation
<1>5. Covered(es)
  <2>1. \A a \in Accounts : Guard(a, row[a])
    BY DEF NoOverdraft, Guard, Accounts
  <2>2. QED
    BY <1>4, <2>1 DEF Covered
<1>6. ASSUME NEW a \in Accounts
      PROVE  (IF a \in Held(s) THEN row[a] ELSE balance[a]) = balance[a] + Delta(es, a)
  <2>1. a \in Held(s) <=> \E i \in DOMAIN es : es[i].account = a
    BY <1>1, <1>3 DEF Held
  <2>2. CASE a \in Held(s)
    <3> DEFINE i == CHOOSE k \in DOMAIN es : es[k].account = a
    <3>1. i \in DOMAIN es /\ es[i].account = a
      BY <2>1, <2>2
    <3>2. Delta(es, a) = es[i].amount
      BY <2>1, <2>2 DEF Delta
    <3>3. QED
      BY <2>2, <3>1, <3>2, <1>4
  <2>3. CASE a \notin Held(s)
    <3>1. Delta(es, a) = 0 /\ balance[a] \in Int
      BY <2>1, <2>3 DEF Delta, PostTypeOK
    <3>2. QED
      BY <2>3, <3>1
  <2>4. QED
    BY <2>2, <2>3
<1>7. balance' = [a \in Accounts |-> balance[a] + Delta(es, a)]
  BY <1>1, <1>6
<1>8. QED
  BY <1>1, <1>2, <1>5, <1>7 DEF Post

(* The commit of a call is the atomic call it came from. *)
LEMMA CommitIsNext ==
  ASSUME PostInv, OpenIsPositive, NEW s \in Sessions, NEW res, Commit(s, res)
  PROVE  Next
<1> DEFINE key == call[s].key
           es == call[s].entries
<1>1. Post(key, es, "ok") /\ key \in Keys /\ IsPosting(call[s]) /\ call[s].amount > 0
  <2>1. pc[s] = "post"
    BY DEF Commit
  <2>2. PostTypeOK
    BY DEF PostInv
  <2>3. QED
    BY <2>1, <2>2, CommitPosts, CallShape, PostingAssumption DEF OpenIsPositive
<1>2. "ok" \in Results
  BY DEF Results
<1>3. ASSUME NEW u \in Users, NEW asset \in Assets, NEW amount \in Amounts,
             call[s].amount = amount,
             es \in {DepositEntries(u, asset, amount), LockEntries(u, asset, amount),
                     UnlockEntries(u, asset, amount), WithdrawalEntries(u, asset, amount)}
      PROVE  Next
  <2>1. PostAmount(key, es, amount, "ok")
    BY <1>1, <1>3 DEF PostAmount
  <2>2. \/ Deposit(u, asset, amount, key, "ok")
        \/ Lock(u, asset, amount, key, "ok")
        \/ Unlock(u, asset, amount, key, "ok")
        \/ SettleWithdrawal(u, asset, amount, key, "ok")
    BY <1>3, <2>1 DEF Deposit, Lock, Unlock, SettleWithdrawal
  <2>3. QED
    BY <1>1, <1>2, <2>2 DEF Next
<1>4. ASSUME NEW buyer \in Users, NEW seller \in Users, NEW base \in Assets,
             NEW quote \in Assets, NEW price \in Amounts, NEW qty \in Amounts,
             base # quote, price > 0, qty > 0,
             es = TradeEntries(buyer, seller, base, quote, price, qty)
      PROVE  Next
  <2>1. SettleTrade(buyer, seller, base, quote, price, qty, key, "ok")
    BY <1>1, <1>4 DEF SettleTrade
  <2>2. QED
    BY <1>1, <1>2, <1>4, <2>1 DEF Next
<1>5. QED
  BY <1>1, <1>3, <1>4 DEF IsPosting

(* Service.Post is atomic: whatever sessions interleave, wait, roll back or
   lose their answers, the tables change as in one Deposit, Lock, Unlock,
   SettleWithdrawal or SettleTrade at a time. *)
THEOREM PostIsAtomic == PostSpec => ImplementsLedger
<1>1. PostInit => Init /\ OpenIsPositive
  BY DEF PostInit, OpenIsPositive
<1>2. PostInv /\ OpenIsPositive /\ [PostNext]_vars => OpenIsPositive'
  BY PositiveNext
<1>3. ASSUME PostInv, OpenIsPositive, [PostNext]_vars
      PROVE  [Next]_ledgerVars
  <2>1. ASSUME NEW s \in Sessions, NEW res \in {"ok", "error"}, Commit(s, res)
        PROVE  Next
    BY <1>3, <2>1, CommitIsNext
  <2>2. CASE \A s \in Sessions : ~ Commit(s, "ok") /\ ~ Commit(s, "error")
    <3>1. posted' = posted /\ balance' = balance
      BY <1>3, <2>2 DEF PostNext, Start, InsertKey, ApplyEntry, Abort,
         DeadlockAbort, Return, vars
    <3>2. QED
      BY <3>1 DEF ledgerVars
  <2>3. QED
    BY <2>1, <2>2
<1>4. QED
  BY <1>1, <1>2, <1>3, LedgerInvariant, PTL DEF PostSpec, ImplementsLedger, Spec

=============================================================================
