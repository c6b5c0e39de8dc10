--------------------------- MODULE OrderBookProofs ---------------------------
(***************************************************************************)
(* Proofs about the order book, for all sets of ids, prices and            *)
(* quantities.                                                             *)
(***************************************************************************)
EXTENDS OrderBook, LeastNumber, SequenceTheorems

(* A side that has a level has a best price. *)
LEMMA BestExists ==
  ASSUME TypeOK, NEW s \in Sides, prices[s] # {}
  PROVE  IsBest(s, best(s))
<1>1. prices[s] \subseteq (-MaxPrice) .. MaxPrice
  BY InputAssumption DEF TypeOK
<1>2. -MaxPrice \in Int /\ MaxPrice \in Int
  BY InputAssumption
<1>3. /\ \E p \in prices[s] : \A q \in prices[s] : p <= q
      /\ \E p \in prices[s] : \A q \in prices[s] : q <= p
  BY ZenonT(60), <1>1, <1>2, LeastInteger, GreatestInteger
<1>4. \E p \in prices[s] : IsBest(s, p)
  BY <1>3 DEF IsBest
<1>5. QED
  BY <1>4 DEF best

(* Dropping an element of a queue keeps the others, in their order. *)
LEMMA WithoutProperties ==
  ASSUME NEW S, NEW q \in Seq(S), NEW i \in 1 .. Len(q)
  PROVE  /\ Without(q, i) \in Seq(S)
         /\ Len(Without(q, i)) = Len(q) - 1
         /\ \A j \in 1 .. Len(q) - 1 :
              Without(q, i)[j] = IF j < i THEN q[j] ELSE q[j + 1]
<1>1. Len(q) \in Nat /\ Len(q) - 1 \in Nat
  OBVIOUS
<1>2. \A j \in 1 .. Len(q) - 1 : (IF j < i THEN q[j] ELSE q[j + 1]) \in S
  OBVIOUS
<1>3. QED
  BY <1>1, <1>2 DEF Without

(* Pushing an element on the back of a queue keeps the others in place. *)
LEMMA PushBackProperties ==
  ASSUME NEW S, NEW q \in Seq(S), NEW e \in S, NEW r, r = Append(q, e)
  PROVE  /\ r \in Seq(S)
         /\ Len(r) = Len(q) + 1
         /\ \A j \in 1 .. Len(q) : r[j] = q[j]
         /\ r[Len(r)] = e
OBVIOUS

(* Taking one resting order out of its queue and out of the map of live
   orders (a full fill of a maker, a cancel) leaves a consistent book. *)
LEMMA RemoveOrder ==
  ASSUME BookInv, NEW s \in Sides, NEW p \in Prices,
         NEW i \in 1 .. Len(levels[s][p]),
         remove(s, p, i),
         live' = [live EXCEPT ![levels[s][p][i]] = NoOrder]
  PROVE  /\ levels' \in [Sides -> [Prices -> Seq(Ids)]]
         /\ prices' \in [Sides -> SUBSET Prices]
         /\ live' \in [Ids -> Order]
         /\ Live' = Live \ {levels[s][p][i]}
         /\ \A k \in Live' : live'[k] = live[k]
         /\ BookConsistent'
         /\ TimePriority'
         /\ RestingQuantities'
         /\ Uncrossed'
<1> DEFINE q == levels[s][p]
           id == levels[s][p][i]
           r == Without(q, i)
<1> USE DEF BookInv, BookConsistent
<1>1. /\ q \in Seq(Ids) /\ id \in Ids
      /\ r \in Seq(Ids) /\ Len(r) = Len(q) - 1
      /\ \A j \in 1 .. Len(r) : r[j] = IF j < i THEN q[j] ELSE q[j + 1]
  <2>1. q \in Seq(Ids)
    BY DEF TypeOK
  <2>2. id \in Ids
    BY <2>1
  <2>3. QED
    BY ZenonT(60), <2>1, <2>2, WithoutProperties
<1>2. /\ levels' = [levels EXCEPT ![s][p] = r]
      /\ prices' = [prices EXCEPT ![s] = IF Len(r) = 0 THEN @ \ {p} ELSE @]
  BY DEF remove
<1> HIDE DEF r
<1>3. levels' \in [Sides -> [Prices -> Seq(Ids)]]
  BY <1>1, <1>2 DEF TypeOK
<1>4. prices' \in [Sides -> SUBSET Prices]
  BY <1>2 DEF TypeOK
<1>5. NoOrder \in Order
  BY DEF NoOrder, Order, Sides
<1>6. live' \in [Ids -> Order]
  BY <1>1, <1>5 DEF TypeOK
<1>7. /\ Live' = Live \ {id}
      /\ \A k \in Ids : k # id => live'[k] = live[k]
  BY <1>1 DEF Live, TypeOK
<1>8. id \in Live /\ live[id].side = s /\ live[id].price = p
  BY <1>1, InputAssumption DEF QueuedIsLive, Live, NoOrder
<1>9. \A j \in 1 .. Len(q) : j # i => q[j] # id
  <2> SUFFICES ASSUME NEW j \in 1 .. Len(q), j # i, q[j] = id
               PROVE  FALSE
    OBVIOUS
  <2>1. live[id].seq \in Nat
    BY <1>1 DEF TypeOK, Order
  <2>2. j < i \/ i < j
    OBVIOUS
  <2>3. live[id].seq < live[id].seq
    BY <2>2 DEF TimePriority
  <2>4. QED
    BY <2>1, <2>3
<1>10. \A t \in Sides, u \in Prices :
         levels'[t][u] = IF t = s /\ u = p THEN r ELSE levels[t][u]
  BY <1>2 DEF TypeOK
<1>11. \A t \in Sides, u \in Prices : \A j \in 1 .. Len(levels'[t][u]) :
         levels'[t][u][j] # id
  <2> SUFFICES ASSUME NEW t \in Sides, NEW u \in Prices,
                      NEW j \in 1 .. Len(levels'[t][u])
               PROVE  levels'[t][u][j] # id
    OBVIOUS
  <2>1. CASE t = s /\ u = p
    <3>1. levels'[t][u] = r
      BY <2>1, <1>10
    <3>2. j \in 1 .. Len(q) /\ j + 1 \in 1 .. Len(q)
      BY <3>1, <1>1
    <3>3. r[j] = IF j < i THEN q[j] ELSE q[j + 1]
      BY <3>1, <1>1
    <3>4. QED
      BY <3>1, <3>2, <3>3, <1>9
  <2>2. CASE ~ (t = s /\ u = p)
    BY SMTT(40), <2>2, <1>10, <1>8 DEF QueuedIsLive
  <2>3. QED
    BY <2>1, <2>2
<1>12. IndexExact'
  <2> SUFFICES ASSUME NEW t \in Sides, NEW u \in Prices
               PROVE  u \in prices'[t] <=> levels'[t][u] # <<>>
    BY DEF IndexExact
  <2>1. CASE t = s /\ u = p
    <3>1. p \in prices[s]
      BY <1>1 DEF IndexExact
    <3>2. r = <<>> <=> Len(r) = 0
      BY ZenonT(60), <1>1, EmptySeq
    <3>3. QED
      BY <2>1, <3>1, <3>2, <1>2, <1>10 DEF TypeOK
  <2>2. CASE ~ (t = s /\ u = p)
    BY <2>2, <1>2, <1>10 DEF TypeOK, IndexExact
  <2>3. QED
    BY <2>1, <2>2
<1>13. QueuedIsLive'
  <2> SUFFICES ASSUME NEW t \in Sides, NEW u \in Prices,
                      NEW j \in 1 .. Len(levels'[t][u])
               PROVE  /\ live'[levels'[t][u][j]].id = levels'[t][u][j]
                      /\ live'[levels'[t][u][j]].side = t
                      /\ live'[levels'[t][u][j]].price = u
    BY DEF QueuedIsLive
  <2>1. PICK k \in 1 .. Len(levels[t][u]) : levels'[t][u][j] = levels[t][u][k]
    <3>1. CASE t = s /\ u = p
      <4>1. levels'[t][u] = r /\ levels[t][u] = q
        BY <3>1, <1>10
      <4>2. j \in 1 .. Len(q) /\ j + 1 \in 1 .. Len(q)
        BY <4>1, <1>1
      <4>3. r[j] = q[j] \/ r[j] = q[j + 1]
        BY <4>1, <1>1
      <4>4. QED
        BY <4>1, <4>2, <4>3
    <3>2. CASE ~ (t = s /\ u = p)
      BY <3>2, <1>10
    <3>3. QED
      BY <3>1, <3>2
  <2>2. levels[t][u] \in Seq(Ids)
    BY DEF TypeOK
  <2>3. levels[t][u][k] \in Ids /\ levels[t][u][k] # id
    BY SMTT(40), <2>1, <2>2, <1>11
  <2>4. QED
    BY <2>1, <2>3, <1>7 DEF QueuedIsLive
<1>14. LiveIsQueued'
  <2> SUFFICES ASSUME NEW k \in Live'
               PROVE  /\ live'[k].price \in Prices
                      /\ \E j \in 1 .. Len(levels'[live'[k].side][live'[k].price]) :
                           levels'[live'[k].side][live'[k].price][j] = k
    BY ZenonT(60) DEF LiveIsQueued
  <2>1. k \in Live /\ k # id /\ live'[k] = live[k] /\ k \in Ids
    BY <1>7 DEF Live
  <2>2. live[k].side \in Sides /\ live[k].price \in Prices
    BY <2>1 DEF TypeOK, Order, LiveIsQueued
  <2>3. PICK j \in 1 .. Len(levels[live[k].side][live[k].price]) :
               levels[live[k].side][live[k].price][j] = k
    BY SMTT(40), <2>1 DEF LiveIsQueued
  <2>4. CASE live[k].side = s /\ live[k].price = p
    <3>1. q[j] = k /\ j # i /\ j \in 1 .. Len(q)
      BY <2>1, <2>3, <2>4
    <3>2. CASE j < i
      <4>1. j \in 1 .. Len(r) /\ r[j] = k
        BY <3>1, <3>2, <1>1
      <4>2. QED
        BY <4>1, <2>1, <2>2, <2>4, <1>10
    <3>3. CASE i < j
      <4>1. j - 1 \in 1 .. Len(r) /\ r[j - 1] = k
        BY <3>1, <3>3, <1>1
      <4>2. QED
        BY <4>1, <2>1, <2>2, <2>4, <1>10
    <3>4. j < i \/ i < j
      BY SMTT(40), <3>1
    <3>5. QED
      BY ZenonT(60), <3>2, <3>3, <3>4
  <2>5. CASE ~ (live[k].side = s /\ live[k].price = p)
    BY SMTT(40), <2>1, <2>2, <2>3, <2>5, <1>10
  <2>6. QED
    BY ZenonT(60), <2>4, <2>5
<1>15. TimePriority'
  <2> SUFFICES ASSUME NEW t \in Sides, NEW u \in Prices,
                      NEW j \in 1 .. Len(levels'[t][u]),
                      NEW k \in 1 .. Len(levels'[t][u]), j < k
               PROVE  live'[levels'[t][u][j]].seq < live'[levels'[t][u][k]].seq
    BY SMTT(40) DEF TimePriority
  <2>1. PICK a, b \in 1 .. Len(levels[t][u]) :
          /\ a < b
          /\ levels'[t][u][j] = levels[t][u][a]
          /\ levels'[t][u][k] = levels[t][u][b]
    <3>1. CASE t = s /\ u = p
      <4> DEFINE a == IF j < i THEN j ELSE j + 1
                 b == IF k < i THEN k ELSE k + 1
      <4>1. levels'[t][u] = r /\ levels[t][u] = q
        BY <3>1, <1>10
      <4>2. a \in 1 .. Len(q) /\ b \in 1 .. Len(q) /\ a < b
        BY <4>1, <1>1
      <4>3. r[j] = q[a] /\ r[k] = q[b]
        BY ZenonT(60), <4>1, <1>1
      <4>4. QED
        BY SMTT(40), <4>1, <4>2, <4>3
    <3>2. CASE ~ (t = s /\ u = p)
      BY <3>2, <1>10
    <3>3. QED
      BY <3>1, <3>2
  <2>2. levels[t][u] \in Seq(Ids)
    BY DEF TypeOK
  <2>3. /\ levels[t][u][a] \in Ids /\ levels[t][u][a] # id
        /\ levels[t][u][b] \in Ids /\ levels[t][u][b] # id
    BY <2>1, <2>2, <1>11
  <2>4. QED
    BY SMTT(40), <2>1, <2>3, <1>7 DEF TimePriority
<1>16. RestingQuantities'
  BY <1>7 DEF RestingQuantities, Live
<1>17. Uncrossed'
  <2>1. prices'["buy"] \subseteq prices["buy"] /\ prices'["sell"] \subseteq prices["sell"]
    BY <1>2 DEF TypeOK, Sides
  <2>2. QED
    BY <2>1 DEF Uncrossed
<1>18. QED
  BY <1>3, <1>4, <1>6, <1>7, <1>12, <1>13, <1>14, <1>15, <1>16, <1>17 DEF Live
(* Resting the remainder of a limit order that can match no further leaves a
   consistent book, and leaves it uncrossed. *)
LEMMA RestOrder ==
  ASSUME BookInv, pc = "limit", ~ CanMatch(taker), taker.remaining > 0,
         add(taker.side, taker.price, taker.id),
         live' = [live EXCEPT ![taker.id] = taker]
  PROVE  /\ levels' \in [Sides -> [Prices -> Seq(Ids)]]
         /\ prices' \in [Sides -> SUBSET Prices]
         /\ live' \in [Ids -> Order]
         /\ \A k \in Live' : live'[k].seq \in 1 .. seq
         /\ BookConsistent'
         /\ TimePriority'
         /\ RestingQuantities'
         /\ Uncrossed'
<1> DEFINE s == taker.side
           p == taker.price
           id == taker.id
           q == IF p \in prices[s] THEN Append(levels[s][p], id) ELSE <<id>>
<1> USE DEF BookInv, BookConsistent
<1>1. /\ s \in Sides /\ p \in Prices /\ p > 0 /\ p \in Int
      /\ id \in Ids /\ id \notin Live /\ taker # NoOrder
      /\ taker \in Order /\ taker.seq = seq /\ seq \in Nat
  <2>1. taker \in Order /\ seq \in Nat
    BY DEF TypeOK
  <2>2. taker.side \in Sides /\ taker.price \in Int
    BY <2>1 DEF Order
  <2>3. /\ taker.id \in Ids /\ taker.id \notin Live /\ taker.seq = seq
        /\ taker.price \in Prices /\ taker.price > 0
    BY DEF MatchState
  <2>4. taker # NoOrder
    BY <2>3 DEF NoOrder
  <2>5. QED
    BY <2>1, <2>2, <2>3, <2>4
<1>2. /\ levels[s][p] \in Seq(Ids)
      /\ p \notin prices[s] => levels[s][p] = <<>>
  BY ZenonT(60), <1>1 DEF TypeOK, IndexExact
<1>3. /\ q \in Seq(Ids)
      /\ Len(q) = Len(levels[s][p]) + 1
      /\ \A j \in 1 .. Len(levels[s][p]) : q[j] = levels[s][p][j]
      /\ q[Len(q)] = id
  <2>1. CASE p \in prices[s]
    <3>1. q = Append(levels[s][p], id)
      BY SMTT(40), <2>1
    <3> DEFINE w == levels[s][p]
    <3>2. w \in Seq(Ids) /\ id \in Ids /\ q = Append(w, id)
      BY ZenonT(60), <3>1, <1>1, <1>2
    <3> HIDE DEF q, w, id
    <3>3. /\ q \in Seq(Ids) /\ Len(q) = Len(w) + 1
          /\ \A j \in 1 .. Len(w) : q[j] = w[j]
          /\ q[Len(q)] = id
      BY ONLY <3>2, PushBackProperties
    <3>4. QED
      BY <3>3 DEF w
  <2>2. CASE p \notin prices[s]
    <3>1. q = <<id>> /\ levels[s][p] = <<>>
      BY <2>2, <1>2
    <3>2. QED
      BY <3>1, <1>1
  <2>3. QED
    BY <2>1, <2>2
<1>4. /\ levels' = [levels EXCEPT ![s][p] = q]
      /\ prices' = [prices EXCEPT ![s] = @ \cup {p}]
  BY DEF add
<1> HIDE DEF q
<1>5. levels' \in [Sides -> [Prices -> Seq(Ids)]]
  BY <1>1, <1>3, <1>4 DEF TypeOK
<1>6. prices' \in [Sides -> SUBSET Prices]
  BY <1>1, <1>4 DEF TypeOK
<1>7. live' \in [Ids -> Order]
  BY <1>1 DEF TypeOK
<1>8. /\ Live' = Live \cup {id}
      /\ live'[id] = taker
      /\ \A k \in Ids : k # id => live'[k] = live[k]
  BY <1>1 DEF Live, TypeOK
<1>9. \A t \in Sides, u \in Prices :
        levels'[t][u] = IF t = s /\ u = p THEN q ELSE levels[t][u]
  BY <1>4 DEF TypeOK
<1>19. ASSUME NEW t \in Sides, NEW u \in Prices
       PROVE  /\ Len(levels[t][u]) \in Nat /\ Len(levels'[t][u]) \in Nat
              /\ Len(levels[t][u]) <= Len(levels'[t][u])
              /\ \A j \in 1 .. Len(levels'[t][u]) :
                   ~ (t = s /\ u = p /\ j = Len(q)) => j \in 1 .. Len(levels[t][u])
              /\ \A j \in 1 .. Len(levels[t][u]) : levels'[t][u][j] = levels[t][u][j]
  <2>1. levels[t][u] \in Seq(Ids)
    BY DEF TypeOK
  <2>2. Len(levels[t][u]) \in Nat
    BY <2>1, LenProperties
  <2>3. CASE t = s /\ u = p
    <3>1. levels'[t][u] = q /\ Len(q) = Len(levels[t][u]) + 1
      BY <2>3, <1>3, <1>9
    <3>2. \A j \in 1 .. Len(levels[t][u]) : q[j] = levels[t][u][j]
      BY <2>3, <1>3
    <3>3. /\ Len(levels'[t][u]) \in Nat
          /\ Len(levels[t][u]) <= Len(levels'[t][u])
      BY <2>2, <3>1
    <3>4. \A j \in 1 .. Len(levels'[t][u]) :
            ~ (t = s /\ u = p /\ j = Len(q)) => j \in 1 .. Len(levels[t][u])
      BY <2>2, <2>3, <3>1
    <3>5. \A j \in 1 .. Len(levels[t][u]) : levels'[t][u][j] = levels[t][u][j]
      BY <3>1, <3>2
    <3>6. QED
      BY <2>2, <3>3, <3>4, <3>5
  <2>4. CASE ~ (t = s /\ u = p)
    <3>1. levels'[t][u] = levels[t][u]
      BY <2>4, <1>9
    <3>2. QED
      BY <2>2, <3>1
  <2>5. QED
    BY <2>3, <2>4
<1>10. \A t \in Sides, u \in Prices : \A j \in 1 .. Len(levels[t][u]) :
         levels[t][u][j] \in Live /\ levels[t][u][j] # id
  <2> SUFFICES ASSUME NEW t \in Sides, NEW u \in Prices,
                      NEW j \in 1 .. Len(levels[t][u])
               PROVE  levels[t][u][j] \in Live
    BY <1>1
  <2>1. levels[t][u] \in Seq(Ids)
    BY DEF TypeOK
  <2>2. levels[t][u][j] \in Ids
    BY <2>1
  <2>3. live[levels[t][u][j]].id = levels[t][u][j]
    BY DEF QueuedIsLive
  <2>4. QED
    BY <2>2, <2>3, InputAssumption DEF Live, NoOrder
<1>11. IndexExact'
  <2> SUFFICES ASSUME NEW t \in Sides, NEW u \in Prices
               PROVE  u \in prices'[t] <=> levels'[t][u] # <<>>
    BY DEF IndexExact
  <2>1. CASE t = s /\ u = p
    <3>1. q # <<>>
      BY <1>2, <1>3, EmptySeq
    <3>2. p \in prices'[s]
      BY <1>1, <1>4 DEF TypeOK
    <3>3. levels'[s][p] = q
      BY <1>1, <1>9
    <3>4. QED
      BY <2>1, <3>1, <3>2, <3>3
  <2>2. CASE ~ (t = s /\ u = p)
    <3>1. u \in prices'[t] <=> u \in prices[t]
      BY <2>2, <1>1, <1>4 DEF TypeOK
    <3>2. levels'[t][u] = levels[t][u]
      BY SMTT(40), <2>2, <1>9
    <3>3. QED
      BY <3>1, <3>2 DEF IndexExact
  <2>3. QED
    BY <2>1, <2>2
<1>12. QueuedIsLive'
  <2> SUFFICES ASSUME NEW t \in Sides, NEW u \in Prices,
                      NEW j \in 1 .. Len(levels'[t][u])
               PROVE  /\ live'[levels'[t][u][j]].id = levels'[t][u][j]
                      /\ live'[levels'[t][u][j]].side = t
                      /\ live'[levels'[t][u][j]].price = u
    BY SMTT(40) DEF QueuedIsLive
  <2>1. CASE t = s /\ u = p /\ j = Len(q)
    BY ZenonT(60), <2>1, <1>3, <1>8, <1>9
  <2>2. CASE ~ (t = s /\ u = p /\ j = Len(q))
    <3>1. j \in 1 .. Len(levels[t][u])
      BY SMTT(40), <2>2, <1>3, <1>19
    <3>4. levels'[t][u][j] = levels[t][u][j]
      BY <3>1, <1>19
    <3>2. levels[t][u][j] \in Ids /\ levels[t][u][j] # id
      BY <3>1, <1>10 DEF Live
    <3>3. QED
      BY SMTT(40), <3>1, <3>2, <3>4, <1>8 DEF QueuedIsLive
  <2>3. QED
    BY SMTT(40), <2>1, <2>2
<1>13. LiveIsQueued'
  <2> SUFFICES ASSUME NEW k \in Live'
               PROVE  /\ live'[k].price \in Prices
                      /\ \E j \in 1 .. Len(levels'[live'[k].side][live'[k].price]) :
                           levels'[live'[k].side][live'[k].price][j] = k
    BY DEF LiveIsQueued
  <2>1. CASE k = id
    <3>1. Len(q) \in 1 .. Len(q)
      BY <1>2, <1>3
    <3>2. live'[k].side = s /\ live'[k].price = p /\ p \in Prices
      BY <2>1, <1>1, <1>8
    <3>3. levels'[s][p] = q /\ q[Len(q)] = id
      BY SMTT(40), <1>1, <1>3, <1>9
    <3>4. QED
      BY <2>1, <3>1, <3>2, <3>3
  <2>2. CASE k # id
    <3>1. k \in Live /\ live'[k] = live[k] /\ k \in Ids
      BY <2>2, <1>8 DEF Live
    <3>2. live[k].side \in Sides /\ live[k].price \in Prices
      BY <3>1 DEF TypeOK, Order, LiveIsQueued
    <3>3. PICK j \in 1 .. Len(levels[live[k].side][live[k].price]) :
                 levels[live[k].side][live[k].price][j] = k
      BY SMTT(40), <3>1 DEF LiveIsQueued
    <3>4. levels'[live[k].side][live[k].price][j] = k
      BY SMTT(40), <3>2, <3>3, <1>19
    <3>5. j \in 1 .. Len(levels'[live[k].side][live[k].price])
      BY SMTT(40), <3>2, <3>3, <1>19
    <3>6. QED
      BY <3>1, <3>2, <3>4, <3>5
  <2>3. QED
    BY SMTT(40), <2>1, <2>2
<1>14. TimePriority'
  <2> SUFFICES ASSUME NEW t \in Sides, NEW u \in Prices,
                      NEW j \in 1 .. Len(levels'[t][u]),
                      NEW k \in 1 .. Len(levels'[t][u]), j < k
               PROVE  live'[levels'[t][u][j]].seq < live'[levels'[t][u][k]].seq
    BY DEF TimePriority
  <2>1. j \in 1 .. Len(levels[t][u])
    BY <1>19
  <2>6. levels'[t][u][j] = levels[t][u][j]
    BY SMTT(40), <2>1, <1>19
  <2>2. /\ levels[t][u][j] \in Live
        /\ live'[levels[t][u][j]] = live[levels[t][u][j]]
    BY SMTT(40), <2>1, <1>8, <1>10 DEF Live
  <2>3. CASE t = s /\ u = p /\ k = Len(q)
    <3>1. live[levels[t][u][j]].seq < seq
      BY <2>2 DEF MatchState
    <3>2. QED
      BY ZenonT(60), <2>1, <2>2, <2>3, <2>6, <3>1, <1>1, <1>3, <1>8, <1>9
  <2>4. CASE ~ (t = s /\ u = p /\ k = Len(q))
    <3>1. k \in 1 .. Len(levels[t][u])
      BY <2>4, <1>3, <1>19
    <3>4. levels'[t][u][k] = levels[t][u][k]
      BY <3>1, <1>19
    <3>2. live'[levels[t][u][k]] = live[levels[t][u][k]]
      BY <3>1, <1>8, <1>10 DEF Live
    <3>3. QED
      BY SMTT(40), <2>1, <2>2, <2>6, <3>1, <3>2, <3>4 DEF TimePriority
  <2>5. QED
    BY SMTT(40), <2>3, <2>4
<1>15. RestingQuantities'
  <2>1. taker.remaining \in 1 .. taker.qty
    <3>1. taker.remaining \in 0 .. taker.qty /\ taker.qty \in Int
      BY <1>1 DEF MatchState, Order
    <3>2. QED
      BY <3>1
  <2>2. QED
    BY <2>1, <1>1, <1>8 DEF RestingQuantities, Live
<1>16. Uncrossed'
  <2>1. \A u \in prices[Opposite(s)] : IF s = "buy" THEN p < u ELSE u < p
    <3>1. CASE prices[Opposite(s)] = {}
      BY <3>1
    <3>2. CASE prices[Opposite(s)] # {}
      <4>1. Opposite(s) \in Sides /\ Opposite(s) # s
        BY DEF Opposite, Sides
      <4>2. IsBest(Opposite(s), best(Opposite(s)))
        BY <3>2, <4>1, BestExists
      <4>3. prices[Opposite(s)] \subseteq Int
        <5>1. prices[Opposite(s)] \subseteq Prices
          BY <4>1 DEF TypeOK
        <5>2. Prices \subseteq Int
          BY InputAssumption
        <5>3. QED
          BY ZenonT(60), <5>1, <5>2
      <4>4. ~ crosses(taker, best(Opposite(s)))
        BY <3>2 DEF CanMatch
      <4>5. QED
        BY <4>1, <4>2, <4>3, <4>4, <1>1 DEF IsBest, crosses, Sides, Opposite
    <3>3. QED
      BY <3>1, <3>2
  <2>2. CASE s = "buy"
    <3>1. prices'["buy"] = prices["buy"] \cup {p} /\ prices'["sell"] = prices["sell"]
      BY <2>2, <1>4 DEF TypeOK, Sides
    <3>2. QED
      BY <2>1, <2>2, <3>1 DEF Uncrossed, Opposite
  <2>3. CASE s = "sell"
    <3>1. prices'["sell"] = prices["sell"] \cup {p} /\ prices'["buy"] = prices["buy"]
      BY <2>3, <1>4 DEF TypeOK, Sides
    <3>2. QED
      BY <2>1, <2>3, <3>1 DEF Uncrossed, Opposite
  <2>4. QED
    BY <2>2, <2>3, <1>1 DEF Sides
<1>17. \A k \in Live' : live'[k].seq \in 1 .. seq
  <2>1. seq > 0
    BY <1>1 DEF MatchState
  <2>2. QED
    BY <1>1, <1>8 DEF MatchState, Live
<1>18. QED
  BY <1>5, <1>6, <1>7, <1>11, <1>12, <1>13, <1>14, <1>15, <1>16, <1>17
(* Reducing the remainder of one resting order, to something positive, leaves
   a consistent book. *)
LEMMA ReduceOrder ==
  ASSUME BookInv, NEW id \in Live, NEW n \in Int,
         n > 0, n < live[id].remaining,
         live' = [live EXCEPT ![id].remaining = @ - n],
         UNCHANGED <<levels, prices>>
  PROVE  /\ live' \in [Ids -> Order]
         /\ Live' = Live
         /\ \A k \in Live : live'[k].seq = live[k].seq
         /\ BookConsistent'
         /\ TimePriority'
         /\ RestingQuantities'
         /\ Uncrossed'
<1> USE DEF BookInv, BookConsistent
<1>1. id \in Ids /\ live \in [Ids -> Order] /\ live[id] \in Order
  BY DEF TypeOK, Live
<1>2. live[id].remaining \in Int /\ live[id].qty \in Int
  BY <1>1 DEF Order
<1>3. live' \in [Ids -> Order]
  BY <1>1, <1>2 DEF Order
<1>4. \A k \in Ids : /\ live'[k].id = live[k].id /\ live'[k].side = live[k].side
                     /\ live'[k].price = live[k].price /\ live'[k].qty = live[k].qty
                     /\ live'[k].seq = live[k].seq
                     /\ live'[k].remaining = IF k = id THEN live[id].remaining - n
                                             ELSE live[k].remaining
  BY <1>1 DEF Order
<1>5. \A k \in Ids : k # id => live'[k] = live[k]
  BY <1>1
<1>6. live[id].id = id
  <2>1. PICK i \in 1 .. Len(levels[live[id].side][live[id].price]) :
               levels[live[id].side][live[id].price][i] = id
    BY DEF LiveIsQueued
  <2>2. live[id].side \in Sides /\ live[id].price \in Prices
    BY <1>1 DEF Order, LiveIsQueued
  <2>3. QED
    BY <2>1, <2>2 DEF QueuedIsLive
<1>7. live'[id] # NoOrder
  BY <1>1, <1>4, <1>6, InputAssumption DEF NoOrder
<1>8. Live' = Live
  BY <1>5, <1>7 DEF Live
<1>9. IndexExact'
  BY DEF IndexExact
<1>10. \A s \in Sides, p \in Prices : \A i \in 1 .. Len(levels[s][p]) :
         levels[s][p][i] \in Ids
  <2> SUFFICES ASSUME NEW s \in Sides, NEW p \in Prices
               PROVE  \A i \in 1 .. Len(levels[s][p]) : levels[s][p][i] \in Ids
    OBVIOUS
  <2>1. levels[s][p] \in Seq(Ids)
    BY DEF TypeOK
  <2>2. QED
    BY <2>1
<1>11. QueuedIsLive'
  BY SMTT(40), <1>4, <1>10 DEF QueuedIsLive
<1>12. LiveIsQueued'
  BY <1>4, <1>8 DEF LiveIsQueued, Live
<1>13. TimePriority'
  BY <1>4, <1>10 DEF TimePriority
<1>14. RestingQuantities'
  <2> SUFFICES ASSUME NEW k \in Live
               PROVE  live'[k].price > 0 /\ live'[k].remaining \in 1 .. live'[k].qty
    BY <1>8 DEF RestingQuantities
  <2>1. live[k].price > 0 /\ live[k].remaining \in 1 .. live[k].qty /\ k \in Ids
    BY DEF RestingQuantities, Live
  <2>2. QED
    BY <2>1, <1>2, <1>4
<1>15. Uncrossed'
  BY SMTT(40) DEF Uncrossed
<1>16. QED
  BY <1>3, <1>4, <1>8, <1>9, <1>11, <1>12, <1>13, <1>14, <1>15 DEF Live

(* The front order of the best opposite level, which a fill trades with. *)
LEMMA FrontMaker ==
  ASSUME BookInv, CanMatch(taker), pc # "idle"
  PROVE  LET opp == Opposite(taker.side)
             price == best(opp)
             id == levels[opp][price][1]
         IN  /\ opp \in Sides /\ opp # taker.side /\ price \in Prices
             /\ IsBest(opp, price)
             /\ levels[opp][price] \in Seq(Ids) /\ levels[opp][price] # <<>>
             /\ 1 \in 1 .. Len(levels[opp][price])
             /\ Head(levels[opp][price]) = id
             /\ id \in Live /\ id \in Ids /\ live[id] \in Order
             /\ live[id].id = id /\ live[id].side = opp /\ live[id].price = price
             /\ live[id].remaining \in 1 .. live[id].qty
<1> DEFINE opp == Opposite(taker.side)
           price == best(opp)
           q == levels[opp][price]
           id == q[1]
<1> USE DEF BookInv, BookConsistent
<1>1. opp \in Sides /\ opp # taker.side
  BY DEF Opposite, Sides
<1>2. IsBest(opp, price)
  BY <1>1, BestExists DEF CanMatch
<1>3. price \in prices[opp] /\ price \in Prices
  BY <1>1, <1>2 DEF IsBest, TypeOK
<1> HIDE DEF price, opp
<1>4. q \in Seq(Ids) /\ q # <<>>
  BY <1>1, <1>3 DEF TypeOK, IndexExact
<1>5. 1 \in 1 .. Len(q) /\ Head(q) = id /\ id \in Ids
  BY <1>4
<1>6. live[id].id = id /\ live[id].side = opp /\ live[id].price = price
  BY <1>1, <1>3, <1>5 DEF QueuedIsLive
<1>7. id \in Live
  BY <1>5, <1>6, InputAssumption DEF Live, NoOrder
<1>8. live[id] \in Order /\ live[id].remaining \in 1 .. live[id].qty
  BY <1>5, <1>7 DEF TypeOK, RestingQuantities
<1>9. QED
  BY ZenonT(60), <1>1, <1>2, <1>3, <1>4, <1>5, <1>6, <1>7, <1>8 DEF price, opp
-----------------------------------------------------------------------------

(* The empty book satisfies the invariant. *)
LEMMA InitInv == Init => BookInv
<1> SUFFICES ASSUME Init
             PROVE  BookInv
  OBVIOUS
<1> USE DEF Init
<1>1. NoOrder \in Order
  BY DEF NoOrder, Order, Sides
<1>2. TypeOK
  BY <1>1 DEF TypeOK
<1>3. Live = {}
  BY DEF Live
<1>4. BookConsistent
  BY <1>3 DEF BookConsistent, IndexExact, QueuedIsLive, LiveIsQueued
<1>5. TimePriority /\ RestingQuantities /\ Uncrossed /\ MatchState
  BY <1>3 DEF TimePriority, RestingQuantities, Uncrossed, MatchState, Sides
<1>6. QED
  BY <1>2, <1>4, <1>5 DEF BookInv

(* What holds of the book at rest still holds when the book is not touched. *)
LEMMA BookUntouched ==
  ASSUME BookInv, levels' = levels, prices' = prices, live' = live
  PROVE  /\ Live' = Live /\ BookConsistent' /\ TimePriority'
         /\ RestingQuantities' /\ Uncrossed'
<1> USE DEF BookInv
<1>1. Live' = Live
  BY DEF Live
<1>2. IndexExact'
  BY DEF BookConsistent, IndexExact
<1>3. QueuedIsLive'
  BY DEF BookConsistent, QueuedIsLive
<1>4. LiveIsQueued'
  BY <1>1 DEF BookConsistent, LiveIsQueued
<1>5. TimePriority' /\ RestingQuantities' /\ Uncrossed'
  BY <1>1 DEF TimePriority, RestingQuantities, Uncrossed
<1>6. QED
  BY <1>1, <1>2, <1>3, <1>4, <1>5 DEF BookConsistent

(* A call that fails leaves the invariant alone. *)
LEMMA FailInv ==
  ASSUME BookInv, NEW e \in {"invalid", "duplicate", "not found"}, Fail(e)
  PROVE  BookInv'
<1> USE DEF BookInv
<1>1. /\ levels' = levels /\ prices' = prices /\ live' = live /\ seq' = seq
      /\ pc' = pc /\ taker' = taker /\ trades' = <<>> /\ err' = e
  BY DEF Fail
<1>2. trades' \in Seq(Trade)
  BY <1>1, EmptySeq
<1>3. TypeOK'
  BY <1>1, <1>2 DEF TypeOK
<1>4. /\ Live' = Live /\ BookConsistent' /\ TimePriority'
      /\ RestingQuantities' /\ Uncrossed'
  BY <1>1, BookUntouched
<1>5. MatchState'
  BY <1>1, <1>4 DEF MatchState
<1>6. QED
  BY <1>3, <1>4, <1>5

(* Accepting an order into the matching loop preserves the invariant. *)
LEMMA StartMatchInv ==
  ASSUME BookInv, pc = "idle",
         NEW call \in {"limit", "market"}, NEW id \in Ids, id \notin Live,
         NEW side \in Sides, NEW price \in Int, NEW qty \in Int, qty > 0,
         call = "limit" => price \in Prices /\ price > 0,
         call = "market" => price = 0,
         StartMatch(call, id, side, price, qty)
  PROVE  BookInv'
<1> USE DEF BookInv, StartMatch
<1>1. Live' = Live
  BY DEF Live
<1>2. TypeOK'
  <2>1. seq \in Nat
    BY DEF TypeOK
  <2>2. seq' \in Nat
    BY <2>1
  <2>3. taker' \in Order
    BY <2>1 DEF Order
  <2>4. trades' \in Seq(Trade)
    OBVIOUS
  <2>5. QED
    BY <2>2, <2>3, <2>4 DEF TypeOK
<1>3. BookConsistent'
  <2>1. IndexExact' /\ QueuedIsLive'
    BY SMTT(40) DEF BookConsistent, IndexExact, QueuedIsLive
  <2>2. LiveIsQueued'
    BY SMTT(40), <1>1 DEF BookConsistent, LiveIsQueued
  <2>3. QED
    BY SMTT(40), <2>1, <2>2 DEF BookConsistent
<1>4. TimePriority' /\ RestingQuantities' /\ Uncrossed'
  BY <1>1 DEF TimePriority, RestingQuantities, Uncrossed
<1>5. MatchState'
  <2>1. \A k \in Live : live[k].seq \in 1 .. seq
    BY DEF MatchState
  <2>2. seq \in Nat /\ seq' = seq + 1
    BY DEF TypeOK
  <2>3. \A k \in Live' : live'[k].seq \in 1 .. seq' /\ live'[k].seq < seq'
    BY <1>1, <2>1, <2>2
  <2>4. QED
    BY SMTT(40), <1>1, <2>2, <2>3 DEF MatchState
<1>6. QED
  BY <1>2, <1>3, <1>4, <1>5

(* One fill of the matching loop preserves the invariant. *)
LEMMA MatchInv ==
  ASSUME BookInv, match
  PROVE  BookInv'
<1> DEFINE opp == Opposite(taker.side)
           price == best(opp)
           id == levels[opp][price][1]
           qty == min64(taker.remaining, live[id].remaining)
<1> USE DEF BookInv
<1>1. pc # "idle" /\ CanMatch(taker)
  BY ZenonT(60) DEF match
<1>2. /\ opp \in Sides /\ price \in Prices
      /\ 1 \in 1 .. Len(levels[opp][price])
      /\ Head(levels[opp][price]) = id
      /\ id \in Live /\ id \in Ids /\ live[id] \in Order /\ live[id].id = id
      /\ live[id].remaining \in 1 .. live[id].qty
  BY ZenonT(60), <1>1, FrontMaker
<1>3. /\ trades' = Append(trades, [taker |-> taker.id, maker |-> id,
                                   price |-> price, qty |-> qty])
      /\ taker' = [taker EXCEPT !.remaining = @ - qty]
      /\ UNCHANGED <<seq, pc, err>>
      /\ IF live[id].remaining = qty
         THEN remove(opp, price, 1) /\ live' = [live EXCEPT ![id] = NoOrder]
         ELSE /\ live' = [live EXCEPT ![id].remaining = @ - qty]
              /\ UNCHANGED <<levels, prices>>
  BY ZenonT(60), <1>2 DEF match
<1> HIDE DEF opp, price
<1>4. /\ taker \in Order /\ taker.remaining \in Int /\ taker.qty \in Int
      /\ taker.remaining > 0 /\ taker.remaining <= taker.qty
      /\ live[id].remaining \in Int
  <2>1. taker \in Order
    BY DEF TypeOK
  <2>2. /\ taker.remaining \in Int /\ taker.qty \in Int
        /\ live[id].remaining \in Int
    BY <2>1, <1>2 DEF Order
  <2>3. taker.remaining > 0
    BY <1>1 DEF CanMatch
  <2>4. taker.remaining \in 0 .. taker.qty
    BY SMTT(40), <1>1 DEF MatchState
  <2>5. QED
    BY <2>1, <2>2, <2>3, <2>4
<1>5. qty \in Int /\ qty > 0 /\ qty <= taker.remaining /\ qty <= live[id].remaining
  BY SMTT(40), <1>2, <1>4 DEF min64
<1> HIDE DEF qty
<1>6. /\ taker' \in Order /\ taker'.remaining \in 0 .. taker'.qty
      /\ taker'.id = taker.id /\ taker'.seq = taker.seq /\ taker'.price = taker.price
  BY SMTT(40), <1>3, <1>4, <1>5 DEF Order
<1>7. trades' \in Seq(Trade)
  <2>1. taker.id \in Ids
    BY <1>1 DEF MatchState
  <2>2. price \in Int
    BY SMTT(40), <1>2, InputAssumption
  <2>3. [taker |-> taker.id, maker |-> id, price |-> price, qty |-> qty] \in Trade
    BY <2>1, <2>2, <1>2, <1>5 DEF Trade
  <2>4. trades \in Seq(Trade)
    BY DEF TypeOK
  <2>5. QED
    BY <2>3, <2>4, <1>3
<1>8. CASE live[id].remaining = qty
  <2>1. /\ levels' \in [Sides -> [Prices -> Seq(Ids)]]
        /\ prices' \in [Sides -> SUBSET Prices]
        /\ live' \in [Ids -> Order]
        /\ Live' \subseteq Live
        /\ \A k \in Live' : live'[k] = live[k]
        /\ BookConsistent' /\ TimePriority' /\ RestingQuantities' /\ Uncrossed'
    BY <1>2, <1>3, <1>8, RemoveOrder
  <2>2. TypeOK'
    BY <2>1, <1>3, <1>6, <1>7 DEF TypeOK
  <2>3. MatchState'
    BY <2>1, <1>1, <1>3, <1>6 DEF MatchState
  <2>4. QED
    BY <2>1, <2>2, <2>3
<1>9. CASE live[id].remaining # qty
  <2>1. /\ live' \in [Ids -> Order]
        /\ Live' = Live
        /\ \A k \in Live : live'[k].seq = live[k].seq
        /\ BookConsistent' /\ TimePriority' /\ RestingQuantities' /\ Uncrossed'
    <3>1. qty < live[id].remaining
      BY <1>4, <1>5, <1>9
    <3>2. QED
      BY <3>1, <1>2, <1>3, <1>5, <1>9, ReduceOrder
  <2>2. TypeOK'
    BY <2>1, <1>3, <1>6, <1>7, <1>9 DEF TypeOK
  <2>3. MatchState'
    BY <2>1, <1>1, <1>3, <1>6 DEF MatchState
  <2>4. QED
    BY SMTT(40), <2>1, <2>2, <2>3
<1>10. QED
  BY SMTT(40), <1>8, <1>9
(* The end of a place call, resting or dropping the remainder, preserves the
   invariant. *)
LEMMA RestInv ==
  ASSUME BookInv, rest
  PROVE  BookInv'
<1> USE DEF BookInv
<1>1. /\ pc # "idle" /\ ~ CanMatch(taker) /\ pc' = "idle" /\ taker' = NoOrder
      /\ seq' = seq /\ trades' = trades /\ err' = err
  BY DEF rest, Return
<1>2. NoOrder \in Order
  BY DEF NoOrder, Order, Sides
<1>3. CASE pc = "limit" /\ taker.remaining > 0
  <2>1. /\ levels' \in [Sides -> [Prices -> Seq(Ids)]]
        /\ prices' \in [Sides -> SUBSET Prices]
        /\ live' \in [Ids -> Order]
        /\ \A k \in Live' : live'[k].seq \in 1 .. seq
        /\ BookConsistent' /\ TimePriority' /\ RestingQuantities' /\ Uncrossed'
    BY <1>3, RestOrder DEF rest
  <2>2. TypeOK'
    BY <2>1, <1>1, <1>2 DEF TypeOK
  <2>3. MatchState'
    BY <2>1, <1>1 DEF MatchState
  <2>4. QED
    BY <2>1, <2>2, <2>3
<1>4. CASE ~ (pc = "limit" /\ taker.remaining > 0)
  <2>1. levels' = levels /\ prices' = prices /\ live' = live
    BY <1>4 DEF rest
  <2>2. /\ Live' = Live /\ BookConsistent' /\ TimePriority'
        /\ RestingQuantities' /\ Uncrossed'
    BY <2>1, BookUntouched
  <2>3. TypeOK'
    BY <2>1, <1>1, <1>2 DEF TypeOK
  <2>4. MatchState'
    BY <2>1, <2>2, <1>1 DEF MatchState
  <2>5. QED
    BY <2>2, <2>3, <2>4
<1>5. QED
  BY <1>3, <1>4

(* A cancel preserves the invariant. *)
LEMMA CancelInv ==
  ASSUME BookInv, NEW id \in Ids, Cancel(id)
  PROVE  BookInv'
<1> USE DEF BookInv
<1>1. CASE id \notin Live
  <2>1. Fail("not found")
    BY <1>1 DEF Cancel
  <2>2. QED
    BY <2>1, FailInv
<1>2. CASE id \in Live
  <2> DEFINE s == live[id].side
             p == live[id].price
  <2>1. /\ pc = "idle" /\ live' = [live EXCEPT ![id] = NoOrder] /\ trades' = <<>>
        /\ err' = "none" /\ seq' = seq /\ pc' = pc /\ taker' = taker
    BY ZenonT(60), <1>2 DEF Cancel, Fail
  <2>2. PICK i \in 1 .. Len(levels[s][p]) : levels[s][p][i] = id /\ remove(s, p, i)
    BY <1>2 DEF Cancel, Fail
  <2>3. s \in Sides /\ p \in Prices
    BY <1>2 DEF TypeOK, Order, BookConsistent, LiveIsQueued
  <2> HIDE DEF s, p
  <2>4. /\ levels' \in [Sides -> [Prices -> Seq(Ids)]]
        /\ prices' \in [Sides -> SUBSET Prices]
        /\ live' \in [Ids -> Order]
        /\ Live' \subseteq Live
        /\ \A k \in Live' : live'[k] = live[k]
        /\ BookConsistent' /\ TimePriority' /\ RestingQuantities' /\ Uncrossed'
    BY ZenonT(60), <2>1, <2>2, <2>3, RemoveOrder
  <2>5. trades' \in Seq(Trade)
    BY <2>1, EmptySeq
  <2>6. TypeOK'
    BY <2>1, <2>4, <2>5 DEF TypeOK
  <2>7. MatchState'
    BY <2>1, <2>4 DEF MatchState
  <2>8. QED
    BY SMTT(40), <2>4, <2>6, <2>7
<1>3. QED
  BY <1>1, <1>2

(* Every step preserves the invariant. *)
LEMMA NextInv == BookInv /\ [Next]_vars => BookInv'
<1> SUFFICES ASSUME BookInv, [Next]_vars
             PROVE  BookInv'
  OBVIOUS
<1>1. ASSUME NEW id \in Ids, NEW side \in Sides, NEW price \in Prices,
             NEW qty \in Qtys, PlaceLimit(id, side, price, qty)
      PROVE  BookInv'
  <2>1. price \in Int /\ qty \in Int
    BY InputAssumption
  <2>2. CASE Fail("invalid") \/ Fail("duplicate")
    BY <2>2, FailInv
  <2>3. CASE /\ price > 0 /\ qty > 0 /\ id \notin Live
             /\ StartMatch("limit", id, side, price, qty)
    <3>1. pc = "idle"
      BY <1>1 DEF PlaceLimit
    <3>2. QED
      BY <2>1, <2>3, <3>1, StartMatchInv
  <2>4. QED
    BY <1>1, <2>2, <2>3 DEF PlaceLimit
<1>2. ASSUME NEW id \in Ids, NEW side \in Sides, NEW qty \in Qtys,
             PlaceMarket(id, side, qty)
      PROVE  BookInv'
  <2>1. qty \in Int
    BY InputAssumption
  <2>2. CASE Fail("invalid") \/ Fail("duplicate")
    BY <2>2, FailInv
  <2>3. CASE qty > 0 /\ id \notin Live /\ StartMatch("market", id, side, 0, qty)
    <3>1. pc = "idle"
      BY <1>2 DEF PlaceMarket
    <3>2. QED
      BY <2>1, <2>3, <3>1, StartMatchInv
  <2>4. QED
    BY <1>2, <2>2, <2>3 DEF PlaceMarket
<1>3. CASE match
  BY <1>3, MatchInv
<1>4. CASE rest
  BY <1>4, RestInv
<1>5. ASSUME NEW id \in Ids, Cancel(id)
      PROVE  BookInv'
  BY <1>5, CancelInv
<1>6. CASE UNCHANGED vars
  <2>1. /\ levels' = levels /\ prices' = prices /\ live' = live /\ seq' = seq
        /\ pc' = pc /\ taker' = taker /\ trades' = trades /\ err' = err
    BY <1>6 DEF vars
  <2>2. /\ Live' = Live /\ BookConsistent' /\ TimePriority'
        /\ RestingQuantities' /\ Uncrossed'
    BY <2>1, BookUntouched
  <2>3. TypeOK'
    BY <2>1 DEF TypeOK, BookInv
  <2>4. MatchState'
    BY <2>1, <2>2 DEF MatchState, BookInv
  <2>5. QED
    BY <2>2, <2>3, <2>4 DEF BookInv
<1>7. QED
  BY <1>1, <1>2, <1>3, <1>4, <1>5, <1>6 DEF Next

(* The book keeps its inductive invariant, whatever calls are made. *)
THEOREM BookInvariant == Spec => []BookInv
<1>1. QED
  BY InitInv, NextInv, PTL DEF Spec

(* The book is never crossed: no bid at or above an ask is ever resting. *)
THEOREM NeverCrossed == Spec => []Uncrossed
<1>1. BookInv => Uncrossed
  BY DEF BookInv
<1>2. QED
  BY <1>1, BookInvariant, PTL

(* The live map, the queues and the price index always agree. *)
THEOREM AlwaysConsistent == Spec => []BookConsistent
<1>1. BookInv => BookConsistent
  BY DEF BookInv
<1>2. QED
  BY <1>1, BookInvariant, PTL

(* The front order of the best level has priority over every other order of
   its side. *)
LEMMA FrontHasPriority ==
  ASSUME BookInv, CanMatch(taker), pc # "idle", NEW id \in Live,
         live[id].side = Opposite(taker.side),
         id # levels[Opposite(taker.side)][best(Opposite(taker.side))][1]
  PROVE  HasPriority(live[levels[Opposite(taker.side)][best(Opposite(taker.side))][1]],
                     live[id])
<1> DEFINE opp == Opposite(taker.side)
           price == best(opp)
           front == levels[opp][price][1]
<1> USE DEF BookInv
<1>1. /\ opp \in Sides /\ price \in Prices /\ IsBest(opp, price)
      /\ levels[opp][price] \in Seq(Ids) /\ 1 \in 1 .. Len(levels[opp][price])
      /\ front \in Ids /\ live[front] \in Order
      /\ live[front].side = opp /\ live[front].price = price
  BY ZenonT(60), FrontMaker
<1>2. live[id].side = opp /\ id # front
  BY SMTT(40)
<1> HIDE DEF opp, price
<1>3. PICK i \in 1 .. Len(levels[opp][live[id].price]) :
        levels[opp][live[id].price][i] = id
  BY <1>2 DEF BookConsistent, LiveIsQueued
<1>4. live[id].price \in Prices
  BY DEF BookConsistent, LiveIsQueued
<1>5. levels[opp][live[id].price] \in Seq(Ids)
  BY ZenonT(60), <1>1, <1>4 DEF TypeOK
<1>6. live[id].price \in prices[opp]
  <2>1. levels[opp][live[id].price] # <<>>
    BY SMTT(40), <1>3, <1>5
  <2>2. QED
    BY SMTT(40), <2>1, <1>1, <1>4 DEF BookConsistent, IndexExact
<1>7. price \in Int /\ live[id].price \in Int
  <2>1. \A x \in Prices : x \in Int
    BY SMTT(40), InputAssumption
  <2>2. QED
    BY SMTT(40), <1>1, <1>4, <2>1
<1>8. IF opp = "sell" THEN price <= live[id].price ELSE live[id].price <= price
  BY SMTT(40), <1>1, <1>6 DEF IsBest
<1> HIDE DEF front
<1> SUFFICES HasPriority(live[front], live[id])
  BY DEF front, price, opp
<1>9. CASE live[id].price # price
  BY SMTT(40), <1>1, <1>7, <1>8, <1>9 DEF HasPriority
<1>10. CASE live[id].price = price
  <2>1. i \in 1 .. Len(levels[opp][price]) /\ levels[opp][price][i] = id
    BY <1>3, <1>10
  <2>2. Len(levels[opp][price]) \in Nat
    BY SMTT(40), <1>1
  <2>3. 1 < i
    BY SMTT(40), <2>1, <2>2, <1>2 DEF front
  <2>4. live[front].seq < live[id].seq
    BY <1>1, <2>1, <2>3 DEF TimePriority, front
  <2>5. QED
    BY SMTT(40), <2>4, <1>1, <1>10 DEF HasPriority
<1>11. QED
  BY SMTT(40), <1>9, <1>10

(* Every fill honours strict price-time priority, at the maker's price and
   within the taker's limit. *)
THEOREM FillsFollowPriority == Spec => PriceTimePriority
<1> DEFINE Honoured ==
             LET t == trades'[Len(trades')]
                 m == live[t.maker]
             IN  /\ t.maker \in Live
                 /\ m.side # taker.side
                 /\ t.price = m.price
                 /\ crosses(taker, t.price)
                 /\ \A id \in Live \ {t.maker} :
                      live[id].side = m.side => HasPriority(m, live[id])
           Step == Len(trades') > Len(trades) => Honoured
<1>1. ASSUME BookInv, match
      PROVE  Honoured
  <2> DEFINE opp == Opposite(taker.side)
             price == best(opp)
             front == levels[opp][price][1]
             qty == min64(taker.remaining, live[front].remaining)
             t == [taker |-> taker.id, maker |-> front, price |-> price, qty |-> qty]
  <2>1. pc # "idle" /\ CanMatch(taker)
    BY ZenonT(60), <1>1 DEF match
  <2>2. /\ opp # taker.side /\ front \in Live /\ front \in Ids
        /\ Head(levels[opp][price]) = front /\ live[front].id = front
        /\ live[front].side = opp /\ live[front].price = price
    BY ZenonT(60), <1>1, <2>1, FrontMaker
  <2>3. trades' = Append(trades, t)
    BY ZenonT(60), <1>1, <2>2 DEF match
  <2>4. crosses(taker, price)
    BY SMTT(40), <2>1 DEF CanMatch
  <2>5. \A id \in Live \ {front} :
          live[id].side = opp => HasPriority(live[front], live[id])
    BY SMTT(40), <1>1, <2>1, FrontHasPriority
  <2>6. t.maker = front /\ t.price = price
    OBVIOUS
  <2>7. trades \in Seq(Trade)
    BY <1>1 DEF BookInv, TypeOK
  <2> HIDE DEF t, price, front, opp
  <2>8. trades'[Len(trades')] = t
    BY <2>3, <2>7
  <2>9. QED
    BY SMTT(40), <2>2, <2>4, <2>5, <2>6, <2>8
<1>2. ASSUME BookInv, [Next]_vars, ~ match
      PROVE  ~ (Len(trades') > Len(trades))
  <2>1. trades' = <<>> \/ trades' = trades
    BY ZenonT(60), <1>2 DEF Next, PlaceLimit, PlaceMarket, Fail, StartMatch, rest, Return, Cancel, vars
  <2>2. trades \in Seq(Trade)
    BY <1>2 DEF BookInv, TypeOK
  <2>3. QED
    BY SMTT(40), <2>1, <2>2, LenProperties
<1>3. BookInv /\ [Next]_vars => [Step]_vars
  BY <1>1, <1>2
<1>4. QED
  BY <1>3, BookInvariant, PTL DEF Spec, PriceTimePriority
=============================================================================
