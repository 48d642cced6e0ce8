-------------------------- MODULE StockLocks_proofs --------------------------
(***************************************************************************)
(* Where the POS and the supply chain meet, for any number of sessions,    *)
(* products, orders and suppliers: every circle of waits has a session of  *)
(* the POS in it.  Orders and receipts take their locks by rising rank, so *)
(* along a circle of them alone the ranks would rise forever.              *)
(***************************************************************************)
EXTENDS StockLocks, SequenceTheorems, NumberTheorems

-----------------------------------------------------------------------------
(***************************************************************************)
(* The locks of a transaction and their ranks.                             *)
(***************************************************************************)
\* What a lock is about.
LEMMA RowParts ==
    ASSUME NEW row \in Row
    PROVE  /\ row[1] \in {"order", "sale", "supplier", "reading", "product", "share", "inventory"}
           /\ row[1] \in {"product", "share", "inventory"} => row[2] \in Nat
<1>1. CASE row \in {"order", "sale"} \X Documents
  BY <1>1
<1>2. CASE row \in {"supplier"} \X Suppliers
  BY <1>2
<1>3. CASE row = <<"reading", "tenant_config">>
  BY <1>3
<1>4. CASE row \in {"product", "share", "inventory"} \X Products
  BY <1>4, LocksAssumption
<1>. QED
  BY <1>1, <1>2, <1>3, <1>4 DEF Row

LEMMA RankType ==
    ASSUME NEW row \in Row
    PROVE  Rank(row) \in Nat
<1>1. CASE row[1] \in {"product", "share"}
  BY <1>1, RowParts DEF Rank, ProductRank
<1>2. CASE row[1] = "inventory"
  BY <1>2, RowParts DEF Rank, ProductRank
<1>3. CASE row[1] \in {"order", "sale", "reading", "supplier"}
  BY <1>3 DEF Rank
<1>. QED
  BY <1>1, <1>2, <1>3, RowParts

\* Locks that exclude one another have one rank.
LEMMA RivalsRank ==
    ASSUME NEW row \in Row, NEW rival \in Row, rival \in Rivals(row)
    PROVE  Rank(rival) = Rank(row)
<1>1. CASE row[1] = "product"
  BY <1>1 DEF Rivals, Rank
<1>2. CASE row[1] = "share"
  BY <1>2 DEF Rivals, Rank
<1>3. CASE row[1] = "reading"
  <2>1. rival[1] = "writing"
    BY <1>3 DEF Rivals
  <2>. QED
    BY <2>1, RowParts
<1>4. CASE row[1] \notin {"product", "share", "reading"}
  BY <1>4, RowParts DEF Rivals
<1>. QED
  BY <1>1, <1>2, <1>3, <1>4

\* The rows of a product, in the order they are locked.
LEMMA ProductLocksType ==
    ASSUME NEW t, t.kind \in SupplyChain \cup Till, NEW p \in Products
    PROVE  LET locks == ProductLocks(t, p)
           IN  /\ locks \in Seq(Row) /\ locks # <<>>
               /\ Head(locks) \in Row /\ Tail(locks) \in Seq(Row)
<1>1. <<"product", p>> \in Row /\ <<"share", p>> \in Row /\ <<"inventory", p>> \in Row
  BY DEF Row
<1>2. CASE t.kind = "receive"
  <2>1. \/ ProductLocks(t, p) = << <<"share", p>>, <<"inventory", p>> >>
        \/ ProductLocks(t, p) = << <<"share", p>> >>
    BY <1>2 DEF ProductLocks
  <2>2. CASE ProductLocks(t, p) = << <<"share", p>>, <<"inventory", p>> >>
    BY <1>1, <2>2
  <2>3. CASE ProductLocks(t, p) = << <<"share", p>> >>
    BY <1>1, <2>3
  <2>. QED
    BY <2>1, <2>2, <2>3
<1>3. CASE t.kind = "issue"
  BY <1>1, <1>3 DEF ProductLocks
<1>4. CASE t.kind \in {"void", "adjust"}
  BY <1>1, <1>4 DEF ProductLocks
<1>5. CASE t.kind \in {"checkout", "edit"}
  BY <1>1, <1>5 DEF ProductLocks
<1>. QED
  BY <1>2, <1>3, <1>4, <1>5 DEF SupplyChain, Till

\* What orders and receipts lock of a product, they lock in the order of the ranks.
LEMMA ProductLocksRise ==
    ASSUME NEW t, t.kind \in SupplyChain, NEW p \in Nat
    PROVE  LET locks == ProductLocks(t, p)
           IN  /\ Rank(Head(locks)) = ProductRank(p)
               /\ \/ Tail(locks) = <<>>
                  \/ Len(Tail(locks)) = 1 /\ Rank(Tail(locks)[1]) = ProductRank(p) + 1
<1>1. CASE t.kind = "receive"
  <2>1. /\ Head(ProductLocks(t, p)) = <<"share", p>>
        /\ \/ Tail(ProductLocks(t, p)) = << <<"inventory", p>> >>
           \/ Tail(ProductLocks(t, p)) = <<>>
    BY <1>1 DEF ProductLocks
  <2>2. /\ Rank(<<"share", p>>) = ProductRank(p)
        /\ Rank(<<"inventory", p>>) = ProductRank(p) + 1
    BY DEF Rank
  <2>3. LET s == << <<"inventory", p>> >>
        IN  Len(s) = 1 /\ s[1] = <<"inventory", p>>
    OBVIOUS
  <2>. QED
    BY <2>1, <2>2, <2>3
<1>2. CASE t.kind = "issue"
  <2>1. /\ Head(ProductLocks(t, p)) = <<"product", p>>
        /\ Tail(ProductLocks(t, p)) = <<>>
    BY <1>2 DEF ProductLocks
  <2>. QED
    BY <2>1 DEF Rank
<1>. QED
  BY <1>1, <1>2 DEF SupplyChain

\* What is locked before the products.
LEMMA PreambleRises ==
    ASSUME NEW t \in Transactions
    PROVE  /\ Preamble(t) \in Seq(Row)
           /\ t.kind \in SupplyChain =>
                 \A i \in 1..Len(Preamble(t)) :
                    /\ \A j \in 1..Len(Preamble(t)) :
                          i < j => Rank(Preamble(t)[i]) < Rank(Preamble(t)[j])
                    /\ Rank(Preamble(t)[i]) < 3
<1>0. t \in Transaction
  BY LocksAssumption
<1>1. /\ <<"order", t.document>> \in Row /\ <<"sale", t.document>> \in Row
      /\ <<"reading", "tenant_config">> \in Row /\ <<"supplier", t.supplier>> \in Row
  BY <1>0 DEF Transaction, Row
<1>2. CASE t.kind = "receive"
  <2>1. Preamble(t) = << <<"order", t.document>> >> \o Compliance(t)
    BY <1>2 DEF Preamble
  <2>2. /\ Rank(<<"order", t.document>>) = 0
        /\ Rank(<<"reading", "tenant_config">>) = 1
        /\ Rank(<<"supplier", t.supplier>>) = 2
    BY DEF Rank
  <2>3. /\ << <<"order", t.document>> >> \in Seq(Row) /\ Compliance(t) \in Seq(Row)
        /\ Len(Compliance(t)) = 2
        /\ Compliance(t)[1] = <<"reading", "tenant_config">>
        /\ Compliance(t)[2] = <<"supplier", t.supplier>>
    BY <1>1 DEF Compliance
  <2>4. /\ Preamble(t) \in Seq(Row) /\ Len(Preamble(t)) = 3
        /\ Preamble(t)[1] = <<"order", t.document>>
        /\ Preamble(t)[2] = <<"reading", "tenant_config">>
        /\ Preamble(t)[3] = <<"supplier", t.supplier>>
    BY <2>1, <2>3, ConcatProperties
  <2>5. \A i \in 1..Len(Preamble(t)) : i \in 1..3 /\ Rank(Preamble(t)[i]) = i - 1
    BY <2>2, <2>4
  <2>. QED
    BY <2>4, <2>5
<1>3. CASE t.kind = "issue"
  <2>1. Preamble(t) = << <<"reading", "tenant_config">>, <<"supplier", t.supplier>> >>
    BY <1>3 DEF Preamble, Compliance
  <2>2. /\ Rank(<<"reading", "tenant_config">>) = 1
        /\ Rank(<<"supplier", t.supplier>>) = 2
    BY DEF Rank
  <2>3. \A i \in 1..Len(Preamble(t)) : i \in 1..2 /\ Rank(Preamble(t)[i]) = i
    BY <2>1, <2>2
  <2>4. Preamble(t) \in Seq(Row)
    BY <1>1, <2>1
  <2>. QED
    BY <2>3, <2>4
<1>4. CASE t.kind \in Till
  <2>1. Preamble(t) = << <<"sale", t.document>> >> \/ Preamble(t) = <<>>
    <3>1. CASE t.kind = "void"
      BY <3>1 DEF Preamble
    <3>2. CASE t.kind \in {"checkout", "adjust", "edit"}
      BY <3>2 DEF Preamble
    <3>. QED
      BY <1>4, <3>1, <3>2 DEF Till
  <2>2. <<>> \in Seq(Row) /\ << <<"sale", t.document>> >> \in Seq(Row)
    BY <1>1
  <2>3. t.kind \notin SupplyChain
    BY <1>4 DEF Till, SupplyChain
  <2>. QED
    BY <2>1, <2>2, <2>3
<1>. QED
  BY <1>0, <1>2, <1>3, <1>4 DEF Transaction, SupplyChain

-----------------------------------------------------------------------------
(***************************************************************************)
(* The inductive invariant.                                                *)
(***************************************************************************)
LEMMA InitIInv == Init => IInv
<1>. SUFFICES ASSUME Init PROVE IInv
  OBVIOUS
<1>1. TypeOK
  BY DEF Init, TypeOK
<1>2. \A r \in Requests : SessionInv(r)
  BY DEF Init, NoTransaction, SupplyChain, AtRest, SessionInv
<1>. QED
  BY <1>1, <1>2 DEF IInv

\* What a session says of itself stays true while others move.
LEMMA OthersKeep ==
    ASSUME NEW q \in Requests, SessionInv(q), pc'[q] = pc[q], tx'[q] = tx[q],
           held'[q] = held[q], script'[q] = script[q], rest'[q] = rest[q]
    PROVE  SessionInv(q)'
<1>1. tx[q].kind \in SupplyChain => Ascending(q)'
  BY DEF SessionInv, Ascending
<1>2. tx[q] = NoTransaction => AtRest(q)'
  BY DEF SessionInv, AtRest
<1>. QED
  BY <1>1, <1>2 DEF SessionInv

LEMMA BeginStep ==
    ASSUME IInv, NEW r \in Requests, Begin(r)
    PROVE  IInv'
<1>. PICK t \in Transactions :
         /\ tx' = [tx EXCEPT ![r] = t]
         /\ script' = [script EXCEPT ![r] = Preamble(t)]
         /\ rest' = [rest EXCEPT ![r] = t.products]
  BY DEF Begin
<1>0. pc[r] = "idle" /\ pc' = [pc EXCEPT ![r] = "running"] /\ UNCHANGED held
  BY DEF Begin
<1>1. t \in Transaction /\ t.products \in SUBSET Products /\ Preamble(t) \in Seq(Row)
  BY LocksAssumption, PreambleRises DEF Transaction
<1>2. TypeOK'
  BY <1>0, <1>1 DEF IInv, TypeOK
<1>3. SessionInv(r)'
  <2>1. tx'[r] = t /\ held'[r] = {} /\ script'[r] = Preamble(t) /\ rest'[r] = t.products
    BY <1>0 DEF IInv, TypeOK, SessionInv, AtRest
  <2>2. pc'[r] = "running" /\ t # NoTransaction
    BY <1>0, <1>1 DEF IInv, TypeOK, Transaction, NoTransaction, SupplyChain, Till
  <2>3. ASSUME t.kind \in SupplyChain
        PROVE  Ascending(r)'
    <3>1. \A i \in 1..Len(Preamble(t)) : \A j \in 1..Len(Preamble(t)) :
             i < j => Rank(Preamble(t)[i]) < Rank(Preamble(t)[j])
      BY <2>3, PreambleRises
    <3>2. \A i \in 1..Len(Preamble(t)) : \A p \in t.products :
             Rank(Preamble(t)[i]) < ProductRank(p)
      <4>. SUFFICES ASSUME NEW i \in 1..Len(Preamble(t)), NEW p \in t.products
                    PROVE  Rank(Preamble(t)[i]) < ProductRank(p)
        OBVIOUS
      <4>1. Rank(Preamble(t)[i]) < 3 /\ Rank(Preamble(t)[i]) \in Nat
        BY <1>1, <2>3, PreambleRises, RankType
      <4>2. p \in Nat
        BY <1>1, LocksAssumption
      <4>. QED
        BY <4>1, <4>2 DEF ProductRank
    <3>. QED
      BY <2>1, <3>1, <3>2 DEF Ascending
  <2>. QED
    BY <2>1, <2>2, <2>3 DEF SessionInv
<1>4. ASSUME NEW q \in Requests, q # r
      PROVE  SessionInv(q)'
  BY <1>0, <1>4, OthersKeep DEF IInv, TypeOK
<1>. QED
  BY <1>2, <1>3, <1>4 DEF IInv

LEMMA TakeStep ==
    ASSUME IInv, NEW r \in Requests, Take(r)
    PROVE  IInv'
<1>. DEFINE s == script[r]
<1>0. /\ s \in Seq(Row) /\ s # <<>> /\ script' = [script EXCEPT ![r] = Tail(s)]
      /\ held' = [held EXCEPT ![r] = @ \cup {Head(s)}] /\ UNCHANGED <<pc, tx, rest>>
  BY DEF Take, Lock, IInv, TypeOK
<1>1. /\ Len(s) \in Nat \ {0} /\ Head(s) = s[1] /\ s[1] \in Row /\ Tail(s) \in Seq(Row)
      /\ Len(Tail(s)) = Len(s) - 1
      /\ \A i \in 1..Len(Tail(s)) : i + 1 \in 1..Len(s) /\ Tail(s)[i] = s[i + 1]
  BY <1>0
<1>2. TypeOK'
  BY <1>0, <1>1 DEF IInv, TypeOK
<1>3. SessionInv(r)'
  <2>1. /\ held'[r] = held[r] \cup {s[1]} /\ script'[r] = Tail(s) /\ rest'[r] = rest[r]
        /\ tx'[r] = tx[r] /\ pc'[r] = pc[r]
    BY <1>0, <1>1 DEF IInv, TypeOK
  <2>2. tx[r] # NoTransaction
    BY <1>0 DEF IInv, SessionInv, AtRest
  <2>3. ASSUME tx[r].kind \in SupplyChain
        PROVE  Ascending(r)'
    <3>1. Ascending(r) /\ 1 \in 1..Len(s)
      BY <1>1, <2>3 DEF IInv, SessionInv
    <3>2. ASSUME NEW mine \in held'[r]
          PROVE  /\ \A i \in 1..Len(Tail(s)) : Rank(mine) < Rank(Tail(s)[i])
                 /\ \A p \in rest[r] : Rank(mine) < ProductRank(p)
      <4>1. CASE mine \in held[r]
        BY <1>1, <3>1, <4>1 DEF Ascending
      <4>2. CASE mine = s[1]
        <5>1. \A i \in 1..Len(Tail(s)) : 1 < i + 1
          BY <1>1
        <5>. QED
          BY <1>1, <3>1, <4>2, <5>1 DEF Ascending
      <4>. QED
        BY <2>1, <4>1, <4>2
    <3>3. \A i, j \in 1..Len(Tail(s)) : i < j => Rank(Tail(s)[i]) < Rank(Tail(s)[j])
      <4>. SUFFICES ASSUME NEW i \in 1..Len(Tail(s)), NEW j \in 1..Len(Tail(s)), i < j
                    PROVE  Rank(Tail(s)[i]) < Rank(Tail(s)[j])
        OBVIOUS
      <4>1. i + 1 < j + 1
        BY <1>1
      <4>. QED
        BY <1>1, <3>1, <4>1 DEF Ascending
    <3>4. \A i \in 1..Len(Tail(s)) : \A p \in rest[r] : Rank(Tail(s)[i]) < ProductRank(p)
      BY <1>1, <3>1 DEF Ascending
    <3>. HIDE DEF s
    <3>. QED
      BY <2>1, <3>2, <3>3, <3>4 DEF Ascending
  <2>4. pc[r] = "running"
    BY <2>2 DEF IInv, SessionInv
  <2>. QED
    BY <2>1, <2>2, <2>3, <2>4 DEF SessionInv
<1>4. ASSUME NEW q \in Requests, q # r
      PROVE  SessionInv(q)'
  BY <1>0, <1>4, OthersKeep DEF IInv, TypeOK
<1>. QED
  BY <1>2, <1>3, <1>4 DEF IInv

LEMMA TakeRowStep ==
    ASSUME IInv, NEW r \in Requests, NEW p, TakeRow(r, p)
    PROVE  IInv'
<1>. DEFINE locks == ProductLocks(tx[r], p)
<1>0. /\ script[r] = <<>> /\ p \in rest[r] /\ p \in NextProducts(tx[r].kind, rest[r])
      /\ held' = [held EXCEPT ![r] = @ \cup {Head(locks)}]
      /\ script' = [script EXCEPT ![r] = Tail(locks)]
      /\ rest' = [rest EXCEPT ![r] = @ \ {p}]
      /\ UNCHANGED <<pc, tx>>
  BY DEF TakeRow, Lock, NextProducts
<1>1. tx[r] # NoTransaction /\ pc[r] = "running"
  BY <1>0 DEF IInv, SessionInv, AtRest
<1>2. tx[r] \in Transaction /\ p \in Products /\ rest[r] \subseteq Nat
  BY <1>0, <1>1, LocksAssumption DEF IInv, TypeOK
<1>3. Head(locks) \in Row /\ Tail(locks) \in Seq(Row)
  BY <1>2, ProductLocksType DEF Transaction
<1>4. TypeOK'
  BY <1>0, <1>3 DEF IInv, TypeOK
<1>5. SessionInv(r)'
  <2>1. /\ held'[r] = held[r] \cup {Head(locks)} /\ script'[r] = Tail(locks)
        /\ rest'[r] = rest[r] \ {p} /\ tx'[r] = tx[r] /\ pc'[r] = pc[r]
    BY <1>0 DEF IInv, TypeOK
  <2>2. ASSUME tx[r].kind \in SupplyChain
        PROVE  Ascending(r)'
    <3>1. Ascending(r) /\ p \in Nat /\ ProductRank(p) \in Nat
      BY <1>0, <1>2, <2>2 DEF IInv, SessionInv, ProductRank
    <3>2. \A q \in rest[r] \ {p} : q \in Nat /\ ProductRank(p) + 1 < ProductRank(q)
      <4>. SUFFICES ASSUME NEW q \in rest[r] \ {p}
                    PROVE  q \in Nat /\ ProductRank(p) + 1 < ProductRank(q)
        OBVIOUS
      <4>1. q \in Nat /\ p <= q /\ p # q
        BY <1>0, <1>2, <2>2 DEF NextProducts
      <4>. QED
        BY <3>1, <4>1 DEF ProductRank
    <3>3. /\ Rank(Head(locks)) = ProductRank(p)
          /\ \/ Len(Tail(locks)) = 0
             \/ Len(Tail(locks)) = 1 /\ Rank(Tail(locks)[1]) = ProductRank(p) + 1
      <4>1. Len(<<>>) = 0
        OBVIOUS
      <4>. QED
        BY <2>2, <3>1, <4>1, ProductLocksRise
    <3>4. \A i \in 1..Len(Tail(locks)) : i = 1 /\ Rank(Tail(locks)[i]) = ProductRank(p) + 1
      <4>. DEFINE after == Tail(locks)
      <4>1. \/ Len(after) = 0
            \/ Len(after) = 1 /\ Rank(after[1]) = ProductRank(p) + 1
        BY <3>3
      <4>. HIDE DEF after
      <4>2. ASSUME NEW i \in 1..Len(after)
            PROVE  i = 1 /\ Rank(after[i]) = ProductRank(p) + 1
        <5>1. Len(after) # 0
          OBVIOUS
        <5>2. Len(after) = 1 /\ Rank(after[1]) = ProductRank(p) + 1
          BY <4>1, <5>1
        <5>3. i = 1
          BY <5>2
        <5>. QED
          BY <5>2, <5>3
      <4>. QED
        BY <4>2 DEF after
    <3>5. \A mine \in held[r] : Rank(mine) \in Nat /\ Rank(mine) < ProductRank(p)
      <4>1. \A mine \in held[r] : mine \in Row
        BY DEF IInv, TypeOK
      <4>. QED
        BY <1>0, <3>1, <4>1, RankType DEF Ascending
    <3>6. \A mine \in held'[r] : Rank(mine) \in Nat /\ Rank(mine) < ProductRank(p) + 1
      BY <2>1, <3>1, <3>3, <3>5
    <3>7. ASSUME NEW mine \in held'[r]
          PROVE  /\ \A i \in 1..Len(Tail(locks)) : Rank(mine) < Rank(Tail(locks)[i])
                 /\ \A q \in rest[r] \ {p} : Rank(mine) < ProductRank(q)
      <4>1. \A q \in rest[r] \ {p} : ProductRank(q) \in Nat
        BY <3>2 DEF ProductRank
      <4>. QED
        BY <3>1, <3>2, <3>4, <3>6, <4>1
    <3>8. ASSUME NEW i \in 1..Len(Tail(locks))
          PROVE  /\ \A j \in 1..Len(Tail(locks)) : ~(i < j)
                 /\ \A q \in rest[r] \ {p} : Rank(Tail(locks)[i]) < ProductRank(q)
      BY <3>2, <3>4
    <3>. HIDE DEF locks
    <3>. QED
      BY <2>1, <3>7, <3>8 DEF Ascending
  <2>. QED
    BY <1>1, <2>1, <2>2 DEF SessionInv
<1>6. ASSUME NEW q \in Requests, q # r
      PROVE  SessionInv(q)'
  BY <1>0, <1>6, OthersKeep DEF IInv, TypeOK
<1>. QED
  BY <1>4, <1>5, <1>6 DEF IInv

LEMMA EndStep ==
    ASSUME IInv, NEW r \in Requests, NEW outcome \in {"done", "deadlock"}, End(r, outcome)
    PROVE  IInv'
<1>1. TypeOK'
  BY DEF IInv, TypeOK, End
<1>2. SessionInv(r)'
  <2>1. tx'[r] = NoTransaction /\ held'[r] = {} /\ script'[r] = <<>> /\ rest'[r] = {}
    BY DEF IInv, TypeOK, End
  <2>2. NoTransaction.kind \notin SupplyChain
    BY DEF NoTransaction, SupplyChain
  <2>. QED
    BY <2>1, <2>2 DEF SessionInv, AtRest
<1>3. ASSUME NEW q \in Requests, q # r
      PROVE  SessionInv(q)'
  BY <1>3, OthersKeep DEF IInv, TypeOK, End
<1>. QED
  BY <1>1, <1>2, <1>3 DEF IInv

LEMMA NextIInv == IInv /\ [Next]_vars => IInv'
<1>. SUFFICES ASSUME IInv, [Next]_vars PROVE IInv'
  OBVIOUS
<1>1. CASE UNCHANGED vars
  BY <1>1 DEF vars, IInv, TypeOK, SessionInv, Ascending, AtRest
<1>2. ASSUME NEW r \in Requests, Begin(r)
      PROVE  IInv'
  BY <1>2, BeginStep
<1>3. ASSUME NEW r \in Requests, Proceed(r)
      PROVE  IInv'
  BY <1>3, TakeStep, TakeRowStep, EndStep DEF Proceed, Commit, LoseDeadlock
<1>. QED
  BY <1>1, <1>2, <1>3 DEF Next

\* However many sessions of whatever kinds run at a time, those of the supply chain
\* hold nothing that comes after what they still want, in the order of the ranks.
THEOREM Inductive == Spec => []IInv
<1>. QED
  BY InitIInv, NextIInv, PTL DEF Spec

-----------------------------------------------------------------------------
(***************************************************************************)
(* Circles.                                                                *)
(***************************************************************************)
Waiting == [q \in Requests |-> Wanted(q)]

\* The n sessions of circle wait for one another, each for the next.
Circle(n, circle) ==
    /\ n \in 2..Cardinality(Requests)
    /\ circle \in [1..n -> Requests]
    /\ \A i \in 1..n : WaitsFor(Waiting, circle[i], circle[(i % n) + 1])

\* Whoever stands in a circle can count it from himself on.
LEMMA AllInCircle ==
    ASSUME NEW n, NEW circle, Circle(n, circle), NEW k \in 1..n
    PROVE  Deadlocked(circle[k])
<1>. DEFINE place(i) == IF i + k - 1 <= n THEN i + k - 1 ELSE i + k - 1 - n
            turned == [i \in 1..n |-> circle[place(i)]]
<1>0. n \in Nat \ {0} /\ 1 \in 1..n
  BY DEF Circle
<1>1. \A i \in 1..n : place(i) \in 1..n
  BY <1>0
<1>2. turned \in [1..n -> Requests] /\ turned[1] = circle[k]
  BY <1>0, <1>1 DEF Circle
<1>3. ASSUME NEW i \in 1..n
      PROVE  WaitsFor(Waiting, turned[i], turned[(i % n) + 1])
  <2>1. /\ (i % n) + 1 = IF i = n THEN 1 ELSE i + 1
        /\ (place(i) % n) + 1 = IF place(i) = n THEN 1 ELSE place(i) + 1
    BY <1>0, <1>1, Successor
  <2>2. (i % n) + 1 \in 1..n /\ place((i % n) + 1) = (place(i) % n) + 1
    <3>1. CASE i = n
      BY <1>0, <2>1, <3>1
    <3>2. CASE i # n /\ place(i) = n
      BY <1>0, <2>1, <3>2
    <3>3. CASE i # n /\ place(i) # n
      BY <1>0, <2>1, <3>3
    <3>. QED
      BY <3>1, <3>2, <3>3
  <2>3. turned[i] = circle[place(i)] /\ turned[(i % n) + 1] = circle[(place(i) % n) + 1]
    BY <2>2
  <2>. QED
    BY <1>1, <2>3 DEF Circle
<1>. HIDE DEF turned
<1>. QED
  BY <1>2, <1>3 DEF Deadlocked, InCircle, Waiting, Circle

\* A session of the supply chain holds nothing of a rank as high as what it waits for.
LEMMA HeldBelowWanted ==
    ASSUME IInv, NEW r \in Requests, tx[r].kind \in SupplyChain,
           NEW row \in Wanted(r), NEW mine \in held[r]
    PROVE  Rank(mine) < Rank(row)
<1>1. Ascending(r) /\ script[r] \in Seq(Row) /\ rest[r] \subseteq Nat
  BY LocksAssumption DEF IInv, SessionInv, TypeOK
<1>2. CASE script[r] # <<>>
  <2>1. row = script[r][1] /\ 1 \in 1..Len(script[r])
    BY <1>1, <1>2 DEF Wanted
  <2>. QED
    BY <1>1, <2>1 DEF Ascending
<1>3. CASE script[r] = <<>>
  <2>1. PICK p \in rest[r] : row = Head(ProductLocks(tx[r], p))
    BY <1>3 DEF Wanted, NextProducts
  <2>2. Rank(row) = ProductRank(p)
    BY <1>1, <2>1, ProductLocksRise
  <2>. QED
    BY <1>1, <2>1, <2>2 DEF Ascending
<1>. QED
  BY <1>2, <1>3

\* What a session waits for is a lock, and only one that runs waits.
LEMMA WantedType ==
    ASSUME IInv, NEW r \in Requests, NEW row \in Wanted(r)
    PROVE  row \in Row /\ tx[r].kind \in SupplyChain \cup Till
<1>1. tx[r] # NoTransaction
  BY DEF Wanted, NextProducts, IInv, SessionInv, AtRest
<1>2. tx[r] \in Transaction
  BY <1>1, LocksAssumption DEF IInv, TypeOK
<1>3. CASE script[r] # <<>>
  <2>1. row = Head(script[r]) /\ script[r] \in Seq(Row)
    BY <1>3 DEF Wanted, IInv, TypeOK
  <2>. QED
    BY <1>2, <1>3, <2>1 DEF Transaction
<1>4. CASE script[r] = <<>>
  <2>1. PICK p \in rest[r] : row = Head(ProductLocks(tx[r], p))
    BY <1>4 DEF Wanted, NextProducts
  <2>2. p \in Products
    BY DEF IInv, TypeOK
  <2>. QED
    BY <1>2, <2>1, <2>2, ProductLocksType DEF Transaction
<1>. QED
  BY <1>2, <1>3, <1>4 DEF Transaction

LEMMA CircleHasTill ==
    ASSUME IInv
    PROVE  CircleNeedsTill
<1>. SUFFICES ASSUME NEW r \in Requests, Deadlocked(r),
                     \A q \in Requests : Deadlocked(q) => tx[q].kind \notin Till
              PROVE  FALSE
  BY DEF CircleNeedsTill
<1>1. PICK n, circle : Circle(n, circle)
  <2>1. PICK n \in 2..Cardinality(Requests) : \E circle \in [1..n -> Requests] :
           \A i \in 1..n : WaitsFor(Waiting, circle[i], circle[(i % n) + 1])
    BY DEF Deadlocked, InCircle, Waiting
  <2>. QED
    BY <2>1 DEF Circle
<1>2. n \in Nat \ {0} /\ circle \in [1..n -> Requests]
  BY <1>1 DEF Circle
<1>. DEFINE next(i) == (i % n) + 1
            Blocks(i, row) == /\ row \in Wanted(circle[i])
                              /\ held[circle[next(i)]] \cap Rivals(row) # {}
            g == [i \in 1..n |-> Rank(CHOOSE row : Blocks(i, row))]
<1>3. ASSUME NEW i \in 1..n
      PROVE  next(i) \in 1..n
  <2>1. (i % n) + 1 = IF i = n THEN 1 ELSE i + 1
    BY <1>2, Successor
  <2>. QED
    BY <1>2, <2>1
<1>4. ASSUME NEW i \in 1..n
      PROVE  Blocks(i, CHOOSE row : Blocks(i, row))
  <2>1. circle[i] \in Requests /\ WaitsFor(Waiting, circle[i], circle[next(i)])
    BY <1>1, <1>2 DEF Circle
  <2>2. \E row : Blocks(i, row)
    BY <2>1 DEF WaitsFor, Waiting
  <2>. HIDE DEF Blocks
  <2>. QED
    BY <2>2
<1>5. ASSUME NEW i \in 1..n
      PROVE  tx[circle[i]].kind \in SupplyChain
  <2>1. circle[i] \in Requests /\ tx[circle[i]].kind \notin Till
    BY <1>1, <1>2, AllInCircle
  <2>2. \E row : row \in Wanted(circle[i])
    BY <1>4
  <2>. QED
    BY <2>1, <2>2, WantedType
<1>6. ASSUME NEW i \in 1..n, NEW row, Blocks(i, row)
      PROVE  /\ Rank(row) \in Nat
             /\ \A other \in Wanted(circle[next(i)]) : Rank(row) < Rank(other)
  <2>1. circle[i] \in Requests /\ circle[next(i)] \in Requests
        /\ tx[circle[next(i)]].kind \in SupplyChain
    BY <1>2, <1>3, <1>5
  <2>2. row \in Row
    BY <1>6, <2>1, WantedType
  <2>3. PICK h \in held[circle[next(i)]] : h \in Rivals(row)
    BY <1>6
  <2>4. h \in Row
    BY <2>1, <2>3 DEF IInv, TypeOK
  <2>5. Rank(h) = Rank(row)
    BY <2>2, <2>3, <2>4, RivalsRank
  <2>. QED
    BY <2>1, <2>2, <2>3, <2>5, RankType, HeldBelowWanted
<1>7. ASSUME NEW i \in 1..n
      PROVE  g[i] \in Nat /\ g[i] < g[next(i)]
  <2>. DEFINE a == CHOOSE row : Blocks(i, row)
              b == CHOOSE row : Blocks(next(i), row)
  <2>1. Blocks(i, a)
    BY <1>4
  <2>2. b \in Wanted(circle[next(i)])
    BY <1>3, <1>4
  <2>3. g[i] = Rank(a) /\ g[next(i)] = Rank(b)
    BY <1>3
  <2>. HIDE DEF a, b, g, next
  <2>. QED
    BY <1>6, <2>1, <2>2, <2>3
<1>8. g \in [1..n -> Nat] /\ \A i \in 1..n : g[i] < g[(i % n) + 1]
  <2>1. \A i \in 1..n : g[i] \in Nat
    BY <1>7
  <2>2. g = [i \in 1..n |-> g[i]]
    OBVIOUS
  <2>3. g \in [1..n -> Nat]
    <3>. HIDE DEF g
    <3>. QED
      BY <2>1, <2>2
  <2>. QED
    BY <1>7, <2>3
<1>. HIDE DEF g
<1>. QED
  BY <1>2, <1>8, NoRisingCircle

\* Whatever sales, voids, counts, edits, orders and receipts run side by side, a
\* circle of waits always has a session of the POS in it: reserving the products of
\* an order or a receipt in the order of their ids is enough among themselves.
THEOREM OnlyWithTill == Spec => []CircleNeedsTill
<1>. QED
  BY Inductive, CircleHasTill, PTL
=============================================================================
