--------------------------- MODULE Counters_proofs ---------------------------
(***************************************************************************)
(* What the counters of Completion add up to, for every number of           *)
(* volunteers, requests, items, confirmations and refreshes.                *)
(*                                                                          *)
(* The argument looks at one counter at a time: its value, the requests it  *)
(* counts, and the transactions on it that are still owed.  Every step of   *)
(* Completion is one of five entries in the books of that counter (Entry),  *)
(* and the entries keep the books in order (Covered, Balanced).             *)
(***************************************************************************)
EXTENDS Completion_proofs, Sums_proofs

----------------------------------------------------------------------------
(* The books of one counter.  n is its value, S the requests it counts, q   *)
(* their quantities, conf how often they were confirmed, and P the          *)
(* transactions on it that are owed.                                        *)

Quantities == [Requests -> Nat]

Books(n, S, conf, P) ==
  /\ n \in Nat /\ S \in SUBSET Requests /\ conf \in [Requests -> Nat]
  /\ IsFiniteSet(P) /\ \A c \in P : c.id \in S

Value(q, S) == SumFunctionOnSet(q, S)
Weighted(q, conf, S) == SumFunctionOnSet([id \in Requests |-> conf[id] * q[id]], S)
Debt(q, P) == SumFunctionOnSet([c \in P |-> q[c.id]], P)

OwedFor(id, P) == {c \in P : c.id = id}

(* The requests for which nothing was counted down yet.                     *)
Untouched(S, conf, P) == {id \in S : Cardinality(OwedFor(id, P)) = conf[id]}

(* The counter was lowered by no more than was confirmed and is not owed.   *)
Covered(q, n, S, conf, P) == n + Weighted(q, conf, S) >= Value(q, S) + Debt(q, P)

(* Each confirmation owes one transaction at most.                          *)
Issued(S, conf, P) == \A id \in S : Cardinality(OwedFor(id, P)) <= conf[id]

(* The counter counts untouched requests only, and each of them if none was *)
(* completed twice.                                                         *)
Balanced(q, n, S, conf, P) ==
  /\ n <= Value(q, Untouched(S, conf, P))
  /\ (\A id \in S : conf[id] <= 1) => n = Value(q, Untouched(S, conf, P))

(* A request is placed ...                                                  *)
Placed(q, n, S, conf, P, n1, S1, conf1, P1) ==
  \E id \in Requests \ S :
    /\ conf[id] = 0 /\ S1 = S \union {id} /\ n1 = n + q[id]
    /\ conf1 = conf /\ P1 = P

(* ... confirmed, which concerns the counter if the request has such items, *)
Ordered(q, n, S, conf, P, n1, S1, conf1, P1) ==
  \E id \in Requests :
    /\ conf1 = [conf EXCEPT ![id] = @ + 1] /\ S1 = S /\ n1 = n
    /\ IF id \in S /\ q[id] > 0
       THEN \E c : c \notin P /\ c.id = id /\ P1 = P \union {c}
       ELSE P1 = P

(* ... confirmed by a device whose copy lacks the item, ...                 *)
Skipped(n, S, conf, P, n1, S1, conf1, P1) ==
  \E id \in Requests :
    /\ conf1 = [conf EXCEPT ![id] = @ + 1]
    /\ S1 = S /\ n1 = n /\ P1 = P

(* ... counted down, ...                                                    *)
Counted(q, n, S, conf, P, n1, S1, conf1, P1) ==
  \E c \in P :
    /\ P1 = P \ {c} /\ n1 = Less(n, q[c.id])
    /\ S1 = S /\ conf1 = conf

(* ... or transactions are lost, which is all that refusals and kills do.   *)
Lost(n, S, conf, P, n1, S1, conf1, P1) ==
  P1 \subseteq P /\ n1 = n /\ S1 = S /\ conf1 = conf

(* The five kinds of entries.                                               *)
Entry(q, n, S, conf, P, n1, S1, conf1, P1) ==
  \/ Placed(q, n, S, conf, P, n1, S1, conf1, P1)
  \/ Ordered(q, n, S, conf, P, n1, S1, conf1, P1)
  \/ Skipped(n, S, conf, P, n1, S1, conf1, P1)
  \/ Counted(q, n, S, conf, P, n1, S1, conf1, P1)
  \/ Lost(n, S, conf, P, n1, S1, conf1, P1)

(* Sums over requests are natural numbers.                                  *)
LEMMA ValueNat ==
  ASSUME NEW q \in Quantities, NEW S \in SUBSET Requests
  PROVE  IsFiniteSet(S) /\ Value(q, S) \in Nat
<1>1. IsFiniteSet(S)
  BY CompletionAssumption, FS_Subset
<1>2. \A id \in S : q[id] \in Nat
  BY DEF Quantities
<1>3. QED  BY <1>1, <1>2, SumNat DEF Value

(* What a request weighs is what was confirmed of it.                       *)
LEMMA WeightedFun ==
  ASSUME NEW q \in Quantities, NEW conf \in [Requests -> Nat]
  PROVE  [id \in Requests |-> conf[id] * q[id]] \in Quantities
<1>1. \A m, n \in Nat : m * n \in Nat
  OBVIOUS
<1>2. \A id \in Requests : conf[id] \in Nat /\ q[id] \in Nat
  BY DEF Quantities
<1>3. QED  BY <1>1, <1>2 DEF Quantities

(* So are sums of what was confirmed, ...                                   *)
LEMMA WeightedNat ==
  ASSUME NEW q \in Quantities, NEW conf \in [Requests -> Nat], NEW S \in SUBSET Requests
  PROVE  Weighted(q, conf, S) \in Nat
  BY WeightedFun, ValueNat DEF Weighted, Value

(* ... and of what is owed.                                                 *)
LEMMA DebtNat ==
  ASSUME NEW q \in Quantities, NEW P, IsFiniteSet(P), \A c \in P : c.id \in Requests
  PROVE  Debt(q, P) \in Nat
<1> DEFINE f == [c \in P |-> q[c.id]]
<1>1. \A c \in P : f[c] \in Nat
  BY DEF Quantities
<1> HIDE DEF f
<1>2. SumFunctionOnSet(f, P) \in Nat
  BY <1>1, SumNat
<1>3. QED  BY <1>2 DEF Debt, f

(* One transaction more, or less.                                           *)
LEMMA DebtAdd ==
  ASSUME NEW q \in Quantities, NEW P, IsFiniteSet(P), \A c \in P : c.id \in Requests,
         NEW e, e \notin P, e.id \in Requests
  PROVE  Debt(q, P \union {e}) = q[e.id] + Debt(q, P)
<1> DEFINE f == [c \in P |-> q[c.id]]
           g == [c \in P \union {e} |-> q[c.id]]
<1>1. /\ \A c \in P \union {e} : g[c] \in Nat
      /\ \A c \in P : f[c] = g[c]
      /\ g[e] = q[e.id]
  BY DEF Quantities
<1> HIDE DEF f, g
<1>2. SumFunctionOnSet(g, P \union {e}) = g[e] + SumFunctionOnSet(g, P)
  BY <1>1, SumAdd
<1>3. SumFunctionOnSet(f, P) = SumFunctionOnSet(g, P)
  BY <1>1, SumSame
<1>4. QED  BY <1>1, <1>2, <1>3 DEF Debt, f, g

(* Transactions that are lost take nothing but their own quantities along.  *)
LEMMA DebtSubset ==
  ASSUME NEW q \in Quantities, NEW P, IsFiniteSet(P), \A c \in P : c.id \in Requests,
         NEW R \in SUBSET P
  PROVE  Debt(q, R) <= Debt(q, P)
<1> DEFINE f == [c \in P |-> q[c.id]]
           g == [c \in R |-> q[c.id]]
<1>1. /\ \A c \in P : f[c] \in Nat
      /\ \A c \in R : f[c] = g[c]
      /\ IsFiniteSet(R)
  BY FS_Subset DEF Quantities
<1> HIDE DEF f, g
<1>2. SumFunctionOnSet(f, R) <= SumFunctionOnSet(f, P)
  BY <1>1, SumSubset
<1>3. SumFunctionOnSet(f, R) = SumFunctionOnSet(g, R)
  BY <1>1, SumSame
<1>4. QED  BY <1>2, <1>3 DEF Debt, f, g

(* A request more, ...                                                      *)
LEMMA ValueAdd ==
  ASSUME NEW q \in Quantities, NEW S \in SUBSET Requests, NEW id \in Requests \ S
  PROVE  Value(q, S \union {id}) = q[id] + Value(q, S)
<1>1. IsFiniteSet(S)
  BY ValueNat
<1>2. \A x \in S \union {id} : q[x] \in Nat
  BY DEF Quantities
<1>3. QED  BY <1>1, <1>2, SumAdd DEF Value

(* ... or less, changes the value by its quantity.                          *)
LEMMA ValueTake ==
  ASSUME NEW q \in Quantities, NEW S \in SUBSET Requests, NEW id \in S
  PROVE  Value(q, S) = q[id] + Value(q, S \ {id})
<1>1. S \ {id} \in SUBSET Requests /\ id \in Requests \ (S \ {id}) /\ (S \ {id}) \union {id} = S
  OBVIOUS
<1>2. Value(q, (S \ {id}) \union {id}) = q[id] + Value(q, S \ {id})
  BY <1>1, ValueAdd
<1>3. QED  BY <1>1, <1>2

(* A confirmation more weighs as much as the request.                       *)
LEMMA WeightedMore ==
  ASSUME NEW q \in Quantities, NEW conf \in [Requests -> Nat], NEW S \in SUBSET Requests,
         NEW id \in Requests, NEW conf1 \in [Requests -> Nat],
         conf1[id] = conf[id] + 1, \A x \in Requests \ {id} : conf1[x] = conf[x]
  PROVE  Weighted(q, conf1, S) = Weighted(q, conf, S) + (IF id \in S THEN q[id] ELSE 0)
<1> DEFINE f == [x \in Requests |-> conf[x] * q[x]]
           g == [x \in Requests |-> conf1[x] * q[x]]
<1>1. f \in Quantities /\ g \in Quantities
  BY WeightedFun
<1>2. \A x \in S \ {id} : f[x] = g[x]
  OBVIOUS
<1>3. g[id] = f[id] + q[id]
  <2>1. conf[id] \in Nat /\ q[id] \in Nat /\ conf1[id] = conf[id] + 1
    BY DEF Quantities
  <2>2. \A m, n \in Nat : (m + 1) * n = m * n + n
    OBVIOUS
  <2>3. QED  BY <2>1, <2>2
<1>4. IsFiniteSet(S) /\ \A x \in S : f[x] \in Nat /\ g[x] \in Nat
  BY <1>1, ValueNat DEF Quantities
<1>5. f[id] \in Nat /\ q[id] \in Nat
  BY <1>1 DEF Quantities
<1>6. SumFunctionOnSet(f, S) \in Nat /\ SumFunctionOnSet(g, S) \in Nat
  BY <1>4, SumNat
<1>7. Weighted(q, conf, S) = SumFunctionOnSet(f, S) /\ Weighted(q, conf1, S) = SumFunctionOnSet(g, S)
  BY DEF Weighted
<1> HIDE DEF f, g
<1>8. CASE id \in S
  <2>1. SumFunctionOnSet(f, S) + g[id] = SumFunctionOnSet(g, S) + f[id]
    BY <1>2, <1>4, <1>8, SumChanged
  <2>2. QED  BY <1>3, <1>5, <1>6, <1>7, <1>8, <2>1
<1>9. CASE id \notin S
  <2>1. SumFunctionOnSet(f, S) = SumFunctionOnSet(g, S)
    BY <1>2, <1>4, <1>9, SumSame
  <2>2. QED  BY <1>6, <1>7, <1>9, <2>1
<1>10. QED  BY <1>8, <1>9

(* What is owed is owed for requests.                                       *)
LEMMA BooksIds == ASSUME NEW n, NEW S, NEW conf, NEW P, Books(n, S, conf, P)
                  PROVE  \A c \in P : c.id \in Requests
  BY DEF Books

(* Every entry keeps the counter covered.                                   *)
LEMMA CoveredEntry ==
  ASSUME NEW q \in Quantities, NEW n, NEW S, NEW conf, NEW P, NEW n1, NEW S1, NEW conf1, NEW P1,
         Books(n, S, conf, P), Books(n1, S1, conf1, P1),
         Entry(q, n, S, conf, P, n1, S1, conf1, P1), Covered(q, n, S, conf, P)
  PROVE  Covered(q, n1, S1, conf1, P1)
<1> DEFINE w == Weighted(q, conf, S)  w1 == Weighted(q, conf1, S1)
           v == Value(q, S)           v1 == Value(q, S1)
           d == Debt(q, P)            d1 == Debt(q, P1)
<1>1. /\ w \in Nat /\ w1 \in Nat /\ v \in Nat /\ v1 \in Nat /\ d \in Nat /\ d1 \in Nat
      /\ n \in Nat /\ n1 \in Nat
  BY WeightedNat, ValueNat, DebtNat, BooksIds DEF Books
<1>2. n + w >= v + d
  BY DEF Covered
<1> SUFFICES n1 + w1 >= v1 + d1
  BY DEF Covered
<1>3. CASE Placed(q, n, S, conf, P, n1, S1, conf1, P1)
  <2>1. PICK id \in Requests \ S :
          /\ conf[id] = 0 /\ S1 = S \union {id} /\ n1 = n + q[id]
          /\ conf1 = conf /\ P1 = P
    BY <1>3 DEF Placed
  <2> DEFINE f == [x \in Requests |-> conf[x] * q[x]]
  <2>2. q[id] \in Nat /\ f[id] = 0 /\ f \in Quantities
    <3>1. q[id] \in Nat /\ f[id] = 0 * q[id]
      BY <2>1 DEF Quantities
    <3>2. f \in Quantities
      BY WeightedFun DEF Books
    <3>3. QED  BY <3>1, <3>2
  <2>3. v1 = q[id] + v
    BY <2>1, ValueAdd DEF Books
  <2>4. w1 = Value(f, S \union {id}) /\ w = Value(f, S)
    BY <2>1 DEF Weighted, Value
  <2> HIDE DEF f
  <2>5. w1 = f[id] + w
    BY <2>2, <2>4, ValueAdd DEF Books
  <2> HIDE DEF w, w1, v, v1, d, d1
  <2>6. QED  BY <1>1, <1>2, <2>1, <2>2, <2>3, <2>5 DEF d, d1
<1>4. CASE Ordered(q, n, S, conf, P, n1, S1, conf1, P1)
  <2>1. PICK id \in Requests :
          /\ conf1 = [conf EXCEPT ![id] = @ + 1] /\ S1 = S /\ n1 = n
          /\ IF id \in S /\ q[id] > 0
             THEN \E c : c \notin P /\ c.id = id /\ P1 = P \union {c}
             ELSE P1 = P
    BY <1>4 DEF Ordered
  <2>2. w1 = w + (IF id \in S THEN q[id] ELSE 0)
    <3>1. /\ conf \in [Requests -> Nat] /\ S \in SUBSET Requests
          /\ conf1 \in [Requests -> Nat] /\ conf1[id] = conf[id] + 1
          /\ \A x \in Requests \ {id} : conf1[x] = conf[x]
      BY <2>1 DEF Books
    <3>2. Weighted(q, conf1, S) = Weighted(q, conf, S) + (IF id \in S THEN q[id] ELSE 0)
      BY <3>1, WeightedMore
    <3>3. QED  BY <2>1, <3>2
  <2>3. q[id] \in Nat
    BY DEF Quantities
  <2>4. CASE id \in S /\ q[id] > 0
    <3>1. PICK c : c \notin P /\ c.id = id /\ P1 = P \union {c}
      BY <2>1, <2>4
    <3>2. d1 = q[id] + d
      BY <3>1, DebtAdd, BooksIds DEF Books
    <3> HIDE DEF w, w1, v, v1, d, d1
    <3>3. QED  BY <1>1, <1>2, <2>1, <2>2, <2>3, <2>4, <3>2 DEF v, v1
  <2>5. CASE ~(id \in S /\ q[id] > 0)
    <3>1. P1 = P /\ w1 = w
      <4> HIDE DEF w, w1
      <4>1. QED  BY <1>1, <2>1, <2>2, <2>3, <2>5
    <3>2. QED  BY <1>2, <2>1, <3>1
  <2>6. QED  BY <2>4, <2>5
<1>5. CASE Counted(q, n, S, conf, P, n1, S1, conf1, P1)
  <2>1. PICK c \in P : /\ P1 = P \ {c} /\ n1 = Less(n, q[c.id])
                       /\ S1 = S /\ conf1 = conf
    BY <1>5 DEF Counted
  <2>2. c.id \in Requests /\ q[c.id] \in Nat
    BY BooksIds DEF Quantities
  <2>3. IsFiniteSet(P1) /\ P1 \union {c} = P /\ c \notin P1 /\ \A e \in P1 : e.id \in Requests
    BY <2>1, BooksIds DEF Books
  <2>4. d = q[c.id] + d1
    BY <2>2, <2>3, DebtAdd
  <2> HIDE DEF w, w1, v, v1, d, d1
  <2>5. n1 + q[c.id] >= n
    BY <1>1, <2>1, <2>2 DEF Less
  <2>6. QED  BY <1>1, <1>2, <2>1, <2>2, <2>4, <2>5 DEF w, w1, v, v1
<1>6. CASE Lost(n, S, conf, P, n1, S1, conf1, P1)
  <2>1. P1 \subseteq P /\ n1 = n /\ S1 = S /\ conf1 = conf
    BY <1>6 DEF Lost
  <2>2. d1 <= d
    BY <2>1, DebtSubset, BooksIds DEF Books
  <2> HIDE DEF w, w1, v, v1, d, d1
  <2>3. QED  BY <1>1, <1>2, <2>1, <2>2 DEF w, w1, v, v1
<1>7. CASE Skipped(n, S, conf, P, n1, S1, conf1, P1)
  <2>1. PICK id \in Requests :
          /\ conf1 = [conf EXCEPT ![id] = @ + 1] /\ S1 = S /\ n1 = n /\ P1 = P
    BY <1>7 DEF Skipped
  <2>2. /\ conf \in [Requests -> Nat] /\ S \in SUBSET Requests
        /\ conf1 \in [Requests -> Nat] /\ conf1[id] = conf[id] + 1
        /\ \A x \in Requests \ {id} : conf1[x] = conf[x]
    BY <2>1 DEF Books
  <2>3. Weighted(q, conf1, S) = Weighted(q, conf, S) + (IF id \in S THEN q[id] ELSE 0)
    BY <2>2, WeightedMore
  <2>4. q[id] \in Nat
    BY DEF Quantities
  <2>5. w1 >= w
    <3>1. w1 = w + (IF id \in S THEN q[id] ELSE 0)
      BY <2>1, <2>3
    <3> HIDE DEF w, w1
    <3>2. QED  BY <1>1, <2>4, <3>1
  <2> HIDE DEF w, w1, v, v1, d, d1
  <2>6. QED  BY <1>1, <1>2, <2>1, <2>5 DEF v, v1, d, d1
<1>8. QED  BY <1>3, <1>4, <1>5, <1>6, <1>7 DEF Entry

----------------------------------------------------------------------------
(* What is owed for one request.                                            *)

(* It is counted, and zero says that no transaction is about the request.   *)
LEMMA OwedCount ==
  ASSUME NEW P, IsFiniteSet(P), NEW id
  PROVE  /\ IsFiniteSet(OwedFor(id, P)) /\ Cardinality(OwedFor(id, P)) \in Nat
         /\ Cardinality(OwedFor(id, P)) = 0 <=> \A c \in P : c.id # id
<1>1. OwedFor(id, P) \in SUBSET P
  BY DEF OwedFor
<1>2. IsFiniteSet(OwedFor(id, P))
  BY <1>1, FS_Subset
<1>3. Cardinality(OwedFor(id, P)) = 0 <=> OwedFor(id, P) = {}
  BY <1>2, FS_EmptySet
<1>4. QED  BY <1>2, <1>3, FS_CardinalityType DEF OwedFor

(* A transaction more counts for its own request only.                      *)
LEMMA OwedMore ==
  ASSUME NEW P, IsFiniteSet(P), NEW e, e \notin P, NEW id
  PROVE  Cardinality(OwedFor(id, P \union {e}))
           = Cardinality(OwedFor(id, P)) + (IF e.id = id THEN 1 ELSE 0)
<1>1. IsFiniteSet(OwedFor(id, P)) /\ Cardinality(OwedFor(id, P)) \in Nat
  BY OwedCount
<1>2. CASE e.id = id
  <2>1. OwedFor(id, P \union {e}) = OwedFor(id, P) \union {e} /\ e \notin OwedFor(id, P)
    BY <1>2 DEF OwedFor
  <2>2. QED  BY <1>1, <1>2, <2>1, FS_AddElement
<1>3. CASE e.id # id
  <2>1. OwedFor(id, P \union {e}) = OwedFor(id, P)
    BY <1>3 DEF OwedFor
  <2>2. QED  BY <1>1, <1>3, <2>1
<1>4. QED  BY <1>2, <1>3

(* Of fewer transactions no more are about a request.                       *)
LEMMA OwedFewer ==
  ASSUME NEW P, IsFiniteSet(P), NEW R \in SUBSET P, NEW id
  PROVE  Cardinality(OwedFor(id, R)) <= Cardinality(OwedFor(id, P))
<1>1. IsFiniteSet(OwedFor(id, P)) /\ OwedFor(id, R) \in SUBSET OwedFor(id, P)
  BY OwedCount DEF OwedFor
<1>2. QED  BY <1>1, FS_Subset

(* A confirmation issues one transaction at most.                           *)
LEMMA IssuedEntry ==
  ASSUME NEW q \in Quantities, NEW n, NEW S, NEW conf, NEW P, NEW n1, NEW S1, NEW conf1, NEW P1,
         Books(n, S, conf, P),
         Entry(q, n, S, conf, P, n1, S1, conf1, P1), Issued(S, conf, P)
  PROVE  Issued(S1, conf1, P1)
<1> SUFFICES ASSUME NEW id \in S1
             PROVE  Cardinality(OwedFor(id, P1)) <= conf1[id]
  BY DEF Issued
<1>1. /\ IsFiniteSet(P) /\ conf \in [Requests -> Nat] /\ S \in SUBSET Requests
      /\ \A c \in P : c.id \in S
      /\ \A x \in S : Cardinality(OwedFor(x, P)) <= conf[x]
      /\ \A x : Cardinality(OwedFor(x, P)) \in Nat
  BY OwedCount DEF Books, Issued
<1>2. CASE Placed(q, n, S, conf, P, n1, S1, conf1, P1)
  <2>1. PICK x \in Requests \ S :
          /\ conf[x] = 0 /\ S1 = S \union {x} /\ conf1 = conf /\ P1 = P
    BY <1>2 DEF Placed
  <2>2. Cardinality(OwedFor(x, P)) = 0
    BY <1>1, <2>1, OwedCount
  <2>3. QED  BY <1>1, <2>1, <2>2
<1>3. CASE \/ Ordered(q, n, S, conf, P, n1, S1, conf1, P1)
           \/ Skipped(n, S, conf, P, n1, S1, conf1, P1)
  <2>1. PICK x \in Requests :
          /\ conf1 = [conf EXCEPT ![x] = @ + 1] /\ S1 = S
          /\ \/ \E c : c \notin P /\ c.id = x /\ P1 = P \union {c}
             \/ P1 = P
    BY <1>3 DEF Ordered, Skipped
  <2>2. conf1[id] = conf[id] + (IF x = id THEN 1 ELSE 0) /\ conf[id] \in Nat
    BY <1>1, <2>1
  <2>3. CASE P1 = P
    BY <1>1, <2>1, <2>2, <2>3
  <2>4. ASSUME NEW c, c \notin P, c.id = x, P1 = P \union {c}
        PROVE  Cardinality(OwedFor(id, P1)) <= conf1[id]
    <3>1. Cardinality(OwedFor(id, P1))
            = Cardinality(OwedFor(id, P)) + (IF x = id THEN 1 ELSE 0)
      BY <1>1, <2>4, OwedMore
    <3>2. QED  BY <1>1, <2>1, <2>2, <3>1
  <2>5. QED  BY <2>1, <2>3, <2>4
<1>4. CASE \/ Counted(q, n, S, conf, P, n1, S1, conf1, P1)
           \/ Lost(n, S, conf, P, n1, S1, conf1, P1)
  <2>1. P1 \in SUBSET P /\ S1 = S /\ conf1 = conf
    BY <1>4 DEF Counted, Lost
  <2>2. Cardinality(OwedFor(id, P1)) <= Cardinality(OwedFor(id, P))
    BY <1>1, <2>1, OwedFewer
  <2>3. Cardinality(OwedFor(id, P1)) \in Nat /\ conf[id] \in Nat
    BY <1>1, <2>1, FS_Subset, OwedCount
  <2>4. QED  BY <1>1, <2>1, <2>2, <2>3
<1>5. QED  BY <1>2, <1>3, <1>4 DEF Entry

(* As long as nothing is lost, every entry keeps the counter balanced.      *)
LEMMA BalancedEntry ==
  ASSUME NEW q \in Quantities, NEW n, NEW S, NEW conf, NEW P, NEW n1, NEW S1, NEW conf1, NEW P1,
         Books(n, S, conf, P), Issued(S, conf, P), Balanced(q, n, S, conf, P),
         \/ Placed(q, n, S, conf, P, n1, S1, conf1, P1)
         \/ Ordered(q, n, S, conf, P, n1, S1, conf1, P1)
         \/ Counted(q, n, S, conf, P, n1, S1, conf1, P1)
         \/ n1 = n /\ S1 = S /\ conf1 = conf /\ P1 = P
  PROVE  Balanced(q, n1, S1, conf1, P1)
<1> DEFINE U == Untouched(S, conf, P)
           U1 == Untouched(S1, conf1, P1)
           once == \A x \in S : conf[x] <= 1
           once1 == \A x \in S1 : conf1[x] <= 1
           Count(x) == Cardinality(OwedFor(x, P))
<1>1. /\ n \in Nat /\ S \in SUBSET Requests /\ conf \in [Requests -> Nat]
      /\ IsFiniteSet(P) /\ \A c \in P : c.id \in S
  BY DEF Books
<1>2. /\ \A x : Count(x) \in Nat
      /\ \A x : Count(x) = 0 <=> \A c \in P : c.id # x
      /\ \A x \in S : Count(x) <= conf[x]
  BY <1>1, OwedCount DEF Issued
<1>3. U \in SUBSET S /\ U = {x \in S : Count(x) = conf[x]}
  BY DEF Untouched
<1>4. n <= Value(q, U) /\ (once => n = Value(q, U))
  BY DEF Balanced
<1>5. Value(q, U) \in Nat /\ \A x \in Requests : q[x] \in Nat
  BY <1>1, <1>3, ValueNat DEF Quantities
<1> SUFFICES n1 <= Value(q, U1) /\ (once1 => n1 = Value(q, U1))
  BY DEF Balanced
<1> HIDE DEF U
<1>6. CASE Placed(q, n, S, conf, P, n1, S1, conf1, P1)
  <2>1. PICK id \in Requests \ S :
          /\ conf[id] = 0 /\ S1 = S \union {id} /\ n1 = n + q[id]
          /\ conf1 = conf /\ P1 = P
    BY <1>6 DEF Placed
  <2>2. Count(id) = 0
    BY <1>1, <1>2, <2>1
  <2>3. U1 = U \union {id} /\ id \in Requests \ U
    BY <1>3, <2>1, <2>2 DEF Untouched
  <2> HIDE DEF U1
  <2>4. Value(q, U1) = q[id] + Value(q, U)
    BY <1>1, <1>3, <2>3, ValueAdd
  <2>5. once1 => once
    BY <2>1
  <2>6. QED  BY <1>1, <1>4, <1>5, <2>1, <2>4, <2>5
<1>7. CASE Ordered(q, n, S, conf, P, n1, S1, conf1, P1)
  <2>1. PICK id \in Requests :
          /\ conf1 = [conf EXCEPT ![id] = @ + 1] /\ S1 = S /\ n1 = n
          /\ IF id \in S /\ q[id] > 0
             THEN \E c : c \notin P /\ c.id = id /\ P1 = P \union {c}
             ELSE P1 = P
    BY <1>7 DEF Ordered
  <2>2. \A x \in S : conf1[x] = conf[x] + (IF x = id THEN 1 ELSE 0) /\ conf[x] \in Nat
    BY <1>1, <2>1
  <2>3. once1 => once
    BY <2>1, <2>2
  <2>4. CASE id \in S /\ q[id] > 0
    <3>1. PICK c : c \notin P /\ c.id = id /\ P1 = P \union {c}
      BY <2>1, <2>4
    <3>2. \A x \in S : Cardinality(OwedFor(x, P1)) = Count(x) + (IF x = id THEN 1 ELSE 0)
      BY <1>1, <3>1, OwedMore
    <3> HIDE DEF Count
    <3>3. \A x \in S : Cardinality(OwedFor(x, P1)) = conf1[x] <=> Count(x) = conf[x]
      BY <1>2, <2>2, <3>2
    <3>4. U1 = U
      BY <1>3, <2>1, <3>3 DEF Untouched
    <3>5. QED  BY <1>4, <2>1, <2>3, <3>4
  <2>5. CASE id \notin S
    <3>1. P1 = P /\ \A x \in S : conf1[x] = conf[x]
      BY <2>1, <2>2, <2>5
    <3>2. U1 = U
      BY <1>3, <2>1, <3>1 DEF Untouched
    <3>3. QED  BY <1>4, <2>1, <2>3, <3>2
  <2>6. CASE id \in S /\ ~(q[id] > 0)
    <3>1. P1 = P /\ q[id] = 0
      BY <1>5, <2>1, <2>6
    <3> HIDE DEF Count
    <3>2. \A x \in S : Count(x) = conf1[x] <=> Count(x) = conf[x] /\ x # id
      BY <1>2, <2>2
    <3>3. U1 = U \ {id}
      BY <1>3, <2>1, <3>1, <3>2 DEF Untouched, Count
    <3>4. Value(q, U1) = Value(q, U)
      <4>1. CASE id \in U
        <5> HIDE DEF U1
        <5>1. Value(q, U) = q[id] + Value(q, U \ {id})
          BY <1>1, <1>3, <4>1, ValueTake
        <5>2. Value(q, U \ {id}) \in Nat
          BY <1>1, <1>3, ValueNat
        <5>3. QED  BY <3>1, <3>3, <5>1, <5>2
      <4>2. CASE id \notin U
        BY <3>3, <4>2
      <4>3. QED  BY <4>1, <4>2
    <3>5. QED  BY <1>4, <2>1, <2>3, <3>4
  <2>7. QED  BY <2>4, <2>5, <2>6
<1>8. CASE Counted(q, n, S, conf, P, n1, S1, conf1, P1)
  <2>1. PICK c \in P : /\ P1 = P \ {c} /\ n1 = Less(n, q[c.id])
                       /\ S1 = S /\ conf1 = conf
    BY <1>8 DEF Counted
  <2> DEFINE id == c.id
             Count1(x) == Cardinality(OwedFor(x, P1))
  <2>2. id \in S /\ q[id] \in Nat /\ IsFiniteSet(P1) /\ P1 \union {c} = P /\ c \notin P1
    BY <1>1, <1>5, <2>1, FS_RemoveElement
  <2>3. \A x : Count1(x) \in Nat
    BY <2>2, OwedCount
  <2>4. \A x : Count(x) = Count1(x) + (IF x = id THEN 1 ELSE 0)
    <3>1. \A x : Cardinality(OwedFor(x, P1 \union {c}))
                   = Cardinality(OwedFor(x, P1)) + (IF c.id = x THEN 1 ELSE 0)
      BY <2>2, OwedMore
    <3>2. QED  BY <2>2, <3>1
  <2>5. U1 = {x \in S : Count1(x) = conf[x]}
    BY <2>1 DEF Untouched
  <2> HIDE DEF Count, Count1, U1
  <2>6. \A x \in S : Count1(x) = conf[x] <=> Count(x) = conf[x] /\ x # id
    <3> SUFFICES ASSUME NEW x \in S PROVE Count1(x) = conf[x] <=> Count(x) = conf[x] /\ x # id
      OBVIOUS
    <3>1. Count(x) <= conf[x] /\ conf[x] \in Nat /\ Count1(x) \in Nat
      BY <1>1, <1>2, <2>3
    <3>2. QED  BY <2>4, <3>1
  <2>7. U1 = U \ {id}
    BY <1>3, <2>5, <2>6
  <2>8. Value(q, U1) \in Nat
    BY <1>1, <1>3, <2>7, ValueNat
  <2>9. CASE id \in U
    <3>1. Value(q, U) = q[id] + Value(q, U1)
      BY <1>1, <1>3, <2>7, <2>9, ValueTake
    <3>2. n1 = Less(n, q[id]) /\ (once1 => once)
      BY <2>1
    <3> HIDE DEF once, once1, id
    <3>3. QED  BY <1>1, <1>4, <1>5, <2>2, <2>8, <3>1, <3>2 DEF Less
  <2>10. CASE id \notin U
    <3>1. U1 = U
      BY <2>7, <2>10
    <3>2. n1 <= n
      BY <1>1, <2>1, <2>2 DEF Less
    <3>3. ~once
      <4>1. Count(id) # 0 /\ Count(id) # conf[id] /\ Count(id) <= conf[id]
        BY <1>2, <1>3, <2>1, <2>2, <2>10
      <4>2. Count(id) \in Nat /\ conf[id] \in Nat
        BY <1>1, <1>2, <2>2
      <4>3. ~(conf[id] <= 1)
        BY <4>1, <4>2
      <4>4. QED  BY <2>2, <4>3
    <3>4. n1 \in Nat
      BY <1>1, <2>1, <2>2, LessInNat
    <3>5. ~once1
      BY <2>1, <3>3
    <3>6. QED  BY <1>1, <1>4, <1>5, <3>1, <3>2, <3>4, <3>5
  <2>11. QED  BY <2>9, <2>10
<1>9. CASE n1 = n /\ S1 = S /\ conf1 = conf /\ P1 = P
  BY <1>4, <1>9 DEF U
<1>10. QED  BY <1>6, <1>7, <1>8, <1>9

----------------------------------------------------------------------------
(* The calls of all devices together.                                       *)

AllCalls == UNION {calls[v] : v \in Volunteers}

(* Calls with the same number are of one confirmation, on one device.       *)
Numbered ==
  \A v \in Volunteers : \A c \in calls[v] :
    /\ c.n \in Nat /\ c.n <= Confirmations
    /\ \A w \in Volunteers : \A d \in calls[w] : c.n = d.n => v = w

(* Only requests that were placed are confirmed.                            *)
OnlyPlaced == \A id \in Requests : confirmed[id] > 0 => id \in submitted

(* The actions, as far as the server and the calls are concerned.           *)
LEMMA StepKinds ==
  ASSUME TypeOK, [Next]_vars
  PROVE  \/ \E id \in Requests : Submit(id)
         \/ \E v \in Volunteers : \E id \in submitted : \E items \in CopiedItems(id) :
              Confirm(v, id, items)
         \/ \E v \in Volunteers : \E call \in calls[v] :
              \/ CountDown(v, call) \/ CountDownAll(v, call) \/ Credit(v, call)
              \/ FindUserRequest(v, call) \/ Unlist(v, call) \/ Remove(v, call)
              \/ WritesCanFail /\ CallFails(v, call)
         \/ \E v \in Volunteers : CanBeKilled /\ Kill(v)
         \/ UNCHANGED <<serverVars, calls, confirmed>>
<1>1. ASSUME NEW v \in Volunteers,
             \/ refreshData(v) \/ ReadServer(v) \/ \E list \in lists[v] : Display(v, list)
             \/ \E id \in shown[v] : completionBtnClicked(v, id)
             \/ Cancel(v) \/ ShowResult(v) \/ HideResult(v)
      PROVE  UNCHANGED <<serverVars, calls, confirmed>>
  BY <1>1 DEF refreshData, ReadServer, Display, completionBtnClicked, Cancel, ShowResult, HideResult
<1>2. ASSUME NEW v \in Volunteers, NEW id \in alert[v]
      PROVE  id \in submitted
  BY DEF TypeOK
<1>3. ASSUME NEW v \in Volunteers, Carry(v)
      PROVE  \E call \in calls[v] :
              \/ CountDown(v, call) \/ CountDownAll(v, call) \/ Credit(v, call)
              \/ FindUserRequest(v, call) \/ Unlist(v, call) \/ Remove(v, call)
              \/ WritesCanFail /\ CallFails(v, call)
  BY <1>3 DEF Carry, CallFails
<1>4. ASSUME NEW v \in Volunteers, Kill(v) PROVE CanBeKilled
  BY <1>4 DEF Kill
<1>5. UNCHANGED vars => UNCHANGED <<serverVars, calls, confirmed>>
  BY DEF vars
<1>6. QED  BY <1>1, <1>2, <1>3, <1>4, <1>5 DEF Next

(* Every confirmation is counted.                                           *)
LEMMA ConfirmationsNat == TypeOK => Confirmations \in Nat
  BY CompletionAssumption, SumNat DEF TypeOK, Confirmations

(* The handler of the alert adds one confirmation, of one request.          *)
LEMMA ConfirmedMore ==
  ASSUME TypeOK, NEW v \in Volunteers, NEW id \in submitted, NEW items, Confirm(v, id, items)
  PROVE  /\ id \in Requests /\ confirmed \in [Requests -> Nat] /\ confirmed' \in [Requests -> Nat]
         /\ confirmed'[id] = confirmed[id] + 1
         /\ \A x \in Requests \ {id} : confirmed'[x] = confirmed[x]
         /\ Confirmations' = Confirmations + 1
<1>1. /\ id \in Requests /\ confirmed \in [Requests -> Nat] /\ confirmed' \in [Requests -> Nat]
      /\ confirmed'[id] = confirmed[id] + 1
      /\ \A x \in Requests \ {id} : confirmed'[x] = confirmed[x]
  BY DEF Confirm, TypeOK
<1>2. SumFunctionOnSet(confirmed, Requests) + confirmed'[id]
        = SumFunctionOnSet(confirmed', Requests) + confirmed[id]
  BY <1>1, CompletionAssumption, SumChanged
<1>3. SumFunctionOnSet(confirmed, Requests) \in Nat /\ SumFunctionOnSet(confirmed', Requests) \in Nat
  BY <1>1, CompletionAssumption, SumNat
<1>4. confirmed[id] \in Nat
  BY <1>1
<1>5. SumFunctionOnSet(confirmed', Requests) = SumFunctionOnSet(confirmed, Requests) + 1
  BY <1>1, <1>2, <1>3, <1>4
<1>6. QED  BY <1>1, <1>5 DEF Confirmations

(* What is issued for a completion carries its number.                      *)
LEMMA CallsNumber ==
  ASSUME NEW id, NEW items, NEW n, NEW call \in markRequestAsComplete(id, items, n)
  PROVE  call.n = n
  BY DEF markRequestAsComplete, updateCounters, Call, ItemCall

(* Both hold as long as nothing is placed ...                               *)
LEMMA NumberedInit == Init => Numbered /\ OnlyPlaced
  BY DEF Init, Numbered, OnlyPlaced

(* ... and are kept, because a confirmation takes a number that no call     *)
(* has.                                                                     *)
LEMMA NumberedStep ==
  ASSUME TypeOK, Numbered, OnlyPlaced, [Next]_vars
  PROVE  Numbered' /\ OnlyPlaced'
<1>1. CallsOK(calls, submitted) /\ Confirmations \in Nat
  BY TypeCalls, ConfirmationsNat
<1>2. ASSUME \A v \in Volunteers : calls'[v] \subseteq calls[v],
             confirmed' = confirmed, submitted \subseteq submitted'
      PROVE  Numbered' /\ OnlyPlaced'
  <2>1. Confirmations' = Confirmations
    BY <1>2 DEF Confirmations
  <2>2. QED  BY <1>2, <2>1 DEF Numbered, OnlyPlaced
<1>3. ASSUME NEW v \in Volunteers, NEW id \in submitted, NEW items \in CopiedItems(id),
             Confirm(v, id, items)
      PROVE  Numbered' /\ OnlyPlaced'
  <2> DEFINE mine == markRequestAsComplete(id, items, Confirmations + 1)
  <2>1. /\ calls'[v] = calls[v] \union mine
        /\ \A w \in Volunteers \ {v} : calls'[w] = calls[w]
    <3>1. items \in SUBSET Items
      BY CopyHas DEF TypeOK
    <3>2. QED  BY <1>1, <1>3, <3>1, CallsIssued
  <2>2. \A c \in mine : c.n = Confirmations + 1
    BY CallsNumber
  <2>3. Confirmations' = Confirmations + 1
    BY <1>3, ConfirmedMore
  <2> HIDE DEF mine
  <2>4. ASSUME NEW w \in Volunteers, NEW c \in calls'[w]
        PROVE  c.n \in Nat /\ c.n <= Confirmations + 1
    <3>1. c \in calls[w] \/ c \in mine
      BY <2>1
    <3>2. QED  BY <1>1, <2>2, <3>1 DEF Numbered
  <2>5. ASSUME NEW w \in Volunteers, NEW c \in calls'[w],
               NEW x \in Volunteers, NEW d \in calls'[x], c.n = d.n
        PROVE  w = x
    <3>1. CASE c.n = Confirmations + 1
      <4>1. \A y \in Volunteers : \A e \in calls[y] : e.n # Confirmations + 1
        BY <1>1 DEF Numbered
      <4>2. c \notin calls[w] /\ d \notin calls[x]
        BY <2>5, <3>1, <4>1
      <4>3. QED  BY <2>1, <4>2
    <3>2. CASE c.n # Confirmations + 1
      <4>1. c \in calls[w] /\ d \in calls[x]
        BY <2>1, <2>2, <2>5, <3>2
      <4>2. QED  BY <2>5, <4>1 DEF Numbered
    <3>3. QED  BY <3>1, <3>2
  <2>6. OnlyPlaced'
    <3>1. submitted' = submitted
      BY <1>3 DEF Confirm, serverVars
    <3>2. QED  BY <1>3, <3>1, ConfirmedMore DEF OnlyPlaced
  <2>7. QED  BY <2>3, <2>4, <2>5, <2>6 DEF Numbered
<1>4. ASSUME NEW v \in Volunteers, NEW call \in calls[v], FindUserRequest(v, call)
      PROVE  Numbered' /\ OnlyPlaced'
  <2> DEFINE unlist == Call("unlist", call.id, call.n)
  <2>1. unlist.n = call.n
    BY DEF Call
  <2>2. /\ calls'[v] \subseteq (calls[v] \ {call}) \union {unlist}
        /\ \A w \in Volunteers \ {v} : calls'[w] = calls[w]
    BY <1>1, <1>4, SearchDone
  <2> HIDE DEF unlist
  <2>3. UNCHANGED <<confirmed, submitted>>
    BY <1>4 DEF FindUserRequest, serverVars
  <2>4. Confirmations' = Confirmations
    BY <2>3 DEF Confirmations
  <2>5. \A w \in Volunteers : \A c \in calls'[w] : \E d \in calls[w] : c.n = d.n
    BY <2>1, <2>2
  <2>6. Numbered'
    BY <2>4, <2>5 DEF Numbered
  <2>7. QED  BY <2>3, <2>6 DEF OnlyPlaced
<1>5. ASSUME NEW v \in Volunteers, NEW call \in calls[v],
             \/ CountDown(v, call) \/ CountDownAll(v, call) \/ Credit(v, call)
             \/ Unlist(v, call) \/ Remove(v, call) \/ CallFails(v, call)
      PROVE  Numbered' /\ OnlyPlaced'
  <2>1. Done(v, call) /\ UNCHANGED <<confirmed, submitted>>
    BY <1>5 DEF CountDown, CountDownAll, Credit, Unlist, Remove, CallFails, serverVars
  <2>2. \A w \in Volunteers : calls'[w] \subseteq calls[w]
    BY <1>1, <2>1, CallDone
  <2>3. QED  BY <1>2, <2>1, <2>2
<1>6. ASSUME NEW v \in Volunteers, Kill(v)
      PROVE  Numbered' /\ OnlyPlaced'
  <2>1. \A w \in Volunteers : calls'[w] \subseteq calls[w]
    BY <1>1, <1>6 DEF Kill, CallsOK
  <2>2. UNCHANGED <<confirmed, submitted>>
    BY <1>6 DEF Kill, serverVars
  <2>3. QED  BY <1>2, <2>1, <2>2
<1>7. ASSUME NEW id \in Requests, Submit(id)
      PROVE  Numbered' /\ OnlyPlaced'
  <2>1. UNCHANGED <<calls, confirmed>> /\ submitted' = submitted \union {id}
    BY <1>7 DEF Submit
  <2>2. QED  BY <1>2, <2>1
<1>8. ASSUME UNCHANGED <<serverVars, calls, confirmed>>
      PROVE  Numbered' /\ OnlyPlaced'
  BY <1>2, <1>8 DEF serverVars
<1>9. QED  BY <1>3, <1>4, <1>5, <1>6, <1>7, <1>8, StepKinds

(* What a step does to the calls of all devices together.                   *)
LEMMA AllDone ==
  ASSUME TypeOK, Numbered, NEW v \in Volunteers, NEW call \in calls[v], Done(v, call),
         submitted' = submitted
  PROVE  call \in AllCalls /\ AllCalls' = AllCalls \ {call}
<1>1. /\ calls'[v] = calls[v] \ {call}
      /\ \A w \in Volunteers \ {v} : calls'[w] = calls[w]
  BY TypeCalls, CallDone
<1>2. \A w \in Volunteers \ {v} : call \notin calls[w]
  BY DEF Numbered
<1>3. QED  BY <1>1, <1>2 DEF AllCalls

(* The search for a request touches no call but searches.                   *)
LEMMA AllSearched ==
  ASSUME TypeOK, Numbered, NEW v \in Volunteers, NEW call \in calls[v], FindUserRequest(v, call)
  PROVE  /\ call \in AllCalls /\ call.kind = "findUserRequest"
         /\ \A c : c.kind # "unlist" /\ c # call => (c \in AllCalls' <=> c \in AllCalls)
         /\ \A c : c # call /\ c \in AllCalls => c \in AllCalls'
<1> DEFINE unlist == Call("unlist", call.id, call.n)
<1>1. /\ calls'[v] \subseteq (calls[v] \ {call}) \union {unlist}
      /\ calls[v] \ {call} \subseteq calls'[v]
      /\ \A w \in Volunteers \ {v} : calls'[w] = calls[w]
      /\ unlist.kind = "unlist"
  BY TypeCalls, SearchDone
<1> HIDE DEF unlist
<1>2. \A w \in Volunteers \ {v} : call \notin calls[w]
  BY DEF Numbered
<1>3. \A c : c.kind # "unlist" /\ c # call => (c \in calls'[v] <=> c \in calls[v])
  BY <1>1
<1>4. call \in AllCalls /\ call.kind = "findUserRequest"
  BY DEF AllCalls, FindUserRequest
<1>5. ASSUME NEW c, c.kind # "unlist", c # call PROVE c \in AllCalls' <=> c \in AllCalls
  BY <1>1, <1>3, <1>5 DEF AllCalls
<1>6. ASSUME NEW c, c # call, c \in AllCalls PROVE c \in AllCalls'
  BY <1>1, <1>6 DEF AllCalls
<1>7. QED  BY <1>4, <1>5, <1>6

(* The calls of a completion are new, even when the request was completed   *)
(* before.                                                                  *)
LEMMA AllIssued ==
  ASSUME TypeOK, Numbered, NEW v \in Volunteers, NEW id \in submitted,
         NEW items \in CopiedItems(id), Confirm(v, id, items)
  PROVE  /\ AllCalls' = AllCalls \union markRequestAsComplete(id, items, Confirmations + 1)
         /\ \A c \in markRequestAsComplete(id, items, Confirmations + 1) : c \notin AllCalls
<1> DEFINE mine == markRequestAsComplete(id, items, Confirmations + 1)
<1>1. /\ calls'[v] = calls[v] \union mine
      /\ \A w \in Volunteers \ {v} : calls'[w] = calls[w]
  <2>1. items \in SUBSET Items
    BY CopyHas DEF TypeOK
  <2>2. QED  BY <2>1, TypeCalls, CallsIssued
<1>2. \A c \in mine : c.n = Confirmations + 1
  BY CallsNumber
<1> HIDE DEF mine
<1>3. AllCalls' = AllCalls \union mine
  BY <1>1 DEF AllCalls
<1>4. \A c \in AllCalls : c.n # Confirmations + 1
  <2> SUFFICES ASSUME NEW w \in Volunteers, NEW c \in calls[w] PROVE c.n # Confirmations + 1
    BY DEF AllCalls
  <2>1. c.n \in Nat /\ c.n <= Confirmations /\ Confirmations \in Nat
    BY ConfirmationsNat DEF Numbered
  <2>2. QED  BY <2>1
<1>5. QED  BY <1>2, <1>3, <1>4 DEF mine

(* A process that ends takes calls with it and issues none.                 *)
LEMMA AllKilled ==
  ASSUME TypeOK, NEW v \in Volunteers, Kill(v)
  PROVE  AllCalls' \subseteq AllCalls
<1>1. \A w \in Volunteers : calls'[w] \subseteq calls[w]
  BY TypeCalls DEF Kill, CallsOK
<1>2. QED  BY <1>1 DEF AllCalls

(* Calls concern requests that were placed.                                 *)
LEMMA CallIds == ASSUME TypeOK PROVE \A c \in AllCalls : c.id \in submitted /\ c.kind \in Kinds
  BY DEF AllCalls, TypeOK

----------------------------------------------------------------------------
(* Every step is an entry in the books of every counter.                    *)

(* The quantities of one item.                                              *)
Quantity(i) == [id \in Requests |-> Qty[id][i]]

CounterKinds == {"requestCounter", "requested"}

(* The transactions of a kind that are owed for an item of requests in Z.   *)
Owed(kind, i, Z) == {c \in AllCalls : c.kind = kind /\ c.item = i /\ c.id \in Z}

(* How a counter for requests in Z changes from n to n1.                    *)
CountsFor(kind, i, Z, n, n1) ==
  /\ \A id \in Requests : Submit(id) => n1 = IF id \in Z THEN n + Qty[id][i] ELSE n
  /\ \A v \in Volunteers : \A call \in calls[v] :
       CountDown(v, call) \/ CountDownAll(v, call) =>
         n1 = IF call.kind = kind /\ call.item = i /\ call.id \in Z
              THEN Less(n, Qty[call.id][i]) ELSE n
  /\ UNCHANGED <<requestCounter, requested>> => n1 = n

(* An entry that neither skips nor loses anything.                          *)
Move(q, n, S, conf, P, n1, S1, conf1, P1) ==
  \/ Placed(q, n, S, conf, P, n1, S1, conf1, P1)
  \/ Ordered(q, n, S, conf, P, n1, S1, conf1, P1)
  \/ Counted(q, n, S, conf, P, n1, S1, conf1, P1)
  \/ n1 = n /\ S1 = S /\ conf1 = conf /\ P1 = P

(* The quantities of one item are natural numbers.                          *)
LEMMA QuantityType == \A i \in Items : Quantity(i) \in Quantities
  BY CompletionAssumption DEF Quantity, Quantities

(* A completion issues one transaction per counter and item of the copy.    *)
LEMMA OwedIssued ==
  ASSUME NEW kind \in CounterKinds, NEW i \in Items, NEW id, NEW items \in SUBSET Items, NEW n
  PROVE  {c \in markRequestAsComplete(id, items, n) : c.kind = kind /\ c.item = i}
           = IF i \in items THEN {ItemCall(kind, id, i, n)} ELSE {}
<1>1. ASSUME NEW c \in markRequestAsComplete(id, items, n), c.kind = kind, c.item = i
      PROVE  i \in items /\ c = ItemCall(kind, id, i, n)
  <2>1. c \in updateCounters(id, items, n)
    BY <1>1 DEF markRequestAsComplete, Call, CounterKinds
  <2>2. PICK k \in CounterKinds, j \in items : c = ItemCall(k, id, j, n)
    BY <2>1 DEF updateCounters, CounterKinds
  <2>3. c.kind = k /\ c.item = j
    BY <2>2 DEF ItemCall
  <2>4. QED  BY <1>1, <2>2, <2>3
<1>2. ASSUME i \in items
      PROVE  /\ ItemCall(kind, id, i, n) \in markRequestAsComplete(id, items, n)
             /\ ItemCall(kind, id, i, n).kind = kind /\ ItemCall(kind, id, i, n).item = i
  BY <1>2 DEF markRequestAsComplete, updateCounters, CounterKinds, ItemCall
<1>3. QED  BY <1>1, <1>2

(* What a step that leaves a counter alone does to what is owed.            *)
LEMMA OwedKept ==
  ASSUME NEW kind, NEW i, NEW Z,
         \A c : c.kind = kind => (c \in AllCalls' <=> c \in AllCalls)
  PROVE  Owed(kind, i, Z)' = Owed(kind, i, Z)
  BY DEF Owed

(* Whatever the actors do, for a counter it is one of the entries; a copy    *)
(* lacks the item only if the catalogue does, and a transaction is lost      *)
(* only if the server may refuse or a process may end.                       *)
LEMMA CounterEntry ==
  ASSUME TypeOK, Numbered, OnlyPlaced, [Next]_vars,
         NEW kind \in CounterKinds, NEW i \in Items, NEW Z \in SUBSET Requests,
         NEW n, NEW n1, CountsFor(kind, i, Z, n, n1)
  PROVE  \/ Move(Quantity(i), n, submitted \intersect Z, confirmed, Owed(kind, i, Z),
                 n1, submitted' \intersect Z, confirmed', Owed(kind, i, Z)')
         \/ /\ i \notin Catalogue
            /\ Skipped(n, submitted \intersect Z, confirmed, Owed(kind, i, Z),
                       n1, submitted' \intersect Z, confirmed', Owed(kind, i, Z)')
         \/ /\ WritesCanFail \/ CanBeKilled
            /\ Lost(n, submitted \intersect Z, confirmed, Owed(kind, i, Z),
                    n1, submitted' \intersect Z, confirmed', Owed(kind, i, Z)')
<1> DEFINE S == submitted \intersect Z
           S1 == submitted' \intersect Z
           P == Owed(kind, i, Z)
           P1 == Owed(kind, i, Z)'
           q == Quantity(i)
           Same == n1 = n /\ S1 = S /\ confirmed' = confirmed /\ P1 = P
<1> SUFFICES \/ Move(q, n, S, confirmed, P, n1, S1, confirmed', P1)
             \/ i \notin Catalogue /\ Skipped(n, S, confirmed, P, n1, S1, confirmed', P1)
             \/ /\ WritesCanFail \/ CanBeKilled
                /\ Lost(n, S, confirmed, P, n1, S1, confirmed', P1)
  OBVIOUS
<1>1. /\ \A id \in Requests : q[id] = Qty[id][i]
      /\ \A id \in Requests : id \notin submitted => confirmed[id] = 0
      /\ submitted \in SUBSET Requests /\ \A c \in AllCalls : c.id \in submitted
  BY CallIds DEF Quantity, OnlyPlaced, TypeOK
<1>2. kind \notin {"credit", "findUserRequest", "unlist", "remove"}
  BY DEF CounterKinds
<1>3. Same => Move(q, n, S, confirmed, P, n1, S1, confirmed', P1)
  BY DEF Move
<1>4. ASSUME NEW id \in Requests, Submit(id)
      PROVE  Move(q, n, S, confirmed, P, n1, S1, confirmed', P1)
  <2>1. /\ id \notin submitted /\ submitted' = submitted \union {id}
        /\ UNCHANGED <<calls, confirmed>>
    BY <1>4 DEF Submit
  <2>2. n1 = IF id \in Z THEN n + Qty[id][i] ELSE n
    BY <1>4 DEF CountsFor
  <2>3. P1 = P
    BY <2>1 DEF Owed, AllCalls
  <2>4. CASE id \in Z
    <3>1. /\ id \in Requests \ S /\ S1 = S \union {id} /\ n1 = n + q[id]
          /\ confirmed[id] = 0 /\ confirmed' = confirmed
      BY <1>1, <2>1, <2>2, <2>4
    <3>2. Placed(q, n, S, confirmed, P, n1, S1, confirmed', P1)
      BY <2>3, <3>1 DEF Placed
    <3>3. QED  BY <3>2 DEF Move
  <2>5. CASE id \notin Z
    <3>1. S1 = S /\ n1 = n
      BY <2>1, <2>2, <2>5
    <3>2. QED  BY <1>3, <2>1, <2>3, <3>1
  <2>6. QED  BY <2>4, <2>5
<1>5. ASSUME NEW v \in Volunteers, NEW id \in submitted, NEW items \in CopiedItems(id),
             Confirm(v, id, items)
      PROVE  \/ Move(q, n, S, confirmed, P, n1, S1, confirmed', P1)
             \/ i \notin Catalogue /\ Skipped(n, S, confirmed, P, n1, S1, confirmed', P1)
  <2> DEFINE k == Confirmations + 1
             mine == markRequestAsComplete(id, items, k)
             new == ItemCall(kind, id, i, k)
  <2>1. AllCalls' = AllCalls \union mine /\ \A c \in mine : c \notin AllCalls
    BY <1>5, AllIssued
  <2>2. UNCHANGED <<requestCounter, requested, submitted>> /\ id \in Requests
    BY <1>1, <1>5 DEF Confirm, serverVars, counters
  <2>3. confirmed' = [confirmed EXCEPT ![id] = @ + 1]
    BY <1>5 DEF Confirm
  <2>4. n1 = n /\ S1 = S
    BY <2>2 DEF CountsFor
  <2>5. /\ items \in SUBSET Items /\ (i \in items => q[id] > 0)
        /\ i \in Catalogue /\ q[id] > 0 => i \in items
    BY <1>1, <2>2, CopyHas
  <2>6. new.id = id /\ \A c \in mine : c.id = id
    BY <2>5, CallsOfRequest DEF ItemCall
  <2>7. {c \in mine : c.kind = kind /\ c.item = i} = IF i \in items THEN {new} ELSE {}
    BY <2>2, <2>5, OwedIssued
  <2> HIDE DEF mine, new
  <2>8. P1 = P \union {c \in mine : c.kind = kind /\ c.item = i /\ id \in Z}
    BY <2>1, <2>6 DEF Owed
  <2>9. CASE i \notin items /\ q[id] > 0
    <3>1. P1 = P /\ i \notin Catalogue
      BY <2>5, <2>7, <2>8, <2>9
    <3>2. Skipped(n, S, confirmed, P, n1, S1, confirmed', P1)
      BY <2>2, <2>3, <2>4, <3>1 DEF Skipped
    <3>3. QED  BY <3>1, <3>2
  <2>10. CASE i \in items \/ ~(q[id] > 0)
    <3>1. CASE id \in S /\ q[id] > 0
      <4>1. P1 = P \union {new} /\ new \in mine
        BY <2>7, <2>8, <2>10, <3>1
      <4>2. new \notin P
        BY <2>1, <4>1 DEF Owed
      <4>3. \E c : c \notin P /\ c.id = id /\ P1 = P \union {c}
        BY <2>6, <4>1, <4>2
      <4>4. QED  BY <2>2, <2>3, <2>4, <3>1, <4>3 DEF Ordered, Move
    <3>2. CASE ~(id \in S /\ q[id] > 0)
      <4>1. i \notin items \/ id \notin Z
        BY <1>5, <2>5, <3>2
      <4>2. P1 = P
        BY <2>7, <2>8, <4>1
      <4>3. QED  BY <2>2, <2>3, <2>4, <3>2, <4>2 DEF Ordered, Move
    <3>3. QED  BY <3>1, <3>2
  <2>11. QED  BY <2>9, <2>10
<1>6. ASSUME NEW v \in Volunteers, NEW call \in calls[v], CountDown(v, call) \/ CountDownAll(v, call)
      PROVE  Move(q, n, S, confirmed, P, n1, S1, confirmed', P1)
  <2>1. Done(v, call) /\ UNCHANGED <<submitted, confirmed>>
    BY <1>6 DEF CountDown, CountDownAll
  <2>2. call \in AllCalls /\ AllCalls' = AllCalls \ {call}
    BY <2>1, AllDone
  <2>3. n1 = IF call.kind = kind /\ call.item = i /\ call.id \in Z
             THEN Less(n, Qty[call.id][i]) ELSE n
    BY <1>6 DEF CountsFor
  <2>4. P1 = P \ {call}
    BY <2>2 DEF Owed
  <2>5. CASE call \in P
    <3>1. n1 = Less(n, q[call.id])
      BY <1>1, <2>2, <2>3, <2>5 DEF Owed
    <3>2. Counted(q, n, S, confirmed, P, n1, S1, confirmed', P1)
      BY <2>1, <2>4, <2>5, <3>1 DEF Counted
    <3>3. QED  BY <3>2 DEF Move
  <2>6. CASE call \notin P
    <3>1. n1 = n /\ P1 = P
      BY <2>2, <2>3, <2>4, <2>6 DEF Owed
    <3>2. QED  BY <1>3, <2>1, <3>1
  <2>7. QED  BY <2>5, <2>6
<1>7. ASSUME NEW v \in Volunteers, NEW call \in calls[v],
             Credit(v, call) \/ Unlist(v, call) \/ Remove(v, call)
      PROVE  Move(q, n, S, confirmed, P, n1, S1, confirmed', P1)
  <2>1. /\ Done(v, call) /\ UNCHANGED <<submitted, confirmed, requestCounter, requested>>
        /\ call.kind \in {"credit", "unlist", "remove"}
    BY <1>7 DEF Credit, Unlist, Remove, counters
  <2>2. AllCalls' = AllCalls \ {call}
    BY <2>1, AllDone
  <2>3. P1 = P
    BY <1>2, <2>1, <2>2, OwedKept
  <2>4. QED  BY <1>3, <2>1, <2>3 DEF CountsFor
<1>8. ASSUME NEW v \in Volunteers, NEW call \in calls[v], FindUserRequest(v, call)
      PROVE  Move(q, n, S, confirmed, P, n1, S1, confirmed', P1)
  <2>1. UNCHANGED <<submitted, confirmed, requestCounter, requested>>
    BY <1>8 DEF FindUserRequest, serverVars, counters
  <2>2. /\ call.kind = "findUserRequest"
        /\ \A c : c.kind # "unlist" /\ c # call => (c \in AllCalls' <=> c \in AllCalls)
    BY <1>8, AllSearched
  <2>3. P1 = P
    BY <1>2, <2>2, OwedKept
  <2>4. QED  BY <1>3, <2>1, <2>3 DEF CountsFor
<1>9. ASSUME NEW v \in Volunteers,
             \/ WritesCanFail /\ \E call \in calls[v] : CallFails(v, call)
             \/ CanBeKilled /\ Kill(v)
      PROVE  /\ WritesCanFail \/ CanBeKilled
             /\ Lost(n, S, confirmed, P, n1, S1, confirmed', P1)
  <2>1. UNCHANGED <<submitted, confirmed, requestCounter, requested>>
    BY <1>9 DEF CallFails, Kill, serverVars, counters
  <2>2. AllCalls' \subseteq AllCalls
    <3>1. ASSUME NEW call \in calls[v], CallFails(v, call) PROVE AllCalls' \subseteq AllCalls
      BY <2>1, <3>1, AllDone DEF CallFails
    <3>2. QED  BY <1>9, <3>1, AllKilled
  <2>3. P1 \subseteq P
    BY <2>2 DEF Owed
  <2>4. QED  BY <1>9, <2>1, <2>3 DEF CountsFor, Lost
<1>10. ASSUME UNCHANGED <<serverVars, calls, confirmed>>
       PROVE  Move(q, n, S, confirmed, P, n1, S1, confirmed', P1)
  <2>1. UNCHANGED <<submitted, confirmed, requestCounter, requested, calls>>
    BY <1>10 DEF serverVars, counters
  <2>2. P1 = P
    BY <2>1 DEF Owed, AllCalls
  <2>3. QED  BY <1>3, <2>1, <2>2 DEF CountsFor
<1> HIDE DEF S, S1, P, P1, q
<1>11. QED  BY <1>4, <1>5, <1>6, <1>7, <1>8, <1>9, <1>10, StepKinds

----------------------------------------------------------------------------
(* The books stay in order.                                                 *)

(* What holds of the books whatever is lost, ...                            *)
Orderly(q, n, S, conf, P) ==
  Books(n, S, conf, P) /\ Issued(S, conf, P) /\ Covered(q, n, S, conf, P)

(* ... and what holds as long as nothing is.                                *)
Exact(q, n, S, conf, P) ==
  Books(n, S, conf, P) /\ Issued(S, conf, P) /\ Balanced(q, n, S, conf, P)

(* Every entry leaves well-formed books: the counter stays a natural        *)
(* number, and what is owed concerns requests it counts.                    *)
LEMMA BooksEntry ==
  ASSUME NEW q \in Quantities, NEW n, NEW S, NEW conf, NEW P, NEW n1, NEW S1, NEW conf1, NEW P1,
         Books(n, S, conf, P), Entry(q, n, S, conf, P, n1, S1, conf1, P1)
  PROVE  Books(n1, S1, conf1, P1)
<1>1. /\ n \in Nat /\ S \in SUBSET Requests /\ conf \in [Requests -> Nat]
      /\ IsFiniteSet(P) /\ \A c \in P : c.id \in S
      /\ \A id \in Requests : q[id] \in Nat
  BY DEF Books, Quantities
<1>2. CASE Placed(q, n, S, conf, P, n1, S1, conf1, P1)
  BY <1>1, <1>2 DEF Placed, Books
<1>3. CASE \/ Ordered(q, n, S, conf, P, n1, S1, conf1, P1)
           \/ Skipped(n, S, conf, P, n1, S1, conf1, P1)
  <2>1. PICK id \in Requests :
          /\ conf1 = [conf EXCEPT ![id] = @ + 1] /\ S1 = S /\ n1 = n
          /\ P1 = P \/ \E c : id \in S /\ c.id = id /\ P1 = P \union {c}
    BY <1>3 DEF Ordered, Skipped
  <2>2. IsFiniteSet(P1) /\ \A c \in P1 : c.id \in S
    BY <1>1, <2>1, FS_AddElement
  <2>3. QED  BY <1>1, <2>1, <2>2 DEF Books
<1>4. CASE Counted(q, n, S, conf, P, n1, S1, conf1, P1)
  <2>1. PICK c \in P : /\ P1 = P \ {c} /\ n1 = Less(n, q[c.id])
                       /\ S1 = S /\ conf1 = conf
    BY <1>4 DEF Counted
  <2>2. n1 \in Nat
    BY <1>1, <2>1, LessInNat
  <2>3. QED  BY <1>1, <2>1, <2>2, FS_RemoveElement DEF Books
<1>5. CASE Lost(n, S, conf, P, n1, S1, conf1, P1)
  BY <1>1, <1>5, FS_Subset DEF Lost, Books
<1>6. QED  BY <1>2, <1>3, <1>4, <1>5 DEF Entry

(* All entries keep the books orderly ...                                   *)
LEMMA OrderlyEntry ==
  ASSUME NEW q \in Quantities, NEW n, NEW S, NEW conf, NEW P, NEW n1, NEW S1, NEW conf1, NEW P1,
         Orderly(q, n, S, conf, P),
         \/ Move(q, n, S, conf, P, n1, S1, conf1, P1)
         \/ Skipped(n, S, conf, P, n1, S1, conf1, P1)
         \/ Lost(n, S, conf, P, n1, S1, conf1, P1)
  PROVE  Orderly(q, n1, S1, conf1, P1)
<1>1. Books(n, S, conf, P) /\ Issued(S, conf, P) /\ Covered(q, n, S, conf, P)
  BY DEF Orderly
<1>2. Entry(q, n, S, conf, P, n1, S1, conf1, P1)
  BY DEF Move, Entry, Lost
<1>3. Books(n1, S1, conf1, P1)
  BY <1>1, <1>2, BooksEntry
<1>4. Issued(S1, conf1, P1)
  BY <1>1, <1>2, IssuedEntry
<1>5. Covered(q, n1, S1, conf1, P1)
  BY <1>1, <1>2, <1>3, CoveredEntry
<1>6. QED  BY <1>3, <1>4, <1>5 DEF Orderly

(* ... and those that neither skip nor lose anything keep them exact.       *)
LEMMA ExactEntry ==
  ASSUME NEW q \in Quantities, NEW n, NEW S, NEW conf, NEW P, NEW n1, NEW S1, NEW conf1, NEW P1,
         Exact(q, n, S, conf, P), Move(q, n, S, conf, P, n1, S1, conf1, P1)
  PROVE  Exact(q, n1, S1, conf1, P1)
<1>1. Books(n, S, conf, P) /\ Issued(S, conf, P) /\ Balanced(q, n, S, conf, P)
  BY DEF Exact
<1>2. Entry(q, n, S, conf, P, n1, S1, conf1, P1)
  BY DEF Move, Entry, Lost
<1>3. Books(n1, S1, conf1, P1)
  BY <1>1, <1>2, BooksEntry
<1>4. Issued(S1, conf1, P1)
  BY <1>1, <1>2, IssuedEntry
<1>5. Balanced(q, n1, S1, conf1, P1)
  BY <1>1, BalancedEntry DEF Move
<1>6. QED  BY <1>3, <1>4, <1>5 DEF Exact

(* The two counters of an item: requestCounter of each zone, and requested. *)
OfZone(z) == InZone(Requests, z)

(* Submit adds to the counter of the zone, and CountDown takes off it; the  *)
(* transactions on requested leave it alone.                                *)
LEMMA ZoneCounts ==
  ASSUME TypeOK, NEW z \in Zones, NEW i \in Items
  PROVE  CountsFor("requestCounter", i, OfZone(z), requestCounter[<<z, i>>], requestCounter'[<<z, i>>])
<1> DEFINE s == <<z, i>>
           n == requestCounter[s]
           n1 == requestCounter'[s]
<1>1. s \in Zones \X Items /\ n \in Nat /\ requestCounter \in [Zones \X Items -> Nat]
  BY DEF TypeOK
<1>2. ASSUME NEW id \in Requests, Submit(id)
      PROVE  n1 = IF id \in OfZone(z) THEN n + Qty[id][i] ELSE n
  <2>1. n1 = n + (IF ZoneOf[id] = z THEN Qty[id][i] ELSE 0)
    BY <1>1, <1>2 DEF Submit
  <2>2. id \in OfZone(z) <=> ZoneOf[id] = z
    BY DEF OfZone, InZone
  <2>3. QED  BY <1>1, <2>1, <2>2
<1>3. ASSUME NEW v \in Volunteers, NEW call \in calls[v], CountDown(v, call)
      PROVE  n1 = IF call.kind = "requestCounter" /\ call.item = i /\ call.id \in OfZone(z)
                  THEN Less(n, Qty[call.id][i]) ELSE n
  <2>1. call.kind = "requestCounter" /\ call.item \in Items /\ call.id \in Requests
    BY <1>3 DEF CountDown, TypeOK
  <2>2. <<ZoneOf[call.id], call.item>> = s <=> call.item = i /\ call.id \in OfZone(z)
    BY <2>1 DEF OfZone, InZone
  <2>3. requestCounter' = [requestCounter EXCEPT ![<<ZoneOf[call.id], call.item>>] =
                             Less(@, Qty[call.id][call.item])]
    BY <1>3 DEF CountDown
  <2> HIDE DEF s
  <2>4. n1 = IF <<ZoneOf[call.id], call.item>> = s THEN Less(n, Qty[call.id][call.item]) ELSE n
    BY <1>1, <2>3
  <2>5. QED  BY <2>1, <2>2, <2>4
<1>4. ASSUME NEW v \in Volunteers, NEW call \in calls[v], CountDownAll(v, call)
      PROVE  n1 = n /\ call.kind # "requestCounter"
  BY <1>4 DEF CountDownAll
<1>5. QED  BY <1>2, <1>3, <1>4 DEF CountsFor

(* The same of requested, over all zones.                                   *)
LEMMA ItemCounts ==
  ASSUME TypeOK, NEW i \in Items
  PROVE  CountsFor("requested", i, Requests, requested[i], requested'[i])
<1>1. requested[i] \in Nat /\ requested \in [Items -> Nat]
  BY DEF TypeOK
<1>2. ASSUME NEW id \in Requests, Submit(id)
      PROVE  requested'[i] = requested[i] + Qty[id][i]
  BY <1>1, <1>2 DEF Submit
<1>3. ASSUME NEW v \in Volunteers, NEW call \in calls[v], CountDownAll(v, call)
      PROVE  requested'[i] = IF call.kind = "requested" /\ call.item = i /\ call.id \in Requests
                             THEN Less(requested[i], Qty[call.id][i]) ELSE requested[i]
  <2>1. call.kind = "requested" /\ call.item \in Items /\ call.id \in Requests
    BY <1>3 DEF CountDownAll, TypeOK
  <2>2. QED  BY <1>1, <1>3, <2>1 DEF CountDownAll
<1>4. ASSUME NEW v \in Volunteers, NEW call \in calls[v], CountDown(v, call)
      PROVE  requested'[i] = requested[i] /\ call.kind # "requested"
  BY <1>4 DEF CountDown
<1>5. QED  BY <1>2, <1>3, <1>4 DEF CountsFor

----------------------------------------------------------------------------
(* The credits: those given, those owed, and the confirmations.             *)

Credited == SumFunctionOnSet(completedRequests, Volunteers)

Credits == {c \in AllCalls : c.kind = "credit"}

(* Sums of credits are natural numbers.                                     *)
LEMMA CreditedNat == TypeOK => Credited \in Nat
  BY CompletionAssumption, SumNat DEF TypeOK, Credited

(* A completion owes one credit, whatever the request holds.                *)
LEMMA CreditIssued ==
  \A id, items, n : {c \in markRequestAsComplete(id, items, n) : c.kind = "credit"} =
    {Call("credit", id, n)}
<1> SUFFICES ASSUME NEW id, NEW items, NEW n
             PROVE  {c \in markRequestAsComplete(id, items, n) : c.kind = "credit"}
                      = {Call("credit", id, n)}
  OBVIOUS
<1>1. \A c \in updateCounters(id, items, n) : c.kind # "credit"
  BY DEF updateCounters, ItemCall
<1>2. /\ Call("credit", id, n).kind = "credit"
      /\ Call("findUserRequest", id, n).kind # "credit"
      /\ Call("remove", id, n).kind # "credit"
  BY DEF Call
<1>3. QED  BY <1>1, <1>2 DEF markRequestAsComplete

(* A credit that is given is one less owed; nothing but a refusal or a kill *)
(* loses any.                                                               *)
LEMMA CreditEntry ==
  ASSUME TypeOK, Numbered, [Next]_vars, IsFiniteSet(Credits)
  PROVE  /\ IsFiniteSet(Credits')
         /\ \/ Credited' + Cardinality(Credits') + Confirmations
                 = Credited + Cardinality(Credits) + Confirmations'
            \/ /\ WritesCanFail \/ CanBeKilled
               /\ Credited' + Cardinality(Credits') <= Credited + Cardinality(Credits)
               /\ Confirmations' = Confirmations
<1> DEFINE Goal ==
      /\ IsFiniteSet(Credits')
      /\ \/ Credited' + Cardinality(Credits') + Confirmations
              = Credited + Cardinality(Credits) + Confirmations'
         \/ /\ WritesCanFail \/ CanBeKilled
            /\ Credited' + Cardinality(Credits') <= Credited + Cardinality(Credits)
            /\ Confirmations' = Confirmations
<1>1. Credited \in Nat /\ Confirmations \in Nat /\ Cardinality(Credits) \in Nat
  BY CreditedNat, ConfirmationsNat, FS_CardinalityType
<1>2. ASSUME Credits' = Credits, UNCHANGED <<completedRequests, confirmed>>
      PROVE  Goal
  <2>1. Credited' = Credited /\ Confirmations' = Confirmations
    BY <1>2 DEF Credited, Confirmations
  <2>2. QED  BY <1>2, <2>1
<1>3. ASSUME NEW v \in Volunteers, NEW id \in submitted, NEW items \in CopiedItems(id),
             Confirm(v, id, items)
      PROVE  Goal
  <2> DEFINE mine == markRequestAsComplete(id, items, Confirmations + 1)
             new == Call("credit", id, Confirmations + 1)
  <2>1. AllCalls' = AllCalls \union mine /\ \A c \in mine : c \notin AllCalls
    BY <1>3, AllIssued
  <2>2. {c \in mine : c.kind = "credit"} = {new}
    BY CreditIssued
  <2> HIDE DEF mine, new
  <2>3. Credits' = Credits \union {new} /\ new \notin Credits
    BY <2>1, <2>2 DEF Credits
  <2>4. IsFiniteSet(Credits') /\ Cardinality(Credits') = Cardinality(Credits) + 1
    BY <2>3, FS_AddElement
  <2>5. Confirmations' = Confirmations + 1
    BY <1>3, ConfirmedMore
  <2>6. Credited' = Credited
    BY <1>3 DEF Confirm, serverVars, counters, Credited
  <2>7. QED  BY <1>1, <2>4, <2>5, <2>6
<1>4. ASSUME NEW v \in Volunteers, NEW call \in calls[v], Credit(v, call)
      PROVE  Goal
  <2>1. /\ Done(v, call) /\ call.kind = "credit" /\ UNCHANGED <<submitted, confirmed>>
        /\ completedRequests' = [completedRequests EXCEPT ![v] = @ + 1]
    BY <1>4 DEF Credit
  <2>2. call \in AllCalls /\ AllCalls' = AllCalls \ {call}
    BY <2>1, AllDone
  <2>3. call \in Credits /\ Credits' = Credits \ {call}
    BY <2>1, <2>2 DEF Credits
  <2>4. IsFiniteSet(Credits') /\ Cardinality(Credits') = Cardinality(Credits) - 1
    BY <2>3, FS_RemoveElement
  <2>5. /\ \A x \in Volunteers : completedRequests[x] \in Nat /\ completedRequests'[x] \in Nat
        /\ completedRequests'[v] = completedRequests[v] + 1
        /\ \A x \in Volunteers \ {v} : completedRequests[x] = completedRequests'[x]
    BY <2>1 DEF TypeOK
  <2>6. Credited + completedRequests'[v] = Credited' + completedRequests[v] /\ Credited' \in Nat
    BY <2>5, CompletionAssumption, SumChanged, SumNat DEF Credited
  <2>7. completedRequests[v] \in Nat
    BY <2>5
  <2>8. Credited' = Credited + 1
    BY <1>1, <2>5, <2>6, <2>7
  <2>9. Confirmations' = Confirmations
    BY <2>1 DEF Confirmations
  <2>10. QED  BY <1>1, <2>4, <2>8, <2>9
<1>5. ASSUME NEW v \in Volunteers, NEW call \in calls[v],
             CountDown(v, call) \/ CountDownAll(v, call) \/ Unlist(v, call) \/ Remove(v, call)
      PROVE  Goal
  <2>1. /\ Done(v, call) /\ UNCHANGED <<submitted, confirmed, completedRequests>>
        /\ call.kind # "credit"
    BY <1>5 DEF CountDown, CountDownAll, Unlist, Remove, counters
  <2>2. AllCalls' = AllCalls \ {call}
    BY <2>1, AllDone
  <2>3. Credits' = Credits
    BY <2>1, <2>2 DEF Credits
  <2>4. QED  BY <1>2, <2>1, <2>3
<1>6. ASSUME NEW v \in Volunteers, NEW call \in calls[v], FindUserRequest(v, call)
      PROVE  Goal
  <2>1. UNCHANGED <<confirmed, completedRequests>>
    BY <1>6 DEF FindUserRequest, serverVars, counters
  <2>2. /\ call.kind = "findUserRequest"
        /\ \A c : c.kind # "unlist" /\ c # call => (c \in AllCalls' <=> c \in AllCalls)
    BY <1>6, AllSearched
  <2>3. Credits' = Credits
    BY <2>2 DEF Credits
  <2>4. QED  BY <1>2, <2>1, <2>3
<1>7. ASSUME NEW v \in Volunteers,
             \/ WritesCanFail /\ \E call \in calls[v] : CallFails(v, call)
             \/ CanBeKilled /\ Kill(v)
      PROVE  Goal
  <2>1. UNCHANGED <<submitted, confirmed, completedRequests>>
    BY <1>7 DEF CallFails, Kill, serverVars, counters
  <2>2. AllCalls' \subseteq AllCalls
    <3>1. ASSUME NEW call \in calls[v], CallFails(v, call) PROVE AllCalls' \subseteq AllCalls
      BY <2>1, <3>1, AllDone DEF CallFails
    <3>2. QED  BY <1>7, <3>1, AllKilled
  <2>3. Credits' \in SUBSET Credits
    BY <2>2 DEF Credits
  <2>4. IsFiniteSet(Credits') /\ Cardinality(Credits') <= Cardinality(Credits)
    BY <2>3, FS_Subset
  <2>5. Cardinality(Credits') \in Nat
    BY <2>4, FS_CardinalityType
  <2>6. Credited' = Credited /\ Confirmations' = Confirmations
    BY <2>1 DEF Credited, Confirmations
  <2>7. QED  BY <1>1, <1>7, <2>4, <2>5, <2>6
<1>8. ASSUME \/ \E id \in Requests : Submit(id)
             \/ UNCHANGED <<serverVars, calls, confirmed>>
      PROVE  Goal
  <2>1. UNCHANGED <<calls, confirmed, completedRequests>>
    BY <1>8 DEF Submit, serverVars, counters
  <2>2. Credits' = Credits
    BY <2>1 DEF Credits, AllCalls
  <2>3. QED  BY <1>2, <2>1, <2>2
<1> HIDE DEF Goal
<1>9. Goal
  BY <1>3, <1>4, <1>5, <1>6, <1>7, <1>8, StepKinds
<1>10. QED  BY <1>9 DEF Goal

----------------------------------------------------------------------------
(* Whatever is refused or lost.                                             *)

(* Every counter is covered, and every credit belongs to a confirmation.    *)
ZoneOrderly(z, i) ==
  Orderly(Quantity(i), requestCounter[<<z, i>>], submitted \intersect OfZone(z), confirmed,
          Owed("requestCounter", i, OfZone(z)))

ItemOrderly(i) ==
  Orderly(Quantity(i), requested[i], submitted \intersect Requests, confirmed,
          Owed("requested", i, Requests))

CreditsCovered == IsFiniteSet(Credits) /\ Credited + Cardinality(Credits) <= Confirmations

(* The inductive invariant of every run of Completion.                      *)
LossyInv ==
  /\ TypeOK /\ Numbered /\ OnlyPlaced
  /\ \A z \in Zones, i \in Items : ZoneOrderly(z, i)
  /\ \A i \in Items : ItemOrderly(i)
  /\ CreditsCovered

(* The books of a counter open empty.                                       *)
LEMMA BooksOpen ==
  ASSUME NEW q \in Quantities, NEW conf \in [Requests -> Nat]
  PROVE  Orderly(q, 0, {}, conf, {}) /\ Exact(q, 0, {}, conf, {})
<1>1. IsFiniteSet({}) /\ {} \in SUBSET Requests
  BY FS_EmptySet
<1>2. Value(q, {}) = 0 /\ Weighted(q, conf, {}) = 0 /\ Debt(q, {}) = 0
  BY <1>1, SumChosen DEF Value, Weighted, Debt
<1>3. Untouched({}, conf, {}) = {}
  BY DEF Untouched
<1>4. QED  BY <1>1, <1>2, <1>3 DEF Orderly, Exact, Books, Issued, Covered, Balanced

(* Nothing is counted, owed or credited at first.                           *)
LEMMA NothingAtFirst ==
  ASSUME Init
  PROVE  /\ AllCalls = {} /\ submitted = {}
         /\ \A kind, i, Z : Owed(kind, i, Z) = {}
         /\ \A z \in Zones, i \in Items : requestCounter[<<z, i>>] = 0
         /\ \A i \in Items : requested[i] = 0
         /\ confirmed \in [Requests -> Nat]
         /\ IsFiniteSet(Credits) /\ Credited + Cardinality(Credits) = Confirmations
<1>1. AllCalls = {}
  BY DEF Init, AllCalls
<1>2. Credits = {}
  BY <1>1 DEF Credits
<1>3. IsFiniteSet(Credits) /\ Cardinality(Credits) = 0
  BY <1>2, FS_EmptySet
<1>4. Credited = 0
  <2>1. /\ \A v \in Volunteers : completedRequests[v] \in Nat
        /\ \A v \in Volunteers \ {} : completedRequests[v] = 0
    BY DEF Init
  <2>2. SumFunctionOnSet(completedRequests, {}) = SumFunctionOnSet(completedRequests, Volunteers)
    BY <2>1, CompletionAssumption, SumSubset
  <2>3. QED  BY <2>2, SumChosen, FS_EmptySet DEF Credited
<1>5. Confirmations = 0
  <2>1. /\ \A id \in Requests : confirmed[id] \in Nat
        /\ \A id \in Requests \ {} : confirmed[id] = 0
    BY DEF Init
  <2>2. SumFunctionOnSet(confirmed, {}) = SumFunctionOnSet(confirmed, Requests)
    BY <2>1, CompletionAssumption, SumSubset
  <2>3. QED  BY <2>2, SumChosen, FS_EmptySet DEF Confirmations
<1>6. /\ submitted = {} /\ confirmed \in [Requests -> Nat]
      /\ \A z \in Zones, i \in Items : requestCounter[<<z, i>>] = 0
      /\ \A i \in Items : requested[i] = 0
  BY DEF Init
<1>7. \A kind, i, Z : Owed(kind, i, Z) = {}
  BY <1>1 DEF Owed
<1>8. QED  BY <1>1, <1>3, <1>4, <1>5, <1>6, <1>7

(* It holds at first ...                                                    *)
LEMMA LossyInit == Init => LossyInv
<1> SUFFICES ASSUME Init PROVE LossyInv
  OBVIOUS
<1>1. submitted \intersect Requests = {} /\ \A z \in Zones : submitted \intersect OfZone(z) = {}
  BY NothingAtFirst
<1>2. ASSUME NEW i \in Items PROVE ItemOrderly(i)
  BY <1>1, NothingAtFirst, QuantityType, BooksOpen DEF ItemOrderly
<1>3. ASSUME NEW z \in Zones, NEW i \in Items PROVE ZoneOrderly(z, i)
  BY <1>1, NothingAtFirst, QuantityType, BooksOpen DEF ZoneOrderly
<1>4. CreditsCovered
  <2>1. Credited + Cardinality(Credits) = Confirmations /\ IsFiniteSet(Credits)
    BY NothingAtFirst
  <2>2. Confirmations \in Nat
    BY TypeInit, ConfirmationsNat
  <2>3. QED  BY <2>1, <2>2 DEF CreditsCovered
<1>5. QED  BY <1>2, <1>3, <1>4, TypeInit, NumberedInit DEF LossyInv

(* ... and every step keeps it, refusals and kills included.                *)
LEMMA LossyStep == LossyInv /\ [Next]_vars => LossyInv'
<1> SUFFICES ASSUME LossyInv, [Next]_vars PROVE LossyInv'
  OBVIOUS
<1>1. TypeOK /\ Numbered /\ OnlyPlaced /\ TypeOK'
  BY TypeStep DEF LossyInv
<1>2. Numbered' /\ OnlyPlaced'
  BY <1>1, NumberedStep
<1>3. ASSUME NEW i \in Items PROVE ItemOrderly(i)'
  <2> DEFINE P == Owed("requested", i, Requests)
             P1 == Owed("requested", i, Requests)'
  <2>1. Orderly(Quantity(i), requested[i], submitted \intersect Requests, confirmed, P)
    BY DEF LossyInv, ItemOrderly
  <2>2. \/ Move(Quantity(i), requested[i], submitted \intersect Requests, confirmed, P,
                requested'[i], submitted' \intersect Requests, confirmed', P1)
        \/ Skipped(requested[i], submitted \intersect Requests, confirmed, P,
                   requested'[i], submitted' \intersect Requests, confirmed', P1)
        \/ Lost(requested[i], submitted \intersect Requests, confirmed, P,
                requested'[i], submitted' \intersect Requests, confirmed', P1)
    <3>1. CountsFor("requested", i, Requests, requested[i], requested'[i])
      BY <1>1, ItemCounts
    <3>2. "requested" \in CounterKinds /\ Requests \in SUBSET Requests
      BY DEF CounterKinds
    <3>3. QED  BY <1>1, <3>1, <3>2, CounterEntry
  <2> HIDE DEF P, P1
  <2>3. Orderly(Quantity(i), requested'[i], submitted' \intersect Requests, confirmed', P1)
    BY <2>1, <2>2, QuantityType, OrderlyEntry
  <2>4. QED  BY <2>3 DEF ItemOrderly, P1
<1>4. ASSUME NEW z \in Zones, NEW i \in Items PROVE ZoneOrderly(z, i)'
  <2> DEFINE Z == OfZone(z)
             s == <<z, i>>
             P == Owed("requestCounter", i, Z)
             P1 == Owed("requestCounter", i, Z)'
  <2>1. Orderly(Quantity(i), requestCounter[s], submitted \intersect Z, confirmed, P)
    BY DEF LossyInv, ZoneOrderly
  <2>2. \/ Move(Quantity(i), requestCounter[s], submitted \intersect Z, confirmed, P,
                requestCounter'[s], submitted' \intersect Z, confirmed', P1)
        \/ Skipped(requestCounter[s], submitted \intersect Z, confirmed, P,
                   requestCounter'[s], submitted' \intersect Z, confirmed', P1)
        \/ Lost(requestCounter[s], submitted \intersect Z, confirmed, P,
                requestCounter'[s], submitted' \intersect Z, confirmed', P1)
    <3>1. CountsFor("requestCounter", i, Z, requestCounter[s], requestCounter'[s])
      BY <1>1, ZoneCounts
    <3>2. "requestCounter" \in CounterKinds /\ Z \in SUBSET Requests
      BY DEF CounterKinds, OfZone, InZone
    <3> HIDE DEF Z, s
    <3>3. QED  BY <1>1, <3>1, <3>2, CounterEntry
  <2> HIDE DEF P, P1
  <2>3. Orderly(Quantity(i), requestCounter'[s], submitted' \intersect Z, confirmed', P1)
    BY <2>1, <2>2, QuantityType, OrderlyEntry
  <2>4. QED  BY <2>3 DEF ZoneOrderly, P1
<1>5. CreditsCovered'
  <2>1. /\ IsFiniteSet(Credits) /\ Credited + Cardinality(Credits) <= Confirmations
        /\ Credited \in Nat /\ Confirmations \in Nat /\ Cardinality(Credits) \in Nat
    BY <1>1, CreditedNat, ConfirmationsNat, FS_CardinalityType DEF LossyInv, CreditsCovered
  <2>2. /\ IsFiniteSet(Credits')
        /\ \/ Credited' + Cardinality(Credits') + Confirmations
                = Credited + Cardinality(Credits) + Confirmations'
           \/ /\ Credited' + Cardinality(Credits') <= Credited + Cardinality(Credits)
              /\ Confirmations' = Confirmations
    BY <1>1, <2>1, CreditEntry
  <2>3. Credited' \in Nat /\ Confirmations' \in Nat
    BY <1>1, CompletionAssumption, SumNat DEF TypeOK, Credited, Confirmations
  <2>4. Cardinality(Credits') \in Nat
    BY <2>2, FS_CardinalityType
  <2>5. Credited' + Cardinality(Credits') <= Confirmations'
    BY <2>1, <2>2, <2>3, <2>4
  <2>6. QED  BY <2>2, <2>5 DEF CreditsCovered
<1>6. QED  BY <1>1, <1>2, <1>3, <1>4, <1>5 DEF LossyInv

(* Demand and Debited are what the books call Value and Weighted.           *)
LEMMA DemandIsValue ==
  ASSUME NEW i \in Items, NEW S \in SUBSET Requests, confirmed \in [Requests -> Nat]
  PROVE  /\ Demand(S, i) = Value(Quantity(i), S)
         /\ Debited(S, i) = Weighted(Quantity(i), confirmed, S)
<1>1. Demand(S, i) = Value(Quantity(i), S)
  BY DEF Demand, Value, Quantity
<1>2. \A id \in Requests : Quantity(i)[id] = Qty[id][i]
  BY DEF Quantity
<1>3. [id \in Requests |-> confirmed[id] * Qty[id][i]]
        = [id \in Requests |-> confirmed[id] * Quantity(i)[id]]
  BY <1>2
<1>4. QED  BY <1>1, <1>3 DEF Debited, Weighted

(* A counter in order was lowered at most once per confirmation.            *)
LEMMA OrderlyCounter ==
  ASSUME NEW q \in Quantities, NEW n, NEW S, NEW conf, NEW P, Orderly(q, n, S, conf, P)
  PROVE  n + Weighted(q, conf, S) >= Value(q, S)
<1>1. /\ n \in Nat /\ S \in SUBSET Requests /\ conf \in [Requests -> Nat]
      /\ IsFiniteSet(P) /\ \A c \in P : c.id \in Requests
      /\ n + Weighted(q, conf, S) >= Value(q, S) + Debt(q, P)
  BY DEF Orderly, Books, Covered
<1>2. Debt(q, P) \in Nat /\ Value(q, S) \in Nat /\ Weighted(q, conf, S) \in Nat
  BY <1>1, DebtNat, ValueNat, WeightedNat
<1>3. QED  BY <1>1, <1>2

(* Whatever the server refuses and whatever is lost with a process, however *)
(* often a request is completed and by whom: updateCounters takes no more   *)
(* off a counter than the items of the requests that were confirmed, each   *)
(* as often as it was, and no completion is credited twice.                 *)
THEOREM NothingDebitedTwice == Spec => []DebitedAtMostOnce
<1>1. LossyInv => DebitedAtMostOnce
  <2> SUFFICES ASSUME LossyInv PROVE DebitedAtMostOnce
    OBVIOUS
  <2>1. submitted \in SUBSET Requests /\ confirmed \in [Requests -> Nat] /\ TypeOK
    BY DEF LossyInv, TypeOK
  <2>2. ASSUME NEW z \in Zones, NEW i \in Items
        PROVE  requestCounter[<<z, i>>] + Debited(InZone(submitted, z), i)
                 >= Demand(InZone(submitted, z), i)
    <3>1. submitted \intersect OfZone(z) = InZone(submitted, z)
          /\ InZone(submitted, z) \in SUBSET Requests
      BY <2>1 DEF OfZone, InZone
    <3>2. Orderly(Quantity(i), requestCounter[<<z, i>>], InZone(submitted, z), confirmed,
                  Owed("requestCounter", i, OfZone(z)))
      BY <3>1 DEF LossyInv, ZoneOrderly
    <3>3. requestCounter[<<z, i>>] + Weighted(Quantity(i), confirmed, InZone(submitted, z))
            >= Value(Quantity(i), InZone(submitted, z))
      BY <3>2, QuantityType, OrderlyCounter
    <3>4. QED  BY <2>1, <3>1, <3>3, DemandIsValue
  <2>3. ASSUME NEW i \in Items
        PROVE  requested[i] + Debited(submitted, i) >= Demand(submitted, i)
    <3>1. submitted \intersect Requests = submitted
      BY <2>1
    <3>2. Orderly(Quantity(i), requested[i], submitted, confirmed, Owed("requested", i, Requests))
      BY <3>1 DEF LossyInv, ItemOrderly
    <3>3. requested[i] + Weighted(Quantity(i), confirmed, submitted) >= Value(Quantity(i), submitted)
      BY <3>2, QuantityType, OrderlyCounter
    <3>4. QED  BY <2>1, <3>3, DemandIsValue
  <2>4. SumFunctionOnSet(completedRequests, Volunteers) <= Confirmations
    <3>1. /\ IsFiniteSet(Credits) /\ Credited + Cardinality(Credits) <= Confirmations
      BY DEF LossyInv, CreditsCovered
    <3>2. Credited \in Nat /\ Confirmations \in Nat /\ Cardinality(Credits) \in Nat
      BY <2>1, <3>1, CreditedNat, ConfirmationsNat, FS_CardinalityType
    <3>3. QED  BY <3>1, <3>2 DEF Credited
  <2>5. QED  BY <2>2, <2>3, <2>4 DEF DebitedAtMostOnce
<1>2. QED  BY <1>1, LossyInit, LossyStep, PTL DEF Spec

----------------------------------------------------------------------------
(* As long as the server refuses nothing and no process ends.               *)

(* What is gone from the server was confirmed, ...                          *)
Gone == \A id \in submitted : id \notin live \/ id \notin userRequests => confirmed[id] > 0

(* ... as was everything that a device has called for, ...                  *)
CallsConfirmed == \A c \in AllCalls : confirmed[c.id] > 0

(* The read of userRequests and the write that follows it.                  *)
Searching(c) == c.kind \in {"findUserRequest", "unlist"}

(* ... and what was confirmed and is listed still is searched for.          *)
Listed ==
  \A id \in userRequests : confirmed[id] > 0 =>
    \E c \in AllCalls : Searching(c) /\ c.id = id

ListInv == Gone /\ CallsConfirmed /\ Listed

(* Nothing is gone or listed at first.                                      *)
LEMMA ListInit == Init => ListInv
<1> SUFFICES ASSUME Init PROVE ListInv
  OBVIOUS
<1>1. AllCalls = {} /\ submitted = {} /\ userRequests = {}
  BY NothingAtFirst DEF Init
<1>2. QED  BY <1>1 DEF ListInv, Gone, CallsConfirmed, Listed

(* What the search for the request issues.                                  *)
LEMMA SearchIssues ==
  ASSUME TypeOK, NEW v \in Volunteers, NEW call \in calls[v], FindUserRequest(v, call)
  PROVE  /\ call.id \in userRequests => \E c \in AllCalls' : Searching(c) /\ c.id = call.id
         /\ \A c \in AllCalls' : c \in AllCalls \/ c.id = call.id
<1> DEFINE unlist == Call("unlist", call.id, call.n)
<1>1. /\ calls'[v] = (calls[v] \ {call}) \union
           (IF call.id \in userRequests THEN {unlist} ELSE {})
      /\ \A w \in Volunteers \ {v} : calls'[w] = calls[w]
  BY TypeCalls DEF FindUserRequest, CallsOK
<1>2. unlist.kind = "unlist" /\ unlist.id = call.id
  BY DEF Call
<1> HIDE DEF unlist
<1>3. ASSUME call.id \in userRequests PROVE unlist \in AllCalls' /\ Searching(unlist)
  BY <1>1, <1>2, <1>3 DEF AllCalls, Searching
<1>4. \A c \in AllCalls' : c \in AllCalls \/ c = unlist
  BY <1>1 DEF AllCalls
<1>5. QED  BY <1>2, <1>3, <1>4

(* What every completion issues is such a search, and calls for nothing but *)
(* the request.                                                             *)
LEMMA SearchIssued ==
  ASSUME NEW id, NEW items \in SUBSET Items, NEW n
  PROVE  /\ \E c \in markRequestAsComplete(id, items, n) : Searching(c) /\ c.id = id
         /\ \A c \in markRequestAsComplete(id, items, n) : c.id = id
<1>1. /\ Call("findUserRequest", id, n) \in markRequestAsComplete(id, items, n)
      /\ Call("findUserRequest", id, n).kind = "findUserRequest"
      /\ Call("findUserRequest", id, n).id = id
  BY DEF markRequestAsComplete, Call
<1>2. QED  BY <1>1, CallsOfRequest DEF Searching

(* A request leaves the lists by the calls of a confirmation only, and the  *)
(* search goes on until it has left the second.                             *)
LEMMA ListStep ==
  ASSUME WritesCanFail = FALSE, CanBeKilled = FALSE,
         TypeOK, TypeOK', Numbered, OnlyPlaced, ListInv, [Next]_vars
  PROVE  ListInv'
<1>1. /\ submitted \in SUBSET Requests /\ userRequests \in SUBSET submitted
      /\ confirmed \in [Requests -> Nat]
      /\ \A c \in AllCalls : c.id \in submitted
  BY CallIds DEF TypeOK
<1>2. Gone /\ CallsConfirmed /\ Listed
  BY DEF ListInv
<1>3. ASSUME NEW id \in Requests, Submit(id) PROVE ListInv'
  <2>1. /\ id \notin submitted /\ submitted' = submitted \union {id}
        /\ live' = live \union {id} /\ userRequests' = userRequests \union {id}
        /\ UNCHANGED <<calls, confirmed>>
    BY <1>3 DEF Submit
  <2>2. AllCalls' = AllCalls
    BY <2>1 DEF AllCalls
  <2>3. ~(confirmed[id] > 0)
    BY <2>1 DEF OnlyPlaced
  <2>4. Gone' /\ CallsConfirmed'
    BY <1>2, <2>1, <2>2 DEF Gone, CallsConfirmed
  <2>5. Listed'
    BY <1>2, <2>1, <2>2, <2>3 DEF Listed
  <2>6. QED  BY <2>4, <2>5 DEF ListInv
<1>4. ASSUME NEW v \in Volunteers, NEW id \in submitted, NEW items \in CopiedItems(id),
             Confirm(v, id, items)
      PROVE  ListInv'
  <2> DEFINE mine == markRequestAsComplete(id, items, Confirmations + 1)
  <2>1. AllCalls' = AllCalls \union mine
    BY <1>4, AllIssued DEF ListInv
  <2>2. /\ \E c \in mine : Searching(c) /\ c.id = id
        /\ \A c \in mine : c.id = id
    <3>1. items \in SUBSET Items
      BY <1>1, CopyHas
    <3>2. QED  BY <3>1, SearchIssued
  <2> HIDE DEF mine
  <2>3. UNCHANGED <<live, userRequests, submitted>>
    BY <1>4 DEF Confirm, serverVars
  <2>4. /\ confirmed'[id] > 0
        /\ \A x \in Requests : confirmed[x] > 0 => confirmed'[x] > 0
        /\ \A x \in Requests \ {id} : confirmed'[x] = confirmed[x]
    BY <1>1, <1>4, ConfirmedMore
  <2>5. Gone'
    BY <1>1, <1>2, <2>3, <2>4 DEF Gone
  <2>6. CallsConfirmed'
    BY <1>1, <1>2, <2>1, <2>2, <2>4 DEF CallsConfirmed
  <2>7. Listed'
    BY <1>1, <1>2, <2>1, <2>2, <2>3, <2>4 DEF Listed
  <2>8. QED  BY <2>5, <2>6, <2>7 DEF ListInv
<1>5. ASSUME NEW v \in Volunteers, NEW call \in calls[v],
             \/ CountDown(v, call) \/ CountDownAll(v, call) \/ Credit(v, call)
             \/ Unlist(v, call) \/ Remove(v, call)
      PROVE  ListInv'
  <2>1. /\ Done(v, call) /\ UNCHANGED <<submitted, confirmed>>
        /\ live' = live \/ live' = live \ {call.id}
        /\ \/ userRequests' = userRequests /\ ~Searching(call)
           \/ userRequests' = userRequests \ {call.id}
    BY <1>5 DEF CountDown, CountDownAll, Credit, Unlist, Remove, Searching
  <2>2. call \in AllCalls /\ AllCalls' = AllCalls \ {call}
    BY <2>1, AllDone
  <2>3. confirmed[call.id] > 0
    BY <1>2, <2>2 DEF CallsConfirmed
  <2>4. Gone'
    BY <1>2, <2>1, <2>3 DEF Gone
  <2>5. CallsConfirmed'
    BY <1>2, <2>1, <2>2 DEF CallsConfirmed
  <2>6. Listed'
    <3> SUFFICES ASSUME NEW id \in userRequests', confirmed[id] > 0
                 PROVE  \E c \in AllCalls' : Searching(c) /\ c.id = id
      BY <2>1 DEF Listed
    <3>1. PICK c \in AllCalls : Searching(c) /\ c.id = id
      BY <1>2, <2>1 DEF Listed
    <3>2. c # call
      BY <2>1, <3>1
    <3>3. QED  BY <2>2, <3>1, <3>2
  <2>7. QED  BY <2>4, <2>5, <2>6 DEF ListInv
<1>6. ASSUME NEW v \in Volunteers, NEW call \in calls[v], FindUserRequest(v, call)
      PROVE  ListInv'
  <2>1. UNCHANGED <<live, userRequests, submitted, confirmed>>
    BY <1>6 DEF FindUserRequest, serverVars
  <2>2. /\ call \in AllCalls /\ \A c : c # call /\ c \in AllCalls => c \in AllCalls'
        /\ call.id \in userRequests => \E c \in AllCalls' : Searching(c) /\ c.id = call.id
        /\ \A c \in AllCalls' : c \in AllCalls \/ c.id = call.id
    BY <1>6, AllSearched, SearchIssues
  <2>3. Gone'
    BY <1>2, <2>1 DEF Gone
  <2>4. CallsConfirmed'
    BY <1>2, <2>1, <2>2 DEF CallsConfirmed
  <2>5. Listed'
    BY <1>2, <2>1, <2>2 DEF Listed
  <2>6. QED  BY <2>3, <2>4, <2>5 DEF ListInv
<1>7. ASSUME UNCHANGED <<serverVars, calls, confirmed>> PROVE ListInv'
  BY <1>2, <1>7 DEF serverVars, ListInv, Gone, CallsConfirmed, Listed, AllCalls
<1>8. \A v \in Volunteers : ~(CanBeKilled /\ Kill(v))
  OBVIOUS
<1>9. QED  BY <1>3, <1>4, <1>5, <1>6, <1>7, <1>8, StepKinds

(* The counters are exact, as far as they can be, and so are the credits.   *)
ZoneExact(z, i) ==
  Exact(Quantity(i), requestCounter[<<z, i>>], submitted \intersect OfZone(z), confirmed,
        Owed("requestCounter", i, OfZone(z)))

ItemExact(i) ==
  Exact(Quantity(i), requested[i], submitted \intersect Requests, confirmed,
        Owed("requested", i, Requests))

CreditsExact == IsFiniteSet(Credits) /\ Credited + Cardinality(Credits) = Confirmations

(* The inductive invariant of runs in which nothing is refused or lost.  An *)
(* item that copies may lack has books in order, which are not exact.       *)
LosslessInv ==
  /\ LossyInv /\ RemovalInv /\ ListInv
  /\ \A z \in Zones, i \in Catalogue : ZoneExact(z, i)
  /\ \A i \in Catalogue : ItemExact(i)
  /\ CreditsExact

(* It holds at first ...                                                    *)
LEMMA LosslessInit == Init => LosslessInv
<1> SUFFICES ASSUME Init PROVE LosslessInv
  OBVIOUS
<1>1. submitted \intersect Requests = {} /\ \A z \in Zones : submitted \intersect OfZone(z) = {}
  BY NothingAtFirst
<1>2. ASSUME NEW i \in Items PROVE ItemExact(i)
  BY <1>1, NothingAtFirst, QuantityType, BooksOpen DEF ItemExact
<1>3. ASSUME NEW z \in Zones, NEW i \in Items PROVE ZoneExact(z, i)
  BY <1>1, NothingAtFirst, QuantityType, BooksOpen DEF ZoneExact
<1>4. CreditsExact
  BY NothingAtFirst DEF CreditsExact
<1>5. /\ \A i \in Catalogue : ItemExact(i)
      /\ \A z \in Zones, i \in Catalogue : ZoneExact(z, i)
  BY <1>2, <1>3, CompletionAssumption
<1>6. QED  BY <1>4, <1>5, LossyInit, RemovalInit, ListInit DEF LosslessInv

(* ... and every step keeps it, as long as nothing is lost.                 *)
LEMMA LosslessStep ==
  ASSUME WritesCanFail = FALSE, CanBeKilled = FALSE
  PROVE  LosslessInv /\ [Next]_vars => LosslessInv'
<1> SUFFICES ASSUME LosslessInv, [Next]_vars PROVE LosslessInv'
  OBVIOUS
<1>1. RemovalInv /\ TypeOK /\ Numbered /\ OnlyPlaced /\ ListInv
  BY DEF LosslessInv, LossyInv
<1>2. LossyInv' /\ RemovalInv' /\ TypeOK'
  BY <1>1, LossyStep, RemovalStep, TypeStep DEF LosslessInv
<1>3. ListInv'
  BY <1>1, <1>2, ListStep
<1>4. ASSUME NEW i \in Catalogue PROVE ItemExact(i)'
  <2> DEFINE P == Owed("requested", i, Requests)
             P1 == Owed("requested", i, Requests)'
  <2> i \in Items
    BY CompletionAssumption
  <2>1. Exact(Quantity(i), requested[i], submitted \intersect Requests, confirmed, P)
    BY DEF LosslessInv, ItemExact
  <2>2. Move(Quantity(i), requested[i], submitted \intersect Requests, confirmed, P,
             requested'[i], submitted' \intersect Requests, confirmed', P1)
    <3>1. CountsFor("requested", i, Requests, requested[i], requested'[i])
      BY <1>1, ItemCounts
    <3>2. "requested" \in CounterKinds /\ Requests \in SUBSET Requests
      BY DEF CounterKinds
    <3>3. QED  BY <1>1, <3>1, <3>2, CounterEntry
  <2> HIDE DEF P, P1
  <2>3. Exact(Quantity(i), requested'[i], submitted' \intersect Requests, confirmed', P1)
    BY <2>1, <2>2, QuantityType, ExactEntry
  <2>4. QED  BY <2>3 DEF ItemExact, P1
<1>5. ASSUME NEW z \in Zones, NEW i \in Catalogue PROVE ZoneExact(z, i)'
  <2> DEFINE Z == OfZone(z)
             s == <<z, i>>
             P == Owed("requestCounter", i, Z)
             P1 == Owed("requestCounter", i, Z)'
  <2> i \in Items
    BY CompletionAssumption
  <2>1. Exact(Quantity(i), requestCounter[s], submitted \intersect Z, confirmed, P)
    BY DEF LosslessInv, ZoneExact
  <2>2. Move(Quantity(i), requestCounter[s], submitted \intersect Z, confirmed, P,
             requestCounter'[s], submitted' \intersect Z, confirmed', P1)
    <3>1. CountsFor("requestCounter", i, Z, requestCounter[s], requestCounter'[s])
      BY <1>1, ZoneCounts
    <3>2. "requestCounter" \in CounterKinds /\ Z \in SUBSET Requests
      BY DEF CounterKinds, OfZone, InZone
    <3> HIDE DEF Z, s
    <3>3. QED  BY <1>1, <3>1, <3>2, CounterEntry
  <2> HIDE DEF P, P1
  <2>3. Exact(Quantity(i), requestCounter'[s], submitted' \intersect Z, confirmed', P1)
    BY <2>1, <2>2, QuantityType, ExactEntry
  <2>4. QED  BY <2>3 DEF ZoneExact, P1
<1>6. CreditsExact'
  <2>1. /\ IsFiniteSet(Credits) /\ Credited + Cardinality(Credits) = Confirmations
        /\ Credited \in Nat /\ Confirmations \in Nat /\ Cardinality(Credits) \in Nat
    BY <1>1, CreditedNat, ConfirmationsNat, FS_CardinalityType DEF LosslessInv, CreditsExact
  <2>2. /\ IsFiniteSet(Credits')
        /\ Credited' + Cardinality(Credits') + Confirmations
             = Credited + Cardinality(Credits) + Confirmations'
    BY <1>1, <2>1, CreditEntry
  <2>3. Credited' \in Nat /\ Confirmations' \in Nat
    BY <1>2, CompletionAssumption, SumNat DEF TypeOK, Credited, Confirmations
  <2>4. Cardinality(Credits') \in Nat
    BY <2>2, FS_CardinalityType
  <2>5. Credited' + Cardinality(Credits') = Confirmations'
    BY <2>1, <2>2, <2>3, <2>4
  <2>6. QED  BY <2>2, <2>5 DEF CreditsExact
<1>7. QED  BY <1>2, <1>3, <1>4, <1>5, <1>6 DEF LosslessInv

(* When every call is carried out, what was never confirmed is what the     *)
(* server holds, in both of its lists.                                      *)
LEMMA SettledLists ==
  ASSUME LosslessInv, AllCarried
  PROVE  /\ AllCalls = {} /\ userRequests = live
         /\ live = {id \in submitted : confirmed[id] = 0}
<1>1. AllCalls = {}
  BY DEF AllCarried, AllCalls
<1>2. /\ submitted \in SUBSET Requests /\ live \in SUBSET submitted
      /\ userRequests \in SUBSET submitted /\ confirmed \in [Requests -> Nat]
      /\ Gone /\ OnItsWay /\ Listed
  BY DEF LosslessInv, RemovalInv, TypeOK, ListInv
<1>3. \A id \in live : confirmed[id] = 0
  <2> SUFFICES ASSUME NEW id \in live PROVE confirmed[id] = 0
    OBVIOUS
  <2>1. id \in Requests /\ ~(confirmed[id] > 0)
    BY <1>2 DEF OnItsWay, AllCarried
  <2>2. confirmed[id] \in Nat
    BY <1>2, <2>1
  <2>3. QED  BY <2>1, <2>2
<1>4. \A id \in userRequests : confirmed[id] = 0
  <2> SUFFICES ASSUME NEW id \in userRequests PROVE confirmed[id] = 0
    OBVIOUS
  <2>1. ~(confirmed[id] > 0)
    BY <1>1, <1>2 DEF Listed
  <2>2. confirmed[id] \in Nat
    BY <1>2
  <2>3. QED  BY <2>1, <2>2
<1>5. \A id \in submitted : confirmed[id] = 0 => id \in live /\ id \in userRequests
  BY <1>2 DEF Gone
<1>6. QED  BY <1>1, <1>2, <1>3, <1>4, <1>5

(* With nothing owed, what is untouched was never confirmed.                *)
LEMMA SettledCounter ==
  ASSUME NEW q \in Quantities, NEW n, NEW S, NEW conf, Exact(q, n, S, conf, {})
  PROVE  /\ n <= Value(q, {id \in S : conf[id] = 0})
         /\ (\A id \in S : conf[id] <= 1) => n = Value(q, {id \in S : conf[id] = 0})
<1>1. \A id : Cardinality(OwedFor(id, {})) = 0
  BY OwedCount, FS_EmptySet
<1>2. Untouched(S, conf, {}) = {id \in S : conf[id] = 0}
  BY <1>1 DEF Untouched
<1>3. QED  BY <1>2 DEF Exact, Balanced

(* What the two counters of an item of the catalogue then are.              *)
LEMMA SettledCounters ==
  ASSUME LosslessInv, AllCarried, NEW i \in Catalogue
  PROVE  /\ requested[i] <= Demand(live, i)
         /\ (\A id \in Requests : confirmed[id] <= 1) => requested[i] = Demand(live, i)
         /\ \A z \in Zones :
              /\ requestCounter[<<z, i>>] <= Demand(InZone(live, z), i)
              /\ (\A id \in Requests : confirmed[id] <= 1) =>
                   requestCounter[<<z, i>>] = Demand(InZone(live, z), i)
<1> i \in Items
  BY CompletionAssumption
<1>1. /\ submitted \in SUBSET Requests /\ live \in SUBSET Requests
      /\ confirmed \in [Requests -> Nat]
      /\ AllCalls = {} /\ live = {id \in submitted : confirmed[id] = 0}
  BY SettledLists DEF LosslessInv, RemovalInv, TypeOK
<1>2. \A kind, Z : Owed(kind, i, Z) = {}
  BY <1>1 DEF Owed
<1>3. /\ requested[i] <= Demand(live, i)
      /\ (\A id \in Requests : confirmed[id] <= 1) => requested[i] = Demand(live, i)
  <2>1. submitted \intersect Requests = submitted
    BY <1>1
  <2>2. Exact(Quantity(i), requested[i], submitted, confirmed, {})
    BY <1>2, <2>1 DEF LosslessInv, ItemExact
  <2>3. /\ requested[i] <= Value(Quantity(i), live)
        /\ (\A id \in submitted : confirmed[id] <= 1) => requested[i] = Value(Quantity(i), live)
    BY <1>1, <2>2, QuantityType, SettledCounter
  <2>4. QED  BY <1>1, <2>3, DemandIsValue
<1>4. ASSUME NEW z \in Zones
      PROVE  /\ requestCounter[<<z, i>>] <= Demand(InZone(live, z), i)
             /\ (\A id \in Requests : confirmed[id] <= 1) =>
                  requestCounter[<<z, i>>] = Demand(InZone(live, z), i)
  <2> DEFINE S == submitted \intersect OfZone(z)
  <2>1. {id \in S : confirmed[id] = 0} = InZone(live, z) /\ InZone(live, z) \in SUBSET Requests
    BY <1>1 DEF OfZone, InZone
  <2>2. Exact(Quantity(i), requestCounter[<<z, i>>], S, confirmed, {})
    BY <1>2 DEF LosslessInv, ZoneExact
  <2>3. S \in SUBSET Requests
    BY <1>1
  <2> HIDE DEF S
  <2>4. /\ requestCounter[<<z, i>>] <= Value(Quantity(i), InZone(live, z))
        /\ (\A id \in S : confirmed[id] <= 1) =>
             requestCounter[<<z, i>>] = Value(Quantity(i), InZone(live, z))
    <3> DEFINE n == requestCounter[<<z, i>>]
    <3>1. Quantity(i) \in Quantities /\ Exact(Quantity(i), n, S, confirmed, {})
      BY <2>2, QuantityType
    <3> HIDE DEF n
    <3>2. /\ n <= Value(Quantity(i), {id \in S : confirmed[id] = 0})
          /\ (\A id \in S : confirmed[id] <= 1) =>
               n = Value(Quantity(i), {id \in S : confirmed[id] = 0})
      BY <3>1, SettledCounter
    <3>3. QED  BY <2>1, <3>2 DEF n
  <2>5. Value(Quantity(i), InZone(live, z)) = Demand(InZone(live, z), i)
    BY <1>1, <2>1, DemandIsValue
  <2>6. (\A id \in Requests : confirmed[id] <= 1) => \A id \in S : confirmed[id] <= 1
    BY <2>3
  <2>7. QED  BY <2>4, <2>5, <2>6
<1>5. QED  BY <1>3, <1>4

(* A counter in order then counts what was never confirmed, if nothing was  *)
(* confirmed twice.                                                         *)
LEMMA SettledOrderly ==
  ASSUME NEW q \in Quantities, NEW n, NEW S, NEW conf, NEW P, Orderly(q, n, S, conf, P),
         \A id \in S : conf[id] <= 1
  PROVE  n >= Value(q, {id \in S : conf[id] = 0})
<1> DEFINE R == {id \in S : conf[id] = 0}
           f == [id \in Requests |-> conf[id] * q[id]]
<1>1. n \in Nat /\ S \in SUBSET Requests /\ conf \in [Requests -> Nat]
  BY DEF Orderly, Books
<1>2. n + Weighted(q, conf, S) >= Value(q, S)
  BY OrderlyCounter
<1>3. R \in SUBSET S /\ S \ R \in SUBSET S /\ \A id \in S \ R : conf[id] = 1
  <2>1. \A id \in S : conf[id] \in Nat
    BY <1>1
  <2>2. QED  BY <2>1
<1>4. /\ \A id \in S : f[id] \in Nat /\ q[id] \in Nat
      /\ \A id \in R : f[id] = 0
      /\ \A id \in S \ R : f[id] = q[id]
  <2>1. \A id \in S : f[id] = conf[id] * q[id] /\ q[id] \in Nat
    BY <1>1 DEF Quantities
  <2>2. f \in Quantities
    BY <1>1, WeightedFun
  <2>3. \A id \in S : f[id] \in Nat
    BY <1>1, <2>2 DEF Quantities
  <2>4. \A m \in Nat : 0 * m = 0 /\ 1 * m = m
    OBVIOUS
  <2>5. \A id \in R : f[id] = 0
    BY <2>1, <2>4
  <2>6. \A id \in S \ R : f[id] = q[id]
    BY <1>3, <2>1, <2>4
  <2>7. QED  BY <2>1, <2>3, <2>5, <2>6
<1>5. Weighted(q, conf, S) = SumFunctionOnSet(f, S)
  BY DEF Weighted
<1>6. IsFiniteSet(S) /\ IsFiniteSet(S \ R) /\ S \ (S \ R) = R
  BY <1>1, <1>3, ValueNat
<1> HIDE DEF R, f
<1>7. SumFunctionOnSet(f, S \ R) = SumFunctionOnSet(f, S)
  BY <1>3, <1>4, <1>6, SumSubset
<1>8. SumFunctionOnSet(f, S \ R) = Value(q, S \ R)
  BY <1>4, <1>6, SumSame DEF Value
<1>9. Value(q, S) = Value(q, R) + Value(q, S \ R)
  BY <1>3, <1>4, <1>6, SumSplit DEF Value
<1>10. Value(q, R) \in Nat /\ Value(q, S \ R) \in Nat
  BY <1>1, <1>3, ValueNat
<1>11. n >= Value(q, R)
  BY <1>1, <1>2, <1>5, <1>7, <1>8, <1>9, <1>10
<1>12. QED  BY <1>11 DEF R

(* Neither counter of any item then falls short of the live requests.       *)
LEMMA SettledDemand ==
  ASSUME LosslessInv, AllCarried, NEW i \in Items, \A id \in Requests : confirmed[id] <= 1
  PROVE  /\ requested[i] >= Demand(live, i)
         /\ \A z \in Zones : requestCounter[<<z, i>>] >= Demand(InZone(live, z), i)
<1>1. /\ submitted \in SUBSET Requests /\ live \in SUBSET Requests
      /\ confirmed \in [Requests -> Nat] /\ LossyInv
      /\ live = {id \in submitted : confirmed[id] = 0}
  BY SettledLists DEF LosslessInv, RemovalInv, TypeOK
<1>2. requested[i] >= Demand(live, i)
  <2>1. submitted \intersect Requests = submitted
    BY <1>1
  <2>2. Orderly(Quantity(i), requested[i], submitted, confirmed, Owed("requested", i, Requests))
    BY <1>1, <2>1 DEF LossyInv, ItemOrderly
  <2>3. requested[i] >= Value(Quantity(i), live)
    BY <1>1, <2>2, QuantityType, SettledOrderly
  <2>4. QED  BY <1>1, <2>3, DemandIsValue
<1>3. ASSUME NEW z \in Zones
      PROVE  requestCounter[<<z, i>>] >= Demand(InZone(live, z), i)
  <2> DEFINE S == submitted \intersect OfZone(z)
             n == requestCounter[<<z, i>>]
             P == Owed("requestCounter", i, OfZone(z))
  <2>1. /\ {id \in S : confirmed[id] = 0} = InZone(live, z)
        /\ InZone(live, z) \in SUBSET Requests /\ \A id \in S : confirmed[id] <= 1
    BY <1>1 DEF OfZone, InZone
  <2>2. Orderly(Quantity(i), n, S, confirmed, P) /\ Quantity(i) \in Quantities
    BY <1>1, QuantityType DEF LossyInv, ZoneOrderly
  <2> HIDE DEF S, n, P
  <2>3. n >= Value(Quantity(i), {id \in S : confirmed[id] = 0})
    BY <2>1, <2>2, SettledOrderly
  <2>4. Value(Quantity(i), InZone(live, z)) = Demand(InZone(live, z), i)
    BY <1>1, <2>1, DemandIsValue
  <2>5. QED  BY <2>1, <2>3, <2>4 DEF n
<1>4. QED  BY <1>2, <1>3

(* Each completed request was credited once.                                *)
LEMMA SettledCredits ==
  ASSUME LosslessInv, AllCarried, \A id \in Requests : confirmed[id] <= 1
  PROVE  SumFunctionOnSet(completedRequests, Volunteers) = Cardinality(submitted \ live)
<1> DEFINE R == {id \in Requests : confirmed[id] = 1}
<1>1. /\ submitted \in SUBSET Requests /\ confirmed \in [Requests -> Nat] /\ TypeOK
      /\ AllCalls = {} /\ live = {id \in submitted : confirmed[id] = 0}
      /\ OnlyPlaced
  BY SettledLists DEF LosslessInv, LossyInv, TypeOK
<1>2. Credited = Confirmations
  <2>1. Credits = {}
    BY <1>1 DEF Credits
  <2>2. Cardinality(Credits) = 0
    BY <2>1, FS_EmptySet
  <2>3. QED  BY <1>1, <2>2, CreditedNat DEF LosslessInv, CreditsExact
<1>3. \A id \in Requests : confirmed[id] = 0 \/ confirmed[id] = 1
  BY <1>1
<1>4. submitted \ live = R
  BY <1>1, <1>3 DEF OnlyPlaced
<1>5. /\ \A id \in Requests : confirmed[id] \in Nat
      /\ \A id \in Requests \ R : confirmed[id] = 0
      /\ \A id \in R : confirmed[id] = 1
      /\ R \in SUBSET Requests
  BY <1>1, <1>3
<1> HIDE DEF R
<1>6. SumFunctionOnSet(confirmed, R) = Confirmations
  BY <1>5, CompletionAssumption, SumSubset DEF Confirmations
<1>7. SumFunctionOnSet(confirmed, R) = Cardinality(R)
  BY <1>5, CompletionAssumption, FS_Subset, SumOnes
<1>8. QED  BY <1>2, <1>4, <1>6, <1>7 DEF Credited

(* The two theorems of this part share their invariant.                     *)
LEMMA AlwaysExact ==
  ASSUME WritesCanFail = FALSE, CanBeKilled = FALSE
  PROVE  Spec => []LosslessInv
<1>1. QED  BY LosslessInit, LosslessStep, PTL DEF Spec

(* However often a request is completed, by whom and in whatever order the  *)
(* transactions of updateCounters are carried out: when all are, neither    *)
(* counter of an item of the catalogue exceeds the demand of the requests   *)
(* that are left.                                                           *)
THEOREM NothingLeftCounted ==
  ASSUME WritesCanFail = FALSE, CanBeKilled = FALSE
  PROVE  Spec => []NeverOverstated
<1>1. LosslessInv => NeverOverstated
  BY SettledCounters DEF NeverOverstated
<1>2. QED  BY <1>1, AlwaysExact, PTL

(* If besides no request is completed twice, the five kinds of writes leave *)
(* a server that agrees with itself: both counters of every item cover the  *)
(* live requests, and count nothing else if the item is in the catalogue;   *)
(* the elderly are shown the live requests only; and each completion is     *)
(* credited once.                                                           *)
THEOREM ServerSettles ==
  ASSUME WritesCanFail = FALSE, CanBeKilled = FALSE
  PROVE  Spec => []SettledAfterOne
<1>1. LosslessInv => SettledAfterOne
  <2> SUFFICES ASSUME LosslessInv, AllCarried, \A id \in Requests : confirmed[id] <= 1
               PROVE  /\ \A z \in Zones, i \in Items :
                           /\ requestCounter[<<z, i>>] >= Demand(InZone(live, z), i)
                           /\ i \in Catalogue =>
                                requestCounter[<<z, i>>] = Demand(InZone(live, z), i)
                      /\ \A i \in Items :
                           /\ requested[i] >= Demand(live, i)
                           /\ i \in Catalogue => requested[i] = Demand(live, i)
                      /\ userRequests = live
                      /\ SumFunctionOnSet(completedRequests, Volunteers)
                           = Cardinality(submitted \ live)
    BY DEF SettledAfterOne
  <2>1. \A i \in Catalogue :
          /\ requested[i] = Demand(live, i)
          /\ \A z \in Zones : requestCounter[<<z, i>>] = Demand(InZone(live, z), i)
    BY SettledCounters
  <2>2. \A i \in Items :
          /\ requested[i] >= Demand(live, i)
          /\ \A z \in Zones : requestCounter[<<z, i>>] >= Demand(InZone(live, z), i)
    BY SettledDemand
  <2>3. userRequests = live
    BY SettledLists
  <2>4. SumFunctionOnSet(completedRequests, Volunteers) = Cardinality(submitted \ live)
    BY SettledCredits
  <2>5. QED  BY <2>1, <2>2, <2>3, <2>4
<1>2. QED  BY <1>1, AlwaysExact, PTL
============================================================================
