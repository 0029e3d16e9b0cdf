----------------------------- MODULE Sums_proofs -----------------------------
(***************************************************************************)
(* What the sum of a function over a finite set is: the facts by which      *)
(* Completion_proofs reasons about the counters of the server.              *)
(*                                                                         *)
(* SumFunctionOnSet is defined by recursion on the set.  In place of an     *)
(* induction scheme, the proofs take a smallest set at which the claim      *)
(* would fail (Smallest), which needs no theorem with an operator parameter.*)
(***************************************************************************)
EXTENDS Naturals, FiniteSets, Functions, FiniteSetTheorems, WellFoundedInduction, TLAPS

(* Among subsets of a finite set, if any, there is one that has no other of *)
(* them as a subset.                                                        *)
LEMMA Smallest ==
  ASSUME NEW S, IsFiniteSet(S), NEW Bad \in SUBSET SUBSET S, Bad # {}
  PROVE  \E T \in Bad : \A U \in SUBSET T : U # T => U \notin Bad
<1>1. IsWellFoundedOn(StrictSubsetOrdering(S), SUBSET S)
  BY FS_StrictSubsetOrderingWellFounded, FS_FiniteSubsetsOfFinite
<1>2. PICK T \in Bad : \A U \in Bad : <<U, T>> \notin StrictSubsetOrdering(S)
  BY <1>1, WFMin
<1>3. QED  BY <1>2 DEF StrictSubsetOrdering

----------------------------------------------------------------------------
(* The recursion has a solution.                                            *)

Some(s) == CHOOSE x \in s : TRUE

(* g sums f over the subsets of S.                                          *)
Sums(f, S, g) ==
  g = [s \in SUBSET S |-> IF s = {} THEN 0 ELSE f[Some(s)] + g[s \ {Some(s)}]]

(* SumFunctionOnSet is one of these g, if there is any.                     *)
LEMMA SumIsChosen ==
  ASSUME NEW f, NEW S
  PROVE  SumFunctionOnSet(f, S) = (CHOOSE g : Sums(f, S, g))[S]
  BY DEF SumFunctionOnSet, FoldFunctionOnSet, MapThenFoldSet, Sums, Some

(* What Sums says, one set at a time.                                       *)
LEMMA SumsAt ==
  ASSUME NEW f, NEW S, NEW g, Sums(f, S, g), NEW s \in SUBSET S
  PROVE  /\ s = {} => g[s] = 0
         /\ s # {} => /\ Some(s) \in s
                      /\ g[s] = f[Some(s)] + g[s \ {Some(s)}]
<1>1. s # {} => Some(s) \in s
  BY DEF Some
<1>2. g[s] = IF s = {} THEN 0 ELSE f[Some(s)] + g[s \ {Some(s)}]
  <2>1. g = [t \in SUBSET S |-> IF t = {} THEN 0 ELSE f[Some(t)] + g[t \ {Some(t)}]]
    BY DEF Sums
  <2>2. QED  BY <2>1
<1>3. QED  BY <1>1, <1>2

(* Two solutions agree on the sets both are defined on.                     *)
LEMMA SumsAgree ==
  ASSUME NEW f, NEW S, NEW T, IsFiniteSet(S), NEW g, NEW h,
         Sums(f, S, g), Sums(f, T, h), NEW s \in SUBSET (S \intersect T)
  PROVE  g[s] = h[s]
<1> DEFINE Bad == {u \in SUBSET (S \intersect T) : g[u] # h[u]}
<1> SUFFICES ASSUME Bad # {} PROVE FALSE
  OBVIOUS
<1>1. PICK u \in Bad : \A v \in SUBSET u : v # u => v \notin Bad
  <2>1. IsFiniteSet(S \intersect T) /\ Bad \in SUBSET SUBSET (S \intersect T)
    BY FS_Intersection
  <2> HIDE DEF Bad
  <2>2. QED  BY <2>1, Smallest
<1>2. u \in SUBSET S /\ u \in SUBSET T
  OBVIOUS
<1>3. u # {}
  BY <1>2, SumsAt
<1>4. Some(u) \in u /\ u \ {Some(u)} \in SUBSET u /\ u \ {Some(u)} # u
  BY <1>3 DEF Some
<1>5. g[u \ {Some(u)}] = h[u \ {Some(u)}]
  BY <1>1, <1>4
<1> HIDE DEF Bad
<1>6. g[u] = f[Some(u)] + g[u \ {Some(u)}]
  BY <1>2, <1>3, SumsAt
<1>7. h[u] = f[Some(u)] + h[u \ {Some(u)}]
  BY <1>2, <1>3, SumsAt
<1>8. QED  BY <1>1, <1>5, <1>6, <1>7 DEF Bad

(* There is a solution for every finite set: the values for smaller sets    *)
(* are those of the solutions for them.                                     *)
LEMMA SumsExists ==
  ASSUME NEW f, NEW S, IsFiniteSet(S)
  PROVE  \E g : Sums(f, S, g)
<1> DEFINE Bad == {T \in SUBSET S : ~ \E g : Sums(f, T, g)}
<1> SUFFICES ASSUME Bad # {} PROVE FALSE
  OBVIOUS
<1>1. PICK T \in Bad : \A U \in SUBSET T : U # T => U \notin Bad
  <2>1. Bad \in SUBSET SUBSET S
    OBVIOUS
  <2> HIDE DEF Bad
  <2>2. QED  BY <2>1, Smallest
<1> DEFINE G(s) == CHOOSE g : Sums(f, s, g)
           h == [s \in SUBSET T |-> IF s = {} THEN 0
                                    ELSE f[Some(s)] + G(s \ {Some(s)})[s \ {Some(s)}]]
<1>2. \A s \in SUBSET T : s # T => Sums(f, s, G(s))
  <2> SUFFICES ASSUME NEW s \in SUBSET T, s # T PROVE Sums(f, s, G(s))
    OBVIOUS
  <2>1. \E g : Sums(f, s, g)
    BY <1>1
  <2>2. QED  BY <2>1
<1> HIDE DEF G
<1>3. ASSUME NEW s \in SUBSET T, s # T
      PROVE  h[s] = G(s)[s]
  <2>1. Sums(f, s, G(s))
    BY <1>2, <1>3
  <2>2. CASE s = {}
    BY <2>1, <2>2, SumsAt
  <2>3. CASE s # {}
    <3> DEFINE r == s \ {Some(s)}
    <3>1. Some(s) \in s /\ r \in SUBSET s /\ r \in SUBSET T /\ r # T /\ s \in SUBSET s
      BY <2>3 DEF Some
    <3>2. G(s)[s] = f[Some(s)] + G(s)[r]
      BY <2>1, <2>3, <3>1, SumsAt
    <3>3. Sums(f, r, G(r))
      BY <1>2, <3>1
    <3>4. IsFiniteSet(s)
      BY FS_Subset
    <3>5. r \in SUBSET (s \intersect r)
      BY <3>1
    <3>6. G(s)[r] = G(r)[r]
      <4> HIDE DEF r, h
      <4>1. QED  BY <2>1, <3>3, <3>4, <3>5, SumsAgree
    <3>7. h[s] = f[Some(s)] + G(r)[r]
      BY <2>3
    <3>8. QED  BY <3>2, <3>6, <3>7
  <2>4. QED  BY <2>2, <2>3
<1>4. Sums(f, T, h)
  <2>1. \A s \in SUBSET T : s # {} =>
          s \ {Some(s)} \in SUBSET T /\ s \ {Some(s)} # T
    BY DEF Some
  <2>2. \A s \in SUBSET T : s # {} => h[s \ {Some(s)}] = G(s \ {Some(s)})[s \ {Some(s)}]
    BY <1>3, <2>1
  <2>3. h = [s \in SUBSET T |-> IF s = {} THEN 0 ELSE f[Some(s)] + h[s \ {Some(s)}]]
    BY <2>2
  <2>4. QED  BY <2>3 DEF Sums
<1>5. QED  BY <1>1, <1>4
----------------------------------------------------------------------------
(* The sum of a finite set.                                                 *)

(* The sum over no element is 0, and otherwise that of one element and of   *)
(* the others.                                                              *)
LEMMA SumChosen ==
  ASSUME NEW f, NEW S, IsFiniteSet(S)
  PROVE  /\ S = {} => SumFunctionOnSet(f, S) = 0
         /\ S # {} => /\ Some(S) \in S
                      /\ SumFunctionOnSet(f, S)
                           = f[Some(S)] + SumFunctionOnSet(f, S \ {Some(S)})
<1> DEFINE g == CHOOSE h : Sums(f, S, h)
           R == S \ {Some(S)}
           k == CHOOSE h : Sums(f, R, h)
<1>1. Sums(f, S, g)
  BY SumsExists
<1>2. Sums(f, R, k)
  <2>1. IsFiniteSet(R)
    BY FS_RemoveElement
  <2>2. QED  BY <2>1, SumsExists
<1>3. SumFunctionOnSet(f, S) = g[S] /\ SumFunctionOnSet(f, R) = k[R]
  BY SumIsChosen
<1> HIDE DEF g, k
<1>4. R \in SUBSET (S \intersect R) /\ S \in SUBSET S
  OBVIOUS
<1>5. g[R] = k[R]
  <2> HIDE DEF R
  <2>1. QED  BY <1>1, <1>2, <1>4, SumsAgree
<1>6. QED  BY <1>1, <1>3, <1>4, <1>5, SumsAt

(* Sums of natural numbers are natural numbers.                             *)
LEMMA SumNat ==
  ASSUME NEW f, NEW S, IsFiniteSet(S), \A x \in S : f[x] \in Nat
  PROVE  SumFunctionOnSet(f, S) \in Nat
<1> DEFINE Bad == {T \in SUBSET S : SumFunctionOnSet(f, T) \notin Nat}
<1> SUFFICES ASSUME Bad # {} PROVE FALSE
  OBVIOUS
<1>1. PICK T \in Bad : \A U \in SUBSET T : U # T => U \notin Bad
  <2>1. Bad \in SUBSET SUBSET S
    OBVIOUS
  <2> HIDE DEF Bad
  <2>2. QED  BY <2>1, Smallest
<1>2. IsFiniteSet(T)
  BY FS_Subset
<1>3. T # {}
  <2>1. SumFunctionOnSet(f, {}) = 0
    BY SumChosen, FS_EmptySet
  <2>2. QED  BY <2>1
<1>4. Some(T) \in T /\ SumFunctionOnSet(f, T) = f[Some(T)] + SumFunctionOnSet(f, T \ {Some(T)})
  BY <1>2, <1>3, SumChosen
<1>5. SumFunctionOnSet(f, T \ {Some(T)}) \in Nat
  BY <1>1, <1>4
<1>6. QED  BY <1>4, <1>5

(* Any element can be taken out first.                                      *)
LEMMA SumTake ==
  ASSUME NEW f, NEW S, IsFiniteSet(S), \A x \in S : f[x] \in Nat, NEW e \in S
  PROVE  SumFunctionOnSet(f, S) = f[e] + SumFunctionOnSet(f, S \ {e})
<1> DEFINE Sum(T) == SumFunctionOnSet(f, T)
           Bad == {T \in SUBSET S : \E x \in T : Sum(T) # f[x] + Sum(T \ {x})}
<1> SUFFICES ASSUME Bad # {} PROVE FALSE
  OBVIOUS
<1>1. PICK T \in Bad : \A U \in SUBSET T : U # T => U \notin Bad
  <2>1. Bad \in SUBSET SUBSET S
    OBVIOUS
  <2> HIDE DEF Bad
  <2>2. QED  BY <2>1, Smallest
<1>2. PICK x \in T : Sum(T) # f[x] + Sum(T \ {x})
  OBVIOUS
<1>3. \A U \in SUBSET T : IsFiniteSet(U) /\ Sum(U) \in Nat
  BY FS_Subset, SumNat
<1> DEFINE c == Some(T)
<1>4. c \in T /\ Sum(T) = f[c] + Sum(T \ {c})
  BY <1>3, SumChosen
<1>5. x # c
  BY <1>2, <1>4
<1>6. Sum(T \ {c}) = f[x] + Sum((T \ {c}) \ {x})
  BY <1>1, <1>4, <1>5
<1>7. Sum(T \ {x}) = f[c] + Sum((T \ {x}) \ {c})
  BY <1>1, <1>4, <1>5
<1>8. (T \ {x}) \ {c} = (T \ {c}) \ {x}
  OBVIOUS
<1>9. f[x] \in Nat /\ f[c] \in Nat /\ Sum((T \ {c}) \ {x}) \in Nat
  BY <1>3, <1>4
<1> HIDE DEF Sum, c
<1>10. QED  BY <1>2, <1>4, <1>6, <1>7, <1>8, <1>9

(* An element that is put in adds its value.                                *)
LEMMA SumAdd ==
  ASSUME NEW f, NEW S, IsFiniteSet(S), NEW e, e \notin S,
         \A x \in S \union {e} : f[x] \in Nat
  PROVE  SumFunctionOnSet(f, S \union {e}) = f[e] + SumFunctionOnSet(f, S)
<1>1. IsFiniteSet(S \union {e}) /\ (S \union {e}) \ {e} = S
  BY FS_AddElement
<1>2. QED  BY <1>1, SumTake

(* What is summed of two functions that agree on the set is the same.       *)
LEMMA SumSame ==
  ASSUME NEW f, NEW g, NEW S, IsFiniteSet(S),
         \A x \in S : f[x] = g[x]
  PROVE  SumFunctionOnSet(f, S) = SumFunctionOnSet(g, S)
<1> DEFINE Bad == {T \in SUBSET S : SumFunctionOnSet(f, T) # SumFunctionOnSet(g, T)}
<1> SUFFICES ASSUME Bad # {} PROVE FALSE
  OBVIOUS
<1>1. PICK T \in Bad : \A U \in SUBSET T : U # T => U \notin Bad
  <2>1. Bad \in SUBSET SUBSET S
    OBVIOUS
  <2> HIDE DEF Bad
  <2>2. QED  BY <2>1, Smallest
<1>2. IsFiniteSet(T)
  BY FS_Subset
<1>3. T # {}
  BY <1>2, SumChosen
<1> DEFINE c == Some(T)
<1>4. c \in T /\ SumFunctionOnSet(f, T) = f[c] + SumFunctionOnSet(f, T \ {c})
  BY <1>2, <1>3, SumChosen
<1>5. SumFunctionOnSet(g, T) = g[c] + SumFunctionOnSet(g, T \ {c})
  BY <1>2, <1>3, SumChosen
<1>6. SumFunctionOnSet(f, T \ {c}) = SumFunctionOnSet(g, T \ {c})
  BY <1>1, <1>4
<1>7. QED  BY <1>4, <1>5, <1>6

(* Changing the value of one element changes the sum by as much.            *)
LEMMA SumChanged ==
  ASSUME NEW f, NEW g, NEW S, IsFiniteSet(S), NEW e \in S,
         \A x \in S : f[x] \in Nat /\ g[x] \in Nat,
         \A x \in S \ {e} : f[x] = g[x]
  PROVE  SumFunctionOnSet(f, S) + g[e] = SumFunctionOnSet(g, S) + f[e]
<1>1. IsFiniteSet(S \ {e})
  BY FS_RemoveElement
<1>2. SumFunctionOnSet(f, S \ {e}) = SumFunctionOnSet(g, S \ {e})
  BY <1>1, SumSame
<1>3. SumFunctionOnSet(f, S) = f[e] + SumFunctionOnSet(f, S \ {e})
  BY SumTake
<1>4. SumFunctionOnSet(g, S) = g[e] + SumFunctionOnSet(g, S \ {e})
  BY SumTake
<1>5. SumFunctionOnSet(f, S \ {e}) \in Nat
  BY <1>1, SumNat
<1>6. QED  BY <1>2, <1>3, <1>4, <1>5

(* A subset adds up to no more, and to as much if the rest adds nothing.    *)
LEMMA SumSubset ==
  ASSUME NEW f, NEW S, IsFiniteSet(S), \A x \in S : f[x] \in Nat, NEW R \in SUBSET S
  PROVE  /\ SumFunctionOnSet(f, R) <= SumFunctionOnSet(f, S)
         /\ (\A x \in S \ R : f[x] = 0) => SumFunctionOnSet(f, R) = SumFunctionOnSet(f, S)
<1> DEFINE Sum(T) == SumFunctionOnSet(f, T)
           Holds(T) == /\ Sum(R) <= Sum(T)
                       /\ (\A x \in T \ R : f[x] = 0) => Sum(R) = Sum(T)
           Bad == {T \in SUBSET S : R \in SUBSET T /\ ~Holds(T)}
<1> SUFFICES ASSUME Bad # {} PROVE FALSE
  OBVIOUS
<1>1. PICK T \in Bad : \A U \in SUBSET T : U # T => U \notin Bad
  <2>1. Bad \in SUBSET SUBSET S
    OBVIOUS
  <2> HIDE DEF Bad
  <2>2. QED  BY <2>1, Smallest
<1>2. \A U \in SUBSET T : IsFiniteSet(U) /\ Sum(U) \in Nat
  BY FS_Subset, SumNat
<1>3. T # R
  BY <1>2
<1>4. PICK e \in T : e \notin R
  BY <1>3
<1>5. Sum(T) = f[e] + Sum(T \ {e})
  BY <1>2, SumTake
<1>6. Holds(T \ {e})
  BY <1>1, <1>4
<1>7. /\ f[e] \in Nat /\ Sum(T \ {e}) \in Nat /\ Sum(R) \in Nat
      /\ (\A x \in T \ R : f[x] = 0) => f[e] = 0 /\ \A x \in (T \ {e}) \ R : f[x] = 0
  BY <1>2, <1>4
<1> HIDE DEF Sum
<1>8. Holds(T)
  BY <1>5, <1>6, <1>7
<1>9. QED  BY <1>8

(* The sum of a set is that of any part of it and of the rest.              *)
LEMMA SumSplit ==
  ASSUME NEW f, NEW S, IsFiniteSet(S), \A x \in S : f[x] \in Nat, NEW R \in SUBSET S
  PROVE  SumFunctionOnSet(f, S) = SumFunctionOnSet(f, R) + SumFunctionOnSet(f, S \ R)
<1> DEFINE Sum(T) == SumFunctionOnSet(f, T)
           Bad == {T \in SUBSET R : Sum(S) # Sum(T) + Sum(S \ T)}
<1> SUFFICES ASSUME Bad # {} PROVE FALSE
  OBVIOUS
<1>1. IsFiniteSet(R)
  BY FS_Subset
<1>2. PICK T \in Bad : \A U \in SUBSET T : U # T => U \notin Bad
  <2>1. Bad \in SUBSET SUBSET R
    OBVIOUS
  <2> HIDE DEF Bad
  <2>2. QED  BY <1>1, <2>1, Smallest
<1>3. \A U \in SUBSET S : IsFiniteSet(U) /\ Sum(U) \in Nat
  BY FS_Subset, SumNat
<1>4. T # {}
  <2>1. Sum({}) = 0 /\ S \ {} = S /\ Sum(S) \in Nat
    BY <1>3, SumChosen, FS_EmptySet
  <2>2. QED  BY <2>1
<1>5. PICK e \in T : TRUE
  BY <1>4
<1> DEFINE U == T \ {e}
<1>6. e \in S \ U /\ (S \ U) \ {e} = S \ T /\ T \in SUBSET S /\ U \in SUBSET S
  OBVIOUS
<1>7. Sum(S) = Sum(U) + Sum(S \ U)
  BY <1>2
<1>8. Sum(T) = f[e] + Sum(U)
  BY <1>3, <1>6, SumTake
<1>9. Sum(S \ U) = f[e] + Sum(S \ T)
  <2>1. IsFiniteSet(S \ U) /\ \A x \in S \ U : f[x] \in Nat
    BY <1>3
  <2>2. Sum(S \ U) = f[e] + Sum((S \ U) \ {e})
    <3> HIDE DEF U
    <3>1. QED  BY <1>6, <2>1, SumTake
  <2>3. QED  BY <1>6, <2>2
<1>10. f[e] \in Nat /\ Sum(U) \in Nat /\ Sum(S \ T) \in Nat
  BY <1>3, <1>6
<1>11. Sum(S) # Sum(T) + Sum(S \ T)
  OBVIOUS
<1> HIDE DEF Sum, U, Bad
<1>12. QED  BY <1>7, <1>8, <1>9, <1>10, <1>11

(* Counting is summing ones.                                                *)
LEMMA SumOnes ==
  ASSUME NEW f, NEW S, IsFiniteSet(S), \A x \in S : f[x] = 1
  PROVE  SumFunctionOnSet(f, S) = Cardinality(S)
<1> DEFINE Bad == {T \in SUBSET S : SumFunctionOnSet(f, T) # Cardinality(T)}
<1> SUFFICES ASSUME Bad # {} PROVE FALSE
  OBVIOUS
<1>1. PICK T \in Bad : \A U \in SUBSET T : U # T => U \notin Bad
  <2>1. Bad \in SUBSET SUBSET S
    OBVIOUS
  <2> HIDE DEF Bad
  <2>2. QED  BY <2>1, Smallest
<1>2. IsFiniteSet(T)
  BY FS_Subset
<1>3. T # {}
  BY <1>2, SumChosen, FS_EmptySet
<1> DEFINE c == Some(T)
<1>4. c \in T /\ SumFunctionOnSet(f, T) = f[c] + SumFunctionOnSet(f, T \ {c})
  BY <1>2, <1>3, SumChosen
<1>5. SumFunctionOnSet(f, T \ {c}) = Cardinality(T \ {c})
  BY <1>1, <1>4
<1>6. Cardinality(T \ {c}) = Cardinality(T) - 1 /\ Cardinality(T) \in Nat
  BY <1>2, <1>4, FS_RemoveElement, FS_CardinalityType
<1>7. QED  BY <1>4, <1>5, <1>6
============================================================================
