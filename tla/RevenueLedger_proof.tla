------------------------ MODULE RevenueLedger_proof ------------------------
(***************************************************************************)
(* Disputes hold, reverse and reinstate commissions as they should, refunds *)
(* reverse their share, and what is taken back exceeds what was earned by    *)
(* roundings only, for any number of payments, refunds and disputes and for *)
(* all amounts.                                                            *)
(***************************************************************************)
EXTENDS RevenueLedger, FiniteSetTheorems, TLAPS

\* What the dispute handlers rely on of the rows they read.
Rows ==
    /\ payment \in [Payments -> Amounts \cup {0}]
    /\ earned \in [Payments -> EarnedRow]
    /\ dispute \in [DisputeIds -> DisputeRow]

\* A dispute is one of a payment with an amount.
DisputeHasPayment == \A d \in DisputeIds : dispute[d].status # "none" =>
    dispute[d].of \in Payments /\ payment[dispute[d].of] # 0

\* Only a loss reverses, and only a reinstatement after a loss gives back.
Booked == \A d \in DisputeIds :
    /\ dispute[d].status \notin {"lost", "funds_reinstated"} =>
          dispute[d].reversed = 0 /\ dispute[d].reinstated = 0
    /\ dispute[d].status = "lost" =>
          /\ dispute[d].reversed = Share(dispute[d].of, dispute[d].amount)
          /\ dispute[d].reinstated = 0
    /\ dispute[d].status = "funds_reinstated" => dispute[d].reversed = dispute[d].reinstated

DisputeInv == Rows /\ DisputeHasPayment /\ Booked /\ HoldHasOpenDispute

-----------------------------------------------------------------------------
(* Shares.                                                                 *)

\* A larger number has a larger quotient.
LEMMA QuotientMonotone ==
  ASSUME NEW m \in Nat, NEW n \in Nat, m <= n, NEW k \in Nat \ {0}
  PROVE  m \div k \in Nat /\ m \div k <= n \div k
<1>1. /\ m \div k \in Int /\ k * (m \div k) <= m
      /\ n \div k \in Int /\ n < k * (n \div k) + k
      /\ m < k * (m \div k) + k
  OBVIOUS
<1> DEFINE a == m \div k
           b == n \div k
<1>2. ASSUME NEW x \in Int, NEW y \in Int, x > y
      PROVE  k * x >= k * y + k
  <2>1. x - y - 1 \in Nat
    BY <1>2
  <2>2. k * (x - y - 1) >= 0
    BY <2>1
  <2> QED BY <2>2
<1>3. a <= b
  <2>1. CASE a > b
    BY <1>1, <1>2, <2>1
  <2> QED BY <1>1, <2>1
<1>4. a >= 0
  <2>1. CASE 0 > a
    BY <1>1, <1>2, <2>1
  <2> QED BY <1>1, <2>1
<1> QED BY <1>1, <1>3, <1>4

\* Rounding a fraction gives a natural number, a larger one for a larger fraction.
LEMMA RoundHalfUpType ==
  ASSUME NEW n \in Nat, NEW k \in Nat \ {0}
  PROVE  RoundHalfUp(n, k) \in Nat
<1>1. 2 * n + k \in Nat /\ 2 * k \in Nat \ {0}
  OBVIOUS
<1> QED BY <1>1, QuotientMonotone DEF RoundHalfUp

\* Rounding keeps the order.
LEMMA RoundHalfUpMonotone ==
  ASSUME NEW m \in Nat, NEW n \in Nat, m <= n, NEW k \in Nat \ {0}
  PROVE  RoundHalfUp(m, k) <= RoundHalfUp(n, k)
<1>1. /\ 2 * m + k \in Nat /\ 2 * n + k \in Nat /\ 2 * k \in Nat \ {0}
      /\ 2 * m + k <= 2 * n + k
  OBVIOUS
<1> QED BY <1>1, QuotientMonotone DEF RoundHalfUp

\* Rounding adds half a unit at most.
LEMMA RoundHalfUpBound ==
  ASSUME NEW n \in Nat, NEW k \in Nat \ {0}
  PROVE  2 * k * RoundHalfUp(n, k) <= 2 * n + k
<1> DEFINE m == 2 * n + k
           j == 2 * k
<1>1. m \in Nat /\ j \in Nat \ {0}
  OBVIOUS
<1>2. j * (m \div j) <= m
  <2> HIDE DEF m, j
  <2> QED BY <1>1
<1> QED BY <1>2 DEF RoundHalfUp

\* Nothing has no share.
LEMMA RoundHalfUpZero ==
  ASSUME NEW k \in Nat \ {0}
  PROVE  RoundHalfUp(0, k) = 0
<1>1. 2 * k \in Nat \ {0} /\ k < 2 * k /\ 2 * 0 + k = k
  OBVIOUS
<1>2. k \div (2 * k) = 0
  BY <1>1
<1> QED BY <1>1, <1>2 DEF RoundHalfUp

\* The share of a payment's commission is a natural number.
LEMMA ShareType ==
  ASSUME Rows, NEW p \in Payments, payment[p] # 0, NEW x \in Amounts \cup {0}
  PROVE  Share(p, x) \in Nat
<1>0. earned[p] \in EarnedRow /\ payment[p] \in Amounts \cup {0}
  BY DEF Rows
<1>a. Amounts \cup {0} \subseteq Nat /\ Commissions \cup {0} \subseteq Nat
  BY RevenueAssumption
<1>b. earned[p].amount \in Commissions \cup {0}
  BY <1>0 DEF EarnedRow
<1>1. payment[p] \in Nat \ {0} /\ earned[p].amount \in Nat /\ x \in Nat
  BY <1>0, <1>a, <1>b
<1>2. x * earned[p].amount \in Nat
  BY <1>1
<1>3. RoundHalfUp(x * earned[p].amount, payment[p]) \in Nat
  BY <1>1, <1>2, RoundHalfUpType
<1> QED BY <1>3 DEF Share

\* A share does not change when the commission only changes its status.
LEMMA ShareStable ==
  ASSUME NEW p \in Payments, NEW x,
         payment'[p] = payment[p],
         earned'[p].amount = earned[p].amount,
         (earned'[p].status = "none") <=> (earned[p].status = "none")
  PROVE  Share(p, x)' = Share(p, x)
  BY DEF Share

-----------------------------------------------------------------------------
(* Sums over finite sets.                                                  *)

\* The recursion by which a sum is defined: one element is added after the other.
Pick(T) == CHOOSE x \in T : TRUE
Adds(g, f, S) == g = [T \in SUBSET S |->
    IF T = {} THEN 0 ELSE f[Pick(T)] + g[T \ {Pick(T)}]]
Adder(f, S) == CHOOSE g : Adds(g, f, S)

\* A sum is the value of such a function.
LEMMA Unfold ==
  ASSUME NEW f, NEW S
  PROVE SumFunctionOnSet(f, S) = Adder(f, S)[S]
  BY DEF SumFunctionOnSet, FoldFunctionOnSet, MapThenFoldSet, Adds, Adder, Pick

\* Among subsets of a finite set there is a smallest one: induction over finite sets.
LEMMA Smallest ==
  ASSUME NEW S, IsFiniteSet(S), NEW T \in SUBSET SUBSET S, T # {}
  PROVE  \E U \in T : \A V \in T : V \subseteq U => V = U
<1>1. IsWellFoundedOn(StrictSubsetOrdering(S), FiniteSubsetsOf(S))
  BY FS_StrictSubsetOrderingWellFounded
<1>2. FiniteSubsetsOf(S) = SUBSET S
  BY FS_FiniteSubsetsOfFinite
<1>3. \E U \in T : \A V \in T : ~ (<<V, U>> \in StrictSubsetOrdering(S))
  BY <1>1, <1>2, WFMin
<1> QED BY <1>3 DEF StrictSubsetOrdering

\* An element of a set that is not empty.
LEMMA PickIn == \A T : T # {} =>
    Pick(T) \in T /\ T \ {Pick(T)} \subseteq T /\ T \ {Pick(T)} # T
  BY DEF Pick

\* Two functions that obey the recursion agree where both are defined.
LEMMA Same ==
  ASSUME NEW f, NEW S, IsFiniteSet(S), NEW T \in SUBSET S, NEW g, NEW h,
         Adds(g, f, S), Adds(h, f, T)
  PROVE  g[T] = h[T]
<1> DEFINE Bad == {U \in SUBSET T : g[U] # h[U]}
<1>1. CASE Bad = {}
  BY <1>1
<1>2. CASE Bad # {}
  <2>0. IsFiniteSet(T) /\ Bad \in SUBSET SUBSET T
    BY FS_Subset
  <2>1. PICK U \in Bad : \A V \in Bad : V \subseteq U => V = U
    <3> HIDE DEF Bad
    <3> QED BY <1>2, <2>0, Smallest
  <2>2. U # {}
    BY <2>1 DEF Adds
  <2> DEFINE V == U \ {Pick(U)}
  <2>3. V \in SUBSET T /\ V \notin Bad
    BY <2>1, <2>2, PickIn
  <2>4. g[V] = h[V]
    BY <2>3
  <2>5. g[U] = f[Pick(U)] + g[V] /\ h[U] = f[Pick(U)] + h[V]
    BY <2>1, <2>2 DEF Adds
  <2> QED BY <2>1, <2>4, <2>5
<1> QED BY <1>1, <1>2

\* On a finite set there is a function that obeys it.
LEMMA AdderAdds ==
  ASSUME NEW f, NEW S, IsFiniteSet(S)
  PROVE  Adds(Adder(f, S), f, S)
<1> DEFINE Bad == {U \in SUBSET S : ~Adds(Adder(f, U), f, U)}
<1>1. CASE Bad = {}
  BY <1>1
<1>2. CASE Bad # {}
  <2>0. Bad \in SUBSET SUBSET S
    OBVIOUS
  <2>1. PICK U \in Bad : \A V \in Bad : V \subseteq U => V = U
    <3> HIDE DEF Bad
    <3> QED BY <1>2, <2>0, Smallest
  <2>a. \A V \in SUBSET U : V # U => Adds(Adder(f, V), f, V)
    BY <2>1
  <2> DEFINE h == [W \in SUBSET U |-> IF W = {} THEN 0
                     ELSE f[Pick(W)] + Adder(f, W \ {Pick(W)})[W \ {Pick(W)}]]
  <2>2. ASSUME NEW W \in SUBSET U, W # {}
        PROVE  h[W \ {Pick(W)}] = Adder(f, W \ {Pick(W)})[W \ {Pick(W)}]
    <3> DEFINE V == W \ {Pick(W)}
    <3>1. V \in SUBSET U /\ V # U /\ IsFiniteSet(V)
      BY <2>2, PickIn, FS_Subset
    <3>2. Adds(Adder(f, V), f, V)
      BY <3>1, <2>a
    <3>3. CASE V = {}
      BY <3>1, <3>2, <3>3 DEF Adds
    <3>4. CASE V # {}
      <4> DEFINE X == V \ {Pick(V)}
      <4>1. X \in SUBSET V /\ X \in SUBSET U /\ X # U
        BY <3>1, <3>4, PickIn
      <4>2. Adds(Adder(f, X), f, X)
        BY <4>1, <2>a
      <4>3. Adder(f, V)[X] = Adder(f, X)[X]
        BY <3>1, <3>2, <4>1, <4>2, Same
      <4>4. Adder(f, V)[V] = f[Pick(V)] + Adder(f, V)[X]
        BY <3>2, <3>4 DEF Adds
      <4>5. h[V] = f[Pick(V)] + Adder(f, X)[X]
        BY <3>1, <3>4
      <4> QED BY <4>3, <4>4, <4>5
    <3> QED BY <3>3, <3>4
  <2>3. Adds(h, f, U)
    <3>1. h = [W \in SUBSET U |-> IF W = {} THEN 0 ELSE f[Pick(W)] + h[W \ {Pick(W)}]]
      BY <2>2
    <3> QED BY <3>1 DEF Adds
  <2>4. Adds(Adder(f, U), f, U)
    BY <2>3 DEF Adder
  <2> QED BY <2>1, <2>4
<1> QED BY <1>1, <1>2

\* So a sum obeys it, and that of nothing is 0.
LEMMA SumStep ==
  ASSUME NEW f, NEW S, IsFiniteSet(S), S # {}
  PROVE  SumFunctionOnSet(f, S) = f[Pick(S)] + SumFunctionOnSet(f, S \ {Pick(S)})
<1> DEFINE T == S \ {Pick(S)}
<1>1. T \in SUBSET S /\ IsFiniteSet(T)
  BY PickIn, FS_Subset
<1>2. Adds(Adder(f, S), f, S) /\ Adds(Adder(f, T), f, T)
  BY <1>1, AdderAdds
<1>3. Adder(f, S)[S] = f[Pick(S)] + Adder(f, S)[T]
  BY <1>2 DEF Adds
<1>4. Adder(f, S)[T] = Adder(f, T)[T]
  BY <1>1, <1>2, Same
<1> QED BY <1>3, <1>4, Unfold

\* The sum over nothing.
LEMMA SumEmpty == \A f : SumFunctionOnSet(f, {}) = 0
<1> TAKE f
<1>1. IsFiniteSet({})
  BY FS_EmptySet
<1>2. Adds(Adder(f, {}), f, {})
  BY <1>1, AdderAdds
<1>3. Adder(f, {})[{}] = 0
  BY <1>2 DEF Adds
<1> QED BY <1>3, Unfold

\* A sum of integers is an integer, one of natural numbers a natural number.
LEMMA SumType ==
  ASSUME NEW f, NEW S, IsFiniteSet(S), \A x \in S : f[x] \in Int
  PROVE  SumFunctionOnSet(f, S) \in Int
<1> DEFINE Bad == {U \in SUBSET S : SumFunctionOnSet(f, U) \notin Int}
<1>1. CASE Bad = {}
  BY <1>1
<1>2. CASE Bad # {}
  <2>0. Bad \in SUBSET SUBSET S
    OBVIOUS
  <2>1. PICK U \in Bad : \A V \in Bad : V \subseteq U => V = U
    <3> HIDE DEF Bad
    <3> QED BY <1>2, <2>0, Smallest
  <2>2. U # {} /\ IsFiniteSet(U)
    <3>1. SumFunctionOnSet(f, {}) = 0
      BY SumEmpty
    <3>2. {} \notin Bad
      BY <3>1
    <3>3. IsFiniteSet(U)
      BY <2>1, FS_Subset
    <3> QED BY <2>1, <3>2, <3>3
  <2>3. U \ {Pick(U)} \in SUBSET S /\ U \ {Pick(U)} \notin Bad
    BY <2>1, <2>2, PickIn
  <2>4. SumFunctionOnSet(f, U) = f[Pick(U)] + SumFunctionOnSet(f, U \ {Pick(U)})
    BY <2>2, SumStep
  <2>5. f[Pick(U)] \in Int
    BY <2>1, <2>2, PickIn
  <2> QED BY <2>1, <2>3, <2>4, <2>5
<1> QED BY <1>1, <1>2

\* A sum of naturals is a natural.
LEMMA SumNat ==
  ASSUME NEW f, NEW S, IsFiniteSet(S), \A x \in S : f[x] \in Nat
  PROVE  SumFunctionOnSet(f, S) \in Nat
<1> DEFINE Bad == {U \in SUBSET S : SumFunctionOnSet(f, U) \notin Nat}
<1>1. CASE Bad = {}
  BY <1>1
<1>2. CASE Bad # {}
  <2>0. Bad \in SUBSET SUBSET S
    OBVIOUS
  <2>1. PICK U \in Bad : \A V \in Bad : V \subseteq U => V = U
    <3> HIDE DEF Bad
    <3> QED BY <1>2, <2>0, Smallest
  <2>2. U # {} /\ IsFiniteSet(U)
    <3>1. SumFunctionOnSet(f, {}) = 0
      BY SumEmpty
    <3>2. {} \notin Bad
      BY <3>1
    <3>3. IsFiniteSet(U)
      BY <2>1, FS_Subset
    <3> QED BY <2>1, <3>2, <3>3
  <2>3. U \ {Pick(U)} \in SUBSET S /\ U \ {Pick(U)} \notin Bad
    BY <2>1, <2>2, PickIn
  <2>4. SumFunctionOnSet(f, U) = f[Pick(U)] + SumFunctionOnSet(f, U \ {Pick(U)})
    BY <2>2, SumStep
  <2>5. f[Pick(U)] \in Nat
    BY <2>1, <2>2, PickIn
  <2> QED BY <2>1, <2>3, <2>4, <2>5
<1> QED BY <1>1, <1>2

\* A sum depends only on what is added.
LEMMA SumSame ==
  ASSUME NEW f, NEW g, NEW S, IsFiniteSet(S), \A x \in S : f[x] = g[x]
  PROVE  SumFunctionOnSet(f, S) = SumFunctionOnSet(g, S)
<1> DEFINE Bad == {U \in SUBSET S : SumFunctionOnSet(f, U) # SumFunctionOnSet(g, U)}
<1>1. CASE Bad = {}
  BY <1>1
<1>2. CASE Bad # {}
  <2>0. Bad \in SUBSET SUBSET S
    OBVIOUS
  <2>1. PICK U \in Bad : \A V \in Bad : V \subseteq U => V = U
    <3> HIDE DEF Bad
    <3> QED BY <1>2, <2>0, Smallest
  <2>2. U # {} /\ IsFiniteSet(U)
    <3>1. SumFunctionOnSet(f, {}) = SumFunctionOnSet(g, {})
      BY SumEmpty
    <3> QED BY <2>1, <3>1, FS_Subset
  <2>3. U \ {Pick(U)} \in SUBSET S /\ U \ {Pick(U)} \notin Bad
    BY <2>1, <2>2, PickIn
  <2>4. /\ SumFunctionOnSet(f, U) = f[Pick(U)] + SumFunctionOnSet(f, U \ {Pick(U)})
        /\ SumFunctionOnSet(g, U) = g[Pick(U)] + SumFunctionOnSet(g, U \ {Pick(U)})
    BY <2>2, SumStep
  <2>5. f[Pick(U)] = g[Pick(U)]
    BY <2>1, <2>2, PickIn
  <2> QED BY <2>1, <2>3, <2>4, <2>5
<1> QED BY <1>1, <1>2

\* Any element may be added last.
LEMMA SumRemove ==
  ASSUME NEW f, NEW S, IsFiniteSet(S), \A x \in S : f[x] \in Int, NEW y \in S
  PROVE  SumFunctionOnSet(f, S) = f[y] + SumFunctionOnSet(f, S \ {y})
<1> DEFINE Bad == {U \in SUBSET S : \E x \in U :
              SumFunctionOnSet(f, U) # f[x] + SumFunctionOnSet(f, U \ {x})}
<1>1. CASE Bad = {}
  BY <1>1
<1>2. CASE Bad # {}
  <2>0. Bad \in SUBSET SUBSET S
    OBVIOUS
  <2>1. PICK U \in Bad : \A V \in Bad : V \subseteq U => V = U
    <3> HIDE DEF Bad
    <3> QED BY <1>2, <2>0, Smallest
  <2>2. PICK x \in U : SumFunctionOnSet(f, U) # f[x] + SumFunctionOnSet(f, U \ {x})
    BY <2>1
  <2> DEFINE c == Pick(U)
             V == U \ {c}
             W == U \ {x}
             X == U \ {c, x}
  <2>3. U \in SUBSET S /\ U # {} /\ IsFiniteSet(U) /\ c \in U
    BY <2>1, <2>2, FS_Subset, PickIn
  <2>4. SumFunctionOnSet(f, U) = f[c] + SumFunctionOnSet(f, V)
    BY <2>3, SumStep
  <2>5. c # x
    BY <2>2, <2>4
  <2>6. V \in SUBSET S /\ V \notin Bad /\ W \in SUBSET S /\ W \notin Bad /\ x \in V /\ c \in W
    BY <2>1, <2>3, <2>5
  <2>7. V \ {x} = X /\ W \ {c} = X
    OBVIOUS
  <2>8. /\ SumFunctionOnSet(f, V) = f[x] + SumFunctionOnSet(f, X)
        /\ SumFunctionOnSet(f, W) = f[c] + SumFunctionOnSet(f, X)
    BY <2>6, <2>7
  <2>9. f[c] \in Int /\ f[x] \in Int /\ SumFunctionOnSet(f, X) \in Int
    <3>1. IsFiniteSet(X) /\ \A z \in X : f[z] \in Int
      BY <2>3, FS_Subset
    <3> QED BY <2>3, <3>1, SumType
  <2> QED BY <2>2, <2>4, <2>8, <2>9
<1> QED BY <1>1, <1>2

\* A part of natural numbers adds up to no more than all of them.
LEMMA SumSubset ==
  ASSUME NEW f, NEW S, IsFiniteSet(S), \A x \in S : f[x] \in Nat, NEW T \in SUBSET S
  PROVE  SumFunctionOnSet(f, T) <= SumFunctionOnSet(f, S)
<1> DEFINE Bad == {U \in SUBSET S :
              T \subseteq U /\ ~(SumFunctionOnSet(f, T) <= SumFunctionOnSet(f, U))}
<1>1. CASE Bad = {}
  BY <1>1
<1>2. CASE Bad # {}
  <2>0. Bad \in SUBSET SUBSET S
    OBVIOUS
  <2>1. PICK U \in Bad : \A V \in Bad : V \subseteq U => V = U
    <3> HIDE DEF Bad
    <3> QED BY <1>2, <2>0, Smallest
  <2>2. ASSUME NEW V \in SUBSET S PROVE SumFunctionOnSet(f, V) \in Nat
    BY SumNat, FS_Subset
  <2>3. PICK x \in U : x \notin T
    <3>1. SumFunctionOnSet(f, T) <= SumFunctionOnSet(f, T)
      BY <2>2
    <3> QED BY <2>1, <3>1
  <2>4. U \ {x} \in SUBSET S /\ T \subseteq U \ {x} /\ U \ {x} \notin Bad
    BY <2>1, <2>3
  <2>5. SumFunctionOnSet(f, U) = f[x] + SumFunctionOnSet(f, U \ {x})
    <3>1. IsFiniteSet(U) /\ \A y \in U : f[y] \in Int
      BY <2>1, FS_Subset
    <3> QED BY <3>1, <2>3, SumRemove
  <2>6. f[x] \in Nat
    BY <2>1, <2>3
  <2> QED BY <2>1, <2>2, <2>4, <2>5, <2>6
<1> QED BY <1>1, <1>2

\* One more element adds its value, and leaves the others theirs.
LEMMA SumAdded ==
  ASSUME NEW f, NEW g, NEW S, IsFiniteSet(S), NEW y, y \notin S,
         \A x \in S : g[x] = f[x] /\ f[x] \in Nat, g[y] \in Nat
  PROVE  SumFunctionOnSet(g, S \cup {y}) = SumFunctionOnSet(f, S) + g[y]
<1> DEFINE T == S \cup {y}
<1>1. IsFiniteSet(T) /\ T \ {y} = S
  BY FS_AddElement
<1>2. y \in T /\ \A x \in T : g[x] \in Int
  OBVIOUS
<1>3. SumFunctionOnSet(g, T) = g[y] + SumFunctionOnSet(g, S)
  <2> HIDE DEF T
  <2>1. SumFunctionOnSet(g, T) = g[y] + SumFunctionOnSet(g, T \ {y})
    BY <1>1, <1>2, SumRemove
  <2> QED BY <1>1, <2>1, Zenon
<1>4. SumFunctionOnSet(g, S) = SumFunctionOnSet(f, S)
  BY SumSame
<1>5. SumFunctionOnSet(f, S) \in Nat
  BY SumNat
<1> HIDE DEF T
<1> QED BY <1>3, <1>4, <1>5 DEF T

\* What is zero may be left out of a sum.
LEMMA SumZero ==
  ASSUME NEW f, NEW S, IsFiniteSet(S), \A x \in S : f[x] \in Nat, NEW T \in SUBSET S,
         \A x \in S \ T : f[x] = 0
  PROVE  SumFunctionOnSet(f, T) = SumFunctionOnSet(f, S)
<1> DEFINE Bad == {U \in SUBSET S :
              T \subseteq U /\ SumFunctionOnSet(f, T) # SumFunctionOnSet(f, U)}
<1>1. CASE Bad = {}
  BY <1>1
<1>2. CASE Bad # {}
  <2>0. Bad \in SUBSET SUBSET S
    OBVIOUS
  <2>1. PICK U \in Bad : \A V \in Bad : V \subseteq U => V = U
    <3> HIDE DEF Bad
    <3> QED BY <1>2, <2>0, Smallest
  <2>2. PICK x \in U : x \notin T
    <3>1. T \subseteq U /\ U # T
      BY <2>1
    <3> QED BY <3>1, Zenon
  <2>3. U \ {x} \in SUBSET S /\ T \subseteq U \ {x} /\ U \ {x} \notin Bad
    BY <2>1, <2>2
  <2>4. SumFunctionOnSet(f, U) = f[x] + SumFunctionOnSet(f, U \ {x})
    <3>1. IsFiniteSet(U) /\ \A y \in U : f[y] \in Int
      BY <2>1, FS_Subset
    <3> QED BY <3>1, <2>2, SumRemove
  <2>5. f[x] = 0 /\ SumFunctionOnSet(f, U \ {x}) \in Nat
    <3>1. IsFiniteSet(U \ {x})
      BY <2>3, FS_Subset
    <3> QED BY <2>1, <2>2, <2>3, <3>1, SumNat
  <2> QED BY <2>1, <2>3, <2>4, <2>5
<1> QED BY <1>1, <1>2

\* A bound of each summand, up to a constant, bounds the sum, up to as many.
LEMMA SumBound ==
  ASSUME NEW f, NEW g, NEW S, IsFiniteSet(S), \A x \in S : f[x] \in Nat /\ g[x] \in Nat,
         NEW a \in Nat, NEW b \in Nat, NEW c \in Nat, \A x \in S : a * f[x] <= b * g[x] + c
  PROVE  a * SumFunctionOnSet(f, S) <= b * SumFunctionOnSet(g, S) + c * Cardinality(S)
<1> DEFINE Holds(U) == a * SumFunctionOnSet(f, U) <= b * SumFunctionOnSet(g, U) + c * Cardinality(U)
           Bad == {U \in SUBSET S : ~Holds(U)}
<1>0. {} \notin Bad
  <2>1. /\ SumFunctionOnSet(f, {}) = 0 /\ SumFunctionOnSet(g, {}) = 0
        /\ Cardinality({}) = 0
    BY SumEmpty, FS_EmptySet
  <2> QED BY <2>1
<1>1. CASE Bad = {}
  BY <1>1
<1>2. CASE Bad # {}
  <2>0. Bad \in SUBSET SUBSET S
    OBVIOUS
  <2>1. PICK U \in Bad : \A V \in Bad : V \subseteq U => V = U
    <3> HIDE DEF Bad
    <3> QED BY <1>2, <2>0, Smallest
  <2>2. PICK x \in U : TRUE
    BY <1>0, <2>1
  <2> DEFINE V == U \ {x}
             F == SumFunctionOnSet(f, V)
             G == SumFunctionOnSet(g, V)
             n == Cardinality(V)
  <2>3. V \in SUBSET S /\ V \notin Bad /\ x \in S
    BY <2>1, <2>2
  <2>4. IsFiniteSet(U) /\ IsFiniteSet(V)
    BY <2>1, <2>3, FS_Subset
  <2>5. Cardinality(U) = n + 1 /\ n \in Nat
    <3>1. V \cup {x} = U /\ x \notin V
      BY <2>2
    <3>2. Cardinality(V \cup {x}) = Cardinality(V) + 1
      BY <2>4, <3>1, FS_AddElement
    <3>3. Cardinality(V) \in Nat
      BY <2>4, FS_CardinalityType
    <3> QED BY <3>1, <3>2, <3>3
  <2>6. /\ SumFunctionOnSet(f, U) = f[x] + F
        /\ SumFunctionOnSet(g, U) = g[x] + G
    <3>1. \A y \in U : f[y] \in Int /\ g[y] \in Int
      BY <2>1
    <3> QED BY <2>2, <2>4, <3>1, SumRemove
  <2>7. F \in Nat /\ G \in Nat
    <3>1. \A y \in V : f[y] \in Nat /\ g[y] \in Nat
      BY <2>3
    <3> QED BY <2>4, <3>1, SumNat
  <2>8. a * F <= b * G + c * n
    BY <2>3
  <2>9. /\ f[x] \in Nat /\ g[x] \in Nat /\ a * f[x] <= b * g[x] + c
    BY <2>3
  <2> HIDE DEF F, G, n, V
  <2>10. a * (f[x] + F) <= b * (g[x] + G) + c * (n + 1)
    <3>1. a * (f[x] + F) = a * f[x] + a * F
      BY <2>7, <2>9
    <3>2. /\ b * (g[x] + G) = b * g[x] + b * G
          /\ c * (n + 1) = c * n + c
      BY <2>5, <2>7, <2>9
    <3>3. /\ a * f[x] \in Int /\ a * F \in Int /\ b * g[x] \in Int /\ b * G \in Int /\ c * n \in Int
      BY <2>5, <2>7, <2>9
    <3> QED BY <2>8, <2>9, <3>1, <3>2, <3>3
  <2>11. Holds(U)
    BY <2>5, <2>6, <2>10
  <2> QED BY <2>1, <2>11
<1> QED BY <1>1, <1>2

-----------------------------------------------------------------------------
(* A change of one commission's status.                                    *)

\* Setting the status of an entry keeps the rows and all shares.
LEMMA StatusChange ==
  ASSUME Rows, NEW p \in Payments, NEW to,
         to \in {"approved", "rejected", "disputed", "paid"}, earned[p].status # "none",
         earned' = [earned EXCEPT ![p].status = to]
  PROVE  /\ earned' \in [Payments -> EarnedRow]
         /\ \A q \in Payments : /\ earned'[q].amount = earned[q].amount
                                /\ (earned'[q].status = "none") <=> (earned[q].status = "none")
                                /\ q # p => earned'[q] = earned[q]
         /\ earned'[p].status = to
<1>1. earned \in [Payments -> EarnedRow] /\ earned[p] \in EarnedRow
  BY DEF Rows
<1>2. [earned[p] EXCEPT !.status = to] \in EarnedRow
  BY <1>1 DEF EarnedRow
<1>3. earned' = [earned EXCEPT ![p] = [earned[p] EXCEPT !.status = to]]
  BY <1>1
<1>4. /\ [earned[p] EXCEPT !.status = to].amount = earned[p].amount
      /\ [earned[p] EXCEPT !.status = to].status = to
  BY <1>1 DEF EarnedRow
<1> QED BY <1>1, <1>2, <1>3, <1>4

\* Reviews and payouts, which touch no dispute and leave no hold behind.
LEMMA SetEarnedStep ==
  ASSUME DisputeInv, NEW p \in Payments, NEW from, NEW to,
         to \in {"approved", "rejected", "paid"}, "none" \notin from, SetEarned(p, from, to)
  PROVE  DisputeInv'
<1> USE DEF DisputeInv
<1>1. /\ earned[p].status # "none" /\ earned' = [earned EXCEPT ![p].status = to]
      /\ UNCHANGED <<payment, refund, dispute, tx>>
  BY DEF SetEarned
<1>2. /\ earned' \in [Payments -> EarnedRow]
      /\ \A q \in Payments : /\ earned'[q].amount = earned[q].amount
                             /\ (earned'[q].status = "none") <=> (earned[q].status = "none")
                             /\ q # p => earned'[q] = earned[q]
      /\ earned'[p].status = to
  BY <1>1, StatusChange
<1>3. Rows'
  BY <1>1, <1>2 DEF Rows
<1>4. DisputeHasPayment'
  BY <1>1 DEF DisputeHasPayment
<1>5. \A q \in Payments, x \in Amounts \cup {0} : Share(q, x)' = Share(q, x)
  BY <1>1, <1>2, ShareStable
<1>6. Booked'
  <2> SUFFICES ASSUME NEW d \in DisputeIds
               PROVE  /\ dispute[d].status \notin {"lost", "funds_reinstated"} =>
                            dispute[d].reversed = 0 /\ dispute[d].reinstated = 0
                      /\ dispute[d].status = "lost" =>
                            /\ dispute[d].reversed = Share(dispute[d].of, dispute[d].amount)'
                            /\ dispute[d].reinstated = 0
                      /\ dispute[d].status = "funds_reinstated" =>
                            dispute[d].reversed = dispute[d].reinstated
    BY <1>1 DEF Booked, Share
  <2>1. dispute[d].status = "lost" => dispute[d].of \in Payments /\ dispute[d].amount \in Amounts \cup {0}
    BY DEF DisputeHasPayment, Rows, DisputeRow
  <2> QED BY <1>1, <1>5, <2>1 DEF Booked
<1>7. HoldHasOpenDispute'
  BY <1>1, <1>2 DEF HoldHasOpenDispute
<1> QED BY <1>3, <1>4, <1>6, <1>7

-----------------------------------------------------------------------------
(* A new status of a dispute.                                              *)

\* What an outcome writes in the row of its dispute: the status it is given,
\* the share when it reverses, and the same share when it gives back.
LEMMA OutcomeRow ==
  ASSUME DisputeInv, NEW d \in DisputeIds, NEW p \in Payments, NEW row \in DisputeRow,
         payment[p] # 0, CommissionOutcome(d, p, row)
  PROVE  \E new \in DisputeRow :
            /\ dispute' = [dispute EXCEPT ![d] = new]
            /\ new.of = row.of /\ new.amount = row.amount /\ new.status = row.status
            /\ new.reversed = IF row.status = "lost" THEN Share(p, row.amount) ELSE row.reversed
            /\ new.reinstated = IF row.status = "funds_reinstated" /\ row.reversed # 0
                                THEN Share(p, row.amount) ELSE row.reinstated
<1>1. Share(p, row.amount) \in Nat
  BY ShareType DEF DisputeInv, DisputeRow
<1>2. CASE /\ row.status \in {"opened", "won", "withdrawn"}
           /\ dispute' = [dispute EXCEPT ![d] = row]
  BY <1>2
<1>3. CASE /\ row.status = "lost"
           /\ dispute' = [dispute EXCEPT ![d] = [row EXCEPT !.reversed = Share(p, row.amount)]]
  <2> DEFINE new == [row EXCEPT !.reversed = Share(p, row.amount)]
  <2>1. /\ new \in DisputeRow /\ new.of = row.of /\ new.amount = row.amount
        /\ new.status = row.status /\ new.reversed = Share(p, row.amount)
        /\ new.reinstated = row.reinstated
    BY <1>1 DEF DisputeRow
  <2>2. dispute' = [dispute EXCEPT ![d] = new]
    BY <1>3
  <2> HIDE DEF new
  <2> QED BY <1>3, <2>1, <2>2
<1>4. CASE /\ row.status = "funds_reinstated" /\ row.reversed = 0
           /\ dispute' = [dispute EXCEPT ![d] = row]
  BY <1>4
<1>5. CASE /\ row.status = "funds_reinstated" /\ row.reversed # 0
           /\ dispute' = [dispute EXCEPT ![d] = [row EXCEPT !.reinstated = Share(p, row.amount)]]
  <2> DEFINE new == [row EXCEPT !.reinstated = Share(p, row.amount)]
  <2>1. /\ new \in DisputeRow /\ new.of = row.of /\ new.amount = row.amount
        /\ new.status = row.status /\ new.reversed = row.reversed
        /\ new.reinstated = Share(p, row.amount)
    BY <1>1 DEF DisputeRow
  <2>2. dispute' = [dispute EXCEPT ![d] = new]
    BY <1>5
  <2> HIDE DEF new
  <2> QED BY <1>5, <2>1, <2>2
<1> QED BY <1>2, <1>3, <1>4, <1>5 DEF CommissionOutcome

\* What an outcome does to the commission: an opened dispute may put it on
\* hold, and it stays on hold only with another open dispute, or when the
\* dispute gives back what it reversed before.
LEMMA OutcomeHold ==
  ASSUME DisputeInv, NEW d \in DisputeIds, NEW p \in Payments, NEW row,
         CommissionOutcome(d, p, row)
  PROVE  /\ earned' \in [Payments -> EarnedRow]
         /\ \A q \in Payments : /\ earned'[q].amount = earned[q].amount
                                /\ (earned'[q].status = "none") <=> (earned[q].status = "none")
                                /\ q # p => earned'[q] = earned[q]
         /\ earned'[p].status = "disputed" =>
               \/ row.status = "opened"
               \/ OtherOpenDispute(d, p)
               \/ earned[p].status = "disputed" /\ row.status = "funds_reinstated" /\ row.reversed # 0
<1>1. CASE UNCHANGED earned /\ (earned[p].status # "disputed" \/ OtherOpenDispute(d, p)
                                \/ row.status = "opened"
                                \/ (row.status = "funds_reinstated" /\ row.reversed # 0))
  BY <1>1 DEF DisputeInv, Rows
<1>2. CASE /\ row.status = "opened" /\ earned[p].status = "approved"
           /\ earned' = [earned EXCEPT ![p].status = "disputed"]
  BY <1>2, StatusChange DEF DisputeInv
<1>3. CASE /\ earned[p].status = "disputed" /\ earned' = [earned EXCEPT ![p].status = "approved"]
  BY <1>3, StatusChange DEF DisputeInv
<1> QED BY <1>1, <1>2, <1>3 DEF CommissionOutcome, Hold, restoreWhenNoOtherDisputeIsOpen

\* A dispute that is opened or that moves on keeps the invariant.
LEMMA OutcomeStep ==
  ASSUME DisputeInv, NEW d \in DisputeIds, NEW p \in Payments, NEW row \in DisputeRow,
         row.of = p, row.status \in Terminal \cup {"opened"},
         payment[p] # 0, UNCHANGED payment,
         row.reinstated = 0,
         row.status # "funds_reinstated" => row.reversed = 0,
         row.reversed = 0 \/ (row.reversed = Share(p, row.amount) /\ dispute[d].status # "opened"),
         dispute[d].status = "opened" => dispute[d].of = p /\ row.status # "opened",
         CommissionOutcome(d, p, row)
  PROVE  DisputeInv'
<1>1. PICK new \in DisputeRow :
            /\ dispute' = [dispute EXCEPT ![d] = new]
            /\ new.of = row.of /\ new.amount = row.amount /\ new.status = row.status
            /\ new.reversed = IF row.status = "lost" THEN Share(p, row.amount) ELSE row.reversed
            /\ new.reinstated = IF row.status = "funds_reinstated" /\ row.reversed # 0
                                THEN Share(p, row.amount) ELSE row.reinstated
  BY OutcomeRow
<1>2. dispute'[d] = new /\ \A o \in DisputeIds \ {d} : dispute'[o] = dispute[o]
  BY <1>1 DEF DisputeInv, Rows
<1>3. /\ earned' \in [Payments -> EarnedRow]
      /\ \A q \in Payments : /\ earned'[q].amount = earned[q].amount
                             /\ (earned'[q].status = "none") <=> (earned[q].status = "none")
                             /\ q # p => earned'[q] = earned[q]
      /\ earned'[p].status = "disputed" =>
            \/ row.status = "opened"
            \/ OtherOpenDispute(d, p)
            \/ earned[p].status = "disputed" /\ row.status = "funds_reinstated" /\ row.reversed # 0
  BY OutcomeHold
<1>4. Rows'
  BY <1>1, <1>3 DEF DisputeInv, Rows
<1>5. DisputeHasPayment'
  BY <1>1, <1>2 DEF DisputeInv, DisputeHasPayment
<1>6. \A q \in Payments, x \in Amounts \cup {0} : Share(q, x)' = Share(q, x)
  BY <1>3, ShareStable
<1>7. Booked'
  <2> SUFFICES ASSUME NEW o \in DisputeIds
               PROVE  /\ dispute'[o].status \notin {"lost", "funds_reinstated"} =>
                            dispute'[o].reversed = 0 /\ dispute'[o].reinstated = 0
                      /\ dispute'[o].status = "lost" =>
                            /\ dispute'[o].reversed = Share(dispute[o].of, dispute[o].amount)'
                            /\ dispute'[o].reinstated = 0
                      /\ dispute'[o].status = "funds_reinstated" =>
                            dispute'[o].reversed = dispute'[o].reinstated
    BY DEF Booked, Share
  <2>1. CASE o = d
    <3>1. Share(dispute[o].of, dispute[o].amount)' = Share(p, row.amount)
      <4>1. dispute'[o].of = p /\ dispute'[o].amount = row.amount
        BY <1>1, <1>2, <2>1
      <4>2. Share(dispute[o].of, dispute[o].amount)' = Share(p, row.amount)'
        BY <4>1 DEF Share
        <4>3. row.amount \in Amounts \cup {0}
        BY DEF DisputeRow
      <4> QED BY <4>2, <4>3, <1>6
    <3> QED BY <3>1, <1>1, <1>2, <2>1
  <2>2. CASE o # d
    <3>1. dispute'[o] = dispute[o]
      BY <1>2, <2>2
    <3>2. dispute[o].status = "lost" =>
             Share(dispute[o].of, dispute[o].amount)' = Share(dispute[o].of, dispute[o].amount)
      <4>1. dispute[o].status = "lost" =>
               dispute[o].of \in Payments /\ dispute[o].amount \in Amounts \cup {0}
        BY DEF DisputeInv, DisputeHasPayment, Rows, DisputeRow
      <4>2. Share(dispute[o].of, dispute[o].amount)' = Share(dispute[o].of, dispute[o].amount)
            \/ dispute[o].status # "lost"
        BY <4>1, <1>6, <3>1 DEF Share
      <4> QED BY <4>2
    <3> QED BY <3>1, <3>2 DEF DisputeInv, Booked
  <2> QED BY <2>1, <2>2
<1>8. HoldHasOpenDispute'
  <2> SUFFICES ASSUME NEW q \in Payments, earned'[q].status = "disputed"
               PROVE  \E o \in DisputeIds : dispute'[o].of = q /\ dispute'[o].status = "opened"
    BY DEF HoldHasOpenDispute
  <2>1. CASE q # p
    <3>1. PICK o \in DisputeIds : dispute[o].of = q /\ dispute[o].status = "opened"
      BY <1>3, <2>1 DEF DisputeInv, HoldHasOpenDispute
    <3>2. o # d
      BY <3>1, <2>1
    <3> QED BY <3>1, <3>2, <1>2
  <2>2. CASE q = p /\ row.status = "opened"
    BY <1>1, <1>2, <2>2
  <2>3. CASE q = p /\ OtherOpenDispute(d, p)
    BY <1>2, <2>3 DEF OtherOpenDispute
  <2>4. CASE q = p /\ earned[p].status = "disputed" /\ row.reversed # 0
    <3>1. PICK o \in DisputeIds : dispute[o].of = p /\ dispute[o].status = "opened"
      BY <2>4 DEF DisputeInv, HoldHasOpenDispute
    <3>2. o # d
      BY <3>1, <2>4
    <3> QED BY <3>1, <3>2, <1>2, <2>4
  <2> QED BY <1>3, <2>1, <2>2, <2>3, <2>4
<1> QED BY <1>4, <1>5, <1>7, <1>8 DEF DisputeInv

\* A payment is new, so no dispute is about it.
LEMMA PaymentStep ==
  ASSUME DisputeInv, NEW p \in Payments, NEW amount \in Amounts, NEW commission \in Commissions,
         NEW flagged \in BOOLEAN, reportPayment(p, amount, commission, flagged)
  PROVE  DisputeInv'
<1>1. /\ payment[p] = 0 /\ payment' = [payment EXCEPT ![p] = amount]
      /\ UNCHANGED dispute
  BY DEF reportPayment
<1>2. PICK row \in EarnedRow : /\ earned' = [earned EXCEPT ![p] = row]
                               /\ row.status = "disputed" => row = earned[p]
  <2>1. CASE UNCHANGED earned
    BY <2>1 DEF DisputeInv, Rows
  <2>2. CASE earned' = [earned EXCEPT ![p] =
                          [status |-> IF flagged THEN "flagged_self_referral" ELSE "approved",
                           amount |-> commission]]
    <3>1. [status |-> IF flagged THEN "flagged_self_referral" ELSE "approved",
           amount |-> commission] \in EarnedRow
      BY DEF EarnedRow
    <3> QED BY <2>2, <3>1
  <2> QED BY <2>1, <2>2 DEF reportPayment
<1>3. /\ earned'[p] = row /\ payment'[p] = amount
      /\ \A q \in Payments \ {p} : earned'[q] = earned[q] /\ payment'[q] = payment[q]
  BY <1>1, <1>2 DEF DisputeInv, Rows
<1>4. \A d \in DisputeIds : dispute[d].status # "none" => dispute[d].of \in Payments \ {p}
  BY <1>1 DEF DisputeInv, DisputeHasPayment
<1>5. Rows'
  BY <1>1, <1>2 DEF DisputeInv, Rows
<1>6. DisputeHasPayment'
  BY <1>1, <1>3, <1>4 DEF DisputeInv, DisputeHasPayment
<1>7. Booked'
  <2>1. \A q \in Payments \ {p}, x \in Amounts \cup {0} : Share(q, x)' = Share(q, x)
    BY <1>3, ShareStable
  <2> SUFFICES ASSUME NEW d \in DisputeIds
               PROVE  /\ dispute[d].status \notin {"lost", "funds_reinstated"} =>
                            dispute[d].reversed = 0 /\ dispute[d].reinstated = 0
                      /\ dispute[d].status = "lost" =>
                            /\ dispute[d].reversed = Share(dispute[d].of, dispute[d].amount)'
                            /\ dispute[d].reinstated = 0
                      /\ dispute[d].status = "funds_reinstated" =>
                            dispute[d].reversed = dispute[d].reinstated
    BY <1>1 DEF Booked, Share
  <2>2. dispute[d].amount \in Amounts \cup {0}
    BY DEF DisputeInv, Rows, DisputeRow
  <2> QED BY <1>1, <1>4, <2>1, <2>2 DEF DisputeInv, Booked
<1>8. HoldHasOpenDispute'
  BY <1>1, <1>2, <1>3 DEF DisputeInv, HoldHasOpenDispute
<1> QED BY <1>5, <1>6, <1>7, <1>8 DEF DisputeInv

\* Refunds, and steps that change nothing, leave everything a dispute reads.
LEMMA UntouchedStep ==
  ASSUME DisputeInv, UNCHANGED <<payment, earned, dispute>>
  PROVE  DisputeInv'
  BY DEF DisputeInv, Rows, DisputeHasPayment, Booked, HoldHasOpenDispute, Share

\* The first report of a dispute.
LEMMA OpenStep ==
  ASSUME DisputeInv, NEW d \in DisputeIds, NEW p \in Payments, NEW amount \in Amounts,
         NEW status \in Terminal \cup {"opened"}, openDispute(d, p, amount, status)
  PROVE  DisputeInv'
<1> DEFINE row == [NoDispute EXCEPT !.of = p, !.amount = amount, !.status = status]
<1>0. NoDispute \in DisputeRow /\ NoDispute.reversed = 0 /\ NoDispute.reinstated = 0
  BY DEF NoDispute, DisputeRow
<1>1. /\ row \in DisputeRow /\ row.of = p /\ row.amount = amount /\ row.status = status
      /\ row.reversed = 0 /\ row.reinstated = 0
  <2>1. ASSUME NEW x \in DisputeRow
        PROVE  LET y == [x EXCEPT !.of = p, !.amount = amount, !.status = status]
               IN  /\ y \in DisputeRow /\ y.of = p /\ y.amount = amount /\ y.status = status
                   /\ y.reversed = x.reversed /\ y.reinstated = x.reinstated
    BY DEF DisputeRow
  <2> QED BY <2>1, <1>0
<1>2. payment[p] # 0 /\ UNCHANGED payment /\ CommissionOutcome(d, p, row)
  <2>1. payment[p] > 0 /\ UNCHANGED payment /\ CommissionOutcome(d, p, row)
    BY DEF openDispute
  <2>2. payment[p] \in Amounts \cup {0} /\ Amounts \cup {0} \subseteq Nat
    BY RevenueAssumption DEF DisputeInv, Rows
  <2> QED BY <2>1, <2>2
<1>3. dispute[d].status = "none"
  BY DEF openDispute, NoDispute
<1> HIDE DEF row
<1> QED BY <1>1, <1>2, <1>3, OutcomeStep

\* A later report of a dispute: it was open or lost before.
LEMMA UpdateStep ==
  ASSUME DisputeInv, NEW d \in DisputeIds, NEW status \in Terminal, updateDispute(d, status)
  PROVE  DisputeInv'
<1> DEFINE p == dispute[d].of
           row == [dispute[d] EXCEPT !.status = status]
<1>1. dispute[d] \in DisputeRow
  BY DEF DisputeInv, Rows
<1>2. /\ row \in DisputeRow /\ row.of = p /\ row.amount = dispute[d].amount /\ row.status = status
      /\ row.reversed = dispute[d].reversed /\ row.reinstated = dispute[d].reinstated
  BY <1>1 DEF DisputeRow, Terminal
<1>3. \/ dispute[d].status = "opened"
      \/ dispute[d].status = "lost" /\ status = "funds_reinstated"
  BY DEF updateDispute, Applies
<1>4. p \in Payments /\ payment[p] # 0
  BY <1>3 DEF DisputeInv, DisputeHasPayment
<1>5. CommissionOutcome(d, p, row) /\ UNCHANGED payment
  BY DEF updateDispute
<1>6. /\ row.reinstated = 0
      /\ dispute[d].status = "opened" => row.reversed = 0
      /\ dispute[d].status = "lost" => row.reversed = Share(p, row.amount)
  BY <1>2, <1>3 DEF DisputeInv, Booked
<1> HIDE DEF p, row
<1>7. /\ row.reversed = 0 \/ (row.reversed = Share(p, row.amount) /\ dispute[d].status # "opened")
      /\ row.status # "funds_reinstated" => row.reversed = 0
      /\ row.status # "opened" /\ row.status \in Terminal \cup {"opened"}
  BY <1>2, <1>3, <1>6 DEF Terminal
<1>8. dispute[d].of = p
  BY DEF p
<1> QED BY <1>2, <1>4, <1>5, <1>6, <1>7, <1>8, OutcomeStep

-----------------------------------------------------------------------------
(* The invariant and what follows from it.                                 *)

\* Before the first report there is nothing to hold or to reverse.
LEMMA DisputeInvInit == Init => DisputeInv
<1> SUFFICES ASSUME Init PROVE DisputeInv
  OBVIOUS
<1>1. NoEarned \in EarnedRow
  BY DEF NoEarned, EarnedRow
<1>2. NoDispute \in DisputeRow
  BY DEF NoDispute, DisputeRow
<1>3. Rows
  BY <1>1, <1>2 DEF Init, Rows
<1>4. DisputeHasPayment /\ Booked
  BY DEF Init, DisputeHasPayment, Booked, NoDispute
<1>5. HoldHasOpenDispute
  BY DEF Init, HoldHasOpenDispute, NoEarned
<1> QED BY <1>3, <1>4, <1>5 DEF DisputeInv

\* Every step keeps the invariant.
LEMMA DisputeInvStep == DisputeInv /\ [Next]_vars => DisputeInv'
<1> SUFFICES ASSUME DisputeInv, [Next]_vars PROVE DisputeInv'
  OBVIOUS
<1>1. CASE \E p \in Payments, amount \in Amounts, commission \in Commissions, flagged \in BOOLEAN :
             reportPayment(p, amount, commission, flagged)
  BY <1>1, PaymentStep
<1>2. CASE \E p \in Payments : \/ releaseFlaggedCommission(p)
                               \/ rejectFlaggedCommission(p)
                               \/ markCommissionPaid(p)
  BY <1>2, SetEarnedStep
     DEF releaseFlaggedCommission, rejectFlaggedCommission, markCommissionPaid
<1>3. CASE \E p \in Payments, S \in SUBSET RefundIds : \E list \in [S -> Amounts] :
             S # {} /\ refundBegin(p, list)
  BY <1>3, UntouchedStep DEF refundBegin
<1>4. CASE (\E r \in RefundIds : refundRecord(r)) \/ refundCommit \/ refundRollback
  BY <1>4, UntouchedStep DEF refundRecord, refundCommit, refundRollback
<1>5. CASE \E d \in DisputeIds, p \in Payments, amount \in Amounts, status \in Terminal \cup {"opened"} :
             openDispute(d, p, amount, status)
  BY <1>5, OpenStep
<1>6. CASE \E d \in DisputeIds, status \in Terminal : updateDispute(d, status)
  BY <1>6, UpdateStep
<1>7. CASE UNCHANGED vars
  BY <1>7, UntouchedStep DEF vars
<1> QED BY <1>1, <1>2, <1>3, <1>4, <1>5, <1>6, <1>7 DEF Next

\* The entries of a dispute net out: the share is an integer, so what is
\* given back cancels what was reversed.
LEMMA InvNetsOut == DisputeInv => DisputeNetsOut
<1> SUFFICES ASSUME DisputeInv, NEW d \in DisputeIds
             PROVE  dispute[d].reversed - dispute[d].reinstated =
                      IF dispute[d].status = "lost" THEN Share(dispute[d].of, dispute[d].amount) ELSE 0
  BY DEF DisputeNetsOut
<1>1. dispute[d].reversed \in Int /\ dispute[d].reinstated \in Int
  BY DEF DisputeInv, Rows, DisputeRow
<1> QED BY <1>1 DEF DisputeInv, Booked

-----------------------------------------------------------------------------
(* Refunds within their payment.                                           *)

\* The refund rows there are: finitely many, for each took a step.
Recorded(rows) == {r \in RefundIds : rows[r].of # None}

\* Refund rows, committed or not yet, that agree with the payments, with the
\* entries and with what the active disputes of each payment hold.
Balanced(rows, paid, entries, disputed) ==
    /\ rows \in [RefundIds -> RefundRow]
    /\ IsFiniteSet(Recorded(rows))
    /\ \A r \in Recorded(rows) : paid[rows[r].of] # 0
    /\ \A p \in Payments :
          /\ Refunded(rows, p) + disputed[p] <= paid[p]
          /\ entries[p].status # "none" =>
                TakenBack(rows, p) = RoundHalfUp(Refunded(rows, p) * entries[p].amount, paid[p])

DisputedAmounts == [p \in Payments |-> Disputed(p)]
FiniteDisputes == IsFiniteSet({d \in DisputeIds : dispute[d].status # "none"})
EntryHasPayment == \A p \in Payments : earned[p].status # "none" => payment[p] # 0

\* The transaction that holds the lock works on rows that are balanced too.
OpenTransaction ==
    /\ tx = [op |-> "refund", of |-> tx.of, list |-> tx.list, rows |-> tx.rows]
    /\ tx.of \in Payments /\ payment[tx.of] # 0
    /\ \E S \in SUBSET RefundIds : tx.list \in [S -> Amounts]
    /\ Balanced(tx.rows, payment, earned, DisputedAmounts)

BalanceInv ==
    /\ DisputeInv
    /\ FiniteDisputes
    /\ EntryHasPayment
    /\ Balanced(refund, payment, earned, DisputedAmounts)
    /\ tx = Unlocked \/ OpenTransaction

\* The refunds of a payment are finitely many, and their sums natural numbers.
LEMMA RefundSums ==
  ASSUME NEW rows \in [RefundIds -> RefundRow], IsFiniteSet(Recorded(rows)), NEW p \in Payments
  PROVE  /\ IsFiniteSet(RefundsOf(rows, p))
         /\ DOMAIN rows = RefundIds
         /\ \A r \in RefundIds : rows[r].amount \in Nat /\ rows[r].taken \in Nat
         /\ Refunded(rows, p) \in Nat /\ TakenBack(rows, p) \in Nat
<1>1. RefundsOf(rows, p) \subseteq Recorded(rows)
  BY RevenueAssumption DEF RefundsOf, Recorded
<1>2. IsFiniteSet(RefundsOf(rows, p))
  BY <1>1, FS_Subset
<1>3. \A r \in RefundIds : rows[r].amount \in Nat /\ rows[r].taken \in Nat
  <2>1. Amounts \cup {0} \subseteq Nat
    BY RevenueAssumption
  <2> QED BY <2>1 DEF RefundRow
<1>4. Refunded(rows, p) \in Nat
  <2>1. \A r \in RefundsOf(rows, p) : Amount(rows)[r] \in Nat
    BY <1>3 DEF Amount, RefundsOf
  <2> QED BY <1>2, <2>1, SumNat DEF Refunded
<1>5. TakenBack(rows, p) \in Nat
  <2> DEFINE f == [r \in RefundIds |-> rows[r].taken]
  <2>1. \A r \in RefundsOf(rows, p) : f[r] \in Nat
    BY <1>3 DEF RefundsOf
  <2> HIDE DEF f
  <2>2. SumFunctionOnSet(f, RefundsOf(rows, p)) \in Nat
    BY <1>2, <2>1, SumNat
  <2> QED BY <2>2 DEF TakenBack, f
<1> QED BY <1>2, <1>3, <1>4, <1>5

\* One more row of p adds to the sums of p, and to no other payment's.
LEMMA RowAdded ==
  ASSUME NEW rows \in [RefundIds -> RefundRow], IsFiniteSet(Recorded(rows)),
         NEW r \in RefundIds, rows[r].of = None,
         NEW p \in Payments, NEW new \in [RefundIds -> RefundRow], new[r].of = p,
         \A q \in RefundIds \ {r} : new[q] = rows[q]
  PROVE  /\ Recorded(new) = Recorded(rows) \cup {r} /\ IsFiniteSet(Recorded(new))
         /\ Refunded(new, p) = Refunded(rows, p) + new[r].amount
         /\ TakenBack(new, p) = TakenBack(rows, p) + new[r].taken
         /\ \A q \in Payments \ {p} : /\ Refunded(new, q) = Refunded(rows, q)
                                      /\ TakenBack(new, q) = TakenBack(rows, q)
<1>1. new[r].of = p /\ \A q \in RefundIds \ {r} : new[q] = rows[q]
  OBVIOUS
<1>2. Recorded(new) = Recorded(rows) \cup {r} /\ r \notin Recorded(rows)
  BY <1>1, RevenueAssumption DEF Recorded
<1>3. IsFiniteSet(Recorded(new))
  <2>1. IsFiniteSet(Recorded(rows) \cup {r})
    BY FS_AddElement
  <2> QED BY <1>2, <2>1
<1>4. /\ \A q \in Payments \ {p} : RefundsOf(new, q) = RefundsOf(rows, q)
      /\ r \notin RefundsOf(rows, p) /\ RefundsOf(new, p) = RefundsOf(rows, p) \cup {r}
  BY <1>1, RevenueAssumption DEF RefundsOf
<1>5. ASSUME NEW f, NEW g,
             \A x \in RefundIds : f[x] \in Nat /\ g[x] \in Nat,
             \A x \in RefundIds \ {r} : g[x] = f[x]
      PROVE  /\ \A q \in Payments \ {p} :
                  SumFunctionOnSet(g, RefundsOf(new, q)) = SumFunctionOnSet(f, RefundsOf(rows, q))
             /\ SumFunctionOnSet(g, RefundsOf(new, p)) =
                  SumFunctionOnSet(f, RefundsOf(rows, p)) + g[r]
  <2>1. ASSUME NEW q \in Payments
        PROVE  /\ IsFiniteSet(RefundsOf(rows, q))
               /\ \A x \in RefundsOf(rows, q) : x # r /\ f[x] \in Nat /\ g[x] = f[x]
    <3>1. \A x \in RefundsOf(rows, q) : x \in RefundIds /\ x # r
      BY RevenueAssumption DEF RefundsOf
    <3> QED BY <1>5, <3>1, RefundSums
  <2>2. ASSUME NEW q \in Payments
        PROVE  SumFunctionOnSet(g, RefundsOf(rows, q)) = SumFunctionOnSet(f, RefundsOf(rows, q))
    BY <2>1, SumSame
  <2>3. SumFunctionOnSet(g, RefundsOf(rows, p) \cup {r}) = SumFunctionOnSet(f, RefundsOf(rows, p)) + g[r]
    BY <1>4, <1>5, <2>1, SumAdded
  <2> QED BY <1>4, <2>2, <2>3
<1>6. /\ \A q \in Payments \ {p} : Refunded(new, q) = Refunded(rows, q)
      /\ Refunded(new, p) = Refunded(rows, p) + new[r].amount
  <2> DEFINE f == Amount(rows)
             g == Amount(new)
  <2>1. /\ \A x \in RefundIds : f[x] \in Nat /\ g[x] \in Nat
        /\ \A x \in RefundIds \ {r} : g[x] = f[x]
        /\ g[r] = new[r].amount
    BY <1>1, <1>3, RefundSums DEF Amount
  <2> HIDE DEF f, g
  <2>2. /\ \A q \in Payments \ {p} :
             SumFunctionOnSet(g, RefundsOf(new, q)) = SumFunctionOnSet(f, RefundsOf(rows, q))
        /\ SumFunctionOnSet(g, RefundsOf(new, p)) = SumFunctionOnSet(f, RefundsOf(rows, p)) + g[r]
    BY <1>5, <2>1
  <2> QED BY <2>1, <2>2 DEF Refunded, f, g
<1>7. /\ \A q \in Payments \ {p} : TakenBack(new, q) = TakenBack(rows, q)
      /\ TakenBack(new, p) = TakenBack(rows, p) + new[r].taken
  <2> DEFINE f == [x \in RefundIds |-> rows[x].taken]
             g == [x \in RefundIds |-> new[x].taken]
  <2>1. /\ \A x \in RefundIds : f[x] \in Nat /\ g[x] \in Nat
        /\ \A x \in RefundIds \ {r} : g[x] = f[x]
        /\ g[r] = new[r].taken
    BY <1>1, <1>3, RefundSums
  <2> HIDE DEF f, g
  <2>2. /\ \A q \in Payments \ {p} :
             SumFunctionOnSet(g, RefundsOf(new, q)) = SumFunctionOnSet(f, RefundsOf(rows, q))
        /\ SumFunctionOnSet(g, RefundsOf(new, p)) = SumFunctionOnSet(f, RefundsOf(rows, p)) + g[r]
    BY <1>5, <2>1
  <2> QED BY <2>1, <2>2 DEF TakenBack, f, g
<1> QED BY <1>1, <1>2, <1>3, <1>6, <1>7

\* The larger and the smaller of two integers.
LEMMA MaxOfTwo ==
  ASSUME NEW a \in Int, NEW b \in Int
  PROVE  /\ Max({a, b}) = IF a >= b THEN a ELSE b
         /\ Min({a, b}) = IF a <= b THEN a ELSE b
<1>1. \E x \in {a, b} : \A y \in {a, b} : x >= y
  OBVIOUS
<1>2. \E x \in {a, b} : \A y \in {a, b} : x <= y
  OBVIOUS
<1>3. Max({a, b}) \in {a, b} /\ Max({a, b}) >= a /\ Max({a, b}) >= b
  BY <1>1 DEF Max
<1>4. Min({a, b}) \in {a, b} /\ Min({a, b}) <= a /\ Min({a, b}) <= b
  BY <1>2 DEF Min
<1> QED BY <1>3, <1>4

\* The target of the newest refund is the share of all refunds so far: the
\* ones whose entry was written before are among them.
LEMMA TargetOfAll ==
  ASSUME NEW rows \in [RefundIds -> RefundRow], IsFiniteSet(Recorded(rows)),
         NEW p \in Payments, payment[p] \in Nat, Refunded(rows, p) <= payment[p],
         NEW r \in RefundsOf(rows, p), rows[r].kind = "none"
  PROVE  CumulativeTarget(rows, p, r) =
            RoundHalfUp(Refunded(rows, p) * earned[p].amount, payment[p])
<1> DEFINE before == {q \in RefundsOf(rows, p) : rows[q].kind # "none"}
           prior == SumFunctionOnSet(Amount(rows), before)
           rest == SumFunctionOnSet(Amount(rows), RefundsOf(rows, p) \ {r})
<1>1. /\ IsFiniteSet(RefundsOf(rows, p))
      /\ \A x \in RefundsOf(rows, p) : Amount(rows)[x] \in Nat
      /\ Refunded(rows, p) \in Nat
      /\ Amount(rows)[r] = rows[r].amount
  BY RefundSums DEF Amount, RefundsOf
<1>2. IsFiniteSet(RefundsOf(rows, p) \ {r}) /\ before \in SUBSET (RefundsOf(rows, p) \ {r})
  BY <1>1, FS_RemoveElement
<1>3. Refunded(rows, p) = Amount(rows)[r] + rest
  <2>1. \A x \in RefundsOf(rows, p) : Amount(rows)[x] \in Int
    BY <1>1
  <2> QED BY <1>1, <2>1, SumRemove DEF Refunded
<1>4. prior <= rest
  BY <1>1, <1>2, SumSubset
<1>5. prior \in Nat /\ rest \in Nat
  <2>1. IsFiniteSet(before)
    BY <1>2, FS_Subset
  <2> QED BY <1>1, <1>2, <2>1, SumNat
<1> DEFINE sum == prior + rows[r].amount
<1>6. sum \in Int /\ sum <= Refunded(rows, p)
  BY <1>1, <1>3, <1>4, <1>5
<1> HIDE DEF sum
<1>7. Max({Refunded(rows, p), sum}) = Refunded(rows, p)
  BY <1>1, <1>6, MaxOfTwo
<1>8. Min({payment[p], Refunded(rows, p)}) = Refunded(rows, p)
  <2>1. \A a, b \in Nat : b <= a => Min({a, b}) = b
    BY MaxOfTwo
  <2> QED BY <1>1, <2>1
<1>9. Min({payment[p], Max({Refunded(rows, p), sum})}) = Refunded(rows, p)
  BY <1>7, <1>8
<1> QED BY <1>9 DEF CumulativeTarget, sum

\* The active disputes of a payment.
Active(p) == {d \in DisputeIds : dispute[d].of = p /\ dispute[d].status \in ActiveStatuses}

\* They are finitely many, and add up to a natural number.
LEMMA DisputedType ==
  ASSUME Rows, FiniteDisputes, NEW p
  PROVE  /\ IsFiniteSet(Active(p))
         /\ \A d \in DisputeIds : Amount(dispute)[d] \in Nat
         /\ Disputed(p) \in Nat
<1>1. Active(p) \subseteq {d \in DisputeIds : dispute[d].status # "none"}
  BY DEF Active, ActiveStatuses
<1>2. IsFiniteSet(Active(p))
  BY <1>1, FS_Subset DEF FiniteDisputes
<1>3. \A d \in DisputeIds : Amount(dispute)[d] \in Nat
  <2>1. Amounts \cup {0} \subseteq Nat
    BY RevenueAssumption
  <2> QED BY <2>1 DEF Rows, DisputeRow, Amount
<1>4. SumFunctionOnSet(Amount(dispute), Active(p)) \in Nat
  <2>1. \A d \in Active(p) : Amount(dispute)[d] \in Nat
    BY <1>3 DEF Active
  <2> QED BY <1>2, <2>1, SumNat
<1> QED BY <1>2, <1>3, <1>4 DEF Disputed, Active

\* A dispute that becomes active adds its amount to its payment's; one that
\* stays, leaves or was never active adds nothing.
LEMMA DisputeMoves ==
  ASSUME Rows, FiniteDisputes, NEW d \in DisputeIds, NEW p \in Payments,
         NEW new \in DisputeRow, new.of = p, dispute' = [dispute EXCEPT ![d] = new],
         dispute[d].status # "none" => dispute[d].of = p /\ dispute[d].amount = new.amount
  PROVE  /\ FiniteDisputes'
         /\ \A q \in Payments \ {p} : Disputed(q)' = Disputed(q)
         /\ Disputed(p)' \in Nat
         /\ Disputed(p)' <= IF new.status \in ActiveStatuses /\ dispute[d].status \notin ActiveStatuses
                            THEN Disputed(p) + new.amount ELSE Disputed(p)
<1>1. /\ dispute'[d] = new /\ \A o \in DisputeIds \ {d} : dispute'[o] = dispute[o]
      /\ dispute' \in [DisputeIds -> DisputeRow]
  BY DEF Rows
<1>2. FiniteDisputes'
  <2>1. {o \in DisputeIds : dispute'[o].status # "none"} \subseteq
           {o \in DisputeIds : dispute[o].status # "none"} \cup {d}
    BY <1>1
  <2>2. IsFiniteSet({o \in DisputeIds : dispute[o].status # "none"} \cup {d})
    BY FS_AddElement DEF FiniteDisputes
  <2>3. IsFiniteSet({o \in DisputeIds : dispute'[o].status # "none"})
    BY <2>1, <2>2, FS_Subset
  <2> QED BY <2>3 DEF FiniteDisputes
<1> DEFINE f == Amount(dispute)
           g == Amount(dispute')
<1>3. /\ \A o \in DisputeIds : f[o] \in Nat /\ g[o] \in Nat
      /\ \A o \in DisputeIds \ {d} : g[o] = f[o]
      /\ g[d] = new.amount /\ (dispute[d].status # "none" => g[d] = f[d])
  <2>1. Amounts \cup {0} \subseteq Nat
    BY RevenueAssumption
  <2>2. \A o \in DisputeIds : dispute[o].amount \in Nat /\ dispute'[o].amount \in Nat
    BY <1>1, <2>1 DEF Rows, DisputeRow
  <2> QED BY <1>1, <2>2 DEF Amount, Rows
<1>4. ASSUME NEW q
      PROVE  /\ Active(q)' = {o \in DisputeIds : dispute'[o].of = q /\ dispute'[o].status \in ActiveStatuses}
             /\ Disputed(q)' = SumFunctionOnSet(g, Active(q)')
             /\ Disputed(q) = SumFunctionOnSet(f, Active(q))
             /\ IsFiniteSet(Active(q)) /\ Active(q) \subseteq DisputeIds
             /\ d \in Active(q) => dispute[d].status # "none" /\ dispute[d].status \in ActiveStatuses
  BY DisputedType DEF Active, Disputed, ActiveStatuses
<1> HIDE DEF f, g
<1>5. ASSUME NEW q \in Payments, d \notin Active(q) \/ dispute[d].status # "none"
      PROVE  SumFunctionOnSet(g, Active(q)) = Disputed(q)
  <2>1. IsFiniteSet(Active(q)) /\ \A o \in Active(q) : g[o] = f[o]
    BY <1>3, <1>4, <1>5
  <2>2. SumFunctionOnSet(g, Active(q)) = SumFunctionOnSet(f, Active(q))
    BY <2>1, SumSame
  <2> QED BY <2>2, <1>4
<1>6. ASSUME NEW q \in Payments PROVE SumFunctionOnSet(g, Active(q)) = Disputed(q)
  BY <1>4, <1>5
<1>7. ASSUME NEW q \in Payments \ {p} PROVE Disputed(q)' = Disputed(q)
  <2>1. d \notin Active(q)
    BY <1>4 DEF Active
  <2>2. Active(q)' = Active(q)
    BY <1>1, <1>4, <2>1 DEF Active
  <2> QED BY <1>4, <1>6, <2>2
<1>8. Disputed(p) \in Nat /\ new.amount \in Nat /\ Disputed(p)' \in Nat
  <2>1. Disputed(p) \in Nat
    BY DisputedType
  <2>2. IsFiniteSet(Active(p)') /\ \A o \in Active(p)' : g[o] \in Nat
    <3>1. Active(p)' \subseteq {o \in DisputeIds : dispute'[o].status # "none"}
      BY <1>4 DEF ActiveStatuses
    <3>2. IsFiniteSet({o \in DisputeIds : dispute'[o].status # "none"})
      BY <1>2 DEF FiniteDisputes
    <3> QED BY <1>3, <3>1, <3>2, FS_Subset
  <2>3. SumFunctionOnSet(g, Active(p)') \in Nat
    BY <2>2, SumNat
  <2> QED BY <1>3, <1>4, <2>1, <2>3
<1>9. CASE new.status \in ActiveStatuses /\ dispute[d].status \notin ActiveStatuses
  <2>1. d \notin Active(p) /\ Active(p)' = Active(p) \cup {d}
    BY <1>1, <1>4, <1>9 DEF Active
  <2>2. /\ IsFiniteSet(Active(p))
        /\ \A o \in Active(p) : g[o] = f[o] /\ f[o] \in Nat
        /\ g[d] \in Nat
    BY <1>3, <1>4, <2>1
  <2>3. SumFunctionOnSet(g, Active(p) \cup {d}) = SumFunctionOnSet(f, Active(p)) + g[d]
    BY <2>1, <2>2, SumAdded
  <2>4. Disputed(p)' = Disputed(p) + new.amount
    BY <1>3, <1>4, <2>1, <2>3
  <2> QED BY <1>2, <1>7, <1>8, <1>9, <2>4
<1>10. CASE ~(new.status \in ActiveStatuses /\ dispute[d].status \notin ActiveStatuses)
  <2>1. Active(p)' \subseteq Active(p)
    <3>1. dispute[d].status \in ActiveStatuses => dispute[d].of = p
      BY DEF ActiveStatuses
    <3> QED BY <1>1, <1>4, <1>10, <3>1 DEF Active
  <2>2. IsFiniteSet(Active(p)) /\ \A o \in Active(p) : g[o] \in Nat
    BY <1>3, <1>4
  <2>3. SumFunctionOnSet(g, Active(p)') <= SumFunctionOnSet(g, Active(p))
    BY <2>1, <2>2, SumSubset
  <2> QED BY <1>2, <1>4, <1>6, <1>7, <1>8, <1>10, <2>3
<1> QED BY <1>2, <1>7, <1>8, <1>9, <1>10

\* Rows stay balanced when payments are added, entries change their status
\* and disputes free money, or hold no more of it than the balance.
LEMMA BalanceKept ==
  ASSUME NEW rows, NEW paid, NEW entries, NEW disputed, Balanced(rows, paid, entries, disputed),
         NEW paid2, NEW entries2, NEW disputed2,
         \A p \in Payments : /\ paid[p] \in Nat /\ paid2[p] \in Nat
                             /\ disputed[p] \in Nat /\ disputed2[p] \in Nat,
         \A p \in Payments : \/ /\ paid2[p] = paid[p]
                                /\ entries2[p].status # "none" => /\ entries[p].status # "none"
                                                                  /\ entries2[p].amount = entries[p].amount
                             \/ paid[p] = 0 /\ paid2[p] # 0 /\ entries2[p].amount \in Nat,
         \A p \in Payments : \/ disputed2[p] <= disputed[p]
                             \/ Refunded(rows, p) + disputed2[p] <= paid2[p]
  PROVE  Balanced(rows, paid2, entries2, disputed2)
<1>1. rows \in [RefundIds -> RefundRow] /\ IsFiniteSet(Recorded(rows))
  BY DEF Balanced
<1>2. ASSUME NEW r \in Recorded(rows) PROVE paid2[rows[r].of] # 0
  <2>1. rows[r].of \in Payments
    BY <1>1 DEF Recorded, RefundRow
  <2> QED BY <2>1 DEF Balanced
<1>3. ASSUME NEW p \in Payments
      PROVE  /\ Refunded(rows, p) + disputed2[p] <= paid2[p]
             /\ entries2[p].status # "none" =>
                   TakenBack(rows, p) = RoundHalfUp(Refunded(rows, p) * entries2[p].amount, paid2[p])
  <2>1. Refunded(rows, p) \in Nat /\ TakenBack(rows, p) \in Nat
    BY <1>1, RefundSums
  <2>2. CASE /\ paid2[p] = paid[p]
             /\ entries2[p].status # "none" => /\ entries[p].status # "none"
                                               /\ entries2[p].amount = entries[p].amount
    <3>1. Refunded(rows, p) + disputed2[p] <= paid2[p]
      BY <2>1, <2>2 DEF Balanced
    <3>2. entries2[p].status # "none" =>
             TakenBack(rows, p) = RoundHalfUp(Refunded(rows, p) * entries2[p].amount, paid2[p])
      BY <2>2 DEF Balanced
    <3> QED BY <3>1, <3>2
  <2>3. CASE paid[p] = 0 /\ paid2[p] # 0 /\ entries2[p].amount \in Nat
    <3>1. RefundsOf(rows, p) = {}
      BY <2>3, RevenueAssumption DEF Balanced, RefundsOf, Recorded
    <3>2. Refunded(rows, p) = 0 /\ TakenBack(rows, p) = 0
      BY <3>1, SumEmpty DEF Refunded, TakenBack
    <3>3. Refunded(rows, p) + disputed2[p] <= paid2[p]
      <4>1. disputed[p] = 0
        BY <2>1, <2>3 DEF Balanced
      <4> QED BY <2>3, <3>2, <4>1
    <3>4. 0 * entries2[p].amount = 0 /\ RoundHalfUp(0, paid2[p]) = 0
      BY <2>3, RoundHalfUpZero
    <3> QED BY <3>2, <3>3, <3>4
  <2> QED BY <2>2, <2>3
<1> QED BY <1>1, <1>2, <1>3 DEF Balanced

\* What the balance lemmas read of the rows, in numbers.
LEMMA Numbers ==
  ASSUME Rows, FiniteDisputes
  PROVE  \A p \in Payments : /\ payment[p] \in Nat /\ earned[p].amount \in Nat
                             /\ DisputedAmounts[p] = Disputed(p) /\ Disputed(p) \in Nat
<1>1. Amounts \cup {0} \subseteq Nat /\ Commissions \cup {0} \subseteq Nat
  BY RevenueAssumption
<1> QED BY <1>1, DisputedType DEF Rows, EarnedRow, DisputedAmounts

\* A refund that is recorded within the balance, with the entry it leaves,
\* keeps the rows of its transaction balanced: the entry makes up for what the
\* refunds so far have to take back.
LEMMA RecordedBalanced ==
  ASSUME Rows, FiniteDisputes, EntryHasPayment,
         NEW rows, Balanced(rows, payment, earned, DisputedAmounts),
         NEW p \in Payments, payment[p] # 0,
         NEW r \in RefundIds, rows[r] = NoRefund,
         NEW recorded \in [RefundIds -> RefundRow],
         \A q \in RefundIds \ {r} : recorded[q] = rows[q],
         recorded[r].of = p, recorded[r].kind = "none", recorded[r].taken = 0,
         WithinBalance(recorded, p, 0)
  PROVE  Balanced(WithEntry(recorded, p, r), payment, earned, DisputedAmounts)
<1> DEFINE amount == recorded[r].amount
<1>1. rows[r].of = None /\ amount \in Nat
  <2>1. Amounts \cup {0} \subseteq Nat
    BY RevenueAssumption
  <2> QED BY <2>1 DEF NoRefund, RefundRow
<1>2. rows \in [RefundIds -> RefundRow] /\ IsFiniteSet(Recorded(rows))
  BY DEF Balanced
<1>3. /\ payment[p] \in Nat \ {0} /\ earned[p].amount \in Nat /\ Disputed(p) \in Nat
      /\ \A q \in Payments : DisputedAmounts[q] = Disputed(q)
  BY Numbers
<1>4. /\ IsFiniteSet(Recorded(recorded))
      /\ Refunded(recorded, p) = Refunded(rows, p) + amount
      /\ TakenBack(recorded, p) = TakenBack(rows, p)
  <2>1. /\ IsFiniteSet(Recorded(recorded))
        /\ Refunded(recorded, p) = Refunded(rows, p) + recorded[r].amount
        /\ TakenBack(recorded, p) = TakenBack(rows, p) + recorded[r].taken
    BY <1>1, <1>2, RowAdded
  <2>2. TakenBack(rows, p) \in Nat
    BY <1>2, RefundSums
  <2> QED BY <2>1, <2>2
<1>5. /\ Refunded(rows, p) \in Nat /\ TakenBack(rows, p) \in Nat /\ Refunded(recorded, p) \in Nat
      /\ Refunded(recorded, p) + Disputed(p) <= payment[p]
      /\ Refunded(recorded, p) <= payment[p]
  <2>1. Refunded(rows, p) \in Nat /\ TakenBack(rows, p) \in Nat /\ Refunded(recorded, p) \in Nat
    BY <1>2, <1>4, RefundSums
  <2> QED BY <1>3, <2>1 DEF WithinBalance
<1> DEFINE target == CumulativeTarget(recorded, p, r)
           before == TakenBack(recorded, p)
           taken == Max({0, target - before})
<1>6. target = RoundHalfUp(Refunded(recorded, p) * earned[p].amount, payment[p])
  <2>1. r \in RefundsOf(recorded, p) /\ recorded[r].kind = "none"
    BY <1>1, <1>4 DEF RefundsOf
  <2> QED BY <1>3, <1>4, <1>5, <2>1, TargetOfAll
<1>7. target \in Nat /\ before \in Nat /\ (earned[p].status # "none" => before <= target)
  <2>1. /\ Refunded(rows, p) * earned[p].amount \in Nat
        /\ Refunded(recorded, p) * earned[p].amount \in Nat
        /\ Refunded(rows, p) * earned[p].amount <= Refunded(recorded, p) * earned[p].amount
    <3>1. amount * earned[p].amount \in Nat
      BY <1>1, <1>3
    <3>2. (Refunded(rows, p) + amount) * earned[p].amount =
             Refunded(rows, p) * earned[p].amount + amount * earned[p].amount
      BY <1>1, <1>3, <1>5
    <3> QED BY <1>3, <1>4, <1>5, <3>1, <3>2
  <2>2. target \in Nat
    BY <1>3, <1>6, <2>1, RoundHalfUpType
  <2>3. earned[p].status # "none" => before = RoundHalfUp(Refunded(rows, p) * earned[p].amount, payment[p])
    BY <1>4 DEF Balanced
  <2> HIDE DEF target, before
  <2>4. RoundHalfUp(Refunded(rows, p) * earned[p].amount, payment[p]) <= target
    BY <1>3, <1>6, <2>1, RoundHalfUpMonotone
  <2>5. before \in Nat
    BY <1>4, <1>5 DEF before
  <2> QED BY <2>2, <2>3, <2>4, <2>5
<1>8. taken \in Nat /\ (earned[p].status # "none" => before + taken = target)
  <2> HIDE DEF target, before
  <2>1. target - before \in Int
    BY <1>7
  <2>2. Max({0, target - before}) = IF 0 >= target - before THEN 0 ELSE target - before
    BY <2>1, MaxOfTwo
  <2> QED BY <1>7, <2>2
<1> DEFINE new == WithEntry(recorded, p, r)
<1>9. PICK full \in RefundRow :
         /\ new = [rows EXCEPT ![r] = full]
         /\ full.of = p /\ full.amount = amount
         /\ earned[p].status # "none" => full.taken = taken
  <2> HIDE DEF taken
  <2>1. CASE earned[p].status = "none" \/ taken = 0
    <3>1. new = recorded
      BY <2>1 DEF WithEntry, taken, target, before
    <3>2. new = [rows EXCEPT ![r] = recorded[r]]
      BY <1>2, <3>1
    <3> QED BY <1>8, <2>1, <3>2
  <2>2. CASE ~(earned[p].status = "none" \/ taken = 0)
    <3> DEFINE kind == IF earned[p].status = "paid" THEN "recovery_debt" ELSE "refund_reversal"
               full == [recorded[r] EXCEPT !.taken = taken, !.kind = kind]
    <3>1. new = [recorded EXCEPT ![r].taken = taken, ![r].kind = kind]
      BY <2>2 DEF WithEntry, taken, target, before
    <3> HIDE DEF kind
    <3>2. new = [recorded EXCEPT ![r] = full]
      BY <1>4, <3>1
    <3>3. new = [rows EXCEPT ![r] = full]
      BY <1>2, <1>4, <3>2
    <3>4. kind \in {"none", "refund_reversal", "recovery_debt"}
      BY DEF kind
    <3>5. full \in RefundRow /\ full.of = p /\ full.amount = amount /\ full.taken = taken
      BY <1>8, <3>4 DEF RefundRow
    <3> HIDE DEF full
    <3> QED BY <3>3, <3>5
  <2> QED BY <2>1, <2>2
<1> HIDE DEF new, taken, target, before
<1>a. /\ new \in [RefundIds -> RefundRow]
      /\ new[r] = full /\ \A q \in RefundIds \ {r} : new[q] = rows[q]
  BY <1>2, <1>9
<1>10. /\ Recorded(new) = Recorded(rows) \cup {r} /\ IsFiniteSet(Recorded(new))
       /\ Refunded(new, p) = Refunded(rows, p) + new[r].amount
       /\ TakenBack(new, p) = TakenBack(rows, p) + new[r].taken
       /\ \A q \in Payments \ {p} : /\ Refunded(new, q) = Refunded(rows, q)
                                    /\ TakenBack(new, q) = TakenBack(rows, q)
  <2>1. new[r].of = p
    BY <1>9, <1>a
  <2> QED BY <1>1, <1>2, <1>a, <2>1, RowAdded
<1>11. \A x \in Recorded(new) : payment[new[x].of] # 0
  BY <1>9, <1>a, <1>10 DEF Balanced, Recorded
<1>12. ASSUME NEW q \in Payments
       PROVE  /\ Refunded(new, q) + DisputedAmounts[q] <= payment[q]
              /\ earned[q].status # "none" =>
                    TakenBack(new, q) = RoundHalfUp(Refunded(new, q) * earned[q].amount, payment[q])
  <2>1. CASE q # p
    <3>1. Refunded(new, q) = Refunded(rows, q) /\ TakenBack(new, q) = TakenBack(rows, q)
      BY <1>10, <2>1
    <3>2. /\ Refunded(rows, q) + DisputedAmounts[q] <= payment[q]
          /\ earned[q].status # "none" =>
                TakenBack(rows, q) = RoundHalfUp(Refunded(rows, q) * earned[q].amount, payment[q])
      BY DEF Balanced
    <3> QED BY <3>1, <3>2
  <2>2. CASE q = p
    <3>1. Refunded(new, p) = Refunded(recorded, p)
      BY <1>4, <1>9, <1>a, <1>10
    <3>2. earned[p].status # "none" => TakenBack(new, p) = target
      BY <1>4, <1>8, <1>9, <1>a, <1>10 DEF before
    <3> QED BY <1>3, <1>5, <1>6, <2>2, <3>1, <3>2
  <2> QED BY <2>1, <2>2
<1> QED BY <1>a, <1>10, <1>11, <1>12 DEF Balanced, new

\* Rows that are balanced stay so, and the open transaction with them, when a
\* step leaves refunds and the transaction alone.
LEMMA CarriedOver ==
  ASSUME BalanceInv, DisputeInv', FiniteDisputes', EntryHasPayment', UNCHANGED <<refund, tx>>,
         \A p \in Payments : \/ /\ payment'[p] = payment[p]
                                /\ earned'[p].status # "none" => /\ earned[p].status # "none"
                                                                 /\ earned'[p].amount = earned[p].amount
                             \/ payment[p] = 0 /\ payment'[p] # 0,
         \A p \in Payments : DisputedAmounts'[p] \in Nat /\ earned'[p].amount \in Nat /\ payment'[p] \in Nat,
         \A p \in Payments : \/ DisputedAmounts'[p] <= DisputedAmounts[p]
                             \/ tx = Unlocked /\ Refunded(refund, p) + DisputedAmounts'[p] <= payment'[p]
  PROVE  BalanceInv'
<1>1. \A p \in Payments : payment[p] \in Nat /\ DisputedAmounts[p] \in Nat
  <2>1. Rows /\ FiniteDisputes
    BY DEF BalanceInv, DisputeInv
  <2> QED BY <2>1, Numbers
<1>2. Balanced(refund, payment', earned', DisputedAmounts')
  <2>1. Balanced(refund, payment, earned, DisputedAmounts)
    BY DEF BalanceInv
  <2> QED BY <1>1, <2>1, BalanceKept
<1>3. tx = Unlocked \/ Balanced(tx.rows, payment', earned', DisputedAmounts')
  <2>1. CASE tx # Unlocked
    <3>1. Balanced(tx.rows, payment, earned, DisputedAmounts)
      BY <2>1 DEF BalanceInv, OpenTransaction
    <3>2. \A p \in Payments : \/ DisputedAmounts'[p] <= DisputedAmounts[p]
                              \/ Refunded(tx.rows, p) + DisputedAmounts'[p] <= payment'[p]
      BY <2>1
    <3> QED BY <1>1, <3>1, <3>2, BalanceKept
  <2> QED BY <2>1
<1>4. tx' = Unlocked \/ OpenTransaction'
  <2>1. CASE tx # Unlocked
    <3>1. OpenTransaction
      BY <2>1 DEF BalanceInv
    <3>2. payment'[tx.of] # 0
      BY <3>1 DEF OpenTransaction
    <3> QED BY <1>3, <2>1, <3>1, <3>2 DEF OpenTransaction
  <2> QED BY <2>1
<1> QED BY <1>2, <1>4 DEF BalanceInv

\* A new payment: nothing is refunded of it, nor disputed.
LEMMA PaymentBalance ==
  ASSUME BalanceInv, NEW p \in Payments, NEW amount \in Amounts, NEW commission \in Commissions,
         NEW flagged \in BOOLEAN, reportPayment(p, amount, commission, flagged)
  PROVE  BalanceInv'
<1>1. DisputeInv'
  BY PaymentStep DEF BalanceInv
<1>2. /\ payment[p] = 0 /\ payment' = [payment EXCEPT ![p] = amount]
      /\ UNCHANGED <<refund, dispute, tx>>
      /\ \A q \in Payments \ {p} : earned'[q] = earned[q]
  BY DEF reportPayment, BalanceInv, DisputeInv, Rows
<1>3. /\ payment'[p] # 0 /\ \A q \in Payments \ {p} : payment'[q] = payment[q]
  BY <1>2, RevenueAssumption DEF BalanceInv, DisputeInv, Rows
<1>4. DisputedAmounts' = DisputedAmounts /\ FiniteDisputes'
  BY <1>2 DEF BalanceInv, DisputedAmounts, Disputed, FiniteDisputes
<1>5. EntryHasPayment'
  BY <1>2, <1>3 DEF BalanceInv, EntryHasPayment
<1>6. \A q \in Payments : DisputedAmounts[q] \in Nat
  BY Numbers DEF BalanceInv, DisputeInv
<1>7. \A q \in Payments : earned'[q].amount \in Nat /\ payment'[q] \in Nat
  <2>1. Amounts \cup {0} \subseteq Nat /\ Commissions \cup {0} \subseteq Nat
    BY RevenueAssumption
  <2> QED BY <1>1, <2>1 DEF DisputeInv, Rows, EarnedRow
<1>8. \A q \in Payments : DisputedAmounts'[q] \in Nat /\ DisputedAmounts'[q] <= DisputedAmounts[q]
  BY <1>4, <1>6
<1> QED BY <1>1, <1>2, <1>3, <1>4, <1>5, <1>7, <1>8, CarriedOver

\* Reviews and payouts change the status of an entry.
LEMMA SetEarnedBalance ==
  ASSUME BalanceInv, NEW p \in Payments, NEW from, NEW to,
         to \in {"approved", "rejected", "paid"}, "none" \notin from, SetEarned(p, from, to)
  PROVE  BalanceInv'
<1>1. DisputeInv'
  BY SetEarnedStep DEF BalanceInv
<1>2. /\ earned[p].status # "none" /\ earned' = [earned EXCEPT ![p].status = to]
      /\ UNCHANGED <<payment, refund, dispute, tx>>
  BY DEF SetEarned
<1>3. \A q \in Payments : /\ earned'[q].amount = earned[q].amount
                          /\ (earned'[q].status = "none") <=> (earned[q].status = "none")
  BY <1>2, StatusChange DEF BalanceInv, DisputeInv
<1>4. DisputedAmounts' = DisputedAmounts /\ FiniteDisputes'
  BY <1>2 DEF BalanceInv, DisputedAmounts, Disputed, FiniteDisputes
<1>5. EntryHasPayment'
  BY <1>2, <1>3 DEF BalanceInv, EntryHasPayment
<1>6. \A q \in Payments : /\ DisputedAmounts[q] \in Nat
                          /\ earned[q].amount \in Nat /\ payment[q] \in Nat
  BY Numbers DEF BalanceInv, DisputeInv
<1>7. \A q \in Payments : DisputedAmounts'[q] \in Nat /\ DisputedAmounts'[q] <= DisputedAmounts[q]
  BY <1>4, <1>6
<1> QED BY <1>1, <1>2, <1>3, <1>4, <1>5, <1>6, <1>7, CarriedOver

\* A dispute that is opened or moves on: one that becomes active fits in the
\* balance, every other one holds no more than before.
LEMMA OutcomeBalance ==
  ASSUME BalanceInv, DisputeInv', NEW d \in DisputeIds, NEW p \in Payments, NEW row \in DisputeRow,
         row.of = p, payment[p] # 0, CommissionOutcome(d, p, row),
         UNCHANGED <<payment, refund, tx>>, tx = Unlocked,
         dispute[d].status # "none" => dispute[d].of = p /\ dispute[d].amount = row.amount,
         row.status \in ActiveStatuses /\ dispute[d].status \notin ActiveStatuses =>
            WithinBalance(refund, p, row.amount)
  PROVE  BalanceInv'
<1>0. DisputeInv /\ Rows /\ FiniteDisputes
  BY DEF BalanceInv, DisputeInv
<1>1. PICK new \in DisputeRow :
            /\ dispute' = [dispute EXCEPT ![d] = new]
            /\ new.of = p /\ new.amount = row.amount /\ new.status = row.status
  BY <1>0, OutcomeRow
<1>2. \A q \in Payments : /\ earned'[q].amount = earned[q].amount
                          /\ (earned'[q].status = "none") <=> (earned[q].status = "none")
  BY <1>0, OutcomeHold
<1>3. /\ FiniteDisputes'
      /\ \A q \in Payments \ {p} : Disputed(q)' = Disputed(q)
      /\ Disputed(p)' \in Nat
      /\ Disputed(p)' <= IF new.status \in ActiveStatuses /\ dispute[d].status \notin ActiveStatuses
                         THEN Disputed(p) + new.amount ELSE Disputed(p)
  BY <1>0, <1>1, DisputeMoves
<1>4. EntryHasPayment'
  BY <1>2 DEF BalanceInv, EntryHasPayment
<1>5. \A q \in Payments : /\ payment[q] \in Nat /\ earned[q].amount \in Nat
                          /\ DisputedAmounts[q] = Disputed(q) /\ Disputed(q) \in Nat
                          /\ DisputedAmounts'[q] = Disputed(q)'
  BY <1>0, Numbers DEF DisputedAmounts
<1>6. \A q \in Payments : DisputedAmounts'[q] \in Nat
  BY <1>3, <1>5
<1>7. ASSUME NEW q \in Payments
      PROVE  \/ DisputedAmounts'[q] <= DisputedAmounts[q]
             \/ tx = Unlocked /\ Refunded(refund, q) + DisputedAmounts'[q] <= payment'[q]
  <2>1. CASE q # p
    BY <1>3, <1>5, <2>1
  <2>2. CASE q = p /\ ~(new.status \in ActiveStatuses /\ dispute[d].status \notin ActiveStatuses)
    BY <1>3, <1>5, <2>2
  <2>3. CASE q = p /\ new.status \in ActiveStatuses /\ dispute[d].status \notin ActiveStatuses
    <3>1. Refunded(refund, p) + Disputed(p) + new.amount <= payment[p]
      BY <1>1, <2>3 DEF WithinBalance
    <3>2. Refunded(refund, p) \in Nat
      BY RefundSums DEF BalanceInv, Balanced
    <3>3. new.amount \in Nat
      <4>1. Amounts \cup {0} \subseteq Nat
        BY RevenueAssumption
      <4> QED BY <4>1 DEF DisputeRow
    <3> QED BY <1>3, <1>5, <2>3, <3>1, <3>2, <3>3
  <2> QED BY <2>1, <2>2, <2>3
<1> QED BY <1>2, <1>3, <1>4, <1>5, <1>6, <1>7, CarriedOver

\* The first report of a dispute.
LEMMA OpenBalance ==
  ASSUME BalanceInv, NEW d \in DisputeIds, NEW p \in Payments, NEW amount \in Amounts,
         NEW status \in Terminal \cup {"opened"}, openDispute(d, p, amount, status)
  PROVE  BalanceInv'
<1> DEFINE row == [NoDispute EXCEPT !.of = p, !.amount = amount, !.status = status]
<1>1. row \in DisputeRow /\ row.of = p /\ row.amount = amount /\ row.status = status
  <2>1. NoDispute \in DisputeRow
    BY DEF NoDispute, DisputeRow
  <2>2. ASSUME NEW x \in DisputeRow
        PROVE  LET y == [x EXCEPT !.of = p, !.amount = amount, !.status = status]
               IN  y \in DisputeRow /\ y.of = p /\ y.amount = amount /\ y.status = status
    BY DEF DisputeRow
  <2> QED BY <2>1, <2>2
<1>2. /\ tx = Unlocked /\ UNCHANGED <<payment, refund, tx>> /\ CommissionOutcome(d, p, row)
      /\ dispute[d].status = "none"
      /\ status \in ActiveStatuses => WithinBalance(refund, p, amount)
  BY DEF openDispute, NoDispute, ActiveStatuses
<1>3. payment[p] # 0
  <2>1. payment[p] > 0 /\ payment[p] \in Nat
    BY Numbers DEF openDispute, BalanceInv, DisputeInv
  <2> QED BY <2>1
<1>4. DisputeInv'
  BY OpenStep DEF BalanceInv
<1> HIDE DEF row
<1> QED BY <1>1, <1>2, <1>3, <1>4, OutcomeBalance

\* A later report of a dispute.
LEMMA UpdateBalance ==
  ASSUME BalanceInv, NEW d \in DisputeIds, NEW status \in Terminal, updateDispute(d, status)
  PROVE  BalanceInv'
<1> DEFINE row == [dispute[d] EXCEPT !.status = status]
<1>1. /\ row \in DisputeRow /\ row.of = dispute[d].of
      /\ row.amount = dispute[d].amount /\ row.status = status
  BY DEF BalanceInv, DisputeInv, Rows, DisputeRow, Terminal
<1>2. /\ tx = Unlocked /\ UNCHANGED <<payment, refund, tx>> /\ CommissionOutcome(d, dispute[d].of, row)
      /\ dispute[d].status \in ActiveStatuses
  BY DEF updateDispute, Applies, ActiveStatuses
<1>3. dispute[d].of \in Payments /\ payment[dispute[d].of] # 0
  BY <1>2 DEF BalanceInv, DisputeInv, DisputeHasPayment, ActiveStatuses
<1>4. DisputeInv'
  BY UpdateStep DEF BalanceInv
<1> HIDE DEF row
<1> QED BY <1>1, <1>2, <1>3, <1>4, OutcomeBalance

\* A refund transaction begins with the committed rows.
LEMMA BeginBalance ==
  ASSUME BalanceInv, NEW p \in Payments, NEW S \in SUBSET RefundIds, NEW list \in [S -> Amounts],
         refundBegin(p, list)
  PROVE  BalanceInv'
<1>1. /\ tx' = [op |-> "refund", of |-> p, list |-> list, rows |-> refund]
      /\ UNCHANGED <<payment, earned, refund, dispute>>
      /\ payment[p] > 0
  BY DEF refundBegin
<1>2. DisputeInv'
  BY <1>1, UntouchedStep DEF BalanceInv
<1>3. /\ FiniteDisputes' /\ EntryHasPayment' /\ DisputedAmounts' = DisputedAmounts
  BY <1>1 DEF BalanceInv, FiniteDisputes, EntryHasPayment, DisputedAmounts, Disputed
<1>4. Balanced(refund, payment, earned, DisputedAmounts)
  BY DEF BalanceInv
<1>5. payment[p] # 0
  <2>1. payment[p] \in Nat
    BY Numbers DEF BalanceInv, DisputeInv
  <2> QED BY <1>1, <2>1
<1>6. OpenTransaction'
  BY <1>1, <1>3, <1>4, <1>5 DEF OpenTransaction
<1> QED BY <1>1, <1>2, <1>3, <1>4, <1>6 DEF BalanceInv

\* One refund of the transaction is recorded, or known already.
LEMMA RecordBalance ==
  ASSUME BalanceInv, NEW r \in RefundIds, refundRecord(r)
  PROVE  BalanceInv'
<1> DEFINE p == tx.of
           recorded == [tx.rows EXCEPT ![r] = [NoRefund EXCEPT !.of = p, !.amount = tx.list[r]]]
           rest == [q \in DOMAIN tx.list \ {r} |-> tx.list[q]]
<1>1. /\ r \in DOMAIN tx.list /\ UNCHANGED <<payment, earned, refund, dispute>>
      /\ \/ tx.rows[r] # NoRefund /\ tx' = [tx EXCEPT !.list = rest]
         \/ /\ tx.rows[r] = NoRefund /\ WithinBalance(recorded, p, 0)
            /\ tx' = [tx EXCEPT !.list = rest, !.rows = WithEntry(recorded, p, r)]
  BY DEF refundRecord
<1>2. OpenTransaction
  <2>1. tx # Unlocked
    BY DEF refundRecord, Unlocked
  <2> QED BY <2>1 DEF BalanceInv
<1>3. DisputeInv'
  BY <1>1, UntouchedStep DEF BalanceInv
<1>4. /\ FiniteDisputes' /\ EntryHasPayment' /\ DisputedAmounts' = DisputedAmounts
  BY <1>1 DEF BalanceInv, FiniteDisputes, EntryHasPayment, DisputedAmounts, Disputed
<1>5. PICK S \in SUBSET RefundIds : tx.list \in [S -> Amounts]
  BY <1>2 DEF OpenTransaction
<1>6. rest \in [S \ {r} -> Amounts] /\ tx.list[r] \in Amounts /\ S \ {r} \in SUBSET RefundIds
  BY <1>1, <1>5
<1>7. PICK rows : /\ tx' = [op |-> "refund", of |-> p, list |-> rest, rows |-> rows]
                  /\ Balanced(rows, payment, earned, DisputedAmounts)
  <2>1. /\ tx = [op |-> "refund", of |-> p, list |-> tx.list, rows |-> tx.rows]
        /\ p \in Payments /\ payment[p] # 0
        /\ Balanced(tx.rows, payment, earned, DisputedAmounts)
    BY <1>2 DEF OpenTransaction
  <2>2. CASE tx.rows[r] # NoRefund /\ tx' = [tx EXCEPT !.list = rest]
    <3> HIDE DEF rest, p
    <3>1. tx' = [op |-> "refund", of |-> p, list |-> rest, rows |-> tx.rows]
      BY <2>1, <2>2
    <3> QED BY <2>1, <3>1
  <2>3. CASE /\ tx.rows[r] = NoRefund /\ WithinBalance(recorded, p, 0)
             /\ tx' = [tx EXCEPT !.list = rest, !.rows = WithEntry(recorded, p, r)]
    <3>1. /\ recorded \in [RefundIds -> RefundRow]
          /\ \A q \in RefundIds \ {r} : recorded[q] = tx.rows[q]
          /\ recorded[r].of = p /\ recorded[r].kind = "none" /\ recorded[r].taken = 0
      <4>1. tx.rows \in [RefundIds -> RefundRow]
        BY <2>1 DEF Balanced
      <4>2. NoRefund \in RefundRow /\ NoRefund.kind = "none" /\ NoRefund.taken = 0
        BY DEF NoRefund, RefundRow
      <4>3. ASSUME NEW x \in RefundRow
            PROVE  LET y == [x EXCEPT !.of = p, !.amount = tx.list[r]]
                   IN  /\ y \in RefundRow /\ y.of = p
                       /\ y.kind = x.kind /\ y.taken = x.taken
        BY <1>6, <2>1 DEF RefundRow
      <4> DEFINE row == [NoRefund EXCEPT !.of = p, !.amount = tx.list[r]]
      <4>4. row \in RefundRow /\ row.of = p /\ row.kind = "none" /\ row.taken = 0
        BY <4>2, <4>3
      <4> HIDE DEF row
      <4>5. recorded = [tx.rows EXCEPT ![r] = row]
        BY DEF row
      <4> HIDE DEF recorded
      <4> QED BY <4>1, <4>4, <4>5
    <3>2. Rows /\ FiniteDisputes /\ EntryHasPayment
      BY DEF BalanceInv, DisputeInv
    <3> HIDE DEF recorded, p, rest
    <3>3. Balanced(WithEntry(recorded, p, r), payment, earned, DisputedAmounts)
      BY <2>1, <2>3, <3>1, <3>2, RecordedBalanced
    <3>4. tx' = [op |-> "refund", of |-> p, list |-> rest, rows |-> WithEntry(recorded, p, r)]
      <4> DEFINE kept == [tx EXCEPT !.list = rest]
                 new == WithEntry(recorded, p, r)
      <4>1. kept = [op |-> "refund", of |-> p, list |-> rest, rows |-> tx.rows]
        BY <2>1
      <4>2. tx' = [kept EXCEPT !.rows = new]
        BY <2>3
      <4> HIDE DEF kept, new
      <4>3. tx' = [op |-> "refund", of |-> p, list |-> rest, rows |-> new]
        BY <4>1, <4>2
      <4> QED BY <4>3 DEF new
    <3> QED BY <3>3, <3>4
  <2> QED BY <1>1, <2>2, <2>3
<1>8. OpenTransaction'
  <2> HIDE DEF rest
  <2>1. p \in Payments /\ payment[p] # 0
    BY <1>2 DEF OpenTransaction
  <2>2. /\ tx'.op = "refund" /\ tx'.of = p /\ tx'.list = rest /\ tx'.rows = rows
    BY <1>7
  <2> QED BY <1>1, <1>4, <1>6, <1>7, <2>1, <2>2 DEF OpenTransaction
<1> QED BY <1>1, <1>2, <1>3, <1>4, <1>8 DEF BalanceInv

\* The transaction ends: its rows are the new ones, or are dropped.
LEMMA EndBalance ==
  ASSUME BalanceInv, refundCommit \/ refundRollback
  PROVE  BalanceInv'
<1>1. /\ tx' = Unlocked /\ UNCHANGED <<payment, earned, dispute>> /\ tx # Unlocked
      /\ refund' \in {refund, tx.rows}
  BY DEF refundCommit, refundRollback, Unlocked
<1>2. DisputeInv'
  BY <1>1, UntouchedStep DEF BalanceInv
<1>3. /\ FiniteDisputes' /\ EntryHasPayment' /\ DisputedAmounts' = DisputedAmounts
  BY <1>1 DEF BalanceInv, FiniteDisputes, EntryHasPayment, DisputedAmounts, Disputed
<1>4. Balanced(refund', payment, earned, DisputedAmounts)
  BY <1>1 DEF BalanceInv, OpenTransaction
<1> QED BY <1>1, <1>2, <1>3, <1>4 DEF BalanceInv

\* Before the first report every sum is empty.
LEMMA BalanceInvInit == Init => BalanceInv
<1> SUFFICES ASSUME Init PROVE BalanceInv
  OBVIOUS
<1>1. DisputeInv
  BY DisputeInvInit
<1>2. FiniteDisputes
  <2>1. {d \in DisputeIds : dispute[d].status # "none"} = {}
    BY DEF Init, NoDispute
  <2> QED BY <2>1, FS_EmptySet DEF FiniteDisputes
<1>3. EntryHasPayment
  BY DEF Init, EntryHasPayment, NoEarned
<1>4. refund \in [RefundIds -> RefundRow] /\ Recorded(refund) = {}
  BY DEF Init, NoRefund, RefundRow, Recorded
<1>5. \A p \in Payments : RefundsOf(refund, p) = {} /\ payment[p] = 0 /\ earned[p].status = "none"
  BY RevenueAssumption DEF Init, NoRefund, RefundsOf, NoEarned
<1>6. \A p \in Payments : Refunded(refund, p) = 0
  BY <1>5, SumEmpty DEF Refunded
<1>7. \A p \in Payments : Disputed(p) = 0
  <2>1. \A p \in Payments : Active(p) = {}
    BY DEF Init, NoDispute, Active, ActiveStatuses
  <2>2. \A p \in Payments : Disputed(p) = SumFunctionOnSet(Amount(dispute), Active(p))
    BY DEF Disputed, Active
  <2> QED BY <2>1, <2>2, SumEmpty
<1>8. Balanced(refund, payment, earned, DisputedAmounts)
  BY <1>4, <1>5, <1>6, <1>7, FS_EmptySet DEF Balanced, DisputedAmounts
<1>9. tx = Unlocked
  BY DEF Init
<1> QED BY <1>1, <1>2, <1>3, <1>8, <1>9 DEF BalanceInv

\* Every step keeps the refunds balanced.
LEMMA BalanceInvStep == BalanceInv /\ [Next]_vars => BalanceInv'
<1> SUFFICES ASSUME BalanceInv, [Next]_vars PROVE BalanceInv'
  OBVIOUS
<1>1. CASE \E p \in Payments, amount \in Amounts, commission \in Commissions, flagged \in BOOLEAN :
             reportPayment(p, amount, commission, flagged)
  BY <1>1, PaymentBalance
<1>2. CASE \E p \in Payments : \/ releaseFlaggedCommission(p)
                               \/ rejectFlaggedCommission(p)
                               \/ markCommissionPaid(p)
  BY <1>2, SetEarnedBalance
     DEF releaseFlaggedCommission, rejectFlaggedCommission, markCommissionPaid
<1>3. CASE \E p \in Payments, S \in SUBSET RefundIds : \E list \in [S -> Amounts] :
             S # {} /\ refundBegin(p, list)
  BY <1>3, BeginBalance
<1>4. CASE \E r \in RefundIds : refundRecord(r)
  BY <1>4, RecordBalance
<1>5. CASE refundCommit \/ refundRollback
  BY <1>5, EndBalance
<1>6. CASE \E d \in DisputeIds, p \in Payments, amount \in Amounts, status \in Terminal \cup {"opened"} :
             openDispute(d, p, amount, status)
  BY <1>6, OpenBalance
<1>7. CASE \E d \in DisputeIds, status \in Terminal : updateDispute(d, status)
  BY <1>7, UpdateBalance
<1>8. CASE UNCHANGED vars
  <2>1. UNCHANGED <<payment, earned, refund, dispute, tx>>
    BY <1>8 DEF vars
  <2>2. DisputeInv'
    BY <2>1, UntouchedStep DEF BalanceInv
  <2>3. FiniteDisputes' /\ EntryHasPayment' /\ DisputedAmounts' = DisputedAmounts
    BY <2>1 DEF BalanceInv, FiniteDisputes, EntryHasPayment, DisputedAmounts, Disputed
  <2>4. Balanced(refund', payment', earned', DisputedAmounts')
    BY <2>1, <2>3 DEF BalanceInv
  <2>5. tx' = Unlocked \/ OpenTransaction'
    BY <2>1, <2>3 DEF BalanceInv, OpenTransaction
  <2> QED BY <2>2, <2>3, <2>4, <2>5 DEF BalanceInv
<1> QED BY <1>1, <1>2, <1>3, <1>4, <1>5, <1>6, <1>7, <1>8 DEF Next

\* What the rows of a balanced app show.
LEMMA InvBalanced == BalanceInv => TypeOK /\ ExposureWithinPayment /\ ReversalFollowsRefunds
<1> SUFFICES ASSUME BalanceInv PROVE TypeOK /\ ExposureWithinPayment /\ ReversalFollowsRefunds
  OBVIOUS
<1>1. TypeOK
  <2>1. /\ payment \in [Payments -> Amounts \cup {0}] /\ earned \in [Payments -> EarnedRow]
        /\ dispute \in [DisputeIds -> DisputeRow] /\ refund \in [RefundIds -> RefundRow]
    BY DEF BalanceInv, DisputeInv, Rows, Balanced
  <2>2. CASE tx = Unlocked
    BY <2>1, <2>2 DEF TypeOK
  <2>3. CASE OpenTransaction
    <3>1. tx.op = "refund"
      BY <2>3 DEF OpenTransaction
    <3>2. tx.rows \in [RefundIds -> RefundRow]
      BY <2>3 DEF OpenTransaction, Balanced
    <3>3. tx.of \in Payments /\ \E S \in SUBSET RefundIds : tx.list \in [S -> Amounts]
      BY <2>3 DEF OpenTransaction
    <3> QED BY <2>1, <3>1, <3>2, <3>3 DEF TypeOK
  <2> QED BY <2>2, <2>3 DEF BalanceInv
<1>2. \A p \in Payments : DisputedAmounts[p] = Disputed(p)
  BY DEF DisputedAmounts
<1>3. ExposureWithinPayment
  BY <1>2 DEF BalanceInv, Balanced, ExposureWithinPayment, Disputed, ActiveStatuses
<1>4. ReversalFollowsRefunds
  BY DEF BalanceInv, Balanced, ReversalFollowsRefunds
<1> QED BY <1>1, <1>3, <1>4

-----------------------------------------------------------------------------
(* What refunds and lost disputes take back together.                      *)

\* Each lost dispute of a payment takes back its share of the commission, rounded,
\* and the other ones nothing.
LEMMA LossesBound ==
  ASSUME BalanceInv, NEW p \in Payments, earned[p].status # "none"
  PROVE  /\ Losses(p) \in Nat /\ IsFiniteSet(Lost(p))
         /\ 2 * payment[p] * Losses(p) <=
               2 * earned[p].amount * Disputed(p) + payment[p] * Cardinality(Lost(p))
<1> DEFINE net == [d \in DisputeIds |-> dispute[d].reversed - dispute[d].reinstated]
           all == {d \in DisputeIds : dispute[d].of = p /\ dispute[d].status # "none"}
           c == earned[p].amount
           P == payment[p]
           amounts == Amount(dispute)
<1>0. Rows /\ DisputeInv /\ FiniteDisputes
  BY DEF BalanceInv, DisputeInv
<1>1. P \in Nat \ {0} /\ c \in Nat
  BY <1>0, Numbers DEF BalanceInv, EntryHasPayment
<1>2. IsFiniteSet(all) /\ Lost(p) \in SUBSET all /\ IsFiniteSet(Lost(p)) /\ Lost(p) \in SUBSET Active(p)
  <2>1. all \subseteq {d \in DisputeIds : dispute[d].status # "none"}
    OBVIOUS
  <2>2. Lost(p) \subseteq all /\ Lost(p) \subseteq Active(p)
    BY DEF Lost, Active, ActiveStatuses
  <2> QED BY <1>0, <2>1, <2>2, FS_Subset DEF FiniteDisputes
<1>3. ASSUME NEW d \in Lost(p)
      PROVE  /\ net[d] = RoundHalfUp(amounts[d] * c, P)
             /\ amounts[d] \in Nat
  <2>1. d \in DisputeIds /\ dispute[d].of = p /\ dispute[d].status = "lost"
    BY DEF Lost
  <2>2. dispute[d].reversed - dispute[d].reinstated = Share(p, dispute[d].amount)
    BY <1>0, <2>1, InvNetsOut DEF DisputeNetsOut
  <2>3. amounts[d] = dispute[d].amount /\ amounts[d] \in Nat
    BY <1>0, <2>1, DisputedType DEF Amount, Rows
  <2> QED BY <2>1, <2>2, <2>3 DEF Share
<1>4. \A d \in all \ Lost(p) : net[d] = 0
  BY <1>0, InvNetsOut DEF DisputeNetsOut, Lost
<1> HIDE DEF net, amounts, all, c, P
<1>5. ASSUME NEW d \in Lost(p)
      PROVE  net[d] \in Nat /\ 2 * P * net[d] <= 2 * c * amounts[d] + P
  <2> DEFINE n == amounts[d] * c
  <2>1. n \in Nat
    BY <1>1, <1>3
  <2>2. 2 * c * amounts[d] = 2 * n
    BY <1>1, <1>3
  <2> HIDE DEF n
  <2>3. RoundHalfUp(n, P) \in Nat /\ 2 * P * RoundHalfUp(n, P) <= 2 * n + P
    BY <1>1, <2>1, RoundHalfUpType, RoundHalfUpBound
  <2> QED BY <1>3, <2>2, <2>3 DEF n
<1>6. \A d \in all : net[d] \in Nat
  BY <1>4, <1>5
<1>7. Losses(p) = SumFunctionOnSet(net, Lost(p)) /\ Losses(p) \in Nat
  <2>1. SumFunctionOnSet(net, Lost(p)) = SumFunctionOnSet(net, all)
    BY <1>2, <1>4, <1>6, SumZero
  <2>2. SumFunctionOnSet(net, all) \in Nat
    BY <1>2, <1>6, SumNat
  <2> QED BY <2>1, <2>2 DEF Losses, net, all
<1> DEFINE lost == SumFunctionOnSet(amounts, Lost(p))
           k == Cardinality(Lost(p))
<1>8. 2 * P * Losses(p) <= 2 * c * lost + P * k
  <2>1. 2 * P \in Nat /\ 2 * c \in Nat /\ P \in Nat
    BY <1>1
  <2>2. \A d \in Lost(p) : net[d] \in Nat /\ amounts[d] \in Nat
    BY <1>3, <1>5
  <2>3. 2 * P * SumFunctionOnSet(net, Lost(p)) <= 2 * c * SumFunctionOnSet(amounts, Lost(p)) + P * k
    BY <1>2, <1>5, <2>1, <2>2, SumBound
  <2> QED BY <1>7, <2>3
<1>9. lost \in Nat /\ Disputed(p) \in Nat /\ lost <= Disputed(p) /\ k \in Nat
  <2>1. IsFiniteSet(Active(p)) /\ \A d \in Active(p) : amounts[d] \in Nat
    BY <1>0, DisputedType DEF Active, amounts
  <2>2. SumFunctionOnSet(amounts, Lost(p)) <= SumFunctionOnSet(amounts, Active(p))
    BY <1>2, <2>1, SumSubset
  <2>3. Disputed(p) = SumFunctionOnSet(amounts, Active(p))
    BY DEF Disputed, Active, amounts
  <2> QED BY <1>0, <1>2, <1>3, <2>2, <2>3, SumNat, DisputedType, FS_CardinalityType
<1> HIDE DEF lost, k
<1>10. 2 * c * lost <= 2 * c * Disputed(p)
  <2> DEFINE x == Disputed(p) - lost
  <2>1. x \in Nat /\ Disputed(p) = lost + x
    BY <1>9
  <2> HIDE DEF x
  <2>2. 2 * c * (lost + x) = 2 * c * lost + 2 * c * x /\ 2 * c * x \in Nat
    BY <1>1, <1>9, <2>1
  <2> QED BY <1>1, <1>9, <2>1, <2>2
<1>11. 2 * P * Losses(p) \in Int /\ 2 * c * lost \in Int /\ 2 * c * Disputed(p) \in Int /\ P * k \in Int
  BY <1>1, <1>7, <1>9
<1>12. 2 * P * Losses(p) <= 2 * c * Disputed(p) + P * k
  BY <1>8, <1>10, <1>11
<1> QED BY <1>2, <1>7, <1>12 DEF c, P, k

\* All refunds are rounded once, and refunds and disputes share the payment.
LEMMA InvBounded == BalanceInv => TakenBackIsBounded
<1> SUFFICES ASSUME BalanceInv, NEW p \in Payments, earned[p].status # "none"
             PROVE  2 * (TakenBack(refund, p) + Losses(p)) <=
                      2 * earned[p].amount + 1 + Cardinality(Lost(p))
  BY DEF TakenBackIsBounded
<1> DEFINE c == earned[p].amount
           P == payment[p]
           R == Refunded(refund, p)
           D == Disputed(p)
           T == TakenBack(refund, p)
           L == Losses(p)
           k == Cardinality(Lost(p))
<1>1. P \in Nat \ {0} /\ c \in Nat
  BY Numbers DEF BalanceInv, DisputeInv, EntryHasPayment
<1>2. R \in Nat /\ D \in Nat /\ R + D <= P /\ T = RoundHalfUp(R * c, P)
  <2>1. R \in Nat
    BY RefundSums DEF BalanceInv, Balanced
  <2>2. D \in Nat
    BY DisputedType DEF BalanceInv, DisputeInv
  <2>3. R + D <= P
    BY DEF BalanceInv, Balanced, DisputedAmounts
  <2>4. T = RoundHalfUp(R * c, P)
    BY DEF BalanceInv, Balanced
  <2> QED BY <2>1, <2>2, <2>3, <2>4
<1>3. L \in Nat /\ k \in Nat /\ 2 * P * L <= 2 * c * D + P * k
  BY LossesBound, FS_CardinalityType
<1> HIDE DEF c, P, R, D, T, L, k
<1>4. T \in Nat /\ 2 * P * T <= 2 * (R * c) + P
  <2>1. R * c \in Nat
    BY <1>1, <1>2
  <2> QED BY <1>1, <1>2, <2>1, RoundHalfUpType, RoundHalfUpBound
<1>5. 2 * P * (T + L) <= 2 * c * P + P + P * k
  <2> DEFINE x == P - R - D
  <2>1. x \in Nat /\ P = R + D + x
    BY <1>1, <1>2
  <2> HIDE DEF x
  <2>2. 2 * c * (R + D + x) = 2 * (R * c) + 2 * c * D + 2 * c * x /\ 2 * c * x \in Nat
    BY <1>1, <1>2, <2>1
  <2>3. 2 * P * (T + L) = 2 * P * T + 2 * P * L
    BY <1>1, <1>3, <1>4
  <2>4. /\ 2 * P * T \in Int /\ 2 * P * L \in Int /\ 2 * (R * c) \in Int /\ 2 * c * D \in Int
        /\ P * k \in Int /\ 2 * c * P \in Int
    BY <1>1, <1>2, <1>3, <1>4
  <2>5. 2 * c * P = 2 * (R * c) + 2 * c * D + 2 * c * x
    BY <2>1, <2>2
  <2> QED BY <1>1, <1>3, <1>4, <2>2, <2>3, <2>4, <2>5
<1>6. 2 * (T + L) <= 2 * c + 1 + k
  <2> DEFINE a == 2 * (T + L)
             b == 2 * c + 1 + k
  <2>1. a \in Nat /\ b \in Nat /\ P * a = 2 * P * (T + L) /\ P * b = 2 * c * P + P + P * k
    BY <1>1, <1>3, <1>4
  <2> HIDE DEF a, b
  <2>2. P * a <= P * b
    BY <1>5, <2>1
  <2>3. ASSUME a > b
        PROVE  FALSE
    <3>1. a - b \in Nat \ {0} /\ P * (a - b) = P * a - P * b
      BY <1>1, <2>1, <2>3
    <3>2. P * (a - b) > 0
      BY <1>1, <3>1
    <3>3. P * a \in Int /\ P * b \in Int
      BY <1>1, <2>1
    <3> QED BY <2>2, <3>1, <3>2, <3>3
  <2>4. a <= b
    BY <2>1, <2>3
  <2> QED BY <2>4 DEF a, b
<1> QED BY <1>6 DEF c, T, L, k

-----------------------------------------------------------------------------
(* The theorems.                                                           *)

\* No commission is stranded on hold: whatever order the reports, reviews and
\* payouts come in, a held entry has an open dispute that will settle it.
THEOREM HoldHasOpenDisputeCorrect == Spec => []HoldHasOpenDispute
<1>1. DisputeInv => HoldHasOpenDispute
  BY DEF DisputeInv
<1> QED BY <1>1, DisputeInvInit, DisputeInvStep, PTL DEF Spec

\* PRODUCT.md:89, for all amounts: a lost dispute has taken back its share of
\* the commission, and every other one nothing on balance.
THEOREM DisputeNetsOutCorrect == Spec => []DisputeNetsOut
  BY DisputeInvInit, DisputeInvStep, InvNetsOut, PTL DEF Spec

\* PRODUCT.md:88, for any number of payments, refunds and disputes and for all
\* amounts: refunds and active disputes never exceed their payment, in whatever
\* order they are reported, replayed, settled and reinstated.
THEOREM ExposureCorrect == Spec => []ExposureWithinPayment
  BY BalanceInvInit, BalanceInvStep, InvBalanced, PTL DEF Spec

\* Whatever the refunds of a payment are split into, whatever their order and
\* whenever the commission is paid, their entries add up to the rounded share of
\* the whole refunded amount: rounding is never lost or taken twice.
THEOREM ReversalCorrect == Spec => []ReversalFollowsRefunds
  BY BalanceInvInit, BalanceInvStep, InvBalanced, PTL DEF Spec

\* Every row, committed or still in the open transaction, has its type.
THEOREM TypesHold == Spec => []TypeOK
  BY BalanceInvInit, BalanceInvStep, InvBalanced, PTL DEF Spec

\* Whatever is refunded in parts, disputed, lost and reinstated, what is taken back
\* of a commission exceeds it by at most half a minor unit for each rounding.
THEOREM TakenBackCorrect == Spec => []TakenBackIsBounded
  BY BalanceInvInit, BalanceInvStep, InvBounded, PTL DEF Spec
=============================================================================
