----------------------------- MODULE BudgetProofs -----------------------------
(***************************************************************************)
(* The budget is a natural number, and each of the three things a step of  *)
(* execFrom can do uses up some of it: a jump, however far back it goes,   *)
(* falling through to a later label, and the rest of the frame.            *)
(***************************************************************************)
EXTENDS Budget, FiniteSetTheorems, TLAPS

\* A product with a greater factor is greater by at least the other factor.
LEMMA LargerFactor ==
    ASSUME NEW u \in Nat, NEW v \in Nat, NEW k \in Nat, v < u
    PROVE  v * k + k <= u * k
<1>1. PICK d \in Nat : u = (v + 1) + d
  <2>1. u - (v + 1) \in Nat /\ u = (v + 1) + (u - (v + 1))
    OBVIOUS
  <2> QED BY <2>1
<1>2. u * k = (v * k + k) + d * k
  BY <1>1
<1>3. d * k \in Nat /\ v * k \in Nat
  OBVIOUS
<1> QED BY <1>2, <1>3

\* A proper subset of a finite set has fewer elements.
LEMMA ProperSubset ==
    ASSUME NEW S, IsFiniteSet(S), NEW T \in SUBSET S, T # S
    PROVE  Cardinality(T) \in Nat /\ Cardinality(S) \in Nat
           /\ Cardinality(T) < Cardinality(S)
<1>1. IsFiniteSet(T) /\ Cardinality(T) <= Cardinality(S) /\ Cardinality(T) # Cardinality(S)
  BY FS_Subset
<1>2. Cardinality(T) \in Nat /\ Cardinality(S) \in Nat
  BY <1>1, FS_CardinalityType
<1> QED BY <1>1, <1>2

\* The budget is a natural number, so it cannot decrease for ever.
LEMMA BudgetIsNat ==
    ASSUME NEW jumps, IsFiniteSet(jumps), NEW labels, IsFiniteSet(labels),
           NEW ahead \in SUBSET labels, NEW frame \in Nat
    PROVE  Budget(jumps, labels, ahead, frame) \in Nat
<1>1. Cardinality(jumps) \in Nat /\ Cardinality(labels) \in Nat
  BY FS_CardinalityType
<1>2. Cardinality(ahead) \in Nat
  BY FS_Subset, FS_CardinalityType
<1>3. \A a, b, c, d \in Nat : a * (3 * b) + 3 * c + d \in Nat
  OBVIOUS
<1> QED BY <1>1, <1>2, <1>3 DEF Budget

\* A jump spends one of the jumps left: the budget decreases wherever it leads.
LEMMA JumpSpends ==
    ASSUME NEW jumps, IsFiniteSet(jumps), NEW rest \in SUBSET jumps, rest # jumps,
           NEW labels, IsFiniteSet(labels),
           NEW old \in SUBSET labels, NEW new \in SUBSET labels, new # labels,
           NEW before \in Nat, NEW after \in 0..2
    PROVE  Budget(rest, labels, new, after) < Budget(jumps, labels, old, before)
<1> DEFINE u == Cardinality(jumps)
           v == Cardinality(rest)
           n == Cardinality(labels)
           a == Cardinality(new)
           b == Cardinality(old)
<1>1. u \in Nat /\ v \in Nat /\ v < u
  BY ProperSubset
<1>2. n \in Nat /\ a \in Nat /\ a < n
  BY ProperSubset
<1>3. b \in Nat
  BY FS_Subset, FS_CardinalityType
<1>4. 3 * n \in Nat
  BY <1>2
<1>5. v * (3 * n) + 3 * n <= u * (3 * n)
  BY <1>1, <1>4, LargerFactor
<1>6. v * (3 * n) \in Nat /\ u * (3 * n) \in Nat
  BY <1>1, <1>4
<1> HIDE DEF u, v, n, a, b
<1> DEFINE vn == v * (3 * n)
           un == u * (3 * n)
<1>7. vn \in Nat /\ un \in Nat /\ vn + 3 * n <= un
  BY <1>5, <1>6
<1> HIDE DEF vn, un
<1>8. vn + 3 * a + after < un + 3 * b + before
  BY <1>2, <1>3, <1>7
<1> QED BY <1>8 DEF Budget, u, v, n, a, b, vn, un

\* Falling through to a later label, without giving jumps back, uses up budget.
LEMMA MoveSpends ==
    ASSUME NEW jumps, IsFiniteSet(jumps), NEW labels, IsFiniteSet(labels),
           NEW old \in SUBSET labels, NEW new \in SUBSET old, new # old,
           NEW before \in Nat, NEW after \in 0..2
    PROVE  Budget(jumps, labels, new, after) < Budget(jumps, labels, old, before)
<1> DEFINE un == Cardinality(jumps) * (3 * Cardinality(labels))
<1>1. un \in Nat
  BY FS_CardinalityType
<1>2. IsFiniteSet(old)
  BY FS_Subset
<1>3. Cardinality(new) \in Nat /\ Cardinality(old) \in Nat /\ Cardinality(new) < Cardinality(old)
  BY <1>2, ProperSubset
<1>4. \A p, q, r \in Nat : q < r => p + 3 * q + after < p + 3 * r + before
  OBVIOUS
<1> HIDE DEF un
<1>5. un + 3 * Cardinality(new) + after < un + 3 * Cardinality(old) + before
  BY <1>1, <1>3, <1>4
<1> QED BY <1>5 DEF Budget, un

\* So does the frame itself.
LEMMA FrameSpends ==
    ASSUME NEW jumps, IsFiniteSet(jumps), NEW labels, IsFiniteSet(labels),
           NEW ahead \in SUBSET labels,
           NEW before \in Nat, NEW after \in Nat, after < before
    PROVE  Budget(jumps, labels, ahead, after) < Budget(jumps, labels, ahead, before)
<1> DEFINE un == Cardinality(jumps) * (3 * Cardinality(labels))
<1>1. un \in Nat
  BY FS_CardinalityType
<1>2. Cardinality(ahead) \in Nat
  BY FS_Subset, FS_CardinalityType
<1>3. \A p, q \in Nat : p + 3 * q + after < p + 3 * q + before
  OBVIOUS
<1> HIDE DEF un
<1>4. un + 3 * Cardinality(ahead) + after < un + 3 * Cardinality(ahead) + before
  BY <1>1, <1>2, <1>3
<1> QED BY <1>4 DEF Budget, un

=============================================================================
