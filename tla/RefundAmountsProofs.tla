------------------------ MODULE RefundAmountsProofs ------------------------
(***************************************************************************)
(* What RefundAmounts' Sum does, for any amounts of a finite number of     *)
(* requests.                                                               *)
(***************************************************************************)
EXTENDS RefundAmounts, FiniteSetTheorems, TLAPS

Amounts == [Requests -> 0..Amount]

(* Sum adds up: it counts the units of a finite set.                       *)

LEMMA SumType ==
  ASSUME NEW f \in Amounts
  PROVE  IsFiniteSet(Units(f)) /\ Sum(f) \in Nat
<1> USE AmountsAssumption
<1>1. IsFiniteSet(1..Amount)
  BY FS_Interval
<1>2. IsFiniteSet(Requests \X (1..Amount))
  BY <1>1, FS_Product
<1>3. IsFiniteSet(Units(f))
  BY <1>2, FS_Subset DEF Units
<1> QED
  BY <1>3, FS_CardinalityType DEF Sum

LEMMA SumAdds ==
  ASSUME NEW f \in Amounts, NEW r \in Requests, f[r] = 0, NEW a \in 0..Amount
  PROVE  Sum([f EXCEPT ![r] = a]) = Sum(f) + a
<1> USE AmountsAssumption
<1> DEFINE g == [f EXCEPT ![r] = a]
           New == {r} \X (1..a)
<1>1. Units(g) = Units(f) \cup New
  BY DEF Units, Amounts
<1>2. Units(f) \cap New = {}
  BY DEF Units, Amounts
<1>3. IsFiniteSet(New) /\ Cardinality(New) = a
  <2>1. IsFiniteSet({r}) /\ Cardinality({r}) = 1
    BY FS_Singleton
  <2>2. IsFiniteSet(1..a) /\ Cardinality(1..a) = a
    BY FS_Interval
  <2>3. IsFiniteSet(New) /\ Cardinality(New) = Cardinality({r}) * Cardinality(1..a)
    BY <2>1, <2>2, FS_Product
  <2> QED
    BY <2>1, <2>2, <2>3
<1>4. IsFiniteSet(Units(f)) /\ Sum(f) \in Nat
  BY SumType
<1>5. Cardinality(Units(f) \cap New) = 0
  BY <1>2, FS_EmptySet
<1> HIDE DEF g, New
<1>6. Cardinality(Units(f) \cup New) = Cardinality(Units(f)) + Cardinality(New) - Cardinality(Units(f) \cap New)
  BY <1>3, <1>4, FS_Union
<1>7. Cardinality(Units(g)) = Sum(f) + a
  BY <1>1, <1>3, <1>4, <1>5, <1>6 DEF Sum
<1> QED
  BY <1>7 DEF Sum, g

LEMMA SumZero == Sum([r \in Requests |-> 0]) = 0
<1>1. Units([r \in Requests |-> 0]) = {}
  BY AmountsAssumption DEF Units
<1> QED
  BY <1>1, FS_EmptySet DEF Sum

LEMMA SumMonotone ==
  ASSUME NEW f \in Amounts, NEW g \in Amounts, \A r \in Requests : f[r] <= g[r]
  PROVE  Sum(f) <= Sum(g)
<1>1. Units(f) \subseteq Units(g)
  BY AmountsAssumption DEF Units, Amounts
<1>2. IsFiniteSet(Units(g))
  BY SumType
<1> QED
  BY <1>1, <1>2, FS_Subset DEF Sum

\* Rounding stays on its side of every whole cent.
LEMMA RoundedBounds ==
  ASSUME NEW w \in Nat, NEW n \in Nat
  PROVE  /\ Rounded(w) \in Nat
         /\ w <= 10 * n => Rounded(w) <= n
         /\ 10 * n <= w => n <= Rounded(w)
BY SMT DEF Rounded
=============================================================================
