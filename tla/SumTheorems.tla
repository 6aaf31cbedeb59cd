---------------------------- MODULE SumTheorems ----------------------------
(***************************************************************************)
(* What the models' sums are equal to: MapThenSumSet of the community      *)
(* modules, for a function and a finite set.  The induction theorems of    *)
(* the library take an operator; here a set of counterexamples would have  *)
(* a smallest member (WFMin).                                              *)
(***************************************************************************)
EXTENDS Integers, FiniteSetsExt, FiniteSetTheorems, WellFoundedInduction, TLAPS

SumOf(f, S) == MapThenSumSet(LAMBDA x : f[x], S)

-----------------------------------------------------------------------------
(* Induction over finite sets.                                             *)

\* A family that has the empty set, and with a set each that has one element
\* more, has all finite sets.
LEMMA GrowingFamily ==
  ASSUME NEW S, IsFiniteSet(S), NEW Q, {} \in Q,
         \A T \in SUBSET S : \A x \in S \ T : T \in Q => T \cup {x} \in Q
  PROVE  S \in Q
<1> DEFINE Bad == {T \in SUBSET S : T \notin Q}
<1>1. SUFFICES ASSUME Bad # {} PROVE FALSE
  OBVIOUS
<1>2. IsWellFoundedOn(StrictSubsetOrdering(S), SUBSET S)
  BY FS_StrictSubsetOrderingWellFounded, FS_FiniteSubsetsOfFinite
<1>3. PICK T \in Bad : \A U \in Bad : <<U, T>> \notin StrictSubsetOrdering(S)
  BY <1>1, <1>2, WFMin
<1>4. PICK x \in T : TRUE
  BY <1>3
<1>5. T \ {x} \in Q
  <2>1. T \ {x} \in SUBSET S /\ T \ {x} # T /\ T \in SUBSET S
    BY <1>3, <1>4
  <2>2. <<T \ {x}, T>> \in StrictSubsetOrdering(S)
    BY <2>1 DEF StrictSubsetOrdering
  <2> QED
    BY <1>3, <2>1, <2>2
<1>6. (T \ {x}) \cup {x} = T /\ x \in S \ (T \ {x}) /\ T \ {x} \in SUBSET S
  BY <1>3, <1>4
<1> QED
  BY <1>3, <1>5, <1>6

\* Sets that are written out are finite.
LEMMA FiveFinite ==
  ASSUME NEW a, NEW b, NEW c, NEW d, NEW e PROVE IsFiniteSet({a, b, c, d, e})
<1>1. IsFiniteSet({a})
  BY FS_Singleton
<1>2. IsFiniteSet({a} \cup {b})
  BY <1>1, FS_AddElement
<1>3. IsFiniteSet({a, b} \cup {c})
  <2>1. {a, b} = {a} \cup {b}
    OBVIOUS
  <2> QED
    BY <1>2, <2>1, FS_AddElement
<1>4. IsFiniteSet({a, b, c} \cup {d})
  <2>1. {a, b, c} = {a, b} \cup {c}
    OBVIOUS
  <2> QED
    BY <1>3, <2>1, FS_AddElement
<1>5. IsFiniteSet({a, b, c, d} \cup {e})
  <2>1. {a, b, c, d} = {a, b, c} \cup {d}
    OBVIOUS
  <2> QED
    BY <1>4, <2>1, FS_AddElement
<1>6. {a, b, c, d, e} = {a, b, c, d} \cup {e}
  OBVIOUS
<1> QED
  BY <1>5, <1>6

-----------------------------------------------------------------------------
(* The recursion behind a sum.                                             *)

Picked(s) == CHOOSE x \in s : TRUE

Unfolded(f, g, s) == IF s = {} THEN 0 ELSE f[Picked(s)] + g[s \ {Picked(s)}]

LEMMA SameFold ==
  ASSUME NEW f, NEW S, IsFiniteSet(S), NEW g, NEW h,
         \A s \in SUBSET S : g[s] = Unfolded(f, g, s) /\ h[s] = Unfolded(f, h, s)
  PROVE  \A s \in SUBSET S : g[s] = h[s]
<1> DEFINE Bad == {s \in SUBSET S : g[s] # h[s]}
<1>1. SUFFICES ASSUME Bad # {} PROVE FALSE
  OBVIOUS
<1>2. IsWellFoundedOn(StrictSubsetOrdering(S), SUBSET S)
  BY FS_StrictSubsetOrderingWellFounded, FS_FiniteSubsetsOfFinite
<1>3. PICK s \in Bad : \A t \in Bad : <<t, s>> \notin StrictSubsetOrdering(S)
  BY <1>1, <1>2, WFMin
<1>4. s # {} => Picked(s) \in s
  BY DEF Picked
<1>5. s # {} => s \ {Picked(s)} \notin Bad
  <2> SUFFICES ASSUME s # {} PROVE s \ {Picked(s)} \notin Bad
    OBVIOUS
  <2> DEFINE t == s \ {Picked(s)}
  <2>1. t \in SUBSET S /\ t \subseteq s /\ t # s
    BY <1>3, <1>4
  <2> HIDE DEF t
  <2>2. <<t, s>> \in StrictSubsetOrdering(S)
    BY <1>3, <2>1 DEF StrictSubsetOrdering
  <2> QED
    BY <1>3, <2>2 DEF t
<1> QED
  BY <1>3, <1>5 DEF Unfolded

Fold(f, S) == CHOOSE g : g = [s \in SUBSET S |-> Unfolded(f, g, s)]

IsFold(f, S) == Fold(f, S) = [s \in SUBSET S |-> Unfolded(f, Fold(f, S), s)]

LEMMA FoldOfSmaller ==
  ASSUME NEW f, NEW S, IsFiniteSet(S), NEW T \in SUBSET S, IsFold(f, S), IsFold(f, T)
  PROVE  Fold(f, S)[T] = Fold(f, T)[T]
<1> DEFINE g == Fold(f, S)
           h == Fold(f, T)
<1> HIDE DEF g, h
<1>1. \A s \in SUBSET T : g[s] = Unfolded(f, g, s) /\ h[s] = Unfolded(f, h, s)
  BY DEF g, h, IsFold
<1>2. IsFiniteSet(T)
  BY FS_Subset
<1>3. \A s \in SUBSET T : g[s] = h[s]
  BY <1>1, <1>2, SameFold, SMTT(30)
<1> QED
  BY <1>3 DEF g, h

LEMMA FoldExists ==
  ASSUME NEW f, NEW S, IsFiniteSet(S)
  PROVE  IsFold(f, S)
<1> DEFINE Has(T) == \E g : g = [s \in SUBSET T |-> Unfolded(f, g, s)]
           Bad == {T \in SUBSET S : ~Has(T)}
<1>1. SUFFICES Bad = {}
  <2>1. ASSUME Bad = {} PROVE Has(S)
    BY <2>1
  <2> QED
    BY <2>1 DEF Fold, IsFold
<1>2. SUFFICES ASSUME Bad # {} PROVE FALSE
  OBVIOUS
<1>3. IsWellFoundedOn(StrictSubsetOrdering(S), SUBSET S)
  BY FS_StrictSubsetOrderingWellFounded, FS_FiniteSubsetsOfFinite
<1>4. PICK T \in Bad : \A U \in Bad : <<U, T>> \notin StrictSubsetOrdering(S)
  BY <1>2, <1>3, WFMin
<1>5. \A U \in SUBSET T : U # T => IsFold(f, U)
  <2> SUFFICES ASSUME NEW U \in SUBSET T, U # T PROVE Has(U)
    BY DEF Fold, IsFold
  <2> QED
    BY <1>4 DEF StrictSubsetOrdering
<1> DEFINE h == [s \in SUBSET T |->
                   IF s = {} THEN 0
                   ELSE f[Picked(s)] + Fold(f, s \ {Picked(s)})[s \ {Picked(s)}]]
<1>6. ASSUME NEW s \in SUBSET T, s # {} PROVE h[s \ {Picked(s)}] = Fold(f, s \ {Picked(s)})[s \ {Picked(s)}]
  <2> DEFINE r == s \ {Picked(s)}
  <2>1. r \in SUBSET T /\ r # T
    BY <1>6 DEF Picked
  <2>2. Fold(f, r)[r] = Unfolded(f, Fold(f, r), r)
    BY <1>5, <2>1 DEF IsFold
  <2>3. CASE r = {}
    BY <2>1, <2>2, <2>3 DEF Unfolded
  <2>4. CASE r # {}
    <3> DEFINE q == r \ {Picked(r)}
    <3>1. Picked(r) \in r /\ q \in SUBSET r /\ q \in SUBSET T /\ q # T /\ q # r
      BY <2>1, <2>4 DEF Picked
    <3>3. IsFiniteSet(r)
      BY <1>4, <2>1, FS_Subset
    <3>4. Fold(f, r)[q] = Fold(f, q)[q]
      BY <1>5, <2>1, <3>1, <3>3, FoldOfSmaller
    <3>5. Fold(f, r)[r] = f[Picked(r)] + Fold(f, q)[q]
      BY <2>2, <2>4, <3>4 DEF Unfolded
    <3>6. h[r] = f[Picked(r)] + Fold(f, q)[q]
      BY <2>1, <2>4
    <3> QED
      BY <3>5, <3>6
  <2> QED
    BY <2>3, <2>4
<1>7. h = [s \in SUBSET T |-> Unfolded(f, h, s)]
  BY <1>6 DEF Unfolded
<1>8. Has(T)
  BY <1>7
<1> QED
  BY <1>4, <1>8

LEMMA SumIsFold == ASSUME NEW f, NEW S PROVE SumOf(f, S) = Fold(f, S)[S]
  BY DEF SumOf, Fold, Unfolded, Picked, MapThenSumSet, MapThenFoldSet

LEMMA SumUnfolds ==
  ASSUME NEW f, NEW S, IsFiniteSet(S), S # {}
  PROVE  SumOf(f, S) = f[Picked(S)] + SumOf(f, S \ {Picked(S)})
<1> DEFINE r == S \ {Picked(S)}
<1>1. Picked(S) \in S /\ r \in SUBSET S /\ IsFiniteSet(r)
  BY FS_Subset DEF Picked
<1>2. IsFold(f, S) /\ IsFold(f, r)
  <2> HIDE DEF r
  <2> QED
    BY <1>1, FoldExists
<1>3. Fold(f, S)[S] = f[Picked(S)] + Fold(f, S)[r]
  BY <1>2 DEF Unfolded, IsFold
<1>4. Fold(f, S)[r] = Fold(f, r)[r]
  <2> HIDE DEF r
  <2> QED
    BY <1>1, <1>2, FoldOfSmaller
<1> QED
  BY <1>3, <1>4, SumIsFold

LEMMA SumOfNone == ASSUME NEW f PROVE SumOf(f, {}) = 0
<1>1. IsFold(f, {})
  BY FoldExists, FS_EmptySet
<1> QED
  BY <1>1, SumIsFold DEF Unfolded, IsFold

-----------------------------------------------------------------------------
(* What sums are.                                                          *)

Naturals(f, S) == \A x \in S : f[x] \in Nat

LEMMA SumIsNatural ==
  ASSUME NEW f, NEW S, IsFiniteSet(S), Naturals(f, S)
  PROVE  SumOf(f, S) \in Nat
<1> DEFINE Q == {T \in SUBSET S : SumOf(f, T) \in Nat}
           Bad == (SUBSET S) \ Q
<1>1. SUFFICES ASSUME Bad # {} PROVE FALSE
  OBVIOUS
<1>2. IsWellFoundedOn(StrictSubsetOrdering(S), SUBSET S)
  BY FS_StrictSubsetOrderingWellFounded, FS_FiniteSubsetsOfFinite
<1>3. PICK T \in Bad : \A U \in Bad : <<U, T>> \notin StrictSubsetOrdering(S)
  BY <1>1, <1>2, WFMin
<1>4. T # {}
  BY <1>3, SumOfNone
<1>5. Picked(T) \in T
  BY <1>4 DEF Picked
<1>6. T \ {Picked(T)} \in Q
  <2>1. T \in SUBSET S /\ T \ {Picked(T)} \in SUBSET S /\ T \ {Picked(T)} # T
    BY <1>3, <1>5
  <2>2. <<T \ {Picked(T)}, T>> \in StrictSubsetOrdering(S)
    BY <2>1 DEF StrictSubsetOrdering
  <2> QED
    BY <1>3, <2>1, <2>2
<1>7. SumOf(f, T) = f[Picked(T)] + SumOf(f, T \ {Picked(T)})
  BY <1>3, <1>4, SumUnfolds, FS_Subset
<1> QED
  BY <1>3, <1>5, <1>6, <1>7 DEF Naturals

\* Any element may be taken first.
LEMMA SumWithout ==
  ASSUME NEW f, NEW S, IsFiniteSet(S), Naturals(f, S)
  PROVE  \A T \in SUBSET S : \A x \in T : SumOf(f, T) = f[x] + SumOf(f, T \ {x})
<1> DEFINE Good(T) == \A x \in T : SumOf(f, T) = f[x] + SumOf(f, T \ {x})
           Bad == {T \in SUBSET S : ~Good(T)}
<1>1. SUFFICES ASSUME Bad # {} PROVE FALSE
  OBVIOUS
<1>2. IsWellFoundedOn(StrictSubsetOrdering(S), SUBSET S)
  BY FS_StrictSubsetOrderingWellFounded, FS_FiniteSubsetsOfFinite
<1>3. PICK T \in Bad : \A U \in Bad : <<U, T>> \notin StrictSubsetOrdering(S)
  BY <1>1, <1>2, WFMin
<1>4. PICK x \in T : SumOf(f, T) # f[x] + SumOf(f, T \ {x})
  BY <1>3
<1> DEFINE p == Picked(T)
<1>5. p \in T
  BY <1>4 DEF Picked
<1>6. IsFiniteSet(T) /\ T \in SUBSET S
  BY <1>3, FS_Subset
<1>7. SumOf(f, T) = f[p] + SumOf(f, T \ {p})
  BY <1>4, <1>6, SumUnfolds
<1>8. x # p
  BY <1>4, <1>7
<1>9. \A y \in T : Good(T \ {y})
  <2> SUFFICES ASSUME NEW y \in T PROVE Good(T \ {y})
    OBVIOUS
  <2>1. T \ {y} \in SUBSET S /\ T \ {y} # T /\ T \in SUBSET S
    BY <1>3
  <2>2. <<T \ {y}, T>> \in StrictSubsetOrdering(S)
    BY <2>1 DEF StrictSubsetOrdering
  <2> QED
    BY <1>3, <2>1, <2>2
<1>10. /\ SumOf(f, T \ {p}) = f[x] + SumOf(f, (T \ {p}) \ {x})
       /\ SumOf(f, T \ {x}) = f[p] + SumOf(f, (T \ {x}) \ {p})
  BY <1>5, <1>8, <1>9
<1>11. (T \ {p}) \ {x} = (T \ {x}) \ {p}
  OBVIOUS
<1>12. IsFiniteSet((T \ {x}) \ {p}) /\ Naturals(f, (T \ {x}) \ {p}) /\ f[x] \in Nat /\ f[p] \in Nat
  BY <1>5, <1>6, FS_Subset DEF Naturals
<1>13. SumOf(f, (T \ {x}) \ {p}) \in Nat
  BY <1>12, SumIsNatural
<1> DEFINE c == SumOf(f, (T \ {x}) \ {p})
<1> HIDE DEF p, Bad, Good
<1>14. SumOf(f, T) = f[p] + (f[x] + c) /\ SumOf(f, T \ {x}) = f[p] + c
  BY <1>7, <1>10, <1>11
<1> HIDE DEF c
<1>15. c \in Nat
  BY <1>13 DEF c
<1> QED
  BY <1>4, <1>12, <1>14, <1>15

LEMMA SumWith ==
  ASSUME NEW f, NEW S, IsFiniteSet(S), NEW x, x \notin S, Naturals(f, S \cup {x})
  PROVE  /\ SumOf(f, S \cup {x}) = SumOf(f, S) + f[x]
         /\ SumOf(f, S) \in Nat /\ f[x] \in Nat
<1>1. IsFiniteSet(S \cup {x})
  BY FS_AddElement
<1>2. SumOf(f, S \cup {x}) = f[x] + SumOf(f, (S \cup {x}) \ {x})
  BY <1>1, SumWithout
<1>3. (S \cup {x}) \ {x} = S
  OBVIOUS
<1>4. Naturals(f, S) /\ f[x] \in Nat
  BY DEF Naturals
<1> QED
  BY <1>2, <1>3, <1>4, SumIsNatural

-----------------------------------------------------------------------------
(* The laws of sums, each by growing the set.                              *)

\* A sum is a matter of the values.
LEMMA SumSame ==
  ASSUME NEW S, IsFiniteSet(S), NEW f, NEW g, Naturals(f, S), \A x \in S : f[x] = g[x]
  PROVE  SumOf(f, S) = SumOf(g, S)
<1> DEFINE Q == {T \in SUBSET S : SumOf(f, T) = SumOf(g, T)}
<1>1. {} \in Q
  BY SumOfNone
<1>2. ASSUME NEW T \in SUBSET S, NEW x \in S \ T, T \in Q PROVE T \cup {x} \in Q
  <2>1. IsFiniteSet(T) /\ Naturals(f, T \cup {x}) /\ Naturals(g, T \cup {x})
    BY FS_Subset DEF Naturals
  <2>2. /\ SumOf(f, T \cup {x}) = SumOf(f, T) + f[x]
        /\ SumOf(g, T \cup {x}) = SumOf(g, T) + g[x]
    BY <1>2, <2>1, SumWith
  <2> QED
    BY <1>2, <2>2
<1> HIDE DEF Q
<1>3. S \in Q
  BY <1>1, <1>2, GrowingFamily
<1> QED
  BY <1>3 DEF Q

LEMMA SumAtMost ==
  ASSUME NEW S, IsFiniteSet(S), NEW f, NEW g, Naturals(f, S), Naturals(g, S),
         \A x \in S : f[x] <= g[x]
  PROVE  SumOf(f, S) <= SumOf(g, S)
<1> DEFINE Q == {T \in SUBSET S : SumOf(f, T) <= SumOf(g, T)}
<1>1. {} \in Q
  BY SumOfNone
<1>2. ASSUME NEW T \in SUBSET S, NEW x \in S \ T, T \in Q PROVE T \cup {x} \in Q
  <2>1. IsFiniteSet(T) /\ Naturals(f, T \cup {x}) /\ Naturals(g, T \cup {x})
    BY FS_Subset DEF Naturals
  <2>2. /\ SumOf(f, T \cup {x}) = SumOf(f, T) + f[x] /\ SumOf(f, T) \in Nat
        /\ SumOf(g, T \cup {x}) = SumOf(g, T) + g[x] /\ SumOf(g, T) \in Nat
    BY <1>2, <2>1, SumWith
  <2>3. f[x] \in Nat /\ g[x] \in Nat /\ f[x] <= g[x]
    BY DEF Naturals
  <2> QED
    BY <1>2, <2>2, <2>3
<1> HIDE DEF Q
<1>3. S \in Q
  BY <1>1, <1>2, GrowingFamily
<1> QED
  BY <1>3 DEF Q

LEMMA SumOfSums ==
  ASSUME NEW S, IsFiniteSet(S), NEW f, NEW g, NEW h, Naturals(f, S), Naturals(g, S),
         \A x \in S : h[x] = f[x] + g[x]
  PROVE  SumOf(h, S) = SumOf(f, S) + SumOf(g, S)
<1> DEFINE Q == {T \in SUBSET S : SumOf(h, T) = SumOf(f, T) + SumOf(g, T)}
<1>1. {} \in Q
  BY SumOfNone
<1>2. ASSUME NEW T \in SUBSET S, NEW x \in S \ T, T \in Q PROVE T \cup {x} \in Q
  <2>1. IsFiniteSet(T) /\ Naturals(f, T \cup {x}) /\ Naturals(g, T \cup {x})
    BY FS_Subset DEF Naturals
  <2>2. Naturals(h, T \cup {x})
    BY <2>1 DEF Naturals
  <2>3. /\ SumOf(f, T \cup {x}) = SumOf(f, T) + f[x] /\ SumOf(f, T) \in Nat
        /\ SumOf(g, T \cup {x}) = SumOf(g, T) + g[x] /\ SumOf(g, T) \in Nat
        /\ SumOf(h, T \cup {x}) = SumOf(h, T) + h[x]
    BY <1>2, <2>1, <2>2, SumWith
  <2>4. f[x] \in Nat /\ g[x] \in Nat /\ h[x] = f[x] + g[x]
    BY DEF Naturals
  <2> QED
    BY <1>2, <2>3, <2>4
<1> HIDE DEF Q
<1>3. S \in Q
  BY <1>1, <1>2, GrowingFamily
<1> QED
  BY <1>3 DEF Q

\* The sum over two sets apart.
LEMMA SumOfUnion ==
  ASSUME NEW S, IsFiniteSet(S), NEW U, IsFiniteSet(U), S \cap U = {},
         NEW f, Naturals(f, S \cup U)
  PROVE  SumOf(f, S \cup U) = SumOf(f, S) + SumOf(f, U)
<1> DEFINE Q == {T \in SUBSET S : SumOf(f, T \cup U) = SumOf(f, T) + SumOf(f, U)}
<1>0. SumOf(f, U) \in Nat
  BY SumIsNatural DEF Naturals
<1>1. {} \in Q
  <2>1. {} \cup U = U
    OBVIOUS
  <2> QED
    BY <1>0, <2>1, SumOfNone
<1>2. ASSUME NEW T \in SUBSET S, NEW x \in S \ T, T \in Q PROVE T \cup {x} \in Q
  <2>1. /\ IsFiniteSet(T) /\ IsFiniteSet(T \cup U)
        /\ Naturals(f, T \cup {x}) /\ Naturals(f, (T \cup U) \cup {x})
    BY FS_Subset, FS_Union DEF Naturals
  <2>2. x \notin T /\ x \notin T \cup U /\ (T \cup {x}) \cup U = (T \cup U) \cup {x}
    OBVIOUS
  <2>3. /\ SumOf(f, T \cup {x}) = SumOf(f, T) + f[x] /\ SumOf(f, T) \in Nat /\ f[x] \in Nat
        /\ SumOf(f, (T \cup U) \cup {x}) = SumOf(f, T \cup U) + f[x]
    BY <2>1, <2>2, SumWith
  <2>4. SumOf(f, (T \cup {x}) \cup U) = SumOf(f, T \cup {x}) + SumOf(f, U)
    BY <1>0, <1>2, <2>2, <2>3
  <2> QED
    BY <2>4
<1> HIDE DEF Q
<1>3. S \in Q
  BY <1>1, <1>2, GrowingFamily
<1> QED
  BY <1>3 DEF Q

LEMMA SumOfZeros ==
  ASSUME NEW S, IsFiniteSet(S), NEW f, \A x \in S : f[x] = 0
  PROVE  SumOf(f, S) = 0
<1> DEFINE Q == {T \in SUBSET S : SumOf(f, T) = 0}
<1>1. {} \in Q
  BY SumOfNone
<1>2. ASSUME NEW T \in SUBSET S, NEW x \in S \ T, T \in Q PROVE T \cup {x} \in Q
  <2>1. IsFiniteSet(T) /\ Naturals(f, T \cup {x})
    BY FS_Subset DEF Naturals
  <2>2. SumOf(f, T \cup {x}) = SumOf(f, T) + f[x]
    BY <1>2, <2>1, SumWith
  <2> QED
    BY <1>2, <2>2
<1> HIDE DEF Q
<1>3. S \in Q
  BY <1>1, <1>2, GrowingFamily
<1> QED
  BY <1>3 DEF Q

Tabled(row, col, S, U) ==
  \A x \in S : \A y \in U : row[x][y] \in Nat /\ col[y][x] = row[x][y]

Sums(f, row, S, U) == \A x \in S : f[x] = SumOf(row[x], U)

\* Row by row or column by column.
LEMMA SumExchange ==
  ASSUME NEW S, IsFiniteSet(S), NEW U, IsFiniteSet(U), NEW row, NEW col, NEW f, NEW g,
         Tabled(row, col, S, U), Sums(f, row, S, U), Sums(g, col, U, S)
  PROVE  SumOf(f, S) = SumOf(g, U)
<1> USE DEF Tabled, Sums
<1> DEFINE part(T) == [y \in U |-> SumOf(col[y], T)]
           Q == {T \in SUBSET S : SumOf(f, T) = SumOf(part(T), U)}
<1>1. {} \in Q
  <2>1. \A y \in U : part({})[y] = 0
    BY SumOfNone
  <2> HIDE DEF part
  <2> QED
    BY <2>1, SumOfNone, SumOfZeros
<1>2. ASSUME NEW T \in SUBSET S, NEW x \in S \ T, T \in Q PROVE T \cup {x} \in Q
  <2>1. IsFiniteSet(T)
    BY FS_Subset
  <2>2. \A y \in U : /\ SumOf(col[y], T \cup {x}) = SumOf(col[y], T) + col[y][x]
                     /\ SumOf(col[y], T) \in Nat
    <3> SUFFICES ASSUME NEW y \in U
                 PROVE  /\ SumOf(col[y], T \cup {x}) = SumOf(col[y], T) + col[y][x]
                        /\ SumOf(col[y], T) \in Nat
      OBVIOUS
    <3>1. Naturals(col[y], T \cup {x})
      BY DEF Naturals
    <3> QED
      BY <2>1, <3>1, SumWith
  <2>3. \A y \in U : part(T \cup {x})[y] = part(T)[y] + row[x][y]
    BY <2>2
  <2>4. Naturals(part(T), U) /\ Naturals(row[x], U)
    BY <2>2 DEF Naturals
  <2>5. Naturals(f, T \cup {x})
    <3> SUFFICES ASSUME NEW z \in T \cup {x} PROVE f[z] \in Nat
      BY DEF Naturals
    <3>1. Naturals(row[z], U)
      BY DEF Naturals
    <3> QED
      BY <3>1, SumIsNatural
  <2>6. SumOf(f, T \cup {x}) = SumOf(f, T) + f[x]
    BY <2>1, <2>5, SumWith
  <2>7. SumOf(part(T \cup {x}), U) = SumOf(part(T), U) + SumOf(row[x], U)
    <3> DEFINE before == part(T)
               after == part(T \cup {x})
               r == row[x]
    <3>1. Naturals(before, U) /\ Naturals(r, U) /\ \A y \in U : after[y] = before[y] + r[y]
      BY <2>3, <2>4
    <3> HIDE DEF before, after, r
    <3>2. SumOf(after, U) = SumOf(before, U) + SumOf(r, U)
      BY <3>1, SumOfSums
    <3> QED
      BY <3>2 DEF before, after, r
  <2> QED
    BY <1>2, <2>6, <2>7
<1>3. S \in Q
  <2> HIDE DEF Q
  <2> QED
    BY <1>1, <1>2, GrowingFamily
<1>4. SumOf(part(S), U) = SumOf(g, U)
  <2>1. Naturals(part(S), U) /\ \A y \in U : part(S)[y] = g[y]
    <3> SUFFICES ASSUME NEW y \in U PROVE SumOf(col[y], S) \in Nat
      BY DEF Naturals
    <3>1. Naturals(col[y], S)
      BY DEF Naturals
    <3> QED
      BY <3>1, SumIsNatural
  <2> HIDE DEF part
  <2> QED
    BY <2>1, SumSame
<1> QED
  BY <1>3, <1>4

\* The sum over a part is no more than that over all.
LEMMA SumOfPart ==
  ASSUME NEW S, IsFiniteSet(S), NEW T \in SUBSET S, NEW f, Naturals(f, S)
  PROVE  SumOf(f, S) = SumOf(f, T) + SumOf(f, S \ T) /\ SumOf(f, T) <= SumOf(f, S)
<1>1. IsFiniteSet(T) /\ IsFiniteSet(S \ T) /\ T \cap (S \ T) = {} /\ T \cup (S \ T) = S
  BY FS_Subset
<1>2. Naturals(f, T) /\ Naturals(f, S \ T)
  BY DEF Naturals
<1>3. SumOf(f, T) \in Nat /\ SumOf(f, S \ T) \in Nat
  BY <1>1, <1>2, SumIsNatural
<1>4. SumOf(f, T \cup (S \ T)) = SumOf(f, T) + SumOf(f, S \ T)
  BY <1>1, SumOfUnion
<1>5. SumOf(f, S) = SumOf(f, T) + SumOf(f, S \ T)
  <2>1. T \cup (S \ T) = S
    BY <1>1
  <2> QED
    BY <1>4, <2>1
<1> QED
  BY <1>3, <1>5

\* The values outside a part count for nothing.
LEMMA SumOfSome ==
  ASSUME NEW S, IsFiniteSet(S), NEW T \in SUBSET S, NEW f, NEW g, Naturals(g, T),
         \A x \in S : f[x] = IF x \in T THEN g[x] ELSE 0
  PROVE  SumOf(f, S) = SumOf(g, T)
<1>1. IsFiniteSet(T) /\ IsFiniteSet(S \ T) /\ Naturals(f, S) /\ Naturals(f, T)
  BY FS_Subset DEF Naturals
<1>2. SumOf(f, S \ T) = 0
  BY <1>1, SumOfZeros
<1>3. SumOf(f, T) = SumOf(g, T) /\ SumOf(f, T) \in Nat
  BY <1>1, SumSame, SumIsNatural
<1> QED
  BY <1>1, <1>2, <1>3, SumOfPart

\* FS_Image, of a function.
LEMMA ImageIsFinite ==
  ASSUME NEW S, IsFiniteSet(S), NEW b
  PROVE  IsFiniteSet({b[x] : x \in S})
<1> DEFINE B == {b[x] : x \in S}
           h == [x \in S |-> b[x]]
<1>1. h \in [S -> B] /\ \A y \in B : \E x \in S : h[x] = y
  OBVIOUS
<1> HIDE DEF h, B
<1>2. h \in Surjection(S, B)
  BY <1>1 DEF Surjection
<1>3. IsFiniteSet(B)
  BY <1>2, FS_Surjection
<1> QED
  BY <1>3 DEF B

Renamed(f, g, b, S) ==
  /\ \A x, y \in S : b[x] = b[y] => x = y
  /\ \A x \in S : f[x] = g[b[x]]

\* One thing after the other, or what becomes of them.
LEMMA SumOfImage ==
  ASSUME NEW S, IsFiniteSet(S), NEW b, NEW f, NEW g, Naturals(f, S), Renamed(f, g, b, S)
  PROVE  SumOf(f, S) = SumOf(g, {b[x] : x \in S})
<1> USE DEF Renamed
<1> DEFINE Q == {T \in SUBSET S : SumOf(f, T) = SumOf(g, {b[x] : x \in T})}
<1>1. {} \in Q
  <2>1. {b[x] : x \in {}} = {}
    OBVIOUS
  <2> QED
    BY <2>1, SumOfNone
<1>2. ASSUME NEW T \in SUBSET S, NEW x \in S \ T, T \in Q PROVE T \cup {x} \in Q
  <2> DEFINE B == {b[y] : y \in T}
  <2>0. IsFiniteSet(T) /\ Naturals(f, T \cup {x})
    BY FS_Subset DEF Naturals
  <2>1. IsFiniteSet(B)
    BY <2>0, ImageIsFinite
  <2>2. {b[y] : y \in T \cup {x}} = B \cup {b[x]} /\ b[x] \notin B
    OBVIOUS
  <2>3. Naturals(g, B \cup {b[x]})
    BY <2>0 DEF Naturals
  <2>4. SumOf(f, T \cup {x}) = SumOf(f, T) + f[x]
    BY <2>0, SumWith
  <2> HIDE DEF B
  <2>5. SumOf(g, B \cup {b[x]}) = SumOf(g, B) + g[b[x]]
    BY <2>1, <2>2, <2>3, SumWith
  <2>6. SumOf(f, T) = SumOf(g, B)
    BY <1>2 DEF B
  <2> QED
    BY <2>2, <2>4, <2>5, <2>6
<1> HIDE DEF Q
<1>3. S \in Q
  BY <1>1, <1>2, GrowingFamily
<1> QED
  BY <1>3 DEF Q

WithKey(key, S, k) == {x \in S : key[x] = k}
Keyed(key, S, K) == \A x \in S : key[x] \in K
SumsByKey(g, f, key, S, K) == \A k \in K : g[k] = SumOf(f, WithKey(key, S, k))
NumbersByKey(g, key, S, K) == \A k \in K : g[k] = Cardinality(WithKey(key, S, k))

\* All at once, or key by key.
LEMMA SumByKey ==
  ASSUME NEW S, IsFiniteSet(S), NEW K, IsFiniteSet(K), NEW key, NEW f, NEW g,
         Keyed(key, S, K), Naturals(f, S), SumsByKey(g, f, key, S, K)
  PROVE  SumOf(f, S) = SumOf(g, K)
<1> USE DEF WithKey, Keyed, SumsByKey
<1> DEFINE With(L) == {x \in S : key[x] \in L}
           Q == {L \in SUBSET K : SumOf(f, With(L)) = SumOf(g, L)}
<1>0. Naturals(g, K)
  <2> SUFFICES ASSUME NEW k \in K PROVE SumOf(f, {x \in S : key[x] = k}) \in Nat
    BY DEF Naturals
  <2> DEFINE T == {x \in S : key[x] = k}
  <2>1. IsFiniteSet(T) /\ Naturals(f, T)
    BY FS_Subset DEF Naturals
  <2> HIDE DEF T
  <2>2. SumOf(f, T) \in Nat
    BY <2>1, SumIsNatural
  <2> QED
    BY <2>2 DEF T
<1>1. {} \in Q
  <2>1. With({}) = {}
    OBVIOUS
  <2> QED
    BY <2>1, SumOfNone
<1>2. ASSUME NEW L \in SUBSET K, NEW k \in K \ L, L \in Q PROVE L \cup {k} \in Q
  <2> DEFINE T == {x \in S : key[x] = k}
             W == With(L)
  <2>1. /\ IsFiniteSet(L) /\ IsFiniteSet(T) /\ IsFiniteSet(W)
        /\ W \cap T = {} /\ With(L \cup {k}) = W \cup T
        /\ Naturals(f, W \cup T) /\ Naturals(g, L \cup {k})
    BY <1>0, FS_Subset DEF Naturals
  <2>2. SumOf(g, L \cup {k}) = SumOf(g, L) + g[k]
    BY <2>1, SumWith
  <2>3. g[k] = SumOf(f, T) /\ SumOf(f, W) = SumOf(g, L)
    BY <1>2
  <2>4. SumOf(f, W \cup T) = SumOf(f, W) + SumOf(f, T)
    <3> HIDE DEF T, W
    <3> QED
      BY <2>1, SumOfUnion
  <2> QED
    BY <2>1, <2>2, <2>3, <2>4
<1>3. K \in Q
  <2> HIDE DEF Q
  <2> QED
    BY <1>1, <1>2, GrowingFamily
<1>4. With(K) = S
  OBVIOUS
<1> QED
  BY <1>3, <1>4

LEMMA CardinalityIsSum ==
  ASSUME NEW S, IsFiniteSet(S), NEW f, \A x \in S : f[x] = 1
  PROVE  Cardinality(S) = SumOf(f, S)
<1> DEFINE Q == {T \in SUBSET S : Cardinality(T) = SumOf(f, T)}
<1>1. {} \in Q
  BY SumOfNone, FS_EmptySet
<1>2. ASSUME NEW T \in SUBSET S, NEW x \in S \ T, T \in Q PROVE T \cup {x} \in Q
  <2>1. IsFiniteSet(T) /\ Naturals(f, T \cup {x})
    BY FS_Subset DEF Naturals
  <2>2. SumOf(f, T \cup {x}) = SumOf(f, T) + f[x]
    BY <2>1, SumWith
  <2>3. Cardinality(T \cup {x}) = Cardinality(T) + 1
    BY <2>1, FS_AddElement
  <2>4. f[x] = 1
    OBVIOUS
  <2> QED
    BY <1>2, <2>2, <2>3, <2>4
<1> HIDE DEF Q
<1>3. S \in Q
  BY <1>1, <1>2, GrowingFamily
<1> QED
  BY <1>3 DEF Q

\* Everything that is counted has one of the keys.
LEMMA CountByKey ==
  ASSUME NEW S, IsFiniteSet(S), NEW K, IsFiniteSet(K), NEW key, NEW g,
         Keyed(key, S, K), NumbersByKey(g, key, S, K)
  PROVE  Cardinality(S) = SumOf(g, K)
<1> DEFINE f == [x \in S |-> 1]
<1>1. Naturals(f, S) /\ \A x \in S : f[x] = 1
  BY DEF Naturals
<1> HIDE DEF f
<1>2. SumsByKey(g, f, key, S, K)
  <2> SUFFICES ASSUME NEW k \in K PROVE g[k] = SumOf(f, WithKey(key, S, k))
    BY DEF SumsByKey
  <2> DEFINE T == WithKey(key, S, k)
  <2>1. IsFiniteSet(T) /\ \A x \in T : f[x] = 1
    BY <1>1, FS_Subset DEF WithKey
  <2> HIDE DEF T
  <2>2. Cardinality(T) = SumOf(f, T)
    BY <2>1, CardinalityIsSum
  <2> QED
    BY <2>2 DEF T, NumbersByKey
<1>3. SumOf(f, S) = SumOf(g, K)
  BY <1>1, <1>2, SumByKey
<1>4. Cardinality(S) = SumOf(f, S)
  BY <1>1, CardinalityIsSum
<1> QED
  BY <1>3, <1>4

Sizes(g, part, K) == \A k \in K : IsFiniteSet(part[k]) /\ g[k] = Cardinality(part[k])

\* What is in several parts is counted with each of them.
LEMMA UnionIsAtMost ==
  ASSUME NEW K, IsFiniteSet(K), NEW part, NEW g, Sizes(g, part, K)
  PROVE  Cardinality(UNION {part[k] : k \in K}) <= SumOf(g, K)
<1> DEFINE U(L) == UNION {part[k] : k \in L}
           Q == {L \in SUBSET K : IsFiniteSet(U(L)) /\ Cardinality(U(L)) <= SumOf(g, L)}
<1>1. {} \in Q
  <2>1. U({}) = {}
    OBVIOUS
  <2> QED
    BY <2>1, FS_EmptySet, SumOfNone
<1>2. ASSUME NEW L \in SUBSET K, NEW k \in K \ L, L \in Q PROVE L \cup {k} \in Q
  <2> DEFINE A == U(L)
             B == part[k]
  <2>1. U(L \cup {k}) = A \cup B
    OBVIOUS
  <2>2. IsFiniteSet(L) /\ Naturals(g, L \cup {k}) /\ k \notin L
    BY FS_Subset, FS_CardinalityType DEF Sizes, Naturals
  <2>3. SumOf(g, L \cup {k}) = SumOf(g, L) + g[k] /\ SumOf(g, L) \in Nat
    BY <2>2, SumWith
  <2>4. IsFiniteSet(A) /\ IsFiniteSet(B) /\ Cardinality(A) <= SumOf(g, L) /\ g[k] = Cardinality(B)
    BY <1>2 DEF Sizes
  <2> HIDE DEF A, B, U
  <2>5. /\ IsFiniteSet(A \cup B) /\ IsFiniteSet(A \cap B)
        /\ Cardinality(A \cup B) = Cardinality(A) + Cardinality(B) - Cardinality(A \cap B)
    BY <2>4, FS_Union, FS_Intersection
  <2>6. Cardinality(A \cap B) \in Nat /\ Cardinality(A) \in Nat /\ Cardinality(B) \in Nat
    BY <2>4, <2>5, FS_CardinalityType
  <2>7. Cardinality(A \cup B) <= SumOf(g, L \cup {k})
    BY <2>3, <2>4, <2>5, <2>6
  <2> QED
    BY <2>1, <2>5, <2>7
<1> HIDE DEF Q
<1>3. K \in Q
  BY <1>1, <1>2, GrowingFamily
<1> QED
  BY <1>3 DEF Q

-----------------------------------------------------------------------------
(* The largest of some numbers.                                            *)

LEMMA MaxIs ==
  ASSUME NEW S \in SUBSET Nat, NEW m \in S, \A x \in S : x <= m
  PROVE  Max(S) = m
<1>1. \A x \in S : m >= x
  OBVIOUS
<1> DEFINE n == Max(S)
<1>2. n \in S /\ \A x \in S : n >= x
  BY <1>1 DEF Max
<1> HIDE DEF n
<1>3. n \in Nat /\ m \in Nat /\ n >= m /\ n <= m
  BY <1>2
<1>4. n = m
  BY <1>3
<1> QED
  BY <1>4 DEF n

LEMMA MaxIsThere ==
  ASSUME NEW S \in SUBSET Nat, IsFiniteSet(S), S # {}
  PROVE  Max(S) \in S /\ \A x \in S : x <= Max(S)
<1> DEFINE Q == {T \in SUBSET S : T = {} \/ \E m \in T : \A x \in T : x <= m}
<1>1. {} \in Q
  OBVIOUS
<1>2. ASSUME NEW T \in SUBSET S, NEW y \in S \ T, T \in Q PROVE T \cup {y} \in Q
  <2>1. CASE T = {}
    BY <2>1
  <2>2. CASE T # {}
    <3>1. PICK m \in T : \A x \in T : x <= m
      BY <1>2, <2>2
    <3>2. CASE y <= m
      BY <3>1, <3>2
    <3>3. CASE ~(y <= m)
      <4>1. \A x \in T \cup {y} : x <= y
        BY <3>1, <3>3
      <4> QED
        BY <4>1
    <3> QED
      BY <3>2, <3>3
  <2> QED
    BY <2>1, <2>2
<1> HIDE DEF Q
<1>3. S \in Q
  BY <1>1, <1>2, GrowingFamily
<1>4. PICK m \in S : \A x \in S : x <= m
  BY <1>3 DEF Q
<1> QED
  BY <1>4, MaxIs
=============================================================================
