----------------------------- MODULE Sums_proofs -----------------------------
(***************************************************************************)
(* What the models' sums obey: the open profit of the risk gate, the       *)
(* reserves and payoffs of options positions, the gains of a strategy.     *)
(* They are folds of the community modules, which take the elements of a   *)
(* set in an order that CHOOSE gives; here it is shown that any order      *)
(* gives the same.  Induction over a finite set is stated with the set of  *)
(* the good subsets in place of a predicate.                               *)
(***************************************************************************)
EXTENDS Integers, Sequences, FiniteSets, Functions, FiniteSetsExt, SequencesExt,
        WellFoundedInduction, FiniteSetTheorems, SequenceTheorems, TLAPS

-----------------------------------------------------------------------------
(* Induction, over sets where the library's is over operators.              *)

(* A set of naturals has a least element. *)
LEMMA LeastNumber ==
    ASSUME NEW T \in SUBSET Nat, T # {}
    PROVE  \E n \in T : \A m \in T : ~(m < n)
<1>1. \E x \in T : \A y \in T : ~(<<y, x>> \in OpToRel(<, Nat))
  BY NatLessThanWellFounded, WFMin
<1> QED BY <1>1 DEF OpToRel

(* What holds of 0 and of each successor holds of every natural. *)
LEMMA NumberInduction ==
    ASSUME NEW P, 0 \in P, \A n \in Nat : n \in P => n + 1 \in P
    PROVE  Nat \subseteq P
<1> SUFFICES ASSUME Nat \ P # {} PROVE FALSE
  OBVIOUS
<1>1. PICK n \in Nat \ P : \A m \in Nat \ P : ~(m < n)
  BY LeastNumber
<1>2. n # 0 /\ n - 1 \in Nat /\ n - 1 < n
  BY <1>1
<1>3. n - 1 \in P
  BY <1>1, <1>2
<1> QED BY <1>1, <1>2, <1>3

(* What holds of a subset if it holds of the subset without any one element *)
(* holds of every subset of a finite set.                                   *)
LEMMA SubsetInduction ==
    ASSUME NEW S, IsFiniteSet(S), NEW P,
           \A T \in SUBSET S : (\A x \in T : T \ {x} \in P) => T \in P
    PROVE  \A T \in SUBSET S : T \in P
<1> DEFINE Bad == {T \in SUBSET S : T \notin P}
           Sizes == {Cardinality(T) : T \in Bad}
<1> SUFFICES ASSUME Bad # {} PROVE FALSE
  OBVIOUS
<1>1. \A T \in SUBSET S : IsFiniteSet(T) /\ Cardinality(T) \in Nat
  BY FS_Subset, FS_CardinalityType
<1>2. Sizes \in SUBSET Nat /\ Sizes # {}
  BY <1>1
<1>3. PICK n \in Sizes : \A m \in Sizes : ~(m < n)
  BY <1>2, LeastNumber
<1>4. PICK T \in Bad : Cardinality(T) = n
  BY <1>3
<1>5. ASSUME NEW x \in T PROVE T \ {x} \in P
  <2>1. T \ {x} \in SUBSET S /\ Cardinality(T \ {x}) = Cardinality(T) - 1
    BY <1>1, FS_RemoveElement
  <2>2. Cardinality(T \ {x}) < n
    BY <1>1, <1>4, <2>1
  <2> QED BY <1>3, <2>1, <2>2
<1> QED BY <1>4, <1>5

-----------------------------------------------------------------------------
(* Sums over finite sets of indices.                                        *)
Rest(T) == T \ {CHOOSE x \in T : TRUE}
FirstOf(T) == CHOOSE x \in T : TRUE

IsFold(g, f, S) == g = [T \in SUBSET S |-> IF T = {} THEN 0 ELSE f[FirstOf(T)] + g[Rest(T)]]
FoldOf(f, S) == CHOOSE g : IsFold(g, f, S)
Total(f, S) == FoldOf(f, S)[S]

(* The recursive function that a fold is defined by exists. *)
LEMMA FoldExists ==
    ASSUME NEW S, IsFiniteSet(S), NEW f, \A x \in S : f[x] \in Int
    PROVE  IsFold(FoldOf(f, S), f, S) /\ FoldOf(f, S) \in [SUBSET S -> Int]
<1> DEFINE Small(n) == {T \in SUBSET S : Cardinality(T) <= n}
           Unfold(g, T) == IF T = {} THEN 0 ELSE f[FirstOf(T)] + g[Rest(T)]
           Good(g, n) == \A T \in Small(n) : g[T] = Unfold(g, T)
           P == {n \in Nat : \E g \in [Small(n) -> Int] : Good(g, n)}
<1>1. \A T \in SUBSET S : IsFiniteSet(T) /\ Cardinality(T) \in Nat
  BY FS_Subset, FS_CardinalityType
<1>2. \A T \in SUBSET S : T # {} => /\ FirstOf(T) \in T /\ Rest(T) \in SUBSET S
                                    /\ Cardinality(Rest(T)) = Cardinality(T) - 1
  BY <1>1, FS_RemoveElement DEF FirstOf, Rest
<1>3. 0 \in P
  <2>1. \A T \in Small(0) : T = {}
    BY <1>1, FS_EmptySet
  <2>2. [T \in Small(0) |-> 0] \in [Small(0) -> Int] /\ Good([T \in Small(0) |-> 0], 0)
    BY <2>1
  <2> QED BY <2>2
<1>4. ASSUME NEW n \in Nat, n \in P PROVE n + 1 \in P
  <2>1. PICK g \in [Small(n) -> Int] : Good(g, n)
    BY <1>4
  <2> DEFINE h == [T \in Small(n + 1) |-> Unfold(g, T)]
  <2>2. \A T \in Small(n + 1) : T # {} => Rest(T) \in Small(n)
    BY <1>1, <1>2
  <2>3. h \in [Small(n + 1) -> Int]
    BY <2>1, <2>2, <1>2
  <2>4. \A T \in Small(n) : T \in Small(n + 1) /\ h[T] = g[T]
    BY <2>1, <1>1
  <2>5. ASSUME NEW T \in Small(n + 1) PROVE h[T] = Unfold(h, T)
    BY <2>2, <2>4
  <2>6. \E g2 \in [Small(n + 1) -> Int] : Good(g2, n + 1)
    <3> HIDE DEF h
    <3> WITNESS h \in [Small(n + 1) -> Int]
    <3> QED BY <2>5
  <2>7. n + 1 \in Nat
    OBVIOUS
  <2> HIDE DEF Good, Small
  <2> QED BY <2>6, <2>7
<1>5. Nat \subseteq P
  BY <1>3, <1>4, NumberInduction
<1>6. Cardinality(S) \in P
  BY <1>1, <1>5
<1>7. Small(Cardinality(S)) = SUBSET S
  BY FS_Subset, FS_CardinalityType
<1>8. PICK g \in [SUBSET S -> Int] : Good(g, Cardinality(S))
  BY <1>6, <1>7
<1>9. IsFold(g, f, S)
  BY <1>7, <1>8 DEF IsFold
<1>10. IsFold(FoldOf(f, S), f, S)
  BY <1>9 DEF FoldOf
<1> DEFINE G == FoldOf(f, S)
<1>11. G = [T \in SUBSET S |-> Unfold(G, T)]
  BY <1>10 DEF IsFold
<1>12. \A T \in SUBSET S : G[T] \in Int
  <2> DEFINE Q == {T \in SUBSET S : G[T] \in Int}
  <2>1. ASSUME NEW T \in SUBSET S, \A x \in T : T \ {x} \in Q PROVE T \in Q
    <3>1. CASE T = {} BY <1>11, <3>1
    <3>2. CASE T # {}
      <4>1. Rest(T) \in Q BY <1>2, <2>1, <3>2 DEF Rest, FirstOf
      <4> HIDE DEF G
      <4>2. G[T] = f[FirstOf(T)] + G[Rest(T)] BY <1>11, <3>2
      <4> QED BY <4>1, <4>2, <1>2, <3>2
    <3> QED BY <3>1, <3>2
  <2> HIDE DEF Q
  <2>2. \A T \in SUBSET S : T \in Q
    BY <2>1, SubsetInduction
  <2> QED BY <2>2 DEF Q
<1> QED BY <1>10, <1>11, <1>12

(* A fold does not depend on the order in which it takes the elements. *)
LEMMA FoldTakesAny ==
    ASSUME NEW S, IsFiniteSet(S), NEW f, \A x \in S : f[x] \in Int
    PROVE  /\ FoldOf(f, S)[{}] = 0
           /\ \A T \in SUBSET S : \A x \in T : FoldOf(f, S)[T] = f[x] + FoldOf(f, S)[T \ {x}]
<1> DEFINE G == FoldOf(f, S)
           P == {T \in SUBSET S : \A x \in T : G[T] = f[x] + G[T \ {x}]}
<1>1. G \in [SUBSET S -> Int] /\ IsFold(G, f, S)
  BY FoldExists
<1> HIDE DEF G
<1>2. G[{}] = 0
  BY <1>1 DEF IsFold
<1>3. \A T \in SUBSET S : T # {} => /\ FirstOf(T) \in T
                                    /\ G[T] = f[FirstOf(T)] + G[T \ {FirstOf(T)}]
  BY <1>1 DEF IsFold, FirstOf, Rest
<1>4. ASSUME NEW T \in SUBSET S, \A x \in T : T \ {x} \in P PROVE T \in P
  <2> SUFFICES ASSUME NEW x \in T PROVE G[T] = f[x] + G[T \ {x}]
    OBVIOUS
  <2> DEFINE c == FirstOf(T)
  <2>1. c \in T /\ G[T] = f[c] + G[T \ {c}]
    BY <1>3
  <2> HIDE DEF c
  <2>2. CASE x = c
    BY <2>1, <2>2, Zenon
  <2>3. CASE x # c
    <3>1. T \ {c} \in P /\ T \ {x} \in P
      BY <1>4, <2>1
    <3> DEFINE u == G[(T \ {x}) \ {c}]
               v == G[T \ {c}]
               w == G[T \ {x}]
    <3>2. (T \ {c}) \ {x} = (T \ {x}) \ {c}
      OBVIOUS
    <3>3. v = f[x] + u /\ w = f[c] + u
      BY <2>1, <2>3, <3>1, <3>2
    <3>4. f[x] \in Int /\ f[c] \in Int /\ u \in Int
      BY <1>1, <2>1
    <3>5. G[T] = f[c] + v
      BY <2>1
    <3> HIDE DEF u, v
    <3>6. G[T] = f[x] + w
      BY <3>3, <3>4, <3>5
    <3> QED BY <3>6
  <2> QED BY <2>2, <2>3
<1>5. \A T \in SUBSET S : T \in P
  <2> HIDE DEF P
  <2> QED BY <1>4, SubsetInduction
<1> QED BY <1>2, <1>5 DEF G

(* The fold of a set depends on its elements and their values only. *)
LEMMA FoldIsLocal ==
    ASSUME NEW S, IsFiniteSet(S), NEW f, \A x \in S : f[x] \in Int,
           NEW R, IsFiniteSet(R), NEW h, \A x \in R : h[x] \in Int,
           S \subseteq R, \A x \in S : h[x] = f[x]
    PROVE  \A T \in SUBSET S : FoldOf(f, S)[T] = FoldOf(h, R)[T]
<1> DEFINE P == {T \in SUBSET S : FoldOf(f, S)[T] = FoldOf(h, R)[T]}
<1>0. /\ \A T \in SUBSET S : \A x \in T : FoldOf(f, S)[T] = f[x] + FoldOf(f, S)[T \ {x}]
      /\ \A T \in SUBSET R : \A x \in T : FoldOf(h, R)[T] = h[x] + FoldOf(h, R)[T \ {x}]
  BY FoldTakesAny
<1>1. ASSUME NEW T \in SUBSET S, \A x \in T : T \ {x} \in P PROVE T \in P
  <2>1. CASE T = {} BY <2>1, FoldTakesAny
  <2>2. CASE T # {}
    <3>1. PICK x \in T : TRUE BY <2>2
    <3>2. FoldOf(f, S)[T] = f[x] + FoldOf(f, S)[T \ {x}]
      BY <1>0
    <3>3. FoldOf(h, R)[T] = h[x] + FoldOf(h, R)[T \ {x}]
      BY <1>0
    <3> QED BY <1>1, <3>1, <3>2, <3>3
  <2> QED BY <2>1, <2>2
<1> HIDE DEF P
<1>2. \A T \in SUBSET S : T \in P
  BY <1>1, SubsetInduction
<1> QED BY <1>2 DEF P

(* A total is an integer; that of nothing is 0, and any element can be      *)
(* taken out.                                                               *)
LEMMA TotalRules ==
    ASSUME NEW S, IsFiniteSet(S), NEW f, \A x \in S : f[x] \in Int
    PROVE  /\ Total(f, S) \in Int
           /\ Total(f, {}) = 0
           /\ \A x \in S : Total(f, S) = f[x] + Total(f, S \ {x})
<1>1. Total(f, S) \in Int
  BY FoldExists DEF Total
<1>2. Total(f, {}) = 0
  BY FoldTakesAny, FS_EmptySet DEF Total
<1>3. ASSUME NEW x \in S PROVE Total(f, S) = f[x] + Total(f, S \ {x})
  <2>1. FoldOf(f, S)[S] = f[x] + FoldOf(f, S)[S \ {x}]
    BY FoldTakesAny
  <2>2. IsFiniteSet(S \ {x}) BY FS_RemoveElement
  <2>3. FoldOf(f, S \ {x})[S \ {x}] = FoldOf(f, S)[S \ {x}]
    BY <2>2, FoldIsLocal
  <2> QED BY <2>1, <2>3 DEF Total
<1> QED BY <1>1, <1>2, <1>3

(* Equal values have equal totals. *)
LEMMA TotalOfEqual ==
    ASSUME NEW S, IsFiniteSet(S), NEW f, \A x \in S : f[x] \in Int,
           NEW h, \A x \in S : h[x] = f[x]
    PROVE  Total(h, S) = Total(f, S)
BY FoldIsLocal DEF Total

LEMMA TotalIsNatural ==
    ASSUME NEW S, IsFiniteSet(S), NEW f, \A x \in S : f[x] \in Nat
    PROVE  Total(f, S) \in Nat
<1> DEFINE P == {T \in SUBSET S : Total(f, T) \in Nat}
<1>1. ASSUME NEW T \in SUBSET S, \A x \in T : T \ {x} \in P PROVE T \in P
  <2>1. IsFiniteSet(T) /\ \A x \in T : f[x] \in Int
    BY FS_Subset
  <2>2. CASE T = {}
    <3>1. Total(f, {}) = 0 BY <2>1, <2>2, TotalRules
    <3> QED BY <2>2, <3>1
  <2>3. CASE T # {}
    <3>1. PICK x \in T : TRUE BY <2>3
    <3>2. Total(f, T) = f[x] + Total(f, T \ {x})
      BY <2>1, TotalRules
    <3> QED BY <1>1, <3>1, <3>2
  <2> QED BY <2>2, <2>3
<1>2. \A T \in SUBSET S : T \in P
  <2> HIDE DEF P
  <2> QED BY <1>1, SubsetInduction
<1> QED BY <1>2

(* Fewer values, counted from zero up, have no greater total. *)
LEMMA TotalOfFewer ==
    ASSUME NEW S, IsFiniteSet(S), NEW R, IsFiniteSet(R),
           NEW h, \A y \in R : h[y] \in Nat,
           NEW g \in [S -> R], \A x, y \in S : g[x] = g[y] => x = y,
           NEW f, \A x \in S : f[x] = h[g[x]]
    PROVE  Total(f, S) <= Total(h, R)
<1> DEFINE Within(T, Q) == \A x \in T : g[x] \in Q
           P == {T \in SUBSET S : \A Q \in SUBSET R : Within(T, Q) => Total(f, T) <= Total(h, Q)}
<1>0. \A x \in S : f[x] \in Nat
  OBVIOUS
<1>1. ASSUME NEW T \in SUBSET S, \A x \in T : T \ {x} \in P PROVE T \in P
  <2> SUFFICES ASSUME NEW Q \in SUBSET R, Within(T, Q) PROVE Total(f, T) <= Total(h, Q)
    OBVIOUS
  <2>1. /\ IsFiniteSet(T) /\ IsFiniteSet(Q)
        /\ \A x \in T : f[x] \in Nat /\ f[x] \in Int
        /\ \A y \in Q : h[y] \in Nat
    BY <1>0, FS_Subset
  <2>2. CASE T = {}
    <3>1. Total(f, {}) = 0 BY <2>1, <2>2, TotalRules
    <3>2. Total(h, Q) \in Nat BY <2>1, TotalIsNatural
    <3> QED BY <2>2, <3>1, <3>2
  <2>3. CASE T # {}
    <3>1. PICK x \in T : TRUE BY <2>3
    <3>2. Total(f, T) = f[x] + Total(f, T \ {x})
      BY <2>1, TotalRules
    <3>3. g[x] \in Q /\ Total(h, Q) = h[g[x]] + Total(h, Q \ {g[x]})
      BY <2>1, TotalRules
    <3>4. Within(T \ {x}, Q \ {g[x]})
      OBVIOUS
    <3>5. Total(f, T \ {x}) <= Total(h, Q \ {g[x]})
      BY <1>1, <3>4
    <3>6. IsFiniteSet(T \ {x}) /\ IsFiniteSet(Q \ {g[x]})
      BY <2>1, FS_RemoveElement
    <3>7. Total(f, T \ {x}) \in Nat /\ Total(h, Q \ {g[x]}) \in Nat
      BY <2>1, <3>6, TotalIsNatural
    <3>8. f[x] = h[g[x]] /\ f[x] \in Nat
      BY <1>0
    <3> QED BY <3>2, <3>3, <3>5, <3>7, <3>8
  <2> QED BY <2>2, <2>3
<1>2. \A T \in SUBSET S : T \in P
  <2> HIDE DEF P
  <2> QED BY <1>1, SubsetInduction
<1> QED BY <1>2

(* One value more by one, the others as they are: one more in all. *)
LEMMA TotalOfOneMore ==
    ASSUME NEW S, IsFiniteSet(S), NEW k \in S, NEW f, \A x \in S : f[x] \in Int,
           NEW h, h[k] = f[k] + 1, \A x \in S \ {k} : h[x] = f[x]
    PROVE  Total(h, S) = Total(f, S) + 1
<1>1. IsFiniteSet(S \ {k}) /\ \A x \in S : h[x] \in Int
  <2>1. h[k] \in Int OBVIOUS
  <2> QED BY <2>1, FS_RemoveElement
<1>2. Total(h, S \ {k}) = Total(f, S \ {k}) /\ Total(f, S \ {k}) \in Int
  BY <1>1, TotalOfEqual, TotalRules
<1>3. Total(f, S) = f[k] + Total(f, S \ {k}) /\ Total(h, S) = h[k] + Total(h, S \ {k})
  BY <1>1, TotalRules
<1>4. f[k] \in Int
  OBVIOUS
<1> QED BY <1>2, <1>3, <1>4

LEMMA TotalOfZeros ==
    ASSUME NEW S, IsFiniteSet(S), NEW f, \A x \in S : f[x] = 0
    PROVE  Total(f, S) = 0
<1> DEFINE P == {T \in SUBSET S : Total(f, T) = 0}
<1>1. ASSUME NEW T \in SUBSET S, \A x \in T : T \ {x} \in P PROVE T \in P
  <2>1. IsFiniteSet(T) /\ \A x \in T : f[x] \in Int
    BY FS_Subset
  <2>2. CASE T = {}
    <3>1. Total(f, {}) = 0 BY <2>1, <2>2, TotalRules
    <3> QED BY <2>2, <3>1
  <2>3. CASE T # {}
    <3>1. PICK x \in T : TRUE BY <2>3
    <3>2. Total(f, T) = f[x] + Total(f, T \ {x})
      BY <2>1, TotalRules
    <3> QED BY <1>1, <3>1, <3>2
  <2> QED BY <2>2, <2>3
<1>2. \A T \in SUBSET S : T \in P
  <2> HIDE DEF P
  <2> QED BY <1>1, SubsetInduction
<1> QED BY <1>2

(* The sums of the community modules are totals. *)
LEMMA SumFunctionIsTotal ==
    ASSUME NEW f, NEW S
    PROVE  SumFunctionOnSet(f, S) = Total(f, S) /\ SumFunction(f) = Total(f, DOMAIN f)
BY DEF SumFunction, SumFunctionOnSet, FoldFunctionOnSet, MapThenFoldSet, Total, FoldOf, IsFold, FirstOf, Rest

LEMMA TotalIsInteger ==
    ASSUME NEW f, IsFiniteSet(DOMAIN f), \A x \in DOMAIN f : f[x] \in Int
    PROVE  SumFunction(f) \in Int
BY SumFunctionIsTotal, TotalRules

(* A finite set of integers has a greatest and a least element. *)
LEMMA Extremes ==
    ASSUME NEW S \in SUBSET Int, IsFiniteSet(S), S # {}
    PROVE  /\ Max(S) \in S /\ \A x \in S : x <= Max(S)
           /\ Min(S) \in S /\ \A x \in S : Min(S) <= x
<1> DEFINE Good(T) == T # {} => \E a, b \in T : \A x \in T : a <= x /\ x <= b
           P == {T \in SUBSET S : Good(T)}
<1>1. ASSUME NEW T \in SUBSET S, \A x \in T : T \ {x} \in P PROVE T \in P
  <2> SUFFICES ASSUME T # {} PROVE \E a, b \in T : \A x \in T : a <= x /\ x <= b
    OBVIOUS
  <2>1. PICK y \in T : TRUE
    OBVIOUS
  <2>2. CASE T = {y}
    BY <2>2
  <2>3. CASE T # {y}
    <3>1. PICK a, b \in T \ {y} : \A x \in T \ {y} : a <= x /\ x <= b
      BY <1>1, <2>1, <2>3
    <3>2. a \in Int /\ b \in Int /\ y \in Int
      OBVIOUS
    <3>3. PICK lo \in T, hi \in T : lo <= y /\ lo <= a /\ y <= hi /\ b <= hi /\ lo \in Int /\ hi \in Int
      BY <3>2
    <3>4. \A x \in T : x \in Int
      OBVIOUS
    <3>5. \A x \in T : lo <= x /\ x <= hi
      BY <3>1, <3>2, <3>3, <3>4
    <3> QED BY <3>5
  <2> QED BY <2>2, <2>3
<1>2. \A T \in SUBSET S : T \in P
  <2> HIDE DEF P
  <2> QED BY <1>1, SubsetInduction
<1>3. PICK a, b \in S : \A x \in S : a <= x /\ x <= b
  BY <1>2
<1>4. Max(S) \in S /\ \A y \in S : Max(S) >= y
  BY <1>3 DEF Max
<1>5. Min(S) \in S /\ \A y \in S : Min(S) <= y
  BY <1>3 DEF Min
<1> QED BY <1>4, <1>5

(* The values of a function on a finite set are finitely many. *)
LEMMA ValuesAreFinite ==
    ASSUME NEW f, IsFiniteSet(DOMAIN f)
    PROVE  IsFiniteSet(Range(f))
<1> DEFINE g == [x \in DOMAIN f |-> f[x]]
<1>2. g \in Surjection(DOMAIN f, Range(f))
  BY DEF Surjection, Range
<1> QED BY <1>2, FS_Surjection

LEMMA RemoveAtSound ==
    ASSUME NEW S, NEW s \in Seq(S), NEW i \in 1..Len(s)
    PROVE  /\ RemoveAt(s, i) \in Seq(S)
           /\ Len(RemoveAt(s, i)) = Len(s) - 1
           /\ \A k \in 1..(Len(s) - 1) : RemoveAt(s, i)[k] = s[IF k < i THEN k ELSE k + 1]
<1>1. Len(s) \in Nat /\ \A k \in 1..Len(s) : s[k] \in S
  BY LenProperties, ElementOfSeq
<1> DEFINE a == SubSeq(s, 1, i - 1)
           b == SubSeq(s, i + 1, Len(s))
<1>2. /\ a \in Seq(S) /\ Len(a) = i - 1 /\ \A k \in 1..(i - 1) : a[k] = s[k]
  <2>1. /\ SubSeq(s, 1, i - 1) \in Seq(S) /\ Len(SubSeq(s, 1, i - 1)) = IF 1 <= i - 1 THEN (i - 1) - 1 + 1 ELSE 0
        /\ \A k \in 1..((i - 1) - 1 + 1) : SubSeq(s, 1, i - 1)[k] = s[1 + k - 1]
    BY <1>1, SubSeqProperties
  <2> QED BY <2>1
<1>3. /\ b \in Seq(S) /\ Len(b) = Len(s) - i /\ \A k \in 1..(Len(s) - i) : b[k] = s[k + i]
  <2>1. /\ SubSeq(s, i + 1, Len(s)) \in Seq(S)
        /\ Len(SubSeq(s, i + 1, Len(s))) = IF i + 1 <= Len(s) THEN Len(s) - (i + 1) + 1 ELSE 0
        /\ \A k \in 1..(Len(s) - (i + 1) + 1) : SubSeq(s, i + 1, Len(s))[k] = s[(i + 1) + k - 1]
    BY <1>1, SubSeqProperties
  <2> QED BY <2>1, <1>1
<1>4. RemoveAt(s, i) = a \o b
  BY DEF RemoveAt
<1> HIDE DEF a, b
<1>5. /\ a \o b \in Seq(S) /\ Len(a \o b) = Len(a) + Len(b)
      /\ \A k \in 1..(Len(a) + Len(b)) : (a \o b)[k] = IF k <= Len(a) THEN a[k] ELSE b[k - Len(a)]
  BY <1>2, <1>3, ConcatProperties
<1>6. ASSUME NEW k \in 1..(Len(s) - 1) PROVE (a \o b)[k] = s[IF k < i THEN k ELSE k + 1]
  <2>1. CASE k < i BY <1>1, <1>2, <1>3, <1>5, <2>1
  <2>2. CASE ~(k < i)
    <3>1. k - (i - 1) \in 1..(Len(s) - i) /\ (k - (i - 1)) + i = k + 1 BY <1>1, <2>2
    <3>2. (a \o b)[k] = b[k - (i - 1)] BY <1>1, <1>2, <1>3, <1>5, <2>2
    <3>3. b[k - (i - 1)] = s[k + 1]
      BY <1>3, <3>1
    <3> QED BY <2>2, <3>2, <3>3
  <2> QED BY <2>1, <2>2
<1> QED BY <1>1, <1>2, <1>3, <1>4, <1>5, <1>6

-----------------------------------------------------------------------------
(* Totals are linear, and greater for greater values. *)
LEMMA TotalIsLinear ==
    ASSUME NEW S, IsFiniteSet(S), NEW f, NEW g, NEW h, NEW c \in Int, NEW a \in Int, NEW b \in Int,
           \A x \in S : f[x] \in Int /\ g[x] \in Int /\ h[x] \in Int,
           \A x \in S : c * f[x] = a * g[x] + b * h[x]
    PROVE  c * Total(f, S) = a * Total(g, S) + b * Total(h, S)
<1> DEFINE P == {T \in SUBSET S : c * Total(f, T) = a * Total(g, T) + b * Total(h, T)}
<1>1. ASSUME NEW T \in SUBSET S, \A x \in T : T \ {x} \in P PROVE T \in P
  <2>1. IsFiniteSet(T) /\ \A x \in T : f[x] \in Int /\ g[x] \in Int /\ h[x] \in Int
    BY FS_Subset
  <2>2. CASE T = {}
    <3>1. Total(f, {}) = 0 /\ Total(g, {}) = 0 /\ Total(h, {}) = 0
      BY <2>1, <2>2, TotalRules
    <3> QED BY <2>2, <3>1
  <2>3. CASE T # {}
    <3>1. PICK x \in T : TRUE BY <2>3
    <3>2. /\ Total(f, T) = f[x] + Total(f, T \ {x})
          /\ Total(g, T) = g[x] + Total(g, T \ {x})
          /\ Total(h, T) = h[x] + Total(h, T \ {x})
      BY <2>1, <3>1, TotalRules
    <3>3. /\ IsFiniteSet(T \ {x})
          /\ Total(f, T \ {x}) \in Int /\ Total(g, T \ {x}) \in Int /\ Total(h, T \ {x}) \in Int
      <4>1. IsFiniteSet(T \ {x}) /\ \A y \in T \ {x} : f[y] \in Int /\ g[y] \in Int /\ h[y] \in Int
        BY <2>1, FS_Subset
      <4> QED BY <4>1, TotalRules
    <3>4. c * Total(f, T \ {x}) = a * Total(g, T \ {x}) + b * Total(h, T \ {x})
      BY <1>1, <3>1
    <3>5. c * f[x] = a * g[x] + b * h[x] /\ f[x] \in Int /\ g[x] \in Int /\ h[x] \in Int
      BY <3>1
    <3> DEFINE f1 == f[x]  f2 == Total(f, T \ {x})
               g1 == g[x]  g2 == Total(g, T \ {x})
               h1 == h[x]  h2 == Total(h, T \ {x})
    <3>6. {f1, f2, g1, g2, h1, h2} \subseteq Int /\ c * f1 = a * g1 + b * h1 /\ c * f2 = a * g2 + b * h2
      BY <3>3, <3>4, <3>5
    <3>7. Total(f, T) = f1 + f2 /\ Total(g, T) = g1 + g2 /\ Total(h, T) = h1 + h2
      BY <3>2
    <3> HIDE DEF f1, f2, g1, g2, h1, h2
    <3>8. c * (f1 + f2) = c * f1 + c * f2
      BY <3>6
    <3>9. a * (g1 + g2) = a * g1 + a * g2
      BY <3>6
    <3>10. b * (h1 + h2) = b * h1 + b * h2
      BY <3>6
    <3>11. {c * f1, c * f2, a * g1, a * g2, b * h1, b * h2} \subseteq Int
      BY <3>6
    <3> QED BY <3>6, <3>7, <3>8, <3>9, <3>10, <3>11
  <2> QED BY <2>2, <2>3
<1>2. \A T \in SUBSET S : T \in P
  <2> HIDE DEF P
  <2> QED BY <1>1, SubsetInduction
<1> QED BY <1>2

LEMMA TotalIsMonotone ==
    ASSUME NEW S, IsFiniteSet(S), NEW f, NEW h,
           \A x \in S : f[x] \in Int /\ h[x] \in Int /\ f[x] <= h[x]
    PROVE  Total(f, S) <= Total(h, S)
<1> DEFINE P == {T \in SUBSET S : Total(f, T) <= Total(h, T)}
<1>1. ASSUME NEW T \in SUBSET S, \A x \in T : T \ {x} \in P PROVE T \in P
  <2>1. IsFiniteSet(T) /\ \A x \in T : f[x] \in Int /\ h[x] \in Int
    BY FS_Subset
  <2>2. CASE T = {}
    <3>1. Total(f, {}) = 0 /\ Total(h, {}) = 0
      BY <2>1, <2>2, TotalRules
    <3> QED BY <2>2, <3>1
  <2>3. CASE T # {}
    <3>1. PICK x \in T : TRUE BY <2>3
    <3>2. Total(f, T) = f[x] + Total(f, T \ {x}) /\ Total(h, T) = h[x] + Total(h, T \ {x})
      BY <2>1, <3>1, TotalRules
    <3>3. Total(f, T \ {x}) \in Int /\ Total(h, T \ {x}) \in Int
      <4>1. IsFiniteSet(T \ {x}) /\ \A y \in T \ {x} : f[y] \in Int /\ h[y] \in Int
        BY <2>1, FS_Subset
      <4> QED BY <4>1, TotalRules
    <3>4. Total(f, T \ {x}) <= Total(h, T \ {x})
      BY <1>1, <3>1
    <3> QED BY <3>1, <3>2, <3>3, <3>4
  <2> QED BY <2>2, <2>3
<1>2. \A T \in SUBSET S : T \in P
  <2> HIDE DEF P
  <2> QED BY <1>1, SubsetInduction
<1> QED BY <1>2

(* A table of what legs pay at prices, q[l] * m[l][s]: R its rows, one for  *)
(* each price s of weight w[s], M its columns, weighted and for one of each *)
(* leg; v is W times fair if it is the mean of m, A what the legs are worth *)
(* and B what they pay, weighted.                                           *)
FairTable(D, w, W, L, q, v, m, A, M, R, B) ==
    /\ IsFiniteSet(D) /\ IsFiniteSet(L) /\ W \in Int
    /\ \A s \in D : w[s] \in Int /\ B[s] = w[s] * Total(R[s], L)
    /\ \A l \in L : /\ q[l] \in Int /\ v[l] \in Int /\ A[l] = q[l] * v[l]
                    /\ W * v[l] = Total(M[l], D)
    /\ \A l \in L : \A s \in D :
          m[l][s] \in Int /\ M[l][s] = w[s] * m[l][s] /\ R[s][l] = q[l] * m[l][s]

(* A total of means is the mean of the totals: what legs with fair prices   *)
(* are worth together is fair.                                              *)
LEMMA MeanOfTotals ==
    ASSUME NEW D, NEW w, NEW W, NEW L, NEW q, NEW v, NEW m, NEW A, NEW M, NEW R, NEW B,
           FairTable(D, w, W, L, q, v, m, A, M, R, B)
    PROVE  W * Total(A, L) = Total(B, D)
<1> USE DEF FairTable
<1> DEFINE Part(T) == [s \in D |-> w[s] * Total(R[s], T)]
           P == {T \in SUBSET L : W * Total(A, T) = Total(Part(T), D)}
<1>1. \A l \in L : A[l] \in Int /\ A[l] = q[l] * v[l]
  OBVIOUS
<1>2. \A s \in D : \A l \in L : R[s][l] \in Int /\ R[s][l] = q[l] * m[l][s]
  OBVIOUS
<1>3. ASSUME NEW T \in SUBSET L
      PROVE  /\ IsFiniteSet(T) /\ Total(A, T) \in Int
             /\ \A s \in D : /\ Total(R[s], T) \in Int
                             /\ Part(T)[s] = w[s] * Total(R[s], T) /\ Part(T)[s] \in Int
             /\ Total(Part(T), D) \in Int
  <2>1. IsFiniteSet(T) BY FS_Subset
  <2>2. Total(A, T) \in Int
    BY <1>1, <2>1, TotalRules
  <2>3. \A s \in D : Total(R[s], T) \in Int
    <3> SUFFICES ASSUME NEW s \in D PROVE Total(R[s], T) \in Int
      OBVIOUS
    <3>1. \A l \in T : R[s][l] \in Int BY <1>2
    <3> QED BY <2>1, <3>1, TotalRules
  <2>4. \A s \in D : Part(T)[s] = w[s] * Total(R[s], T) /\ Part(T)[s] \in Int
    BY <2>3
  <2>5. Total(Part(T), D) \in Int
    <3> HIDE DEF Part
    <3> QED BY <2>4, TotalRules
  <2> QED BY <2>1, <2>2, <2>3, <2>4, <2>5
<1>4. \A l \in L : /\ W * v[l] = Total(M[l], D) /\ Total(M[l], D) \in Int
                   /\ \A s \in D : M[l][s] = w[s] * m[l][s] /\ M[l][s] \in Int
  <2> SUFFICES ASSUME NEW l \in L
               PROVE  /\ W * v[l] = Total(M[l], D) /\ Total(M[l], D) \in Int
                      /\ \A s \in D : M[l][s] = w[s] * m[l][s] /\ M[l][s] \in Int
    OBVIOUS
  <2>1. \A s \in D : M[l][s] = w[s] * m[l][s] /\ M[l][s] \in Int
    OBVIOUS
  <2>2. W * v[l] = Total(M[l], D) OBVIOUS
  <2> QED BY <2>1, <2>2, TotalRules
<1>5. ASSUME NEW T \in SUBSET L, \A x \in T : T \ {x} \in P PROVE T \in P
  <2>1. CASE T = {}
    <3>1. Total(A, T) = 0
      BY <1>1, <2>1, <1>3, TotalRules
    <3>2. \A s \in D : Total(R[s], T) = 0
      <4> SUFFICES ASSUME NEW s \in D PROVE Total(R[s], T) = 0
        OBVIOUS
      <4>1. \A l \in T : R[s][l] \in Int BY <1>2
      <4> QED BY <1>3, <2>1, <4>1, TotalRules
    <3>3. \A s \in D : Part(T)[s] = 0
      <4>1. \A s \in D : Part(T)[s] = w[s] * Total(R[s], T)
        BY <1>3
      <4> HIDE DEF Part
      <4> QED BY <3>2, <4>1
    <3>4. Total(Part(T), D) = 0
      <4> HIDE DEF Part
      <4> QED BY <3>3, TotalOfZeros
    <3> HIDE DEF Part
    <3> QED BY <3>1, <3>4
  <2>2. CASE T # {}
    <3>1. PICK x \in T : TRUE BY <2>2
    <3> DEFINE Q == T \ {x}
    <3>2. Q \in SUBSET L /\ Q \in P /\ x \in L
      BY <1>5, <3>1
    <3>3. Total(A, T) = q[x] * v[x] + Total(A, Q)
      <4>1. IsFiniteSet(T) /\ (\A l \in T : A[l] \in Int) /\ A[x] = q[x] * v[x]
        BY <1>1, <1>3, <3>1
      <4>2. Total(A, T) = A[x] + Total(A, Q)
        BY <3>1, <4>1, TotalRules
      <4> QED BY <4>1, <4>2, Zenon
    <3>4. \A s \in D : Total(R[s], T) = q[x] * m[x][s] + Total(R[s], Q)
      <4> SUFFICES ASSUME NEW s \in D PROVE Total(R[s], T) = q[x] * m[x][s] + Total(R[s], Q)
        OBVIOUS
      <4>1. IsFiniteSet(T) /\ (\A l \in T : R[s][l] \in Int) /\ R[s][x] = q[x] * m[x][s]
        BY <1>2, <1>3, <3>1
      <4>2. Total(R[s], T) = R[s][x] + Total(R[s], Q)
        BY <3>1, <4>1, TotalRules
      <4> QED BY <4>1, <4>2, Zenon
    <3>5. \A s \in D : 1 * Part(T)[s] = q[x] * M[x][s] + 1 * Part(Q)[s]
      <4> SUFFICES ASSUME NEW s \in D PROVE 1 * Part(T)[s] = q[x] * M[x][s] + 1 * Part(Q)[s]
        OBVIOUS
      <4> DEFINE r == Total(R[s], Q)
      <4>1. /\ Part(T)[s] = w[s] * Total(R[s], T) /\ Part(Q)[s] = w[s] * r
            /\ r \in Int /\ Total(R[s], T) = q[x] * m[x][s] + r
        BY <1>3, <3>2, <3>4
      <4>2. M[x][s] = w[s] * m[x][s] /\ w[s] \in Int /\ m[x][s] \in Int /\ q[x] \in Int
        BY <1>4, <3>2
      <4>3. \A i, j, k, n \in Int : 1 * (i * (j * k + n)) = j * (i * k) + 1 * (i * n)
        OBVIOUS
      <4> HIDE DEF r, Part
      <4> QED BY <4>1, <4>2, <4>3
    <3>6. 1 * Total(Part(T), D) = q[x] * Total(M[x], D) + 1 * Total(Part(Q), D)
      <4>1. \A s \in D : Part(T)[s] \in Int /\ M[x][s] \in Int /\ Part(Q)[s] \in Int
        BY <1>3, <1>4, <3>2
      <4>2. q[x] \in Int BY <3>2
      <4> HIDE DEF Part, Q
      <4> QED BY <3>5, <4>1, <4>2, TotalIsLinear
    <3>7. W * Total(A, Q) = Total(Part(Q), D)
      BY <3>2
    <3>8. /\ Total(Part(T), D) \in Int /\ Total(Part(Q), D) \in Int /\ Total(A, Q) \in Int
          /\ W * v[x] = Total(M[x], D) /\ Total(M[x], D) \in Int /\ v[x] \in Int /\ q[x] \in Int
      BY <1>3, <1>4, <3>2
    <3>9. \A i, j, k \in Int : W * (j * i + k) = j * (W * i) + W * k
      OBVIOUS
    <3>10. W * Total(A, T) = Total(Part(T), D)
      <4> HIDE DEF Part, Q
      <4> QED BY <3>3, <3>6, <3>7, <3>8, <3>9
    <3> QED BY <3>10
  <2> QED BY <2>1, <2>2
<1>6. \A T \in SUBSET L : T \in P
  <2> HIDE DEF P
  <2> QED BY <1>5, SubsetInduction
<1>7. W * Total(A, L) = Total(Part(L), D)
  BY <1>6
<1>8. \A s \in D : Part(L)[s] \in Int /\ B[s] = Part(L)[s]
  BY <1>3
<1>9. Total(B, D) = Total(Part(L), D)
  <2> HIDE DEF Part
  <2> QED BY <1>8, TotalOfEqual
<1> QED BY <1>7, <1>9
=============================================================================
