------------------------------ MODULE SumsProofs ------------------------------
(***************************************************************************)
(* What a sum over a finite set is.  The fold is a recursive function on   *)
(* the subsets of the set; it exists, and its value does not depend on the *)
(* order in which elements are taken.                                      *)
(*                                                                         *)
(* Each induction is a choice of a smallest counterexample: that one exists*)
(* is a fact about sets, and needs no operator as a parameter.             *)
(***************************************************************************)
EXTENDS Sums, Integers, FiniteSetTheorems, WellFoundedInduction, TLAPS

(* A set of natural numbers that is not empty has a least one.             *)
LEMMA LeastNumber ==
  ASSUME NEW T \in SUBSET Nat, T # {}
  PROVE  \E n \in T : \A m \in T : n <= m
<1>1. PICK n \in T : \A m \in T : <<m, n>> \notin OpToRel(<, Nat)
  BY NatLessThanWellFounded, WFMin
<1>2. \A m \in T : ~(m < n)
  BY <1>1 DEF OpToRel
<1> QED
  BY <1>2

(* A collection of subsets of a finite set that is not empty has one of    *)
(* which no other is a part.                                               *)
LEMMA SmallestSet ==
  ASSUME NEW S, IsFiniteSet(S), NEW T \in SUBSET SUBSET S, T # {}
  PROVE  \E A \in T : \A B \in T : B \subseteq A => B = A
<1>1. IsWellFoundedOn(StrictSubsetOrdering(S), SUBSET S)
  BY FS_StrictSubsetOrderingWellFounded, FS_FiniteSubsetsOfFinite
<1>2. PICK A \in T : \A B \in T : <<B, A>> \notin StrictSubsetOrdering(S)
  BY <1>1, WFMin
<1> QED
  BY <1>2 DEF StrictSubsetOrdering

-------------------------------------------------------------------------------
(* The fold.                                                               *)

Pick(s) == CHOOSE x \in s : TRUE

(* One step of the fold, with the function g for the rest.                 *)
Step(f, g, s) == IF s = {} THEN 0 ELSE f[Pick(s)] + g[s \ {Pick(s)}]

Folds(f, g, S) == g = [s \in SUBSET S |-> Step(f, g, s)]

LEMMA PickIn ==
  ASSUME NEW s, s # {}
  PROVE  Pick(s) \in s
BY DEF Pick

(* The fold up to sets of n elements.                                      *)
UpTo(f, g, S, n) ==
  \A s \in SUBSET S : Cardinality(s) <= n => g[s] = Step(f, g, s)

HasFold(f, S, n) == \E g \in [SUBSET S -> Int] : UpTo(f, g, S, n)

LEMMA FoldsUpToAny ==
  ASSUME NEW S, IsFiniteSet(S), NEW f, \A x \in S : f[x] \in Int, NEW n \in Nat
  PROVE  HasFold(f, S, n)
<1> DEFINE T == {k \in Nat : ~HasFold(f, S, k)}
<1> SUFFICES ASSUME T # {} PROVE FALSE
  OBVIOUS
<1>0. PICK m \in T : \A k \in T : m <= k
  BY LeastNumber
<1>1. m \in Nat /\ ~HasFold(f, S, m) /\ \A k \in Nat : ~HasFold(f, S, k) => m <= k
  BY <1>0
<1> HIDE DEF T
<1>2. \A s \in SUBSET S : IsFiniteSet(s) /\ Cardinality(s) \in Nat
  BY FS_Subset, FS_CardinalityType
<1>3. CASE m = 0
  <2> DEFINE g == [s \in SUBSET S |-> 0]
  <2>1. \A s \in SUBSET S : Cardinality(s) <= 0 => s = {}
    BY <1>2, FS_EmptySet
  <2>2. UpTo(f, g, S, 0)
    BY <2>1 DEF UpTo, Step
  <2>3. g \in [SUBSET S -> Int]
    OBVIOUS
  <2> HIDE DEF g
  <2> QED
    BY <1>1, <1>3, <2>2, <2>3 DEF HasFold
<1>4. CASE m # 0
  <2>1. m - 1 \in Nat /\ HasFold(f, S, m - 1)
    BY <1>1, <1>4
  <2>2. PICK g \in [SUBSET S -> Int] : UpTo(f, g, S, m - 1)
    BY <2>1 DEF HasFold
  <2> DEFINE h == [s \in SUBSET S |-> Step(f, g, s)]
  <2>3. h \in [SUBSET S -> Int]
    <3> SUFFICES ASSUME NEW s \in SUBSET S PROVE Step(f, g, s) \in Int
      OBVIOUS
    <3>1. CASE s = {}
      BY <3>1 DEF Step
    <3>2. CASE s # {}
      <4>1. Pick(s) \in S /\ s \ {Pick(s)} \in SUBSET S
        BY <3>2, PickIn
      <4> QED
        BY <4>1, <3>2 DEF Step
    <3> QED
      BY <3>1, <3>2
  <2>4. ASSUME NEW s \in SUBSET S, Cardinality(s) <= m
        PROVE  h[s] = Step(f, h, s)
    <3>1. CASE s = {}
      BY <3>1 DEF Step
    <3>2. CASE s # {}
      <4> DEFINE r == s \ {Pick(s)}
      <4>1. Pick(s) \in s /\ r \in SUBSET S
        BY <3>2, PickIn
      <4>2. Cardinality(r) <= m - 1
        <5>1. Cardinality(r) = Cardinality(s) - 1
          BY <4>1, <1>2, FS_RemoveElement
        <5> QED
          BY <5>1, <2>4, <1>1, <1>2
      <4>3. h[r] = Step(f, g, r) /\ g[r] = Step(f, g, r)
        BY <4>1, <4>2, <2>2 DEF UpTo
      <4>4. h[s] = Step(f, g, s)
        OBVIOUS
      <4> QED
        BY <4>3, <4>4, <3>2 DEF Step
    <3> QED
      BY <3>1, <3>2
  <2>5. UpTo(f, h, S, m)
    BY <2>4 DEF UpTo
  <2> HIDE DEF h
  <2> QED
    BY <1>1, <2>3, <2>5 DEF HasFold
<1> QED
  BY <1>3, <1>4

LEMMA FoldExists ==
  ASSUME NEW S, IsFiniteSet(S), NEW f, \A x \in S : f[x] \in Int
  PROVE  \E g \in [SUBSET S -> Int] : Folds(f, g, S)
<1>1. Cardinality(S) \in Nat
  BY FS_CardinalityType
<1>2. PICK g \in [SUBSET S -> Int] : UpTo(f, g, S, Cardinality(S))
  BY <1>1, FoldsUpToAny DEF HasFold
<1>3. \A s \in SUBSET S : Cardinality(s) <= Cardinality(S)
  BY FS_Subset
<1>4. \A s \in SUBSET S : g[s] = Step(f, g, s)
  BY <1>2, <1>3 DEF UpTo
<1> QED
  BY <1>4 DEF Folds

(* Two folds of f agree on a set both are defined on.                      *)
LEMMA FoldsAgree ==
  ASSUME NEW f, NEW S, NEW T, NEW g, NEW h, Folds(f, g, S), Folds(f, h, T),
         NEW A, A \subseteq S, A \subseteq T, IsFiniteSet(A)
  PROVE  g[A] = h[A]
<1> DEFINE Differ == {B \in SUBSET A : g[B] # h[B]}
<1> SUFFICES ASSUME Differ # {} PROVE FALSE
  OBVIOUS
<1>0. Differ \in SUBSET SUBSET A
  OBVIOUS
<1>1. PICK B \in Differ : \A C \in Differ : C \subseteq B => C = B
  <2> HIDE DEF Differ
  <2> QED
    BY <1>0, SmallestSet
<1>2. /\ B \in SUBSET A /\ g[B] # h[B]
      /\ \A C \in SUBSET A : C \subseteq B /\ C # B => g[C] = h[C]
  BY <1>1
<1> HIDE DEF Differ
<1>3. g[B] = Step(f, g, B) /\ h[B] = Step(f, h, B)
  BY <1>2 DEF Folds
<1>4. CASE B = {}
  BY <1>2, <1>3, <1>4 DEF Step
<1>5. CASE B # {}
  <2>1. Pick(B) \in B
    BY <1>5, PickIn
  <2>2. g[B \ {Pick(B)}] = h[B \ {Pick(B)}]
    BY <1>2, <2>1
  <2> QED
    BY <1>2, <1>3, <1>5, <2>2 DEF Step
<1> QED
  BY <1>4, <1>5

-------------------------------------------------------------------------------
(* The sum is the value of any fold.                                       *)
LEMMA SumIsFold ==
  ASSUME NEW f, NEW S, IsFiniteSet(S), \A x \in S : f[x] \in Int,
         NEW T, S \subseteq T, NEW g, Folds(f, g, T)
  PROVE  SumOver(f, S) = g[S]
<1> DEFINE it == CHOOSE h : Folds(f, h, S)
<1>1. SumOver(f, S) = it[S]
  BY DEF SumOver, MapThenSumSet, MapThenFoldSet, Folds, Step, Pick
<1>2. Folds(f, it, S)
  BY FoldExists
<1> QED
  BY <1>1, <1>2, FoldsAgree

-------------------------------------------------------------------------------
(* What is known of a sum.  Ints(f, S) is what every fact below needs.     *)

Ints(f, S) == IsFiniteSet(S) /\ \A x \in S : f[x] \in Int

LEMMA PartInts ==
  ASSUME NEW f, NEW S, Ints(f, S), NEW B \in SUBSET S
  PROVE  Ints(f, B)
BY FS_Subset DEF Ints

LEMMA SumType ==
  ASSUME NEW f, NEW S, Ints(f, S)
  PROVE  SumOver(f, S) \in Int
<1>1. PICK g \in [SUBSET S -> Int] : Folds(f, g, S)
  BY FoldExists DEF Ints
<1> QED
  BY <1>1, SumIsFold DEF Ints

LEMMA SumEmpty ==
  ASSUME NEW f
  PROVE  SumOver(f, {}) = 0
<1>1. Ints(f, {})
  BY FS_EmptySet DEF Ints
<1>2. PICK g \in [SUBSET {} -> Int] : Folds(f, g, {})
  BY <1>1, FoldExists DEF Ints
<1>3. SumOver(f, {}) = g[{}]
  BY <1>1, <1>2, SumIsFold DEF Ints
<1> QED
  BY <1>2, <1>3 DEF Folds, Step

LEMMA SumPick ==
  ASSUME NEW f, NEW S, Ints(f, S), S # {}
  PROVE  SumOver(f, S) = f[Pick(S)] + SumOver(f, S \ {Pick(S)})
<1>1. PICK g \in [SUBSET S -> Int] : Folds(f, g, S)
  BY FoldExists DEF Ints
<1>2. SumOver(f, S) = g[S]
  BY <1>1, SumIsFold DEF Ints
<1>3. SumOver(f, S \ {Pick(S)}) = g[S \ {Pick(S)}]
  BY <1>1, PartInts, SumIsFold DEF Ints
<1> QED
  BY <1>1, <1>2, <1>3 DEF Folds, Step

(* A sum may be split at any of its terms.                                 *)
Splits(f, S) == \A x \in S : SumOver(f, S) = f[x] + SumOver(f, S \ {x})

LEMMA AllSplit ==
  ASSUME NEW f, NEW S, Ints(f, S)
  PROVE  Splits(f, S)
<1> DEFINE T == {B \in SUBSET S : ~Splits(f, B)}
<1> SUFFICES ASSUME T # {} PROVE FALSE
  OBVIOUS
<1>0. T \in SUBSET SUBSET S
  OBVIOUS
<1>1. PICK B \in T : \A C \in T : C \subseteq B => C = B
  <2> HIDE DEF T
  <2> QED
    BY <1>0, SmallestSet DEF Ints
<1>2. /\ B \in SUBSET S /\ ~Splits(f, B)
      /\ \A C \in SUBSET S : C \subseteq B /\ C # B => Splits(f, C)
  BY <1>1
<1> HIDE DEF T
<1>3. PICK x \in B : SumOver(f, B) # f[x] + SumOver(f, B \ {x})
  BY <1>2 DEF Splits
<1> DEFINE y == Pick(B)
<1>4. y \in B
  BY PickIn
<1>5. SumOver(f, B) = f[y] + SumOver(f, B \ {y})
  BY <1>2, SumPick, PartInts
<1> HIDE DEF y
<1>6. x # y
  BY <1>3, <1>5
<1>7. SumOver(f, B \ {y}) = f[x] + SumOver(f, (B \ {y}) \ {x})
  BY <1>2, <1>4, <1>6 DEF Splits
<1>8. SumOver(f, B \ {x}) = f[y] + SumOver(f, (B \ {x}) \ {y})
  BY <1>2, <1>4, <1>6 DEF Splits
<1>9. (B \ {y}) \ {x} = (B \ {x}) \ {y}
  OBVIOUS
<1>10. f[x] \in Int /\ f[y] \in Int /\ SumOver(f, (B \ {x}) \ {y}) \in Int
  <2>1. (B \ {x}) \ {y} \in SUBSET S
    BY <1>2
  <2> QED
    BY <1>2, <1>4, <2>1, PartInts, SumType DEF Ints
<1> DEFINE rest == SumOver(f, (B \ {x}) \ {y})
<1>11. /\ SumOver(f, B) = f[y] + (f[x] + rest)
       /\ SumOver(f, B \ {x}) = f[y] + rest
  BY <1>5, <1>7, <1>8, <1>9
<1>12. rest \in Int
  BY <1>10
<1> HIDE DEF rest
<1> QED
  BY <1>3, <1>10, <1>11, <1>12

LEMMA SumSplit ==
  ASSUME NEW f, NEW S, Ints(f, S), NEW x \in S
  PROVE  SumOver(f, S) = f[x] + SumOver(f, S \ {x})
BY AllSplit DEF Splits

(* Adding a term.                                                          *)
LEMMA SumAdd ==
  ASSUME NEW f, NEW S, Ints(f, S), NEW x, x \notin S, f[x] \in Int
  PROVE  SumOver(f, S \cup {x}) = f[x] + SumOver(f, S)
<1>1. Ints(f, S \cup {x})
  BY FS_AddElement DEF Ints
<1>2. (S \cup {x}) \ {x} = S
  OBVIOUS
<1>3. SumOver(f, S \cup {x}) = f[x] + SumOver(f, (S \cup {x}) \ {x})
  BY <1>1, SumSplit
<1> QED
  BY <1>2, <1>3

(* Only the terms count.                                                   *)
LEMMA SumSame ==
  ASSUME NEW f, NEW g, NEW S, Ints(f, S), \A x \in S : f[x] = g[x]
  PROVE  SumOver(f, S) = SumOver(g, S)
<1> DEFINE T == {B \in SUBSET S : SumOver(f, B) # SumOver(g, B)}
<1> SUFFICES ASSUME T # {} PROVE FALSE
  OBVIOUS
<1>0. T \in SUBSET SUBSET S
  OBVIOUS
<1>1. PICK B \in T : \A C \in T : C \subseteq B => C = B
  <2> HIDE DEF T
  <2> QED
    BY <1>0, SmallestSet DEF Ints
<1>2. /\ B \in SUBSET S /\ SumOver(f, B) # SumOver(g, B)
      /\ \A C \in SUBSET S : C \subseteq B /\ C # B => SumOver(f, C) = SumOver(g, C)
  BY <1>1
<1> HIDE DEF T
<1>3. Ints(f, B) /\ Ints(g, B)
  BY <1>2, PartInts DEF Ints
<1>4. B # {}
  BY <1>2, SumEmpty
<1>5. Pick(B) \in B
  BY <1>4, PickIn
<1>6. SumOver(f, B \ {Pick(B)}) = SumOver(g, B \ {Pick(B)})
  BY <1>2, <1>5
<1>7. SumOver(f, B) = SumOver(g, B)
  BY <1>2, <1>3, <1>4, <1>5, <1>6, SumPick
<1> QED
  BY <1>2, <1>7

(* A term changes.                                                         *)
LEMMA SumUpdate ==
  ASSUME NEW f, NEW g, NEW S, Ints(f, S), NEW x \in S, g[x] \in Int,
         \A y \in S \ {x} : g[y] = f[y]
  PROVE  SumOver(g, S) = SumOver(f, S) - f[x] + g[x]
<1>1. Ints(g, S)
  BY DEF Ints
<1>2. SumOver(g, S) = g[x] + SumOver(g, S \ {x})
  BY <1>1, SumSplit
<1>3. SumOver(f, S) = f[x] + SumOver(f, S \ {x})
  BY SumSplit
<1>4. Ints(f, S \ {x})
  BY PartInts
<1>5. SumOver(f, S \ {x}) = SumOver(g, S \ {x})
  BY <1>4, SumSame
<1>6. SumOver(f, S \ {x}) \in Int /\ f[x] \in Int
  BY <1>4, SumType DEF Ints
<1> QED
  BY <1>2, <1>3, <1>5, <1>6

(* Terms that are zero may be left out.                                    *)
LEMMA SumDropsZeros ==
  ASSUME NEW f, NEW S, Ints(f, S), NEW P \in SUBSET S, \A x \in S \ P : f[x] = 0
  PROVE  SumOver(f, S) = SumOver(f, P)
<1> DEFINE T == {B \in SUBSET S : P \subseteq B /\ SumOver(f, B) # SumOver(f, P)}
<1> SUFFICES ASSUME T # {} PROVE FALSE
  OBVIOUS
<1>0. T \in SUBSET SUBSET S
  OBVIOUS
<1>1. PICK B \in T : \A C \in T : C \subseteq B => C = B
  <2> HIDE DEF T
  <2> QED
    BY <1>0, SmallestSet DEF Ints
<1>2. /\ B \in SUBSET S /\ P \subseteq B /\ SumOver(f, B) # SumOver(f, P)
      /\ \A C \in SUBSET S : P \subseteq C /\ C \subseteq B /\ C # B
            => SumOver(f, C) = SumOver(f, P)
  BY <1>1
<1> HIDE DEF T
<1>3. B # P
  BY <1>2
<1>4. PICK x \in B : x \notin P
  BY <1>2, <1>3
<1>5. SumOver(f, B) = f[x] + SumOver(f, B \ {x})
  BY <1>2, <1>4, PartInts, SumSplit
<1>6. SumOver(f, B \ {x}) = SumOver(f, P)
  BY <1>2, <1>4
<1>7. f[x] = 0 /\ SumOver(f, P) \in Int
  BY <1>2, <1>4, PartInts, SumType
<1> QED
  BY <1>2, <1>5, <1>6, <1>7

(* Terms of at most b make a sum of at most b times their number.          *)
LEMMA SumBounded ==
  ASSUME NEW f, NEW S, Ints(f, S), NEW b \in Int, \A x \in S : f[x] <= b
  PROVE  SumOver(f, S) <= Cardinality(S) * b
<1> DEFINE T == {B \in SUBSET S : ~(SumOver(f, B) <= Cardinality(B) * b)}
<1> SUFFICES ASSUME T # {} PROVE FALSE
  OBVIOUS
<1>0. T \in SUBSET SUBSET S
  OBVIOUS
<1>1. PICK B \in T : \A C \in T : C \subseteq B => C = B
  <2> HIDE DEF T
  <2> QED
    BY <1>0, SmallestSet DEF Ints
<1>2. /\ B \in SUBSET S /\ ~(SumOver(f, B) <= Cardinality(B) * b)
      /\ \A C \in SUBSET S : C \subseteq B /\ C # B => SumOver(f, C) <= Cardinality(C) * b
  BY <1>1
<1> HIDE DEF T
<1>3. Ints(f, B)
  BY <1>2, PartInts
<1>4. B # {}
  <2>1. B = {} => SumOver(f, B) = 0 /\ Cardinality(B) = 0
    BY SumEmpty, FS_EmptySet, Zenon
  <2>2. 0 * b = 0
    OBVIOUS
  <2> QED
    BY <1>2, <2>1, <2>2
<1> DEFINE x == Pick(B)
<1>5. x \in B
  BY <1>4, PickIn
<1> HIDE DEF x
<1>6. SumOver(f, B \ {x}) <= Cardinality(B \ {x}) * b
  BY <1>2, <1>5
<1>7. SumOver(f, B) = f[x] + SumOver(f, B \ {x})
  BY <1>3, <1>5, SumSplit
<1>8. Cardinality(B \ {x}) = Cardinality(B) - 1 /\ Cardinality(B) \in Nat
  BY <1>3, <1>5, FS_RemoveElement, FS_CardinalityType DEF Ints
<1>9. SumOver(f, B \ {x}) \in Int /\ f[x] \in Int /\ f[x] <= b
  BY <1>2, <1>3, <1>5, PartInts, SumType DEF Ints
<1>10. ASSUME NEW n \in Nat, NEW k \in Int, k <= (n - 1) * b
       PROVE  f[x] + k <= n * b
  <2>1. (n - 1) * b = n * b - b
    OBVIOUS
  <2>2. n * b \in Int
    OBVIOUS
  <2> QED
    BY <2>1, <2>2, <1>9, <1>10
<1> QED
  BY <1>2, <1>6, <1>7, <1>8, <1>9, <1>10

(* Terms of zero or more make a sum of zero or more, of which each term is *)
(* a part; a sum that is more than zero has a term that is.                *)
LEMMA SumOfNats ==
  ASSUME NEW f, NEW S, IsFiniteSet(S), \A x \in S : f[x] \in Nat
  PROVE  SumOver(f, S) \in Nat
<1> DEFINE T == {B \in SUBSET S : SumOver(f, B) \notin Nat}
<1> SUFFICES ASSUME T # {} PROVE FALSE
  OBVIOUS
<1>0. T \in SUBSET SUBSET S
  OBVIOUS
<1>1. PICK B \in T : \A C \in T : C \subseteq B => C = B
  <2> HIDE DEF T
  <2> QED
    BY <1>0, SmallestSet
<1>2. /\ B \in SUBSET S /\ SumOver(f, B) \notin Nat
      /\ \A C \in SUBSET S : C \subseteq B /\ C # B => SumOver(f, C) \in Nat
  BY <1>1
<1> HIDE DEF T
<1>3. Ints(f, B)
  BY <1>2, FS_Subset DEF Ints
<1>4. B # {}
  <2>1. B = {} => SumOver(f, B) = 0
    BY SumEmpty, Zenon
  <2> QED
    BY <1>2, <2>1
<1>5. Pick(B) \in B
  BY <1>4, PickIn
<1>6. SumOver(f, B \ {Pick(B)}) \in Nat /\ f[Pick(B)] \in Nat
  BY <1>2, <1>5
<1>7. SumOver(f, B) = f[Pick(B)] + SumOver(f, B \ {Pick(B)})
  BY <1>3, <1>4, SumPick
<1> QED
  BY <1>2, <1>6, <1>7

LEMMA TermWithinSum ==
  ASSUME NEW f, NEW S, IsFiniteSet(S), \A y \in S : f[y] \in Nat, NEW x \in S
  PROVE  f[x] <= SumOver(f, S)
<1>1. Ints(f, S)
  BY DEF Ints
<1>2. SumOver(f, S \ {x}) \in Nat
  BY SumOfNats, FS_RemoveElement
<1>3. SumOver(f, S) = f[x] + SumOver(f, S \ {x})
  BY <1>1, SumSplit
<1> QED
  BY <1>2, <1>3

LEMMA SumHasTerm ==
  ASSUME NEW f, NEW S, Ints(f, S), SumOver(f, S) > 0
  PROVE  \E x \in S : f[x] > 0
<1> SUFFICES ASSUME \A x \in S : f[x] <= 0 PROVE FALSE
  BY DEF Ints
<1>1. SumOver(f, S) <= Cardinality(S) * 0
  BY SumBounded
<1>2. Cardinality(S) \in Nat /\ SumOver(f, S) \in Int
  BY FS_CardinalityType, SumType DEF Ints
<1>3. Cardinality(S) * 0 = 0
  BY <1>2
<1> QED
  BY <1>1, <1>2, <1>3
===============================================================================
