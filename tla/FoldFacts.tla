------------------------------ MODULE FoldFacts ------------------------------
(***************************************************************************)
(* What folds and sums over finite sets compute, for the other proofs.     *)
(* The library's induction theorems have an operator as a parameter; here  *)
(* a property is the set of the sets that have it.                         *)
(***************************************************************************)
EXTENDS Integers, SequencesExt, FiniteSetTheorems, WellFoundedInduction, TLAPS

\* Induction over the subsets of a finite set.
LEMMA SubsetInduction ==
  ASSUME NEW S, IsFiniteSet(S), NEW Good \in SUBSET SUBSET S,
         \A T \in SUBSET S : (\A U \in SUBSET T : U # T => U \in Good) => T \in Good
  PROVE  Good = SUBSET S
<1> SUFFICES ASSUME (SUBSET S) \ Good # {} PROVE FALSE
  OBVIOUS
<1> DEFINE Bad == (SUBSET S) \ Good
<1>1. Bad \subseteq FiniteSubsetsOf(S)
  BY FS_Subset DEF FiniteSubsetsOf
<1>2. PICK T \in Bad : \A U \in Bad : ~ (<<U, T>> \in StrictSubsetOrdering(S))
  <2>1. Bad # {}
    OBVIOUS
  <2>2. IsWellFoundedOn(StrictSubsetOrdering(S), FiniteSubsetsOf(S))
    BY FS_StrictSubsetOrderingWellFounded
  <2> HIDE DEF Bad
  <2> QED
    BY <1>1, <2>1, <2>2, WFMin
<1>3. ASSUME NEW U \in SUBSET T, U # T PROVE U \in Good
  <2>1. U \in SUBSET S /\ T \in SUBSET S
    OBVIOUS
  <2>2. <<U, T>> \in StrictSubsetOrdering(S)
    BY <1>3, <2>1 DEF StrictSubsetOrdering
  <2> QED
    BY <1>2, <2>1, <2>2
<1> QED
  BY <1>2, <1>3

\* Induction over the natural numbers.
LEMMA NatInductionSet ==
  ASSUME NEW Good \in SUBSET Nat, 0 \in Good, \A k \in Good : k + 1 \in Good
  PROVE  Good = Nat
<1> SUFFICES ASSUME Nat \ Good # {} PROVE FALSE
  OBVIOUS
<1>1. PICK k \in Nat \ Good : \A j \in Nat \ Good : ~ (<<j, k>> \in OpToRel(<, Nat))
  BY NatLessThanWellFounded, WFMin
<1>2. k # 0 /\ k \in Nat
  BY <1>1
<1>4. k - 1 \in Nat /\ k - 1 < k /\ (k - 1) + 1 = k
  BY <1>2
<1>3. k - 1 \in Good
  BY <1>1, <1>4 DEF OpToRel
<1> QED
  BY <1>1, <1>3, <1>4

-----------------------------------------------------------------------------
(* Recursion over the subsets of a finite set.                             *)

\* ch takes an element of every subset of S that has one.
IsChoice(ch, S) ==
  ch \in [(SUBSET S) \ {{}} -> S] /\ \A T \in (SUBSET S) \ {{}} : ch[T] \in T

\* it takes one chosen element at a time off the subsets of S.
IsRecursion(it, S, base, step, ch) ==
  \A T \in SUBSET S : it[T] = IF T = {} THEN base ELSE step[<<it[T \ {ch[T]}], ch[T]>>]

\* A recursion that takes one chosen element at a time off a set has a solution,
\* and it stays in a set A that its step keeps.
LEMMA SubsetRecursion ==
  ASSUME NEW S, IsFiniteSet(S), NEW A, NEW base \in A, NEW step \in [A \X S -> A],
         NEW ch, IsChoice(ch, S)
  PROVE  \E it \in [SUBSET S -> A] : IsRecursion(it, S, base, step, ch)
<1> USE DEF IsChoice
<1> DEFINE Level(k) == {T \in SUBSET S : Cardinality(T) <= k}
           Solves(g, k) == \A T \in Level(k) :
             g[T] = IF T = {} THEN base ELSE step[<<g[T \ {ch[T]}], ch[T]>>]
           Good == {k \in Nat : \E g \in [Level(k) -> A] : Solves(g, k)}
<1>1. \A T \in SUBSET S : IsFiniteSet(T) /\ Cardinality(T) \in Nat
  BY FS_Subset, FS_CardinalityType
<1>2. \A k \in Nat : \A T \in Level(k + 1) : T # {} => T \ {ch[T]} \in Level(k)
  <2> SUFFICES ASSUME NEW k \in Nat, NEW T \in Level(k + 1), T # {}
               PROVE  T \ {ch[T]} \in Level(k)
    OBVIOUS
  <2>1. ch[T] \in T /\ IsFiniteSet(T) /\ Cardinality(T) \in Nat
    BY <1>1
  <2>2. Cardinality(T \ {ch[T]}) = Cardinality(T) - 1
    <3> DEFINE x == ch[T]
    <3>1. x \in T
      BY <2>1
    <3> HIDE DEF x
    <3>2. Cardinality(T \ {x}) = Cardinality(T) - 1
      BY <2>1, <3>1, FS_RemoveElement
    <3> QED
      BY <3>2 DEF x
  <2> QED
    BY <2>1, <2>2
<1>3. 0 \in Good
  <2> DEFINE g == [T \in Level(0) |-> base]
  <2>1. \A T \in Level(0) : T = {}
    BY <1>1, FS_EmptySet
  <2>2. g \in [Level(0) -> A] /\ Solves(g, 0)
    BY <2>1
  <2> QED
    BY <2>2
<1>4. ASSUME NEW k \in Good PROVE k + 1 \in Good
  <2>1. PICK g \in [Level(k) -> A] : Solves(g, k)
    OBVIOUS
  <2> DEFINE h == [T \in Level(k + 1) |->
                     IF T = {} THEN base ELSE step[<<g[T \ {ch[T]}], ch[T]>>]]
  <2>2. h \in [Level(k + 1) -> A]
    <3> SUFFICES ASSUME NEW T \in Level(k + 1), T # {}
                 PROVE  step[<<g[T \ {ch[T]}], ch[T]>>] \in A
      OBVIOUS
    <3>1. g[T \ {ch[T]}] \in A /\ ch[T] \in S
      BY <1>2
    <3> QED
      BY <3>1
  <2>3. \A T \in Level(k) : T \in Level(k + 1) /\ h[T] = g[T]
    BY <1>1, <2>1
  <2>4. Solves(h, k + 1)
    BY <1>2, <2>3
  <2>5. \E f \in [Level(k + 1) -> A] : Solves(f, k + 1)
    <3> HIDE DEF h, Solves, Level
    <3> QED
      BY <2>2, <2>4
  <2>6. k + 1 \in Nat
    OBVIOUS
  <2> HIDE DEF h, Solves, Level
  <2> QED
    BY <2>5, <2>6
<1>5. Good = Nat
  <2> HIDE DEF Good
  <2>1. Good \in SUBSET Nat
    BY DEF Good
  <2> QED
    BY <1>3, <1>4, <2>1, NatInductionSet
<1>6. Cardinality(S) \in Good
  BY <1>1, <1>5
<1>7. Level(Cardinality(S)) = SUBSET S
  BY FS_Subset
<1> QED
  BY <1>6, <1>7 DEF IsRecursion

-----------------------------------------------------------------------------
(* Sums.                                                                   *)

\* The element a sum takes first.
Pick(s) == CHOOSE x \in s : TRUE

\* The recursion of a sum.
IsSumOn(it, fun, S) ==
  it = [s \in SUBSET S |-> IF s = {} THEN 0 ELSE fun[Pick(s)] + it[s \ {Pick(s)}]]

\* What is picked is an element.
LEMMA PickIn ==
  ASSUME NEW s, s # {}
  PROVE  Pick(s) \in s
BY DEF Pick

\* The recursion has a solution.
LEMMA SumExists ==
  ASSUME NEW S, IsFiniteSet(S), NEW fun, \A x \in S : fun[x] \in Int
  PROVE  \E it \in [SUBSET S -> Int] : IsSumOn(it, fun, S)
<1> DEFINE step == [p \in Int \X S |-> fun[p[2]] + p[1]]
           ch == [T \in (SUBSET S) \ {{}} |-> Pick(T)]
<1>1. step \in [Int \X S -> Int]
  OBVIOUS
<1>2. IsChoice(ch, S)
  BY PickIn DEF IsChoice
<1>3. PICK it \in [SUBSET S -> Int] : IsRecursion(it, S, 0, step, ch)
  <2>1. 0 \in Int
    OBVIOUS
  <2> HIDE DEF step, ch
  <2> QED
    BY <1>1, <1>2, <2>1, SubsetRecursion
<1>4. \A T \in SUBSET S : it[T] = IF T = {} THEN 0 ELSE fun[Pick(T)] + it[T \ {Pick(T)}]
  <2> SUFFICES ASSUME NEW T \in SUBSET S, T # {}
               PROVE  it[T] = fun[Pick(T)] + it[T \ {Pick(T)}]
    BY <1>3 DEF IsRecursion
  <2>1. Pick(T) \in S /\ ch[T] = Pick(T) /\ it[T \ {Pick(T)}] \in Int
    BY PickIn
  <2>2. it[T] = step[<<it[T \ {Pick(T)}], Pick(T)>>]
    BY <1>3, <2>1 DEF IsRecursion
  <2> QED
    BY <2>1, <2>2
<1>5. IsSumOn(it, fun, S)
  BY <1>4 DEF IsSumOn
<1> QED
  BY <1>5

\* It has one solution only.
LEMMA SumUnique ==
  ASSUME NEW S, IsFiniteSet(S), NEW fun, NEW T \in SUBSET S, NEW it, NEW jt,
         IsSumOn(it, fun, S), IsSumOn(jt, fun, T)
  PROVE  it[T] = jt[T]
<1> DEFINE Good == {U \in SUBSET T : it[U] = jt[U]}
<1>1. ASSUME NEW U \in SUBSET T, \A V \in SUBSET U : V # U => V \in Good
      PROVE  U \in Good
  <2>1. CASE U = {}
    BY <2>1 DEF IsSumOn
  <2>2. CASE U # {}
    <3>1. Pick(U) \in U /\ U \ {Pick(U)} \in SUBSET U /\ U \ {Pick(U)} # U
      BY <2>2, PickIn
    <3>2. it[U \ {Pick(U)}] = jt[U \ {Pick(U)}]
      BY <1>1, <3>1
    <3>3. it[U] = fun[Pick(U)] + it[U \ {Pick(U)}] /\ jt[U] = fun[Pick(U)] + jt[U \ {Pick(U)}]
      BY <2>2 DEF IsSumOn
    <3> QED
      BY <3>2, <3>3
  <2> QED
    BY <2>1, <2>2
<1>2. IsFiniteSet(T) /\ Good \in SUBSET SUBSET T
  BY FS_Subset
<1>3. Good = SUBSET T
  <2> HIDE DEF Good
  <2> QED
    BY <1>1, <1>2, SubsetInduction
<1> QED
  BY <1>3

\* A sum is the picked element and the sum of the others.
LEMMA SumRecursion ==
  ASSUME NEW S, IsFiniteSet(S), NEW fun, \A x \in S : fun[x] \in Int
  PROVE  /\ SumFunctionOnSet(fun, S) \in Int
         /\ S = {} => SumFunctionOnSet(fun, S) = 0
         /\ S # {} => SumFunctionOnSet(fun, S)
                        = fun[Pick(S)] + SumFunctionOnSet(fun, S \ {Pick(S)})
<1> DEFINE TheSum(T) == CHOOSE it : IsSumOn(it, fun, T)
<1>1. ASSUME NEW T \in SUBSET S
      PROVE  IsSumOn(TheSum(T), fun, T) /\ SumFunctionOnSet(fun, T) = TheSum(T)[T]
  <2>1. \E it : IsSumOn(it, fun, T)
    BY SumExists, FS_Subset
  <2>2. IsSumOn(TheSum(T), fun, T)
    BY <2>1
  <2>3. SumFunctionOnSet(fun, T) = TheSum(T)[T]
    BY DEF SumFunctionOnSet, FoldFunctionOnSet, MapThenFoldSet, IsSumOn, Pick
  <2> QED
    BY <2>2, <2>3
<1>2. PICK it \in [SUBSET S -> Int] : IsSumOn(it, fun, S)
  BY SumExists
<1> HIDE DEF TheSum
<1>3. \A T \in SUBSET S : SumFunctionOnSet(fun, T) = it[T]
  BY <1>1, <1>2, SumUnique
<1>4. SumFunctionOnSet(fun, S) = it[S] /\ it[S] \in Int
  BY <1>3
<1>5. S # {} => SumFunctionOnSet(fun, S \ {Pick(S)}) = it[S \ {Pick(S)}]
  BY <1>3
<1> QED
  BY <1>2, <1>4, <1>5 DEF IsSumOn

\* Any element may be taken first.
LEMMA SumTake ==
  ASSUME NEW S, IsFiniteSet(S), NEW fun, \A x \in S : fun[x] \in Int, NEW x \in S
  PROVE  SumFunctionOnSet(fun, S) = fun[x] + SumFunctionOnSet(fun, S \ {x})
<1> DEFINE Total(T) == SumFunctionOnSet(fun, T)
           Good == {T \in SUBSET S : \A y \in T : Total(T) = fun[y] + Total(T \ {y})}
<1>1. \A T \in SUBSET S : /\ IsFiniteSet(T) /\ Total(T) \in Int
                          /\ T # {} => Total(T) = fun[Pick(T)] + Total(T \ {Pick(T)})
  BY SumRecursion, FS_Subset
<1> HIDE DEF Total
<1>2. ASSUME NEW T \in SUBSET S, \A U \in SUBSET T : U # T => U \in Good
      PROVE  T \in Good
  <2> SUFFICES ASSUME NEW y \in T PROVE Total(T) = fun[y] + Total(T \ {y})
    OBVIOUS
  <2> DEFINE p == Pick(T)
             U == T \ {p}
             V == T \ {y}
             W == T \ {p, y}
  <2>1. p \in T /\ Total(T) = fun[p] + Total(U)
    BY <1>1, PickIn
  <2>2. CASE y = p
    BY <2>1, <2>2
  <2>3. CASE y # p
    <3>1. U \in Good /\ V \in Good /\ y \in U /\ p \in V
      BY <1>2, <2>1, <2>3
    <3>2. U \ {y} = W /\ V \ {p} = W
      OBVIOUS
    <3>3. Total(U) = fun[y] + Total(W) /\ Total(V) = fun[p] + Total(W)
      BY <3>1, <3>2
    <3>4. fun[p] \in Int /\ fun[y] \in Int /\ Total(W) \in Int
      BY <1>1, <2>1
    <3> HIDE DEF p, U, V, W
    <3>5. Total(T) = fun[y] + Total(V)
      BY <2>1, <3>3, <3>4
    <3> QED
      BY <3>5 DEF V
  <2> QED
    BY <2>2, <2>3
<1>3. Good = SUBSET S
  <2>1. Good \in SUBSET SUBSET S
    OBVIOUS
  <2> HIDE DEF Good
  <2> QED
    BY <1>2, <2>1, SubsetInduction
<1>4. Total(S) = fun[x] + Total(S \ {x})
  BY <1>3
<1> QED
  BY <1>4 DEF Total

\* One more element.
LEMMA SumAdd ==
  ASSUME NEW S, IsFiniteSet(S), NEW fun, NEW x, x \notin S, \A y \in S \cup {x} : fun[y] \in Int
  PROVE  SumFunctionOnSet(fun, S \cup {x}) = SumFunctionOnSet(fun, S) + fun[x]
<1>1. IsFiniteSet(S \cup {x}) /\ x \in S \cup {x} /\ (S \cup {x}) \ {x} = S
  BY FS_AddElement
<1>2. SumFunctionOnSet(fun, S \cup {x}) = fun[x] + SumFunctionOnSet(fun, S)
  <2> DEFINE T == S \cup {x}
  <2>1. IsFiniteSet(T) /\ x \in T /\ T \ {x} = S /\ \A y \in T : fun[y] \in Int
    BY <1>1
  <2> HIDE DEF T
  <2>2. SumFunctionOnSet(fun, T) = fun[x] + SumFunctionOnSet(fun, T \ {x})
    BY <2>1, SumTake
  <2> QED
    BY <2>1, <2>2 DEF T
<1>3. SumFunctionOnSet(fun, S) \in Int /\ fun[x] \in Int
  BY SumRecursion
<1> QED
  BY <1>2, <1>3

\* Sums of equal values are equal.
LEMMA SumSame ==
  ASSUME NEW S, IsFiniteSet(S), NEW f, NEW g, \A x \in S : f[x] \in Int /\ f[x] = g[x]
  PROVE  SumFunctionOnSet(f, S) = SumFunctionOnSet(g, S)
<1> DEFINE Good == {T \in SUBSET S : SumFunctionOnSet(f, T) = SumFunctionOnSet(g, T)}
<1>1. ASSUME NEW T \in SUBSET S, \A U \in SUBSET T : U # T => U \in Good
      PROVE  T \in Good
  <2>1. IsFiniteSet(T) /\ (\A x \in T : f[x] \in Int) /\ (\A x \in T : g[x] \in Int)
    BY FS_Subset
  <2>2. /\ T = {} => SumFunctionOnSet(f, T) = 0
        /\ T # {} => SumFunctionOnSet(f, T) = f[Pick(T)] + SumFunctionOnSet(f, T \ {Pick(T)})
    BY <2>1, SumRecursion
  <2>3. /\ T = {} => SumFunctionOnSet(g, T) = 0
        /\ T # {} => SumFunctionOnSet(g, T) = g[Pick(T)] + SumFunctionOnSet(g, T \ {Pick(T)})
    BY <2>1, SumRecursion
  <2>4. CASE T = {}
    BY <2>2, <2>3, <2>4
  <2>5. CASE T # {}
    <3>1. Pick(T) \in T /\ T \ {Pick(T)} \in Good
      BY <1>1, <2>5, PickIn
    <3>2. f[Pick(T)] = g[Pick(T)]
      BY <3>1
    <3> QED
      BY <2>2, <2>3, <2>5, <3>1, <3>2
  <2> QED
    BY <2>4, <2>5
<1>2. Good = SUBSET S
  <2>1. Good \in SUBSET SUBSET S
    OBVIOUS
  <2> HIDE DEF Good
  <2> QED
    BY <1>1, <2>1, SubsetInduction
<1> QED
  BY <1>2

\* A sum of which one value changes.
LEMMA SumChange ==
  ASSUME NEW S, IsFiniteSet(S), NEW f, NEW g, NEW x \in S,
         \A y \in S : f[y] \in Int /\ g[y] \in Int, \A y \in S \ {x} : g[y] = f[y],
         NEW d \in Int, g[x] = f[x] + d
  PROVE  SumFunctionOnSet(g, S) = SumFunctionOnSet(f, S) + d
<1>1. IsFiniteSet(S \ {x})
  BY FS_RemoveElement
<1>2. SumFunctionOnSet(f, S) = f[x] + SumFunctionOnSet(f, S \ {x})
  BY SumTake
<1>3. SumFunctionOnSet(g, S) = g[x] + SumFunctionOnSet(g, S \ {x})
  BY SumTake
<1>4. SumFunctionOnSet(g, S \ {x}) = SumFunctionOnSet(f, S \ {x})
  BY <1>1, SumSame
<1>5. SumFunctionOnSet(f, S \ {x}) \in Int
  BY <1>1, SumRecursion
<1> QED
  BY <1>2, <1>3, <1>4, <1>5

\* Sums add up value by value.
LEMMA SumPlus ==
  ASSUME NEW S, IsFiniteSet(S), NEW f, NEW g, NEW h,
         \A x \in S : f[x] \in Int /\ g[x] \in Int /\ h[x] = f[x] + g[x]
  PROVE  /\ SumFunctionOnSet(f, S) \in Int /\ SumFunctionOnSet(g, S) \in Int
         /\ SumFunctionOnSet(h, S) = SumFunctionOnSet(f, S) + SumFunctionOnSet(g, S)
<1> DEFINE Good == {T \in SUBSET S :
             SumFunctionOnSet(h, T) = SumFunctionOnSet(f, T) + SumFunctionOnSet(g, T)}
<1>1. ASSUME NEW T \in SUBSET S, \A U \in SUBSET T : U # T => U \in Good
      PROVE  T \in Good
  <2>1. IsFiniteSet(T)
    BY FS_Subset
  <2>2. /\ T = {} => SumFunctionOnSet(f, T) = 0
        /\ T # {} => SumFunctionOnSet(f, T) = f[Pick(T)] + SumFunctionOnSet(f, T \ {Pick(T)})
    <3>1. \A x \in T : f[x] \in Int
      OBVIOUS
    <3> QED
      BY <2>1, <3>1, SumRecursion
  <2>3. /\ T = {} => SumFunctionOnSet(g, T) = 0
        /\ T # {} => SumFunctionOnSet(g, T) = g[Pick(T)] + SumFunctionOnSet(g, T \ {Pick(T)})
    <3>1. \A x \in T : g[x] \in Int
      OBVIOUS
    <3> QED
      BY <2>1, <3>1, SumRecursion
  <2>4. /\ T = {} => SumFunctionOnSet(h, T) = 0
        /\ T # {} => SumFunctionOnSet(h, T) = h[Pick(T)] + SumFunctionOnSet(h, T \ {Pick(T)})
    <3>1. \A x \in T : h[x] \in Int
      OBVIOUS
    <3> QED
      BY <2>1, <3>1, SumRecursion
  <2>5. CASE T = {}
    BY <2>2, <2>3, <2>4, <2>5
  <2>6. CASE T # {}
    <3>1. PICK x \in T : x = Pick(T)
      BY <2>6, PickIn
    <3>2. PICK R : R = T \ {x}
      OBVIOUS
    <3>3. SumFunctionOnSet(h, R) = SumFunctionOnSet(f, R) + SumFunctionOnSet(g, R)
      BY <1>1, <3>2
    <3>4. SumFunctionOnSet(f, R) \in Int /\ SumFunctionOnSet(g, R) \in Int
      <4>1. IsFiniteSet(R) /\ (\A y \in R : f[y] \in Int)
        BY <2>1, <3>2, FS_RemoveElement
      <4>2. \A y \in R : g[y] \in Int
        BY <3>2
      <4> QED
        BY <4>1, <4>2, SumRecursion
    <3>5. f[x] \in Int /\ g[x] \in Int /\ h[x] = f[x] + g[x]
      OBVIOUS
    <3> QED
      BY <2>2, <2>3, <2>4, <2>6, <3>1, <3>2, <3>3, <3>4, <3>5
  <2> QED
    BY <2>5, <2>6
<1>2. Good = SUBSET S
  <2>1. Good \in SUBSET SUBSET S
    OBVIOUS
  <2> HIDE DEF Good
  <2> QED
    BY <1>1, <2>1, SubsetInduction
<1>3. SumFunctionOnSet(f, S) \in Int
  <2>1. \A x \in S : f[x] \in Int
    OBVIOUS
  <2> QED
    BY <2>1, SumRecursion
<1>4. SumFunctionOnSet(g, S) \in Int
  <2>1. \A x \in S : g[x] \in Int
    OBVIOUS
  <2> QED
    BY <2>1, SumRecursion
<1> QED
  BY <1>2, <1>3, <1>4

\* A factor of a sum.
LEMMA SumTimes ==
  ASSUME NEW S, IsFiniteSet(S), NEW f, NEW g, NEW m \in Int,
         \A x \in S : f[x] \in Int /\ g[x] = f[x] * m
  PROVE  /\ SumFunctionOnSet(f, S) \in Int
         /\ SumFunctionOnSet(g, S) = SumFunctionOnSet(f, S) * m
<1> DEFINE Good == {T \in SUBSET S : SumFunctionOnSet(g, T) = SumFunctionOnSet(f, T) * m}
<1>1. ASSUME NEW T \in SUBSET S, \A U \in SUBSET T : U # T => U \in Good
      PROVE  T \in Good
  <2>1. IsFiniteSet(T)
    BY FS_Subset
  <2>2. /\ T = {} => SumFunctionOnSet(f, T) = 0
        /\ T # {} => SumFunctionOnSet(f, T) = f[Pick(T)] + SumFunctionOnSet(f, T \ {Pick(T)})
    <3>1. \A x \in T : f[x] \in Int
      OBVIOUS
    <3> QED
      BY <2>1, <3>1, SumRecursion
  <2>3. /\ T = {} => SumFunctionOnSet(g, T) = 0
        /\ T # {} => SumFunctionOnSet(g, T) = g[Pick(T)] + SumFunctionOnSet(g, T \ {Pick(T)})
    <3>1. \A x \in T : g[x] \in Int
      OBVIOUS
    <3> QED
      BY <2>1, <3>1, SumRecursion
  <2>4. CASE T = {}
    <3>1. 0 * m = 0
      OBVIOUS
    <3> QED
      BY <2>2, <2>3, <2>4, <3>1
  <2>5. CASE T # {}
    <3>1. PICK x \in T : x = Pick(T)
      BY <2>5, PickIn
    <3>2. PICK R : R = T \ {x}
      OBVIOUS
    <3>3. SumFunctionOnSet(g, R) = SumFunctionOnSet(f, R) * m
      BY <1>1, <3>2
    <3>4. SumFunctionOnSet(f, R) \in Int
      <4>1. IsFiniteSet(R) /\ (\A y \in R : f[y] \in Int)
        BY <2>1, <3>2, FS_RemoveElement
      <4> QED
        BY <4>1, SumRecursion
    <3>5. f[x] \in Int /\ g[x] = f[x] * m
      OBVIOUS
    <3>6. \A a, b \in Int : (a + b) * m = a * m + b * m
      OBVIOUS
    <3>7. SumFunctionOnSet(f, T) = f[x] + SumFunctionOnSet(f, R)
      BY <2>2, <2>5, <3>1, <3>2
    <3>8. SumFunctionOnSet(g, T) = g[x] + SumFunctionOnSet(g, R)
      BY <2>3, <2>5, <3>1, <3>2
    <3> QED
      BY <3>3, <3>4, <3>5, <3>6, <3>7, <3>8
  <2> QED
    BY <2>4, <2>5
<1>2. Good = SUBSET S
  <2>1. Good \in SUBSET SUBSET S
    OBVIOUS
  <2> HIDE DEF Good
  <2> QED
    BY <1>1, <2>1, SubsetInduction
<1>3. SumFunctionOnSet(f, S) \in Int
  <2>1. \A x \in S : f[x] \in Int
    OBVIOUS
  <2> QED
    BY <2>1, SumRecursion
<1> QED
  BY <1>2, <1>3

\* A sum of nothing but zeros.
LEMMA SumZero ==
  ASSUME NEW S, IsFiniteSet(S), NEW f, \A x \in S : f[x] = 0
  PROVE  SumFunctionOnSet(f, S) = 0
<1>1. \A x \in S : f[x] \in Int /\ f[x] = f[x] * 0
  OBVIOUS
<1>2. 0 \in Int
  OBVIOUS
<1>3. /\ SumFunctionOnSet(f, S) \in Int
      /\ SumFunctionOnSet(f, S) = SumFunctionOnSet(f, S) * 0
  BY <1>1, <1>2, SumTimes
<1> QED
  BY <1>3

\* A sum to which only a part of the set adds.
LEMMA SumPart ==
  ASSUME NEW S, IsFiniteSet(S), NEW T \in SUBSET S, NEW f,
         \A x \in S : f[x] \in Int, \A x \in S \ T : f[x] = 0
  PROVE  SumFunctionOnSet(f, S) = SumFunctionOnSet(f, T)
<1> DEFINE Good == {U \in SUBSET S : SumFunctionOnSet(f, U) = SumFunctionOnSet(f, U \cap T)}
<1>1. ASSUME NEW U \in SUBSET S, \A V \in SUBSET U : V # U => V \in Good
      PROVE  U \in Good
  <2>1. IsFiniteSet(U) /\ (\A x \in U : f[x] \in Int)
    BY FS_Subset
  <2>2. CASE U = {}
    <3>1. U \cap T = U
      BY <2>2
    <3> QED
      BY <3>1
  <2>3. CASE U # {}
    <3>1. PICK x \in U : x = Pick(U)
      BY <2>3, PickIn
    <3>2. PICK V \in SUBSET S, W \in SUBSET S, X \in SUBSET S :
            V = U \ {x} /\ W = U \cap T /\ X = V \cap T
      OBVIOUS
    <3>3. SumFunctionOnSet(f, U) = f[x] + SumFunctionOnSet(f, V)
      BY <2>1, <2>3, <3>1, <3>2, SumRecursion
    <3>4. SumFunctionOnSet(f, V) = SumFunctionOnSet(f, X)
      BY <1>1, <3>2
    <3>5. SumFunctionOnSet(f, V) \in Int
      <4>1. IsFiniteSet(V) /\ (\A y \in V : f[y] \in Int)
        BY <2>1, <3>2, FS_RemoveElement
      <4> QED
        BY <4>1, SumRecursion
    <3>6. CASE x \in T
      <4>1. x \in W /\ W \ {x} = X /\ IsFiniteSet(W) /\ \A y \in W : f[y] \in Int
        BY <2>1, <3>2, <3>6, FS_Subset
      <4>2. SumFunctionOnSet(f, W) = f[x] + SumFunctionOnSet(f, W \ {x})
        BY <4>1, SumTake
      <4> QED
        BY <3>2, <3>3, <3>4, <4>1, <4>2
    <3>7. CASE x \notin T
      <4>1. X = W /\ f[x] = 0
        BY <3>2, <3>7
      <4>2. SumFunctionOnSet(f, U) = SumFunctionOnSet(f, V)
        BY <3>3, <3>5, <4>1
      <4>3. SumFunctionOnSet(f, U) = SumFunctionOnSet(f, W)
        BY <3>4, <4>1, <4>2
      <4> QED
        BY <3>2, <4>3
    <3> QED
      BY <3>6, <3>7
  <2> QED
    BY <2>2, <2>3
<1>2. Good = SUBSET S
  <2>1. Good \in SUBSET SUBSET S
    OBVIOUS
  <2> HIDE DEF Good
  <2> QED
    BY <1>1, <2>1, SubsetInduction
<1>3. S \cap T = T
  OBVIOUS
<1> QED
  BY <1>2, <1>3

\* Sums of natural numbers are natural numbers, and no less than any of them.
LEMMA SumNat ==
  ASSUME NEW S, IsFiniteSet(S), NEW f, \A x \in S : f[x] \in Nat
  PROVE  /\ SumFunctionOnSet(f, S) \in Nat
         /\ \A x \in S : f[x] <= SumFunctionOnSet(f, S)
<1> DEFINE Good == {T \in SUBSET S : SumFunctionOnSet(f, T) \in Nat}
<1>1. ASSUME NEW T \in SUBSET S, \A U \in SUBSET T : U # T => U \in Good
      PROVE  T \in Good
  <2>1. IsFiniteSet(T) /\ (\A x \in T : f[x] \in Int)
    BY FS_Subset
  <2>2. /\ T = {} => SumFunctionOnSet(f, T) = 0
        /\ T # {} => SumFunctionOnSet(f, T) = f[Pick(T)] + SumFunctionOnSet(f, T \ {Pick(T)})
    BY <2>1, SumRecursion
  <2>3. T # {} => Pick(T) \in T /\ T \ {Pick(T)} \in Good
    BY <1>1, PickIn
  <2> QED
    BY <2>2, <2>3
<1>2. Good = SUBSET S
  <2>1. Good \in SUBSET SUBSET S
    OBVIOUS
  <2> HIDE DEF Good
  <2> QED
    BY <1>1, <2>1, SubsetInduction
<1>3. \A T \in SUBSET S : SumFunctionOnSet(f, T) \in Nat
  BY <1>2
<1>4. ASSUME NEW x \in S PROVE f[x] <= SumFunctionOnSet(f, S)
  <2>1. \A y \in S : f[y] \in Int
    OBVIOUS
  <2>2. SumFunctionOnSet(f, S) = f[x] + SumFunctionOnSet(f, S \ {x})
    BY <2>1, SumTake
  <2> QED
    BY <1>3, <2>2
<1> QED
  BY <1>3, <1>4

-----------------------------------------------------------------------------
(* Sums of the quantities of executions.                                   *)

\* The quantity of a set of executions.
QtyOf(F) == SumFunction([t \in F |-> t.qty])

\* No execution is no quantity.
LEMMA NoQty == QtyOf({}) = 0
<1> DEFINE f == [t \in {} |-> t.qty]
<1>1. SumFunctionOnSet(f, {}) = 0
  BY SumRecursion, FS_EmptySet
<1> QED
  BY <1>1 DEF QtyOf, SumFunction

\* One more execution adds its quantity.
LEMMA QtyGrows ==
  ASSUME NEW F, IsFiniteSet(F), \A t \in F : t.qty \in Int,
         NEW n, n \notin F, n.qty \in Int
  PROVE  IsFiniteSet(F \cup {n}) /\ QtyOf(F \cup {n}) = QtyOf(F) + n.qty
<1> DEFINE G == F \cup {n}
           f == [t \in F |-> t.qty]
           g == [t \in G |-> t.qty]
<1>1. IsFiniteSet(G)
  BY FS_AddElement
<1>2. \A t \in G : g[t] \in Int
  OBVIOUS
<1>3. \A t \in F : f[t] \in Int /\ f[t] = g[t]
  OBVIOUS
<1>4. g[n] = n.qty /\ DOMAIN f = F /\ DOMAIN g = G
  OBVIOUS
<1>5. QtyOf(F) = SumFunctionOnSet(f, F) /\ QtyOf(G) = SumFunctionOnSet(g, G)
  BY <1>4 DEF QtyOf, SumFunction
<1> HIDE DEF f, g
<1>6. SumFunctionOnSet(f, F) = SumFunctionOnSet(g, F)
  BY <1>3, SumSame
<1>7. SumFunctionOnSet(g, F \cup {n}) = SumFunctionOnSet(g, F) + g[n]
  BY <1>2, SumAdd
<1> QED
  BY <1>1, <1>4, <1>5, <1>6, <1>7

-----------------------------------------------------------------------------
(* Sums of tables: functions whose values are functions to numbers.        *)

TableSum(w) == SumFunction([k \in DOMAIN w |-> SumFunction(w[k])])

\* A table of integers with finite rows.
IsTable(w) ==
  \A k \in DOMAIN w : IsFiniteSet(DOMAIN w[k]) /\ \A j \in DOMAIN w[k] : w[k][j] \in Int

\* The rows of a table have integer sums.
LEMMA RowSums ==
  ASSUME NEW w, IsTable(w)
  PROVE  \A k \in DOMAIN w : SumFunction(w[k]) \in Int
<1> SUFFICES ASSUME NEW k \in DOMAIN w PROVE SumFunction(w[k]) \in Int
  OBVIOUS
<1>1. IsFiniteSet(DOMAIN w[k]) /\ \A j \in DOMAIN w[k] : w[k][j] \in Int
  BY DEF IsTable
<1> QED
  BY <1>1, SumRecursion DEF SumFunction

\* One more entry in a row.
LEMMA TableAdd ==
  ASSUME NEW w, IsTable(w), IsFiniteSet(DOMAIN w), NEW u, DOMAIN u = DOMAIN w,
         NEW d \in DOMAIN w, \A k \in DOMAIN w \ {d} : u[k] = w[k],
         NEW x, x \notin DOMAIN w[d], DOMAIN u[d] = DOMAIN w[d] \cup {x},
         \A j \in DOMAIN w[d] : u[d][j] = w[d][j], u[d][x] \in Int
  PROVE  TableSum(u) = TableSum(w) + u[d][x]
<1> DEFINE S == DOMAIN w
           R == DOMAIN w[d]
           f == [k \in S |-> SumFunction(w[k])]
           g == [k \in S |-> SumFunction(u[k])]
<1>1. IsFiniteSet(R) /\ \A j \in R : w[d][j] \in Int
  BY DEF IsTable
<1>2. SumFunctionOnSet(u[d], R \cup {x}) = SumFunctionOnSet(u[d], R) + u[d][x]
  BY <1>1, SumAdd
<1>3. SumFunctionOnSet(u[d], R) = SumFunctionOnSet(w[d], R)
  BY <1>1, SumSame
<1>4. SumFunction(u[d]) = SumFunction(w[d]) + u[d][x]
  BY <1>2, <1>3 DEF SumFunction
<1>5. \A k \in S : f[k] \in Int
  BY RowSums
<1>6. f[d] \in Int /\ g[d] = f[d] + u[d][x]
  BY <1>4, <1>5
<1>7. \A k \in S \ {d} : g[k] = f[k]
  OBVIOUS
<1>8. \A k \in S : g[k] \in Int
  BY <1>5, <1>6, <1>7
<1>9. IsFiniteSet(S) /\ IsFiniteSet(S \ {d})
  BY FS_RemoveElement
<1>10. DOMAIN f = S /\ DOMAIN g = S /\ TableSum(w) = SumFunction(f) /\ TableSum(u) = SumFunction(g)
  BY DEF TableSum
<1> HIDE DEF f, g
<1>11. SumFunctionOnSet(f, S) = f[d] + SumFunctionOnSet(f, S \ {d})
  BY <1>5, <1>9, SumTake
<1>12. SumFunctionOnSet(g, S) = g[d] + SumFunctionOnSet(g, S \ {d})
  BY <1>8, <1>9, SumTake
<1>13. SumFunctionOnSet(g, S \ {d}) = SumFunctionOnSet(f, S \ {d})
  BY <1>5, <1>7, <1>8, <1>9, SumSame
<1>14. SumFunctionOnSet(f, S \ {d}) \in Int
  BY <1>5, <1>9, SumRecursion
<1> QED
  BY <1>6, <1>10, <1>11, <1>12, <1>13, <1>14 DEF SumFunction

\* One more row, which is empty.
LEMMA TableGrow ==
  ASSUME NEW w, IsTable(w), IsFiniteSet(DOMAIN w), NEW u, NEW x, x \notin DOMAIN w,
         DOMAIN u = DOMAIN w \cup {x}, \A k \in DOMAIN w : u[k] = w[k], DOMAIN u[x] = {}
  PROVE  TableSum(u) = TableSum(w)
<1> DEFINE S == DOMAIN w
           f == [k \in S |-> SumFunction(w[k])]
           g == [k \in S \cup {x} |-> SumFunction(u[k])]
<1>1. SumFunction(u[x]) = 0
  BY FS_EmptySet, SumRecursion DEF SumFunction
<1>2. \A k \in S : f[k] \in Int /\ g[k] = f[k]
  BY RowSums
<1>3. g[x] = 0
  BY <1>1
<1>4. DOMAIN f = S /\ DOMAIN g = S \cup {x} /\ TableSum(w) = SumFunction(f) /\ TableSum(u) = SumFunction(g)
  BY DEF TableSum
<1> HIDE DEF f, g
<1>5. \A k \in S \cup {x} : g[k] \in Int
  BY <1>2, <1>3
<1>6. SumFunctionOnSet(g, S \cup {x}) = SumFunctionOnSet(g, S) + g[x]
  <2>1. PICK h, D : h = g /\ D = S
    OBVIOUS
  <2>2. IsFiniteSet(D) /\ x \notin D /\ \A k \in D \cup {x} : h[k] \in Int
    BY <1>5, <2>1
  <2>3. SumFunctionOnSet(h, D \cup {x}) = SumFunctionOnSet(h, D) + h[x]
    BY <2>2, SumAdd
  <2> QED
    BY <2>1, <2>3
<1>7. SumFunctionOnSet(g, S) = SumFunctionOnSet(f, S)
  BY <1>2, <1>5, SumSame
<1>8. SumFunctionOnSet(f, S) \in Int
  BY <1>2, SumRecursion
<1> QED
  BY <1>3, <1>4, <1>6, <1>7, <1>8 DEF SumFunction

-----------------------------------------------------------------------------
(* Folds over sequences.                                                   *)

\* The last index of the sets of indices, which a fold from the left takes off.
LastOf(n) == [T \in (SUBSET (1..n)) \ {{}} |-> Max(T)]

\* A set of indices has a greatest one.
LEMMA MaxOfIndices ==
  ASSUME NEW n \in Nat, NEW T \in SUBSET (1..n), T # {}
  PROVE  Max(T) \in T /\ \A x \in T : x <= Max(T)
<1> DEFINE Above == {k \in Nat : \A x \in T : x <= k}
<1>1. n \in Above /\ Above \subseteq Nat
  OBVIOUS
<1>2. PICK k \in Above : \A j \in Above : ~ (<<j, k>> \in OpToRel(<, Nat))
  BY <1>1, NatLessThanWellFounded, WFMin
<1>3. \A j \in Above : ~ (j < k)
  BY <1>1, <1>2 DEF OpToRel
<1>4. k \in T
  <2> SUFFICES ASSUME k \notin T PROVE FALSE
    OBVIOUS
  <2>1. \A x \in T : x \in Nat /\ x <= k /\ x # k
    OBVIOUS
  <2>2. PICK x \in T : TRUE
    OBVIOUS
  <2>3. x \in Nat /\ x >= 1 /\ x < k
    BY <2>1
  <2>4. k - 1 \in Nat /\ k - 1 < k
    BY <2>3
  <2>5. \A y \in T : y <= k - 1
    BY <2>1, <2>4
  <2> QED
    BY <1>3, <2>4, <2>5
<1>5. \A x \in T : x <= k
  OBVIOUS
<1>6. \A x, y \in T : x >= y \/ y >= x
  OBVIOUS
<1>7. \E m \in T : \A x \in T : m >= x
  BY <1>4, <1>5
<1>8. Max(T) \in T /\ \A x \in T : Max(T) >= x
  BY <1>7 DEF Max
<1> QED
  BY <1>8

\* It may be taken off.
LEMMA LastOfChoice ==
  ASSUME NEW n \in Nat
  PROVE  IsChoice(LastOf(n), 1..n)
BY MaxOfIndices DEF IsChoice, LastOf

\* The last of the first k indices is k.
LEMMA LastOfFirst ==
  ASSUME NEW n \in Nat, NEW k \in 1..n
  PROVE  /\ 1..k \in SUBSET (1..n) /\ 1..k # {}
         /\ Max(1..k) = k /\ (1..k) \ {k} = 1..(k - 1)
<1>1. 1..k \in SUBSET (1..n) /\ k \in 1..k
  OBVIOUS
<1>2. Max(1..k) \in 1..k /\ \A x \in 1..k : x <= Max(1..k)
  BY <1>1, MaxOfIndices
<1> QED
  BY <1>1, <1>2

\* Induction over indices.
LEMMA IndexInduction ==
  ASSUME NEW n \in Nat, NEW Good \in SUBSET (0..n), 0 \in Good,
         \A k \in 1..n : k - 1 \in Good => k \in Good
  PROVE  Good = 0..n
<1> DEFINE All == {k \in Nat : k <= n => k \in Good}
<1>1. 0 \in All
  OBVIOUS
<1>2. ASSUME NEW k \in All PROVE k + 1 \in All
  <2>1. k \in Nat /\ k + 1 \in Nat /\ (k + 1) - 1 = k
    OBVIOUS
  <2>2. k + 1 <= n => k \in Good /\ k + 1 \in 1..n
    BY <2>1
  <2> QED
    BY <2>1, <2>2
<1>3. All = Nat
  <2>1. All \in SUBSET Nat
    OBVIOUS
  <2> HIDE DEF All
  <2> QED
    BY <1>1, <1>2, <2>1, NatInductionSet
<1>4. ASSUME NEW k \in 0..n PROVE k \in Good
  <2>1. k \in Nat /\ k <= n
    OBVIOUS
  <2>2. k \in All
    BY <1>3, <2>1
  <2> QED
    BY <2>1, <2>2
<1> QED
  BY <1>4

\* v goes from base through n steps.
StepsFrom(v, n, base, step) ==
  v[0] = base /\ \A k \in 1..n : v[k] = step[<<v[k - 1], k>>]

\* A recursion over the first n numbers has a solution in a set its step keeps.
LEMMA IndexRecursion ==
  ASSUME NEW n \in Nat, NEW A, NEW base \in A, NEW step \in [A \X (1..n) -> A]
  PROVE  \E v \in [0..n -> A] : StepsFrom(v, n, base, step)
<1>1. IsFiniteSet(1..n)
  BY FS_Interval
<1>2. PICK it \in [SUBSET (1..n) -> A] : IsRecursion(it, 1..n, base, step, LastOf(n))
  BY <1>1, LastOfChoice, SubsetRecursion
<1> DEFINE v == [k \in 0..n |-> it[1..k]]
<1>3. v \in [0..n -> A]
  OBVIOUS
<1>4. v[0] = base
  <2>1. 1..0 = {} /\ 0 \in 0..n
    OBVIOUS
  <2>2. it[{}] = base
    BY <1>2 DEF IsRecursion
  <2> QED
    BY <2>1, <2>2
<1>5. ASSUME NEW k \in 1..n PROVE v[k] = step[<<v[k - 1], k>>]
  <2>1. 1..k \in SUBSET (1..n) /\ 1..k # {} /\ Max(1..k) = k /\ (1..k) \ {k} = 1..(k - 1)
    BY LastOfFirst
  <2>2. LastOf(n)[1..k] = k
    BY <2>1 DEF LastOf
  <2>3. it[1..k] = step[<<it[(1..k) \ {k}], k>>]
    BY <1>2, <2>1, <2>2 DEF IsRecursion
  <2>4. v[k] = it[1..k] /\ v[k - 1] = it[1..(k - 1)]
    OBVIOUS
  <2> QED
    BY <2>1, <2>3, <2>4
<1> HIDE DEF v
<1> QED
  BY <1>3, <1>4, <1>5 DEF StepsFrom
=============================================================================
