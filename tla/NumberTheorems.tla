--------------------------- MODULE NumberTheorems ---------------------------
(***************************************************************************)
(* Facts about numbers that several proofs need: sums, and circles.        *)
(*                                                                         *)
(* Sums of a function over a finite set, SumFunctionOnSet of the module    *)
(* Functions: in what order the elements are taken does not matter, and a  *)
(* sum grows by what is added to the set.  The balances, the received      *)
(* quantities and the totals of the models are such sums.                  *)
(*                                                                         *)
(* The library defines a sum by recursion over the set.  That the          *)
(* recursion has a solution, and everything proved by induction below, is  *)
(* proved by contradiction: a set of counterexamples would have a least    *)
(* member.                                                                 *)
(***************************************************************************)
EXTENDS Integers, Functions, FiniteSets, FiniteSetTheorems, WellFoundedInduction, TLAPS

-----------------------------------------------------------------------------
(***************************************************************************)
(* Least members.                                                          *)
(***************************************************************************)
\* Every nonempty set of naturals has a least element.
LEMMA LeastNat ==
    ASSUME NEW T \in SUBSET Nat, T # {}
    PROVE  \E n \in T : \A m \in T : n <= m
<1>1. PICK n \in T : \A m \in T : ~(<<m, n>> \in OpToRel(<, Nat))
  BY NatLessThanWellFounded, WFMin
<1>2. ASSUME NEW m \in T PROVE n <= m
  <2>1. m \in Nat /\ n \in Nat /\ <<m, n>> \in Nat \X Nat
    OBVIOUS
  <2>2. ~(m < n)
    BY <1>1, <2>1 DEF OpToRel
  <2>. QED
    BY <2>1, <2>2
<1>. QED
  BY <1>2

\* A property of the subsets of a finite set S fails for none of them, if with
\* every subset it fails for it fails for a smaller one.
LEMMA NoCounterexample ==
    ASSUME NEW S, IsFiniteSet(S), NEW Bad \in SUBSET SUBSET S,
           \A s \in Bad : \E t \in Bad : t \subseteq s /\ t # s
    PROVE  Bad = {}
<1>. SUFFICES ASSUME Bad # {} PROVE FALSE
  OBVIOUS
<1>1. IsWellFoundedOn(StrictSubsetOrdering(S), SUBSET S)
  <2>1. FiniteSubsetsOf(S) = SUBSET S
    BY FS_FiniteSubsetsOfFinite
  <2>2. IsWellFoundedOn(StrictSubsetOrdering(S), FiniteSubsetsOf(S))
    BY FS_StrictSubsetOrderingWellFounded
  <2>. QED
    BY <2>1, <2>2
<1>2. PICK s \in Bad : \A t \in Bad : ~(<<t, s>> \in StrictSubsetOrdering(S))
  BY <1>1, WFMin
<1>. QED
  BY <1>2 DEF StrictSubsetOrdering

-----------------------------------------------------------------------------
(***************************************************************************)
(* The recursion of the library.                                           *)
(***************************************************************************)
Pick(s) == CHOOSE x \in s : TRUE

\* g[s] is the sum of f over s, for every s in D.
SumsOver(f, D, g) ==
    g = [s \in D |-> IF s = {} THEN 0 ELSE f[Pick(s)] + g[s \ {Pick(s)}]]

Sums(f, S) == CHOOSE g : SumsOver(f, SUBSET S, g)

LEMMA SumDefinition ==
    ASSUME NEW f, NEW S
    PROVE  SumFunctionOnSet(f, S) = Sums(f, S)[S]
  BY DEF SumFunctionOnSet, FoldFunctionOnSet, MapThenFoldSet, Sums, SumsOver, Pick

LEMMA PickIn == ASSUME NEW s, s # {} PROVE Pick(s) \in s
  BY DEF Pick

Small(S, n) == {s \in SUBSET S : Cardinality(s) <= n}

\* The recursion has a solution: it has one over the subsets of at most n
\* elements, for every n.
LEMMA SumsExist ==
    ASSUME NEW f, NEW S, IsFiniteSet(S)
    PROVE  SumsOver(f, SUBSET S, Sums(f, S))
<1>. DEFINE Bad == {n \in Nat : ~\E g : SumsOver(f, Small(S, n), g)}
<1>1. \A s \in SUBSET S :
         IsFiniteSet(s) /\ Cardinality(s) \in Nat /\ (Cardinality(s) = 0 <=> s = {})
  BY FS_Subset, FS_EmptySet, FS_CardinalityType
<1>2. 0 \notin Bad
  <2>. DEFINE g == [s \in Small(S, 0) |-> 0]
  <2>1. \A s \in Small(S, 0) : s = {}
    BY <1>1 DEF Small
  <2>2. g = [s \in Small(S, 0) |-> IF s = {} THEN 0 ELSE f[Pick(s)] + g[s \ {Pick(s)}]]
    BY <2>1
  <2>3. SumsOver(f, Small(S, 0), g)
    BY <2>2 DEF SumsOver
  <2>. QED
    BY <2>3
<1>3. ASSUME NEW n \in Nat, n + 1 \in Bad PROVE n \in Bad
  <2>. SUFFICES ASSUME NEW g, SumsOver(f, Small(S, n), g) PROVE FALSE
    BY <1>3
  <2>. DEFINE h == [s \in Small(S, n+1) |->
                      IF s = {} THEN 0 ELSE f[Pick(s)] + g[s \ {Pick(s)}]]
  <2>1. ASSUME NEW s \in Small(S, n+1), s # {} PROVE s \ {Pick(s)} \in Small(S, n)
    <3>1. s \in SUBSET S /\ Cardinality(s) <= n + 1 /\ Cardinality(s) \in Nat /\ IsFiniteSet(s)
      BY <1>1 DEF Small
    <3>2. Cardinality(s \ {Pick(s)}) = Cardinality(s) - 1
      BY <2>1, <3>1, PickIn, FS_RemoveElement
    <3>. QED
      BY <3>1, <3>2 DEF Small
  <2>2. \A s \in Small(S, n) : s \in Small(S, n+1) /\ h[s] = g[s]
    <3>1. \A s \in Small(S, n) : s \in Small(S, n+1)
      BY <1>1 DEF Small
    <3>2. \A s \in Small(S, n) : g[s] = IF s = {} THEN 0 ELSE f[Pick(s)] + g[s \ {Pick(s)}]
      BY DEF SumsOver
    <3>. QED
      BY <3>1, <3>2
  <2>3. h = [s \in Small(S, n+1) |-> IF s = {} THEN 0 ELSE f[Pick(s)] + h[s \ {Pick(s)}]]
    BY <2>1, <2>2
  <2>4. SumsOver(f, Small(S, n+1), h)
    BY <2>3 DEF SumsOver
  <2>. QED
    BY <1>3, <2>4
<1>4. Bad = {}
  <2>. SUFFICES ASSUME Bad # {} PROVE FALSE
    OBVIOUS
  <2>0. Bad \in SUBSET Nat
    OBVIOUS
  <2>1. PICK n \in Bad : \A m \in Bad : n <= m
    <3>. HIDE DEF Bad
    <3>. QED
      BY <2>0, LeastNat
  <2>2. n \in Nat /\ n # 0
    BY <1>2
  <2>. HIDE DEF Bad
  <2>3. n - 1 \in Bad
    BY <1>3, <2>2
  <2>. QED
    BY <2>1, <2>2, <2>3
<1>5. Small(S, Cardinality(S)) = SUBSET S /\ Cardinality(S) \in Nat
  BY FS_Subset, FS_CardinalityType DEF Small
<1>6. \E g : SumsOver(f, SUBSET S, g)
  <2>1. \E g : SumsOver(f, Small(S, Cardinality(S)), g)
    <3>1. Cardinality(S) \notin Bad
      BY <1>4
    <3>. QED
      BY <1>5, <3>1
  <2>. QED
    BY <1>5, <2>1
<1>. QED
  BY <1>6 DEF Sums

LEMMA SumsUnfold ==
    ASSUME NEW f, NEW S, IsFiniteSet(S), NEW s \in SUBSET S
    PROVE  Sums(f, S)[s] = IF s = {} THEN 0 ELSE f[Pick(s)] + Sums(f, S)[s \ {Pick(s)}]
<1>1. SumsOver(f, SUBSET S, Sums(f, S))
  BY SumsExist
<1>. HIDE DEF Sums
<1>. DEFINE g == Sums(f, S)
<1>2. g = [t \in SUBSET S |-> IF t = {} THEN 0 ELSE f[Pick(t)] + g[t \ {Pick(t)}]]
  BY <1>1 DEF SumsOver
<1>. HIDE DEF g
<1>3. g[s] = IF s = {} THEN 0 ELSE f[Pick(s)] + g[s \ {Pick(s)}]
  BY <1>2
<1>. QED
  BY <1>3 DEF g

\* The sum over a part is the same in the recursion over the whole.
LEMMA SumsOfPart ==
    ASSUME NEW f, NEW S, IsFiniteSet(S), NEW T \in SUBSET S
    PROVE  Sums(f, S)[T] = Sums(f, T)[T]
<1>. DEFINE Bad == {s \in SUBSET T : Sums(f, S)[s] # Sums(f, T)[s]}
<1>0. IsFiniteSet(T)
  BY FS_Subset
<1>1. ASSUME NEW s \in Bad PROVE \E t \in Bad : t \subseteq s /\ t # s
  <2>1. /\ Sums(f, S)[s] = IF s = {} THEN 0 ELSE f[Pick(s)] + Sums(f, S)[s \ {Pick(s)}]
        /\ Sums(f, T)[s] = IF s = {} THEN 0 ELSE f[Pick(s)] + Sums(f, T)[s \ {Pick(s)}]
    <3>1. s \in SUBSET S /\ s \in SUBSET T
      OBVIOUS
    <3>. HIDE DEF Bad
    <3>2. Sums(f, S)[s] = IF s = {} THEN 0 ELSE f[Pick(s)] + Sums(f, S)[s \ {Pick(s)}]
      BY <3>1, SumsUnfold
    <3>3. Sums(f, T)[s] = IF s = {} THEN 0 ELSE f[Pick(s)] + Sums(f, T)[s \ {Pick(s)}]
      BY <1>0, <3>1, SumsUnfold
    <3>. QED
      BY <3>2, <3>3
  <2>2. s # {}
    BY <2>1
  <2>3. Pick(s) \in s
    BY <2>2, PickIn
  <2>4. s \ {Pick(s)} \in Bad
    BY <2>1, <2>2, <2>3
  <2>. QED
    BY <2>3, <2>4
<1>2. Bad \in SUBSET SUBSET T
  OBVIOUS
<1>3. Bad = {}
  <2>. HIDE DEF Bad
  <2>. QED
    BY <1>0, <1>1, <1>2, NoCounterexample
<1>. QED
  BY <1>3

-----------------------------------------------------------------------------
(***************************************************************************)
(* Sums.                                                                   *)
(***************************************************************************)
\* A sum of nothing is 0.
LEMMA SumEmpty ==
    ASSUME NEW f
    PROVE  SumFunctionOnSet(f, {}) = 0
<1>1. Sums(f, {})[{}] = IF {} = {} THEN 0 ELSE f[Pick({})] + Sums(f, {})[{} \ {Pick({})}]
  BY FS_EmptySet, SumsUnfold
<1>. QED
  BY <1>1, SumDefinition

LEMMA SumPick ==
    ASSUME NEW f, NEW S, IsFiniteSet(S), S # {}
    PROVE  SumFunctionOnSet(f, S) = f[Pick(S)] + SumFunctionOnSet(f, S \ {Pick(S)})
<1>1. Sums(f, S)[S] = f[Pick(S)] + Sums(f, S)[S \ {Pick(S)}]
  BY SumsUnfold
<1>2. Sums(f, S)[S \ {Pick(S)}] = Sums(f, S \ {Pick(S)})[S \ {Pick(S)}]
  BY SumsOfPart
<1>. QED
  BY <1>1, <1>2, SumDefinition

\* A sum of integers is an integer.
LEMMA SumInt ==
    ASSUME NEW S, IsFiniteSet(S), NEW f, \A x \in S : f[x] \in Int
    PROVE  SumFunctionOnSet(f, S) \in Int
<1>. DEFINE Bad == {s \in SUBSET S : SumFunctionOnSet(f, s) \notin Int}
<1>1. ASSUME NEW s \in Bad PROVE \E t \in Bad : t \subseteq s /\ t # s
  <2>1. IsFiniteSet(s)
    BY FS_Subset
  <2>2. s # {}
    <3>1. SumFunctionOnSet(f, {}) = 0
      BY SumEmpty
    <3>. QED
      BY <3>1
  <2>3. Pick(s) \in s
    BY <2>2, PickIn
  <2>4. SumFunctionOnSet(f, s) = f[Pick(s)] + SumFunctionOnSet(f, s \ {Pick(s)})
    BY <2>1, <2>2, SumPick
  <2>5. f[Pick(s)] \in Int
    BY <2>3
  <2>6. s \ {Pick(s)} \in Bad
    BY <2>4, <2>5
  <2>. QED
    BY <2>3, <2>6
<1>2. Bad \in SUBSET SUBSET S
  OBVIOUS
<1>3. Bad = {}
  <2>. HIDE DEF Bad
  <2>. QED
    BY <1>1, <1>2, NoCounterexample
<1>. QED
  BY <1>3

\* Any element may be taken out first.
LEMMA SumRemove ==
    ASSUME NEW S, IsFiniteSet(S), NEW f, \A x \in S : f[x] \in Int, NEW y \in S
    PROVE  SumFunctionOnSet(f, S) = f[y] + SumFunctionOnSet(f, S \ {y})
<1>. DEFINE Bad == {s \in SUBSET S :
            \E x \in s : SumFunctionOnSet(f, s) # f[x] + SumFunctionOnSet(f, s \ {x})}
<1>1. ASSUME NEW s \in Bad PROVE \E t \in Bad : t \subseteq s /\ t # s
  <2>1. PICK x \in s : SumFunctionOnSet(f, s) # f[x] + SumFunctionOnSet(f, s \ {x})
    OBVIOUS
  <2>. DEFINE t == s \ {Pick(s)}
              u == s \ {x}
  <2>2. Pick(s) \in s /\ IsFiniteSet(s) /\ s \in SUBSET S
    BY <2>1, PickIn, FS_Subset
  <2>3. SumFunctionOnSet(f, s) = f[Pick(s)] + SumFunctionOnSet(f, t)
    BY <2>2, SumPick
  <2>4. x # Pick(s)
    BY <2>1, <2>3
  <2>5. CASE SumFunctionOnSet(f, t) # f[x] + SumFunctionOnSet(f, t \ {x})
    <3>1. t \in Bad
      BY <2>2, <2>4, <2>5
    <3>. QED
      BY <2>2, <3>1
  <2>6. CASE SumFunctionOnSet(f, u) # f[Pick(s)] + SumFunctionOnSet(f, u \ {Pick(s)})
    <3>1. u \in Bad
      BY <2>2, <2>4, <2>6
    <3>. QED
      BY <2>1, <3>1
  <2>7. CASE /\ SumFunctionOnSet(f, t) = f[x] + SumFunctionOnSet(f, t \ {x})
             /\ SumFunctionOnSet(f, u) = f[Pick(s)] + SumFunctionOnSet(f, u \ {Pick(s)})
    <3>1. t \ {x} = u \ {Pick(s)}
      OBVIOUS
    <3>2. f[x] \in Int /\ f[Pick(s)] \in Int
      BY <2>1, <2>2
    <3>3. SumFunctionOnSet(f, t \ {x}) \in Int
      <4>1. IsFiniteSet(t \ {x}) /\ t \ {x} \subseteq S
        BY <2>2, FS_Subset
      <4>. QED
        BY <4>1, SumInt
    <3>4. SumFunctionOnSet(f, u \ {Pick(s)}) = SumFunctionOnSet(f, t \ {x})
      BY <3>1
    <3>. HIDE DEF t, u
    <3>5. SumFunctionOnSet(f, s) = f[x] + SumFunctionOnSet(f, u)
      BY <2>3, <2>7, <3>2, <3>3, <3>4
    <3>. QED
      BY <2>1, <3>5 DEF u
  <2>. QED
    BY <2>5, <2>6, <2>7
<1>2. Bad \in SUBSET SUBSET S
  OBVIOUS
<1>3. Bad = {}
  <2>. HIDE DEF Bad
  <2>. QED
    BY <1>1, <1>2, NoCounterexample
<1>. QED
  BY <1>3

\* A new element adds its value.
LEMMA SumAdd ==
    ASSUME NEW S, IsFiniteSet(S), NEW x, x \notin S,
           NEW f, \A y \in S \cup {x} : f[y] \in Int
    PROVE  SumFunctionOnSet(f, S \cup {x}) = SumFunctionOnSet(f, S) + f[x]
<1>. DEFINE T == S \cup {x}
<1>1. IsFiniteSet(T) /\ x \in T /\ T \ {x} = S
  BY FS_AddElement
<1>2. f[x] \in Int /\ SumFunctionOnSet(f, S) \in Int /\ \A y \in T : f[y] \in Int
  BY SumInt
<1>. HIDE DEF T
<1>3. SumFunctionOnSet(f, T) = f[x] + SumFunctionOnSet(f, T \ {x})
  BY <1>1, <1>2, SumRemove
<1>4. SumFunctionOnSet(f, T \ {x}) = SumFunctionOnSet(f, S)
  BY <1>1
<1>. QED
  BY <1>2, <1>3, <1>4 DEF T

\* Functions that agree on a set have one sum over it.
LEMMA SumSame ==
    ASSUME NEW S, IsFiniteSet(S), NEW f, NEW g, \A x \in S : f[x] = g[x]
    PROVE  SumFunctionOnSet(f, S) = SumFunctionOnSet(g, S)
<1>. DEFINE Bad == {s \in SUBSET S : SumFunctionOnSet(f, s) # SumFunctionOnSet(g, s)}
<1>1. ASSUME NEW s \in Bad PROVE \E t \in Bad : t \subseteq s /\ t # s
  <2>1. IsFiniteSet(s)
    BY FS_Subset
  <2>2. s # {}
    <3>1. SumFunctionOnSet(f, {}) = 0 /\ SumFunctionOnSet(g, {}) = 0
      BY SumEmpty
    <3>. QED
      BY <3>1
  <2>3. Pick(s) \in s
    BY <2>2, PickIn
  <2>4. /\ SumFunctionOnSet(f, s) = f[Pick(s)] + SumFunctionOnSet(f, s \ {Pick(s)})
        /\ SumFunctionOnSet(g, s) = g[Pick(s)] + SumFunctionOnSet(g, s \ {Pick(s)})
    BY <2>1, <2>2, SumPick
  <2>5. f[Pick(s)] = g[Pick(s)]
    BY <2>3
  <2>6. s \ {Pick(s)} \in Bad
    BY <2>4, <2>5
  <2>. QED
    BY <2>3, <2>6
<1>2. Bad \in SUBSET SUBSET S
  OBVIOUS
<1>3. Bad = {}
  <2>. HIDE DEF Bad
  <2>. QED
    BY <1>1, <1>2, NoCounterexample
<1>. QED
  BY <1>3

\* A sum of naturals is a natural, at least as large as each of them.
LEMMA SumNat ==
    ASSUME NEW S, IsFiniteSet(S), NEW f, \A x \in S : f[x] \in Nat
    PROVE  SumFunctionOnSet(f, S) \in Nat
<1>. DEFINE Bad == {s \in SUBSET S : SumFunctionOnSet(f, s) \notin Nat}
<1>1. ASSUME NEW s \in Bad PROVE \E t \in Bad : t \subseteq s /\ t # s
  <2>1. IsFiniteSet(s)
    BY FS_Subset
  <2>2. s # {}
    <3>1. SumFunctionOnSet(f, {}) = 0
      BY SumEmpty
    <3>. QED
      BY <3>1
  <2>3. Pick(s) \in s
    BY <2>2, PickIn
  <2>4. SumFunctionOnSet(f, s) = f[Pick(s)] + SumFunctionOnSet(f, s \ {Pick(s)})
    BY <2>1, <2>2, SumPick
  <2>5. f[Pick(s)] \in Nat
    BY <2>3
  <2>6. s \ {Pick(s)} \in Bad
    BY <2>4, <2>5
  <2>. QED
    BY <2>3, <2>6
<1>2. Bad \in SUBSET SUBSET S
  OBVIOUS
<1>3. Bad = {}
  <2>. HIDE DEF Bad
  <2>. QED
    BY <1>1, <1>2, NoCounterexample
<1>. QED
  BY <1>3

LEMMA SumAtLeast ==
    ASSUME NEW S, IsFiniteSet(S), NEW f, \A x \in S : f[x] \in Nat, NEW y \in S
    PROVE  f[y] <= SumFunctionOnSet(f, S)
<1>1. SumFunctionOnSet(f, S) = f[y] + SumFunctionOnSet(f, S \ {y})
  BY SumRemove
<1>2. SumFunctionOnSet(f, S \ {y}) \in Nat
  BY FS_RemoveElement, SumNat
<1>. QED
  BY <1>1, <1>2

\* Elements of value 0 may be left out.
LEMMA SumZero ==
    ASSUME NEW S, IsFiniteSet(S), NEW f, \A x \in S : f[x] = 0
    PROVE  SumFunctionOnSet(f, S) = 0
<1>. DEFINE Bad == {s \in SUBSET S : SumFunctionOnSet(f, s) # 0}
<1>1. ASSUME NEW s \in Bad PROVE \E t \in Bad : t \subseteq s /\ t # s
  <2>1. IsFiniteSet(s)
    BY FS_Subset
  <2>2. s # {}
    <3>1. SumFunctionOnSet(f, {}) = 0
      BY SumEmpty
    <3>. QED
      BY <3>1
  <2>3. Pick(s) \in s
    BY <2>2, PickIn
  <2>4. SumFunctionOnSet(f, s) = f[Pick(s)] + SumFunctionOnSet(f, s \ {Pick(s)})
    BY <2>1, <2>2, SumPick
  <2>5. f[Pick(s)] = 0
    BY <2>3
  <2>6. SumFunctionOnSet(f, s \ {Pick(s)}) # 0
    BY <2>4, <2>5
  <2>7. s \ {Pick(s)} \in Bad
    BY <2>6
  <2>. QED
    BY <2>3, <2>7
<1>2. Bad \in SUBSET SUBSET S
  OBVIOUS
<1>3. Bad = {}
  <2>. HIDE DEF Bad
  <2>. QED
    BY <1>1, <1>2, NoCounterexample
<1>. QED
  BY <1>3

LEMMA SumOfOne ==
    ASSUME NEW S, IsFiniteSet(S), NEW f, NEW y \in S, f[y] \in Int,
           \A x \in S \ {y} : f[x] = 0
    PROVE  SumFunctionOnSet(f, S) = f[y]
<1>1. IsFiniteSet(S \ {y}) /\ \A x \in S : f[x] \in Int
  BY FS_RemoveElement
<1>2. SumFunctionOnSet(f, S) = f[y] + SumFunctionOnSet(f, S \ {y})
  BY <1>1, SumRemove
<1>3. SumFunctionOnSet(f, S \ {y}) = 0
  BY <1>1, SumZero
<1>. QED
  BY <1>2, <1>3

\* The sum over two sets with nothing in common is the sum of the sums.
LEMMA SumUnion ==
    ASSUME NEW S, IsFiniteSet(S), NEW T, IsFiniteSet(T), S \cap T = {},
           NEW f, \A x \in S \cup T : f[x] \in Int
    PROVE  SumFunctionOnSet(f, S \cup T) = SumFunctionOnSet(f, S) + SumFunctionOnSet(f, T)
<1>. DEFINE Apart(t) == SumFunctionOnSet(f, S) + SumFunctionOnSet(f, t)
            Bad == {t \in SUBSET T : SumFunctionOnSet(f, S \cup t) # Apart(t)}
<1>0. SumFunctionOnSet(f, S) \in Int
  BY SumInt
<1>1. ASSUME NEW t \in Bad PROVE \E u \in Bad : u \subseteq t /\ u # t
  <2>1. IsFiniteSet(t)
    BY FS_Subset
  <2>2. t # {}
    <3>1. SumFunctionOnSet(f, {}) = 0 /\ S \cup {} = S
      BY SumEmpty
    <3>2. SumFunctionOnSet(f, S \cup {}) = Apart({})
      BY <1>0, <3>1
    <3>. QED
      BY <3>2
  <2>3. PICK y : y \in t
    BY <2>2
  <2>. DEFINE u == t \ {y}
  <2>4. /\ IsFiniteSet(u) /\ IsFiniteSet(S \cup u)
        /\ y \notin u /\ y \notin S \cup u
        /\ u \cup {y} = t /\ (S \cup u) \cup {y} = S \cup t
    <3>1. IsFiniteSet(u)
      BY <2>1, FS_RemoveElement
    <3>2. IsFiniteSet(S \cup u)
      BY <3>1, FS_Union
    <3>. QED
      BY <2>3, <3>1, <3>2
  <2>5. \A x \in u \cup {y} : f[x] \in Int
    BY <2>3
  <2>6. \A x \in (S \cup u) \cup {y} : f[x] \in Int
    BY <2>3
  <2>7. f[y] \in Int /\ SumFunctionOnSet(f, u) \in Int
    BY <2>4, <2>5, SumInt
  <2>. HIDE DEF u
  <2>8. SumFunctionOnSet(f, t) = SumFunctionOnSet(f, u) + f[y]
    BY <2>4, <2>5, SumAdd
  <2>9. SumFunctionOnSet(f, S \cup t) = SumFunctionOnSet(f, S \cup u) + f[y]
    BY <2>4, <2>6, SumAdd
  <2>10. SumFunctionOnSet(f, S \cup u) # Apart(u)
    BY <1>0, <2>7, <2>8, <2>9
  <2>11. u \in Bad
    BY <2>10 DEF u
  <2>. QED
    BY <2>3, <2>11 DEF u
<1>2. Bad \in SUBSET SUBSET T
  OBVIOUS
<1>3. Bad = {}
  <2>. HIDE DEF Bad
  <2>. QED
    BY <1>1, <1>2, NoCounterexample
<1>. QED
  BY <1>3

\* Adding up the same values under other names: e renames, no two alike.
LEMMA SumImage ==
    ASSUME NEW S, IsFiniteSet(S), NEW e,
           \A x \in S, y \in S : e[x] = e[y] => x = y,
           NEW f, NEW g, \A x \in S : g[x] \in Int /\ f[e[x]] = g[x]
    PROVE  /\ IsFiniteSet({e[x] : x \in S})
           /\ SumFunctionOnSet(f, {e[x] : x \in S}) = SumFunctionOnSet(g, S)
<1>. DEFINE Image(s) == {e[x] : x \in s}
            Holds(s) == /\ IsFiniteSet(Image(s))
                        /\ SumFunctionOnSet(f, Image(s)) = SumFunctionOnSet(g, s)
            Bad == {s \in SUBSET S : ~Holds(s)}
<1>1. ASSUME NEW s \in Bad PROVE \E t \in Bad : t \subseteq s /\ t # s
  <2>1. IsFiniteSet(s)
    BY FS_Subset
  <2>2. s # {}
    <3>1. Image({}) = {}
      OBVIOUS
    <3>2. Holds({})
      BY <3>1, SumEmpty, FS_EmptySet
    <3>. HIDE DEF Holds
    <3>. QED
      BY <3>2
  <2>3. PICK y : y \in s
    BY <2>2
  <2>. DEFINE t == s \ {y}
  <2>4. /\ IsFiniteSet(t) /\ y \notin t /\ t \cup {y} = s
        /\ e[y] \notin Image(t) /\ Image(s) = Image(t) \cup {e[y]}
    BY <2>1, <2>3, FS_RemoveElement
  <2>5. /\ \A x \in t \cup {y} : g[x] \in Int
        /\ \A z \in Image(t) \cup {e[y]} : f[z] \in Int
        /\ f[e[y]] = g[y]
    BY <2>3
  <2>. HIDE DEF t, Image
  <2>6. SumFunctionOnSet(g, s) = SumFunctionOnSet(g, t) + g[y]
    BY <2>4, <2>5, SumAdd
  <2>7. ASSUME Holds(t) PROVE FALSE
    <3>. DEFINE I == Image(t)
                z == e[y]
    <3>1. IsFiniteSet(I) /\ z \notin I /\ Image(s) = I \cup {z}
      BY <2>4, <2>7
    <3>2. \A w \in I \cup {z} : f[w] \in Int
      BY <2>5
    <3>3. f[z] = g[y] /\ SumFunctionOnSet(f, I) = SumFunctionOnSet(g, t)
      BY <2>5, <2>7
    <3>. HIDE DEF I, z
    <3>4. SumFunctionOnSet(f, I \cup {z}) = SumFunctionOnSet(f, I) + f[z]
      BY <3>1, <3>2, SumAdd
    <3>5. IsFiniteSet(I \cup {z})
      BY <3>1, FS_AddElement
    <3>6. Holds(s)
      BY <2>6, <3>1, <3>3, <3>4, <3>5
    <3>. HIDE DEF Holds
    <3>. QED
      BY <3>6
  <2>8. t \in Bad
    <3>. HIDE DEF Holds
    <3>. QED
      BY <2>3, <2>7 DEF t
  <2>. QED
    BY <2>3, <2>8 DEF t
<1>2. Bad \in SUBSET SUBSET S
  OBVIOUS
<1>3. Bad = {}
  <2>. HIDE DEF Bad
  <2>. QED
    BY <1>1, <1>2, NoCounterexample
<1>4. Holds(S)
  <2>. HIDE DEF Holds
  <2>. QED
    BY <1>3
<1>. QED
  BY <1>4

LEMMA SumNegated ==
    ASSUME NEW S, IsFiniteSet(S), NEW f, NEW g,
           \A x \in S : f[x] \in Int /\ g[x] = -f[x]
    PROVE  SumFunctionOnSet(g, S) = -SumFunctionOnSet(f, S)
<1>. DEFINE Holds(s) == SumFunctionOnSet(g, s) = -SumFunctionOnSet(f, s)
            Bad == {s \in SUBSET S : ~Holds(s)}
<1>1. ASSUME NEW s \in Bad PROVE \E t \in Bad : t \subseteq s /\ t # s
  <2>1. IsFiniteSet(s)
    BY FS_Subset
  <2>2. s # {}
    <3>1. Holds({})
      BY SumEmpty
    <3>. HIDE DEF Holds
    <3>. QED
      BY <3>1
  <2>3. PICK y : y \in s
    BY <2>2
  <2>. DEFINE t == s \ {y}
  <2>4. IsFiniteSet(t) /\ t \subseteq s /\ t # s
    BY <2>1, <2>3, FS_RemoveElement
  <2>5. /\ \A x \in s : f[x] \in Int /\ g[x] \in Int
        /\ g[y] = -f[y] /\ f[y] \in Int
    BY <2>3
  <2>6. /\ SumFunctionOnSet(f, s) = f[y] + SumFunctionOnSet(f, t)
        /\ SumFunctionOnSet(g, s) = g[y] + SumFunctionOnSet(g, t)
    BY <2>1, <2>3, <2>5, SumRemove
  <2>7. SumFunctionOnSet(f, t) \in Int
    BY <2>4, <2>5, SumInt
  <2>. HIDE DEF t
  <2>8. ~Holds(t)
    <3>1. ASSUME Holds(t) PROVE Holds(s)
      BY <2>5, <2>6, <2>7, <3>1
    <3>. HIDE DEF Holds
    <3>. QED
      BY <3>1
  <2>. HIDE DEF Holds
  <2>. QED
    BY <2>4, <2>8
<1>2. Bad \in SUBSET SUBSET S
  OBVIOUS
<1>3. Bad = {}
  <2>. HIDE DEF Bad
  <2>. QED
    BY <1>1, <1>2, NoCounterexample
<1>4. Holds(S)
  <2>. HIDE DEF Holds
  <2>. QED
    BY <1>3
<1>. QED
  BY <1>4

\* The sum of a function is its sum over its domain.
LEMMA SumOf ==
    ASSUME NEW S, NEW f, DOMAIN f = S
    PROVE  SumFunction(f) = SumFunctionOnSet(f, S)
  BY DEF SumFunction

-----------------------------------------------------------------------------
(***************************************************************************)
(* Circles.  Numbers that rise from each place of a circle to the next do  *)
(* not exist: whoever takes locks by rising rank waits in no circle.       *)
(***************************************************************************)
\* The place after the last one is the first.
LEMMA Successor ==
    ASSUME NEW n \in Nat \ {0}, NEW k \in 1..n
    PROVE  (k % n) + 1 = IF k = n THEN 1 ELSE k + 1
<1>1. CASE k = n
  BY <1>1
<1>2. CASE k < n
  BY <1>2
<1>. QED
  BY <1>1, <1>2

\* The least number of the circle would have a lesser one before it.
LEMMA NoRisingCircle ==
    ASSUME NEW n \in Nat \ {0}, NEW g \in [1..n -> Nat],
           \A i \in 1..n : g[i] < g[(i % n) + 1]
    PROVE  FALSE
<1>. DEFINE T == {g[i] : i \in 1..n}
<1>1. T \in SUBSET Nat /\ T # {}
  <2>1. 1 \in 1..n
    OBVIOUS
  <2>. QED
    BY <2>1
<1>2. PICK m \in T : \A x \in T : m <= x
  <2>. HIDE DEF T
  <2>. QED
    BY <1>1, LeastNat
<1>3. PICK j \in 1..n : m = g[j]
  BY <1>2
<1>. DEFINE k == IF j = 1 THEN n ELSE j - 1
<1>4. k \in 1..n /\ (k = n => j = 1) /\ (k # n => k + 1 = j)
  OBVIOUS
<1>5. (k % n) + 1 = j
  BY <1>4, Successor
<1>6. g[k] < g[j]
  BY <1>4, <1>5
<1>7. g[j] <= g[k]
  BY <1>2, <1>3, <1>4
<1>8. g[k] \in Nat /\ g[j] \in Nat
  BY <1>4
<1>. QED
  BY <1>6, <1>7, <1>8
=============================================================================
