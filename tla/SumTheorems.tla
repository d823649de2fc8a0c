---------------------------- MODULE SumTheorems ----------------------------
(***************************************************************************)
(* Sums of a function's values over a finite set, in any order             *)
(* (SumFunctionOnSet): one element more, disjoint parts, renaming.         *)
(*                                                                         *)
(* Every induction is over the subsets of a finite set, as the choice of a *)
(* smallest counterexample.                                                *)
(***************************************************************************)
EXTENDS Integers, Functions, FiniteSetTheorems, WellFoundedInduction, TLAPS

\* Among some subsets of a finite set one is minimal.
LEMMA SmallestSubset ==
    ASSUME NEW D, IsFiniteSet(D), NEW Bad, Bad \subseteq SUBSET D, Bad # {}
    PROVE  \E S \in Bad : \A T \in SUBSET S : T # S => T \notin Bad
<1> DEFINE counts == {Cardinality(S) : S \in Bad}
<1>1. \A S \in Bad : IsFiniteSet(S) /\ Cardinality(S) \in Nat
  BY FS_Subset, FS_CardinalityType
<1>2. counts \subseteq Nat /\ counts # {}
  BY <1>1
<1>3. PICK n \in counts : \A m \in counts : ~ (<<m, n>> \in OpToRel(<, Nat))
  <2> HIDE DEF counts
  <2> QED BY <1>2, NatLessThanWellFounded, WFMin, Zenon
<1>4. PICK S \in Bad : n = Cardinality(S)
  BY <1>3
<1>5. ASSUME NEW T \in SUBSET S, T # S, T \in Bad
      PROVE  FALSE
  <2>1. Cardinality(T) < Cardinality(S)
    BY <1>1, <1>5, FS_Subset
  <2>2. <<Cardinality(T), n>> \in OpToRel(<, Nat)
    BY <1>1, <1>4, <1>5, <2>1 DEF OpToRel
  <2> QED BY <1>3, <1>5, <2>2
<1> QED BY <1>5

-----------------------------------------------------------------------------
(***************************************************************************)
(* The recursion that defines the sum.                                     *)
(***************************************************************************)
Pick(s) == CHOOSE x \in s : TRUE

\* g gives every subset of D the sum of f over it.
Sums(f, D, g) ==
    g = [s \in SUBSET D |-> IF s = {} THEN 0 ELSE f[Pick(s)] + g[s \ {Pick(s)}]]

\* There is such a g: for the subsets of at most n elements, for every n.
LEMMA SumsExist ==
    ASSUME NEW D, IsFiniteSet(D), NEW f
    PROVE  \E g : Sums(f, D, g)
<1> DEFINE Small(n) == {s \in SUBSET D : Cardinality(s) <= n}
           Partial(n, g) == g = [s \in Small(n) |->
                                    IF s = {} THEN 0 ELSE f[Pick(s)] + g[s \ {Pick(s)}]]
           bad == {n \in Nat : ~ \E g : Partial(n, g)}
<1>1. \A s \in SUBSET D : IsFiniteSet(s) /\ Cardinality(s) \in Nat
  BY FS_Subset, FS_CardinalityType
<1>2. bad = {}
  <2> SUFFICES ASSUME bad # {} PROVE FALSE
    OBVIOUS
  <2>1. PICK n \in bad : \A m \in bad : ~ (<<m, n>> \in OpToRel(<, Nat))
    <3>1. bad \subseteq Nat
      OBVIOUS
    <3> HIDE DEF bad
    <3> QED BY <3>1, NatLessThanWellFounded, WFMin, Zenon
  <2>2. CASE n = 0
    <3>1. \A s \in Small(0) : s = {}
      BY <1>1, FS_EmptySet
    <3>2. PICK g : g = [s \in Small(0) |-> 0]
      OBVIOUS
    <3>3. Partial(0, g)
      BY <3>1, <3>2
    <3> QED BY <2>1, <2>2, <3>3
  <2>3. CASE n # 0
    <3>1. n - 1 \in Nat /\ <<n - 1, n>> \in OpToRel(<, Nat)
      BY <2>3 DEF OpToRel
    <3>2. PICK h : Partial(n - 1, h)
      BY <2>1, <3>1
    <3>3. PICK g : g = [s \in Small(n) |-> IF s = {} THEN 0 ELSE f[Pick(s)] + h[s \ {Pick(s)}]]
      OBVIOUS
    <3>4. ASSUME NEW s \in Small(n), s # {}
          PROVE  h[s \ {Pick(s)}] = g[s \ {Pick(s)}]
      <4>1. Pick(s) \in s
        BY <3>4 DEF Pick
      <4>2. PICK t : t = s \ {Pick(s)}
        OBVIOUS
      <4>3. Cardinality(t) = Cardinality(s) - 1 /\ t \in SUBSET D
        BY <1>1, <4>1, <4>2, FS_RemoveElement
      <4>4. t \in Small(n - 1) /\ t \in Small(n)
        BY <1>1, <4>3
      <4>5. h[t] = IF t = {} THEN 0 ELSE f[Pick(t)] + h[t \ {Pick(t)}]
        BY <3>2, <4>4
      <4>6. g[t] = IF t = {} THEN 0 ELSE f[Pick(t)] + h[t \ {Pick(t)}]
        BY <3>3, <4>4
      <4> QED BY <4>2, <4>5, <4>6
    <3>5. Partial(n, g)
      <4> HIDE DEF Small
      <4> QED BY <3>3, <3>4
    <3> QED BY <2>1, <3>5
  <2> QED BY <2>2, <2>3
<1>3. PICK g : Partial(Cardinality(D), g)
  BY <1>1, <1>2
<1>4. Small(Cardinality(D)) = SUBSET D
  BY FS_Subset
<1> QED BY <1>3, <1>4 DEF Sums

\* So the sum is what one of them gives.
LEMMA SumIsOne ==
    ASSUME NEW D, IsFiniteSet(D), NEW f
    PROVE  \E g : Sums(f, D, g) /\ SumFunctionOnSet(f, D) = g[D]
<1>1. PICK g : g = CHOOSE h : Sums(f, D, h)
  OBVIOUS
<1>2. Sums(f, D, g)
  BY <1>1, SumsExist
<1>3. SumFunctionOnSet(f, D) = g[D]
  BY <1>1, Zenon DEF SumFunctionOnSet, FoldFunctionOnSet, MapThenFoldSet, Sums, Pick
<1> QED BY <1>2, <1>3

LEMMA SumsStep ==
    ASSUME NEW f, NEW D, NEW g, Sums(f, D, g)
    PROVE  /\ g[{}] = 0
           /\ \A s \in SUBSET D : s # {} =>
                 Pick(s) \in s /\ g[s] = f[Pick(s)] + g[s \ {Pick(s)}]
<1>1. \A s \in SUBSET D : g[s] = IF s = {} THEN 0 ELSE f[Pick(s)] + g[s \ {Pick(s)}]
  BY DEF Sums
<1>2. \A s : s # {} => Pick(s) \in s
  BY DEF Pick
<1> QED BY <1>1, <1>2

\* It is a number, and the order does not matter.
LEMMA SumsAnyOrder ==
    ASSUME NEW f, NEW D, IsFiniteSet(D), \A x \in D : f[x] \in Int, NEW g, Sums(f, D, g)
    PROVE  \A S \in SUBSET D : g[S] \in Int /\ \A x \in S : g[S] = f[x] + g[S \ {x}]
<1> DEFINE Good(S) == g[S] \in Int /\ \A x \in S : g[S] = f[x] + g[S \ {x}]
           bad == {S \in SUBSET D : ~ Good(S)}
<1> SUFFICES ASSUME bad # {} PROVE FALSE
  OBVIOUS
<1>1. PICK S \in bad : \A T \in SUBSET S : T # S => T \notin bad
  <2>1. bad \subseteq SUBSET D
    OBVIOUS
  <2> HIDE DEF bad
  <2> QED BY <2>1, SmallestSubset
<1>2. \A T \in SUBSET S : T # S => Good(T)
  BY <1>1
<1>0. S \in SUBSET D /\ ~ Good(S)
  BY <1>1
<1>3. S # {}
  <2>1. g[{}] = 0
    BY SumsStep
  <2>2. S = {} => Good(S)
    BY <2>1
  <2> QED BY <1>0, <2>2
<1>4. PICK y : y = Pick(S)
  OBVIOUS
<1>5. y \in S /\ g[S] = f[y] + g[S \ {y}] /\ f[y] \in Int
  <2>1. \A s \in SUBSET D : s # {} => Pick(s) \in s /\ g[s] = f[Pick(s)] + g[s \ {Pick(s)}]
    BY SumsStep
  <2>2. S \in SUBSET D
    BY <1>0
  <2>3. y \in S /\ g[S] = f[y] + g[S \ {y}]
    BY <1>3, <1>4, <2>1, <2>2
  <2> QED BY <2>2, <2>3
<1>6. g[S \ {y}] \in Int
  BY <1>2, <1>5
<1>7. ASSUME NEW x \in S, x # y
      PROVE  g[S] = f[x] + g[S \ {x}]
  <2>1. PICK rest : rest = (S \ {y}) \ {x}
    OBVIOUS
  <2>2. (S \ {x}) \ {y} = rest
    BY <2>1
  <2>3. g[S \ {y}] = f[x] + g[rest]
    BY <1>2, <1>5, <1>7, <2>1
  <2>4. g[S \ {x}] = f[y] + g[rest]
    BY <1>2, <1>5, <1>7, <2>2
  <2>5. g[rest] \in Int /\ f[x] \in Int
    BY <1>2, <1>5, <2>1
  <2> QED BY <1>5, <2>3, <2>4, <2>5
<1>8. g[S] \in Int
  BY <1>5, <1>6
<1>9. \A x \in S : g[S] = f[x] + g[S \ {x}]
  BY <1>5, <1>7
<1> QED BY <1>0, <1>8, <1>9

\* Functions that agree on a set have the same sum over it.
LEMMA SumsAgree ==
    ASSUME NEW f, NEW D, IsFiniteSet(D), \A x \in D : f[x] \in Int, NEW g, Sums(f, D, g),
           NEW e, NEW E \in SUBSET D, \A x \in E : e[x] = f[x], NEW h, Sums(e, E, h)
    PROVE  \A S \in SUBSET E : h[S] = g[S]
<1> DEFINE bad == {S \in SUBSET E : h[S] # g[S]}
<1> SUFFICES ASSUME bad # {} PROVE FALSE
  OBVIOUS
<1>1. PICK S \in bad : \A T \in SUBSET S : T # S => T \notin bad
  <2>1. bad \subseteq SUBSET D
    OBVIOUS
  <2> HIDE DEF bad
  <2> QED BY <2>1, SmallestSubset
<1>2. S # {}
  BY SumsStep
<1>3. PICK y : y = Pick(S)
  OBVIOUS
<1>4. /\ y \in S /\ g[S] = f[y] + g[S \ {y}] /\ h[S] = e[y] + h[S \ {y}]
  BY <1>2, <1>3, SumsStep
<1>5. h[S \ {y}] = g[S \ {y}] /\ e[y] = f[y]
  BY <1>1, <1>4
<1>6. h[S] = g[S]
  BY <1>4, <1>5
<1> QED BY <1>6

-----------------------------------------------------------------------------
(***************************************************************************)
(* Sums of functions.                                                      *)
(***************************************************************************)
LEMMA SumEmpty == \A f : DOMAIN f = {} => SumFunction(f) = 0
<1> SUFFICES ASSUME NEW f, DOMAIN f = {} PROVE SumFunction(f) = 0
  OBVIOUS
<1>1. PICK g : Sums(f, {}, g) /\ SumFunctionOnSet(f, {}) = g[{}]
  BY SumIsOne, FS_EmptySet
<1> QED BY <1>1, SumsStep DEF SumFunction

\* f without one element of its domain.
Without(f, x) == [y \in DOMAIN f \ {x} |-> f[y]]

LEMMA SumWithout ==
    ASSUME NEW f, IsFiniteSet(DOMAIN f), \A x \in DOMAIN f : f[x] \in Int
    PROVE  /\ SumFunction(f) \in Int
           /\ \A x \in DOMAIN f : SumFunction(f) = f[x] + SumFunction(Without(f, x))
<1>1. PICK g : Sums(f, DOMAIN f, g) /\ SumFunction(f) = g[DOMAIN f]
  BY SumIsOne DEF SumFunction
<1>2. SumFunction(f) \in Int /\ \A x \in DOMAIN f : SumFunction(f) = f[x] + g[DOMAIN f \ {x}]
  <2>1. DOMAIN f \in SUBSET DOMAIN f
    OBVIOUS
  <2>2. \A S \in SUBSET DOMAIN f : g[S] \in Int /\ \A x \in S : g[S] = f[x] + g[S \ {x}]
    BY <1>1, SumsAnyOrder
  <2> QED BY <1>1, <2>1, <2>2
<1>3. ASSUME NEW x \in DOMAIN f
      PROVE  SumFunction(Without(f, x)) = g[DOMAIN f \ {x}]
  <2>1. PICK e : e = Without(f, x)
    OBVIOUS
  <2>2. /\ DOMAIN e = DOMAIN f \ {x} /\ \A y \in DOMAIN e : e[y] = f[y]
        /\ IsFiniteSet(DOMAIN e)
    BY <2>1, FS_Subset DEF Without
  <2>3. PICK h : Sums(e, DOMAIN e, h) /\ SumFunction(e) = h[DOMAIN e]
    BY <2>2, SumIsOne DEF SumFunction
  <2>4. DOMAIN e \in SUBSET DOMAIN f
    BY <2>2
  <2>5. h[DOMAIN e] = g[DOMAIN e]
    BY <1>1, <2>2, <2>3, <2>4, SumsAgree
  <2> QED BY <2>1, <2>2, <2>3, <2>5
<1> QED BY <1>2, <1>3

\* One element: its value.
LEMMA SumSingle ==
    ASSUME NEW f, NEW x, DOMAIN f = {x}, f[x] \in Int
    PROVE  SumFunction(f) = f[x]
<1>1. IsFiniteSet(DOMAIN f) /\ \A y \in DOMAIN f : f[y] \in Int
  BY FS_Singleton
<1>2. SumFunction(f) = f[x] + SumFunction(Without(f, x))
  BY <1>1, SumWithout
<1>3. DOMAIN Without(f, x) = {}
  BY DEF Without
<1>4. SumFunction(Without(f, x)) = 0
  BY <1>3, SumEmpty
<1> QED BY <1>2, <1>4

\* The part of f on S.
Part(f, S) == [x \in S |-> f[x]]

\* Equal functions on equal domains, one of them built anew.
LEMMA SumEqual ==
    ASSUME NEW f, NEW e, IsFiniteSet(DOMAIN f), \A x \in DOMAIN f : f[x] \in Int,
           DOMAIN e = DOMAIN f, \A x \in DOMAIN f : e[x] = f[x]
    PROVE  SumFunction(e) = SumFunction(f)
<1>1. PICK g : Sums(f, DOMAIN f, g) /\ SumFunction(f) = g[DOMAIN f]
  BY SumIsOne DEF SumFunction
<1>2. PICK h : Sums(e, DOMAIN f, h) /\ SumFunction(e) = h[DOMAIN f]
  BY SumIsOne DEF SumFunction
<1>3. h[DOMAIN f] = g[DOMAIN f]
  BY <1>1, <1>2, SumsAgree
<1> QED BY <1>1, <1>2, <1>3

\* One element of a part.
LEMMA PartWithout ==
    ASSUME NEW f, IsFiniteSet(DOMAIN f), \A x \in DOMAIN f : f[x] \in Int,
           NEW S \in SUBSET DOMAIN f
    PROVE  /\ SumFunction(Part(f, S)) \in Int
           /\ \A x \in S : SumFunction(Part(f, S)) = f[x] + SumFunction(Part(f, S \ {x}))
<1>1. PICK e : e = Part(f, S)
  OBVIOUS
<1>2. DOMAIN e = S /\ (\A x \in S : e[x] = f[x] /\ e[x] \in Int) /\ IsFiniteSet(S)
  BY <1>1, FS_Subset DEF Part
<1>3. \A x \in S : Without(e, x) = Part(f, S \ {x})
  BY <1>2 DEF Without, Part
<1> QED BY <1>1, <1>2, <1>3, SumWithout

\* The parts of a sum.
LEMMA SumOfParts ==
    ASSUME NEW f, IsFiniteSet(DOMAIN f), \A x \in DOMAIN f : f[x] \in Int,
           NEW A \in SUBSET DOMAIN f
    PROVE  /\ SumFunction(Part(f, A)) \in Int
           /\ SumFunction(Part(f, DOMAIN f \ A)) \in Int
           /\ SumFunction(f) = SumFunction(Part(f, A)) + SumFunction(Part(f, DOMAIN f \ A))
<1>0. \A S \in SUBSET DOMAIN f :
          /\ SumFunction(Part(f, S)) \in Int
          /\ \A x \in S : SumFunction(Part(f, S)) = f[x] + SumFunction(Part(f, S \ {x}))
  BY PartWithout
<1> DEFINE Splits(S) == SumFunction(Part(f, S))
                          = SumFunction(Part(f, S \cap A)) + SumFunction(Part(f, S \ A))
           bad == {S \in SUBSET DOMAIN f : ~ Splits(S)}
<1>1. bad = {}
  <2> SUFFICES ASSUME bad # {} PROVE FALSE
    OBVIOUS
  <2>1. PICK S \in bad : \A T \in SUBSET S : T # S => T \notin bad
    <3>1. bad \subseteq SUBSET DOMAIN f
      OBVIOUS
    <3> HIDE DEF bad
    <3> QED BY <3>1, SmallestSubset
  <2>2. S # {}
    <3>1. SumFunction(Part(f, {})) = 0
      BY SumEmpty DEF Part
    <3>2. {} \cap A = {} /\ {} \ A = {}
      OBVIOUS
    <3>3. Splits({})
      BY <3>1, <3>2
    <3> QED BY <2>1, <3>3
  <2>3. PICK x \in S : TRUE
    BY <2>2
  <2>4. Splits(S \ {x})
    BY <2>1, <2>3
  <2>5. /\ f[x] \in Int
        /\ SumFunction(Part(f, S)) = f[x] + SumFunction(Part(f, S \ {x}))
        /\ SumFunction(Part(f, (S \ {x}) \cap A)) \in Int
        /\ SumFunction(Part(f, (S \ {x}) \ A)) \in Int
    BY <1>0, <2>3
  <2>6. CASE x \in A
    <3>1. (S \ {x}) \cap A = (S \cap A) \ {x} /\ (S \ {x}) \ A = S \ A
      BY <2>6
    <3>2. SumFunction(Part(f, S \cap A)) = f[x] + SumFunction(Part(f, (S \cap A) \ {x}))
      BY <1>0, <2>3, <2>6
    <3>3. Splits(S)
      BY <2>4, <2>5, <3>1, <3>2, SMTT(30)
    <3> QED BY <3>3
  <2>7. CASE x \notin A
    <3>1. (S \ {x}) \ A = (S \ A) \ {x} /\ (S \ {x}) \cap A = S \cap A
      BY <2>7
    <3>2. SumFunction(Part(f, S \ A)) = f[x] + SumFunction(Part(f, (S \ A) \ {x}))
      BY <1>0, <2>3, <2>7
    <3>3. Splits(S)
      BY <2>4, <2>5, <3>1, <3>2
    <3> QED BY <3>3
  <2> QED BY <2>6, <2>7
<1>2. Splits(DOMAIN f) /\ DOMAIN f \cap A = A
  BY <1>1
<1>3. SumFunction(Part(f, DOMAIN f)) = SumFunction(f)
  BY SumEqual DEF Part
<1> QED BY <1>0, <1>2, <1>3

\* Natural numbers add up to one that is at least each of them.
LEMMA SumNat ==
    ASSUME NEW f, IsFiniteSet(DOMAIN f), \A x \in DOMAIN f : f[x] \in Nat
    PROVE  SumFunction(f) \in Nat /\ \A x \in DOMAIN f : f[x] <= SumFunction(f)
<1> DEFINE bad == {S \in SUBSET DOMAIN f : SumFunction(Part(f, S)) \notin Nat}
<1>0. \A x \in DOMAIN f : f[x] \in Int
  OBVIOUS
<1>1. \A S \in SUBSET DOMAIN f : \A x \in S :
          SumFunction(Part(f, S)) = f[x] + SumFunction(Part(f, S \ {x}))
  BY <1>0, PartWithout
<1>2. bad = {}
  <2> SUFFICES ASSUME bad # {} PROVE FALSE
    OBVIOUS
  <2>1. PICK S \in bad : \A T \in SUBSET S : T # S => T \notin bad
    <3>1. bad \subseteq SUBSET DOMAIN f
      OBVIOUS
    <3> HIDE DEF bad
    <3> QED BY <3>1, SmallestSubset
  <2>2. S # {}
    <3>1. DOMAIN Part(f, {}) = {}
      BY DEF Part
    <3>2. SumFunction(Part(f, {})) \in Nat
      BY <3>1, SumEmpty
    <3>3. SumFunction(Part(f, S)) \notin Nat
      BY <2>1
    <3> QED BY <3>2, <3>3
  <2>3. PICK x \in S : TRUE
    BY <2>2
  <2>4. SumFunction(Part(f, S \ {x})) \in Nat
    BY <2>1, <2>3
  <2>5. S \in SUBSET DOMAIN f /\ SumFunction(Part(f, S)) \notin Nat
    BY <2>1
  <2>6. SumFunction(Part(f, S)) = f[x] + SumFunction(Part(f, S \ {x}))
    BY <1>1, <2>3, <2>5
  <2> QED BY <2>3, <2>4, <2>5, <2>6
<1>3. SumFunction(f) = SumFunction(Part(f, DOMAIN f))
  BY <1>0, SumEqual DEF Part
<1>4. \A S \in SUBSET DOMAIN f : SumFunction(Part(f, S)) \in Nat
  BY <1>2
<1>5. ASSUME NEW x \in DOMAIN f PROVE f[x] <= SumFunction(f)
  <2>1. SumFunction(Part(f, DOMAIN f \ {x})) \in Nat
    BY <1>4
  <2>2. SumFunction(f) = f[x] + SumFunction(Part(f, DOMAIN f \ {x}))
    BY <1>1, <1>3
  <2> QED BY <2>1, <2>2
<1> QED BY <1>3, <1>4, <1>5

\* Renaming the indices does not change the sum.
LEMMA SumRenamed ==
    ASSUME NEW f, NEW e, NEW b, IsFiniteSet(DOMAIN f), \A x \in DOMAIN f : f[x] \in Int,
           \A x \in DOMAIN f : b[x] \in DOMAIN e /\ e[b[x]] = f[x],
           \A x, y \in DOMAIN f : b[x] = b[y] => x = y,
           \A z \in DOMAIN e : \E x \in DOMAIN f : z = b[x]
    PROVE  SumFunction(e) = SumFunction(f)
<1> DEFINE To(S) == {b[x] : x \in S}
           Same(S) == SumFunction(Part(e, To(S))) = SumFunction(Part(f, S))
           bad == {S \in SUBSET DOMAIN f : ~ Same(S)}
<1>0. IsFiniteSet(DOMAIN e) /\ \A z \in DOMAIN e : e[z] \in Int
  <2>1. [x \in DOMAIN f |-> b[x]] \in Surjection(DOMAIN f, DOMAIN e)
    BY DEF Surjection
  <2> QED BY <2>1, FS_Surjection
<1>2. bad = {}
  <2> SUFFICES ASSUME bad # {} PROVE FALSE
    OBVIOUS
  <2>1. PICK S \in bad : \A T \in SUBSET S : T # S => T \notin bad
    <3>1. bad \subseteq SUBSET DOMAIN f
      OBVIOUS
    <3> HIDE DEF bad
    <3> QED BY <3>1, SmallestSubset
  <2>2. S # {}
    <3>1. SumFunction(Part(f, {})) = 0 /\ SumFunction(Part(e, {})) = 0
      BY SumEmpty DEF Part
    <3>2. To({}) = {}
      OBVIOUS
    <3>3. Same({})
      BY <3>1, <3>2
    <3> QED BY <2>1, <3>3
  <2>3. PICK x \in S : TRUE
    BY <2>2
  <2>4. Same(S \ {x})
    BY <2>1, <2>3
  <2>5. To(S \ {x}) = To(S) \ {b[x]} /\ b[x] \in To(S) /\ To(S) \in SUBSET DOMAIN e
    BY <2>1, <2>3
  <2>6. SumFunction(Part(f, S)) = f[x] + SumFunction(Part(f, S \ {x}))
    BY <2>1, <2>3, PartWithout
  <2>7. SumFunction(Part(e, To(S))) = e[b[x]] + SumFunction(Part(e, To(S) \ {b[x]}))
    <3> HIDE DEF To
    <3> QED BY <1>0, <2>5, PartWithout
  <2>8. Same(S)
    <3> HIDE DEF To
    <3> QED BY <2>1, <2>3, <2>4, <2>5, <2>6, <2>7
  <2> QED BY <2>1, <2>8
<1>3. To(DOMAIN f) = DOMAIN e /\ Same(DOMAIN f)
  BY <1>2
<1>4. /\ SumFunction(f) = SumFunction(Part(f, DOMAIN f))
      /\ SumFunction(e) = SumFunction(Part(e, DOMAIN e))
  BY <1>0, SumEqual DEF Part
<1> QED BY <1>3, <1>4

\* A part falls into two parts.
LEMMA SumSplit ==
    ASSUME NEW f, IsFiniteSet(DOMAIN f), \A x \in DOMAIN f : f[x] \in Int,
           NEW S \in SUBSET DOMAIN f, NEW A \in SUBSET S
    PROVE  /\ SumFunction(Part(f, S)) \in Int
           /\ SumFunction(Part(f, A)) \in Int
           /\ SumFunction(Part(f, S \ A)) \in Int
           /\ SumFunction(Part(f, S)) = SumFunction(Part(f, A)) + SumFunction(Part(f, S \ A))
<1>1. PICK e : e = Part(f, S)
  OBVIOUS
<1>2. DOMAIN e = S /\ (\A x \in S : e[x] = f[x] /\ e[x] \in Int) /\ IsFiniteSet(S)
  BY <1>1, FS_Subset DEF Part
<1>3. Part(e, A) = Part(f, A) /\ Part(e, S \ A) = Part(f, S \ A)
  BY <1>2 DEF Part
<1>4. /\ SumFunction(Part(e, A)) \in Int
      /\ SumFunction(Part(e, S \ A)) \in Int
      /\ SumFunction(e) = SumFunction(Part(e, A)) + SumFunction(Part(e, S \ A))
  BY <1>2, SumOfParts
<1> QED BY <1>1, <1>3, <1>4

\* Summing class by class: h gives every class y the sum of the elements that m puts there.
LEMMA SumByClass ==
    ASSUME NEW f, IsFiniteSet(DOMAIN f), \A x \in DOMAIN f : f[x] \in Int,
           NEW m, NEW h, IsFiniteSet(DOMAIN h), \A x \in DOMAIN f : m[x] \in DOMAIN h,
           \A y \in DOMAIN h : h[y] = SumFunction(Part(f, {x \in DOMAIN f : m[x] = y}))
    PROVE  SumFunction(h) = SumFunction(f)
<1> DEFINE In(C) == {x \in DOMAIN f : m[x] \in C}
           Same(C) == SumFunction(Part(h, C)) = SumFunction(Part(f, In(C)))
           bad == {C \in SUBSET DOMAIN h : ~ Same(C)}
<1>1. \A y \in DOMAIN h : h[y] \in Int
  <2> SUFFICES ASSUME NEW y \in DOMAIN h PROVE h[y] \in Int
    OBVIOUS
  <2>1. PICK S : S = {x \in DOMAIN f : m[x] = y}
    OBVIOUS
  <2>2. S \in SUBSET DOMAIN f
    BY <2>1
  <2>3. SumFunction(Part(f, S)) \in Int
    BY <2>2, PartWithout
  <2> QED BY <2>1, <2>3
<1>2. bad = {}
  <2> SUFFICES ASSUME bad # {} PROVE FALSE
    OBVIOUS
  <2>1. PICK C \in bad : \A T \in SUBSET C : T # C => T \notin bad
    <3>1. bad \subseteq SUBSET DOMAIN h
      OBVIOUS
    <3> HIDE DEF bad
    <3> QED BY <3>1, SmallestSubset
  <2>2. C # {}
    <3>1. SumFunction(Part(f, {})) = 0 /\ SumFunction(Part(h, {})) = 0
      BY SumEmpty DEF Part
    <3>2. In({}) = {}
      OBVIOUS
    <3>3. Same({})
      BY <3>1, <3>2
    <3> QED BY <2>1, <3>3
  <2>3. PICK y \in C : TRUE
    BY <2>2
  <2>4. Same(C \ {y})
    BY <2>1, <2>3
  <2>5. C \in SUBSET DOMAIN h /\ ~ Same(C)
    BY <2>1
  <2>6. PICK A : A = {x \in DOMAIN f : m[x] = y}
    OBVIOUS
  <2>7. In(C) \in SUBSET DOMAIN f /\ A \in SUBSET In(C) /\ In(C \ {y}) = In(C) \ A
    BY <2>3, <2>6
  <2>8. SumFunction(Part(h, C)) = h[y] + SumFunction(Part(h, C \ {y}))
    BY <1>1, <2>3, <2>5, PartWithout
  <2>9. SumFunction(Part(f, In(C)))
          = SumFunction(Part(f, A)) + SumFunction(Part(f, In(C) \ A))
    <3> HIDE DEF In
    <3> QED BY <2>7, SumSplit
  <2>10. h[y] = SumFunction(Part(f, A))
    BY <2>3, <2>5, <2>6
  <2> HIDE DEF In
  <2> QED BY <2>4, <2>5, <2>7, <2>8, <2>9, <2>10
<1>3. In(DOMAIN h) = DOMAIN f /\ Same(DOMAIN h)
  BY <1>2
<1>4. /\ SumFunction(f) = SumFunction(Part(f, DOMAIN f))
      /\ SumFunction(h) = SumFunction(Part(h, DOMAIN h))
  BY <1>1, SumEqual DEF Part
<1> QED BY <1>3, <1>4

\* The cardinality is the sum of ones.
LEMMA CardinalityIsSum ==
    ASSUME NEW S, IsFiniteSet(S)
    PROVE  SumFunction([x \in S |-> 1]) = Cardinality(S)
<1>1. PICK f : f = [x \in S |-> 1]
  OBVIOUS
<1>2. DOMAIN f = S /\ \A x \in S : f[x] = 1 /\ f[x] \in Int
  BY <1>1
<1> DEFINE bad == {T \in SUBSET S : SumFunction(Part(f, T)) # Cardinality(T)}
<1>3. bad = {}
  <2> SUFFICES ASSUME bad # {} PROVE FALSE
    OBVIOUS
  <2>1. PICK T \in bad : \A U \in SUBSET T : U # T => U \notin bad
    <3>1. bad \subseteq SUBSET S
      OBVIOUS
    <3> HIDE DEF bad
    <3> QED BY <3>1, SmallestSubset
  <2>2. T \in SUBSET S /\ SumFunction(Part(f, T)) # Cardinality(T) /\ IsFiniteSet(T)
    BY <2>1, FS_Subset
  <2>3. T # {}
    <3>1. DOMAIN Part(f, {}) = {}
      BY DEF Part
    <3>2. SumFunction(Part(f, {})) = 0 /\ Cardinality({}) = 0
      BY <3>1, SumEmpty, FS_EmptySet
    <3> QED BY <2>2, <3>2
  <2>4. PICK x \in T : TRUE
    BY <2>3
  <2>5. SumFunction(Part(f, T \ {x})) = Cardinality(T \ {x})
    BY <2>1, <2>4
  <2>6. SumFunction(Part(f, T)) = f[x] + SumFunction(Part(f, T \ {x}))
    BY <1>2, <2>2, <2>4, PartWithout
  <2>7. Cardinality(T \ {x}) = Cardinality(T) - 1 /\ Cardinality(T) \in Nat
    BY <2>2, <2>4, FS_RemoveElement, FS_CardinalityType
  <2> QED BY <1>2, <2>2, <2>4, <2>5, <2>6, <2>7
<1>4. SumFunction(Part(f, S)) = Cardinality(S)
  BY <1>3
<1>5. Part(f, S) = f
  BY <1>1 DEF Part
<1> QED BY <1>1, <1>4, <1>5

-----------------------------------------------------------------------------
\* A union has at most as many elements as its parts together.
LEMMA UnionBound ==
    ASSUME NEW f, IsFiniteSet(DOMAIN f), \A x \in DOMAIN f : f[x] \in Nat,
           NEW s, \A x \in DOMAIN f : IsFiniteSet(s[x]) /\ Cardinality(s[x]) <= f[x]
    PROVE  /\ IsFiniteSet(UNION {s[x] : x \in DOMAIN f})
           /\ Cardinality(UNION {s[x] : x \in DOMAIN f}) <= SumFunction(f)
<1> DEFINE All(T) == UNION {s[x] : x \in T}
           Good(T) == IsFiniteSet(All(T)) /\ Cardinality(All(T)) <= SumFunction(Part(f, T))
           bad == {T \in SUBSET DOMAIN f : ~ Good(T)}
<1>1. \A x \in DOMAIN f : f[x] \in Int
  OBVIOUS
<1>2. \A T \in SUBSET DOMAIN f :
          /\ SumFunction(Part(f, T)) \in Int
          /\ \A x \in T : SumFunction(Part(f, T)) = f[x] + SumFunction(Part(f, T \ {x}))
  BY <1>1, PartWithout
<1>3. bad = {}
  <2> SUFFICES ASSUME bad # {} PROVE FALSE
    OBVIOUS
  <2>1. PICK T \in bad : \A S \in SUBSET T : S # T => S \notin bad
    <3>1. bad \subseteq SUBSET DOMAIN f
      OBVIOUS
    <3> HIDE DEF bad
    <3> QED BY <3>1, SmallestSubset
  <2>2. T # {}
    <3>1. DOMAIN Part(f, {}) = {} /\ All({}) = {}
      BY DEF Part
    <3>2. SumFunction(Part(f, {})) = 0
      BY <3>1, SumEmpty
    <3>3. PICK none : none = All({})
      OBVIOUS
    <3>4. IsFiniteSet(none) /\ Cardinality(none) = 0
      BY <3>1, <3>3, FS_EmptySet
    <3>5. Cardinality(none) <= SumFunction(Part(f, {}))
      BY <3>2, <3>4
    <3>6. Good({})
      BY <3>3, <3>4, <3>5
    <3> QED BY <2>1, <3>6
  <2>3. PICK x \in T : TRUE
    BY <2>2
  <2>4. PICK S : S = T \ {x}
    OBVIOUS
  <2>5. T \in SUBSET DOMAIN f /\ S \in SUBSET DOMAIN f /\ x \in DOMAIN f /\ Good(S)
    BY <2>1, <2>3, <2>4
  <2>6. PICK rest : rest = All(S)
    OBVIOUS
  <2>7. PICK one : one = s[x]
    OBVIOUS
  <2>8. IsFiniteSet(rest) /\ Cardinality(rest) <= SumFunction(Part(f, S))
    BY <2>5, <2>6
  <2>9. IsFiniteSet(one) /\ Cardinality(one) <= f[x]
    BY <2>5, <2>7
  <2>10. All(T) = one \cup rest
    BY <2>3, <2>4, <2>6, <2>7, Zenon
  <2>11. /\ IsFiniteSet(one \cup rest)
         /\ Cardinality(one \cup rest)
              = Cardinality(one) + Cardinality(rest) - Cardinality(one \cap rest)
    BY <2>8, <2>9, FS_Union
  <2>12. /\ Cardinality(one) \in Nat /\ Cardinality(rest) \in Nat
         /\ Cardinality(one \cap rest) \in Nat
    <3>1. one \cap rest \in SUBSET one
      OBVIOUS
    <3> QED BY <2>8, <2>9, <3>1, FS_Subset, FS_CardinalityType
  <2>13. /\ SumFunction(Part(f, T)) = f[x] + SumFunction(Part(f, S))
         /\ SumFunction(Part(f, S)) \in Int
    BY <1>2, <2>3, <2>4, <2>5
  <2>14. Cardinality(one \cup rest) <= SumFunction(Part(f, T))
    BY <1>1, <2>5, <2>8, <2>9, <2>11, <2>12, <2>13
  <2>15. Good(T)
    BY <2>10, <2>11, <2>14
  <2> QED BY <2>1, <2>15
<1>4. SumFunction(f) = SumFunction(Part(f, DOMAIN f))
  BY <1>1, SumEqual DEF Part
<1>5. Good(DOMAIN f)
  <2>1. DOMAIN f \in SUBSET DOMAIN f
    OBVIOUS
  <2> QED BY <1>3, <2>1
<1> QED BY <1>4, <1>5

\* A union of pairwise disjoint sets is as large as the sum of their sizes.
LEMMA DisjointUnion ==
    ASSUME NEW f, IsFiniteSet(DOMAIN f), NEW s,
           \A x \in DOMAIN f : IsFiniteSet(s[x]) /\ f[x] = Cardinality(s[x]),
           \A x, y \in DOMAIN f : x # y => s[x] \cap s[y] = {}
    PROVE  /\ IsFiniteSet(UNION {s[x] : x \in DOMAIN f})
           /\ Cardinality(UNION {s[x] : x \in DOMAIN f}) = SumFunction(f)
<1> DEFINE All(T) == UNION {s[x] : x \in T}
           Good(T) == IsFiniteSet(All(T)) /\ Cardinality(All(T)) = SumFunction(Part(f, T))
           bad == {T \in SUBSET DOMAIN f : ~ Good(T)}
<1>1. \A x \in DOMAIN f : f[x] \in Int
  BY FS_CardinalityType
<1>2. \A T \in SUBSET DOMAIN f :
          /\ SumFunction(Part(f, T)) \in Int
          /\ \A x \in T : SumFunction(Part(f, T)) = f[x] + SumFunction(Part(f, T \ {x}))
  BY <1>1, PartWithout
<1>3. bad = {}
  <2> SUFFICES ASSUME bad # {} PROVE FALSE
    OBVIOUS
  <2>1. PICK T \in bad : \A S \in SUBSET T : S # T => S \notin bad
    <3>1. bad \subseteq SUBSET DOMAIN f
      OBVIOUS
    <3> HIDE DEF bad
    <3> QED BY <3>1, SmallestSubset
  <2>2. T # {}
    <3>1. DOMAIN Part(f, {}) = {} /\ All({}) = {}
      BY DEF Part
    <3>2. SumFunction(Part(f, {})) = 0
      BY <3>1, SumEmpty
    <3>3. PICK none : none = All({})
      OBVIOUS
    <3>4. IsFiniteSet(none) /\ Cardinality(none) = SumFunction(Part(f, {}))
      BY <3>1, <3>2, <3>3, FS_EmptySet
    <3>5. Good({})
      BY <3>3, <3>4
    <3> QED BY <2>1, <3>5
  <2>3. PICK x \in T : TRUE
    BY <2>2
  <2>4. PICK S : S = T \ {x}
    OBVIOUS
  <2>5. T \in SUBSET DOMAIN f /\ S \in SUBSET DOMAIN f /\ x \in DOMAIN f /\ Good(S)
    BY <2>1, <2>3, <2>4
  <2>6. PICK rest : rest = All(S)
    OBVIOUS
  <2>7. PICK one : one = s[x]
    OBVIOUS
  <2>8. IsFiniteSet(rest) /\ Cardinality(rest) = SumFunction(Part(f, S))
    BY <2>5, <2>6
  <2>9. IsFiniteSet(one) /\ Cardinality(one) = f[x]
    BY <2>5, <2>7
  <2>10. All(T) = one \cup rest
    BY <2>3, <2>4, <2>6, <2>7, Zenon
  <2>11. one \cap rest = {}
    <3>1. \A y \in S : y \in DOMAIN f /\ y # x
      BY <2>4, <2>5
    <3>2. \A y \in S : one \cap s[y] = {}
      BY <2>5, <2>7, <3>1
    <3>3. ASSUME NEW z \in one, z \in rest PROVE FALSE
      <4>1. PICK y \in S : z \in s[y]
        BY <2>6, <3>3
      <4> QED BY <3>2, <3>3, <4>1
    <3> QED BY <3>3
  <2>12. /\ IsFiniteSet(one \cup rest)
         /\ Cardinality(one \cup rest)
              = Cardinality(one) + Cardinality(rest) - Cardinality(one \cap rest)
    BY <2>8, <2>9, FS_Union
  <2>13. Cardinality(one \cap rest) = 0
    BY <2>11, FS_EmptySet
  <2>14. /\ SumFunction(Part(f, T)) = f[x] + SumFunction(Part(f, S))
         /\ SumFunction(Part(f, S)) \in Int /\ f[x] \in Int
    BY <1>1, <1>2, <2>3, <2>4, <2>5
  <2>15. Cardinality(one \cup rest) = SumFunction(Part(f, T))
    BY <2>8, <2>9, <2>12, <2>13, <2>14
  <2>16. Good(T)
    BY <2>10, <2>12, <2>15
  <2> QED BY <2>1, <2>16
<1>4. SumFunction(f) = SumFunction(Part(f, DOMAIN f))
  BY <1>1, SumEqual DEF Part
<1>5. Good(DOMAIN f)
  <2>1. DOMAIN f \in SUBSET DOMAIN f
    OBVIOUS
  <2> QED BY <1>3, <2>1
<1> QED BY <1>4, <1>5

=============================================================================
