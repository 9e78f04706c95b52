---------------------------- MODULE SumTheorems ----------------------------
(***************************************************************************)
(* What SumFunctionOnSet computes, for every finite set. Induction over    *)
(* finite sets is used in a form without operator parameters: a set of     *)
(* subsets that contains every subset whose proper subsets it contains has *)
(* them all, since the strict inclusion of finite sets is well founded.    *)
(***************************************************************************)
EXTENDS Integers, FiniteSets, Functions, FiniteSetTheorems, WellFoundedInduction, TLAPS

\* The element a sum over s begins with.
Pick(s) == CHOOSE y \in s : TRUE

\* It is one of the elements.
LEMMA PickIn == ASSUME NEW s, s # {} PROVE Pick(s) \in s
BY DEF Pick

\* g sums f over every subset of S.
IsSum(g, f, S) == g = [s \in SUBSET S |-> IF s = {} THEN 0 ELSE f[Pick(s)] + g[s \ {Pick(s)}]]

\* The fold of the library is the choice of such a g.
LEMMA SumDef == ASSUME NEW f, NEW S
                PROVE  SumFunctionOnSet(f, S) = (CHOOSE g : IsSum(g, f, S))[S]
BY DEF SumFunctionOnSet, FoldFunctionOnSet, MapThenFoldSet, IsSum, Pick

\* Induction over the subsets of a finite set.
LEMMA SubsetInduction ==
    ASSUME NEW S, IsFiniteSet(S), NEW G,
           \A X \in SUBSET S : (\A Y \in SUBSET X : Y # X => Y \in G) => X \in G
    PROVE  \A X \in SUBSET S : X \in G
<1> SUFFICES ASSUME NEW Z \in SUBSET S, Z \notin G PROVE FALSE
 OBVIOUS
<1> DEFINE T == {X \in SUBSET S : X \notin G}
<1>1. T \subseteq FiniteSubsetsOf(S) /\ T # {} BY FS_Subset DEF FiniteSubsetsOf
<1>2. IsWellFoundedOn(StrictSubsetOrdering(S), FiniteSubsetsOf(S)) BY FS_StrictSubsetOrderingWellFounded
<1>3. PICK X \in T : \A Y \in T : ~ (<<Y, X>> \in StrictSubsetOrdering(S))
 <2> HIDE DEF T
 <2> QED BY <1>1, <1>2, WFMin
<1>4. \A Y \in SUBSET X : Y # X => Y \in G
 <2> SUFFICES ASSUME NEW Y \in SUBSET X, Y # X, Y \notin G PROVE FALSE
  OBVIOUS
 <2>1. Y \in T /\ Y \in SUBSET S /\ X \in SUBSET S OBVIOUS
 <2>2. <<Y, X>> \in StrictSubsetOrdering(S) BY <2>1 DEF StrictSubsetOrdering
 <2> QED BY <1>3, <2>1, <2>2
<1> QED BY <1>3, <1>4

\* A sum over subsets goes on with the rest of the set.
LEMMA IsSumFacts ==
    ASSUME NEW f, NEW S, NEW g, IsSum(g, f, S)
    PROVE  \A s \in SUBSET S : g[s] = IF s = {} THEN 0 ELSE f[Pick(s)] + g[s \ {Pick(s)}]
BY DEF IsSum, Pick

\* Two sums of the same function agree where both are defined.
LEMMA SumsAgree ==
    ASSUME NEW f, NEW A, NEW B, NEW g, NEW h, IsFiniteSet(A), IsSum(g, f, A), IsSum(h, f, B)
    PROVE  \A s \in SUBSET (A \cap B) : g[s] = h[s]
<1> DEFINE G == {s \in SUBSET (A \cap B) : g[s] = h[s]}
<1>1. IsFiniteSet(A \cap B) BY FS_Subset
<1>2. ASSUME NEW X \in SUBSET (A \cap B), \A Y \in SUBSET X : Y # X => Y \in G PROVE X \in G
 <2>1. X \in SUBSET A /\ X \in SUBSET B OBVIOUS
 <2>2. CASE X = {}
  <3>1. g[X] = 0 /\ h[X] = 0 BY <2>1, <2>2, IsSumFacts
  <3> QED BY <3>1
 <2>3. CASE X # {}
  <3>1. Pick(X) \in X BY <2>3, PickIn
  <3>2. X \ {Pick(X)} \in G BY <1>2, <3>1
  <3>3. g[X] = f[Pick(X)] + g[X \ {Pick(X)}] BY <2>1, <2>3, IsSumFacts
  <3>4. h[X] = f[Pick(X)] + h[X \ {Pick(X)}] BY <2>1, <2>3, IsSumFacts
  <3> QED BY <3>2, <3>3, <3>4
 <2> QED BY <2>2, <2>3
<1>3. \A X \in SUBSET (A \cap B) : X \in G
 <2> HIDE DEF G
 <2> QED BY <1>1, <1>2, SubsetInduction
<1> QED BY <1>3

\* There is a sum: it is glued together from the sums over smaller sets.
LEMMA SumExists == ASSUME NEW f, NEW S, IsFiniteSet(S) PROVE \E g : IsSum(g, f, S)
<1> DEFINE G == {s \in SUBSET S : \E g : IsSum(g, f, s)}
<1>1. ASSUME NEW X \in SUBSET S, \A Y \in SUBSET X : Y # X => Y \in G PROVE X \in G
 <2> DEFINE At(s) == (CHOOSE g : IsSum(g, f, s))[s]
            gg == [s \in SUBSET X |-> IF s = {} THEN 0 ELSE f[Pick(s)] + At(s \ {Pick(s)})]
 <2>1. ASSUME NEW s \in SUBSET X, s # {} PROVE gg[s \ {Pick(s)}] = At(s \ {Pick(s)})
  <3>1. PICK t : t = s \ {Pick(s)} OBVIOUS
  <3>2. t \in SUBSET X /\ t # X BY <2>1, <3>1, PickIn
  <3>3. IsSum(CHOOSE g : IsSum(g, f, t), f, t) BY <1>1, <3>2
  <3>4. PICK h : h = (CHOOSE g : IsSum(g, f, t)) /\ IsSum(h, f, t) BY <3>3
  <3>5. At(t) = h[t] BY <3>4
  <3>6. CASE t = {}
   <4>1. h[t] = 0 BY <3>4, <3>6, IsSumFacts
   <4> QED BY <3>1, <3>2, <3>5, <3>6, <4>1
  <3>7. CASE t # {}
   <4>1. h[t] = f[Pick(t)] + h[t \ {Pick(t)}] BY <3>4, <3>7, IsSumFacts
   <4>2. PICK u : u = t \ {Pick(t)} OBVIOUS
   <4>3. u \in SUBSET X /\ u # X /\ u \in SUBSET t BY <3>2, <4>2
   <4>4. IsSum(CHOOSE g : IsSum(g, f, u), f, u) BY <1>1, <4>3
   <4>5. PICK k : k = (CHOOSE g : IsSum(g, f, u)) /\ IsSum(k, f, u) BY <4>4
   <4>6. IsFiniteSet(u) /\ u \in SUBSET (u \cap t) BY <4>3, FS_Subset
   <4>7. k[u] = h[u] BY <3>4, <4>5, <4>6, SumsAgree
   <4>8. At(u) = k[u] BY <4>5
   <4>9. gg[t] = f[Pick(t)] + At(u) BY <3>2, <3>7, <4>2
   <4> QED BY <3>1, <3>5, <4>1, <4>2, <4>7, <4>8, <4>9
  <3> QED BY <3>6, <3>7
 <2>2. \A s \in SUBSET X : gg[s] = IF s = {} THEN 0 ELSE f[Pick(s)] + gg[s \ {Pick(s)}]
  <3> HIDE DEF At
  <3> QED BY <2>1
 <2>3. gg = [s \in SUBSET X |-> gg[s]] OBVIOUS
 <2> HIDE DEF gg
 <2>4. gg = [s \in SUBSET X |-> IF s = {} THEN 0 ELSE f[Pick(s)] + gg[s \ {Pick(s)}]] BY <2>2, <2>3
 <2>5. IsSum(gg, f, X) BY <2>4 DEF IsSum, Pick
 <2> QED BY <2>5
<1>2. \A X \in SUBSET S : X \in G
 <2> HIDE DEF G
 <2> QED BY <1>1, SubsetInduction
<1> QED BY <1>2

\* The sum over nothing.
LEMMA SumEmpty == ASSUME NEW f PROVE SumFunctionOnSet(f, {}) = 0
<1>1. IsFiniteSet({}) BY FS_EmptySet
<1>2. PICK h : h = (CHOOSE g : IsSum(g, f, {})) /\ IsSum(h, f, {}) BY <1>1, SumExists
<1>3. h[{}] = 0 BY <1>2, IsSumFacts
<1> QED BY <1>2, <1>3, SumDef

\* The sum over a set, one element at a time.
LEMMA SumStep ==
    ASSUME NEW f, NEW S, IsFiniteSet(S), S # {}
    PROVE  SumFunctionOnSet(f, S) = f[Pick(S)] + SumFunctionOnSet(f, S \ {Pick(S)})
<1>1. PICK h : h = (CHOOSE g : IsSum(g, f, S)) /\ IsSum(h, f, S) BY SumExists
<1>2. PICK u : u = S \ {Pick(S)} OBVIOUS
<1>3. IsFiniteSet(u) BY <1>2, FS_Subset
<1>4. PICK k : k = (CHOOSE g : IsSum(g, f, u)) /\ IsSum(k, f, u) BY <1>3, SumExists
<1>5. u \in SUBSET (u \cap S) BY <1>2
<1>6. k[u] = h[u] BY <1>1, <1>3, <1>4, <1>5, SumsAgree
<1>7. h[S] = f[Pick(S)] + h[u] BY <1>1, <1>2, IsSumFacts
<1>8. SumFunctionOnSet(f, S) = h[S] /\ SumFunctionOnSet(f, u) = k[u] BY <1>1, <1>4, SumDef
<1> QED BY <1>2, <1>6, <1>7, <1>8

\* Sums of integers are integers.
LEMMA SumType ==
    ASSUME NEW f, NEW S, IsFiniteSet(S), \A x \in S : f[x] \in Int
    PROVE  SumFunctionOnSet(f, S) \in Int
<1> DEFINE G == {s \in SUBSET S : SumFunctionOnSet(f, s) \in Int}
<1>1. ASSUME NEW X \in SUBSET S, \A Y \in SUBSET X : Y # X => Y \in G PROVE X \in G
 <2>1. CASE X = {}
  BY <2>1, SumEmpty
 <2>2. CASE X # {}
  <3>1. Pick(X) \in X BY <2>2, PickIn
  <3>2. X \ {Pick(X)} \in G BY <1>1, <3>1
  <3>3. IsFiniteSet(X) BY FS_Subset
  <3>4. SumFunctionOnSet(f, X) = f[Pick(X)] + SumFunctionOnSet(f, X \ {Pick(X)}) BY <2>2, <3>3, SumStep
  <3> QED BY <3>1, <3>2, <3>4
 <2> QED BY <2>1, <2>2
<1>2. \A X \in SUBSET S : X \in G
 <2> HIDE DEF G
 <2> QED BY <1>1, SubsetInduction
<1> QED BY <1>2

\* Any element may be taken out first.
LEMMA SumTakeOut ==
    ASSUME NEW f, NEW S, IsFiniteSet(S), \A x \in S : f[x] \in Int
    PROVE  \A x \in S : SumFunctionOnSet(f, S) = f[x] + SumFunctionOnSet(f, S \ {x})
<1> DEFINE G == {s \in SUBSET S : \A x \in s : SumFunctionOnSet(f, s) = f[x] + SumFunctionOnSet(f, s \ {x})}
<1>1. ASSUME NEW X \in SUBSET S, \A Y \in SUBSET X : Y # X => Y \in G PROVE X \in G
 <2> SUFFICES ASSUME NEW x \in X PROVE SumFunctionOnSet(f, X) = f[x] + SumFunctionOnSet(f, X \ {x})
  OBVIOUS
 <2>1. IsFiniteSet(X) /\ X # {} BY FS_Subset
 <2>2. PICK y \in X : y = Pick(X) BY <2>1, PickIn
 <2>3. SumFunctionOnSet(f, X) = f[y] + SumFunctionOnSet(f, X \ {y}) BY <2>1, <2>2, SumStep
 <2>4. CASE x = y
  BY <2>3, <2>4
 <2>5. CASE x # y
  <3>1. X \ {y} \in G /\ X \ {x} \in G BY <1>1
  <3>2. SumFunctionOnSet(f, X \ {y}) = f[x] + SumFunctionOnSet(f, (X \ {y}) \ {x}) BY <2>5, <3>1
  <3>3. SumFunctionOnSet(f, X \ {x}) = f[y] + SumFunctionOnSet(f, (X \ {x}) \ {y}) BY <2>5, <3>1
  <3>4. PICK u : u = (X \ {x}) \ {y} OBVIOUS
  <3>5. (X \ {y}) \ {x} = u BY <3>4
  <3>6. f[x] \in Int /\ f[y] \in Int OBVIOUS
  <3>7. SumFunctionOnSet(f, u) \in Int
   <4>1. IsFiniteSet(u) /\ \A z \in u : f[z] \in Int BY <2>1, <3>4, FS_Subset
   <4> QED BY <4>1, SumType
  <3>8. PICK n \in Int : n = SumFunctionOnSet(f, u) BY <3>7
  <3>9. SumFunctionOnSet(f, X \ {y}) = f[x] + n /\ SumFunctionOnSet(f, X \ {x}) = f[y] + n
   BY <3>2, <3>3, <3>4, <3>5, <3>8
  <3>10. SumFunctionOnSet(f, X) = f[y] + (f[x] + n) BY <2>3, <3>9
  <3>11. f[y] + (f[x] + n) = f[x] + (f[y] + n) BY <3>6
  <3> QED BY <3>9, <3>10, <3>11
 <2> QED BY <2>4, <2>5
<1>2. \A X \in SUBSET S : X \in G
 <2> HIDE DEF G
 <2> QED BY <1>1, SubsetInduction
<1> QED BY <1>2

\* Only the values on the set matter.
LEMMA SumSame ==
    ASSUME NEW f, NEW h, NEW S, IsFiniteSet(S), \A x \in S : f[x] = h[x]
    PROVE  SumFunctionOnSet(f, S) = SumFunctionOnSet(h, S)
<1> DEFINE G == {s \in SUBSET S : SumFunctionOnSet(f, s) = SumFunctionOnSet(h, s)}
<1>1. ASSUME NEW X \in SUBSET S, \A Y \in SUBSET X : Y # X => Y \in G PROVE X \in G
 <2>1. CASE X = {}
  BY <2>1, SumEmpty
 <2>2. CASE X # {}
  <3>1. Pick(X) \in X BY <2>2, PickIn
  <3>2. X \ {Pick(X)} \in G BY <1>1, <3>1
  <3>3. IsFiniteSet(X) BY FS_Subset
  <3>4. SumFunctionOnSet(f, X) = f[Pick(X)] + SumFunctionOnSet(f, X \ {Pick(X)}) BY <2>2, <3>3, SumStep
  <3>5. SumFunctionOnSet(h, X) = h[Pick(X)] + SumFunctionOnSet(h, X \ {Pick(X)}) BY <2>2, <3>3, SumStep
  <3> QED BY <3>1, <3>2, <3>4, <3>5
 <2> QED BY <2>1, <2>2
<1>2. \A X \in SUBSET S : X \in G
 <2> HIDE DEF G
 <2> QED BY <1>1, SubsetInduction
<1> QED BY <1>2

\* A sum of naturals grows with its set.
LEMMA SumSubset ==
    ASSUME NEW f, NEW S, IsFiniteSet(S), \A x \in S : f[x] \in Nat
    PROVE  /\ SumFunctionOnSet(f, S) \in Nat /\ \A s \in SUBSET S : SumFunctionOnSet(f, s) <= SumFunctionOnSet(f, S)
<1> DEFINE G == {s \in SUBSET S : /\ SumFunctionOnSet(f, s) \in Nat
                                  /\ \A t \in SUBSET s : SumFunctionOnSet(f, t) <= SumFunctionOnSet(f, s)}
<1>1. ASSUME NEW X \in SUBSET S, \A Y \in SUBSET X : Y # X => Y \in G PROVE X \in G
 <2>0. IsFiniteSet(X) /\ \A x \in X : f[x] \in Int BY FS_Subset
 <2>1. SumFunctionOnSet(f, X) \in Int BY <2>0, SumType
 <2>2. \A x \in X : SumFunctionOnSet(f, X) = f[x] + SumFunctionOnSet(f, X \ {x}) /\ X \ {x} \in G /\ f[x] \in Nat
  BY <1>1, <2>0, SumTakeOut
 <2>3. SumFunctionOnSet(f, X) \in Nat
  <3>1. CASE X = {}
   BY <3>1, SumEmpty
  <3>2. CASE X # {}
   <4>1. PICK x \in X : TRUE BY <3>2
   <4>2. PICK n \in Nat : n = SumFunctionOnSet(f, X \ {x}) BY <2>2
   <4>3. SumFunctionOnSet(f, X) = f[x] + n /\ f[x] \in Nat BY <2>2, <4>2
   <4>4. f[x] + n \in Nat BY <4>3
   <4> QED BY <4>3, <4>4
  <3> QED BY <3>1, <3>2
 <2>4. ASSUME NEW t \in SUBSET X PROVE SumFunctionOnSet(f, t) <= SumFunctionOnSet(f, X)
  <3>1. CASE t = X
   BY <2>3, <3>1
  <3>2. CASE t # X
   <4>1. PICK x \in X : x \notin t BY <3>2
   <4>2. t \in SUBSET (X \ {x}) BY <4>1
   <4>3. /\ SumFunctionOnSet(f, X \ {x}) \in Nat /\ SumFunctionOnSet(f, t) <= SumFunctionOnSet(f, X \ {x})
    BY <2>2, <4>2
   <4>4. SumFunctionOnSet(f, t) \in Nat BY <1>1, <3>2
   <4>5. PICK n \in Nat : n = SumFunctionOnSet(f, X \ {x}) BY <4>3
   <4>6. PICK m \in Nat : m = SumFunctionOnSet(f, t) BY <4>4
   <4>7. PICK v \in Nat : v = f[x] OBVIOUS
   <4>8. SumFunctionOnSet(f, X) = v + n /\ m <= n BY <2>2, <4>3, <4>5, <4>6, <4>7
   <4>9. m <= v + n BY <4>8
   <4> QED BY <4>6, <4>8, <4>9
  <3> QED BY <3>1, <3>2
 <2> QED BY <2>3, <2>4
<1>2. \A X \in SUBSET S : X \in G
 <2> HIDE DEF G
 <2> QED BY <1>1, SubsetInduction
<1> QED BY <1>2

\* One element more.
LEMMA SumAdd ==
    ASSUME NEW f, NEW S, NEW y, IsFiniteSet(S), y \notin S, \A x \in S \cup {y} : f[x] \in Int
    PROVE  SumFunctionOnSet(f, S \cup {y}) = f[y] + SumFunctionOnSet(f, S)
<1>1. IsFiniteSet(S \cup {y}) BY FS_AddElement
<1>2. (S \cup {y}) \ {y} = S OBVIOUS
<1> QED BY <1>1, <1>2, SumTakeOut

\* Sums add up pointwise.
LEMMA SumPlus ==
    ASSUME NEW f, NEW g, NEW h, NEW S, IsFiniteSet(S),
           \A x \in S : f[x] \in Int /\ g[x] \in Int /\ h[x] = f[x] + g[x]
    PROVE  SumFunctionOnSet(h, S) = SumFunctionOnSet(f, S) + SumFunctionOnSet(g, S)
<1> DEFINE G == {s \in SUBSET S : SumFunctionOnSet(h, s) = SumFunctionOnSet(f, s) + SumFunctionOnSet(g, s)}
<1>1. ASSUME NEW X \in SUBSET S, \A Y \in SUBSET X : Y # X => Y \in G PROVE X \in G
 <2>1. CASE X = {}
  BY <2>1, SumEmpty
 <2>2. CASE X # {}
  <3>1. PICK x \in X : TRUE BY <2>2
  <3>2. IsFiniteSet(X) /\ IsFiniteSet(X \ {x}) BY FS_Subset
  <3>3. SumFunctionOnSet(f, X) = f[x] + SumFunctionOnSet(f, X \ {x}) BY <3>2, SumTakeOut
  <3>4. SumFunctionOnSet(g, X) = g[x] + SumFunctionOnSet(g, X \ {x}) BY <3>2, SumTakeOut
  <3>5. \A y \in X : h[y] \in Int OBVIOUS
  <3>6. SumFunctionOnSet(h, X) = h[x] + SumFunctionOnSet(h, X \ {x}) BY <3>2, <3>5, SumTakeOut
  <3>7. X \ {x} \in G BY <1>1
  <3>8. PICK m \in Int, n \in Int : m = SumFunctionOnSet(f, X \ {x}) /\ n = SumFunctionOnSet(g, X \ {x})
   <4>1. SumFunctionOnSet(f, X \ {x}) \in Int BY <3>2, SumType
   <4>2. SumFunctionOnSet(g, X \ {x}) \in Int BY <3>2, SumType
   <4> QED BY <4>1, <4>2
  <3>9. PICK a \in Int, b \in Int : a = f[x] /\ b = g[x] /\ h[x] = a + b OBVIOUS
  <3>10. /\ SumFunctionOnSet(h, X) = (a + b) + (m + n)
         /\ SumFunctionOnSet(f, X) = a + m /\ SumFunctionOnSet(g, X) = b + n
   BY <3>3, <3>4, <3>6, <3>7, <3>8, <3>9
  <3>11. (a + b) + (m + n) = (a + m) + (b + n) OBVIOUS
  <3> QED BY <3>10, <3>11
 <2> QED BY <2>1, <2>2
<1>2. \A X \in SUBSET S : X \in G
 <2> HIDE DEF G
 <2> QED BY <1>1, SubsetInduction
<1> QED BY <1>2

\* A sum after the value of one element has changed.
LEMMA SumChange ==
    ASSUME NEW f, NEW g, NEW S, IsFiniteSet(S), NEW y \in S,
           \A x \in S : f[x] \in Int, g[y] \in Int, \A x \in S \ {y} : g[x] = f[x]
    PROVE  SumFunctionOnSet(g, S) = SumFunctionOnSet(f, S) - f[y] + g[y]
<1>1. IsFiniteSet(S \ {y}) BY FS_Subset
<1>2. SumFunctionOnSet(f, S \ {y}) = SumFunctionOnSet(g, S \ {y}) BY <1>1, SumSame
<1>3. SumFunctionOnSet(f, S) = f[y] + SumFunctionOnSet(f, S \ {y}) BY SumTakeOut
<1>4. \A x \in S : g[x] \in Int OBVIOUS
<1>5. SumFunctionOnSet(g, S) = g[y] + SumFunctionOnSet(g, S \ {y}) BY <1>4, SumTakeOut
<1>6. PICK n \in Int : n = SumFunctionOnSet(f, S \ {y}) BY <1>1, SumType
<1>7. PICK a \in Int, b \in Int : a = f[y] /\ b = g[y] OBVIOUS
<1>8. SumFunctionOnSet(f, S) = a + n /\ SumFunctionOnSet(g, S) = b + n BY <1>2, <1>3, <1>5, <1>6, <1>7
<1>9. b + n = (a + n) - a + b OBVIOUS
<1> QED BY <1>7, <1>8, <1>9

\* Elements that count for nothing may be left out.
LEMMA SumWhere ==
    ASSUME NEW f, NEW S, NEW T \in SUBSET S, IsFiniteSet(S), \A x \in T : f[x] \in Int, \A x \in S \ T : f[x] = 0
    PROVE  SumFunctionOnSet(f, S) = SumFunctionOnSet(f, T)
<1> DEFINE G == {s \in SUBSET S : T \subseteq s => SumFunctionOnSet(f, s) = SumFunctionOnSet(f, T)}
<1>1. ASSUME NEW X \in SUBSET S, \A Y \in SUBSET X : Y # X => Y \in G PROVE X \in G
 <2> SUFFICES ASSUME T \subseteq X PROVE SumFunctionOnSet(f, X) = SumFunctionOnSet(f, T)
  OBVIOUS
 <2>1. CASE X = T
  BY <2>1
 <2>2. CASE X # T
  <3>1. PICK x \in X : x \notin T BY <2>2
  <3>2. IsFiniteSet(X) /\ IsFiniteSet(T) /\ \A y \in X : f[y] \in Int BY FS_Subset
  <3>3. SumFunctionOnSet(f, X) = f[x] + SumFunctionOnSet(f, X \ {x}) BY <3>2, SumTakeOut
  <3>4. SumFunctionOnSet(f, X \ {x}) = SumFunctionOnSet(f, T) BY <1>1, <3>1
  <3>5. SumFunctionOnSet(f, T) \in Int BY <3>2, SumType
  <3>6. f[x] = 0 BY <3>1
  <3> QED BY <3>3, <3>4, <3>5, <3>6
 <2> QED BY <2>1, <2>2
<1>2. \A X \in SUBSET S : X \in G
 <2> HIDE DEF G
 <2> QED BY <1>1, SubsetInduction
<1> QED BY <1>2

\* A sum of zeros.
LEMMA SumZero ==
    ASSUME NEW f, NEW S, IsFiniteSet(S), \A x \in S : f[x] = 0 PROVE SumFunctionOnSet(f, S) = 0
<1>1. SumFunctionOnSet(f, S) = SumFunctionOnSet(f, {}) BY SumWhere
<1> QED BY <1>1, SumEmpty

\* A sum of naturals is at least each of them.
LEMMA SumAtLeast ==
    ASSUME NEW f, NEW S, IsFiniteSet(S), \A x \in S : f[x] \in Nat, NEW y \in S
    PROVE  f[y] <= SumFunctionOnSet(f, S)
<1>1. SumFunctionOnSet(f, S) = f[y] + SumFunctionOnSet(f, S \ {y}) BY SumTakeOut
<1>2. PICK n \in Nat : n = SumFunctionOnSet(f, S \ {y})
 <2>1. IsFiniteSet(S \ {y}) BY FS_Subset
 <2> QED BY <2>1, SumSubset
<1> QED BY <1>1, <1>2

----------------------------------------
(* An amount shared out in turn. *)

\* A strict order on S, as the set of those that come before each element.
IsTurn(earlier, S) ==
    /\ \A l \in S : earlier[l] \subseteq S /\ l \notin earlier[l]
    /\ \A k, l \in S : k = l \/ k \in earlier[l] \/ l \in earlier[k]
    /\ \A k, l \in S : k \in earlier[l] => earlier[k] \subseteq earlier[l]

\* Whoever comes last of a finite set.
LEMMA LastInTurn ==
    ASSUME NEW earlier, NEW S, IsFiniteSet(S), IsTurn(earlier, S)
    PROVE  \A X \in SUBSET S : X # {} => \E m \in X : \A k \in X : k = m \/ k \in earlier[m]
<1> DEFINE G == {X \in SUBSET S : X # {} => \E m \in X : \A k \in X : k = m \/ k \in earlier[m]}
<1>1. ASSUME NEW X \in SUBSET S, \A Y \in SUBSET X : Y # X => Y \in G PROVE X \in G
 <2> SUFFICES ASSUME X # {} PROVE \E m \in X : \A k \in X : k = m \/ k \in earlier[m]
  OBVIOUS
 <2>1. PICK x \in X : TRUE OBVIOUS
 <2>2. CASE X \ {x} = {}
  BY <2>2
 <2>3. CASE X \ {x} # {}
  <3>0. X \ {x} \in G BY <1>1, <2>1
  <3>1. PICK m \in X \ {x} : \A k \in X \ {x} : k = m \/ k \in earlier[m] BY <2>3, <3>0
  <3>2. CASE x \in earlier[m]
   BY <3>1, <3>2
  <3>3. CASE x \notin earlier[m]
   <4>1. m \in earlier[x] /\ earlier[m] \subseteq earlier[x] BY <3>1, <3>3 DEF IsTurn
   <4> QED BY <2>1, <3>1, <4>1
  <3> QED BY <3>2, <3>3
 <2> QED BY <2>2, <2>3
<1>2. \A X \in SUBSET S : X \in G
 <2> HIDE DEF G
 <2> QED BY <1>1, SubsetInduction
<1> QED BY <1>2

\* The smaller and the larger of two integers.
Less(a, b) == IF a <= b THEN a ELSE b
More(a, b) == IF a >= b THEN a ELSE b

LEMMA ShareArithmetic ==
    ASSUME NEW a \in Nat, NEW n \in Nat, NEW h \in Nat
    PROVE  Less(a, n) + Less(h, More(0, a - n)) = Less(a, h + n)
BY DEF Less, More

\* When everyone gives, in turn, all they have until the amount is reached, they give the
\* amount, or all there is.
LEMMA SharesAddUp ==
    ASSUME NEW S, IsFiniteSet(S), NEW earlier, IsTurn(earlier, S), NEW has, \A l \in S : has[l] \in Nat,
           NEW amount \in Nat, NEW give,
           \A l \in S : give[l] = Less(has[l], More(0, amount - SumFunctionOnSet(has, earlier[l])))
    PROVE  SumFunctionOnSet(give, S) = Less(amount, SumFunctionOnSet(has, S))
<1> DEFINE G == {X \in SUBSET S : (\A l \in X : earlier[l] \subseteq X) =>
                                     SumFunctionOnSet(give, X) = Less(amount, SumFunctionOnSet(has, X))}
<1>0. \A l \in S : give[l] \in Int
 <2> SUFFICES ASSUME NEW l \in S PROVE give[l] \in Int
  OBVIOUS
 <2>1. IsFiniteSet(earlier[l]) /\ \A k \in earlier[l] : has[k] \in Int BY FS_Subset DEF IsTurn
 <2>2. PICK n \in Int : n = SumFunctionOnSet(has, earlier[l]) BY <2>1, SumType
 <2>3. PICK h \in Nat : h = has[l] OBVIOUS
 <2>4. give[l] = Less(h, More(0, amount - n)) BY <2>2, <2>3
 <2> QED BY <2>4 DEF Less, More
<1>1. ASSUME NEW X \in SUBSET S, \A Y \in SUBSET X : Y # X => Y \in G PROVE X \in G
 <2> SUFFICES ASSUME \A l \in X : earlier[l] \subseteq X
              PROVE  SumFunctionOnSet(give, X) = Less(amount, SumFunctionOnSet(has, X))
  OBVIOUS
 <2>1. CASE X = {}
  <3>1. SumFunctionOnSet(give, X) = 0 /\ SumFunctionOnSet(has, X) = 0 BY <2>1, SumEmpty
  <3> QED BY <3>1 DEF Less
 <2>2. CASE X # {}
  <3>1. PICK m \in X : \A k \in X : k = m \/ k \in earlier[m] BY <2>2, LastInTurn
  <3>2. earlier[m] = X \ {m} BY <3>1 DEF IsTurn
  <3>3. \A l \in X \ {m} : earlier[l] \subseteq X \ {m}
   <4> SUFFICES ASSUME NEW l \in X \ {m}, m \in earlier[l] PROVE FALSE
    OBVIOUS
   <4>1. l \in earlier[m] /\ m \in S /\ l \in S BY <3>1
   <4>2. earlier[m] \subseteq earlier[l] /\ l \notin earlier[l] BY <4>1 DEF IsTurn
   <4> QED BY <4>1, <4>2
  <3>4. X \ {m} \in G BY <1>1
  <3>5. SumFunctionOnSet(give, X \ {m}) = Less(amount, SumFunctionOnSet(has, X \ {m})) BY <3>3, <3>4
  <3>6. IsFiniteSet(X) /\ IsFiniteSet(X \ {m}) BY FS_Subset
  <3>7. PICK n \in Nat : n = SumFunctionOnSet(has, X \ {m}) BY <3>6, SumSubset
  <3>8. SumFunctionOnSet(give, X) = give[m] + SumFunctionOnSet(give, X \ {m}) BY <1>0, <3>6, SumTakeOut
  <3>9. SumFunctionOnSet(has, X) = has[m] + SumFunctionOnSet(has, X \ {m}) BY <3>6, SumTakeOut
  <3>10. PICK h \in Nat : h = has[m] OBVIOUS
  <3>11. give[m] = Less(h, More(0, amount - n)) BY <3>2, <3>7, <3>10
  <3>12. /\ SumFunctionOnSet(give, X) = Less(h, More(0, amount - n)) + Less(amount, n)
         /\ SumFunctionOnSet(has, X) = h + n
   BY <3>5, <3>7, <3>8, <3>9, <3>10, <3>11
  <3>13. Less(amount, n) + Less(h, More(0, amount - n)) = Less(amount, h + n) BY ShareArithmetic
  <3>14. Less(h, More(0, amount - n)) \in Int /\ Less(amount, n) \in Int BY DEF Less, More
  <3> QED BY <3>12, <3>13, <3>14
 <2> QED BY <2>1, <2>2
<1>2. \A X \in SUBSET S : X \in G
 <2> HIDE DEF G
 <2> QED BY <1>1, SubsetInduction
<1>3. \A l \in S : earlier[l] \subseteq S BY DEF IsTurn
<1> QED BY <1>2, <1>3
=============================================================================
