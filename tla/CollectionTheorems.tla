------------------------- MODULE CollectionTheorems -------------------------
(***************************************************************************)
(* Facts about the operators of Collections, for sums over every finite    *)
(* domain and sequences of every length.  FoldFunction takes the elements  *)
(* of a domain in an order of its own; that the order does not matter      *)
(* (SumRemove) is what the other facts on Sum follow from.  The inductions *)
(* are on the size of a subset, by a smallest counterexample.              *)
(***************************************************************************)
EXTENDS Collections, FiniteSetTheorems, NaturalsInduction, WellFoundedInduction, TLAPS

LEMMA SmallestNumber ==
    ASSUME NEW T \in SUBSET Nat, T # {}
    PROVE  \E m \in T : \A k \in T : m <= k
<1>1. PICK x \in T : \A y \in T : ~ (<<y, x>> \in OpToRel(<, Nat))
    BY NatLessThanWellFounded, WFMin, Zenon
<1>2. \A y \in T : ~ (y \in Nat /\ x \in Nat /\ y < x)
    BY <1>1, Zenon DEF OpToRel
<1>. QED BY <1>2

LEMMA SmallestSubset ==
    ASSUME NEW S, IsFiniteSet(S), NEW Bad \in SUBSET (SUBSET S), Bad # {}
    PROVE  \E s \in Bad : \A t \in Bad : Cardinality(s) <= Cardinality(t)
<1> DEFINE T == {Cardinality(s) : s \in Bad}
<1>1. \A s \in SUBSET S : Cardinality(s) \in Nat
    BY FS_Subset, FS_CardinalityType
<1>2. T \in SUBSET Nat /\ T # {}
    BY <1>1
<1>3. PICK m \in T : \A k \in T : m <= k
    BY <1>2, SmallestNumber, Zenon
<1>. QED BY <1>3

\* FoldFunction's choice, and the recursion it follows on the subsets of S up to size n
pick(s) == CHOOSE x \in s : TRUE
Small(S, n) == {s \in SUBSET S : Cardinality(s) <= n}
Folds_(f, g, D) == g = [s \in D |-> IF s = {} THEN 0 ELSE f[pick(s)] + g[s \ {pick(s)}]]

LEMMA PickSmaller ==
    ASSUME NEW S, IsFiniteSet(S), NEW s \in SUBSET S, s # {}, NEW x \in s
    PROVE  /\ pick(s) \in s
           /\ s \ {x} \in SUBSET S /\ Cardinality(s) \in Nat
           /\ Cardinality(s \ {x}) = Cardinality(s) - 1
<1>1. pick(s) \in s
    BY Zenon DEF pick
<1>2. IsFiniteSet(s)
    BY FS_Subset
<1>3. Cardinality(s) \in Nat
    BY <1>2, FS_CardinalityType
<1>4. Cardinality(s \ {x}) = Cardinality(s) - 1
    BY <1>2, FS_RemoveElement, Zenon
<1>. QED BY <1>1, <1>3, <1>4

LEMMA FoldExtends ==
    ASSUME NEW S, IsFiniteSet(S), NEW f, NEW n \in Nat, NEW g, Folds_(f, g, Small(S, n))
    PROVE  \E h : Folds_(f, h, Small(S, n + 1))
<1> DEFINE h == [s \in Small(S, n + 1) |-> IF s = {} THEN 0 ELSE f[pick(s)] + g[s \ {pick(s)}]]
<1>1. \A s \in Small(S, n + 1) : s # {} => s \ {pick(s)} \in Small(S, n)
    <2> SUFFICES ASSUME NEW s \in Small(S, n + 1), s # {} PROVE s \ {pick(s)} \in Small(S, n)
        OBVIOUS
    <2>1. s \in SUBSET S /\ Cardinality(s) <= n + 1
        BY DEF Small
    <2>2. pick(s) \in s
        BY Zenon DEF pick
    <2>3. /\ s \ {pick(s)} \in SUBSET S /\ Cardinality(s) \in Nat
          /\ Cardinality(s \ {pick(s)}) = Cardinality(s) - 1
        BY <2>1, <2>2, PickSmaller
    <2>. QED BY <2>1, <2>3 DEF Small
<1>2. Small(S, n) \subseteq Small(S, n + 1)
    <2>1. \A s \in SUBSET S : Cardinality(s) \in Nat
        BY FS_Subset, FS_CardinalityType
    <2>. QED BY <2>1 DEF Small
<1>3. \A s \in Small(S, n) : h[s] = g[s]
    BY <1>2, Zenon DEF Folds_
<1>4. \A s \in Small(S, n + 1) :
        h[s] = IF s = {} THEN 0 ELSE f[pick(s)] + h[s \ {pick(s)}]
    BY <1>1, <1>3, Zenon
<1>5. h = [s \in Small(S, n + 1) |-> IF s = {} THEN 0 ELSE f[pick(s)] + h[s \ {pick(s)}]]
    <2> HIDE DEF h
    <2>1. h = [s \in Small(S, n + 1) |-> h[s]]
        BY DEF h
    <2>. QED BY <2>1, <1>4, Zenon
<1> HIDE DEF h
<1>. QED BY <1>5, Zenon DEF Folds_

LEMMA FoldExists ==
    ASSUME NEW S, IsFiniteSet(S), NEW f
    PROVE  \E g : Folds_(f, g, SUBSET S)
<1> DEFINE Bad == {n \in Nat : ~ \E g : Folds_(f, g, Small(S, n))}
<1>1. Bad = {}
    <2> SUFFICES ASSUME Bad # {} PROVE FALSE
        OBVIOUS
    <2>1. PICK m \in Bad : \A k \in Bad : m <= k
        BY SmallestNumber, Zenon
    <2>2. CASE m = 0
        <3> DEFINE g == [s \in Small(S, 0) |-> 0]
        <3>1. \A s \in Small(S, 0) : s = {}
            <4>1. \A s \in SUBSET S : IsFiniteSet(s) /\ Cardinality(s) \in Nat
                BY FS_Subset, FS_CardinalityType
            <4>2. \A s \in Small(S, 0) : Cardinality(s) = 0
                BY <4>1 DEF Small
            <4>. QED BY <4>1, <4>2, FS_EmptySet DEF Small
        <3>2. Folds_(f, g, Small(S, 0))
            BY <3>1 DEF Folds_
        <3>. QED BY <2>1, <2>2, <3>2
    <2>3. CASE m # 0
        <3>1. m - 1 \in Nat /\ m - 1 \notin Bad /\ (m - 1) + 1 = m
            BY <2>1, <2>3
        <3>2. PICK g : Folds_(f, g, Small(S, m - 1))
            BY <3>1
        <3>3. \E h : Folds_(f, h, Small(S, (m - 1) + 1))
            BY <3>1, <3>2, FoldExtends
        <3>. QED BY <2>1, <3>1, <3>3
    <2>. QED BY <2>2, <2>3
<1>2. Cardinality(S) \in Nat /\ Small(S, Cardinality(S)) = SUBSET S
    BY FS_Subset, FS_CardinalityType DEF Small
<1>3. \E g : Folds_(f, g, Small(S, Cardinality(S)))
    BY <1>1, <1>2, Zenon
<1>. QED BY <1>2, <1>3

\* Sum is the value of such a recursion at the whole domain.
LEMMA SumIsFold ==
    ASSUME NEW f, IsFiniteSet(DOMAIN f)
    PROVE  \E g : Folds_(f, g, SUBSET DOMAIN f) /\ Sum(f) = g[DOMAIN f]
<1> DEFINE G == CHOOSE g : Folds_(f, g, SUBSET DOMAIN f)
<1>1. Sum(f) = G[DOMAIN f]
    BY Zenon DEF Sum, FoldFunction, FoldFunctionOnSet, MapThenFoldSet, Folds_, pick
<1>2. Folds_(f, G, SUBSET DOMAIN f)
    BY FoldExists, Zenon
<1>. QED BY <1>1, <1>2, Zenon

Step(f, g, s) ==
    /\ s = {} => g[s] = 0
    /\ s # {} => g[s] = f[pick(s)] + g[s \ {pick(s)}]

LEMMA FoldStep ==
    ASSUME NEW S, NEW f, NEW g, Folds_(f, g, SUBSET S), NEW s \in SUBSET S
    PROVE  Step(f, g, s)
BY Zenon DEF Folds_, Step

LEMMA FoldType ==
    ASSUME NEW S, IsFiniteSet(S), NEW f \in [S -> Int], NEW g, Folds_(f, g, SUBSET S),
           NEW s \in SUBSET S
    PROVE  g[s] \in Int
<1> DEFINE Bad == {t \in SUBSET S : g[t] \notin Int}
<1> SUFFICES ASSUME Bad # {} PROVE FALSE
    OBVIOUS
<1>1. PICK t \in Bad : \A u \in Bad : Cardinality(t) <= Cardinality(u)
    BY SmallestSubset, Zenon
<1>2. t # {} /\ g[t] = f[pick(t)] + g[t \ {pick(t)}]
    <2>1. t \in SUBSET S /\ g[t] \notin Int
        OBVIOUS
    <2>2. Step(f, g, t)
        BY <2>1, FoldStep, Zenon
    <2>3. 0 \in Int
        OBVIOUS
    <2>. QED BY <2>1, <2>2, <2>3, Zenon DEF Step
<1>3. pick(t) \in t
    BY <1>2, Zenon DEF pick
<1>4. t \ {pick(t)} \in SUBSET S /\ Cardinality(t) \in Nat /\ Cardinality(t \ {pick(t)}) = Cardinality(t) - 1
    BY <1>1, <1>2, <1>3, PickSmaller
<1>5. t \ {pick(t)} \notin Bad
    BY <1>1, <1>4
<1>. QED BY <1>1, <1>2, <1>3, <1>4, <1>5

\* The order in which elements are taken does not matter.
LEMMA FoldAnyOrder ==
    ASSUME NEW S, IsFiniteSet(S), NEW f \in [S -> Int], NEW g, Folds_(f, g, SUBSET S),
           NEW s \in SUBSET S, NEW x \in s
    PROVE  g[s] = f[x] + g[s \ {x}]
<1> DEFINE Bad == {t \in SUBSET S : \E y \in t : g[t] # f[y] + g[t \ {y}]}
<1> SUFFICES ASSUME Bad # {} PROVE FALSE
    OBVIOUS
<1>1. PICK t \in Bad : \A u \in Bad : Cardinality(t) <= Cardinality(u)
    BY SmallestSubset, Zenon
<1>2. PICK y \in t : g[t] # f[y] + g[t \ {y}]
    BY <1>1
<1> DEFINE c == pick(t)
<1>3. c \in t
    BY <1>2, Zenon DEF pick
<1>4. g[t] = f[c] + g[t \ {c}]
    <2>1. t \in SUBSET S /\ t # {}
        BY <1>3
    <2>2. Step(f, g, t)
        BY <2>1, FoldStep, Zenon
    <2>. QED BY <2>1, <2>2, Zenon DEF Step
<1>5. y # c
    BY <1>2, <1>4, Zenon
<1> HIDE DEF c
<1>6. /\ t \ {c} \in SUBSET S /\ t \ {c} \notin Bad
      /\ t \ {y} \in SUBSET S /\ t \ {y} \notin Bad
    <2>1. /\ t \ {c} \in SUBSET S /\ Cardinality(t \ {c}) = Cardinality(t) - 1
          /\ t \ {y} \in SUBSET S /\ Cardinality(t \ {y}) = Cardinality(t) - 1
          /\ Cardinality(t) \in Nat
        BY <1>2, <1>3, PickSmaller
    <2>2. \A u \in Bad : Cardinality(u) # Cardinality(t) - 1
        BY <1>1, <2>1
    <2> HIDE DEF Bad
    <2>. QED BY <2>1, <2>2
<1>7. g[t \ {c}] = f[y] + g[(t \ {c}) \ {y}]
    BY <1>2, <1>5, <1>6, Zenon
<1>8. g[t \ {y}] = f[c] + g[(t \ {y}) \ {c}]
    BY <1>3, <1>5, <1>6, Zenon
<1>9. (t \ {c}) \ {y} = (t \ {y}) \ {c} /\ (t \ {c}) \ {y} \in SUBSET S
    OBVIOUS
<1>10. f[c] \in Int /\ f[y] \in Int /\ g[(t \ {c}) \ {y}] \in Int
    BY <1>2, <1>3, <1>9, FoldType, Zenon
<1> HIDE DEF Bad
<1>11. g[t] = f[c] + (f[y] + g[(t \ {c}) \ {y}])
    BY <1>4, <1>7
<1>12. f[y] + g[t \ {y}] = f[y] + (f[c] + g[(t \ {c}) \ {y}])
    BY <1>8, <1>9, Zenon
<1>. QED BY <1>2, <1>10, <1>11, <1>12

\* What a fold gives on s depends on nothing but the values on s.
LEMMA FoldLocal ==
    ASSUME NEW S, NEW T, IsFiniteSet(S), NEW f, NEW e, NEW g, NEW h,
           Folds_(f, g, SUBSET S), Folds_(e, h, SUBSET T),
           NEW s \in SUBSET (S \cap T), \A x \in s : f[x] = e[x]
    PROVE  g[s] = h[s]
<1> DEFINE Bad == {t \in SUBSET S : t \subseteq s /\ g[t] # h[t]}
<1> SUFFICES ASSUME Bad # {} PROVE FALSE
    OBVIOUS
<1>1. PICK t \in Bad : \A u \in Bad : Cardinality(t) <= Cardinality(u)
    BY SmallestSubset, Zenon
<1>2. t \in SUBSET S /\ t \in SUBSET T /\ t \in SUBSET s /\ g[t] # h[t]
    BY <1>1
<1>3. t # {} /\ g[t] = f[pick(t)] + g[t \ {pick(t)}] /\ h[t] = e[pick(t)] + h[t \ {pick(t)}]
    <2>1. Step(f, g, t) /\ Step(e, h, t)
        BY <1>2, FoldStep, Zenon
    <2>. QED BY <1>2, <2>1, Zenon DEF Step
<1>4. pick(t) \in t
    BY <1>3, Zenon DEF pick
<1>5. t \ {pick(t)} \in SUBSET S /\ Cardinality(t) \in Nat /\ Cardinality(t \ {pick(t)}) = Cardinality(t) - 1
    BY <1>2, <1>3, <1>4, PickSmaller
<1>6. t \ {pick(t)} \notin Bad
    BY <1>1, <1>5
<1>. QED BY <1>2, <1>3, <1>4, <1>5, <1>6
-----------------------------------------------------------------------------
\* Nothing adds up to 0.
THEOREM SumEmpty == ASSUME NEW f, DOMAIN f = {} PROVE Sum(f) = 0
<1>1. PICK g : Folds_(f, g, SUBSET {}) /\ Sum(f) = g[{}]
    BY SumIsFold, FS_EmptySet, Zenon
<1>2. Step(f, g, {})
    BY <1>1, FoldStep, Zenon
<1>. QED BY <1>1, <1>2 DEF Step

\* A sum of integers is an integer.
THEOREM SumInt == ASSUME NEW S, IsFiniteSet(S), NEW f \in [S -> Int] PROVE Sum(f) \in Int
<1>1. PICK g : Folds_(f, g, SUBSET S) /\ Sum(f) = g[S]
    BY SumIsFold, Zenon
<1>. QED BY <1>1, FoldType

\* Any element can be counted last.
THEOREM SumRemove ==
    ASSUME NEW S, IsFiniteSet(S), NEW f \in [S -> Int], NEW x \in S
    PROVE  Sum(f) = f[x] + Sum([y \in S \ {x} |-> f[y]])
<1> DEFINE e == [y \in S \ {x} |-> f[y]]
<1>1. PICK g : Folds_(f, g, SUBSET S) /\ Sum(f) = g[S]
    BY SumIsFold, Zenon
<1>2. IsFiniteSet(S \ {x})
    BY FS_RemoveElement
<1>3. PICK h : Folds_(e, h, SUBSET (S \ {x})) /\ Sum(e) = h[S \ {x}]
    <2>1. DOMAIN e = S \ {x}
        OBVIOUS
    <2> HIDE DEF e
    <2>. QED BY <1>2, <2>1, SumIsFold, Zenon
<1>4. g[S] = f[x] + g[S \ {x}]
    BY <1>1, FoldAnyOrder
<1>5. \A y \in S \ {x} : f[y] = e[y]
    OBVIOUS
<1>6. g[S \ {x}] = h[S \ {x}]
    <2> DEFINE T == S \ {x}
    <2>1. T \in SUBSET (S \cap T) /\ \A y \in T : f[y] = e[y]
        BY <1>5
    <2>2. Folds_(f, g, SUBSET S) /\ Folds_(e, h, SUBSET T)
        BY <1>1, <1>3
    <2> HIDE DEF e, T
    <2>3. g[T] = h[T]
        BY <2>1, <2>2, FoldLocal
    <2>. QED BY <2>3 DEF T
<1>. QED BY <1>1, <1>3, <1>4, <1>6

\* Changing one entry changes the sum by the difference.
THEOREM SumUpdate ==
    ASSUME NEW S, IsFiniteSet(S), NEW f \in [S -> Int], NEW x \in S, NEW v \in Int
    PROVE  Sum([f EXCEPT ![x] = v]) = Sum(f) - f[x] + v
<1> DEFINE f2 == [f EXCEPT ![x] = v]
           e == [y \in S \ {x} |-> f[y]]
<1>1. f2 \in [S -> Int] /\ f2[x] = v /\ [y \in S \ {x} |-> f2[y]] = e
    OBVIOUS
<1>2. IsFiniteSet(S \ {x}) /\ e \in [S \ {x} -> Int]
    BY FS_RemoveElement
<1> HIDE DEF f2, e
<1>3. Sum(f) = f[x] + Sum(e)
    BY SumRemove DEF e
<1>4. Sum(f2) = v + Sum(e)
    BY <1>1, SumRemove
<1>5. Sum(e) \in Int /\ f[x] \in Int
    BY <1>2, SumInt
<1>. QED BY <1>3, <1>4, <1>5 DEF f2

\* A new entry is added to the sum.
THEOREM SumAdd ==
    ASSUME NEW S, IsFiniteSet(S), NEW f \in [S -> Int], NEW x, x \notin S, NEW v \in Int
    PROVE  Sum([y \in S \cup {x} |-> IF y = x THEN v ELSE f[y]]) = Sum(f) + v
<1> DEFINE f2 == [y \in S \cup {x} |-> IF y = x THEN v ELSE f[y]]
<1>1. f2 \in [S \cup {x} -> Int] /\ f2[x] = v /\ [y \in (S \cup {x}) \ {x} |-> f2[y]] = f
    OBVIOUS
<1>2. IsFiniteSet(S \cup {x}) /\ x \in S \cup {x}
    BY FS_AddElement
<1> HIDE DEF f2
<1>3. Sum(f2) = v + Sum(f)
    BY <1>1, <1>2, SumRemove
<1>4. Sum(f) \in Int
    BY SumInt
<1>. QED BY <1>3, <1>4 DEF f2

\* Natural numbers add up to one that is at least as large as each of them.
THEOREM SumNat ==
    ASSUME NEW S, IsFiniteSet(S), NEW f \in [S -> Nat]
    PROVE  Sum(f) \in Nat /\ \A x \in S : f[x] <= Sum(f)
<1>1. ASSUME NEW T, IsFiniteSet(T), NEW e \in [T -> Nat] PROVE Sum(e) \in Nat
    <2>0. e \in [T -> Int]
        OBVIOUS
    <2>1. PICK g : Folds_(e, g, SUBSET T) /\ Sum(e) = g[T]
        BY <1>1, SumIsFold, Zenon
    <2> DEFINE Bad == {t \in SUBSET T : g[t] \notin Nat}
    <2>2. SUFFICES ASSUME Bad # {} PROVE FALSE
        BY <2>1
    <2>3. PICK t \in Bad : \A u \in Bad : Cardinality(t) <= Cardinality(u)
        BY <1>1, <2>2, SmallestSubset, Zenon
    <2>4. t # {} /\ g[t] = e[pick(t)] + g[t \ {pick(t)}]
        <3>1. t \in SUBSET T /\ g[t] \notin Nat
            OBVIOUS
        <3>2. Step(e, g, t)
            BY <2>1, <3>1, FoldStep, Zenon
        <3>3. 0 \in Nat
            OBVIOUS
        <3>. QED BY <3>1, <3>2, <3>3, Zenon DEF Step
    <2>5. pick(t) \in t
        BY <2>4, Zenon DEF pick
    <2>6. t \ {pick(t)} \in SUBSET T /\ Cardinality(t) \in Nat
          /\ Cardinality(t \ {pick(t)}) = Cardinality(t) - 1
        BY <1>1, <2>3, <2>4, <2>5, PickSmaller
    <2>7. t \ {pick(t)} \notin Bad
        BY <2>3, <2>6
    <2>. QED BY <2>3, <2>4, <2>5, <2>6, <2>7
<1>2. ASSUME NEW x \in S PROVE f[x] <= Sum(f)
    <2>1. f \in [S -> Int] /\ f[x] \in Nat
        OBVIOUS
    <2>2. Sum(f) = f[x] + Sum([y \in S \ {x} |-> f[y]])
        BY <2>1, SumRemove
    <2>3. IsFiniteSet(S \ {x}) /\ [y \in S \ {x} |-> f[y]] \in [S \ {x} -> Nat]
        BY FS_RemoveElement
    <2>4. Sum([y \in S \ {x} |-> f[y]]) \in Nat
        BY <1>1, <2>3
    <2>. QED BY <2>1, <2>2, <2>4
<1>. QED BY <1>1, <1>2
\* e has the entries of f, each once, under other numbers.
Renumbers(e, T, f, S, b) ==
    /\ b \in [T -> S] /\ e \in [T -> Int]
    /\ \A x, y \in T : b[x] = b[y] => x = y
    /\ \A z \in S : \E x \in T : b[x] = z
    /\ \A x \in T : e[x] = f[b[x]]

\* The sum does not depend on how the entries are numbered.
THEOREM SumRenumbered ==
    ASSUME NEW S, IsFiniteSet(S), NEW f \in [S -> Int], NEW T, IsFiniteSet(T), NEW b, NEW e,
           Renumbers(e, T, f, S, b)
    PROVE  Sum(e) = Sum(f)
<1> DEFINE image(t) == {b[x] : x \in t}
<1>1. PICK g : Folds_(f, g, SUBSET S) /\ Sum(f) = g[S]
    BY SumIsFold, Zenon
<1>2. /\ b \in [T -> S] /\ e \in [T -> Int] /\ DOMAIN e = T
      /\ \A x, y \in T : b[x] = b[y] => x = y
      /\ \A z \in S : \E x \in T : b[x] = z
      /\ \A x \in T : e[x] = f[b[x]]
    BY DEF Renumbers
<1>3. PICK h : Folds_(e, h, SUBSET T) /\ Sum(e) = h[T]
    BY <1>2, SumIsFold, Zenon
<1> DEFINE Bad == {t \in SUBSET T : h[t] # g[image(t)]}
<1>4. Bad = {}
    <2> SUFFICES ASSUME Bad # {} PROVE FALSE
        OBVIOUS
    <2>1. PICK t \in Bad : \A u \in Bad : Cardinality(t) <= Cardinality(u)
        BY SmallestSubset, Zenon
    <2>2. t \in SUBSET T /\ h[t] # g[image(t)]
        BY <2>1
    <2>3. Step(e, h, t)
        BY <1>3, <2>2, FoldStep, Zenon
    <2>4. t # {}
        <3>1. SUFFICES ASSUME t = {} PROVE FALSE
            OBVIOUS
        <3>2. image(t) = {} /\ Step(f, g, {})
            BY <1>1, <3>1, FoldStep, Zenon
        <3>. QED BY <2>2, <2>3, <3>1, <3>2, Zenon DEF Step
    <2> DEFINE c == pick(t)
    <2>5. c \in t /\ t \ {c} \in SUBSET T /\ Cardinality(t) \in Nat
          /\ Cardinality(t \ {c}) = Cardinality(t) - 1
        <3>1. c \in t
            BY <2>4, Zenon DEF pick
        <3>. QED BY <2>2, <2>4, <3>1, PickSmaller, Zenon
    <2>6. h[t] = e[c] + h[t \ {c}]
        BY <2>3, <2>4, Zenon DEF Step
    <2> HIDE DEF c
    <2>7. h[t \ {c}] = g[image(t \ {c})]
        <3>1. t \ {c} \notin Bad
            <4> HIDE DEF Bad
            <4>. QED BY <2>1, <2>5
        <3>. QED BY <2>5, <3>1, Zenon
    <2> DEFINE i == image(t)
               z == b[c]
    <2>8. image(t \ {c}) = i \ {z} /\ z \in i /\ i \in SUBSET S
        BY <1>2, <2>2, <2>5
    <2>9. h[t \ {c}] = g[i \ {z}] /\ h[t] # g[i] /\ e[c] = f[z]
        <3>1. e[c] = f[z]
            BY <1>2, <2>2, <2>5, Zenon
        <3>. QED BY <2>2, <2>7, <2>8, <3>1, Zenon
    <2> HIDE DEF i, z, image, Bad
    <2>10. g[i] = f[z] + g[i \ {z}]
        BY <1>1, <2>8, FoldAnyOrder
    <2>. QED BY <2>6, <2>9, <2>10
<1>5. image(T) = S
    BY <1>2
<1>. QED BY <1>1, <1>3, <1>4, <1>5

LEMMA SumSeqInt == ASSUME NEW s \in Seq(Int) PROVE Sum(s) \in Int
<1> DEFINE S == 1 .. Len(s)
<1>1. Len(s) \in Nat /\ s \in [S -> Int]
    OBVIOUS
<1>2. IsFiniteSet(S)
    BY <1>1, FS_Interval
<1> HIDE DEF S
<1>. QED BY <1>1, <1>2, SumInt

\* A push adds its entry to the sum.
THEOREM SumAppend ==
    ASSUME NEW s \in Seq(Int), NEW v \in Int
    PROVE  Sum(Append(s, v)) = Sum(s) + v
<1> DEFINE n == Len(s)
           S == 1 .. n
           x == n + 1
<1>1. n \in Nat /\ s \in [S -> Int] /\ x \notin S
    OBVIOUS
<1>2. IsFiniteSet(S)
    BY <1>1, FS_Interval
<1>3. Append(s, v) = [y \in S \cup {x} |-> IF y = x THEN v ELSE s[y]]
    <2> DEFINE a == Append(s, v)
    <2>1. a \in [1 .. n + 1 -> Int] /\ a[x] = v /\ \A y \in S : a[y] = s[y]
        <3>1. a \in Seq(Int) /\ Len(a) = n + 1
            OBVIOUS
        <3>2. a[x] = v
            OBVIOUS
        <3>3. \A y \in S : a[y] = s[y]
            OBVIOUS
        <3> HIDE DEF a
        <3>4. a \in [1 .. n + 1 -> Int]
            BY <1>1, <3>1
        <3>. QED BY <3>2, <3>3, <3>4
    <2>2. 1 .. n + 1 = S \cup {x}
        BY <1>1
    <2> HIDE DEF a, S, x
    <2>3. a = [y \in S \cup {x} |-> a[y]]
        BY <2>1, <2>2
    <2>. QED BY <2>1, <2>3, Zenon DEF a
<1> HIDE DEF S, x
<1>. QED BY <1>1, <1>2, <1>3, SumAdd

LEMMA RemovedAtFacts ==
    ASSUME NEW E, NEW s \in Seq(E), NEW i \in 1..Len(s)
    PROVE  /\ Len(s) \in Nat /\ Len(s) - 1 \in Nat
           /\ RemovedAt(s, i) \in Seq(E) /\ Len(RemovedAt(s, i)) = Len(s) - 1
           /\ \A k \in 1..(Len(s) - 1) :
                RemovedAt(s, i)[k] = IF k < i THEN s[k] ELSE s[k + 1]
<1> DEFINE n == Len(s) - 1
           r == RemovedAt(s, i)
<1>1. Len(s) \in Nat /\ i \in Nat /\ n \in Nat
    OBVIOUS
<1>2. r = [k \in 1..n |-> IF k < i THEN s[k] ELSE s[k + 1]]
    BY DEF RemovedAt
<1> HIDE DEF r
<1>3. r \in [1..n -> E]
    BY <1>1, <1>2
<1>4. r \in Seq(E) /\ Len(r) = n
    <2> HIDE DEF n
    <2>. QED BY <1>1, <1>3
<1>. QED BY <1>1, <1>2, <1>4 DEF r

\* Taking one entry out of a sequence takes it out of the sum.
THEOREM SumRemovedAt ==
    ASSUME NEW s \in Seq(Int), NEW k \in 1 .. Len(s)
    PROVE  Sum(s) = s[k] + Sum(RemovedAt(s, k))
<1> DEFINE n == Len(s)
           S == (1 .. n) \ {k}
           T == 1 .. n - 1
           f == [i \in S |-> s[i]]
           b == [i \in T |-> IF i < k THEN i ELSE i + 1]
<1>1. n \in Nat /\ k \in Nat /\ s \in [1 .. n -> Int] /\ n - 1 \in Int
    OBVIOUS
<1>2. IsFiniteSet(1 .. n) /\ IsFiniteSet(T)
    BY <1>1, FS_Interval
<1>3. IsFiniteSet(S)
    BY <1>2, FS_RemoveElement, Zenon
<1>4. Sum(s) = s[k] + Sum(f)
    BY <1>1, <1>2, SumRemove
<1>5. f \in [S -> Int] /\ b \in [T -> S]
    BY <1>1
<1>6. \A x, y \in T : b[x] = b[y] => x = y
    BY <1>1
<1>7. \A z \in S : \E x \in T : b[x] = z
    <2> SUFFICES ASSUME NEW z \in S PROVE \E x \in T : b[x] = z
        OBVIOUS
    <2>1. CASE z < k
        <3>1. z \in T /\ b[z] = z
            BY <1>1, <2>1
        <3>. QED BY <3>1
    <2>2. CASE z > k
        <3>1. z - 1 \in T /\ b[z - 1] = z
            BY <1>1, <2>2
        <3>. QED BY <3>1
    <2>. QED BY <1>1, <2>1, <2>2
<1> DEFINE e == RemovedAt(s, k)
<1>8. e \in [T -> Int] /\ \A i \in T : e[i] = f[b[i]]
    BY <1>1 DEF RemovedAt
<1> HIDE DEF S, T, f, b, e
<1>9. Renumbers(e, T, f, S, b)
    BY <1>5, <1>6, <1>7, <1>8 DEF Renumbers
<1>10. Sum(e) = Sum(f)
    BY <1>2, <1>3, <1>5, <1>9, SumRenumbered
<1>. QED BY <1>4, <1>10 DEF e
-----------------------------------------------------------------------------
LEMMA Below ==
    ASSUME NEW n \in Nat
    PROVE  IsFiniteSet(0 .. n - 1) /\ Cardinality(0 .. n - 1) = n
    BY FS_Interval

\* The rank of a number in a finite set of numbers
Rank(ns, n) == Cardinality({m \in ns : m < n})

LEMMA RankGrows ==
    ASSUME NEW ns \in SUBSET Int, IsFiniteSet(ns), NEW x \in ns
    PROVE  /\ Rank(ns, x) \in 0 .. Cardinality(ns) - 1
           /\ \A y \in ns : x < y => Rank(ns, x) < Rank(ns, y)
<1> DEFINE below(z) == {m \in ns : m < z}
<1>1. \A z \in ns : IsFiniteSet(below(z)) /\ Cardinality(below(z)) \in Nat
    BY FS_Subset, FS_CardinalityType
<1>2. ASSUME NEW T, IsFiniteSet(T), below(x) \subseteq T, x \in T
      PROVE  Cardinality(below(x)) < Cardinality(T)
    <2>1. below(x) \in SUBSET T /\ below(x) # T
        BY <1>2
    <2>2. Cardinality(below(x)) <= Cardinality(T) /\ Cardinality(below(x)) # Cardinality(T)
        BY <1>2, <2>1, FS_Subset
    <2>3. Cardinality(T) \in Nat /\ Cardinality(below(x)) \in Nat
        BY <1>1, <1>2, FS_CardinalityType
    <2> HIDE DEF below
    <2>. QED BY <2>2, <2>3
<1>3. ASSUME NEW y \in ns, x < y PROVE Cardinality(below(x)) < Cardinality(below(y))
    <2>1. x \in Int /\ y \in Int /\ \A m \in ns : m \in Int
        OBVIOUS
    <2>2. \A m \in ns : m < x => m < y
        BY <1>3, <2>1
    <2>3. below(x) \subseteq below(y) /\ x \in below(y)
        BY <1>3, <2>2, Zenon
    <2>. QED BY <1>1, <1>2, <2>3
<1>4. Cardinality(below(x)) < Cardinality(ns)
    BY <1>2
<1>5. Cardinality(ns) \in Nat
    BY FS_CardinalityType
<1>6. \A z : Rank(ns, z) = Cardinality(below(z))
    BY DEF Rank
<1> HIDE DEF below
<1>. QED BY <1>1, <1>3, <1>4, <1>5, <1>6

\* The positions 1 to Cardinality(ns) hold each number of the set once, in increasing order.
THEOREM AscendingFacts ==
    ASSUME NEW ns \in SUBSET Int, IsFiniteSet(ns)
    PROVE  /\ Cardinality(ns) \in Nat
           /\ Ascending(ns) \in [1 .. Cardinality(ns) -> ns]
           /\ \A j, k \in 1 .. Cardinality(ns) : j < k => Ascending(ns)[j] < Ascending(ns)[k]
           /\ \A x \in ns : \E k \in 1 .. Cardinality(ns) : Ascending(ns)[k] = x
<1> DEFINE n == Cardinality(ns)
           f == [x \in ns |-> Rank(ns, x)]
           a == Ascending(ns)
<1>1. n \in Nat
    BY FS_CardinalityType
<1>2. f \in [ns -> 0 .. n - 1]
    BY RankGrows
<1>3. f \in Injection(ns, 0 .. n - 1)
    <2>1. ASSUME NEW x \in ns, NEW y \in ns, f[x] = f[y] PROVE x = y
        <3>1. Rank(ns, x) \in Int /\ Rank(ns, y) \in Int /\ Rank(ns, x) = Rank(ns, y)
            BY <2>1, RankGrows
        <3>2. ~ (x < y) /\ ~ (y < x)
            BY <3>1, RankGrows
        <3>. QED BY <3>2
    <2>. QED BY <1>2, <2>1 DEF Injection, IsInjective
<1>4. IsFiniteSet(0 .. n - 1) /\ Cardinality(0 .. n - 1) = n
    BY <1>1, FS_Interval
<1>5. f \in Surjection(ns, 0 .. n - 1)
    BY <1>3, <1>4, FS_Injection
<1>6. ASSUME NEW k \in 1 .. n PROVE \E x \in ns : Rank(ns, x) = k - 1
    <2>1. k - 1 \in 0 .. n - 1
        BY <1>1
    <2>2. PICK x \in ns : f[x] = k - 1
        BY <1>5, <2>1, Zenon DEF Surjection
    <2>. QED BY <2>2
<1>7. ASSUME NEW k \in 1 .. n PROVE a[k] \in ns /\ Rank(ns, a[k]) = k - 1
    <2>1. a[k] = CHOOSE x \in ns : Rank(ns, x) = k - 1
        BY Zenon DEF Ascending, Rank
    <2>. QED BY <1>6, <2>1, Zenon
<1>8. a \in [1 .. n -> ns]
    <2> DEFINE c(k) == CHOOSE x \in ns : Cardinality({m \in ns : m < x}) = k - 1
    <2>1. a = [k \in 1 .. n |-> c(k)]
        BY Zenon DEF Ascending
    <2> HIDE DEF a, c
    <2>. QED BY <1>7, <2>1
<1> HIDE DEF a, n
<1>9. ASSUME NEW j \in 1 .. n, NEW k \in 1 .. n, j < k PROVE a[j] < a[k]
    <2>1. a[j] \in ns /\ a[k] \in ns /\ Rank(ns, a[j]) = j - 1 /\ Rank(ns, a[k]) = k - 1
        BY <1>7
    <2>2. a[j] \in Int /\ a[k] \in Int
        BY <2>1
    <2>3. ~ (a[k] < a[j])
        <3>1. SUFFICES ASSUME a[k] < a[j] PROVE FALSE
            OBVIOUS
        <3>2. Rank(ns, a[k]) < Rank(ns, a[j])
            BY <2>1, <3>1, RankGrows
        <3>. QED BY <1>1, <1>9, <2>1, <3>2
    <2>4. a[j] # a[k]
        BY <1>1, <1>9, <2>1
    <2>. QED BY <2>2, <2>3, <2>4
<1>10. ASSUME NEW x \in ns PROVE \E k \in 1 .. n : a[k] = x
    <2> DEFINE k == Rank(ns, x) + 1
    <2>1. k \in 1 .. n /\ k - 1 = Rank(ns, x)
        BY <1>1, RankGrows DEF n
    <2>2. a[k] \in ns /\ Rank(ns, a[k]) = Rank(ns, x)
        BY <1>7, <2>1
    <2>3. ~ (a[k] < x) /\ ~ (x < a[k])
        <3>1. Rank(ns, x) \in Int
            BY RankGrows
        <3>2. a[k] < x => Rank(ns, a[k]) < Rank(ns, x)
            BY <2>2, RankGrows
        <3>3. x < a[k] => Rank(ns, x) < Rank(ns, a[k])
            BY <2>2, RankGrows
        <3> HIDE DEF k
        <3>. QED BY <2>2, <3>1, <3>2, <3>3
    <2> HIDE DEF k
    <2>4. a[k] \in Int /\ x \in Int
        BY <2>2
    <2>5. a[k] = x
        BY <2>3, <2>4
    <2>. QED BY <2>1, <2>5
<1>. QED BY <1>1, <1>8, <1>9, <1>10 DEF a, n

\* A filtered sequence has the elements at the positions kept and no others, in their order.
THEOREM PickedFacts ==
    ASSUME NEW E, NEW s \in Seq(E), NEW ix \in SUBSET (1 .. Len(s))
    PROVE  /\ Picked(s, ix) \in Seq(E) /\ Len(Picked(s, ix)) = Cardinality(ix)
           /\ Cardinality(ix) \in Nat
           /\ \A k \in 1 .. Cardinality(ix) :
                Ascending(ix)[k] \in ix /\ Picked(s, ix)[k] = s[Ascending(ix)[k]]
           /\ Range(Picked(s, ix)) = {s[i] : i \in ix}
<1> DEFINE n == Cardinality(ix)
           a == Ascending(ix)
           p == Picked(s, ix)
<1>1. ix \in SUBSET Int /\ IsFiniteSet(ix)
    <2>1. Len(s) \in Int
        OBVIOUS
    <2>2. IsFiniteSet(1 .. Len(s))
        BY <2>1, FS_Interval
    <2>3. IsFiniteSet(ix)
        BY <2>2, FS_Subset, Zenon
    <2>. QED BY <2>1, <2>3
<1>2. /\ n \in Nat /\ a \in [1 .. n -> ix]
      /\ \A x \in ix : \E k \in 1 .. n : a[k] = x
    BY <1>1, AscendingFacts
<1>3. p = [k \in 1 .. n |-> s[a[k]]]
    BY Zenon DEF Picked
<1> HIDE DEF n, a, p
<1>4. \A i \in ix : s[i] \in E
    OBVIOUS
<1>5. p \in [1 .. n -> E] /\ \A k \in 1 .. n : a[k] \in ix /\ p[k] = s[a[k]]
    BY <1>2, <1>3, <1>4
<1>6. p \in Seq(E) /\ Len(p) = n
    BY <1>2, <1>5
<1>7. Range(p) = {s[i] : i \in ix}
    <2>1. DOMAIN p = 1 .. n
        BY <1>5
    <2>2. \A x : x \in Range(p) <=> \E k \in 1 .. n : x = p[k]
        BY <2>1, Zenon DEF Range
    <2>3. \A x : x \in Range(p) <=> \E i \in ix : x = s[i]
        <3>1. \A x : (\E k \in 1 .. n : x = p[k]) => \E i \in ix : x = s[i]
            BY <1>5, Zenon
        <3>2. \A i \in ix : \E k \in 1 .. n : s[i] = p[k]
            BY <1>2, <1>5
        <3>. QED BY <2>2, <3>1, <3>2, Zenon
    <2>. QED BY <2>3
<1>. QED BY <1>2, <1>5, <1>6, <1>7 DEF n, a, p

\* retain(|y| y != x) leaves the other elements, and is shorter when there was an x.
THEOREM WithoutFacts ==
    ASSUME NEW E, NEW s \in Seq(E), NEW x
    PROVE  /\ Without(s, x) \in Seq(E) /\ Range(Without(s, x)) = Range(s) \ {x}
           /\ Len(s) \in Nat /\ Len(Without(s, x)) \in Nat /\ Len(Without(s, x)) <= Len(s)
           /\ x \in Range(s) => Len(Without(s, x)) < Len(s)
<1> DEFINE n == Len(s)
           ix == {i \in 1 .. n : s[i] # x}
<1>1. n \in Nat /\ ix \in SUBSET (1 .. n) /\ DOMAIN s = 1 .. n
    OBVIOUS
<1>2. Without(s, x) = Picked(s, ix)
    BY DEF Without
<1>3. IsFiniteSet(1 .. n) /\ Cardinality(1 .. n) = n
    <2>1. n \in Nat
        BY <1>1
    <2> HIDE DEF n
    <2>. QED BY <2>1, FS_Interval
<1>4. Range(s) \ {x} = {s[i] : i \in ix}
    BY <1>1 DEF Range
<1>5. x \in Range(s) => ix # 1 .. n
    BY <1>1 DEF Range
<1> HIDE DEF ix, n
<1>6. /\ Picked(s, ix) \in Seq(E) /\ Len(Picked(s, ix)) = Cardinality(ix) /\ Cardinality(ix) \in Nat
      /\ Range(Picked(s, ix)) = {s[i] : i \in ix}
    BY <1>1, PickedFacts DEF n
<1>7. Cardinality(ix) <= n /\ (ix # 1 .. n => Cardinality(ix) # n)
    BY <1>1, <1>3, FS_Subset
<1>. QED BY <1>1, <1>2, <1>4, <1>5, <1>6, <1>7 DEF n
-----------------------------------------------------------------------------
\* Where x is in s, and t made of entries of s, none of them used twice
Places(s, x) == {k \in 1 .. Len(s) : s[k] = x}

Drawn(t, s, g) ==
    /\ g \in [1 .. Len(t) -> 1 .. Len(s)]
    /\ \A j, k \in 1 .. Len(t) : g[j] = g[k] => j = k
    /\ \A k \in 1 .. Len(t) : t[k] = s[g[k]]

LEMMA PlacesFacts ==
    ASSUME NEW E, NEW s \in Seq(E), NEW x
    PROVE  IsFiniteSet(Places(s, x)) /\ Cardinality(Places(s, x)) \in Nat
<1>1. IsFiniteSet(1 .. Len(s))
    <2>1. Len(s) \in Int
        OBVIOUS
    <2>. QED BY <2>1, FS_Interval
<1>2. Places(s, x) \in SUBSET (1 .. Len(s))
    BY DEF Places
<1>3. IsFiniteSet(Places(s, x))
    BY <1>1, <1>2, FS_Subset
<1>. QED BY <1>3, FS_CardinalityType

\* Nothing is drawn more often than it is there.
THEOREM DrawnCount ==
    ASSUME NEW E, NEW s \in Seq(E), NEW t \in Seq(E), NEW g, Drawn(t, s, g), NEW x
    PROVE  Cardinality(Places(t, x)) <= Cardinality(Places(s, x))
<1> DEFINE S == Places(t, x)
           T == Places(s, x)
           f == [k \in S |-> g[k]]
<1>1. IsFiniteSet(T)
    BY PlacesFacts
<1>2. \A k \in S : k \in 1 .. Len(t) /\ t[k] = x
    BY DEF Places
<1>3. \A k \in S : g[k] \in 1 .. Len(s) /\ s[g[k]] = x
    BY <1>2 DEF Drawn
<1>4. \A k \in S : g[k] \in T
    BY <1>3 DEF Places
<1>5. \A j, k \in S : g[j] = g[k] => j = k
    BY <1>2 DEF Drawn
<1> HIDE DEF S, T
<1>6. f \in Injection(S, T)
    BY <1>4, <1>5 DEF Injection, IsInjective
<1>. QED BY <1>1, <1>6, FS_Injection DEF S, T

\* What follows in a second sequence adds to what is in the first.
THEOREM PlacesConcat ==
    ASSUME NEW E, NEW s \in Seq(E), NEW t \in Seq(E), NEW x
    PROVE  Cardinality(Places(s \o t, x)) = Cardinality(Places(s, x)) + Cardinality(Places(t, x))
<1> DEFINE u == s \o t
           n == Len(s)
           m == Len(t)
           A == Places(s, x)
           B == Places(t, x)
           C == {j \in (n + 1) .. (n + m) : u[j] = x}
           f == [k \in B |-> k + n]
<1>1. n \in Nat /\ m \in Nat /\ Len(u) = n + m
    OBVIOUS
<1>2. \A k \in 1 .. n : u[k] = s[k]
    OBVIOUS
<1>3. \A k \in 1 .. m : u[k + n] = t[k]
    OBVIOUS
<1> HIDE DEF u, n, m
<1>4. IsFiniteSet(A) /\ IsFiniteSet(B) /\ Cardinality(A) \in Nat /\ Cardinality(B) \in Nat
    BY PlacesFacts
<1>5. \A k : k \in A <=> k \in 1 .. n /\ u[k] = x
    BY <1>2 DEF Places, n
<1>6. \A k : k \in B <=> k \in 1 .. m /\ u[k + n] = x
    BY <1>3 DEF Places, m
<1> HIDE DEF A, B
<1>7. f \in Bijection(B, C)
    <2>1. \A k \in B : k \in Int /\ k + n \in C
        BY <1>1, <1>6
    <2>2. \A j, k \in B : j + n = k + n => j = k
        BY <1>1, <2>1
    <2>3. \A j \in C : j - n \in B /\ (j - n) + n = j
        <3> SUFFICES ASSUME NEW j \in C PROVE j - n \in B /\ (j - n) + n = j
            OBVIOUS
        <3>1. j - n \in 1 .. m /\ (j - n) + n = j /\ u[j] = x
            BY <1>1
        <3>. QED BY <1>6, <3>1
    <2> HIDE DEF C
    <2>4. f \in Injection(B, C)
        BY <2>1, <2>2 DEF Injection, IsInjective
    <2>5. \A j \in C : \E k \in B : f[k] = j
        BY <2>3
    <2>6. f \in Surjection(B, C)
        BY <2>1, <2>5 DEF Surjection
    <2>. QED BY <2>4, <2>6 DEF Bijection
<1>8. IsFiniteSet(C) /\ Cardinality(C) = Cardinality(B)
    <2> HIDE DEF C, f
    <2>. QED BY <1>4, <1>7, FS_Bijection DEF ExistsBijection
<1>9. Places(u, x) = A \cup C /\ A \cap C = {}
    <2>1. \A k : k \in Places(u, x) <=> k \in 1 .. n + m /\ u[k] = x
        BY <1>1 DEF Places
    <2>2. \A k : k \in 1 .. n + m <=> k \in 1 .. n \/ k \in (n + 1) .. (n + m)
        BY <1>1
    <2>3. \A k : ~ (k \in 1 .. n /\ k \in (n + 1) .. (n + m))
        BY <1>1
    <2>. QED BY <1>5, <2>1, <2>2, <2>3
<1> HIDE DEF C
<1>10. Cardinality(A \cup C) = Cardinality(A) + Cardinality(C) - Cardinality(A \cap C)
    BY <1>4, <1>8, FS_Union
<1>11. Cardinality(A \cap C) = 0
    BY <1>9, FS_EmptySet
<1>12. Cardinality(Places(u, x)) = Cardinality(A) + Cardinality(B)
    BY <1>4, <1>8, <1>9, <1>10, <1>11
<1>. QED BY <1>12 DEF u, A, B

\* retain draws the entries it keeps, in their order.
THEOREM WithoutDrawn ==
    ASSUME NEW E, NEW s \in Seq(E), NEW x
    PROVE  /\ \A k \in 1 .. Len(Without(s, x)) : Without(s, x)[k] # x
           /\ \E g : /\ Drawn(Without(s, x), s, g)
                     /\ \A j, k \in 1 .. Len(Without(s, x)) : j < k => g[j] < g[k]
<1> DEFINE ix == {i \in 1 .. Len(s) : s[i] # x}
           g == Ascending(ix)
           n == Cardinality(ix)
           w == Without(s, x)
<1>1. ix \in SUBSET (1 .. Len(s)) /\ ix \in SUBSET Int /\ \A i \in ix : s[i] # x
    OBVIOUS
<1>2. w = Picked(s, ix)
    BY DEF Without
<1>3. IsFiniteSet(ix)
    <2>1. Len(s) \in Int
        OBVIOUS
    <2>2. IsFiniteSet(1 .. Len(s))
        BY <2>1, FS_Interval
    <2>. QED BY <1>1, <2>2, FS_Subset
<1> HIDE DEF ix
<1>4. /\ n \in Nat /\ g \in [1 .. n -> ix]
      /\ \A j, k \in 1 .. n : j < k => g[j] < g[k]
    BY <1>1, <1>3, AscendingFacts
<1>5. Len(w) = n /\ \A k \in 1 .. n : g[k] \in ix /\ w[k] = s[g[k]]
    BY <1>1, <1>2, PickedFacts
<1> HIDE DEF w, n, g
<1>6. \A k \in 1 .. n : w[k] # x
    BY <1>1, <1>5
<1>7. g \in [1 .. n -> 1 .. Len(s)]
    BY <1>1, <1>4
<1>8. \A j, k \in 1 .. n : g[j] = g[k] => j = k
    <2> SUFFICES ASSUME NEW j \in 1 .. n, NEW k \in 1 .. n, g[j] = g[k], j # k PROVE FALSE
        OBVIOUS
    <2>1. j < k \/ k < j
        BY <1>4
    <2>2. g[j] < g[k] \/ g[k] < g[j]
        BY <1>4, <2>1
    <2>3. g[j] \in Int /\ g[k] \in Int
        BY <1>1, <1>4
    <2>. QED BY <2>2, <2>3
<1>9. Drawn(w, s, g)
    BY <1>5, <1>7, <1>8 DEF Drawn
<1>10. \E h : Drawn(w, s, h) /\ \A j, k \in 1 .. Len(w) : j < k => h[j] < h[k]
    BY <1>4, <1>5, <1>9
<1>. QED BY <1>5, <1>6, <1>10 DEF w

\* Append is concatenation with a sequence of one element.
LEMMA AppendConcat ==
    ASSUME NEW E, NEW s \in Seq(E), NEW x \in E
    PROVE  Append(s, x) = s \o <<x>>
OBVIOUS

\* The first n elements.
LEMMA PrefixFacts ==
    ASSUME NEW E, NEW s \in Seq(E), NEW n \in Nat, n <= Len(s)
    PROVE  SubSeq(s, 1, n) \in Seq(E) /\ Len(SubSeq(s, 1, n)) = n
<1> DEFINE t == SubSeq(s, 1, n)
<1>1. Len(s) \in Nat /\ \A i \in 1..Len(s) : s[i] \in E
    OBVIOUS
<1>2. t = [i \in 1..n |-> s[i]]
    BY <1>1
<1> HIDE DEF t
<1>3. \A i \in 1..n : s[i] \in E
    BY <1>1
<1>4. t \in [1..n -> E]
    BY <1>2, <1>3
<1>5. t \in Seq(E) /\ Len(t) = n
    BY <1>4
<1>. QED BY <1>5 DEF t
=============================================================================
