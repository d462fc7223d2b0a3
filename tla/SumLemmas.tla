----------------------------- MODULE SumLemmas -----------------------------
(***************************************************************************)
(* Sums over finite sets, as MapThenSumSet of FiniteSetsExt builds them:   *)
(* by a recursive function over the subsets of a set, which takes one      *)
(* element after the other away.  For the proofs about figures.            *)
(***************************************************************************)
EXTENDS Naturals, FiniteSets, FiniteSetTheorems, WellFoundedInduction, TLAPS

AnyOf(s) == CHOOSE x \in s : TRUE

\* g is the sum of f over each subset of S.
Sums(g, f, S) ==
    g = [s \in SUBSET S |-> IF s = {} THEN 0 ELSE f[AnyOf(s)] + g[s \ {AnyOf(s)}]]

SumsOf(f, S)  == CHOOSE g : Sums(g, f, S)
SumOver(f, S) == SumsOf(f, S)[S]

-----------------------------------------------------------------------------
\* Of some numbers one is the least.
LEMMA LeastNumber ==
    ASSUME NEW S \in SUBSET Nat, S # {}
    PROVE  \E m \in S : \A j \in S : m <= j
<1> DEFINE Below == OpToRel(<, Nat)
<1>1. IsWellFoundedOn(Below, Nat)
    BY NatLessThanWellFounded
<1>2. \A x, y \in Nat : <<x, y>> \in Below <=> x < y
    BY DEF OpToRel
<1> HIDE DEF Below
<1>3. PICK m \in S : \A j \in S : ~(<<j, m>> \in Below)
    BY <1>1, WFMin, Zenon
<1>4. \A j \in S : m <= j
    <2> TAKE j \in S
    <2>1. j \in Nat /\ m \in Nat /\ ~(j < m)
        BY <1>2, <1>3
    <2> QED
        BY <2>1
<1> QED
    BY <1>4

\* Of some finite sets one holds none of the others: what stands in for induction.
LEMMA LeastSet ==
    ASSUME NEW S, IsFiniteSet(S), NEW C \in SUBSET (SUBSET S), C # {}
    PROVE  \E m \in C : \A x \in m : m \ {x} \notin C
<1> DEFINE Sizes == {Cardinality(s) : s \in C}
<1>1. \A s \in C : IsFiniteSet(s) /\ Cardinality(s) \in Nat
    BY FS_Subset, FS_CardinalityType
<1>2. Sizes \in SUBSET Nat /\ Sizes # {}
    BY <1>1
<1>3. PICK n \in Sizes : \A k \in Sizes : n <= k
    BY <1>2, LeastNumber
<1>4. PICK m \in C : Cardinality(m) = n
    BY <1>3
<1>5. ASSUME NEW x \in m, m \ {x} \in C PROVE FALSE
    <2>1. Cardinality(m \ {x}) = Cardinality(m) - 1 /\ Cardinality(m) \in Nat
        BY <1>1, <1>4, FS_RemoveElement
    <2>2. n <= Cardinality(m \ {x})
        BY <1>3, <1>5
    <2> QED
        BY <1>4, <2>1, <2>2
<1> QED
    BY <1>5

\* Of a set with elements, one is taken.
LEMMA AnyIn == ASSUME NEW s, s # {} PROVE AnyOf(s) \in s
BY DEF AnyOf

\* There is such a function.
LEMMA SumsExist ==
    ASSUME NEW S, IsFiniteSet(S), NEW f
    PROVE  Sums(SumsOf(f, S), f, S)
<1> DEFINE Next(g, s) == IF s = {} THEN 0 ELSE f[AnyOf(s)] + g[s \ {AnyOf(s)}]
           Upto(g, n) == \A s \in SUBSET S : Cardinality(s) <= n => g[s] = Next(g, s)
           Bad == {n \in Nat : ~\E g : Upto(g, n)}
<1>0. \A s \in SUBSET S : IsFiniteSet(s) /\ Cardinality(s) \in Nat
    BY FS_Subset, FS_CardinalityType
<1>1. Bad = {}
    <2> SUFFICES ASSUME Bad # {} PROVE FALSE
        OBVIOUS
    <2>1. PICK m \in Bad : \A j \in Bad : m <= j
        BY LeastNumber
    <2>2. CASE m = 0
        <3> DEFINE z == [s \in SUBSET S |-> 0]
        <3>1. \A s \in SUBSET S : Cardinality(s) <= 0 => s = {}
            BY <1>0, FS_EmptySet
        <3>2. Upto(z, 0)
            BY <3>1
        <3> QED
            BY <2>1, <2>2, <3>2
    <2>3. CASE m # 0
        <3>1. m \in Nat /\ m - 1 \in Nat /\ m - 1 \notin Bad
            <4>1. m \in Nat
                OBVIOUS
            <4>2. m - 1 \in Nat /\ ~(m <= m - 1)
                BY <2>3, <4>1
            <4> HIDE DEF Bad
            <4> QED
                BY <2>1, <4>1, <4>2
        <3>2. PICK g : Upto(g, m - 1)
            BY <3>1
        <3> DEFINE h == [s \in SUBSET S |-> Next(g, s)]
        <3>3. ASSUME NEW s \in SUBSET S, Cardinality(s) <= m PROVE h[s] = Next(h, s)
            <4>1. CASE s = {}
                BY <4>1
            <4>2. CASE s # {}
                <5> DEFINE t == s \ {AnyOf(s)}
                <5>1. AnyOf(s) \in s /\ t \in SUBSET S
                    BY <4>2, AnyIn
                <5>2. Cardinality(t) = Cardinality(s) - 1
                    BY <1>0, <5>1, FS_RemoveElement
                <5>3. Cardinality(t) <= m - 1
                    BY <1>0, <3>1, <3>3, <5>2
                <5>4. g[t] = h[t]
                    BY <3>2, <5>1, <5>3
                <5> QED
                    BY <4>2, <5>4
            <4> QED
                BY <4>1, <4>2
        <3>4. Upto(h, m)
            BY <3>3
        <3> QED
            BY <2>1, <3>4
    <2> QED
        BY <2>2, <2>3
<1>2. Cardinality(S) \in Nat
    BY <1>0
<1>3. PICK g : Upto(g, Cardinality(S))
    BY <1>1, <1>2
<1> DEFINE h == [s \in SUBSET S |-> g[s]]
<1>4. ASSUME NEW s \in SUBSET S PROVE h[s] = Next(h, s)
    <2>1. Cardinality(s) <= Cardinality(S)
        BY FS_Subset
    <2>2. g[s] = Next(g, s)
        BY <1>3, <2>1
    <2>3. s # {} => s \ {AnyOf(s)} \in SUBSET S
        OBVIOUS
    <2> QED
        BY <2>2, <2>3
<1>5. h = [s \in SUBSET S |-> Next(h, s)]
    BY <1>4
<1>6. Sums(h, f, S)
    BY <1>5 DEF Sums
<1> QED
    BY <1>6 DEF SumsOf

\* It depends only on the elements and their values.
LEMMA SumsAgree ==
    ASSUME NEW S, IsFiniteSet(S), NEW T, NEW R \in SUBSET S, R \subseteq T,
           NEW f, NEW h, \A x \in R : f[x] = h[x],
           NEW g, Sums(g, f, S), NEW k, Sums(k, h, T)
    PROVE  g[R] = k[R]
<1> DEFINE C == {s \in SUBSET R : g[s] # k[s]}
<1>0. IsFiniteSet(R)
    BY FS_Subset
<1>1. SUFFICES ASSUME C # {} PROVE FALSE
    OBVIOUS
<1>2. PICK m \in C : \A x \in m : m \ {x} \notin C
    BY <1>0, <1>1, LeastSet
<1>3. m \in SUBSET S /\ m \in SUBSET T
    OBVIOUS
<1>4. /\ g[m] = IF m = {} THEN 0 ELSE f[AnyOf(m)] + g[m \ {AnyOf(m)}]
      /\ k[m] = IF m = {} THEN 0 ELSE h[AnyOf(m)] + k[m \ {AnyOf(m)}]
    BY <1>3 DEF Sums
<1>5. m # {}
    BY <1>4
<1>6. AnyOf(m) \in m
    BY <1>5, AnyIn
<1>7. g[m \ {AnyOf(m)}] = k[m \ {AnyOf(m)}]
    BY <1>2, <1>6
<1> QED
    BY <1>4, <1>5, <1>6, <1>7

\* It is the only one.
LEMMA SumIs ==
    ASSUME NEW S, IsFiniteSet(S), NEW f, NEW g, Sums(g, f, S)
    PROVE  g[S] = SumOver(f, S)
<1>1. Sums(SumsOf(f, S), f, S)
    BY SumsExist
<1> QED
    BY <1>1, SumsAgree DEF SumOver

\* Where two functions agree, their sums do.
LEMMA SumSame ==
    ASSUME NEW S, IsFiniteSet(S), NEW f, NEW h, \A x \in S : f[x] = h[x]
    PROVE  SumOver(f, S) = SumOver(h, S)
<1>1. Sums(SumsOf(f, S), f, S) /\ Sums(SumsOf(h, S), h, S)
    BY SumsExist
<1> QED
    <2>1. SumsOf(f, S)[S] = SumsOf(h, S)[S]
        <3>1. ASSUME NEW g, Sums(g, f, S), NEW k, Sums(k, h, S) PROVE g[S] = k[S]
            <4>1. S \in SUBSET S /\ S \subseteq S /\ \A x \in S : f[x] = h[x]
                OBVIOUS
            <4> QED
                BY <3>1, <4>1, SumsAgree, Z3
        <3> QED
            BY <1>1, <3>1, Zenon
    <2> QED
        BY <2>1 DEF SumOver

\* Nothing adds up to nothing.
LEMMA SumEmpty == ASSUME NEW f PROVE SumOver(f, {}) = 0
<1>1. IsFiniteSet({})
    BY FS_EmptySet
<1>2. Sums(SumsOf(f, {}), f, {})
    BY <1>1, SumsExist
<1> QED
    BY <1>2 DEF Sums, SumOver

\* One element after the other.
LEMMA SumStep ==
    ASSUME NEW S, IsFiniteSet(S), S # {}, NEW f
    PROVE  SumOver(f, S) = f[AnyOf(S)] + SumOver(f, S \ {AnyOf(S)})
<1> DEFINE R == S \ {AnyOf(S)}
<1>1. IsFiniteSet(R)
    BY FS_Subset
<1>2. Sums(SumsOf(f, S), f, S) /\ Sums(SumsOf(f, R), f, R)
    BY <1>1, SumsExist
<1>3. SumsOf(f, S)[R] = SumsOf(f, R)[R]
    <2> HIDE DEF R
    <2>1. R \in SUBSET S
        BY DEF R
    <2> QED
        BY <1>2, <2>1, SumsAgree
<1>4. SumsOf(f, S)[S] = f[AnyOf(S)] + SumsOf(f, S)[R]
    BY <1>2 DEF Sums
<1> QED
    BY <1>3, <1>4 DEF SumOver

\* A sum of numbers is a number.
LEMMA SumNat ==
    ASSUME NEW S, IsFiniteSet(S), NEW f, \A x \in S : f[x] \in Nat
    PROVE  SumOver(f, S) \in Nat
<1> DEFINE C == {s \in SUBSET S : SumOver(f, s) \notin Nat}
<1>1. SUFFICES ASSUME C # {} PROVE FALSE
    OBVIOUS
<1>2. PICK m \in C : \A x \in m : m \ {x} \notin C
    BY <1>1, LeastSet
<1>3. m # {}
    BY SumEmpty
<1>4. AnyOf(m) \in m /\ IsFiniteSet(m)
    BY <1>3, AnyIn, FS_Subset
<1>5. SumOver(f, m) = f[AnyOf(m)] + SumOver(f, m \ {AnyOf(m)})
    BY <1>3, <1>4, SumStep
<1>6. SumOver(f, m \ {AnyOf(m)}) \in Nat /\ f[AnyOf(m)] \in Nat
    BY <1>2, <1>4
<1> QED
    BY <1>5, <1>6

\* Whichever element is taken first.
LEMMA SumTake ==
    ASSUME NEW S, IsFiniteSet(S), NEW f, \A x \in S : f[x] \in Nat, NEW z \in S
    PROVE  SumOver(f, S) = f[z] + SumOver(f, S \ {z})
<1> DEFINE C == {s \in SUBSET S : \E x \in s : SumOver(f, s) # f[x] + SumOver(f, s \ {x})}
<1>1. SUFFICES ASSUME C # {} PROVE FALSE
    OBVIOUS
<1>2. PICK m \in C : \A x \in m : m \ {x} \notin C
    BY <1>1, LeastSet
<1>3. PICK x \in m : SumOver(f, m) # f[x] + SumOver(f, m \ {x})
    OBVIOUS
<1> DEFINE y == AnyOf(m)
<1>4. y \in m /\ IsFiniteSet(m) /\ m \in SUBSET S
    BY AnyIn, FS_Subset
<1>5. SumOver(f, m) = f[y] + SumOver(f, m \ {y})
    BY <1>4, SumStep
<1> HIDE DEF y
<1>6. x # y
    BY <1>3, <1>5
<1>7. SumOver(f, m \ {y}) = f[x] + SumOver(f, (m \ {y}) \ {x})
    <2>1. m \ {y} \notin C /\ m \ {y} \in SUBSET S /\ x \in m \ {y}
        BY <1>2, <1>4, <1>6
    <2> QED
        BY <2>1
<1>8. SumOver(f, m \ {x}) = f[y] + SumOver(f, (m \ {x}) \ {y})
    <2>1. m \ {x} \notin C /\ m \ {x} \in SUBSET S /\ y \in m \ {x}
        BY <1>2, <1>4, <1>6
    <2> QED
        BY <2>1
<1>9. (m \ {x}) \ {y} = (m \ {y}) \ {x}
    OBVIOUS
<1>10. SumOver(f, (m \ {y}) \ {x}) \in Nat /\ f[x] \in Nat /\ f[y] \in Nat
    <2>1. (m \ {y}) \ {x} \in SUBSET S
        BY <1>4
    <2>2. IsFiniteSet((m \ {y}) \ {x})
        BY <2>1, FS_Subset
    <2> QED
        BY <1>4, <2>1, <2>2, SumNat
<1>11. \A a, b, c \in Nat : a + (b + c) = b + (a + c)
    OBVIOUS
<1> DEFINE rest == SumOver(f, (m \ {y}) \ {x})
<1>12. f[y] + SumOver(f, m \ {y}) = f[x] + SumOver(f, m \ {x})
    <2>1. SumOver(f, m \ {y}) = f[x] + rest /\ SumOver(f, m \ {x}) = f[y] + rest
        BY <1>7, <1>8, <1>9
    <2> HIDE DEF rest
    <2>2. f[y] + (f[x] + rest) = f[x] + (f[y] + rest)
        BY <1>10, <1>11 DEF rest
    <2> QED
        BY <2>1, <2>2
<1> QED
    BY <1>3, <1>5, <1>12, Zenon

\* A further element.
LEMMA SumAdd ==
    ASSUME NEW S, IsFiniteSet(S), NEW z, z \notin S,
           NEW f, \A x \in S \cup {z} : f[x] \in Nat
    PROVE  SumOver(f, S \cup {z}) = SumOver(f, S) + f[z]
<1>1. IsFiniteSet(S \cup {z})
    BY FS_AddElement
<1>2. (S \cup {z}) \ {z} = S
    OBVIOUS
<1>3. SumOver(f, S \cup {z}) = f[z] + SumOver(f, (S \cup {z}) \ {z})
    BY <1>1, SumTake
<1>4. SumOver(f, S) \in Nat /\ f[z] \in Nat
    BY SumNat
<1>5. \A a, b \in Nat : a + b = b + a
    OBVIOUS
<1> QED
    BY <1>2, <1>3, <1>4, <1>5, Zenon

\* One value more by one.
LEMMA SumBump ==
    ASSUME NEW S, IsFiniteSet(S), NEW z \in S,
           NEW f, \A x \in S : f[x] \in Nat,
           NEW h, \A x \in S : h[x] = IF x = z THEN f[x] + 1 ELSE f[x]
    PROVE  SumOver(h, S) = SumOver(f, S) + 1
<1> DEFINE R == S \ {z}
<1>1. IsFiniteSet(R)
    BY FS_Subset
<1>2. \A x \in S : h[x] \in Nat
    OBVIOUS
<1>3. /\ SumOver(f, S) = f[z] + SumOver(f, R)
      /\ SumOver(h, S) = h[z] + SumOver(h, R)
    BY <1>2, SumTake
<1>4. SumOver(f, R) = SumOver(h, R)
    BY <1>1, SumSame
<1>5. SumOver(f, R) \in Nat /\ f[z] \in Nat /\ h[z] = f[z] + 1
    BY <1>1, SumNat
<1> HIDE DEF R
<1> QED
    BY <1>3, <1>4, <1>5

\* A sum of zeros.
LEMMA SumZero ==
    ASSUME NEW S, IsFiniteSet(S), NEW f, \A x \in S : f[x] = 0
    PROVE  SumOver(f, S) = 0
<1> DEFINE C == {s \in SUBSET S : SumOver(f, s) # 0}
<1>1. SUFFICES ASSUME C # {} PROVE FALSE
    OBVIOUS
<1>2. PICK m \in C : \A x \in m : m \ {x} \notin C
    BY <1>1, LeastSet
<1>3. m # {}
    BY SumEmpty
<1>4. AnyOf(m) \in m /\ IsFiniteSet(m)
    BY <1>3, AnyIn, FS_Subset
<1>5. SumOver(f, m) = f[AnyOf(m)] + SumOver(f, m \ {AnyOf(m)})
    BY <1>3, <1>4, SumStep
<1> QED
    BY <1>2, <1>4, <1>5

\* A union adds up to at most its parts, and to them if they have nothing in common.
LEMMA SumUnion ==
    ASSUME NEW X, IsFiniteSet(X), NEW Y, IsFiniteSet(Y),
           NEW f, \A x \in X \cup Y : f[x] \in Nat
    PROVE  /\ SumOver(f, X \cup Y) <= SumOver(f, X) + SumOver(f, Y)
           /\ X \cap Y = {} => SumOver(f, X \cup Y) = SumOver(f, X) + SumOver(f, Y)
<1> DEFINE P(s) == /\ SumOver(f, X \cup s) <= SumOver(f, X) + SumOver(f, s)
                   /\ X \cap s = {} => SumOver(f, X \cup s) = SumOver(f, X) + SumOver(f, s)
           C == {s \in SUBSET Y : ~P(s)}
<1>1. SUFFICES ASSUME C # {} PROVE FALSE
    OBVIOUS
<1>2. PICK m \in C : \A x \in m : m \ {x} \notin C
    BY <1>1, LeastSet
<1>3. ASSUME NEW s \in SUBSET Y
      PROVE  /\ IsFiniteSet(s) /\ SumOver(f, s) \in Nat
             /\ IsFiniteSet(X \cup s) /\ SumOver(f, X \cup s) \in Nat /\ SumOver(f, X) \in Nat
    <2>1. IsFiniteSet(s)
        BY FS_Subset
    <2>2. IsFiniteSet(X \cup s)
        BY <2>1, FS_Union
    <2> QED
        BY <2>1, <2>2, SumNat
<1>4. m # {}
    <2>1. SumOver(f, {}) = 0 /\ X \cup {} = X /\ SumOver(f, X) \in Nat
        BY <1>3, SumEmpty
    <2>2. P({})
        BY <2>1
    <2> QED
        BY <2>2
<1> DEFINE y == AnyOf(m)
           l == m \ {y}
<1>5. y \in m /\ m \in SUBSET Y /\ l \in SUBSET Y
    BY <1>4, AnyIn
<1>6. P(l)
    BY <1>2, <1>5
<1>7. SumOver(f, m) = SumOver(f, l) + f[y] /\ f[y] \in Nat
    <2>1. l \cup {y} = m /\ y \notin l
        BY <1>5
    <2>2. IsFiniteSet(l) /\ \A x \in l \cup {y} : f[x] \in Nat
        BY <1>3, <1>5
    <2> HIDE DEF l, y
    <2> QED
        BY <2>1, <2>2, SumAdd
<1>8. CASE y \in X
    <2>1. X \cup m = X \cup l /\ X \cap m # {}
        BY <1>5, <1>8
    <2> HIDE DEF l, y
    <2>2. SumOver(f, l) \in Nat /\ SumOver(f, X) \in Nat /\ SumOver(f, X \cup l) \in Nat
        BY <1>3, <1>5
    <2>3. SumOver(f, X \cup m) = SumOver(f, X \cup l)
        BY <2>1
    <2>4. SumOver(f, X \cup m) <= SumOver(f, X) + SumOver(f, m)
        BY <1>6, <1>7, <2>2, <2>3
    <2> QED
        BY <2>1, <2>4
<1>9. CASE y \notin X
    <2>1. X \cup m = (X \cup l) \cup {y} /\ y \notin X \cup l
        BY <1>5, <1>9
    <2> HIDE DEF l, y
    <2>2. IsFiniteSet(X \cup l) /\ \A x \in (X \cup l) \cup {y} : f[x] \in Nat
        BY <1>3, <1>5, <2>1
    <2>3. SumOver(f, X \cup m) = SumOver(f, X \cup l) + f[y]
        BY <2>1, <2>2, SumAdd
    <2>4. SumOver(f, l) \in Nat /\ SumOver(f, X) \in Nat /\ SumOver(f, X \cup l) \in Nat
        BY <1>3, <1>5
    <2>5. X \cap m = {} => X \cap l = {}
        BY DEF l
    <2>6. P(m)
        BY <1>6, <1>7, <2>3, <2>4, <2>5
    <2> QED
        BY <2>6
<1> QED
    BY <1>8, <1>9

\* A part adds up to no more than the whole.
LEMMA SumSubset ==
    ASSUME NEW T, IsFiniteSet(T), NEW S \in SUBSET T, NEW f, \A x \in T : f[x] \in Nat
    PROVE  SumOver(f, S) <= SumOver(f, T)
<1> DEFINE R == T \ S
<1>1. IsFiniteSet(S) /\ IsFiniteSet(R) /\ S \cap R = {} /\ S \cup R = T
    BY FS_Subset
<1> HIDE DEF R
<1>2. SumOver(f, T) = SumOver(f, S) + SumOver(f, R)
    BY <1>1, SumUnion
<1>3. SumOver(f, S) \in Nat /\ SumOver(f, R) \in Nat
    BY <1>1, SumNat
<1> QED
    BY <1>2, <1>3

\* A sum grows with its set, as long as the values stay.
LEMMA SumGrows ==
    ASSUME NEW T, IsFiniteSet(T), NEW S \in SUBSET T,
           NEW h, \A x \in T : h[x] \in Nat, NEW f, \A x \in S : f[x] = h[x]
    PROVE  SumOver(f, S) \in Nat /\ SumOver(h, T) \in Nat /\ SumOver(f, S) <= SumOver(h, T)
<1>1. IsFiniteSet(S)
    BY FS_Subset
<1>2. SumOver(f, S) = SumOver(h, S)
    BY <1>1, SumSame
<1>3. SumOver(h, S) <= SumOver(h, T)
    BY SumSubset
<1>4. SumOver(f, S) \in Nat /\ SumOver(h, T) \in Nat
    BY <1>1, SumNat
<1> QED
    BY <1>2, <1>3, <1>4

\* The sums of some parts of a set add up to at least the set if they cover it, and to at
\* most the set if no two have anything in common.
LEMMA SumParts ==
    ASSUME NEW B, IsFiniteSet(B), NEW S, IsFiniteSet(S), NEW R \in [B -> SUBSET S],
           NEW w, \A x \in S : w[x] \in Nat,
           NEW G, \A b \in B : G[b] = SumOver(w, R[b])
    PROVE  /\ SumOver(G, B) \in Nat /\ SumOver(w, S) \in Nat
           /\ (\A x \in S : \E b \in B : x \in R[b]) => SumOver(w, S) <= SumOver(G, B)
           /\ (\A b, c \in B : b # c => R[b] \cap R[c] = {}) => SumOver(G, B) <= SumOver(w, S)
<1> DEFINE U(s) == UNION {R[b] : b \in s}
           Disjoint == \A b, c \in B : b # c => R[b] \cap R[c] = {}
           P(s) == /\ SumOver(w, U(s)) <= SumOver(G, s)
                   /\ Disjoint => SumOver(w, U(s)) = SumOver(G, s)
           C == {s \in SUBSET B : ~P(s)}
<1>0. ASSUME NEW s \in SUBSET B
      PROVE  /\ IsFiniteSet(s) /\ U(s) \in SUBSET S /\ IsFiniteSet(U(s))
             /\ SumOver(w, U(s)) \in Nat /\ SumOver(G, s) \in Nat
    <2>1. IsFiniteSet(s) /\ U(s) \in SUBSET S
        BY FS_Subset
    <2>2. IsFiniteSet(U(s))
        BY <2>1, FS_Subset
    <2>3. SumOver(w, U(s)) \in Nat
        BY <2>1, <2>2, SumNat
    <2>4. \A b \in s : G[b] \in Nat
        <3> TAKE b \in s
        <3>1. R[b] \in SUBSET S /\ G[b] = SumOver(w, R[b])
            OBVIOUS
        <3>2. IsFiniteSet(R[b])
            BY <3>1, FS_Subset
        <3> QED
            BY <3>1, <3>2, SumNat
    <2>5. SumOver(G, s) \in Nat
        BY <2>1, <2>4, SumNat
    <2> QED
        BY <2>1, <2>2, <2>3, <2>5
<1>1. C = {}
    <2> SUFFICES ASSUME C # {} PROVE FALSE
        OBVIOUS
    <2>1. PICK m \in C : \A x \in m : m \ {x} \notin C
        BY LeastSet
    <2>2. m # {}
        <3>1. U({}) = {} /\ SumOver(w, {}) = 0 /\ SumOver(G, {}) = 0
            BY SumEmpty
        <3>2. SumOver(w, U({})) = 0
            BY <3>1
        <3>3. P({})
            <4> HIDE DEF U
            <4> QED
                BY <3>1, <3>2
        <3> QED
            BY <3>3
    <2> DEFINE y == AnyOf(m)
               l == m \ {y}
    <2>3. y \in m /\ m \in SUBSET B /\ l \in SUBSET B /\ y \notin l /\ l \cup {y} = m
        BY <2>2, AnyIn
    <2>4. P(l)
        BY <2>1, <2>3
    <2> HIDE DEF l, y
    <2>5. U(m) = U(l) \cup R[y]
        BY <2>3
    <2>6. /\ IsFiniteSet(l) /\ U(l) \in SUBSET S /\ IsFiniteSet(U(l))
          /\ SumOver(w, U(l)) \in Nat /\ SumOver(G, l) \in Nat
          /\ SumOver(w, U(m)) \in Nat /\ SumOver(G, m) \in Nat
        BY <1>0, <2>3
    <2>7. R[y] \in SUBSET S /\ G[y] = SumOver(w, R[y])
        BY <2>3
    <2>8. IsFiniteSet(R[y]) /\ SumOver(w, R[y]) \in Nat
        <3>1. IsFiniteSet(R[y])
            BY <2>7, FS_Subset
        <3> QED
            BY <2>7, <3>1, SumNat
    <2>9. SumOver(G, m) = SumOver(G, l) + G[y]
        <3>1. \A b \in l \cup {y} : G[b] \in Nat
            <4> TAKE b \in l \cup {y}
            <4>1. R[b] \in SUBSET S /\ G[b] = SumOver(w, R[b])
                BY <2>3
            <4>2. IsFiniteSet(R[b])
                BY <4>1, FS_Subset
            <4> QED
                BY <4>1, <4>2, SumNat
        <3> QED
            BY <2>3, <2>6, <3>1, SumAdd
    <2>10. /\ SumOver(w, U(l) \cup R[y]) <= SumOver(w, U(l)) + SumOver(w, R[y])
           /\ U(l) \cap R[y] = {} =>
                 SumOver(w, U(l) \cup R[y]) = SumOver(w, U(l)) + SumOver(w, R[y])
        <3>1. \A x \in U(l) \cup R[y] : w[x] \in Nat
            BY <2>6, <2>7
        <3> HIDE DEF U
        <3> QED
            BY <2>6, <2>8, <3>1, SumUnion
    <2>11. Disjoint => U(l) \cap R[y] = {}
        BY <2>3
    <2>12. P(m)
        <3> HIDE DEF U, Disjoint
        <3> QED
            BY <2>4, <2>5, <2>6, <2>7, <2>8, <2>9, <2>10, <2>11
    <2> QED
        BY <2>12
<1>2. P(B)
    BY <1>1
<1>3. SumOver(w, U(B)) \in Nat /\ SumOver(G, B) \in Nat /\ U(B) \in SUBSET S
    BY <1>0
<1>4. SumOver(w, S) \in Nat /\ SumOver(w, U(B)) <= SumOver(w, S)
    BY <1>3, SumNat, SumSubset
<1>5. (\A x \in S : \E b \in B : x \in R[b]) => U(B) = S
    BY <1>3
<1> HIDE DEF U
<1> QED
    BY <1>2, <1>3, <1>4, <1>5

\* As many elements as ones.
LEMMA SumOnes ==
    ASSUME NEW S, IsFiniteSet(S), NEW f, \A x \in S : f[x] = 1
    PROVE  Cardinality(S) = SumOver(f, S)
<1> DEFINE C == {s \in SUBSET S : Cardinality(s) # SumOver(f, s)}
<1>1. SUFFICES ASSUME C # {} PROVE FALSE
    OBVIOUS
<1>2. PICK m \in C : \A x \in m : m \ {x} \notin C
    BY <1>1, LeastSet
<1>3. m # {}
    BY SumEmpty, FS_EmptySet
<1>4. AnyOf(m) \in m /\ IsFiniteSet(m)
    BY <1>3, AnyIn, FS_Subset
<1>5. SumOver(f, m) = 1 + SumOver(f, m \ {AnyOf(m)})
    BY <1>3, <1>4, SumStep
<1>6. Cardinality(m \ {AnyOf(m)}) = SumOver(f, m \ {AnyOf(m)})
    BY <1>2, <1>4
<1>7. Cardinality(m \ {AnyOf(m)}) = Cardinality(m) - 1 /\ Cardinality(m) \in Nat
    BY <1>4, FS_RemoveElement, FS_CardinalityType
<1> QED
    BY <1>5, <1>6, <1>7
=============================================================================
