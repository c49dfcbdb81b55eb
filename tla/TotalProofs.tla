----------------------------- MODULE TotalProofs -----------------------------
(***************************************************************************)
(* Lemmas about the totals of finite sets of amounts: they do not depend   *)
(* on the order of the addition, they grow with the set and with the       *)
(* amounts, and the totals of parts add up.                                *)
(*                                                                         *)
(* Induction over the set is by a smallest counterexample: a set of        *)
(* natural numbers, the sizes of the sets that would fail, has a least     *)
(* element, and a set of one element less does not fail.                   *)
(***************************************************************************)
EXTENDS Totals, FiniteSets, FiniteSetTheorems, WellFoundedInduction, TLAPS

\* A set of natural numbers has a smallest one.
LEMMA Smallest ==
    ASSUME NEW S \in SUBSET Nat, S # {}
    PROVE  \E s \in S : \A r \in S : s <= r
<1> DEFINE less == {x \in Nat \X Nat : x[1] < x[2]}
<1>1. IsWellFoundedOn(less, Nat)
    BY NatLessThanWellFounded DEF OpToRel
<1>2. PICK s \in S : \A r \in S : <<r, s>> \notin less
    BY <1>1, WFMin
<1>3. \A r \in S : ~(r < s)
    BY <1>2
<1> QED BY <1>3

\* The recursion behind Total: Chosen(s) is added first.
Chosen(s) == CHOOSE x \in s : TRUE
Adding(a, g, s) == IF s = {} THEN 0 ELSE a[Chosen(s)] + g[s \ {Chosen(s)}]
Sums(a, S) == CHOOSE g : g = [s \in SUBSET S |-> Adding(a, g, s)]

LEMMA TotalIsSum ==
    ASSUME NEW a, NEW S PROVE Total(a, S) = Sums(a, S)[S]
BY DEF Total, MapThenSumSet, MapThenFoldSet, Sums, Adding, Chosen

\* Sums up to a size satisfy the recursion.
UpTo(S, n) == {s \in SUBSET S : Cardinality(s) <= n}
Adds(a, S, n, g) == g = [s \in UpTo(S, n) |-> Adding(a, g, s)]

LEMMA ChosenSmaller ==
    ASSUME NEW S, IsFiniteSet(S), NEW s \in SUBSET S
    PROVE  /\ IsFiniteSet(s) /\ Cardinality(s) \in Nat
           /\ s # {} => /\ Chosen(s) \in s
                        /\ s \ {Chosen(s)} \in SUBSET S
                        /\ Cardinality(s) # 0
                        /\ Cardinality(s \ {Chosen(s)}) = Cardinality(s) - 1
<1>1. IsFiniteSet(s) /\ Cardinality(s) \in Nat
    BY FS_Subset, FS_CardinalityType
<1>2. s # {} => Chosen(s) \in s
    BY DEF Chosen
<1>3. s # {} => Cardinality(s) # 0
    BY <1>1, FS_EmptySet
<1>4. s # {} => Cardinality(s \ {Chosen(s)}) = Cardinality(s) - 1
    BY <1>1, <1>2, FS_RemoveElement
<1> QED BY <1>1, <1>2, <1>3, <1>4

LEMMA SumsUpTo ==
    ASSUME NEW a, NEW S, IsFiniteSet(S), NEW n \in Nat
    PROVE  \E g : Adds(a, S, n, g)
<1> DEFINE Bad == {m \in Nat : ~\E g : Adds(a, S, m, g)}
<1>1. SUFFICES ASSUME Bad # {} PROVE FALSE
    BY <1>1
<1>2. PICK m \in Bad : \A k \in Bad : m <= k
    BY <1>1, Smallest
<1>3. m # 0
    <2>1. UpTo(S, 0) \subseteq {{}}
        <3>1. ASSUME NEW s \in SUBSET S, Cardinality(s) <= 0 PROVE s = {}
            <4>1. IsFiniteSet(s) /\ Cardinality(s) \in Nat
                BY FS_Subset, FS_CardinalityType
            <4> QED BY <3>1, <4>1, FS_EmptySet
        <3> QED BY <3>1 DEF UpTo
    <2> DEFINE g == [s \in UpTo(S, 0) |-> 0]
    <2>2. Adds(a, S, 0, g)
        BY <2>1 DEF Adds, Adding
    <2> QED BY <1>2, <2>2
<1>4. m - 1 \in Nat /\ m - 1 \notin Bad
    BY <1>2, <1>3
<1>5. PICK g : Adds(a, S, m - 1, g)
    BY <1>4
<1> DEFINE h == [s \in UpTo(S, m) |-> Adding(a, g, s)]
<1>6. ASSUME NEW s \in UpTo(S, m) PROVE h[s] = Adding(a, h, s)
    <2>1. CASE s = {}
        BY <2>1 DEF Adding
    <2>2. CASE s # {}
        <3> DEFINE t == s \ {Chosen(s)}
        <3>1. t \in UpTo(S, m - 1) /\ t \in UpTo(S, m)
            BY <1>2, <2>2, ChosenSmaller DEF UpTo
        <3>2. g[t] = Adding(a, g, t)
            BY <1>5, <3>1 DEF Adds
        <3>3. h[t] = g[t]
            BY <3>1, <3>2
        <3> QED BY <2>2, <3>3 DEF Adding
    <2> QED BY <2>1, <2>2
<1>7. Adds(a, S, m, h)
    BY <1>6 DEF Adds
<1> QED BY <1>2, <1>7

LEMMA SumsAdd ==
    ASSUME NEW a, NEW S, IsFiniteSet(S), NEW s \in SUBSET S
    PROVE  Sums(a, S)[s] = Adding(a, Sums(a, S), s)
<1>1. Cardinality(S) \in Nat /\ \A t \in SUBSET S : Cardinality(t) <= Cardinality(S)
    BY FS_Subset, FS_CardinalityType
<1>2. UpTo(S, Cardinality(S)) = SUBSET S
    BY <1>1 DEF UpTo
<1>3. \E g : g = [t \in SUBSET S |-> Adding(a, g, t)]
    <2>1. PICK g : Adds(a, S, Cardinality(S), g)
        BY <1>1, SumsUpTo
    <2>2. g = [t \in SUBSET S |-> Adding(a, g, t)]
        BY <1>2, <2>1 DEF Adds
    <2> QED BY <2>2
<1>4. Sums(a, S) = [t \in SUBSET S |-> Adding(a, Sums(a, S), t)]
    BY <1>3 DEF Sums
<1> QED BY <1>4

\* What is added up depends on the amounts of the set's members only.
LEMMA SumsAgree ==
    ASSUME NEW a, NEW b, NEW S, NEW T, IsFiniteSet(S), IsFiniteSet(T),
           NEW s \in SUBSET S, s \in SUBSET T, \A x \in s : a[x] = b[x]
    PROVE  Sums(a, S)[s] = Sums(b, T)[s]
<1> DEFINE Bad == {n \in Nat : \E t \in SUBSET s : Cardinality(t) = n /\ Sums(a, S)[t] # Sums(b, T)[t]}
<1>1. SUFFICES ASSUME Sums(a, S)[s] # Sums(b, T)[s] PROVE FALSE
    OBVIOUS
<1>2. Bad # {}
    BY <1>1, ChosenSmaller
<1>3. PICK n \in Bad : \A k \in Bad : n <= k
    BY <1>2, Smallest
<1>4. PICK t \in SUBSET s : Cardinality(t) = n /\ Sums(a, S)[t] # Sums(b, T)[t]
    BY <1>3
<1>5. t \in SUBSET S /\ t \in SUBSET T
    BY <1>4
<1>6. Sums(a, S)[t] = Adding(a, Sums(a, S), t) /\ Sums(b, T)[t] = Adding(b, Sums(b, T), t)
    BY <1>5, SumsAdd
<1>7. t # {}
    BY <1>4, <1>6 DEF Adding
<1> DEFINE u == t \ {Chosen(t)}
<1>8. /\ Chosen(t) \in s /\ u \in SUBSET s /\ Cardinality(u) \in Nat /\ Cardinality(u) < n
    <2>1. /\ Cardinality(t) \in Nat /\ Chosen(t) \in t /\ Cardinality(u) = Cardinality(t) - 1
          /\ Cardinality(t) # 0 /\ u \in SUBSET S
        BY <1>5, <1>7, ChosenSmaller
    <2> QED BY <1>4, <2>1
<1>9. Sums(a, S)[u] = Sums(b, T)[u]
    BY <1>3, <1>8
<1> QED BY <1>4, <1>6, <1>7, <1>8, <1>9 DEF Adding

LEMMA TotalEmpty ==
    ASSUME NEW a PROVE Total(a, {}) = 0
BY TotalIsSum, SumsAdd, FS_EmptySet DEF Adding

LEMMA TotalAgrees ==
    ASSUME NEW a, NEW b, NEW S, IsFiniteSet(S), \A x \in S : a[x] = b[x]
    PROVE  Total(a, S) = Total(b, S)
BY TotalIsSum, SumsAgree

\* The member chosen first is added to the total of the others.
LEMMA TotalChosen ==
    ASSUME NEW a, NEW S, IsFiniteSet(S), S # {}
    PROVE  Total(a, S) = a[Chosen(S)] + Total(a, S \ {Chosen(S)})
<1> DEFINE T == S \ {Chosen(S)}
<1>1. IsFiniteSet(T) /\ T \in SUBSET S
    BY FS_Subset
<1>2. Sums(a, S)[T] = Sums(a, T)[T]
    BY <1>1, SumsAgree
<1>3. Sums(a, S)[S] = a[Chosen(S)] + Sums(a, S)[T]
    BY SumsAdd DEF Adding
<1> QED BY <1>2, <1>3, TotalIsSum

\* A total of natural numbers is one, and any member may be taken out of it.
LEMMA TotalRemoves ==
    ASSUME NEW S, IsFiniteSet(S), NEW a, \A x \in S : a[x] \in Nat
    PROVE  /\ Total(a, S) \in Nat
           /\ \A x \in S : Total(a, S) = a[x] + Total(a, S \ {x})
<1> DEFINE Good(t) == /\ Total(a, t) \in Nat
                      /\ \A x \in t : Total(a, t) = a[x] + Total(a, t \ {x})
           Bad == {n \in Nat : \E t \in SUBSET S : Cardinality(t) = n /\ ~Good(t)}
<1>1. SUFFICES ASSUME ~Good(S) PROVE FALSE
    OBVIOUS
<1>2. Bad # {}
    BY <1>1, ChosenSmaller
<1>3. PICK n \in Bad : \A k \in Bad : n <= k
    BY <1>2, Smallest
<1>4. PICK t \in SUBSET S : Cardinality(t) = n /\ ~Good(t)
    BY <1>3
<1>5. IsFiniteSet(t) /\ Cardinality(t) = n /\ n \in Nat
    BY <1>4, FS_Subset, FS_CardinalityType
<1>6. ASSUME NEW x \in t PROVE Good(t \ {x}) /\ IsFiniteSet(t \ {x})
    <2>1. /\ Cardinality(t \ {x}) = n - 1 /\ IsFiniteSet(t \ {x})
          /\ Cardinality(t \ {x}) \in Nat /\ t \ {x} \in SUBSET S
        BY <1>5, FS_RemoveElement, FS_CardinalityType
    <2> HIDE DEF Good
    <2>2. n - 1 \notin Bad
        BY <1>3, <1>5
    <2> QED BY <2>1, <2>2
<1>7. t # {}
    BY <1>4, TotalEmpty
<1> DEFINE p == Chosen(t)
<1>8. p \in t
    BY <1>7 DEF Chosen
<1>9. Total(a, t) = a[p] + Total(a, t \ {p})
    BY <1>5, <1>7, TotalChosen
<1>10. Total(a, t) \in Nat
    <2>1. a[p] \in Nat /\ Total(a, t \ {p}) \in Nat
        BY <1>6, <1>8
    <2> QED BY <1>9, <2>1
<1>11. ASSUME NEW x \in t, x # p PROVE Total(a, t) = a[x] + Total(a, t \ {x})
    <2>1. (t \ {p}) \ {x} = (t \ {x}) \ {p}
        OBVIOUS
    <2>2. Total(a, t \ {p}) = a[x] + Total(a, (t \ {p}) \ {x})
        BY <1>6, <1>8, <1>11
    <2>3. Total(a, t \ {x}) = a[p] + Total(a, (t \ {x}) \ {p})
        BY <1>6, <1>8, <1>11
    <2>4. Total(a, (t \ {x}) \ {p}) \in Nat /\ a[x] \in Nat /\ a[p] \in Nat
        <3>1. IsFiniteSet(t \ {x}) /\ p \in t \ {x}
            BY <1>6, <1>8, <1>11
        <3> DEFINE u == t \ {x}
                   v == u \ {p}
        <3>2. v \in SUBSET S /\ Cardinality(v) \in Nat /\ Cardinality(v) = n - 2
            <4>1. IsFiniteSet(u) /\ Cardinality(u) = n - 1 /\ p \in u
                BY <1>5, <3>1, FS_RemoveElement
            <4> HIDE DEF u, p
            <4>2. IsFiniteSet(v) /\ Cardinality(v) = n - 2
                <5>1. IsFiniteSet(v) /\ Cardinality(v) = Cardinality(u) - 1
                    BY <4>1, FS_RemoveElement
                <5> QED BY <1>5, <4>1, <5>1
            <4>3. Cardinality(v) \in Nat
                BY <4>2, FS_CardinalityType
            <4> QED BY <4>2, <4>3 DEF u
        <3>3. n - 2 \notin Bad
            BY <1>3, <1>5
        <3> HIDE DEF Good
        <3>4. Good((t \ {x}) \ {p})
            BY <3>2, <3>3
        <3>5. Total(a, (t \ {x}) \ {p}) \in Nat
            BY <3>4 DEF Good
        <3> QED BY <1>8, <3>5
    <2> HIDE DEF Good, Bad, p
    <2> QED BY <1>9, <2>1, <2>2, <2>3, <2>4
<1> QED BY <1>4, <1>9, <1>10, <1>11

\* Totals of two sets that have nothing in common add up.
LEMMA TotalUnion ==
    ASSUME NEW a, NEW S, NEW T, IsFiniteSet(S), IsFiniteSet(T), S \cap T = {},
           \A x \in S \union T : a[x] \in Nat
    PROVE  Total(a, S \union T) = Total(a, S) + Total(a, T)
<1> DEFINE Splits(t) == Total(a, t \union T) = Total(a, t) + Total(a, T)
           Bad == {n \in Nat : \E t \in SUBSET S : Cardinality(t) = n /\ ~Splits(t)}
<1>1. SUFFICES ASSUME ~Splits(S) PROVE FALSE
    OBVIOUS
<1>2. Bad # {}
    BY <1>1, ChosenSmaller
<1>3. PICK n \in Bad : \A k \in Bad : n <= k
    BY <1>2, Smallest
<1>4. PICK t \in SUBSET S : Cardinality(t) = n /\ ~Splits(t)
    BY <1>3
<1>5. IsFiniteSet(t) /\ Cardinality(t) = n /\ n \in Nat /\ IsFiniteSet(t \union T)
    BY <1>4, FS_Subset, FS_CardinalityType, FS_Union
<1>6. Total(a, T) \in Nat
    BY TotalRemoves
<1>7. t # {}
    <2>1. {} \union T = T
        OBVIOUS
    <2>2. Total(a, {} \union T) = Total(a, T)
        BY <2>1, Zenon
    <2>3. Splits({})
        BY <1>6, <2>2, TotalEmpty
    <2> HIDE DEF Splits
    <2> QED BY <1>4, <2>3, Zenon
<1>8. PICK x \in t : TRUE
    BY <1>7
<1>9. Splits(t \ {x})
    <2>1. /\ Cardinality(t \ {x}) = n - 1 /\ Cardinality(t \ {x}) \in Nat
          /\ t \ {x} \in SUBSET S
        BY <1>5, FS_RemoveElement, FS_CardinalityType
    <2> HIDE DEF Splits
    <2>2. n - 1 \notin Bad
        BY <1>3, <1>5
    <2> QED BY <2>1, <2>2
<1>10. Total(a, t) = a[x] + Total(a, t \ {x}) /\ Total(a, t \ {x}) \in Nat /\ a[x] \in Nat
    <2>1. IsFiniteSet(t \ {x})
        BY <1>5, FS_RemoveElement
    <2> QED BY <1>5, <2>1, TotalRemoves
<1>11. Total(a, t \union T) = a[x] + Total(a, (t \union T) \ {x})
    BY <1>5, TotalRemoves
<1>12. (t \union T) \ {x} = (t \ {x}) \union T
    OBVIOUS
<1>13. Total(a, (t \union T) \ {x}) = Total(a, t \ {x}) + Total(a, T)
    BY <1>9, <1>12, Zenon
<1>14. Splits(t)
    BY <1>6, <1>10, <1>11, <1>13
<1> QED BY <1>4, <1>14

\* More members and larger amounts make no smaller total.
LEMMA TotalGrows ==
    ASSUME NEW a, NEW b, NEW S, NEW T, IsFiniteSet(T), S \subseteq T,
           \A x \in T : a[x] \in Nat /\ b[x] \in Nat, \A x \in S : a[x] <= b[x]
    PROVE  Total(a, S) <= Total(b, T)
<1> DEFINE Below(t) == Total(a, t) <= Total(b, t)
           Bad == {n \in Nat : \E t \in SUBSET S : Cardinality(t) = n /\ ~Below(t)}
<1>1. IsFiniteSet(S) /\ IsFiniteSet(T \ S) /\ T = S \union (T \ S) /\ S \cap (T \ S) = {}
    BY FS_Subset
<1>2. /\ Total(b, T) = Total(b, S) + Total(b, T \ S)
      /\ Total(b, S) \in Nat /\ Total(b, T \ S) \in Nat /\ Total(a, S) \in Nat
    <2>1. Total(b, S) \in Nat /\ Total(b, T \ S) \in Nat /\ Total(a, S) \in Nat
        BY <1>1, TotalRemoves
    <2>2. Total(b, S \union (T \ S)) = Total(b, S) + Total(b, T \ S)
        BY <1>1, TotalUnion
    <2> QED BY <1>1, <2>1, <2>2
<1>3. SUFFICES ASSUME ~Below(S) PROVE FALSE
    BY <1>2
<1>4. Bad # {}
    BY <1>1, <1>3, ChosenSmaller
<1>5. PICK n \in Bad : \A k \in Bad : n <= k
    BY <1>4, Smallest
<1>6. PICK t \in SUBSET S : Cardinality(t) = n /\ ~Below(t)
    BY <1>5
<1>7. IsFiniteSet(t) /\ Cardinality(t) = n /\ n \in Nat
    BY <1>1, <1>6, FS_Subset, FS_CardinalityType
<1>8. t # {}
    <2>1. Below({})
        BY TotalEmpty
    <2> HIDE DEF Below
    <2> QED BY <1>6, <2>1, Zenon
<1>9. PICK x \in t : TRUE
    BY <1>8
<1>10. Below(t \ {x})
    <2>1. /\ Cardinality(t \ {x}) = n - 1 /\ Cardinality(t \ {x}) \in Nat
          /\ t \ {x} \in SUBSET S
        BY <1>7, FS_RemoveElement, FS_CardinalityType
    <2> HIDE DEF Below
    <2>2. n - 1 \notin Bad
        BY <1>5, <1>7
    <2> QED BY <2>1, <2>2
<1>11. /\ Total(a, t) = a[x] + Total(a, t \ {x}) /\ Total(a, t \ {x}) \in Nat
       /\ Total(b, t) = b[x] + Total(b, t \ {x}) /\ Total(b, t \ {x}) \in Nat
    <2>1. IsFiniteSet(t \ {x}) /\ \A y \in t : a[y] \in Nat /\ b[y] \in Nat
        BY <1>7, FS_RemoveElement
    <2> QED BY <1>7, <2>1, TotalRemoves
<1>12. a[x] \in Nat /\ b[x] \in Nat /\ a[x] <= b[x]
    OBVIOUS
<1> HIDE DEF Bad
<1> QED BY <1>6, <1>10, <1>11, <1>12

\* Members that count for nothing may be left out.
LEMMA TotalOutside ==
    ASSUME NEW a, NEW S, NEW T, IsFiniteSet(T), S \subseteq T,
           \A x \in T : a[x] \in Nat, \A x \in T \ S : a[x] = 0
    PROVE  Total(a, T) = Total(a, S)
<1> DEFINE R == T \ S
           Zero(t) == Total(a, t) = 0
           Bad == {n \in Nat : \E t \in SUBSET R : Cardinality(t) = n /\ ~Zero(t)}
<1>1. IsFiniteSet(S) /\ IsFiniteSet(R) /\ T = S \union R /\ S \cap R = {}
    BY FS_Subset
<1>2. Total(a, S) \in Nat /\ Total(a, T) = Total(a, S) + Total(a, R)
    <2>1. Total(a, S) \in Nat
        BY <1>1, TotalRemoves
    <2>2. Total(a, S \union R) = Total(a, S) + Total(a, R)
        BY <1>1, TotalUnion
    <2> QED BY <1>1, <2>1, <2>2
<1>3. SUFFICES ASSUME ~Zero(R) PROVE FALSE
    <2>1. Zero(R) => Total(a, T) = Total(a, S)
        BY <1>2
    <2> QED BY <2>1
<1>4. Bad # {}
    <2>1. Cardinality(R) \in Nat /\ R \in SUBSET R
        BY <1>1, FS_CardinalityType
    <2> HIDE DEF R, Zero
    <2> QED BY <1>3, <2>1
<1>5. PICK n \in Bad : \A k \in Bad : n <= k
    BY <1>4, Smallest
<1>6. PICK t \in SUBSET R : Cardinality(t) = n /\ ~Zero(t)
    BY <1>5
<1>7. IsFiniteSet(t) /\ Cardinality(t) = n /\ n \in Nat
    BY <1>1, <1>6, FS_Subset, FS_CardinalityType
<1>8. t # {}
    <2>1. Zero({})
        BY TotalEmpty
    <2> HIDE DEF Zero
    <2> QED BY <1>6, <2>1, Zenon
<1>9. PICK x \in t : TRUE
    BY <1>8
<1>10. Zero(t \ {x})
    <2>1. /\ Cardinality(t \ {x}) = n - 1 /\ Cardinality(t \ {x}) \in Nat
          /\ t \ {x} \in SUBSET R
        BY <1>7, FS_RemoveElement, FS_CardinalityType
    <2> HIDE DEF Zero, R
    <2>2. n - 1 \notin Bad
        BY <1>5, <1>7
    <2> QED BY <2>1, <2>2
<1>11. Total(a, t) = a[x] + Total(a, t \ {x})
    BY <1>7, TotalRemoves
<1>12. a[x] = 0
    OBVIOUS
<1> HIDE DEF Bad
<1> QED BY <1>6, <1>10, <1>11, <1>12
=============================================================================
