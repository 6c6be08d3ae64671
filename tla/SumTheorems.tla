---------------------------- MODULE SumTheorems ----------------------------
(***************************************************************************)
(* What the models use of SumFunctionOnSet, which sums the values of a     *)
(* function over a set by taking out one element after the other: the sum  *)
(* does not depend on their order, so it can be taken apart at any element *)
(* and followed while the function and the set change.  The library's      *)
(* induction theorems cannot be instantiated here: the proofs look at a    *)
(* smallest counterexample instead.                                        *)
(***************************************************************************)
EXTENDS FiniteSetsExt, FiniteSetTheorems, WellFoundedInduction, TLAPS

\* The element that the definition takes out first, and the table of the sums
\* over the subsets of S that it builds.
First(s) == CHOOSE x \in s : TRUE
Sums(g, f, S) ==
  g = [s \in SUBSET S |-> IF s = {} THEN 0 ELSE f[First(s)] + g[s \ {First(s)}]]

LEMMA SumIsInTable ==
  ASSUME NEW f, NEW S
  PROVE  SumFunctionOnSet(f, S) = (CHOOSE g : Sums(g, f, S))[S]
BY DEF Sums, First, SumFunctionOnSet, FoldFunctionOnSet, MapThenFoldSet

LEMMA FirstIsIn == ASSUME NEW s, s # {} PROVE First(s) \in s
BY DEF First

\* A number that is the least with a property, if any number has it.
LEMMA LeastNumber ==
  ASSUME NEW T \in SUBSET Nat, T # {}
  PROVE  \E n \in T : \A m \in T : n <= m
<1> DEFINE Less == {p \in Nat \X Nat : p[1] < p[2]}
<1>1. IsWellFoundedOn(Less, Nat)
  BY NatLessThanWellFounded DEF OpToRel
<1>2. PICK n \in T : \A m \in T : ~ (<<m, n>> \in Less)
  <2> HIDE DEF Less
  <2> QED
    BY <1>1, WFMin
<1>3. ASSUME NEW m \in T PROVE n <= m
  <2>1. <<m, n>> \notin Less
    BY <1>2
  <2>2. m \in Nat /\ n \in Nat
    OBVIOUS
  <2>3. ~ (m < n)
    BY <2>1, <2>2
  <2> QED
    BY <2>2, <2>3
<1> QED
  BY <1>3

-----------------------------------------------------------------------------
(* The table exists.                                                       *)

\* The table is right for the subsets with at most n elements.
RightUpTo(g, f, S, n) ==
  /\ g = [s \in SUBSET S |-> g[s]]
  /\ \A s \in SUBSET S : Cardinality(s) <= n =>
       g[s] = IF s = {} THEN 0 ELSE f[First(s)] + g[s \ {First(s)}]

LEMMA OneFurther ==
  ASSUME NEW f, NEW S, IsFiniteSet(S), NEW n \in Nat, NEW g, RightUpTo(g, f, S, n)
  PROVE  \E h : RightUpTo(h, f, S, n + 1)
<1> DEFINE h == [s \in SUBSET S |-> IF Cardinality(s) <= n THEN g[s]
                                    ELSE f[First(s)] + g[s \ {First(s)}]]
<1>1. h = [s \in SUBSET S |-> h[s]]
  OBVIOUS
<1>2. ASSUME NEW s \in SUBSET S, Cardinality(s) <= n + 1
      PROVE  h[s] = IF s = {} THEN 0 ELSE f[First(s)] + h[s \ {First(s)}]
  <2>1. IsFiniteSet(s) /\ Cardinality(s) \in Nat
    BY FS_Subset, FS_CardinalityType
  <2>2. CASE s = {}
    <3>1. Cardinality(s) = 0
      BY <2>2, FS_EmptySet
    <3>2. Cardinality(s) <= n
      BY <3>1
    <3>3. g[s] = 0
      BY <3>2, <2>2 DEF RightUpTo
    <3>4. h[s] = g[s]
      BY <3>2
    <3> QED
      BY <3>3, <3>4, <2>2
  <2>3. CASE s # {}
    <3> DEFINE r == s \ {First(s)}
    <3>1. First(s) \in s
      BY <2>3, FirstIsIn
    <3>2. IsFiniteSet(r) /\ Cardinality(r) = Cardinality(s) - 1 /\ r \in SUBSET S
      BY <3>1, <2>1, FS_RemoveElement
    <3>3. Cardinality(r) <= n
      BY <3>2, <2>1, <1>2
    <3>4. h[r] = g[r]
      BY <3>2, <3>3
    <3>5. h[s] = f[First(s)] + g[r]
      BY <2>3, <2>1 DEF RightUpTo
    <3> QED
      BY <3>4, <3>5, <2>3
  <2> QED
    BY <2>2, <2>3
<1> HIDE DEF h
<1>3. RightUpTo(h, f, S, n + 1)
  BY <1>1, <1>2 DEF RightUpTo
<1> QED
  BY <1>3

LEMMA RightForAll ==
  ASSUME NEW f, NEW S, IsFiniteSet(S)
  PROVE  \A n \in Nat : \E g : RightUpTo(g, f, S, n)
<1> DEFINE Wrong == {n \in Nat : ~ \E g : RightUpTo(g, f, S, n)}
<1>1. 0 \notin Wrong
  <2> DEFINE g == [s \in SUBSET S |-> 0]
  <2>1. ASSUME NEW s \in SUBSET S, Cardinality(s) <= 0
        PROVE  s = {}
    BY <2>1, FS_Subset, FS_CardinalityType, FS_EmptySet
  <2>2. RightUpTo(g, f, S, 0)
    BY <2>1 DEF RightUpTo
  <2> QED
    BY <2>2
<1>2. ASSUME Wrong # {} PROVE FALSE
  <2>1. PICK n \in Wrong : \A m \in Wrong : n <= m
    BY <1>2, LeastNumber
  <2>2. n - 1 \in Nat /\ n - 1 \notin Wrong
    BY <2>1, <1>1
  <2>3. PICK g : RightUpTo(g, f, S, n - 1)
    BY <2>2
  <2>4. \E h : RightUpTo(h, f, S, (n - 1) + 1)
    BY <2>2, <2>3, OneFurther
  <2>5. (n - 1) + 1 = n
    BY <2>1
  <2> QED
    BY <2>4, <2>5, <2>1
<1> QED
  BY <1>2

LEMMA TableExists ==
  ASSUME NEW f, NEW S, IsFiniteSet(S)
  PROVE  \E g : Sums(g, f, S)
<1> DEFINE n == Cardinality(S)
<1>1. n \in Nat
  BY FS_CardinalityType
<1>2. PICK g : RightUpTo(g, f, S, n)
  BY <1>1, RightForAll
<1>3. \A s \in SUBSET S : Cardinality(s) <= n
  BY FS_Subset
<1>4. \A s \in SUBSET S : g[s] = IF s = {} THEN 0 ELSE f[First(s)] + g[s \ {First(s)}]
  BY <1>2, <1>3 DEF RightUpTo
<1>5. g = [s \in SUBSET S |-> g[s]]
  BY <1>2 DEF RightUpTo
<1>6. g = [s \in SUBSET S |-> IF s = {} THEN 0 ELSE f[First(s)] + g[s \ {First(s)}]]
  BY <1>4, <1>5
<1> QED
  BY <1>6 DEF Sums

-----------------------------------------------------------------------------
(* Tables of two sets agree where both are defined.                        *)

Agree(e, f, R) == \A x \in R : e[x] = f[x]

LEMMA TablesAgree ==
  ASSUME NEW f, NEW e, NEW S, NEW R, IsFiniteSet(S), R \subseteq S, Agree(e, f, R),
         NEW g, Sums(g, f, S), NEW h, Sums(h, e, R)
  PROVE  \A s \in SUBSET R : g[s] = h[s]
<1> DEFINE Differ == {s \in SUBSET R : g[s] # h[s]}
<1>1. ASSUME Differ # {} PROVE FALSE
  <2> DEFINE Cards == {Cardinality(s) : s \in Differ}
  <2>1. \A s \in SUBSET R : IsFiniteSet(s) /\ Cardinality(s) \in Nat
    BY FS_Subset, FS_CardinalityType
  <2>2. Cards \in SUBSET Nat /\ Cards # {}
    BY <2>1, <1>1
  <2>3. PICK n \in Cards : \A m \in Cards : n <= m
    BY <2>2, LeastNumber
  <2>4. PICK s \in Differ : n = Cardinality(s)
    BY <2>3
  <2>5. s # {}
    BY <2>4 DEF Sums
  <2> DEFINE r == s \ {First(s)}
  <2>6. First(s) \in s
    BY <2>5, FirstIsIn
  <2>7. Cardinality(r) = n - 1 /\ r \in SUBSET R
    BY <2>6, <2>4, <2>1, FS_RemoveElement
  <2>8. r \notin Differ
    <3>1. n \in Nat /\ ~ (n <= n - 1)
      BY <2>2, <2>3
    <3> QED
      BY <3>1, <2>7, <2>3
  <2>9. g[s] = f[First(s)] + g[r] /\ h[s] = e[First(s)] + h[r]
    BY <2>4, <2>5 DEF Sums
  <2> QED
    BY <2>9, <2>8, <2>7, <2>6, <2>4 DEF Agree
<1> QED
  BY <1>1

-----------------------------------------------------------------------------
(* The sum, taken apart.                                                   *)

LEMMA SumStep ==
  ASSUME NEW f, NEW S, IsFiniteSet(S)
  PROVE  SumFunctionOnSet(f, S) =
           IF S = {} THEN 0 ELSE f[First(S)] + SumFunctionOnSet(f, S \ {First(S)})
<1> DEFINE r == S \ {First(S)}
           g == CHOOSE g : Sums(g, f, S)
           h == CHOOSE h : Sums(h, f, r)
<1>1. IsFiniteSet(r) /\ r \subseteq S
  BY FS_Subset
<1>2. Sums(g, f, S) /\ Sums(h, f, r)
  BY <1>1, TableExists
<1>3. SumFunctionOnSet(f, S) = g[S] /\ SumFunctionOnSet(f, r) = h[r]
  BY SumIsInTable
<1> HIDE DEF g, h
<1>4. g[r] = h[r]
  BY <1>1, <1>2, TablesAgree DEF Agree
<1>5. g[S] = IF S = {} THEN 0 ELSE f[First(S)] + g[r]
  BY <1>2 DEF Sums
<1> QED
  BY <1>3, <1>4, <1>5

\* The sum over nothing is 0.
THEOREM SumEmpty == ASSUME NEW f PROVE SumFunctionOnSet(f, {}) = 0
BY SumStep, FS_EmptySet

\* Functions that agree on a set have the same sum over it.
THEOREM SumSame ==
  ASSUME NEW f, NEW e, NEW S, IsFiniteSet(S), \A x \in S : e[x] = f[x]
  PROVE  SumFunctionOnSet(e, S) = SumFunctionOnSet(f, S)
<1>1. PICK g : Sums(g, f, S) /\ SumFunctionOnSet(f, S) = g[S]
  BY TableExists, SumIsInTable
<1>2. PICK h : Sums(h, e, S) /\ SumFunctionOnSet(e, S) = h[S]
  BY TableExists, SumIsInTable
<1>3. \A s \in SUBSET S : g[s] = h[s]
  <2>1. S \subseteq S /\ Agree(e, f, S)
    BY DEF Agree
  <2> QED
    BY <1>1, <1>2, <2>1, TablesAgree
<1> QED
  BY <1>1, <1>2, <1>3

\* Any element may be taken out first; and a sum of integers is one.
SumAt(f, S) ==
  /\ SumFunctionOnSet(f, S) \in Int
  /\ \A x \in S : SumFunctionOnSet(f, S) = f[x] + SumFunctionOnSet(f, S \ {x})

LEMMA SumSplits ==
  ASSUME NEW f, NEW S, IsFiniteSet(S), \A x \in S : f[x] \in Int
  PROVE  SumAt(f, S)
<1> DEFINE Bad == {s \in SUBSET S : ~ SumAt(f, s)}
<1>1. ASSUME Bad # {} PROVE FALSE
  <2> DEFINE Cards == {Cardinality(s) : s \in Bad}
  <2>1. \A s \in SUBSET S : IsFiniteSet(s) /\ Cardinality(s) \in Nat
    BY FS_Subset, FS_CardinalityType
  <2>2. Cards \in SUBSET Nat /\ Cards # {}
    BY <2>1, <1>1
  <2>3. PICK n \in Cards : \A m \in Cards : n <= m
    BY <2>2, LeastNumber
  <2>4. PICK s \in Bad : n = Cardinality(s)
    BY <2>3
  <2>5. s # {}
    <3>1. SumAt(f, {})
      BY SumEmpty DEF SumAt
    <3> QED
      BY <3>1, <2>4
  <2>6. \A r \in SUBSET S : Cardinality(r) < n => SumAt(f, r)
    <3>1. \A m \in Cards : ~ (m < n)
      BY <2>2, <2>3
    <3> QED
      BY <3>1
  <2>7. \A x \in s : Cardinality(s \ {x}) < n /\ s \ {x} \in SUBSET S
    BY <2>1, <2>4, FS_RemoveElement, SMTT(30)
  <2>8. \A x \in s : SumAt(f, s \ {x})
    BY <2>6, <2>7
  <2> DEFINE c == First(s)
  <2>9. c \in s
    BY <2>5, FirstIsIn
  <2> HIDE DEF c
  <2>10. SumFunctionOnSet(f, s) = f[c] + SumFunctionOnSet(f, s \ {c})
    BY <2>5, <2>1, <2>4, SumStep DEF c
  <2>11. SumFunctionOnSet(f, s) \in Int
    BY <2>8, <2>9, <2>10, <2>4 DEF SumAt
  <2>12. ASSUME NEW x \in s, x # c
         PROVE  SumFunctionOnSet(f, s) = f[x] + SumFunctionOnSet(f, s \ {x})
    <3>1. SumFunctionOnSet(f, s \ {c}) = f[x] + SumFunctionOnSet(f, (s \ {c}) \ {x})
      BY <2>8, <2>9, <2>12 DEF SumAt
    <3>2. SumFunctionOnSet(f, s \ {x}) = f[c] + SumFunctionOnSet(f, (s \ {x}) \ {c})
      BY <2>8, <2>9, <2>12 DEF SumAt
    <3>3. SumFunctionOnSet(f, (s \ {c}) \ {x}) = SumFunctionOnSet(f, (s \ {x}) \ {c})
      <4>1. (s \ {c}) \ {x} = (s \ {x}) \ {c}
        OBVIOUS
      <4> QED
        BY <4>1, Zenon
    <3>4. f[x] \in Int /\ f[c] \in Int
      BY <2>9, <2>4
    <3>5. SumAt(f, (s \ {c}) \ {x})
      <4>1. Cardinality((s \ {c}) \ {x}) < n
        <5>1. IsFiniteSet(s \ {c}) /\ Cardinality(s \ {c}) = n - 1 /\ Cardinality(s \ {c}) \in Nat
          BY <2>1, <2>4, <2>9, FS_RemoveElement
        <5>2. Cardinality((s \ {c}) \ {x}) <= n - 1 /\ Cardinality((s \ {c}) \ {x}) \in Nat
          BY <5>1, FS_RemoveElement, FS_CardinalityType, FS_Subset
        <5> QED
          BY <5>1, <5>2, <2>1, <2>4
      <4> QED
        BY <4>1, <2>6, <2>4
    <3>6. SumFunctionOnSet(f, (s \ {c}) \ {x}) \in Int
      BY <3>5 DEF SumAt
    <3> HIDE DEF SumAt
    <3> QED
      BY <2>10, <3>1, <3>2, <3>3, <3>4, <3>6
  <2>13. SumAt(f, s)
    BY <2>10, <2>11, <2>12 DEF SumAt
  <2> QED
    BY <2>13, <2>4
<1> QED
  BY <1>1

-----------------------------------------------------------------------------
(* The facts the models' proofs cite.                                      *)

\* A sum of integers is an integer.
THEOREM SumType ==
  ASSUME NEW f, NEW S, IsFiniteSet(S), \A x \in S : f[x] \in Int
  PROVE  SumFunctionOnSet(f, S) \in Int
BY SumSplits DEF SumAt

\* An element less, and its value is not in the sum any more.
THEOREM SumWithout ==
  ASSUME NEW f, NEW S, IsFiniteSet(S), \A x \in S : f[x] \in Int, NEW x \in S
  PROVE  /\ SumFunctionOnSet(f, S) = f[x] + SumFunctionOnSet(f, S \ {x})
         /\ SumFunctionOnSet(f, S \ {x}) = SumFunctionOnSet(f, S) - f[x]
<1>1. SumFunctionOnSet(f, S) = f[x] + SumFunctionOnSet(f, S \ {x})
  BY SumSplits DEF SumAt
<1>2. SumFunctionOnSet(f, S \ {x}) \in Int
  BY SumType, FS_Subset
<1> QED
  BY <1>1, <1>2

\* An element more adds its value.
THEOREM SumWith ==
  ASSUME NEW f, NEW S, IsFiniteSet(S), NEW x, x \notin S, \A y \in S \cup {x} : f[y] \in Int
  PROVE  SumFunctionOnSet(f, S \cup {x}) = SumFunctionOnSet(f, S) + f[x]
<1>1. IsFiniteSet(S \cup {x}) /\ (S \cup {x}) \ {x} = S
  BY FS_AddElement
<1>2. SumFunctionOnSet(f, S \cup {x}) = f[x] + SumFunctionOnSet(f, S)
  BY <1>1, SumWithout
<1>3. SumFunctionOnSet(f, S) \in Int
  BY SumType
<1> QED
  BY <1>2, <1>3

\* A sum moves by as much as the one value that changes.
THEOREM SumChange ==
  ASSUME NEW f, NEW e, NEW S, IsFiniteSet(S), NEW x \in S,
         \A y \in S : f[y] \in Int, e[x] \in Int,
         \A y \in S : y # x => e[y] = f[y]
  PROVE  SumFunctionOnSet(e, S) = SumFunctionOnSet(f, S) + (e[x] - f[x])
<1>1. IsFiniteSet(S \ {x})
  BY FS_Subset
<1>2. SumFunctionOnSet(e, S \ {x}) = SumFunctionOnSet(f, S \ {x})
  BY <1>1, SumSame
<1>3. SumFunctionOnSet(f, S) = f[x] + SumFunctionOnSet(f, S \ {x})
  BY SumWithout
<1>4. \A y \in S : e[y] \in Int
  OBVIOUS
<1>5. SumFunctionOnSet(e, S) = e[x] + SumFunctionOnSet(e, S \ {x})
  BY <1>4, SumWithout
<1>6. SumFunctionOnSet(f, S \ {x}) \in Int
  BY <1>1, SumType
<1> QED
  BY <1>2, <1>3, <1>5, <1>6

\* The same for a function whose value at x is set to v.
THEOREM SumUpdate ==
  ASSUME NEW S, IsFiniteSet(S), NEW f \in [S -> Int], NEW x \in S, NEW v \in Int
  PROVE  SumFunctionOnSet([f EXCEPT ![x] = v], S) = SumFunctionOnSet(f, S) + (v - f[x])
<1> DEFINE e == [f EXCEPT ![x] = v]
<1>1. \A y \in S : f[y] \in Int /\ (y # x => e[y] = f[y])
  OBVIOUS
<1>2. e[x] = v
  OBVIOUS
<1> HIDE DEF e
<1>3. SumFunctionOnSet(e, S) = SumFunctionOnSet(f, S) + (e[x] - f[x])
  BY <1>1, <1>2, SumChange
<1> QED
  BY <1>2, <1>3 DEF e

\* A sum of natural numbers is one, and no less than any of them.
THEOREM SumNat ==
  ASSUME NEW f, NEW S, IsFiniteSet(S), \A x \in S : f[x] \in Nat
  PROVE  /\ SumFunctionOnSet(f, S) \in Nat
         /\ \A x \in S : f[x] <= SumFunctionOnSet(f, S)
<1> DEFINE Bad == {s \in SUBSET S : SumFunctionOnSet(f, s) \notin Nat}
<1>1. ASSUME Bad # {} PROVE FALSE
  <2> DEFINE Cards == {Cardinality(s) : s \in Bad}
  <2>1. \A s \in SUBSET S : IsFiniteSet(s) /\ Cardinality(s) \in Nat
    BY FS_Subset, FS_CardinalityType
  <2>2. Cards \in SUBSET Nat /\ Cards # {}
    BY <2>1, <1>1
  <2>3. PICK n \in Cards : \A m \in Cards : n <= m
    BY <2>2, LeastNumber
  <2>4. PICK s \in Bad : n = Cardinality(s)
    BY <2>3
  <2>5. PICK x \in s : TRUE
    BY <2>4, SumEmpty
  <2>6. SumFunctionOnSet(f, s) = f[x] + SumFunctionOnSet(f, s \ {x})
    BY <2>4, <2>1, SumWithout
  <2>7. Cardinality(s \ {x}) = n - 1 /\ s \ {x} \in SUBSET S
    BY <2>4, <2>1, FS_RemoveElement
  <2>8. s \ {x} \notin Bad
    <3>1. n \in Nat /\ ~ (n <= n - 1)
      BY <2>2, <2>3
    <3> QED
      BY <3>1, <2>7, <2>3
  <2> QED
    BY <2>4, <2>6, <2>7, <2>8
<1>2. ASSUME NEW x \in S
      PROVE  f[x] <= SumFunctionOnSet(f, S)
  <2>1. SumFunctionOnSet(f, S \ {x}) \in Nat
    BY <1>1
  <2>2. SumFunctionOnSet(f, S) = f[x] + SumFunctionOnSet(f, S \ {x})
    BY SumWithout
  <2> QED
    BY <2>1, <2>2
<1> QED
  BY <1>1, <1>2

\* Zeros add up to zero.
THEOREM SumOfZeros ==
  ASSUME NEW f, NEW S, IsFiniteSet(S), \A x \in S : f[x] = 0
  PROVE  SumFunctionOnSet(f, S) = 0
<1> DEFINE Bad == {s \in SUBSET S : SumFunctionOnSet(f, s) # 0}
           Cards == {Cardinality(s) : s \in Bad}
<1>1. \A s \in SUBSET S : IsFiniteSet(s) /\ Cardinality(s) \in Nat
  BY FS_Subset, FS_CardinalityType
<1>2. ASSUME Bad # {} PROVE FALSE
  <2>1. Cards \in SUBSET Nat /\ Cards # {}
    BY <1>1, <1>2
  <2>2. PICK n \in Cards : \A m \in Cards : n <= m
    BY <2>1, LeastNumber
  <2>3. PICK s \in Bad : n = Cardinality(s)
    BY <2>2
  <2>4. PICK x \in s : TRUE
    BY <2>3, SumEmpty
  <2>5. SumFunctionOnSet(f, s) = f[x] + SumFunctionOnSet(f, s \ {x})
    BY <1>1, <2>3, SumWithout
  <2>6. Cardinality(s \ {x}) = n - 1 /\ s \ {x} \in SUBSET S
    BY <1>1, <2>3, FS_RemoveElement
  <2>7. s \ {x} \notin Bad
    <3>1. n \in Nat /\ ~ (n <= n - 1)
      BY <2>1, <2>2
    <3> QED
      BY <3>1, <2>6, <2>2
  <2> QED
    BY <2>3, <2>5, <2>6, <2>7
<1> QED
  BY <1>2

\* A sum of n numbers that are c or more is n * c or more.
THEOREM SumAtLeast ==
  ASSUME NEW f, NEW S, IsFiniteSet(S), NEW c \in Nat, \A x \in S : f[x] \in Nat /\ f[x] >= c
  PROVE  SumFunctionOnSet(f, S) >= Cardinality(S) * c
<1> DEFINE Bad == {s \in SUBSET S : ~ (SumFunctionOnSet(f, s) >= Cardinality(s) * c)}
           Cards == {Cardinality(s) : s \in Bad}
<1>1. \A s \in SUBSET S : IsFiniteSet(s) /\ Cardinality(s) \in Nat
  BY FS_Subset, FS_CardinalityType
<1>2. ASSUME Bad # {} PROVE FALSE
  <2>1. Cards \in SUBSET Nat /\ Cards # {}
    BY <1>1, <1>2
  <2>2. PICK n \in Cards : \A m \in Cards : n <= m
    BY <2>1, LeastNumber
  <2>3. PICK s \in Bad : n = Cardinality(s)
    BY <2>2
  <2>4. PICK x \in s : TRUE
    <3>1. SumFunctionOnSet(f, {}) = 0 /\ Cardinality({}) = 0
      BY SumEmpty, FS_EmptySet
    <3>2. 0 >= 0 * c
      OBVIOUS
    <3>3. s # {}
      BY <2>3, <3>1, <3>2
    <3> QED
      BY <3>3
  <2>5. /\ SumFunctionOnSet(f, s) = f[x] + SumFunctionOnSet(f, s \ {x})
        /\ SumFunctionOnSet(f, s \ {x}) \in Nat /\ f[x] \in Nat /\ f[x] >= c
    BY <1>1, <2>3, SumWithout, SumNat
  <2>6. Cardinality(s \ {x}) = n - 1 /\ s \ {x} \in SUBSET S
    BY <1>1, <2>3, FS_RemoveElement
  <2>7. s \ {x} \notin Bad
    <3>1. n \in Nat /\ ~ (n <= n - 1)
      BY <2>1, <2>2
    <3> QED
      BY <3>1, <2>6, <2>2
  <2>8. SumFunctionOnSet(f, s \ {x}) >= (n - 1) * c
    BY <2>6, <2>7
  <2>9. n \in Nat /\ (n - 1) * c + c = n * c
    BY <2>1, <2>2
  <2>10. SumFunctionOnSet(f, s) >= n * c
    <3>1. PICK y, z, k, l : y = SumFunctionOnSet(f, s) /\ z = SumFunctionOnSet(f, s \ {x})
                            /\ k = (n - 1) * c /\ l = n * c
      OBVIOUS
    <3>2. k \in Int /\ l \in Int
      BY <2>9, <3>1
    <3> QED
      BY <2>5, <2>8, <2>9, <3>1, <3>2
  <2> QED
    BY <2>3, <2>10
<1> QED
  BY <1>2

\* Of two sums the one of the smaller numbers is the smaller one.
THEOREM SumMonotone ==
  ASSUME NEW f, NEW e, NEW S, IsFiniteSet(S),
         \A x \in S : f[x] \in Int /\ e[x] \in Int /\ f[x] <= e[x]
  PROVE  SumFunctionOnSet(f, S) <= SumFunctionOnSet(e, S)
<1> DEFINE Bad == {s \in SUBSET S : ~ (SumFunctionOnSet(f, s) <= SumFunctionOnSet(e, s))}
           Cards == {Cardinality(s) : s \in Bad}
<1>1. \A s \in SUBSET S : IsFiniteSet(s) /\ Cardinality(s) \in Nat
  BY FS_Subset, FS_CardinalityType
<1>2. ASSUME Bad # {} PROVE FALSE
  <2>1. Cards \in SUBSET Nat /\ Cards # {}
    BY <1>1, <1>2
  <2>2. PICK n \in Cards : \A m \in Cards : n <= m
    BY <2>1, LeastNumber
  <2>3. PICK s \in Bad : n = Cardinality(s)
    BY <2>2
  <2>4. PICK x \in s : TRUE
    BY <2>3, SumEmpty
  <2>5. /\ SumFunctionOnSet(f, s) = f[x] + SumFunctionOnSet(f, s \ {x})
        /\ SumFunctionOnSet(e, s) = e[x] + SumFunctionOnSet(e, s \ {x})
        /\ SumFunctionOnSet(f, s \ {x}) \in Int /\ SumFunctionOnSet(e, s \ {x}) \in Int
        /\ f[x] \in Int /\ e[x] \in Int /\ f[x] <= e[x]
    BY <1>1, <2>3, SumWithout, SumType
  <2>6. Cardinality(s \ {x}) = n - 1 /\ s \ {x} \in SUBSET S
    BY <1>1, <2>3, FS_RemoveElement
  <2>7. s \ {x} \notin Bad
    <3>1. n \in Nat /\ ~ (n <= n - 1)
      BY <2>1, <2>2
    <3> QED
      BY <3>1, <2>6, <2>2
  <2>8. SumFunctionOnSet(f, s \ {x}) <= SumFunctionOnSet(e, s \ {x})
    BY <2>6, <2>7
  <2> QED
    BY <2>3, <2>5, <2>8
<1> QED
  BY <1>2
=============================================================================
