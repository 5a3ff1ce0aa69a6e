------------------------------ MODULE Lemmas ------------------------------
(***************************************************************************)
(* Lemmas that several components need: induction over the natural numbers   *)
(* in the form the provers can use, about a set of numbers instead of a       *)
(* predicate, upwards and downwards on an interval too; the list that is left *)
(* when one entry is taken out; and sums over finite sets.                   *)
(***************************************************************************)
EXTENDS Integers, SequencesExt, FiniteSetTheorems, SequenceTheorems, TLAPS

(* Induction: a set with 0 and every successor of its members has them all.   *)
(* Were m missing, n |-> n + 1 would map a finite set into itself without 0.   *)
LEMMA SetInduction ==
  ASSUME NEW S, 0 \in S, \A n \in Nat : n \in S => n + 1 \in S
  PROVE  Nat \subseteq S
<1>1. SUFFICES ASSUME NEW m \in Nat, m \notin S PROVE FALSE
  OBVIOUS
<1> DEFINE A == {n \in 0..m : n \in S}
           shift == [n \in A |-> n + 1]
<1>2. IsFiniteSet(A) /\ 0 \in A
  <2>1. IsFiniteSet(0..m)
    BY FS_Interval
  <2>2. A \in SUBSET (0..m) /\ 0 \in A
    OBVIOUS
  <2> QED
    BY <2>1, <2>2, FS_Subset
<1>3. /\ IsFiniteSet(A \ {0})
      /\ Cardinality(A \ {0}) = Cardinality(A) - 1
  BY <1>2, FS_RemoveElement
<1>4. shift \in Injection(A, A \ {0})
  BY <1>1 DEF Injection, IsInjective
<1>5. Cardinality(A) <= Cardinality(A \ {0})
  BY <1>3, <1>4, FS_Injection
<1> QED
  BY <1>2, <1>3, <1>5, FS_CardinalityType

LEMMA UpTo == ASSUME NEW m \in Nat PROVE IsFiniteSet(1..m) /\ Cardinality(1..m) = m
<1>1. 1 \in Int /\ m \in Int
  OBVIOUS
<1> QED
  BY <1>1, FS_Interval

(* Every set of numbers that has one has a least one.                         *)
LEMMA LeastExists ==
  ASSUME NEW S \in SUBSET Nat, S # {}
  PROVE  \E m \in S : \A n \in S : m <= n
<1>1. SUFFICES ASSUME \A m \in S : \E n \in S : ~(m <= n) PROVE FALSE
  OBVIOUS
<1> DEFINE Below == {n \in Nat : \A k \in S : n <= k}
<1>2. 0 \in Below
  OBVIOUS
<1>3. ASSUME NEW n \in Nat, n \in Below PROVE n + 1 \in Below
  BY <1>1, <1>3
<1>4. Nat \subseteq Below
  <2> HIDE DEF Below
  <2> QED  BY <1>2, <1>3, SetInduction
<1>5. PICK s \in S : TRUE
  OBVIOUS
<1>6. s + 1 \in Below
  BY <1>4
<1> QED
  BY <1>6

(* Every set of numbers up to a bound that has one has a greatest one.             *)
LEMMA GreatestExists ==
  ASSUME NEW n \in Nat, NEW S \in SUBSET (1..n), S # {}
  PROVE  \E m \in S : \A k \in S : k <= m
<1> DEFINE Over == {b \in Nat : \A k \in S : k <= b}
<1>1. Over \in SUBSET Nat /\ n \in Over
  OBVIOUS
<1>2. PICK b \in Over : \A c \in Over : b <= c
  <2> HIDE DEF Over
  <2> QED  BY <1>1, LeastExists
<1>3. b \in S
  <2> SUFFICES ASSUME b \notin S PROVE FALSE
    OBVIOUS
  <2>1. PICK s \in S : TRUE
    OBVIOUS
  <2>2. b - 1 \in Nat /\ \A k \in S : k <= b - 1
    BY <2>1
  <2>3. b - 1 \in Over
    BY <2>2
  <2> QED
    BY <1>2, <2>3
<1> QED
  BY <1>3

(* ... and induction over an interval, from either end.                        *)
LEMMA Upward ==
  ASSUME NEW n \in Nat, NEW P, \A i \in 1..n : (\A j \in 1..(i - 1) : j \in P) => i \in P
  PROVE  \A i \in 1..n : i \in P
<1> DEFINE Done == {k \in Nat : \A i \in 1..n : i <= k => i \in P}
<1>1. 0 \in Done
  OBVIOUS
<1>2. ASSUME NEW k \in Nat, k \in Done PROVE k + 1 \in Done
  <2> SUFFICES ASSUME NEW i \in 1..n, i <= k + 1 PROVE i \in P
    OBVIOUS
  <2>1. \A j \in 1..(i - 1) : j \in 1..n /\ j <= k
    OBVIOUS
  <2>2. \A j \in 1..(i - 1) : j \in P
    BY <1>2, <2>1
  <2> QED
    BY <2>2
<1>3. n \in Done
  <2> HIDE DEF Done
  <2> QED  BY <1>1, <1>2, SetInduction
<1> QED
  BY <1>3

LEMMA Downward ==
  ASSUME NEW n \in Nat, NEW P, \A i \in 1..n : (\A j \in (i + 1)..n : j \in P) => i \in P
  PROVE  \A i \in 1..n : i \in P
<1> DEFINE Done == {k \in Nat : \A i \in 1..n : i > n - k => i \in P}
<1>1. 0 \in Done
  OBVIOUS
<1>2. ASSUME NEW k \in Nat, k \in Done PROVE k + 1 \in Done
  <2> SUFFICES ASSUME NEW i \in 1..n, i > n - (k + 1) PROVE i \in P
    OBVIOUS
  <2>1. \A j \in (i + 1)..n : j \in 1..n /\ j > n - k
    OBVIOUS
  <2>2. \A j \in (i + 1)..n : j \in P
    BY <1>2, <2>1
  <2> QED
    BY <2>2
<1>3. n \in Done
  <2> HIDE DEF Done
  <2> QED  BY <1>1, <1>2, SetInduction
<1>4. \A i \in 1..n : i > n - n
  OBVIOUS
<1> QED
  BY <1>3, <1>4

----------------------------------------------------------------------------
(* Taking the entry at k out of a list that has it nowhere before k.           *)
LEMMA RemovesOne ==
  ASSUME NEW S, NEW s \in Seq(S), NEW k \in 1..Len(s), \A i \in 1..(k - 1) : s[i] # s[k]
  PROVE  LET r == RemoveFirst(s, s[k])
         IN  /\ r \in Seq(S) /\ Len(r) = Len(s) - 1
             /\ \A i \in 1..(Len(s) - 1) : r[i] = IF i < k THEN s[i] ELSE s[i + 1]
<1> DEFINE t == s[k]
           I == {i \in 1..Len(s) : s[i] = t}
           m == Min(I)
           r == SubSeq(s, 1, m - 1) \o SubSeq(s, m + 1, Len(s))
<1>1. I # {} /\ I \subseteq Nat /\ k \in I /\ \A i \in I : k <= i
  OBVIOUS
<1>2. m = k
  <2> HIDE DEF I
  <2>1. \E i \in I : \A j \in I : i <= j
    BY <1>1
  <2>2. m \in I /\ \A j \in I : m <= j
    BY <2>1 DEF Min
  <2> HIDE DEF m
  <2>3. m \in Nat /\ k \in Nat /\ m <= k /\ k <= m
    BY <1>1, <2>2
  <2> QED
    BY <2>3
<1>3. SelectInSeq(s, LAMBDA v : v = t) = m
  BY <1>1 DEF SelectInSeq
<1>4. RemoveFirst(s, t) = r
  BY <1>3 DEF RemoveFirst, RemoveAt
<1> HIDE DEF m, I, t
<1> DEFINE a == SubSeq(s, 1, m - 1)
           b == SubSeq(s, m + 1, Len(s))
<1>5. /\ a \in Seq(S) /\ Len(a) = m - 1 /\ \A i \in 1..(m - 1) : a[i] = s[i]
      /\ b \in Seq(S) /\ Len(b) = Len(s) - m /\ \A i \in 1..(Len(s) - m) : b[i] = s[m + i]
  BY <1>2
<1>6. r = a \o b
  OBVIOUS
<1> HIDE DEF a, b, r
<1>7. /\ r \in Seq(S) /\ Len(r) = Len(a) + Len(b)
      /\ \A i \in 1..(Len(a) + Len(b)) : r[i] = IF i <= Len(a) THEN a[i] ELSE b[i - Len(a)]
  BY <1>5, <1>6, ConcatProperties
<1>8. ASSUME NEW i \in 1..(Len(s) - 1) PROVE r[i] = IF i < k THEN s[i] ELSE s[i + 1]
  <2>1. CASE i < k
    <3>1. i \in 1..(m - 1) /\ i <= Len(a) /\ i \in 1..(Len(a) + Len(b))
      BY <1>2, <1>5, <2>1
    <3> QED
      BY <1>5, <1>7, <2>1, <3>1
  <2>2. CASE ~(i < k)
    <3>1. /\ ~(i <= Len(a)) /\ i \in 1..(Len(a) + Len(b))
          /\ i - Len(a) \in 1..(Len(s) - m) /\ m + (i - Len(a)) = i + 1
      BY <1>2, <1>5, <2>2
    <3> QED
      BY <1>5, <1>7, <2>2, <3>1
  <2> QED
    BY <2>1, <2>2
<1>9. Len(r) = Len(s) - 1
  BY <1>2, <1>5, <1>7
<1> QED
  BY <1>4, <1>7, <1>8, <1>9 DEF t

----------------------------------------------------------------------------
(* Sums over finite sets.  A step of the sum, and its recursive function.      *)
Summed(f, g, s) ==
  IF s = {} THEN 0 ELSE LET x == CHOOSE x \in s : TRUE IN f[x] + g[s \ {x}]

Sums(f, S) == CHOOSE sum : sum = [s \in SUBSET S |-> Summed(f, sum, s)]

(* Of the sets of S those with n members; S is finite when it has them all.    *)
LEMMA Smaller ==
  ASSUME NEW S, IsFiniteSet(S), NEW s \in SUBSET S
  PROVE  /\ IsFiniteSet(s) /\ Cardinality(s) \in Nat /\ Cardinality(s) <= Cardinality(S)
         /\ \A x \in s : s \ {x} \in SUBSET S /\ Cardinality(s \ {x}) = Cardinality(s) - 1
         /\ Cardinality(s) = 0 <=> s = {}
<1>1. IsFiniteSet(s) /\ Cardinality(s) <= Cardinality(S)
  BY FS_Subset
<1>2. Cardinality(s) \in Nat
  BY <1>1, FS_CardinalityType
<1>3. \A x \in s : Cardinality(s \ {x}) = Cardinality(s) - 1
  BY <1>1, FS_RemoveElement
<1>4. Cardinality(s) = 0 <=> s = {}
  BY <1>1, FS_EmptySet
<1> QED
  BY <1>1, <1>2, <1>3, <1>4

LEMMA SumsUnfold ==
  ASSUME NEW f, NEW S, IsFiniteSet(S)
  PROVE  \A s \in SUBSET S : Sums(f, S)[s] = Summed(f, Sums(f, S), s)
<1> DEFINE Sized(n) == {s \in SUBSET S : Cardinality(s) <= n}
           Solves(g, n) == \A s \in Sized(n) : g[s] = Summed(f, g, s)
           Solved == {n \in Nat : \E g : Solves(g, n)}
<1>l. ASSUME NEW s \in SUBSET S, NEW g, NEW h, 
             \A r \in SUBSET S : Cardinality(r) < Cardinality(s) => g[r] = h[r]
      PROVE  Summed(f, g, s) = Summed(f, h, s)
  <2>1. CASE s = {}
    BY <2>1 DEF Summed
  <2>2. CASE s # {}
    <3> DEFINE x == CHOOSE x \in s : TRUE
    <3>1. x \in s
      BY <2>2
    <3> HIDE DEF x
    <3>2. s \ {x} \in SUBSET S /\ Cardinality(s \ {x}) < Cardinality(s)
      BY <3>1, Smaller
    <3>3. g[s \ {x}] = h[s \ {x}]
      BY <1>l, <3>2
    <3> QED
      BY <2>2, <3>3 DEF Summed, x
  <2> QED
    BY <2>1, <2>2
<1>1. 0 \in Solved
  <2> DEFINE g == [s \in SUBSET S |-> 0]
  <2>1. ASSUME NEW s \in Sized(0) PROVE g[s] = Summed(f, g, s)
    <3>1. s = {}
      BY Smaller
    <3> QED
      BY <3>1 DEF Summed
  <2> QED
    BY <2>1
<1>2. ASSUME NEW n \in Nat, n \in Solved PROVE n + 1 \in Solved
  <2>1. PICK g : Solves(g, n)
    BY <1>2
  <2> DEFINE h == [s \in SUBSET S |-> IF Cardinality(s) <= n THEN g[s] ELSE Summed(f, g, s)]
  <2>2. \A s \in SUBSET S : h[s] = IF Cardinality(s) <= n THEN g[s] ELSE Summed(f, g, s)
    <3> HIDE DEF Solves
    <3> QED  OBVIOUS
  <2> HIDE DEF h
  <2>3. ASSUME NEW s \in Sized(n + 1) PROVE h[s] = Summed(f, h, s)
    <3>1. \A r \in SUBSET S : Cardinality(r) < Cardinality(s) => g[r] = h[r]
      <4> SUFFICES ASSUME NEW r \in SUBSET S, Cardinality(r) < Cardinality(s) PROVE g[r] = h[r]
        OBVIOUS
      <4>1. Cardinality(r) \in Nat /\ Cardinality(s) \in Nat
        BY Smaller
      <4> HIDE DEF Solves
      <4> QED
        BY <2>2, <4>1
    <3>2. s \in SUBSET S
      OBVIOUS
    <3>3. Summed(f, g, s) = Summed(f, h, s)
      <4> HIDE DEF Solves, Sized
      <4> QED  BY <1>l, <3>1, <3>2
    <3>4. h[s] = Summed(f, g, s)
      BY <2>1, <2>2
    <3> QED
      BY <3>3, <3>4
  <2> QED
    BY <2>3
<1>3. Cardinality(S) \in Nat /\ SUBSET S = Sized(Cardinality(S))
  BY Smaller
<1>4. Cardinality(S) \in Solved
  <2> HIDE DEF Solved
  <2> QED  BY <1>1, <1>2, <1>3, SetInduction
<1>5. PICK g : Solves(g, Cardinality(S))
  BY <1>4
<1> DEFINE h == [s \in SUBSET S |-> g[s]]
<1>6. \A s \in SUBSET S : h[s] = Summed(f, h, s)
  <2> SUFFICES ASSUME NEW s \in SUBSET S PROVE h[s] = Summed(f, h, s)
    OBVIOUS
  <2>1. g[s] = Summed(f, g, s)
    BY <1>3, <1>5
  <2>2. \A r \in SUBSET S : g[r] = h[r]
    OBVIOUS
  <2> HIDE DEF h, Solves
  <2>3. Summed(f, g, s) = Summed(f, h, s)
    BY <1>l, <2>2
  <2> QED
    BY <2>1, <2>3 DEF h
<1>7. h = [s \in SUBSET S |-> Summed(f, h, s)]
  <2>1. \A s \in SUBSET S : h[s] = Summed(f, h, s)
    BY <1>6
  <2> QED
    BY <2>1
<1> HIDE DEF h, Solves, Solved
<1>8. Sums(f, S) = [s \in SUBSET S |-> Summed(f, Sums(f, S), s)]
  BY <1>7 DEF Sums
<1> QED
  BY <1>8

LEMMA SumIsSums == ASSUME NEW f, NEW S PROVE SumFunctionOnSet(f, S) = Sums(f, S)[S]
BY DEF SumFunctionOnSet, FoldFunctionOnSet, MapThenFoldSet, Sums, Summed

(* What is summed depends on the terms only, not on the set they come from.    *)
LEMMA SumsAgree ==
  ASSUME NEW f, NEW g, NEW S, IsFiniteSet(S), NEW T, IsFiniteSet(T), T \subseteq S,
         \A i \in T : f[i] = g[i]
  PROVE  Sums(f, S)[T] = Sums(g, T)[T]
<1> DEFINE Agree == {n \in Nat : \A s \in SUBSET T : Cardinality(s) = n
                                   => Sums(f, S)[s] = Sums(g, T)[s]}
<1>1. \A s \in SUBSET T : /\ Sums(f, S)[s] = Summed(f, Sums(f, S), s)
                          /\ Sums(g, T)[s] = Summed(g, Sums(g, T), s)
  BY SumsUnfold
<1>2. 0 \in Agree
  <2> SUFFICES ASSUME NEW s \in SUBSET T, Cardinality(s) = 0
               PROVE  Sums(f, S)[s] = Sums(g, T)[s]
    OBVIOUS
  <2>1. s = {}
    BY Smaller
  <2> QED
    BY <1>1, <2>1 DEF Summed
<1>3. ASSUME NEW n \in Nat, n \in Agree PROVE n + 1 \in Agree
  <2> SUFFICES ASSUME NEW s \in SUBSET T, Cardinality(s) = n + 1
               PROVE  Sums(f, S)[s] = Sums(g, T)[s]
    OBVIOUS
  <2> DEFINE x == CHOOSE x \in s : TRUE
  <2>1. s # {}
    BY Smaller
  <2>2. x \in s
    BY <2>1
  <2>3. Sums(f, S)[s] = f[x] + Sums(f, S)[s \ {x}] /\ Sums(g, T)[s] = g[x] + Sums(g, T)[s \ {x}]
    BY <1>1, <2>1 DEF Summed
  <2> HIDE DEF x
  <2>4. s \ {x} \in SUBSET T /\ Cardinality(s \ {x}) = n
    BY <2>2, Smaller
  <2>5. Sums(f, S)[s \ {x}] = Sums(g, T)[s \ {x}]
    BY <1>3, <2>4
  <2> QED
    BY <2>2, <2>3, <2>5
<1>4. Cardinality(T) \in Agree
  <2>1. Cardinality(T) \in Nat
    BY FS_CardinalityType
  <2> HIDE DEF Agree
  <2> QED
    BY <1>2, <1>3, <2>1, SetInduction
<1> QED
  BY <1>4

LEMMA SumSame ==
  ASSUME NEW f, NEW g, NEW S, IsFiniteSet(S), \A i \in S : f[i] = g[i]
  PROVE  SumFunctionOnSet(f, S) = SumFunctionOnSet(g, S)
BY SumIsSums, SumsAgree

LEMMA SumChosen ==
  ASSUME NEW f, NEW S, IsFiniteSet(S), S # {}
  PROVE  \E x \in S : SumFunctionOnSet(f, S) = f[x] + SumFunctionOnSet(f, S \ {x})
<1> DEFINE x == CHOOSE x \in S : TRUE
<1>1. x \in S
  OBVIOUS
<1>2. Sums(f, S)[S] = f[x] + Sums(f, S)[S \ {x}]
  BY SumsUnfold DEF Summed
<1> HIDE DEF x
<1>3. IsFiniteSet(S \ {x}) /\ S \ {x} \subseteq S
  BY FS_RemoveElement
<1>4. Sums(f, S)[S \ {x}] = Sums(f, S \ {x})[S \ {x}]
  BY <1>3, SumsAgree
<1> QED
  BY <1>1, <1>2, <1>4, SumIsSums

LEMMA SumEmpty == ASSUME NEW f PROVE SumFunctionOnSet(f, {}) = 0
<1>1. Sums(f, {})[{}] = Summed(f, Sums(f, {}), {})
  BY SumsUnfold, FS_EmptySet
<1> QED
  BY <1>1, SumIsSums DEF Summed

(* Numbers add up to a number, natural ones to a natural one.                  *)
LEMMA SumType ==
  ASSUME NEW f, NEW S, IsFiniteSet(S), \A i \in S : f[i] \in Int
  PROVE  /\ SumFunctionOnSet(f, S) \in Int
         /\ (\A i \in S : f[i] \in Nat) => SumFunctionOnSet(f, S) \in Nat
<1> DEFINE Sum(s) == SumFunctionOnSet(f, s)
           Good(s) == Sum(s) \in Int /\ ((\A i \in s : f[i] \in Nat) => Sum(s) \in Nat)
           Typed == {n \in Nat : \A s \in SUBSET S : Cardinality(s) = n => Good(s)}
<1>1. 0 \in Typed
  <2> SUFFICES ASSUME NEW s \in SUBSET S, Cardinality(s) = 0 PROVE Good(s)
    OBVIOUS
  <2>1. s = {}
    BY Smaller
  <2> QED
    BY <2>1, SumEmpty
<1>2. ASSUME NEW n \in Nat, n \in Typed PROVE n + 1 \in Typed
  <2> SUFFICES ASSUME NEW s \in SUBSET S, Cardinality(s) = n + 1 PROVE Good(s)
    OBVIOUS
  <2>1. IsFiniteSet(s) /\ s # {}
    BY Smaller
  <2>2. PICK x \in s : Sum(s) = f[x] + Sum(s \ {x})
    BY <2>1, SumChosen
  <2>3. s \ {x} \in SUBSET S /\ Cardinality(s \ {x}) = n
    BY Smaller
  <2>4. Good(s \ {x})
    BY <1>2, <2>3
  <2>5. f[x] \in Int /\ ((\A i \in s : f[i] \in Nat) => \A i \in s \ {x} : f[i] \in Nat)
    OBVIOUS
  <2> HIDE DEF Sum
  <2> QED
    BY <2>2, <2>4, <2>5
<1>3. Cardinality(S) \in Typed
  <2>1. Cardinality(S) \in Nat
    BY FS_CardinalityType
  <2> HIDE DEF Typed
  <2> QED
    BY <1>1, <1>2, <2>1, SetInduction
<1>4. Good(S)
  <2> HIDE DEF Good
  <2> QED  BY <1>3
<1> QED
  BY <1>4

(* Any term can be taken out first.                                           *)
LEMMA SumWithout ==
  ASSUME NEW f, NEW S, IsFiniteSet(S), \A i \in S : f[i] \in Int, NEW y \in S
  PROVE  SumFunctionOnSet(f, S) = f[y] + SumFunctionOnSet(f, S \ {y})
<1> DEFINE Sum(s) == SumFunctionOnSet(f, s)
           Whole == {n \in Nat : \A s \in SUBSET S : Cardinality(s) = n
                     => \A z \in s : Sum(s) = f[z] + Sum(s \ {z})}
<1>1. 0 \in Whole
  <2> SUFFICES ASSUME NEW s \in SUBSET S, Cardinality(s) = 0, NEW z \in s PROVE FALSE
    OBVIOUS
  <2> QED
    BY Smaller
<1>2. ASSUME NEW n \in Nat, n \in Whole PROVE n + 1 \in Whole
  <2> SUFFICES ASSUME NEW s \in SUBSET S, Cardinality(s) = n + 1, NEW z \in s
               PROVE  Sum(s) = f[z] + Sum(s \ {z})
    OBVIOUS
  <2>1. IsFiniteSet(s) /\ s # {}
    BY Smaller
  <2>2. PICK x \in s : Sum(s) = f[x] + Sum(s \ {x})
    BY <2>1, SumChosen
  <2>3. CASE x = z
    BY <2>2, <2>3
  <2>4. CASE x # z
    <3> DEFINE r == (s \ {x}) \ {z}
    <3>1. /\ s \ {x} \in SUBSET S /\ Cardinality(s \ {x}) = n
          /\ s \ {z} \in SUBSET S /\ Cardinality(s \ {z}) = n
      BY Smaller
    <3>2. r = (s \ {z}) \ {x}
      OBVIOUS
    <3>3. Sum(s \ {x}) = f[z] + Sum(r)
      BY <1>2, <2>4, <3>1
    <3>4. Sum(s \ {z}) = f[x] + Sum(r)
      BY <1>2, <2>4, <3>1, <3>2
    <3>5. Sum(r) \in Int /\ f[x] \in Int /\ f[z] \in Int
      <4>1. IsFiniteSet(r)
        BY <2>1, FS_RemoveElement
      <4>2. \A i \in r : f[i] \in Int
        OBVIOUS
      <4> HIDE DEF r
      <4>3. Sum(r) \in Int
        BY <4>1, <4>2, SumType
      <4> QED
        BY <4>3
    <3> HIDE DEF Sum, r
    <3> QED
      BY <2>2, <3>3, <3>4, <3>5
  <2> QED
    BY <2>3, <2>4
<1>3. Cardinality(S) \in Whole
  <2>1. Cardinality(S) \in Nat
    BY FS_CardinalityType
  <2> HIDE DEF Whole
  <2> QED
    BY <1>1, <1>2, <2>1, SetInduction
<1> QED
  BY <1>3

LEMMA SumOne ==
  ASSUME NEW f, NEW x, f[x] \in Int PROVE SumFunctionOnSet(f, {x}) = f[x]
<1>1. IsFiniteSet({x}) /\ {x} \ {x} = {} /\ x \in {x} /\ \A i \in {x} : f[i] \in Int
  BY FS_Singleton
<1>2. SumFunctionOnSet(f, {x}) = f[x] + SumFunctionOnSet(f, {x} \ {x})
  BY <1>1, SumWithout
<1> QED
  BY <1>1, <1>2, SumEmpty

(* What two sets that have nothing in common add up to.                        *)
LEMMA SumUnion ==
  ASSUME NEW f, NEW S, IsFiniteSet(S), NEW T, IsFiniteSet(T), S \cap T = {},
         \A i \in S \cup T : f[i] \in Int
  PROVE  SumFunctionOnSet(f, S \cup T) = SumFunctionOnSet(f, S) + SumFunctionOnSet(f, T)
<1> DEFINE Sum(s) == SumFunctionOnSet(f, s)
           Adds == {n \in Nat : \A s \in SUBSET S : Cardinality(s) = n
                      => Sum(s \cup T) = Sum(s) + Sum(T)}
<1>t. \A s \in SUBSET S : /\ IsFiniteSet(s \cup T) /\ IsFiniteSet(s)
                          /\ Sum(s) \in Int /\ Sum(T) \in Int
  <2> SUFFICES ASSUME NEW s \in SUBSET S
               PROVE  /\ IsFiniteSet(s \cup T) /\ IsFiniteSet(s)
                      /\ Sum(s) \in Int /\ Sum(T) \in Int
    OBVIOUS
  <2>1. IsFiniteSet(s)
    BY FS_Subset
  <2>2. IsFiniteSet(s \cup T)
    BY <2>1, FS_Union
  <2> QED
    BY <2>1, <2>2, SumType
<1>1. 0 \in Adds
  <2> SUFFICES ASSUME NEW s \in SUBSET S, Cardinality(s) = 0
               PROVE  Sum(s \cup T) = Sum(s) + Sum(T)
    OBVIOUS
  <2>1. s = {} /\ s \cup T = T
    BY Smaller
  <2>2. Sum(s) = 0
    BY <2>1, SumEmpty
  <2> HIDE DEF Sum
  <2> QED
    BY <1>t, <2>1, <2>2
<1>2. ASSUME NEW n \in Nat, n \in Adds PROVE n + 1 \in Adds
  <2> SUFFICES ASSUME NEW s \in SUBSET S, Cardinality(s) = n + 1
               PROVE  Sum(s \cup T) = Sum(s) + Sum(T)
    OBVIOUS
  <2>1. PICK x : x \in s
    BY Smaller
  <2>2. s \ {x} \in SUBSET S /\ Cardinality(s \ {x}) = n /\ (s \cup T) \ {x} = (s \ {x}) \cup T
    BY <2>1, Smaller
  <2>3. Sum((s \ {x}) \cup T) = Sum(s \ {x}) + Sum(T)
    BY <1>2, <2>2
  <2>4. Sum(s) = f[x] + Sum(s \ {x})
    <3>1. IsFiniteSet(s) /\ \A i \in s : f[i] \in Int
      BY <1>t
    <3> QED
      BY <2>1, <3>1, SumWithout
  <2>5. Sum(s \cup T) = f[x] + Sum((s \cup T) \ {x})
    <3>1. IsFiniteSet(s \cup T) /\ x \in s \cup T /\ \A i \in s \cup T : f[i] \in Int
      BY <1>t, <2>1
    <3> QED
      BY <3>1, SumWithout
  <2>6. f[x] \in Int /\ Sum(s \ {x}) \in Int /\ Sum(T) \in Int
    BY <1>t, <2>1, <2>2
  <2>7. Sum((s \cup T) \ {x}) = Sum((s \ {x}) \cup T)
    BY <2>2
  <2> HIDE DEF Sum
  <2> QED
    BY <2>3, <2>4, <2>5, <2>6, <2>7
<1>3. Cardinality(S) \in Adds
  <2>1. Cardinality(S) \in Nat
    BY FS_CardinalityType
  <2> HIDE DEF Adds
  <2> QED
    BY <1>1, <1>2, <2>1, SetInduction
<1> QED
  BY <1>3

(* ... and the sets B[k] of a family of which no two have anything in common:  *)
(* W is all of them together, h[k] what f adds up to over B[k].               *)
Family(f, K, B, h, W) ==
  /\ IsFiniteSet(K)
  /\ \A k \in K : /\ IsFiniteSet(B[k]) /\ h[k] = SumFunctionOnSet(f, B[k])
                   /\ \A i \in B[k] : f[i] \in Int
  /\ \A k, l \in K : k # l => B[k] \cap B[l] = {}
  /\ \A x : x \in W <=> \E k \in K : x \in B[k]

LEMMA SumFamily ==
  ASSUME NEW f, NEW K, NEW B, NEW h, NEW W, Family(f, K, B, h, W)
  PROVE  IsFiniteSet(W) /\ SumFunctionOnSet(f, W) = SumFunctionOnSet(h, K)
<1> DEFINE Sum(s) == SumFunctionOnSet(f, s)
           U(s) == UNION {B[k] : k \in s}
           Adds == {n \in Nat : \A s \in SUBSET K : Cardinality(s) = n
                      => IsFiniteSet(U(s)) /\ Sum(U(s)) = SumFunctionOnSet(h, s)}
<1>f. /\ IsFiniteSet(K)
      /\ \A k \in K : IsFiniteSet(B[k]) /\ \A i \in B[k] : f[i] \in Int
      /\ \A k \in K : h[k] = Sum(B[k])
      /\ \A k, l \in K : k # l => B[k] \cap B[l] = {}
      /\ \A x : x \in W <=> \E k \in K : x \in B[k]
  BY DEF Family
<1> USE <1>f
<1>t. \A k \in K : h[k] = Sum(B[k]) /\ h[k] \in Int
  <2> SUFFICES ASSUME NEW k \in K PROVE h[k] = Sum(B[k]) /\ h[k] \in Int
    OBVIOUS
  <2>1. Sum(B[k]) \in Int
    BY SumType
  <2>2. h[k] = Sum(B[k])
    OBVIOUS
  <2> HIDE DEF Sum
  <2> QED
    BY <2>1, <2>2
<1> HIDE DEF U
<1>1. 0 \in Adds
  <2> SUFFICES ASSUME NEW s \in SUBSET K, Cardinality(s) = 0
               PROVE  IsFiniteSet(U(s)) /\ Sum(U(s)) = SumFunctionOnSet(h, s)
    OBVIOUS
  <2>1. s = {} /\ U(s) = {}
    BY Smaller DEF U
  <2> QED
    BY <2>1, SumEmpty, FS_EmptySet
<1>2. ASSUME NEW n \in Nat, n \in Adds PROVE n + 1 \in Adds
  <2> SUFFICES ASSUME NEW s \in SUBSET K, Cardinality(s) = n + 1
               PROVE  IsFiniteSet(U(s)) /\ Sum(U(s)) = SumFunctionOnSet(h, s)
    OBVIOUS
  <2>1. IsFiniteSet(s) /\ s # {}
    BY Smaller
  <2>2. PICK x : x \in s
    BY <2>1
  <2> DEFINE r == s \ {x}
  <2>3. r \in SUBSET K /\ Cardinality(r) = n
    <3>1. Cardinality(s \ {x}) = Cardinality(s) - 1
      BY <2>2, Smaller
    <3> QED
      BY <3>1
  <2>4. IsFiniteSet(U(r)) /\ Sum(U(r)) = SumFunctionOnSet(h, r)
    BY <1>2, <2>3
  <2>5. SumFunctionOnSet(h, s) = h[x] + SumFunctionOnSet(h, r)
    <3>1. \A i \in s : h[i] \in Int
      BY <1>t
    <3> QED
      BY <2>1, <2>2, <3>1, SumWithout
  <2>6. U(s) = B[x] \cup U(r) /\ B[x] \cap U(r) = {}
    <3>1. U(s) = B[x] \cup U(r)
      BY <2>2 DEF U
    <3>2. \A k \in r : B[x] \cap B[k] = {}
      BY <2>2
    <3> QED
      BY <3>1, <3>2 DEF U
  <2>7. IsFiniteSet(B[x]) /\ \A i \in B[x] \cup U(r) : f[i] \in Int
    BY <2>2, <2>3 DEF U
  <2> HIDE DEF r
  <2>8. Sum(B[x] \cup U(r)) = Sum(B[x]) + Sum(U(r))
    BY <2>4, <2>6, <2>7, SumUnion
  <2>9. IsFiniteSet(U(s))
    <3>1. IsFiniteSet(B[x] \cup U(r))
      BY <2>4, <2>7, FS_Union
    <3> QED
      BY <2>6, <3>1
  <2> HIDE DEF Sum
  <2> QED
    BY <1>t, <2>2, <2>4, <2>5, <2>6, <2>8, <2>9
<1>3. Cardinality(K) \in Adds
  <2>1. Cardinality(K) \in Nat
    BY FS_CardinalityType
  <2> HIDE DEF Adds
  <2> QED
    BY <1>1, <1>2, <2>1, SetInduction
<1>4. IsFiniteSet(U(K)) /\ Sum(U(K)) = SumFunctionOnSet(h, K)
  <2> HIDE DEF Sum
  <2> QED  BY <1>3
<1>5. U(K) = W
  BY DEF U
<1> QED
  BY <1>4, <1>5

(* Terms that are no larger do not add up to more.                             *)
LEMMA SumMonotone ==
  ASSUME NEW f, NEW g, NEW S, IsFiniteSet(S),
         \A i \in S : f[i] \in Int /\ g[i] \in Int /\ f[i] <= g[i]
  PROVE  SumFunctionOnSet(f, S) <= SumFunctionOnSet(g, S)
<1> DEFINE F(s) == SumFunctionOnSet(f, s)
           G(s) == SumFunctionOnSet(g, s)
           Below == {n \in Nat : \A s \in SUBSET S : Cardinality(s) = n => F(s) <= G(s)}
<1>1. 0 \in Below
  <2> SUFFICES ASSUME NEW s \in SUBSET S, Cardinality(s) = 0 PROVE F(s) <= G(s)
    OBVIOUS
  <2>1. s = {}
    BY Smaller
  <2>2. F(s) = 0 /\ G(s) = 0
    BY <2>1, SumEmpty
  <2> QED
    BY <2>2
<1>2. ASSUME NEW n \in Nat, n \in Below PROVE n + 1 \in Below
  <2> SUFFICES ASSUME NEW s \in SUBSET S, Cardinality(s) = n + 1 PROVE F(s) <= G(s)
    OBVIOUS
  <2>1. PICK x : x \in s
    BY Smaller
  <2>2. IsFiniteSet(s) /\ s \ {x} \in SUBSET S /\ Cardinality(s \ {x}) = n /\ IsFiniteSet(s \ {x})
    BY <2>1, Smaller
  <2>3. F(s \ {x}) <= G(s \ {x})
    BY <1>2, <2>2
  <2>4. F(s) = f[x] + F(s \ {x}) /\ G(s) = g[x] + G(s \ {x})
    BY <2>1, <2>2, SumWithout
  <2>5. F(s \ {x}) \in Int /\ G(s \ {x}) \in Int
    BY <2>2, SumType
  <2>6. f[x] \in Int /\ g[x] \in Int /\ f[x] <= g[x]
    BY <2>1
  <2> HIDE DEF F, G
  <2> QED
    BY <2>3, <2>4, <2>5, <2>6
<1>3. Cardinality(S) \in Below
  <2>1. Cardinality(S) \in Nat
    BY FS_CardinalityType
  <2> HIDE DEF Below
  <2> QED
    BY <1>1, <1>2, <2>1, SetInduction
<1> QED
  BY <1>3

(* The sum over the first n, taken from its last term.                         *)
LEMMA SumLast ==
  ASSUME NEW f, NEW n \in Nat, n > 0, \A l \in 1..n : f[l] \in Int
  PROVE  SumFunctionOnSet(f, 1..n) = f[n] + SumFunctionOnSet(f, 1..(n - 1))
<1>1. PICK S, T : S = 1..n /\ T = 1..(n - 1)
  OBVIOUS
<1>2. n \in S /\ S \ {n} = T
  BY <1>1
<1>3. IsFiniteSet(S) /\ \A l \in S : f[l] \in Int
  BY <1>1, UpTo
<1>4. SumFunctionOnSet(f, S) = f[n] + SumFunctionOnSet(f, S \ {n})
  BY <1>2, <1>3, SumWithout
<1> QED
  BY <1>1, <1>2, <1>4

(* Making one term smaller makes the sum smaller.                              *)
LEMMA SumLess ==
  ASSUME NEW S, IsFiniteSet(S), NEW f, NEW g, NEW y \in S,
         \A i \in S : f[i] \in Int /\ g[i] \in Int,
         g[y] < f[y], \A i \in S : i # y => g[i] = f[i]
  PROVE  SumFunctionOnSet(g, S) < SumFunctionOnSet(f, S)
<1>1. PICK T : T = S \ {y}
  OBVIOUS
<1>2. IsFiniteSet(T)
  BY <1>1, FS_RemoveElement
<1>3. SumFunctionOnSet(g, T) = SumFunctionOnSet(f, T)
  BY <1>1, <1>2, SumSame
<1>4. SumFunctionOnSet(f, T) \in Int
  BY <1>1, <1>2, SumType
<1>5. /\ SumFunctionOnSet(f, S) = f[y] + SumFunctionOnSet(f, T)
      /\ SumFunctionOnSet(g, S) = g[y] + SumFunctionOnSet(g, T)
  BY <1>1, SumWithout
<1> QED
  BY <1>3, <1>4, <1>5
=============================================================================
