--------------------------- MODULE ExcludeProofs ---------------------------
(***************************************************************************)
(* The matcher of exclude.rs is right for every set of patterns and every    *)
(* path.  The invariant says which pointers a walk carries (CarriedExactly);  *)
(* the answers of `matches' follow from it.  Parsing is recursive: that it    *)
(* ends in a chain, and in the right one, takes an induction, by the lemmas   *)
(* of Lemmas.                                                                *)
(***************************************************************************)
EXTENDS Exclude, Lemmas, TLAPS

----------------------------------------------------------------------------
(* Pattern::parse.                                                          *)
Tokens == Names \cup Wild \cup {Slash}
Components == [glob : Globs, isdir : BOOLEAN]
Chains == Seq(Components) \ {<<>>}

(* The first slash from i on is there and not before i.                        *)
LEMMA FirstSlashType ==
  ASSUME NEW w \in Seq(Tokens), NEW i \in 1..(Len(w) + 1), SlashAt(w, i) # {}
  PROVE  /\ FirstSlash(w, i) \in i..Len(w)
         /\ \A r \in SlashAt(w, i) : FirstSlash(w, i) <= r
<1>1. SlashAt(w, i) \in SUBSET Nat
  BY DEF SlashAt
<1>2. \E s \in SlashAt(w, i) : \A r \in SlashAt(w, i) : s <= r
  BY <1>1, LeastExists
<1>3. /\ FirstSlash(w, i) \in SlashAt(w, i)
      /\ \A r \in SlashAt(w, i) : FirstSlash(w, i) <= r
  BY <1>2 DEF FirstSlash
<1> QED
  BY <1>3 DEF SlashAt

(* The text between two slashes is a glob.                                    *)
LEMMA FieldType ==
  ASSUME NEW w \in Seq(Tokens), NEW i \in 1..(Len(w) + 1),
         NEW j \in i..(Len(w) + 1), i < j => w[i] # Slash
  PROVE  Field(w, i, j) \in Globs
BY DEF Field, Globs, Tokens

(* The parse of a token sequence only looks at what comes after its start.     *)
LEMMA SplitLocal ==
  ASSUME NEW w \in Seq(Tokens), NEW i \in 1..(Len(w) + 1), NEW f, NEW g,
         \A j \in (i + 1)..(Len(w) + 1) : f[j] = g[j]
  PROVE  Split(w, f, i) = Split(w, g, i)
<1>1. CASE SlashAt(w, i) = {}
  BY <1>1 DEF Split
<1>2. CASE SlashAt(w, i) # {}
  <2>1. FirstSlash(w, i) + 1 \in (i + 1)..(Len(w) + 1)
    BY <1>2, FirstSlashType
  <2>2. f[FirstSlash(w, i) + 1] = g[FirstSlash(w, i) + 1]
    BY <2>1
  <2> QED
    BY <2>2 DEF Split
<1> QED
  BY <1>1, <1>2

LEMMA SplitType ==
  ASSUME NEW w \in Seq(Tokens), NEW i \in 1..(Len(w) + 1), NEW f,
         \A j \in (i + 1)..(Len(w) + 1) : f[j] \in Chains
  PROVE  Split(w, f, i) \in Chains
<1>1. CASE SlashAt(w, i) = {}
  <2>1. Field(w, i, Len(w) + 1) \in Globs
    BY <1>1, FieldType DEF SlashAt
  <2>2. Component(Field(w, i, Len(w) + 1), FALSE) \in Components
    BY <2>1 DEF Component, Components
  <2> HIDE DEF Component, Components
  <2>3. \A c \in Components : <<c>> \in Chains
    BY DEF Chains
  <2>4. Split(w, f, i) = <<Component(Field(w, i, Len(w) + 1), FALSE)>>
    BY <1>1 DEF Split
  <2> QED
    BY <2>2, <2>3, <2>4
<1>2. CASE SlashAt(w, i) # {}
  <2> DEFINE s == FirstSlash(w, i)
             c == Component(Field(w, i, s), TRUE)
  <2>1. s \in i..Len(w)
    BY <1>2, FirstSlashType
  <2>2. i < s => w[i] # Slash
    <3>1. \A r \in SlashAt(w, i) : s <= r
      BY <1>2, FirstSlashType
    <3> QED
      BY <2>1, <3>1 DEF SlashAt
  <2>3. Field(w, i, s) \in Globs
    BY <2>1, <2>2, FieldType
  <2>4. c \in Components
    BY <2>3 DEF Component, Components
  <2>5. f[s + 1] \in Chains
    BY <2>1
  <2> HIDE DEF c, s
  <2>6. <<c>> \in Chains /\ <<c>> \o f[s + 1] \in Chains
    BY <2>4, <2>5 DEF Chains
  <2> QED
    BY <1>2, <2>6 DEF Split, c, s
<1> QED
  BY <1>1, <1>2

(* The recursion of Pattern::parse has a solution: from the end of the pattern *)
(* on, k tokens at a time.                                                    *)
LEMMA ChainExists ==
  ASSUME NEW w \in Seq(Tokens)
  PROVE  \E f \in [1..(Len(w) + 1) -> Chains] :
           f = [i \in 1..(Len(w) + 1) |-> Split(w, f, i)]
<1> DEFINE n == Len(w)
           Solves(f, k) == /\ f \in [(n + 1 - k)..(n + 1) -> Chains]
                           /\ \A i \in (n + 1 - k)..(n + 1) : f[i] = Split(w, f, i)
           Solvable == {k \in Nat : k <= n => \E f : Solves(f, k)}
<1>n. n \in Nat
  OBVIOUS
<1>1. 0 \in Solvable
  <2> DEFINE f == [i \in (n + 1)..(n + 1) |-> Split(w, <<>>, i)]
  <2>1. \A i \in (n + 1)..(n + 1) : i = n + 1 /\ i \in 1..(n + 1)
    BY <1>n
  <2>2. \A i \in (n + 1)..(n + 1) : Split(w, <<>>, i) \in Chains
    BY <2>1, <1>n, SplitType
  <2>3. f \in [(n + 1 - 0)..(n + 1) -> Chains]
    BY <2>2, <1>n
  <2>4. \A i \in (n + 1)..(n + 1) : Split(w, <<>>, i) = Split(w, f, i)
    <3> SUFFICES ASSUME NEW i \in (n + 1)..(n + 1)
                 PROVE  Split(w, <<>>, i) = Split(w, f, i)
      OBVIOUS
    <3> HIDE DEF f
    <3>1. i \in 1..(n + 1) /\ (i + 1)..(n + 1) = {}
      BY <2>1, <1>n
    <3>2. \A j \in (i + 1)..(Len(w) + 1) : <<>>[j] = f[j]
      BY <3>1
    <3> QED
      BY <3>1, <3>2, SplitLocal
  <2>5. \A i \in (n + 1 - 0)..(n + 1) : f[i] = Split(w, f, i)
    <3>1. \A i \in (n + 1)..(n + 1) : f[i] = Split(w, <<>>, i)
      OBVIOUS
    <3> HIDE DEF f
    <3> QED  BY <3>1, <2>4, <1>n
  <2> QED
    BY <2>3, <2>5
<1>2. ASSUME NEW k \in Nat, k \in Solvable PROVE k + 1 \in Solvable
  <2>1. SUFFICES ASSUME k + 1 <= n PROVE \E g : Solves(g, k + 1)
    OBVIOUS
  <2>2. PICK f : Solves(f, k)
    BY <1>2, <2>1, <1>n
  <2> DEFINE m == n - k
             g == [i \in m..(n + 1) |-> IF i = m THEN Split(w, f, m) ELSE f[i]]
  <2>3. m \in 1..n /\ m = n + 1 - (k + 1) /\ m + 1 = n + 1 - k
    BY <2>1, <1>n
  <2>4. /\ \A i \in (m + 1)..(n + 1) : f[i] \in Chains /\ f[i] = Split(w, f, i)
    BY <2>2, <2>3
  <2>5. Split(w, f, m) \in Chains
    <3> HIDE DEF m
    <3> QED  BY <2>3, <2>4, <1>n, SplitType
  <2>6. g[m] = Split(w, f, m) /\ \A i \in (m + 1)..(n + 1) : g[i] = f[i]
    BY <2>3, <1>n
  <2>7. g \in [m..(n + 1) -> Chains]
    <3>1. \A i \in m..(n + 1) : i = m \/ i \in (m + 1)..(n + 1)
      BY <2>3, <1>n
    <3> HIDE DEF m, Solves
    <3> QED  BY <3>1, <2>4, <2>5
  <2> HIDE DEF g
  <2>8. ASSUME NEW i \in m..(n + 1) PROVE g[i] = Split(w, g, i)
    <3>1. i \in 1..(n + 1) /\ \A j \in (i + 1)..(n + 1) : j \in (m + 1)..(n + 1)
      BY <2>3, <1>n
    <3>2. \A j \in (i + 1)..(n + 1) : f[j] = g[j]
      BY <3>1, <2>6
    <3>3. Split(w, f, i) = Split(w, g, i)
      <4> HIDE DEF m, Solves
      <4> QED  BY <3>1, <3>2, SplitLocal
    <3>4. i = m \/ i \in (m + 1)..(n + 1)
      BY <2>3, <1>n
    <3> QED
      BY <3>3, <3>4, <2>4, <2>6
  <2>9. Solves(g, k + 1)
    BY <2>3, <2>7, <2>8
  <2> QED
    BY <2>9
<1>3. n \in Solvable
  <2> HIDE DEF Solvable
  <2> QED  BY <1>1, <1>2, <1>n, SetInduction
<1>4. PICK f : Solves(f, n)
  BY <1>3, <1>n
<1>5. n + 1 - n = 1
  BY <1>n
<1>6. f \in [1..(n + 1) -> Chains]
  BY <1>4, <1>5
<1>7. f = [i \in 1..(n + 1) |-> Split(w, f, i)]
  BY <1>4, <1>5, <1>6
<1> QED
  BY <1>6, <1>7

(* Parsing solves the recursion, from the first token that is not a slash on.  *)
Solved(w, f) ==
  /\ \A i \in 1..(Len(w) + 1) : f[i] \in Chains /\ f[i] = Split(w, f, i)
  /\ Parse(w) = f[Start(w)] /\ Start(w) \in 1..(Len(w) + 1)
  /\ \A s \in 1..(Start(w) - 1) : w[s] = Slash
  /\ Start(w) <= Len(w) => w[Start(w)] # Slash

LEMMA ParseUnfolds ==
  ASSUME NEW w \in Seq(Tokens) PROVE \E f : Solved(w, f)
<1> DEFINE n == Len(w)
           Solution(f) == f = [i \in 1..(n + 1) |-> Split(w, f, i)]
           chain == CHOOSE f : Solution(f)
           Texts == {i \in 1..n : w[i] # Slash}
<1>1. Solution(chain)
  BY ChainExists
<1>2. ASSUME NEW k \in Nat, k <= n, \A i \in (n + 2 - k)..(n + 1) : chain[i] \in Chains
      PROVE  chain[n + 1 - k] \in Chains
  <2>1. n + 1 - k \in 1..(n + 1) /\ n + 1 - k + 1 = n + 2 - k
    BY <1>2
  <2>2. Split(w, chain, n + 1 - k) \in Chains
    <3> HIDE DEF chain
    <3> QED  BY <1>2, <2>1, SplitType
  <2> QED
    BY <1>1, <2>1, <2>2
<1>3. Nat \subseteq {k \in Nat : k <= n + 1 =>
                       \A i \in (n + 2 - k)..(n + 1) : chain[i] \in Chains}
  <2> DEFINE Typed == {k \in Nat : k <= n + 1 =>
                         \A i \in (n + 2 - k)..(n + 1) : chain[i] \in Chains}
  <2>1. 0 \in Typed
    OBVIOUS
  <2>2. ASSUME NEW k \in Nat, k \in Typed PROVE k + 1 \in Typed
    <3>1. SUFFICES ASSUME k + 1 <= n + 1,
                          NEW i \in (n + 2 - (k + 1))..(n + 1)
                   PROVE  chain[i] \in Chains
      OBVIOUS
    <3> HIDE DEF chain
    <3>2. k <= n /\ \A j \in (n + 2 - k)..(n + 1) : chain[j] \in Chains
      BY <2>2, <3>1
    <3>3. chain[n + 1 - k] \in Chains
      BY <3>2, <1>2
    <3>4. i = n + 1 - k \/ i \in (n + 2 - k)..(n + 1)
      BY <3>1
    <3> QED
      BY <3>2, <3>3, <3>4
  <2> HIDE DEF Typed
  <2>3. Nat \subseteq Typed
    BY <2>1, <2>2, SetInduction
  <2> QED
    BY <2>3 DEF Typed
<1>4. \A i \in 1..(n + 1) : chain[i] \in Chains
  <2> HIDE DEF chain
  <2>1. n + 1 \in Nat /\ n + 2 - (n + 1) = 1
    OBVIOUS
  <2> QED
    BY <1>3, <2>1
<1>5. /\ Start(w) \in 1..(n + 1)
      /\ \A s \in 1..(Start(w) - 1) : w[s] = Slash
      /\ Start(w) <= n => w[Start(w)] # Slash
  <2> DEFINE Begins(i) == /\ \A s \in 1..(i - 1) : w[s] = Slash
                          /\ i <= n => w[i] # Slash
  <2>1. \E i \in 1..(n + 1) : Begins(i)
    <3>1. CASE Texts = {}
      BY <3>1
    <3>2. CASE Texts # {}
      <4>1. Texts \in SUBSET Nat
        OBVIOUS
      <4>2. PICK i \in Texts : \A j \in Texts : i <= j
        <5> HIDE DEF Texts
        <5> QED  BY <3>2, <4>1, LeastExists
      <4>3. Begins(i)
        BY <4>2
      <4> QED
        BY <4>3
    <3> QED
      BY <3>1, <3>2
  <2> QED
    BY <2>1 DEF Start
<1>6. Parse(w) = chain[Start(w)]
  BY DEF Parse
<1>7. \A i \in 1..(n + 1) : chain[i] = Split(w, chain, i)
  BY <1>1
<1> HIDE DEF chain
<1> QED
  BY <1>4, <1>5, <1>6, <1>7 DEF Solved

(* A pattern is parsed to a chain of at least one component.                   *)
LEMMA ParseType ==
  ASSUME NEW w \in Seq(Tokens)
  PROVE  Parse(w) \in Chains
BY ParseUnfolds DEF Solved


----------------------------------------------------------------------------
(* The inductive invariant: the two roots hold the first components of their    *)
(* patterns, and a walk carries exactly what CarriedExactly says.              *)
Heads(anchored) == {<<p, 1>> : p \in {q \in Patterns : Anchored(q) = anchored}}

Typed ==
  /\ storage \in Seq(Chains) /\ given \in Seq(Written) /\ Len(given) = Len(storage)
  /\ path \in Seq(PathNames) /\ walking \in BOOLEAN

Rooted ==
  /\ root = Sorted(Heads(TRUE))
  /\ root_unanchored = Sorted(Heads(FALSE))

(* What a walk carries into the directory with the path ns.                    *)
CarriedBy(ns) == [leaf |-> {t \in Pointers : Carried(t, ns) /\ IsLast(t)},
                  branch |-> {t \in Pointers : Carried(t, ns) /\ ~IsLast(t)}]

Stored == storage \in Seq(Chains) /\ Rooted

IInv ==
  /\ Typed
  /\ Rooted
  /\ cur = IF walking THEN CarriedBy(path) ELSE NoPatterns
  /\ ~walking => path = <<>>

(* A pointer is a pattern and the place of one of its components.               *)
LEMMA PointerType ==
  ASSUME storage \in Seq(Chains)
  PROVE  /\ \A p \in Patterns : storage[p] \in Chains /\ Len(storage[p]) \in Nat \ {0}
         /\ \A t \in Pointers : /\ t = <<t[1], t[2]>> /\ t[1] \in Patterns
                                /\ t[2] \in 1..Len(storage[t[1]])
         /\ \A p \in Patterns : \A k \in 1..Len(storage[p]) : <<p, k>> \in Pointers
<1>1. \A p \in Patterns : storage[p] \in Chains /\ Len(storage[p]) \in Nat \ {0}
  BY DEF Patterns, Chains
<1>2. \A t : t \in Pointers <=>
              \E p \in Patterns : \E k \in 1..Len(storage[p]) : t = <<p, k>>
  BY DEF Pointers
<1> QED
  BY <1>1, <1>2

(* One more name on the path lets a pattern advance by one component.           *)
LEMMA FitsOneMore ==
  ASSUME NEW p \in Patterns, NEW k \in Nat \ {0}, NEW ns \in Seq(PathNames),
         NEW name \in PathNames
  PROVE  FitsTail(p, k, Append(ns, name)) <=>
           FitsTail(p, k - 1, ns) /\ Match(storage[p][k].glob, name)
<1> DEFINE n == Len(ns)
           longer == Append(ns, name)
           M(i, x) == Match(storage[p][i].glob, x)
<1>1. /\ n \in Nat /\ Len(longer) = n + 1 /\ longer[n + 1] = name
      /\ \A i \in 1..n : longer[i] = ns[i]
  OBVIOUS
<1>2. FitsTail(p, k, longer) <=>
        k <= n + 1 /\ \A i \in 1..k : M(i, longer[n + 1 - k + i])
  BY <1>1 DEF FitsTail
<1>3. FitsTail(p, k - 1, ns) <=>
        k - 1 <= n /\ \A i \in 1..(k - 1) : M(i, ns[n - (k - 1) + i])
  BY <1>1 DEF FitsTail
<1>4. ASSUME k <= n + 1
      PROVE  \A i \in 1..k :
               longer[n + 1 - k + i] = IF i = k THEN name ELSE ns[n - (k - 1) + i]
  <2> SUFFICES ASSUME NEW i \in 1..k
               PROVE  longer[n + 1 - k + i] = IF i = k THEN name ELSE ns[n - (k - 1) + i]
    OBVIOUS
  <2>1. CASE i = k
    BY <2>1, <1>1
  <2>2. CASE i # k
    <3>1. n + 1 - k + i = n - (k - 1) + i /\ n - (k - 1) + i \in 1..n
      BY <2>2, <1>1, <1>4
    <3> QED
      BY <2>2, <3>1, <1>1
  <2> QED
    BY <2>1, <2>2
<1> HIDE DEF M, longer, n
<1>5. k <= n + 1 <=> k - 1 <= n
  BY <1>1
<1>6. \A i \in 1..k : i = k \/ i \in 1..(k - 1)
  OBVIOUS
<1>7. k \in 1..k /\ \A i \in 1..(k - 1) : i \in 1..k /\ i # k
  OBVIOUS
<1>8. ASSUME k <= n + 1
      PROVE  (\A i \in 1..k : M(i, longer[n + 1 - k + i])) <=>
               (\A i \in 1..(k - 1) : M(i, ns[n - (k - 1) + i])) /\ M(k, name)
  BY <1>4, <1>6, <1>7, <1>8
<1> QED
  BY <1>2, <1>3, <1>5, <1>8 DEF M, longer, n

LEMMA InitInv == Init => IInv
<1> SUFFICES ASSUME Init PROVE IInv
  OBVIOUS
<1>1. Patterns = {}
  BY DEF Init, Patterns
<1>2. Heads(TRUE) = {} /\ Heads(FALSE) = {}
  BY <1>1 DEF Heads
<1>3. Sorted({}) = NoPatterns
  BY DEF Sorted, NoPatterns
<1>4. Typed
  <2>1. <<>> \in Seq(Chains) /\ <<>> \in Seq(Written) /\ <<>> \in Seq(PathNames)
    OBVIOUS
  <2> QED
    BY <2>1 DEF Init, Typed
<1> QED
  BY <1>2, <1>3, <1>4 DEF Init, IInv, Rooted

LEMMA WithHead ==
  ASSUME NEW L, NEW B, NEW t, NEW chain
  PROVE  With([leaf |-> L, branch |-> B], t, chain) =
           IF Len(chain) > 1 THEN [leaf |-> L, branch |-> B \cup {t}]
           ELSE [leaf |-> L \cup {t}, branch |-> B]
<1>1. \A X : [[leaf |-> L, branch |-> B] EXCEPT !.leaf = X] = [leaf |-> X, branch |-> B]
  OBVIOUS
<1>2. \A X : [[leaf |-> L, branch |-> B] EXCEPT !.branch = X] = [leaf |-> L, branch |-> X]
  OBVIOUS
<1>3. With([leaf |-> L, branch |-> B], t, chain) =
        IF Len(chain) > 1
        THEN [[leaf |-> L, branch |-> B] EXCEPT !.branch = B \cup {t}]
        ELSE [[leaf |-> L, branch |-> B] EXCEPT !.leaf = L \cup {t}]
  BY Zenon DEF With
<1> QED
  BY <1>1, <1>2, <1>3, Zenon

(* A new pattern joins the heads of its kind and changes no other pointer.     *)
LEMMA AddInv ==
  ASSUME IInv, NEW w \in Written, Add(w)
  PROVE  IInv'
<1>0. PICK n \in Nat : n = Len(storage)
  BY DEF IInv, Typed
<1> DEFINE h == <<n + 1, 1>>
<1>1. w \in Seq(Tokens) /\ w # <<>>
  BY ExcludeAssumption DEF PatternTypes, Tokens, Add
<1>2. PICK c \in Chains : c = Parse(w)
  BY <1>1, ParseType
<1>k. PICK k \in Nat \ {0} : k = Len(c)
  BY <1>2 DEF Chains
<1>3. /\ storage' = Append(storage, c) /\ given' = Append(given, w)
      /\ UNCHANGED <<path, cur, walking>> /\ walking = FALSE
  BY <1>2 DEF Add, IInv, Typed
<1>4. Typed'
  BY <1>2, <1>3 DEF IInv, Typed
<1>5. /\ Patterns' = Patterns \cup {n + 1} /\ n + 1 \notin Patterns
      /\ \A p \in Patterns : storage'[p] = storage[p] /\ given'[p] = given[p]
      /\ storage'[n + 1] = c /\ given'[n + 1] = w
  BY <1>0, <1>2, <1>3 DEF IInv, Typed, Patterns
<1>6. /\ \A p \in Patterns : Anchored(p)' <=> Anchored(p)
      /\ Anchored(n + 1)' <=> w[1] = Slash
  BY <1>5 DEF Anchored
<1>7. \A a \in BOOLEAN :
        Heads(a)' = Heads(a) \cup (IF (w[1] = Slash) = a THEN {h} ELSE {})
  <2> SUFFICES ASSUME NEW a \in BOOLEAN
               PROVE  Heads(a)' = Heads(a) \cup (IF (w[1] = Slash) = a THEN {h} ELSE {})
    OBVIOUS
  <2>1. {q \in Patterns : Anchored(q) = a}' =
          {q \in Patterns : Anchored(q) = a}
            \cup (IF (w[1] = Slash) = a THEN {n + 1} ELSE {})
    <3>1. \A q \in Patterns' : Anchored(q)' \in BOOLEAN
      BY DEF Anchored
    <3>2. \A q \in Patterns : (Anchored(q)' = a) <=> (Anchored(q) = a)
      BY <1>6, <1>5 DEF Anchored
    <3>3. (Anchored(n + 1)' = a) <=> ((w[1] = Slash) = a)
      BY <1>5 DEF Anchored
    <3> QED
      BY <1>5, <3>2, <3>3
  <2> QED
    BY <2>1 DEF Heads
<1>8. /\ \A a \in BOOLEAN : \A t \in Heads(a) : IsLast(t)' <=> IsLast(t)
      /\ k = 1 => IsLast(h)'
      /\ k > 1 => ~IsLast(h)'
  <2>1. \A a \in BOOLEAN : \A t \in Heads(a) : IsLast(t)' <=> IsLast(t)
    BY <1>5 DEF Heads, IsLast
  <2>2. IsLast(h)' <=> k = 1
    BY <1>5, <1>k DEF IsLast
  <2>3. k > 1 => k # 1
    OBVIOUS
  <2> QED
    BY <2>1, <2>2, <2>3, Zenon
<1>9. \A a \in BOOLEAN :
        Sorted(Heads(a))' = IF (w[1] = Slash) = a THEN With(Sorted(Heads(a)), h, c)
                            ELSE Sorted(Heads(a))
  <2> SUFFICES ASSUME NEW a \in BOOLEAN
               PROVE  Sorted(Heads(a))' =
                        IF (w[1] = Slash) = a THEN With(Sorted(Heads(a)), h, c)
                        ELSE Sorted(Heads(a))
    OBVIOUS
  <2> DEFINE L == {t \in Heads(a) : IsLast(t)}
             B == {t \in Heads(a) : ~IsLast(t)}
             LL == {t \in Heads(a)' : IsLast(t)'}
             BB == {t \in Heads(a)' : ~IsLast(t)'}
  <2>1. Sorted(Heads(a))' = [leaf |-> LL, branch |-> BB]
    BY DEF Sorted
  <2>s. Sorted(Heads(a)) = [leaf |-> L, branch |-> B]
    BY DEF Sorted
  <2>2. CASE (w[1] = Slash) = a
    <3>1. Heads(a)' = Heads(a) \cup {h}
      BY <1>7, <2>2
    <3>2. CASE k > 1
      <4>1. ~IsLast(h)'
        BY <1>8, <3>2
      <4>2. LL = L /\ BB = B \cup {h}
        BY <1>8, <3>1, <4>1
      <4> HIDE DEF L, B, LL, BB, h
      <4>3. With([leaf |-> L, branch |-> B], h, c) = [leaf |-> LL, branch |-> BB]
        BY <1>k, <3>2, <4>2, WithHead, Zenon
      <4> QED
        BY <2>1, <2>2, <2>s, <4>3, Zenon
    <3>3. CASE ~(k > 1)
      <4>1. IsLast(h)'
        <5>1. k = 1
          BY <3>3
        <5> QED
          BY <5>1, <1>8, Zenon
      <4>2. LL = L \cup {h} /\ BB = B
        BY <1>8, <3>1, <4>1
      <4> HIDE DEF L, B, LL, BB, h
      <4>3. With([leaf |-> L, branch |-> B], h, c) = [leaf |-> LL, branch |-> BB]
        BY <1>k, <3>3, <4>2, WithHead, Zenon
      <4> QED
        BY <2>1, <2>2, <2>s, <4>3, Zenon
    <3> QED
      BY <3>2, <3>3
  <2>3. CASE (w[1] = Slash) # a
    <3>1. Heads(a)' = Heads(a)
      BY <1>7, <2>3
    <3>2. /\ {t \in Heads(a)' : IsLast(t)'} = {t \in Heads(a) : IsLast(t)}
          /\ {t \in Heads(a)' : ~IsLast(t)'} = {t \in Heads(a) : ~IsLast(t)}
      BY <1>8, <3>1
    <3> QED
      BY <2>1, <2>3, <3>2 DEF Sorted
  <2> QED
    BY <2>2, <2>3
<1>10. Rooted'
  <2>1. CASE w[1] = Slash
    <3>1. root' = With(root, h, c) /\ root_unanchored' = root_unanchored
      BY <1>0, <1>2, <2>1 DEF Add
    <3> QED
      BY <2>1, <3>1, <1>9 DEF IInv, Rooted
  <2>2. CASE w[1] # Slash
    <3>1. root' = root /\ root_unanchored' = With(root_unanchored, h, c)
      BY <1>0, <1>2, <2>2 DEF Add
    <3> QED
      BY <2>2, <3>1, <1>9 DEF IInv, Rooted
  <2> QED
    BY <2>1, <2>2
<1> QED
  BY <1>3, <1>4, <1>10 DEF IInv

(* The walk begins with the anchored heads: the others need no pointer.        *)
LEMMA BeginInv ==
  ASSUME IInv, Begin
  PROVE  IInv'
<1>1. /\ UNCHANGED <<storage, root, root_unanchored, given, path>>
      /\ walking' = TRUE /\ cur' = root /\ path = <<>>
  BY DEF Begin, IInv, Typed
<1>2. Typed' /\ Rooted'
  BY <1>1 DEF IInv, Typed, Rooted, Sorted, Heads, IsLast, Patterns, Anchored
<1>3. \A t : t \in Heads(TRUE) <=> t \in Pointers /\ Carried(t, <<>>)
  <2>1. ASSUME NEW t \in Heads(TRUE) PROVE t \in Pointers /\ Carried(t, <<>>)
    <3>1. PICK p \in Patterns : Anchored(p) /\ t = <<p, 1>>
      BY DEF Heads
    <3>2. t \in Pointers
      BY <3>1, PointerType DEF IInv, Typed
    <3>3. FitsTail(p, 0, <<>>)
      BY DEF FitsTail
    <3> QED
      BY <3>1, <3>2, <3>3 DEF Carried
  <2>2. ASSUME NEW t \in Pointers, Carried(t, <<>>) PROVE t \in Heads(TRUE)
    <3>1. t = <<t[1], t[2]>> /\ t[1] \in Patterns /\ t[2] \in Nat \ {0}
      BY PointerType DEF IInv, Typed
    <3>2. t[2] - 1 <= 0
      BY <2>2 DEF Carried, FitsTail
    <3>3. t[2] = 1
      BY <3>1, <3>2
    <3>4. Anchored(t[1])
      BY <2>2, <3>3 DEF Carried
    <3>5. Anchored(t[1]) = TRUE
      BY <3>4 DEF Anchored
    <3> QED
      BY <3>1, <3>3, <3>5 DEF Heads
  <2> QED
    BY <2>1, <2>2
<1>4. root = CarriedBy(path)
  BY <1>1, <1>3 DEF IInv, Rooted, Sorted, CarriedBy
<1>5. CarriedBy(path)' = CarriedBy(path)
  BY <1>1 DEF CarriedBy, Pointers, Patterns, Carried, FitsTail, IsLast, Anchored
<1> QED
  BY <1>1, <1>2, <1>4, <1>5 DEF IInv

LEMMA FitsNothing == ASSUME NEW p, NEW ns \in Seq(PathNames) PROVE FitsTail(p, 0, ns)
BY DEF FitsTail

(* The pointers `matches' and `enter' look at in the directory ns: those carried  *)
(* and the unanchored heads.  They are the places a pattern may be at.         *)
Ahead(t, ns) ==
  /\ t \in Pointers
  /\ FitsTail(t[1], t[2] - 1, ns)
  /\ Anchored(t[1]) => t[2] - 1 = Len(ns)

LEMMA LeadsOn ==
  ASSUME Stored, NEW ns \in Seq(PathNames), NEW u
  PROVE  LET pat == CarriedBy(ns)
         IN  /\ u \in pat.leaf \cup root_unanchored.leaf
                  <=> Ahead(u, ns) /\ IsLast(u)
             /\ u \in pat.branch \cup root_unanchored.branch
                  <=> Ahead(u, ns) /\ ~IsLast(u)
<1> USE DEF Stored
<1> DEFINE pat == CarriedBy(ns)
<1>1. /\ pat.leaf = {t \in Pointers : Carried(t, ns) /\ IsLast(t)}
      /\ pat.branch = {t \in Pointers : Carried(t, ns) /\ ~IsLast(t)}
  BY DEF CarriedBy
<1>2. /\ root_unanchored.leaf = {t \in Heads(FALSE) : IsLast(t)}
      /\ root_unanchored.branch = {t \in Heads(FALSE) : ~IsLast(t)}
  BY DEF Rooted, Sorted
<1>3. u \in Heads(FALSE) <=> u \in Pointers /\ ~Anchored(u[1]) /\ u[2] = 1
  <2>1. ASSUME u \in Heads(FALSE)
        PROVE  u \in Pointers /\ ~Anchored(u[1]) /\ u[2] = 1
    <3>1. PICK p \in Patterns : ~Anchored(p) /\ u = <<p, 1>>
      BY <2>1 DEF Heads
    <3>2. 1 \in 1..Len(storage[p])
      BY PointerType
    <3> QED
      BY <3>1, <3>2, PointerType
  <2>2. ASSUME u \in Pointers, ~Anchored(u[1]), u[2] = 1
        PROVE  u \in Heads(FALSE)
    <3>1. u = <<u[1], 1>> /\ u[1] \in Patterns
      BY <2>2, PointerType
    <3>2. Anchored(u[1]) = FALSE
      BY <2>2 DEF Anchored
    <3> QED
      BY <3>1, <3>2 DEF Heads
  <2> QED
    BY <2>1, <2>2
<1>4. Ahead(u, ns) <=> (u \in Pointers /\ Carried(u, ns)) \/ u \in Heads(FALSE)
  <2>1. CASE u \notin Pointers
    BY <1>3, <2>1 DEF Ahead
  <2>2. CASE u \in Pointers /\ Anchored(u[1])
    BY <1>3, <2>2 DEF Ahead, Carried
  <2>3. CASE u \in Pointers /\ ~Anchored(u[1]) /\ u[2] = 1
    <3>1. FitsTail(u[1], u[2] - 1, ns)
      BY <2>3, FitsNothing
    <3> QED
      BY <1>3, <2>3, <3>1 DEF Ahead
  <2>4. CASE u \in Pointers /\ ~Anchored(u[1]) /\ u[2] # 1
    <3>1. u[2] > 1
      BY <2>4, PointerType
    <3> QED
      BY <1>3, <2>4, <3>1 DEF Ahead, Carried
  <2> QED
    BY <2>1, <2>2, <2>3, <2>4
<1> HIDE DEF pat
<1>5. /\ u \in pat.leaf \cup root_unanchored.leaf <=> Ahead(u, ns) /\ IsLast(u)
      /\ u \in pat.branch \cup root_unanchored.branch <=> Ahead(u, ns) /\ ~IsLast(u)
  BY <1>1, <1>2, <1>4
<1> QED
  BY <1>5 DEF pat

(* Entering a directory: a pointer moves on by one component when the one it    *)
(* points to matches the name.                                                 *)
LEMMA EnterCarries ==
  ASSUME Stored, NEW ns \in Seq(PathNames), NEW name \in PathNames
  PROVE  Enter(CarriedBy(ns), name) = CarriedBy(Append(ns, name))
<1> USE DEF Stored
<1> DEFINE pat == CarriedBy(ns)
           below == Append(ns, name)
           on == pat.branch \cup root_unanchored.branch
           moved == Subs(pat.branch, name) \cup Subs(root_unanchored.branch, name)
<1>1. \A u : u \in on <=> Ahead(u, ns) /\ ~IsLast(u)
  BY LeadsOn
<1>2. Enter(pat, name) = Sorted(moved)
  BY DEF Enter
<1>3. Len(ns) \in Nat /\ Len(below) = Len(ns) + 1
  OBVIOUS
<1>4. \A t : t \in moved <=>
              \E u \in on : Match(At(u).glob, name) /\ t = <<u[1], u[2] + 1>>
  BY DEF Subs
<1> HIDE DEF moved, below, on, pat
<1>5. ASSUME NEW t \in moved PROVE t \in Pointers /\ Carried(t, below)
  <2>1. PICK u \in on : Match(At(u).glob, name) /\ t = <<u[1], u[2] + 1>>
    BY <1>4
  <2>2. /\ u \in Pointers /\ ~IsLast(u)
        /\ FitsTail(u[1], u[2] - 1, ns)
        /\ Anchored(u[1]) => u[2] - 1 = Len(ns)
    BY <1>1 DEF Ahead
  <2>3. /\ u[1] \in Patterns /\ Len(storage[u[1]]) \in Nat
        /\ u[2] \in 1..Len(storage[u[1]]) /\ u[2] # Len(storage[u[1]])
    BY <2>2, PointerType DEF IsLast
  <2>4. u[2] + 1 \in 1..Len(storage[u[1]]) /\ u[2] \in Nat \ {0}
    BY <2>3
  <2>5. t \in Pointers
    BY <2>1, <2>3, <2>4, PointerType
  <2>6. FitsTail(u[1], u[2], below)
    BY <2>1, <2>2, <2>3, <2>4, FitsOneMore DEF At, below
  <2>7. t[1] = u[1] /\ t[2] = u[2] + 1 /\ t[2] - 1 = u[2]
    BY <2>1, <2>4
  <2> QED
    BY <1>3, <2>2, <2>4, <2>5, <2>6, <2>7 DEF Carried
<1>6. ASSUME NEW t \in Pointers, Carried(t, below) PROVE t \in moved
  <2> DEFINE u == <<t[1], t[2] - 1>>
  <2>1. /\ t = <<t[1], t[2]>> /\ t[1] \in Patterns
        /\ t[2] \in 1..Len(storage[t[1]]) /\ Len(storage[t[1]]) \in Nat
    BY PointerType
  <2>2. t[2] > 1
    BY <1>3, <1>6, <2>1 DEF Carried
  <2>3. t[2] - 1 \in 1..Len(storage[t[1]]) /\ t[2] - 1 # Len(storage[t[1]])
    BY <2>1, <2>2
  <2>4. u \in Pointers /\ ~IsLast(u)
    BY <2>1, <2>3, PointerType DEF IsLast
  <2>5. t[2] - 1 \in Nat \ {0}
    BY <2>1, <2>2
  <2>6. /\ FitsTail(t[1], t[2] - 1 - 1, ns)
        /\ Match(storage[t[1]][t[2] - 1].glob, name)
    BY <1>6, <2>1, <2>5, FitsOneMore DEF Carried, below
  <2>7. Anchored(t[1]) => t[2] - 1 - 1 = Len(ns)
    BY <1>3, <1>6, <2>1 DEF Carried
  <2>8. u[1] = t[1] /\ u[2] = t[2] - 1 /\ <<u[1], u[2] + 1>> = t
    BY <2>1
  <2>9. At(u) = storage[t[1]][t[2] - 1]
    BY DEF At
  <2> HIDE DEF u
  <2>10. u \in on
    BY <1>1, <2>4, <2>6, <2>7, <2>8 DEF Ahead
  <2> QED
    BY <1>4, <2>6, <2>8, <2>9, <2>10
<1>7. \A t : t \in moved <=> t \in Pointers /\ Carried(t, below)
  BY <1>5, <1>6
<1>8. Sorted(moved) = CarriedBy(below)
  BY <1>7 DEF Sorted, CarriedBy
<1> QED
  BY <1>2, <1>8 DEF below, pat

LEMMA DescendInv ==
  ASSUME IInv, NEW name \in PathNames, Descend(name)
  PROVE  IInv'
<1>1. /\ UNCHANGED <<storage, root, root_unanchored, given, walking>>
      /\ walking = TRUE /\ path' = Append(path, name)
      /\ cur' = Enter(CarriedBy(path), name)
  BY DEF Descend, IInv, Typed
<1>2. Typed' /\ Rooted'
  BY <1>1 DEF IInv, Typed, Rooted, Sorted, Heads, IsLast, Patterns, Anchored
<1>3. cur' = CarriedBy(Append(path, name))
  BY <1>1, EnterCarries DEF IInv, Typed, Stored
<1>4. CarriedBy(path)' = CarriedBy(Append(path, name))
  BY <1>1 DEF CarriedBy, Pointers, Patterns, Carried, FitsTail, IsLast, Anchored
<1> QED
  BY <1>1, <1>2, <1>3, <1>4 DEF IInv

LEMMA NextInv ==
  ASSUME IInv, [Next]_vars
  PROVE  IInv'
<1>1. ASSUME NEW w \in Written, Add(w) PROVE IInv'
  BY <1>1, AddInv
<1>2. ASSUME Begin PROVE IInv'
  BY <1>2, BeginInv
<1>3. ASSUME NEW name \in PathNames, Descend(name) PROVE IInv'
  BY <1>3, DescendInv
<1>4. ASSUME UNCHANGED vars PROVE IInv'
  BY <1>4 DEF vars, IInv, Typed, Rooted, Sorted, Heads, IsLast, Patterns, Pointers,
              Anchored, CarriedBy, Carried, FitsTail
<1> QED
  BY <1>1, <1>2, <1>3, <1>4 DEF Next, PathNames

LEMMA Invariant == Spec => []IInv
BY InitInv, NextInv, PTL DEF Spec

(* Every pointer held is into a stored chain: the 'static references of          *)
(* exclude.rs never dangle (type invariant).                                  *)
THEOREM Typing == Spec => []TypeOK
<1>1. ASSUME IInv PROVE TypeOK
  <2> USE <1>1 DEF IInv, Typed
  <2>1. \A a \in BOOLEAN : Heads(a) \subseteq Pointers
    <3>1. \A p \in Patterns : 1 \in 1..Len(storage[p])
      BY PointerType
    <3> QED
      BY <3>1, PointerType DEF Heads
  <2>2. root \in PatternSets /\ root_unanchored \in PatternSets
    BY <2>1 DEF Rooted, Sorted, PatternSets
  <2>3. CarriedBy(path) \in PatternSets /\ NoPatterns \in PatternSets
    BY DEF CarriedBy, NoPatterns, PatternSets
  <2> QED
    BY <2>2, <2>3 DEF TypeOK, Chains, Components
<1> QED
  BY <1>1, Invariant, PTL

(* The set of pointers a directory is handed is exactly the set of places the     *)
(* patterns have reached on its path (Patterns::enter, for_path).               *)
THEOREM Carries == Spec => []CarriedExactly
<1>1. IInv => CarriedExactly
  BY DEF IInv, CarriedBy, CarriedExactly
<1> QED
  BY <1>1, Invariant, PTL

(* A pattern excludes an entry of ns when one of the leaves looked at for it     *)
(* is the last component of the pattern and matches the name.                   *)
LEMMA LastMatches ==
  ASSUME Stored, NEW ns \in Seq(PathNames), NEW name \in PathNames, NEW t
  PROVE  t \in CarriedBy(ns).leaf \cup root_unanchored.leaf /\ Match(At(t).glob, name)
           <=> \E p \in Patterns : /\ Excludes(p, Append(ns, name))
                                 /\ t = <<p, Len(storage[p])>>
<1> USE DEF Stored
<1>1. Len(Append(ns, name)) = Len(ns) + 1 /\ Len(ns) \in Nat
  OBVIOUS
<1>2. ASSUME NEW p \in Patterns, NEW n \in Nat \ {0}, n = Len(storage[p])
      PROVE  Excludes(p, Append(ns, name)) <=>
               Ahead(<<p, n>>, ns) /\ Match(storage[p][n].glob, name)
  <2>1. <<p, n>> \in Pointers
    BY <1>2, PointerType
  <2>2. FitsTail(p, n, Append(ns, name)) <=>
          FitsTail(p, n - 1, ns) /\ Match(storage[p][n].glob, name)
    BY <1>1, FitsOneMore
  <2>3. n = Len(Append(ns, name)) <=> n - 1 = Len(ns)
    BY <1>1
  <2> QED
    BY <1>2, <2>1, <2>2, <2>3 DEF Excludes, Ahead
<1>3. ASSUME Ahead(t, ns), IsLast(t), Match(At(t).glob, name)
      PROVE  \E p \in Patterns : /\ Excludes(p, Append(ns, name))
                               /\ t = <<p, Len(storage[p])>>
  <2>1. /\ t = <<t[1], t[2]>> /\ t[1] \in Patterns /\ t[2] \in Nat \ {0}
        /\ t[2] = Len(storage[t[1]])
    BY <1>3, PointerType DEF Ahead, IsLast
  <2> QED
    BY <1>2, <1>3, <2>1 DEF At
<1>4. ASSUME NEW p \in Patterns, Excludes(p, Append(ns, name)),
             t = <<p, Len(storage[p])>>
      PROVE  Ahead(t, ns) /\ IsLast(t) /\ Match(At(t).glob, name)
  <2>1. Len(storage[p]) \in Nat \ {0}
    BY PointerType
  <2> QED
    BY <1>2, <1>4, <2>1 DEF At, IsLast
<1>5. t \in CarriedBy(ns).leaf \cup root_unanchored.leaf <=> Ahead(t, ns) /\ IsLast(t)
  BY LeadsOn
<1> QED
  BY <1>3, <1>4, <1>5

(* `matches' on two lists is match_list on what they hold together.            *)
LEMMA Together ==
  ASSUME NEW pat, NEW name
  PROVE  Matches(pat, name) = MatchList(pat.leaf \cup root_unanchored.leaf, name)
<1> DEFINE Hit(t) == Match(At(t).glob, name)
           File(t) == ~At(t).isdir
           a == {t \in pat.leaf : Hit(t)}
           b == {t \in root_unanchored.leaf : Hit(t)}
           ab == {t \in pat.leaf \cup root_unanchored.leaf : Hit(t)}
           Answer(hits) == IF \E t \in hits : File(t) THEN "all"
                           ELSE IF hits # {} THEN "dirs" ELSE "no"
<1>1. ab = a \cup b
  OBVIOUS
<1>2. /\ MatchList(pat.leaf, name) = Answer(a)
      /\ MatchList(root_unanchored.leaf, name) = Answer(b)
      /\ MatchList(pat.leaf \cup root_unanchored.leaf, name) = Answer(ab)
  BY DEF MatchList
<1> HIDE DEF Hit, File, a, b, ab
<1>3. Answer(ab) = IF "all" \in {Answer(a), Answer(b)} THEN "all"
                   ELSE IF Answer(a) # "no" THEN Answer(a) ELSE Answer(b)
  BY <1>1
<1> QED
  BY <1>2, <1>3 DEF Matches

(* What `matches' answers in the directory ns from what is carried into it.     *)
LEMMA MatchesMeans ==
  ASSUME Stored, NEW ns \in Seq(PathNames), NEW name \in PathNames
  PROVE  Matches(CarriedBy(ns), name) = Meaning(ns, name)
<1> DEFINE leaves == {t \in CarriedBy(ns).leaf \cup root_unanchored.leaf :
                        Match(At(t).glob, name)}
           hits == {p \in Patterns : Excludes(p, Append(ns, name))}
<1>1. /\ \A t \in leaves : \E p \in hits : t = <<p, Len(storage[p])>>
      /\ \A p \in hits : <<p, Len(storage[p])>> \in leaves
  BY LastMatches
<1>2. \A p \in hits : At(<<p, Len(storage[p])>>).isdir = DirOnly(p)
  BY DEF At, DirOnly
<1>3. /\ MatchList(CarriedBy(ns).leaf \cup root_unanchored.leaf, name) =
           IF \E t \in leaves : ~At(t).isdir THEN "all"
           ELSE IF leaves # {} THEN "dirs" ELSE "no"
      /\ Meaning(ns, name) = IF \E p \in hits : ~DirOnly(p) THEN "all"
                             ELSE IF hits # {} THEN "dirs" ELSE "no"
  BY DEF MatchList, Meaning
<1> HIDE DEF leaves, hits
<1>4. (\E t \in leaves : ~At(t).isdir) <=> (\E p \in hits : ~DirOnly(p))
  BY <1>1, <1>2
<1>5. leaves # {} <=> hits # {}
  BY <1>1
<1> QED
  BY <1>3, <1>4, <1>5, Together

(* In every directory, for every name, `matches' answers what the patterns mean   *)
(* for the whole path.                                                         *)
THEOREM PatternsMean == Spec => []MatchesIsMeaning
<1>1. IInv => MatchesIsMeaning
  BY MatchesMeans DEF IInv, Typed, Stored, MatchesIsMeaning, PathNames
<1> QED
  BY <1>1, Invariant, PTL

----------------------------------------------------------------------------
(* What a parsed pattern says when it is written down again.                  *)
Piece(c) == IF c.glob = Empty THEN <<>> ELSE <<c.glob>>

Cat(s, t) == s \o t

JoinStep(ch, f, k) == IF k = 1 THEN Piece(ch[1]) ELSE Cat(Cat(f[k - 1], <<Slash>>), Piece(ch[k]))

LEMMA CatType == \A S : \A s, t \in Seq(S) : Cat(s, t) \in Seq(S)
BY ConcatProperties DEF Cat

LEMMA CatAssociates ==
  \A S : \A s, t, u \in Seq(S) : Cat(Cat(s, t), u) = Cat(s, Cat(t, u))
BY ConcatAssociative DEF Cat

LEMMA PieceType == \A c \in Components : Piece(c) \in Seq(Tokens)
<1> SUFFICES ASSUME NEW c \in Components PROVE Piece(c) \in Seq(Tokens)
  OBVIOUS
<1>1. c.glob = Empty \/ c.glob \in Tokens
  BY DEF Components, Globs, Tokens
<1> QED
  BY <1>1 DEF Piece

LEMMA JoinStepType ==
  ASSUME NEW ch \in Chains, NEW f, NEW k \in 1..Len(ch), k > 1 => f[k - 1] \in Seq(Tokens)
  PROVE  JoinStep(ch, f, k) \in Seq(Tokens)
<1>1. ch[k] \in Components /\ ch[1] \in Components
  BY DEF Chains
<1>2. Piece(ch[k]) \in Seq(Tokens) /\ Piece(ch[1]) \in Seq(Tokens)
  BY <1>1, PieceType
<1>3. <<Slash>> \in Seq(Tokens)
  BY DEF Tokens
<1>4. CASE k = 1
  BY <1>2, <1>4 DEF JoinStep
<1>5. CASE k # 1
  <2>1. f[k - 1] \in Seq(Tokens)
    BY <1>5
  <2>2. Cat(Cat(f[k - 1], <<Slash>>), Piece(ch[k])) \in Seq(Tokens)
    BY <1>2, <1>3, <2>1, CatType
  <2> QED
    BY <1>5, <2>2 DEF JoinStep
<1> QED
  BY <1>4, <1>5

(* The recursion of Joined has a solution, built up from the first component.   *)
LEMMA JoinExists ==
  ASSUME NEW ch \in Chains
  PROVE  \E f : f = [k \in 1..Len(ch) |-> JoinStep(ch, f, k)]
<1> DEFINE n == Len(ch)
           Solves(f, m) == f = [k \in 1..m |-> JoinStep(ch, f, k)]
           Solvable == {m \in Nat : \E f : Solves(f, m)}
<1>1. n \in Nat
  BY DEF Chains
<1>2. 0 \in Solvable
  <2>1. Solves([k \in 1..0 |-> JoinStep(ch, <<>>, k)], 0)
    OBVIOUS
  <2> QED
    BY <2>1
<1>3. ASSUME NEW m \in Nat, m \in Solvable PROVE m + 1 \in Solvable
  <2>1. PICK f : Solves(f, m)
    BY <1>3
  <2> DEFINE g == [k \in 1..(m + 1) |-> JoinStep(ch, f, k)]
  <2>2. \A k \in 1..m : f[k] = JoinStep(ch, f, k)
    BY <2>1
  <2>3. \A k \in 1..m : k \in 1..(m + 1) /\ g[k] = f[k]
    BY <2>2
  <2> HIDE DEF g, Solves
  <2>4. ASSUME NEW k \in 1..(m + 1) PROVE JoinStep(ch, f, k) = JoinStep(ch, g, k)
    <3>1. k # 1 => k - 1 \in 1..m
      OBVIOUS
    <3>2. k # 1 => f[k - 1] = g[k - 1]
      BY <3>1, <2>3
    <3> QED
      BY <3>2 DEF JoinStep
  <2>5. Solves(g, m + 1)
    BY <2>4 DEF g, Solves
  <2> QED
    BY <2>5
<1> HIDE DEF Solvable
<1>4. n \in Solvable
  BY <1>1, <1>2, <1>3, SetInduction
<1> QED
  BY <1>4 DEF Solvable

LEMMA JoinUnfolds ==
  ASSUME NEW ch \in Chains
  PROVE  \E f : /\ \A k \in 1..Len(ch) : f[k] \in Seq(Tokens) /\ f[k] = JoinStep(ch, f, k)
               /\ Joined(ch) = f[Len(ch)]
<1> DEFINE n == Len(ch)
           Solution(f) == f = [k \in 1..n |-> JoinStep(ch, f, k)]
           join == CHOOSE f : Solution(f)
           Right == {k \in 1..n : join[k] \in Seq(Tokens)}
<1>1. n \in Nat
  BY DEF Chains
<1>2. Solution(join)
  BY JoinExists
<1>3. \A k \in 1..n : join[k] = JoinStep(ch, join, k)
  BY <1>2
<1>4. Joined(ch) = join[n]
  BY DEF Joined, JoinStep, Piece, Cat
<1> HIDE DEF join
<1>5. ASSUME NEW k \in 1..n, \A j \in 1..(k - 1) : j \in Right PROVE k \in Right
  <2>1. k > 1 => k - 1 \in 1..(k - 1)
    OBVIOUS
  <2>2. k > 1 => join[k - 1] \in Seq(Tokens)
    BY <1>5, <2>1
  <2> QED
    BY <1>3, <2>2, JoinStepType
<1> HIDE DEF Right
<1>6. \A k \in 1..n : k \in Right
  BY <1>1, <1>5, Upward
<1> QED
  BY <1>3, <1>4, <1>6 DEF Right

LEMMA JoinType ==
  ASSUME NEW ch \in Chains PROVE Joined(ch) \in Seq(Tokens)
<1>1. Len(ch) \in 1..Len(ch)
  BY DEF Chains
<1> QED
  BY <1>1, JoinUnfolds

LEMMA JoinOne ==
  ASSUME NEW c \in Components PROVE Joined(<<c>>) = Piece(c)
<1>1. PICK ch : ch = <<c>>
  OBVIOUS
<1>2. ch \in Chains /\ Len(ch) = 1 /\ ch[1] = c
  BY <1>1 DEF Chains
<1> QED
  BY <1>1, <1>2, JoinUnfolds DEF JoinStep

LEMMA Regroup ==
  ASSUME NEW S, NEW h \in Seq(S), NEW s \in Seq(S), NEW e \in Seq(S), NEW p \in Seq(S)
  PROVE  Cat(Cat(Cat(h, Cat(s, e)), s), p) = Cat(h, Cat(s, Cat(Cat(e, s), p)))
<1>1. PICK a \in Seq(S) : a = Cat(s, e)
  BY CatType
<1>2. PICK b \in Seq(S) : b = Cat(e, s)
  BY CatType
<1>3. PICK c \in Seq(S) : c = Cat(s, b)
  BY CatType
<1>4. \A x, y, z \in Seq(S) : Cat(Cat(x, y), z) = Cat(x, Cat(y, z))
  BY CatAssociates
<1>5. /\ Cat(Cat(h, a), s) = Cat(h, Cat(a, s)) /\ Cat(a, s) = c
      /\ Cat(Cat(h, c), p) = Cat(h, Cat(c, p)) /\ Cat(c, p) = Cat(s, Cat(b, p))
  BY <1>1, <1>2, <1>3, <1>4
<1> QED
  BY <1>1, <1>2, <1>5

(* A component put in front is written before the rest, with a slash between.     *)
LEMMA JoinMore ==
  ASSUME NEW c \in Components, NEW ch \in Chains
  PROVE  Joined(<<c>> \o ch) = Cat(Piece(c), Cat(<<Slash>>, Joined(ch)))
<1>1. PICK d : d = <<c>> \o ch
  OBVIOUS
<1> DEFINE n == Len(ch)
<1>2. /\ n \in Nat \ {0} /\ Len(d) = n + 1 /\ d \in Chains /\ d[1] = c
      /\ \A k \in 1..n : d[k + 1] = ch[k]
  BY <1>1 DEF Chains
<1>3. PICK f : /\ \A k \in 1..n : f[k] \in Seq(Tokens) /\ f[k] = JoinStep(ch, f, k)
               /\ Joined(ch) = f[n]
  BY JoinUnfolds
<1>4. PICK g : /\ \A k \in 1..(n + 1) : g[k] \in Seq(Tokens) /\ g[k] = JoinStep(d, g, k)
               /\ Joined(d) = g[n + 1]
  BY <1>2, JoinUnfolds
<1> DEFINE Fits == {k \in 1..n : g[k + 1] = Cat(Piece(c), Cat(<<Slash>>, f[k]))}
<1>5. <<Slash>> \in Seq(Tokens) /\ Piece(c) \in Seq(Tokens)
  BY PieceType DEF Tokens
<1>6. ASSUME NEW k \in 1..n, \A j \in 1..(k - 1) : j \in Fits PROVE k \in Fits
  <2>1. PICK p \in Seq(Tokens) : p = Piece(ch[k])
    BY PieceType DEF Chains
  <2>2. PICK s \in Seq(Tokens) : s = <<Slash>>
    BY <1>5
  <2>3. PICK h \in Seq(Tokens) : h = Piece(c)
    BY <1>5
  <2>4. k + 1 \in 1..(n + 1) /\ k + 1 # 1 /\ d[k + 1] = ch[k] /\ k + 1 - 1 = k
    BY <1>2
  <2>5. g[k + 1] = Cat(Cat(g[k], s), p)
    <3>1. PICK l : l = k + 1
      OBVIOUS
    <3>2. g[l] = JoinStep(d, g, l) /\ l # 1 /\ d[l] = ch[k] /\ l - 1 = k
      BY <1>4, <2>4, <3>1
    <3>3. JoinStep(d, g, l) = Cat(Cat(g[l - 1], <<Slash>>), Piece(d[l]))
      BY <3>2 DEF JoinStep
    <3> QED
      BY <2>1, <2>2, <3>1, <3>2, <3>3
  <2>6. CASE k = 1
    <3>1. g[1] = h
      <4>1. g[1] = JoinStep(d, g, 1)
        BY <1>2, <1>4
      <4> QED
        BY <1>2, <2>3, <4>1 DEF JoinStep
    <3>2. f[1] = p
      BY <1>3, <2>1, <2>6 DEF JoinStep
    <3>3. Cat(Cat(h, s), p) = Cat(h, Cat(s, p))
      BY CatAssociates
    <3> QED
      BY <2>2, <2>3, <2>5, <2>6, <3>1, <3>2, <3>3
  <2>7. CASE k # 1
    <3>1. k - 1 \in 1..(k - 1) /\ k - 1 + 1 = k /\ k - 1 \in 1..n
      BY <2>7
    <3>2. PICK e \in Seq(Tokens) : e = f[k - 1]
      BY <1>3, <3>1
    <3>3. g[k] = Cat(h, Cat(s, e))
      BY <1>6, <2>2, <2>3, <3>1, <3>2
    <3>4. f[k] = Cat(Cat(e, s), p)
      BY <1>3, <2>1, <2>2, <2>7, <3>2 DEF JoinStep
    <3>5. Cat(Cat(Cat(h, Cat(s, e)), s), p) = Cat(h, Cat(s, Cat(Cat(e, s), p)))
      BY Regroup
    <3> QED
      BY <2>2, <2>3, <2>5, <3>3, <3>4, <3>5
  <2> QED
    BY <2>6, <2>7
<1> HIDE DEF Fits
<1>7. \A k \in 1..n : k \in Fits
  BY <1>2, <1>6, Upward
<1>8. n \in Fits
  BY <1>2, <1>7
<1> QED
  BY <1>1, <1>3, <1>4, <1>8 DEF Fits

LEMMA SubSeqOne ==
  ASSUME NEW w \in Seq(Tokens), NEW i \in 1..Len(w) PROVE SubSeq(w, i, i) = <<w[i]>>
<1>1. PICK t : t = SubSeq(w, i, i)
  OBVIOUS
<1>2. t \in Seq(Tokens) /\ Len(t) = 1 /\ t[1] = w[i]
  <2>1. /\ SubSeq(w, i, i) \in Seq(Tokens) /\ Len(SubSeq(w, i, i)) = i - i + 1
        /\ \A k \in 1..(i - i + 1) : SubSeq(w, i, i)[k] = w[i + k - 1]
    OBVIOUS
  <2>2. i - i + 1 = 1 /\ i + 1 - 1 = i /\ 1 \in 1..1
    OBVIOUS
  <2> QED
    BY <1>1, <2>1, <2>2
<1>3. PICK u : u = <<w[i]>>
  OBVIOUS
<1>4. u \in Seq(Tokens) /\ Len(u) = 1 /\ u[1] = w[i]
  BY <1>3
<1>5. \A k \in 1..Len(t) : k = 1 /\ t[k] = u[k]
  BY <1>2, <1>4
<1>6. t = u
  BY <1>2, <1>4, <1>5, SeqEqual
<1> QED
  BY <1>1, <1>3, <1>6

(* The first text of a sequence, its slash and the rest are the sequence.         *)
LEMMA PutBack ==
  ASSUME NEW w \in Seq(Tokens), NEW i \in 1..Len(w), NEW s \in i..Len(w),
         NEW hi \in 1..Len(w), s + 1 <= hi, w[s] = Slash, s = i \/ s = i + 1,
         NEW front, s = i => front = <<>>, s = i + 1 => front = <<w[i]>>
  PROVE  Cat(front, Cat(<<Slash>>, SubSeq(w, s + 1, hi))) = SubSeq(w, i, hi)
<1> DEFINE r == SubSeq(w, s + 1, hi)
           t == SubSeq(w, i, hi)
<1>1. /\ r \in Seq(Tokens) /\ Len(r) = hi - s
      /\ \A k \in 1..(hi - s) : r[k] = w[s + k]
      /\ t \in Seq(Tokens) /\ Len(t) = hi - i + 1
      /\ \A k \in 1..(hi - i + 1) : t[k] = w[i + k - 1]
  OBVIOUS
<1> HIDE DEF r, t
<1>2. <<Slash>> \in Seq(Tokens) /\ front \in Seq(Tokens) /\ w[i] \in Tokens
  <2>1. <<Slash>> \in Seq(Tokens)
    BY DEF Tokens
  <2>2. w[i] \in Tokens
    OBVIOUS
  <2>3. <<>> \in Seq(Tokens) /\ <<w[i]>> \in Seq(Tokens)
    BY <2>2
  <2> QED
    BY <2>1, <2>2, <2>3
<1>3. PICK u \in Seq(Tokens) : u = Cat(<<Slash>>, r)
  BY <1>1, <1>2, CatType
<1>4. /\ Len(u) = hi - s + 1 /\ u[1] = Slash
      /\ \A k \in 2..(hi - s + 1) : u[k] = w[s + k - 1]
  BY <1>1, <1>2, <1>3 DEF Cat
<1>5. \A k \in 1..(hi - s + 1) : u[k] = w[s + k - 1]
  BY <1>4
<1>6. CASE s = i
  <2>1. Cat(front, u) = u
    BY <1>6 DEF Cat
  <2>2. u = t
    BY <1>1, <1>4, <1>5, <1>6, SeqEqual
  <2> QED
    BY <1>3, <2>1, <2>2 DEF r, t
<1>7. CASE s = i + 1
  <2>1. PICK v \in Seq(Tokens) : v = Cat(front, u)
    BY <1>2, CatType
  <2>2. /\ Len(v) = hi - i + 1 /\ v[1] = w[i]
        /\ \A k \in 2..(hi - i + 1) : v[k] = u[k - 1]
    <3>1. PICK a \in Seq(Tokens) : a = <<w[i]>>
      BY <1>2, <1>7
    <3>2. Len(a) = 1 /\ a[1] = w[i] /\ v = a \o u
      BY <1>7, <2>1, <3>1 DEF Cat
    <3>3. /\ Len(v) = 1 + Len(u)
          /\ \A k \in 1..(1 + Len(u)) : v[k] = IF k <= 1 THEN a[k] ELSE u[k - 1]
      <4>1. /\ Len(a \o u) = Len(a) + Len(u)
            /\ \A k \in 1..(Len(a) + Len(u)) :
                 (a \o u)[k] = IF k <= Len(a) THEN a[k] ELSE u[k - Len(a)]
        BY <3>1, ConcatProperties
      <4> QED
        BY <3>2, <4>1
    <3>4. 1 + Len(u) = hi - i + 1 /\ 1 \in 1..(1 + Len(u))
      BY <1>4, <1>7
    <3> QED
      BY <3>2, <3>3, <3>4
  <2>3. ASSUME NEW k \in 1..(hi - i + 1) PROVE v[k] = w[i + k - 1]
    <3>1. CASE k = 1
      BY <2>2, <3>1
    <3>2. CASE k # 1
      <4>1. PICK j \in 1..(hi - s + 1) : j = k - 1
        BY <1>7, <3>2
      <4>2. v[k] = u[j] /\ u[j] = w[s + j - 1]
        BY <1>5, <2>2, <3>2, <4>1
      <4>3. s + j - 1 = i + k - 1
        BY <1>7, <4>1
      <4> QED
        BY <4>2, <4>3
    <3> QED
      BY <3>1, <3>2
  <2>4. v = t
    BY <1>1, <2>2, <2>3, SeqEqual
  <2> QED
    BY <1>3, <2>1, <2>4 DEF r, t
<1> QED
  BY <1>6, <1>7

(* The pattern from i on, up to its last text: its pieces, and whether something    *)
(* is written after them.                                                     *)
LEMMA SplitRight ==
  ASSUME NEW w \in Seq(Tokens), Slash \notin Globs, Empty \notin Names \cup Wild,
         \A i \in 1..(Len(w) - 1) : w[i] = Slash \/ w[i + 1] = Slash,
         NEW hi \in 1..Len(w), w[hi] # Slash, \A k \in (hi + 1)..Len(w) : w[k] = Slash,
         NEW f, \A i \in 1..(Len(w) + 1) : f[i] \in Chains /\ f[i] = Split(w, f, i)
  PROVE  \A i \in 1..hi : /\ Joined(f[i]) = SubSeq(w, i, hi)
                          /\ f[i][Len(f[i])].isdir <=> hi < Len(w)
<1> DEFINE n == Len(w)
           Good == {i \in 1..hi : /\ Joined(f[i]) = SubSeq(w, i, hi)
                                  /\ f[i][Len(f[i])].isdir <=> hi < n}
<1>1. n \in Nat /\ hi \in Nat /\ hi \in 1..n /\ w[hi] # Slash
      /\ \A k \in (hi + 1)..n : w[k] = Slash
  OBVIOUS
<1>2. \A k \in 1..n : w[k] \in Tokens /\ (w[k] # Slash => w[k] \in Names \cup Wild)
  BY DEF Tokens
<1>3. ASSUME NEW i \in 1..hi, \A j \in (i + 1)..hi : j \in Good PROVE i \in Good
  <2>1. i \in 1..n /\ i \in 1..(n + 1)
    BY <1>1
  <2>2. w[i] # Slash /\ i < n => w[i + 1] = Slash
    <3> SUFFICES ASSUME w[i] # Slash, i < n PROVE w[i + 1] = Slash
      OBVIOUS
    <3>1. i \in 1..(Len(w) - 1)
      BY <1>1, <2>1
    <3> QED
      BY <3>1
  <2>3. f[i] = Split(w, f, i)
    BY <2>1
  <2>4. CASE SlashAt(w, i) = {}
    <3>1. \A k \in i..n : w[k] # Slash
      BY <2>4 DEF SlashAt
    <3>2. i = n /\ hi = n
      BY <1>1, <2>1, <2>2, <3>1
    <3>3. Field(w, i, n + 1) = w[n] /\ w[n] \in Names \cup Wild
      BY <1>1, <1>2, <3>1, <3>2 DEF Field
    <3>4. PICK c : c = Component(w[n], FALSE)
      OBVIOUS
    <3>5. c \in Components /\ c.glob = w[n] /\ c.isdir = FALSE
      BY <3>3, <3>4 DEF Component, Components, Globs
    <3>6. f[i] = <<c>>
      BY <2>3, <2>4, <3>3, <3>4 DEF Split
    <3>7. Joined(f[i]) = <<w[n]>>
      BY <3>3, <3>5, <3>6, JoinOne DEF Piece
    <3>8. SubSeq(w, n, n) = <<w[n]>>
      BY <1>1, <3>2, SubSeqOne
    <3>9. f[i][Len(f[i])] = c
      BY <3>6
    <3> QED
      BY <3>2, <3>5, <3>7, <3>8, <3>9
  <2>5. CASE SlashAt(w, i) # {}
    <3>1. PICK s \in i..n : s = FirstSlash(w, i) /\ \A r \in SlashAt(w, i) : s <= r
      BY <2>1, <2>5, FirstSlashType
    <3>2. w[s] = Slash /\ s # hi /\ s \in Nat
      <4>1. FirstSlash(w, i) \in SlashAt(w, i)
        <5>1. SlashAt(w, i) \in SUBSET Nat
          BY DEF SlashAt
        <5> QED
          BY <2>5, <5>1, LeastExists DEF FirstSlash
      <4> QED
        BY <1>1, <3>1, <4>1 DEF SlashAt
    <3>3. PICK c : c = Component(Field(w, i, s), TRUE)
      OBVIOUS
    <3>4. s = i \/ (s = i + 1 /\ w[i] # Slash)
      <4>1. CASE w[i] = Slash
        <5>1. i \in SlashAt(w, i)
          BY <1>1, <2>1, <4>1 DEF SlashAt
        <5> QED
          BY <3>1, <5>1
      <4>2. CASE w[i] # Slash
        <5>1. i < n
          BY <2>1, <3>1, <3>2, <4>2
        <5>2. i + 1 \in SlashAt(w, i)
          BY <1>1, <2>1, <2>2, <4>2, <5>1 DEF SlashAt
        <5>3. s <= i + 1 /\ s # i
          BY <3>1, <3>2, <4>2, <5>2
        <5> QED
          BY <2>1, <3>1, <4>2, <5>3
      <4> QED
        BY <4>1, <4>2
    <3>5. c.glob = (IF s = i THEN Empty ELSE w[i]) /\ c.isdir = TRUE /\ c \in Components
      <4>1. Field(w, i, s) = IF s = i THEN Empty ELSE w[i]
        BY <2>1, <3>1, <3>4 DEF Field
      <4>2. Field(w, i, s) \in Globs
        BY <1>2, <2>1, <3>4, <4>1 DEF Globs
      <4> QED
        BY <3>3, <4>1, <4>2 DEF Component, Components
    <3>6. Piece(c) = IF s = i THEN <<>> ELSE <<w[i]>>
      BY <1>2, <2>1, <3>4, <3>5 DEF Piece
    <3>7. CASE OnlySlashes(w, s + 1)
      <4>1. \A k \in (s + 1)..n : w[k] = Slash
        BY <3>7 DEF OnlySlashes
      <4>2. hi < s
        BY <1>1, <3>2, <4>1
      <4>3. i = hi /\ s = i + 1 /\ hi < n
        BY <2>1, <3>1, <3>4, <4>2
      <4>4. f[i] = <<c>>
        BY <2>3, <2>5, <3>1, <3>3, <3>7 DEF Split
      <4>5. Joined(f[i]) = <<w[i]>>
        BY <3>5, <3>6, <4>3, <4>4, JoinOne
      <4>6. SubSeq(w, i, i) = <<w[i]>>
        BY <2>1, SubSeqOne
      <4>7. f[i][Len(f[i])] = c
        BY <4>4
      <4> QED
        BY <3>5, <4>3, <4>5, <4>6, <4>7
    <3>8. CASE ~OnlySlashes(w, s + 1)
      <4>1. s + 1 \in (i + 1)..hi
        <5>1. PICK k \in (s + 1)..n : w[k] # Slash
          BY <3>8 DEF OnlySlashes
        <5>2. k <= hi
          BY <1>1, <3>1, <5>1
        <5> QED
          BY <2>1, <3>1, <5>1, <5>2
      <4>2. PICK ch \in Chains : ch = f[s + 1]
        BY <1>1, <3>1
      <4>3. Joined(ch) = SubSeq(w, s + 1, hi) /\ (ch[Len(ch)].isdir <=> hi < n)
        BY <1>3, <4>1, <4>2
      <4>4. f[i] = <<c>> \o ch
        BY <2>3, <2>5, <3>1, <3>3, <3>8, <4>2 DEF Split
      <4>5. Joined(f[i]) = Cat(Piece(c), Cat(<<Slash>>, SubSeq(w, s + 1, hi)))
        BY <3>5, <4>3, <4>4, JoinMore
      <4>6. Cat(Piece(c), Cat(<<Slash>>, SubSeq(w, s + 1, hi))) = SubSeq(w, i, hi)
        <5>1. /\ i \in 1..Len(w) /\ s \in i..Len(w) /\ hi \in 1..Len(w) /\ s + 1 <= hi
              /\ w[s] = Slash /\ (s = i \/ s = i + 1)
          BY <1>1, <2>1, <3>1, <3>2, <3>4, <4>1
        <5>2. PICK p : p = Piece(c)
          OBVIOUS
        <5>3. (s = i => p = <<>>) /\ (s = i + 1 => p = <<w[i]>>)
          BY <2>1, <3>6, <5>2
        <5>4. Cat(p, Cat(<<Slash>>, SubSeq(w, s + 1, hi))) = SubSeq(w, i, hi)
          BY <5>1, <5>3, PutBack
        <5> QED
          BY <5>2, <5>4
      <4>7. f[i][Len(f[i])] = ch[Len(ch)]
        <5>1. Len(ch) \in Nat \ {0} /\ ch \in Seq(Components) /\ <<c>> \in Seq(Components)
          BY <3>5 DEF Chains
        <5> QED
          BY <4>4, <5>1, ConcatProperties
      <4> QED
        BY <4>3, <4>5, <4>6, <4>7
    <3> QED
      BY <3>7, <3>8
  <2> QED
    BY <2>4, <2>5
<1> HIDE DEF Good
<1>4. \A i \in 1..hi : i \in Good
  BY <1>1, <1>3, Downward
<1> QED
  BY <1>4 DEF Good

(* A written pattern is stored as it was parsed.                                *)
Parsed == \A p \in Patterns : storage[p] = Parse(given[p])

LEMMA ParsedStep == IInv /\ Parsed /\ [Next]_vars => Parsed'
<1> SUFFICES ASSUME IInv, Parsed, [Next]_vars PROVE Parsed'
  OBVIOUS
<1>1. ASSUME NEW w \in Written, Add(w) PROVE Parsed'
  <2>1. PICK n \in Nat : n = Len(storage)
    BY DEF IInv, Typed
  <2>2. PICK c \in Chains : c = Parse(w)
    <3>1. w \in Seq(Tokens)
      BY ExcludeAssumption DEF PatternTypes, Tokens
    <3> QED
      BY <3>1, ParseType
  <2>3. storage' = Append(storage, c) /\ given' = Append(given, w)
    BY <1>1, <2>2 DEF Add
  <2>4. /\ Patterns' = 1..(n + 1) /\ storage'[n + 1] = c /\ given'[n + 1] = w
        /\ \A p \in 1..n : storage'[p] = storage[p] /\ given'[p] = given[p]
    BY <2>1, <2>2, <2>3 DEF IInv, Typed, Patterns
  <2>5. \A p \in 1..n : storage'[p] = Parse(given'[p])
    BY <2>1, <2>4 DEF Parsed, Patterns
  <2>6. storage'[n + 1] = Parse(given'[n + 1])
    BY <2>2, <2>4
  <2>7. \A p \in Patterns' : p \in 1..n \/ p = n + 1
    BY <2>4
  <2> QED
    BY <2>5, <2>6, <2>7 DEF Parsed
<1>2. ASSUME UNCHANGED <<storage, given>> PROVE Parsed'
  BY <1>2 DEF Parsed, Patterns
<1> QED
  BY <1>1, <1>2 DEF Next, Begin, Descend, vars

(* Every pattern of every command line is read as it is written: the chain gives the  *)
(* text between its outermost slashes back, piece by piece, and is for directories    *)
(* only when a slash ends it (Pattern::parse).                                      *)
THEOREM ReadAsGiven == Spec => []SplitAsWritten
<1>1. ASSUME IInv, Parsed PROVE SplitAsWritten
  <2> SUFFICES ASSUME NEW p \in Patterns, NEW w, w = given[p]
               PROVE  IF Text(w) = {} THEN storage[p] = <<Component(Empty, FALSE)>>
                      ELSE \E lo, hi \in Text(w) :
                             /\ Text(w) \subseteq lo..hi
                             /\ Joined(storage[p]) = SubSeq(w, lo, hi)
                             /\ DirOnly(p) <=> hi < Len(w)
    BY DEF SplitAsWritten
  <2>1. w \in Written /\ storage[p] = Parse(w)
    BY <1>1 DEF Parsed, IInv, Typed, Patterns
  <2>2. /\ w \in Seq(Tokens) /\ Slash \notin Globs /\ Empty \notin Names \cup Wild
        /\ \A i \in 1..(Len(w) - 1) : w[i] = Slash \/ w[i + 1] = Slash
    BY <2>1, ExcludeAssumption DEF PatternTypes, Tokens
  <2>3. PICK f : Solved(w, f)
    BY <2>2, ParseUnfolds
  <2>4. PICK n \in Nat : n = Len(w)
    BY <2>2
  <2>5. PICK lo \in 1..(n + 1) : lo = Start(w)
    BY <2>3, <2>4 DEF Solved
  <2>6. CASE Text(w) = {}
    <3>1. lo = n + 1
      BY <2>3, <2>4, <2>5, <2>6 DEF Text, Solved
    <3>2. SlashAt(w, n + 1) = {} /\ Field(w, n + 1, n + 1) = Empty
      BY <2>4 DEF SlashAt, Field
    <3>3. Split(w, f, n + 1) = <<Component(Empty, FALSE)>>
      BY <2>4, <3>2 DEF Split
    <3> QED
      BY <2>1, <2>3, <2>4, <2>5, <2>6, <3>1, <3>3 DEF Solved
  <2>7. CASE Text(w) # {}
    <3>1. PICK hi \in Text(w) : \A k \in Text(w) : k <= hi
      <4>1. Text(w) \in SUBSET (1..n)
        BY <2>4 DEF Text
      <4> QED
        BY <2>4, <2>7, <4>1, GreatestExists
    <3>2. /\ hi \in 1..n /\ w[hi] # Slash /\ \A k \in (hi + 1)..n : w[k] = Slash
      BY <2>4, <3>1 DEF Text
    <3>3. lo <= hi /\ lo \in Text(w) /\ Text(w) \subseteq lo..hi
      <4>1. \A k \in Text(w) : k \in 1..n /\ ~(k \in 1..(lo - 1))
        BY <2>3, <2>4, <2>5 DEF Text, Solved
      <4>2. \A k \in Text(w) : lo <= k
        BY <2>5, <4>1
      <4>3. lo <= hi /\ lo \in 1..n
        BY <2>5, <3>1, <3>2, <4>2
      <4>4. lo \in Text(w)
        BY <2>3, <2>4, <2>5, <4>3 DEF Text, Solved
      <4>5. ASSUME NEW k \in Text(w) PROVE k \in lo..hi
        <5>1. k \in Nat /\ k <= hi /\ lo <= k
          BY <2>4, <3>1, <4>1, <4>2
        <5> QED
          BY <2>5, <3>2, <5>1
      <4> QED
        BY <4>3, <4>4, <4>5
    <3>4. /\ Joined(f[lo]) = SubSeq(w, lo, hi)
          /\ f[lo][Len(f[lo])].isdir <=> hi < Len(w)
      <4>1. lo \in 1..hi /\ hi \in 1..Len(w)
        BY <2>4, <2>5, <3>2, <3>3
      <4> QED
        BY <2>2, <2>3, <2>4, <3>2, <4>1, SplitRight DEF Solved
    <3>5. storage[p] = f[lo]
      BY <2>1, <2>3, <2>5 DEF Solved
    <3> QED
      BY <2>7, <3>1, <3>3, <3>4, <3>5 DEF DirOnly
  <2> QED
    BY <2>6, <2>7
<1>2. Init => Parsed
  BY DEF Init, Parsed, Patterns
<1>3. IInv /\ Parsed => SplitAsWritten
  BY <1>1
<1> QED
  BY Invariant, ParsedStep, <1>2, <1>3, PTL DEF Spec
=============================================================================
