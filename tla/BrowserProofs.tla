--------------------------- MODULE BrowserProofs ---------------------------
(***************************************************************************)
(* What is on the screen is what a key acts on, for any tree and any          *)
(* sequence of keys, deletions and interference: the list, the cursor, the    *)
(* path in the header, and what an answer to the question may remove.         *)
(* Before that, what the arena is like that a scan leaves and delete_entry    *)
(* edits: how its lists, its parent links, its totals and the branches below  *)
(* its entries belong together, and what of them one deletion changes.        *)
(***************************************************************************)
EXTENDS Browser, MemSinkProofs

----------------------------------------------------------------------------
(* The shape of the arena: lists in the order of the ids, parents before their *)
(* children.                                                                 *)
Increasing(s) == \A j, k \in 1..Len(s) : j < k => s[j] < s[k]

KidsOK(ns, d) ==
  /\ ns[d].kids \in Seq((d + 1)..Len(ns)) /\ Increasing(ns[d].kids)
  /\ \A k \in 1..Len(ns[d].kids) :
       ns[ns[d].kids[k]].etype \in {"Dir", "Link"} => ns[ns[d].kids[k]].parent = d

Shape(ns) ==
  /\ ns \in Seq(NodeType)
  /\ \A i \in 1..Len(ns) : ns[i].parent \in 0..(i - 1) /\ KidsOK(ns, i)
  /\ ns # <<>> => ns[1].etype = "Dir"

LEMMA ShapeInit == Init => TypeOK /\ Shape(nodes)
<1> SUFFICES ASSUME Init PROVE TypeOK /\ Shape(nodes)
  OBVIOUS
<1>1. TypeOK
  BY SinkAssumption DEF Init, TypeOK, Depth
<1> QED
  BY <1>1 DEF Init, Shape

(* An increasing sequence stays one with a larger number at its end.           *)
LEMMA IncreasingAppend ==
  ASSUME NEW d \in Nat, NEW n \in Nat, NEW s \in Seq((d + 1)..n), Increasing(s),
         NEW m \in Nat, n < m, d < m
  PROVE  Append(s, m) \in Seq((d + 1)..m) /\ Increasing(Append(s, m))
<1> DEFINE t == Append(s, m)
<1>1. Len(s) \in Nat /\ \A k \in 1..Len(s) : s[k] \in (d + 1)..n
  OBVIOUS
<1>2. Len(t) = Len(s) + 1 /\ t[Len(s) + 1] = m /\ \A k \in 1..Len(s) : t[k] = s[k]
  OBVIOUS
<1>3. s \in Seq((d + 1)..m) /\ m \in (d + 1)..m
  BY <1>1
<1>4. t \in Seq((d + 1)..m)
  BY <1>3
<1> HIDE DEF t
<1>5. Increasing(t)
  <2> SUFFICES ASSUME NEW j \in 1..Len(t), NEW k \in 1..Len(t), j < k
               PROVE  t[j] < t[k]
    BY DEF Increasing
  <2>1. j \in 1..Len(s)
    BY <1>1, <1>2
  <2>2. CASE k \in 1..Len(s)
    BY <1>2, <2>1, <2>2 DEF Increasing
  <2>3. CASE k = Len(s) + 1
    BY <1>1, <1>2, <2>1, <2>3
  <2>4. k \in 1..Len(s) \/ k = Len(s) + 1
    BY <1>1, <1>2
  <2> QED
    BY <2>2, <2>3, <2>4
<1> QED
  BY <1>4, <1>5 DEF t

LEMMA NoKids == ASSUME NEW ns, NEW d, ns[d].kids = <<>> PROVE KidsOK(ns, d)
<1>1. <<>> \in Seq((d + 1)..Len(ns)) /\ Len(<<>>) = 0
  OBVIOUS
<1> QED
  BY <1>1 DEF KidsOK, Increasing

LEMMA ShapeStep == TypeOK /\ Shape(nodes) /\ [Next]_vars => Shape(nodes')
<1> SUFFICES ASSUME TypeOK, Shape(nodes), [Next]_vars PROVE Shape(nodes')
  OBVIOUS
<1>1. TypeOK' /\ nodes' \in Seq(NodeType) /\ Len(nodes) \in Nat /\ Len(nodes') \in Nat
      /\ Ids = 1..Len(nodes) /\ Ids' = 1..Len(nodes')
  <2>1. TypeOK'
    BY TypeStep
  <2>2. nodes \in Seq(NodeType) /\ nodes' \in Seq(NodeType)
    BY <2>1 DEF TypeOK
  <2> QED
    BY <2>1, <2>2, LenProperties DEF Ids
<1>2. CASE UNCHANGED vars
  BY <1>2 DEF vars
<1>3. CASE nodes = <<>> /\ Next /\ ~UNCHANGED vars
  <2>1. PICK b \in Blocks, v \in Devs : CreateRoot(b, v)
    BY <1>3, FirstStep
  <2>2. Len(nodes') = 1 /\ nodes'[1] = Node("Dir", b, NoEntry, DevId(v))
    BY <2>1, CreateRootEffect
  <2>3. nodes'[1].etype = "Dir" /\ nodes'[1].parent = 0 /\ nodes'[1].kids = <<>>
    BY <2>2 DEF Node, NoEntry
  <2>4. KidsOK(nodes', 1)
    BY <2>3, NoKids
  <2> QED
    BY <1>1, <2>2, <2>3, <2>4 DEF Shape
<1>4. CASE nodes # <<>> /\ NoneMore
  <2>1. Len(nodes') = Len(nodes)
    BY <1>1, <1>4 DEF NoneMore
  <2>2. ASSUME NEW i \in Ids PROVE nodes'[i].parent \in 0..(i - 1) /\ KidsOK(nodes', i)
    <3>1. KidsOK(nodes, i) /\ nodes[i].parent \in 0..(i - 1)
      BY <1>1 DEF Shape
    <3>2. /\ nodes'[i].kids = nodes[i].kids /\ nodes'[i].parent = nodes[i].parent
          /\ \A c \in Ids : nodes'[c].parent = nodes[c].parent
                            /\ nodes'[c].etype = nodes[c].etype
      BY <1>4 DEF NoneMore, SameEntry
    <3>3. \A k \in 1..Len(nodes[i].kids) : nodes[i].kids[k] \in Ids
      BY <1>1, <3>1 DEF KidsOK
    <3> QED
      BY <2>1, <3>1, <3>2, <3>3 DEF KidsOK
  <2>3. 1 \in Ids /\ nodes'[1].etype = "Dir"
    BY <1>1, <1>4 DEF NoneMore, SameEntry, Shape
  <2> QED
    BY <1>1, <2>1, <2>2, <2>3 DEF Shape
<1>5. ASSUME nodes # <<>>, Depth > 0, NEW e, NEW v, OneMore(e, v) PROVE Shape(nodes')
  <2> DEFINE n == Len(nodes)
             t == Top.id
  <2>1. t \in 1..n /\ NewId = n + 1 /\ n \in Nat
    BY <1>1, <1>5, TopType DEF NewId
  <2>2. Len(nodes') = n + 1
    BY <1>1, <1>5, <2>1 DEF OneMore
  <2>3. /\ nodes'[n + 1].parent \in {0, t} /\ nodes'[n + 1].kids = <<>>
        /\ nodes'[n + 1].etype = e /\ nodes'[n + 1].parent = ParentField(e, t)
    BY <1>5, <2>1 DEF OneMore, ParentField, NoEntry
  <2>4. \A i \in 1..n :
          /\ nodes'[i].parent = nodes[i].parent /\ nodes'[i].etype = nodes[i].etype
          /\ nodes'[i].kids = IF i = t THEN Append(nodes[i].kids, n + 1)
                                       ELSE nodes[i].kids
    BY <1>1, <1>5, <2>1 DEF OneMore, SameEntry
  <2>5. \A i \in 1..n : KidsOK(nodes, i) /\ nodes[i].parent \in 0..(i - 1)
    BY DEF Shape
  <2> HIDE DEF n, t
  <2>6. ASSUME NEW i \in 1..n PROVE KidsOK(nodes', i)
    <3> DEFINE s == nodes[i].kids
    <3>1. /\ s \in Seq((i + 1)..n) /\ Increasing(s)
          /\ \A k \in 1..Len(s) :
               nodes[s[k]].etype \in {"Dir", "Link"} => nodes[s[k]].parent = i
      BY <2>5 DEF KidsOK, n
    <3> HIDE DEF s
    <3>2. Len(s) \in Nat /\ \A k \in 1..Len(s) : s[k] \in (i + 1)..n /\ s[k] \in 1..n
      BY <2>1, <3>1
    <3>3. CASE i # t
      <4>1. nodes'[i].kids = s /\ s \in Seq((i + 1)..(n + 1))
        BY <2>1, <2>4, <3>1, <3>2, <3>3 DEF s
      <4> QED
        BY <2>2, <2>4, <3>1, <3>2, <4>1 DEF KidsOK
    <3>4. CASE i = t
      <4>1. nodes'[i].kids = Append(s, n + 1)
        BY <2>4, <3>4 DEF s
      <4>2. /\ Append(s, n + 1) \in Seq((i + 1)..(n + 1))
            /\ Increasing(Append(s, n + 1))
        BY <2>1, <3>1, IncreasingAppend
      <4>3. /\ Len(Append(s, n + 1)) = Len(s) + 1
            /\ Append(s, n + 1)[Len(s) + 1] = n + 1
            /\ \A k \in 1..Len(s) : Append(s, n + 1)[k] = s[k]
        BY <3>1
      <4>4. ASSUME NEW k \in 1..(Len(s) + 1),
                   nodes'[Append(s, n + 1)[k]].etype \in {"Dir", "Link"}
            PROVE  nodes'[Append(s, n + 1)[k]].parent = i
        <5>1. CASE k = Len(s) + 1
          BY <2>3, <3>4, <4>3, <4>4, <5>1 DEF ParentField
        <5>2. CASE k \in 1..Len(s)
          BY <2>4, <3>1, <3>2, <4>3, <4>4, <5>2
        <5> QED
          BY <3>2, <5>1, <5>2
      <4> QED
        BY <2>2, <4>1, <4>2, <4>3, <4>4 DEF KidsOK
    <3> QED
      BY <3>3, <3>4
  <2>7. KidsOK(nodes', n + 1)
    BY <2>3, NoKids
  <2>8. \A i \in 1..(n + 1) : nodes'[i].parent \in 0..(i - 1) /\ KidsOK(nodes', i)
    <3> SUFFICES ASSUME NEW i \in 1..(n + 1)
                 PROVE  nodes'[i].parent \in 0..(i - 1) /\ KidsOK(nodes', i)
      OBVIOUS
    <3>1. CASE i \in 1..n
      BY <2>4, <2>5, <2>6, <3>1
    <3>2. CASE i = n + 1
      BY <2>1, <2>3, <2>7, <3>2
    <3> QED
      BY <2>1, <3>1, <3>2
  <2>9. nodes'[1].etype = "Dir"
    BY <1>5, <2>1, <2>4 DEF Shape
  <2> QED
    BY <1>1, <2>2, <2>8, <2>9 DEF Shape
<1> QED
  BY <1>2, <1>3, <1>4, <1>5, Steps

----------------------------------------------------------------------------
(* unlink_from_parent: the list without the target.                             *)
LEMMA WithoutOne ==
  ASSUME NEW S \in SUBSET Nat, NEW s \in Seq(S), Increasing(s), NEW t
  PROVE  /\ RemoveFirst(s, t) \in Seq(S) /\ Increasing(RemoveFirst(s, t))
         /\ ToSet(RemoveFirst(s, t)) \subseteq ToSet(s)
<1>1. CASE ~\E i \in 1..Len(s) : s[i] = t
  BY <1>1 DEF RemoveFirst
<1>2. CASE \E i \in 1..Len(s) : s[i] = t
  <2>1. PICK m \in 1..Len(s) : s[m] = t
    BY <1>2
  <2> DEFINE r == RemoveFirst(s, t)
  <2>2. \A k \in 1..Len(s) : s[k] \in Nat
    BY ElementOfSeq
  <2>3. \A i \in 1..(m - 1) : s[i] # s[m]
    <3>1. \A i \in 1..(m - 1) : i \in 1..Len(s) /\ i < m
      BY <2>1
    <3> QED
      BY <2>1, <2>2, <3>1 DEF Increasing
  <2>4. /\ r \in Seq(S) /\ Len(r) = Len(s) - 1 /\ Len(s) \in Nat
        /\ \A k \in 1..(Len(s) - 1) : r[k] = IF k < m THEN s[k] ELSE s[k + 1]
    BY <2>1, <2>3, RemovesOne
  <2> HIDE DEF r
  <2>5. ASSUME NEW j \in 1..Len(r), NEW k \in 1..Len(r), j < k PROVE r[j] < r[k]
    <3> DEFINE at(i) == IF i < m THEN i ELSE i + 1
    <3>1. at(j) \in 1..Len(s) /\ at(k) \in 1..Len(s) /\ at(j) < at(k)
      BY <2>4, <2>5
    <3>2. r[j] = s[at(j)] /\ r[k] = s[at(k)]
      BY <2>4
    <3> QED
      BY <3>1, <3>2 DEF Increasing
  <2>6. ToSet(r) \subseteq ToSet(s)
    <3>1. ToSet(r) = {r[k] : k \in 1..Len(r)} /\ ToSet(s) = {s[k] : k \in 1..Len(s)}
      BY <2>4 DEF ToSet
    <3>2. \A k \in 1..Len(r) : \E j \in 1..Len(s) : r[k] = s[j]
      BY <2>4
    <3> QED
      BY <3>1, <3>2
  <2> QED
    BY <2>4, <2>5, <2>6 DEF Increasing, r
<1> QED
  BY <1>1, <1>2

----------------------------------------------------------------------------
(* The way up.  The recursive function of Chain exists, as parents come before  *)
(* their children; so does that of Branch, as children come after.              *)
Climb(ns, f, i) == IF i = NoEntry THEN <<>> ELSE Append(f[ns[i].parent], i)

LEMMA ChainUnfolds ==
  ASSUME NEW ns, Shape(ns)
  PROVE  /\ Chain(ns, 0) = <<>>
         /\ \A i \in 1..Len(ns) : Chain(ns, i) = Append(Chain(ns, ns[i].parent), i)
<1>n. PICK n \in Nat : n = Len(ns)
  BY DEF Shape
<1>p. \A i \in 1..n : ns[i].parent \in 0..(i - 1)
  BY <1>n DEF Shape
<1> DEFINE Solves(f, k) == \A i \in 0..k : f[i] = Climb(ns, f, i)
           Solved == {k \in Nat : k <= n => \E f : Solves(f, k)}
<1>l. ASSUME NEW i \in 0..n, NEW f, NEW g, \A j \in 0..(i - 1) : f[j] = g[j]
      PROVE  Climb(ns, f, i) = Climb(ns, g, i)
  BY <1>p, <1>l DEF Climb, NoEntry
<1>1. 0 \in Solved
  <2> DEFINE f == [i \in {0} |-> <<>>]
  <2>1. Solves(f, 0)
    BY DEF Climb, NoEntry
  <2> QED
    BY <2>1
<1>2. ASSUME NEW k \in Nat, k \in Solved PROVE k + 1 \in Solved
  <2>1. SUFFICES ASSUME k + 1 <= n PROVE \E g : Solves(g, k + 1)
    OBVIOUS
  <2>2. PICK f : Solves(f, k)
    BY <1>2, <2>1
  <2> DEFINE g == [i \in 0..(k + 1) |-> IF i = k + 1 THEN Climb(ns, f, i) ELSE f[i]]
  <2>3. g[k + 1] = Climb(ns, f, k + 1) /\ \A i \in 0..k : g[i] = f[i]
    <3> HIDE DEF Solves
    <3> QED  OBVIOUS
  <2> HIDE DEF g
  <2>4. ASSUME NEW i \in 0..(k + 1) PROVE g[i] = Climb(ns, g, i)
    <3>1. i \in 0..n /\ \A j \in 0..(i - 1) : f[j] = g[j]
      BY <2>1, <2>3
    <3>2. Climb(ns, f, i) = Climb(ns, g, i)
      <4> HIDE DEF Solves
      <4> QED  BY <1>l, <3>1
    <3>3. i = k + 1 \/ i \in 0..k
      OBVIOUS
    <3> QED
      BY <2>2, <2>3, <3>2, <3>3
  <2> QED
    BY <2>4
<1>3. n \in Solved
  <2> HIDE DEF Solved
  <2> QED  BY <1>1, <1>2, SetInduction
<1>4. PICK f : Solves(f, n)
  BY <1>3
<1> DEFINE h == [i \in 0..n |-> f[i]]
<1>5. \A i \in 0..n : h[i] = Climb(ns, h, i)
  <2> SUFFICES ASSUME NEW i \in 0..n PROVE h[i] = Climb(ns, h, i)
    OBVIOUS
  <2>1. f[i] = Climb(ns, f, i)
    BY <1>4
  <2>2. \A j \in 0..(i - 1) : f[j] = h[j]
    OBVIOUS
  <2> HIDE DEF h, Solves
  <2>3. Climb(ns, f, i) = Climb(ns, h, i)
    BY <1>l, <2>2
  <2> QED
    BY <2>1, <2>3 DEF h
<1>6. h = [i \in 0..n |-> Climb(ns, h, i)]
  <2>1. \A i \in 0..n : h[i] = Climb(ns, h, i)
    BY <1>5
  <2> QED
    BY <2>1
<1> HIDE DEF h, Solves, Solved
<1> DEFINE c == CHOOSE climb : climb = [i \in 0..Len(ns) |-> Climb(ns, climb, i)]
<1>7. c = [i \in 0..n |-> Climb(ns, c, i)]
  BY <1>n, <1>6
<1>8. \A i : Chain(ns, i) = c[i]
  BY DEF Chain, Climb
<1> HIDE DEF c
<1>9. ASSUME NEW i \in 0..n PROVE c[i] = Climb(ns, c, i)
  BY <1>7
<1>10. c[0] = <<>>
  BY <1>9 DEF Climb, NoEntry
<1>11. ASSUME NEW i \in 1..n PROVE c[i] = Append(c[ns[i].parent], i)
  <2>1. i \in 0..n /\ i # 0
    OBVIOUS
  <2>2. c[i] = Climb(ns, c, i)
    BY <1>9, <2>1
  <2> QED
    BY <2>1, <2>2 DEF Climb, NoEntry
<1> QED
  BY <1>n, <1>8, <1>10, <1>11

LEMMA ChainType ==
  ASSUME NEW ns, Shape(ns) PROVE \A i \in 0..Len(ns) : Chain(ns, i) \in Seq(Nat)
<1>n. PICK n \in Nat : n = Len(ns) /\ \A i \in 1..n : ns[i].parent \in 0..(i - 1)
  BY DEF Shape
<1> DEFINE Typed == {k \in Nat : \A i \in 0..n : i <= k => Chain(ns, i) \in Seq(Nat)}
<1>0. Chain(ns, 0) = <<>> /\ \A i \in 1..n : Chain(ns, i) = Append(Chain(ns, ns[i].parent), i)
  BY <1>n, ChainUnfolds
<1>1. 0 \in Typed
  <2>1. Chain(ns, 0) \in Seq(Nat)
    <3>1. <<>> \in Seq(Nat)
      OBVIOUS
    <3> QED
      BY <1>0, <3>1
  <2>2. \A i \in 0..n : i <= 0 => i = 0
    OBVIOUS
  <2> QED
    BY <2>1, <2>2
<1>2. ASSUME NEW k \in Nat, k \in Typed PROVE k + 1 \in Typed
  <2> SUFFICES ASSUME NEW i \in 0..n, i <= k + 1 PROVE Chain(ns, i) \in Seq(Nat)
    OBVIOUS
  <2>1. CASE i <= k
    BY <1>2, <2>1
  <2>2. CASE i = k + 1
    <3>1. i \in 1..n /\ ns[i].parent \in 0..n /\ ns[i].parent <= k
      BY <1>n, <2>2
    <3>2. Chain(ns, ns[i].parent) \in Seq(Nat)
      BY <1>2, <3>1
    <3>3. Append(Chain(ns, ns[i].parent), i) \in Seq(Nat)
      BY <3>2, AppendProperties
    <3> QED
      BY <1>0, <3>1, <3>3
  <2> QED
    BY <2>1, <2>2
<1>3. n \in Typed
  <2> HIDE DEF Typed
  <2> QED  BY <1>1, <1>2, SetInduction
<1> QED
  BY <1>n, <1>3

(* Only the parent links matter.                                                *)
LEMMA ChainSame ==
  ASSUME NEW ns, Shape(ns), NEW ms, Shape(ms), Len(ms) = Len(ns),
         \A i \in 1..Len(ns) : ms[i].parent = ns[i].parent
  PROVE  \A i \in 0..Len(ns) : Chain(ms, i) = Chain(ns, i)
<1>n. PICK n \in Nat : n = Len(ns) /\ \A i \in 1..n : ns[i].parent \in 0..(i - 1)
  BY DEF Shape
<1> DEFINE Same == {k \in Nat : \A i \in 0..n : i <= k => Chain(ms, i) = Chain(ns, i)}
<1>0. /\ Chain(ns, 0) = <<>> /\ Chain(ms, 0) = <<>>
      /\ \A i \in 1..n : /\ Chain(ns, i) = Append(Chain(ns, ns[i].parent), i)
                         /\ Chain(ms, i) = Append(Chain(ms, ns[i].parent), i)
  <2>1. /\ Chain(ns, 0) = <<>>
        /\ \A i \in 1..n : Chain(ns, i) = Append(Chain(ns, ns[i].parent), i)
    BY <1>n, ChainUnfolds
  <2>2. /\ Chain(ms, 0) = <<>>
        /\ \A i \in 1..n : Chain(ms, i) = Append(Chain(ms, ms[i].parent), i)
    BY <1>n, ChainUnfolds
  <2> QED
    BY <1>n, <2>1, <2>2
<1>1. 0 \in Same
  <2>1. \A i \in 0..n : i <= 0 => i = 0
    OBVIOUS
  <2> QED
    BY <1>0, <2>1
<1>2. ASSUME NEW k \in Nat, k \in Same PROVE k + 1 \in Same
  <2> SUFFICES ASSUME NEW i \in 0..n, i <= k + 1 PROVE Chain(ms, i) = Chain(ns, i)
    OBVIOUS
  <2>1. CASE i <= k
    BY <1>2, <2>1
  <2>2. CASE i = k + 1
    <3>1. i \in 1..n /\ ns[i].parent \in 0..n /\ ns[i].parent <= k
      BY <1>n, <2>2
    <3>2. Chain(ms, ns[i].parent) = Chain(ns, ns[i].parent)
      BY <1>2, <3>1
    <3> QED
      BY <1>0, <3>1, <3>2
  <2> QED
    BY <2>1, <2>2
<1>3. n \in Same
  <2> HIDE DEF Same
  <2> QED  BY <1>1, <1>2, SetInduction
<1> QED
  BY <1>n, <1>3

----------------------------------------------------------------------------
(* The branch of an entry holds the ids from its own on.                        *)
Under(ns, f, i) == {i} \cup UNION {f[k] : k \in ToSet(ns[i].kids)}

LEMMA BranchUnfolds ==
  ASSUME NEW ns, Shape(ns)
  PROVE  \A i \in 1..Len(ns) :
           Branch(ns, i) = {i} \cup UNION {Branch(ns, k) : k \in ToSet(ns[i].kids)}
<1>n. PICK n \in Nat : n = Len(ns)
  BY DEF Shape
<1>k. ASSUME NEW i \in 1..n PROVE ToSet(ns[i].kids) \subseteq (i + 1)..n
  <2>1. ns[i].kids \in Seq((i + 1)..n)
    BY <1>n DEF Shape, KidsOK
  <2> QED
    BY <2>1 DEF ToSet
<1> DEFINE Solves(f, k) == \A i \in (n + 1 - k)..n : f[i] = Under(ns, f, i)
           Solved == {k \in Nat : k <= n => \E f : Solves(f, k)}
<1>l. ASSUME NEW i \in 1..n, NEW f, NEW g, \A j \in (i + 1)..n : f[j] = g[j]
      PROVE  Under(ns, f, i) = Under(ns, g, i)
  <2>1. \A k \in ToSet(ns[i].kids) : f[k] = g[k]
    BY <1>k, <1>l
  <2> QED
    BY <2>1 DEF Under
<1>1. 0 \in Solved
  OBVIOUS
<1>2. ASSUME NEW k \in Nat, k \in Solved PROVE k + 1 \in Solved
  <2>1. SUFFICES ASSUME k + 1 <= n PROVE \E g : Solves(g, k + 1)
    OBVIOUS
  <2>2. PICK f : Solves(f, k)
    BY <1>2, <2>1
  <2>3. PICK m \in 1..n : m = n - k /\ m = n + 1 - (k + 1) /\ m + 1 = n + 1 - k
    BY <2>1
  <2> DEFINE g == [i \in m..n |-> IF i = m THEN Under(ns, f, m) ELSE f[i]]
  <2>4. g[m] = Under(ns, f, m) /\ \A i \in (m + 1)..n : g[i] = f[i]
    <3> HIDE DEF Solves
    <3> QED  OBVIOUS
  <2> HIDE DEF g
  <2>5. ASSUME NEW i \in m..n PROVE g[i] = Under(ns, g, i)
    <3>1. i \in 1..n /\ \A j \in (i + 1)..n : f[j] = g[j]
      BY <2>4
    <3>2. Under(ns, f, i) = Under(ns, g, i)
      <4> HIDE DEF Solves
      <4> QED  BY <1>l, <3>1
    <3>3. i = m \/ i \in (m + 1)..n
      OBVIOUS
    <3> QED
      BY <2>2, <2>3, <2>4, <3>2, <3>3
  <2> QED
    BY <2>3, <2>5
<1>3. n \in Solved
  <2> HIDE DEF Solved
  <2> QED  BY <1>1, <1>2, SetInduction
<1>4. PICK f : Solves(f, n)
  BY <1>3
<1> DEFINE h == [i \in 1..n |-> f[i]]
<1>5. \A i \in 1..n : h[i] = Under(ns, h, i)
  <2> SUFFICES ASSUME NEW i \in 1..n PROVE h[i] = Under(ns, h, i)
    OBVIOUS
  <2>1. f[i] = Under(ns, f, i)
    BY <1>4
  <2>2. \A j \in (i + 1)..n : f[j] = h[j]
    OBVIOUS
  <2> HIDE DEF h, Solves
  <2>3. Under(ns, f, i) = Under(ns, h, i)
    BY <1>l, <2>2
  <2> QED
    BY <2>1, <2>3 DEF h
<1>6. h = [i \in 1..n |-> Under(ns, h, i)]
  <2>1. \A i \in 1..n : h[i] = Under(ns, h, i)
    BY <1>5
  <2> QED
    BY <2>1
<1> HIDE DEF h, Solves, Solved
<1> DEFINE b == CHOOSE sub : sub = [i \in 1..Len(ns) |-> Under(ns, sub, i)]
<1>7. b = [i \in 1..n |-> Under(ns, b, i)]
  BY <1>n, <1>6
<1>8. \A i : Branch(ns, i) = b[i]
  BY DEF Branch, Under
<1> HIDE DEF b
<1>9. ASSUME NEW i \in 1..n PROVE b[i] = Under(ns, b, i)
  BY <1>7
<1> QED
  BY <1>n, <1>8, <1>9 DEF Under

LEMMA BranchType ==
  ASSUME NEW ns, Shape(ns), NEW i \in 1..Len(ns)
  PROVE  /\ i \in Branch(ns, i) /\ Branch(ns, i) \subseteq 1..Len(ns)
         /\ Cardinality(Branch(ns, i)) \in Nat
<1>n. PICK n \in Nat : n = Len(ns)
  BY DEF Shape
<1> DEFINE Typed == {k \in Nat : \A j \in 1..n : j >= n + 1 - k => Branch(ns, j) \subseteq 1..n}
<1>1. 0 \in Typed
  OBVIOUS
<1>2. ASSUME NEW k \in Nat, k \in Typed PROVE k + 1 \in Typed
  <2> SUFFICES ASSUME NEW j \in 1..n, j >= n + 1 - (k + 1) PROVE Branch(ns, j) \subseteq 1..n
    OBVIOUS
  <2>1. ns[j].kids \in Seq((j + 1)..n)
    BY <1>n DEF Shape, KidsOK
  <2>2. \A c \in ToSet(ns[j].kids) : c \in 1..n /\ c >= n + 1 - k
    BY <2>1 DEF ToSet
  <2>3. \A c \in ToSet(ns[j].kids) : Branch(ns, c) \subseteq 1..n
    BY <1>2, <2>2
  <2>4. Branch(ns, j) = {j} \cup UNION {Branch(ns, c) : c \in ToSet(ns[j].kids)}
    BY <1>n, BranchUnfolds
  <2> QED
    BY <2>3, <2>4
<1>3. n \in Typed
  <2> HIDE DEF Typed
  <2> QED  BY <1>1, <1>2, SetInduction
<1>4. Branch(ns, i) \subseteq 1..n
  BY <1>n, <1>3
<1>5. i \in Branch(ns, i)
  BY BranchUnfolds
<1>6. IsFiniteSet(Branch(ns, i))
  BY <1>4, UpTo, FS_Subset
<1> QED
  BY <1>n, <1>4, <1>5, <1>6, FS_CardinalityType

----------------------------------------------------------------------------
(* delete_entry keeps the shape: the directory's list loses the target, totals  *)
(* change, and nothing else does.                                               *)
SameLinks(ns, ms, d, t) ==
  /\ Len(ms) = Len(ns)
  /\ \A i \in 1..Len(ns) :
       /\ ms[i].parent = ns[i].parent /\ ms[i].etype = ns[i].etype
       /\ ms[i].kids = IF i = d THEN RemoveFirst(ns[d].kids, t) ELSE ns[i].kids

LEMMA NodeFieldTypes ==
  ASSUME NEW n \in NodeType
  PROVE  n.blocks \in 0..MaxU64 /\ n.items \in 0..MaxU32 /\ n.kids \in Seq(Nat)
BY DEF NodeType

LEMMA LessType == ASSUME NEW w \in Nat, NEW n \in 0..w, NEW k \in Nat PROVE Less(n, k) \in 0..w
BY DEF Less

LEMMA ListWithout ==
  ASSUME NEW ns, Shape(ns), NEW d \in 1..Len(ns), NEW t
  PROVE  /\ RemoveFirst(ns[d].kids, t) \in Seq((d + 1)..Len(ns))
         /\ Increasing(RemoveFirst(ns[d].kids, t))
         /\ ToSet(RemoveFirst(ns[d].kids, t)) \subseteq ToSet(ns[d].kids)
         /\ RemoveFirst(ns[d].kids, t) \in Seq(Nat)
<1>1. ns[d].kids \in Seq((d + 1)..Len(ns)) /\ Increasing(ns[d].kids)
  BY DEF Shape, KidsOK
<1>2. (d + 1)..Len(ns) \in SUBSET Nat
  BY DEF Shape
<1>3. /\ RemoveFirst(ns[d].kids, t) \in Seq((d + 1)..Len(ns))
      /\ Increasing(RemoveFirst(ns[d].kids, t))
      /\ ToSet(RemoveFirst(ns[d].kids, t)) \subseteq ToSet(ns[d].kids)
  BY <1>1, <1>2, WithoutOne
<1> QED
  BY <1>2, <1>3

LEMMA PrunedEffect ==
  ASSUME NEW ns, Shape(ns), NEW d \in 1..Len(ns), NEW t \in 1..Len(ns)
  PROVE  Pruned(ns, d, t) \in Seq(NodeType) /\ SameLinks(ns, Pruned(ns, d, t), d, t)
<1>n. PICK n \in Nat : n = Len(ns) /\ ns \in Seq(NodeType)
  BY DEF Shape
<1> DEFINE r == RemoveFirst(ns[d].kids, t)
           u == Unlink(ns, d, t)
           foot == SubtreeTotals(ns, t)
           cut(i) == [u[i] EXCEPT !.blocks = Less(@, foot.blocks), !.items = Less(@, foot.items)]
           C == ToSet(Chain(u, d))
           p == [i \in 1..Len(u) |-> IF i \in C THEN cut(i) ELSE u[i]]
<1>1. r \in Seq(Nat)
  BY ListWithout
<1>2. foot.blocks \in Nat /\ foot.items \in Nat
  <2>1. Cardinality(Branch(ns, t)) \in Nat
    BY BranchType
  <2>2. SatItems(Cardinality(Branch(ns, t))) \in 0..MaxU32
    BY <2>1, Widths
  <2>3. ns[t] \in NodeType
    BY <1>n, ElementOfSeq
  <2>4. ns[t].blocks \in 0..MaxU64
    BY <2>3, NodeFieldTypes
  <2> QED
    BY <2>2, <2>4 DEF SubtreeTotals
<1> HIDE DEF r, foot
<1>3. /\ Len(u) = n /\ u \in Seq(NodeType)
      /\ \A i \in 1..n : /\ u[i] \in NodeType /\ u[i].parent = ns[i].parent
                         /\ u[i].etype = ns[i].etype
                         /\ u[i].kids = IF i = d THEN r ELSE ns[i].kids
  <2> DEFINE e == [ns[d] EXCEPT !.kids = r]
  <2>1. ns[d] \in NodeType
    BY <1>n, ElementOfSeq
  <2>2. e \in NodeType /\ e.parent = ns[d].parent /\ e.etype = ns[d].etype /\ e.kids = r
    BY <1>1, <2>1 DEF NodeType
  <2>3. u = [ns EXCEPT ![d] = e]
    BY DEF Unlink, r
  <2> HIDE DEF e, u
  <2>4. /\ u \in Seq(NodeType) /\ Len(u) = n
        /\ \A i \in 1..n : u[i] = IF i = d THEN e ELSE ns[i]
    BY <1>n, <2>2, <2>3, ExceptSeq
  <2> QED
    BY <1>n, <2>2, <2>4, ElementOfSeq
<1>4. Pruned(ns, d, t) = p
  BY DEF Pruned, Subtract, foot
<1> HIDE DEF u, C
<1>5. ASSUME NEW i \in 1..n
      PROVE  /\ cut(i) \in NodeType /\ cut(i).parent = u[i].parent
             /\ cut(i).etype = u[i].etype /\ cut(i).kids = u[i].kids
  <2>1. u[i] \in NodeType
    BY <1>3
  <2>2. u[i].blocks \in 0..MaxU64 /\ u[i].items \in 0..MaxU32
    BY <2>1, NodeFieldTypes
  <2>3. Less(u[i].blocks, foot.blocks) \in 0..MaxU64 /\ Less(u[i].items, foot.items) \in 0..MaxU32
    BY <1>2, <2>2, LessType, SinkAssumption
  <2> QED
    BY <2>1, <2>3 DEF NodeType
<1> HIDE DEF cut
<1>6. p \in Seq(NodeType) /\ Len(p) = n /\ \A i \in 1..n : p[i] = IF i \in C THEN cut(i) ELSE u[i]
  <2>1. p \in [1..n -> NodeType]
    BY <1>3, <1>5
  <2>2. \A i \in 1..n : p[i] = IF i \in C THEN cut(i) ELSE u[i]
    BY <1>3
  <2> HIDE DEF p
  <2> QED
    BY <2>1, <2>2
<1> HIDE DEF p
<1>7. SameLinks(ns, p, d, t)
  BY <1>n, <1>3, <1>5, <1>6 DEF SameLinks, r
<1> QED
  BY <1>4, <1>6, <1>7

LEMMA PrunedShape ==
  ASSUME NEW ns, Shape(ns), NEW d \in 1..Len(ns), NEW t,
         NEW ms \in Seq(NodeType), SameLinks(ns, ms, d, t)
  PROVE  Shape(ms)
<1>1. Len(ns) \in Nat /\ Len(ms) = Len(ns)
  BY DEF Shape, SameLinks
<1>2. ASSUME NEW i \in 1..Len(ns) PROVE ms[i].parent \in 0..(i - 1) /\ KidsOK(ms, i)
  <2> DEFINE old == ns[i].kids
             ks == ms[i].kids
  <2>1. ms[i].parent \in 0..(i - 1)
    BY DEF Shape, SameLinks
  <2>2. /\ old \in Seq((i + 1)..Len(ns)) /\ Increasing(old)
        /\ \A c \in ToSet(old) : ns[c].etype \in {"Dir", "Link"} => ns[c].parent = i
    <3>1. KidsOK(ns, i)
      BY DEF Shape
    <3>2. \A c \in ToSet(old) : \E k \in 1..Len(old) : c = old[k]
      BY <3>1 DEF KidsOK, ToSet
    <3> QED
      BY <3>1, <3>2 DEF KidsOK
  <2>3. ks \in Seq((i + 1)..Len(ns)) /\ Increasing(ks) /\ ToSet(ks) \subseteq ToSet(old)
    <3>1. CASE i = d
      BY <3>1, ListWithout DEF SameLinks
    <3>2. CASE i # d
      BY <2>2, <3>2 DEF SameLinks
    <3> QED
      BY <3>1, <3>2
  <2> HIDE DEF old, ks
  <2>4. ASSUME NEW k \in 1..Len(ks), ms[ks[k]].etype \in {"Dir", "Link"}
        PROVE  ms[ks[k]].parent = i
    <3>1. ks[k] \in 1..Len(ns) /\ ks[k] \in ToSet(old)
      <4>1. ks[k] \in (i + 1)..Len(ns) /\ ks[k] \in ToSet(ks)
        BY <2>3 DEF ToSet
      <4> QED
        BY <1>1, <2>3, <4>1
    <3> QED
      BY <2>2, <2>4, <3>1 DEF SameLinks
  <2> QED
    BY <1>1, <2>1, <2>3, <2>4 DEF KidsOK, ks
<1>3. ms # <<>> => ms[1].etype = "Dir"
  <2> SUFFICES ASSUME ms # <<>> PROVE ms[1].etype = "Dir"
    OBVIOUS
  <2>1. 1 \in 1..Len(ns) /\ ns # <<>>
    BY <1>1
  <2> QED
    BY <2>1 DEF Shape, SameLinks
<1> QED
  BY <1>1, <1>2, <1>3 DEF Shape

----------------------------------------------------------------------------
(* The directories in the header are the way down from the root, both by the    *)
(* lists and by the parent links.                                              *)
Trail(ns, ps, d) ==
  /\ d \in 1..Len(ns) /\ ps \in Seq(1..Len(ns))
  /\ Chain(ns, d) = Append(ps, d)
  /\ Append(ps, d)[1] = 1 /\ Increasing(Append(ps, d))
  /\ \A k \in 1..Len(ps) : Append(ps, d)[k + 1] \in ToSet(ns[Append(ps, d)[k]].kids)

LEMMA Appended ==
  ASSUME NEW S, NEW s \in Seq(S), NEW e
  PROVE  /\ Len(s) \in Nat /\ Len(Append(s, e)) = Len(s) + 1 /\ Append(s, e)[Len(s) + 1] = e
         /\ \A k \in 1..Len(s) : Append(s, e)[k] = s[k] /\ s[k] \in S
OBVIOUS

LEMMA FrontOf ==
  ASSUME NEW S, NEW s \in Seq(S), NEW m \in 1..Len(s)
  PROVE  /\ SubSeq(s, 1, m - 1) \in Seq(S) /\ Len(SubSeq(s, 1, m - 1)) = m - 1
         /\ \A k \in 1..(m - 1) : SubSeq(s, 1, m - 1)[k] = s[k]
OBVIOUS

LEMMA AppendedSame ==
  ASSUME NEW s \in Seq(Nat), NEW r \in Seq(Nat), NEW d, NEW e, Append(s, d) = Append(r, e)
  PROVE  s = r /\ d = e
<1>1. Len(s) = Len(r) /\ Len(s) \in Nat
  BY Appended
<1>2. d = e /\ \A k \in 1..Len(s) : s[k] = r[k]
  BY <1>1, Appended
<1> QED
  BY <1>1, <1>2

LEMMA TrailStart == ASSUME NEW ns, Shape(ns), ns # <<>> PROVE Trail(ns, <<>>, 1)
<1>1. 1 \in 1..Len(ns) /\ ns[1].parent = 0
  BY DEF Shape
<1>2. Chain(ns, 1) = Append(<<>>, 1)
  BY <1>1, ChainUnfolds
<1>3. Append(<<>>, 1)[1] = 1 /\ Len(Append(<<>>, 1)) = 1 /\ <<>> \in Seq(1..Len(ns))
  OBVIOUS
<1>4. Increasing(Append(<<>>, 1))
  BY <1>3 DEF Increasing
<1> QED
  BY <1>1, <1>2, <1>3, <1>4 DEF Trail

LEMMA TrailDown ==
  ASSUME NEW ns, Shape(ns), NEW ps, NEW d, Trail(ns, ps, d),
         NEW c \in ToSet(ns[d].kids), ns[c].etype = "Dir"
  PROVE  Trail(ns, Append(ps, d), c)
<1> DEFINE q == Append(ps, d)
<1>1. /\ d \in 1..Len(ns) /\ ps \in Seq(1..Len(ns)) /\ Len(ns) \in Nat
      /\ Chain(ns, d) = q /\ q[1] = 1 /\ Increasing(q)
      /\ \A k \in 1..Len(ps) : q[k + 1] \in ToSet(ns[q[k]].kids)
  BY DEF Trail, Shape
<1>2. Len(ps) \in Nat /\ Len(q) = Len(ps) + 1 /\ q[Len(q)] = d /\ q \in Seq(1..Len(ns))
  BY <1>1, Appended
<1> HIDE DEF q
<1>3. c \in (d + 1)..Len(ns) /\ ns[c].parent = d
  <2>1. KidsOK(ns, d)
    BY <1>1 DEF Shape
  <2>2. ns[d].kids \in Seq((d + 1)..Len(ns))
    BY <2>1 DEF KidsOK
  <2>3. PICK k \in 1..Len(ns[d].kids) : c = ns[d].kids[k]
    BY <2>2 DEF ToSet
  <2> QED
    BY <2>1, <2>2, <2>3, ElementOfSeq DEF KidsOK
<1>4. Chain(ns, c) = Append(q, c)
  <2>1. c \in 1..Len(ns)
    BY <1>1, <1>3
  <2> QED
    BY <1>1, <1>3, <2>1, ChainUnfolds
<1>5. \A k \in 1..Len(q) : q[k] \in 1..d
  <2> SUFFICES ASSUME NEW k \in 1..Len(q) PROVE q[k] \in 1..d
    OBVIOUS
  <2>1. q[k] \in 1..Len(ns)
    BY <1>2, ElementOfSeq
  <2>2. k = Len(q) \/ q[k] < q[Len(q)]
    BY <1>1, <1>2 DEF Increasing
  <2> QED
    BY <1>1, <1>2, <2>1, <2>2
<1>6. q \in Seq((0 + 1)..d) /\ 0 \in Nat /\ d \in Nat /\ c \in Nat /\ d < c /\ 0 < c
  <2>1. q \in Seq(1..d)
    BY <1>2, <1>5
  <2>2. d \in Nat /\ c \in Nat /\ d < c /\ 0 < c /\ (0 + 1)..d = 1..d
    BY <1>1, <1>3
  <2> QED
    BY <2>1, <2>2
<1>7. Increasing(Append(q, c))
  BY <1>1, <1>6, IncreasingAppend
<1>8. /\ Len(Append(q, c)) = Len(q) + 1 /\ Append(q, c)[Len(q) + 1] = c
      /\ \A k \in 1..Len(q) : Append(q, c)[k] = q[k]
  BY <1>2, Appended
<1>9. ASSUME NEW k \in 1..Len(q)
      PROVE  Append(q, c)[k + 1] \in ToSet(ns[Append(q, c)[k]].kids)
  <2>1. CASE k \in 1..Len(ps)
    <3>1. k + 1 \in 1..Len(q)
      BY <1>2, <2>1
    <3> QED
      BY <1>1, <1>8, <2>1, <3>1
  <2>2. CASE k = Len(q)
    BY <1>2, <1>8, <2>2
  <2> QED
    BY <1>2, <2>1, <2>2
<1>10. Append(q, c)[1] = 1 /\ c \in 1..Len(ns)
  BY <1>1, <1>2, <1>3, <1>8
<1>11. Trail(ns, q, c)
  BY <1>2, <1>4, <1>7, <1>9, <1>10 DEF Trail
<1> QED
  BY <1>11 DEF q

LEMMA TrailUp ==
  ASSUME NEW ns, Shape(ns), NEW ps, NEW d, Trail(ns, ps, d), ps # <<>>
  PROVE  Trail(ns, Front(ps), Last(ps))
<1>1. /\ d \in 1..Len(ns) /\ ps \in Seq(1..Len(ns)) /\ Len(ns) \in Nat
      /\ Chain(ns, d) = Append(ps, d)
      /\ Append(ps, d)[1] = 1 /\ Increasing(Append(ps, d))
      /\ \A k \in 1..Len(ps) : Append(ps, d)[k + 1] \in ToSet(ns[Append(ps, d)[k]].kids)
  BY DEF Trail, Shape
<1> DEFINE f == Front(ps)
           e == Last(ps)
           m == Len(ps)
<1>2. m \in Nat /\ m >= 1 /\ e = ps[m] /\ e \in 1..Len(ns)
  BY <1>1 DEF Last
<1>3. f \in Seq(1..Len(ns)) /\ Append(f, e) = ps /\ Len(f) = m - 1
  <2>1. /\ f \in Seq(1..Len(ns)) /\ Len(f) = m - 1
        /\ \A k \in 1..(m - 1) : f[k] = ps[k]
    <3>1. f = SubSeq(ps, 1, m - 1) /\ m \in 1..Len(ps)
      BY <1>2 DEF Front
    <3> HIDE DEF f
    <3> QED
      BY <1>1, <3>1, FrontOf
  <2> HIDE DEF f, e
  <2>2. /\ Append(f, e) \in Seq(1..Len(ns)) /\ Len(Append(f, e)) = m
        /\ \A k \in 1..(m - 1) : Append(f, e)[k] = ps[k]
        /\ Append(f, e)[m] = ps[m]
    BY <1>2, <2>1, AppendProperties
  <2>3. \A k \in 1..m : Append(f, e)[k] = ps[k]
    <3>1. \A k \in 1..m : k \in 1..(m - 1) \/ k = m
      BY <1>2
    <3> QED
      BY <2>2, <3>1
  <2>4. Append(f, e) = ps
    BY <1>1, <2>2, <2>3
  <2> QED
    BY <2>1, <2>4
<1> HIDE DEF f, e
<1>4. /\ Len(Append(ps, d)) = m + 1
      /\ \A k \in 1..m : Append(ps, d)[k] = ps[k]
  BY <1>1, Appended
<1> HIDE DEF m
<1>5. ns[d].parent \in 0..Len(ns) /\ Chain(ns, ns[d].parent) \in Seq(Nat)
  <2>1. ns[d].parent \in 0..(d - 1)
    BY <1>1 DEF Shape
  <2>2. ns[d].parent \in 0..Len(ns)
    BY <1>1, <2>1
  <2> QED
    BY <2>2, ChainType
<1>6. Chain(ns, ns[d].parent) = ps
  <2>1. Append(Chain(ns, ns[d].parent), d) = Append(ps, d)
    BY <1>1, ChainUnfolds
  <2>2. ps \in Seq(Nat)
    BY <1>1
  <2> QED
    BY <1>5, <2>1, <2>2, AppendedSame
<1>7. ns[d].parent \in 1..Len(ns)
  <2>1. ns[d].parent # 0
    BY <1>6, ChainUnfolds
  <2> QED
    BY <1>1, <1>5, <2>1
<1>8. Chain(ns, e) = ps
  <2> DEFINE g == ns[d].parent
  <2>1. ns[g].parent \in 0..(g - 1)
    BY <1>7 DEF Shape
  <2>2. ns[g].parent \in 0..Len(ns)
    BY <1>1, <1>7, <2>1
  <2>3. Chain(ns, ns[g].parent) \in Seq(Nat)
    BY <2>2, ChainType
  <2>4. Append(Chain(ns, ns[g].parent), g) = Append(f, e)
    BY <1>3, <1>6, <1>7, ChainUnfolds
  <2>5. f \in Seq(Nat)
    BY <1>1, <1>3
  <2>6. e = g
    BY <2>3, <2>4, <2>5, AppendedSame
  <2> QED
    BY <1>6, <2>6
<1>9. ps[1] = 1 /\ Increasing(ps)
  <2>1. 1 \in 1..m /\ \A k \in 1..m : k \in 1..(m + 1)
    BY <1>2
  <2>2. \A j, k \in 1..m : j < k => ps[j] < ps[k]
    BY <1>1, <1>4, <2>1 DEF Increasing
  <2> QED
    BY <1>1, <1>4, <2>1, <2>2 DEF Increasing, m
<1>10. \A k \in 1..(m - 1) : ps[k + 1] \in ToSet(ns[ps[k]].kids)
  <2> SUFFICES ASSUME NEW k \in 1..(m - 1) PROVE ps[k + 1] \in ToSet(ns[ps[k]].kids)
    OBVIOUS
  <2>1. k \in 1..m /\ k + 1 \in 1..m
    BY <1>2
  <2> QED
    BY <1>1, <1>4, <2>1 DEF m
<1>11. Trail(ns, f, e)
  BY <1>2, <1>3, <1>8, <1>9, <1>10 DEF Trail
<1> QED
  BY <1>11 DEF f, e

LEMMA TrailStays ==
  ASSUME NEW ns, Shape(ns), NEW ps, NEW d, Trail(ns, ps, d), NEW t,
         NEW ms, Shape(ms), SameLinks(ns, ms, d, t)
  PROVE  Trail(ms, ps, d)
<1> DEFINE q == Append(ps, d)
<1>1. /\ d \in 1..Len(ns) /\ ps \in Seq(1..Len(ns)) /\ Len(ns) \in Nat
      /\ Chain(ns, d) = q /\ q[1] = 1 /\ Increasing(q)
      /\ \A k \in 1..Len(ps) : q[k + 1] \in ToSet(ns[q[k]].kids)
  BY DEF Trail, Shape
<1>2. Len(ps) \in Nat /\ Len(q) = Len(ps) + 1 /\ q[Len(ps) + 1] = d /\ q \in Seq(1..Len(ns))
  BY <1>1, Appended
<1> HIDE DEF q
<1>3. Chain(ms, d) = q
  <2>1. d \in 0..Len(ns)
    BY <1>1
  <2>2. Len(ms) = Len(ns) /\ \A i \in 1..Len(ns) : ms[i].parent = ns[i].parent
    BY DEF SameLinks
  <2> QED
    BY <1>1, <2>1, <2>2, ChainSame
<1>4. ASSUME NEW k \in 1..Len(ps) PROVE q[k + 1] \in ToSet(ms[q[k]].kids)
  <2>1. k \in 1..Len(q) /\ Len(ps) + 1 \in 1..Len(q) /\ k < Len(ps) + 1
    BY <1>2
  <2>2. q[k] < d /\ q[k] \in 1..Len(ns)
    BY <1>1, <1>2, <2>1, ElementOfSeq DEF Increasing
  <2>3. ms[q[k]].kids = ns[q[k]].kids
    BY <1>1, <2>2 DEF SameLinks
  <2> QED
    BY <1>1, <2>3
<1>5. Len(ms) = Len(ns)
  BY DEF SameLinks
<1>6. d \in 1..Len(ms) /\ ps \in Seq(1..Len(ms))
  BY <1>1, <1>5
<1> QED
  BY <1>1, <1>3, <1>4, <1>6 DEF Trail, q

----------------------------------------------------------------------------
(* The tree.  No entry is in two lists, and after a scan each but the root is   *)
(* in one (link_child is called once for each entry, unlink_from_parent takes   *)
(* one out).                                                                    *)
Apart(ns) ==
  \A i, j \in 1..Len(ns) : i # j => ToSet(ns[i].kids) \cap ToSet(ns[j].kids) = {}

Listed(ns) == \A x \in 2..Len(ns) : \E d \in 1..Len(ns) : x \in ToSet(ns[d].kids)

LEMMA KidIds ==
  ASSUME NEW ns, Shape(ns), NEW i \in 1..Len(ns)
  PROVE  /\ ns[i].kids \in Seq((i + 1)..Len(ns)) /\ Len(ns) \in Nat
         /\ ToSet(ns[i].kids) \subseteq 1..Len(ns) /\ \A c \in ToSet(ns[i].kids) : c > i
         /\ ToSet(ns[i].kids) \subseteq (i + 1)..Len(ns)
<1>1. ns[i].kids \in Seq((i + 1)..Len(ns)) /\ Len(ns) \in Nat
  <2>1. ns \in Seq(NodeType) /\ KidsOK(ns, i)
    BY DEF Shape
  <2>2. Len(ns) \in Nat
    BY <2>1
  <2>3. ns[i].kids \in Seq((i + 1)..Len(ns))
    BY <2>1 DEF KidsOK
  <2> QED
    BY <2>2, <2>3
<1>2. \A c \in ToSet(ns[i].kids) : c \in (i + 1)..Len(ns)
  BY <1>1 DEF ToSet
<1> QED
  BY <1>1, <1>2

LEMMA WithOneMore ==
  ASSUME NEW S, NEW s \in Seq(S), NEW e PROVE ToSet(Append(s, e)) = ToSet(s) \cup {e}
<1> DEFINE t == Append(s, e)
<1>1. /\ Len(s) \in Nat /\ Len(t) = Len(s) + 1 /\ t[Len(s) + 1] = e
      /\ \A k \in 1..Len(s) : t[k] = s[k]
  OBVIOUS
<1> HIDE DEF t
<1>2. ASSUME NEW x \in ToSet(t) PROVE x \in ToSet(s) \cup {e}
  <2>1. PICK k \in 1..Len(t) : x = t[k]
    BY DEF ToSet
  <2>2. k \in 1..Len(s) \/ k = Len(s) + 1
    BY <1>1
  <2> QED
    BY <1>1, <2>1, <2>2 DEF ToSet
<1>3. ASSUME NEW x \in ToSet(s) \cup {e} PROVE x \in ToSet(t)
  <2>1. \E k \in 1..Len(t) : x = t[k]
    <3>1. CASE x = e
      <4>1. Len(s) + 1 \in 1..Len(t)
        BY <1>1
      <4> QED
        BY <1>1, <3>1, <4>1
    <3>2. CASE x \in ToSet(s)
      <4>1. PICK k \in 1..Len(s) : x = s[k]
        BY <3>2 DEF ToSet
      <4>2. k \in 1..Len(t)
        BY <1>1
      <4> QED
        BY <1>1, <4>1, <4>2
    <3> QED
      BY <3>1, <3>2
  <2> QED
    BY <2>1 DEF ToSet
<1> QED
  BY <1>2, <1>3 DEF t

LEMMA ApartStep ==
  TypeOK /\ Shape(nodes) /\ Apart(nodes) /\ Listed(nodes) /\ [Next]_vars
    => Apart(nodes') /\ Listed(nodes')
<1> SUFFICES ASSUME TypeOK, Shape(nodes), Apart(nodes), Listed(nodes), [Next]_vars
             PROVE  Apart(nodes') /\ Listed(nodes')
  OBVIOUS
<1>1. TypeOK' /\ Len(nodes) \in Nat /\ Len(nodes') \in Nat
      /\ Ids = 1..Len(nodes) /\ Ids' = 1..Len(nodes')
  <2>1. TypeOK'
    BY TypeStep
  <2>2. nodes \in Seq(NodeType) /\ nodes' \in Seq(NodeType)
    BY <2>1 DEF TypeOK
  <2> QED
    BY <2>1, <2>2, LenProperties DEF Ids
<1>2. CASE UNCHANGED vars
  BY <1>2 DEF vars
<1>3. CASE nodes = <<>> /\ Next /\ ~UNCHANGED vars
  <2>1. PICK b \in Blocks, v \in Devs : CreateRoot(b, v)
    BY <1>3, FirstStep
  <2>2. Len(nodes') = 1
    BY <2>1, CreateRootEffect
  <2> QED
    BY <2>2 DEF Apart, Listed
<1>4. CASE nodes # <<>> /\ NoneMore
  <2>1. Len(nodes') = Len(nodes) /\ \A i \in Ids : nodes'[i].kids = nodes[i].kids
    BY <1>1, <1>4 DEF NoneMore
  <2> QED
    BY <1>1, <2>1 DEF Apart, Listed
<1>5. ASSUME nodes # <<>>, Depth > 0, NEW e, NEW v, OneMore(e, v)
      PROVE  Apart(nodes') /\ Listed(nodes')
  <2> DEFINE n == Len(nodes)
             t == Top.id
             K(i) == ToSet(nodes[i].kids)
             L(i) == ToSet(nodes'[i].kids)
  <2>1. t \in 1..n /\ NewId = n + 1 /\ n \in Nat
    BY <1>1, <1>5, TopType DEF NewId
  <2>2. Len(nodes') = n + 1
    BY <1>1, <1>5, <2>1 DEF OneMore
  <2>3. L(n + 1) = {}
    <3>1. nodes'[n + 1].kids = <<>>
      BY <1>5, <2>1 DEF OneMore
    <3> QED
      BY <3>1 DEF ToSet
  <2>4. \A i \in 1..n : K(i) \subseteq 1..n /\ nodes[i].kids \in Seq((i + 1)..n)
    BY KidIds
  <2>5. \A i \in 1..n : L(i) = IF i = t THEN K(i) \cup {n + 1} ELSE K(i)
    <3> SUFFICES ASSUME NEW i \in 1..n PROVE L(i) = IF i = t THEN K(i) \cup {n + 1} ELSE K(i)
      OBVIOUS
    <3>1. nodes'[i].kids = IF i = t THEN Append(nodes[i].kids, n + 1) ELSE nodes[i].kids
      BY <1>1, <1>5, <2>1 DEF OneMore
    <3>2. ToSet(Append(nodes[i].kids, n + 1)) = K(i) \cup {n + 1}
      BY <2>4, WithOneMore
    <3> QED
      BY <3>1, <3>2
  <2>6. /\ \A i, j \in 1..n : i # j => K(i) \cap K(j) = {}
        /\ \A x \in 2..n : \E d \in 1..n : x \in K(d)
    BY DEF Apart, Listed
  <2>7. \A i \in 1..(n + 1) : i \in 1..n \/ i = n + 1
    BY <2>1
  <2> HIDE DEF n, t, K, L
  <2>8. ASSUME NEW i \in 1..(n + 1), NEW j \in 1..(n + 1), i # j PROVE L(i) \cap L(j) = {}
    <3>1. CASE i = n + 1 \/ j = n + 1
      BY <2>3, <3>1
    <3>2. CASE i \in 1..n /\ j \in 1..n
      <4>1. n + 1 \notin K(i) /\ n + 1 \notin K(j)
        BY <2>1, <2>4, <3>2
      <4> QED
        BY <2>5, <2>6, <2>8, <3>2, <4>1
    <3> QED
      BY <2>7, <3>1, <3>2
  <2>9. ASSUME NEW x \in 2..(n + 1) PROVE \E d \in 1..(n + 1) : x \in L(d)
    <3>1. CASE x = n + 1
      BY <2>1, <2>5, <3>1
    <3>2. CASE x \in 2..n
      <4>1. PICK d \in 1..n : x \in K(d)
        BY <2>6, <3>2
      <4> QED
        BY <2>1, <2>5, <4>1
    <3>3. x = n + 1 \/ x \in 2..n
      BY <2>1
    <3> QED
      BY <3>1, <3>2, <3>3
  <2> QED
    BY <2>2, <2>8, <2>9 DEF Apart, Listed, L
<1> QED
  BY <1>2, <1>3, <1>4, <1>5, Steps

(* The list without the target has its other members.                           *)
LEMMA MembersWithout ==
  ASSUME NEW ns, Shape(ns), NEW d \in 1..Len(ns), NEW t
  PROVE  ToSet(RemoveFirst(ns[d].kids, t)) = ToSet(ns[d].kids) \ {t}
<1> DEFINE s == ns[d].kids
           r == RemoveFirst(s, t)
<1>1. s \in Seq((d + 1)..Len(ns)) /\ Increasing(s) /\ Len(s) \in Nat /\ d \in Nat /\ Len(ns) \in Nat
  BY DEF Shape, KidsOK
<1> HIDE DEF s
<1>2. CASE ~\E i \in 1..Len(s) : s[i] = t
  <2>1. r = s
    BY <1>2 DEF RemoveFirst
  <2> QED
    BY <1>2, <2>1 DEF ToSet, s
<1>3. CASE \E i \in 1..Len(s) : s[i] = t
  <2>1. PICK m \in 1..Len(s) : s[m] = t
    BY <1>3
  <2>2. \A i, j \in 1..Len(s) : s[i] \in Nat /\ (i # j => s[i] # s[j])
    <3>1. \A i \in 1..Len(s) : s[i] \in Nat
      BY <1>1, ElementOfSeq
    <3> QED
      BY <1>1, <3>1 DEF Increasing
  <2>3. \A i \in 1..(m - 1) : s[i] # s[m]
    BY <1>1, <2>2
  <2>4. /\ Len(r) = Len(s) - 1
        /\ \A k \in 1..(Len(s) - 1) : r[k] = IF k < m THEN s[k] ELSE s[k + 1]
    BY <1>1, <2>1, <2>3, RemovesOne
  <2> HIDE DEF r
  <2>5. ASSUME NEW x \in ToSet(r) PROVE x \in ToSet(s) /\ x # t
    <3>1. PICK k \in 1..Len(r) : x = r[k]
      BY DEF ToSet
    <3>2. PICK j \in 1..Len(s) : j # m /\ x = s[j]
      <4>1. CASE k < m
        <5>1. k \in 1..Len(s) /\ k # m /\ k \in 1..(Len(s) - 1)
          BY <1>1, <2>4, <4>1
        <5> QED
          BY <2>4, <3>1, <4>1, <5>1
      <4>2. CASE ~(k < m)
        <5>1. k + 1 \in 1..Len(s) /\ k + 1 # m /\ k \in 1..(Len(s) - 1)
          BY <1>1, <2>4, <4>2
        <5> QED
          BY <2>4, <3>1, <4>2, <5>1
      <4> QED
        BY <4>1, <4>2
    <3> QED
      BY <2>1, <2>2, <3>2 DEF ToSet
  <2>6. ASSUME NEW x \in ToSet(s), x # t PROVE x \in ToSet(r)
    <3>1. PICK j \in 1..Len(s) : x = s[j]
      BY DEF ToSet
    <3>2. j < m \/ j > m
      BY <1>1, <2>1, <2>6, <3>1
    <3>3. \E k \in 1..Len(r) : x = r[k]
      <4>1. CASE j < m
        <5>1. j \in 1..Len(r) /\ j \in 1..(Len(s) - 1)
          BY <1>1, <2>4, <4>1
        <5> QED
          BY <2>4, <3>1, <4>1, <5>1
      <4>2. CASE j > m
        <5>1. /\ j - 1 \in 1..Len(r) /\ j - 1 \in 1..(Len(s) - 1) /\ ~(j - 1 < m)
              /\ (j - 1) + 1 = j
          BY <1>1, <2>4, <4>2
        <5> QED
          BY <2>4, <3>1, <5>1
      <4> QED
        BY <3>2, <4>1, <4>2
    <3> QED
      BY <3>3 DEF ToSet
  <2> QED
    BY <2>5, <2>6 DEF r, s
<1> QED
  BY <1>2, <1>3

LEMMA MembersAfter ==
  ASSUME NEW ns, Shape(ns), NEW d \in 1..Len(ns), NEW t, NEW ms,
         SameLinks(ns, ms, d, t), NEW i \in 1..Len(ns)
  PROVE  /\ i = d => ToSet(ms[i].kids) = ToSet(ns[d].kids) \ {t}
         /\ i # d => ToSet(ms[i].kids) = ToSet(ns[i].kids)
<1>1. ms[i].kids = IF i = d THEN RemoveFirst(ns[d].kids, t) ELSE ns[i].kids
  BY DEF SameLinks
<1>2. ToSet(RemoveFirst(ns[d].kids, t)) = ToSet(ns[d].kids) \ {t}
  BY MembersWithout
<1>3. CASE i = d
  <2>1. ms[i].kids = RemoveFirst(ns[d].kids, t)
    BY <1>1, <1>3
  <2> QED
    BY <1>2, <1>3, <2>1
<1>4. CASE i # d
  <2>1. ms[i].kids = ns[i].kids
    BY <1>1, <1>4
  <2> QED
    BY <1>4, <2>1
<1> QED
  BY <1>3, <1>4

LEMMA PrunedApart ==
  ASSUME NEW ns, Shape(ns), Apart(ns), NEW d \in 1..Len(ns), NEW t, NEW ms,
         SameLinks(ns, ms, d, t)
  PROVE  Apart(ms)
<1>1. \A i \in 1..Len(ns) : ToSet(ms[i].kids) \subseteq ToSet(ns[i].kids)
  <2> SUFFICES ASSUME NEW i \in 1..Len(ns) PROVE ToSet(ms[i].kids) \subseteq ToSet(ns[i].kids)
    OBVIOUS
  <2>1. /\ i = d => ToSet(ms[i].kids) = ToSet(ns[d].kids) \ {t}
        /\ i # d => ToSet(ms[i].kids) = ToSet(ns[i].kids)
    BY MembersAfter
  <2> QED
    BY <2>1
<1>2. Len(ms) = Len(ns)
  BY DEF SameLinks
<1> QED
  BY <1>1, <1>2 DEF Apart

----------------------------------------------------------------------------
(* A branch: its ids are not below its root's, it holds the branches of its     *)
(* members, and each member but the root is in the list of another.             *)
LEMMA BranchFrom ==
  ASSUME NEW ns, Shape(ns)
  PROVE  \A i \in 1..Len(ns) : \A x \in Branch(ns, i) : x \in Nat /\ x >= i
<1>n. PICK n \in Nat : n = Len(ns)
  BY DEF Shape
<1> DEFINE P == {i \in 1..n : \A x \in Branch(ns, i) : x \in Nat /\ x >= i}
<1>1. ASSUME NEW i \in 1..n, \A j \in (i + 1)..n : j \in P PROVE i \in P
  <2> SUFFICES ASSUME NEW x \in Branch(ns, i) PROVE x \in Nat /\ x >= i
    OBVIOUS
  <2>1. x = i \/ \E c \in ToSet(ns[i].kids) : x \in Branch(ns, c)
    BY <1>n, BranchUnfolds
  <2>2. \A c \in ToSet(ns[i].kids) : c > i /\ c \in 1..n /\ c \in (i + 1)..n
    <3>1. /\ ToSet(ns[i].kids) \subseteq 1..n /\ ToSet(ns[i].kids) \subseteq (i + 1)..n
          /\ \A c \in ToSet(ns[i].kids) : c > i
      BY <1>n, KidIds
    <3> QED
      BY <3>1
  <2>3. \A c \in ToSet(ns[i].kids) : \A y \in Branch(ns, c) : y \in Nat /\ y >= c
    BY <1>1, <2>2
  <2>4. CASE x = i
    BY <2>4
  <2>5. ASSUME NEW c \in ToSet(ns[i].kids), x \in Branch(ns, c) PROVE x \in Nat /\ x >= i
    BY <2>2, <2>3, <2>5
  <2> QED
    BY <2>1, <2>4, <2>5
<1>2. \A i \in 1..n : i \in P
  <2> HIDE DEF P
  <2> QED  BY <1>1, Downward
<1> QED
  BY <1>n, <1>2

LEMMA BranchTrans ==
  ASSUME NEW ns, Shape(ns)
  PROVE  \A i \in 1..Len(ns) : \A j \in Branch(ns, i) : Branch(ns, j) \subseteq Branch(ns, i)
<1>n. PICK n \in Nat : n = Len(ns)
  BY DEF Shape
<1> DEFINE P == {i \in 1..n : \A j \in Branch(ns, i) : Branch(ns, j) \subseteq Branch(ns, i)}
<1>1. ASSUME NEW i \in 1..n, \A j \in (i + 1)..n : j \in P PROVE i \in P
  <2> SUFFICES ASSUME NEW j \in Branch(ns, i) PROVE Branch(ns, j) \subseteq Branch(ns, i)
    OBVIOUS
  <2>1. Branch(ns, i) = {i} \cup UNION {Branch(ns, c) : c \in ToSet(ns[i].kids)}
    BY <1>n, BranchUnfolds
  <2>2. \A c \in ToSet(ns[i].kids) : c > i /\ c \in 1..n /\ c \in (i + 1)..n
    <3>1. /\ ToSet(ns[i].kids) \subseteq 1..n /\ ToSet(ns[i].kids) \subseteq (i + 1)..n
          /\ \A c \in ToSet(ns[i].kids) : c > i
      BY <1>n, KidIds
    <3> QED
      BY <3>1
  <2>3. \A c \in ToSet(ns[i].kids) : \A y \in Branch(ns, c) : Branch(ns, y) \subseteq Branch(ns, c)
    BY <1>1, <2>2
  <2> QED
    BY <2>1, <2>3
<1>2. \A i \in 1..n : i \in P
  <2> HIDE DEF P
  <2> QED  BY <1>1, Downward
<1> QED
  BY <1>n, <1>2

LEMMA BranchParent ==
  ASSUME NEW ns, Shape(ns)
  PROVE  \A i \in 1..Len(ns) : \A x \in Branch(ns, i) :
           x # i => \E p \in Branch(ns, i) : x \in ToSet(ns[p].kids)
<1>n. PICK n \in Nat : n = Len(ns)
  BY DEF Shape
<1> DEFINE Held(i) == \A x \in Branch(ns, i) :
                        x # i => \E p \in Branch(ns, i) : x \in ToSet(ns[p].kids)
           P == {i \in 1..n : Held(i)}
<1>1. ASSUME NEW i \in 1..n, \A j \in (i + 1)..n : j \in P PROVE i \in P
  <2> SUFFICES ASSUME NEW x \in Branch(ns, i), x # i
               PROVE  \E p \in Branch(ns, i) : x \in ToSet(ns[p].kids)
    OBVIOUS
  <2>1. Branch(ns, i) = {i} \cup UNION {Branch(ns, c) : c \in ToSet(ns[i].kids)}
    BY <1>n, BranchUnfolds
  <2>2. \A c \in ToSet(ns[i].kids) : c > i /\ c \in 1..n /\ c \in (i + 1)..n
    <3>1. /\ ToSet(ns[i].kids) \subseteq 1..n /\ ToSet(ns[i].kids) \subseteq (i + 1)..n
          /\ \A c \in ToSet(ns[i].kids) : c > i
      BY <1>n, KidIds
    <3> QED
      BY <3>1
  <2>3. PICK c \in ToSet(ns[i].kids) : x \in Branch(ns, c)
    BY <2>1
  <2>4. Held(c)
    BY <1>1, <2>2
  <2>5. CASE x = c
    BY <2>1, <2>5
  <2>6. CASE x # c
    <3>1. PICK p \in Branch(ns, c) : x \in ToSet(ns[p].kids)
      BY <2>3, <2>4, <2>6
    <3> QED
      BY <2>1, <3>1
  <2> QED
    BY <2>5, <2>6
<1>2. \A i \in 1..n : i \in P
  <2> HIDE DEF P
  <2> QED  BY <1>1, Downward
<1> QED
  BY <1>n, <1>2

(* Two branches with a common member are one within the other.                  *)
LEMMA Nested ==
  ASSUME NEW ns, Shape(ns), Apart(ns), NEW i \in 1..Len(ns), NEW j \in 1..Len(ns)
  PROVE  \A x \in Branch(ns, i) : x \in Branch(ns, j) => i \in Branch(ns, j) \/ j \in Branch(ns, i)
<1>n. PICK n \in Nat : n = Len(ns)
  BY DEF Shape
<1> DEFINE G == i \in Branch(ns, j) \/ j \in Branch(ns, i)
           P == {x \in 1..n : x \in Branch(ns, i) /\ x \in Branch(ns, j) => G}
<1>0. Branch(ns, i) \subseteq 1..n /\ Branch(ns, j) \subseteq 1..n
  BY <1>n, BranchType
<1>1. ASSUME NEW x \in 1..n, \A y \in 1..(x - 1) : y \in P PROVE x \in P
  <2> SUFFICES ASSUME x \in Branch(ns, i), x \in Branch(ns, j), x # i, x # j PROVE G
    OBVIOUS
  <2>1. PICK p \in Branch(ns, i) : x \in ToSet(ns[p].kids)
    BY BranchParent
  <2>2. PICK q \in Branch(ns, j) : x \in ToSet(ns[q].kids)
    BY BranchParent
  <2>3. p = q /\ p \in 1..n
    BY <1>n, <1>0, <2>1, <2>2 DEF Apart
  <2>4. p < x
    BY <1>n, <2>1, <2>3, KidIds
  <2>5. p \in 1..(x - 1)
    BY <2>3, <2>4
  <2> QED
    BY <1>1, <2>1, <2>2, <2>3, <2>5
<1>2. \A x \in 1..n : x \in P
  <2> HIDE DEF P
  <2> QED  BY <1>1, Upward
<1> QED
  BY <1>0, <1>2

LEMMA SiblingsApart ==
  ASSUME NEW ns, Shape(ns), Apart(ns), NEW d \in 1..Len(ns),
         NEW a \in ToSet(ns[d].kids), NEW b \in ToSet(ns[d].kids), a # b
  PROVE  Branch(ns, a) \cap Branch(ns, b) = {}
<1>1. a \in 1..Len(ns) /\ a > d /\ b \in 1..Len(ns) /\ b > d
  BY KidIds
<1>2. ASSUME NEW u \in ToSet(ns[d].kids), NEW w \in ToSet(ns[d].kids), u # w, u \in Branch(ns, w)
      PROVE  FALSE
  <2>1. w \in 1..Len(ns) /\ w > d
    BY KidIds
  <2>2. PICK p \in Branch(ns, w) : u \in ToSet(ns[p].kids)
    BY <1>2, <2>1, BranchParent
  <2>3. p \in Nat /\ p >= w /\ p \in 1..Len(ns)
    BY <2>1, BranchFrom, BranchType
  <2>4. p = d
    BY <1>2, <2>2, <2>3 DEF Apart
  <2> QED
    BY <2>1, <2>3, <2>4
<1> QED
  BY <1>1, <1>2, Nested

(* A finished scan: everything is below the root, and the branch of an entry is  *)
(* the range of ids that its item count says.                                   *)
LEMMA WholeTree ==
  ASSUME NEW ns, Shape(ns), Listed(ns), ns # <<>>
  PROVE  Branch(ns, 1) = 1..Len(ns)
<1>n. PICK n \in Nat : n = Len(ns)
  BY DEF Shape
<1>0. 1 \in 1..n /\ Branch(ns, 1) \subseteq 1..n /\ 1 \in Branch(ns, 1)
  <2>1. 1 \in 1..n
    BY <1>n DEF Shape
  <2> QED
    BY <1>n, <2>1, BranchType
<1> DEFINE P == {x \in 1..n : x \in Branch(ns, 1)}
<1>1. ASSUME NEW x \in 1..n, \A y \in 1..(x - 1) : y \in P PROVE x \in P
  <2>1. CASE x = 1
    BY <1>0, <2>1
  <2>2. CASE x # 1
    <3>1. x \in 2..n
      BY <2>2
    <3>2. PICK d \in 1..n : x \in ToSet(ns[d].kids)
      BY <1>n, <3>1 DEF Listed
    <3>3. d < x
      BY <1>n, <3>2, KidIds
    <3>4. d \in Branch(ns, 1)
      BY <1>1, <3>3
    <3>5. x \in Branch(ns, d)
      <4>1. x \in Branch(ns, x)
        BY <1>n, BranchType
      <4>2. Branch(ns, d) = {d} \cup UNION {Branch(ns, c) : c \in ToSet(ns[d].kids)}
        BY <1>n, BranchUnfolds
      <4> QED
        BY <3>2, <4>1, <4>2
    <3> QED
      BY <1>n, <1>0, <3>4, <3>5, BranchTrans
  <2> QED
    BY <2>1, <2>2
<1>2. \A x \in 1..n : x \in P
  <2> HIDE DEF P
  <2> QED  BY <1>1, Upward
<1> QED
  BY <1>n, <1>0, <1>2

LEMMA BranchIsSubtree ==
  ASSUME IInv, Leafless, Shape(nodes)
  PROVE  \A i \in Ids : Branch(nodes, i) = Subtree[i]
<1>n. PICK n \in Nat : n = Len(nodes) /\ Ids = 1..n
  BY StateFacts
<1> DEFINE P == {i \in 1..n : Branch(nodes, i) = Subtree[i]}
<1>1. ASSUME NEW i \in 1..n, \A j \in (i + 1)..n : j \in P PROVE i \in P
  <2> DEFINE ks == nodes[i].kids
  <2>1. Branch(nodes, i) = {i} \cup UNION {Branch(nodes, c) : c \in ToSet(ks)}
    BY <1>n, BranchUnfolds
  <2>2. Subtree[i] = {i} \cup UNION {Subtree[ks[k]] : k \in 1..Len(ks)}
    BY <1>n, SubtreeUnfolds DEF Below
  <2>3. ToSet(ks) \subseteq (i + 1)..n
    BY <1>n, KidIds
  <2>4. ToSet(ks) = {ks[k] : k \in 1..Len(ks)}
    BY DEF ToSet
  <2> HIDE DEF ks
  <2>5. \A c \in ToSet(ks) : Branch(nodes, c) = Subtree[c]
    BY <1>1, <2>3
  <2>6. UNION {Branch(nodes, c) : c \in ToSet(ks)} = UNION {Subtree[ks[k]] : k \in 1..Len(ks)}
    BY <2>4, <2>5
  <2> QED
    BY <2>1, <2>2, <2>6
<1>2. \A i \in 1..n : i \in P
  <2> HIDE DEF P
  <2> QED  BY <1>1, Downward
<1> QED
  BY <1>n, <1>2

LEMMA Between ==
  ASSUME NEW a \in Nat, NEW b \in Nat
  PROVE  IsFiniteSet(a..b) /\ Cardinality(a..b) = IF a <= b THEN b - a + 1 ELSE 0
<1>1. a \in Int /\ b \in Int
  OBVIOUS
<1>2. IsFiniteSet(a..b) /\ Cardinality(a..b) = IF a > b THEN 0 ELSE b - a + 1
  BY <1>1, FS_Interval
<1> QED
  BY <1>2

LEMMA ScannedBranch ==
  ASSUME IInv, Leafless, Shape(nodes), open = <<>>, NEW i \in Ids
  PROVE  /\ Branch(nodes, i) = i..End(nodes, i)
         /\ i \in Nat /\ End(nodes, i) \in i..Len(nodes)
         /\ nodes[i].items = Cardinality(Branch(nodes, i)) - 1
<1>1. Depth = 0 /\ OpenIds = {}
  BY DEF Depth, OpenIds
<1>2. Branch(nodes, i) = i..End(nodes, i)
  BY <1>1, SubtreesAreRanges, BranchIsSubtree
<1>3. i \in 1..Len(nodes) /\ Len(nodes) \in Nat
  BY DEF Ids, Shape
<1>4. nodes[i].items \in Nat
  BY <1>3, NodeFields DEF Shape
<1>5. i \in Nat /\ End(nodes, i) \in Nat /\ i <= End(nodes, i) /\ End(nodes, i) = i + nodes[i].items
  BY <1>3, <1>4 DEF End
<1>6. End(nodes, i) <= Len(nodes)
  <2>1. End(nodes, i) \in Branch(nodes, i)
    BY <1>2, <1>5
  <2>2. Branch(nodes, i) \subseteq 1..Len(nodes)
    BY <1>3, BranchType
  <2> QED
    BY <1>3, <2>1, <2>2
<1>7. Cardinality(i..End(nodes, i)) = End(nodes, i) - i + 1
  BY <1>5, Between
<1> QED
  BY <1>2, <1>3, <1>4, <1>5, <1>6, <1>7

----------------------------------------------------------------------------
(* What unlinking the entry t of directory d takes out of every branch.         *)
LEMMA BranchAfter ==
  ASSUME NEW ns, Shape(ns), Apart(ns), NEW d \in 1..Len(ns), NEW t \in ToSet(ns[d].kids),
         NEW ms, Shape(ms), SameLinks(ns, ms, d, t)
  PROVE  \A i \in 1..Len(ns) :
           Branch(ms, i) = IF d \in Branch(ns, i) THEN Branch(ns, i) \ Branch(ns, t)
                                                  ELSE Branch(ns, i)
<1>n. PICK n \in Nat : n = Len(ns) /\ n = Len(ms)
  BY DEF Shape, SameLinks
<1> DEFINE B(i) == Branch(ns, i)
           C(i) == Branch(ms, i)
           K(i) == ToSet(ns[i].kids)
           L(i) == ToSet(ms[i].kids)
           Good(i) == C(i) = IF d \in B(i) THEN B(i) \ B(t) ELSE B(i)
           P == {i \in 1..n : Good(i)}
<1>t. t \in 1..n /\ t > d
  BY <1>n, KidIds
<1>f. \A i \in 1..n : \A x \in B(i) : x \in Nat /\ x >= i
  BY <1>n, BranchFrom
<1>k. \A i \in 1..n : L(i) = IF i = d THEN K(d) \ {t} ELSE K(i)
  <2> SUFFICES ASSUME NEW i \in 1..n PROVE L(i) = IF i = d THEN K(d) \ {t} ELSE K(i)
    OBVIOUS
  <2>1. i \in 1..Len(ns)
    BY <1>n
  <2>2. /\ i = d => ToSet(ms[i].kids) = ToSet(ns[d].kids) \ {t}
        /\ i # d => ToSet(ms[i].kids) = ToSet(ns[i].kids)
    BY <2>1, MembersAfter
  <2> QED
    BY <2>2
<1>b. \A i \in 1..n : B(i) = {i} \cup UNION {B(c) : c \in K(i)}
  BY <1>n, BranchUnfolds
<1>c. \A i \in 1..n : C(i) = {i} \cup UNION {C(c) : c \in L(i)}
  BY <1>n, BranchUnfolds
<1>d. B(t) \subseteq B(d)
  BY <1>b, <1>n
<1>s. \A i \in 1..n : \A a, b \in K(i) : a # b => B(a) \cap B(b) = {}
  BY <1>n, SiblingsApart
<1>i. \A i \in 1..n : K(i) \subseteq (i + 1)..n /\ K(i) \subseteq 1..n
  BY <1>n, KidIds
<1>r. \A i \in 1..n : \A j \in B(i) : B(j) \subseteq B(i)
  BY <1>n, BranchTrans
<1> HIDE DEF B, C, K, L
<1>e. t \in K(d)
  BY DEF K
<1>1. ASSUME NEW i \in 1..n, \A j \in (i + 1)..n : j \in P PROVE i \in P
  <2>1. \A c \in K(i) : Good(c) /\ c \in 1..n
    BY <1>1, <1>i
  <2>2. CASE i = d
    <3>1. \A c \in K(d) : d \notin B(c)
      <4> SUFFICES ASSUME NEW c \in K(d), d \in B(c) PROVE FALSE
        OBVIOUS
      <4>1. c \in (d + 1)..n /\ c \in 1..n
        BY <1>i, <1>n
      <4> QED
        BY <1>f, <4>1
    <3>2. \A c \in K(d) : C(c) = B(c)
      BY <2>1, <2>2, <3>1
    <3>3. C(d) = {d} \cup UNION {B(c) : c \in K(d) \ {t}}
      BY <1>c, <1>k, <2>2, <3>2
    <3>4. d \in B(d) /\ d \notin B(t)
      BY <1>b, <1>e, <2>2, <3>1
    <3>5. \A c \in K(d) \ {t} : B(c) \cap B(t) = {}
      BY <1>s, <1>e, <2>2
    <3>6. ASSUME NEW x PROVE x \in C(d) <=> x \in B(d) \ B(t)
      <4>1. x \in C(d) <=> x = d \/ \E c \in K(d) \ {t} : x \in B(c)
        BY <3>3
      <4>2. x \in B(d) <=> x = d \/ \E c \in K(d) : x \in B(c)
        BY <1>b, <2>2
      <4> QED
        BY <1>e, <3>4, <3>5, <4>1, <4>2
    <3> QED
      BY <2>2, <3>4, <3>6
  <2>3. CASE i # d /\ d \in B(i)
    <3>1. PICK e \in K(i) : d \in B(e)
      BY <1>b, <2>3
    <3>2. B(t) \subseteq B(e)
      BY <1>d, <1>r, <2>1, <3>1
    <3>3. \A c \in K(i) : c # e => B(c) \cap B(t) = {} /\ d \notin B(c)
      BY <1>s, <3>1, <3>2
    <3>4. \A c \in K(i) : C(c) = B(c) \ B(t)
      BY <2>1, <3>1, <3>3
    <3>5. i \notin B(t)
      <4>1. t \in Nat /\ d \in Nat /\ i \in Nat /\ d >= i /\ t > d
        BY <1>f, <1>t, <2>3
      <4> QED
        BY <1>f, <1>t, <4>1
    <3>6. ASSUME NEW x PROVE x \in C(i) <=> x \in B(i) \ B(t)
      <4>1. x \in C(i) <=> x = i \/ \E c \in K(i) : x \in B(c) \ B(t)
        BY <1>c, <1>k, <2>3, <3>4
      <4>2. x \in B(i) <=> x = i \/ \E c \in K(i) : x \in B(c)
        BY <1>b
      <4> QED
        BY <3>5, <4>1, <4>2
    <3> QED
      BY <2>3, <3>6
  <2>4. CASE d \notin B(i)
    <3>1. i # d /\ \A c \in K(i) : C(c) = B(c)
      BY <1>b, <2>1, <2>4
    <3>2. C(i) = {i} \cup UNION {B(c) : c \in K(i)}
      BY <1>c, <1>k, <3>1
    <3> QED
      BY <1>b, <2>4, <3>2
  <2> QED
    BY <2>2, <2>3, <2>4
<1>2. \A i \in 1..n : i \in P
  <2> HIDE DEF P
  <2> QED  BY <1>1, Downward
<1> QED
  BY <1>n, <1>2 DEF B, C

(* The directories on the way up from d are those that have it below.           *)
LEMMA OnTrail ==
  ASSUME NEW ns, Shape(ns), Apart(ns), NEW ps, NEW d, Trail(ns, ps, d), NEW i \in 1..Len(ns)
  PROVE  i \in ToSet(Chain(ns, d)) <=> d \in Branch(ns, i)
<1> DEFINE q == Append(ps, d)
<1>1. /\ d \in 1..Len(ns) /\ ps \in Seq(1..Len(ns)) /\ Len(ns) \in Nat
      /\ Chain(ns, d) = q /\ q[1] = 1
      /\ \A k \in 1..Len(ps) : q[k + 1] \in ToSet(ns[q[k]].kids)
  BY DEF Trail, Shape
<1>m. PICK m \in Nat : m = Len(ps) + 1 /\ m = Len(q) /\ 1 <= m
  BY <1>1
<1>2. q[m] = d /\ q \in Seq(1..Len(ns)) /\ \A k \in 1..m : q[k] \in 1..Len(ns)
  <2>1. q[m] = d /\ q \in Seq(1..Len(ns))
    BY <1>1, <1>m, Appended
  <2> HIDE DEF q
  <2> QED
    BY <1>m, <2>1, ElementOfSeq
<1> HIDE DEF q
<1>3. \A k \in 1..m : k # m => k + 1 \in 1..m /\ q[k + 1] \in ToSet(ns[q[k]].kids)
  <2> SUFFICES ASSUME NEW k \in 1..m, k # m
               PROVE  k + 1 \in 1..m /\ q[k + 1] \in ToSet(ns[q[k]].kids)
    OBVIOUS
  <2>1. k \in 1..Len(ps) /\ k + 1 \in 1..m
    BY <1>m
  <2> QED
    BY <1>1, <2>1
<1>4. ToSet(q) = {q[k] : k \in 1..m}
  BY <1>m DEF ToSet
<1>5. \A k \in 1..m : d \in Branch(ns, q[k])
  <2> DEFINE P == {k \in 1..m : d \in Branch(ns, q[k])}
  <2>1. ASSUME NEW k \in 1..m, \A j \in (k + 1)..m : j \in P PROVE k \in P
    <3>1. CASE k = m
      BY <1>1, <1>2, <3>1, BranchType
    <3>2. CASE k # m
      <4>1. k + 1 \in (k + 1)..m
        BY <3>2
      <4>2. d \in Branch(ns, q[k + 1])
        BY <2>1, <4>1
      <4>3. Branch(ns, q[k]) = {q[k]} \cup UNION {Branch(ns, c) : c \in ToSet(ns[q[k]].kids)}
        BY <1>2, BranchUnfolds
      <4> QED
        BY <1>3, <3>2, <4>2, <4>3
    <3> QED
      BY <3>1, <3>2
  <2>2. \A k \in 1..m : k \in P
    <3> HIDE DEF P
    <3> QED  BY <2>1, Downward
  <2> QED
    BY <2>2
<1>6. \A k \in 1..m : q[k] \in Branch(ns, i) => i \in ToSet(q)
  <2> DEFINE P == {k \in 1..m : q[k] \in Branch(ns, i) => i \in ToSet(q)}
  <2>1. ASSUME NEW k \in 1..m, \A j \in 1..(k - 1) : j \in P PROVE k \in P
    <3> SUFFICES ASSUME q[k] \in Branch(ns, i), i # q[k] PROVE i \in ToSet(q)
      BY <1>4
    <3>1. PICK p \in Branch(ns, i) : q[k] \in ToSet(ns[p].kids)
      BY BranchParent
    <3>2. p \in 1..Len(ns)
      BY BranchType
    <3>3. CASE k = 1
      <4>1. 1 >= i /\ i \in Nat
        BY <1>1, <3>3, BranchFrom
      <4> QED
        BY <1>1, <3>3, <4>1
    <3>4. CASE k # 1
      <4>1. PICK j \in 1..(k - 1) : j + 1 = k /\ j \in 1..m /\ j # m
        BY <3>4
      <4>2. q[k] \in ToSet(ns[q[j]].kids) /\ q[j] \in 1..Len(ns)
        BY <1>2, <1>3, <4>1
      <4>3. p = q[j]
        BY <3>1, <3>2, <4>2 DEF Apart
      <4> QED
        BY <2>1, <3>1, <4>1, <4>3
    <3> QED
      BY <3>3, <3>4
  <2>2. \A k \in 1..m : k \in P
    <3> HIDE DEF P
    <3> QED  BY <2>1, Upward
  <2> QED
    BY <2>2
<1>7. m \in 1..m
  BY <1>m
<1> QED
  BY <1>1, <1>2, <1>4, <1>5, <1>6, <1>7

(* The totals that delete_entry leaves.                                         *)
LEMMA PrunedNumbers ==
  ASSUME NEW ns, Shape(ns), NEW d \in 1..Len(ns), NEW t \in 1..Len(ns), NEW i \in 1..Len(ns)
  PROVE  LET new == Pruned(ns, d, t)[i]
             foot == SubtreeTotals(ns, t)
         IN  /\ i \in ToSet(Chain(ns, d)) => /\ new.blocks = Less(ns[i].blocks, foot.blocks)
                                             /\ new.items = Less(ns[i].items, foot.items)
             /\ i \notin ToSet(Chain(ns, d)) => /\ new.blocks = ns[i].blocks
                                                /\ new.items = ns[i].items
<1> DEFINE u == Unlink(ns, d, t)
           foot == SubtreeTotals(ns, t)
           r == RemoveFirst(ns[d].kids, t)
           e == [ns[d] EXCEPT !.kids = r]
<1>n. PICK n \in Nat : n = Len(ns) /\ ns \in Seq(NodeType) /\ d \in 0..Len(ns)
  BY DEF Shape
<1>1. ns[d] \in NodeType
  BY <1>n, ElementOfSeq
<1>2. /\ e \in NodeType /\ e.parent = ns[d].parent /\ e.blocks = ns[d].blocks
      /\ e.items = ns[d].items
      /\ e.etype = ns[d].etype /\ e.kids = r
  <2>1. r \in Seq(Nat)
    BY ListWithout
  <2> QED
    BY <1>1, <2>1 DEF NodeType
<1>3. u = [ns EXCEPT ![d] = e]
  BY DEF Unlink
<1> HIDE DEF e, u
<1>4. /\ u \in Seq(NodeType) /\ Len(u) = n
      /\ \A j \in 1..n : u[j] = IF j = d THEN e ELSE ns[j]
  BY <1>n, <1>2, <1>3, ExceptSeq
<1>5. \A j \in 1..n : /\ u[j].parent = ns[j].parent /\ u[j].blocks = ns[j].blocks
                      /\ u[j].items = ns[j].items /\ u[j].etype = ns[j].etype
                      /\ u[j].kids = IF j = d THEN r ELSE ns[j].kids
  BY <1>2, <1>4
<1>6. Chain(u, d) = Chain(ns, d)
  <2>1. Len(u) = Len(ns) /\ \A j \in 1..Len(ns) : u[j].parent = ns[j].parent
    BY <1>n, <1>4, <1>5
  <2>2. SameLinks(ns, u, d, t)
    BY <1>n, <1>4, <1>5 DEF SameLinks
  <2>3. Shape(u)
    BY <1>4, <2>2, PrunedShape
  <2> QED
    BY <1>n, <2>1, <2>3, ChainSame
<1> DEFINE C == ToSet(Chain(ns, d))
           cut(j) == [u[j] EXCEPT !.blocks = Less(@, foot.blocks), !.items = Less(@, foot.items)]
<1>7. Pruned(ns, d, t) = [j \in 1..Len(u) |-> IF j \in C THEN cut(j) ELSE u[j]]
  BY <1>6 DEF Pruned, Subtract, u
<1> HIDE DEF C, foot
<1>8. i \in 1..Len(u)
  BY <1>n, <1>4
<1>9. Pruned(ns, d, t)[i] = IF i \in C THEN cut(i) ELSE u[i]
  <2> HIDE DEF cut
  <2> QED  BY <1>7, <1>8
<1>10. u[i] \in NodeType
  BY <1>4, <1>8, ElementOfSeq
<1>11. cut(i).blocks = Less(u[i].blocks, foot.blocks) /\ cut(i).items = Less(u[i].items, foot.items)
  BY <1>10 DEF NodeType
<1> HIDE DEF cut
<1> QED
  BY <1>5, <1>8, <1>9, <1>11, <1>n DEF C, foot

----------------------------------------------------------------------------
(* What deletions keep true of the arena ns that was sc after the scan, once    *)
(* the targets del are pruned: it has lost their branches and nothing else, and  *)
(* `items' counts what is left below each directory.                            *)
TreeOK(ns, sc, del) ==
  /\ Apart(ns)
  /\ \A i \in Branch(ns, 1) : Branch(ns, i) = Branch(sc, i) \cap Branch(ns, 1)
  /\ Branch(ns, 1) = (1..Len(ns)) \ UNION {Branch(sc, t) : t \in del}
  /\ \A i \in Branch(ns, 1) :
       ns[i].etype = "Dir" => ns[i].items = Cardinality(Branch(ns, i)) - 1

LEMMA TreeStarts ==
  ASSUME IInv, Leafless, Shape(nodes), Apart(nodes), Listed(nodes), nodes # <<>>, open = <<>>
  PROVE  TreeOK(nodes, nodes, {})
<1>1. Branch(nodes, 1) = 1..Len(nodes)
  BY WholeTree
<1>2. \A i \in 1..Len(nodes) : /\ Branch(nodes, i) \subseteq 1..Len(nodes)
                               /\ nodes[i].items = Cardinality(Branch(nodes, i)) - 1
  BY ScannedBranch, BranchType DEF Ids
<1>3. \A i \in Branch(nodes, 1) : Branch(nodes, i) = Branch(nodes, i) \cap Branch(nodes, 1)
  BY <1>1, <1>2
<1>4. UNION {Branch(nodes, t) : t \in {}} = {}
  OBVIOUS
<1> QED
  BY <1>1, <1>2, <1>3, <1>4 DEF TreeOK

LEMMA RootBranch ==
  ASSUME NEW ns, Shape(ns), Apart(ns), NEW ps, NEW d, Trail(ns, ps, d)
  PROVE  1 \in 1..Len(ns) /\ d \in Branch(ns, 1)
<1>1. /\ Append(ps, d)[1] = 1 /\ Chain(ns, d) = Append(ps, d) /\ ps \in Seq(1..Len(ns))
      /\ d \in 1..Len(ns)
  BY DEF Trail
<1>2. Append(ps, d) \in Seq(1..Len(ns)) /\ 1 \in 1..Len(Append(ps, d))
  BY <1>1
<1>3. 1 \in ToSet(Chain(ns, d))
  BY <1>1, <1>2 DEF ToSet
<1>4. 1 \in 1..Len(ns)
  BY <1>1, <1>2, ElementOfSeq
<1> QED
  BY <1>3, <1>4, OnTrail

(* The part of a branch that is not below another.                              *)
LEMMA CutBranch ==
  ASSUME NEW n \in Nat, NEW A \in SUBSET (1..n), NEW B \in SUBSET A
  PROVE  /\ Cardinality(A) \in Nat /\ Cardinality(B) \in Nat /\ Cardinality(B) <= Cardinality(A)
         /\ Cardinality(A) <= n /\ Cardinality(A \ B) = Cardinality(A) - Cardinality(B)
<1>1. IsFiniteSet(1..n) /\ Cardinality(1..n) = n
  BY UpTo
<1>2. IsFiniteSet(A) /\ Cardinality(A) <= n
  BY <1>1, FS_Subset
<1>3. IsFiniteSet(B) /\ Cardinality(B) <= Cardinality(A)
  BY <1>2, FS_Subset
<1>4. Cardinality(A \ B) = Cardinality(A) - Cardinality(A \cap B) /\ A \cap B = B
  BY <1>2, FS_Difference
<1> QED
  BY <1>2, <1>3, <1>4, FS_CardinalityType

LEMMA TreePruned ==
  ASSUME NEW ns, Shape(ns), Len(ns) <= MaxU32, NEW sc, NEW del, TreeOK(ns, sc, del),
         NEW ps, NEW d, Trail(ns, ps, d), NEW t \in ToSet(ns[d].kids),
         NEW ms, ms = Pruned(ns, d, t)
  PROVE  /\ TreeOK(ms, sc, del \cup {t})
         /\ Branch(ms, 1) = Branch(ns, 1) \ Branch(sc, t)
<1>n. PICK n \in Nat : n = Len(ns) /\ n <= MaxU32
  BY DEF Shape
<1>1. d \in 1..n /\ t \in 1..n /\ t > d /\ d \in 1..Len(ns) /\ t \in 1..Len(ns)
  <2>1. d \in 1..Len(ns)
    BY DEF Trail
  <2> QED
    BY <1>n, <2>1, KidIds
<1>2. SameLinks(ns, ms, d, t) /\ ms \in Seq(NodeType)
  BY <1>1, PrunedEffect
<1>3. Shape(ms) /\ Apart(ns) /\ Apart(ms) /\ Len(ms) = n
  <2>1. Apart(ns)
    BY DEF TreeOK
  <2>2. Shape(ms)
    BY <1>1, <1>2, PrunedShape
  <2>3. Apart(ms)
    BY <1>1, <1>2, <2>1, PrunedApart
  <2>4. Len(ms) = Len(ns)
    BY <1>2 DEF SameLinks
  <2> QED
    BY <1>n, <2>1, <2>2, <2>3, <2>4
<1> DEFINE B(i) == Branch(ns, i)
           C(i) == Branch(ms, i)
           S(i) == Branch(sc, i)
<1>4. /\ \A i \in 1..n : C(i) = IF d \in B(i) THEN B(i) \ B(t) ELSE B(i)
      /\ \A i \in 1..n : i \in B(i) /\ B(i) \subseteq 1..n
      /\ \A i \in 1..n : \A j \in B(i) : B(j) \subseteq B(i)
      /\ \A i \in 1..n : i \in ToSet(Chain(ns, d)) <=> d \in B(i)
      /\ t \in B(d) /\ d \in B(1) /\ 1 \in 1..n
  <2>1. \A i \in 1..n : C(i) = IF d \in B(i) THEN B(i) \ B(t) ELSE B(i)
    BY <1>n, <1>1, <1>2, <1>3, BranchAfter
  <2>2. \A i \in 1..n : i \in B(i) /\ B(i) \subseteq 1..n
    BY <1>n, BranchType
  <2>3. \A i \in 1..n : \A j \in B(i) : B(j) \subseteq B(i)
    BY <1>n, BranchTrans
  <2>4. \A i \in 1..n : i \in ToSet(Chain(ns, d)) <=> d \in B(i)
    BY <1>n, <1>3, OnTrail
  <2>5. B(d) = {d} \cup UNION {B(c) : c \in ToSet(ns[d].kids)}
    BY <1>1, BranchUnfolds
  <2>6. t \in B(d)
    BY <1>1, <2>2, <2>5
  <2>7. d \in B(1) /\ 1 \in 1..n
    BY <1>n, <1>3, RootBranch
  <2> QED
    BY <2>1, <2>2, <2>3, <2>4, <2>6, <2>7
<1>5. /\ \A i \in B(1) : B(i) = S(i) \cap B(1)
      /\ B(1) = (1..n) \ UNION {S(u) : u \in del}
      /\ \A i \in B(1) : ns[i].etype = "Dir" => ns[i].items = Cardinality(B(i)) - 1
  BY <1>n DEF TreeOK
<1>6. \A i \in B(1) : i \in 1..n /\ B(i) \subseteq B(1)
  BY <1>4
<1>7. t \in B(1) /\ B(t) \subseteq B(1) /\ B(t) = S(t) \cap B(1)
  BY <1>4, <1>5, <1>6
(* An entry that stays and does not have the directory below it does not have   *)
(* any of the target's branch either.                                          *)
<1>8. ASSUME NEW i \in 1..n, i \notin B(t), d \notin B(i) PROVE B(i) \cap B(t) = {}
  <2> SUFFICES ASSUME NEW x, x \in B(i), x \in B(t) PROVE FALSE
    OBVIOUS
  <2>1. t \in B(i)
    <3>1. i \in B(t) \/ t \in B(i)
      BY <1>n, <1>1, <1>3, Nested
    <3> QED
      BY <1>8, <3>1
  <2>2. t # i
    BY <1>4, <1>8
  <2>3. PICK p \in B(i) : t \in ToSet(ns[p].kids)
    BY <1>n, <2>1, <2>2, BranchParent
  <2>4. p \in 1..Len(ns)
    BY <1>n, <1>4
  <2>5. p = d
    BY <1>1, <1>3, <2>3, <2>4 DEF Apart
  <2> QED
    BY <1>8, <2>3, <2>5
<1>9. \A i \in 1..n :
        /\ ms[i].etype = ns[i].etype
        /\ d \in B(i) => ms[i].items = Less(ns[i].items, SatItems(Cardinality(B(t))))
        /\ d \notin B(i) => ms[i].items = ns[i].items
  <2> SUFFICES ASSUME NEW i \in 1..n
               PROVE  /\ ms[i].etype = ns[i].etype
                      /\ d \in B(i) => ms[i].items = Less(ns[i].items, SatItems(Cardinality(B(t))))
                      /\ d \notin B(i) => ms[i].items = ns[i].items
    OBVIOUS
  <2>1. i \in 1..Len(ns) /\ SubtreeTotals(ns, t).items = SatItems(Cardinality(B(t)))
    BY <1>n DEF SubtreeTotals
  <2>2. /\ i \in ToSet(Chain(ns, d)) => ms[i].items = Less(ns[i].items, SubtreeTotals(ns, t).items)
        /\ i \notin ToSet(Chain(ns, d)) => ms[i].items = ns[i].items
    BY <1>1, <2>1, PrunedNumbers
  <2>3. ms[i].etype = ns[i].etype
    BY <1>2, <2>1 DEF SameLinks
  <2> QED
    BY <1>4, <2>1, <2>2, <2>3
<1>10. \A i \in 1..n : ns[i].items \in Nat
  BY <1>n, NodeFields DEF Shape
<1> HIDE DEF B, C, S
<1>11. C(1) = B(1) \ B(t) /\ C(1) = B(1) \ S(t)
  BY <1>4, <1>7
<1>12. \A i \in C(1) : C(i) = S(i) \cap C(1)
  <2> SUFFICES ASSUME NEW i \in C(1) PROVE C(i) = S(i) \cap C(1)
    OBVIOUS
  <2>1. i \in B(1) /\ i \notin B(t) /\ i \in 1..n /\ B(i) = S(i) \cap B(1)
    BY <1>5, <1>6, <1>11
  <2>2. C(i) = B(i) \ B(t)
    BY <1>4, <1>8, <2>1
  <2> QED
    BY <1>11, <2>1, <2>2
<1>13. C(1) = (1..n) \ UNION {S(u) : u \in del \cup {t}}
  <2>1. UNION {S(u) : u \in del \cup {t}} = (UNION {S(u) : u \in del}) \cup S(t)
    OBVIOUS
  <2> QED
    BY <1>5, <1>11, <2>1
<1>14. ASSUME NEW i \in C(1), ms[i].etype = "Dir" PROVE ms[i].items = Cardinality(C(i)) - 1
  <2>1. i \in B(1) /\ i \notin B(t) /\ i \in 1..n /\ ns[i].items = Cardinality(B(i)) - 1
        /\ B(i) \in SUBSET (1..n)
    BY <1>4, <1>5, <1>6, <1>9, <1>11, <1>14
  <2>2. CASE d \notin B(i)
    BY <1>4, <1>9, <2>1, <2>2
  <2>3. CASE d \in B(i)
    <3>1. B(t) \subseteq B(i) /\ i \in B(i)
      BY <1>4, <2>1, <2>3
    <3> DEFINE a == Cardinality(B(i))
               b == Cardinality(B(t))
    <3>2. /\ a \in Nat /\ b \in Nat /\ a <= n /\ b <= a /\ Cardinality(B(i) \ B(t)) = a - b
      BY <2>1, <3>1, CutBranch
    <3>3. Cardinality(B(i) \ B(t)) >= 1
      <4>1. {i} \in SUBSET (B(i) \ B(t)) /\ B(i) \ B(t) \in SUBSET (1..n)
        BY <2>1, <3>1
      <4>2. Cardinality({i}) <= Cardinality(B(i) \ B(t))
        BY <4>1, CutBranch
      <4> QED
        BY <4>2, FS_Singleton
    <3>4. C(i) = B(i) \ B(t) /\ ms[i].items = Less(a - 1, SatItems(b))
      BY <1>4, <1>9, <2>1, <2>3
    <3> HIDE DEF a, b
    <3>5. SatItems(b) = b /\ b <= a - 1
      BY <1>n, <3>2, <3>3, SinkAssumption DEF SatItems
    <3>6. Less(a - 1, SatItems(b)) = a - b - 1
      BY <3>2, <3>5 DEF Less
    <3> QED
      BY <3>2, <3>4, <3>6
  <2> QED
    BY <2>2, <2>3
<1> QED
  BY <1>3, <1>11, <1>12, <1>13, <1>14 DEF TreeOK, B, C, S

----------------------------------------------------------------------------
(* The totals.  What the walk reported for each entry, and what an entry adds    *)
(* to the total of its directory.                                               *)
Owns(ts, n) == [i \in 1..n |-> Told(ts, i) - Told(ts, i - 1)]
Weights(ns) == [i \in 1..Len(ns) |-> IF ns[i].etype = "Link" THEN 0 ELSE ns[i].blocks]
Left(ns, ts, i) == SumFunctionOnSet(Owns(ts, Len(ns)), Branch(ns, i))

(* An entry that is not a directory adds what was reported for it (add_stat,     *)
(* add_special).                                                                *)
LeavesTold ==
  \A i \in Ids : ~IsDir(i) => Told(told, i) - Told(told, i - 1) = Weights(nodes)[i]

LEMMA LeavesToldStep == IInv /\ LeavesTold /\ [Next]_vars => LeavesTold'
<1> SUFFICES ASSUME IInv, LeavesTold, Next, ~UNCHANGED vars PROVE LeavesTold'
  BY DEF LeavesTold, vars, Ids, IsDir
<1> DEFINE n == Len(nodes)
<1>1. /\ TypeOK /\ (\A i \in OpenIds : IsDir(i)) /\ n \in Nat /\ Ids = 1..n /\ Len(told) = n
      /\ Ids' = 1..Len(nodes')
  BY StateFacts DEF IInv, StackOK, OpenIds, IsDir, Depth, TypeOK, Ids
<1>2. \A i \in Ids : ~IsDir(i) => nodes'[i] = nodes[i]
  BY <1>1, OthersStay
<1>3. CASE told' = told /\ Len(nodes') = n
           /\ \A i \in Ids : nodes'[i].etype = nodes[i].etype
  <2> SUFFICES ASSUME NEW i \in Ids, nodes'[i].etype # "Dir"
               PROVE  Told(told', i) - Told(told', i - 1) = Weights(nodes')[i]
    BY <1>1, <1>3 DEF LeavesTold, IsDir
  <2>1. ~IsDir(i) /\ i \in 1..n
    BY <1>1, <1>3 DEF IsDir
  <2>2. nodes'[i] = nodes[i]
    BY <1>2, <2>1
  <2>3. Weights(nodes')[i] = Weights(nodes)[i]
    BY <1>3, <2>1, <2>2 DEF Weights
  <2> QED
    BY <1>3, <2>1, <2>3 DEF LeavesTold
<1>4. ASSUME NEW e, NEW b \in Nat, NEW w, NEW p, NEW v, EntryAdded(e, b, Node(e, w, p, v)),
             TypeOK', e # "Dir" => b = (IF e = "Link" THEN 0 ELSE w), Depth > 0
      PROVE  LeavesTold'
  <2>1. /\ Len(nodes') = n + 1 /\ nodes'[n + 1] = Node(e, w, p, v) /\ Len(told') = n + 1
        /\ told'[n + 1] = Told(told, n) + b /\ \A i \in 1..n : told'[i] = told[i]
    <3>1. NewId = n + 1
      BY DEF NewId
    <3> QED
      BY <1>1, <1>4, <3>1 DEF EntryAdded
  <2>2. \A i \in 0..n : Told(told', i) = Told(told, i) /\ Told(told, i) \in Nat
    <3>1. \A i \in 0..n : Told(told, i) \in Nat
      BY StateFacts
    <3> QED
      BY <2>1, <3>1 DEF Told
  <2> SUFFICES ASSUME NEW i \in 1..(n + 1), nodes'[i].etype # "Dir"
               PROVE  Told(told', i) - Told(told', i - 1) = Weights(nodes')[i]
    BY <1>1, <2>1 DEF LeavesTold, IsDir
  <2>3. Weights(nodes')[i] = IF nodes'[i].etype = "Link" THEN 0 ELSE nodes'[i].blocks
    BY <2>1 DEF Weights
  <2>4. CASE i = n + 1
    <3>1. nodes'[i].etype = e /\ nodes'[i].blocks = w
      BY <2>1, <2>4 DEF Node
    <3>2. Told(told', i) = Told(told, n) + b /\ Told(told', i - 1) = Told(told, n)
          /\ Told(told, n) \in Nat
      <4>1. i # 0 /\ i - 1 = n /\ n \in 0..n
        BY <1>1, <2>4
      <4> QED
        BY <2>1, <2>2, <2>4, <4>1 DEF Told
    <3>3. Told(told', i) - Told(told', i - 1) = b
      BY <3>2
    <3> QED
      BY <1>4, <2>3, <3>1, <3>3
  <2>5. CASE i \in 1..n
    <3>2. nodes'[i].etype = nodes[i].etype
      <4>1. CASE i = Top.id
        <5>1. nodes'[i] = TopWith(e) /\ nodes[Top.id] \in NodeType
          BY <1>1, <1>4, <2>5, <4>1, TopType DEF EntryAdded
        <5> QED
          BY <4>1, <5>1 DEF TopWith, NodeType
      <4>2. CASE i # Top.id
        BY <1>1, <1>4, <2>5, <4>2 DEF EntryAdded
      <4> QED
        BY <4>1, <4>2
    <3>3. ~IsDir(i)
      BY <3>2 DEF IsDir
    <3>4. nodes'[i] = nodes[i]
      BY <1>1, <1>2, <2>5, <3>3
    <3>5. Weights(nodes')[i] = Weights(nodes)[i]
      BY <2>3, <2>5, <3>4 DEF Weights
    <3>6. i \in 0..n /\ i - 1 \in 0..n
      BY <2>5
    <3>7. Told(told', i) = Told(told, i) /\ Told(told', i - 1) = Told(told, i - 1)
      BY <2>2, <3>6
    <3>8. Told(told, i) - Told(told, i - 1) = Weights(nodes)[i]
      BY <1>1, <2>5, <3>3 DEF LeavesTold
    <3> QED
      BY <3>5, <3>7, <3>8
  <2>6. i = n + 1 \/ i \in 1..n
    BY <1>1
  <2> QED
    BY <2>4, <2>5, <2>6
<1>5. ASSUME NEW b \in Blocks, NEW v \in Devs, CreateRoot(b, v) PROVE LeavesTold'
  <2>1. Len(nodes') = 1 /\ nodes'[1] = Node("Dir", b, NoEntry, DevId(v))
    BY <1>1, <1>5, CreateRootEffect
  <2>2. nodes'[1].etype = "Dir"
    BY <2>1 DEF Node
  <2> QED
    BY <1>1, <2>1, <2>2 DEF LeavesTold, IsDir
<1>6. ASSUME NEW sp \in Specials, AddSpecial(sp) PROVE LeavesTold'
  <2>1. /\ EntryAdded(sp, 0, Node(sp, 0, ParentField(sp, Top.id), 0)) /\ TypeOK' /\ Depth > 0
    BY <1>1, <1>6, AddSpecialEffect DEF AddSpecial, CanAdd
  <2> QED
    BY <1>4, <2>1
<1>7. ASSUME NEW t \in FileTypes, NEW b \in Blocks, AddStat(t, b) PROVE LeavesTold'
  <2>1. /\ EntryAdded(t, Counted(t, b), Node(t, b, ParentField(t, Top.id), 0)) /\ TypeOK' /\ Depth > 0
    BY <1>1, <1>7, AddStatEffect DEF AddStat, CanAdd
  <2>2. Counted(t, b) \in Nat /\ Counted(t, b) = IF t = "Link" THEN 0 ELSE b
    BY SinkAssumption DEF Counted
  <2> QED
    BY <1>4, <2>1, <2>2
<1>8. ASSUME NEW b \in Blocks, NEW v \in Devs, AddDir(b, v) PROVE LeavesTold'
  <2>1. /\ EntryAdded("Dir", b, Node("Dir", b, Top.id, DevId(v))) /\ TypeOK' /\ Depth > 0 /\ b \in Nat
    BY <1>1, <1>8, AddDirEffect, SinkAssumption DEF AddDir, CanAdd
  <2> QED
    BY <1>4, <2>1
<1>9. ASSUME SetReadError \/ FinalizeSub \/ FinalizeRoot PROVE LeavesTold'
  <2>1. told' = told /\ nodes # <<>> /\ Len(nodes') = n
    <3>1. Depth > 0
      BY <1>1, <1>9, StateFacts DEF SetReadError, FinalizeSub, FinalizeRoot
    <3>2. nodes # <<>>
      BY <1>1, <3>1, TopType
    <3> QED
      BY <1>1, <1>9, <3>1, <3>2, SetReadErrorEffect, FinalizeSubEffect, FinalizeRootEffect
         DEF SetReadError, FinalizeSub, FinalizeRoot
  <2>2. NoneMore
    <3>1. NoneMore \/ \E e, v : OneMore(e, v)
      BY <1>1, <2>1, Steps
    <3>2. ~\E e, v : OneMore(e, v)
      BY <1>1, <2>1 DEF OneMore
    <3> QED
      BY <3>1, <3>2
  <2> QED
    BY <1>3, <2>1, <2>2 DEF NoneMore, SameEntry
<1> QED
  BY <1>5, <1>6, <1>7, <1>8, <1>9 DEF Next

(* What was reported for a range of entries is what its total grew by.          *)
LEMMA Telescope ==
  ASSUME NEW ts, NEW n \in Nat, \A i \in 0..n : Told(ts, i) \in Nat, NEW a \in 1..n, NEW b \in a..n
  PROVE  SumFunctionOnSet(Owns(ts, n), a..b) = Told(ts, b) - Told(ts, a - 1)
<1> DEFINE f == Owns(ts, n)
           Sum(x) == SumFunctionOnSet(f, a..x)
           P == {k \in Nat : a - 1 + k <= n => Sum(a - 1 + k) = Told(ts, a - 1 + k) - Told(ts, a - 1)}
<1>1. \A i \in 1..n : f[i] = Told(ts, i) - Told(ts, i - 1) /\ f[i] \in Int
  BY DEF Owns
<1> HIDE DEF f
<1>2. 0 \in P
  <2>1. a..(a - 1 + 0) = {} /\ a - 1 + 0 = a - 1 /\ a - 1 \in 0..n
    OBVIOUS
  <2>2. Sum(a - 1 + 0) = 0
    BY <2>1, SumEmpty
  <2>3. Told(ts, a - 1) - Told(ts, a - 1) = 0
    BY <2>1
  <2> HIDE DEF Sum
  <2> QED
    BY <2>1, <2>2, <2>3
<1>3. ASSUME NEW k \in Nat, k \in P PROVE k + 1 \in P
  <2> SUFFICES ASSUME a - 1 + (k + 1) <= n
               PROVE  Sum(a - 1 + (k + 1)) = Told(ts, a - 1 + (k + 1)) - Told(ts, a - 1)
    OBVIOUS
  <2> DEFINE y == a + k
  <2>1. y \in 1..n /\ a - 1 + (k + 1) = y /\ a - 1 + k = y - 1 /\ y - 1 \in 0..n /\ a - 1 \in 0..n
        /\ y \in Int /\ a \in Int /\ y >= a
    OBVIOUS
  <2>2. Sum(y - 1) = Told(ts, y - 1) - Told(ts, a - 1)
    BY <1>3, <2>1
  <2> HIDE DEF y, P
  <2>3. (a..y) \ {y} = a..(y - 1) /\ y \in a..y /\ a..y \subseteq 1..n
    BY <2>1
  <2>4. IsFiniteSet(a..y)
    BY <2>1, FS_Interval
  <2>5. \A i \in a..y : f[i] \in Int
    BY <1>1, <2>3
  <2>6. SumFunctionOnSet(f, a..y) = f[y] + SumFunctionOnSet(f, (a..y) \ {y})
    <3> DEFINE S == a..y
    <3>1. IsFiniteSet(S) /\ y \in S /\ \A i \in S : f[i] \in Int
      BY <2>3, <2>4, <2>5
    <3> HIDE DEF S
    <3>2. SumFunctionOnSet(f, S) = f[y] + SumFunctionOnSet(f, S \ {y})
      BY <3>1, SumWithout
    <3> QED
      BY <3>2 DEF S
  <2>7. Sum(y) = f[y] + Sum(y - 1)
    BY <2>3, <2>6
  <2>8. f[y] = Told(ts, y) - Told(ts, y - 1) /\ Told(ts, y) \in Nat /\ Told(ts, y - 1) \in Nat
        /\ Told(ts, a - 1) \in Nat
    BY <1>1, <2>1
  <2> HIDE DEF Sum
  <2> QED
    BY <2>1, <2>2, <2>7, <2>8
<1>4. b - a + 1 \in P
  <2>1. b - a + 1 \in Nat
    OBVIOUS
  <2> HIDE DEF P
  <2> QED
    BY <1>2, <1>3, <2>1, SetInduction
<1>5. a - 1 + (b - a + 1) = b /\ b <= n
  OBVIOUS
<1> HIDE DEF Sum
<1>6. Sum(b) = Told(ts, b) - Told(ts, a - 1)
  BY <1>4, <1>5
<1> QED
  BY <1>6 DEF Sum, f

(* A bounded sum is no more than the sum of bounded terms.                      *)
LEMMA SatSum ==
  ASSUME NEW f, NEW g, NEW S, IsFiniteSet(S), \A i \in S : f[i] \in Nat /\ g[i] = Sat(f[i])
  PROVE  /\ SumFunctionOnSet(f, S) \in Nat /\ SumFunctionOnSet(g, S) \in Nat
         /\ Sat(SumFunctionOnSet(f, S)) <= SumFunctionOnSet(g, S)
<1>1. \A i \in S : f[i] \in Int /\ g[i] \in Int /\ g[i] \in Nat
  BY SinkAssumption DEF Sat
<1>2. SumFunctionOnSet(f, S) \in Nat /\ SumFunctionOnSet(g, S) \in Nat
  BY <1>1, SumType
<1>3. CASE \A i \in S : f[i] <= MaxU64
  <2>1. \A i \in S : f[i] = g[i]
    BY <1>3, SinkAssumption DEF Sat
  <2>2. SumFunctionOnSet(f, S) = SumFunctionOnSet(g, S)
    BY <2>1, SumSame
  <2> QED
    BY <1>2, <2>2, SinkAssumption DEF Sat
<1>4. ASSUME NEW y \in S, f[y] > MaxU64 PROVE Sat(SumFunctionOnSet(f, S)) <= SumFunctionOnSet(g, S)
  <2>1. SumFunctionOnSet(g, S) = g[y] + SumFunctionOnSet(g, S \ {y})
    BY <1>1, SumWithout
  <2>2. SumFunctionOnSet(g, S \ {y}) \in Nat
    <3>1. IsFiniteSet(S \ {y})
      BY FS_RemoveElement
    <3> QED
      BY <1>1, <3>1, SumType
  <2>3. g[y] = MaxU64
    BY <1>4, SinkAssumption DEF Sat
  <2>4. Sat(SumFunctionOnSet(f, S)) <= MaxU64
    BY <1>2, SinkAssumption DEF Sat
  <2> QED
    BY <1>2, <2>1, <2>2, <2>3, <2>4, SinkAssumption DEF Sat
<1>5. (\A i \in S : f[i] <= MaxU64) \/ \E y \in S : f[y] > MaxU64
  BY SinkAssumption
<1> QED
  BY <1>2, <1>3, <1>4, <1>5

LEMMA OwnTypes ==
  ASSUME NEW ns, Shape(ns), NEW ts, \A j \in 1..Len(ns) : Owns(ts, Len(ns))[j] \in Nat,
         NEW i \in 1..Len(ns)
  PROVE  /\ IsFiniteSet(Branch(ns, i)) /\ IsFiniteSet(ToSet(ns[i].kids))
         /\ Left(ns, ts, i) \in Nat
         /\ \A x \in Branch(ns, i) : Owns(ts, Len(ns))[x] \in Int
<1>1. Branch(ns, i) \subseteq 1..Len(ns) /\ ToSet(ns[i].kids) \subseteq 1..Len(ns) /\ Len(ns) \in Nat
  BY BranchType, KidIds
<1>2. IsFiniteSet(Branch(ns, i)) /\ IsFiniteSet(ToSet(ns[i].kids))
  <2>1. IsFiniteSet(1..Len(ns))
    BY <1>1, UpTo
  <2> QED
    BY <1>1, <2>1, FS_Subset
<1>3. \A x \in Branch(ns, i) : Owns(ts, Len(ns))[x] \in Nat /\ Owns(ts, Len(ns))[x] \in Int
  BY <1>1
<1> QED
  BY <1>2, <1>3, SumType DEF Left

(* What is left below an entry: its own, and what is left below its children.    *)
LEMMA LeftUnfolds ==
  ASSUME NEW ns, Shape(ns), Apart(ns), NEW ts,
         \A j \in 1..Len(ns) : Owns(ts, Len(ns))[j] \in Nat, NEW i \in 1..Len(ns)
  PROVE  Left(ns, ts, i) = Owns(ts, Len(ns))[i]
           + SumFunctionOnSet([k \in ToSet(ns[i].kids) |-> Left(ns, ts, k)], ToSet(ns[i].kids))
<1> DEFINE f == Owns(ts, Len(ns))
           K == ToSet(ns[i].kids)
           B == [k \in K |-> Branch(ns, k)]
           U == UNION {B[k] : k \in K}
           h == [k \in K |-> Left(ns, ts, k)]
<1>1. K \subseteq 1..Len(ns) /\ (\A k \in K : k > i) /\ IsFiniteSet(K)
  BY KidIds, OwnTypes
<1>2. \A k \in K : /\ B[k] = Branch(ns, k) /\ IsFiniteSet(B[k]) /\ \A x \in B[k] : f[x] \in Int
  BY <1>1, OwnTypes
<1>3. /\ \A k \in K : IsFiniteSet(B[k]) /\ \A x \in B[k] : f[x] \in Int
      /\ \A k, l \in K : k # l => B[k] \cap B[l] = {}
  BY <1>2, SiblingsApart
<1>4. Branch(ns, i) = {i} \cup U
  <2>1. Branch(ns, i) = {i} \cup UNION {Branch(ns, k) : k \in ToSet(ns[i].kids)}
    BY BranchUnfolds
  <2>2. UNION {Branch(ns, k) : k \in ToSet(ns[i].kids)} = U
    OBVIOUS
  <2> QED
    BY <2>1, <2>2
<1>5. i \notin U
  <2>1. \A k \in K : \A x \in Branch(ns, k) : x >= k /\ x \in Nat /\ k > i /\ k \in Nat
    BY <1>1, BranchFrom
  <2>2. \A k \in K : i \notin Branch(ns, k)
    BY <2>1
  <2> QED
    BY <1>2, <2>2
<1> HIDE DEF B, K, f, h
<1>6. SumFunctionOnSet(f, U) = SumFunctionOnSet(h, K) /\ IsFiniteSet(U)
  <2>1. \A k \in K : h[k] = SumFunctionOnSet(f, B[k])
    BY <1>2 DEF h, Left, f
  <2>2. \A x : x \in U <=> \E k \in K : x \in B[k]
    BY DEF U
  <2> HIDE DEF U
  <2>3. Family(f, K, B, h, U)
    BY <1>1, <1>3, <2>1, <2>2 DEF Family
  <2> QED
    BY <2>3, SumFamily
<1>7. /\ IsFiniteSet({i}) /\ {i} \cap U = {} /\ f[i] \in Int
      /\ \A x \in {i} \cup U : f[x] \in Int
  <2>1. f[i] \in Int
    BY DEF f
  <2>2. \A x \in U : f[x] \in Int
    BY <1>3 DEF U
  <2> QED
    BY <1>5, <2>1, <2>2, FS_Singleton
<1> HIDE DEF U
<1>8. SumFunctionOnSet(f, {i} \cup U) = SumFunctionOnSet(f, {i}) + SumFunctionOnSet(f, U)
  BY <1>6, <1>7, SumUnion
<1>9. SumFunctionOnSet(f, {i}) = f[i]
  BY <1>7, SumOne
<1> QED
  BY <1>4, <1>6, <1>8, <1>9 DEF Left, f, K, h

(* What deletions keep true of the totals.  No total exceeds what the walk       *)
(* reported for the directory and the totals of its children.  And as long as no *)
(* total had saturated and no link was a target, each is what is left.           *)
TotalsOK(ns, ts, del) ==
  LET own == Owns(ts, Len(ns))
  IN  /\ \A i \in 1..Len(ns) :
           /\ own[i] \in Nat
           /\ ns[i].etype # "Dir" => ns[i].kids = <<>> /\ Weights(ns)[i] = own[i]
           /\ ns[i].etype = "Dir" =>
                ns[i].blocks <= own[i] + SumFunctionOnSet(Weights(ns), ToSet(ns[i].kids))
      /\ Told(ts, Len(ns)) <= MaxU64 /\ (\A t \in del : ns[t].etype # "Link") =>
           \A i \in 1..Len(ns) : ns[i].etype = "Dir" => ns[i].blocks = Left(ns, ts, i)

LEMMA WeightTypes ==
  ASSUME NEW ns, Shape(ns), NEW i \in 1..Len(ns)
  PROVE  /\ ns[i].blocks \in Nat /\ ns[i].blocks <= MaxU64
         /\ Weights(ns)[i] \in Nat /\ Weights(ns)[i] <= ns[i].blocks
         /\ Weights(ns)[i] = IF ns[i].etype = "Link" THEN 0 ELSE ns[i].blocks
<1>1. ns[i] \in NodeType
  BY ElementOfSeq DEF Shape
<1>2. ns[i].blocks \in Nat /\ ns[i].blocks <= MaxU64
  BY <1>1, NodeFieldTypes, SinkAssumption
<1> QED
  BY <1>2 DEF Weights

LEMMA SatMoves ==
  ASSUME NEW a \in Nat, NEW b \in Nat PROVE Sat(a + b) <= a + Sat(b) /\ Sat(a) <= a
BY SinkAssumption DEF Sat

(* A total that loses k, and one of its terms that does.                        *)
LEMMA LessMoves ==
  ASSUME NEW w \in Nat, NEW a \in Nat, NEW k \in Nat, NEW o \in Nat, w <= o + a
  PROVE  Less(w, k) \in Nat /\ Less(a, k) \in Nat /\ Less(w, k) <= o + Less(a, k)
         /\ Less(w, 0) = w
BY DEF Less

LEMMA TotalsStart ==
  ASSUME IInv, Leafless, LeavesTold, Shape(nodes), Apart(nodes), open = <<>>
  PROVE  TotalsOK(nodes, told, {})
<1>n. PICK n \in Nat : n = Len(nodes) /\ Ids = 1..n
  BY DEF Shape, Ids
<1> DEFINE own == Owns(told, n)
           L(i) == Left(nodes, told, i)
           W == Weights(nodes)
<1>0. /\ \A i \in 0..n : Told(told, i) \in Nat
      /\ \A i, j \in 0..n : i <= j => Told(told, i) <= Told(told, j)
  BY <1>n, StateFacts
<1>1. \A i \in 0..n : Told(told, i) \in Nat /\ Told(told, i) <= Told(told, n)
  BY <1>0
<1>2. \A i \in 1..n : /\ own[i] = Told(told, i) - Told(told, i - 1) /\ own[i] \in Nat
  <2> SUFFICES ASSUME NEW i \in 1..n
               PROVE  own[i] = Told(told, i) - Told(told, i - 1) /\ own[i] \in Nat
    OBVIOUS
  <2>2. i \in 0..n /\ i - 1 \in 0..n /\ i - 1 <= i
    OBVIOUS
  <2>3. Told(told, i - 1) <= Told(told, i)
    BY <1>0, <2>2
  <2>4. Told(told, i) \in Nat /\ Told(told, i - 1) \in Nat
    BY <1>1, <2>2
  <2> QED
    BY <2>3, <2>4 DEF Owns
<1>3. ASSUME NEW i \in 1..n
      PROVE  /\ End(nodes, i) \in i..n
             /\ L(i) = Told(told, End(nodes, i)) - Told(told, i - 1)
             /\ L(i) \in Nat /\ L(i) <= Told(told, n)
             /\ W[i] = Sat(L(i))
             /\ ~IsDir(i) => nodes[i].kids = <<>> /\ W[i] = own[i]
             /\ IsDir(i) => nodes[i].blocks = Sat(L(i)) /\ nodes[i].blocks = W[i]
  <2>1. Branch(nodes, i) = i..End(nodes, i) /\ End(nodes, i) \in i..n
    BY <1>n, ScannedBranch
  <2>2. \A j \in 0..n : Told(told, j) \in Nat
    BY <1>1
  <2>3. L(i) = Told(told, End(nodes, i)) - Told(told, i - 1)
    BY <1>n, <2>1, <2>2, Telescope DEF Left
  <2>4. L(i) \in Nat
    BY <1>n, <1>2, OwnTypes
  <2>5. L(i) <= Told(told, n)
    <3>1. End(nodes, i) \in 0..n /\ i - 1 \in 0..n
      BY <2>1
    <3>2. /\ Told(told, End(nodes, i)) \in Nat /\ Told(told, i - 1) \in Nat /\ Told(told, n) \in Nat
          /\ Told(told, End(nodes, i)) <= Told(told, n)
      BY <1>1, <3>1
    <3> HIDE DEF L
    <3> QED
      BY <2>3, <3>2
  <2>6. /\ nodes[i].blocks \in Nat /\ nodes[i].blocks <= MaxU64
        /\ W[i] \in Nat /\ W[i] <= nodes[i].blocks
        /\ W[i] = IF nodes[i].etype = "Link" THEN 0 ELSE nodes[i].blocks
    BY <1>n, WeightTypes
  <2>7. CASE IsDir(i)
    <3>1. i \in Closed
      BY <1>n, <2>7, StateFacts DEF Closed, OpenIds, Depth
    <3>2. DirOK(nodes, told, i)
      BY <3>1 DEF IInv, ClosedOK
    <3>3. nodes[i].blocks = Sat(L(i))
      BY <2>3, <3>2 DEF DirOK
    <3> HIDE DEF L, W
    <3> QED
      BY <2>1, <2>3, <2>4, <2>5, <2>6, <2>7, <3>3 DEF IsDir
  <2>8. CASE ~IsDir(i)
    <3>1. nodes[i].kids = <<>> /\ nodes[i].items = 0
      BY <1>n, <2>8 DEF Leafless
    <3>2. End(nodes, i) = i
      BY <3>1 DEF End
    <3>3. W[i] = own[i]
      BY <1>n, <1>2, <2>8 DEF LeavesTold
    <3>4. L(i) = own[i]
      BY <1>2, <2>3, <3>2
    <3> HIDE DEF L, W, own
    <3>5. W[i] = Sat(L(i))
      BY <2>6, <3>3, <3>4, SinkAssumption DEF Sat
    <3> QED
      BY <2>1, <2>3, <2>4, <2>5, <2>8, <3>1, <3>3, <3>5
  <2> QED
    BY <2>7, <2>8
<1>4. ASSUME NEW i \in 1..n, IsDir(i)
      PROVE  nodes[i].blocks <= own[i] + SumFunctionOnSet(W, ToSet(nodes[i].kids))
  <2> DEFINE K == ToSet(nodes[i].kids)
             f == [k \in K |-> L(k)]
  <2>1. K \subseteq 1..n /\ IsFiniteSet(K)
    BY <1>n, <1>2, KidIds, OwnTypes
  <2>2. L(i) = own[i] + SumFunctionOnSet(f, K)
    BY <1>n, <1>2, LeftUnfolds
  <2>3. \A k \in K : f[k] \in Nat /\ W[k] = Sat(f[k])
    BY <1>3, <2>1
  <2> HIDE DEF K, f, W, L, own
  <2>4. /\ SumFunctionOnSet(f, K) \in Nat /\ SumFunctionOnSet(W, K) \in Nat
        /\ Sat(SumFunctionOnSet(f, K)) <= SumFunctionOnSet(W, K)
    BY <2>1, <2>3, SatSum
  <2>5. own[i] \in Nat /\ nodes[i].blocks = Sat(L(i))
    BY <1>2, <1>3, <1>4
  <2>6. Sat(own[i] + SumFunctionOnSet(f, K)) <= own[i] + Sat(SumFunctionOnSet(f, K))
    BY <2>4, <2>5, SatMoves
  <2>7. Sat(SumFunctionOnSet(f, K)) \in Nat /\ Sat(L(i)) \in Nat
    BY <2>2, <2>4, <2>5, SinkAssumption DEF Sat
  <2>8. nodes[i].blocks <= own[i] + SumFunctionOnSet(W, K)
    BY <2>2, <2>4, <2>5, <2>6, <2>7
  <2> QED
    BY <2>8 DEF K
<1>5. ASSUME Told(told, n) <= MaxU64, NEW i \in 1..n, IsDir(i) PROVE nodes[i].blocks = L(i)
  <2>1. nodes[i].blocks = Sat(L(i)) /\ L(i) \in Nat /\ L(i) <= Told(told, n) /\ Told(told, n) \in Nat
    BY <1>1, <1>3, <1>5
  <2> HIDE DEF L
  <2> QED
    BY <1>5, <2>1, SinkAssumption DEF Sat
<1> QED
  BY <1>n, <1>2, <1>3, <1>4, <1>5 DEF TotalsOK, IsDir

LEMMA TotalsPruned ==
  ASSUME NEW ns, Shape(ns), Apart(ns), NEW ts, NEW del \in SUBSET (1..Len(ns)),
         TotalsOK(ns, ts, del), NEW ps, NEW d, Trail(ns, ps, d), NEW t \in ToSet(ns[d].kids),
         NEW ms, ms = Pruned(ns, d, t)
  PROVE  TotalsOK(ms, ts, del \cup {t})
<1>n. PICK n \in Nat : n = Len(ns)
  BY DEF Shape
<1>1. d \in 1..n /\ t \in 1..n /\ t > d /\ d \in 1..Len(ns) /\ t \in 1..Len(ns)
  <2>1. d \in 1..Len(ns)
    BY DEF Trail
  <2> QED
    BY <1>n, <2>1, KidIds
<1>2. SameLinks(ns, ms, d, t) /\ ms \in Seq(NodeType)
  BY <1>1, PrunedEffect
<1>3. Shape(ms) /\ Apart(ms) /\ Len(ms) = n
  <2>1. Shape(ms)
    BY <1>1, <1>2, PrunedShape
  <2>2. Apart(ms)
    BY <1>1, <1>2, PrunedApart
  <2> QED
    BY <1>n, <1>2, <2>1, <2>2 DEF SameLinks
<1> DEFINE own == Owns(ts, n)
           B(i) == Branch(ns, i)
           K(i) == ToSet(ns[i].kids)
           V == Weights(ns)
           W == Weights(ms)
           F == ns[t].blocks
<1>4. \A i \in 1..n : /\ i \in B(i) /\ B(i) \subseteq 1..n /\ IsFiniteSet(K(i))
                      /\ K(i) \subseteq 1..n /\ (\A k \in K(i) : k > i)
                      /\ own[i] \in Nat
  <2>1. \A i \in 1..n : own[i] \in Nat
    BY <1>n DEF TotalsOK
  <2>2. \A i \in 1..n : IsFiniteSet(K(i))
    BY <1>n, <2>1, OwnTypes
  <2> QED
    BY <1>n, <2>1, <2>2, BranchType, KidIds
<1>5. \A i \in 1..n : /\ ms[i].etype = ns[i].etype
                      /\ d \in B(i) => ms[i].blocks = Less(ns[i].blocks, F)
                      /\ d \notin B(i) => ms[i].blocks = ns[i].blocks
  <2> SUFFICES ASSUME NEW i \in 1..n
               PROVE  /\ ms[i].etype = ns[i].etype
                      /\ d \in B(i) => ms[i].blocks = Less(ns[i].blocks, F)
                      /\ d \notin B(i) => ms[i].blocks = ns[i].blocks
    OBVIOUS
  <2>1. i \in 1..Len(ns) /\ SubtreeTotals(ns, t).blocks = F
    BY <1>n DEF SubtreeTotals
  <2>2. /\ i \in ToSet(Chain(ns, d)) => ms[i].blocks = Less(ns[i].blocks, SubtreeTotals(ns, t).blocks)
        /\ i \notin ToSet(Chain(ns, d)) => ms[i].blocks = ns[i].blocks
    BY <1>1, <2>1, PrunedNumbers
  <2>3. ms[i].etype = ns[i].etype
    BY <1>2, <2>1 DEF SameLinks
  <2>4. i \in ToSet(Chain(ns, d)) <=> d \in B(i)
    BY <1>1, <2>1, OnTrail
  <2> QED
    BY <2>1, <2>2, <2>3, <2>4
<1>6. \A i \in 1..n : /\ ns[i].blocks \in Nat /\ V[i] \in Nat /\ V[i] <= ns[i].blocks
                      /\ V[i] = IF ns[i].etype = "Link" THEN 0 ELSE ns[i].blocks
                      /\ W[i] \in Nat /\ ms[i].blocks \in Nat
                      /\ W[i] = IF ms[i].etype = "Link" THEN 0 ELSE ms[i].blocks
  BY <1>n, <1>3, WeightTypes
<1>7. \A i \in 1..n : d \notin B(i) => W[i] = V[i]
  BY <1>5, <1>6
(* Only directories have the one that lost an entry below them.                 *)
<1>8. \A i \in 1..n : B(i) = {i} \cup UNION {B(k) : k \in K(i)}
  BY <1>n, BranchUnfolds
<1>9. \A i \in 1..n : d \in B(i) /\ i # d => \E e \in K(i) : d \in B(e)
  BY <1>8
<1>10. \A i \in 1..n : d \in B(i) => ns[i].etype = "Dir"
  <2> SUFFICES ASSUME NEW i \in 1..n, d \in B(i), ns[i].etype # "Dir" PROVE FALSE
    OBVIOUS
  <2>1. ns[i].kids = <<>>
    BY <1>n DEF TotalsOK
  <2>2. K(i) = {}
    BY <2>1 DEF ToSet
  <2> QED
    BY <1>1, <1>9, <2>2
<1>11. \A i \in 1..n : /\ i # d => ms[i].kids = ns[i].kids
                       /\ i # d => ToSet(ms[i].kids) = K(i)
                       /\ i = d => ToSet(ms[i].kids) = K(d) \ {t}
  <2>1. \A i \in 1..n : i # d => ms[i].kids = ns[i].kids
    BY <1>n, <1>2 DEF SameLinks
  <2>2. ToSet(ms[d].kids) = K(d) \ {t}
    BY <1>1, <1>2, MembersAfter
  <2> QED
    BY <2>1, <2>2
<1>12. \A i \in 1..n : \A k \in K(i) : B(k) \subseteq B(i)
  <2> SUFFICES ASSUME NEW i \in 1..n, NEW k \in K(i) PROVE B(k) \subseteq B(i)
    OBVIOUS
  <2> HIDE DEF B, K
  <2> QED
    BY <1>8
<1> HIDE DEF B, K, V, W, own, F
<1>13. \A i \in 1..n : ms[i].etype # "Dir" => ms[i].kids = <<>> /\ W[i] = own[i]
  <2> SUFFICES ASSUME NEW i \in 1..n, ms[i].etype # "Dir" PROVE ms[i].kids = <<>> /\ W[i] = own[i]
    OBVIOUS
  <2>1. ns[i].etype # "Dir" /\ d \notin B(i)
    BY <1>5, <1>10
  <2>2. ns[i].kids = <<>> /\ V[i] = own[i]
    BY <1>n, <2>1 DEF TotalsOK, V, own
  <2>3. i # d
    BY <1>1, <1>4, <2>1
  <2> QED
    BY <1>7, <1>11, <2>1, <2>2, <2>3
<1>14. \A i \in 1..n : ns[i].etype = "Dir" => ns[i].blocks <= own[i] + SumFunctionOnSet(V, K(i))
  BY <1>n DEF TotalsOK, V, K, own
<1>15. F \in Nat
  BY <1>1, <1>6 DEF F
<1>16. ASSUME NEW i \in 1..n, ms[i].etype = "Dir"
       PROVE  ms[i].blocks <= own[i] + SumFunctionOnSet(W, ToSet(ms[i].kids))
  <2>1. /\ ns[i].etype = "Dir" /\ ns[i].blocks <= own[i] + SumFunctionOnSet(V, K(i))
        /\ ns[i].blocks \in Nat /\ own[i] \in Nat
        /\ IsFiniteSet(K(i)) /\ \A k \in K(i) : k \in 1..n /\ k > i /\ V[k] \in Int /\ V[k] \in Nat
    BY <1>4, <1>5, <1>6, <1>14, <1>16
  <2>2. CASE d \notin B(i)
    <3>1. i # d /\ ToSet(ms[i].kids) = K(i) /\ ms[i].blocks = ns[i].blocks
      BY <1>4, <1>5, <1>11, <2>2
    <3>2. \A k \in K(i) : W[k] = V[k]
      BY <1>7, <1>12, <2>1, <2>2
    <3>3. SumFunctionOnSet(W, K(i)) = SumFunctionOnSet(V, K(i))
      BY <2>1, <3>2, SumSame
    <3> QED
      BY <2>1, <3>1, <3>3
  <2>3. CASE i = d
    <3> DEFINE R == K(d) \ {t}
    <3>1. ms[i].blocks = Less(ns[i].blocks, F) /\ ToSet(ms[i].kids) = R /\ t \in K(i)
      BY <1>1, <1>4, <1>5, <1>11, <2>3 DEF K
    <3>2. IsFiniteSet(R) /\ R \subseteq K(i) /\ R = K(i) \ {t}
      BY <2>1, <2>3, FS_Subset
    <3>3. \A k \in R : W[k] = V[k]
      <4>1. \A k \in K(d) : d \notin B(k)
        <5> SUFFICES ASSUME NEW k \in K(d), d \in B(k) PROVE FALSE
          OBVIOUS
        <5>1. k \in 1..n /\ k > d
          BY <1>1, <1>4
        <5>2. d >= k
          BY <1>n, <5>1, BranchFrom DEF B
        <5> QED
          BY <1>1, <5>1, <5>2
      <4> QED
        BY <1>7, <2>1, <2>3, <3>2, <4>1
    <3> HIDE DEF R
    <3>4. SumFunctionOnSet(W, R) = SumFunctionOnSet(V, R)
      BY <3>2, <3>3, SumSame
    <3>5. SumFunctionOnSet(V, K(i)) = V[t] + SumFunctionOnSet(V, R)
      <4>1. \A k \in K(i) : V[k] \in Int
        BY <2>1
      <4> QED
        BY <2>1, <3>1, <3>2, <4>1, SumWithout
    <3>6. SumFunctionOnSet(V, R) \in Nat
      BY <2>1, <3>2, SumType
    <3>7. V[t] \in Nat /\ V[t] <= F
      BY <1>1, <1>6 DEF F
    <3>8. Less(ns[i].blocks, F) <= own[i] + SumFunctionOnSet(V, R)
      BY <1>15, <2>1, <3>5, <3>6, <3>7 DEF Less
    <3> QED
      BY <3>1, <3>4, <3>8
  <2>4. CASE d \in B(i) /\ i # d
    <3>1. PICK e \in K(i) : d \in B(e)
      BY <1>9, <2>4
    <3> DEFINE R == K(i) \ {e}
    <3>2. ms[i].blocks = Less(ns[i].blocks, F) /\ ToSet(ms[i].kids) = K(i)
      BY <1>5, <1>11, <2>4
    <3>3. IsFiniteSet(R) /\ R \subseteq K(i)
      BY <2>1, FS_Subset
    <3>4. \A k \in R : W[k] = V[k]
      <4> SUFFICES ASSUME NEW k \in K(i), k # e PROVE W[k] = V[k]
        OBVIOUS
      <4>1. B(k) \cap B(e) = {}
        BY <1>n, <3>1, SiblingsApart DEF B, K
      <4> QED
        BY <1>7, <2>1, <3>1, <4>1
    <3>5. \A k \in K(i) : W[k] \in Int
      BY <1>6, <2>1
    <3>6. V[e] = ns[e].blocks /\ W[e] = Less(V[e], F) /\ V[e] \in Nat /\ W[e] \in Nat
      <4>1. e \in 1..n /\ ns[e].etype = "Dir" /\ ms[e].etype = "Dir"
        BY <1>5, <1>10, <2>1, <3>1
      <4> QED
        BY <1>5, <1>6, <3>1, <4>1
    <3>7. SumFunctionOnSet(W, K(i)) = W[e] + SumFunctionOnSet(W, R)
      BY <2>1, <3>1, <3>5, SumWithout
    <3>8. SumFunctionOnSet(V, K(i)) = V[e] + SumFunctionOnSet(V, R)
      <4>1. \A k \in K(i) : V[k] \in Int
        BY <2>1
      <4> QED
        BY <2>1, <3>1, <4>1, SumWithout
    <3> HIDE DEF R
    <3>9. SumFunctionOnSet(W, R) = SumFunctionOnSet(V, R) /\ SumFunctionOnSet(V, R) \in Nat
      BY <2>1, <3>3, <3>4, SumSame, SumType
    <3> DEFINE o == own[i] + SumFunctionOnSet(V, R)
    <3>10. ns[i].blocks <= o + V[e] /\ o \in Nat
      BY <2>1, <3>6, <3>8, <3>9
    <3> HIDE DEF o
    <3>11. Less(ns[i].blocks, F) <= o + Less(V[e], F)
      BY <1>15, <2>1, <3>6, <3>10, LessMoves
    <3>12. o + W[e] = own[i] + (W[e] + SumFunctionOnSet(W, R))
      BY <2>1, <3>6, <3>9 DEF o
    <3> QED
      BY <3>2, <3>6, <3>7, <3>11, <3>12
  <2> QED
    BY <2>2, <2>3, <2>4
(* Unless what is pruned is a link, it takes with it what is left of it.         *)
<1>17. ASSUME Told(ts, n) <= MaxU64, \A u \in del \cup {t} : ms[u].etype # "Link",
              NEW i \in 1..n, ms[i].etype = "Dir"
       PROVE  ms[i].blocks = Left(ms, ts, i)
  <2>1. \A u \in del : ns[u].etype # "Link"
    BY <1>n, <1>5, <1>17
  <2>2. \A j \in 1..n : ns[j].etype = "Dir" => ns[j].blocks = Left(ns, ts, j)
    BY <1>n, <1>17, <2>1 DEF TotalsOK
  <2>3. Branch(ms, i) = IF d \in B(i) THEN B(i) \ B(t) ELSE B(i)
    BY <1>n, <1>1, <1>2, <1>3, BranchAfter DEF B
  <2>4. Left(ms, ts, i) = SumFunctionOnSet(own, Branch(ms, i))
        /\ \A j \in 1..n : Left(ns, ts, j) = SumFunctionOnSet(own, B(j)) /\ Left(ns, ts, j) \in Nat
    BY <1>n, <1>3, <1>4, OwnTypes DEF Left, own, B
  <2>5. CASE d \notin B(i)
    BY <1>5, <1>17, <2>2, <2>3, <2>4, <2>5
  <2>6. CASE d \in B(i)
    <3>1. F = Left(ns, ts, t)
      <4>1. CASE ns[t].etype = "Dir"
        BY <1>1, <2>2, <4>1 DEF F
      <4>2. CASE ns[t].etype # "Dir"
        <5>1. ns[t].kids = <<>> /\ V[t] = own[t] /\ ns[t].etype # "Link"
          BY <1>n, <1>1, <1>5, <1>17, <4>2 DEF TotalsOK, V, own
        <5>2. F = own[t] /\ own[t] \in Int
          BY <1>1, <1>4, <1>6, <5>1 DEF F
        <5>3. B(t) = {t}
          BY <1>1, <1>8, <5>1 DEF K, ToSet
        <5> QED
          BY <1>1, <2>4, <5>2, <5>3, SumOne
      <4> QED
        BY <4>1, <4>2
    <3>2. B(t) \subseteq B(i)
      <4>1. B(t) \subseteq B(d)
        BY <1>1, <1>12 DEF K
      <4>2. B(d) \subseteq B(i)
        BY <1>n, <2>6, BranchTrans DEF B
      <4> QED
        BY <4>1, <4>2
    <3> DEFINE R == B(i) \ B(t)
    <3>3. /\ IsFiniteSet(R) /\ IsFiniteSet(B(t)) /\ R \cap B(t) = {} /\ R \cup B(t) = B(i)
          /\ \A x \in R \cup B(t) : own[x] \in Int /\ own[x] \in Nat
      <4>1. B(i) \subseteq 1..n /\ IsFiniteSet(1..n)
        BY <1>4, UpTo
      <4>2. R \subseteq 1..n /\ B(t) \subseteq 1..n /\ R \cup B(t) = B(i)
        BY <3>2, <4>1
      <4> QED
        BY <1>4, <4>1, <4>2, FS_Subset
    <3> HIDE DEF R
    <3>4. SumFunctionOnSet(own, R \cup B(t)) = SumFunctionOnSet(own, R) + SumFunctionOnSet(own, B(t))
      BY <3>3, SumUnion
    <3>5. SumFunctionOnSet(own, R) \in Nat
      BY <3>3, SumType
    <3>6. Left(ns, ts, i) = SumFunctionOnSet(own, R) + Left(ns, ts, t)
      BY <1>1, <2>4, <3>3, <3>4
    <3>7. Left(ms, ts, i) = SumFunctionOnSet(own, R)
      BY <2>3, <2>4, <2>6 DEF R
    <3>8. ms[i].blocks = Less(Left(ns, ts, i), F)
      BY <1>5, <1>17, <2>2, <2>6
    <3> QED
      BY <1>1, <2>4, <3>1, <3>5, <3>6, <3>7, <3>8 DEF Less
  <2> QED
    BY <2>5, <2>6
<1> QED
  BY <1>3, <1>4, <1>13, <1>16, <1>17 DEF TotalsOK, W, own

(* So no directory claims more than what is left below it.                      *)
LEMMA TotalsBounded ==
  ASSUME NEW ns, Shape(ns), Apart(ns), NEW ts, NEW del, TotalsOK(ns, ts, del)
  PROVE  \A i \in 1..Len(ns) : Weights(ns)[i] <= Left(ns, ts, i)
<1>n. PICK n \in Nat : n = Len(ns)
  BY DEF Shape
<1> DEFINE own == Owns(ts, n)
           L(i) == Left(ns, ts, i)
           V == Weights(ns)
           K(i) == ToSet(ns[i].kids)
           P == {i \in 1..n : V[i] <= L(i)}
<1>1. \A i \in 1..n : /\ own[i] \in Nat /\ V[i] \in Nat
                      /\ ns[i].etype # "Dir" => ns[i].kids = <<>> /\ V[i] = own[i]
                      /\ ns[i].etype = "Dir" => V[i] <= own[i] + SumFunctionOnSet(V, K(i))
  BY <1>n, WeightTypes DEF TotalsOK
<1>2. \A i \in 1..n : /\ IsFiniteSet(K(i)) /\ K(i) \subseteq (i + 1)..n /\ L(i) \in Nat
                      /\ L(i) = own[i] + SumFunctionOnSet([k \in K(i) |-> L(k)], K(i))
  <2>1. \A j \in 1..Len(ns) : Owns(ts, Len(ns))[j] \in Nat
    BY <1>n, <1>1
  <2> SUFFICES ASSUME NEW i \in 1..n
               PROVE  /\ IsFiniteSet(K(i)) /\ K(i) \subseteq (i + 1)..n /\ L(i) \in Nat
                      /\ L(i) = own[i] + SumFunctionOnSet([k \in K(i) |-> L(k)], K(i))
    OBVIOUS
  <2>2. i \in 1..Len(ns)
    BY <1>n
  <2>3. IsFiniteSet(K(i)) /\ K(i) \subseteq (i + 1)..n /\ L(i) \in Nat
    BY <1>n, <2>1, <2>2, OwnTypes, KidIds
  <2>4. L(i) = own[i] + SumFunctionOnSet([k \in K(i) |-> L(k)], K(i))
    BY <1>n, <2>1, <2>2, LeftUnfolds
  <2> QED
    BY <2>3, <2>4
<1>3. ASSUME NEW i \in 1..n, \A j \in (i + 1)..n : j \in P PROVE i \in P
  <2> DEFINE S == K(i)
             f == [k \in S |-> L(k)]
  <2>1. /\ IsFiniteSet(S) /\ L(i) = own[i] + SumFunctionOnSet(f, S) /\ own[i] \in Nat
        /\ V[i] \in Nat /\ L(i) \in Nat
    BY <1>1, <1>2
  <2>2. \A k \in S : f[k] = L(k) /\ k \in 1..n /\ k \in P
    BY <1>2, <1>3
  <2>3. \A k \in S : V[k] \in Int /\ f[k] \in Int /\ V[k] <= f[k] /\ V[k] \in Nat /\ f[k] \in Nat
    <3> SUFFICES ASSUME NEW k \in S
                 PROVE  V[k] \in Int /\ f[k] \in Int /\ V[k] <= f[k] /\ V[k] \in Nat /\ f[k] \in Nat
      OBVIOUS
    <3>1. f[k] = L(k) /\ k \in 1..n /\ V[k] <= L(k)
      BY <2>2
    <3>2. V[k] \in Nat /\ L(k) \in Nat
      BY <1>1, <1>2, <3>1
    <3> HIDE DEF f, V, L, S
    <3> QED
      BY <3>1, <3>2
  <2> HIDE DEF f, V, L, P
  <2>4. CASE ns[i].etype = "Dir"
    <3>1. V[i] <= own[i] + SumFunctionOnSet(V, S)
      BY <1>1, <2>4
    <3> HIDE DEF S, own
    <3>2. SumFunctionOnSet(V, S) <= SumFunctionOnSet(f, S)
      BY <2>1, <2>3, SumMonotone
    <3>3. SumFunctionOnSet(V, S) \in Nat /\ SumFunctionOnSet(f, S) \in Nat
      BY <2>1, <2>3, SumType
    <3>4. V[i] <= L(i)
      BY <2>1, <3>1, <3>2, <3>3
    <3> QED
      BY <3>4 DEF P
  <2>5. CASE ns[i].etype # "Dir"
    <3>1. S = {} /\ V[i] = own[i]
      <4>1. ns[i].kids = <<>> /\ V[i] = own[i]
        BY <1>1, <2>5
      <4> QED
        BY <4>1 DEF ToSet
    <3>2. SumFunctionOnSet(f, S) = 0
      BY <3>1, SumEmpty
    <3> HIDE DEF S, own
    <3>3. V[i] <= L(i)
      BY <2>1, <3>1, <3>2
    <3> QED
      BY <3>3 DEF P
  <2> QED
    BY <2>4, <2>5
<1>4. \A i \in 1..n : i \in P
  <2> HIDE DEF P
  <2> QED  BY <1>3, Downward
<1> QED
  BY <1>n, <1>4

----------------------------------------------------------------------------
(* load_dir.                                                                   *)
(* A list without repetitions is shown as it is, in some order.                 *)
LEMMA ListingOf ==
  ASSUME NEW ns, Shape(ns), NEW d \in 1..Len(ns), NEW s \in Listings(ns, d)
  PROVE  /\ s \in Seq(1..Len(ns)) /\ ToSet(s) = ToSet(ns[d].kids)
         /\ Len(s) = Len(ns[d].kids) /\ Len(s) \in 0..Len(ns)
         /\ \A i, j \in 1..Len(s) : i < j => ns[s[i]].blocks >= ns[s[j]].blocks
<1> DEFINE ks == ns[d].kids
           n == Len(ks)
           S == ToSet(ks)
<1>1. /\ Len(ns) \in Nat /\ ks \in Seq((d + 1)..Len(ns)) /\ Increasing(ks)
      /\ n \in Nat
  BY DEF Shape, KidsOK
<1>2. \A i \in 1..n : ks[i] \in 1..Len(ns)
  BY <1>1
<1>3. \A i, j \in 1..n : i # j => ks[i] # ks[j]
  BY <1>1, <1>2 DEF Increasing
<1> HIDE DEF ks, n
<1>4. ks \in [1..n -> S] /\ S = {ks[i] : i \in 1..n} /\ S \subseteq 1..Len(ns)
  BY <1>1, <1>2 DEF ToSet, n
<1> HIDE DEF S
<1>5. ks \in Surjection(1..n, S) /\ ks \in Injection(1..n, S)
  BY <1>3, <1>4 DEF Surjection, Injection, IsInjective
<1>6. IsFiniteSet(1..n) /\ Cardinality(1..n) = n
  BY <1>1, UpTo
<1>7. IsFiniteSet(S) /\ Cardinality(S) = n
  BY <1>5, <1>6, FS_Surjection
<1>8. n <= Len(ns)
  <2>1. IsFiniteSet(1..Len(ns)) /\ Cardinality(1..Len(ns)) = Len(ns)
    BY <1>1, UpTo
  <2> QED
    BY <1>4, <1>7, <2>1, FS_Subset
<1>9. /\ s \in [1..n -> S] /\ \A i, j \in 1..n : i # j => s[i] # s[j]
      /\ \A i, j \in 1..Len(s) : i < j => ns[s[i]].blocks >= ns[s[j]].blocks
  BY <1>7 DEF Listings, SetToSeqs, S, ks
<1>10. s \in Seq(S) /\ Len(s) = n
  BY <1>1, <1>9
<1>11. s \in Surjection(1..n, S)
  <2>1. s \in Injection(1..n, S)
    BY <1>9 DEF Injection, IsInjective
  <2> QED
    BY <1>6, <1>7, <2>1, FS_Injection
<1>12. ToSet(s) = S
  BY <1>1, <1>10, <1>11 DEF ToSet, Surjection
<1> QED
  BY <1>1, <1>4, <1>8, <1>9, <1>10, <1>12 DEF S, n, ks

----------------------------------------------------------------------------
(* The inductive invariant.  While the browser runs, its four fields belong     *)
(* together; before that and after, they are empty.                            *)
CursorOK(its, sel, conf) ==
  /\ sel \in Nat
  /\ sel < Len(its) \/ (its = <<>> /\ sel = 0)
  /\ conf # NoEntry => its # <<>> /\ conf = its[sel + 1]

Screen ==
  /\ items \in Listings(nodes, current_dir)
  /\ Trail(nodes, parent_stack, current_dir)
  /\ CursorOK(items, selected, confirm_delete)
  /\ Len(scanned) = Len(nodes)
  /\ ~LossyNames => \A i \in Ids : denotes[i] = i

Blank ==
  /\ current_dir = NoEntry /\ parent_stack = <<>> /\ items = <<>>
  /\ selected = 0 /\ confirm_delete = NoEntry

BInv ==
  /\ TypeOK /\ Shape(nodes)
  /\ phase \in {"scan", "browse", "exit"} /\ status_msg \in Messages
  /\ disk \subseteq Ids /\ deleted \subseteq Ids
  /\ phase = "scan" => Blank /\ scanned = <<>> /\ disk = {} /\ deleted = {}
  /\ phase = "browse" => Screen
  /\ phase = "exit" => Blank /\ Len(scanned) = Len(nodes)

LEMMA BInvInit == BInit => BInv
<1> SUFFICES ASSUME BInit PROVE BInv
  OBVIOUS
<1>1. TypeOK /\ Shape(nodes)
  BY ShapeInit DEF BInit
<1> QED
  BY <1>1 DEF BInit, BInv, Blank, Messages

LEMMA StartKeeps == BInv /\ Start => BInv'
<1> SUFFICES ASSUME BInv, Start PROVE BInv'
  OBVIOUS
<1>1. /\ TypeOK /\ Shape(nodes) /\ nodes # <<>> /\ UNCHANGED vars
      /\ phase = "scan" /\ phase' = "browse"
  BY DEF BInv, Start, Finished
<1>2. nodes' = nodes /\ Ids' = Ids /\ TypeOK'
  BY <1>1 DEF vars, TypeOK, Ids, Depth
<1>3. Trail(nodes, <<>>, 1)
  BY <1>1, TrailStart
<1>4. /\ current_dir' = 1 /\ parent_stack' = <<>> /\ items' \in Listings(nodes, 1)
      /\ selected' = 0 /\ confirm_delete' = NoEntry /\ status_msg' \in Messages
      /\ disk' = Ids /\ deleted' = {} /\ scanned' = nodes
  BY <1>1 DEF Start, LoadDir, BInv, Blank
<1>5. CursorOK(items', selected', confirm_delete')
  <2>1. 1 \in 1..Len(nodes)
    BY <1>3 DEF Trail
  <2>2. items' \in Seq(1..Len(nodes))
    BY <1>1, <1>4, <2>1, ListingOf
  <2> QED
    BY <1>4, <2>2 DEF CursorOK
<1>6. ~LossyNames => \A i \in Ids : denotes'[i] = i
  BY DEF Start, Meanings
<1>7. Screen'
  BY <1>2, <1>3, <1>4, <1>5, <1>6 DEF Screen
<1> QED
  BY <1>1, <1>2, <1>4, <1>7 DEF BInv

(* Steps that keep the arena and what the browser knew at the start only have  *)
(* to keep the screen.                                                         *)
LEMMA ScreenKept ==
  ASSUME BInv, phase = "browse", phase' = "browse", UNCHANGED <<vars, scanned, denotes>>,
         status_msg' \in Messages, disk' \subseteq disk, deleted' = deleted,
         items' \in Listings(nodes, current_dir'),
         Trail(nodes, parent_stack', current_dir'),
         CursorOK(items', selected', confirm_delete')
  PROVE  BInv'
<1>1. TypeOK' /\ nodes' = nodes /\ Ids' = Ids
  BY DEF BInv, vars, TypeOK, Ids, Depth
<1>2. Screen'
  BY <1>1 DEF BInv, Screen
<1> QED
  BY <1>1, <1>2 DEF BInv

(* load_dir leaves the cursor on the first row.                                 *)
LEMMA CursorOnTop ==
  ASSUME NEW ns, Shape(ns), NEW d \in 1..Len(ns), NEW its \in Listings(ns, d)
  PROVE  CursorOK(its, 0, NoEntry)
<1>1. its \in Seq(1..Len(ns))
  BY ListingOf
<1> QED
  BY <1>1 DEF CursorOK

LEMMA ScreenFacts ==
  ASSUME BInv, phase = "browse"
  PROVE  /\ Shape(nodes) /\ TypeOK /\ Ids = 1..Len(nodes) /\ current_dir \in Ids
         /\ items \in Listings(nodes, current_dir) /\ items \in Seq(Ids)
         /\ ToSet(items) = ToSet(nodes[current_dir].kids)
         /\ Len(items) \in Nat /\ Len(items) <= Len(nodes) /\ Len(nodes) \in Nat
         /\ Trail(nodes, parent_stack, current_dir)
         /\ CursorOK(items, selected, confirm_delete)
         /\ selected < Len(items) => Selected \in ToSet(items) /\ Selected \in Ids
<1>1. /\ Shape(nodes) /\ TypeOK /\ Trail(nodes, parent_stack, current_dir)
      /\ CursorOK(items, selected, confirm_delete)
      /\ items \in Listings(nodes, current_dir)
  BY DEF BInv, Screen
<1>2. Ids = 1..Len(nodes) /\ Len(nodes) \in Nat /\ current_dir \in Ids
  BY <1>1 DEF Trail, Shape, Ids
<1>3. /\ items \in Seq(Ids) /\ ToSet(items) = ToSet(nodes[current_dir].kids)
      /\ Len(items) \in 0..Len(nodes)
  BY <1>1, <1>2, ListingOf
<1>4. selected < Len(items) => Selected \in ToSet(items) /\ Selected \in Ids
  <2> SUFFICES ASSUME selected < Len(items) PROVE Selected \in ToSet(items) /\ Selected \in Ids
    OBVIOUS
  <2>1. selected + 1 \in 1..Len(items)
    BY <1>1, <1>2, <1>3 DEF CursorOK
  <2> QED
    BY <1>3, <2>1, ElementOfSeq DEF Selected, ToSet
<1> QED
  BY <1>1, <1>2, <1>3, <1>4

LEMMA MoveKeeps == BInv /\ Move => BInv'
<1> SUFFICES ASSUME BInv, Move PROVE BInv'
  OBVIOUS
<1>1. /\ phase = "browse" /\ phase' = phase /\ confirm_delete = NoEntry
      /\ confirm_delete' = NoEntry
      /\ UNCHANGED <<vars, current_dir, parent_stack, items, status_msg, world>>
  BY DEF Move, Navigating
<1>2. CursorOK(items, selected, NoEntry) /\ Len(items) \in Nat /\ items \in Seq(Ids)
  BY <1>1, ScreenFacts
<1>3. CursorOK(items, selected', NoEntry)
  <2>1. CASE items = <<>>
    <3>1. Len(items) = 0 /\ selected = 0
      BY <1>2, <2>1 DEF CursorOK
    <3>2. selected' = 0
      BY <3>1, BrowserAssumption DEF Move, NextRow, PageBelow, LastRow, Less
    <3> QED
      BY <2>1, <3>2 DEF CursorOK
  <2>2. CASE items # <<>>
    <3>1. Len(items) > 0 /\ selected \in Nat /\ selected < Len(items)
      BY <1>2, <2>2 DEF CursorOK
    <3>2. selected' \in Nat /\ selected' < Len(items)
      BY <1>2, <3>1, BrowserAssumption DEF Move, NextRow, PageBelow, LastRow, Less
    <3> QED
      BY <3>2 DEF CursorOK
  <2> QED
    BY <2>1, <2>2
<1>4. /\ Trail(nodes, parent_stack', current_dir') /\ items' \in Listings(nodes, current_dir')
      /\ CursorOK(items', selected', confirm_delete')
  BY <1>1, <1>3, ScreenFacts
<1>5. status_msg' \in Messages /\ disk' \subseteq disk /\ deleted' = deleted
      /\ UNCHANGED <<vars, scanned, denotes>>
  BY <1>1 DEF BInv, world
<1> QED
  BY <1>1, <1>4, <1>5, ScreenKept

LEMMA EnterKeeps == BInv /\ Enter => BInv'
<1> SUFFICES ASSUME BInv, Enter PROVE BInv'
  OBVIOUS
<1> DEFINE c == Selected
<1>1. /\ phase = "browse" /\ phase' = phase /\ confirm_delete' = NoEntry
      /\ selected < Len(items) /\ nodes[c].etype = "Dir"
      /\ parent_stack' = Append(parent_stack, current_dir) /\ current_dir' = c
      /\ items' \in Listings(nodes, c) /\ selected' = 0 /\ status_msg' \in Messages
      /\ UNCHANGED <<vars, world>>
  BY DEF Enter, Navigating, LoadDir, Pushed, Messages
<1>2. c \in ToSet(nodes[current_dir].kids) /\ c \in 1..Len(nodes) /\ Shape(nodes)
      /\ Trail(nodes, parent_stack, current_dir)
  BY <1>1, ScreenFacts
<1> HIDE DEF c
<1>3. Trail(nodes, parent_stack', current_dir')
  BY <1>1, <1>2, TrailDown
<1>4. CursorOK(items', selected', confirm_delete')
  BY <1>1, <1>2, CursorOnTop
<1>5. disk' \subseteq disk /\ deleted' = deleted /\ UNCHANGED <<vars, scanned, denotes>>
  BY <1>1 DEF world
<1>6. items' \in Listings(nodes, current_dir')
  BY <1>1
<1> QED
  BY <1>1, <1>3, <1>4, <1>5, <1>6, ScreenKept

LEMMA BackKeeps == BInv /\ Back => BInv'
<1> SUFFICES ASSUME BInv, Back PROVE BInv'
  OBVIOUS
<1> DEFINE d == Last(parent_stack)
<1>1. /\ phase = "browse" /\ phase' = phase /\ confirm_delete' = NoEntry
      /\ parent_stack # <<>> /\ parent_stack' = Front(parent_stack) /\ current_dir' = d
      /\ items' \in Listings(nodes, d) /\ selected' = 0 /\ status_msg' \in Messages
      /\ UNCHANGED <<vars, world>>
  BY DEF Back, Navigating, LoadDir, Messages
<1>2. Shape(nodes) /\ Trail(nodes, parent_stack, current_dir)
  BY <1>1, ScreenFacts
<1>3. Trail(nodes, Front(parent_stack), d)
  BY <1>1, <1>2, TrailUp
<1> HIDE DEF d
<1>4. CursorOK(items', selected', confirm_delete')
  <2>1. d \in 1..Len(nodes)
    BY <1>3 DEF Trail
  <2> QED
    BY <1>1, <1>2, <2>1, CursorOnTop
<1>5. disk' \subseteq disk /\ deleted' = deleted /\ UNCHANGED <<vars, scanned, denotes>>
  BY <1>1 DEF world
<1>6. items' \in Listings(nodes, current_dir') /\ Trail(nodes, parent_stack', current_dir')
  BY <1>1, <1>3
<1> QED
  BY <1>1, <1>4, <1>5, <1>6, ScreenKept

LEMMA ConfirmYesKeeps == \A t \in Ids : BInv /\ ConfirmYes(t) => BInv'
<1> SUFFICES ASSUME NEW t \in Ids, BInv, ConfirmYes(t) PROVE BInv'
  OBVIOUS
<1> DEFINE d == current_dir
<1>1. /\ phase = "browse" /\ phase' = phase /\ current_dir' = d /\ selected' = 0
      /\ parent_stack' = parent_stack /\ confirm_delete' = NoEntry
      /\ items' \in Listings(nodes', d)
      /\ scanned' = scanned /\ denotes' = denotes
      /\ devices' = devices /\ open' = open /\ told' = told
  BY DEF ConfirmYes, LoadDir
<1>2. /\ Shape(nodes) /\ TypeOK /\ Ids = 1..Len(nodes) /\ d \in Ids
      /\ Trail(nodes, parent_stack, d)
  BY <1>1, ScreenFacts
<1>3. /\ disk' \subseteq disk /\ status_msg' \in Messages
      /\ \/ nodes' = Pruned(nodes, d, t) /\ deleted' = deleted \cup {t}
         \/ nodes' = nodes /\ deleted' = deleted
  BY DEF ConfirmYes, KeepTree, Messages
<1> HIDE DEF d
<1>4. nodes' \in Seq(NodeType) /\ Len(nodes') = Len(nodes) /\ Shape(nodes')
      /\ Trail(nodes', parent_stack, d)
  <2>1. CASE nodes' = nodes
    BY <1>2, <2>1 DEF TypeOK
  <2>2. CASE nodes' = Pruned(nodes, d, t)
    <3>1. nodes' \in Seq(NodeType) /\ SameLinks(nodes, nodes', d, t)
      BY <1>2, <2>2, PrunedEffect
    <3>2. Shape(nodes')
      BY <1>2, <3>1, PrunedShape
    <3>3. Trail(nodes', parent_stack, d)
      BY <1>2, <3>1, <3>2, TrailStays
    <3> QED
      BY <3>1, <3>2, <3>3 DEF SameLinks
  <2> QED
    BY <1>3, <2>1, <2>2
<1>5. TypeOK' /\ Ids' = Ids
  BY <1>1, <1>2, <1>4 DEF TypeOK, Ids, Depth
<1>6. CursorOK(items', selected', confirm_delete')
  <2>1. d \in 1..Len(nodes')
    BY <1>2, <1>4
  <2> QED
    BY <1>1, <1>4, <2>1, CursorOnTop
<1>7. disk' \subseteq Ids /\ deleted' \subseteq Ids
  BY <1>3 DEF BInv
<1>8. Screen'
  <2>1. Len(scanned) = Len(nodes) /\ (~LossyNames => \A i \in Ids : denotes[i] = i)
    BY <1>1 DEF BInv, Screen
  <2> QED
    BY <1>1, <1>4, <1>5, <1>6, <2>1 DEF Screen
<1> QED
  BY <1>1, <1>3, <1>4, <1>5, <1>7, <1>8 DEF BInv

LEMMA BInvStep == BInv /\ [BNext]_bvars => BInv'
<1> SUFFICES ASSUME BInv, [BNext]_bvars PROVE BInv'
  OBVIOUS
<1>1. CASE Scan
  <2>1. /\ phase = "scan" /\ Next
        /\ UNCHANGED <<phase, view, confirm_delete, status_msg, world>>
    BY <1>1 DEF Scan
  <2>2. TypeOK' /\ Shape(nodes')
    BY <2>1, TypeStep, ShapeStep DEF BInv
  <2> QED
    BY <2>1, <2>2 DEF BInv, Blank, view, world
<1>2. CASE Start
  BY <1>2, StartKeeps
<1>3. CASE Move
  BY <1>3, MoveKeeps
<1>4. CASE Enter
  BY <1>4, EnterKeeps
<1>5. CASE Back
  BY <1>5, BackKeeps
<1>6. CASE Quit
  <2>1. /\ phase = "browse" /\ phase' = "exit" /\ confirm_delete' = NoEntry
        /\ current_dir' = NoEntry /\ parent_stack' = <<>> /\ items' = <<>>
        /\ selected' = 0 /\ status_msg' \in Messages /\ UNCHANGED <<vars, world>>
    BY <1>6 DEF Quit, Navigating, Messages
  <2>2. TypeOK' /\ Ids' = Ids /\ nodes' = nodes
    BY <2>1 DEF BInv, vars, TypeOK, Ids, Depth
  <2>3. Len(scanned) = Len(nodes)
    BY <2>1 DEF BInv, Screen
  <2> QED
    BY <2>1, <2>2, <2>3 DEF BInv, Blank, world
<1>7. CASE AskDelete
  <2>1. /\ phase = "browse" /\ phase' = phase /\ selected < Len(items)
        /\ confirm_delete' = Selected /\ UNCHANGED <<vars, view, status_msg, world>>
    BY <1>7 DEF AskDelete, Navigating
  <2>2. CursorOK(items', selected', confirm_delete')
    <3>1. CursorOK(items, selected, confirm_delete) /\ Len(items) \in Nat /\ items # <<>>
      BY <2>1, ScreenFacts DEF CursorOK
    <3> QED
      BY <2>1, <3>1 DEF CursorOK, view, Selected
  <2>3. /\ Trail(nodes, parent_stack', current_dir') /\ items' \in Listings(nodes, current_dir')
    BY <2>1, ScreenFacts DEF view
  <2>4. /\ status_msg' \in Messages /\ disk' \subseteq disk /\ deleted' = deleted
        /\ UNCHANGED <<vars, scanned, denotes>>
    BY <2>1 DEF BInv, world
  <2> QED
    BY <2>1, <2>2, <2>3, <2>4, ScreenKept
<1>8. CASE ConfirmNo
  <2>1. /\ phase = "browse" /\ phase' = phase /\ confirm_delete' = NoEntry
        /\ status_msg' \in Messages /\ UNCHANGED <<vars, view, world>>
    BY <1>8 DEF ConfirmNo, Messages
  <2>2. CursorOK(items', selected', confirm_delete')
    BY <2>1, ScreenFacts DEF CursorOK, view
  <2>3. /\ Trail(nodes, parent_stack', current_dir') /\ items' \in Listings(nodes, current_dir')
    BY <2>1, ScreenFacts DEF view
  <2>4. /\ disk' \subseteq disk /\ deleted' = deleted /\ UNCHANGED <<vars, scanned, denotes>>
    BY <2>1 DEF world
  <2> QED
    BY <2>1, <2>2, <2>3, <2>4, ScreenKept
<1>9. ASSUME NEW t \in Ids, ConfirmYes(t) PROVE BInv'
  BY <1>9, ConfirmYesKeeps
<1>10. ASSUME NEW x \in Ids, Vanish(x) PROVE BInv'
  <2>1. /\ phase = "browse" /\ phase' = phase /\ disk' \subseteq disk
        /\ UNCHANGED <<vars, view, confirm_delete, status_msg, scanned, denotes, deleted>>
    BY <1>10 DEF Vanish
  <2>2. /\ Trail(nodes, parent_stack', current_dir') /\ items' \in Listings(nodes, current_dir')
        /\ CursorOK(items', selected', confirm_delete')
    BY <2>1, ScreenFacts DEF view
  <2>3. status_msg' \in Messages /\ UNCHANGED <<vars, scanned, denotes>>
    BY <2>1 DEF BInv
  <2> QED
    BY <2>1, <2>2, <2>3, ScreenKept
<1>11. CASE UNCHANGED bvars
  <2>1. UNCHANGED <<nodes, devices, open, told, phase, current_dir, parent_stack, items,
                    selected, confirm_delete, status_msg, disk, scanned, denotes, deleted>>
    BY <1>11 DEF bvars, vars, view, world
  <2>2. TypeOK' /\ Ids' = Ids /\ nodes' = nodes
    BY <2>1 DEF BInv, TypeOK, Ids, Depth
  <2> QED
    BY <2>1, <2>2 DEF BInv, Screen, Blank
<1> QED
  BY <1>1, <1>2, <1>3, <1>4, <1>5, <1>6, <1>7, <1>8, <1>9, <1>10, <1>11 DEF BNext

LEMMA BInvAlways == BSpec => []BInv
BY BInvInit, BInvStep, PTL DEF BSpec

(* The browser's fields stay what they are for: ids of the arena, a cursor      *)
(* within its bounds, one of the four messages (Browser::new, handle_key).      *)
THEOREM BrowserTypes == BSpec => []BTypeOK
<1>1. BInv => BTypeOK
  <2> SUFFICES ASSUME BInv PROVE BTypeOK
    OBVIOUS
  <2>1. /\ MaxNodes \in Nat /\ Len(nodes) \in Nat /\ Len(nodes) <= MaxNodes
        /\ Ids = 1..Len(nodes) /\ <<>> \in Seq(Ids)
    BY SinkAssumption DEF BInv, TypeOK, Ids
  <2>2. CASE phase = "browse"
    <3>1. /\ current_dir \in Ids /\ items \in Seq(Ids) /\ parent_stack \in Seq(Ids)
          /\ Len(items) \in Nat /\ Len(items) <= Len(nodes)
          /\ CursorOK(items, selected, confirm_delete)
          /\ selected < Len(items) => Selected \in Ids
      BY <2>1, <2>2, ScreenFacts DEF Trail
    <3>2. selected \in 0..MaxNodes
      BY <2>1, <3>1 DEF CursorOK
    <3>3. confirm_delete \in Ids \cup {NoEntry}
      BY <3>1 DEF CursorOK, Selected
    <3>4. Len(scanned) = Len(nodes)
      BY <2>2 DEF BInv, Screen
    <3> QED
      BY <3>1, <3>2, <3>3, <3>4 DEF BInv, BTypeOK
  <2>3. CASE phase # "browse"
    <3>1. Blank /\ Len(scanned) \in {0, Len(nodes)}
      BY <2>3 DEF BInv
    <3>2. selected \in 0..MaxNodes
      BY <2>1, <3>1 DEF Blank
    <3> QED
      BY <2>1, <3>1, <3>2 DEF Blank, BInv, BTypeOK
  <2> QED
    BY <2>2, <2>3
<1> QED
  BY <1>1, BInvAlways, PTL

(* The list on the screen is the shown directory's children, each once and the  *)
(* largest first, whatever was entered, left or deleted (load_dir).             *)
THEOREM ListIsShown == BSpec => []ViewIsListing
<1>1. BInv => ViewIsListing
  <2> SUFFICES ASSUME BInv, phase = "browse"
               PROVE  /\ ToSet(items) = ToSet(nodes[current_dir].kids)
                      /\ Len(items) = Len(nodes[current_dir].kids)
                      /\ \A i \in 1..LastRow : nodes[items[i]].blocks >= nodes[items[i + 1]].blocks
    BY DEF ViewIsListing, Browsing
  <2>1. /\ ToSet(items) = ToSet(nodes[current_dir].kids)
        /\ Len(items) = Len(nodes[current_dir].kids) /\ Len(items) \in Nat
        /\ \A i, j \in 1..Len(items) : i < j => nodes[items[i]].blocks >= nodes[items[j]].blocks
    BY ScreenFacts, ListingOf
  <2>2. \A i \in 1..LastRow : i \in 1..Len(items) /\ i + 1 \in 1..Len(items) /\ i < i + 1
    BY <2>1 DEF LastRow, Less
  <2> QED
    BY <2>1, <2>2
<1> QED
  BY <1>1, BInvAlways, PTL

(* The cursor is never off the list, and a pending question is about the entry  *)
(* under it (handle_key, load_dir).                                             *)
THEOREM CursorIsOnRow == BSpec => []CursorOnRow
<1>1. BInv => CursorOnRow
  BY ScreenFacts DEF CursorOnRow, Browsing, CursorOK, Selected
<1> QED
  BY <1>1, BInvAlways, PTL

(* The path in the header leads from the root to the shown directory, and it is *)
(* the path delete_entry computes from the parent links (relative_path).        *)
THEOREM PathShown == BSpec => []PathIsShown
<1>1. BInv => PathIsShown
  <2> SUFFICES ASSUME BInv, phase = "browse" PROVE PathIsShown
    BY DEF PathIsShown, Browsing
  <2>1. Trail(nodes, parent_stack, current_dir)
    BY ScreenFacts
  <2> QED
    BY <2>1 DEF PathIsShown, Trail, RelativePath
<1> QED
  BY <1>1, BInvAlways, PTL

(* The object an answer acts on is the one the entry was scanned for.           *)
LEMMA AnswerMeans ==
  ASSUME ~LossyNames, BInv, phase = "browse", NEW t \in Ids
  PROVE  Lookup(RelativePath(nodes, current_dir, t)) \in {t, NoEntry}
<1> DEFINE path == RelativePath(nodes, current_dir, t)
<1>1. Last(<<1>> \o path) = t
  <2>1. Trail(nodes, parent_stack, current_dir)
    BY ScreenFacts
  <2>2. /\ Chain(nodes, current_dir) = Append(parent_stack, current_dir)
        /\ parent_stack \in Seq(1..Len(nodes)) /\ current_dir \in 1..Len(nodes)
    BY <2>1 DEF Trail
  <2> DEFINE u == Tail(Append(parent_stack, current_dir))
  <2>3. u \in Seq(1..Len(nodes))
    BY <2>2
  <2>4. path = Append(u, t)
    BY <2>2 DEF RelativePath
  <2> HIDE DEF u, path
  <2>5. t \in 1..Len(nodes)
    BY DEF Ids
  <2>6. /\ path \in Seq(1..Len(nodes)) /\ Len(path) = Len(u) + 1 /\ path[Len(path)] = t
    BY <2>3, <2>4, <2>5, AppendProperties
  <2>7. /\ <<1>> \o path \in Seq(Nat) /\ Len(<<1>> \o path) = Len(path) + 1
        /\ (<<1>> \o path)[Len(path) + 1] = path[Len(path)]
    BY <2>3, <2>6
  <2> QED
    BY <2>6, <2>7 DEF Last
<1>2. denotes[t] = t
  BY DEF BInv, Screen
<1> HIDE DEF path
<1>3. Lookup(path) \in {t, NoEntry}
  BY <1>1, <1>2 DEF Lookup
<1> QED
  BY <1>3 DEF path

(* The path that an answer removes at ends in the name of the entry asked about. *)
LEMMA AnswerRemoves ==
  ASSUME ~LossyNames, BInv, [BNext]_bvars, confirm_delete # NoEntry, confirm_delete' = NoEntry
  PROVE  disk \ disk' \subseteq Branch(scanned, confirm_delete)
<1>1. CASE ConfirmNo \/ Scan \/ Start \/ Quit
  BY <1>1 DEF ConfirmNo, Scan, Start, Quit, Navigating, world, BInv, Blank
<1>2. ~(Move \/ Enter \/ Back \/ AskDelete \/ \E x \in Ids : Vanish(x))
  BY DEF Move, Enter, Back, AskDelete, Vanish, Navigating
<1>3. ASSUME NEW t \in Ids, ConfirmYes(t)
      PROVE  disk \ disk' \subseteq Branch(scanned, confirm_delete)
  <2> DEFINE path == RelativePath(nodes, current_dir, t)
             x == Lookup(path)
  <2>1. phase = "browse" /\ t = confirm_delete /\ t # NoEntry
    BY <1>3 DEF ConfirmYes
  <2>4. x \in {t, NoEntry}
    BY <2>1, AnswerMeans
  <2> HIDE DEF x, path
  <2>5. /\ \/ x # NoEntry /\ disk' = disk \ Branch(scanned, x)
           \/ \E R \in IF x = NoEntry THEN {{}} ELSE Partial(x) : disk' = disk \ R
    BY <1>3 DEF ConfirmYes, x, path
  <2>6. \A R \in Partial(x) : R \subseteq Branch(scanned, x)
    BY DEF Partial
  <2> QED
    BY <2>1, <2>4, <2>5, <2>6
<1>4. CASE UNCHANGED bvars
  BY <1>4 DEF bvars
<1> QED
  BY <1>1, <1>2, <1>3, <1>4 DEF BNext

(* When names are what they seem, an answer to the question removes at most the *)
(* branch of the entry asked about, also when the removal fails half way or     *)
(* others have removed things meanwhile (delete_entry, remove_from_disk).       *)
THEOREM OnlyTarget == ASSUME ~LossyNames PROVE BSpec => OnlyTargetRemoved
<1>1. BInv /\ [BNext]_bvars =>
        [confirm_delete # NoEntry /\ confirm_delete' = NoEntry
           => disk \ disk' \subseteq Branch(scanned, confirm_delete)]_bvars
  BY AnswerRemoves
<1> QED
  BY <1>1, BInvAlways, PTL DEF BSpec, OnlyTargetRemoved

----------------------------------------------------------------------------
(* Deleting.  During the scan the arena is the sink's; from then on it is what   *)
(* the deletions so far leave of the scanned tree, and unless names are lossy no *)
(* object that is still on disk has left it.                                    *)
DInv ==
  /\ phase = "scan" => IInv /\ Leafless /\ Apart(nodes) /\ Listed(nodes)
  /\ phase = "browse" => /\ TreeOK(nodes, scanned, deleted)
                         /\ ~LossyNames => disk \subseteq Branch(nodes, 1)

LEMMA DInvInit == BInit => DInv
<1> SUFFICES ASSUME BInit PROVE DInv
  OBVIOUS
<1>1. IInv /\ Leafless
  BY IInvInit, LeaflessInit DEF BInit
<1>2. Len(nodes) = 0 /\ phase = "scan"
  BY DEF BInit, Init
<1> QED
  BY <1>1, <1>2 DEF DInv, Apart, Listed

LEMMA StartTree == BInv /\ DInv /\ Start => DInv'
<1> SUFFICES ASSUME BInv, DInv, Start PROVE DInv'
  OBVIOUS
<1>1. /\ phase = "scan" /\ phase' = "browse" /\ nodes # <<>> /\ open = <<>>
      /\ nodes' = nodes /\ scanned' = nodes /\ disk' = Ids /\ deleted' = deleted
  BY DEF Start, Finished, vars
<1>2. deleted = {} /\ Shape(nodes) /\ IInv /\ Leafless /\ Apart(nodes) /\ Listed(nodes)
  BY <1>1 DEF BInv, DInv
<1>3. TreeOK(nodes, nodes, {})
  BY <1>1, <1>2, TreeStarts
<1>4. Branch(nodes, 1) = Ids
  BY <1>1, <1>2, WholeTree DEF Ids
<1>5. TreeOK(nodes', scanned', deleted') /\ disk' \subseteq Branch(nodes', 1)
  BY <1>1, <1>2, <1>3, <1>4
<1> QED
  BY <1>1, <1>5 DEF DInv

(* What an answer does.                                                         *)
LEMMA AnswerFacts ==
  ASSUME BInv, NEW t \in Ids, ConfirmYes(t)
  PROVE  LET x == Lookup(RelativePath(nodes, current_dir, t))
         IN  /\ phase = "browse" /\ phase' = "browse" /\ scanned' = scanned
             /\ confirm_delete = t /\ t \in ToSet(nodes[current_dir].kids)
             /\ disk' \subseteq disk
             /\ \/ /\ nodes' = nodes /\ deleted' = deleted
                \/ /\ nodes' = Pruned(nodes, current_dir, t) /\ deleted' = deleted \cup {t}
                   /\ x # NoEntry /\ disk' = disk \ Branch(scanned, x)
<1>1. phase = "browse" /\ phase' = phase /\ scanned' = scanned /\ t # NoEntry
      /\ t = confirm_delete
  BY DEF ConfirmYes
<1>2. t \in ToSet(nodes[current_dir].kids)
  <2>1. /\ CursorOK(items, selected, confirm_delete) /\ Len(items) \in Nat
        /\ ToSet(items) = ToSet(nodes[current_dir].kids)
        /\ selected < Len(items) => Selected \in ToSet(items)
    BY <1>1, ScreenFacts
  <2>2. selected < Len(items) /\ t = Selected
    BY <1>1, <2>1 DEF CursorOK, Selected
  <2> QED
    BY <2>1, <2>2
<1> DEFINE x == Lookup(RelativePath(nodes, current_dir, t))
<1>3. /\ disk' \subseteq disk
      /\ \/ /\ nodes' = nodes /\ deleted' = deleted
         \/ /\ nodes' = Pruned(nodes, current_dir, t) /\ deleted' = deleted \cup {t}
            /\ x # NoEntry /\ disk' = disk \ Branch(scanned, x)
  BY DEF ConfirmYes, KeepTree
<1> HIDE DEF x
<1> QED
  BY <1>1, <1>2, <1>3 DEF x

LEMMA AnswerTree == \A t \in Ids : BInv /\ DInv /\ ConfirmYes(t) => DInv'
<1> SUFFICES ASSUME NEW t \in Ids, BInv, DInv, ConfirmYes(t) PROVE DInv'
  OBVIOUS
<1> DEFINE d == current_dir
           x == Lookup(RelativePath(nodes, d, t))
<1>1. /\ phase = "browse" /\ phase' = "browse" /\ scanned' = scanned
      /\ t \in ToSet(nodes[d].kids) /\ disk' \subseteq disk
      /\ \/ /\ nodes' = nodes /\ deleted' = deleted
         \/ /\ nodes' = Pruned(nodes, d, t) /\ deleted' = deleted \cup {t}
            /\ x # NoEntry /\ disk' = disk \ Branch(scanned, x)
  BY AnswerFacts
<1>2. ~LossyNames => x \in {t, NoEntry}
  BY <1>1, AnswerMeans
<1>3. Shape(nodes) /\ Trail(nodes, parent_stack, d) /\ Len(nodes) <= MaxU32
  <2>1. Len(nodes) \in Nat /\ Len(nodes) <= MaxNodes
    BY DEF BInv, TypeOK, Shape
  <2> QED
    BY <1>1, <2>1, ScreenFacts, SinkAssumption
<1>4. TreeOK(nodes, scanned, deleted) /\ (~LossyNames => disk \subseteq Branch(nodes, 1))
  BY <1>1 DEF DInv
<1> HIDE DEF d, x
<1>5. CASE nodes' = nodes /\ deleted' = deleted
  BY <1>1, <1>4, <1>5 DEF DInv
<1>6. CASE nodes' = Pruned(nodes, d, t) /\ deleted' = deleted \cup {t}
            /\ x # NoEntry /\ disk' = disk \ Branch(scanned, x)
  <2>1. /\ TreeOK(nodes', scanned, deleted \cup {t})
        /\ Branch(nodes', 1) = Branch(nodes, 1) \ Branch(scanned, t)
    BY <1>1, <1>3, <1>4, <1>6, TreePruned
  <2>2. ~LossyNames => disk' \subseteq Branch(nodes', 1)
    BY <1>2, <1>4, <1>6, <2>1
  <2> QED
    BY <1>1, <1>6, <2>1, <2>2 DEF DInv
<1> QED
  BY <1>1, <1>5, <1>6

LEMMA DInvStep == BInv /\ DInv /\ [BNext]_bvars => DInv'
<1> SUFFICES ASSUME BInv, DInv, [BNext]_bvars PROVE DInv'
  OBVIOUS
<1>1. CASE Scan
  <2>1. phase = "scan" /\ phase' = "scan" /\ [Next]_vars
    BY <1>1 DEF Scan
  <2>2. TypeOK /\ Shape(nodes) /\ IInv /\ Leafless /\ Apart(nodes) /\ Listed(nodes)
    BY <2>1 DEF BInv, DInv
  <2>3. IInv' /\ Leafless' /\ Apart(nodes') /\ Listed(nodes')
    BY <2>1, <2>2, IInvStep, LeaflessStep, ApartStep
  <2> QED
    BY <2>1, <2>3 DEF DInv
<1>2. CASE Start
  BY <1>2, StartTree
<1>3. ASSUME NEW t \in Ids, ConfirmYes(t) PROVE DInv'
  BY <1>3, AnswerTree
<1>4. CASE phase = "browse" /\ phase' \in {"browse", "exit"} /\ disk' \subseteq disk
           /\ UNCHANGED <<nodes, scanned, deleted>>
  BY <1>4 DEF DInv
<1>5. ASSUME Move \/ Enter \/ Back \/ Quit \/ AskDelete \/ ConfirmNo \/ \E x \in Ids : Vanish(x)
      PROVE  DInv'
  <2>1. /\ phase = "browse" /\ phase' \in {"browse", "exit"} /\ disk' \subseteq disk
        /\ UNCHANGED <<nodes, scanned, deleted>>
    BY <1>5 DEF Move, Enter, Back, Quit, AskDelete, ConfirmNo, Vanish, Navigating, vars, world
  <2> QED
    BY <1>4, <2>1
<1>6. CASE UNCHANGED bvars
  <2>1. UNCHANGED <<nodes, devices, open, told, phase, disk, scanned, deleted>>
    BY <1>6 DEF bvars, vars, world
  <2>2. IInv <=> IInv'
    BY <2>1 DEF IInv, TypeOK, ClosedOK, Ids, Depth, Closed, OpenIds, IsDir
  <2>3. Leafless <=> Leafless'
    BY <2>1 DEF Leafless, Ids, IsDir
  <2> QED
    BY <2>1, <2>2, <2>3 DEF DInv
<1> QED
  BY <1>1, <1>2, <1>3, <1>5, <1>6 DEF BNext

LEMMA DInvAlways == BSpec => []DInv
BY DInvInit, DInvStep, BInvAlways, PTL DEF BSpec

(* The tree loses the branches of the pruned targets and nothing else, on trees  *)
(* of any size and for any sequence of deletions (unlink_from_parent).          *)
THEOREM PruningIsExact == BSpec => []PrunedExactly
<1>1. DInv => PrunedExactly
  BY DEF DInv, PrunedExactly, Browsing, Live, TreeOK, Ids
<1> QED
  BY <1>1, DInvAlways, PTL

(* `items' is the number of entries below each directory that is left           *)
(* (subtree_totals, and the loop over the ancestors).                           *)
THEOREM ItemsStayExact == BSpec => []ItemsExact
<1>1. DInv => ItemsExact
  BY DEF DInv, ItemsExact, Browsing, Live, LiveDirs, IsDir, TreeOK
<1> QED
  BY <1>1, DInvAlways, PTL

(* When names are what they seem, whatever is still on disk is still shown,      *)
(* also after deletions that failed half way.                                   *)
THEOREM NothingHidden == ASSUME ~LossyNames PROVE BSpec => []PrunedIsGone
<1>1. DInv => PrunedIsGone
  BY DEF DInv, PrunedIsGone, Browsing, Live
<1> QED
  BY <1>1, DInvAlways, PTL

----------------------------------------------------------------------------
(* The totals while the tree is browsed.                                        *)
TInv ==
  /\ phase = "scan" => LeavesTold
  /\ phase = "browse" => TotalsOK(nodes, told, deleted)

LEMMA TInvInit == BInit => TInv
BY DEF BInit, Init, TInv, LeavesTold, Ids

LEMMA TInvStep == BInv /\ DInv /\ TInv /\ [BNext]_bvars => TInv'
<1> SUFFICES ASSUME BInv, DInv, TInv, [BNext]_bvars PROVE TInv'
  OBVIOUS
<1>1. CASE Scan
  <2>1. phase = "scan" /\ phase' = "scan" /\ [Next]_vars
    BY <1>1 DEF Scan
  <2>2. IInv /\ LeavesTold
    BY <2>1 DEF DInv, TInv
  <2>3. LeavesTold'
    BY <2>1, <2>2, LeavesToldStep
  <2> QED
    BY <2>1, <2>3 DEF TInv
<1>2. CASE Start
  <2>1. /\ phase = "scan" /\ phase' = "browse" /\ open = <<>>
        /\ nodes' = nodes /\ told' = told /\ deleted' = deleted
    BY <1>2 DEF Start, Finished, vars
  <2>2. /\ deleted = {} /\ Shape(nodes) /\ IInv /\ Leafless /\ Apart(nodes) /\ LeavesTold
    BY <2>1 DEF BInv, DInv, TInv
  <2>3. TotalsOK(nodes, told, {})
    BY <2>1, <2>2, TotalsStart
  <2>4. TotalsOK(nodes', told', deleted')
    BY <2>1, <2>2, <2>3
  <2> QED
    BY <2>1, <2>4 DEF TInv
<1>3. ASSUME NEW t \in Ids, ConfirmYes(t) PROVE TInv'
  <2> DEFINE d == current_dir
  <2>1. /\ phase = "browse" /\ phase' = "browse" /\ t \in ToSet(nodes[d].kids)
        /\ \/ nodes' = nodes /\ deleted' = deleted
           \/ nodes' = Pruned(nodes, d, t) /\ deleted' = deleted \cup {t}
    BY <1>3, AnswerFacts
  <2>2. told' = told
    BY <1>3 DEF ConfirmYes
  <2>3. /\ Shape(nodes) /\ Trail(nodes, parent_stack, d) /\ Apart(nodes)
        /\ deleted \in SUBSET (1..Len(nodes)) /\ TotalsOK(nodes, told, deleted)
    <3>1. Shape(nodes) /\ Trail(nodes, parent_stack, d)
      BY <2>1, ScreenFacts DEF BInv
    <3>2. Apart(nodes)
      BY <2>1 DEF DInv, TreeOK
    <3> QED
      BY <2>1, <3>1, <3>2 DEF BInv, TInv, Ids
  <2> HIDE DEF d
  <2>4. CASE nodes' = nodes /\ deleted' = deleted
    BY <2>1, <2>2, <2>3, <2>4 DEF TInv
  <2>5. CASE nodes' = Pruned(nodes, d, t) /\ deleted' = deleted \cup {t}
    <3>1. TotalsOK(nodes', told, deleted \cup {t})
      BY <2>1, <2>3, <2>5, TotalsPruned
    <3> QED
      BY <2>1, <2>2, <2>5, <3>1 DEF TInv
  <2> QED
    BY <2>1, <2>4, <2>5
<1>4. CASE phase = "browse" /\ phase' \in {"browse", "exit"} /\ UNCHANGED <<nodes, told, deleted>>
  BY <1>4 DEF TInv
<1>5. ASSUME Move \/ Enter \/ Back \/ Quit \/ AskDelete \/ ConfirmNo \/ \E x \in Ids : Vanish(x)
      PROVE  TInv'
  <2>1. phase = "browse" /\ phase' \in {"browse", "exit"} /\ UNCHANGED <<nodes, told, deleted>>
    BY <1>5 DEF Move, Enter, Back, Quit, AskDelete, ConfirmNo, Vanish, Navigating, vars, world
  <2> QED
    BY <1>4, <2>1
<1>6. CASE UNCHANGED bvars
  <2>1. UNCHANGED <<nodes, told, phase, deleted>>
    BY <1>6 DEF bvars, vars, world
  <2> QED
    BY <2>1 DEF TInv, LeavesTold, Ids, IsDir
<1> QED
  BY <1>1, <1>2, <1>3, <1>5, <1>6 DEF BNext

(* What the reader sees of TotalsOK.                                            *)
LEMMA TotalsMean ==
  ASSUME BInv, DInv, TInv, phase = "browse", NEW d \in LiveDirs
  PROVE  /\ nodes[d].blocks <= Sat(Remaining(d))
         /\ ~Saturated /\ ~LinkDeleted => nodes[d].blocks = Remaining(d)
<1>1. Shape(nodes) /\ Apart(nodes) /\ TotalsOK(nodes, told, deleted)
  BY DEF BInv, DInv, TInv, TreeOK
<1>2. d \in 1..Len(nodes) /\ nodes[d].etype = "Dir" /\ Ids = 1..Len(nodes)
  <2>1. nodes # <<>> /\ Len(nodes) \in Nat
    <3>1. Trail(nodes, parent_stack, current_dir)
      BY ScreenFacts
    <3> QED
      BY <1>1, <3>1 DEF Trail, Shape
  <2>2. Branch(nodes, 1) \subseteq 1..Len(nodes)
    BY <1>1, <2>1, BranchType DEF Shape
  <2> QED
    BY <2>2 DEF LiveDirs, Live, IsDir, Ids
<1>3. Remaining(d) = Left(nodes, told, d) /\ Left(nodes, told, d) \in Nat
  <2> DEFINE f == [i \in Ids |-> Own(i)]
             g == Owns(told, Len(nodes))
  <2>1. \A j \in 1..Len(nodes) : g[j] \in Nat
    BY <1>1 DEF TotalsOK
  <2>2. IsFiniteSet(Branch(nodes, d)) /\ Left(nodes, told, d) \in Nat
    BY <1>1, <1>2, <2>1, OwnTypes
  <2>3. Branch(nodes, d) \subseteq 1..Len(nodes)
    BY <1>1, <1>2, BranchType
  <2>4. \A i \in Branch(nodes, d) : f[i] = g[i]
    BY <1>2, <2>3 DEF Own, Owns
  <2> HIDE DEF f, g
  <2>5. SumFunctionOnSet(f, Branch(nodes, d)) = SumFunctionOnSet(g, Branch(nodes, d))
    BY <2>2, <2>4, SumSame
  <2> QED
    BY <2>2, <2>5 DEF Remaining, Left, f, g
<1>4. nodes[d].blocks <= Left(nodes, told, d) /\ nodes[d].blocks <= MaxU64
      /\ nodes[d].blocks \in Nat
  <2>1. Weights(nodes)[d] <= Left(nodes, told, d)
    BY <1>1, <1>2, TotalsBounded
  <2>2. /\ nodes[d].blocks \in Nat /\ nodes[d].blocks <= MaxU64
        /\ Weights(nodes)[d] = nodes[d].blocks
    BY <1>1, <1>2, WeightTypes
  <2> QED
    BY <2>1, <2>2
<1>5. nodes[d].blocks <= Sat(Remaining(d))
  BY <1>3, <1>4, SinkAssumption DEF Sat
<1>6. ASSUME ~Saturated, ~LinkDeleted PROVE nodes[d].blocks = Remaining(d)
  <2>1. Len(told) = Len(nodes) /\ Len(nodes) \in 0..Len(nodes)
    BY DEF BInv, TypeOK, Shape
  <2>2. Told(told, Len(nodes)) \in Nat
    <3>1. told \in Seq(Nat) /\ Len(told) \in Nat
      BY DEF BInv, TypeOK
    <3> QED
      BY <2>1, <3>1 DEF Told
  <2>3. Told(told, Len(nodes)) <= MaxU64
    BY <1>6, <2>1, <2>2, SinkAssumption DEF Saturated
  <2>4. \A t \in deleted : nodes[t].etype # "Link"
    BY <1>6 DEF LinkDeleted
  <2>5. nodes[d].blocks = Left(nodes, told, d)
    BY <1>1, <1>2, <2>3, <2>4 DEF TotalsOK
  <2> QED
    BY <1>3, <2>5
<1> QED
  BY <1>5, <1>6

(* The totals stay those of the tree that is left, on trees of any size and for  *)
(* any sequence of deletions, unless one had saturated or a hard link was a      *)
(* target; even then none claims too much (subtree_totals, and the loop over     *)
(* the ancestors).                                                              *)
THEOREM TotalsFollow == BSpec => []TotalsFollowDeletes
<1>1. BInv /\ DInv /\ TInv => TotalsFollowDeletes
  BY TotalsMean DEF TotalsFollowDeletes, Browsing
<1>2. BSpec => []TInv
  BY TInvInit, TInvStep, BInvAlways, DInvAlways, PTL DEF BSpec
<1> QED
  BY <1>1, <1>2, BInvAlways, DInvAlways, PTL
=============================================================================
