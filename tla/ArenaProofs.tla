---------------------------- MODULE ArenaProofs ----------------------------
(***************************************************************************)
(* The arena of model.rs, for any number of entries: its links implement      *)
(* lists, for any order of calls (ChildChain); and the tree an import puts    *)
(* there is the tree its dump was written from (Json).                       *)
(***************************************************************************)
EXTENDS ChildChain, Json, MemSinkProofs

----------------------------------------------------------------------------
(* The list s is what one finds from the entry e on along the links nexts.     *)
Nth(s, i) == IF i \in 1..Len(s) THEN s[i] ELSE None

Follows(nexts, e, s) ==
  /\ e = Nth(s, 1)
  /\ \A i \in 1..Len(s) : nexts[s[i]] = Nth(s, i + 1)

(* The links hold the lists ls: no entry is at two places of them, those in    *)
(* put only, and what is not linked yet leads nowhere.                        *)
Hold(subs, nexts, ls, put) ==
  /\ subs \in [Entries -> 0..N] /\ nexts \in [Entries -> 0..N]
  /\ ls \in [Entries -> Seq(Entries)] /\ put \subseteq Entries
  /\ \A d \in Entries : Follows(nexts, subs[d], ls[d])
  /\ \A d \in Entries : \A i \in 1..Len(ls[d]) : ls[d][i] \in put
  /\ \A d, e \in Entries : \A i \in 1..Len(ls[d]) : \A j \in 1..Len(ls[e]) :
       ls[d][i] = ls[e][j] => d = e /\ i = j
  /\ \A e \in Entries \ put : nexts[e] = None

Mapped == [d \in Entries |-> List(d)]

(* A loop that is running knows where in which list it is.                    *)
Linking ==
  \E d \in {1} \cup linked, c \in Entries \ ({1} \cup linked) :
    \E i \in 1..Len(List(d)) : call = Loop("link", d, c, List(d)[i])

Windowing ==
  \E d \in Entries, ids \in Seq(Entries) :
    /\ call = Loop("windows", d, None, ids)
    /\ ids # <<>> /\ List(d) # <<>> /\ ids[1] = List(d)[Len(List(d))]
    /\ \A i \in 2..Len(ids) : ids[i] \notin linked \cup {d}
    /\ \A i, j \in 1..Len(ids) : ids[i] = ids[j] => i = j

Unlinking ==
  \E d \in Entries : \E k \in 1..Len(List(d)) : \E i \in 1..(k - 1) :
    call = Loop("unlink", d, List(d)[k], List(d)[i])

CInv ==
  /\ Hold(sub, next, Mapped, linked)
  /\ call = Idle \/ Linking \/ Windowing \/ Unlinking

----------------------------------------------------------------------------
(* Walked, unfolded: its recursive function exists, as each turn is one less.  *)
Turns(nexts, f, k) ==
  [e \in 0..N |-> IF e = None \/ k = 0 THEN <<>> ELSE <<e>> \o f[k - 1][nexts[e]]]

WalkIn(nexts) == CHOOSE walk : walk = [k \in 0..N |-> Turns(nexts, walk, k)]

LEMMA WalkUnfolds ==
  ASSUME NEW nexts PROVE \A k \in 0..N : WalkIn(nexts)[k] = Turns(nexts, WalkIn(nexts), k)
<1>n. N \in Nat
  BY ChainAssumption
<1> DEFINE Solves(f, m) == \A k \in 0..m : f[k] = Turns(nexts, f, k)
           Solved == {m \in Nat : m <= N => \E f : Solves(f, m)}
<1>l. ASSUME NEW k \in 0..N, NEW f, NEW g, \A j \in 0..(k - 1) : f[j] = g[j]
      PROVE  Turns(nexts, f, k) = Turns(nexts, g, k)
  <2>1. k # 0 => f[k - 1] = g[k - 1]
    BY <1>n, <1>l
  <2> QED
    BY <2>1 DEF Turns
<1>1. 0 \in Solved
  <2> DEFINE f == [k \in {0} |-> Turns(nexts, <<>>, 0)]
  <2>1. Turns(nexts, <<>>, 0) = Turns(nexts, f, 0)
    BY DEF Turns
  <2>2. Solves(f, 0)
    BY <2>1
  <2> QED
    BY <2>2
<1>2. ASSUME NEW m \in Nat, m \in Solved PROVE m + 1 \in Solved
  <2>1. SUFFICES ASSUME m + 1 <= N PROVE \E g : Solves(g, m + 1)
    OBVIOUS
  <2>2. PICK f : Solves(f, m)
    BY <1>2, <1>n, <2>1
  <2> DEFINE g == [k \in 0..(m + 1) |-> IF k = m + 1 THEN Turns(nexts, f, k) ELSE f[k]]
  <2>3. g[m + 1] = Turns(nexts, f, m + 1) /\ \A k \in 0..m : g[k] = f[k]
    <3> HIDE DEF Solves
    <3> QED  OBVIOUS
  <2> HIDE DEF g
  <2>4. ASSUME NEW k \in 0..(m + 1) PROVE g[k] = Turns(nexts, g, k)
    <3>1. k \in 0..N /\ \A j \in 0..(k - 1) : f[j] = g[j]
      BY <1>n, <2>1, <2>3
    <3>2. Turns(nexts, f, k) = Turns(nexts, g, k)
      <4> HIDE DEF Solves
      <4> QED  BY <1>l, <3>1
    <3>3. k = m + 1 \/ k \in 0..m
      OBVIOUS
    <3> QED
      BY <2>2, <2>3, <3>2, <3>3
  <2> QED
    BY <2>4
<1>3. N \in Solved
  <2> HIDE DEF Solved
  <2> QED  BY <1>n, <1>1, <1>2, SetInduction
<1>4. PICK f : Solves(f, N)
  BY <1>3, <1>n
<1> DEFINE h == [k \in 0..N |-> f[k]]
<1>5. \A k \in 0..N : h[k] = Turns(nexts, h, k)
  <2> SUFFICES ASSUME NEW k \in 0..N PROVE h[k] = Turns(nexts, h, k)
    OBVIOUS
  <2>1. f[k] = Turns(nexts, f, k)
    BY <1>4
  <2>2. \A j \in 0..(k - 1) : f[j] = h[j]
    BY <1>n
  <2> HIDE DEF h, Solves
  <2>3. Turns(nexts, f, k) = Turns(nexts, h, k)
    BY <1>l, <2>2
  <2> QED
    BY <2>1, <2>3 DEF h
<1>6. h = [k \in 0..N |-> Turns(nexts, h, k)]
  <2>1. \A k \in 0..N : h[k] = Turns(nexts, h, k)
    BY <1>5
  <2> QED
    BY <2>1
<1> HIDE DEF h, Solves, Solved
<1>7. WalkIn(nexts) = [k \in 0..N |-> Turns(nexts, WalkIn(nexts), k)]
  BY <1>6 DEF WalkIn
<1> QED
  BY <1>7

(* What one follows is what one walks.                                        *)
LEMMA WalkFollows ==
  ASSUME NEW nexts \in [Entries -> 0..N], NEW e \in 0..N, NEW s \in Seq(Entries),
         Len(s) <= N, Follows(nexts, e, s)
  PROVE  WalkIn(nexts)[N][e] = s
<1>n. N \in Nat
  BY ChainAssumption
<1> DEFINE Right == {k \in Nat : k <= N =>
                       \A c \in 0..N, r \in Seq(Entries) :
                         Len(r) <= k /\ Follows(nexts, c, r) => WalkIn(nexts)[k][c] = r}
<1>1. 0 \in Right
  <2> SUFFICES ASSUME NEW c \in 0..N, NEW r \in Seq(Entries), Len(r) <= 0
               PROVE  WalkIn(nexts)[0][c] = r
    OBVIOUS
  <2>1. r = <<>> /\ 0 \in 0..N
    BY <1>n
  <2>2. WalkIn(nexts)[0] = Turns(nexts, WalkIn(nexts), 0)
    BY <2>1, WalkUnfolds
  <2> QED
    BY <2>1, <2>2 DEF Turns
<1>2. ASSUME NEW k \in Nat, k \in Right PROVE k + 1 \in Right
  <2> SUFFICES ASSUME k + 1 <= N, NEW c \in 0..N, NEW r \in Seq(Entries),
                      Len(r) <= k + 1, Follows(nexts, c, r)
               PROVE  WalkIn(nexts)[k + 1][c] = r
    OBVIOUS
  <2>1. k \in 0..N /\ k + 1 \in 0..N /\ k + 1 # 0 /\ (k + 1) - 1 = k
    BY <1>n
  <2>2. WalkIn(nexts)[k + 1][c] =
          IF c = None THEN <<>> ELSE <<c>> \o WalkIn(nexts)[k][nexts[c]]
    <3>1. WalkIn(nexts)[k + 1] = Turns(nexts, WalkIn(nexts), k + 1)
      BY <2>1, WalkUnfolds
    <3> QED
      BY <2>1, <3>1 DEF Turns
  <2>3. CASE r = <<>>
    <3>1. c = None
      BY <2>3 DEF Follows, Nth
    <3> QED
      BY <2>2, <2>3, <3>1
  <2>4. CASE r # <<>>
    <3> DEFINE q == Tail(r)
    <3>1. /\ 1 \in 1..Len(r) /\ Len(r) \in Nat /\ r[1] \in Entries
          /\ q \in Seq(Entries) /\ Len(q) = Len(r) - 1 /\ Len(q) <= k
          /\ \A i \in 1..Len(q) : q[i] = r[i + 1]
      BY <2>4
    <3>2. c = r[1] /\ c # None /\ nexts[c] = Nth(r, 2)
      BY <3>1 DEF Follows, Nth, None, Entries
    <3> HIDE DEF q
    <3>3. \A i \in Nat : i # 0 => Nth(q, i) = Nth(r, i + 1)
      <4> SUFFICES ASSUME NEW i \in Nat, i # 0 PROVE Nth(q, i) = Nth(r, i + 1)
        OBVIOUS
      <4>1. CASE i \in 1..Len(q)
        <5>1. i + 1 \in 1..Len(r)
          BY <3>1, <4>1
        <5> QED
          BY <3>1, <4>1, <5>1 DEF Nth
      <4>2. CASE i \notin 1..Len(q)
        <5>1. i + 1 \notin 1..Len(r)
          BY <3>1, <4>2
        <5> QED
          BY <4>2, <5>1 DEF Nth
      <4> QED
        BY <4>1, <4>2
    <3>4. nexts[c] \in 0..N
      BY <3>1, <3>2
    <3>5. Follows(nexts, nexts[c], q)
      <4>1. nexts[c] = Nth(q, 1)
        BY <3>2, <3>3
      <4>2. ASSUME NEW i \in 1..Len(q) PROVE nexts[q[i]] = Nth(q, i + 1)
        <5>1. i + 1 \in 1..Len(r) /\ i + 1 \in Nat /\ i + 1 # 0
          BY <3>1
        <5>2. nexts[r[i + 1]] = Nth(r, (i + 1) + 1)
          BY <5>1 DEF Follows
        <5> QED
          BY <3>1, <3>3, <5>1, <5>2
      <4> QED
        BY <4>1, <4>2 DEF Follows
    <3>6. WalkIn(nexts)[k][nexts[c]] = q
      BY <1>2, <2>1, <3>1, <3>4, <3>5
    <3>7. r = <<c>> \o q
      <4>1. <<c>> \in Seq(Entries) /\ Len(<<c>>) = 1 /\ <<c>>[1] = c
        BY <3>1, <3>2
      <4>2. /\ <<c>> \o q \in Seq(Entries) /\ Len(<<c>> \o q) = 1 + Len(q)
            /\ \A i \in 1..(1 + Len(q)) :
                 (<<c>> \o q)[i] = IF i <= 1 THEN <<c>>[i] ELSE q[i - 1]
        BY <3>1, <4>1, ConcatProperties
      <4>3. ASSUME NEW i \in 1..Len(r) PROVE (<<c>> \o q)[i] = r[i]
        <5>1. i = 1 \/ (i - 1 \in 1..Len(q) /\ (i - 1) + 1 = i)
          BY <3>1
        <5> QED
          BY <3>1, <3>2, <4>1, <4>2, <5>1
      <4> DEFINE w == <<c>> \o q
      <4>4. w \in Seq(Entries) /\ Len(w) = Len(r) /\ \A i \in 1..Len(r) : w[i] = r[i]
        BY <3>1, <4>2, <4>3
      <4> HIDE DEF w
      <4>5. w = r
        BY <4>4, SeqEqual
      <4> QED
        BY <4>5 DEF w
    <3> QED
      BY <2>2, <3>2, <3>6, <3>7
  <2> QED
    BY <2>3, <2>4
<1>3. N \in Right
  <2> HIDE DEF Right
  <2> QED  BY <1>n, <1>1, <1>2, SetInduction
<1> QED
  BY <1>n, <1>3

(* A list without repetitions is no longer than there are entries.             *)
LEMMA NoLonger ==
  ASSUME NEW s \in Seq(Entries), \A i, j \in 1..Len(s) : s[i] = s[j] => i = j
  PROVE  Len(s) \in Nat /\ Len(s) <= N
<1>1. N \in Nat /\ Len(s) \in Nat
  BY ChainAssumption
<1>2. /\ IsFiniteSet(1..Len(s)) /\ Cardinality(1..Len(s)) = Len(s)
      /\ IsFiniteSet(1..N) /\ Cardinality(1..N) = N
  BY <1>1, UpTo
<1>3. s \in Injection(1..Len(s), 1..N)
  BY <1>1 DEF Injection, IsInjective, Entries
<1> QED
  BY <1>1, <1>2, <1>3, FS_Injection

(* So what the links hold is what List finds.                                  *)
LEMMA ListOf ==
  ASSUME NEW subs, NEW nexts, NEW ls, NEW put, Hold(subs, nexts, ls, put), NEW d \in Entries
  PROVE  Walked(subs, nexts, d) = ls[d]
<1>1. /\ nexts \in [Entries -> 0..N] /\ subs[d] \in 0..N /\ ls[d] \in Seq(Entries)
      /\ Follows(nexts, subs[d], ls[d])
      /\ \A i, j \in 1..Len(ls[d]) : ls[d][i] = ls[d][j] => i = j
  BY DEF Hold
<1>2. WalkIn(nexts)[N][subs[d]] = ls[d]
  BY <1>1, NoLonger, WalkFollows
<1>3. Walked(subs, nexts, d) = WalkIn(nexts)[N][subs[d]]
  BY DEF Walked, WalkIn, Turns
<1> QED
  BY <1>2, <1>3

LEMMA HoldsMapped ==
  ASSUME NEW subs, NEW nexts, NEW ls, NEW put, Hold(subs, nexts, ls, put)
  PROVE  [d \in Entries |-> Walked(subs, nexts, d)] = ls
<1>1. \A d \in Entries : Walked(subs, nexts, d) = ls[d]
  BY ListOf
<1>2. ls = [d \in Entries |-> ls[d]]
  BY DEF Hold
<1> QED
  BY <1>1, <1>2

----------------------------------------------------------------------------
(* What the loops do to the links is what the lists do.                        *)
LEMMA HoldFacts ==
  ASSUME NEW subs, NEW nexts, NEW ls, NEW put, Hold(subs, nexts, ls, put), NEW d \in Entries
  PROVE  /\ ls[d] \in Seq(Entries) /\ Len(ls[d]) \in Nat /\ subs[d] = Nth(ls[d], 1)
         /\ \A i \in 1..Len(ls[d]) : /\ ls[d][i] \in put /\ ls[d][i] \in Entries
                                     /\ ls[d][i] # None
                                     /\ nexts[ls[d][i]] = Nth(ls[d], i + 1)
         /\ \A i, j \in 1..Len(ls[d]) : ls[d][i] = ls[d][j] => i = j
<1>1. ls[d] \in Seq(Entries)
  BY DEF Hold
<1>2. \A i \in 1..Len(ls[d]) : ls[d][i] \in Entries /\ ls[d][i] # None
  <2> SUFFICES ASSUME NEW i \in 1..Len(ls[d]) PROVE ls[d][i] \in Entries /\ ls[d][i] # None
    OBVIOUS
  <2>1. ls[d][i] \in Entries
    BY <1>1, ElementOfSeq
  <2> QED
    BY <2>1, ChainAssumption DEF Entries, None
<1>3. Follows(nexts, subs[d], ls[d]) /\ Len(ls[d]) \in Nat
  BY <1>1 DEF Hold
<1>4. \A i \in 1..Len(ls[d]) : ls[d][i] \in put
  BY DEF Hold
<1>5. \A i, j \in 1..Len(ls[d]) : ls[d][i] = ls[d][j] => i = j
  BY DEF Hold
<1> QED
  BY <1>1, <1>2, <1>3, <1>4, <1>5 DEF Follows

LEMMA HoldAppend ==
  ASSUME NEW ss, NEW ns, NEW ls, NEW put, Hold(ss, ns, ls, put),
         NEW d \in Entries, NEW c \in Entries \ put, NEW s2, NEW n2,
         IF ls[d] = <<>> THEN s2 = [ss EXCEPT ![d] = c] /\ n2 = ns
                         ELSE s2 = ss /\ n2 = [ns EXCEPT ![ls[d][Len(ls[d])]] = c]
  PROVE  Hold(s2, n2, [ls EXCEPT ![d] = Append(@, c)], put \cup {c})
<1> DEFINE s == ls[d]
           m == Len(s)
           l2 == [ls EXCEPT ![d] = Append(s, c)]
<1>1. /\ ss \in [Entries -> 0..N] /\ ns \in [Entries -> 0..N]
      /\ ls \in [Entries -> Seq(Entries)] /\ put \subseteq Entries
      /\ c \in 0..N /\ c # None
  BY DEF Hold, Entries, None
<1>2. /\ s \in Seq(Entries) /\ m \in Nat /\ ss[d] = Nth(s, 1)
      /\ \A i \in 1..m : /\ s[i] \in put /\ s[i] \in Entries
                         /\ ns[s[i]] = Nth(s, i + 1)
      /\ \A i, j \in 1..m : s[i] = s[j] => i = j
  BY HoldFacts
<1>3. /\ Append(s, c) \in Seq(Entries) /\ Len(Append(s, c)) = m + 1
      /\ Append(s, c)[m + 1] = c /\ \A i \in 1..m : Append(s, c)[i] = s[i]
  BY <1>2
<1>4. /\ l2 \in [Entries -> Seq(Entries)] /\ l2[d] = Append(s, c)
      /\ \A e \in Entries : e # d => l2[e] = ls[e]
  BY <1>1, <1>3
<1>5. s = <<>> <=> m = 0
  BY <1>2
<1> HIDE DEF s, m, l2
<1>6. /\ s2 \in [Entries -> 0..N] /\ n2 \in [Entries -> 0..N]
      /\ \A e \in Entries : e # d => s2[e] = ss[e]
      /\ s2[d] = IF m = 0 THEN c ELSE ss[d]
      /\ \A e \in Entries : n2[e] = IF m # 0 /\ e = s[m] THEN c ELSE ns[e]
  <2>1. CASE m = 0
    BY <1>1, <1>5, <2>1 DEF s
  <2>2. CASE m # 0
    <3>1. s2 = ss /\ n2 = [ns EXCEPT ![s[m]] = c] /\ s[m] \in Entries
      BY <1>2, <1>5, <2>2 DEF s, m
    <3> QED
      BY <1>1, <2>2, <3>1
  <2> QED
    BY <2>1, <2>2
<1>7. ASSUME NEW e \in Entries, e # d PROVE Follows(n2, s2[e], l2[e])
  <2>1. /\ Len(ls[e]) \in Nat /\ ss[e] = Nth(ls[e], 1)
        /\ \A i \in 1..Len(ls[e]) : ls[e][i] \in Entries /\ ns[ls[e][i]] = Nth(ls[e], i + 1)
    BY HoldFacts
  <2>2. \A i \in 1..Len(ls[e]) : m # 0 => ls[e][i] # s[m]
    BY <1>2, <1>7 DEF Hold, s, m
  <2> QED
    BY <1>4, <1>6, <1>7, <2>1, <2>2 DEF Follows
<1>8. Follows(n2, s2[d], l2[d])
  <2>1. s2[d] = Nth(Append(s, c), 1)
    BY <1>2, <1>3, <1>6 DEF Nth
  <2>2. ASSUME NEW i \in 1..(m + 1)
        PROVE  n2[Append(s, c)[i]] = Nth(Append(s, c), i + 1)
    <3>1. CASE i = m + 1
      <4>1. i + 1 \notin 1..(m + 1) /\ \A k \in 1..m : s[k] # c
        BY <1>2, <3>1
      <4>2. m # 0 => c # s[m]
        BY <1>2, <4>1
      <4>3. n2[c] = None
        BY <1>6, <4>2 DEF Hold
      <4> QED
        BY <1>3, <3>1, <4>1, <4>3 DEF Nth
    <3>2. CASE i = m /\ i \in 1..m
      <4>1. i + 1 \in 1..(m + 1) /\ m # 0
        BY <1>2, <3>2
      <4>2. Nth(Append(s, c), i + 1) = c /\ Append(s, c)[i] = s[m] /\ s[m] \in Entries
        BY <1>2, <1>3, <3>2, <4>1 DEF Nth
      <4> QED
        BY <1>6, <4>1, <4>2
    <3>3. CASE i \in 1..m /\ i # m
      <4>1. i + 1 \in 1..m /\ i + 1 \in 1..(m + 1) /\ m \in 1..m
        BY <1>2, <3>3
      <4>2. n2[s[i]] = ns[s[i]] /\ Nth(s, i + 1) = s[i + 1]
        BY <1>2, <1>6, <3>3, <4>1 DEF Nth, m
      <4>3. Append(s, c)[i] = s[i] /\ Nth(Append(s, c), i + 1) = s[i + 1]
        BY <1>3, <3>3, <4>1 DEF Nth
      <4> QED
        BY <1>2, <3>3, <4>2, <4>3
    <3>4. i = m + 1 \/ (i = m /\ i \in 1..m) \/ (i \in 1..m /\ i # m)
      BY <1>2
    <3> QED
      BY <3>1, <3>2, <3>3, <3>4
  <2> QED
    BY <1>3, <1>4, <2>1, <2>2 DEF Follows
<1>9. \A e \in Entries : \A i \in 1..Len(l2[e]) :
        \/ l2[e][i] = c /\ e = d /\ i = m + 1
        \/ i \in 1..Len(ls[e]) /\ l2[e][i] = ls[e][i] /\ ls[e][i] \in put
  <2> SUFFICES ASSUME NEW e \in Entries, NEW i \in 1..Len(l2[e])
               PROVE  \/ l2[e][i] = c /\ e = d /\ i = m + 1
                      \/ i \in 1..Len(ls[e]) /\ l2[e][i] = ls[e][i] /\ ls[e][i] \in put
    OBVIOUS
  <2>1. CASE e # d
    BY <1>4, <2>1 DEF Hold
  <2>2. CASE e = d
    <3>1. i \in 1..m \/ i = m + 1
      BY <1>2, <1>3, <1>4, <2>2
    <3> QED
      BY <1>2, <1>3, <1>4, <2>2, <3>1 DEF s, m
  <2> QED
    BY <2>1, <2>2
<1>10. \A e, f \in Entries : \A i \in 1..Len(l2[e]) : \A j \in 1..Len(l2[f]) :
         l2[e][i] = l2[f][j] => e = f /\ i = j
  <2> SUFFICES ASSUME NEW e \in Entries, NEW f \in Entries, NEW i \in 1..Len(l2[e]),
                      NEW j \in 1..Len(l2[f]), l2[e][i] = l2[f][j]
               PROVE  e = f /\ i = j
    OBVIOUS
  <2>1. /\ \/ l2[e][i] = c /\ e = d /\ i = m + 1
           \/ i \in 1..Len(ls[e]) /\ l2[e][i] = ls[e][i] /\ ls[e][i] \in put
        /\ \/ l2[f][j] = c /\ f = d /\ j = m + 1
           \/ j \in 1..Len(ls[f]) /\ l2[f][j] = ls[f][j] /\ ls[f][j] \in put
    BY <1>9
  <2>2. CASE l2[e][i] = c
    BY <2>1, <2>2
  <2>3. CASE l2[e][i] # c
    <3>1. i \in 1..Len(ls[e]) /\ j \in 1..Len(ls[f]) /\ ls[e][i] = ls[f][j]
      BY <2>1, <2>3
    <3> QED
      BY <3>1 DEF Hold
  <2> QED
    BY <2>2, <2>3
<1>11. \A e \in Entries \ (put \cup {c}) : n2[e] = None
  <2>1. m # 0 => s[m] \in put
    <3>1. m # 0 => m \in 1..m
      BY <1>2
    <3> QED
      BY <1>2, <3>1
  <2> QED
    BY <1>6, <2>1 DEF Hold
<1>12. \A e \in Entries : \A i \in 1..Len(l2[e]) : l2[e][i] \in put \cup {c}
  BY <1>9
<1>13. Hold(s2, n2, l2, put \cup {c})
  BY <1>1, <1>4, <1>6, <1>7, <1>8, <1>10, <1>11, <1>12 DEF Hold
<1> QED
  BY <1>13 DEF l2, s

LEMMA HoldRemove ==
  ASSUME NEW ss, NEW ns, NEW ls, NEW put, Hold(ss, ns, ls, put),
         NEW d \in Entries, NEW k \in 1..Len(ls[d]), NEW s2, NEW n2,
         IF k = 1 THEN s2 = [ss EXCEPT ![d] = ns[ls[d][k]]] /\ n2 = ns
                  ELSE s2 = ss /\ n2 = [ns EXCEPT ![ls[d][k - 1]] = ns[ls[d][k]]]
  PROVE  /\ Hold(s2, n2, [ls EXCEPT ![d] = RemoveFirst(@, ls[d][k])], put)
         /\ ls[d][k] \notin ToSet(RemoveFirst(ls[d], ls[d][k]))
<1> DEFINE s == ls[d]
           m == Len(s)
           t == s[k]
           r == RemoveFirst(s, t)
           l2 == [ls EXCEPT ![d] = r]
           at(i) == IF i < k THEN i ELSE i + 1
<1>1. /\ ss \in [Entries -> 0..N] /\ ns \in [Entries -> 0..N]
      /\ ls \in [Entries -> Seq(Entries)] /\ put \subseteq Entries
  BY DEF Hold
<1>2. /\ s \in Seq(Entries) /\ m \in Nat /\ ss[d] = Nth(s, 1) /\ k \in 1..m
      /\ \A i \in 1..m : /\ s[i] \in put /\ s[i] \in Entries
                         /\ ns[s[i]] = Nth(s, i + 1)
      /\ \A i, j \in 1..m : s[i] = s[j] => i = j
  BY HoldFacts
<1>3. /\ r \in Seq(Entries) /\ Len(r) = m - 1
      /\ \A i \in 1..(m - 1) : at(i) \in 1..m /\ at(i) # k /\ r[i] = s[at(i)]
  <2>1. \A i \in 1..(k - 1) : s[i] # s[k]
    BY <1>2
  <2>2. /\ r \in Seq(Entries) /\ Len(r) = m - 1
        /\ \A i \in 1..(m - 1) : r[i] = IF i < k THEN s[i] ELSE s[i + 1]
    BY <1>2, <2>1, RemovesOne
  <2> HIDE DEF r, s
  <2> QED
    BY <1>2, <2>2
<1> HIDE DEF r
<1>4. /\ l2 \in [Entries -> Seq(Entries)] /\ l2[d] = r
      /\ \A e \in Entries : e # d => l2[e] = ls[e]
  BY <1>1, <1>3
<1> HIDE DEF s, m, l2, t
<1>5. /\ s2 \in [Entries -> 0..N] /\ n2 \in [Entries -> 0..N]
      /\ \A e \in Entries : e # d => s2[e] = ss[e]
      /\ s2[d] = IF k = 1 THEN ns[t] ELSE ss[d]
      /\ \A e \in Entries : n2[e] = IF k # 1 /\ e = s[k - 1] THEN ns[t] ELSE ns[e]
  <2>1. t \in Entries /\ ns[t] \in 0..N
    BY <1>1, <1>2 DEF t
  <2>2. CASE k = 1
    BY <1>1, <2>1, <2>2 DEF s, t
  <2>3. CASE k # 1
    <3>1. k - 1 \in 1..m
      BY <1>2, <2>3
    <3>2. s2 = ss /\ n2 = [ns EXCEPT ![s[k - 1]] = ns[t]] /\ s[k - 1] \in Entries
      BY <1>2, <2>3, <3>1 DEF s, t
    <3> QED
      BY <1>1, <2>1, <2>3, <3>2
  <2> QED
    BY <2>2, <2>3
<1>6. ns[t] = Nth(s, k + 1)
  BY <1>2 DEF t
<1>7. ASSUME NEW e \in Entries, e # d PROVE Follows(n2, s2[e], l2[e])
  <2>1. /\ Len(ls[e]) \in Nat /\ ss[e] = Nth(ls[e], 1)
        /\ \A i \in 1..Len(ls[e]) : ls[e][i] \in Entries /\ ns[ls[e][i]] = Nth(ls[e], i + 1)
    BY HoldFacts
  <2>2. \A i \in 1..Len(ls[e]) : k # 1 => ls[e][i] # s[k - 1]
    <3>1. k # 1 => k - 1 \in 1..m
      BY <1>2
    <3> QED
      BY <1>7, <3>1 DEF Hold, s, m
  <2> QED
    BY <1>4, <1>5, <1>7, <2>1, <2>2 DEF Follows
<1>8. \A i \in 1..m : Nth(r, i) = Nth(s, at(i))
  <2> SUFFICES ASSUME NEW i \in 1..m PROVE Nth(r, i) = Nth(s, at(i))
    OBVIOUS
  <2>1. CASE i \in 1..(m - 1)
    BY <1>3, <2>1 DEF Nth, m
  <2>2. CASE i = m
    <3>1. at(i) = m + 1 /\ i \notin 1..(m - 1) /\ m + 1 \notin 1..m
      BY <1>2, <2>2
    <3> QED
      BY <1>3, <3>1 DEF Nth, m
  <2> QED
    BY <1>2, <2>1, <2>2
<1>9. Follows(n2, s2[d], l2[d])
  <2>1. s2[d] = Nth(r, 1)
    <3>1. 1 \in 1..m
      BY <1>2
    <3>2. Nth(r, 1) = Nth(s, at(1))
      BY <1>8, <3>1
    <3> QED
      BY <1>2, <1>5, <1>6, <3>2
  <2>2. ASSUME NEW i \in 1..(m - 1) PROVE n2[r[i]] = Nth(r, i + 1)
    <3>1. at(i) \in 1..m /\ at(i) # k /\ r[i] = s[at(i)] /\ i + 1 \in 1..m
      BY <1>2, <1>3
    <3>2. Nth(r, i + 1) = Nth(s, at(i + 1)) /\ s[at(i)] \in Entries
      BY <1>2, <1>8, <3>1
    <3>3. CASE i = k - 1
      <4>1. k # 1 /\ at(i) = k - 1 /\ at(i + 1) = k + 1
        BY <1>2, <3>3
      <4> QED
        BY <1>5, <1>6, <3>1, <3>2, <4>1
    <3>4. CASE i # k - 1
      <4>1. at(i) # k - 1 /\ at(i + 1) = at(i) + 1
        BY <1>2, <3>1, <3>4
      <4>2. k # 1 => s[at(i)] # s[k - 1]
        <5>1. k # 1 => k - 1 \in 1..m
          BY <1>2
        <5> QED
          BY <1>2, <3>1, <4>1, <5>1
      <4>3. n2[s[at(i)]] = ns[s[at(i)]]
        BY <1>5, <3>2, <4>2
      <4> QED
        BY <1>2, <3>1, <3>2, <4>1, <4>3
    <3> QED
      BY <3>3, <3>4
  <2> QED
    BY <1>3, <1>4, <2>1, <2>2 DEF Follows
<1>10. \A e \in Entries : \A i \in 1..Len(l2[e]) :
         \/ e = d /\ i \in 1..(m - 1) /\ l2[e][i] = s[at(i)]
         \/ e # d /\ i \in 1..Len(ls[e]) /\ l2[e][i] = ls[e][i]
  BY <1>3, <1>4
<1>11. \A e, f \in Entries : \A i \in 1..Len(l2[e]) : \A j \in 1..Len(l2[f]) :
         l2[e][i] = l2[f][j] => e = f /\ i = j
  <2> SUFFICES ASSUME NEW e \in Entries, NEW f \in Entries, NEW i \in 1..Len(l2[e]),
                      NEW j \in 1..Len(l2[f]), l2[e][i] = l2[f][j]
               PROVE  e = f /\ i = j
    OBVIOUS
  <2>1. CASE e = d /\ f = d
    <3>1. i \in 1..(m - 1) /\ j \in 1..(m - 1) /\ s[at(i)] = s[at(j)]
      BY <1>10, <2>1
    <3>2. at(i) = at(j)
      BY <1>2, <1>3, <3>1
    <3> QED
      BY <1>2, <2>1, <3>1, <3>2
  <2>2. CASE e = d /\ f # d
    <3>1. i \in 1..(m - 1) /\ j \in 1..Len(ls[f]) /\ s[at(i)] = ls[f][j] /\ at(i) \in 1..m
      BY <1>3, <1>10, <2>2
    <3> QED
      BY <2>2, <3>1 DEF Hold, s, m
  <2>3. CASE e # d /\ f = d
    <3>1. j \in 1..(m - 1) /\ i \in 1..Len(ls[e]) /\ s[at(j)] = ls[e][i] /\ at(j) \in 1..m
      BY <1>3, <1>10, <2>3
    <3> QED
      BY <2>3, <3>1 DEF Hold, s, m
  <2>4. CASE e # d /\ f # d
    <3>1. i \in 1..Len(ls[e]) /\ j \in 1..Len(ls[f]) /\ ls[e][i] = ls[f][j]
      BY <1>10, <2>4
    <3> QED
      BY <3>1 DEF Hold
  <2> QED
    BY <2>1, <2>2, <2>3, <2>4
<1>12. \A e \in Entries : \A i \in 1..Len(l2[e]) : l2[e][i] \in put
  <2>1. \A i \in 1..(m - 1) : s[at(i)] \in put
    BY <1>2, <1>3
  <2> QED
    BY <1>10, <2>1 DEF Hold
<1>13. \A e \in Entries \ put : n2[e] = None
  <2>1. k # 1 => s[k - 1] \in put
    <3>1. k # 1 => k - 1 \in 1..m
      BY <1>2
    <3> QED
      BY <1>2, <3>1
  <2> QED
    BY <1>5, <2>1 DEF Hold
<1>14. Hold(s2, n2, l2, put)
  BY <1>1, <1>4, <1>5, <1>7, <1>9, <1>11, <1>12, <1>13 DEF Hold
<1>15. t \notin ToSet(r)
  <2>1. ASSUME NEW i \in 1..(m - 1) PROVE r[i] # t
    <3>1. at(i) \in 1..m /\ at(i) # k /\ r[i] = s[at(i)]
      BY <1>3
    <3> QED
      BY <1>2, <3>1 DEF t
  <2> HIDE DEF at
  <2> QED
    BY <1>3, <2>1 DEF ToSet
<1> QED
  BY <1>14, <1>15 DEF l2, r, s, t

----------------------------------------------------------------------------
(* The same, of the arena and the lists it stands for.                         *)
LEMMA MappedFacts ==
  ASSUME CInv, NEW d \in Entries
  PROVE  /\ Mapped[d] = List(d) /\ linked \subseteq Entries
         /\ List(d) \in Seq(Entries) /\ Len(List(d)) \in Nat /\ sub[d] = Nth(List(d), 1)
         /\ \A i \in 1..Len(List(d)) :
              /\ List(d)[i] \in linked /\ List(d)[i] \in Entries /\ List(d)[i] # None
              /\ next[List(d)[i]] = Nth(List(d), i + 1)
         /\ \A i, j \in 1..Len(List(d)) : List(d)[i] = List(d)[j] => i = j
<1>1. Mapped[d] = List(d)
  BY DEF Mapped
<1>2. Hold(sub, next, Mapped, linked)
  BY DEF CInv
<1>3. linked \subseteq Entries
  BY <1>2 DEF Hold
<1> HIDE DEF List
<1> QED
  BY <1>1, <1>2, <1>3, HoldFacts

LEMMA Appends ==
  ASSUME CInv, NEW d \in Entries, NEW c \in Entries \ (linked \cup {d}),
         IF List(d) = <<>> THEN sub' = [sub EXCEPT ![d] = c] /\ next' = next
                           ELSE sub' = sub /\ next' = [next EXCEPT ![List(d)[Len(List(d))]] = c],
         linked' = linked \cup {c}
  PROVE  /\ Hold(sub', next', Mapped', linked') /\ Lists!AppendTo(d, c)
         /\ List(d)' = Append(List(d), c)
<1> DEFINE l2 == [Mapped EXCEPT ![d] = Append(@, c)]
<1>1. Hold(sub, next, Mapped, linked) /\ Mapped[d] = List(d)
  BY DEF CInv, Mapped
<1>2. Hold(sub', next', l2, linked')
  <2> HIDE DEF List, Mapped
  <2> QED  BY <1>1, HoldAppend
<1>3. Mapped' = l2
  <2>1. [e \in Entries |-> Walked(sub', next', e)] = l2
    <3> HIDE DEF l2
    <3> QED  BY <1>2, HoldsMapped
  <2> QED
    BY <2>1 DEF Mapped, List
<1>4. List(d)' = Append(List(d), c)
  <2>1. Mapped'[d] = List(d)'
    BY DEF Mapped
  <2> HIDE DEF Mapped, List
  <2>2. d \in DOMAIN Mapped
    BY DEF Mapped
  <2> QED
    BY <1>1, <1>3, <2>1, <2>2
<1>5. Lists!AppendTo(d, c)
  BY <1>3 DEF Lists!AppendTo, Mapped
<1> HIDE DEF l2
<1> QED
  BY <1>2, <1>3, <1>4, <1>5

(* The operators on lists that ChildLists speaks of are those of the library.   *)
LEMMA SameWords ==
  ASSUME NEW s, NEW t
  PROVE  Lists!ToSet(s) = ToSet(s) /\ Lists!RemoveFirst(s, t) = RemoveFirst(s, t)
<1>1. Lists!ToSet(s) = ToSet(s)
  BY DEF Lists!ToSet, ToSet
<1>2. \A S : Lists!Min(S) = Min(S)
  BY DEF Lists!Min, Min
<1>3. Lists!SelectInSeq(s, LAMBDA e : e = t) = SelectInSeq(s, LAMBDA e : e = t)
  BY <1>2 DEF Lists!SelectInSeq, SelectInSeq
<1>4. \A i : Lists!RemoveAt(s, i) = RemoveAt(s, i)
  BY DEF Lists!RemoveAt, RemoveAt
<1> QED
  BY <1>1, <1>3, <1>4 DEF Lists!RemoveFirst, RemoveFirst

LEMMA Removes ==
  ASSUME CInv, NEW d \in Entries, NEW k \in 1..Len(List(d)),
         IF k = 1 THEN sub' = [sub EXCEPT ![d] = next[List(d)[k]]] /\ next' = next
                  ELSE sub' = sub /\ next' = [next EXCEPT ![List(d)[k - 1]] = next[List(d)[k]]],
         linked' = linked
  PROVE  /\ Hold(sub', next', Mapped', linked') /\ Lists!RemoveFrom(d, List(d)[k])
         /\ List(d)[k] \notin ToSet(List(d)')
<1> DEFINE t == List(d)[k]
           l2 == [Mapped EXCEPT ![d] = RemoveFirst(@, t)]
<1>1. Hold(sub, next, Mapped, linked) /\ Mapped[d] = List(d)
  BY DEF CInv, Mapped
<1>2. Hold(sub', next', l2, linked') /\ t \notin ToSet(RemoveFirst(List(d), t))
  <2> HIDE DEF List, Mapped
  <2> QED  BY <1>1, HoldRemove
<1>3. Mapped' = l2
  <2>1. [e \in Entries |-> Walked(sub', next', e)] = l2
    <3> HIDE DEF l2
    <3> QED  BY <1>2, HoldsMapped
  <2> QED
    BY <2>1 DEF Mapped, List
<1>4. List(d)' = RemoveFirst(List(d), t)
  <2>1. Mapped'[d] = List(d)'
    BY DEF Mapped
  <2> HIDE DEF Mapped, List, t
  <2>2. d \in DOMAIN Mapped
    BY DEF Mapped
  <2> QED
    BY <1>1, <1>3, <2>1, <2>2
<1>5. t \in ToSet(Mapped[d])
  <2>1. List(d) \in Seq(Entries)
    BY MappedFacts
  <2> HIDE DEF List
  <2> QED
    BY <1>1, <2>1 DEF ToSet
<1>6. Lists!RemoveFrom(d, t)
  <2>1. Mapped' = [Mapped EXCEPT ![d] = RemoveFirst(@, t)]
    BY <1>3
  <2> HIDE DEF t, l2
  <2> QED
    BY <1>5, <2>1, SameWords DEF Lists!RemoveFrom, Mapped
<1> HIDE DEF l2
<1> QED
  BY <1>2, <1>3, <1>4, <1>6

LEMMA Unmoved ==
  ASSUME CInv, UNCHANGED <<sub, next, linked>>
  PROVE  /\ Hold(sub', next', Mapped', linked') /\ UNCHANGED Lists!lvars
         /\ \A d : List(d)' = List(d)
<1>1. Mapped' = Mapped /\ \A d : List(d)' = List(d)
  BY DEF Mapped, List
<1>2. Hold(sub, next, Mapped, linked)
  BY DEF CInv
<1>3. UNCHANGED Lists!lvars
  BY <1>1 DEF Lists!lvars, Mapped
<1> HIDE DEF Mapped, List
<1> QED
  BY <1>1, <1>2, <1>3

----------------------------------------------------------------------------
(* Call by call, and turn by turn.                                            *)
Implemented == Lists!LNext \/ UNCHANGED Lists!lvars

LEMMA Starts == CInit => CInv /\ Lists!LInit
<1> SUFFICES ASSUME CInit PROVE CInv /\ Lists!LInit
  OBVIOUS
<1> DEFINE ls == [d \in Entries |-> <<>>]
<1>1. /\ sub = [d \in Entries |-> None] /\ next = [e \in Entries |-> None]
      /\ linked = {} /\ call = Idle
  BY DEF CInit
<1>2. Hold(sub, next, ls, linked)
  <2>1. None \in 0..N
    BY ChainAssumption DEF None
  <2>2. ls \in [Entries -> Seq(Entries)] /\ \A d \in Entries : ls[d] = <<>> /\ Len(ls[d]) = 0
    OBVIOUS
  <2> HIDE DEF ls
  <2>3. \A d \in Entries : Follows(next, sub[d], ls[d])
    BY <1>1, <2>2 DEF Follows, Nth
  <2> QED
    BY <1>1, <2>1, <2>2, <2>3 DEF Hold
<1>3. Mapped = ls
  <2> HIDE DEF ls
  <2> QED  BY <1>2, HoldsMapped DEF Mapped, List
<1> QED
  BY <1>1, <1>2, <1>3 DEF CInv, Lists!LInit, Mapped

LEMMA NewestIsNew ==
  ASSUME linked \subseteq Entries, linked \cup {1} # Entries
  PROVE  Newest \in Entries \ ({1} \cup linked)
<1> DEFINE S == Entries \ ({1} \cup linked)
<1>1. S \in SUBSET Nat /\ S # {}
  <2>1. 1 \in Entries
    BY ChainAssumption DEF Entries
  <2>2. S # {}
    BY <2>1
  <2>3. Entries \subseteq Nat
    BY DEF Entries
  <2> QED
    BY <2>2, <2>3
<1>2. \E c \in S : \A e \in S : c <= e
  <2> HIDE DEF S
  <2> QED  BY <1>1, LeastExists
<1> QED
  BY <1>2 DEF Newest

LEMMA LinkStarts == ASSUME CInv, NEW d \in Entries, Link(d) PROVE CInv' /\ Implemented
<1>1. /\ call = Idle /\ linked \cup {1} # Entries /\ d \in {1} \cup linked /\ next' = next
  BY DEF Link
<1>2. /\ linked \subseteq Entries /\ Len(List(d)) \in Nat /\ sub[d] = Nth(List(d), 1)
      /\ List(d) \in Seq(Entries)
      /\ \A i \in 1..Len(List(d)) : List(d)[i] # None
  BY MappedFacts
<1> DEFINE c == Newest
<1>3. c \in Entries \ ({1} \cup linked)
  BY <1>1, <1>2, NewestIsNew
<1> HIDE DEF c
<1>4. CASE sub[d] # None
  <2>1. call' = Loop("link", d, c, sub[d]) /\ UNCHANGED <<sub, next, linked>>
    BY <1>4 DEF Link, HasChild, c
  <2>2. 1 \in 1..Len(List(d)) /\ sub[d] = List(d)[1]
    BY <1>2, <1>4 DEF Nth
  <2>3. /\ Hold(sub', next', Mapped', linked') /\ UNCHANGED Lists!lvars
        /\ List(d)' = List(d)
    BY <2>1, Unmoved
  <2>4. Linking'
    <3>1. /\ d \in {1} \cup linked' /\ c \in Entries \ ({1} \cup linked')
          /\ 1 \in 1..Len(List(d)') /\ call' = Loop("link", d, c, List(d)'[1])
      BY <1>1, <1>3, <2>1, <2>2, <2>3
    <3> HIDE DEF List
    <3> QED
      BY <3>1 DEF Linking
  <2> QED
    BY <2>3, <2>4 DEF CInv, Implemented
<1>5. CASE sub[d] = None
  <2>1. sub' = [sub EXCEPT ![d] = c] /\ linked' = linked \cup {c} /\ call' = Idle
    BY <1>1, <1>5 DEF Link, HasChild, c
  <2>2. List(d) = <<>>
    <3>1. ~(1 \in 1..Len(List(d)))
      BY <1>2, <1>5 DEF Nth
    <3> HIDE DEF List
    <3> QED
      BY <1>2, <3>1
  <2>3. Hold(sub', next', Mapped', linked') /\ Lists!AppendTo(d, c)
    <3>1. c \in Entries \ (linked \cup {d})
      BY <1>1, <1>3
    <3> QED
      BY <1>1, <2>1, <2>2, <3>1, Appends
  <2>4. Lists!LNext
    BY <1>3, <2>3 DEF Lists!LNext
  <2> QED
    BY <2>1, <2>3, <2>4 DEF CInv, Implemented, Idle
<1> QED
  BY <1>4, <1>5

(* Which loop is running says which part of the invariant speaks of it.        *)
LEMMA WhichLoop ==
  ASSUME CInv
  PROVE  /\ call.op = "link" => Linking
         /\ call.op = "windows" => Windowing
         /\ call.op = "unlink" => Unlinking
<1>1. /\ call = Idle => call.op = "idle"
      /\ Linking => call.op = "link"
      /\ Windowing => call.op = "windows"
      /\ Unlinking => call.op = "unlink"
  <2>1. /\ Idle.op = "idle"
        /\ \A op, d, t, c : Loop(op, d, t, c).op = op
    BY DEF Idle, Loop
  <2> QED
    BY <2>1 DEF Linking, Windowing, Unlinking
<1> QED
  BY <1>1 DEF CInv

LEMMA LinkTurns == ASSUME CInv, LinkTurn PROVE CInv' /\ Implemented
<1>1. Linking
  BY WhichLoop DEF LinkTurn
<1>2. PICK d \in {1} \cup linked, c \in Entries \ ({1} \cup linked) :
        \E i \in 1..Len(List(d)) : call = Loop("link", d, c, List(d)[i])
  BY <1>1 DEF Linking
<1>3. PICK i \in 1..Len(List(d)) : call = Loop("link", d, c, List(d)[i])
  BY <1>2
<1>4. d \in Entries
  <2>1. linked \subseteq Entries
    BY DEF CInv, Hold
  <2> QED
    BY <1>2, <2>1, ChainAssumption DEF Entries
<1> DEFINE s == List(d)
<1>5. /\ s \in Seq(Entries) /\ Len(s) \in Nat /\ i \in 1..Len(s) /\ next[s[i]] = Nth(s, i + 1)
      /\ \A j \in 1..Len(s) : s[j] # None
  BY <1>4, MappedFacts
<1> HIDE DEF s
<1>6. call = [op |-> "link", dir |-> d, target |-> c, cur |-> s[i]]
  BY <1>3 DEF Loop, s
<1>7. CASE next[s[i]] = None
  <2>1. /\ next' = [next EXCEPT ![s[i]] = c] /\ linked' = linked \cup {c}
        /\ call' = Idle /\ sub' = sub
    BY <1>6, <1>7 DEF LinkTurn, IsTail
  <2>2. i = Len(s) /\ s # <<>>
    <3>1. i + 1 \in 1..Len(s) => next[s[i]] = s[i + 1]
      BY <1>5 DEF Nth
    <3> QED
      BY <1>5, <1>7, <3>1
  <2>3. Hold(sub', next', Mapped', linked') /\ Lists!AppendTo(d, c)
    <3>1. c \in Entries \ (linked \cup {d})
      BY <1>2
    <3> QED
      BY <1>4, <2>1, <2>2, <3>1, Appends DEF s
  <2>4. Lists!LNext
    BY <1>4, <2>3 DEF Lists!LNext
  <2> QED
    BY <2>1, <2>3, <2>4 DEF CInv, Implemented, Idle
<1>8. CASE next[s[i]] # None
  <2>1. call' = [call EXCEPT !.cur = next[s[i]]] /\ UNCHANGED <<sub, next, linked>>
    BY <1>6, <1>8 DEF LinkTurn, IsTail, Advance
  <2>2. i + 1 \in 1..Len(s) /\ next[s[i]] = s[i + 1]
    BY <1>5, <1>8 DEF Nth
  <2>3. call' = Loop("link", d, c, s[i + 1])
    BY <1>6, <2>1, <2>2 DEF Loop
  <2>4. /\ Hold(sub', next', Mapped', linked') /\ UNCHANGED Lists!lvars
        /\ List(d)' = s
    BY <2>1, Unmoved DEF s
  <2>5. Linking'
    <3>1. /\ d \in {1} \cup linked' /\ c \in Entries \ ({1} \cup linked')
          /\ i + 1 \in 1..Len(List(d)') /\ call' = Loop("link", d, c, List(d)'[i + 1])
      BY <1>2, <2>1, <2>2, <2>3, <2>4
    <3> HIDE DEF List
    <3> QED
      BY <3>1 DEF Linking
  <2> QED
    BY <2>4, <2>5 DEF CInv, Implemented
<1> QED
  BY <1>7, <1>8

LEMMA IncreasingFacts ==
  ASSUME NEW ids \in Increasing
  PROVE  /\ ids \in Seq(Entries) /\ Len(ids) \in Nat
         /\ \A i, j \in 1..Len(ids) : ids[i] = ids[j] => i = j
<1>n. N \in Nat
  BY ChainAssumption
<1>1. PICK m \in 0..N : ids \in [1..m -> Entries]
  BY DEF Increasing, SeqOf
<1>2. ids \in Seq(Entries) /\ Len(ids) = m
  <2>1. m \in Nat
    BY <1>n
  <2> QED
    BY <1>1, <2>1, SeqDef
<1>3. \A i \in 2..m : ids[i - 1] < ids[i]
  BY <1>2 DEF Increasing
<1>4. \A i \in 1..m : ids[i] \in Nat
  BY <1>1, <1>n DEF Entries
<1> DEFINE Ordered == {k \in Nat : \A i \in 1..m : i + k + 1 \in 1..m => ids[i] < ids[i + k + 1]}
<1>5. 0 \in Ordered
  <2> SUFFICES ASSUME NEW i \in 1..m, i + 1 \in 1..m PROVE ids[i] < ids[i + 1]
    OBVIOUS
  <2>1. i + 1 \in 2..m /\ (i + 1) - 1 = i
    BY <1>n
  <2> QED
    BY <1>3, <2>1
<1>6. ASSUME NEW k \in Nat, k \in Ordered PROVE k + 1 \in Ordered
  <2> SUFFICES ASSUME NEW i \in 1..m, i + (k + 1) + 1 \in 1..m
               PROVE  ids[i] < ids[i + (k + 1) + 1]
    OBVIOUS
  <2> DEFINE a == i + k + 1
  <2>1. a \in 1..m /\ a + 1 \in 2..m /\ (a + 1) - 1 = a /\ i + (k + 1) + 1 = a + 1 /\ a + 1 \in 1..m
    BY <1>n
  <2>2. ids[i] < ids[a]
    BY <1>6, <2>1
  <2> HIDE DEF a
  <2>3. ids[a] < ids[a + 1]
    BY <1>3, <2>1
  <2> QED
    BY <1>4, <2>1, <2>2, <2>3
<1>7. Nat \subseteq Ordered
  <2> HIDE DEF Ordered
  <2> QED  BY <1>5, <1>6, SetInduction
<1>8. ASSUME NEW i \in 1..m, NEW j \in 1..m, i < j PROVE ids[i] # ids[j]
  <2> DEFINE k == j - i - 1
  <2>1. k \in Nat /\ i + k + 1 = j
    BY <1>n, <1>8
  <2> HIDE DEF k
  <2>2. ids[i] < ids[j]
    BY <1>7, <2>1
  <2> QED
    BY <1>4, <2>2
<1>9. ASSUME NEW i \in 1..m, NEW j \in 1..m, ids[i] = ids[j] PROVE i = j
  BY <1>8, <1>9, <1>n
<1> QED
  BY <1>2, <1>9, <1>n

LEMMA ImportStarts ==
  ASSUME CInv, NEW d \in Entries, NEW ids \in Increasing,
         ToSet(ids) \subseteq (d + 1)..N \ linked, Import(d, ids)
  PROVE  CInv' /\ Implemented
<1>1. /\ sub[d] = None /\ ids # <<>> /\ sub' = [sub EXCEPT ![d] = ids[1]] /\ next' = next
      /\ linked' = linked \cup {ids[1]} /\ call' = Loop("windows", d, None, ids)
  BY DEF Import, HasChild
<1>2. /\ ids \in Seq(Entries) /\ Len(ids) \in Nat
      /\ \A i, j \in 1..Len(ids) : ids[i] = ids[j] => i = j
  BY IncreasingFacts
<1>3. \A i \in 1..Len(ids) : ids[i] \in Entries \ (linked \cup {d})
  <2> SUFFICES ASSUME NEW i \in 1..Len(ids) PROVE ids[i] \in Entries \ (linked \cup {d})
    OBVIOUS
  <2>1. ids[i] \in ToSet(ids) /\ ids[i] \in Entries
    BY <1>2 DEF ToSet
  <2>2. ids[i] \in (d + 1)..N \ linked
    BY <2>1
  <2>3. d \in Int
    BY ChainAssumption DEF Entries
  <2> QED
    BY <2>1, <2>2, <2>3
<1>4. 1 \in 1..Len(ids)
  BY <1>1, <1>2
<1>5. List(d) = <<>>
  <2>1. /\ List(d) \in Seq(Entries) /\ Len(List(d)) \in Nat /\ sub[d] = Nth(List(d), 1)
        /\ \A i \in 1..Len(List(d)) : List(d)[i] # None
    BY MappedFacts
  <2> HIDE DEF List
  <2>2. ~(1 \in 1..Len(List(d)))
    BY <1>1, <2>1 DEF Nth
  <2> QED
    BY <2>1, <2>2
<1>6. /\ Hold(sub', next', Mapped', linked') /\ Lists!AppendTo(d, ids[1])
      /\ List(d)' = Append(<<>>, ids[1])
  <2>1. ids[1] \in Entries \ (linked \cup {d})
    BY <1>3, <1>4
  <2> QED
    BY <1>1, <1>5, <2>1, Appends
<1>7. Lists!LNext
  BY <1>3, <1>4, <1>6 DEF Lists!LNext
<1>8. Windowing'
  <2>1. List(d)' # <<>> /\ ids[1] = List(d)'[Len(List(d)')]
    BY <1>2, <1>6
  <2>2. \A i \in 2..Len(ids) : ids[i] \notin linked' \cup {d}
    <3> SUFFICES ASSUME NEW i \in 2..Len(ids) PROVE ids[i] \notin linked' \cup {d}
      OBVIOUS
    <3>1. i \in 1..Len(ids) /\ i # 1
      BY <1>2
    <3> QED
      BY <1>1, <1>2, <1>3, <1>4, <3>1
  <2> HIDE DEF List
  <2> QED
    BY <1>1, <1>2, <2>1, <2>2 DEF Windowing
<1> QED
  BY <1>6, <1>7, <1>8 DEF CInv, Implemented

LEMMA ImportTurns == ASSUME CInv, ImportTurn PROVE CInv' /\ Implemented
<1>1. Windowing
  BY WhichLoop DEF ImportTurn
<1>2. PICK d \in Entries, ids \in Seq(Entries) :
        /\ call = Loop("windows", d, None, ids)
        /\ ids # <<>> /\ List(d) # <<>> /\ ids[1] = List(d)[Len(List(d))]
        /\ \A i \in 2..Len(ids) : ids[i] \notin linked \cup {d}
        /\ \A i, j \in 1..Len(ids) : ids[i] = ids[j] => i = j
  BY <1>1 DEF Windowing
<1>3. call = [op |-> "windows", dir |-> d, target |-> None, cur |-> ids]
  BY <1>2 DEF Loop
<1>4. CASE Len(ids) > 1
  <2>1. /\ next' = [next EXCEPT ![ids[1]] = ids[2]] /\ linked' = linked \cup {ids[2]}
        /\ call' = [call EXCEPT !.cur = Tail(ids)] /\ sub' = sub
    BY <1>3, <1>4 DEF ImportTurn
  <2> DEFINE q == Tail(ids)
  <2>2. /\ Len(ids) \in Nat /\ 2 \in 2..Len(ids) /\ 2 \in 1..Len(ids) /\ ids[2] \in Entries
        /\ q \in Seq(Entries) /\ Len(q) = Len(ids) - 1 /\ q # <<>>
        /\ \A i \in 1..Len(q) : q[i] = ids[i + 1] /\ i + 1 \in 1..Len(ids)
    <3>1. Len(ids) \in Nat /\ 2 \in 2..Len(ids) /\ 2 \in 1..Len(ids)
      BY <1>4
    <3>2. ids[2] \in Entries
      BY <3>1, ElementOfSeq
    <3>3. q \in Seq(Entries) /\ Len(q) = Len(ids) - 1
      BY <1>2
    <3>4. \A i \in 1..Len(q) : q[i] = ids[i + 1] /\ i + 1 \in 1..Len(ids)
      BY <1>2, <3>1, <3>3
    <3>5. q # <<>>
      <4> HIDE DEF q
      <4> QED  BY <3>1, <3>3, <1>4
    <3> QED
      BY <3>1, <3>2, <3>3, <3>4, <3>5
  <2> HIDE DEF q
  <2>3. /\ Hold(sub', next', Mapped', linked') /\ Lists!AppendTo(d, ids[2])
        /\ List(d)' = Append(List(d), ids[2])
    <3>1. ids[2] \in Entries \ (linked \cup {d})
      BY <1>2, <2>2
    <3> QED
      BY <1>2, <2>1, <3>1, Appends
  <2>4. Lists!LNext
    BY <2>2, <2>3 DEF Lists!LNext
  <2>5. Windowing'
    <3>1. call' = Loop("windows", d, None, q)
      BY <1>3, <2>1 DEF Loop, q
    <3>2. List(d)' # <<>> /\ q[1] = List(d)'[Len(List(d)')]
      <4>1. List(d) \in Seq(Entries)
        BY MappedFacts
      <4> HIDE DEF List
      <4>2. /\ Append(List(d), ids[2]) # <<>>
            /\ Append(List(d), ids[2])[Len(Append(List(d), ids[2]))] = ids[2]
        <5>1. /\ Append(List(d), ids[2]) \in Seq(Entries)
              /\ Len(Append(List(d), ids[2])) = Len(List(d)) + 1
              /\ Append(List(d), ids[2])[Len(List(d)) + 1] = ids[2]
              /\ Len(List(d)) \in Nat
          BY <2>2, <4>1, AppendProperties
        <5> QED
          BY <5>1
      <4>3. q[1] = ids[2]
        BY <2>2
      <4> QED
        BY <2>3, <4>2, <4>3
    <3>3. \A i \in 2..Len(q) : q[i] \notin linked' \cup {d}
      <4> SUFFICES ASSUME NEW i \in 2..Len(q) PROVE q[i] \notin linked' \cup {d}
        OBVIOUS
      <4>1. i \in 1..Len(q) /\ i + 1 \in 2..Len(ids) /\ i + 1 # 2 /\ i + 1 \in 1..Len(ids)
        BY <2>2
      <4> QED
        BY <1>2, <2>1, <2>2, <4>1
    <3>4. \A i, j \in 1..Len(q) : q[i] = q[j] => i = j
      <4> SUFFICES ASSUME NEW i \in 1..Len(q), NEW j \in 1..Len(q), q[i] = q[j] PROVE i = j
        OBVIOUS
      <4>1. i + 1 = j + 1
        BY <1>2, <2>2
      <4> QED
        BY <4>1
    <3> HIDE DEF List
    <3> QED
      BY <2>2, <3>1, <3>2, <3>3, <3>4 DEF Windowing
  <2> QED
    BY <2>3, <2>4, <2>5 DEF CInv, Implemented
<1>5. CASE ~(Len(ids) > 1)
  <2>1. call' = Idle /\ UNCHANGED <<sub, next, linked>>
    BY <1>3, <1>5 DEF ImportTurn
  <2>2. Hold(sub', next', Mapped', linked') /\ UNCHANGED Lists!lvars
    BY <2>1, Unmoved
  <2> QED
    BY <2>1, <2>2 DEF CInv, Implemented, Idle
<1> QED
  BY <1>4, <1>5

LEMMA UnlinkStarts ==
  ASSUME CInv, NEW d \in Entries, NEW t, Unlink(d, t) PROVE CInv' /\ Implemented
<1> DEFINE s == List(d)
<1>1. /\ s \in Seq(Entries) /\ Len(s) \in Nat /\ sub[d] = Nth(s, 1)
      /\ \A i, j \in 1..Len(s) : s[i] = s[j] => i = j
  BY MappedFacts
<1>2. call = Idle /\ t \in ToSet(s) /\ UNCHANGED <<next, linked>>
  BY DEF Unlink
<1> HIDE DEF s
<1>3. PICK k \in 1..Len(s) : s[k] = t
  BY <1>1, <1>2 DEF ToSet
<1>4. 1 \in 1..Len(s) /\ sub[d] = s[1]
  BY <1>1, <1>3 DEF Nth
<1>5. CASE sub[d] = t
  <2>1. k = 1
    BY <1>1, <1>3, <1>4, <1>5
  <2>2. sub' = [sub EXCEPT ![d] = next[t]] /\ call' = Idle
    BY <1>2, <1>5 DEF Unlink, After
  <2>3. Hold(sub', next', Mapped', linked') /\ Lists!RemoveFrom(d, t)
    BY <1>2, <1>3, <2>1, <2>2, Removes DEF s
  <2>4. Lists!LNext
    <3>1. t \in Entries
      BY <1>1, <1>3
    <3> QED
      BY <2>3, <3>1 DEF Lists!LNext
  <2> QED
    BY <2>2, <2>3, <2>4 DEF CInv, Implemented, Idle
<1>6. CASE sub[d] # t
  <2>1. call' = Loop("unlink", d, t, sub[d]) /\ UNCHANGED <<sub, next, linked>>
    BY <1>2, <1>6 DEF Unlink
  <2>2. 1 \in 1..(k - 1)
    BY <1>1, <1>3, <1>4, <1>6
  <2>3. /\ Hold(sub', next', Mapped', linked') /\ UNCHANGED Lists!lvars
        /\ List(d)' = s
    BY <2>1, Unmoved DEF s
  <2>4. Unlinking'
    <3>1. /\ k \in 1..Len(List(d)') /\ 1 \in 1..(k - 1)
          /\ call' = Loop("unlink", d, List(d)'[k], List(d)'[1])
      BY <1>3, <1>4, <2>1, <2>2, <2>3
    <3> HIDE DEF List
    <3> QED
      BY <3>1 DEF Unlinking
  <2> QED
    BY <2>3, <2>4 DEF CInv, Implemented
<1> QED
  BY <1>5, <1>6

(* The loop of unlink_from_parent is left when the target is out.              *)
LEMMA UnlinkTurns ==
  ASSUME CInv, UnlinkTurn
  PROVE  /\ CInv' /\ Implemented
         /\ call'.op = "idle" => call.target \notin ToSet(Walked(sub', next', call.dir))
<1>1. Unlinking
  BY WhichLoop DEF UnlinkTurn
<1>2. PICK d \in Entries : \E k \in 1..Len(List(d)) : \E i \in 1..(k - 1) :
        call = Loop("unlink", d, List(d)[k], List(d)[i])
  BY <1>1 DEF Unlinking
<1> DEFINE s == List(d)
<1>3. PICK k \in 1..Len(s) : \E i \in 1..(k - 1) : call = Loop("unlink", d, s[k], s[i])
  BY <1>2
<1>4. PICK i \in 1..(k - 1) : call = Loop("unlink", d, s[k], s[i])
  BY <1>3
<1>5. /\ s \in Seq(Entries) /\ Len(s) \in Nat
      /\ \A j \in 1..Len(s) : s[j] \in Entries /\ s[j] # None /\ next[s[j]] = Nth(s, j + 1)
      /\ \A j, l \in 1..Len(s) : s[j] = s[l] => j = l
  BY MappedFacts
<1> HIDE DEF s
<1>6. call = [op |-> "unlink", dir |-> d, target |-> s[k], cur |-> s[i]]
  BY <1>4 DEF Loop
<1>7. i \in 1..Len(s) /\ i + 1 \in 1..Len(s) /\ s[i] # None /\ next[s[i]] = s[i + 1]
  BY <1>5 DEF Nth
<1>8. CASE s[i + 1] = s[k]
  <2>1. i = k - 1 /\ k # 1
    BY <1>5, <1>7, <1>8
  <2>2. /\ next' = [next EXCEPT ![s[k - 1]] = next[s[k]]] /\ call' = Idle
        /\ UNCHANGED <<sub, linked>>
    BY <1>6, <1>7, <1>8, <2>1 DEF UnlinkTurn, After
  <2>3. /\ Hold(sub', next', Mapped', linked') /\ Lists!RemoveFrom(d, s[k])
        /\ s[k] \notin ToSet(List(d)')
    BY <2>1, <2>2, Removes DEF s
  <2>4. Lists!LNext
    <3>1. s[k] \in Entries
      BY <1>5
    <3> QED
      BY <2>3, <3>1 DEF Lists!LNext
  <2>5. call.target \notin ToSet(Walked(sub', next', call.dir))
    BY <1>6, <2>3 DEF List
  <2> QED
    BY <2>2, <2>3, <2>4, <2>5 DEF CInv, Implemented, Idle
<1>9. CASE s[i + 1] # s[k]
  <2>1. call' = [call EXCEPT !.cur = next[s[i]]] /\ UNCHANGED <<sub, next, linked>>
    BY <1>6, <1>7, <1>9 DEF UnlinkTurn, Advance
  <2>2. call' = Loop("unlink", d, s[k], s[i + 1])
    BY <1>6, <1>7, <2>1 DEF Loop
  <2>3. i + 1 \in 1..(k - 1)
    BY <1>5, <1>9
  <2>4. /\ Hold(sub', next', Mapped', linked') /\ UNCHANGED Lists!lvars
        /\ List(d)' = s
    BY <2>1, Unmoved DEF s
  <2>5. Unlinking'
    <3>1. /\ k \in 1..Len(List(d)') /\ i + 1 \in 1..(k - 1)
          /\ call' = Loop("unlink", d, List(d)'[k], List(d)'[i + 1])
      BY <2>2, <2>3, <2>4
    <3> HIDE DEF List
    <3> QED
      BY <3>1 DEF Unlinking
  <2>6. call'.op # "idle"
    BY <2>2 DEF Loop
  <2> QED
    BY <2>4, <2>5, <2>6 DEF CInv, Implemented
<1> QED
  BY <1>8, <1>9

LEMMA Unhurried ==
  ASSUME CInv, UNCHANGED <<sub, next, linked, call>> PROVE CInv' /\ Implemented
<1>1. /\ Hold(sub', next', Mapped', linked') /\ UNCHANGED Lists!lvars
      /\ \A d : List(d)' = List(d)
  BY Unmoved
<1>2. /\ call = Idle => call' = Idle
      /\ Linking => Linking'
      /\ Windowing => Windowing'
      /\ Unlinking => Unlinking'
  <2> HIDE DEF List
  <2>1. call' = call /\ linked' = linked
    OBVIOUS
  <2>2. (Linking => Linking')
    BY <1>1, <2>1 DEF Linking
  <2>3. (Windowing => Windowing')
    BY <1>1, <2>1 DEF Windowing
  <2>4. (Unlinking => Unlinking')
    BY <1>1, <2>1 DEF Unlinking
  <2> QED
    BY <2>1, <2>2, <2>3, <2>4 DEF Idle
<1>3. call' = Idle \/ Linking' \/ Windowing' \/ Unlinking'
  BY <1>2 DEF CInv
<1> QED
  BY <1>1, <1>3 DEF CInv, Implemented, Idle

LEMMA ChainStep ==
  ASSUME CInv, [CNext]_chain
  PROVE  /\ CInv' /\ Implemented
         /\ call.op = "unlink" /\ call'.op = "idle"
              => call.target \notin ToSet(Walked(sub', next', call.dir))
<1>1. CASE \E d \in Entries : Link(d)
  BY <1>1, LinkStarts DEF Link, Idle
<1>2. CASE \E d \in Entries, ids \in Increasing :
             ToSet(ids) \subseteq (d + 1)..N \ linked /\ Import(d, ids)
  <2>1. PICK d \in Entries, ids \in Increasing :
               ToSet(ids) \subseteq (d + 1)..N \ linked /\ Import(d, ids)
    BY <1>2
  <2>2. call = Idle
    BY <2>1 DEF Import
  <2>3. CInv' /\ Implemented
    BY <2>1, ImportStarts
  <2> QED
    BY <2>2, <2>3 DEF Idle
<1>3. CASE Browse
  BY <1>3, Unhurried DEF Browse, Idle
<1>4. CASE \E d, t \in Entries : Unlink(d, t)
  BY <1>4, UnlinkStarts DEF Unlink, Idle
<1>5. CASE LinkTurn
  BY <1>5, LinkTurns DEF LinkTurn
<1>6. CASE ImportTurn
  BY <1>6, ImportTurns DEF ImportTurn
<1>7. CASE UnlinkTurn
  BY <1>7, UnlinkTurns
<1>8. CASE UNCHANGED chain
  BY <1>8, Unhurried DEF chain
<1> QED
  BY <1>1, <1>2, <1>3, <1>4, <1>5, <1>6, <1>7, <1>8 DEF CNext, Turn

(* Whatever is linked, imported and unlinked, in whatever order, the loops of   *)
(* link_child, parse_item and unlink_from_parent read and write the links so     *)
(* that every directory has a list of children, and is given its entries at     *)
(* the end of it, and loses the one that was asked for.                        *)
THEOREM LinksAreLists == CSpec => ChainsAreLists
<1>1. CInv /\ [CNext]_chain => CInv' /\ [Lists!LNext]_(Lists!lvars)
  BY ChainStep DEF Implemented
<1> QED
  BY Starts, <1>1, PTL DEF CSpec, ChainsAreLists, Lists!LSpec

(* unlink_from_parent comes to its target before the end of the chain: the      *)
(* directory it walked does not have it any more when the loop is left.        *)
THEOREM UnlinkedIsGone == CSpec => UnlinkFinds
<1>1. CInv /\ [CNext]_chain =>
        CInv' /\ [call.op = "unlink" /\ call'.op = "idle"
                    => call.target \notin ToSet(Walked(sub', next', call.dir))]_chain
  BY ChainStep
<1> QED
  BY Starts, <1>1, PTL DEF CSpec, UnlinkFinds

----------------------------------------------------------------------------
(* How much of its chain the loop that is running has before it: the entries    *)
(* from its own on, or what is left of the windows.                            *)
SpotOf(e, s) == CHOOSE i \in 1..Len(s) : s[i] = e
ChainLeft(c, s) ==
  IF c.op = "idle" THEN 0
  ELSE IF c.op = "windows" THEN Len(c.cur)
  ELSE Len(s) + 1 - SpotOf(c.cur, s)
TurnsLeft == ChainLeft(call, List(call.dir))

LEMMA SpotIs ==
  ASSUME NEW s, NEW i \in 1..Len(s), \A j, k \in 1..Len(s) : s[j] = s[k] => j = k
  PROVE  SpotOf(s[i], s) = i
BY DEF SpotOf

(* At a place of a list.                                                       *)
LEMMA AtPlace ==
  ASSUME CInv, NEW op \in {"link", "unlink"}, NEW d \in Entries, NEW t,
         NEW i \in 1..Len(List(d)), call = Loop(op, d, t, List(d)[i])
  PROVE  /\ call.op = op /\ call.dir = d /\ call.target = t /\ call.cur = List(d)[i]
         /\ TurnsLeft = Len(List(d)) + 1 - i /\ Len(List(d)) \in Nat /\ i \in Nat
         /\ next[List(d)[i]] = Nth(List(d), i + 1) /\ List(d)[i] # None
<1> DEFINE s == List(d)
<1>1. /\ Len(s) \in Nat /\ next[s[i]] = Nth(s, i + 1) /\ s[i] # None
      /\ \A j, k \in 1..Len(s) : s[j] = s[k] => j = k
  BY MappedFacts
<1>2. TurnsLeft = ChainLeft(call, List(call.dir))
  BY DEF TurnsLeft
<1> HIDE DEF s
<1>3. call.op = op /\ call.dir = d /\ call.target = t /\ call.cur = s[i]
  BY DEF Loop, s
<1>4. SpotOf(s[i], s) = i
  BY <1>1, SpotIs DEF s
<1>5. TurnsLeft = Len(s) + 1 - i
  BY <1>2, <1>3, <1>4 DEF ChainLeft, s
<1> QED
  BY <1>1, <1>3, <1>5 DEF s

LEMMA NoneLeft == ASSUME call = Idle PROVE TurnsLeft = 0
BY DEF TurnsLeft, ChainLeft, Idle

LEMMA NoneLeftThen == ASSUME call' = Idle PROVE TurnsLeft' = 0
BY DEF TurnsLeft, ChainLeft, Idle

LEMMA LeftIs ==
  ASSUME CInv PROVE TurnsLeft \in 0..N /\ (call # Idle => TurnsLeft > 0)
<1>1. CASE call = Idle
  BY <1>1, NoneLeft, ChainAssumption
<1>2. CASE Windowing
  <2>1. PICK d \in Entries, ids \in Seq(Entries) :
          /\ call = Loop("windows", d, None, ids) /\ ids # <<>>
          /\ \A i, j \in 1..Len(ids) : ids[i] = ids[j] => i = j
    BY <1>2 DEF Windowing
  <2>2. TurnsLeft = Len(ids)
    BY <2>1 DEF TurnsLeft, ChainLeft, Loop
  <2>3. Len(ids) \in Nat /\ Len(ids) > 0 /\ Len(ids) <= N
    BY <2>1, EmptySeq, NoLonger
  <2> QED
    BY <2>2, <2>3, ChainAssumption
<1>3. CASE Linking \/ Unlinking
  <2>1. linked \subseteq Entries /\ 1 \in Entries
    BY ChainAssumption DEF CInv, Hold, Entries
  <2>2. PICK op \in {"link", "unlink"}, d \in Entries :
          \E t : \E i \in 1..Len(List(d)) : call = Loop(op, d, t, List(d)[i])
    <3>1. CASE Linking
      <4> HIDE DEF List
      <4> QED  BY <2>1, <3>1 DEF Linking
    <3>2. CASE Unlinking
      <4>1. PICK d \in Entries : \E k \in 1..Len(List(d)) : \E i \in 1..(k - 1) :
              call = Loop("unlink", d, List(d)[k], List(d)[i])
        BY <3>2 DEF Unlinking
      <4>2. Len(List(d)) \in Nat
        BY MappedFacts
      <4> HIDE DEF List
      <4>3. PICK k \in 1..Len(List(d)) : \E i \in 1..(k - 1) :
              call = Loop("unlink", d, List(d)[k], List(d)[i])
        BY <4>1
      <4>4. PICK i \in 1..(k - 1) : call = Loop("unlink", d, List(d)[k], List(d)[i])
        BY <4>3
      <4>5. i \in 1..Len(List(d))
        BY <4>2
      <4> QED
        BY <4>4, <4>5
    <3> QED
      BY <1>3, <3>1, <3>2
  <2>3. PICK t, i : i \in 1..Len(List(d)) /\ call = Loop(op, d, t, List(d)[i])
    BY <2>2
  <2>4. /\ TurnsLeft = Len(List(d)) + 1 - i /\ Len(List(d)) \in Nat /\ i \in Nat
        /\ Len(List(d)) <= N
    BY <2>3, AtPlace, MappedFacts, NoLonger
  <2>5. PICK n \in Nat : n = Len(List(d))
    BY <2>4
  <2>6. i \in 1..n /\ TurnsLeft = n + 1 - i /\ n <= N
    BY <2>3, <2>4, <2>5
  <2> QED
    BY <2>6, ChainAssumption
<1> QED
  BY <1>1, <1>2, <1>3 DEF CInv

(* A turn along the chain that does not end the loop.                          *)
LEMMA AlongLess ==
  ASSUME CInv, NEW op \in {"link", "unlink"}, NEW d \in Entries, NEW t,
         NEW i \in 1..Len(List(d)), call = Loop(op, d, t, List(d)[i]),
         next[List(d)[i]] # None,
         call' = [call EXCEPT !.cur = next[List(d)[i]]], UNCHANGED <<sub, next, linked>>, CInv'
  PROVE  TurnsLeft' < TurnsLeft
<1> DEFINE s == List(d)
<1>1. /\ TurnsLeft = Len(s) + 1 - i /\ Len(s) \in Nat /\ i \in Nat
      /\ next[s[i]] = Nth(s, i + 1)
      /\ \A j, k \in 1..Len(s) : s[j] = s[k] => j = k
  BY AtPlace, MappedFacts
<1>2. List(d)' = s
  BY Unmoved
<1>3. /\ TurnsLeft' = ChainLeft(call', List(call.dir)') \/ call'.dir # call.dir
  BY DEF TurnsLeft, List
<1> HIDE DEF s
<1>4. i + 1 \in 1..Len(s) /\ next[s[i]] = s[i + 1]
  BY <1>1 DEF Nth, s
<1>5. call' = Loop(op, d, t, s[i + 1])
  BY <1>4 DEF Loop, s
<1>6. /\ call'.op = op /\ call'.dir = d /\ call'.cur = s[i + 1] /\ call.dir = d
  BY <1>5 DEF Loop
<1>7. TurnsLeft' = ChainLeft(call', s)
  BY <1>2, <1>3, <1>6
<1>8. SpotOf(s[i + 1], s) = i + 1
  <2>1. PICK k : k = i + 1
    OBVIOUS
  <2> QED
    BY <1>1, <1>4, <2>1, SpotIs
<1>9. TurnsLeft' = Len(s) + 1 - (i + 1)
  BY <1>6, <1>7, <1>8 DEF ChainLeft
<1>10. PICK n \in Nat : n = Len(s)
  BY <1>1
<1> QED
  BY <1>1, <1>9, <1>10

LEMMA TurnLess == ASSUME CInv, Turn PROVE TurnsLeft' < TurnsLeft
<1>1. TurnsLeft \in Nat /\ TurnsLeft > 0
  <2>1. call # Idle
    BY DEF Turn, LinkTurn, ImportTurn, UnlinkTurn, Idle
  <2> QED
    BY <2>1, LeftIs, ChainAssumption
<1>2. CInv'
  BY LinkTurns, ImportTurns, UnlinkTurns DEF Turn
<1>3. CASE call' = Idle
  BY <1>1, <1>3, NoneLeftThen
<1>4. CASE LinkTurn /\ call' # Idle
  <2>1. Linking /\ linked \subseteq Entries /\ 1 \in Entries
    BY <1>4, WhichLoop, ChainAssumption DEF LinkTurn, CInv, Hold, Entries
  <2>0. PICK d \in Entries : \E t : \E i \in 1..Len(List(d)) :
           call = Loop("link", d, t, List(d)[i])
    <3> HIDE DEF List
    <3> QED  BY <2>1 DEF Linking
  <2>2. PICK t : \E i \in 1..Len(List(d)) : call = Loop("link", d, t, List(d)[i])
    BY <2>0
  <2>3. PICK i \in 1..Len(List(d)) : call = Loop("link", d, t, List(d)[i])
    BY <2>2
  <2>4. call.cur = List(d)[i]
    BY <2>3, AtPlace
  <2> HIDE DEF List
  <2>5. /\ next[List(d)[i]] # None /\ UNCHANGED <<sub, next, linked>>
        /\ call' = [call EXCEPT !.cur = next[List(d)[i]]]
    BY <1>4, <2>4 DEF LinkTurn, IsTail, Advance
  <2> QED
    BY <1>2, <2>3, <2>5, AlongLess
<1>5. CASE UnlinkTurn /\ call' # Idle
  <2>1. Unlinking
    BY <1>5, WhichLoop DEF UnlinkTurn
  <2>2. PICK d \in Entries : \E k \in 1..Len(List(d)) : \E i \in 1..(k - 1) :
          call = Loop("unlink", d, List(d)[k], List(d)[i])
    BY <2>1 DEF Unlinking
  <2>3. /\ Len(List(d)) \in Nat
        /\ \A j \in 1..Len(List(d)) : List(d)[j] # None
    BY MappedFacts
  <2> HIDE DEF List
  <2>4. PICK k \in 1..Len(List(d)) : \E i \in 1..(k - 1) :
          call = Loop("unlink", d, List(d)[k], List(d)[i])
    BY <2>2
  <2>5. PICK i \in 1..(k - 1) : call = Loop("unlink", d, List(d)[k], List(d)[i])
    BY <2>4
  <2>6. i \in 1..Len(List(d)) /\ i + 1 \in 1..Len(List(d))
    BY <2>3
  <2>7. /\ call.cur = List(d)[i] /\ call.cur # None
        /\ next[List(d)[i]] = Nth(List(d), i + 1)
    BY <2>5, <2>6, AtPlace
  <2>8. next[List(d)[i]] # None
    BY <2>3, <2>6, <2>7 DEF Nth
  <2>9. /\ UNCHANGED <<sub, next, linked>> /\ call' = [call EXCEPT !.cur = next[List(d)[i]]]
    BY <1>5, <2>7 DEF UnlinkTurn, Advance
  <2> QED
    BY <1>2, <2>5, <2>6, <2>8, <2>9, AlongLess
<1>6. CASE ImportTurn /\ call' # Idle
  <2>1. Windowing
    BY <1>6, WhichLoop DEF ImportTurn
  <2>2. PICK d \in Entries, ids \in Seq(Entries) :
          call = Loop("windows", d, None, ids) /\ ids # <<>>
    BY <2>1 DEF Windowing
  <2>3. call.op = "windows" /\ call.cur = ids /\ call = [op |-> "windows", dir |-> d, target |-> None, cur |-> ids]
    BY <2>2 DEF Loop
  <2>4. call' = [call EXCEPT !.cur = Tail(ids)]
    BY <1>6, <2>3 DEF ImportTurn
  <2>5. call'.op = "windows" /\ call'.cur = Tail(ids)
    BY <2>3, <2>4
  <2>6. TurnsLeft = Len(ids) /\ TurnsLeft' = Len(Tail(ids))
    BY <2>3, <2>5 DEF TurnsLeft, ChainLeft
  <2>7. Len(Tail(ids)) = Len(ids) - 1 /\ Len(ids) \in Nat
    BY <2>2
  <2> QED
    BY <2>6, <2>7
<1> QED
  BY <1>3, <1>4, <1>5, <1>6 DEF Turn

(* No loop along a chain goes on for ever: link_child, parse_item and            *)
(* unlink_from_parent take at most as many turns as the arena has entries, each    *)
(* of which brings them nearer the end of the list they are on.  A `next' that    *)
(* led back, or a stale one, would keep them going round.                        *)
LoopsWindDown ==
  /\ TurnsLeft \in 0..N /\ (call # Idle => TurnsLeft > 0)
  /\ Turn => TurnsLeft' < TurnsLeft

THEOREM ChainLoopsEnd == CSpec => [][LoopsWindDown]_chain
<1>1. CInv /\ [CNext]_chain => CInv' /\ [LoopsWindDown]_chain
  BY ChainStep, LeftIs, TurnLess DEF LoopsWindDown
<1> QED
  BY Starts, <1>1, PTL DEF CSpec

----------------------------------------------------------------------------
(* Sizes are written in bytes and read back in blocks.                         *)
LEMMA Unscaled ==
  ASSUME NEW n \in Nat PROVE (n * Unit) \div Unit = n
<1>1. PICK u \in Nat \ {0} : u = Unit
  BY JsonAssumption
<1>2. (n * u) \div u = n
  OBVIOUS
<1> QED
  BY <1>1, <1>2

LEMMA Halved ==
  ASSUME NEW m \in Nat
  PROVE  m \div Unit \in 0..m /\ \A n \in Nat : m < n * Unit => m \div Unit < n
<1>1. PICK u \in Nat \ {0} : u = Unit
  BY JsonAssumption
<1>2. PICK q \in Nat : q = m \div u
  OBVIOUS
<1>3. q * u <= m
  BY <1>2
<1>4. ASSUME NEW n \in Nat, m < n * u PROVE q < n
  BY <1>3, <1>4
<1>5. q <= m
  BY <1>3
<1> QED
  BY <1>1, <1>2, <1>4, <1>5

----------------------------------------------------------------------------
(* A tree that was read or scanned: its entries one by one, ...                *)
Kinds == {"Dir"} \cup FileTypes \cup Markers
Places == Devs \cup {NoDev}

ReadType ==
  [etype : Kinds, blocks : 0..MaxU64, parent : Nat, dev : Nat, kids : Seq(Nat),
   items : Nat, err : BOOLEAN, suberr : BOOLEAN]

EntryOK(ns, devs, i) ==
  /\ IF ns[i].etype = "Dir" THEN ns[i].dev \in 1..Len(devs) ELSE ns[i].kids = <<>> /\ ~ns[i].err
  /\ \A k \in 1..Len(ns[i].kids) : ns[i].kids[k] \in (i + 1)..Len(ns)

WellFormed(ns, devs) ==
  /\ ns \in Seq(ReadType) /\ devs \in Seq(Places)
  /\ \A i \in 1..Len(ns) : EntryOK(ns, devs, i)

(* ... and where its lists end: the list ks of d holds the entries after d up to  *)
(* x, each with what is below it, up to e, and each with d as its parent.       *)
Past(e, ks, d, j) == IF j = 0 THEN d ELSE e[ks[j]]

KidsSpan(ns, e, d, ks, x) ==
  /\ \A k \in 1..Len(ks) :
       /\ ks[k] \in (d + 1)..x /\ e[ks[k]] \in ks[k]..x
       /\ ks[k] = Past(e, ks, d, k - 1) + 1
       /\ ns[ks[k]].parent = ParentField(ns[ks[k]].etype, d)
  /\ Past(e, ks, d, Len(ks)) = x

TreeOK(ns, devs, e) ==
  /\ WellFormed(ns, devs) /\ ns # <<>>
  /\ ns[1].etype = "Dir" /\ ns[1].parent = NoEntry /\ e[1] = Len(ns)
  /\ \A i \in 1..Len(ns) : e[i] \in i..Len(ns) /\ KidsSpan(ns, e, i, ns[i].kids, e[i])

LEMMA DeviceOf ==
  ASSUME NEW devs \in Seq(Places), NEW n
  PROVE  /\ DevOf(devs, n) \in Outers
         /\ n.dev \in 1..Len(devs) => DevOf(devs, n) = devs[n.dev] /\ DevOf(devs, n) \in Places
<1>1. n.dev \in 1..Len(devs) => devs[n.dev] \in Places
  BY ElementOfSeq
<1> QED
  BY <1>1 DEF DevOf, Outers, Places

----------------------------------------------------------------------------
(* The recursion of write_dir has a solution, since lists only hold later entries. *)
ItemsOf(f, ns, devs) ==
  \A i \in 1..Len(ns) : \A o \in Outers : f[i][o] = Written(f, ns, devs, i, o)

LEMMA WrittenLocal ==
  ASSUME NEW ns, NEW devs, WellFormed(ns, devs), NEW i \in 1..Len(ns), NEW o,
         NEW f, NEW g, \A j \in (i + 1)..Len(ns) : f[j] = g[j]
  PROVE  Written(f, ns, devs, i, o) = Written(g, ns, devs, i, o)
<1>1. \A k \in 1..Len(ns[i].kids) : f[ns[i].kids[k]] = g[ns[i].kids[k]]
  BY DEF WellFormed, EntryOK
<1> QED
  BY <1>1 DEF Written

LEMMA ItemExists ==
  ASSUME NEW ns, NEW devs, WellFormed(ns, devs)
  PROVE  \E f : f = [i \in 1..Len(ns) |-> [o \in Outers |-> Written(f, ns, devs, i, o)]]
<1> DEFINE n == Len(ns)
           W(f, i) == [o \in Outers |-> Written(f, ns, devs, i, o)]
           Solves(f, k) == f = [i \in (n + 1 - k)..n |-> W(f, i)]
           Solvable == {k \in Nat : k <= n => \E f : Solves(f, k)}
<1>1. n \in Nat
  BY DEF WellFormed
<1>2. ASSUME NEW i \in 1..n, NEW f, NEW g, \A j \in (i + 1)..n : f[j] = g[j]
      PROVE  W(f, i) = W(g, i)
  BY <1>2, WrittenLocal
<1> HIDE DEF W
<1>3. 0 \in Solvable
  <2>1. (n + 1 - 0)..n = {}
    BY <1>1
  <2>2. Solves([i \in (n + 1 - 0)..n |-> W(<<>>, i)], 0)
    BY <2>1
  <2> QED
    BY <2>2
<1>4. ASSUME NEW k \in Nat, k \in Solvable PROVE k + 1 \in Solvable
  <2>1. SUFFICES ASSUME k + 1 <= n PROVE \E g : Solves(g, k + 1)
    OBVIOUS
  <2>2. PICK f : Solves(f, k)
    BY <1>1, <1>4, <2>1
  <2>3. PICK m \in 1..n : m = n - k /\ m = n + 1 - (k + 1) /\ m + 1 = n + 1 - k
    BY <1>1, <2>1
  <2>4. \A i \in (m + 1)..n : f[i] = W(f, i)
    BY <2>2, <2>3
  <2> DEFINE g == [i \in m..n |-> IF i = m THEN W(f, m) ELSE f[i]]
  <2>5. g[m] = W(f, m) /\ \A i \in (m + 1)..n : g[i] = f[i]
    BY <1>1, <2>3
  <2>6. g = [i \in m..n |-> g[i]]
    OBVIOUS
  <2> HIDE DEF g, Solves
  <2>7. ASSUME NEW i \in m..n PROVE g[i] = W(g, i)
    <3>1. i \in 1..n /\ (i = m \/ i \in (m + 1)..n)
      BY <1>1, <2>3
    <3>2. \A j \in (i + 1)..n : f[j] = g[j]
      <4>1. \A j \in (i + 1)..n : j \in (m + 1)..n
        BY <1>1, <2>3
      <4> QED
        BY <2>5, <4>1
    <3>3. W(f, i) = W(g, i)
      BY <1>2, <3>1, <3>2
    <3> QED
      BY <2>4, <2>5, <3>1, <3>3
  <2>8. Solves(g, k + 1)
    BY <2>3, <2>6, <2>7 DEF Solves
  <2> QED
    BY <2>8
<1>5. n \in Solvable
  <2> HIDE DEF Solvable
  <2> QED  BY <1>1, <1>3, <1>4, SetInduction
<1>6. PICK f : Solves(f, n)
  BY <1>1, <1>5
<1>7. n + 1 - n = 1
  BY <1>1
<1> QED
  BY <1>6, <1>7 DEF W

(* Item is a solution of it, at the root.                                       *)
LEMMA ItemUnfolds ==
  ASSUME NEW ns, NEW devs, WellFormed(ns, devs), ns # <<>>
  PROVE  \E f : ItemsOf(f, ns, devs) /\ Item(ns, devs) = f[1][NoDev]
<1> DEFINE Solution(f) ==
             f = [i \in 1..Len(ns) |-> [o \in Outers |-> Written(f, ns, devs, i, o)]]
           item == CHOOSE f : Solution(f)
<1>0. \E f : Solution(f)
  BY ItemExists
<1>1. Solution(item)
  <2> HIDE DEF Solution
  <2> QED  BY <1>0
<1>2. Item(ns, devs) = item[1][NoDev]
  BY DEF Item
<1> HIDE DEF item
<1>3. ItemsOf(item, ns, devs)
  BY <1>1 DEF ItemsOf
<1> QED
  BY <1>2, <1>3

----------------------------------------------------------------------------
(* What a reader finds in the items of a tree.                                 *)
ItemOK(v, V) ==
  /\ v.obj.dsize \in Optional(0..MaxU64) /\ v.obj.dev \in Optional(Places)
  /\ v.obj.read_error \in BOOLEAN /\ v.rest \in Seq(V)

Sound(V) == \A v \in V : ItemOK(v, V)

LEMMA OrType ==
  ASSUME NEW S, NEW f \in Optional(S), NEW x \in S PROVE Or(f, x) \in S
BY DEF Or, Optional, Absent

(* The items other programs' dumps are built of are such a set.                   *)
Parts == UNION {Nested[k] : k \in 1..Len(Nested)}

LEMMA SoundParts == Sound(Parts)
<1> SUFFICES ASSUME NEW k \in 1..Len(Nested), NEW v \in Nested[k] PROVE ItemOK(v, Parts)
  BY DEF Sound, Parts
<1>1. v.rest \in Seq(IF k = 1 THEN {} ELSE Nested[k - 1])
  BY JsonAssumption
<1>2. (IF k = 1 THEN {} ELSE Nested[k - 1]) \subseteq Parts
  <2>1. k # 1 => k - 1 \in 1..Len(Nested)
    BY JsonAssumption
  <2> QED
    BY <2>1 DEF Parts
<1>3. v.rest \in Seq(Parts)
  BY <1>1, <1>2
<1> QED
  BY <1>3, JsonAssumption DEF ItemOK, Places

LEMMA BytesType == ASSUME NEW n \in Nat PROVE Bytes(n) \in 0..MaxU64
<1>1. n * Unit \in Nat
  BY JsonAssumption
<1> QED
  BY <1>1, SinkAssumption DEF Bytes

LEMMA ItemFields ==
  ASSUME NEW ns, NEW devs, WellFormed(ns, devs), NEW F, ItemsOf(F, ns, devs),
         NEW i \in 1..Len(ns), NEW o \in Outers
  PROVE  LET v == F[i][o]
             n == ns[i]
         IN  /\ v.kind = IF n.etype = "Dir" THEN "dir" ELSE "entry"
             /\ v.obj = Fields(devs, n, o)
             /\ v.rest = [k \in 1..Len(n.kids) |-> F[n.kids[k]][DevOf(devs, n)]]
<1>1. F[i][o] = Written(F, ns, devs, i, o)
  BY DEF ItemsOf
<1> QED
  BY <1>1 DEF Written

LEMMA NodeIs ==
  ASSUME NEW ns, NEW devs, WellFormed(ns, devs), NEW i \in 1..Len(ns)
  PROVE  /\ ns[i] \in ReadType /\ EntryOK(ns, devs, i) /\ Len(ns) \in Nat
         /\ ns[i].kids \in Seq(Nat) /\ Len(ns[i].kids) \in Nat
         /\ \A k \in 1..Len(ns[i].kids) : ns[i].kids[k] \in 1..Len(ns)
<1>1. ns[i] \in ReadType /\ EntryOK(ns, devs, i) /\ Len(ns) \in Nat
  BY ElementOfSeq, LenProperties DEF WellFormed
<1>2. ns[i].kids \in Seq(Nat)
  BY <1>1 DEF ReadType
<1>3. Len(ns[i].kids) \in Nat
  BY <1>2, LenProperties
<1> QED
  BY <1>1, <1>2, <1>3 DEF EntryOK

(* The size that comes back: the same, or smaller when the bytes saturate.      *)
BlocksBack(n, b) ==
  /\ n.etype \in Markers => b = 0
  /\ n.etype \notin Markers => IF Fits(n) THEN b = n.blocks ELSE b < n.blocks

(* What becomes of the blocks of an entry, through bytes and back.               *)
LEMMA SizeBack ==
  ASSUME NEW n, n.blocks \in Nat, NEW devs, NEW o
  PROVE  /\ Fields(devs, n, o).dsize \in Optional(0..MaxU64)
         /\ BlocksBack(n, Or(Fields(devs, n, o).dsize, 0) \div Unit)
<1> DEFINE b == n.blocks
           d == Fields(devs, n, o).dsize
<1>1. PICK u \in Nat : u = Unit /\ u > 0
  BY JsonAssumption
<1>2. 0 \div Unit = 0
  BY <1>1
<1>3. CASE n.etype \in Markers
  <2>1. d = <<>>
    BY <1>3 DEF Fields, Absent
  <2>2. Or(d, 0) = 0 /\ d \in Optional(0..MaxU64)
    BY <2>1 DEF Or, Absent, Optional
  <2> QED
    BY <1>2, <1>3, <2>2 DEF BlocksBack
<1>4. CASE n.etype \notin Markers
  <2>1. d = Field(Bytes(b)) /\ Bytes(b) \in 0..MaxU64 /\ b * Unit \in Nat
    BY <1>1, <1>4, BytesType DEF Fields
  <2>2. Or(d, 0) = Bytes(b) /\ d \in Optional(0..MaxU64)
    <3>1. CASE Bytes(b) > 0
      BY <2>1, <3>1 DEF Field, Or, Absent, Optional
    <3>2. CASE Bytes(b) = 0
      BY <2>1, <3>2 DEF Field, Or, Absent, Optional
    <3> QED
      BY <2>1, <3>1, <3>2
  <2>3. CASE Fits(n)
    <3>1. Bytes(b) = b * Unit
      BY <2>1, <2>3, SinkAssumption DEF Bytes, Fits
    <3>2. (b * Unit) \div Unit = b
      BY Unscaled
    <3> QED
      BY <1>4, <2>2, <2>3, <3>1, <3>2 DEF BlocksBack
  <2>4. CASE ~Fits(n)
    <3>1. Bytes(b) = MaxU64 /\ MaxU64 < b * Unit
      BY <2>1, <2>4, SinkAssumption DEF Bytes, Fits
    <3>2. MaxU64 \div Unit < b
      BY <3>1, Halved, SinkAssumption
    <3> QED
      BY <1>4, <2>2, <2>4, <3>1, <3>2 DEF BlocksBack
  <2> QED
    BY <2>3, <2>4
<1> QED
  BY <1>3, <1>4

(* The tests of parse_item find the type that write_entry_object wrote.          *)
LEMMA TypeBack ==
  ASSUME NEW n \in ReadType, n.etype # "Dir" => ~n.err, NEW devs, NEW o, NEW v,
         v.kind = IF n.etype = "Dir" THEN "dir" ELSE "entry", v.obj = Fields(devs, n, o)
  PROVE  /\ EType(v) = n.etype
         /\ v.obj.read_error = (n.etype = "Err" \/ n.err)
         /\ v.obj.read_error \in BOOLEAN
         /\ n.etype = "Dir" => Dev(v, o) = DevOf(devs, n)
<1>1. /\ v.obj.hlnkc = (n.etype = "Link") /\ v.obj.notreg = (n.etype = "NonReg")
      /\ v.obj.read_error = (n.etype = "Err" \/ n.err)
      /\ v.obj.excluded = IF n.etype \in DOMAIN Tags THEN <<Tags[n.etype]>> ELSE Absent
      /\ v.obj.dev = IF n.etype = "Dir" /\ DevOf(devs, n) # o THEN <<DevOf(devs, n)>>
                                                            ELSE Absent
  BY DEF Fields
<1>2. /\ DOMAIN Tags = {"Pattern", "OtherFs", "KernFs"}
      /\ Tags["Pattern"] = "pattern" /\ Tags["OtherFs"] = "otherfs"
      /\ Tags["KernFs"] = "kernfs"
  BY DEF Tags
<1>3. n.etype \in {"Dir", "Reg", "NonReg", "Link", "Err", "Pattern", "OtherFs", "KernFs"}
      /\ n.err \in BOOLEAN
  BY DEF ReadType, Kinds, FileTypes, Markers, Specials
<1>4. EType(v) = n.etype
  <2>1. CASE n.etype = "Dir"
    BY <2>1 DEF EType
  <2>2. CASE n.etype \in {"Pattern", "OtherFs", "KernFs"}
    <3>1. v.obj.excluded = <<Tags[n.etype]>> /\ v.kind = "entry"
      BY <1>1, <1>2, <2>2
    <3>2. v.obj.excluded # Absent /\ v.obj.excluded[1] = Tags[n.etype] /\ v.kind # "dir"
      BY <3>1 DEF Absent
    <3> QED
      BY <1>2, <2>2, <3>2 DEF EType, OfTag
  <2>3. CASE n.etype \in {"Reg", "NonReg", "Link", "Err"}
    <3>1. v.obj.excluded = Absent /\ v.kind # "dir"
      BY <1>1, <1>2, <2>3
    <3> QED
      BY <1>1, <2>3, <3>1 DEF EType
  <2> QED
    BY <1>3, <2>1, <2>2, <2>3
<1>5. n.etype = "Dir" => Dev(v, o) = DevOf(devs, n)
  BY <1>1 DEF Dev, Or, Absent
<1> QED
  BY <1>1, <1>3, <1>4, <1>5

(* The items of a tree make a dump like any other.                             *)
LEMMA SoundItems ==
  ASSUME NEW ns, NEW devs, WellFormed(ns, devs), NEW F, ItemsOf(F, ns, devs)
  PROVE  Sound({F[i][o] : i \in 1..Len(ns), o \in Outers})
<1> DEFINE V == {F[i][o] : i \in 1..Len(ns), o \in Outers}
<1>1. ASSUME NEW i \in 1..Len(ns), NEW o \in Outers
      PROVE  ItemOK(F[i][o], V)
  <2> DEFINE v == F[i][o]
             n == ns[i]
  <2>1. /\ v.kind = IF n.etype = "Dir" THEN "dir" ELSE "entry"
        /\ v.obj = Fields(devs, n, o)
        /\ v.rest = [k \in 1..Len(n.kids) |-> F[n.kids[k]][DevOf(devs, n)]]
    BY ItemFields
  <2>2. /\ n \in ReadType /\ EntryOK(ns, devs, i) /\ Len(n.kids) \in Nat
        /\ \A k \in 1..Len(n.kids) : n.kids[k] \in 1..Len(ns)
    BY NodeIs
  <2>3. /\ DevOf(devs, n) \in Outers
        /\ n.dev \in 1..Len(devs) => DevOf(devs, n) \in Places
    BY DeviceOf DEF WellFormed
  <2>4. n.blocks \in Nat /\ (n.etype # "Dir" => ~n.err)
    BY <2>2, SinkAssumption DEF ReadType, EntryOK
  <2>5. v.obj.dsize \in Optional(0..MaxU64) /\ v.obj.read_error \in BOOLEAN
    <3> HIDE DEF v, n
    <3>1. Fields(devs, n, o).dsize \in Optional(0..MaxU64)
      BY <2>4, SizeBack
    <3>2. v.obj.read_error \in BOOLEAN
      BY <2>1, <2>2, <2>4, TypeBack
    <3> QED
      BY <2>1, <3>1, <3>2
  <2>6. v.obj.dev \in Optional(Places)
    <3>1. v.obj.dev = IF n.etype = "Dir" /\ DevOf(devs, n) # o THEN <<DevOf(devs, n)>>
                                                              ELSE Absent
      BY <2>1 DEF Fields
    <3>2. n.etype = "Dir" => n.dev \in 1..Len(devs)
      <4>1. Len(devs) \in Nat
        BY LenProperties DEF WellFormed
      <4> QED
        BY <2>2, <4>1 DEF EntryOK
    <3> QED
      BY <2>3, <3>1, <3>2 DEF Optional, Absent
  <2>7. v.rest \in Seq(V)
    <3>1. \A k \in 1..Len(n.kids) : F[n.kids[k]][DevOf(devs, n)] \in V
      BY <2>2, <2>3
    <3> HIDE DEF V
    <3> QED
      BY <2>1, <2>2, <3>1, IsASeq
  <2> QED
    BY <2>5, <2>6, <2>7 DEF ItemOK
<1>2. \A v \in V : \E i \in 1..Len(ns), o \in Outers : v = F[i][o]
  OBVIOUS
<1> HIDE DEF V
<1>3. \A v \in V : ItemOK(v, V)
  BY <1>1, <1>2
<1> QED
  BY <1>3 DEF Sound, V

----------------------------------------------------------------------------
(* The tree of a finished scan is one that can be exported.                    *)
Rooted ==
  /\ nodes # <<>> => nodes[1].etype = "Dir" /\ nodes[1].parent = NoEntry
  /\ open # <<>> => open[1].id = 1
  /\ nodes # <<>> /\ open = <<>> => End(nodes, 1) = Len(nodes)

ScanInv ==
  /\ IInv /\ Leafless /\ DevicesInjective /\ KidsLinked
  /\ Rooted

LEMMA RootedStep == IInv /\ Rooted /\ [Next]_vars => Rooted'
<1> SUFFICES ASSUME IInv, Rooted, Next, ~UNCHANGED vars PROVE Rooted'
  BY DEF Rooted, vars
<1>0. /\ TypeOK /\ Depth \in Nat /\ Depth = Len(open) /\ Len(nodes) \in Nat
      /\ nodes \in Seq(NodeType) /\ Ids = 1..Len(nodes) /\ open \in Seq(HandleType)
      /\ Len(nodes) <= MaxU32
  BY StateFacts DEF IInv, TypeOK
<1>1. CASE nodes = <<>>
  <2>1. PICK b \in Blocks, v \in Devs : CreateRoot(b, v)
    BY <1>0, <1>1, FirstStep
  <2>2. /\ nodes'[1] = Node("Dir", b, NoEntry, DevId(v))
        /\ Len(open') = 1 /\ open'[1] = Handle(1)
    BY <1>0, <2>1, CreateRootEffect
  <2>3. nodes'[1].etype = "Dir" /\ nodes'[1].parent = NoEntry /\ open'[1].id = 1
    BY <2>2 DEF Node, Handle
  <2>4. open' # <<>>
    BY <2>2
  <2> QED
    BY <2>3, <2>4 DEF Rooted
<1>2. CASE nodes # <<>>
  <2>1. 1 \in Ids
    BY <1>0, <1>2
  <2>2. nodes'[1].etype = nodes[1].etype /\ nodes'[1].parent = nodes[1].parent
    <3>1. NoneMore \/ \E e, v : OneMore(e, v)
      BY <1>0, <1>2, Steps
    <3> QED
      BY <2>1, <3>1 DEF NoneMore, OneMore, SameEntry
  <2>3. ASSUME NEW k, PutsEntry(k) PROVE open' # <<>> /\ open'[1].id = 1
    <3>1. Depth > 0 /\ Len(open') >= Depth /\ open'[1].id = open[1].id
      BY <1>0, <2>3 DEF PutsEntry
    <3> QED
      BY <1>0, <3>1 DEF Rooted
  <2>4. \/ open' # <<>> /\ open'[1].id = 1
        \/ open' = <<>> /\ End(nodes', 1) = Len(nodes')
    <3>1. CASE SetReadError
      BY <1>0, <3>1 DEF SetReadError, Rooted
    <3>2. ASSUME NEW sp \in Specials, AddSpecial(sp) PROVE open' # <<>> /\ open'[1].id = 1
      BY <1>0, <2>3, <3>2, AddsPut
    <3>3. ASSUME NEW t \in FileTypes, NEW b \in Blocks, AddStat(t, b)
          PROVE  open' # <<>> /\ open'[1].id = 1
      BY <1>0, <2>3, <3>3, AddsPut
    <3>4. ASSUME NEW b \in Blocks, NEW v \in Devs, AddDir(b, v)
          PROVE  open' # <<>> /\ open'[1].id = 1
      BY <1>0, <2>3, <3>4, AddsPut
    <3>5. CASE FinalizeSub
      <4>1. Depth > 1 /\ Len(open') = Depth - 1 /\ open'[1].id = open[1].id
        BY <1>0, <3>5, Closes DEF FinalizeSub
      <4> QED
        BY <1>0, <4>1 DEF Rooted
    <3>6. CASE FinalizeRoot
      <4>0. Depth = 1 /\ open' = <<>>
        BY <3>6 DEF FinalizeRoot
      <4>a. open = <<>> => Len(open) = 0
        OBVIOUS
      <4>1. Depth = 1 /\ open' = <<>> /\ open # <<>>
        BY <4>0, <4>a DEF Depth
      <4>2. Top.id = 1
        BY <4>1 DEF Top, Rooted
      <4>3. /\ Len(nodes') = Len(nodes) /\ nodes'[1] = Flushed(nodes[1], Top)
        BY <1>0, <2>1, <3>6, <4>2, FinalizeRootEffect
      <4>4. nodes[1].items = 0 /\ Top.sub_items = Len(nodes) - 1
        BY <1>0, <4>1, <4>2, StateFacts DEF HandleOK
      <4>5. nodes[1] \in NodeType
        BY <1>0, <2>1, ElementOfSeq
      <4>6. Flushed(nodes[1], Top).items = SatItems(nodes[1].items + Top.sub_items)
        BY <4>5 DEF Flushed, NodeType
      <4>7. SatItems(0 + (Len(nodes) - 1)) = Len(nodes) - 1
        BY <1>0, <2>1, SinkAssumption DEF SatItems
      <4>8. End(nodes', 1) = Len(nodes')
        BY <1>0, <4>3, <4>4, <4>6, <4>7 DEF End
      <4> QED
        BY <4>1, <4>8
    <3>7. CASE UNCHANGED vars
      BY <3>7
    <3> DEFINE Still == open' # <<>> /\ open'[1].id = 1
               Spanned == open' = <<>> /\ End(nodes', 1) = Len(nodes')
    <3>8. SUFFICES Still \/ Spanned
      OBVIOUS
    <3> HIDE DEF Still, Spanned
    <3>9. \/ SetReadError \/ FinalizeSub \/ FinalizeRoot \/ UNCHANGED vars
          \/ \E sp \in Specials : AddSpecial(sp)
          \/ \E t \in FileTypes, b \in Blocks : AddStat(t, b)
          \/ \E b \in Blocks, v \in Devs : AddDir(b, v)
      BY <1>2 DEF Next, CreateRoot
    <3> QED
      BY <3>1, <3>2, <3>3, <3>4, <3>5, <3>6, <3>7, <3>9 DEF Still, Spanned
  <2> QED
    BY <1>2, <2>2, <2>4 DEF Rooted
<1> QED
  BY <1>1, <1>2

LEMMA ScanInvInit == Init => ScanInv
<1>1. Init => Rooted
  BY DEF Init, Rooted
<1> QED
  BY <1>1, IInvInit, LeaflessInit, DevicesInit, KidsLinkedInit DEF ScanInv

LEMMA ScanInvStep == ScanInv /\ [Next]_vars => ScanInv'
<1>1. IInv => TypeOK
  BY DEF IInv
<1> QED
  BY <1>1, IInvStep, LeaflessStep, DevicesStep, KidsLinkedStep, RootedStep DEF ScanInv

(* The ranges of a finished scan are the spans of its lists.                     *)
LEMMA ScannedTree ==
  ASSUME ScanInv, Finished
  PROVE  TreeOK(nodes, devices, [i \in 1..Len(nodes) |-> End(nodes, i)])
<1> DEFINE e == [i \in 1..Len(nodes) |-> End(nodes, i)]
<1>1. /\ IInv /\ Leafless /\ DevicesInjective /\ KidsLinked /\ Rooted
      /\ nodes # <<>> /\ open = <<>> /\ TypeOK
      /\ Ids = 1..Len(nodes) /\ Len(nodes) \in Nat /\ nodes \in Seq(NodeType)
  BY StateFacts DEF ScanInv, Finished, IInv
<1>2. WellFormed(nodes, devices)
  <2>1. NodeType \subseteq ReadType
    BY SinkAssumption DEF NodeType, ReadType, Kinds, Markers
  <2>2. nodes \in Seq(ReadType) /\ devices \in Seq(Places)
    <3>1. Devs \subseteq Places
      BY DEF Places
    <3> QED
      BY <1>1, <2>1, <3>1, SeqMonotonic DEF TypeOK
  <2>3. ASSUME NEW i \in 1..Len(nodes) PROVE EntryOK(nodes, devices, i)
    <3>1. \A k \in 1..Len(nodes[i].kids) : nodes[i].kids[k] \in (i + 1)..Len(nodes)
      BY <1>1, KidsComeLater
    <3>2. CASE IsDir(i)
      <4>1. nodes[i].dev \in 1..Len(devices)
        BY <1>1, <3>2 DEF DevicesInjective
      <4> QED
        BY <3>1, <3>2, <4>1 DEF EntryOK, IsDir
    <3>3. CASE ~IsDir(i)
      BY <1>1, <3>1, <3>3 DEF EntryOK, IsDir, Leafless
    <3> QED
      BY <3>2, <3>3
  <2> QED
    BY <2>2, <2>3 DEF WellFormed
<1>3. 1 \in 1..Len(nodes) /\ nodes[1].etype = "Dir" /\ nodes[1].parent = NoEntry /\ e[1] = Len(nodes)
  BY <1>1 DEF Rooted
<1>4. ASSUME NEW i \in 1..Len(nodes)
      PROVE  e[i] \in i..Len(nodes) /\ KidsSpan(nodes, e, i, nodes[i].kids, e[i])
  <2> DEFINE ks == nodes[i].kids
             x == End(nodes, i)
  <2>1. /\ ks \in Seq(Nat) /\ Len(ks) \in Nat
        /\ \A k \in 1..Len(ks) : ks[k] \in (i + 1)..Len(nodes)
    BY <1>1, KidsComeLater, LenProperties
  <2>2. \A k \in 1..Len(ks) : nodes[ks[k]].parent = ParentField(nodes[ks[k]].etype, i)
    BY <1>1 DEF KidsLinked
  <2>3. \A k \in 1..Len(ks) : e[ks[k]] = End(nodes, ks[k])
    BY <2>1
  <2>4. CASE IsDir(i)
    <3>1. x \in i..Len(nodes) /\ Tiles(nodes, i, ks, x)
      <4>1. OpenIds = {}
        BY <1>1 DEF OpenIds, Depth
      <4> QED
        BY <1>1, <2>4, <4>1 DEF IInv, ClosedOK, Closed, DirOK
    <3>2. \A k \in 1..Len(ks) : /\ ks[k] \in (i + 1)..x /\ e[ks[k]] \in ks[k]..x
      <4>1. \A k \in 1..Len(ks) : ks[k] \in Ids
        BY <1>1, <2>1
      <4>2. \A k \in 1..Len(ks) : nodes[ks[k]].items \in Nat
        BY <1>1, <4>1, KidsComeLater
      <4>3. \A k \in 1..Len(ks) : ks[k] \in (i + 1)..x /\ End(nodes, ks[k]) <= x
        BY <3>1 DEF Tiles
      <4>4. x \in Nat
        BY <3>1
      <4>5. \A k \in 1..Len(ks) : End(nodes, ks[k]) \in ks[k]..x
        <5> HIDE DEF x, ks
        <5> QED  BY <4>2, <4>3, <4>4 DEF End
      <4> QED
        BY <2>3, <4>3, <4>5
    <3>3. ASSUME NEW k \in 1..Len(ks) PROVE ks[k] = Past(e, ks, i, k - 1) + 1
      <4>1. CASE k = 1
        <5>1. ks # <<>>
          BY <2>1, <4>1
        <5>2. ks[1] = i + 1
          BY <3>1, <5>1 DEF Tiles, Fills
        <5> QED
          BY <4>1, <5>2 DEF Past
      <4>2. CASE k # 1
        <5>1. k - 1 \in 1..(Len(ks) - 1) /\ k - 1 \in 1..Len(ks) /\ k - 1 # 0
              /\ (k - 1) + 1 = k /\ ks # <<>>
          BY <2>1, <3>3, <4>2
        <5>2. ks[(k - 1) + 1] = End(nodes, ks[k - 1]) + 1
          BY <3>1, <5>1 DEF Tiles, Fills
        <5> QED
          BY <2>3, <5>1, <5>2 DEF Past
      <4> QED
        BY <4>1, <4>2
    <3>4. Past(e, ks, i, Len(ks)) = x
      <4>1. CASE ks = <<>>
        BY <3>1, <4>1 DEF Tiles, Fills, Past
      <4>2. CASE ks # <<>>
        <5>1. Len(ks) \in 1..Len(ks) /\ Len(ks) # 0
          BY <2>1, <4>2
        <5>2. End(nodes, ks[Len(ks)]) = x
          BY <3>1, <4>2 DEF Tiles, Fills
        <5> QED
          BY <2>3, <5>1, <5>2 DEF Past
      <4> QED
        BY <4>1, <4>2
    <3>5. e[i] = x
      OBVIOUS
    <3> HIDE DEF e, x, ks
    <3>6. KidsSpan(nodes, e, i, ks, x)
      BY <2>2, <3>2, <3>3, <3>4 DEF KidsSpan
    <3> QED
      BY <3>1, <3>5, <3>6 DEF ks
  <2>5. CASE ~IsDir(i)
    <3>1. nodes[i].kids = <<>> /\ nodes[i].items = 0
      BY <1>1, <2>5 DEF Leafless
    <3>2. e[i] = i
      BY <3>1 DEF End
    <3> HIDE DEF e
    <3>3. KidsSpan(nodes, e, i, <<>>, i)
      BY DEF KidsSpan, Past
    <3> QED
      BY <1>1, <3>1, <3>2, <3>3
  <2> QED
    BY <2>4, <2>5
<1> HIDE DEF e
<1> QED
  BY <1>1, <1>2, <1>3, <1>4 DEF TreeOK, e

----------------------------------------------------------------------------
(* The import.  What its calls are, ...                                        *)
CallType(V) == [id : Nat, dev : Places, rest : Seq(V), child_ids : Seq(Nat)]

OpenAt(cs) == {cs[l].id : l \in 1..Len(cs)}
ReachOf(im, cs, l) == IF l = Len(cs) THEN Len(im) ELSE cs[l + 1].id - 1

(* ... and what is true of them and of the arena between any two of its steps:   *)
(* the list of an open call, like that of an entry which is done, holds what     *)
(* was read from its entry on.                                                 *)
CallOK(im, cs, e, l) ==
  /\ cs[l].id \in 1..Len(im) /\ im[cs[l].id].etype = "Dir" /\ im[cs[l].id].kids = <<>>
  /\ KidsSpan(im, e, cs[l].id, cs[l].child_ids, ReachOf(im, cs, l))
  /\ \A k \in 1..Len(cs[l].child_ids) : cs[l].child_ids[k] \notin OpenAt(cs)
  /\ \A m \in 1..Len(cs) : l < m => cs[l].id < cs[m].id

DoneOK(im, cs, e, i) ==
  /\ e[i] \in i..Len(im) /\ KidsSpan(im, e, i, im[i].kids, e[i])
  /\ \A k \in 1..Len(im[i].kids) : im[i].kids[k] \notin OpenAt(cs)

ImportOK(im, dv, cs, V, e) ==
  /\ WellFormed(im, dv) /\ cs \in Seq(CallType(V))
  /\ \A i \in 1..Len(im) : im[i].dev <= Len(dv)
  /\ \A l \in 1..Len(cs) : CallOK(im, cs, e, l)
  /\ \A i \in 1..Len(im) : i \notin OpenAt(cs) => DoneOK(im, cs, e, i)
  /\ im # <<>> => im[1].parent = NoEntry
  /\ cs # <<>> => cs[1].id = 1
  /\ im # <<>> /\ cs = <<>> => e[1] = Len(im)

LEMMA NothingImported ==
  ASSUME NEW dv \in Seq(Places), NEW V, NEW e PROVE ImportOK(<<>>, dv, <<>>, V, e)
BY DEF ImportOK, WellFormed, OpenAt

LEMMA ImportFacts ==
  ASSUME NEW im, NEW dv, NEW cs, NEW V, NEW e, ImportOK(im, dv, cs, V, e)
  PROVE  /\ im \in Seq(ReadType) /\ dv \in Seq(Places) /\ cs \in Seq(CallType(V))
         /\ Len(im) \in Nat /\ Len(dv) \in Nat /\ Len(cs) \in Nat
         /\ \A i \in 1..Len(im) : im[i] \in ReadType
         /\ \A l \in 1..Len(cs) : cs[l] \in CallType(V) /\ CallOK(im, cs, e, l)
BY ElementOfSeq, LenProperties DEF ImportOK, WellFormed

(* What parse_item makes of an item up to its children, in the words above.       *)
MadeNode(n, v, outer, p, dv) ==
  /\ n \in ReadType /\ n.etype = EType(v) /\ n.kids = <<>>
  /\ n.blocks = Or(v.obj.dsize, 0) \div Unit
  /\ n.dev <= Len(dv) /\ n.parent = IF v.kind = "dir" THEN NoEntry ELSE p
  /\ IF v.kind = "dir"
     THEN n.err = v.obj.read_error /\ n.dev \in 1..Len(dv) /\ dv[n.dev] = Dev(v, outer)
     ELSE n.err = FALSE

ParentAt(cs, t) == IF cs = <<>> THEN NoEntry ELSE ParentField(t, cs[Len(cs)].id)

Made(im, dv, cs, v, outer, V, im2, dv2, cs2) ==
  LET c == Len(im) + 1
      up == Len(cs)
  IN  /\ dv2 \in Seq(Places) /\ Len(dv) <= Len(dv2)
      /\ \A i \in 1..Len(dv) : dv2[i] = dv[i]
      /\ im2 \in Seq(ReadType) /\ Len(im2) = c
      /\ \A i \in 1..Len(im) : im2[i] = im[i]
      /\ MadeNode(im2[c], v, outer, ParentAt(cs, EType(v)), dv2)
      /\ cs2 \in Seq(CallType(V)) /\ Len(cs2) = IF v.kind = "dir" THEN up + 1 ELSE up
      /\ \A l \in 1..up :
           /\ cs2[l].id = cs[l].id /\ cs2[l].dev = cs[l].dev
           /\ cs2[l].rest = IF l = up THEN Tail(cs[l].rest) ELSE cs[l].rest
           /\ cs2[l].child_ids = IF l = up /\ v.kind # "dir" THEN Append(cs[l].child_ids, c)
                                                             ELSE cs[l].child_ids
      /\ v.kind = "dir" => /\ cs2[up + 1].id = c /\ cs2[up + 1].dev = Dev(v, outer)
                           /\ cs2[up + 1].rest = v.rest /\ cs2[up + 1].child_ids = <<>>

LEMMA DirType == ASSUME NEW v PROVE EType(v) \in Kinds /\ (EType(v) = "Dir" <=> v.kind = "dir")
<1>1. EType(v) \in {"Dir", "OtherFs", "KernFs", "Pattern", "Err", "Link", "NonReg", "Reg"}
  BY DEF EType, OfTag
<1>2. v.kind # "dir" => EType(v) # "Dir"
  BY DEF EType, OfTag
<1>3. v.kind = "dir" => EType(v) = "Dir"
  BY DEF EType
<1> QED
  BY <1>1, <1>2, <1>3 DEF Kinds, FileTypes, Markers, Specials

(* The type of an entry is what counts for most of what its fields claim.         *)
LEMMA TypeClaimed ==
  ASSUME NEW v, v.kind # "dir"
  PROVE  EType(v) \in Claims(v) /\ \A t \in Claims(v) : Rank[t] <= Rank[EType(v)]
<1>1. v.obj.excluded # Absent => OfTag(v.obj.excluded[1]) \in {"OtherFs", "KernFs", "Pattern"}
  BY DEF OfTag
<1>2. PICK tag : tag = OfTag(v.obj.excluded[1])
  OBVIOUS
<1>3. /\ Rank["Reg"] = 0 /\ Rank["NonReg"] = 1 /\ Rank["Link"] = 2 /\ Rank["Err"] = 3
      /\ Rank["Pattern"] = 4 /\ Rank["OtherFs"] = 4 /\ Rank["KernFs"] = 4
  BY DEF Rank
<1>4. CASE v.obj.excluded # Absent
  <2>1. EType(v) = tag
    BY <1>2, <1>4 DEF EType
  <2>2. Claims(v) \subseteq {"Reg", "NonReg", "Link", "Err", tag} /\ tag \in Claims(v)
    BY <1>2, <1>4 DEF Claims
  <2>3. tag \in {"OtherFs", "KernFs", "Pattern"}
    BY <1>1, <1>2, <1>4
  <2> QED
    BY <1>3, <2>1, <2>2, <2>3
<1>5. CASE v.obj.excluded = Absent
  <2>1. /\ Claims(v) \subseteq {"Reg", "NonReg", "Link", "Err"} /\ "Reg" \in Claims(v)
        /\ "NonReg" \in Claims(v) <=> v.obj.notreg
        /\ "Link" \in Claims(v) <=> v.obj.hlnkc
        /\ "Err" \in Claims(v) <=> v.obj.read_error
    BY <1>5 DEF Claims
  <2>2. EType(v) = IF v.obj.read_error THEN "Err" ELSE IF v.obj.hlnkc THEN "Link"
                   ELSE IF v.obj.notreg THEN "NonReg" ELSE "Reg"
    BY <1>5 DEF EType
  <2> QED
    BY <1>3, <2>1, <2>2
<1> QED
  BY <1>4, <1>5

LEMMA DeviceKnown ==
  ASSUME NEW dv \in Seq(Places), NEW d \in Places
  PROVE  LET dv2 == IF ~Known(dv, d) THEN Append(dv, d) ELSE dv
         IN  /\ dv2 \in Seq(Places) /\ Len(dv2) \in Nat /\ Len(dv) <= Len(dv2)
             /\ \A i \in 1..Len(dv) : dv2[i] = dv[i]
             /\ PlaceOf(dv2, d) \in 1..Len(dv2) /\ dv2[PlaceOf(dv2, d)] = d
<1> DEFINE dv2 == IF ~Known(dv, d) THEN Append(dv, d) ELSE dv
<1>0. Len(dv) \in Nat
  BY LenProperties
<1>1. /\ dv2 \in Seq(Places) /\ Len(dv2) \in Nat /\ Len(dv) <= Len(dv2)
      /\ \A i \in 1..Len(dv) : dv2[i] = dv[i]
  BY <1>0, AppendProperties
<1>2. \E i \in 1..Len(dv2) : dv2[i] = d
  <2>1. CASE Known(dv, d)
    BY <2>1 DEF Known
  <2>2. CASE ~Known(dv, d)
    <3>1. Len(dv) + 1 \in 1..Len(dv2) /\ dv2[Len(dv) + 1] = d
      BY <1>0, <2>2, AppendProperties
    <3> QED
      BY <3>1
  <2> QED
    BY <2>1, <2>2
<1> HIDE DEF dv2
<1>3. PlaceOf(dv2, d) \in 1..Len(dv2) /\ dv2[PlaceOf(dv2, d)] = d
  BY <1>2 DEF PlaceOf
<1> QED
  BY <1>1, <1>3 DEF dv2

LEMMA ParsedNode ==
  ASSUME NEW V, Sound(V), NEW v \in V, NEW outer \in Places, NEW dv \in Seq(Places),
         v.kind = "dir" => /\ PlaceOf(dv, Dev(v, outer)) \in 1..Len(dv)
                           /\ dv[PlaceOf(dv, Dev(v, outer))] = Dev(v, outer)
  PROVE  MadeNode(Parsed(v, outer, dv), v, outer, NoEntry, dv)
<1> DEFINE b == Or(v.obj.dsize, 0) \div Unit
           n == Node(EType(v), b, NoEntry, 0)
<1>1. ItemOK(v, V) /\ Len(dv) \in Nat
  BY LenProperties DEF Sound
<1>2. b \in 0..MaxU64
  <2>1. PICK m \in 0..MaxU64 : m = Or(v.obj.dsize, 0)
    BY <1>1, OrType, SinkAssumption DEF ItemOK
  <2>2. m \in Nat
    BY <2>1, SinkAssumption
  <2>3. m \div Unit \in 0..m
    BY <2>2, Halved
  <2> QED
    BY <2>1, <2>2, <2>3, SinkAssumption
<1>3. EType(v) \in Kinds
  BY DirType
<1> HIDE DEF b
<1>4. /\ n.etype = EType(v) /\ n.blocks = b /\ n.parent = NoEntry /\ n.dev = 0
      /\ n.kids = <<>> /\ n.err = FALSE /\ n \in ReadType
  BY <1>2, <1>3 DEF Node, ReadType, NoEntry
<1> HIDE DEF n
<1>5. CASE v.kind = "dir"
  <2> DEFINE q == PlaceOf(dv, Dev(v, outer))
             m == [n EXCEPT !.err = v.obj.read_error, !.dev = q]
  <2>1. q \in 1..Len(dv) /\ dv[q] = Dev(v, outer) /\ q \in Nat
    BY <1>1, <1>5
  <2>2. v.obj.read_error \in BOOLEAN
    BY <1>1 DEF ItemOK
  <2>3. Parsed(v, outer, dv) = m
    BY <1>5 DEF Parsed, n, b
  <2> HIDE DEF q
  <2>4. /\ m \in ReadType /\ m.etype = n.etype /\ m.blocks = b /\ m.parent = NoEntry
        /\ m.dev = q /\ m.kids = <<>> /\ m.err = v.obj.read_error
    BY <1>4, <2>1, <2>2 DEF ReadType
  <2> HIDE DEF m
  <2> QED
    BY <1>1, <1>4, <1>5, <2>1, <2>3, <2>4 DEF MadeNode, b
<1>6. CASE v.kind # "dir"
  <2>1. Parsed(v, outer, dv) = n
    BY <1>6 DEF Parsed, n, b
  <2> QED
    BY <1>1, <1>4, <1>6, <2>1 DEF MadeNode, b
<1> QED
  BY <1>5, <1>6

LEMMA Unread ==
  ASSUME NEW S, NEW s \in Seq(S), s # <<>>
  PROVE  /\ Len(s) \in Nat /\ Tail(s) \in Seq(S) /\ Len(Tail(s)) = Len(s) - 1
         /\ \A i \in 1..(Len(s) - 1) : Tail(s)[i] = s[i + 1]
         /\ Head(s) = s[1] /\ s[1] \in S /\ 1 <= Len(s)
<1>1. Len(s) \in Nat /\ 1 <= Len(s)
  BY EmptySeq, LenProperties
<1>2. s[1] \in S
  BY <1>1, ElementOfSeq
<1> QED
  BY <1>1, <1>2, HeadTailProperties

WithoutNext(cs, up) == [cs EXCEPT ![up].rest = Tail(@)]

LEMMA Consumed ==
  ASSUME NEW V, NEW cs \in Seq(CallType(V)), NEW up, up = Len(cs), up > 0,
         cs[up].rest # <<>>
  PROVE  LET called == WithoutNext(cs, up)
         IN  /\ called \in Seq(CallType(V)) /\ Len(called) = up
             /\ \A l \in 1..up :
                  /\ called[l].id = cs[l].id /\ called[l].dev = cs[l].dev
                  /\ called[l].rest = IF l = up THEN Tail(cs[l].rest) ELSE cs[l].rest
                  /\ called[l].child_ids = cs[l].child_ids
<1> DEFINE m == [cs[up] EXCEPT !.rest = Tail(@)]
<1>1. up \in 1..Len(cs) /\ up \in Nat /\ cs[up] \in CallType(V)
  BY ElementOfSeq, LenProperties
<1>2. Tail(cs[up].rest) \in Seq(V)
  BY <1>1, Unread DEF CallType
<1>3. /\ m \in CallType(V) /\ m.id = cs[up].id /\ m.dev = cs[up].dev
      /\ m.rest = Tail(cs[up].rest) /\ m.child_ids = cs[up].child_ids
  BY <1>1, <1>2 DEF CallType
<1>4. WithoutNext(cs, up) = [cs EXCEPT ![up] = m]
  BY DEF WithoutNext
<1> HIDE DEF m
<1>5. PICK t : t = [cs EXCEPT ![up] = m]
  OBVIOUS
<1>6. /\ t \in Seq(CallType(V)) /\ Len(t) = up
      /\ \A l \in 1..up : t[l] = IF l = up THEN m ELSE cs[l]
  BY <1>1, <1>3, <1>5, ExceptSeq
<1>7. \A l \in 1..up :
        /\ t[l].id = cs[l].id /\ t[l].dev = cs[l].dev
        /\ t[l].rest = IF l = up THEN Tail(cs[l].rest) ELSE cs[l].rest
        /\ t[l].child_ids = cs[l].child_ids
  BY <1>3, <1>6
<1> QED
  BY <1>4, <1>5, <1>6, <1>7

WithChild(cs, up, c) == [cs EXCEPT ![up].child_ids = Append(@, c)]

LEMMA Listed ==
  ASSUME NEW V, NEW s \in Seq(CallType(V)), NEW q, q = Len(s), q > 0, NEW x \in Nat
  PROVE  LET t == WithChild(s, q, x)
         IN  /\ t \in Seq(CallType(V)) /\ Len(t) = q
             /\ \A l \in 1..q :
                  /\ t[l].id = s[l].id /\ t[l].dev = s[l].dev /\ t[l].rest = s[l].rest
                  /\ t[l].child_ids = IF l = q THEN Append(s[l].child_ids, x)
                                                ELSE s[l].child_ids
<1> DEFINE m == [s[q] EXCEPT !.child_ids = Append(@, x)]
<1>1. q \in 1..Len(s) /\ q \in Nat /\ s[q] \in CallType(V)
  BY ElementOfSeq, LenProperties
<1>2. Append(s[q].child_ids, x) \in Seq(Nat)
  BY <1>1, AppendProperties DEF CallType
<1>3. /\ m \in CallType(V) /\ m.id = s[q].id /\ m.dev = s[q].dev
      /\ m.rest = s[q].rest /\ m.child_ids = Append(s[q].child_ids, x)
  BY <1>1, <1>2 DEF CallType
<1>4. WithChild(s, q, x) = [s EXCEPT ![q] = m]
  BY DEF WithChild
<1> HIDE DEF m
<1>5. PICK t : t = [s EXCEPT ![q] = m]
  OBVIOUS
<1>6. /\ t \in Seq(CallType(V)) /\ Len(t) = q
      /\ \A l \in 1..q : t[l] = IF l = q THEN m ELSE s[l]
  BY <1>1, <1>3, <1>5, ExceptSeq
<1> QED
  BY <1>3, <1>4, <1>5, <1>6

LEMMA ConsumedListed ==
  ASSUME NEW V, NEW cs \in Seq(CallType(V)), NEW up, up = Len(cs), up > 0,
         cs[up].rest # <<>>, NEW c \in Nat
  PROVE  LET t == WithChild(WithoutNext(cs, up), up, c) IN
         /\ t \in Seq(CallType(V)) /\ Len(t) = up
         /\ \A l \in 1..up :
              /\ t[l].id = cs[l].id /\ t[l].dev = cs[l].dev
              /\ t[l].rest = IF l = up THEN Tail(cs[l].rest) ELSE cs[l].rest
              /\ t[l].child_ids = IF l = up THEN Append(cs[l].child_ids, c)
                                            ELSE cs[l].child_ids
<1>0. PICK called : called = WithoutNext(cs, up)
  OBVIOUS
<1>1. /\ called \in Seq(CallType(V)) /\ Len(called) = up
      /\ \A l \in 1..up :
           /\ called[l].id = cs[l].id /\ called[l].dev = cs[l].dev
           /\ called[l].rest = IF l = up THEN Tail(cs[l].rest) ELSE cs[l].rest
           /\ called[l].child_ids = cs[l].child_ids
  BY <1>0, Consumed
<1>2. PICK t : t = WithChild(called, up, c)
  OBVIOUS
<1>a. called \in Seq(CallType(V)) /\ Len(called) = up
  BY <1>1
<1>3. /\ t \in Seq(CallType(V)) /\ Len(t) = up
      /\ \A l \in 1..up :
           /\ t[l].id = called[l].id /\ t[l].dev = called[l].dev /\ t[l].rest = called[l].rest
           /\ t[l].child_ids = IF l = up THEN Append(called[l].child_ids, c)
                                         ELSE called[l].child_ids
  <2>1. t \in Seq(CallType(V)) /\ Len(t) = up
    BY <1>a, <1>2, Listed
  <2>2. \A l \in 1..up : t[l].id = called[l].id
    BY <1>a, <1>2, Listed
  <2>3. \A l \in 1..up : t[l].dev = called[l].dev
    BY <1>a, <1>2, Listed
  <2>4. \A l \in 1..up : t[l].rest = called[l].rest
    BY <1>a, <1>2, Listed
  <2>5. \A l \in 1..up : t[l].child_ids =
                         IF l = up THEN Append(called[l].child_ids, c) ELSE called[l].child_ids
    BY <1>a, <1>2, Listed
  <2> QED
    BY <2>1, <2>2, <2>3, <2>4, <2>5
<1> QED
  BY <1>0, <1>1, <1>2, <1>3

(* The caller's linking of c.                                                   *)
LEMMA ParentSet ==
  ASSUME NEW im \in Seq(ReadType), NEW c \in 1..Len(im), NEW p \in Nat
  PROVE  /\ WithParent(im, c, p) \in Seq(ReadType) /\ Len(WithParent(im, c, p)) = Len(im)
         /\ \A i \in 1..Len(im) : i # c => WithParent(im, c, p)[i] = im[i]
         /\ LET n == WithParent(im, c, p)[c]
            IN  /\ n \in ReadType /\ n.etype = im[c].etype /\ n.blocks = im[c].blocks
                /\ n.dev = im[c].dev /\ n.kids = im[c].kids /\ n.err = im[c].err
                /\ n.items = im[c].items
                /\ n.parent = IF im[c].etype \in {"Dir", "Link"} THEN p ELSE im[c].parent
<1> DEFINE m == [im[c] EXCEPT !.parent = p]
<1>1. im[c] \in ReadType
  BY ElementOfSeq
<1>2. /\ m \in ReadType /\ m.etype = im[c].etype /\ m.blocks = im[c].blocks
      /\ m.dev = im[c].dev /\ m.kids = im[c].kids /\ m.err = im[c].err /\ m.parent = p
      /\ m.items = im[c].items
  BY <1>1 DEF ReadType
<1>3. WithParent(im, c, p) = IF im[c].etype \in {"Dir", "Link"} THEN [im EXCEPT ![c] = m] ELSE im
  BY DEF WithParent
<1> HIDE DEF m
<1>4. /\ [im EXCEPT ![c] = m] \in Seq(ReadType) /\ Len([im EXCEPT ![c] = m]) = Len(im)
      /\ \A i \in 1..Len(im) : [im EXCEPT ![c] = m][i] = IF i = c THEN m ELSE im[i]
  BY <1>2, ExceptSeq
<1> QED
  BY <1>1, <1>2, <1>3, <1>4

(* Create does it.                                                             *)
LEMMA CreateEffect ==
  ASSUME imported \in Seq(ReadType), idevices \in Seq(Places), NEW V, Sound(V),
         calls \in Seq(CallType(V)), NEW v \in V, NEW outer \in Places,
         calls # <<>> => calls[Len(calls)].rest # <<>>, Create(v, outer)
  PROVE  Made(imported, idevices, calls, v, outer, V, imported', idevices', calls')
<1> DEFINE im == imported
           cs == calls
           c == Len(im) + 1
           up == Len(cs)
           d == Dev(v, outer)
           made == Append(im, Parsed(v, outer, idevices'))
           called == IF up = 0 THEN cs ELSE [cs EXCEPT ![up].rest = Tail(@)]
<1>0. /\ Len(im) \in Nat /\ up \in Nat /\ Len(idevices) \in Nat /\ c \in Nat
      /\ (cs = <<>> <=> up = 0)
  BY LenProperties, EmptySeq
<1>1. d \in Places
  BY OrType DEF Dev, Sound, ItemOK
<1>2. /\ idevices' \in Seq(Places) /\ Len(idevices) <= Len(idevices') /\ Len(idevices') \in Nat
      /\ \A i \in 1..Len(idevices) : idevices'[i] = idevices[i]
      /\ v.kind = "dir" => /\ PlaceOf(idevices', d) \in 1..Len(idevices')
                           /\ idevices'[PlaceOf(idevices', d)] = d
  <2>1. CASE v.kind = "dir"
    <3>1. idevices' = IF ~Known(idevices, d) THEN Append(idevices, d) ELSE idevices
      BY <2>1 DEF Create
    <3> HIDE DEF d
    <3> QED
      BY <1>1, <2>1, <3>1, DeviceKnown
  <2>2. CASE v.kind # "dir"
    BY <1>0, <2>2 DEF Create
  <2> QED
    BY <2>1, <2>2
<1>3. MadeNode(Parsed(v, outer, idevices'), v, outer, NoEntry, idevices')
  <2> HIDE DEF d
  <2>1. PICK dv : dv = idevices'
    OBVIOUS
  <2>2. MadeNode(Parsed(v, outer, dv), v, outer, NoEntry, dv)
    BY <1>2, <2>1, ParsedNode DEF d
  <2> QED
    BY <2>1, <2>2
<1>4. /\ made \in Seq(ReadType) /\ Len(made) = c /\ made[c] = Parsed(v, outer, idevices')
      /\ \A i \in 1..Len(im) : made[i] = im[i]
  <2>1. Parsed(v, outer, idevices') \in ReadType
    BY <1>3 DEF MadeNode
  <2> QED
    BY <1>0, <2>1, AppendProperties
<1>5. /\ called \in Seq(CallType(V)) /\ Len(called) = up
      /\ \A l \in 1..up :
           /\ called[l].id = cs[l].id /\ called[l].dev = cs[l].dev
           /\ called[l].rest = IF l = up THEN Tail(cs[l].rest) ELSE cs[l].rest
           /\ called[l].child_ids = cs[l].child_ids
  <2>1. CASE up = 0
    BY <2>1
  <2>2. CASE up > 0
    BY <1>0, <2>2, Consumed DEF WithoutNext
  <2> QED
    BY <1>0, <2>1, <2>2
<1>6. CASE v.kind = "dir"
  <2> DEFINE new == [id |-> c, dev |-> d, rest |-> v.rest, child_ids |-> <<>>]
  <2>1. imported' = made /\ calls' = Append(called, new)
    BY <1>6 DEF Create
  <2>2. new \in CallType(V)
    BY <1>0, <1>1 DEF CallType, Sound, ItemOK
  <2>3. /\ new.id = c /\ new.dev = d /\ new.rest = v.rest /\ new.child_ids = <<>>
    OBVIOUS
  <2> HIDE DEF new, called
  <2>4. /\ calls' \in Seq(CallType(V)) /\ Len(calls') = up + 1 /\ calls'[up + 1] = new
        /\ \A l \in 1..up : calls'[l] = called[l]
    BY <1>5, <2>1, <2>2, AppendProperties
  <2>5. MadeNode(made[c], v, outer, ParentAt(cs, EType(v)), idevices')
    BY <1>3, <1>4, <1>6 DEF MadeNode
  <2> HIDE DEF made
  <2> QED
    BY <1>2, <1>4, <1>5, <1>6, <2>1, <2>3, <2>4, <2>5 DEF Made
<1>7. CASE v.kind # "dir"
  <2>1. CASE up = 0
    <3>1. imported' = made /\ calls' = calls
      BY <1>7, <2>1 DEF Create
    <3>2. MadeNode(made[c], v, outer, ParentAt(cs, EType(v)), idevices')
      BY <1>0, <1>3, <1>4, <2>1 DEF ParentAt
    <3> HIDE DEF made
    <3> QED
      BY <1>0, <1>2, <1>4, <1>7, <2>1, <3>1, <3>2 DEF Made
  <2>2. CASE up > 0
    <3> DEFINE p == cs[up].id
    <3>1. /\ imported' = WithParent(made, c, p)
          /\ calls' = [called EXCEPT ![up].child_ids = Append(@, c)]
      <4>1. up # 0
        BY <1>0, <2>2
      <4>2. imported' = WithParent(made, c, p)
        BY <1>7, <4>1, Zenon DEF Create
      <4>3. calls' = [called EXCEPT ![up].child_ids = Append(@, c)]
        BY <1>7, <4>1, Zenon DEF Create
      <4> QED
        BY <4>2, <4>3
    <3>2. p \in Nat
      <4>1. cs[up] \in CallType(V)
        BY <1>0, <2>2, ElementOfSeq
      <4> QED
        BY <4>1 DEF CallType
    <3>a. PICK cl : cl = called
      OBVIOUS
    <3>b. PICK im1 : im1 = made
      OBVIOUS
    <3> HIDE DEF called, made
    <3>3. /\ calls' \in Seq(CallType(V)) /\ Len(calls') = up
          /\ \A l \in 1..up :
               /\ calls'[l].id = cs[l].id /\ calls'[l].dev = cs[l].dev
               /\ calls'[l].rest = IF l = up THEN Tail(cs[l].rest) ELSE cs[l].rest
               /\ calls'[l].child_ids = IF l = up THEN Append(cs[l].child_ids, c)
                                                  ELSE cs[l].child_ids
      <4>1. cl = WithoutNext(cs, up)
        BY <2>2, <3>a DEF called, WithoutNext
      <4>2. calls' = WithChild(cl, up, c)
        BY <3>1, <3>a DEF WithChild
      <4>3. PICK t : t = calls'
        OBVIOUS
      <4>4. cs[up].rest # <<>> /\ cs \in Seq(CallType(V)) /\ up > 0
        BY <1>0, <2>2
      <4> QED
        BY <1>0, <4>1, <4>2, <4>3, <4>4, ConsumedListed
    <3>4. /\ im1 \in Seq(ReadType) /\ Len(im1) = c /\ c \in 1..Len(im1)
          /\ imported' = WithParent(im1, c, p)
      BY <1>0, <1>4, <3>1, <3>b
    <3>5. /\ imported' \in Seq(ReadType) /\ Len(imported') = c
          /\ \A i \in 1..Len(im) : imported'[i] = im[i]
      <4>1. \A i \in 1..Len(im) : im1[i] = im[i] /\ i \in 1..Len(im1) /\ i # c
        BY <1>0, <1>4, <3>4, <3>b
      <4> QED
        BY <3>2, <3>4, <4>1, ParentSet
    <3>6. MadeNode(imported'[c], v, outer, ParentAt(cs, EType(v)), idevices')
      <4>1. LET n == imported'[c]
                m == im1[c]
            IN  /\ n \in ReadType /\ n.etype = m.etype /\ n.blocks = m.blocks
                /\ n.dev = m.dev /\ n.kids = m.kids /\ n.err = m.err
                /\ n.parent = IF m.etype \in {"Dir", "Link"} THEN p ELSE m.parent
        BY <3>2, <3>4, ParentSet
      <4>2. MadeNode(im1[c], v, outer, NoEntry, idevices')
        BY <1>3, <1>4, <3>b
      <4>3. ParentAt(cs, EType(v)) = IF EType(v) \in {"Dir", "Link"} THEN p ELSE NoEntry
        BY <1>0, <2>2 DEF ParentAt, ParentField
      <4> QED
        BY <1>7, <4>1, <4>2, <4>3 DEF MadeNode
    <3> QED
      BY <1>2, <1>7, <2>2, <3>3, <3>5, <3>6 DEF Made
  <2> QED
    BY <1>0, <2>1, <2>2
<1> QED
  BY <1>6, <1>7

----------------------------------------------------------------------------
(* Lists as the import goes on.                                                *)
LEMMA SpanFrame ==
  ASSUME NEW ns, NEW e, NEW d \in Nat, NEW ks \in Seq(Nat), NEW x \in Nat, KidsSpan(ns, e, d, ks, x),
         NEW ns2, NEW e2,
         \A k \in 1..Len(ks) : /\ e2[ks[k]] = e[ks[k]]
                               /\ ns2[ks[k]].etype = ns[ks[k]].etype
                               /\ ns2[ks[k]].parent = ns[ks[k]].parent
  PROVE  KidsSpan(ns2, e2, d, ks, x)
<1>0. Len(ks) \in Nat
  BY LenProperties
<1>1. \A j \in 0..Len(ks) : Past(e2, ks, d, j) = Past(e, ks, d, j)
  BY <1>0 DEF Past
<1>2. Past(e2, ks, d, Len(ks)) = x
  BY <1>0, <1>1 DEF KidsSpan
<1>3. ASSUME NEW k \in 1..Len(ks)
      PROVE  /\ ks[k] \in (d + 1)..x /\ e2[ks[k]] \in ks[k]..x
             /\ ks[k] = Past(e2, ks, d, k - 1) + 1
             /\ ns2[ks[k]].parent = ParentField(ns2[ks[k]].etype, d)
  <2>1. k - 1 \in 0..Len(ks)
    BY <1>0
  <2>2. Past(e2, ks, d, k - 1) = Past(e, ks, d, k - 1)
    BY <1>1, <2>1
  <2> QED
    BY <2>2 DEF KidsSpan
<1> QED
  BY <1>2, <1>3 DEF KidsSpan

LEMMA SpanAppend ==
  ASSUME NEW ns, NEW e, NEW d \in Nat, NEW ks \in Seq(Nat), NEW x \in Nat, KidsSpan(ns, e, d, ks, x),
         d <= x, NEW c \in Nat, c = x + 1, NEW y \in Nat, e[c] = y, c <= y,
         ns[c].parent = ParentField(ns[c].etype, d)
  PROVE  KidsSpan(ns, e, d, Append(ks, c), y)
<1> DEFINE t == Append(ks, c)
           n == Len(ks)
<1>1. /\ n \in Nat /\ Len(t) = n + 1 /\ t[n + 1] = c /\ \A k \in 1..n : t[k] = ks[k]
  BY LenProperties, AppendProperties
<1> HIDE DEF t, n
<1>2. \A j \in 0..n : Past(e, t, d, j) = Past(e, ks, d, j)
  BY <1>1 DEF Past
<1>3. Past(e, ks, d, n) = x
  BY DEF KidsSpan, n
<1>4. Past(e, t, d, n + 1) = y
  BY <1>1 DEF Past
<1>5. ASSUME NEW k \in 1..(n + 1)
      PROVE  /\ t[k] \in (d + 1)..y /\ e[t[k]] \in t[k]..y
             /\ t[k] = Past(e, t, d, k - 1) + 1
             /\ ns[t[k]].parent = ParentField(ns[t[k]].etype, d)
  <2>1. CASE k \in 1..n
    <3>1. /\ ks[k] \in (d + 1)..x /\ e[ks[k]] \in ks[k]..x
          /\ ks[k] = Past(e, ks, d, k - 1) + 1
          /\ ns[ks[k]].parent = ParentField(ns[ks[k]].etype, d)
      BY <2>1 DEF KidsSpan, n
    <3>2. k - 1 \in 0..n
      BY <1>1, <2>1
    <3>3. t[k] = ks[k] /\ Past(e, t, d, k - 1) = Past(e, ks, d, k - 1)
      BY <1>1, <1>2, <2>1, <3>2
    <3> QED
      BY <3>1, <3>3
  <2>2. CASE k = n + 1
    <3>1. Past(e, t, d, k - 1) = x
      BY <1>1, <1>2, <1>3, <2>2
    <3> QED
      BY <1>1, <2>2, <3>1
  <2> QED
    BY <1>1, <2>1, <2>2
<1> QED
  BY <1>1, <1>4, <1>5 DEF KidsSpan, t

LEMMA CallFacts ==
  ASSUME NEW im, NEW dv, NEW cs, NEW V, NEW e, ImportOK(im, dv, cs, V, e), NEW l \in 1..Len(cs)
  PROVE  /\ cs[l].id \in 1..Len(im) /\ cs[l].id \in Nat /\ cs[l].id \in OpenAt(cs)
         /\ im[cs[l].id].etype = "Dir" /\ im[cs[l].id].kids = <<>>
         /\ cs[l].dev \in Places /\ cs[l].rest \in Seq(V)
         /\ cs[l].child_ids \in Seq(Nat) /\ Len(cs[l].child_ids) \in Nat
         /\ ReachOf(im, cs, l) \in cs[l].id..Len(im)
         /\ KidsSpan(im, e, cs[l].id, cs[l].child_ids, ReachOf(im, cs, l))
         /\ \A k \in 1..Len(cs[l].child_ids) :
              cs[l].child_ids[k] \in 1..Len(im) /\ cs[l].child_ids[k] \notin OpenAt(cs)
         /\ \A m \in 1..Len(cs) : l < m => cs[l].id < cs[m].id
<1>1. cs[l] \in CallType(V) /\ CallOK(im, cs, e, l) /\ Len(im) \in Nat /\ Len(cs) \in Nat
  BY ImportFacts
<1>2. /\ cs[l].id \in 1..Len(im) /\ cs[l].id \in Nat /\ cs[l].id \in OpenAt(cs)
      /\ im[cs[l].id].etype = "Dir" /\ im[cs[l].id].kids = <<>>
      /\ cs[l].dev \in Places /\ cs[l].rest \in Seq(V) /\ cs[l].child_ids \in Seq(Nat)
  BY <1>1 DEF CallOK, CallType, OpenAt
<1>3. \A m \in 1..Len(cs) : l < m => cs[l].id < cs[m].id
  BY <1>1 DEF CallOK
<1>4. ReachOf(im, cs, l) \in cs[l].id..Len(im)
  <2>1. CASE l = Len(cs)
    BY <1>1, <1>2, <2>1 DEF ReachOf
  <2>2. CASE l # Len(cs)
    <3>1. l + 1 \in 1..Len(cs) /\ l < l + 1
      BY <1>1, <2>2
    <3>2. cs[l + 1].id \in 1..Len(im) /\ cs[l].id < cs[l + 1].id
      BY <1>3, <3>1, ImportFacts DEF CallOK
    <3> QED
      BY <1>1, <1>2, <2>2, <3>2 DEF ReachOf
  <2> QED
    BY <2>1, <2>2
<1>5. Len(cs[l].child_ids) \in Nat
  BY <1>2, LenProperties
<1>6. \A k \in 1..Len(cs[l].child_ids) :
        cs[l].child_ids[k] \in 1..Len(im) /\ cs[l].child_ids[k] \notin OpenAt(cs)
  <2> SUFFICES ASSUME NEW k \in 1..Len(cs[l].child_ids)
               PROVE  cs[l].child_ids[k] \in 1..Len(im) /\ cs[l].child_ids[k] \notin OpenAt(cs)
    OBVIOUS
  <2>1. cs[l].child_ids[k] \in (cs[l].id + 1)..ReachOf(im, cs, l)
    BY <1>1 DEF CallOK, KidsSpan
  <2> QED
    BY <1>1, <1>2, <1>4, <2>1 DEF CallOK
<1> QED
  BY <1>1, <1>2, <1>3, <1>4, <1>5, <1>6 DEF CallOK

LEMMA NoneOpen ==
  ASSUME NEW im, NEW dv, NEW cs, NEW V, NEW e, ImportOK(im, dv, cs, V, e), im = <<>>
  PROVE  cs = <<>>
<1>0. Len(cs) \in Nat /\ cs \in Seq(CallType(V)) /\ Len(im) = 0
  BY ImportFacts
<1>1. Len(cs) = 0
  <2> SUFFICES ASSUME Len(cs) # 0 PROVE FALSE
    OBVIOUS
  <2>1. 1 \in 1..Len(cs)
    BY <1>0
  <2>2. cs[1].id \in 1..Len(im)
    BY <2>1, CallFacts
  <2> QED
    BY <1>0, <2>2
<1> QED
  BY <1>0, <1>1, EmptySeq

LEMMA DoneFacts ==
  ASSUME NEW im, NEW dv, NEW cs, NEW V, NEW e, ImportOK(im, dv, cs, V, e), NEW i \in 1..Len(im)
  PROVE  /\ im[i] \in ReadType /\ EntryOK(im, dv, i) /\ Len(im) \in Nat
         /\ im[i].kids \in Seq(Nat) /\ Len(im[i].kids) \in Nat
         /\ \A k \in 1..Len(im[i].kids) : im[i].kids[k] \in (i + 1)..Len(im)
         /\ i \notin OpenAt(cs) => /\ e[i] \in i..Len(im)
                                   /\ KidsSpan(im, e, i, im[i].kids, e[i])
                                   /\ \A k \in 1..Len(im[i].kids) :
                                        im[i].kids[k] \notin OpenAt(cs)
<1>1. WellFormed(im, dv)
  BY DEF ImportOK
<1>2. /\ im[i] \in ReadType /\ EntryOK(im, dv, i) /\ Len(im) \in Nat
      /\ im[i].kids \in Seq(Nat) /\ Len(im[i].kids) \in Nat
  BY <1>1, NodeIs
<1>3. \A k \in 1..Len(im[i].kids) : im[i].kids[k] \in (i + 1)..Len(im)
  BY <1>2 DEF EntryOK
<1> QED
  BY <1>2, <1>3 DEF ImportOK, DoneOK

(* A new entry keeps them.                                                     *)
WithEnd(e, n) == [i \in 1..(n + 1) |-> IF i = n + 1 THEN i ELSE e[i]]

LEMMA MadeKeeps ==
  ASSUME NEW im, NEW dv, NEW cs, NEW V, NEW e, ImportOK(im, dv, cs, V, e),
         NEW v, NEW outer, NEW im2, NEW dv2, NEW cs2,
         Made(im, dv, cs, v, outer, V, im2, dv2, cs2), cs = <<>> => im = <<>>
  PROVE  ImportOK(im2, dv2, cs2, V, WithEnd(e, Len(im)))
<1> DEFINE n == Len(im)
           c == n + 1
           up == Len(cs)
           dir == v.kind = "dir"
           f == WithEnd(e, n)
<1>0. /\ n \in Nat /\ c \in Nat /\ up \in Nat /\ Len(dv) \in Nat /\ cs \in Seq(CallType(V))
      /\ im \in Seq(ReadType)
  BY ImportFacts
<1>1. /\ dv2 \in Seq(Places) /\ Len(dv) <= Len(dv2) /\ Len(dv2) \in Nat
      /\ im2 \in Seq(ReadType) /\ Len(im2) = c
      /\ \A i \in 1..n : im2[i] = im[i]
      /\ cs2 \in Seq(CallType(V)) /\ Len(cs2) = IF dir THEN up + 1 ELSE up
      /\ \A l \in 1..up :
           /\ cs2[l].id = cs[l].id
           /\ cs2[l].child_ids = IF l = up /\ ~dir THEN Append(cs[l].child_ids, c)
                                                   ELSE cs[l].child_ids
      /\ dir => cs2[up + 1].id = c /\ cs2[up + 1].child_ids = <<>>
  BY LenProperties DEF Made
<1>2. /\ im2[c] \in ReadType /\ im2[c].etype = EType(v) /\ im2[c].kids = <<>>
      /\ im2[c].dev <= Len(dv2)
      /\ im2[c].parent = IF dir THEN NoEntry ELSE ParentAt(cs, EType(v))
      /\ IF dir THEN im2[c].dev \in 1..Len(dv2) ELSE im2[c].err = FALSE
      /\ (EType(v) = "Dir" <=> dir)
  BY DirType DEF Made, MadeNode
<1>3. /\ \A i \in 1..n : f[i] = e[i]
      /\ f[c] = c
  BY <1>0 DEF WithEnd
<1>4. OpenAt(cs) \subseteq 1..n
  BY CallFacts DEF OpenAt
<1> HIDE DEF dir, f, n, up
<1>5. /\ dir => OpenAt(cs2) = OpenAt(cs) \cup {c}
      /\ ~dir => OpenAt(cs2) = OpenAt(cs)
  <2>1. CASE dir
    <3>1. 1..Len(cs2) = (1..up) \cup {up + 1}
      BY <1>0, <1>1, <2>1
    <3> QED
      BY <1>1, <2>1, <3>1 DEF OpenAt, up
  <2>2. CASE ~dir
    BY <1>1, <2>2 DEF OpenAt, up
  <2> QED
    BY <2>1, <2>2
<1>6. \A i \in 1..n : i # c /\ (i \in OpenAt(cs2) <=> i \in OpenAt(cs))
  BY <1>0, <1>5
<1>7. WellFormed(im2, dv2)
  <2>1. ASSUME NEW i \in 1..c PROVE EntryOK(im2, dv2, i)
    <3>1. CASE i = c
      BY <1>2, <3>1 DEF EntryOK
    <3>2. CASE i \in 1..n
      <4>1. EntryOK(im, dv, i) /\ im2[i] = im[i] /\ n = Len(im)
        BY <1>1, <3>2, DoneFacts DEF n
      <4> QED
        BY <1>0, <1>1, <3>2, <4>1 DEF EntryOK
    <3> QED
      BY <1>0, <3>1, <3>2
  <2> QED
    BY <1>1, <2>1 DEF WellFormed
<1>8. \A i \in 1..c : im2[i].dev <= Len(dv2)
  <2>1. \A i \in 1..n : im[i].dev <= Len(dv) /\ im[i].dev \in Nat
    BY DoneFacts DEF ImportOK, ReadType, n
  <2>2. \A i \in 1..n : im2[i].dev <= Len(dv2)
    BY <1>0, <1>1, <2>1
  <2> QED
    BY <1>0, <1>2, <2>2
<1>9. ASSUME NEW l \in 1..Len(cs2) PROVE CallOK(im2, cs2, f, l)
  <2>1. CASE l \in 1..up
    <3> DEFINE d == cs[l].id
               ks == cs[l].child_ids
               x == ReachOf(im, cs, l)
    <3>1. /\ d \in 1..n /\ d \in Nat /\ im[d].etype = "Dir" /\ im[d].kids = <<>>
          /\ ks \in Seq(Nat) /\ Len(ks) \in Nat /\ x \in d..n /\ x \in Nat
          /\ KidsSpan(im, e, d, ks, x)
          /\ \A k \in 1..Len(ks) : ks[k] \in 1..n /\ ks[k] \notin OpenAt(cs)
          /\ \A m \in 1..up : l < m => d < cs[m].id
      BY <2>1, CallFacts DEF n, up
    <3>2. cs2[l].id = d /\ im2[d] = im[d] /\ d \in 1..c
      BY <1>0, <1>1, <2>1, <3>1
    <3>3. KidsSpan(im2, f, d, ks, x)
      <4>1. \A k \in 1..Len(ks) : f[ks[k]] = e[ks[k]] /\ im2[ks[k]] = im[ks[k]]
        BY <1>1, <1>3, <3>1
      <4>2. /\ d \in Nat /\ ks \in Seq(Nat) /\ x \in Nat /\ KidsSpan(im, e, d, ks, x)
        BY <3>1
      <4>3. PICK d1, ks1, x1, f1 :
              /\ d1 = d /\ ks1 = ks /\ x1 = x /\ f1 = f
              /\ d1 \in Nat /\ ks1 \in Seq(Nat) /\ x1 \in Nat
        BY <4>2
      <4> HIDE DEF d, ks, x
      <4>4. \A k \in 1..Len(ks1) : /\ f1[ks1[k]] = e[ks1[k]]
                                   /\ im2[ks1[k]].etype = im[ks1[k]].etype
                                   /\ im2[ks1[k]].parent = im[ks1[k]].parent
        BY <4>1, <4>3
      <4>5. KidsSpan(im, e, d1, ks1, x1)
        BY <4>2, <4>3
      <4>6. d1 \in Nat /\ ks1 \in Seq(Nat) /\ x1 \in Nat
        BY <4>3
      <4>7. KidsSpan(im2, f1, d1, ks1, x1)
        BY <4>4, <4>5, <4>6, SpanFrame
      <4> QED
        BY <4>3, <4>7
    <3>4. ASSUME NEW m \in 1..Len(cs2), l < m PROVE d < cs2[m].id
      <4>1. CASE m \in 1..up
        BY <1>1, <3>1, <3>4, <4>1
      <4>2. CASE dir /\ m = up + 1
        BY <1>0, <1>1, <3>1, <4>2
      <4> QED
        BY <1>0, <1>1, <4>1, <4>2
    <3>5. CASE l = up /\ ~dir
      <4>1. cs2[l].child_ids = Append(ks, c) /\ ReachOf(im2, cs2, l) = c /\ x = n
        BY <1>1, <2>1, <3>5 DEF ReachOf, n, up
      <4>2. im2[c].parent = ParentField(im2[c].etype, d)
        <5>1. cs # <<>>
          BY <2>1, <3>5 DEF up
        <5> QED
          BY <1>2, <3>5, <5>1 DEF ParentAt, up
      <4>3. KidsSpan(im2, f, d, Append(ks, c), c)
        <5> HIDE DEF d, ks, x, c
        <5>1. c = x + 1
          BY <4>1 DEF c
        <5>2. d <= x /\ c <= c
          BY <1>0, <3>1
        <5> QED
          BY <1>0, <1>3, <3>1, <3>3, <4>2, <5>1, <5>2, SpanAppend
      <4>4. \A k \in 1..Len(Append(ks, c)) : Append(ks, c)[k] \notin OpenAt(cs2)
        <5>1. /\ Len(Append(ks, c)) = Len(ks) + 1 /\ Append(ks, c)[Len(ks) + 1] = c
              /\ \A k \in 1..Len(ks) : Append(ks, c)[k] = ks[k]
          BY <1>0, <3>1, AppendProperties
        <5>2. c \notin OpenAt(cs2)
          BY <1>0, <1>4, <1>5, <3>5
        <5> HIDE DEF ks, c
        <5> QED
          BY <1>5, <3>1, <3>5, <5>1, <5>2
      <4> QED
        BY <1>1, <3>1, <3>2, <3>4, <4>1, <4>3, <4>4 DEF CallOK
    <3>6. CASE ~(l = up /\ ~dir)
      <4>1. cs2[l].child_ids = ks
        BY <1>1, <2>1, <3>6
      <4>2. ReachOf(im2, cs2, l) = x
        <5>1. CASE l = up
          <6>1. l # Len(cs2) /\ l + 1 = up + 1 /\ cs2[l + 1].id = c
            BY <1>0, <1>1, <3>6, <5>1
          <6> QED
            BY <1>0, <5>1, <6>1 DEF ReachOf, n, up
        <5>2. CASE l # up
          <6>1. l + 1 \in 1..up /\ l # Len(cs2)
            BY <1>0, <1>1, <2>1, <5>2
          <6> QED
            BY <1>1, <5>2, <6>1 DEF ReachOf, up
        <5> QED
          BY <5>1, <5>2
      <4>3. \A k \in 1..Len(ks) : ks[k] \notin OpenAt(cs2)
        BY <1>6, <3>1
      <4> HIDE DEF ks, d, x
      <4> QED
        BY <1>1, <3>1, <3>2, <3>3, <3>4, <4>1, <4>2, <4>3 DEF CallOK
    <3> QED
      BY <3>5, <3>6
  <2>2. CASE dir /\ l = up + 1
    <3>1. /\ l = Len(cs2) /\ cs2[l].id = c /\ cs2[l].child_ids = <<>>
          /\ ReachOf(im2, cs2, l) = c
      BY <1>1, <2>2 DEF ReachOf
    <3>2. KidsSpan(im2, f, c, <<>>, c)
      BY DEF KidsSpan, Past
    <3>3. \A m \in 1..Len(cs2) : ~(l < m)
      BY <1>0, <3>1
    <3>4. c \in 1..c
      BY <1>0
    <3> QED
      BY <1>1, <1>2, <2>2, <3>1, <3>2, <3>3, <3>4 DEF CallOK
  <2> QED
    BY <1>0, <1>1, <2>1, <2>2
<1>10. ASSUME NEW i \in 1..c, i \notin OpenAt(cs2) PROVE DoneOK(im2, cs2, f, i)
  <2>1. CASE i \in 1..n
    <3> DEFINE ks == im[i].kids
    <3>1. i \notin OpenAt(cs) /\ n = Len(im)
      BY <1>6, <1>10, <2>1 DEF n
    <3>2. /\ ks \in Seq(Nat) /\ Len(ks) \in Nat /\ e[i] \in i..n /\ KidsSpan(im, e, i, ks, e[i])
          /\ \A k \in 1..Len(ks) : ks[k] \in (i + 1)..n /\ ks[k] \notin OpenAt(cs)
      BY <2>1, <3>1, DoneFacts
    <3>3. im2[i].kids = ks /\ f[i] = e[i] /\ e[i] \in i..c /\ e[i] \in Nat
      BY <1>0, <1>1, <1>3, <2>1, <3>2
    <3> HIDE DEF ks
    <3>4. \A k \in 1..Len(ks) : ks[k] \in 1..n
      BY <1>0, <2>1, <3>2
    <3>5. \A k \in 1..Len(ks) : f[ks[k]] = e[ks[k]] /\ im2[ks[k]] = im[ks[k]]
      BY <1>1, <1>3, <3>4
    <3>6. KidsSpan(im2, f, i, ks, e[i])
      <4>1. /\ i \in Nat /\ ks \in Seq(Nat) /\ e[i] \in Nat /\ KidsSpan(im, e, i, ks, e[i])
        BY <1>0, <2>1, <3>2, <3>3
      <4>2. \A k \in 1..Len(ks) : /\ f[ks[k]] = e[ks[k]]
                                  /\ im2[ks[k]].etype = im[ks[k]].etype
                                  /\ im2[ks[k]].parent = im[ks[k]].parent
        BY <3>5
      <4>3. PICK x : x = e[i]
        OBVIOUS
      <4>4. x \in Nat /\ KidsSpan(im, e, i, ks, x)
        BY <4>1, <4>3
      <4>5. KidsSpan(im2, f, i, ks, x)
        BY <4>1, <4>2, <4>4, SpanFrame
      <4> QED
        BY <4>3, <4>5
    <3> QED
      BY <1>1, <1>6, <3>2, <3>3, <3>4, <3>6 DEF DoneOK
  <2>2. CASE i = c
    <3>1. KidsSpan(im2, f, c, <<>>, c) /\ c \in c..c
      BY <1>0 DEF KidsSpan, Past
    <3> QED
      BY <1>1, <1>2, <1>3, <2>2, <3>1 DEF DoneOK
  <2> QED
    BY <1>0, <2>1, <2>2
<1>11. im2[1].parent = NoEntry
  <2>1. CASE n = 0
    <3>1. cs = <<>>
      <4>1. up = 0
        <5> SUFFICES ASSUME up # 0 PROVE FALSE
          OBVIOUS
        <5>1. 1 \in 1..up
          BY <1>0
        <5>2. cs[1].id \in 1..n
          BY <5>1, CallFacts DEF n, up
        <5> QED
          BY <2>1, <5>2
      <4> QED
        BY <1>0, <4>1, EmptySeq DEF up
    <3> QED
      BY <1>2, <2>1, <3>1 DEF ParentAt
  <2>2. CASE n # 0
    <3>1. 1 \in 1..n /\ im # <<>>
      BY <1>0, <2>2 DEF n
    <3> QED
      BY <1>1, <3>1 DEF ImportOK
  <2> QED
    BY <2>1, <2>2
<1>12. ASSUME cs = <<>> PROVE n = 0 /\ c = 1 /\ up = 0
  BY <1>12 DEF n, up
<1>13. cs2 # <<>> => cs2[1].id = 1
  <2>1. CASE cs = <<>>
    <3>1. cs2 # <<>> => dir
      BY <1>0, <1>1, <1>12, <2>1
    <3> QED
      BY <1>1, <1>12, <2>1, <3>1
  <2>2. CASE cs # <<>>
    <3>1. 1 \in 1..up
      BY <1>0, <2>2, EmptySeq DEF up
    <3> QED
      BY <1>1, <2>2, <3>1 DEF ImportOK
  <2> QED
    BY <2>1, <2>2
<1>14. cs2 = <<>> => f[1] = c
  <2> SUFFICES ASSUME cs2 = <<>> PROVE f[1] = c
    OBVIOUS
  <2>1. up = 0
    BY <1>0, <1>1
  <2>2. cs = <<>>
    BY <1>0, <2>1, EmptySeq DEF up
  <2> QED
    BY <1>3, <1>12, <2>2
<1> QED
  BY <1>1, <1>7, <1>8, <1>9, <1>10, <1>11, <1>13, <1>14 DEF ImportOK, f, n

(* What the end of a directory's parse_item and its caller do, in these words.    *)
Ended(im, cs, V, im2, cs2) ==
  LET up == Len(cs) - 1
      c == cs[up + 1]
  IN  /\ cs # <<>> /\ c.rest = <<>>
      /\ im2 \in Seq(ReadType) /\ Len(im2) = Len(im)
      /\ \A i \in 1..Len(im) : i # c.id => im2[i] = im[i]
      /\ LET n == im2[c.id]
             m == im[c.id]
         IN  /\ n.etype = m.etype /\ n.blocks = m.blocks /\ n.dev = m.dev
             /\ n.err = m.err /\ n.kids = c.child_ids /\ n.items = Len(c.child_ids)
             /\ n.parent = IF up = 0 THEN m.parent ELSE cs[up].id
      /\ cs2 \in Seq(CallType(V)) /\ Len(cs2) = up
      /\ \A l \in 1..up :
           /\ cs2[l].id = cs[l].id /\ cs2[l].dev = cs[l].dev /\ cs2[l].rest = cs[l].rest
           /\ cs2[l].child_ids = IF l = up THEN Append(cs[l].child_ids, c.id)
                                           ELSE cs[l].child_ids

WithKids(im, c, ks) == [im EXCEPT ![c].kids = ks, ![c].items = Len(ks)]

LEMMA Filled ==
  ASSUME NEW im \in Seq(ReadType), NEW c \in 1..Len(im), NEW ks \in Seq(Nat)
  PROVE  /\ WithKids(im, c, ks) \in Seq(ReadType) /\ Len(WithKids(im, c, ks)) = Len(im)
         /\ \A i \in 1..Len(im) : i # c => WithKids(im, c, ks)[i] = im[i]
         /\ LET n == WithKids(im, c, ks)[c]
            IN  /\ n.etype = im[c].etype /\ n.blocks = im[c].blocks /\ n.dev = im[c].dev
                /\ n.err = im[c].err /\ n.kids = ks /\ n.parent = im[c].parent
                /\ n.items = Len(ks)
<1> DEFINE m == [im[c] EXCEPT !.kids = ks, !.items = Len(ks)]
<1>1. im[c] \in ReadType /\ Len(ks) \in Nat
  BY ElementOfSeq, LenProperties
<1>2. /\ m \in ReadType /\ m.etype = im[c].etype /\ m.blocks = im[c].blocks
      /\ m.dev = im[c].dev /\ m.kids = ks /\ m.err = im[c].err /\ m.parent = im[c].parent
      /\ m.items = Len(ks)
  BY <1>1 DEF ReadType
<1>3. WithKids(im, c, ks) = [im EXCEPT ![c] = m]
  BY DEF WithKids
<1> HIDE DEF m
<1>4. PICK t : t = [im EXCEPT ![c] = m]
  OBVIOUS
<1>5. /\ t \in Seq(ReadType) /\ Len(t) = Len(im)
      /\ \A i \in 1..Len(im) : t[i] = IF i = c THEN m ELSE im[i]
  BY <1>2, <1>4, ExceptSeq
<1> QED
  BY <1>2, <1>3, <1>4, <1>5

LEMMA Callers ==
  ASSUME NEW S, NEW s \in Seq(S), s # <<>>
  PROVE  LET up == Len(s) - 1
         IN  /\ up \in Nat /\ up + 1 = Len(s) /\ up + 1 \in 1..Len(s)
             /\ SubSeq(s, 1, up) \in Seq(S) /\ Len(SubSeq(s, 1, up)) = up
             /\ \A l \in 1..up : SubSeq(s, 1, up)[l] = s[l] /\ l \in 1..Len(s)
<1>1. Len(s) \in Nat /\ Len(s) # 0
  BY EmptySeq, LenProperties
<1> DEFINE up == Len(s) - 1
<1>2. up \in Nat /\ up + 1 = Len(s) /\ up + 1 \in 1..Len(s)
  BY <1>1
<1>3. \A l \in 1..up : l \in 1..Len(s) /\ s[l] \in S
  BY <1>1, ElementOfSeq
<1> HIDE DEF up
<1>4. /\ SubSeq(s, 1, up) \in Seq(S) /\ Len(SubSeq(s, 1, up)) = up
      /\ \A l \in 1..up : SubSeq(s, 1, up)[l] = s[l]
  <2>1. PICK q \in Nat : q = up
    BY <1>2
  <2>2. /\ SubSeq(s, 1, q) \in Seq(S)
        /\ Len(SubSeq(s, 1, q)) = IF 1 <= q THEN q - 1 + 1 ELSE 0
        /\ \A i \in 1..(q - 1 + 1) : SubSeq(s, 1, q)[i] = s[1 + i - 1]
    BY <1>3, <2>1, SubSeqProperties
  <2>3. \A l \in 1..q : l \in 1..(q - 1 + 1) /\ 1 + l - 1 = l
    OBVIOUS
  <2>4. Len(SubSeq(s, 1, q)) = q
    BY <2>2
  <2> QED
    BY <2>1, <2>2, <2>3, <2>4
<1> QED
  BY <1>2, <1>3, <1>4 DEF up

LEMMA EndedEffect ==
  ASSUME NEW dv, NEW V, NEW e, ImportOK(imported, dv, calls, V, e), ParseDone
  PROVE  Ended(imported, calls, V, imported', calls')
<1> DEFINE im == imported
           cs == calls
           up == Len(cs) - 1
           c == cs[up + 1].id
           ks == cs[up + 1].child_ids
           filled == WithKids(im, c, ks)
<1>1. /\ cs # <<>> /\ cs[Len(cs)].rest = <<>>
      /\ im \in Seq(ReadType) /\ cs \in Seq(CallType(V))
  BY ImportFacts DEF ParseDone
<1>2. /\ up \in Nat /\ up + 1 = Len(cs) /\ up + 1 \in 1..Len(cs)
      /\ SubSeq(cs, 1, up) \in Seq(CallType(V)) /\ Len(SubSeq(cs, 1, up)) = up
      /\ \A l \in 1..up : SubSeq(cs, 1, up)[l] = cs[l] /\ l \in 1..Len(cs)
  BY <1>1, Callers
<1>3. c \in 1..Len(im) /\ c \in Nat /\ im[c].etype = "Dir" /\ ks \in Seq(Nat)
  BY <1>2, CallFacts
<1>4. /\ filled \in Seq(ReadType) /\ Len(filled) = Len(im)
      /\ \A i \in 1..Len(im) : i # c => filled[i] = im[i]
      /\ filled[c].etype = im[c].etype /\ filled[c].blocks = im[c].blocks
      /\ filled[c].dev = im[c].dev
      /\ filled[c].err = im[c].err /\ filled[c].kids = ks /\ filled[c].parent = im[c].parent
      /\ filled[c].items = Len(ks)
  <2> HIDE DEF c, ks
  <2> QED  BY <1>1, <1>3, Filled
<1>5. CASE up = 0
  <2>1. imported' = filled /\ calls' = <<>>
    BY <1>5 DEF ParseDone, WithKids
  <2> HIDE DEF filled
  <2>2. calls' \in Seq(CallType(V)) /\ Len(calls') = up /\ \A l \in 1..up : FALSE
    BY <1>5, <2>1
  <2> QED
    BY <1>1, <1>2, <1>4, <1>5, <2>1, <2>2 DEF Ended
<1>6. CASE up # 0
  <2> DEFINE p == cs[up].id
  <2>1. imported' = WithParent(filled, c, p)
    BY <1>6, Zenon DEF ParseDone, WithKids
  <2>2. calls' = WithChild(SubSeq(cs, 1, up), up, c)
    BY <1>6, Zenon DEF ParseDone, WithChild
  <2>3. PICK rest : rest = SubSeq(cs, 1, up)
    OBVIOUS
  <2>4. PICK t : t = calls'
    OBVIOUS
  <2>5. rest \in Seq(CallType(V)) /\ Len(rest) = up /\ up > 0 /\ t = WithChild(rest, up, c)
        /\ \A l \in 1..up : rest[l] = cs[l]
    BY <1>2, <1>6, <2>2, <2>3, <2>4
  <2>6. p \in Nat
    <3>1. up \in 1..Len(cs)
      BY <1>2, <1>6
    <3> QED
      BY <3>1, CallFacts
  <2>7. PICK im1 : im1 = filled
    OBVIOUS
  <2>a. PICK im2 : im2 = imported'
    OBVIOUS
  <2> HIDE DEF filled, c, ks, up
  <2>8. /\ t \in Seq(CallType(V)) /\ Len(t) = up
        /\ \A l \in 1..up :
             /\ t[l].id = cs[l].id /\ t[l].dev = cs[l].dev /\ t[l].rest = cs[l].rest
             /\ t[l].child_ids = IF l = up THEN Append(cs[l].child_ids, c) ELSE cs[l].child_ids
    <3>1. t \in Seq(CallType(V)) /\ Len(t) = up
      BY <1>3, <2>5, Listed
    <3>2. \A l \in 1..up : t[l].id = rest[l].id
      BY <1>3, <2>5, Listed
    <3>3. \A l \in 1..up : t[l].dev = rest[l].dev
      BY <1>3, <2>5, Listed
    <3>4. \A l \in 1..up : t[l].rest = rest[l].rest
      BY <1>3, <2>5, Listed
    <3>5. \A l \in 1..up : t[l].child_ids =
                           IF l = up THEN Append(rest[l].child_ids, c) ELSE rest[l].child_ids
      <4> HIDE DEF p
      <4>1. rest \in Seq(CallType(V)) /\ up = Len(rest) /\ up > 0 /\ c \in Nat
        BY <1>3, <2>5
      <4>2. \A l \in 1..up : WithChild(rest, up, c)[l].child_ids =
                           IF l = up THEN Append(rest[l].child_ids, c) ELSE rest[l].child_ids
        BY <4>1, Listed
      <4> QED
        BY <2>5, <4>2
    <3> QED
      BY <2>5, <3>1, <3>2, <3>3, <3>4, <3>5
  <2>9. /\ im1 \in Seq(ReadType) /\ Len(im1) = Len(im) /\ c \in 1..Len(im1)
        /\ im2 = WithParent(im1, c, p)
    BY <1>3, <1>4, <2>1, <2>7, <2>a
  <2>10. /\ im2 \in Seq(ReadType) /\ Len(im2) = Len(im)
         /\ \A i \in 1..Len(im) : i # c => im2[i] = im1[i]
         /\ im2[c].etype = im1[c].etype /\ im2[c].blocks = im1[c].blocks
         /\ im2[c].dev = im1[c].dev /\ im2[c].kids = im1[c].kids
         /\ im2[c].err = im1[c].err /\ im2[c].items = im1[c].items
         /\ im2[c].parent = IF im1[c].etype \in {"Dir", "Link"} THEN p ELSE im1[c].parent
    BY <2>6, <2>9, ParentSet
  <2>11. /\ \A i \in 1..Len(im) : i # c => im2[i] = im[i]
         /\ im2[c].etype = im[c].etype /\ im2[c].blocks = im[c].blocks
         /\ im2[c].dev = im[c].dev /\ im2[c].err = im[c].err /\ im2[c].kids = ks
         /\ im2[c].items = Len(ks) /\ im2[c].parent = p
    BY <1>3, <1>4, <2>7, <2>10
  <2> QED
    BY <1>1, <1>2, <1>6, <2>4, <2>8, <2>a, <2>10, <2>11 DEF Ended, c, ks, up
<1> QED
  BY <1>5, <1>6

(* The end of a directory keeps them: what was read since is below it.            *)
Reaching(e, c, n) == [i \in 1..n |-> IF i = c THEN n ELSE e[i]]
TopId(cs) == cs[Len(cs)].id

LEMMA EndedKeeps ==
  ASSUME NEW im, NEW dv, NEW cs, NEW V, NEW e, ImportOK(im, dv, cs, V, e),
         NEW im2, NEW cs2, Ended(im, cs, V, im2, cs2)
  PROVE  ImportOK(im2, dv, cs2, V, Reaching(e, TopId(cs), Len(im)))
<1> DEFINE n == Len(im)
           up == Len(cs) - 1
           c == cs[up + 1].id
           cks == cs[up + 1].child_ids
           f == Reaching(e, TopId(cs), n)
<1>0. /\ n \in Nat /\ up \in Nat /\ Len(cs) = up + 1 /\ up + 1 \in 1..Len(cs)
      /\ Len(dv) \in Nat /\ cs \in Seq(CallType(V)) /\ dv \in Seq(Places)
      /\ \A l \in 1..up : l \in 1..Len(cs) /\ l < up + 1
  BY ImportFacts, Callers DEF Ended
<1>1. /\ im2 \in Seq(ReadType) /\ Len(im2) = n
      /\ \A i \in 1..n : i # c => im2[i] = im[i]
      /\ im2[c].etype = im[c].etype /\ im2[c].dev = im[c].dev /\ im2[c].kids = cks
      /\ im2[c].err = im[c].err
      /\ im2[c].parent = IF up = 0 THEN im[c].parent ELSE cs[up].id
      /\ cs2 \in Seq(CallType(V)) /\ Len(cs2) = up
      /\ \A l \in 1..up :
           /\ cs2[l].id = cs[l].id
           /\ cs2[l].child_ids = IF l = up THEN Append(cs[l].child_ids, c)
                                           ELSE cs[l].child_ids
  BY DEF Ended
<1>2. /\ c \in 1..n /\ c \in Nat /\ c \in OpenAt(cs) /\ im[c].etype = "Dir"
      /\ cks \in Seq(Nat) /\ Len(cks) \in Nat
      /\ KidsSpan(im, e, c, cks, n)
      /\ \A k \in 1..Len(cks) : cks[k] \in 1..n /\ cks[k] \notin OpenAt(cs)
  <2>1. ReachOf(im, cs, up + 1) = n
    BY <1>0 DEF ReachOf
  <2> QED
    BY <1>0, <2>1, CallFacts
<1>3. f[c] = n /\ \A i \in 1..n : i # c => f[i] = e[i]
  BY <1>0, <1>2 DEF Reaching, TopId
<1>4. \A l \in 1..up : cs[l].id < c /\ cs[l].id \in Nat /\ cs[l].id # c
  <2> SUFFICES ASSUME NEW l \in 1..up
               PROVE  cs[l].id < c /\ cs[l].id \in Nat /\ cs[l].id # c
    OBVIOUS
  <2>1. l \in 1..Len(cs) /\ l < up + 1
    BY <1>0
  <2>2. /\ cs[l].id \in Nat
        /\ \A m \in 1..Len(cs) : l < m => cs[l].id < cs[m].id
    BY <2>1, CallFacts
  <2> QED
    BY <1>0, <1>2, <2>1, <2>2
<1> HIDE DEF n, up, c, cks, f
<1>5. OpenAt(cs2) \subseteq OpenAt(cs) \ {c} /\ OpenAt(cs) \ {c} \subseteq OpenAt(cs2)
  <2>1. \A l \in 1..Len(cs) : l \in 1..up \/ cs[l].id = c
    BY <1>0 DEF c
  <2> QED
    BY <1>0, <1>1, <1>4, <2>1 DEF OpenAt
<1>6. ASSUME NEW ks, NEW d \in Nat, NEW x \in Nat, ks \in Seq(Nat), KidsSpan(im, e, d, ks, x),
             \A k \in 1..Len(ks) : ks[k] \in 1..n /\ ks[k] \notin OpenAt(cs)
      PROVE  KidsSpan(im2, f, d, ks, x) /\ \A k \in 1..Len(ks) : ks[k] \notin OpenAt(cs2)
  <2>1. \A k \in 1..Len(ks) : ks[k] \in 1..n /\ ks[k] # c /\ ks[k] \notin OpenAt(cs2)
    BY <1>2, <1>5, <1>6
  <2>2. \A k \in 1..Len(ks) : f[ks[k]] = e[ks[k]] /\ im2[ks[k]] = im[ks[k]]
    BY <1>1, <1>3, <2>1
  <2>3. \A k \in 1..Len(ks) : /\ f[ks[k]] = e[ks[k]]
                              /\ im2[ks[k]].etype = im[ks[k]].etype
                              /\ im2[ks[k]].parent = im[ks[k]].parent
    BY <2>2
  <2>4. KidsSpan(im2, f, d, ks, x)
    BY <1>6, <2>3, SpanFrame
  <2> QED
    BY <2>1, <2>4
<1>7. WellFormed(im2, dv)
  <2>1. ASSUME NEW i \in 1..n PROVE EntryOK(im2, dv, i)
    <3>0. EntryOK(im, dv, i) /\ n = Len(im)
      BY <2>1, DoneFacts DEF n
    <3>1. CASE i = c
      <4>1. im[c].dev \in 1..Len(dv)
        BY <1>2, <3>0, <3>1 DEF EntryOK
      <4>2. \A k \in 1..Len(cks) : cks[k] \in (c + 1)..n
        BY <1>2 DEF KidsSpan
      <4> QED
        BY <1>1, <1>2, <3>1, <4>1, <4>2 DEF EntryOK
    <3>2. CASE i # c
      BY <1>1, <3>0, <3>2 DEF EntryOK
    <3> QED
      BY <3>1, <3>2
  <2> QED
    BY <1>0, <1>1, <2>1 DEF WellFormed
<1>8. \A i \in 1..n : im2[i].dev <= Len(dv)
  BY <1>1, <1>2 DEF ImportOK, n
<1>9. ASSUME NEW l \in 1..up PROVE CallOK(im2, cs2, f, l)
  <2> DEFINE d == cs[l].id
             ks == cs[l].child_ids
             x == ReachOf(im, cs, l)
  <2>1. /\ d \in 1..n /\ d \in Nat /\ im[d].etype = "Dir" /\ im[d].kids = <<>>
        /\ ks \in Seq(Nat) /\ Len(ks) \in Nat /\ x \in d..n /\ x \in Nat
        /\ KidsSpan(im, e, d, ks, x)
        /\ \A k \in 1..Len(ks) : ks[k] \in 1..n /\ ks[k] \notin OpenAt(cs)
        /\ \A m \in 1..Len(cs) : l < m => d < cs[m].id
    <3>1. l \in 1..Len(cs)
      BY <1>0, <1>9
    <3>2. x \in d..n /\ d \in 1..n /\ n \in Nat
      BY <1>0, <3>1, CallFacts DEF n
    <3>3. x \in Nat
      BY <3>2
    <3> QED
      BY <3>1, <3>2, <3>3, CallFacts DEF n
  <2>2. cs2[l].id = d /\ d # c /\ im2[d] = im[d]
    BY <1>1, <1>4, <1>9, <2>1
  <2>3. \A m \in 1..Len(cs2) : l < m => d < cs2[m].id
    BY <1>0, <1>1, <2>1
  <2> HIDE DEF d, ks, x
  <2>4. KidsSpan(im2, f, d, ks, x) /\ \A k \in 1..Len(ks) : ks[k] \notin OpenAt(cs2)
    BY <1>6, <2>1
  <2>5. CASE l = up
    <3>1. c = x + 1 /\ ReachOf(im2, cs2, l) = n
      <4>1. l # Len(cs) /\ l + 1 = up + 1
        BY <1>0, <2>5
      <4>2. x = c - 1
        BY <4>1 DEF ReachOf, x, c
      <4> QED
        BY <1>1, <1>2, <2>5, <4>2 DEF ReachOf
    <3>2. im2[c].parent = ParentField(im2[c].etype, d)
      BY <1>0, <1>1, <1>2, <1>9, <2>5 DEF ParentField, d
    <3>3. d <= x /\ c <= n
      BY <1>0, <1>2, <2>1
    <3>4. KidsSpan(im2, f, d, Append(ks, c), n)
      BY <1>0, <1>2, <1>3, <2>1, <2>4, <3>1, <3>2, <3>3, SpanAppend
    <3>5. \A k \in 1..Len(Append(ks, c)) : Append(ks, c)[k] \notin OpenAt(cs2)
      <4>1. /\ Len(Append(ks, c)) = Len(ks) + 1 /\ Append(ks, c)[Len(ks) + 1] = c
            /\ \A k \in 1..Len(ks) : Append(ks, c)[k] = ks[k]
        BY <1>2, <2>1, AppendProperties
      <4>2. c \notin OpenAt(cs2)
        BY <1>5
      <4> QED
        BY <2>1, <2>4, <4>1, <4>2
    <3>6. cs2[l].child_ids = Append(ks, c)
      BY <1>1, <1>9, <2>5 DEF ks
    <3> QED
      BY <1>1, <2>1, <2>2, <2>3, <3>1, <3>4, <3>5, <3>6 DEF CallOK
  <2>6. CASE l # up
    <3>1. l + 1 \in 1..up /\ l # Len(cs)
      BY <1>0, <1>9, <2>6
    <3>2. ReachOf(im2, cs2, l) = x
      BY <1>1, <2>6, <3>1 DEF ReachOf, x
    <3>3. cs2[l].child_ids = ks
      BY <1>1, <1>9, <2>6 DEF ks
    <3> QED
      BY <1>1, <2>1, <2>2, <2>3, <2>4, <3>2, <3>3 DEF CallOK
  <2> QED
    BY <2>5, <2>6
<1>10. ASSUME NEW i \in 1..n, i \notin OpenAt(cs2) PROVE DoneOK(im2, cs2, f, i)
  <2>1. CASE i = c
    <3>1. KidsSpan(im2, f, c, cks, n) /\ \A k \in 1..Len(cks) : cks[k] \notin OpenAt(cs2)
      BY <1>0, <1>2, <1>6
    <3> QED
      BY <1>0, <1>1, <1>2, <1>3, <2>1, <3>1 DEF DoneOK
  <2>2. CASE i # c
    <3> DEFINE ks == im[i].kids
               x == e[i]
    <3>1. i \notin OpenAt(cs)
      BY <1>5, <1>10, <2>2
    <3>2. /\ ks \in Seq(Nat) /\ Len(ks) \in Nat /\ x \in i..n /\ KidsSpan(im, e, i, ks, x)
          /\ \A k \in 1..Len(ks) : ks[k] \in (i + 1)..n /\ ks[k] \notin OpenAt(cs)
      BY <3>1, <1>10, DoneFacts DEF n
    <3>3. im2[i].kids = ks /\ f[i] = x /\ x \in Nat /\ i \in Nat
      BY <1>0, <1>1, <1>3, <1>10, <2>2, <3>2
    <3> HIDE DEF ks, x
    <3>4. \A k \in 1..Len(ks) : ks[k] \in 1..n
      BY <1>0, <1>10, <3>2
    <3>5. KidsSpan(im2, f, i, ks, x) /\ \A k \in 1..Len(ks) : ks[k] \notin OpenAt(cs2)
      BY <1>6, <3>2, <3>3, <3>4
    <3> QED
      BY <1>1, <3>2, <3>3, <3>5 DEF DoneOK
  <2> QED
    BY <2>1, <2>2
<1>11. cs[1].id = 1 /\ im[1].parent = NoEntry /\ 1 \in 1..n
  <2>1. cs # <<>>
    BY DEF Ended
  <2>2. 1 \in 1..n
    BY <1>0, <1>2
  <2> QED
    BY <2>1, <2>2 DEF ImportOK, n
<1>12. im2[1].parent = NoEntry
  <2>1. CASE c = 1
    <3>1. up = 0
      <4> SUFFICES ASSUME up # 0 PROVE FALSE
        OBVIOUS
      <4>1. 1 \in 1..up
        BY <1>0
      <4> QED
        BY <1>4, <1>11, <2>1, <4>1
    <3> QED
      BY <1>1, <1>11, <2>1, <3>1
  <2>2. CASE c # 1
    BY <1>1, <1>11, <2>2
  <2> QED
    BY <2>1, <2>2
<1>13. cs2 # <<>> => cs2[1].id = 1
  <2> SUFFICES ASSUME cs2 # <<>> PROVE cs2[1].id = 1
    OBVIOUS
  <2>1. 1 \in 1..up
    BY <1>0, <1>1, EmptySeq
  <2> QED
    BY <1>1, <1>11, <2>1
<1>14. cs2 = <<>> => f[1] = n
  <2> SUFFICES ASSUME cs2 = <<>> PROVE f[1] = n
    OBVIOUS
  <2>1. up = 0
    BY <1>1
  <2>2. c = 1
    BY <1>11, <2>1 DEF c
  <2> QED
    BY <1>3, <2>2
<1> QED
  BY <1>1, <1>7, <1>8, <1>9, <1>10, <1>12, <1>13, <1>14 DEF ImportOK, f, n

----------------------------------------------------------------------------
(* The import of a tree's dump follows the tree: what it has read so far are the   *)
(* first entries of the tree, and what its calls have left are the items of the     *)
(* entries that follow in their lists.                                          *)
NodeBack(m, n, dv, sd) ==
  /\ m.etype = n.etype /\ m.err = n.err /\ BlocksBack(n, m.blocks)
  /\ n.etype = "Dir" => DevOf(dv, m) = DevOf(sd, n)

Begun(cs, l) == IF l = Len(cs) THEN Len(cs[l].child_ids) ELSE Len(cs[l].child_ids) + 1

CallBack(im, cs, ns, sd, F, es, l) ==
  LET d == cs[l].id
      ks == ns[d].kids
      p == Len(cs[l].child_ids)
      q == Begun(cs, l)
  IN  /\ cs[l].dev = DevOf(sd, ns[d])
      /\ q + Len(cs[l].rest) = Len(ks)
      /\ \A k \in 1..p : cs[l].child_ids[k] = ks[k]
      /\ \A k \in 1..Len(cs[l].rest) : cs[l].rest[k] = F[ks[q + k]][cs[l].dev]
      /\ IF l = Len(cs) THEN Len(im) = Past(es, ks, d, p) ELSE ks[p + 1] = cs[l + 1].id

Agrees(im, dv, cs, ns, sd, F, es) ==
  /\ Len(im) <= Len(ns)
  /\ \A i \in 1..Len(im) : NodeBack(im[i], ns[i], dv, sd)
  /\ \A i \in 1..Len(im) :
       i \notin OpenAt(cs) => im[i].kids = ns[i].kids /\ im[i].parent = ns[i].parent
  /\ \A l \in 1..Len(cs) : CallBack(im, cs, ns, sd, F, es, l)
  /\ im # <<>> /\ cs = <<>> => Len(im) = Len(ns)

LEMMA NothingAgrees ==
  ASSUME NEW dv, NEW ns, NEW sd, NEW F, NEW es, Len(ns) \in Nat
  PROVE  Agrees(<<>>, dv, <<>>, ns, sd, F, es)
BY DEF Agrees

LEMMA TreeFacts ==
  ASSUME NEW ns, NEW sd, NEW es, TreeOK(ns, sd, es), NEW i \in 1..Len(ns)
  PROVE  /\ WellFormed(ns, sd) /\ Len(ns) \in Nat /\ i \in Nat /\ sd \in Seq(Places)
         /\ ns[i] \in ReadType /\ EntryOK(ns, sd, i)
         /\ ns[i].kids \in Seq(Nat) /\ Len(ns[i].kids) \in Nat
         /\ \A k \in 1..Len(ns[i].kids) :
              /\ ns[i].kids[k] \in 1..Len(ns)
              /\ ns[i].kids[k] = Past(es, ns[i].kids, i, k - 1) + 1
              /\ ns[ns[i].kids[k]].parent = ParentField(ns[ns[i].kids[k]].etype, i)
         /\ Past(es, ns[i].kids, i, Len(ns[i].kids)) = es[i]
         /\ ns[i].etype # "Dir" => ns[i].kids = <<>> /\ ~ns[i].err /\ es[i] = i
<1>1. WellFormed(ns, sd) /\ KidsSpan(ns, es, i, ns[i].kids, es[i])
  BY DEF TreeOK
<1>2. /\ ns[i] \in ReadType /\ EntryOK(ns, sd, i) /\ Len(ns) \in Nat /\ i \in Nat
      /\ ns[i].kids \in Seq(Nat) /\ Len(ns[i].kids) \in Nat /\ sd \in Seq(Places)
      /\ \A k \in 1..Len(ns[i].kids) : ns[i].kids[k] \in 1..Len(ns)
  <2>1. /\ ns[i] \in ReadType /\ EntryOK(ns, sd, i) /\ Len(ns) \in Nat
        /\ ns[i].kids \in Seq(Nat) /\ Len(ns[i].kids) \in Nat
        /\ \A k \in 1..Len(ns[i].kids) : ns[i].kids[k] \in 1..Len(ns)
    BY <1>1, NodeIs
  <2>2. sd \in Seq(Places)
    BY <1>1 DEF WellFormed
  <2> QED
    BY <2>1, <2>2
<1>3. /\ \A k \in 1..Len(ns[i].kids) :
           /\ ns[i].kids[k] = Past(es, ns[i].kids, i, k - 1) + 1
           /\ ns[ns[i].kids[k]].parent = ParentField(ns[ns[i].kids[k]].etype, i)
      /\ Past(es, ns[i].kids, i, Len(ns[i].kids)) = es[i]
  BY <1>1 DEF KidsSpan
<1>4. ns[i].etype # "Dir" => ns[i].kids = <<>> /\ ~ns[i].err
  BY <1>2 DEF EntryOK
<1>5. ns[i].kids = <<>> => es[i] = i
  BY <1>3 DEF Past
<1> QED
  BY <1>1, <1>2, <1>3, <1>4, <1>5

(* The item that is parsed next is that of the next entry.                       *)
NextUp(im, cs, v, outer, root) ==
  IF cs = <<>> THEN im = <<>> /\ v = root /\ outer = NoDev
  ELSE /\ cs[Len(cs)].rest # <<>> /\ v = Head(cs[Len(cs)].rest)
       /\ outer = cs[Len(cs)].dev

NextIs(c, cs, v, outer, ns, F) ==
  /\ c \in 1..Len(ns) /\ outer \in Outers /\ v = F[c][outer]
  /\ ns[c].parent = ParentAt(cs, ns[c].etype)
  /\ IF cs = <<>> THEN ns[c].etype = "Dir"
     ELSE LET top == cs[Len(cs)]
              ks == ns[top.id].kids
          IN  Len(top.child_ids) + 1 \in 1..Len(ks) /\ ks[Len(top.child_ids) + 1] = c

LEMMA NextItem ==
  ASSUME NEW ns, NEW sd, NEW es, TreeOK(ns, sd, es), NEW F, ItemsOf(F, ns, sd),
         NEW im, NEW dv, NEW cs, NEW V, NEW e, ImportOK(im, dv, cs, V, e),
         Agrees(im, dv, cs, ns, sd, F, es),
         NEW v, NEW outer, NextUp(im, cs, v, outer, F[1][NoDev])
  PROVE  NextIs(Len(im) + 1, cs, v, outer, ns, F)
<1> DEFINE up == Len(cs)
           c == Len(im) + 1
<1>0. /\ Len(im) \in Nat /\ up \in Nat /\ cs \in Seq(CallType(V)) /\ Len(ns) \in Nat
      /\ 1 \in 1..Len(ns)
  <2>1. WellFormed(ns, sd) /\ ns # <<>>
    BY DEF TreeOK
  <2>2. Len(ns) \in Nat /\ Len(ns) # 0
    BY <2>1, EmptySeq, LenProperties DEF WellFormed
  <2> QED
    BY <2>2, ImportFacts
<1>1. CASE cs = <<>>
  <2>1. c = 1 /\ v = F[1][NoDev] /\ outer = NoDev
    BY <1>1 DEF NextUp
  <2>2. ns[1].etype = "Dir" /\ ns[1].parent = NoEntry
    BY DEF TreeOK
  <2> QED
    BY <1>0, <1>1, <2>1, <2>2 DEF Outers, ParentAt, NextIs
<1>2. CASE cs # <<>>
  <2> DEFINE top == cs[up]
             d == top.id
             ks == ns[d].kids
             p == Len(top.child_ids)
  <2>1. up \in 1..Len(cs) /\ up # 0
    BY <1>0, <1>2, EmptySeq
  <2>2. /\ d \in 1..Len(im) /\ top.dev \in Places /\ top.rest \in Seq(V) /\ p \in Nat
    BY <2>1, CallFacts
  <2>3. /\ top.rest # <<>> /\ v = Head(top.rest) /\ outer = top.dev
    BY <1>2 DEF NextUp
  <2>4. CallBack(im, cs, ns, sd, F, es, up) /\ Len(im) <= Len(ns)
    BY <2>1 DEF Agrees
  <2>5. /\ p + Len(top.rest) = Len(ks) /\ Len(im) = Past(es, ks, d, p)
        /\ \A k \in 1..Len(top.rest) : top.rest[k] = F[ks[p + k]][top.dev]
    BY <2>4 DEF CallBack, Begun
  <2>6. Len(top.rest) \in Nat /\ 1 \in 1..Len(top.rest) /\ v = top.rest[1]
    BY <2>2, <2>3, Unread
  <2>7. d \in 1..Len(ns)
    BY <1>0, <2>2, <2>4
  <2>8. Len(ks) \in Nat /\ \A k \in 1..Len(ks) :
          /\ ks[k] \in 1..Len(ns) /\ ks[k] = Past(es, ks, d, k - 1) + 1
          /\ ns[ks[k]].parent = ParentField(ns[ks[k]].etype, d)
    <3>1. PICK j \in 1..Len(ns) : j = d
      BY <2>7
    <3>2. /\ Len(ns[j].kids) \in Nat
          /\ \A k \in 1..Len(ns[j].kids) :
               /\ ns[j].kids[k] \in 1..Len(ns)
               /\ ns[j].kids[k] = Past(es, ns[j].kids, j, k - 1) + 1
               /\ ns[ns[j].kids[k]].parent = ParentField(ns[ns[j].kids[k]].etype, j)
      BY TreeFacts
    <3> QED
      BY <3>1, <3>2
  <2>9. p + 1 \in 1..Len(ks) /\ (p + 1) - 1 = p
    <3> HIDE DEF p, ks, top
    <3> QED  BY <2>2, <2>5, <2>6, <2>8
  <2>10. /\ ks[p + 1] \in 1..Len(ns) /\ ks[p + 1] = Past(es, ks, d, p) + 1
         /\ ns[ks[p + 1]].parent = ParentField(ns[ks[p + 1]].etype, d)
    BY <2>8, <2>9
  <2>11. ks[p + 1] = c /\ v = F[c][outer]
    BY <2>3, <2>5, <2>6, <2>10
  <2> QED
    BY <1>2, <2>2, <2>3, <2>9, <2>10, <2>11 DEF ParentAt, Outers, Places, NextIs
<1> QED
  BY <1>1, <1>2

(* The node made of the item of an entry is that entry again.                    *)
LEMMA MadeBack ==
  ASSUME NEW ns, NEW sd, WellFormed(ns, sd), NEW F, ItemsOf(F, ns, sd),
         NEW c \in 1..Len(ns), NEW outer \in Outers, NEW m, NEW p, NEW dv2,
         Len(dv2) \in Nat, MadeNode(m, F[c][outer], outer, p, dv2)
  PROVE  /\ NodeBack(m, ns[c], dv2, sd)
         /\ (F[c][outer].kind = "dir" <=> ns[c].etype = "Dir")
         /\ ns[c].etype = "Dir" => Dev(F[c][outer], outer) = DevOf(sd, ns[c])
<1> DEFINE v == F[c][outer]
           n == ns[c]
<1>0. /\ v.kind = IF n.etype = "Dir" THEN "dir" ELSE "entry"
      /\ v.obj = Fields(sd, n, outer)
      /\ v.rest = [k \in 1..Len(n.kids) |-> F[n.kids[k]][DevOf(sd, n)]]
  BY ItemFields
<1>1. v.kind = (IF n.etype = "Dir" THEN "dir" ELSE "entry") /\ v.obj = Fields(sd, n, outer)
  BY <1>0
<1>2. n \in ReadType /\ EntryOK(ns, sd, c)
  BY NodeIs
<1>3. n.blocks \in Nat /\ n.err \in BOOLEAN /\ (n.etype # "Dir" => ~n.err)
  BY <1>2, SinkAssumption DEF ReadType, EntryOK
<1> HIDE DEF v, n
<1>4. /\ EType(v) = n.etype /\ v.obj.read_error = (n.etype = "Err" \/ n.err)
      /\ n.etype = "Dir" => Dev(v, outer) = DevOf(sd, n)
  BY <1>1, <1>2, <1>3, TypeBack
<1>5. BlocksBack(n, Or(v.obj.dsize, 0) \div Unit)
  BY <1>1, <1>3, SizeBack
<1>6. MadeNode(m, v, outer, p, dv2)
  BY DEF v
<1>7. m.etype = n.etype /\ BlocksBack(n, m.blocks)
  BY <1>4, <1>5, <1>6 DEF MadeNode
<1>8. m.err = n.err
  <2>1. CASE n.etype = "Dir"
    <3>1. m.err = v.obj.read_error
      BY <1>1, <1>6, <2>1 DEF MadeNode
    <3>2. n.etype # "Err"
      BY <2>1
    <3>3. v.obj.read_error = (n.etype = "Err" \/ n.err)
      BY <1>4
    <3>4. CASE n.err = TRUE
      BY <3>1, <3>3, <3>4
    <3>5. CASE n.err = FALSE
      BY <3>1, <3>2, <3>3, <3>5
    <3> QED
      BY <1>3, <3>4, <3>5
  <2>2. CASE n.etype # "Dir"
    BY <1>1, <1>3, <1>6, <2>2 DEF MadeNode
  <2> QED
    BY <2>1, <2>2
<1>9. n.etype = "Dir" => DevOf(dv2, m) = DevOf(sd, n)
  BY <1>1, <1>4, <1>6 DEF MadeNode, DevOf
<1> QED
  BY <1>1, <1>4, <1>7, <1>8, <1>9 DEF NodeBack, v, n

(* So each item that is parsed brings the import one entry further, ...           *)
LEMMA MadeAgrees ==
  ASSUME NEW ns, NEW sd, NEW es, TreeOK(ns, sd, es), NEW F, ItemsOf(F, ns, sd),
         NEW im, NEW dv, NEW cs, NEW V, NEW e, ImportOK(im, dv, cs, V, e),
         Agrees(im, dv, cs, ns, sd, F, es),
         NEW v, NEW outer, NextUp(im, cs, v, outer, F[1][NoDev]),
         NEW im2, NEW dv2, NEW cs2, Made(im, dv, cs, v, outer, V, im2, dv2, cs2)
  PROVE  Agrees(im2, dv2, cs2, ns, sd, F, es)
<1> DEFINE n == Len(im)
           up == Len(cs)
           dir == v.kind = "dir"
<1>z. n \in Nat /\ up \in Nat /\ Len(dv) \in Nat /\ cs \in Seq(CallType(V))
  BY ImportFacts
<1>y. PICK c \in Nat : c = n + 1
  BY <1>z
<1>0. /\ n \in Nat /\ c \in Nat /\ up \in Nat /\ Len(dv) \in Nat /\ cs \in Seq(CallType(V))
      /\ WellFormed(ns, sd)
  BY <1>z DEF TreeOK
<1>1. /\ dv2 \in Seq(Places) /\ Len(dv) <= Len(dv2) /\ Len(dv2) \in Nat
      /\ \A i \in 1..Len(dv) : dv2[i] = dv[i]
      /\ im2 \in Seq(ReadType) /\ Len(im2) = c
      /\ \A i \in 1..n : im2[i] = im[i]
      /\ cs2 \in Seq(CallType(V)) /\ Len(cs2) = IF dir THEN up + 1 ELSE up
      /\ \A l \in 1..up :
           /\ cs2[l].id = cs[l].id /\ cs2[l].dev = cs[l].dev
           /\ cs2[l].rest = IF l = up THEN Tail(cs[l].rest) ELSE cs[l].rest
           /\ cs2[l].child_ids = IF l = up /\ ~dir THEN Append(cs[l].child_ids, c)
                                                   ELSE cs[l].child_ids
      /\ dir => /\ cs2[up + 1].id = c /\ cs2[up + 1].dev = Dev(v, outer)
                /\ cs2[up + 1].rest = v.rest /\ cs2[up + 1].child_ids = <<>>
      /\ MadeNode(im2[c], v, outer, ParentAt(cs, EType(v)), dv2)
  BY <1>y, LenProperties DEF Made
<1>2. /\ c \in 1..Len(ns) /\ outer \in Outers /\ v = F[c][outer]
      /\ ns[c].parent = ParentAt(cs, ns[c].etype)
      /\ cs = <<>> => ns[c].etype = "Dir"
      /\ cs # <<>> => LET top == cs[up]
                          ks == ns[top.id].kids
                      IN  /\ Len(top.child_ids) + 1 \in 1..Len(ks)
                          /\ ks[Len(top.child_ids) + 1] = c
  <2>1. NextIs(c, cs, v, outer, ns, F)
    BY <1>y, NextItem
  <2> QED
    BY <2>1 DEF NextIs
<1>b. MadeNode(im2[c], F[c][outer], outer, ParentAt(cs, EType(v)), dv2)
  BY <1>1, <1>2
<1>3. /\ NodeBack(im2[c], ns[c], dv2, sd)
      /\ (dir <=> ns[c].etype = "Dir")
      /\ dir => Dev(v, outer) = DevOf(sd, ns[c])
  <2>1. c \in 1..Len(ns) /\ outer \in Outers /\ Len(dv2) \in Nat /\ WellFormed(ns, sd)
    BY <1>0, <1>1, <1>2
  <2>2. /\ NodeBack(im2[c], ns[c], dv2, sd)
        /\ (F[c][outer].kind = "dir" <=> ns[c].etype = "Dir")
        /\ ns[c].etype = "Dir" => Dev(F[c][outer], outer) = DevOf(sd, ns[c])
    BY <1>b, <2>1, MadeBack
  <2> QED
    BY <1>2, <2>2
<1>4. /\ ns[c] \in ReadType /\ ns[c].kids \in Seq(Nat) /\ Len(ns[c].kids) \in Nat
      /\ ns[c].etype # "Dir" => ns[c].kids = <<>> /\ es[c] = c
      /\ v.rest = [k \in 1..Len(ns[c].kids) |-> F[ns[c].kids[k]][DevOf(sd, ns[c])]]
  <2>1. /\ F[c][outer].kind = IF ns[c].etype = "Dir" THEN "dir" ELSE "entry"
        /\ F[c][outer].obj = Fields(sd, ns[c], outer)
        /\ F[c][outer].rest = [k \in 1..Len(ns[c].kids) |-> F[ns[c].kids[k]][DevOf(sd, ns[c])]]
    BY <1>0, <1>2, ItemFields
  <2>2. c \in 1..Len(ns)
    BY <1>2
  <2>3. ns[c] \in ReadType /\ ns[c].kids \in Seq(Nat) /\ Len(ns[c].kids) \in Nat
    BY <2>2, TreeFacts
  <2>4. ns[c].etype # "Dir" => ns[c].kids = <<>> /\ es[c] = c
    BY <2>2, TreeFacts
  <2> QED
    BY <1>2, <2>1, <2>3, <2>4
<1>a. /\ im2[c].etype = EType(v) /\ im2[c].kids = <<>>
      /\ im2[c].parent = IF dir THEN NoEntry ELSE ParentAt(cs, EType(v))
  BY <1>1 DEF MadeNode
<1>5. OpenAt(cs) \subseteq 1..n
  BY CallFacts DEF OpenAt
<1> HIDE DEF n, up
<1>6. /\ OpenAt(cs) \subseteq OpenAt(cs2)
      /\ dir => c \in OpenAt(cs2)
  <2>1. up + 1 \in 1..(up + 1) /\ 1..up \subseteq 1..Len(cs2)
    BY <1>0, <1>1
  <2> QED
    BY <1>0, <1>1, <2>1 DEF OpenAt, up
<1>7. ASSUME NEW i \in 1..c PROVE NodeBack(im2[i], ns[i], dv2, sd)
  <2>1. CASE i = c
    BY <1>3, <2>1
  <2>2. CASE i \in 1..n
    <3>1. NodeBack(im[i], ns[i], dv, sd) /\ im2[i] = im[i]
      BY <1>1, <2>2 DEF Agrees, n
    <3>2. im[i] \in ReadType /\ EntryOK(im, dv, i)
      BY <2>2, DoneFacts DEF n
    <3>3. im[i].etype = "Dir" => DevOf(dv2, im[i]) = DevOf(dv, im[i])
      <4> SUFFICES ASSUME im[i].etype = "Dir" PROVE DevOf(dv2, im[i]) = DevOf(dv, im[i])
        OBVIOUS
      <4>1. im[i].dev \in 1..Len(dv) /\ im[i].dev \in 1..Len(dv2)
        BY <1>0, <1>1, <3>2 DEF EntryOK
      <4> QED
        BY <1>1, <4>1 DEF DevOf
    <3> QED
      BY <3>1, <3>3 DEF NodeBack
  <2> QED
    BY <1>0, <1>y, <2>1, <2>2
<1>8. ASSUME NEW i \in 1..c, i \notin OpenAt(cs2)
      PROVE  im2[i].kids = ns[i].kids /\ im2[i].parent = ns[i].parent
  <2>1. CASE i = c
    <3>a. ~dir
      BY <1>6, <1>8, <2>1
    <3>b. EType(v) = ns[c].etype
      BY <1>3, <1>a DEF NodeBack
    <3>1. ~dir /\ EType(v) = ns[c].etype
      BY <3>a, <3>b
    <3> QED
      BY <1>2, <1>3, <1>4, <1>a, <2>1, <3>1
  <2>2. CASE i \in 1..n
    <3>1. im2[i] = im[i] /\ i \notin OpenAt(cs) /\ i \in 1..Len(im)
      BY <1>1, <1>6, <1>8, <2>2 DEF n
    <3> QED
      BY <3>1 DEF Agrees
  <2> QED
    BY <1>0, <1>y, <2>1, <2>2
<1>9. ASSUME NEW l \in 1..Len(cs2) PROVE CallBack(im2, cs2, ns, sd, F, es, l)
  <2>1. CASE l \in 1..up /\ l # up
    <3>1. l # Len(cs) /\ l # Len(cs2) /\ l + 1 \in 1..up
      BY <1>0, <1>1, <2>1 DEF up
    <3>2. /\ cs2[l].id = cs[l].id /\ cs2[l].dev = cs[l].dev /\ cs2[l].rest = cs[l].rest
          /\ cs2[l].child_ids = cs[l].child_ids /\ cs2[l + 1].id = cs[l + 1].id
      BY <1>1, <2>1, <3>1
    <3>3. CallBack(im, cs, ns, sd, F, es, l)
      BY <2>1 DEF Agrees, up
    <3> QED
      BY <3>1, <3>2, <3>3 DEF CallBack, Begun
  <2>2. CASE l \in 1..up /\ l = up
    <3> DEFINE d == cs[up].id
               ks == ns[d].kids
               ids == cs[up].child_ids
               p == Len(ids)
               rest == cs[up].rest
    <3>1. up \in 1..Len(cs) /\ cs # <<>>
      BY <1>0, <2>2 DEF up
    <3>2. /\ p + 1 \in 1..Len(ks) /\ ks[p + 1] = c
      BY <1>2, <3>1
    <3>3. CallBack(im, cs, ns, sd, F, es, up)
      BY <3>1 DEF Agrees
    <3>4. /\ cs[up].dev = DevOf(sd, ns[d]) /\ p + Len(rest) = Len(ks)
          /\ \A k \in 1..p : ids[k] = ks[k]
          /\ \A k \in 1..Len(rest) : rest[k] = F[ks[p + k]][cs[up].dev]
      BY <3>3 DEF CallBack, Begun, up
    <3>5. rest \in Seq(V) /\ rest # <<>> /\ ids \in Seq(Nat) /\ p \in Nat /\ d \in 1..n
      BY <3>1, CallFacts DEF NextUp, up, n
    <3>6. /\ Len(rest) \in Nat /\ Len(Tail(rest)) = Len(rest) - 1
          /\ \A k \in 1..(Len(rest) - 1) : Tail(rest)[k] = rest[k + 1]
      BY <3>5, Unread
    <3>7. cs2[l].id = d /\ cs2[l].dev = cs[up].dev /\ cs2[l].rest = Tail(rest)
      BY <1>1, <2>2
    <3> HIDE DEF d, ks, ids, p, rest
    <3>8. (p + 1) + Len(Tail(rest)) = Len(ks)
      BY <3>4, <3>5, <3>6
    <3>9. \A k \in 1..Len(Tail(rest)) : Tail(rest)[k] = F[ks[(p + 1) + k]][cs[up].dev]
      <4> SUFFICES ASSUME NEW k \in 1..Len(Tail(rest))
                   PROVE  Tail(rest)[k] = F[ks[(p + 1) + k]][cs[up].dev]
        OBVIOUS
      <4>1. k + 1 \in 1..Len(rest) /\ k \in 1..(Len(rest) - 1) /\ p + (k + 1) = (p + 1) + k
        BY <3>5, <3>6
      <4>2. rest[k + 1] = F[ks[p + (k + 1)]][cs[up].dev]
        BY <3>4, <4>1
      <4> QED
        BY <3>6, <4>1, <4>2
    <3>10. CASE dir
      <4>1. cs2[l].child_ids = ids /\ l # Len(cs2) /\ cs2[l + 1].id = c
        BY <1>0, <1>1, <2>2, <3>10 DEF ids
      <4>2. Begun(cs2, l) = p + 1
        BY <4>1 DEF Begun, p
      <4> QED
        BY <3>2, <3>4, <3>7, <3>8, <3>9, <4>1, <4>2 DEF CallBack, d, ks, p
    <3>11. CASE ~dir
      <4>1. cs2[l].child_ids = Append(ids, c) /\ l = Len(cs2)
        BY <1>0, <1>1, <2>2, <3>11 DEF ids
      <4>2. /\ Len(Append(ids, c)) = p + 1 /\ Append(ids, c)[p + 1] = c
            /\ \A k \in 1..p : Append(ids, c)[k] = ids[k]
        BY <1>0, <3>5, AppendProperties DEF p
      <4>3. Begun(cs2, l) = p + 1
        BY <4>1, <4>2 DEF Begun
      <4>4. Len(im2) = Past(es, ks, d, p + 1)
        <5>1. es[ks[p + 1]] = c /\ p + 1 # 0
          BY <1>3, <1>4, <3>2, <3>5, <3>11
        <5> QED
          BY <1>1, <5>1 DEF Past
      <4>5. \A k \in 1..(p + 1) : Append(ids, c)[k] = ks[k]
        BY <3>2, <3>4, <3>5, <4>2
      <4> QED
        BY <3>4, <3>7, <3>8, <3>9, <4>1, <4>2, <4>3, <4>4, <4>5 DEF CallBack, d, ks
    <3> QED
      BY <3>10, <3>11
  <2>3. CASE dir /\ l = up + 1
    <3>1. /\ l = Len(cs2) /\ cs2[l].id = c /\ cs2[l].dev = DevOf(sd, ns[c])
          /\ cs2[l].rest = v.rest /\ cs2[l].child_ids = <<>> /\ Begun(cs2, l) = 0
      BY <1>1, <1>3, <2>3 DEF Begun
    <3>2. Len(v.rest) = Len(ns[c].kids)
      BY <1>4
    <3>3. \A k \in 1..Len(v.rest) : v.rest[k] = F[ns[c].kids[0 + k]][DevOf(sd, ns[c])]
      BY <1>4, <3>2
    <3>4. Len(im2) = Past(es, ns[c].kids, c, 0)
      BY <1>1 DEF Past
    <3> QED
      BY <1>4, <3>1, <3>2, <3>3, <3>4 DEF CallBack
  <2> QED
    BY <1>0, <1>1, <2>1, <2>2, <2>3
<1>10. cs2 # <<>>
  <2>1. CASE cs = <<>>
    BY <1>0, <1>1, <1>2, <1>3, <2>1
  <2>2. CASE cs # <<>>
    <3>1. up # 0
      BY <1>0, <2>2, EmptySeq DEF up
    <3> QED
      BY <1>0, <1>1, <3>1
  <2> QED
    BY <2>1, <2>2
<1> QED
  BY <1>1, <1>2, <1>7, <1>8, <1>9, <1>10 DEF Agrees

(* ... and each end of a directory one list.                                   *)
LEMMA EndedAgrees ==
  ASSUME NEW ns, NEW sd, NEW es, TreeOK(ns, sd, es), NEW F,
         NEW im, NEW dv, NEW cs, NEW V, NEW e, ImportOK(im, dv, cs, V, e),
         Agrees(im, dv, cs, ns, sd, F, es),
         NEW im2, NEW cs2, Ended(im, cs, V, im2, cs2)
  PROVE  Agrees(im2, dv, cs2, ns, sd, F, es)
<1> DEFINE n == Len(im)
           up == Len(cs) - 1
           cks == cs[up + 1].child_ids
<1>0. /\ n \in Nat /\ up \in Nat /\ Len(cs) = up + 1 /\ up + 1 \in 1..Len(cs)
      /\ Len(dv) \in Nat /\ cs \in Seq(CallType(V)) /\ dv \in Seq(Places)
      /\ \A l \in 1..up : l \in 1..Len(cs) /\ l < up + 1
  BY ImportFacts, Callers DEF Ended
<1>z. PICK c : c = cs[up + 1].id
  OBVIOUS
<1>1. /\ im2 \in Seq(ReadType) /\ Len(im2) = n
      /\ \A i \in 1..n : i # c => im2[i] = im[i]
      /\ im2[c].etype = im[c].etype /\ im2[c].dev = im[c].dev /\ im2[c].kids = cks
      /\ im2[c].err = im[c].err /\ im2[c].blocks = im[c].blocks
      /\ im2[c].parent = IF up = 0 THEN im[c].parent ELSE cs[up].id
      /\ cs2 \in Seq(CallType(V)) /\ Len(cs2) = up
      /\ \A l \in 1..up :
           /\ cs2[l].id = cs[l].id /\ cs2[l].dev = cs[l].dev /\ cs2[l].rest = cs[l].rest
           /\ cs2[l].child_ids = IF l = up THEN Append(cs[l].child_ids, c)
                                           ELSE cs[l].child_ids
      /\ cs[up + 1].rest = <<>>
  BY <1>z DEF Ended
<1>2. /\ c \in 1..n /\ c \in Nat /\ c \in OpenAt(cs) /\ im[c].etype = "Dir"
      /\ cks \in Seq(Nat) /\ Len(cks) \in Nat
  BY <1>0, <1>z, CallFacts
<1>3. \A l \in 1..up : cs[l].id < c /\ cs[l].id \in Nat /\ cs[l].id # c
  <2> SUFFICES ASSUME NEW l \in 1..up
               PROVE  cs[l].id < c /\ cs[l].id \in Nat /\ cs[l].id # c
    OBVIOUS
  <2>1. l \in 1..Len(cs) /\ l < up + 1
    BY <1>0
  <2>2. /\ cs[l].id \in Nat
        /\ \A m \in 1..Len(cs) : l < m => cs[l].id < cs[m].id
    BY <2>1, CallFacts
  <2> QED
    BY <1>0, <1>2, <1>z, <2>1, <2>2
<1> HIDE DEF n, up, cks
<1>4. OpenAt(cs) \ {c} \subseteq OpenAt(cs2)
  <2>1. \A l \in 1..Len(cs) : l \in 1..up \/ cs[l].id = c
    BY <1>0, <1>z
  <2> QED
    BY <1>0, <1>1, <2>1 DEF OpenAt
<1>5. /\ n <= Len(ns) /\ c \in 1..Len(ns)
      /\ \A i \in 1..n : NodeBack(im[i], ns[i], dv, sd)
      /\ \A i \in 1..n : i \notin OpenAt(cs) => im[i].kids = ns[i].kids /\ im[i].parent = ns[i].parent
      /\ \A l \in 1..(up + 1) : CallBack(im, cs, ns, sd, F, es, l)
  <2>1. Len(ns) \in Nat
    <3>1. WellFormed(ns, sd)
      BY DEF TreeOK
    <3> QED
      BY <3>1, LenProperties DEF WellFormed
  <2>2. n <= Len(ns)
    BY DEF Agrees, n
  <2> QED
    BY <1>0, <1>2, <2>1, <2>2 DEF Agrees, n
<1>6. /\ ns[c].kids \in Seq(Nat) /\ Len(ns[c].kids) \in Nat
      /\ Past(es, ns[c].kids, c, Len(ns[c].kids)) = es[c]
  BY <1>5, TreeFacts
<1>7. cks = ns[c].kids /\ n = es[c]
  <2>1. CallBack(im, cs, ns, sd, F, es, up + 1)
    BY <1>0, <1>5
  <2>2. /\ Len(cks) + Len(<<>>) = Len(ns[c].kids)
        /\ \A k \in 1..Len(cks) : cks[k] = ns[c].kids[k]
        /\ n = Past(es, ns[c].kids, c, Len(cks))
    BY <1>0, <1>1, <1>z, <2>1 DEF CallBack, Begun, cks, n
  <2>3. Len(cks) = Len(ns[c].kids)
    BY <1>2, <2>2
  <2>4. cks = ns[c].kids
    BY <1>2, <1>6, <2>2, <2>3, SeqEqual
  <2> QED
    BY <1>6, <2>2, <2>4
<1>8. ns[c].etype = "Dir"
  BY <1>2, <1>5 DEF NodeBack
(* Where the caller's list names it. *)
<1>9. ASSUME up # 0
      PROVE  LET ks == ns[cs[up].id].kids
                 p == Len(cs[up].child_ids)
             IN  /\ p \in Nat /\ cs[up].child_ids \in Seq(Nat) /\ ks[p + 1] = c
                 /\ ns[c].parent = cs[up].id
  <2> DEFINE d == cs[up].id
             ks == ns[d].kids
             p == Len(cs[up].child_ids)
  <2>1. up \in 1..Len(cs) /\ up # Len(cs) /\ up \in 1..(up + 1)
    BY <1>0, <1>9
  <2>2. d \in 1..n /\ cs[up].child_ids \in Seq(Nat) /\ p \in Nat /\ cs[up].rest \in Seq(V)
    BY <2>1, CallFacts DEF n
  <2>3. CallBack(im, cs, ns, sd, F, es, up)
    BY <1>5, <2>1
  <2>4. p + 1 + Len(cs[up].rest) = Len(ks) /\ ks[p + 1] = c
    BY <1>z, <2>1, <2>3 DEF CallBack, Begun
  <2>5. Len(cs[up].rest) \in Nat
    BY <2>2, LenProperties
  <2>6. PICK j \in 1..Len(ns) : j = d
    <3>1. n <= Len(ns) /\ Len(ns) \in Nat
      BY <1>5, TreeFacts
    <3> QED
      BY <1>0, <2>2, <3>1
  <2>7. Len(ns[j].kids) \in Nat /\ \A k \in 1..Len(ns[j].kids) :
          ns[ns[j].kids[k]].parent = ParentField(ns[ns[j].kids[k]].etype, j)
    BY TreeFacts
  <2>8. p + 1 \in 1..Len(ns[j].kids)
    <3> HIDE DEF p, ks, d
    <3>1. p + 1 + Len(cs[up].rest) = Len(ns[j].kids)
      BY <2>4, <2>6 DEF ks
    <3>2. p \in Nat /\ Len(ns[j].kids) \in Nat
      BY <2>2, <2>7
    <3>3. PICK a \in Nat, b \in Nat, q \in Nat :
            a = Len(cs[up].rest) /\ b = Len(ns[j].kids) /\ q = p
      BY <2>5, <3>2
    <3>4. q + 1 + a = b
      BY <3>1, <3>3
    <3>5. q + 1 \in 1..b
      BY <3>4
    <3> QED
      BY <3>3, <3>5
  <2>9. ns[c].parent = ParentField(ns[c].etype, d)
    BY <2>4, <2>6, <2>7, <2>8
  <2> QED
    BY <1>8, <2>2, <2>4, <2>9 DEF ParentField
<1>10. up = 0 => c = 1 /\ im[1].parent = NoEntry /\ ns[1].parent = NoEntry /\ es[1] = Len(ns)
  <2>1. cs # <<>>
    BY DEF Ended
  <2>2. 1 \in 1..n
    BY <1>0, <1>2
  <2>3. im # <<>>
    BY <2>2 DEF n
  <2> QED
    BY <1>z, <2>1, <2>3 DEF ImportOK, TreeOK
<1>11. ASSUME NEW i \in 1..n PROVE NodeBack(im2[i], ns[i], dv, sd)
  <2>1. CASE i = c
    <3>1. DevOf(dv, im2[c]) = DevOf(dv, im[c])
      BY <1>1 DEF DevOf
    <3> QED
      BY <1>1, <1>5, <2>1, <3>1 DEF NodeBack
  <2>2. CASE i # c
    BY <1>1, <1>5, <2>2
  <2> QED
    BY <2>1, <2>2
<1>12. ASSUME NEW i \in 1..n, i \notin OpenAt(cs2)
       PROVE  im2[i].kids = ns[i].kids /\ im2[i].parent = ns[i].parent
  <2>1. CASE i = c
    <3>1. CASE up = 0
      BY <1>1, <1>7, <1>10, <2>1, <3>1
    <3>2. CASE up # 0
      BY <1>1, <1>7, <1>9, <2>1, <3>2
    <3> QED
      BY <3>1, <3>2
  <2>2. CASE i # c
    <3>1. i \notin OpenAt(cs)
      BY <1>4, <1>12, <2>2
    <3> QED
      BY <1>1, <1>5, <2>2, <3>1
  <2> QED
    BY <2>1, <2>2
<1>13. ASSUME NEW l \in 1..up PROVE CallBack(im2, cs2, ns, sd, F, es, l)
  <2>0. CallBack(im, cs, ns, sd, F, es, l) /\ l # Len(cs)
    BY <1>0, <1>5
  <2>1. CASE l # up
    <3>1. l + 1 \in 1..up /\ l # Len(cs2)
      BY <1>0, <1>1, <2>1
    <3> QED
      BY <1>1, <2>0, <2>1, <3>1 DEF CallBack, Begun
  <2>2. CASE l = up
    <3> DEFINE d == cs[up].id
               ks == ns[d].kids
               ids == cs[up].child_ids
               p == Len(ids)
    <3>0. up # 0
      BY <1>0, <2>2
    <3>1. p \in Nat /\ ids \in Seq(Nat) /\ ks[p + 1] = c
      BY <1>9, <3>0
    <3>2. /\ cs[up].dev = DevOf(sd, ns[d])
          /\ (p + 1) + Len(cs[up].rest) = Len(ks)
          /\ \A k \in 1..p : ids[k] = ks[k]
          /\ \A k \in 1..Len(cs[up].rest) : cs[up].rest[k] = F[ks[(p + 1) + k]][cs[up].dev]
      BY <2>0, <2>2 DEF CallBack, Begun
    <3>3. /\ cs2[l].id = d /\ cs2[l].dev = cs[up].dev /\ cs2[l].rest = cs[up].rest
          /\ cs2[l].child_ids = Append(ids, c) /\ l = Len(cs2)
      BY <1>1, <2>2
    <3> HIDE DEF d, ks, ids, p
    <3>4. /\ Len(Append(ids, c)) = p + 1 /\ Append(ids, c)[p + 1] = c
          /\ \A k \in 1..p : Append(ids, c)[k] = ids[k]
      BY <1>2, <3>1, AppendProperties DEF p
    <3>5. Begun(cs2, l) = p + 1
      BY <3>3, <3>4 DEF Begun
    <3>6. \A k \in 1..(p + 1) : Append(ids, c)[k] = ks[k]
      <4> SUFFICES ASSUME NEW k \in 1..(p + 1) PROVE Append(ids, c)[k] = ks[k]
        OBVIOUS
      <4>1. k \in 1..p \/ k = p + 1
        BY <3>1
      <4> QED
        BY <3>1, <3>2, <3>4, <4>1
    <3>7. Len(im2) = Past(es, ks, d, p + 1)
      <4>1. p + 1 # 0
        BY <3>1
      <4> QED
        BY <1>1, <1>7, <3>1, <4>1 DEF Past
    <3> QED
      BY <3>2, <3>3, <3>4, <3>5, <3>6, <3>7 DEF CallBack, d, ks
  <2> QED
    BY <2>1, <2>2
<1>14. cs2 = <<>> => n = Len(ns)
  <2> SUFFICES ASSUME cs2 = <<>> PROVE n = Len(ns)
    OBVIOUS
  <2>1. up = 0
    BY <1>1
  <2> QED
    BY <1>7, <1>10, <2>1
<1> QED
  BY <1>1, <1>5, <1>11, <1>12, <1>13, <1>14 DEF Agrees

----------------------------------------------------------------------------
(* What was read is what the dump says: every entry is made from the item R gives *)
(* it, and what the calls have left is the rest of their items.                  *)
MadeOf(m, r, dv) ==
  /\ r.item.kind # "malformed" /\ m.etype = EType(r.item)
  /\ m.etype = "Dir" <=> r.item.kind = "dir"
  /\ m.blocks = Or(r.item.obj.dsize, 0) \div Unit
  /\ m.etype = "Dir" => DevOf(dv, m) = r.dev

ReadAt(R, c, d, k) == R[c] = Found(R[d].item.rest[k], R[d].dev)

ListRead(R, d, ks) == \A k \in 1..Len(ks) : ReadAt(R, ks[k], d, k)

CallRead(cs, R, l) ==
  LET d == cs[l].id
      q == Begun(cs, l)
  IN  /\ cs[l].dev = R[d].dev /\ q + Len(cs[l].rest) = Len(R[d].item.rest)
      /\ ListRead(R, d, cs[l].child_ids)
      /\ \A k \in 1..Len(cs[l].rest) : cs[l].rest[k] = R[d].item.rest[q + k]
      /\ l # Len(cs) => ReadAt(R, cs[l + 1].id, d, q)

DoneRead(m, R, i) ==
  m.etype = "Dir" => /\ Len(m.kids) = Len(R[i].item.rest) /\ m.items = Len(R[i].item.rest)
                     /\ ListRead(R, i, m.kids)

ReadOK(im, dv, cs, R, root) ==
  /\ \A i \in 1..Len(im) : MadeOf(im[i], R[i], dv)
  /\ \A i \in 1..Len(im) : i \notin OpenAt(cs) => DoneRead(im[i], R, i)
  /\ \A l \in 1..Len(cs) : CallRead(cs, R, l)
  /\ im # <<>> => R[1] = Found(root, NoDev)

LEMMA NothingRead ==
  ASSUME NEW dv, NEW R, NEW root PROVE ReadOK(<<>>, dv, <<>>, R, root)
BY DEF ReadOK

LEMMA FoundIs ==
  ASSUME NEW v, NEW outer
  PROVE  Found(v, outer).item = v /\ Found(v, outer).dev = Dev(v, outer)
BY DEF Found, Dev, Or

LEMMA SameList ==
  ASSUME NEW R, NEW R2, NEW d, R2[d] = R[d], NEW ks, ListRead(R, d, ks),
         \A k \in 1..Len(ks) : R2[ks[k]] = R[ks[k]]
  PROVE  ListRead(R2, d, ks)
BY DEF ListRead, ReadAt

(* Each entry that is made is made from the next item, ...                        *)
WithItem(R, n, r) == [i \in 1..(n + 1) |-> IF i = n + 1 THEN r ELSE R[i]]

LEMMA MadeReads ==
  ASSUME NEW im, NEW dv, NEW cs, NEW V, NEW e, ImportOK(im, dv, cs, V, e), Sound(V),
         NEW v \in V, v.kind # "malformed", NEW outer, NEW R, NEW root,
         ReadOK(im, dv, cs, R, root), NextUp(im, cs, v, outer, root),
         NEW im2, NEW dv2, NEW cs2, Made(im, dv, cs, v, outer, V, im2, dv2, cs2)
  PROVE  ReadOK(im2, dv2, cs2, WithItem(R, Len(im), Found(v, outer)), root)
<1> DEFINE n == Len(im)
           up == Len(cs)
           dir == v.kind = "dir"
           R2 == WithItem(R, n, Found(v, outer))
<1>y. PICK c : c = n + 1
  OBVIOUS
<1>0. /\ n \in Nat /\ c \in Nat /\ up \in Nat /\ Len(dv) \in Nat /\ cs \in Seq(CallType(V))
      /\ (cs = <<>> <=> up = 0) /\ (im = <<>> => n = 0)
  BY <1>y, EmptySeq, ImportFacts
<1>1. /\ dv2 \in Seq(Places) /\ Len(dv) <= Len(dv2) /\ \A i \in 1..Len(dv) : dv2[i] = dv[i]
      /\ im2 \in Seq(ReadType) /\ Len(im2) = c /\ \A i \in 1..n : im2[i] = im[i]
      /\ MadeNode(im2[c], v, outer, ParentAt(cs, EType(v)), dv2)
      /\ cs2 \in Seq(CallType(V)) /\ Len(cs2) = IF dir THEN up + 1 ELSE up
      /\ \A l \in 1..up :
           /\ cs2[l].id = cs[l].id /\ cs2[l].dev = cs[l].dev
           /\ cs2[l].rest = IF l = up THEN Tail(cs[l].rest) ELSE cs[l].rest
           /\ cs2[l].child_ids = IF l = up /\ ~dir THEN Append(cs[l].child_ids, c)
                                                   ELSE cs[l].child_ids
      /\ dir => /\ cs2[up + 1].id = c /\ cs2[up + 1].dev = Dev(v, outer)
                /\ cs2[up + 1].rest = v.rest /\ cs2[up + 1].child_ids = <<>>
  BY <1>y DEF Made
<1>2. Len(dv2) \in Nat
  BY <1>1, LenProperties
<1>3. /\ R2[c] = Found(v, outer) /\ R2[c].item = v /\ R2[c].dev = Dev(v, outer)
      /\ \A i \in 1..n : R2[i] = R[i]
  BY <1>0, <1>y, FoundIs DEF WithItem
<1>4. v.rest \in Seq(V) /\ Len(v.rest) \in Nat
  BY LenProperties DEF Sound, ItemOK
<1>5. OpenAt(cs) \subseteq OpenAt(cs2) /\ (dir => c \in OpenAt(cs2))
  <2>1. up + 1 \in 1..(up + 1) /\ 1..up \subseteq 1..Len(cs2)
    BY <1>0, <1>1
  <2> QED
    BY <1>0, <1>1, <2>1 DEF OpenAt
<1> HIDE DEF n, up, R2
<1>6. \A i \in 1..Len(im2) : i = c \/ i \in 1..n
  BY <1>0, <1>1, <1>y
<1>7. ASSUME NEW i \in 1..Len(im2) PROVE MadeOf(im2[i], R2[i], dv2)
  <2>1. CASE i = c
    <3>1. /\ im2[c].etype = EType(v) /\ im2[c].blocks = Or(v.obj.dsize, 0) \div Unit
          /\ dir => im2[c].dev \in 1..Len(dv2) /\ dv2[im2[c].dev] = Dev(v, outer)
      BY <1>1 DEF MadeNode
    <3>2. EType(v) = "Dir" <=> dir
      BY DirType
    <3>3. dir => DevOf(dv2, im2[c]) = Dev(v, outer)
      BY <3>1 DEF DevOf
    <3> QED
      BY <1>3, <2>1, <3>1, <3>2, <3>3 DEF MadeOf
  <2>2. CASE i \in 1..n
    <3>1. MadeOf(im[i], R[i], dv) /\ im2[i] = im[i] /\ R2[i] = R[i]
      BY <1>1, <1>3, <2>2 DEF ReadOK, n
    <3>2. im[i] \in ReadType /\ EntryOK(im, dv, i)
      BY <2>2, DoneFacts DEF n
    <3>3. im[i].etype = "Dir" => DevOf(dv2, im[i]) = DevOf(dv, im[i])
      <4> SUFFICES ASSUME im[i].etype = "Dir" PROVE DevOf(dv2, im[i]) = DevOf(dv, im[i])
        OBVIOUS
      <4>1. im[i].dev \in 1..Len(dv) /\ im[i].dev \in 1..Len(dv2)
        BY <1>0, <1>1, <1>2, <3>2 DEF EntryOK
      <4> QED
        BY <1>1, <4>1 DEF DevOf
    <3> QED
      BY <3>1, <3>3 DEF MadeOf
  <2> QED
    BY <1>6, <2>1, <2>2
<1>8. ASSUME NEW i \in 1..Len(im2), i \notin OpenAt(cs2) PROVE DoneRead(im2[i], R2, i)
  <2>1. CASE i = c
    <3>1. im2[c].etype # "Dir"
      BY <1>1, <1>5, <1>8, <2>1, DirType DEF MadeNode
    <3> QED
      BY <2>1, <3>1 DEF DoneRead
  <2>2. CASE i \in 1..n
    <3>1. im2[i] = im[i] /\ i \notin OpenAt(cs) /\ i \in 1..Len(im) /\ R2[i] = R[i]
      BY <1>1, <1>3, <1>5, <1>8, <2>2 DEF n
    <3>2. DoneRead(im[i], R, i)
      BY <3>1 DEF ReadOK
    <3>3. \A k \in 1..Len(im[i].kids) : im[i].kids[k] \in 1..n
      <4>1. \A k \in 1..Len(im[i].kids) : im[i].kids[k] \in (i + 1)..Len(im)
        BY <3>1, DoneFacts
      <4> QED
        BY <1>0, <3>1, <4>1 DEF n
    <3>4. \A k \in 1..Len(im[i].kids) : R2[im[i].kids[k]] = R[im[i].kids[k]]
      BY <1>3, <3>3
    <3>5. ListRead(R, i, im[i].kids) => ListRead(R2, i, im[i].kids)
      BY <3>1, <3>4, SameList
    <3> QED
      BY <3>1, <3>2, <3>5 DEF DoneRead
  <2> QED
    BY <1>6, <2>1, <2>2
<1>9. ASSUME NEW l \in 1..up
      PROVE  /\ CallRead(cs, R, l) /\ cs[l].id \in 1..n /\ R2[cs[l].id] = R[cs[l].id]
             /\ cs[l].child_ids \in Seq(Nat) /\ Len(cs[l].child_ids) \in Nat
             /\ ListRead(R2, cs[l].id, cs[l].child_ids)
  <2>1. l \in 1..Len(cs)
    BY DEF up
  <2>2. CallRead(cs, R, l)
    BY <2>1 DEF ReadOK
  <2>3. /\ cs[l].id \in 1..Len(im) /\ cs[l].child_ids \in Seq(Nat)
        /\ Len(cs[l].child_ids) \in Nat
        /\ \A k \in 1..Len(cs[l].child_ids) : cs[l].child_ids[k] \in 1..Len(im)
    BY <2>1, CallFacts
  <2>4. R2[cs[l].id] = R[cs[l].id]
    BY <1>3, <2>3 DEF n
  <2>5. \A k \in 1..Len(cs[l].child_ids) : R2[cs[l].child_ids[k]] = R[cs[l].child_ids[k]]
    BY <1>3, <2>3 DEF n
  <2>6. ListRead(R, cs[l].id, cs[l].child_ids)
    BY <2>2 DEF CallRead
  <2>7. ListRead(R2, cs[l].id, cs[l].child_ids)
    BY <2>4, <2>5, <2>6, SameList
  <2> QED
    BY <2>2, <2>3, <2>4, <2>7 DEF n
<1>10. ASSUME NEW l \in 1..Len(cs2) PROVE CallRead(cs2, R2, l)
  <2>1. CASE l \in 1..up /\ l # up
    <3>1. l # Len(cs) /\ l # Len(cs2) /\ l + 1 \in 1..up
      BY <1>0, <1>1, <2>1 DEF up
    <3>2. /\ cs2[l].id = cs[l].id /\ cs2[l].dev = cs[l].dev /\ cs2[l].rest = cs[l].rest
          /\ cs2[l].child_ids = cs[l].child_ids /\ cs2[l + 1].id = cs[l + 1].id
      BY <1>1, <2>1, <3>1
    <3>3. /\ CallRead(cs, R, l) /\ R2[cs[l].id] = R[cs[l].id]
          /\ ListRead(R2, cs[l].id, cs[l].child_ids)
      BY <1>9, <2>1
    <3>4. R2[cs[l + 1].id] = R[cs[l + 1].id]
      BY <1>9, <3>1
    <3>5. Begun(cs2, l) = Begun(cs, l)
      BY <3>1, <3>2 DEF Begun
    <3> QED
      BY <3>1, <3>2, <3>3, <3>4, <3>5 DEF CallRead, ReadAt
  <2>2. CASE l \in 1..up /\ l = up
    <3> DEFINE d == cs[up].id
               ids == cs[up].child_ids
               p == Len(ids)
               rest == cs[up].rest
               all == R[d].item.rest
    <3>1. up \in 1..Len(cs) /\ cs # <<>>
      BY <1>0, <2>2 DEF up
    <3>2. /\ CallRead(cs, R, up) /\ R2[d] = R[d] /\ ids \in Seq(Nat) /\ p \in Nat
          /\ ListRead(R2, d, ids)
      BY <1>9, <2>2
    <3>3. /\ cs[up].dev = R[d].dev /\ p + Len(rest) = Len(all)
          /\ \A k \in 1..Len(rest) : rest[k] = all[p + k]
      BY <3>2 DEF CallRead, Begun, up
    <3>4. rest \in Seq(V) /\ rest # <<>> /\ v = Head(rest) /\ outer = cs[up].dev
      BY <3>1, CallFacts DEF NextUp, up
    <3>5. /\ Len(rest) \in Nat /\ Len(Tail(rest)) = Len(rest) - 1 /\ 1 <= Len(rest)
          /\ \A k \in 1..(Len(rest) - 1) : Tail(rest)[k] = rest[k + 1]
          /\ v = rest[1]
      BY <3>4, Unread
    <3>6. cs2[l].id = d /\ cs2[l].dev = cs[up].dev /\ cs2[l].rest = Tail(rest)
      BY <1>1, <2>2
    <3> HIDE DEF d, ids, p, rest, all
    <3>7. (p + 1) + Len(Tail(rest)) = Len(all)
      <4>1. PICK q \in Nat, m \in Nat : q = p /\ m = Len(rest)
        BY <3>2, <3>5
      <4>2. PICK a : a = Len(all)
        OBVIOUS
      <4>3. q + m = a /\ Len(Tail(rest)) = m - 1
        BY <3>3, <3>5, <4>1, <4>2
      <4>4. (q + 1) + (m - 1) = a
        BY <4>3
      <4> QED
        BY <4>1, <4>2, <4>3, <4>4
    <3>8. \A k \in 1..Len(Tail(rest)) : Tail(rest)[k] = all[(p + 1) + k]
      <4> SUFFICES ASSUME NEW k \in 1..Len(Tail(rest)) PROVE Tail(rest)[k] = all[(p + 1) + k]
        OBVIOUS
      <4>1. k + 1 \in 1..Len(rest) /\ k \in 1..(Len(rest) - 1) /\ p + (k + 1) = (p + 1) + k
        BY <3>2, <3>5
      <4>2. rest[k + 1] = all[p + (k + 1)]
        BY <3>3, <4>1
      <4> QED
        BY <3>5, <4>1, <4>2
    <3>9. ReadAt(R2, c, d, p + 1)
      <4>1. v = all[p + 1]
        BY <3>3, <3>5
      <4> QED
        BY <1>3, <3>2, <3>3, <3>4, <4>1 DEF ReadAt, all
    <3>10. CASE dir
      <4>1. cs2[l].child_ids = ids /\ l # Len(cs2) /\ cs2[l + 1].id = c
        BY <1>0, <1>1, <2>2, <3>10 DEF ids
      <4>2. Begun(cs2, l) = p + 1
        BY <4>1 DEF Begun, p
      <4> QED
        BY <3>2, <3>3, <3>6, <3>7, <3>8, <3>9, <4>1, <4>2 DEF CallRead, all
    <3>11. CASE ~dir
      <4>1. cs2[l].child_ids = Append(ids, c) /\ l = Len(cs2)
        BY <1>0, <1>1, <2>2, <3>11 DEF ids
      <4>2. /\ Len(Append(ids, c)) = p + 1 /\ Append(ids, c)[p + 1] = c
            /\ \A k \in 1..p : Append(ids, c)[k] = ids[k]
        BY <1>0, <3>2, AppendProperties DEF p
      <4>3. Begun(cs2, l) = p + 1
        BY <4>1, <4>2 DEF Begun
      <4>4. ListRead(R2, d, Append(ids, c))
        <5>1. \A k \in 1..(p + 1) : k \in 1..p \/ k = p + 1
          BY <3>2
        <5> QED
          BY <3>2, <3>9, <4>2, <5>1 DEF ListRead, p
      <4> QED
        BY <3>2, <3>3, <3>6, <3>7, <3>8, <4>1, <4>3, <4>4 DEF CallRead, all
    <3> QED
      BY <3>10, <3>11
  <2>3. CASE dir /\ l = up + 1
    <3>1. /\ l = Len(cs2) /\ cs2[l].id = c /\ cs2[l].dev = R2[c].dev
          /\ cs2[l].rest = v.rest /\ cs2[l].child_ids = <<>> /\ Begun(cs2, l) = 0
      BY <1>1, <1>3, <2>3 DEF Begun
    <3>2. \A k \in 1..Len(v.rest) : v.rest[k] = v.rest[0 + k]
      BY <1>4
    <3>3. ListRead(R2, c, <<>>)
      BY DEF ListRead
    <3>4. 0 + Len(v.rest) = Len(v.rest)
      BY <1>4
    <3> QED
      BY <1>3, <3>1, <3>2, <3>3, <3>4 DEF CallRead
  <2> QED
    BY <1>0, <1>1, <2>1, <2>2, <2>3
<1>11. R2[1] = Found(root, NoDev)
  <2>1. CASE im = <<>>
    <3>1. cs = <<>>
      BY <2>1, NoneOpen
    <3>2. v = root /\ outer = NoDev /\ c = 1
      BY <1>0, <1>y, <2>1, <3>1 DEF NextUp, n
    <3> QED
      BY <1>3, <3>2
  <2>2. CASE im # <<>>
    <3>1. im \in Seq(ReadType)
      BY ImportFacts
    <3>2. 1 \in 1..n
      BY <1>0, <2>2, <3>1, EmptySeq DEF n
    <3>3. R[1] = Found(root, NoDev)
      BY <2>2 DEF ReadOK
    <3> QED
      BY <1>3, <3>2, <3>3
  <2> QED
    BY <2>1, <2>2
<1> QED
  BY <1>7, <1>8, <1>10, <1>11 DEF ReadOK, R2, n

(* ... and each end of a directory finds its array read to the end.                *)
LEMMA EndedReads ==
  ASSUME NEW im, NEW dv, NEW cs, NEW V, NEW e, ImportOK(im, dv, cs, V, e),
         NEW R, NEW root, ReadOK(im, dv, cs, R, root),
         NEW im2, NEW cs2, Ended(im, cs, V, im2, cs2)
  PROVE  ReadOK(im2, dv, cs2, R, root)
<1> DEFINE n == Len(im)
           up == Len(cs) - 1
           cks == cs[up + 1].child_ids
<1>0. /\ n \in Nat /\ up \in Nat /\ Len(cs) = up + 1 /\ up + 1 \in 1..Len(cs)
      /\ cs \in Seq(CallType(V)) /\ \A l \in 1..up : l \in 1..Len(cs) /\ l < up + 1
  BY ImportFacts, Callers DEF Ended
<1>z. PICK c : c = cs[up + 1].id
  OBVIOUS
<1>1. /\ im2 \in Seq(ReadType) /\ Len(im2) = n
      /\ \A i \in 1..n : i # c => im2[i] = im[i]
      /\ im2[c].etype = im[c].etype /\ im2[c].dev = im[c].dev /\ im2[c].kids = cks
      /\ im2[c].items = Len(cks) /\ im2[c].blocks = im[c].blocks
      /\ cs2 \in Seq(CallType(V)) /\ Len(cs2) = up
      /\ \A l \in 1..up :
           /\ cs2[l].id = cs[l].id /\ cs2[l].dev = cs[l].dev /\ cs2[l].rest = cs[l].rest
           /\ cs2[l].child_ids = IF l = up THEN Append(cs[l].child_ids, c)
                                           ELSE cs[l].child_ids
      /\ cs[up + 1].rest = <<>>
  BY <1>z DEF Ended
<1>2. c \in 1..n /\ c \in Nat /\ cks \in Seq(Nat) /\ Len(cks) \in Nat
  BY <1>0, <1>z, CallFacts
<1> HIDE DEF n, up, cks
<1>4. OpenAt(cs) \ {c} \subseteq OpenAt(cs2)
  <2>1. \A l \in 1..Len(cs) : l \in 1..up \/ cs[l].id = c
    BY <1>0, <1>z
  <2> QED
    BY <1>0, <1>1, <2>1 DEF OpenAt
<1>5. \A l \in 1..(up + 1) : CallRead(cs, R, l)
  BY <1>0 DEF ReadOK
<1>6. ASSUME NEW i \in 1..n PROVE MadeOf(im2[i], R[i], dv)
  <2>1. MadeOf(im[i], R[i], dv)
    BY DEF ReadOK, n
  <2>2. CASE i = c
    <3>1. DevOf(dv, im2[c]) = DevOf(dv, im[c])
      BY <1>1 DEF DevOf
    <3> QED
      BY <1>1, <2>1, <2>2, <3>1 DEF MadeOf
  <2>3. CASE i # c
    BY <1>1, <2>1, <2>3
  <2> QED
    BY <2>2, <2>3
<1>7. ASSUME NEW i \in 1..n, i \notin OpenAt(cs2) PROVE DoneRead(im2[i], R, i)
  <2>1. CASE i = c
    <3>1. CallRead(cs, R, up + 1)
      BY <1>0, <1>5
    <3>2. Len(cks) + Len(<<>>) = Len(R[c].item.rest) /\ ListRead(R, c, cks)
      BY <1>0, <1>1, <1>z, <3>1 DEF CallRead, Begun, cks
    <3>3. Len(cks) = Len(R[c].item.rest)
      BY <1>2, <3>2
    <3> QED
      BY <1>1, <2>1, <3>2, <3>3 DEF DoneRead
  <2>2. CASE i # c
    <3>1. i \notin OpenAt(cs) /\ i \in 1..Len(im)
      BY <1>4, <1>7, <2>2 DEF n
    <3> QED
      BY <1>1, <2>2, <3>1 DEF ReadOK
  <2> QED
    BY <2>1, <2>2
<1>8. ASSUME NEW l \in 1..up PROVE CallRead(cs2, R, l)
  <2>0. CallRead(cs, R, l) /\ l # Len(cs)
    BY <1>0, <1>5
  <2>1. CASE l # up
    <3>1. l + 1 \in 1..up /\ l # Len(cs2)
      BY <1>0, <1>1, <2>1
    <3> QED
      BY <1>1, <2>0, <2>1, <3>1 DEF CallRead, Begun
  <2>2. CASE l = up
    <3> DEFINE d == cs[up].id
               ids == cs[up].child_ids
               p == Len(ids)
    <3>1. p \in Nat /\ ids \in Seq(Nat)
      BY <1>0, <2>2, CallFacts
    <3>2. /\ cs[up].dev = R[d].dev /\ (p + 1) + Len(cs[up].rest) = Len(R[d].item.rest)
          /\ ListRead(R, d, ids) /\ ReadAt(R, c, d, p + 1)
          /\ \A k \in 1..Len(cs[up].rest) : cs[up].rest[k] = R[d].item.rest[(p + 1) + k]
      BY <1>z, <2>0, <2>2 DEF CallRead, Begun
    <3>3. /\ cs2[l].id = d /\ cs2[l].dev = cs[up].dev /\ cs2[l].rest = cs[up].rest
          /\ cs2[l].child_ids = Append(ids, c) /\ l = Len(cs2)
      BY <1>1, <2>2
    <3> HIDE DEF d, ids, p
    <3>4. /\ Len(Append(ids, c)) = p + 1 /\ Append(ids, c)[p + 1] = c
          /\ \A k \in 1..p : Append(ids, c)[k] = ids[k]
      BY <1>2, <3>1, AppendProperties DEF p
    <3>5. Begun(cs2, l) = p + 1
      BY <3>3, <3>4 DEF Begun
    <3>6. ListRead(R, d, Append(ids, c))
      <4>1. \A k \in 1..(p + 1) : k \in 1..p \/ k = p + 1
        BY <3>1
      <4> QED
        BY <3>2, <3>4, <4>1 DEF ListRead, p
    <3> QED
      BY <3>2, <3>3, <3>5, <3>6 DEF CallRead
  <2> QED
    BY <2>1, <2>2
<1>9. im2 # <<>> => R[1] = Found(root, NoDev)
  <2>1. im # <<>>
    BY <1>2 DEF n
  <2> QED
    BY <2>1 DEF ReadOK
<1> QED
  BY <1>1, <1>6, <1>7, <1>8, <1>9 DEF ReadOK

----------------------------------------------------------------------------
(* The dumps of other programs, level by level: what is malformed in an item is    *)
(* found in what holds it.                                                     *)
SpoiltIn(k, within) ==
  {v \in Nested[k] : v.kind = "malformed" \/ \E j \in 1..Len(v.rest) : v.rest[j] \in within}

Tiers(S) == S = [k \in 0..Len(Nested) |-> IF k = 0 THEN {} ELSE SpoiltIn(k, S[k - 1])]
SpoiltAt == CHOOSE S : Tiers(S)

LEMMA LevelsExist == \E S : Tiers(S)
<1> DEFINE n == Len(Nested)
           Solves(f, m) == f = [k \in 0..m |-> IF k = 0 THEN {} ELSE SpoiltIn(k, f[k - 1])]
           Solvable == {m \in Nat : \E f : Solves(f, m)}
<1>1. n \in Nat
  BY JsonAssumption
<1>2. 0 \in Solvable
  <2>1. Solves([k \in 0..0 |-> {}], 0)
    OBVIOUS
  <2> QED
    BY <2>1
<1>3. ASSUME NEW m \in Nat, m \in Solvable PROVE m + 1 \in Solvable
  <2>1. PICK f : Solves(f, m)
    BY <1>3
  <2> DEFINE g == [k \in 0..(m + 1) |-> IF k = m + 1 THEN SpoiltIn(m + 1, f[m]) ELSE f[k]]
  <2>2. g[m + 1] = SpoiltIn(m + 1, f[m]) /\ \A k \in 0..m : g[k] = f[k]
    OBVIOUS
  <2>3. g = [k \in 0..(m + 1) |-> g[k]]
    OBVIOUS
  <2> HIDE DEF g
  <2>4. ASSUME NEW k \in 0..(m + 1)
        PROVE  g[k] = IF k = 0 THEN {} ELSE SpoiltIn(k, g[k - 1])
    <3>1. CASE k = m + 1
      <4>1. k # 0 /\ k - 1 = m /\ m \in 0..m
        BY <3>1
      <4> QED
        BY <2>2, <3>1, <4>1
    <3>2. CASE k \in 0..m
      <4>1. f[k] = IF k = 0 THEN {} ELSE SpoiltIn(k, f[k - 1])
        BY <2>1, <3>2
      <4>2. k # 0 => k - 1 \in 0..m
        BY <3>2
      <4> QED
        BY <2>2, <3>2, <4>1, <4>2
    <3> QED
      BY <3>1, <3>2
  <2>5. Solves(g, m + 1)
    BY <2>3, <2>4
  <2> HIDE DEF Solves
  <2> QED
    BY <2>5
<1>4. n \in Solvable
  <2> HIDE DEF Solvable
  <2> QED  BY <1>1, <1>2, <1>3, SetInduction
<1> QED
  BY <1>4 DEF Tiers

LEMMA SpoiltLevels ==
  /\ Tiers(SpoiltAt) /\ Spoilt = SpoiltAt[Len(Nested)]
  /\ \A k \in 1..Len(Nested) : SpoiltAt[k] = SpoiltIn(k, SpoiltAt[k - 1])
<1>1. Tiers(SpoiltAt)
  BY LevelsExist DEF SpoiltAt
<1>2. Spoilt = SpoiltAt[Len(Nested)]
  BY DEF Spoilt, SpoiltAt, Tiers, SpoiltIn
<1>3. \A k \in 1..Len(Nested) : SpoiltAt[k] = SpoiltIn(k, SpoiltAt[k - 1])
  <2> SUFFICES ASSUME NEW k \in 1..Len(Nested) PROVE SpoiltAt[k] = SpoiltIn(k, SpoiltAt[k - 1])
    OBVIOUS
  <2>1. k \in 0..Len(Nested) /\ k # 0
    BY JsonAssumption
  <2> QED
    BY <1>1, <2>1 DEF Tiers
<1> QED
  BY <1>1, <1>2, <1>3

(* v is at level g of a dump that is spoilt if it is.                             *)
Spoils(v, g, dm) ==
  /\ g \in 1..Len(Nested) /\ v \in Nested[g]
  /\ v \in SpoiltAt[g] => dm[1] \in Spoilt

LEMMA SpoilsBelow ==
  ASSUME NEW v, NEW g, NEW dm, Spoils(v, g, dm)
  PROVE  /\ v.kind = "malformed" => dm[1] \in Spoilt
         /\ \A k \in 1..Len(v.rest) : Spoils(v.rest[k], g - 1, dm)
<1>1. /\ g \in 1..Len(Nested) /\ v \in Nested[g] /\ (v \in SpoiltAt[g] => dm[1] \in Spoilt)
      /\ Len(Nested) \in Nat
  BY JsonAssumption DEF Spoils
<1>2. SpoiltAt[g] = SpoiltIn(g, SpoiltAt[g - 1])
  BY <1>1, SpoiltLevels
<1>3. v.kind = "malformed" => dm[1] \in Spoilt
  BY <1>1, <1>2 DEF SpoiltIn
<1>4. ASSUME NEW k \in 1..Len(v.rest) PROVE Spoils(v.rest[k], g - 1, dm)
  <2>1. v.rest \in Seq(IF g = 1 THEN {} ELSE Nested[g - 1])
    BY <1>1, JsonAssumption
  <2>2. v.rest[k] \in IF g = 1 THEN {} ELSE Nested[g - 1]
    BY <2>1, ElementOfSeq
  <2>3. g - 1 \in 1..Len(Nested) /\ v.rest[k] \in Nested[g - 1]
    BY <1>1, <2>2
  <2>4. v.rest[k] \in SpoiltAt[g - 1] => v \in SpoiltAt[g]
    BY <1>1, <1>2 DEF SpoiltIn
  <2> QED
    BY <1>1, <2>3, <2>4 DEF Spoils
<1> QED
  BY <1>3, <1>4

Graded(org, dm, cs) ==
  org = "other" =>
    /\ dm # <<>> /\ dm[1] \in Foreign
    /\ \A l \in 1..Len(cs) : \A k \in 1..Len(cs[l].rest) :
         Spoils(cs[l].rest[k], Len(Nested) - l, dm)

LEMMA NextSpoils ==
  ASSUME NEW im, NEW dv, NEW cs, NEW V, NEW e, ImportOK(im, dv, cs, V, e),
         NEW org, org = "other", NEW dm, Graded(org, dm, cs),
         NEW v, NEW outer, NextUp(im, cs, v, outer, dm[1])
  PROVE  Spoils(v, Len(Nested) - Len(cs), dm)
<1>0. Len(cs) \in Nat /\ cs \in Seq(CallType(V)) /\ Len(Nested) \in Nat /\ Len(Nested) # 0
  BY ImportFacts, JsonAssumption
<1>1. CASE cs = <<>>
  <2>1. v = dm[1] /\ dm[1] \in Nested[Len(Nested)] /\ Len(Nested) - Len(cs) = Len(Nested)
    BY <1>0, <1>1 DEF NextUp, Graded, Foreign
  <2> QED
    BY <1>0, <2>1, SpoiltLevels DEF Spoils
<1>2. CASE cs # <<>>
  <2>1. Len(cs) \in 1..Len(cs)
    BY <1>0, <1>2, EmptySeq
  <2>2. cs[Len(cs)].rest \in Seq(V)
    BY <2>1, CallFacts
  <2>3. cs[Len(cs)].rest # <<>> /\ v = Head(cs[Len(cs)].rest)
    BY <1>2 DEF NextUp
  <2>4. 1 \in 1..Len(cs[Len(cs)].rest) /\ v = cs[Len(cs)].rest[1]
    BY <2>2, <2>3, Unread
  <2> QED
    BY <2>1, <2>4 DEF Graded
<1> QED
  BY <1>1, <1>2

LEMMA MadeGraded ==
  ASSUME NEW im, NEW dv, NEW cs, NEW V, NEW e, ImportOK(im, dv, cs, V, e),
         NEW org, NEW dm, Graded(org, dm, cs),
         NEW v, NEW outer, NextUp(im, cs, v, outer, dm[1]),
         NEW im2, NEW dv2, NEW cs2, Made(im, dv, cs, v, outer, V, im2, dv2, cs2)
  PROVE  Graded(org, dm, cs2)
<1> SUFFICES ASSUME org = "other", NEW l \in 1..Len(cs2), NEW k \in 1..Len(cs2[l].rest)
             PROVE  Spoils(cs2[l].rest[k], Len(Nested) - l, dm)
  BY DEF Graded
<1> DEFINE up == Len(cs)
<1>0. up \in Nat /\ cs \in Seq(CallType(V)) /\ Len(Nested) \in Nat
  BY ImportFacts, JsonAssumption
<1>1. /\ Len(cs2) = IF v.kind = "dir" THEN up + 1 ELSE up
      /\ \A m \in 1..up : cs2[m].rest = IF m = up THEN Tail(cs[m].rest) ELSE cs[m].rest
      /\ v.kind = "dir" => cs2[up + 1].rest = v.rest
  BY DEF Made
<1>2. \A m \in 1..up : \A j \in 1..Len(cs[m].rest) : Spoils(cs[m].rest[j], Len(Nested) - m, dm)
  BY DEF Graded
<1>3. CASE l \in 1..up /\ l # up
  BY <1>1, <1>2, <1>3
<1>4. CASE l \in 1..up /\ l = up
  <2>1. cs # <<>> /\ cs[up].rest \in Seq(V) /\ cs[up].rest # <<>>
    <3>1. cs # <<>>
      BY <1>0, <1>4, EmptySeq
    <3>2. cs[up].rest \in Seq(V)
      BY <1>4, CallFacts
    <3> QED
      BY <3>1, <3>2 DEF NextUp
  <2>2. /\ Len(cs[up].rest) \in Nat /\ Len(Tail(cs[up].rest)) = Len(cs[up].rest) - 1
        /\ \A i \in 1..(Len(cs[up].rest) - 1) : Tail(cs[up].rest)[i] = cs[up].rest[i + 1]
    BY <2>1, Unread
  <2>3. cs2[l].rest = Tail(cs[up].rest)
    BY <1>1, <1>4
  <2>4. k \in 1..(Len(cs[up].rest) - 1) /\ k + 1 \in 1..Len(cs[up].rest)
    BY <2>2, <2>3
  <2> QED
    BY <1>2, <1>4, <2>2, <2>3, <2>4
<1>5. CASE v.kind = "dir" /\ l = up + 1
  <2>1. Spoils(v, Len(Nested) - up, dm)
    BY NextSpoils
  <2>2. \A j \in 1..Len(v.rest) : Spoils(v.rest[j], Len(Nested) - up - 1, dm)
    <3>1. PICK g : g = Len(Nested) - up
      OBVIOUS
    <3> QED
      BY <2>1, <3>1, SpoilsBelow
  <2>3. Len(Nested) - up - 1 = Len(Nested) - l /\ cs2[l].rest = v.rest
    BY <1>0, <1>1, <1>5
  <2> QED
    BY <2>2, <2>3
<1> QED
  BY <1>0, <1>1, <1>3, <1>4, <1>5

LEMMA EndedGraded ==
  ASSUME NEW im, NEW dv, NEW cs, NEW V, NEW e, ImportOK(im, dv, cs, V, e),
         NEW org, NEW dm, Graded(org, dm, cs),
         NEW im2, NEW cs2, Ended(im, cs, V, im2, cs2)
  PROVE  Graded(org, dm, cs2)
<1>1. /\ Len(cs) - 1 \in Nat /\ \A l \in 1..(Len(cs) - 1) : l \in 1..Len(cs)
  BY ImportFacts, Callers DEF Ended
<1>2. Len(cs2) = Len(cs) - 1 /\ \A l \in 1..(Len(cs) - 1) : cs2[l].rest = cs[l].rest
  BY DEF Ended
<1> QED
  BY <1>1, <1>2 DEF Graded

----------------------------------------------------------------------------
(* The inductive invariant: a scan as it should be, an import whose arena and     *)
(* calls are in order and made from the dump, and, when a tree was exported, one    *)
(* that follows that tree.                                                      *)
Reads(dm, im, dv, cs) ==
  \E V, e : /\ Sound(V) /\ ImportOK(im, dv, cs, V, e)
            /\ dm # <<>> => dm[1] \in V

Mirrors(src, dm, im, dv, cs) ==
  src # <<>> =>
    \E F, es : LET ns == src[1].nodes
                   sd == src[1].devices
               IN  /\ TreeOK(ns, sd, es) /\ ItemsOf(F, ns, sd) /\ dm[1] = F[1][NoDev]
                   /\ Agrees(im, dv, cs, ns, sd, F, es)

JInv ==
  /\ ScanInv /\ refused \in BOOLEAN
  /\ Len(dump) \in 0..1 /\ Len(source) \in 0..1
  /\ imported # <<>> \/ source # <<>> \/ refused => dump # <<>>
  /\ dump # <<>> => source # <<>> \/ origin = "other"
  /\ refused => TooDeep(dump[1]) \/ (origin = "other" /\ dump[1] \in Spoilt)
  /\ imported # <<>> => ~TooDeep(dump[1])
  /\ Reads(dump, imported, idevices, calls)
  /\ Mirrors(source, dump, imported, idevices, calls)
  /\ Graded(origin, dump, calls)
  /\ \E R : ReadOK(imported, idevices, calls, R, dump[1])

LEMMA JInvInit == JInit => JInv
<1> SUFFICES ASSUME JInit PROVE JInv
  OBVIOUS
<1>1. ScanInv
  BY ScanInvInit DEF JInit
<1>2. /\ dump = <<>> /\ source = <<>> /\ imported = <<>> /\ idevices = <<>> /\ calls = <<>>
      /\ refused = FALSE /\ origin = "none"
  BY DEF JInit
<1>3. Sound({})
  BY DEF Sound
<1>4. ImportOK(<<>>, <<>>, <<>>, {}, <<>>)
  <2>1. <<>> \in Seq(Places)
    OBVIOUS
  <2> QED
    BY <2>1, NothingImported
<1>5. Reads(dump, imported, idevices, calls)
  BY <1>2, <1>3, <1>4 DEF Reads
<1>6. Mirrors(source, dump, imported, idevices, calls)
  BY <1>2 DEF Mirrors
<1>7. Len(dump) \in 0..1 /\ Len(source) \in 0..1 /\ ~(imported # <<>> \/ source # <<>>)
  BY <1>2
<1>8. refused \in BOOLEAN /\ ~refused /\ ~(dump # <<>>)
  BY <1>2
<1>9. Graded(origin, dump, calls)
  BY <1>2 DEF Graded
<1>10. ReadOK(imported, idevices, calls, <<>>, dump[1])
  BY <1>2, NothingRead
<1> QED
  BY <1>1, <1>5, <1>6, <1>7, <1>8, <1>9, <1>10 DEF JInv

(* An import that is over is a tree that can be exported again.                  *)
LEMMA ImportedTree ==
  ASSUME NEW im, NEW dv, NEW V, NEW e, ImportOK(im, dv, <<>>, V, e), im # <<>>,
         im[1].etype = "Dir"
  PROVE  TreeOK(im, dv, e)
<1>1. OpenAt(<<>>) = {}
  BY DEF OpenAt
<1>2. WellFormed(im, dv) /\ im[1].parent = NoEntry /\ e[1] = Len(im)
  BY DEF ImportOK
<1>3. ASSUME NEW i \in 1..Len(im)
      PROVE  e[i] \in i..Len(im) /\ KidsSpan(im, e, i, im[i].kids, e[i])
  BY <1>1, DoneFacts
<1> QED
  BY <1>2, <1>3 DEF TreeOK

(* A new dump, and nothing read of it yet.                                      *)
LEMMA Exported ==
  ASSUME NEW ns, NEW sd, NEW es, TreeOK(ns, sd, es), NEW dv \in Seq(Places)
  PROVE  LET dm == <<Item(ns, sd)>>
             src == <<Tree(ns, sd)>>
         IN  /\ Reads(dm, <<>>, dv, <<>>) /\ Mirrors(src, dm, <<>>, dv, <<>>)
             /\ Len(dm) = 1 /\ Len(src) = 1
<1> DEFINE dm == <<Item(ns, sd)>>
           src == <<Tree(ns, sd)>>
<1>1. WellFormed(ns, sd) /\ ns # <<>> /\ Len(ns) \in Nat /\ 1 \in 1..Len(ns)
  <2>1. WellFormed(ns, sd) /\ ns # <<>>
    BY DEF TreeOK
  <2>2. ns \in Seq(ReadType)
    BY <2>1 DEF WellFormed
  <2>3. Len(ns) \in Nat /\ Len(ns) # 0
    BY <2>1, <2>2, EmptySeq, LenProperties
  <2> QED
    BY <2>1, <2>3
<1>2. PICK F : ItemsOf(F, ns, sd) /\ Item(ns, sd) = F[1][NoDev]
  BY <1>1, ItemUnfolds
<1>3. dm[1] = F[1][NoDev] /\ dm # <<>> /\ Len(dm) = 1
  BY <1>2
<1>4. src[1].nodes = ns /\ src[1].devices = sd /\ Len(src) = 1
  BY DEF Tree
<1>5. Reads(dm, <<>>, dv, <<>>)
  <2> DEFINE V == {F[i][o] : i \in 1..Len(ns), o \in Outers}
  <2>1. Sound(V)
    BY <1>1, <1>2, SoundItems
  <2>2. NoDev \in Outers
    BY DEF Outers
  <2>3. dm[1] \in V
    BY <1>1, <1>3, <2>2
  <2> HIDE DEF V, dm
  <2>4. ImportOK(<<>>, dv, <<>>, V, <<>>)
    BY NothingImported
  <2> QED
    BY <2>1, <2>3, <2>4 DEF Reads
<1>6. Agrees(<<>>, dv, <<>>, ns, sd, F, es)
  BY <1>1, NothingAgrees
<1> HIDE DEF dm, src
<1>7. Mirrors(src, dm, <<>>, dv, <<>>)
  BY <1>2, <1>3, <1>4, <1>6 DEF Mirrors
<1> QED
  BY <1>3, <1>4, <1>5, <1>7 DEF dm, src

LEMMA DropStep ==
  ASSUME NEW src, NEW dm, NEW im, NEW dv, NEW cs, Reads(dm, im, dv, cs),
         Mirrors(src, dm, im, dv, cs)
  PROVE  Reads(dm, <<>>, <<>>, <<>>) /\ Mirrors(src, dm, <<>>, <<>>, <<>>)
<1>1. Reads(dm, <<>>, <<>>, <<>>)
  <2>1. PICK V : Sound(V) /\ (dm # <<>> => dm[1] \in V)
    BY DEF Reads
  <2>2. <<>> \in Seq(Places)
    OBVIOUS
  <2>3. ImportOK(<<>>, <<>>, <<>>, V, <<>>)
    BY <2>2, NothingImported
  <2> QED
    BY <2>1, <2>3 DEF Reads
<1>2. Mirrors(src, dm, <<>>, <<>>, <<>>)
  <2> SUFFICES ASSUME src # <<>> PROVE Mirrors(src, dm, <<>>, <<>>, <<>>)
    BY DEF Mirrors
  <2>1. PICK ns, sd : ns = src[1].nodes /\ sd = src[1].devices
    OBVIOUS
  <2>2. PICK F, es : TreeOK(ns, sd, es) /\ ItemsOf(F, ns, sd) /\ dm[1] = F[1][NoDev]
    BY <2>1 DEF Mirrors
  <2>3. Len(ns) \in Nat
    <3>1. ns \in Seq(ReadType)
      BY <2>2 DEF TreeOK, WellFormed
    <3> QED
      BY <3>1, LenProperties
  <2>4. Agrees(<<>>, <<>>, <<>>, ns, sd, F, es)
    BY <2>3, NothingAgrees
  <2> QED
    BY <2>1, <2>2, <2>4 DEF Mirrors
<1> QED
  BY <1>1, <1>2

(* No item of a dump that this program wrote is malformed.                         *)
LEMMA NextWritten ==
  ASSUME NEW src, NEW dm, NEW im, NEW dv, NEW cs, NEW V, NEW e, ImportOK(im, dv, cs, V, e),
         Mirrors(src, dm, im, dv, cs), src # <<>>, NEW v, NEW outer,
         NextUp(im, cs, v, outer, dm[1])
  PROVE  v.kind # "malformed"
<1>1. PICK ns, sd : ns = src[1].nodes /\ sd = src[1].devices
  OBVIOUS
<1>2. PICK F, es : /\ TreeOK(ns, sd, es) /\ ItemsOf(F, ns, sd) /\ dm[1] = F[1][NoDev]
                   /\ Agrees(im, dv, cs, ns, sd, F, es)
  BY <1>1 DEF Mirrors
<1>3. NextUp(im, cs, v, outer, F[1][NoDev])
  BY <1>2
<1>4. NextIs(Len(im) + 1, cs, v, outer, ns, F)
  BY <1>2, <1>3, NextItem
<1>5. PICK c : c \in 1..Len(ns) /\ outer \in Outers /\ v = F[c][outer]
  BY <1>4 DEF NextIs
<1>6. F[c][outer].kind = IF ns[c].etype = "Dir" THEN "dir" ELSE "entry"
  <2>1. F[c][outer] = Written(F, ns, sd, c, outer)
    BY <1>2, <1>5 DEF ItemsOf
  <2> QED
    BY <2>1 DEF Written
<1> QED
  BY <1>5, <1>6

LEMMA ParseItemStep ==
  ASSUME JInv, NEW V, NEW e, Sound(V), ImportOK(imported, idevices, calls, V, e),
         dump # <<>>, dump[1] \in V, ~TooDeep(dump[1]), NEW v \in V, NEW outer \in Places,
         NextUp(imported, calls, v, outer, dump[1]),
         ParseItem(v, outer)
  PROVE  JInv'
<1>0. /\ ScanInv' /\ dump' = dump /\ source' = source /\ origin' = origin
  <2>1. UNCHANGED vars /\ dump' = dump /\ source' = source /\ origin' = origin
    BY DEF ParseItem
  <2>2. ScanInv
    BY DEF JInv
  <2> QED
    BY <2>1, <2>2, ScanInvStep
<1>1. CASE v.kind = "malformed"
  <2>1. refused' = TRUE /\ imported' = <<>> /\ idevices' = <<>> /\ calls' = <<>>
    BY <1>1 DEF ParseItem, Fail
  <2>2. Reads(dump, <<>>, <<>>, <<>>) /\ Mirrors(source, dump, <<>>, <<>>, <<>>)
    BY DropStep DEF JInv
  <2>3. source = <<>>
    <3>1. Mirrors(source, dump, imported, idevices, calls)
      BY DEF JInv
    <3>2. source # <<>> => v.kind # "malformed"
      BY <3>1, NextWritten
    <3> QED
      BY <1>1, <3>2
  <2>4. origin = "other" /\ Graded(origin, dump, calls)
    BY <2>3 DEF JInv
  <2>5. dump[1] \in Spoilt
    <3>1. Spoils(v, Len(Nested) - Len(calls), dump)
      BY <2>4, NextSpoils
    <3> QED
      BY <1>1, <3>1, SpoilsBelow
  <2>6. Graded(origin, dump, <<>>)
    BY <2>4 DEF Graded
  <2>7. ReadOK(<<>>, <<>>, <<>>, <<>>, dump[1])
    BY NothingRead
  <2> QED
    BY <1>0, <2>1, <2>2, <2>3, <2>4, <2>5, <2>6, <2>7 DEF JInv
<1>2. CASE v.kind # "malformed"
  <2>1. Create(v, outer) /\ refused' = refused
    BY <1>2 DEF ParseItem, Create
  <2>2. /\ imported \in Seq(ReadType) /\ idevices \in Seq(Places)
        /\ calls \in Seq(CallType(V))
    BY ImportFacts
  <2>3. /\ calls # <<>> => calls[Len(calls)].rest # <<>>
        /\ calls = <<>> => imported = <<>>
    BY DEF NextUp
  <2>4. PICK im2, dv2, cs2 : im2 = imported' /\ dv2 = idevices' /\ cs2 = calls'
    OBVIOUS
  <2>5. Made(imported, idevices, calls, v, outer, V, imported', idevices', calls')
    BY <2>1, <2>2, <2>3, CreateEffect
  <2>6. Made(imported, idevices, calls, v, outer, V, im2, dv2, cs2)
    BY <2>4, <2>5
  <2>7. Reads(dump, im2, dv2, cs2)
    <3>1. PICK f : f = WithEnd(e, Len(imported))
      OBVIOUS
    <3>2. ImportOK(im2, dv2, cs2, V, f)
      BY <2>3, <2>6, <3>1, MadeKeeps
    <3> QED
      BY <3>2 DEF Reads
  <2>8. Mirrors(source, dump, im2, dv2, cs2)
    <3> SUFFICES ASSUME source # <<>> PROVE Mirrors(source, dump, im2, dv2, cs2)
      BY DEF Mirrors
    <3>1. PICK ns, sd : ns = source[1].nodes /\ sd = source[1].devices
      OBVIOUS
    <3>2. PICK F, es : /\ TreeOK(ns, sd, es) /\ ItemsOf(F, ns, sd) /\ dump[1] = F[1][NoDev]
                       /\ Agrees(imported, idevices, calls, ns, sd, F, es)
      BY <3>1 DEF JInv, Mirrors
    <3>3. NextUp(imported, calls, v, outer, F[1][NoDev])
      BY <3>2
    <3>4. Agrees(im2, dv2, cs2, ns, sd, F, es)
      BY <2>6, <3>2, <3>3, MadeAgrees
    <3> QED
      BY <3>1, <3>2, <3>4 DEF Mirrors
  <2>9. Graded(origin, dump, cs2)
    <3>1. Graded(origin, dump, calls)
      BY DEF JInv
    <3> QED
      BY <2>6, <3>1, MadeGraded
  <2>10. \E R : ReadOK(im2, dv2, cs2, R, dump[1])
    <3>1. PICK R : ReadOK(imported, idevices, calls, R, dump[1])
      BY DEF JInv
    <3>2. ReadOK(im2, dv2, cs2, WithItem(R, Len(imported), Found(v, outer)), dump[1])
      BY <1>2, <2>6, <3>1, MadeReads
    <3> QED
      BY <3>2
  <2> QED
    BY <1>0, <2>1, <2>4, <2>7, <2>8, <2>9, <2>10 DEF JInv
<1> QED
  BY <1>1, <1>2

(* Every step keeps the invariant.                                             *)
LEMMA JInvStep == JInv /\ [JNext]_jvars => JInv'
<1> SUFFICES ASSUME JInv, [JNext]_jvars PROVE JInv'
  OBVIOUS
<1>0. ScanInv /\ (UNCHANGED vars => ScanInv')
  BY ScanInvStep DEF JInv
<1>1. CASE Scan
  <2>1. /\ Next /\ dump' = dump /\ source' = source /\ imported' = imported
        /\ idevices' = idevices /\ calls' = calls /\ refused' = refused /\ origin' = origin
    BY <1>1 DEF Scan, importVars
  <2>2. ScanInv'
    BY <1>0, <2>1, ScanInvStep
  <2> QED
    BY <2>1, <2>2 DEF JInv
<1>2. CASE Receive
  <2>1. /\ UNCHANGED vars /\ dump = <<>> /\ source' = source /\ imported' = imported
        /\ idevices' = idevices /\ calls' = calls /\ refused' = refused /\ origin' = "other"
        /\ nodes = <<>>
    BY <1>2 DEF Receive, importVars
  <2>2. PICK v \in Foreign : dump' = <<v>>
    BY <1>2 DEF Receive
  <2>3. v \in Parts
    BY JsonAssumption DEF Foreign, Parts
  <2>4. imported = <<>> /\ source = <<>>
    BY <2>1 DEF JInv
  <2>5. PICK V, e : ImportOK(imported, idevices, calls, V, e)
    BY DEF JInv, Reads
  <2>6. calls = <<>> /\ idevices \in Seq(Places)
    BY <2>4, <2>5, NoneOpen, ImportFacts
  <2>7. ImportOK(<<>>, idevices, <<>>, Parts, e)
    BY <2>6, NothingImported
  <2>8. PICK dm : dm = dump'
    OBVIOUS
  <2>9. dm[1] \in Parts /\ Len(dm) = 1 /\ dm # <<>>
    BY <2>2, <2>3, <2>8
  <2>10. Reads(dm, imported, idevices, calls)
    BY <2>4, <2>6, <2>7, <2>9, SoundParts DEF Reads
  <2>11. Mirrors(source, dm, imported, idevices, calls)
    BY <2>4 DEF Mirrors
  <2>12. ~refused
    BY <2>1 DEF JInv
  <2>13. Graded("other", dm, calls)
    BY <2>2, <2>6, <2>8, <2>9 DEF Graded
  <2>14. ReadOK(imported, idevices, calls, <<>>, dm[1])
    BY <2>4, <2>6, NothingRead
  <2> QED
    BY <1>0, <2>1, <2>4, <2>8, <2>9, <2>10, <2>11, <2>12, <2>13, <2>14 DEF JInv
<1>3. CASE Export
  <2>1. /\ UNCHANGED vars /\ Finished /\ dump = <<>> /\ imported' = imported
        /\ idevices' = idevices /\ calls' = calls /\ refused' = refused
        /\ dump' = <<Item(nodes, devices)>> /\ source' = <<Tree(nodes, devices)>>
        /\ origin' = "scan"
    BY <1>3 DEF Export, importVars
  <2>2. PICK es : TreeOK(nodes, devices, es)
    BY <1>0, <2>1, ScannedTree
  <2>3. PICK dm, src : dm = <<Item(nodes, devices)>> /\ src = <<Tree(nodes, devices)>>
    OBVIOUS
  <2>5. imported = <<>>
    BY <2>1 DEF JInv
  <2>6. PICK V, e : ImportOK(imported, idevices, calls, V, e)
    BY DEF JInv, Reads
  <2>7. calls = <<>> /\ idevices \in Seq(Places)
    BY <2>5, <2>6, NoneOpen, ImportFacts
  <2>8. /\ Reads(dm, <<>>, idevices, <<>>) /\ Mirrors(src, dm, <<>>, idevices, <<>>)
        /\ Len(dm) = 1 /\ Len(src) = 1
    BY <2>2, <2>3, <2>7, Exported
  <2>9. dm # <<>> /\ dump' = dm /\ source' = src
    BY <2>1, <2>3, <2>8
  <2>10. /\ Reads(dm, imported, idevices, calls) /\ Mirrors(src, dm, imported, idevices, calls)
         /\ Len(dm) \in 0..1 /\ Len(src) \in 0..1 /\ refused \in BOOLEAN
    BY <2>5, <2>7, <2>8 DEF JInv
  <2>11. src # <<>> /\ ~refused
    <3>1. ~refused
      BY <2>1 DEF JInv
    <3> QED
      BY <2>8, <3>1
  <2>12. Graded("scan", dm, calls) /\ ReadOK(imported, idevices, calls, <<>>, dm[1])
    BY <2>5, <2>7, NothingRead DEF Graded
  <2> QED
    BY <1>0, <2>1, <2>5, <2>9, <2>10, <2>11, <2>12 DEF JInv
<1>4. CASE ExportImported
  <2>1. /\ UNCHANGED vars /\ imported # <<>> /\ calls = <<>> /\ imported[1].etype = "Dir"
        /\ dump' = <<Item(imported, idevices)>> /\ source' = <<Tree(imported, idevices)>>
        /\ imported' = <<>> /\ idevices' = <<>> /\ calls' = <<>> /\ refused' = FALSE
        /\ origin' = "import"
    BY <1>4 DEF ExportImported, Emptied, Imported
  <2>2. PICK V, e : ImportOK(imported, idevices, calls, V, e)
    BY DEF JInv, Reads
  <2>3. TreeOK(imported, idevices, e)
    BY <2>1, <2>2, ImportedTree
  <2>4. PICK dm, src : dm = <<Item(imported, idevices)>> /\ src = <<Tree(imported, idevices)>>
    OBVIOUS
  <2>5. /\ Reads(dm, <<>>, <<>>, <<>>) /\ Mirrors(src, dm, <<>>, <<>>, <<>>)
        /\ Len(dm) = 1 /\ Len(src) = 1
    <3>1. <<>> \in Seq(Places)
      OBVIOUS
    <3> QED
      BY <2>3, <2>4, <3>1, Exported
  <2>6. dm # <<>> /\ Len(dm) \in 0..1 /\ Len(src) \in 0..1
    BY <2>5
  <2>7. dump' = dm /\ source' = src
    BY <2>1, <2>4
  <2>8. /\ refused' \in BOOLEAN /\ ~refused' /\ origin' = "import"
        /\ imported' = <<>> /\ idevices' = <<>> /\ calls' = <<>> /\ ScanInv'
    BY <1>0, <2>1
  <2>9. src # <<>>
    BY <2>5
  <2>10. Graded("import", dm, <<>>) /\ ReadOK(<<>>, <<>>, <<>>, <<>>, dm[1])
    BY NothingRead DEF Graded
  <2> QED
    BY <2>5, <2>6, <2>7, <2>8, <2>9, <2>10 DEF JInv
<1>5. CASE ParseRoot
  <2>0. CASE TooDeep(dump[1])
    <3>1. /\ dump # <<>> /\ UNCHANGED vars /\ dump' = dump /\ source' = source
          /\ origin' = origin
          /\ refused' = TRUE /\ imported' = <<>> /\ idevices' = <<>> /\ calls' = <<>>
      BY <1>5, <2>0 DEF ParseRoot, Fail
    <3>2. Reads(dump, <<>>, <<>>, <<>>) /\ Mirrors(source, dump, <<>>, <<>>, <<>>)
      BY DropStep DEF JInv
    <3>3. Graded(origin, dump, <<>>)
      BY DEF JInv, Graded
    <3>4. ReadOK(<<>>, <<>>, <<>>, <<>>, dump[1])
      BY NothingRead
    <3> QED
      BY <1>0, <2>0, <3>1, <3>2, <3>3, <3>4 DEF JInv
  <2> SUFFICES ASSUME ~TooDeep(dump[1]) PROVE JInv'
    BY <2>0
  <2>1. /\ dump # <<>> /\ imported = <<>> /\ ParseItem(dump[1], NoDev)
    BY <1>5 DEF ParseRoot
  <2>2. PICK V, e : /\ Sound(V) /\ ImportOK(imported, idevices, calls, V, e)
                    /\ dump[1] \in V
    BY <2>1 DEF JInv, Reads
  <2>3. calls = <<>>
    BY <2>1, <2>2, NoneOpen
  <2>4. NextUp(imported, calls, dump[1], NoDev, dump[1]) /\ NoDev \in Places
    BY <2>1, <2>3 DEF NextUp, Places
  <2> QED
    BY <2>1, <2>2, <2>4, ParseItemStep
<1>6. CASE ParseChild
  <2> DEFINE top == calls[Len(calls)]
  <2>1. /\ calls # <<>> /\ top.rest # <<>> /\ ParseItem(Head(top.rest), top.dev)
    BY <1>6 DEF ParseChild, ChildDev
  <2>2. PICK V, e : /\ Sound(V) /\ ImportOK(imported, idevices, calls, V, e)
                    /\ (dump # <<>> => dump[1] \in V)
    BY DEF JInv, Reads
  <2>3. dump # <<>> /\ ~TooDeep(dump[1])
    <3>1. imported # <<>>
      BY <2>1, <2>2, NoneOpen
    <3> QED
      BY <3>1 DEF JInv
  <2>4. top.dev \in Places /\ Head(top.rest) \in V
    <3>1. Len(calls) \in 1..Len(calls)
      BY <2>1, <2>2, Callers, ImportFacts
    <3>2. top.dev \in Places /\ top.rest \in Seq(V)
      BY <2>2, <3>1, CallFacts
    <3> QED
      BY <2>1, <3>2, Unread
  <2>5. NextUp(imported, calls, Head(top.rest), top.dev, dump[1])
    BY <2>1 DEF NextUp
  <2> HIDE DEF top
  <2> QED
    BY <2>1, <2>2, <2>3, <2>4, <2>5, ParseItemStep
<1>7. CASE ParseDone
  <2>1. /\ UNCHANGED vars /\ dump' = dump /\ source' = source /\ idevices' = idevices
        /\ refused' = refused /\ calls # <<>> /\ origin' = origin
    BY <1>7 DEF ParseDone
  <2>2. PICK V, e : /\ Sound(V) /\ ImportOK(imported, idevices, calls, V, e)
                    /\ (dump # <<>> => dump[1] \in V)
    BY DEF JInv, Reads
  <2>3. dump # <<>> /\ ~TooDeep(dump[1])
    <3>1. imported # <<>>
      BY <2>1, <2>2, NoneOpen
    <3> QED
      BY <3>1 DEF JInv
  <2>4. PICK im2, cs2 : im2 = imported' /\ cs2 = calls'
    OBVIOUS
  <2>5. Ended(imported, calls, V, im2, cs2)
    BY <1>7, <2>2, <2>4, EndedEffect
  <2>6. Reads(dump, im2, idevices, cs2)
    <3>1. PICK f : f = Reaching(e, TopId(calls), Len(imported))
      OBVIOUS
    <3>2. ImportOK(im2, idevices, cs2, V, f)
      BY <2>2, <2>5, <3>1, EndedKeeps
    <3> QED
      BY <2>2, <3>2 DEF Reads
  <2>7. Mirrors(source, dump, im2, idevices, cs2)
    <3> SUFFICES ASSUME source # <<>> PROVE Mirrors(source, dump, im2, idevices, cs2)
      BY DEF Mirrors
    <3>1. PICK ns, sd : ns = source[1].nodes /\ sd = source[1].devices
      OBVIOUS
    <3>2. PICK F, es : /\ TreeOK(ns, sd, es) /\ ItemsOf(F, ns, sd) /\ dump[1] = F[1][NoDev]
                       /\ Agrees(imported, idevices, calls, ns, sd, F, es)
      BY <3>1 DEF JInv, Mirrors
    <3>3. Agrees(im2, idevices, cs2, ns, sd, F, es)
      BY <2>2, <2>5, <3>2, EndedAgrees
    <3> QED
      BY <3>1, <3>2, <3>3 DEF Mirrors
  <2>8. Graded(origin, dump, cs2)
    <3>1. Graded(origin, dump, calls)
      BY DEF JInv
    <3> QED
      BY <2>2, <2>5, <3>1, EndedGraded
  <2>9. \E R : ReadOK(im2, idevices, cs2, R, dump[1])
    <3>1. PICK R : ReadOK(imported, idevices, calls, R, dump[1])
      BY DEF JInv
    <3> QED
      BY <2>2, <2>5, <3>1, EndedReads
  <2> QED
    BY <1>0, <2>1, <2>3, <2>4, <2>6, <2>7, <2>8, <2>9 DEF JInv
<1>8. CASE UNCHANGED jvars
  <2>1. /\ UNCHANGED vars /\ dump' = dump /\ source' = source /\ imported' = imported
        /\ idevices' = idevices /\ calls' = calls /\ refused' = refused /\ origin' = origin
    BY <1>8 DEF jvars, importVars
  <2> QED
    BY <1>0, <2>1 DEF JInv
<1> QED
  BY <1>1, <1>2, <1>3, <1>4, <1>5, <1>6, <1>7, <1>8 DEF JNext

LEMMA JInvAlways == JSpec => []JInv
BY JInvInit, JInvStep, PTL DEF JSpec

LEMMA JTypeFollows == JInv => JTypeOK
<1> SUFFICES ASSUME JInv PROVE JTypeOK
  OBVIOUS
<1>1. PICK V, e : ImportOK(imported, idevices, calls, V, e)
  BY DEF JInv, Reads
<1>2. \A i \in 1..Len(imported) :
        LET n == imported[i]
        IN  /\ n.etype \in {"Dir"} \cup FileTypes \cup Markers
            /\ n.blocks \in 0..MaxU64 /\ n.dev \in 0..Len(idevices)
            /\ n.kids \in Seq(1..Len(imported)) /\ n.err \in BOOLEAN
  <2> SUFFICES ASSUME NEW i \in 1..Len(imported)
               PROVE  /\ imported[i].etype \in {"Dir"} \cup FileTypes \cup Markers
                      /\ imported[i].blocks \in 0..MaxU64
                      /\ imported[i].dev \in 0..Len(idevices)
                      /\ imported[i].kids \in Seq(1..Len(imported))
                      /\ imported[i].err \in BOOLEAN
    OBVIOUS
  <2>1. imported[i] \in ReadType /\ imported[i].dev <= Len(idevices) /\ Len(idevices) \in Nat
    BY <1>1, DoneFacts, ImportFacts DEF ImportOK
  <2>2. /\ imported[i].kids \in Seq(Nat) /\ Len(imported[i].kids) \in Nat
        /\ \A k \in 1..Len(imported[i].kids) : imported[i].kids[k] \in (i + 1)..Len(imported)
        /\ Len(imported) \in Nat
    BY <1>1, DoneFacts
  <2>3. \A k \in 1..Len(imported[i].kids) : imported[i].kids[k] \in 1..Len(imported)
    BY <2>2
  <2>4. imported[i].kids \in Seq(1..Len(imported))
    <3>1. imported[i].kids = [k \in 1..Len(imported[i].kids) |-> imported[i].kids[k]]
      BY <2>2
    <3>2. [k \in 1..Len(imported[i].kids) |-> imported[i].kids[k]] \in Seq(1..Len(imported))
      BY <2>2, <2>3, IsASeq
    <3> QED
      BY <3>1, <3>2
  <2> QED
    BY <2>1, <2>4 DEF ReadType, Kinds
<1>3. \A l \in 1..Len(calls) : /\ calls[l].id \in 1..Len(imported)
                               /\ imported[calls[l].id].etype = "Dir"
                               /\ calls[l].dev \in Devs \cup {NoDev}
  BY <1>1, CallFacts DEF Places
<1>4. idevices \in Seq(Devs \cup {NoDev})
  BY <1>1, ImportFacts DEF Places
<1>5. Len(dump) <= 1 /\ Len(source) <= 1 /\ refused \in BOOLEAN
  <2>1. Len(dump) \in 0..1 /\ Len(source) \in 0..1 /\ refused \in BOOLEAN
    BY DEF JInv
  <2> QED
    BY <2>1
<1> QED
  BY <1>2, <1>3, <1>4, <1>5 DEF JTypeOK

(* When no call is left, what was read is the whole tree.                       *)
LEMMA RoundTripFollows == JInv => RoundTrip
<1> SUFFICES ASSUME JInv, imported # <<>>, calls = <<>>, source # <<>>
             PROVE  LET ns == source[1].nodes
                    IN  /\ Len(imported) = Len(ns)
                        /\ \A i \in 1..Len(ns) :
                             LET n == ns[i]
                                 m == imported[i]
                             IN  /\ m.etype = n.etype /\ m.kids = n.kids
                                 /\ m.parent = n.parent /\ m.err = n.err
                                 /\ n.etype \in Markers => m.blocks = 0
                                 /\ n.etype \notin Markers =>
                                      IF Fits(n) THEN m.blocks = n.blocks
                                                 ELSE m.blocks < n.blocks
                                 /\ n.etype = "Dir" =>
                                      DevOf(idevices, m) = DevOf(source[1].devices, n)
  BY DEF RoundTrip, Imported
<1>1. PICK ns, sd : ns = source[1].nodes /\ sd = source[1].devices
  OBVIOUS
<1>2. PICK F, es : Agrees(imported, idevices, calls, ns, sd, F, es)
  BY <1>1 DEF JInv, Mirrors
<1>3. OpenAt(calls) = {}
  BY DEF OpenAt
<1>4. Len(imported) = Len(ns)
  BY <1>2 DEF Agrees
<1>5. ASSUME NEW i \in 1..Len(ns)
      PROVE  /\ imported[i].kids = ns[i].kids /\ imported[i].parent = ns[i].parent
             /\ NodeBack(imported[i], ns[i], idevices, sd)
  BY <1>2, <1>3, <1>4 DEF Agrees
<1> QED
  BY <1>1, <1>4, <1>5 DEF NodeBack, BlocksBack

(* The items of the import are those of the tree, once every size fits.           *)
LEMMA SameFields ==
  ASSUME NEW n \in ReadType, NEW m \in ReadType, NEW dv, NEW sd, NodeBack(m, n, dv, sd), Fits(n), NEW o
  PROVE  Fields(dv, m, o) = Fields(sd, n, o)
<1>1. m.etype = n.etype /\ m.err = n.err
  BY DEF NodeBack
<1>2. n.etype \notin Markers => m.blocks = n.blocks
  BY DEF NodeBack, BlocksBack
<1>3. n.etype = "Dir" => DevOf(dv, m) = DevOf(sd, n)
  BY DEF NodeBack
<1>4. Fields(dv, m, o).dsize = Fields(sd, n, o).dsize
  BY <1>1, <1>2 DEF Fields
<1>5. Fields(dv, m, o).dev = Fields(sd, n, o).dev
  BY <1>1, <1>3 DEF Fields
<1>6. /\ (m.etype = "Link") = (n.etype = "Link") /\ (m.etype = "NonReg") = (n.etype = "NonReg")
      /\ (m.etype = "Err" \/ m.err) = (n.etype = "Err" \/ n.err)
  BY <1>1
<1>7. /\ (IF m.etype \in DOMAIN Tags THEN <<Tags[m.etype]>> ELSE Absent)
         = (IF n.etype \in DOMAIN Tags THEN <<Tags[n.etype]>> ELSE Absent)
  BY <1>1
<1> QED
  BY <1>4, <1>5, <1>6, <1>7 DEF Fields

(* From the last entry down.                                                   *)
LEMMA SameItems ==
  ASSUME NEW ns, NEW sd, WellFormed(ns, sd), NEW im, NEW dv, WellFormed(im, dv),
         Len(im) = Len(ns),
         \A i \in 1..Len(ns) : /\ NodeBack(im[i], ns[i], dv, sd) /\ Fits(ns[i])
                               /\ im[i].kids = ns[i].kids,
         NEW F, ItemsOf(F, ns, sd), NEW G, ItemsOf(G, im, dv)
  PROVE  \A i \in 1..Len(ns) : \A o \in Outers : G[i][o] = F[i][o]
<1> DEFINE n == Len(ns)
           Same(i) == \A o \in Outers : G[i][o] = F[i][o]
           P == {i \in 1..n : Same(i)}
<1>1. n \in Nat
  BY DEF WellFormed
<1>2. ASSUME NEW i \in 1..n, \A j \in (i + 1)..n : Same(j) PROVE Same(i)
  <2> SUFFICES ASSUME NEW o \in Outers PROVE G[i][o] = F[i][o]
    OBVIOUS
  <2>1. /\ ns[i] \in ReadType /\ im[i] \in ReadType /\ EntryOK(ns, sd, i) /\ i \in 1..Len(im)
    BY NodeIs
  <2>2. NodeBack(im[i], ns[i], dv, sd) /\ Fits(ns[i]) /\ im[i].kids = ns[i].kids
    OBVIOUS
  <2>3. Fields(dv, im[i], o) = Fields(sd, ns[i], o)
    BY <2>1, <2>2, SameFields
  <2>4. /\ F[i][o] = Written(F, ns, sd, i, o)
        /\ G[i][o] = Written(G, im, dv, i, o)
    BY <2>1 DEF ItemsOf
  <2>5. im[i].etype = ns[i].etype
    BY <2>2 DEF NodeBack
  <2>6. [k \in 1..Len(im[i].kids) |-> G[im[i].kids[k]][DevOf(dv, im[i])]]
        = [k \in 1..Len(ns[i].kids) |-> F[ns[i].kids[k]][DevOf(sd, ns[i])]]
    <3>1. CASE ns[i].etype = "Dir"
      <4>1. DevOf(dv, im[i]) = DevOf(sd, ns[i]) /\ DevOf(sd, ns[i]) \in Outers
        BY <2>2, <3>1, DeviceOf DEF NodeBack, WellFormed
      <4>2. \A k \in 1..Len(ns[i].kids) : Same(ns[i].kids[k])
        BY <1>2, <2>1 DEF EntryOK
      <4> QED
        BY <2>2, <4>1, <4>2
    <3>2. CASE ns[i].etype # "Dir"
      <4>1. ns[i].kids = <<>> /\ Len(ns[i].kids) = 0
        BY <2>1, <3>2 DEF EntryOK
      <4> QED
        BY <2>2, <4>1
    <3> QED
      BY <3>1, <3>2
  <2> QED
    BY <2>3, <2>4, <2>5, <2>6 DEF Written
<1> HIDE DEF Same
<1>3. ASSUME NEW i \in 1..n, \A j \in (i + 1)..n : j \in P PROVE i \in P
  BY <1>2, <1>3
<1> HIDE DEF P, n
<1>4. \A i \in 1..n : i \in P
  BY <1>1, <1>3, Downward
<1> QED
  BY <1>4 DEF Same, P, n

LEMMA ReExportedFollows == JInv => ReExported
<1> SUFFICES ASSUME JInv, imported # <<>>, calls = <<>>, source # <<>>,
                    \A i \in 1..Len(source[1].nodes) : Fits(source[1].nodes[i])
             PROVE  Item(imported, idevices) = dump[1]
  BY DEF ReExported, Imported
<1>1. PICK ns, sd : ns = source[1].nodes /\ sd = source[1].devices
  OBVIOUS
<1>2. PICK F, es : /\ TreeOK(ns, sd, es) /\ ItemsOf(F, ns, sd) /\ dump[1] = F[1][NoDev]
                   /\ Agrees(imported, idevices, calls, ns, sd, F, es)
  BY <1>1 DEF JInv, Mirrors
<1>3. PICK V, e : ImportOK(imported, idevices, calls, V, e)
  BY DEF JInv, Reads
<1>4. OpenAt(calls) = {}
  BY DEF OpenAt
<1>5. Len(imported) = Len(ns)
  BY <1>2 DEF Agrees
<1>6. ASSUME NEW i \in 1..Len(ns)
      PROVE  /\ NodeBack(imported[i], ns[i], idevices, sd) /\ Fits(ns[i])
             /\ imported[i].kids = ns[i].kids
  BY <1>1, <1>2, <1>4, <1>5 DEF Agrees
<1>7. WellFormed(ns, sd) /\ WellFormed(imported, idevices) /\ ns # <<>>
  BY <1>2, <1>3 DEF TreeOK, ImportOK
<1>8. PICK G : ItemsOf(G, imported, idevices) /\ Item(imported, idevices) = G[1][NoDev]
  BY <1>7, ItemUnfolds
<1>9. 1 \in 1..Len(ns) /\ NoDev \in Outers
  <2>1. ns \in Seq(ReadType)
    BY <1>7 DEF WellFormed
  <2>2. Len(ns) \in Nat /\ Len(ns) # 0
    BY <1>7, <2>1, EmptySeq, LenProperties
  <2> QED
    BY <2>2 DEF Outers
<1>10. G[1][NoDev] = F[1][NoDev]
  BY <1>2, <1>5, <1>6, <1>7, <1>8, <1>9, SameItems
<1> QED
  BY <1>2, <1>8, <1>10

----------------------------------------------------------------------------
(* A finished import: what is in whose span.                                     *)
Spanned(ns, e) ==
  /\ Len(ns) \in Nat /\ e[1] = Len(ns)
  /\ \A i \in 1..Len(ns) : /\ ns[i].kids \in Seq(Nat) /\ e[i] \in i..Len(ns)
                           /\ KidsSpan(ns, e, i, ns[i].kids, e[i])

LEMMA SpannedAt ==
  ASSUME NEW ns, NEW e, Spanned(ns, e), NEW d \in 1..Len(ns)
  PROVE  LET ks == ns[d].kids
             m == Len(ks)
         IN  /\ d \in Nat /\ m \in Nat /\ Len(ns) \in Nat /\ e[d] \in Nat /\ d <= e[d] /\ e[d] <= Len(ns)
             /\ \A k \in 1..m : /\ ks[k] \in Nat /\ e[ks[k]] \in Nat /\ d < ks[k]
                                /\ ks[k] <= e[ks[k]] /\ e[ks[k]] <= e[d]
                                /\ ks[k] \in 1..Len(ns)
             /\ m = 0 => e[d] = d
             /\ m > 0 => ks[1] = d + 1 /\ e[ks[m]] = e[d]
             /\ \A k \in 1..(m - 1) : ks[k + 1] = e[ks[k]] + 1
<1> DEFINE ks == ns[d].kids
           m == Len(ks)
<1>1. /\ ks \in Seq(Nat) /\ e[d] \in d..Len(ns) /\ Len(ns) \in Nat
      /\ KidsSpan(ns, e, d, ks, e[d])
  BY DEF Spanned
<1>2. m \in Nat /\ e[d] \in Nat /\ d \in Nat /\ d <= e[d] /\ e[d] <= Len(ns)
  BY <1>1, LenProperties
<1> HIDE DEF ks, m
<1>3. ASSUME NEW k \in 1..m
      PROVE  /\ ks[k] \in Nat /\ e[ks[k]] \in Nat /\ d < ks[k]
             /\ ks[k] <= e[ks[k]] /\ e[ks[k]] <= e[d] /\ ks[k] \in 1..Len(ns)
             /\ ks[k] = Past(e, ks, d, k - 1) + 1
  <2>1. /\ ks[k] \in (d + 1)..e[d] /\ e[ks[k]] \in ks[k]..e[d]
        /\ ks[k] = Past(e, ks, d, k - 1) + 1
    BY <1>1 DEF KidsSpan, m
  <2> QED
    BY <1>1, <1>2, <2>1
<1>4. Past(e, ks, d, m) = e[d]
  BY <1>1 DEF KidsSpan, m
<1>5. m = 0 => e[d] = d
  BY <1>4 DEF Past
<1>6. m > 0 => ks[1] = d + 1 /\ e[ks[m]] = e[d]
  <2> SUFFICES ASSUME m > 0 PROVE ks[1] = d + 1 /\ e[ks[m]] = e[d]
    OBVIOUS
  <2>1. 1 \in 1..m /\ m # 0 /\ 1 - 1 = 0
    BY <1>2
  <2>2. ks[1] = Past(e, ks, d, 1 - 1) + 1
    BY <1>3, <2>1
  <2> QED
    BY <1>4, <2>1, <2>2 DEF Past
<1>7. ASSUME NEW k \in 1..(m - 1) PROVE ks[k + 1] = e[ks[k]] + 1
  <2>1. k + 1 \in 1..m /\ (k + 1) - 1 = k /\ k # 0
    BY <1>2
  <2>2. ks[k + 1] = Past(e, ks, d, (k + 1) - 1) + 1
    BY <1>3, <2>1
  <2> QED
    BY <2>1, <2>2 DEF Past
<1> QED
  BY <1>1, <1>2, <1>3, <1>5, <1>6, <1>7 DEF ks, m

(* An entry in the span of a directory is in that of one of its children.          *)
LEMMA Within ==
  ASSUME NEW ns, NEW e, Spanned(ns, e), NEW d \in 1..Len(ns), NEW j \in Nat, d < j, j <= e[d]
  PROVE  \E k \in 1..Len(ns[d].kids) : ns[d].kids[k] <= j /\ j <= e[ns[d].kids[k]]
<1> DEFINE ks == ns[d].kids
           m == Len(ks)
           Before == {k \in 1..m : ks[k] <= j}
<1>1. /\ d \in Nat /\ m \in Nat /\ e[d] \in Nat
      /\ \A k \in 1..m : ks[k] \in Nat /\ e[ks[k]] \in Nat
      /\ m = 0 => e[d] = d
      /\ m > 0 => ks[1] = d + 1 /\ e[ks[m]] = e[d]
      /\ \A k \in 1..(m - 1) : ks[k + 1] = e[ks[k]] + 1
  BY SpannedAt
<1> HIDE DEF ks, m
<1>2. m > 0 /\ 1 \in Before
  BY <1>1
<1>3. PICK k \in Before : \A i \in Before : i <= k
  <2>1. Before \in SUBSET (1..m) /\ Before # {}
    BY <1>2
  <2> HIDE DEF Before
  <2> QED
    BY <1>1, <2>1, GreatestExists
<1>4. CASE k = m
  BY <1>1, <1>2, <1>3, <1>4 DEF ks, m
<1>5. CASE k # m
  <2>1. k \in 1..(m - 1) /\ k + 1 \in 1..m /\ ~(k + 1 <= k)
    BY <1>1, <1>3, <1>5
  <2>2. ~(ks[k + 1] <= j)
    BY <1>3, <2>1
  <2>3. ks[k + 1] = e[ks[k]] + 1 /\ e[ks[k]] \in Nat
    BY <1>1, <2>1, <1>3
  <2>4. j <= e[ks[k]]
    BY <2>2, <2>3
  <2> QED
    BY <1>3, <2>4 DEF ks, m
<1> QED
  BY <1>4, <1>5

(* The children's spans do not meet, ...                                        *)
LEMMA Ascending ==
  ASSUME NEW ns, NEW e, Spanned(ns, e), NEW d \in 1..Len(ns),
         NEW a \in 1..Len(ns[d].kids), NEW b \in 1..Len(ns[d].kids), a < b
  PROVE  e[ns[d].kids[a]] < ns[d].kids[b]
<1> DEFINE ks == ns[d].kids
           m == Len(ks)
           P == {i \in 1..m : a < i => e[ks[a]] < ks[i]}
<1>1. /\ m \in Nat
      /\ \A k \in 1..m : ks[k] \in Nat /\ e[ks[k]] \in Nat /\ ks[k] <= e[ks[k]]
      /\ \A k \in 1..(m - 1) : ks[k + 1] = e[ks[k]] + 1
  BY SpannedAt
<1>2. a \in 1..m /\ b \in 1..m
  OBVIOUS
<1> HIDE DEF ks, m
<1>3. ASSUME NEW i \in 1..m, \A j \in 1..(i - 1) : j \in P PROVE i \in P
  <2> SUFFICES ASSUME a < i PROVE e[ks[a]] < ks[i]
    OBVIOUS
  <2>1. i - 1 \in 1..(m - 1) /\ i - 1 \in 1..(i - 1) /\ i - 1 \in 1..m /\ (i - 1) + 1 = i
    BY <1>1, <1>2
  <2>2. ks[i] = e[ks[i - 1]] + 1
    BY <1>1, <2>1
  <2>3. CASE a = i - 1
    BY <1>1, <1>2, <2>2, <2>3
  <2>4. CASE a < i - 1
    <3>1. e[ks[a]] < ks[i - 1]
      BY <1>3, <2>1, <2>4
    <3> QED
      BY <1>1, <1>2, <2>1, <2>2, <3>1
  <2> QED
    BY <1>2, <2>1, <2>3, <2>4
<1> HIDE DEF P
<1>4. \A i \in 1..m : i \in P
  BY <1>1, <1>3, Upward
<1> QED
  BY <1>2, <1>4 DEF P, ks

(* ... and what begins in a span ends in it.                                      *)
LEMMA Laminar ==
  ASSUME NEW ns, NEW e, Spanned(ns, e)
  PROVE  \A c \in 1..Len(ns) : \A j \in c..e[c] : e[j] <= e[c]
<1> DEFINE n == Len(ns)
           P == {c \in 1..n : \A j \in c..e[c] : e[j] <= e[c]}
<1>1. n \in Nat /\ \A i \in 1..n : e[i] \in Nat /\ i <= e[i] /\ e[i] <= n
  BY DEF Spanned
<1> HIDE DEF n
<1>2. ASSUME NEW c \in 1..n, \A j \in (c + 1)..n : j \in P PROVE c \in P
  <2> SUFFICES ASSUME NEW j \in c..e[c] PROVE e[j] <= e[c]
    OBVIOUS
  <2>1. CASE j = c
    BY <1>1, <2>1
  <2>2. CASE j # c
    <3>1. c < j /\ j <= e[c] /\ j \in Nat /\ c \in 1..Len(ns) /\ j \in 1..n
      BY <1>1, <2>2 DEF n
    <3>2. PICK k \in 1..Len(ns[c].kids) : ns[c].kids[k] <= j /\ j <= e[ns[c].kids[k]]
      BY <3>1, Within
    <3>3. PICK x : x = ns[c].kids[k]
      OBVIOUS
    <3>4. x \in Nat /\ c < x /\ x <= e[x] /\ e[x] <= e[c] /\ e[x] \in Nat
      BY <3>1, <3>2, <3>3, SpannedAt
    <3>5. x \in (c + 1)..n /\ j \in x..e[x]
      BY <1>1, <3>1, <3>2, <3>3, <3>4
    <3>6. e[j] <= e[x]
      BY <1>2, <3>5
    <3> QED
      BY <1>1, <3>1, <3>4, <3>6
  <2> QED
    BY <2>1, <2>2
<1> HIDE DEF P
<1>3. \A c \in 1..n : c \in P
  BY <1>1, <1>2, Downward
<1> QED
  BY <1>3 DEF P, n

(* Two lists do not share an entry, nor one list an entry twice.                    *)
LEMMA NotInBoth ==
  ASSUME NEW ns, NEW e, Spanned(ns, e), NEW d \in 1..Len(ns), NEW f \in 1..Len(ns), d < f,
         NEW a \in 1..Len(ns[d].kids), NEW b \in 1..Len(ns[f].kids)
  PROVE  ns[d].kids[a] # ns[f].kids[b]
<1> SUFFICES ASSUME ns[d].kids[a] = ns[f].kids[b] PROVE FALSE
  OBVIOUS
<1>1. PICK i : i = ns[d].kids[a] /\ i = ns[f].kids[b]
  OBVIOUS
<1>2. /\ i \in Nat /\ e[i] \in Nat /\ d < i /\ i <= e[i] /\ e[i] <= e[d] /\ d \in Nat
      /\ e[d] \in Nat
  BY <1>1, SpannedAt
<1>3. f < i /\ e[i] <= e[f] /\ f \in Nat /\ e[f] \in Nat
  BY <1>1, SpannedAt
<1>4. f <= e[d]
  BY <1>2, <1>3
<1>5. PICK k \in 1..Len(ns[d].kids) : ns[d].kids[k] <= f /\ f <= e[ns[d].kids[k]]
  BY <1>3, <1>4, Within
<1>6. PICK c : c = ns[d].kids[k]
  OBVIOUS
<1>7. c \in 1..Len(ns) /\ c \in Nat /\ e[c] \in Nat /\ c <= e[c]
  BY <1>5, <1>6, SpannedAt
<1>8. f \in c..e[c]
  BY <1>3, <1>5, <1>6, <1>7
<1>9. e[f] <= e[c]
  BY <1>7, <1>8, Laminar
<1>10. Len(ns[d].kids) \in Nat
  BY SpannedAt
<1>11. CASE k = a
  BY <1>1, <1>2, <1>3, <1>5, <1>11
<1>12. CASE a < k
  <2>1. e[i] < c
    BY <1>1, <1>6, <1>12, Ascending
  <2> QED
    BY <1>2, <1>3, <1>5, <1>6, <1>7, <2>1
<1>13. CASE k < a
  <2>1. e[c] < i
    BY <1>1, <1>6, <1>13, Ascending
  <2> QED
    BY <1>2, <1>3, <1>7, <1>9, <2>1
<1> QED
  BY <1>10, <1>11, <1>12, <1>13

LEMMA NotTwice ==
  ASSUME NEW ns, NEW e, Spanned(ns, e), NEW d \in 1..Len(ns),
         NEW a \in 1..Len(ns[d].kids), NEW b \in 1..Len(ns[d].kids),
         ns[d].kids[a] = ns[d].kids[b]
  PROVE  a = b
<1>1. PICK i : i = ns[d].kids[a] /\ i = ns[d].kids[b]
  OBVIOUS
<1>2. i \in Nat /\ e[i] \in Nat /\ i <= e[i] /\ Len(ns[d].kids) \in Nat
  BY <1>1, SpannedAt
<1>3. ~(a < b)
  <2>1. a < b => e[i] < i
    BY <1>1, Ascending
  <2> QED
    BY <1>2, <2>1
<1>4. ~(b < a)
  <2>1. b < a => e[i] < i
    BY <1>1, Ascending
  <2> QED
    BY <1>2, <2>1
<1> QED
  BY <1>2, <1>3, <1>4

(* Every entry but the root is in a list, ...                                     *)
LEMMA SomeSpot ==
  ASSUME NEW ns, NEW e, Spanned(ns, e), NEW i \in 2..Len(ns)
  PROVE  \E d \in 1..Len(ns) : \E k \in 1..Len(ns[d].kids) : ns[d].kids[k] = i
<1> DEFINE n == Len(ns)
           Around == {d \in 1..(i - 1) : i <= e[d]}
<1>1. n \in Nat /\ e[1] = n /\ i \in Nat /\ i - 1 \in Nat /\ 1 \in 1..n
  BY DEF Spanned
<1>2. 1 \in Around
  BY <1>1
<1>3. PICK d \in Around : \A c \in Around : c <= d
  <2>1. Around \in SUBSET (1..(i - 1)) /\ Around # {}
    BY <1>2
  <2> HIDE DEF Around
  <2> QED
    BY <1>1, <2>1, GreatestExists
<1>4. d \in 1..n /\ d < i /\ i <= e[d] /\ d \in Nat
  BY <1>1, <1>3
<1>5. PICK k \in 1..Len(ns[d].kids) : ns[d].kids[k] <= i /\ i <= e[ns[d].kids[k]]
  BY <1>1, <1>4, Within
<1>6. PICK c : c = ns[d].kids[k]
  OBVIOUS
<1>7. c \in Nat /\ d < c
  BY <1>4, <1>5, <1>6, SpannedAt
<1>8. c = i
  <2> SUFFICES ASSUME c # i PROVE FALSE
    OBVIOUS
  <2>1. c \in Around
    BY <1>1, <1>4, <1>5, <1>6, <1>7
  <2> QED
    BY <1>3, <1>4, <1>7, <2>1
<1> QED
  BY <1>4, <1>5, <1>6, <1>8

(* ... once.                                                                  *)
LEMMA OneSpot ==
  ASSUME NEW ns, NEW e, Spanned(ns, e), NEW i \in 2..Len(ns)
  PROVE  \E d \in 1..(i - 1) : \E k \in 1..Len(ns[d].kids) :
           /\ d \in 1..Len(ns) /\ ns[d].kids[k] = i /\ Spots(ns, i) = {<<d, k>>}
<1>1. PICK d \in 1..Len(ns) : \E k \in 1..Len(ns[d].kids) : ns[d].kids[k] = i
  BY SomeSpot
<1>2. PICK k \in 1..Len(ns[d].kids) : ns[d].kids[k] = i
  BY <1>1
<1>3. d < i /\ d \in 1..(i - 1)
  <2>1. d < ns[d].kids[k] /\ d \in Nat /\ ns[d].kids[k] \in Nat
    BY SpannedAt
  <2> QED
    BY <1>2, <2>1
<1>4. ASSUME NEW f \in 1..Len(ns), NEW b \in 1..Len(ns[f].kids), ns[f].kids[b] = i
      PROVE  f = d /\ b = k
  <2>1. d \in Nat /\ f \in Nat
    OBVIOUS
  <2>2. ~(d < f)
    BY <1>2, <1>4, NotInBoth
  <2>3. ~(f < d)
    BY <1>2, <1>4, NotInBoth
  <2>4. f = d
    BY <2>1, <2>2, <2>3
  <2> QED
    BY <1>2, <1>4, <2>4, NotTwice
<1>5. Spots(ns, i) \subseteq {<<d, k>>}
  <2> SUFFICES ASSUME NEW s \in Spots(ns, i) PROVE s = <<d, k>>
    OBVIOUS
  <2>1. PICK f \in 1..Len(ns) : s \in {f} \X (1..Len(ns[f].kids))
    BY DEF Spots
  <2>2. PICK b \in 1..Len(ns[f].kids) : s = <<f, b>>
    BY <2>1
  <2>3. ns[f].kids[b] = i
    BY <2>2 DEF Spots
  <2> QED
    BY <1>4, <2>2, <2>3
<1>6. <<d, k>> \in Spots(ns, i)
  <2>1. <<d, k>> \in {d} \X (1..Len(ns[d].kids))
    OBVIOUS
  <2>2. <<d, k>> \in UNION {{f} \X (1..Len(ns[f].kids)) : f \in 1..Len(ns)}
    BY <2>1
  <2> QED
    BY <1>2, <2>2 DEF Spots
<1>7. Spots(ns, i) = {<<d, k>>}
  BY <1>5, <1>6
<1> QED
  BY <1>2, <1>3, <1>7

(* What FoundIn finds is what the entries were made from.                          *)
FoundNext(f, v, ns, i) ==
  IF i = 1 THEN Found(v, NoDev) ELSE FoundBelow(f, CHOOSE s \in Spots(ns, i) : TRUE)

LEMMA FoundIsRead ==
  ASSUME NEW ns, NEW e, Spanned(ns, e), NEW R, NEW v, R[1] = Found(v, NoDev),
         \A d \in 1..Len(ns) : ListRead(R, d, ns[d].kids)
  PROVE  \A i \in 1..Len(ns) : FoundIn(v, ns)[i] = R[i]
<1> DEFINE n == Len(ns)
           Solution(g) == g = [i \in 1..n |-> FoundNext(g, v, ns, i)]
           f == [i \in 1..n |-> R[i]]
<1>0. n \in Nat
  BY DEF Spanned
(* The solution at i depends on an earlier entry only. *)
<1>1. ASSUME NEW i \in 1..n, NEW g, \A j \in 1..(i - 1) : g[j] = R[j]
      PROVE  FoundNext(g, v, ns, i) = R[i]
  <2>1. CASE i = 1
    BY <2>1 DEF FoundNext
  <2>2. CASE i # 1
    <3>1. i \in 2..Len(ns)
      BY <1>0, <2>2
    <3>2. PICK d \in 1..(i - 1) : \E k \in 1..Len(ns[d].kids) :
            /\ d \in 1..Len(ns) /\ ns[d].kids[k] = i /\ Spots(ns, i) = {<<d, k>>}
      BY <3>1, OneSpot
    <3>3. PICK k \in 1..Len(ns[d].kids) :
            /\ d \in 1..Len(ns) /\ ns[d].kids[k] = i /\ Spots(ns, i) = {<<d, k>>}
      BY <3>2
    <3>4. (CHOOSE s \in Spots(ns, i) : TRUE) = <<d, k>>
      BY <3>3
    <3>5. FoundNext(g, v, ns, i) = Found(g[d].item.rest[k], g[d].dev)
      <4>1. FoundNext(g, v, ns, i) = FoundBelow(g, <<d, k>>)
        BY <2>2, <3>4, Zenon DEF FoundNext
      <4>2. FoundBelow(g, <<d, k>>) = Found(g[d].item.rest[k], g[d].dev)
        BY DEF FoundBelow
      <4> QED
        BY <4>1, <4>2
    <3>6. R[i] = Found(R[d].item.rest[k], R[d].dev)
      BY <3>3 DEF ListRead, ReadAt
    <3> QED
      BY <1>1, <3>2, <3>5, <3>6
  <2> QED
    BY <2>1, <2>2
<1>2. Solution(f)
  <2>1. \A i \in 1..n : \A j \in 1..(i - 1) : j \in 1..n
    BY <1>0
  <2>2. \A i \in 1..n : FoundNext(f, v, ns, i) = R[i]
    BY <1>1, <2>1
  <2> QED
    BY <2>2
<1> DEFINE found == CHOOSE g : Solution(g)
<1>3. Solution(found)
  <2> HIDE DEF Solution, f
  <2> QED  BY <1>2
<1>4. FoundIn(v, ns) = found
  BY DEF FoundIn, FoundNext
<1> HIDE DEF found
<1> DEFINE P == {i \in 1..n : found[i] = R[i]}
<1>5. ASSUME NEW i \in 1..n, \A j \in 1..(i - 1) : j \in P PROVE i \in P
  <2>1. found[i] = FoundNext(found, v, ns, i)
    BY <1>3
  <2>2. FoundNext(found, v, ns, i) = R[i]
    BY <1>1, <1>5
  <2> QED
    BY <2>1, <2>2
<1> HIDE DEF P, n
<1>6. \A i \in 1..n : i \in P
  BY <1>0, <1>5, Upward
<1> QED
  BY <1>4, <1>6 DEF P, n

(* A finished import is that of its dump.                                         *)
LEMMA ReadFollows == JInv => ReadAsWritten
<1> SUFFICES ASSUME JInv PROVE ReadAsWritten
  OBVIOUS
<1>1. refused => TooDeep(dump[1]) \/ (origin = "other" /\ dump[1] \in Spoilt)
  BY DEF JInv
<1>2. ASSUME imported # <<>>, calls = <<>>
      PROVE  LET found == FoundIn(dump[1], imported)
             IN  /\ ~TooDeep(dump[1])
                 /\ \A i \in 2..Len(imported) : \E s \in Spots(imported, i) : Spots(imported, i) = {s}
                 /\ \A i \in 1..Len(imported) :
                      LET m == imported[i]
                          v == found[i].item
                      IN  /\ v.kind # "malformed"
                          /\ m.blocks = Or(v.obj.dsize, 0) \div Unit
                          /\ IF v.kind = "dir"
                             THEN /\ m.etype = "Dir"
                                  /\ Len(m.kids) = Len(v.rest) /\ m.items = Len(v.rest)
                                  /\ DevOf(idevices, m) = found[i].dev
                             ELSE /\ m.etype \in Claims(v) /\ m.kids = <<>>
                                  /\ \A t \in Claims(v) : Rank[t] <= Rank[m.etype]
  <2>1. PICK V, e : ImportOK(imported, idevices, calls, V, e)
    BY DEF JInv, Reads
  <2>2. PICK R : ReadOK(imported, idevices, calls, R, dump[1])
    BY DEF JInv
  <2>3. OpenAt(calls) = {}
    BY <1>2 DEF OpenAt
  <2>4. Spanned(imported, e)
    <3>1. Len(imported) \in Nat /\ e[1] = Len(imported)
      BY <1>2, <2>1, ImportFacts DEF ImportOK
    <3>2. ASSUME NEW i \in 1..Len(imported)
          PROVE  /\ imported[i].kids \in Seq(Nat) /\ e[i] \in i..Len(imported)
                 /\ KidsSpan(imported, e, i, imported[i].kids, e[i])
      BY <2>1, <2>3, DoneFacts
    <3> QED
      BY <3>1, <3>2 DEF Spanned
  <2>5. ASSUME NEW i \in 1..Len(imported)
        PROVE  /\ MadeOf(imported[i], R[i], idevices) /\ DoneRead(imported[i], R, i)
               /\ imported[i].etype # "Dir" => imported[i].kids = <<>>
               /\ ListRead(R, i, imported[i].kids)
    <3>1. MadeOf(imported[i], R[i], idevices) /\ DoneRead(imported[i], R, i)
      BY <2>2, <2>3 DEF ReadOK
    <3>2. EntryOK(imported, idevices, i)
      BY <2>1, DoneFacts
    <3>3. imported[i].etype # "Dir" => imported[i].kids = <<>>
      BY <3>2 DEF EntryOK
    <3>4. ListRead(R, i, imported[i].kids)
      BY <3>1, <3>3 DEF DoneRead, ListRead
    <3> QED
      BY <3>1, <3>3, <3>4
  <2>6. R[1] = Found(dump[1], NoDev)
    BY <1>2, <2>2 DEF ReadOK
  <2>7. \A i \in 1..Len(imported) : FoundIn(dump[1], imported)[i] = R[i]
    <3>1. \A d \in 1..Len(imported) : ListRead(R, d, imported[d].kids)
      BY <2>5
    <3> QED
      BY <2>4, <2>6, <3>1, FoundIsRead
  <2>8. ASSUME NEW i \in 2..Len(imported)
        PROVE  \E s \in Spots(imported, i) : Spots(imported, i) = {s}
    <3>1. \E s : Spots(imported, i) = {s}
      BY <2>4, OneSpot
    <3> QED
      BY <3>1
  <2>9. ASSUME NEW i \in 1..Len(imported)
        PROVE  LET m == imported[i]
                   v == R[i].item
               IN  /\ v.kind # "malformed"
                   /\ m.blocks = Or(v.obj.dsize, 0) \div Unit
                   /\ IF v.kind = "dir"
                      THEN /\ m.etype = "Dir"
                           /\ Len(m.kids) = Len(v.rest) /\ m.items = Len(v.rest)
                           /\ DevOf(idevices, m) = R[i].dev
                      ELSE /\ m.etype \in Claims(v) /\ m.kids = <<>>
                           /\ \A t \in Claims(v) : Rank[t] <= Rank[m.etype]
    BY <2>5, TypeClaimed DEF MadeOf, DoneRead
  <2>10. ~TooDeep(dump[1])
    BY <1>2 DEF JInv
  <2> QED
    BY <2>7, <2>8, <2>9, <2>10
<1> QED
  BY <1>1, <1>2 DEF ReadAsWritten, Imported

----------------------------------------------------------------------------
(* The arena and the devices of an import have their types after every step of   *)
(* parse_item, for any dump, in or out of the middle of it (json_import.rs).      *)
THEOREM ImportTypes == JSpec => []JTypeOK
BY JInvAlways, JTypeFollows, PTL

(* import_tree takes every dump that nests no deeper than serde_json reads and     *)
(* holds no malformed item, whatever program wrote it, and no deeper one; and it   *)
(* makes of each item one entry, in one list, at its place, with its size, the     *)
(* device in force there and the type that its fields claim.                     *)
THEOREM ImportIsDump == JSpec => []ReadAsWritten
BY JInvAlways, ReadFollows, PTL

(* What export_tree wrote of a scan, or of an import, import_tree reads back entry *)
(* for entry, for a tree of any size and shape and any directories, devices,      *)
(* errors and sizes in it.                                                      *)
THEOREM ImportIsSource == JSpec => []RoundTrip
BY JInvAlways, RoundTripFollows, PTL

(* Exporting the import of a tree whose sizes all fit writes its dump again.      *)
THEOREM ReExportIsDump == JSpec => []ReExported
BY JInvAlways, ReExportedFollows, PTL
=============================================================================
