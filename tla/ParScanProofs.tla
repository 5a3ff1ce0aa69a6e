--------------------------- MODULE ParScanProofs ---------------------------
(***************************************************************************)
(* No subdirectory is lost or walked twice by the parallel walker, and what  *)
(* comes out of it is a census, for any number of workers, any tree and       *)
(* whatever happens to it meanwhile.                                         *)
(***************************************************************************)
EXTENDS ParScan, Lemmas

----------------------------------------------------------------------------
(* The tasks: what a call of walk_dir holds, which calls the workers are      *)
(* in, and which subdirectories are waited for.  In predicates on values, for *)
(* the state before and after a step.                                        *)
IsSeq(s) == \E S : s \in Seq(S)

IsCall(c) ==
  c = [at |-> c.at, pat |-> c.pat, left |-> c.left, children |-> c.children,
       pending |-> c.pending, subs |-> c.subs]

Below(d) == {o \in Objects \ {Root} : Up[o] = d}

CallOK(c, d) ==
  /\ IsCall(c) /\ c.at \in {"none", "open", "read", "join", "done"}
  /\ c.left \subseteq Below(d)
  /\ IsSeq(c.pending) /\ IsSeq(c.subs) /\ Len(c.subs) = Len(c.pending)
  /\ \A k \in 1..Len(c.pending) : c.pending[k].obj \in Below(d) \ c.left
  /\ \A j, k \in 1..Len(c.pending) : c.pending[j].obj = c.pending[k].obj => j = k
  /\ c.at = "read" => \A k \in 1..Len(c.pending) : c.subs[k] = <<>>
  /\ c.at \in {"none", "open", "done"} => c.pending = <<>>

PerObject(wk) == wk = [d \in Objects |-> wk[d]]

(* wk2 is wk but for the calls for the directories in D.                       *)
Same(wk, wk2, D) == PerObject(wk2) /\ \A x \in Objects \ D : wk2[x] = wk[x]

Calls(wk) ==
  /\ PerObject(wk)
  /\ \A d \in Objects : CallOK(wk[d], d)

OnStack(st, d) == \E w \in Workers : \E i \in 1..Len(st[w]) : st[w][i] = d

(* A directory is at one place of one stack at most.                           *)
Apart(st) ==
  \A w, v \in Workers : \A i \in 1..Len(st[w]), j \in 1..Len(st[v]) :
    st[w][i] = st[v][j] => w = v /\ i = j

AreStacks(st) == st \in [Workers -> Seq(Objects)] /\ Apart(st)

Stacks(wk, st) ==
  /\ AreStacks(st)
  /\ \A d \in Objects : wk[d].at \in {"open", "read", "join"} <=> OnStack(st, d)

AwaitedIn(wk, d) ==
  /\ wk[Up[d]].at = "join"
  /\ \E k \in 1..Len(wk[Up[d]].pending) :
       wk[Up[d]].pending[k].obj = d /\ wk[Up[d]].subs[k] = <<>>

Tasks(wk, st, q) ==
  /\ q \subseteq Objects \ {Root}
  /\ \A d \in Objects \ {Root} : AwaitedIn(wk, d) <=> d \in q \/ OnStack(st, d)
  /\ \A d \in q : ~OnStack(st, d)
  /\ wk[Root].at = "none" => q = {} /\ \A w \in Workers : st[w] = <<>>

WInv(wk, st, q) == Calls(wk) /\ Stacks(wk, st) /\ Tasks(wk, st, q)

PInv == present \subseteq Objects /\ WInv(walk, stack, queue)

----------------------------------------------------------------------------
(* A worker begins a call, or returns from its innermost one.                  *)
Push(st, w, d) == [st EXCEPT ![w] = Append(@, d)]
Pop(st, w) == [st EXCEPT ![w] = Front(@)]

LEMMA Pushed ==
  ASSUME NEW st, AreStacks(st), NEW w \in Workers, NEW d \in Objects, ~OnStack(st, d)
  PROVE  /\ AreStacks(Push(st, w, d))
         /\ \A e \in Objects : OnStack(Push(st, w, d), e) <=> OnStack(st, e) \/ e = d
<1> DEFINE t == Push(st, w, d)
<1>a. st \in [Workers -> Seq(Objects)] /\ Apart(st)
  BY DEF AreStacks
<1>b. t = [st EXCEPT ![w] = Append(@, d)]
  BY DEF Push
<1> HIDE DEF t
<1>1. t \in [Workers -> Seq(Objects)]
  BY <1>a, <1>b
<1>2. /\ Len(t[w]) = Len(st[w]) + 1 /\ t[w][Len(st[w]) + 1] = d
      /\ \A i \in 1..Len(st[w]) : t[w][i] = st[w][i]
      /\ Len(st[w]) \in Nat
  BY <1>a, <1>b
<1>3. \A v \in Workers : v # w => t[v] = st[v]
  BY <1>a, <1>b
<1>4. \A v \in Workers : \A i \in 1..Len(t[v]) :
        \/ i \in 1..Len(st[v]) /\ t[v][i] = st[v][i]
        \/ v = w /\ i = Len(st[w]) + 1 /\ t[v][i] = d
  BY <1>2, <1>3
<1>5. Apart(t)
  <2>1. \A v \in Workers : \A i \in 1..Len(st[v]) : st[v][i] # d
    BY DEF OnStack
  <2> SUFFICES ASSUME NEW u \in Workers, NEW v \in Workers,
                      NEW i \in 1..Len(t[u]), NEW j \in 1..Len(t[v]),
                      t[u][i] = t[v][j]
               PROVE  u = v /\ i = j
    BY DEF Apart
  <2>2. CASE t[u][i] = d
    <3>1. u = w /\ i = Len(st[w]) + 1
      BY <1>4, <2>1, <2>2
    <3>2. v = w /\ j = Len(st[w]) + 1
      BY <1>4, <2>1, <2>2
    <3> QED
      BY <3>1, <3>2
  <2>3. CASE t[u][i] # d
    <3>1. i \in 1..Len(st[u]) /\ st[u][i] = st[v][j] /\ j \in 1..Len(st[v])
      BY <1>4, <2>3
    <3> QED
      BY <1>a, <3>1 DEF Apart
  <2> QED
    BY <2>2, <2>3
<1>6. ASSUME NEW e \in Objects PROVE OnStack(t, e) <=> OnStack(st, e) \/ e = d
  <2>1. OnStack(t, e) => OnStack(st, e) \/ e = d
    BY <1>4 DEF OnStack
  <2>2. OnStack(st, e) => OnStack(t, e)
    <3>1. SUFFICES ASSUME NEW v \in Workers, NEW i \in 1..Len(st[v]), st[v][i] = e
                   PROVE  OnStack(t, e)
      BY DEF OnStack
    <3>2. i \in 1..Len(t[v]) /\ t[v][i] = e
      BY <1>2, <1>3, <3>1
    <3> QED
      BY <3>2 DEF OnStack
  <2>3. OnStack(t, d)
    <3>1. Len(st[w]) + 1 \in 1..Len(t[w])
      BY <1>2
    <3> QED
      BY <1>2, <3>1 DEF OnStack
  <2> QED
    BY <2>1, <2>2, <2>3
<1> QED
  BY <1>1, <1>5, <1>6 DEF AreStacks, t

LEMMA FrontType ==
  ASSUME NEW s \in Seq(Objects), s # <<>>
  PROVE  /\ Len(s) \in Nat \ {0}
         /\ Front(s) \in Seq(Objects) /\ Len(Front(s)) = Len(s) - 1
         /\ \A i \in 1..(Len(s) - 1) : Front(s)[i] = s[i]
<1>1. Len(s) \in Nat \ {0}
  OBVIOUS
<1>2. Front(s) = [i \in 1..(Len(s) - 1) |-> s[i]]
  BY <1>1 DEF Front
<1> QED
  BY <1>1, <1>2

LEMMA Popped ==
  ASSUME NEW st, AreStacks(st), NEW w \in Workers, st[w] # <<>>
  PROVE  /\ AreStacks(Pop(st, w))
         /\ Last(st[w]) \in Objects /\ OnStack(st, Last(st[w]))
         /\ \A e \in Objects :
              OnStack(Pop(st, w), e) <=> OnStack(st, e) /\ e # Last(st[w])
<1> DEFINE n == Len(st[w])
           t == Pop(st, w)
<1>a. st \in [Workers -> Seq(Objects)] /\ Apart(st)
  BY DEF AreStacks
<1>b. t = [st EXCEPT ![w] = Front(@)]
  BY DEF Pop
<1> HIDE DEF t
<1>1. /\ st[w] \in Seq(Objects) /\ n \in Nat \ {0}
      /\ Front(st[w]) \in Seq(Objects) /\ Len(Front(st[w])) = n - 1
      /\ \A i \in 1..(n - 1) : Front(st[w])[i] = st[w][i]
  BY <1>a, FrontType
<1>2. t \in [Workers -> Seq(Objects)] /\ t[w] = Front(st[w])
  BY <1>a, <1>b, <1>1
<1>3. \A v \in Workers : v # w => t[v] = st[v]
  BY <1>a, <1>b
<1>4. Last(st[w]) = st[w][n] /\ n \in 1..n
  BY <1>1 DEF Last
<1>5. Last(st[w]) \in Objects /\ OnStack(st, Last(st[w]))
  BY <1>1, <1>4 DEF OnStack
<1>6. \A v \in Workers : \A i \in 1..Len(t[v]) :
        i \in 1..Len(st[v]) /\ t[v][i] = st[v][i] /\ (v = w => i # n)
  BY <1>1, <1>2, <1>3
<1>7. Apart(t)
  BY <1>a, <1>6 DEF Apart
<1>8. ASSUME NEW e \in Objects
      PROVE  OnStack(t, e) <=> OnStack(st, e) /\ e # Last(st[w])
  <2>1. OnStack(t, e) => OnStack(st, e) /\ e # Last(st[w])
    BY <1>a, <1>4, <1>6 DEF OnStack, Apart
  <2>2. OnStack(st, e) /\ e # Last(st[w]) => OnStack(t, e)
    <3>1. SUFFICES ASSUME NEW v \in Workers, NEW i \in 1..Len(st[v]), st[v][i] = e,
                          e # Last(st[w])
                   PROVE  OnStack(t, e)
      BY DEF OnStack
    <3>2. i \in 1..Len(t[v]) /\ t[v][i] = e
      BY <1>1, <1>2, <1>3, <1>4, <3>1
    <3> QED
      BY <3>2 DEF OnStack
  <2> QED
    BY <2>1, <2>2
<1> QED
  BY <1>2, <1>5, <1>7, <1>8 DEF AreStacks, t

(* A call that is not, and does not come to be, at its par_iter changes nothing *)
(* in what is waited for.                                                     *)
LEMMA NotWaiting ==
  ASSUME NEW wk, NEW wk2, NEW d,
         \A x \in Objects : x # d => wk2[x] = wk[x],
         wk[d].at # "join", wk2[d].at # "join"
  PROVE  \A e \in Objects \ {Root} : AwaitedIn(wk2, e) <=> AwaitedIn(wk, e)
<1>1. \A e \in Objects \ {Root} : Up[e] \in Objects
  BY FileTreeAssumption
<1> QED
  BY <1>1 DEF AwaitedIn
----------------------------------------------------------------------------
(* What the steps of a call do to its record.                                  *)
LEMMA Appended ==
  ASSUME NEW s, IsSeq(s), NEW x
  PROVE  /\ IsSeq(Append(s, x)) /\ Len(s) \in Nat /\ Len(Append(s, x)) = Len(s) + 1
         /\ \A k \in 1..Len(s) : Append(s, x)[k] = s[k]
         /\ Append(s, x)[Len(s) + 1] = x
<1>1. PICK S : s \in Seq(S)
  BY DEF IsSeq
<1>2. s \in Seq(S \cup {x}) /\ x \in S \cup {x}
  BY <1>1
<1>3. Append(s, x) \in Seq(S \cup {x})
  BY <1>2
<1> QED
  BY <1>2, <1>3 DEF IsSeq

LEMMA EmptyOK == IsSeq(<<>>) /\ Len(<<>>) = 0
<1>1. <<>> \in Seq({})
  OBVIOUS
<1> QED
  BY <1>1 DEF IsSeq

LEMMA ReturnedOK == \A d \in Objects : CallOK(Returned, d) /\ CallOK(NoCall, d)
                                       /\ Returned.at = "done" /\ NoCall.at = "none"
  BY EmptyOK DEF CallOK, IsCall, Returned, NoCall

Opened(c, pat) == [c EXCEPT !.at = "open", !.pat = pat]

LEMMA CallOpened ==
  ASSUME NEW c, NEW d, CallOK(c, d), c.at \in {"none", "open", "done"}, NEW pat,
         NEW c2, c2 = Opened(c, pat)
  PROVE  CallOK(c2, d) /\ c2.at = "open"
<1>1. c2 = [at |-> "open", pat |-> pat, left |-> c.left, children |-> c.children,
            pending |-> c.pending, subs |-> c.subs]
  BY DEF CallOK, IsCall, Opened
<1> QED
  BY <1>1 DEF CallOK, IsCall

LEMMA CallRead ==
  ASSUME NEW c, NEW d, CallOK(c, d), c.at = "open", NEW left, left \subseteq Below(d),
         NEW c2, c2 = [c EXCEPT !.at = "read", !.left = left]
  PROVE  CallOK(c2, d) /\ c2.at = "read"
<1>1. c2 = [at |-> "read", pat |-> c.pat, left |-> left, children |-> c.children,
            pending |-> c.pending, subs |-> c.subs]
  BY DEF CallOK, IsCall
<1>2. c2.pending = <<>> /\ Len(c2.pending) = 0 /\ Len(c2.subs) = 0
  BY <1>1, EmptyOK DEF CallOK
<1>3. 1..Len(c2.pending) = {}
  BY <1>2
<1>4. IsCall(c2) /\ c2.at = "read" /\ c2.left = left
  BY <1>1 DEF IsCall
<1>5. IsSeq(c2.pending) /\ IsSeq(c2.subs)
  BY <1>1 DEF CallOK
<1> QED
  BY <1>2, <1>3, <1>4, <1>5 DEF CallOK

LEMMA CallWithout ==
  ASSUME NEW c, NEW d, CallOK(c, d), c.at = "read", NEW e,
         NEW c2, c2 = [c EXCEPT !.left = @ \ {e}]
  PROVE  CallOK(c2, d) /\ c2.at = "read"
<1>1. c2 = [at |-> "read", pat |-> c.pat, left |-> c.left \ {e},
            children |-> c.children, pending |-> c.pending, subs |-> c.subs]
  BY DEF CallOK, IsCall
<1> QED
  BY <1>1 DEF CallOK, IsCall

LEMMA CallClassified ==
  ASSUME NEW c, NEW d, CallOK(c, d), c.at = "read", NEW e \in c.left,
         NEW c2, c2 = Classified(c, e)
  PROVE  CallOK(c2, d) /\ c2.at = "read"
<1> DEFINE sub == Subdir(Len(c.children) + 1, c, e)
<1>1. sub.obj = e
  BY DEF Subdir
<1>2. \E children :
        \/ c2 = [at |-> "read", pat |-> c.pat, left |-> c.left \ {e},
                 children |-> children, pending |-> c.pending, subs |-> c.subs]
        \/ c2 = [at |-> "read", pat |-> c.pat, left |-> c.left \ {e},
                 children |-> children, pending |-> Append(c.pending, sub),
                 subs |-> Append(c.subs, <<>>)]
  BY DEF CallOK, IsCall, Classified
<1> HIDE DEF sub
<1>3. PICK children :
        \/ c2 = [at |-> "read", pat |-> c.pat, left |-> c.left \ {e},
                 children |-> children, pending |-> c.pending, subs |-> c.subs]
        \/ c2 = [at |-> "read", pat |-> c.pat, left |-> c.left \ {e},
                 children |-> children, pending |-> Append(c.pending, sub),
                 subs |-> Append(c.subs, <<>>)]
  BY <1>2
<1>4. CASE c2 = [at |-> "read", pat |-> c.pat, left |-> c.left \ {e},
                 children |-> children, pending |-> c.pending, subs |-> c.subs]
  BY <1>4 DEF CallOK, IsCall
<1>5. CASE c2 = [at |-> "read", pat |-> c.pat, left |-> c.left \ {e},
                 children |-> children, pending |-> Append(c.pending, sub),
                 subs |-> Append(c.subs, <<>>)]
  <2> DEFINE n == Len(c.pending)
  <2>1. /\ IsSeq(c2.pending) /\ n \in Nat /\ Len(c2.pending) = n + 1
        /\ \A k \in 1..n : c2.pending[k] = c.pending[k]
        /\ c2.pending[n + 1] = sub
    BY <1>5, Appended DEF CallOK
  <2>2. /\ IsSeq(c2.subs) /\ Len(c2.subs) = n + 1
        /\ \A k \in 1..n : c2.subs[k] = c.subs[k]
        /\ c2.subs[n + 1] = <<>>
    BY <1>5, Appended DEF CallOK
  <2>3. c2.at = "read" /\ c2.left = c.left \ {e} /\ IsCall(c2)
    BY <1>5 DEF IsCall
  <2>4. \A k \in 1..n : c.pending[k].obj \in Below(d) \ c.left
    BY DEF CallOK
  <2>5. \A k \in 1..(n + 1) : k \in 1..n \/ k = n + 1
    BY <2>1
  <2> HIDE DEF n
  <2>6. \A k \in 1..Len(c2.pending) : c2.pending[k].obj \in Below(d) \ c2.left
    BY <1>1, <2>1, <2>3, <2>4, <2>5 DEF CallOK
  <2>7. \A j, k \in 1..n : c.pending[j].obj = c.pending[k].obj => j = k
    BY DEF CallOK, n
  <2>8. \A j, k \in 1..Len(c2.pending) :
          c2.pending[j].obj = c2.pending[k].obj => j = k
    <3>1. \A k \in 1..n : c2.pending[k].obj # e
      BY <2>1, <2>4
    <3> QED
      BY <1>1, <2>1, <2>5, <2>7, <3>1
  <2>9. \A k \in 1..n : c.subs[k] = <<>>
    BY DEF CallOK, n
  <2>10. \A k \in 1..Len(c2.pending) : c2.subs[k] = <<>>
    BY <2>1, <2>2, <2>5, <2>9
  <2>11. c2.left \subseteq Below(d)
    BY <2>3 DEF CallOK
  <2> QED
    BY <2>1, <2>2, <2>3, <2>6, <2>8, <2>10, <2>11 DEF CallOK
<1> QED
  BY <1>3, <1>4, <1>5

LEMMA CallForked ==
  ASSUME NEW c, NEW d, CallOK(c, d), c.at = "read", NEW c2, c2 = [c EXCEPT !.at = "join"]
  PROVE  CallOK(c2, d) /\ c2.at = "join" /\ c2.pending = c.pending /\ c2.subs = c.subs
<1>1. c2 = [at |-> "join", pat |-> c.pat, left |-> c.left, children |-> c.children,
            pending |-> c.pending, subs |-> c.subs]
  BY DEF CallOK, IsCall
<1> QED
  BY <1>1 DEF CallOK, IsCall

Answer(c, p, r) == [c EXCEPT !.subs = [@ EXCEPT ![p] = <<r>>]]

LEMMA CallAnswered ==
  ASSUME NEW c, NEW d, CallOK(c, d), c.at = "join", NEW p \in 1..Len(c.pending),
         NEW r, NEW c2, c2 = Answer(c, p, r)
  PROVE  /\ CallOK(c2, d) /\ c2.at = "join" /\ c2.pending = c.pending
         /\ c2.subs[p] = <<r>>
         /\ \A k \in 1..Len(c.pending) : k # p => c2.subs[k] = c.subs[k]
<1>1. c2 = [at |-> "join", pat |-> c.pat, left |-> c.left, children |-> c.children,
            pending |-> c.pending, subs |-> [c.subs EXCEPT ![p] = <<r>>]]
  BY DEF CallOK, IsCall, Answer
<1>2. PICK S : c.subs \in Seq(S)
  BY DEF CallOK, IsSeq
<1>3. c.subs \in Seq(S \cup {<<r>>}) /\ Len(c.subs) = Len(c.pending)
  BY <1>2 DEF CallOK
<1>4. /\ [c.subs EXCEPT ![p] = <<r>>] \in Seq(S \cup {<<r>>})
      /\ Len([c.subs EXCEPT ![p] = <<r>>]) = Len(c.pending)
      /\ [c.subs EXCEPT ![p] = <<r>>][p] = <<r>>
      /\ \A k \in 1..Len(c.pending) :
           k # p => [c.subs EXCEPT ![p] = <<r>>][k] = c.subs[k]
  BY <1>3
<1> QED
  BY <1>1, <1>4 DEF CallOK, IsCall, IsSeq
----------------------------------------------------------------------------
(* The steps of the walk, each between the arrays before it and after it.       *)

(* One call goes on, and does not get to its par_iter.                          *)
LEMMA GoesOn ==
  ASSUME NEW wk, NEW st, NEW q, WInv(wk, st, q), NEW d \in Objects,
         NEW c, CallOK(c, d), wk[d].at \in {"open", "read"}, c.at \in {"open", "read"},
         NEW wk2, Same(wk, wk2, {d}), wk2[d] = c
  PROVE  WInv(wk2, st, q)
<1>1. /\ PerObject(wk2)
      /\ \A x \in Objects : x # d => wk2[x] = wk[x]
  BY DEF Same
<1>2. Calls(wk2)
  BY <1>1 DEF WInv, Calls, PerObject
<1>3. Stacks(wk2, st)
  BY <1>1 DEF WInv, Stacks
<1>4. \A e \in Objects \ {Root} : AwaitedIn(wk2, e) <=> AwaitedIn(wk, e)
  BY <1>1, NotWaiting
<1>5. wk2[Root].at = "none" => wk[Root].at = "none"
  BY <1>1, FileTreeAssumption
<1>6. Tasks(wk2, st, q)
  BY <1>4, <1>5 DEF WInv, Tasks
<1> QED
  BY <1>2, <1>3, <1>6 DEF WInv

(* A worker begins the call for the root or for a queued subdirectory.          *)
LEMMA Begins ==
  ASSUME NEW wk, NEW st, NEW q, WInv(wk, st, q), NEW w \in Workers,
         NEW d \in Objects, d \in q \/ (d = Root /\ wk[Root].at = "none"), NEW pat,
         NEW wk2, Same(wk, wk2, {d}),
         wk2[d] = Opened(wk[d], pat),
         NEW st2, st2 = Push(st, w, d)
  PROVE  WInv(wk2, st2, q \ {d})
<1>1. ~OnStack(st, d)
  BY DEF WInv, Tasks, Stacks
<1>2. wk[d].at \in {"none", "done"} /\ CallOK(wk[d], d)
  BY <1>1 DEF WInv, Stacks, Calls, CallOK
<1>3. PerObject(wk2) /\ \A x \in Objects : x # d => wk2[x] = wk[x]
  BY DEF Same
<1>4. CallOK(wk2[d], d) /\ wk2[d].at = "open"
  <2>1. wk[d].at \in {"none", "open", "done"}
    BY <1>2
  <2> QED
    BY <1>2, <2>1, CallOpened
<1>5. Calls(wk2)
  BY <1>3, <1>4 DEF WInv, Calls, PerObject
<1>6. /\ AreStacks(st2)
      /\ \A e \in Objects : OnStack(st2, e) <=> OnStack(st, e) \/ e = d
  <2>1. AreStacks(st)
    BY DEF WInv, Stacks
  <2> QED
    BY <1>1, <2>1, Pushed
<1>7. Stacks(wk2, st2)
  BY <1>3, <1>4, <1>6 DEF WInv, Stacks
<1>8. \A e \in Objects \ {Root} : AwaitedIn(wk2, e) <=> AwaitedIn(wk, e)
  BY <1>2, <1>3, <1>4, NotWaiting
<1>9. Root \in Objects /\ wk2[Root].at # "none"
  <2>1. CASE d = Root
    BY <2>1, <1>4, FileTreeAssumption
  <2>2. CASE d # Root
    BY <2>2, <1>3, FileTreeAssumption DEF WInv, Tasks
  <2> QED
    BY <2>1, <2>2
<1>10. Tasks(wk2, st2, q \ {d})
  BY <1>6, <1>8, <1>9 DEF WInv, Tasks
<1> QED
  BY <1>5, <1>7, <1>10 DEF WInv

(* A call gets to its par_iter: exactly its subdirectories are now waited for.   *)
LEMMA Forks ==
  ASSUME NEW wk, NEW st, NEW q, WInv(wk, st, q), NEW d \in Objects,
         wk[d].at = "read",
         NEW wk2, Same(wk, wk2, {d}), wk2[d] = [wk[d] EXCEPT !.at = "join"],
         NEW q2, q2 = q \cup {p.obj : p \in ToSet(wk[d].pending)}
  PROVE  WInv(wk2, st, q2)
<1> DEFINE new == {wk[d].pending[k].obj : k \in 1..Len(wk[d].pending)}
<1>1. CallOK(wk[d], d)
  BY DEF WInv, Calls, PerObject
<1>2. /\ PerObject(wk2)
      /\ \A x \in Objects : x # d => wk2[x] = wk[x]
  BY DEF Same
<1>3. /\ CallOK(wk2[d], d) /\ wk2[d].at = "join"
      /\ wk2[d].pending = wk[d].pending /\ wk2[d].subs = wk[d].subs
  BY <1>1, <1>2, CallForked
<1>4. Calls(wk2)
  BY <1>2, <1>3 DEF WInv, Calls, PerObject
<1>5. Stacks(wk2, st)
  BY <1>2, <1>3 DEF WInv, Stacks
<1>6. q2 = q \cup new
  <2>1. PICK S : wk[d].pending \in Seq(S)
    BY <1>1 DEF CallOK, IsSeq
  <2> QED
    BY <2>1 DEF ToSet
<1>7. new \subseteq Below(d) /\ \A e \in Objects \ {Root} : Up[e] \in Objects
  BY <1>1, FileTreeAssumption DEF CallOK
<1>8. ASSUME NEW e \in Objects \ {Root}
      PROVE  /\ AwaitedIn(wk2, e) <=> AwaitedIn(wk, e) \/ e \in new
             /\ e \in new => ~AwaitedIn(wk, e)
  <2>1. CASE Up[e] # d
    BY <2>1, <1>2, <1>7 DEF AwaitedIn, Below
  <2>2. CASE Up[e] = d
    <3>1. ~AwaitedIn(wk, e)
      BY <2>2 DEF AwaitedIn
    <3>2. \A k \in 1..Len(wk[d].pending) : wk[d].subs[k] = <<>>
      BY <1>1 DEF CallOK
    <3>3. AwaitedIn(wk2, e)
            <=> \E k \in 1..Len(wk[d].pending) : wk[d].pending[k].obj = e
      BY <2>2, <1>3, <3>2 DEF AwaitedIn
    <3>4. e \in new <=> \E k \in 1..Len(wk[d].pending) : wk[d].pending[k].obj = e
      OBVIOUS
    <3> QED
      BY <3>1, <3>3, <3>4
  <2> QED
    BY <2>1, <2>2
<1>9. wk2[Root].at = "none" => wk[Root].at = "none" /\ d # Root
  BY <1>2, <1>3, FileTreeAssumption
<1>10. wk[Root].at = "none" => d = Root
  BY DEF WInv, Stacks, Tasks, OnStack
<1> HIDE DEF new
<1>11. Tasks(wk2, st, q2)
  <2>1. q2 \subseteq Objects \ {Root}
    BY <1>6, <1>7 DEF WInv, Tasks, Below
  <2>2. \A e \in Objects \ {Root} : AwaitedIn(wk2, e) <=> e \in q2 \/ OnStack(st, e)
    BY <1>6, <1>8 DEF WInv, Tasks
  <2>3. \A e \in q2 : ~OnStack(st, e)
    BY <1>6, <1>8, <2>1 DEF WInv, Tasks
  <2> QED
    BY <2>1, <2>2, <2>3, <1>9, <1>10 DEF Tasks
<1> QED
  BY <1>4, <1>5, <1>11 DEF WInv

(* A call returns: it leaves its stack, and is waited for no more.               *)
LEMMA Leaves ==
  ASSUME NEW wk, NEW st, NEW q, WInv(wk, st, q), NEW w \in Workers, st[w] # <<>>,
         NEW d, d = Last(st[w]),
         NEW st2, st2 = Pop(st, w),
         NEW wk2, PerObject(wk2), wk2[d] = Returned,
         \A x \in Objects : x # d => CallOK(wk2[x], x) /\ wk2[x].at = wk[x].at,
         \A e \in Objects \ {Root} : AwaitedIn(wk2, e) <=> AwaitedIn(wk, e) /\ e # d
  PROVE  WInv(wk2, st2, q)
<1>1. /\ AreStacks(st2)
      /\ d \in Objects /\ OnStack(st, d)
      /\ \A e \in Objects : OnStack(st2, e) <=> OnStack(st, e) /\ e # d
  <2>1. AreStacks(st)
    BY DEF WInv, Stacks
  <2> QED
    BY <2>1, Popped
<1>2. CallOK(wk2[d], d) /\ wk2[d].at = "done"
  BY <1>1, ReturnedOK
<1>3. Calls(wk2)
  BY <1>2 DEF WInv, Calls, PerObject
<1>4. Stacks(wk2, st2)
  BY <1>1, <1>2 DEF WInv, Stacks
<1>5. wk2[Root].at # "none"
  <2>1. wk[Root].at # "none" /\ Root \in Objects
    BY FileTreeAssumption DEF WInv, Tasks
  <2> QED
    BY <1>2, <2>1
<1>6. Tasks(wk2, st2, q)
  BY <1>1, <1>5 DEF WInv, Tasks
<1> QED
  BY <1>3, <1>4, <1>6 DEF WInv

(* The root's call returns to scan_parallel.                                     *)
LEMMA RootReturns ==
  ASSUME NEW wk, NEW st, NEW q, WInv(wk, st, q), NEW w \in Workers, st[w] # <<>>,
         Last(st[w]) = Root,
         \A e \in Objects \ {Root} : Up[e] = Root => ~AwaitedIn(wk, e),
         NEW st2, st2 = Pop(st, w),
         NEW wk2, Same(wk, wk2, {Root}), wk2[Root] = Returned
  PROVE  WInv(wk2, st2, q)
<1>1. /\ Root \in Objects /\ \A e \in Objects \ {Root} : Up[e] \in Objects
  BY FileTreeAssumption
<1>2. /\ PerObject(wk2)
      /\ \A x \in Objects : x # Root => wk2[x] = wk[x]
  BY DEF Same
<1>3. \A x \in Objects : x # Root => CallOK(wk2[x], x) /\ wk2[x].at = wk[x].at
  BY <1>2 DEF WInv, Calls, PerObject
<1>4. \A e \in Objects \ {Root} :
        AwaitedIn(wk2, e) <=> AwaitedIn(wk, e) /\ e # Root
  BY <1>1, <1>2, ReturnedOK DEF AwaitedIn
<1> QED
  BY <1>2, <1>3, <1>4, Leaves

(* The call for a subdirectory returns to the par_iter that waits for it.         *)
PlaceIn(wk, d) ==
  CHOOSE k \in 1..Len(wk[Up[d]].pending) : wk[Up[d]].pending[k].obj = d

LEMMA SubReturns ==
  ASSUME NEW wk, NEW st, NEW q, WInv(wk, st, q), NEW w \in Workers, st[w] # <<>>,
         NEW d, d = Last(st[w]), d # Root,
         \A e \in Objects \ {Root} : Up[e] = d => ~AwaitedIn(wk, e),
         NEW p, p = PlaceIn(wk, d), NEW r,
         NEW st2, st2 = Pop(st, w),
         NEW wk2, Same(wk, wk2, {d, Up[d]}), wk2[d] = Returned,
         wk2[Up[d]] = Answer(wk[Up[d]], p, r)
  PROVE  WInv(wk2, st2, q)
<1> DEFINE u == Up[d]
<1>1. d \in Objects \ {Root} /\ OnStack(st, d)
  <2>1. AreStacks(st)
    BY DEF WInv, Stacks
  <2> QED
    BY <2>1, Popped
<1>2. u \in Objects /\ AwaitedIn(wk, d) /\ u # d
  BY <1>1, FileTreeAssumption DEF WInv, Tasks
<1>3. wk[u].at = "join" /\ CallOK(wk[u], u)
  BY <1>2 DEF AwaitedIn, WInv, Calls
<1>4. p \in 1..Len(wk[u].pending) /\ wk[u].pending[p].obj = d
  BY <1>2 DEF AwaitedIn, PlaceIn
<1>5. /\ PerObject(wk2) /\ wk2[u] = Answer(wk[u], p, r)
      /\ \A x \in Objects : x # d /\ x # u => wk2[x] = wk[x]
  BY DEF Same
<1> HIDE DEF u
<1>6. /\ CallOK(wk2[u], u) /\ wk2[u].at = "join" /\ wk2[u].pending = wk[u].pending
      /\ wk2[u].subs[p] = <<r>>
      /\ \A k \in 1..Len(wk[u].pending) : k # p => wk2[u].subs[k] = wk[u].subs[k]
  BY <1>3, <1>4, <1>5, CallAnswered
<1>7. \A x \in Objects : x # d => CallOK(wk2[x], x) /\ wk2[x].at = wk[x].at
  BY <1>3, <1>5, <1>6 DEF WInv, Calls, PerObject
<1>8. ASSUME NEW e \in Objects \ {Root}
      PROVE  AwaitedIn(wk2, e) <=> AwaitedIn(wk, e) /\ e # d
  <2>1. Up[e] \in Objects
    BY FileTreeAssumption
  <2>2. CASE Up[e] = d
    BY <1>1, <1>2, <1>5, <2>2, ReturnedOK DEF AwaitedIn, u
  <2>3. CASE Up[e] = u
    <3>1. \A j, k \in 1..Len(wk[u].pending) :
            wk[u].pending[j].obj = wk[u].pending[k].obj => j = k
      BY <1>3 DEF CallOK
    <3>2. <<r>> # <<>>
      OBVIOUS
    <3>3. \A k \in 1..Len(wk[u].pending) :
            wk2[u].subs[k] = <<>> <=> wk[u].subs[k] = <<>> /\ k # p
      BY <1>6, <3>2
    <3> QED
      BY <1>3, <1>4, <1>6, <2>3, <3>1, <3>3 DEF AwaitedIn
  <2>4. CASE Up[e] # d /\ Up[e] # u
    <3>1. wk2[Up[e]] = wk[Up[e]] /\ e # d
      BY <1>5, <2>1, <2>4 DEF u
    <3> QED
      BY <3>1 DEF AwaitedIn
  <2> QED
    BY <2>2, <2>3, <2>4
<1> QED
  BY <1>5, <1>7, <1>8, Leaves
----------------------------------------------------------------------------
(* The actions.                                                                 *)
LEMMA PInitInv == PInit => PInv
<1> SUFFICES ASSUME PInit PROVE PInv
  OBVIOUS
<1>1. present \subseteq Objects
  BY DEF PInit, FsInit
<1>2. /\ walk = [o \in Objects |-> NoCall] /\ stack = [w \in Workers |-> <<>>]
      /\ queue = {}
  BY DEF PInit
<1>3. Calls(walk)
  BY <1>2, ReturnedOK DEF Calls, PerObject
<1>4. \A d : ~OnStack(stack, d)
  BY <1>2, EmptyOK DEF OnStack
<1>5. Stacks(walk, stack)
  <2>1. stack \in [Workers -> Seq(Objects)]
    BY <1>2
  <2>2. Apart(stack)
    BY <1>2, EmptyOK DEF Apart
  <2>3. \A d \in Objects : walk[d].at = "none"
    BY <1>2, ReturnedOK
  <2> QED
    BY <1>4, <2>1, <2>2, <2>3 DEF Stacks, AreStacks
<1>6. Tasks(walk, stack, queue)
  <2>1. \A d \in Objects \ {Root} : Up[d] \in Objects
    BY FileTreeAssumption
  <2>2. \A d \in Objects \ {Root} : ~AwaitedIn(walk, d)
    BY <1>2, <2>1, ReturnedOK DEF AwaitedIn
  <2> QED
    BY <1>2, <1>4, <2>2 DEF Tasks
<1> QED
  BY <1>1, <1>3, <1>5, <1>6 DEF PInv, WInv

(* What a change of one call is of the array of the calls.                        *)
LEMMA OneCall ==
  ASSUME NEW wk, PerObject(wk), NEW d \in Objects, NEW c
  PROVE  LET wk2 == [wk EXCEPT ![d] = c] IN Same(wk, wk2, {d}) /\ wk2[d] = c
  BY DEF PerObject, Same

(* The call a busy worker is in, and the one that waits for it.                    *)
LEMMA InnermostCall ==
  ASSUME PInv, NEW w \in Workers, Busy(w)
  PROVE  LET d == Last(stack[w])
         IN  /\ d \in Objects /\ PerObject(walk) /\ CallOK(walk[d], d)
             /\ d # Root => d \in Objects \ {Root} /\ Up[d] \in Objects /\ AwaitedIn(walk, d)
<1>1. AreStacks(stack) /\ stack[w] # <<>>
  BY DEF PInv, WInv, Stacks, Busy
<1>2. Last(stack[w]) \in Objects /\ OnStack(stack, Last(stack[w]))
  BY <1>1, Popped
<1> QED
  BY <1>2, FileTreeAssumption DEF PInv, WInv, Calls, Tasks

LEMMA Delivered ==
  ASSUME PInv, NEW w \in Workers, Busy(w), NEW r, Deliver(w, Last(stack[w]), r),
         \A e \in Objects \ {Root} : Up[e] = Last(stack[w]) => ~AwaitedIn(walk, e)
  PROVE  PInv'
<1> DEFINE d == Last(stack[w])
<1>1. /\ d \in Objects /\ PerObject(walk)
      /\ d # Root => d \in Objects \ {Root} /\ Up[d] \in Objects /\ AwaitedIn(walk, d)
  BY InnermostCall
<1>2. stack' = Pop(stack, w) /\ queue' = queue /\ present' = present
  BY DEF Deliver, Pop, treeVars, fsVars
<1>3. WInv(walk, stack, queue) /\ stack[w] # <<>>
  BY DEF PInv, Busy
<1>4. CASE d = Root
  <2>1. walk' = [walk EXCEPT ![Root] = Returned]
    BY <1>4 DEF Deliver
  <2>2. Same(walk, walk', {Root}) /\ walk'[Root] = Returned
    BY <1>1, <1>4, <2>1, OneCall
  <2>3. WInv(walk', stack', queue)
    BY <1>2, <1>3, <1>4, <2>2, RootReturns
  <2> QED
    BY <1>2, <2>3 DEF PInv
<1>5. CASE d # Root
  <2>1. walk' = [walk EXCEPT ![d] = Returned,
                             ![Up[d]].subs[PlaceIn(walk, d)] = <<r>>]
    BY <1>5 DEF Deliver, Place, PlaceIn
  <2>2. Up[d] # d
    BY <1>1, <1>5
  <2>3. /\ Same(walk, walk', {d, Up[d]}) /\ walk'[d] = Returned
        /\ walk'[Up[d]] = Answer(walk[Up[d]], PlaceIn(walk, d), r)
    BY <1>1, <1>5, <2>1, <2>2 DEF PerObject, Same, Answer
  <2>4. WInv(walk', stack', queue)
    BY <1>2, <1>3, <1>5, <2>3, SubReturns
  <2> QED
    BY <1>2, <2>4 DEF PInv
<1> QED
  BY <1>4, <1>5

(* A call waits for no subdirectory unless it is at its par_iter with a result     *)
(* still to come.                                                                *)
LEMMA NoneAwaited ==
  ASSUME NEW d, walk[d].at # "join" \/ (walk[d].at = "join" /\ Complete(walk[d]))
  PROVE  \A e \in Objects \ {Root} : Up[e] = d => ~AwaitedIn(walk, e)
  BY DEF AwaitedIn, Complete

LEMMA InstallInv ==
  ASSUME PInv, NEW w \in Workers, Install(w) PROVE PInv'
<1>1. WInv(walk, stack, queue) /\ Root \in Objects /\ PerObject(walk)
  BY FileTreeAssumption DEF PInv, WInv, Calls
<1>2. walk[Root].at = "none" /\ stack[w] = <<>> /\ stack \in [Workers -> Seq(Objects)]
  BY DEF Install, PInv, WInv, Tasks, Stacks, AreStacks
<1>3. queue' = queue /\ queue = {} /\ present' = present
  BY <1>2 DEF Install, PInv, WInv, Tasks, treeVars, fsVars
<1>4. stack' = Push(stack, w, Root)
  <2>1. Append(<<>>, Root) = <<Root>>
    OBVIOUS
  <2>2. stack' = [stack EXCEPT ![w] = <<Root>>]
    BY DEF Install
  <2> QED
    BY <1>2, <2>1, <2>2 DEF Push
<1>5. Same(walk, walk', {Root}) /\ walk'[Root] = Opened(walk[Root], cur)
  <2>1. walk' = [walk EXCEPT ![Root].at = "open", ![Root].pat = cur]
    BY DEF Install, Called
  <2> QED
    BY <1>1, <2>1 DEF Same, PerObject, Opened
<1>6. WInv(walk', stack', queue \ {Root})
  BY <1>1, <1>2, <1>4, <1>5, Begins
<1> QED
  BY <1>3, <1>6 DEF PInv

LEMMA TakeInv ==
  ASSUME PInv, NEW w \in Workers, NEW d, Take(w, d) PROVE PInv'
<1> DEFINE pat == walk[Up[d]].pending[Place(d)].pat
<1>1. WInv(walk, stack, queue) /\ PerObject(walk) /\ d \in queue /\ d \in Objects
  BY DEF Take, PInv, WInv, Calls, Tasks
<1>2. queue' = queue \ {d} /\ stack' = Push(stack, w, d) /\ present' = present
  BY DEF Take, Rest, Push, treeVars, fsVars
<1>3. walk' = [walk EXCEPT ![d].at = "open", ![d].pat = pat]
  BY DEF Take, Called
<1> HIDE DEF pat
<1>4. Same(walk, walk', {d}) /\ walk'[d] = Opened(walk[d], pat)
  BY <1>1, <1>3 DEF Same, PerObject, Opened
<1>5. WInv(walk', stack', queue \ {d})
  BY <1>1, <1>2, <1>4, Begins
<1> QED
  BY <1>2, <1>5 DEF PInv

(* A step with which one worker's call goes on to another entry.                    *)
LEMMA OnwardInv ==
  ASSUME PInv, NEW w \in Workers, Busy(w), Call(w).at \in {"open", "read"},
         NEW c, CallOK(c, Last(stack[w])), c.at \in {"open", "read"},
         walk' = [walk EXCEPT ![Last(stack[w])] = c],
         stack' = stack, queue' = queue, present' = present
  PROVE  PInv'
<1> DEFINE d == Last(stack[w])
<1>1. d \in Objects /\ PerObject(walk) /\ WInv(walk, stack, queue)
  BY InnermostCall DEF PInv
<1>2. walk[d].at \in {"open", "read"} /\ walk' = [walk EXCEPT ![d] = c] /\ CallOK(c, d)
  BY DEF Call
<1> HIDE DEF d
<1>3. Same(walk, walk', {d}) /\ walk'[d] = c
  BY <1>1, <1>2 DEF Same, PerObject
<1>4. WInv(walk', stack, queue)
  BY <1>1, <1>2, <1>3, GoesOn
<1> QED
  BY <1>4 DEF PInv

LEMMA OpenDirInv ==
  ASSUME PInv, NEW w \in Workers, OpenDir(w) PROVE PInv'
<1> DEFINE d == Last(stack[w])
<1>1. Busy(w) /\ walk[d].at = "open" /\ Call(w) = walk[d]
  BY DEF OpenDir, Call
<1>2. d \in Objects /\ PerObject(walk) /\ CallOK(walk[d], d)
  BY <1>1, InnermostCall
<1>3. CASE /\ walk' = [walk EXCEPT ![d].at = "read", ![d].left = Listed(d)]
           /\ UNCHANGED <<stack, queue, present>>
  <2> DEFINE c == [walk[d] EXCEPT !.at = "read", !.left = Listed(d)]
  <2>1. walk' = [walk EXCEPT ![d] = c]
    BY <1>3
  <2>2. Listed(d) \subseteq Below(d)
    BY DEF PInv, Listed, Below
  <2>3. CallOK(c, d) /\ c.at = "read"
    BY <1>1, <1>2, <2>2, CallRead
  <2> HIDE DEF c
  <2> QED
    BY <1>1, <1>3, <2>1, <2>3, OnwardInv
<1>4. CASE Deliver(w, d, [Walked(d, "Dir") EXCEPT !.err = TRUE])
  <2>1. \A e \in Objects \ {Root} : Up[e] = d => ~AwaitedIn(walk, e)
    BY <1>1, NoneAwaited
  <2> QED
    BY <1>1, <1>4, <2>1, Delivered
<1> QED
  BY <1>3, <1>4 DEF OpenDir, treeVars, fsVars

LEMMA SkipInv ==
  ASSUME PInv, NEW w \in Workers, Busy(w), NEW e, Skip(w, e) PROVE PInv'
<1> DEFINE d == Last(stack[w])
           c == [walk[d] EXCEPT !.left = @ \ {e}]
<1>1. walk[d].at = "read" /\ Call(w) = walk[d]
  BY DEF Skip, Call
<1>2. d \in Objects /\ PerObject(walk) /\ CallOK(walk[d], d)
  BY InnermostCall
<1>3. CallOK(c, d) /\ c.at = "read"
  BY <1>1, <1>2, CallWithout
<1>4. walk' = [walk EXCEPT ![d] = c] /\ UNCHANGED <<stack, queue, present>>
  BY DEF Skip, NotReturned
<1> HIDE DEF c
<1> QED
  BY <1>1, <1>3, <1>4, OnwardInv

LEMMA EntryInv ==
  ASSUME PInv, NEW w \in Workers, Busy(w), NEW e, Entry(w, e) PROVE PInv'
<1> DEFINE d == Last(stack[w])
           c == Classified(walk[d], e)
<1>1. walk[d].at = "read" /\ Call(w) = walk[d] /\ e \in walk[d].left
  BY DEF Entry, Call
<1>2. d \in Objects /\ PerObject(walk) /\ CallOK(walk[d], d)
  BY InnermostCall
<1>3. CallOK(c, d) /\ c.at = "read"
  BY <1>1, <1>2, CallClassified
<1>4. walk' = [walk EXCEPT ![d] = c] /\ UNCHANGED <<stack, queue, present>>
  BY DEF Entry, treeVars, fsVars
<1> HIDE DEF c
<1> QED
  BY <1>1, <1>3, <1>4, OnwardInv

LEMMA ForkInv ==
  ASSUME PInv, NEW w \in Workers, Fork(w) PROVE PInv'
<1> DEFINE d == Last(stack[w])
<1>1. Busy(w) /\ walk[d].at = "read" /\ Call(w) = walk[d]
  BY DEF Fork, Call
<1>2. d \in Objects /\ PerObject(walk) /\ WInv(walk, stack, queue)
  BY <1>1, InnermostCall DEF PInv
<1>3. /\ walk' = [walk EXCEPT ![d].at = "join"]
      /\ queue' = queue \cup {p.obj : p \in ToSet(walk[d].pending)}
      /\ UNCHANGED <<stack, present>>
  BY DEF Fork, Call, treeVars, fsVars
<1> HIDE DEF d
<1>4. Same(walk, walk', {d}) /\ walk'[d] = [walk[d] EXCEPT !.at = "join"]
  BY <1>2, <1>3 DEF Same, PerObject
<1>5. WInv(walk', stack, queue')
  BY <1>1, <1>2, <1>3, <1>4, Forks
<1> QED
  BY <1>3, <1>5 DEF PInv

LEMMA JoinInv ==
  ASSUME PInv, NEW w \in Workers, Join(w) PROVE PInv'
<1> DEFINE d == Last(stack[w])
<1>1. Busy(w) /\ walk[d].at = "join" /\ Complete(walk[d])
  BY DEF Join, Call
<1>2. PICK r : Deliver(w, d, r)
  BY DEF Join
<1>3. \A e \in Objects \ {Root} : Up[e] = d => ~AwaitedIn(walk, e)
  BY <1>1, NoneAwaited
<1> QED
  BY <1>1, <1>2, <1>3, Delivered

LEMMA IdleInv ==
  ASSUME PInv, UNCHANGED walkVars, present' \subseteq present PROVE PInv'
  BY DEF PInv, walkVars

LEMMA NextInv ==
  ASSUME PInv, [PNext]_pvars PROVE PInv'
<1>1. ASSUME NEW w \in Workers, Work(w) PROVE PInv'
  <2>1. CASE Install(w)
    BY <2>1, InstallInv
  <2>2. CASE OpenDir(w)
    BY <2>2, OpenDirInv
  <2>3. CASE Fork(w)
    BY <2>3, ForkInv
  <2>4. CASE Join(w)
    BY <2>4, JoinInv
  <2>5. CASE \E d \in queue : Take(w, d)
    BY <2>5, TakeInv
  <2>6. CASE Busy(w) /\ \E e \in Call(w).left : Skip(w, e) \/ Entry(w, e)
    BY <2>6, SkipInv, EntryInv
  <2> QED
    BY <1>1, <2>1, <2>2, <2>3, <2>4, <2>5, <2>6 DEF Work
<1>2. CASE Main
  <2>1. UNCHANGED <<walkVars, present>>
    BY <1>2 DEF Main, Prepare, Configure, NoScan, BuildRoot, EmitError, Emit, EmitReturn,
                treeVars, fsVars
  <2> QED
    BY <2>1, IdleInv
<1>3. CASE Others
  <2>1. UNCHANGED walkVars /\ present' \subseteq present
    BY <1>3 DEF Others, Interference, Vanish, Replace
  <2> QED
    BY <2>1, IdleInv
<1>4. CASE UNCHANGED pvars
  <2>1. UNCHANGED <<walkVars, present>>
    BY <1>4 DEF pvars, treeVars, fsVars
  <2> QED
    BY <2>1, IdleInv
<1> QED
  BY <1>1, <1>2, <1>3, <1>4 DEF PNext

LEMMA PInvariant == PSpec => []PInv
<1>1. PInv /\ [PNext]_pvars => PInv'
  BY NextInv
<1> QED
  BY PInitInv, <1>1, PTL DEF PSpec

----------------------------------------------------------------------------
(* What the invariant says of the workers.                                       *)
LEMMA OneWorker ==
  ASSUME PInv, NEW d \in Objects
  PROVE  Cardinality(Walkers(d)) = IF OnStack(stack, d) THEN 1 ELSE 0
<1>1. stack \in [Workers -> Seq(Objects)] /\ Apart(stack)
  BY DEF PInv, WInv, Stacks, AreStacks
<1>2. \A w \in Workers : d \in ToSet(stack[w])
                           <=> \E i \in 1..Len(stack[w]) : stack[w][i] = d
  BY <1>1 DEF ToSet
<1>3. CASE ~OnStack(stack, d)
  <2>1. Walkers(d) = {}
    BY <1>2, <1>3 DEF Walkers, OnStack
  <2> QED
    BY <1>3, <2>1, FS_EmptySet
<1>4. CASE OnStack(stack, d)
  <2>1. PICK w \in Workers : \E i \in 1..Len(stack[w]) : stack[w][i] = d
    BY <1>4 DEF OnStack
  <2>2. \A v \in Workers : d \in ToSet(stack[v]) => v = w
    BY <1>1, <1>2, <2>1 DEF Apart
  <2>3. Walkers(d) = {w}
    BY <1>2, <2>1, <2>2 DEF Walkers
  <2> QED
    BY <1>4, <2>3, FS_Singleton
<1> QED
  BY <1>3, <1>4

(* Each subdirectory a par_iter waits for is in the queue of the pool, or on the   *)
(* stack of exactly one worker, never in both, and nothing else is in either:      *)
(* walk_dir (scan_parallel.rs) neither loses a directory nor walks one twice, for  *)
(* any number of workers, any tree and any interference.                          *)
THEOREM TasksOnce == PSpec => []EachTaskOnce
<1>1. PInv => EachTaskOnce
  <2> SUFFICES ASSUME PInv, NEW d \in Objects \ {Root}
               PROVE  Cardinality(Walkers(d)) + (IF d \in queue THEN 1 ELSE 0)
                        = IF Awaited(d) THEN 1 ELSE 0
    BY DEF EachTaskOnce
  <2>1. Cardinality(Walkers(d)) = IF OnStack(stack, d) THEN 1 ELSE 0
    BY OneWorker
  <2>2. Awaited(d) <=> AwaitedIn(walk, d)
    BY DEF Awaited, AwaitedIn
  <2>3. /\ AwaitedIn(walk, d) <=> d \in queue \/ OnStack(stack, d)
        /\ ~(d \in queue /\ OnStack(stack, d))
    BY DEF PInv, WInv, Tasks
  <2> QED
    BY <2>1, <2>2, <2>3
<1> QED
  BY PInvariant, <1>1, PTL

----------------------------------------------------------------------------
(* The emission is the sequential walk over again, of what the workers found:   *)
(* a call of emit has the children left, and a directory's read error, if it    *)
(* has one, still to be reported.  T is the module of the sequential walk, with *)
(* the calls of emit for those of scan_dir.                                    *)
X == INSTANCE ExcludeProofs

Carried(o) == X!CarriedBy(C!PathTo(o))

ObjsOf(s) == {s[i].obj : i \in 1..Len(s)}

Resumed(m, o) == [read |-> ~m.err, left |-> ObjsOf(m.rest), pat |-> Carried(o)]

Todo == [l \in 1..Len(emits) |-> Resumed(emits[l], names[open[l].id])]

T == INSTANCE ScanProofs WITH todo <- Todo

LEMMA SameAssumptions == T!FileTreeAssumption /\ T!SinkAssumption
<1>1. Nature = T!Nature
  BY DEF Nature, T!Nature
<1>2. (Ex!PatternTypes <=> T!Ex!PatternTypes) /\ Ex!PathNames = T!Ex!PathNames
  BY DEF Ex!PatternTypes, Ex!Slash, Ex!Globs, Ex!Empty, Ex!PathNames,
         T!Ex!PatternTypes, T!Ex!Slash, T!Ex!Globs, T!Ex!Empty, T!Ex!PathNames
<1>3. \A x : T!Cardinality(x) = Cardinality(x) /\ T!IsFiniteSet(x) = IsFiniteSet(x)
  BY DEF T!Cardinality, T!IsFiniteSet, Cardinality, IsFiniteSet
<1>4. T!FileTreeAssumption
  BY FileTreeAssumption, <1>1, <1>2, <1>3
<1>5. T!SinkAssumption
  BY SinkAssumption
<1> QED
  BY <1>4, <1>5

(* The definitions under the names that the instances give them.                *)
LEMMA SameCarried ==
  /\ \A ns : X!CarriedBy(ns) = T!X!CarriedBy(ns)
  /\ \A o : C!PathTo(o) = T!C!PathTo(o)
  /\ \A o : Carried(o) = T!X!CarriedBy(T!C!PathTo(o))
  /\ T!X!PatternSets = Ex!PatternSets
<1>1. \A ns : X!CarriedBy(ns) = T!X!CarriedBy(ns)
  BY DEF X!CarriedBy, X!Carried, X!Pointers, X!Patterns, X!IsLast, X!FitsTail, X!Match,
         X!Anchored, X!Slash,
         T!X!CarriedBy, T!X!Carried, T!X!Pointers, T!X!Patterns, T!X!IsLast,
         T!X!FitsTail, T!X!Match, T!X!Anchored, T!X!Slash
<1>2. \A o : C!PathTo(o) = T!C!PathTo(o)
  BY DEF C!PathTo, T!C!PathTo
<1>3. T!X!PatternSets = Ex!PatternSets
  BY DEF T!X!PatternSets, T!X!Pointers, T!X!Patterns, Ex!PatternSets, Ex!Pointers, Ex!Patterns
<1> QED
  BY <1>1, <1>2, <1>3 DEF Carried

LEMMA SameTree ==
  /\ \A o : IsDirectory(o) <=> T!IsDirectory(o)
  /\ \A o : Listed(o) = T!Listed(o)
  /\ \A o : CanRead(o) <=> T!CanRead(o)
  /\ Scannable <=> T!Scannable
  /\ \A n, there, a : Class(n, there, a) = T!Class(n, there, a)
  /\ \A pat, o : Ex!Matches(pat, NameOf[o]) = T!Ex!Matches(pat, NameOf[o])
  /\ \A pat, o : Ex!Enter(pat, NameOf[o]) = T!SubPat(pat, o)
<1>1. \A pat, name : Ex!Matches(pat, name) = T!Ex!Matches(pat, name)
  BY DEF Ex!Matches, Ex!MatchList, Ex!Match, Ex!At,
         T!Ex!Matches, T!Ex!MatchList, T!Ex!Match, T!Ex!At
<1>2. \A pat, name : Ex!Enter(pat, name) = T!Ex!Enter(pat, name)
  BY DEF Ex!Enter, Ex!Sorted, Ex!Subs, Ex!Match, Ex!At, Ex!IsLast,
         T!Ex!Enter, T!Ex!Sorted, T!Ex!Subs, T!Ex!Match, T!Ex!At, T!Ex!IsLast
<1>3. \A o : (IsDirectory(o) <=> T!IsDirectory(o)) /\ Listed(o) = T!Listed(o)
  BY DEF IsDirectory, T!IsDirectory, Listed, T!Listed
<1>4. \A n, there, a : Class(n, there, a) = T!Class(n, there, a)
  BY DEF Class, T!Class
<1> QED
  BY <1>1, <1>2, <1>3, <1>4 DEF CanRead, T!CanRead, Scannable, T!Scannable, T!SubPat

LEMMA SameDisturbance ==
  /\ Interference => T!Interference
  /\ \A o : NotReturned(o) => T!NotReturned(o)
<1>1. \A o : Under(o) = T!Under(o)
  BY DEF Under, Above, T!Under, T!Above
<1>2. \A o : (Vanish(o) => T!Vanish(o)) /\ (Replace(o) => T!Replace(o))
  BY <1>1 DEF Vanish, Replace, T!Vanish, T!Replace
<1>3. patternVars = T!patternVars
  BY DEF patternVars, T!patternVars
<1>4. \A o : NotReturned(o) => T!NotReturned(o)
  BY <1>1 DEF NotReturned, T!NotReturned, patternVars, T!patternVars
<1> QED
  BY <1>2, <1>4 DEF Interference, T!Interference, patternVars, T!patternVars

LEMMA SameAdd ==
  ASSUME NEW w PROVE /\ Ex!Add(w) => T!Ex!Add(w)
                     /\ T!C!Ex!Add(w) => C!Ex!Add(w)
<1>1. Ex!Parse(w) = T!Ex!Parse(w)
  BY DEF Ex!Parse, Ex!Split, Ex!SlashAt, Ex!Field, Ex!FirstSlash, Ex!OnlySlashes,
         Ex!Start, Ex!Component, Ex!Empty, Ex!Slash,
         T!Ex!Parse, T!Ex!Split, T!Ex!SlashAt, T!Ex!Field, T!Ex!FirstSlash,
         T!Ex!OnlySlashes, T!Ex!Start, T!Ex!Component, T!Ex!Empty, T!Ex!Slash
<1>2. C!Ex!Parse(w) = T!C!Ex!Parse(w)
  BY DEF C!Ex!Parse, C!Ex!Split, C!Ex!SlashAt, C!Ex!Field, C!Ex!FirstSlash,
         C!Ex!OnlySlashes, C!Ex!Start, C!Ex!Component, C!Ex!Empty, C!Ex!Slash,
         T!C!Ex!Parse, T!C!Ex!Split, T!C!Ex!SlashAt, T!C!Ex!Field, T!C!Ex!FirstSlash,
         T!C!Ex!OnlySlashes, T!C!Ex!Start, T!C!Ex!Component, T!C!Ex!Empty, T!C!Ex!Slash
<1>3. \A pats, t, chain : Ex!With(pats, t, chain) = T!Ex!With(pats, t, chain)
  BY Zenon DEF Ex!With, T!Ex!With
<1>4. \A pats, t, chain : C!Ex!With(pats, t, chain) = T!C!Ex!With(pats, t, chain)
  BY Zenon DEF C!Ex!With, T!C!Ex!With
<1>5. Ex!Add(w) => T!Ex!Add(w)
  BY <1>1, <1>3, Zenon DEF Ex!Add, T!Ex!Add, Ex!Slash, T!Ex!Slash
<1>6. T!C!Ex!Add(w) => C!Ex!Add(w)
  BY <1>2, <1>4, Zenon DEF C!Ex!Add, T!C!Ex!Add, C!Ex!Slash, T!C!Ex!Slash
<1> QED
  BY <1>5, <1>6

LEMMA SameDescend ==
  ASSUME NEW name PROVE /\ Ex!Descend(name) => T!Ex!Descend(name)
                        /\ T!C!Ex!Descend(name) => C!Ex!Descend(name)
<1>1. \A pat : Ex!Enter(pat, name) = T!Ex!Enter(pat, name)
  BY DEF Ex!Enter, Ex!Sorted, Ex!Subs, Ex!Match, Ex!At, Ex!IsLast,
         T!Ex!Enter, T!Ex!Sorted, T!Ex!Subs, T!Ex!Match, T!Ex!At, T!Ex!IsLast
<1>2. \A pat : C!Ex!Enter(pat, name) = T!C!Ex!Enter(pat, name)
  BY DEF C!Ex!Enter, C!Ex!Sorted, C!Ex!Subs, C!Ex!Match, C!Ex!At, C!Ex!IsLast,
         T!C!Ex!Enter, T!C!Ex!Sorted, T!C!Ex!Subs, T!C!Ex!Match, T!C!Ex!At, T!C!Ex!IsLast
<1>3. Ex!Descend(name) => T!Ex!Descend(name)
  BY <1>1, Zenon DEF Ex!Descend, T!Ex!Descend
<1>4. T!C!Ex!Descend(name) => C!Ex!Descend(name)
  BY <1>2, Zenon DEF C!Ex!Descend, T!C!Ex!Descend
<1> QED
  BY <1>3, <1>4

LEMMA SameConfigure == (Configure => T!Configure) /\ (T!C!Configure => C!Configure)
<1>1. (Ex!Begin => T!Ex!Begin) /\ (T!C!Ex!Begin => C!Ex!Begin)
  BY DEF Ex!Begin, T!Ex!Begin, C!Ex!Begin, T!C!Ex!Begin
<1>2. Configure => T!Configure
  BY <1>1, SameAdd, SameDescend, Zenon DEF Configure, T!Configure, fsVars, T!fsVars
<1>3. T!C!Configure => C!Configure
  BY <1>1, SameAdd, SameDescend, Zenon DEF C!Configure, T!C!Configure, C!fsVars, T!C!fsVars
<1> QED
  BY <1>2, <1>3

LEMMA SameStart ==
  /\ Init => T!Init
  /\ FsInit => T!FsInit /\ C!FsInit /\ T!X!Init
<1>1. FsInit => T!FsInit
  BY DEF FsInit, T!FsInit, Above, T!Above, Ex!Init, T!Ex!Init, Ex!NoPatterns, T!Ex!NoPatterns
<1>2. FsInit => C!FsInit
  BY DEF FsInit, C!FsInit, Above, C!Above, Ex!Init, C!Ex!Init, Ex!NoPatterns, C!Ex!NoPatterns
<1>3. FsInit => T!X!Init
  BY DEF FsInit, Ex!Init, T!X!Init, Ex!NoPatterns, T!X!NoPatterns
<1>4. Init => T!Init
  BY DEF Init, T!Init
<1> QED
  BY <1>1, <1>2, <1>3, <1>4

(* The sink.                                                                   *)
LEMMA SameSink ==
  /\ Depth = T!Depth /\ Ids = T!Ids /\ Top = T!Top /\ NewId = T!NewId
  /\ (Finished <=> T!Finished) /\ (Configured <=> T!Configured)
  /\ Specials = T!Specials /\ FileTypes = T!FileTypes
  /\ \A i : IsDir(i) <=> T!IsDir(i)
BY DEF Depth, Ids, Top, NewId, Finished, Configured, IsDir, Specials, FileTypes,
       T!Depth, T!Ids, T!Top, T!NewId, T!Finished, T!Configured, T!IsDir, T!Specials, T!FileTypes

LEMMA SameActions ==
  /\ \A b, v : CreateRoot(b, v) => T!CreateRoot(b, v)
  /\ SetReadError => T!SetReadError
  /\ \A k : AddSpecial(k) => T!AddSpecial(k)
  /\ \A k, b : AddStat(k, b) => T!AddStat(k, b)
  /\ \A b, v : AddDir(b, v) => T!AddDir(b, v)
  /\ FinalizeSub => T!FinalizeSub
  /\ FinalizeRoot => T!FinalizeRoot
<1>1. \A b, v : CreateRoot(b, v) => T!CreateRoot(b, v)
  BY DEF CreateRoot, DevTable, DevKnown, DevId, Node, NoEntry, Handle, NewId,
         T!CreateRoot, T!DevTable, T!DevKnown, T!DevId, T!Node, T!NoEntry,
         T!Handle, T!NewId
<1>2. SetReadError => T!SetReadError
  BY DEF SetReadError, Depth, Top, T!SetReadError, T!Depth, T!Top
<1>3. \A k : AddSpecial(k) => T!AddSpecial(k)
  BY DEF AddSpecial, CanAdd, Depth, Top, NewId, LinkChild, Node, ParentField,
         NoEntry, Counting, WrapItems, Sat, Told, T!AddSpecial, T!CanAdd,
         T!Depth, T!Top, T!NewId, T!LinkChild, T!Node, T!ParentField,
         T!NoEntry, T!Counting, T!WrapItems, T!Sat, T!Told
<1>4. \A k, b : AddStat(k, b) => T!AddStat(k, b)
  BY DEF AddStat, CanAdd, Depth, Top, NewId, LinkChild, Node, ParentField,
         NoEntry, Counting, Counted, WrapItems, Sat, Told, T!AddStat,
         T!CanAdd, T!Depth, T!Top, T!NewId, T!LinkChild, T!Node,
         T!ParentField, T!NoEntry, T!Counting, T!Counted, T!WrapItems, T!Sat,
         T!Told
<1>5. \A b, v : AddDir(b, v) => T!AddDir(b, v)
  BY DEF AddDir, CanAdd, Depth, Top, NewId, LinkChild, Node, ParentField,
         NoEntry, Counting, WrapItems, Sat, Told, DevTable, DevKnown, DevId,
         Handle, T!AddDir, T!CanAdd, T!Depth, T!Top, T!NewId, T!LinkChild,
         T!Node, T!ParentField, T!NoEntry, T!Counting, T!WrapItems, T!Sat,
         T!Told, T!DevTable, T!DevKnown, T!DevId, T!Handle
<1>6. FinalizeSub => T!FinalizeSub
  BY DEF FinalizeSub, Depth, Top, PassedUp, Flush, Flushed, SatItems, Sat,
         Received, T!FinalizeSub, T!Depth, T!Top, T!PassedUp, T!Flush,
         T!Flushed, T!SatItems, T!Sat, T!Received
<1>7. FinalizeRoot => T!FinalizeRoot
  BY DEF FinalizeRoot, Depth, Top, Flush, Flushed, SatItems, Sat,
         T!FinalizeRoot, T!Depth, T!Top, T!Flush, T!Flushed, T!SatItems, T!Sat
<1> QED
  BY <1>1, <1>2, <1>3, <1>4, <1>5, <1>6, <1>7

(* The report.                                                                 *)
LEMMA SameReport ==
  /\ Rows = T!Rows /\ ScanReport = T!ScanReport
  /\ \A rows : C!Faithful(rows) <=> T!C!Faithful(rows)
<1>1. Rows = T!Rows
  BY DEF Rows, Ids, ToSet, T!Rows, T!Ids, T!ToSet
<1>2. ScanReport = T!ScanReport
  BY <1>1 DEF ScanReport, Finished, T!ScanReport, T!Finished
<1>3. \A ns, name : C!Ex!Meaning(ns, name) = T!C!Ex!Meaning(ns, name)
  BY DEF C!Ex!Meaning, C!Ex!Patterns, C!Ex!Excludes, C!Ex!FitsTail, C!Ex!Match,
         C!Ex!Anchored, C!Ex!DirOnly, C!Ex!Slash,
         T!C!Ex!Meaning, T!C!Ex!Patterns, T!C!Ex!Excludes, T!C!Ex!FitsTail, T!C!Ex!Match,
         T!C!Ex!Anchored, T!C!Ex!DirOnly, T!C!Ex!Slash
<1>4. \A o, n : C!Promised(o, n) = T!C!Promised(o, n)
  BY <1>3, SameCarried DEF C!Promised, T!C!Promised
<1>5. \A rows : C!Faithful(rows) <=> T!C!Faithful(rows)
  BY <1>4 DEF C!Faithful, C!Opened, T!C!Faithful, T!C!Opened
<1> QED
  BY <1>1, <1>2, <1>5

(* A step of the sequential walk's census is one of the parallel walk's, which   *)
(* answers only if it was granted its threads.                                *)
CensusStep == T!CensusStep \/ C!Refuse

LEMMA SameStep == T!CensusStep => CensusStep
BY DEF CensusStep

LEMMA PromisedStep ==
  ASSUME CensusStep, granted' = granted, Finished' => granted
  PROVE  [C!Interfere \/ C!Prepare \/ C!Answer \/ C!Refuse]_(C!cvars)
<1>1. ScanReport = T!ScanReport /\ ScanReport' = T!ScanReport'
  <2>1. (ScanReport = T!ScanReport)'
    BY SameReport, PTL
  <2> QED
    BY <2>1, SameReport
<1>2. T!C!Interfere => C!Interfere
  BY <1>1 DEF C!Interfere, T!C!Interfere, C!patternVars, T!C!patternVars
<1>3. T!C!Prepare => C!Prepare
  BY <1>1, SameConfigure DEF C!Prepare, T!C!Prepare, C!Pending, T!C!Pending
<1>4. T!C!Answer => C!Answer
  <2>1. ScanReport'.state = "done" => Finished'
    BY DEF ScanReport
  <2> QED
    BY <1>1, <2>1, SameReport
     DEF C!Answer, C!Pending, C!Configured, C!treeVars, C!fsVars, C!patternVars,
         T!C!Answer, T!C!Pending, T!C!Configured, T!C!treeVars, T!C!fsVars, T!C!patternVars
<1>5. T!C!Refuse => C!Refuse
  BY <1>1
     DEF C!Refuse, C!Pending, C!Failed, C!treeVars, C!fsVars, C!patternVars,
         T!C!Refuse, T!C!Pending, T!C!Failed, T!C!treeVars, T!C!fsVars, T!C!patternVars
<1>6. UNCHANGED T!C!cvars => UNCHANGED C!cvars
  BY <1>1 DEF C!cvars, C!treeVars, C!fsVars, C!patternVars,
              T!C!cvars, T!C!treeVars, T!C!fsVars, T!C!patternVars
<1> QED
  BY <1>2, <1>3, <1>4, <1>5, <1>6 DEF CensusStep, T!CensusStep

----------------------------------------------------------------------------
(* What a Walked says of its directory entry and, for a directory that was read, *)
(* of what is below it.                                                        *)
SaysRight(o, kind) == T!SaysRight(o, kind)

Bears(r) ==
  /\ r.obj \in Objects /\ r.err \in BOOLEAN /\ IsSeq(r.sub)
  /\ r.err => r.sub = <<>>
  /\ \A i \in 1..Len(r.sub) : /\ r.sub[i].obj \in Below(r.obj) \cap (present \cup excused)
                              /\ SaysRight(r.sub[i].obj, r.sub[i].kind)
  /\ \A i, j \in 1..Len(r.sub) : r.sub[i].obj = r.sub[j].obj => i = j
  /\ r.kind = "Dir" /\ r.obj \notin excused =>
       IsDirectory(r.obj) /\ r.err = ~nature[r.obj].readable
  /\ r.kind = "Dir" /\ ~r.err =>
       \A o \in Objects \ ({Root} \cup excused) : Up[o] = r.obj => o \in ObjsOf(r.sub)

(* It does, and so does everything below it.                                     *)
Sound(V) == \A x \in V : Bears(x) /\ \A i \in 1..Len(x.sub) : x.sub[i] \in V
Good(r) == \E V : r \in V /\ Sound(V)

LEMMA GoodParts ==
  ASSUME NEW r, Good(r) PROVE Bears(r) /\ \A i \in 1..Len(r.sub) : Good(r.sub[i])
<1>1. PICK V : r \in V /\ Sound(V)
  BY DEF Good
<1> QED
  BY <1>1 DEF Good, Sound

LEMMA GoodWhole ==
  ASSUME NEW r, Bears(r), \A i \in 1..Len(r.sub) : Good(r.sub[i])
  PROVE  Good(r)
<1> DEFINE Of(x) == CHOOSE V : x \in V /\ Sound(V)
           V == {r} \cup UNION {Of(r.sub[i]) : i \in 1..Len(r.sub)}
<1>1. \A i \in 1..Len(r.sub) : r.sub[i] \in Of(r.sub[i]) /\ Sound(Of(r.sub[i]))
  BY DEF Good
<1> HIDE DEF Of
<1>2. ASSUME NEW x \in V PROVE Bears(x) /\ \A i \in 1..Len(x.sub) : x.sub[i] \in V
  <2>1. CASE x = r
    BY <1>1, <2>1
  <2>2. ASSUME NEW k \in 1..Len(r.sub), x \in Of(r.sub[k])
        PROVE  Bears(x) /\ \A i \in 1..Len(x.sub) : x.sub[i] \in V
    BY <1>1, <2>2 DEF Sound
  <2> QED
    BY <2>1, <2>2
<1> HIDE DEF V
<1>3. r \in V
  BY DEF V
<1> QED
  BY <1>2, <1>3 DEF Good, Sound

(* Whatever other programs do, what was said stays right.                        *)
LEMMA SaidStays ==
  ASSUME T!Interfered, UNCHANGED patternVars, NEW o \in Objects, NEW k, SaysRight(o, k)
  PROVE  SaysRight(o, k)'
<1>1. UNCHANGED T!patternVars
  BY DEF patternVars, T!patternVars
<1>2. \A n : T!C!Promised(o, n)' = T!C!Promised(o, n)
  BY <1>1, T!SamePatterns, SameAssumptions
<1>3. excused \subseteq excused' /\ past[o] \subseteq past'[o]
  BY DEF T!Interfered
<1> QED
  BY <1>2, <1>3 DEF SaysRight, T!SaysRight

LEMMA CarriedStays ==
  ASSUME UNCHANGED patternVars PROVE \A o : Carried(o)' = Carried(o)
BY DEF Carried, X!CarriedBy, X!Carried, X!Pointers, X!Patterns, X!IsLast, X!FitsTail,
       X!Match, X!Anchored, patternVars

LEMMA TreeStays ==
  ASSUME T!Interfered
  PROVE  /\ excused \subseteq excused' /\ present \cup excused \subseteq present' \cup excused'
         /\ \A o \in Objects : o \notin excused' =>
              nature'[o] = nature[o] /\ (IsDirectory(o) => IsDirectory(o)')
BY DEF T!Interfered, IsDirectory

LEMMA BearsStays ==
  ASSUME T!Interfered, UNCHANGED patternVars, NEW r, Bears(r)
  PROVE  Bears(r)'
<1>1. /\ excused \subseteq excused' /\ present \cup excused \subseteq present' \cup excused'
      /\ \A o \in Objects : o \notin excused' =>
           nature'[o] = nature[o] /\ (IsDirectory(o) => IsDirectory(o)')
  BY TreeStays
<1>2. \A i \in 1..Len(r.sub) : /\ r.sub[i].obj \in Below(r.obj) \cap (present' \cup excused')
                               /\ SaysRight(r.sub[i].obj, r.sub[i].kind)'
  <2> TAKE i \in 1..Len(r.sub)
  <2>1. r.sub[i].obj \in Objects /\ r.sub[i].obj \in Below(r.obj) \cap (present \cup excused)
    BY DEF Bears, Below
  <2>2. SaysRight(r.sub[i].obj, r.sub[i].kind)'
    BY <2>1, SaidStays DEF Bears
  <2> QED
    BY <1>1, <2>1, <2>2
<1>3. r.obj \in Objects /\ r.err \in BOOLEAN
  BY DEF Bears
<1>4. r.kind = "Dir" /\ r.obj \notin excused' =>
        IsDirectory(r.obj)' /\ r.err = ~nature'[r.obj].readable
  BY <1>1, <1>3 DEF Bears
<1>5. r.kind = "Dir" /\ ~r.err =>
        \A o \in Objects \ ({Root} \cup excused') : Up[o] = r.obj => o \in ObjsOf(r.sub)
  BY <1>1 DEF Bears
<1> QED
  BY <1>2, <1>3, <1>4, <1>5 DEF Bears, Below

LEMMA GoodStays ==
  ASSUME T!Interfered, UNCHANGED patternVars, NEW r, Good(r) PROVE Good(r)'
<1>1. PICK V : r \in V /\ Sound(V)
  BY DEF Good
<1>2. \A x \in V : Bears(x)'
  BY <1>1, BearsStays DEF Sound
<1>3. Sound(V)'
  BY <1>1, <1>2 DEF Sound
<1> QED
  BY <1>1, <1>3 DEF Good

(* What a call of walk_dir for the directory d has found out.                     *)
Placed(c, i) == \E k \in 1..Len(c.pending) : c.pending[k].idx = i

ChildrenOK(c, d) ==
  /\ IsSeq(c.children)
  /\ \A i \in 1..Len(c.children) :
       /\ c.children[i].obj \in (Below(d) \cap (present \cup excused)) \ c.left
       /\ Placed(c, i) \/ (/\ Good(c.children[i])
                           /\ SaysRight(c.children[i].obj, c.children[i].kind))
  /\ \A i, j \in 1..Len(c.children) : c.children[i].obj = c.children[j].obj => i = j

TaskOK(c, p, s) ==
  /\ p.idx \in 1..Len(c.children) /\ c.children[p.idx].obj = p.obj
  /\ p.pat = Carried(p.obj) /\ SaysRight(p.obj, "Dir")
  /\ p.obj \in excused \/ IsDirectory(p.obj)
  /\ s # <<>> => Good(s[1]) /\ s[1].obj = p.obj /\ s[1].kind = "Dir"

TasksOK(c) == \A k \in 1..Len(c.pending) : TaskOK(c, c.pending[k], c.subs[k])

(* The directory was opened, and each of its entries is a child or still to come. *)
Searched(c, d) ==
  /\ d \in excused \/ nature[d].readable
  /\ \A o \in Objects \ ({Root} \cup excused) :
       Up[o] = d => o \in c.left \cup ObjsOf(c.children)

Holds(c, d) ==
  /\ c.at \in {"none", "open", "done"} => c.left = {} /\ c.children = <<>>
  /\ c.at \in {"none", "done"} => c.pat = Ex!NoPatterns
  /\ c.at \in {"open", "read", "join"} =>
       c.pat = Carried(d) /\ (d \in excused \/ IsDirectory(d))
  /\ c.at \in {"read", "join"} => Searched(c, d)
  /\ c.at = "join" => c.left = {}
  /\ c.left \subseteq present \cup excused
  /\ ChildrenOK(c, d) /\ TasksOK(c)

LEMMA ChildrenStay ==
  ASSUME T!Interfered, UNCHANGED patternVars, NEW c, NEW d, ChildrenOK(c, d)
  PROVE  ChildrenOK(c, d)'
<1> SUFFICES ASSUME NEW i \in 1..Len(c.children)
             PROVE  /\ c.children[i].obj \in (Below(d) \cap (present' \cup excused')) \ c.left
                    /\ Placed(c, i) \/ (/\ Good(c.children[i])'
                                        /\ SaysRight(c.children[i].obj, c.children[i].kind)')
  BY DEF ChildrenOK, Below, Placed
<1>1. c.children[i].obj \in (Below(d) \cap (present \cup excused)) \ c.left
  BY DEF ChildrenOK
<1>2. c.children[i].obj \in Objects
  BY <1>1 DEF Below
<1>3. Placed(c, i) \/ (Good(c.children[i]) /\ SaysRight(c.children[i].obj, c.children[i].kind))
  BY DEF ChildrenOK
<1>4. Placed(c, i) \/ (Good(c.children[i])' /\ SaysRight(c.children[i].obj, c.children[i].kind)')
  BY <1>2, <1>3, GoodStays, SaidStays
<1> QED
  BY <1>1, <1>4, TreeStays

LEMMA TasksStay ==
  ASSUME T!Interfered, UNCHANGED patternVars, NEW c, NEW d, CallOK(c, d), TasksOK(c)
  PROVE  TasksOK(c)'
<1> SUFFICES ASSUME NEW k \in 1..Len(c.pending)
             PROVE  TaskOK(c, c.pending[k], c.subs[k])'
  BY DEF TasksOK
<1>1. PICK p, s : p = c.pending[k] /\ s = c.subs[k]
  OBVIOUS
<1>2. TaskOK(c, p, s) /\ p.obj \in Objects
  BY <1>1 DEF TasksOK, CallOK, Below
<1>3. SaysRight(p.obj, "Dir")' /\ Carried(p.obj)' = Carried(p.obj)
  BY <1>2, SaidStays, CarriedStays DEF TaskOK
<1>4. p.obj \in excused' \/ IsDirectory(p.obj)'
  BY <1>2, TreeStays DEF TaskOK
<1>5. s # <<>> => Good(s[1])' /\ s[1].obj = p.obj /\ s[1].kind = "Dir"
  BY <1>2, GoodStays DEF TaskOK
<1>6. TaskOK(c, p, s)'
  BY <1>2, <1>3, <1>4, <1>5 DEF TaskOK
<1> QED
  BY <1>1, <1>6

LEMMA HoldsStays ==
  ASSUME T!Interfered, UNCHANGED patternVars, NEW c, NEW d \in Objects,
         CallOK(c, d), Holds(c, d)
  PROVE  Holds(c, d)'
<1>1. ChildrenOK(c, d)' /\ TasksOK(c)'
  BY ChildrenStay, TasksStay DEF Holds
<1>2. Carried(d)' = Carried(d)
  BY CarriedStays
<1>3. /\ excused \subseteq excused' /\ present \cup excused \subseteq present' \cup excused'
      /\ d \notin excused' =>
           nature'[d] = nature[d] /\ (IsDirectory(d) => IsDirectory(d)')
  BY TreeStays
<1>4. Searched(c, d) => Searched(c, d)'
  BY <1>3 DEF Searched
<1> QED
  BY <1>1, <1>2, <1>3, <1>4 DEF Holds

----------------------------------------------------------------------------
(* The steps of a call.                                                        *)
LEMMA ReturnedHolds == \A d : Holds(Returned, d) /\ Holds(NoCall, d)
<1>1. /\ Len(Returned.children) = 0 /\ Len(Returned.pending) = 0
      /\ Len(NoCall.children) = 0 /\ Len(NoCall.pending) = 0
      /\ IsSeq(Returned.children) /\ IsSeq(NoCall.children)
  BY EmptyOK DEF Returned, NoCall
<1>2. /\ Returned.at = "done" /\ Returned.left = {} /\ Returned.children = <<>>
      /\ Returned.pat = Ex!NoPatterns
      /\ NoCall.at = "none" /\ NoCall.left = {} /\ NoCall.children = <<>>
      /\ NoCall.pat = Ex!NoPatterns
  BY DEF Returned, NoCall
<1>3. \A d : ChildrenOK(Returned, d) /\ TasksOK(Returned) /\ ChildrenOK(NoCall, d) /\ TasksOK(NoCall)
  BY <1>1 DEF ChildrenOK, TasksOK
<1> QED
  BY <1>2, <1>3 DEF Holds

LEMMA HoldsOpened ==
  ASSUME NEW c, NEW d, CallOK(c, d), Holds(c, d), c.at \in {"none", "open", "done"},
         NEW c2, c2 = Opened(c, Carried(d)), d \in excused \/ IsDirectory(d)
  PROVE  Holds(c2, d)
<1>1. c2 = [at |-> "open", pat |-> Carried(d), left |-> c.left, children |-> c.children,
            pending |-> c.pending, subs |-> c.subs]
  BY DEF CallOK, IsCall, Opened
<1>2. c.left = {} /\ c.children = <<>> /\ c.pending = <<>>
  BY DEF Holds, CallOK
<1>3. Len(c2.children) = 0 /\ Len(c2.pending) = 0 /\ IsSeq(c2.children)
  BY <1>1, <1>2, EmptyOK
<1>4. ChildrenOK(c2, d) /\ TasksOK(c2)
  BY <1>3 DEF ChildrenOK, TasksOK
<1> QED
  BY <1>1, <1>2, <1>4 DEF Holds

LEMMA HoldsRead ==
  ASSUME T!FsOK, NEW c, NEW d \in Objects, CallOK(c, d), Holds(c, d), c.at = "open", CanRead(d),
         NEW c2, c2 = [c EXCEPT !.at = "read", !.left = Listed(d)]
  PROVE  Holds(c2, d)
<1>1. c2 = [at |-> "read", pat |-> c.pat, left |-> Listed(d), children |-> c.children,
            pending |-> c.pending, subs |-> c.subs]
  BY DEF CallOK, IsCall
<1>2. c.children = <<>> /\ c.pending = <<>> /\ c.pat = Carried(d)
  BY DEF Holds, CallOK
<1>3. Len(c2.children) = 0 /\ Len(c2.pending) = 0 /\ IsSeq(c2.children)
  BY <1>1, <1>2, EmptyOK
<1>4. ChildrenOK(c2, d) /\ TasksOK(c2)
  BY <1>3 DEF ChildrenOK, TasksOK
<1>5. IsDirectory(d) /\ nature[d].readable /\ T!IsDirectory(d)
  BY SameTree DEF CanRead
<1>6. ASSUME NEW o \in Objects \ ({Root} \cup excused), Up[o] = d PROVE o \in Listed(d)
  BY <1>5, <1>6 DEF T!FsOK, Listed
<1>7. Searched(c2, d)
  BY <1>1, <1>5, <1>6 DEF Searched
<1>8. Listed(d) \subseteq present
  BY DEF Listed
<1> QED
  BY <1>1, <1>2, <1>4, <1>5, <1>7, <1>8 DEF Holds

LEMMA HoldsWithout ==
  ASSUME NEW c, NEW d, CallOK(c, d), Holds(c, d), c.at = "read", NEW e, e \in excused,
         NEW c2, c2 = [c EXCEPT !.left = @ \ {e}]
  PROVE  Holds(c2, d)
<1>1. c2 = [at |-> "read", pat |-> c.pat, left |-> c.left \ {e},
            children |-> c.children, pending |-> c.pending, subs |-> c.subs]
  BY DEF CallOK, IsCall
<1>2. ChildrenOK(c2, d)
  <2>1. ChildrenOK(c, d)
    BY DEF Holds
  <2> QED
    BY <1>1, <2>1 DEF ChildrenOK, Placed
<1>3. TasksOK(c2)
  BY <1>1 DEF Holds, TasksOK, TaskOK
<1>4. Searched(c2, d)
  BY <1>1 DEF Holds, Searched
<1> QED
  BY <1>1, <1>2, <1>3, <1>4 DEF Holds

LEMMA HoldsForked ==
  ASSUME NEW c, NEW d, CallOK(c, d), Holds(c, d), c.at = "read", c.left = {},
         NEW c2, c2 = [c EXCEPT !.at = "join"]
  PROVE  Holds(c2, d)
<1>1. c2 = [at |-> "join", pat |-> c.pat, left |-> c.left,
            children |-> c.children, pending |-> c.pending, subs |-> c.subs]
  BY DEF CallOK, IsCall
<1>2. ChildrenOK(c2, d)
  BY <1>1 DEF Holds, ChildrenOK, Placed
<1>3. TasksOK(c2)
  BY <1>1 DEF Holds, TasksOK, TaskOK
<1>4. Searched(c2, d)
  BY <1>1 DEF Holds, Searched
<1> QED
  BY <1>1, <1>2, <1>3, <1>4 DEF Holds

LEMMA HoldsAnswered ==
  ASSUME NEW c, NEW d, CallOK(c, d), Holds(c, d), c.at = "join",
         NEW p \in 1..Len(c.pending), NEW r, Good(r), r.obj = c.pending[p].obj, r.kind = "Dir",
         NEW c2, c2 = Answer(c, p, r)
  PROVE  Holds(c2, d)
<1>1. c2 = [at |-> "join", pat |-> c.pat, left |-> c.left, children |-> c.children,
            pending |-> c.pending, subs |-> [c.subs EXCEPT ![p] = <<r>>]]
  BY DEF CallOK, IsCall, Answer
<1>2. /\ c2.subs[p] = <<r>>
      /\ \A k \in 1..Len(c.pending) : k # p => c2.subs[k] = c.subs[k]
  BY CallAnswered
<1>3. ChildrenOK(c2, d)
  BY <1>1 DEF Holds, ChildrenOK, Placed
<1>4. TasksOK(c2)
  <2> SUFFICES ASSUME NEW k \in 1..Len(c.pending) PROVE TaskOK(c2, c.pending[k], c2.subs[k])
    BY <1>1 DEF TasksOK
  <2>1. TaskOK(c, c.pending[k], c.subs[k])
    BY DEF Holds, TasksOK
  <2>2. CASE k = p
    BY <1>1, <1>2, <2>1, <2>2 DEF TaskOK
  <2>3. CASE k # p
    BY <1>1, <1>2, <2>1, <2>3 DEF TaskOK
  <2> QED
    BY <2>2, <2>3
<1>5. Searched(c2, d)
  BY <1>1 DEF Holds, Searched
<1> QED
  BY <1>1, <1>3, <1>4, <1>5 DEF Holds

(* A child is appended, whether or not it is to be replaced by a subdirectory's    *)
(* result.                                                                      *)
LEMMA ChildAppended ==
  ASSUME NEW c, NEW d, CallOK(c, d), Holds(c, d), c.at = "read", NEW e \in c.left,
         NEW r, r.obj = e, NEW c2,
         c2.at = "read", c2.pat = c.pat, c2.left = c.left \ {e},
         c2.children = Append(c.children, r),
         \A i : Placed(c, i) => Placed(c2, i),
         Placed(c2, Len(c.children) + 1) \/ (Good(r) /\ SaysRight(e, r.kind)),
         TasksOK(c2)
  PROVE  Holds(c2, d)
<1> DEFINE n == Len(c.children)
<1>1. /\ IsSeq(c2.children) /\ n \in Nat /\ Len(c2.children) = n + 1
      /\ \A i \in 1..n : c2.children[i] = c.children[i]
      /\ c2.children[n + 1] = r
  BY Appended DEF Holds, ChildrenOK
<1>2. \A i \in 1..(n + 1) : i \in 1..n \/ i = n + 1
  BY <1>1
<1>3. e \in Below(d) \cap (present \cup excused)
  BY DEF CallOK, Holds
<1>4. ChildrenOK(c, d)
  BY DEF Holds
<1> HIDE DEF n
<1>5. ASSUME NEW i \in 1..(n + 1)
      PROVE  /\ c2.children[i].obj \in (Below(d) \cap (present \cup excused)) \ c2.left
             /\ Placed(c2, i) \/ (/\ Good(c2.children[i])
                                  /\ SaysRight(c2.children[i].obj, c2.children[i].kind))
  <2>1. CASE i \in 1..n
    BY <1>1, <1>4, <2>1 DEF ChildrenOK, n
  <2>2. CASE i = n + 1
    BY <1>1, <1>3, <2>2 DEF n
  <2> QED
    BY <1>2, <2>1, <2>2
<1>6. \A i, j \in 1..(n + 1) : c2.children[i].obj = c2.children[j].obj => i = j
  <2>1. \A i \in 1..n : c.children[i].obj # e
    BY <1>4 DEF ChildrenOK, n
  <2>2. \A i, j \in 1..n : c.children[i].obj = c.children[j].obj => i = j
    BY <1>4 DEF ChildrenOK, n
  <2> QED
    BY <1>1, <1>2, <2>1, <2>2
<1>7. ChildrenOK(c2, d)
  BY <1>1, <1>5, <1>6 DEF ChildrenOK
<1>8. c.left \cup ObjsOf(c.children) \subseteq c2.left \cup ObjsOf(c2.children)
  <2>1. ASSUME NEW i \in 1..n PROVE c.children[i].obj \in ObjsOf(c2.children)
    <3>1. i \in 1..Len(c2.children) /\ c.children[i].obj = c2.children[i].obj
      BY <1>1
    <3> QED
      BY <3>1 DEF ObjsOf
  <2>2. e \in ObjsOf(c2.children)
    <3>1. n + 1 \in 1..Len(c2.children) /\ e = c2.children[n + 1].obj
      BY <1>1
    <3> QED
      BY <3>1 DEF ObjsOf
  <2> QED
    BY <2>1, <2>2 DEF ObjsOf, n
<1>9. Searched(c2, d)
  BY <1>8 DEF Holds, Searched
<1> QED
  BY <1>7, <1>9 DEF Holds

----------------------------------------------------------------------------
LEMMA TaskGrows ==
  ASSUME NEW c, NEW p, NEW s, TaskOK(c, p, s), IsSeq(c.children), NEW r,
         NEW c2, c2.children = Append(c.children, r)
  PROVE  TaskOK(c2, p, s)
<1>1. /\ Len(c.children) \in Nat /\ Len(c2.children) = Len(c.children) + 1
      /\ \A i \in 1..Len(c.children) : c2.children[i] = c.children[i]
  BY Appended
<1>2. p.idx \in 1..Len(c.children)
  BY DEF TaskOK
<1>3. p.idx \in 1..Len(c2.children) /\ c2.children[p.idx] = c.children[p.idx]
  BY <1>1, <1>2
<1> QED
  BY <1>3 DEF TaskOK

LEMMA LeafGood ==
  ASSUME NEW o \in Objects, NEW k, k # "Dir" PROVE Good(Walked(o, k))
<1> DEFINE r == Walked(o, k)
<1>1. r.obj = o /\ r.kind = k /\ r.err = FALSE /\ r.sub = <<>>
  BY DEF Walked
<1>2. 1..Len(r.sub) = {} /\ IsSeq(r.sub)
  BY <1>1, EmptyOK
<1> HIDE DEF r
<1>3. Bears(r)
  BY <1>1, <1>2 DEF Bears
<1> QED
  BY <1>2, <1>3, GoodWhole DEF r

LEMMA HoldsClassified ==
  ASSUME T!X!IInv, T!FsOK, NEW c, NEW d \in Objects, CallOK(c, d), Holds(c, d), c.at = "read",
         NEW e \in c.left, NEW c2, c2 = Classified(c, e)
  PROVE  Holds(c2, d)
<1> DEFINE answer == Ex!Matches(c.pat, NameOf[e])
           k == Class(nature[e], e \in present, answer)
           n == Len(c.children)
           sub == Subdir(n + 1, c, e)
<1>1. /\ e \in Objects \ {Root} /\ Up[e] = d /\ e \in present \cup excused
      /\ c.pat = Carried(d)
  BY DEF CallOK, Holds, Below
<1>2. /\ answer = T!C!Ex!Meaning(T!C!PathTo(Up[e]), NameOf[e])
      /\ Ex!Enter(c.pat, NameOf[e]) = Carried(e)
  <2>1. c.pat = T!X!CarriedBy(T!C!PathTo(Up[e])) /\ Carried(e) = T!X!CarriedBy(T!C!PathTo(e))
    BY <1>1, SameCarried
  <2>2. LET pat == T!X!CarriedBy(T!C!PathTo(Up[e]))
        IN  /\ T!Ex!Matches(pat, NameOf[e]) = T!C!Ex!Meaning(T!C!PathTo(Up[e]), NameOf[e])
            /\ T!SubPat(pat, e) = T!X!CarriedBy(T!C!PathTo(e))
    BY <1>1, T!Answers, SameAssumptions
  <2> QED
    BY <2>1, <2>2, SameTree
<1>3. SaysRight(e, k) /\ (k = "Dir" => IsDirectory(e))
  <2> HIDE DEF answer
  <2>1. k = T!Class(nature[e], e \in present, answer)
    BY SameTree
  <2>2. T!SaysRight(e, k) /\ (k = "Dir" => T!IsDirectory(e))
    BY <1>1, <1>2, <2>1, T!ClassRight, SameAssumptions
  <2> QED
    BY <2>2, SameTree DEF SaysRight
<1>4. c = [at |-> "read", pat |-> c.pat, left |-> c.left, children |-> c.children,
           pending |-> c.pending, subs |-> c.subs]
  BY DEF CallOK, IsCall
<1>5. /\ k = "Dir" =>
           c2 = [at |-> "read", pat |-> c.pat, left |-> c.left \ {e},
                 children |-> Append(c.children, Placeholder(e)),
                 pending |-> Append(c.pending, sub), subs |-> Append(c.subs, <<>>)]
      /\ k # "Dir" =>
           c2 = [at |-> "read", pat |-> c.pat, left |-> c.left \ {e},
                 children |-> Append(c.children, Walked(e, k)),
                 pending |-> c.pending, subs |-> c.subs]
  BY <1>4 DEF Classified
<1>6. sub.idx = n + 1 /\ sub.obj = e /\ sub.pat = Carried(e)
  BY <1>2 DEF Subdir
<1>7. IsSeq(c.children) /\ n \in Nat
  <2>1. IsSeq(c.children)
    BY DEF Holds, ChildrenOK
  <2> QED
    BY <2>1, Appended
<1>8. \A j \in 1..Len(c.pending) : TaskOK(c, c.pending[j], c.subs[j])
  BY DEF Holds, TasksOK
<1> HIDE DEF k, sub, n
<1>9. CASE k # "Dir"
  <2> DEFINE r == Walked(e, k)
  <2>1. r.obj = e /\ r.kind = k
    BY DEF Walked
  <2>2. Good(r)
    BY <1>1, <1>9, LeafGood
  <2> HIDE DEF r
  <2>3. /\ c2.at = "read" /\ c2.pat = c.pat /\ c2.left = c.left \ {e}
        /\ c2.children = Append(c.children, r)
        /\ c2.pending = c.pending /\ c2.subs = c.subs
    BY <1>5, <1>9 DEF r
  <2>4. TasksOK(c2)
    BY <1>7, <1>8, <2>3, TaskGrows DEF TasksOK
  <2>5. \A i : Placed(c, i) => Placed(c2, i)
    BY <2>3 DEF Placed
  <2> QED
    BY <1>3, <2>1, <2>2, <2>3, <2>4, <2>5, ChildAppended
<1>10. CASE k = "Dir"
  <2> DEFINE r == Placeholder(e)
             m == Len(c.pending)
  <2>1. r.obj = e
    BY DEF Placeholder, Walked
  <2> HIDE DEF r
  <2>2. /\ c2.at = "read" /\ c2.pat = c.pat /\ c2.left = c.left \ {e}
        /\ c2.children = Append(c.children, r)
        /\ c2.pending = Append(c.pending, sub) /\ c2.subs = Append(c.subs, <<>>)
    BY <1>5, <1>10 DEF r
  <2>3. /\ m \in Nat /\ Len(c2.pending) = m + 1
        /\ \A j \in 1..m : c2.pending[j] = c.pending[j]
        /\ c2.pending[m + 1] = sub
    BY <2>2, Appended DEF CallOK
  <2>4. /\ \A j \in 1..m : c2.subs[j] = c.subs[j]
        /\ c2.subs[m + 1] = <<>>
    BY <2>2, Appended DEF CallOK
  <2>5. \A j \in 1..m : j \in 1..(m + 1)
    BY <2>3
  <2>6. m + 1 \in 1..(m + 1)
    BY <2>3
  <2>7. \A j \in 1..(m + 1) : j \in 1..m \/ j = m + 1
    BY <2>3
  <2>8. TaskOK(c2, sub, <<>>)
    <3>1. n + 1 \in 1..Len(c2.children) /\ c2.children[n + 1] = r
      BY <1>7, <2>2, Appended DEF n
    <3> QED
      BY <1>3, <1>6, <1>10, <2>1, <3>1 DEF TaskOK
  <2>9. \A j \in 1..m : TaskOK(c2, c.pending[j], c.subs[j])
    BY <1>7, <1>8, <2>2, TaskGrows
  <2>10. TasksOK(c2)
    BY <2>3, <2>4, <2>7, <2>8, <2>9 DEF TasksOK
  <2>11. Placed(c2, n + 1)
    BY <1>6, <2>3, <2>6 DEF Placed
  <2>12. \A i : Placed(c, i) => Placed(c2, i)
    BY <2>3, <2>5 DEF Placed
  <2> QED
    BY <2>1, <2>2, <2>10, <2>11, <2>12, ChildAppended DEF n
<1> QED
  BY <1>9, <1>10

(* What a call returns is right.                                                 *)
Unread(d) == [Walked(d, "Dir") EXCEPT !.err = TRUE]

LEMMA UnreadGood ==
  ASSUME NEW d \in Objects, d \in excused \/ (IsDirectory(d) /\ ~nature[d].readable)
  PROVE  Good(Unread(d)) /\ Unread(d).obj = d /\ Unread(d).kind = "Dir"
<1> DEFINE r == Unread(d)
<1>1. r.obj = d /\ r.kind = "Dir" /\ r.err = TRUE /\ r.sub = <<>>
  BY DEF Unread, Walked
<1>2. 1..Len(r.sub) = {} /\ IsSeq(r.sub)
  BY <1>1, EmptyOK
<1> HIDE DEF r
<1>3. r.obj \notin excused => r.err = ~nature[r.obj].readable
  BY <1>1
<1>4. Bears(r)
  BY <1>1, <1>2, <1>3 DEF Bears
<1>5. Good(r)
  BY <1>2, <1>4, GoodWhole
<1> QED
  BY <1>1, <1>5 DEF r

Joined(d, c) == [Walked(d, "Dir") EXCEPT !.sub = Patched(c)]

LEMMA PatchedRight ==
  ASSUME NEW c, NEW d, CallOK(c, d), Holds(c, d), Complete(c)
  PROVE  /\ IsSeq(Patched(c)) /\ Len(Patched(c)) = Len(c.children)
         /\ \A i \in 1..Len(c.children) :
              LET r == Patched(c)[i]
              IN  r.obj = c.children[i].obj /\ Good(r) /\ SaysRight(r.obj, r.kind)
<1> DEFINE n == Len(c.children)
           P == Patched(c)
<1>1. n \in Nat /\ IsSeq(c.children)
  <2>1. IsSeq(c.children)
    BY DEF Holds, ChildrenOK
  <2> QED
    BY <2>1, Appended
<1>2. P = [i \in 1..n |->
             IF \E k \in 1..Len(c.pending) : c.pending[k].idx = i
             THEN c.subs[CHOOSE k \in 1..Len(c.pending) : c.pending[k].idx = i][1]
             ELSE c.children[i]]
  BY DEF Patched
<1> HIDE DEF P, n
<1>3. IsSeq(P) /\ Len(P) = n
  <2>1. PICK S : S = {P[i] : i \in 1..n}
    OBVIOUS
  <2>2. P = [i \in 1..n |-> P[i]] /\ \A i \in 1..n : P[i] \in S
    BY <1>2, <2>1
  <2>3. P \in Seq(S) /\ Len(P) = n
    BY <1>1, <2>2
  <2> QED
    BY <2>3 DEF IsSeq
<1>4. ASSUME NEW i \in 1..n
      PROVE  P[i].obj = c.children[i].obj /\ Good(P[i]) /\ SaysRight(P[i].obj, P[i].kind)
  <2>1. CASE Placed(c, i)
    <3> DEFINE k == CHOOSE k \in 1..Len(c.pending) : c.pending[k].idx = i
    <3>1. k \in 1..Len(c.pending) /\ c.pending[k].idx = i
      BY <2>1 DEF Placed
    <3>2. P[i] = c.subs[k][1]
      BY <1>2, <2>1 DEF Placed
    <3> HIDE DEF k
    <3>3. TaskOK(c, c.pending[k], c.subs[k]) /\ c.subs[k] # <<>>
      BY <3>1 DEF Holds, TasksOK, Complete
    <3> QED
      BY <3>1, <3>2, <3>3 DEF TaskOK
  <2>2. CASE ~Placed(c, i)
    <3>1. P[i] = c.children[i]
      BY <1>2, <2>2 DEF Placed
    <3> QED
      BY <2>2, <3>1 DEF Holds, ChildrenOK, n
  <2> QED
    BY <2>1, <2>2
<1> QED
  BY <1>3, <1>4 DEF P, n

LEMMA JoinedGood ==
  ASSUME NEW c, NEW d \in Objects, CallOK(c, d), Holds(c, d), c.at = "join", Complete(c)
  PROVE  Good(Joined(d, c)) /\ Joined(d, c).obj = d /\ Joined(d, c).kind = "Dir"
<1> DEFINE r == Joined(d, c)
           P == Patched(c)
<1>1. r.obj = d /\ r.kind = "Dir" /\ r.err = FALSE /\ r.sub = P
  BY DEF Joined, Walked
<1> HIDE DEF r, P
<1>2. /\ IsSeq(P) /\ Len(P) = Len(c.children)
      /\ \A i \in 1..Len(c.children) :
           P[i].obj = c.children[i].obj /\ Good(P[i]) /\ SaysRight(P[i].obj, P[i].kind)
  BY PatchedRight DEF P
<1>3. ChildrenOK(c, d) /\ Searched(c, d) /\ c.left = {} /\ (d \in excused \/ IsDirectory(d))
  BY DEF Holds
<1>4. \A i \in 1..Len(P) : P[i].obj \in Below(d) \cap (present \cup excused)
  BY <1>2, <1>3 DEF ChildrenOK
<1>5. \A i, j \in 1..Len(P) : P[i].obj = P[j].obj => i = j
  BY <1>2, <1>3 DEF ChildrenOK
<1>6. d \notin excused => IsDirectory(d) /\ nature[d].readable
  BY <1>3 DEF Searched
<1>7. ObjsOf(c.children) = ObjsOf(P)
  BY <1>2 DEF ObjsOf
<1>8. \A o \in Objects \ ({Root} \cup excused) : Up[o] = d => o \in ObjsOf(P)
  BY <1>3, <1>7 DEF Searched
<1>9. d \notin excused => r.err = ~nature[d].readable
  BY <1>1, <1>6
<1>10. Bears(r)
  BY <1>1, <1>2, <1>4, <1>5, <1>6, <1>8, <1>9 DEF Bears
<1>11. Good(r)
  BY <1>1, <1>2, <1>10, GoodWhole
<1> QED
  BY <1>1, <1>11 DEF r

----------------------------------------------------------------------------
(* The whole invariant.  The patterns are settled before the walk begins, the walk *)
(* is over before the emission begins, and what is emitted is right.             *)
Phases ==
  /\ failed \in BOOLEAN
  /\ walk[Root].at # "none" \/ failed => Configured
  /\ failed => walk[Root].at = "none"
  /\ walk[Root].at = "none" => walked = <<>>
  /\ walked = <<>> => nodes = <<>>
  /\ walked = <<>> \/ (/\ walked = <<walked[1]>> /\ Good(walked[1])
                       /\ walked[1].obj = Root /\ walked[1].kind = "Dir")

Promises == \A d \in Objects : Holds(walk[d], d)

(* A call of emit for the directory o.                                           *)
EmitOK(m, o) ==
  /\ m = [err |-> m.err, rest |-> m.rest] /\ m.err \in BOOLEAN /\ IsSeq(m.rest)
  /\ \A i \in 1..Len(m.rest) : /\ Good(m.rest[i])
                               /\ SaysRight(m.rest[i].obj, m.rest[i].kind)
  /\ \A i, j \in 1..Len(m.rest) : m.rest[i].obj = m.rest[j].obj => i = j
  /\ m.err => m.rest = <<>> /\ (o \in excused \/ ~nature[o].readable)

EmitsOK ==
  /\ IsSeq(emits) /\ Len(emits) = Depth
  /\ \A l \in 1..Depth : EmitOK(emits[l], names[open[l].id])

QInv == /\ PInv /\ T!IInv /\ T!X!IInv /\ T!FsOK
        /\ Phases /\ Promises /\ EmitsOK /\ T!WalkOK

LEMMA ResumedType ==
  ASSUME NEW m, NEW o, EmitOK(m, o) PROVE Resumed(m, o) \in T!CallType
<1>1. \A i \in 1..Len(m.rest) : m.rest[i].obj \in Objects
  BY GoodParts DEF EmitOK, Bears
<1>2. ObjsOf(m.rest) \subseteq Objects
  BY <1>1 DEF ObjsOf
<1>3. Carried(o) \in T!X!PatternSets
  BY SameCarried, T!CarriedType, SameAssumptions
<1> QED
  BY <1>2, <1>3 DEF Resumed, T!CallType, EmitOK

LEMMA TodoShape ==
  ASSUME EmitsOK, Depth \in Nat
  PROVE  /\ Todo \in Seq(T!CallType) /\ Len(Todo) = Depth
         /\ \A l \in 1..Depth : Todo[l] = Resumed(emits[l], names[open[l].id])
<1>1. Len(emits) = Depth /\ \A l \in 1..Depth : EmitOK(emits[l], names[open[l].id])
  BY DEF EmitsOK
<1>2. Todo = [l \in 1..Depth |-> Resumed(emits[l], names[open[l].id])]
  BY <1>1 DEF Todo
<1>3. \A l \in 1..Depth : Resumed(emits[l], names[open[l].id]) \in T!CallType
  BY <1>1, ResumedType
<1>4. Todo \in [1..Depth -> T!CallType]
  BY <1>2, <1>3
<1>5. PICK S : S = T!CallType
  OBVIOUS
<1>6. Todo \in Seq(S) /\ Len(Todo) = Depth
  BY <1>4, <1>5
<1> QED
  BY <1>2, <1>5, <1>6

LEMMA TodoNext ==
  ASSUME UNCHANGED patternVars
  PROVE  Todo' = [l \in 1..Len(emits') |-> Resumed(emits'[l], names'[open'[l].id])]
BY DEF Todo, Resumed, Carried, X!CarriedBy, X!Carried, X!Pointers, X!Patterns, X!IsLast,
       X!FitsTail, X!Match, X!Anchored, patternVars

LEMMA EmitStays ==
  ASSUME T!Interfered, UNCHANGED patternVars, NEW m, NEW o \in Objects, EmitOK(m, o)
  PROVE  EmitOK(m, o)'
<1>1. ASSUME NEW i \in 1..Len(m.rest)
      PROVE  Good(m.rest[i])' /\ SaysRight(m.rest[i].obj, m.rest[i].kind)'
  <2>1. PICK r : r = m.rest[i]
    OBVIOUS
  <2>2. Good(r) /\ SaysRight(r.obj, r.kind) /\ r.obj \in Objects
    BY <2>1, GoodParts DEF EmitOK, Bears
  <2> QED
    BY <2>1, <2>2, GoodStays, SaidStays
<1>2. o \in excused \/ ~nature[o].readable => o \in excused' \/ ~nature'[o].readable
  BY TreeStays
<1> QED
  BY <1>1, <1>2 DEF EmitOK

(* What the sink's and the walk's invariants say of the open directories.          *)
LEMMA OpenShape ==
  ASSUME QInv
  PROVE  /\ Depth \in Nat /\ Depth = T!Depth /\ Ids = T!Ids /\ Top = T!Top
         /\ Len(names) = Len(nodes) /\ names \in Seq(Objects)
         /\ \A l \in 1..Depth : open[l].id \in Ids /\ names[open[l].id] \in Objects
         /\ Depth > 0 => Depth \in 1..Depth /\ Top = open[Depth] /\ nodes # <<>>
         /\ nodes # <<>> => walked # <<>>
         /\ nodes = <<>> => Depth = 0 /\ names = <<>> /\ emits = <<>> /\ ~Finished
         /\ walked # <<>> => walk[Root].at # "none" /\ ~failed /\ Configured
         /\ T!TypeOK
<1>1. T!IInv /\ T!WalkOK /\ EmitsOK
  BY DEF QInv
<1>2. /\ T!Depth \in Nat /\ Len(nodes) \in Nat
      /\ \A l \in 1..T!Depth : open[l].id \in T!Ids
      /\ nodes = <<>> => T!Depth = 0
      /\ T!Depth > 0 => T!Depth \in 1..T!Depth /\ nodes # <<>>
  BY <1>1, T!StateShape, SameAssumptions
<1>3. names \in Seq(Objects) /\ Len(names) = Len(nodes)
  BY <1>1 DEF T!WalkOK, T!NamesOK
<1>4. \A l \in 1..Depth : open[l].id \in Ids /\ names[open[l].id] \in Objects
  BY <1>2, <1>3, SameSink DEF Ids
<1>5. nodes = <<>> => names = <<>> /\ ~Finished
  BY <1>1, T!NothingSoFar, SameAssumptions, SameSink
<1>6. nodes = <<>> => emits = <<>>
  <2> SUFFICES ASSUME nodes = <<>> PROVE emits = <<>>
    OBVIOUS
  <2>1. Len(emits) = 0 /\ IsSeq(emits)
    BY <1>1, <1>2, SameSink DEF EmitsOK
  <2>2. PICK S : emits \in Seq(S)
    BY <2>1 DEF IsSeq
  <2> QED
    BY <2>1, <2>2
<1>7. T!TypeOK
  BY <1>1 DEF T!IInv
<1> QED
  BY <1>2, <1>3, <1>4, <1>5, <1>6, <1>7, SameSink DEF QInv, Phases, Top

----------------------------------------------------------------------------
(* A step of the walk, or of other programs, leaves the emission where it is.      *)
LEMMA AsideEmits ==
  ASSUME QInv, T!Interfered, UNCHANGED <<patternVars, nodes, open, emits, names>>
  PROVE  EmitsOK' /\ T!Quiet
<1>1. /\ EmitsOK /\ Depth \in Nat /\ \A l \in 1..Depth : names[open[l].id] \in Objects
  BY OpenShape DEF QInv
<1>2. Depth' = Depth
  BY DEF Depth
<1>3. EmitsOK'
  <2> SUFFICES ASSUME NEW l \in 1..Depth PROVE EmitOK(emits[l], names[open[l].id])'
    BY <1>1, <1>2 DEF EmitsOK
  <2>1. PICK m : m = emits[l]
    OBVIOUS
  <2>2. PICK o \in Objects : o = names[open[l].id]
    BY <1>1
  <2>3. EmitOK(m, o)'
    BY <1>1, <2>2, <2>1, EmitStays DEF EmitsOK
  <2> QED
    BY <2>2, <2>1, <2>3
<1>4. Todo \in Seq(T!CallType) /\ Len(Todo) = Depth
  BY <1>1, TodoShape
<1>5. Todo' = Todo
  <2>1. Todo' = [l \in 1..Len(emits') |-> Resumed(emits'[l], names'[open'[l].id])]
    BY TodoNext
  <2> QED
    BY <2>1 DEF Todo
<1>6. T!SameShape /\ \A i \in T!Ids : nodes'[i].err = nodes[i].err
  BY DEF T!SameShape
<1>7. UNCHANGED T!patternVars
  BY DEF patternVars, T!patternVars
<1>8. Depth = T!Depth /\ Len(open) = Depth
  BY SameSink DEF Depth
<1> QED
  BY <1>1, <1>3, <1>4, <1>5, <1>6, <1>7, <1>8 DEF T!Quiet

LEMMA AsideKeeps ==
  ASSUME QInv, T!Interfered, UNCHANGED <<patternVars, vars, emits, names>>
  PROVE  T!IInv' /\ T!X!IInv' /\ EmitsOK' /\ T!WalkOK' /\ (UNCHANGED failed => CensusStep)
<1>1. /\ T!IInv /\ T!X!IInv /\ T!WalkOK /\ UNCHANGED <<nodes, open, emits, names>>
      /\ UNCHANGED T!vars /\ UNCHANGED T!patternVars
  BY DEF QInv, vars, T!vars, patternVars, T!patternVars
<1>2. EmitsOK' /\ T!Quiet
  BY <1>1, AsideEmits
<1>3. T!WalkOK'
  BY <1>1, <1>2, T!QuietKeeps, SameAssumptions
<1>4. T!IInv'
  BY <1>1, T!IInvStep, SameAssumptions
<1>5. T!X!IInv'
  BY <1>1, T!MatcherInv, SameAssumptions
<1>6. UNCHANGED failed => CensusStep
  BY <1>1, T!InterfereStep, SameAssumptions, SameStep
<1> QED
  BY <1>2, <1>3, <1>4, <1>5, <1>6

(* Every step does no more to the tree than other programs may.                    *)
LEMMA TreeSteps ==
  ASSUME T!FsOK, Interference \/ (\E o \in Objects : NotReturned(o)) \/ UNCHANGED fsVars
  PROVE  T!FsOK' /\ T!Interfered
<1>1. T!Interference \/ (\E o \in Objects : T!NotReturned(o)) \/ UNCHANGED T!fsVars
  BY SameDisturbance DEF fsVars, T!fsVars
<1> QED
  BY <1>1, T!FsSteps, SameAssumptions

LEMMA PromisesStay ==
  ASSUME PInv, Promises, T!Interfered, UNCHANGED <<patternVars, walk>>
  PROVE  Promises'
<1> SUFFICES ASSUME NEW d \in Objects PROVE Holds(walk[d], d)'
  BY DEF Promises
<1>1. PICK c : c = walk[d]
  OBVIOUS
<1>2. Holds(c, d) /\ CallOK(c, d)
  BY <1>1 DEF Promises, PInv, WInv, Calls
<1>3. Holds(c, d)'
  BY <1>2, HoldsStays
<1> QED
  BY <1>1, <1>3

LEMMA PhasesStay ==
  ASSUME Phases, T!Interfered, UNCHANGED <<patternVars, walk, walked, failed>>,
         walked # <<>> \/ nodes' = nodes
  PROVE  Phases'
<1>1. PICK r : r = walked[1]
  OBVIOUS
<1>2. Good(r) => Good(r)'
  BY GoodStays
<1>3. Configured' = Configured
  BY DEF Configured, patternVars
<1> QED
  BY <1>1, <1>2, <1>3 DEF Phases

(* A step of the emission.                                                       *)
LEMMA EmissionKeeps ==
  ASSUME QInv, UNCHANGED <<treeVars, walkVars, failed>>, walked # <<>>,
         T!Next, T!WalkOK', EmitsOK'
  PROVE  /\ QInv'
         /\ ~Finished => CensusStep
<1>1. /\ PInv /\ T!IInv /\ T!X!IInv /\ T!FsOK /\ Phases /\ Promises
      /\ ~failed /\ Configured
  BY OpenShape DEF QInv
<1>2. /\ UNCHANGED fsVars /\ UNCHANGED patternVars /\ UNCHANGED T!patternVars
      /\ UNCHANGED T!treeVars /\ UNCHANGED <<walk, walked, failed, present>>
  BY DEF treeVars, fsVars, patternVars, walkVars,
         T!treeVars, T!fsVars, T!patternVars
<1>3. PInv'
  BY <1>1, <1>2, IdleInv
<1>4. T!FsOK' /\ T!Interfered
  BY <1>1, <1>2, TreeSteps
<1>5. T!IInv'
  BY <1>1, T!IInvStep, SameAssumptions
<1>6. T!X!IInv'
  BY <1>1, <1>2, T!MatcherInv, SameAssumptions
<1>7. Phases' /\ Promises'
  BY <1>1, <1>2, <1>4, PhasesStay, PromisesStay
<1>8. QInv'
  BY <1>3, <1>4, <1>5, <1>6, <1>7 DEF QInv
<1>9. ASSUME ~Finished PROVE CensusStep
  <2>1. ~T!Finished /\ T!Configured /\ ~failed'
    BY <1>1, <1>2, <1>9, SameSink
  <2>2. CASE T!Finished'
    <3>1. T!CensusStep
      BY <1>1, <1>2, <1>5, <2>1, <2>2, T!AnswerStep, SameAssumptions
    <3> QED
      BY <3>1, SameStep
  <2>3. CASE ~T!Finished'
    <3>1. T!CensusStep
      BY <1>1, <1>2, <2>1, <2>3, T!NothingSaid, SameAssumptions
    <3> QED
      BY <3>1, SameStep
  <2> QED
    BY <2>2, <2>3
<1> QED
  BY <1>8, <1>9

(* What emit is called with for a directory.                                       *)
LEMMA EmittingStarts ==
  ASSUME NEW r, Good(r), r.kind = "Dir", NEW t, t = Resumed(Emitting(r), r.obj)
  PROVE  /\ r.obj \in Objects /\ EmitOK(Emitting(r), r.obj)
         /\ t \in T!CallType /\ T!Starts(t, r.obj)
         /\ r.obj \in excused \/ T!IsDirectory(r.obj)
<1> DEFINE m == Emitting(r)
<1>1. m = [err |-> r.err, rest |-> r.sub] /\ m.err = r.err /\ m.rest = r.sub
  BY DEF Emitting
<1>2. Bears(r) /\ \A i \in 1..Len(r.sub) : Good(r.sub[i])
  BY GoodParts
<1> HIDE DEF m
<1>3. EmitOK(m, r.obj)
  BY <1>1, <1>2 DEF EmitOK, Bears
<1>4. t \in T!CallType
  BY <1>3, ResumedType DEF m
<1>5. t.read = ~r.err /\ t.left = ObjsOf(r.sub) /\ t.pat = T!X!CarriedBy(T!C!PathTo(r.obj))
  BY <1>1, SameCarried DEF Resumed, m
<1>6. \A o \in t.left : o # Root /\ Up[o] = r.obj /\ o \in present \cup excused
  BY <1>2, <1>5 DEF Bears, ObjsOf, Below
<1>7. ~t.read => t.left = {}
  <2>1. r.err => 1..Len(r.sub) = {}
    BY <1>2, EmptyOK DEF Bears
  <2> QED
    BY <1>2, <1>5, <2>1 DEF ObjsOf, Bears
<1>8. T!Starts(t, r.obj)
  BY <1>2, <1>5, <1>6, <1>7 DEF T!Starts, Bears
<1> QED
  BY <1>2, <1>3, <1>4, <1>8, SameTree DEF Bears, m

----------------------------------------------------------------------------
(* The steps of the emission.                                                    *)
LEMMA BuildRootKeeps ==
  ASSUME QInv, BuildRoot PROVE QInv' /\ CensusStep
<1>1. /\ Phases /\ T!FsOK /\ walked # <<>> /\ T!TypeOK
      /\ UNCHANGED <<treeVars, walkVars, failed>>
  BY OpenShape DEF QInv, BuildRoot
<1>2. PICK b \in Blocks, v \in Devs : CreateRoot(b, v)
  BY DEF BuildRoot
<1>3. PICK r : r = walked[1] /\ Good(r) /\ r.obj = Root /\ r.kind = "Dir"
  BY <1>1 DEF Phases
<1>4. PICK m, t : m = Emitting(r) /\ t = Resumed(m, Root)
  OBVIOUS
<1>5. /\ EmitOK(m, Root) /\ t \in T!CallType /\ T!Starts(t, Root)
      /\ Root \in excused \/ T!IsDirectory(Root)
  BY <1>3, <1>4, EmittingStarts
<1>6. emits' = <<m>> /\ names' = <<Root>> /\ open' = <<Handle(1)>> /\ nodes = <<>>
  BY <1>2, <1>3, <1>4 DEF BuildRoot, CreateRoot
<1>7. /\ Len(emits') = 1 /\ emits'[1] = m /\ names'[1] = Root /\ open'[1].id = 1
      /\ Len(open') = 1
  BY <1>6 DEF Handle
<1>8. UNCHANGED patternVars /\ UNCHANGED fsVars /\ UNCHANGED T!treeVars
  BY <1>1 DEF treeVars, T!treeVars, fsVars, T!fsVars, patternVars, T!patternVars
<1>9. Todo' = <<t>>
  <2>1. Todo' = [l \in 1..Len(emits') |-> Resumed(emits'[l], names'[open'[l].id])]
    BY <1>8, TodoNext
  <2>2. Todo' = [l \in 1..1 |-> t]
    BY <1>4, <1>7, <2>1
  <2> QED
    BY <2>2
<1>10. T!CreateRoot(b, v) /\ T!Configured
  BY <1>1, <1>2, SameActions, SameSink DEF Phases
<1>11. T!Started(t)
  BY <1>1, <1>5, <1>6, <1>8, <1>9, <1>10 DEF T!Started
<1>12. T!WalkOK' /\ T!Next
  BY <1>1, <1>10, <1>11, T!StartedKeeps, SameAssumptions DEF T!Next
<1>13. EmitsOK'
  <2>1. T!Interfered
    BY <1>1, <1>8, TreeSteps
  <2>2. Root \in Objects
    BY FileTreeAssumption
  <2>3. EmitOK(m, Root)'
    BY <1>5, <1>8, <2>1, <2>2, EmitStays
  <2>4. EmitOK(emits[1], names[open[1].id])'
    BY <1>7, <2>3
  <2>5. Depth' = 1
    BY <1>7 DEF Depth
  <2>6. IsSeq(emits')
    <3>1. <<m>> \in Seq({m})
      OBVIOUS
    <3> QED
      BY <1>6, <3>1 DEF IsSeq
  <2> QED
    BY <1>7, <2>4, <2>5, <2>6 DEF EmitsOK
<1> QED
  BY <1>1, <1>6, <1>12, <1>13, EmissionKeeps DEF Finished

(* The calls of emit that go on, of which only the innermost may be another.        *)
LEMMA EmitsFrom ==
  ASSUME QInv, UNCHANGED treeVars, IsSeq(emits'), Len(emits') = Len(open'),
         Len(open') \in Nat,
         \A l \in 1..Len(open') : \E m : \E o \in Objects :
           m = emits'[l] /\ o = names'[open'[l].id] /\ EmitOK(m, o)
  PROVE  EmitsOK'
<1>1. T!FsOK /\ UNCHANGED fsVars /\ UNCHANGED patternVars
  BY DEF QInv, treeVars
<1>2. T!Interfered
  BY <1>1, TreeSteps
<1>3. Depth' = Len(open')
  BY DEF Depth
<1>4. ASSUME NEW l \in 1..Len(open') PROVE EmitOK(emits[l], names[open[l].id])'
  <2>1. PICK m : \E o \in Objects : m = emits'[l] /\ o = names'[open'[l].id] /\ EmitOK(m, o)
    OBVIOUS
  <2>2. PICK o \in Objects : m = emits'[l] /\ o = names'[open'[l].id] /\ EmitOK(m, o)
    BY <2>1
  <2>3. EmitOK(m, o)'
    BY <1>1, <1>2, <2>2, EmitStays
  <2> QED
    BY <2>2, <2>3
<1> QED
  BY <1>3, <1>4 DEF EmitsOK

LEMMA EmitErrorKeeps ==
  ASSUME QInv, EmitError PROVE QInv' /\ CensusStep
<1>1. /\ EmitsOK /\ T!IInv /\ T!WalkOK /\ T!FsOK /\ Depth \in Nat /\ Depth = T!Depth
      /\ Depth \in 1..Depth /\ Top = open[Depth] /\ Top = T!Top /\ Ids = T!Ids
      /\ walked # <<>> /\ nodes # <<>> /\ open # <<>>
      /\ \A l \in 1..Depth : names[open[l].id] \in Objects
      /\ UNCHANGED <<treeVars, walkVars, names, failed>>
  <2>1. Depth > 0
    BY DEF EmitError
  <2>2. open # <<>>
    BY <2>1 DEF Depth
  <2> QED
    BY <2>1, <2>2, OpenShape DEF QInv, EmitError
<1>2. PICK m : \E o \in Objects : m = emits[Depth] /\ o = names[Top.id]
  BY <1>1
<1>3. PICK o \in Objects : m = emits[Depth] /\ o = names[Top.id]
  BY <1>2
<1>4. EmitOK(m, o) /\ m.err = TRUE /\ m.rest = <<>>
  BY <1>1, <1>3 DEF EmitsOK, EmitOK, EmitError, Current
<1>5. PICK m2 : m2 = [err |-> FALSE, rest |-> <<>>]
  OBVIOUS
<1>6. emits' = [emits EXCEPT ![Depth] = m2]
  <2>1. emits' = [emits EXCEPT ![Depth] = [m EXCEPT !.err = FALSE]]
    BY <1>3 DEF EmitError
  <2>2. m = [err |-> TRUE, rest |-> <<>>]
    BY <1>4 DEF EmitOK
  <2>3. [[err |-> TRUE, rest |-> <<>>] EXCEPT !.err = FALSE] = m2
    <3>1. PICK R : R = {<<>>}
      OBVIOUS
    <3>2. PICK y, y2 : y = [err |-> TRUE, rest |-> <<>>] /\ y2 = [y EXCEPT !.err = FALSE]
      OBVIOUS
    <3>3. y \in [err : BOOLEAN, rest : R]
      BY <3>1, <3>2
    <3>4. y2 \in [err : BOOLEAN, rest : R] /\ y2.err = FALSE
      BY <3>2, <3>3
    <3>5. y2 = [err |-> y2.err, rest |-> y2.rest] /\ y2.rest \in R
      BY <3>4
    <3>6. y2 = [err |-> FALSE, rest |-> <<>>]
      BY <3>1, <3>4, <3>5
    <3> QED
      BY <1>5, <3>2, <3>6, Zenon
  <2> QED
    BY <2>1, <2>2, <2>3
<1>7. EmitOK(m2, o) /\ m2.err = FALSE /\ ObjsOf(m2.rest) = {}
  BY <1>5, <1>4, EmptyOK DEF EmitOK, ObjsOf
<1>8. /\ IsSeq(emits') /\ Len(emits') = Depth
      /\ \A l \in 1..Depth : emits'[l] = IF l = Depth THEN m2 ELSE emits[l]
  <2>1. IsSeq(emits) /\ Depth \in 1..Len(emits) /\ Len(emits) = Depth
    BY <1>1 DEF EmitsOK
  <2>2. PICK n, s, t : n = Depth /\ s = emits /\ t = emits'
    OBVIOUS
  <2>3. t = [s EXCEPT ![n] = m2] /\ IsSeq(s) /\ n \in 1..Len(s) /\ Len(s) = n
    BY <1>6, <2>1, <2>2
  <2>4. PICK S : s \in Seq(S) /\ m2 \in S
    <3>1. PICK U : s \in Seq(U)
      BY <2>3 DEF IsSeq
    <3>2. PICK V : V = U \cup {m2}
      OBVIOUS
    <3> QED
      BY <3>1, <3>2
  <2>5. /\ t \in Seq(S) /\ Len(t) = Len(s)
        /\ \A l \in 1..Len(s) : t[l] = IF l = n THEN m2 ELSE s[l]
    BY <2>3, <2>4, ExceptSeq
  <2> QED
    BY <2>2, <2>3, <2>5 DEF IsSeq
<1>9. T!SetReadError /\ UNCHANGED open
  BY SameActions DEF EmitError, SetReadError
<1>10. UNCHANGED patternVars /\ UNCHANGED fsVars /\ UNCHANGED T!treeVars
  BY <1>1 DEF treeVars, T!treeVars, fsVars, T!fsVars, patternVars, T!patternVars
<1>11. EmitsOK'
  <2>1. \A l \in 1..Depth : EmitOK(emits[l], names[open[l].id])
    BY <1>1 DEF EmitsOK
  <2>2. \A l \in 1..Depth : \E n : \E p \in Objects :
          n = emits'[l] /\ p = names'[open'[l].id] /\ EmitOK(n, p)
    BY <1>1, <1>3, <1>7, <1>8, <1>9, <2>1
  <2>3. Len(open') = Depth
    BY <1>9 DEF Depth
  <2> QED
    BY <1>1, <1>8, <2>2, <2>3, EmitsFrom
<1>12. /\ Todo' \in Seq(T!CallType) /\ Len(Todo') = Depth
       /\ \A l \in 1..Depth : Todo'[l] = Resumed(emits'[l], names[open[l].id])
  <2>1. (EmitsOK /\ Depth \in Nat => Todo \in Seq(T!CallType) /\ Len(Todo) = Depth)'
    BY TodoShape, PTL
  <2>2. Depth' = Depth
    BY <1>9 DEF Depth
  <2>3. T!CallType' = T!CallType
    BY <1>10, T!SamePatterns, SameAssumptions DEF T!CallType, T!treeVars
  <2>4. Todo' = [l \in 1..Len(emits') |-> Resumed(emits'[l], names'[open'[l].id])]
    BY <1>10, TodoNext
  <2> QED
    BY <1>1, <1>8, <1>9, <1>11, <2>1, <2>2, <2>3, <2>4
<1>13. /\ Len(Todo) = Depth
       /\ \A l \in 1..Depth : Todo[l] = Resumed(emits[l], names[open[l].id])
  BY <1>1, TodoShape
<1>14. /\ Todo[Depth].read = FALSE /\ Todo'[Depth].read = TRUE /\ Todo'[Depth].left = {}
       /\ \A l \in 1..Depth : /\ Todo'[l].pat = Todo[l].pat
                              /\ l # Depth => Todo'[l] = Todo[l]
  <2>1. Todo[Depth] = Resumed(m, o) /\ Todo'[Depth] = Resumed(m2, o)
    BY <1>1, <1>3, <1>8, <1>12, <1>13
  <2>2. Resumed(m, o).read = FALSE
    BY <1>4 DEF Resumed
  <2>3. Resumed(m2, o).read = TRUE /\ Resumed(m2, o).left = {}
    BY <1>7 DEF Resumed
  <2>4. Resumed(m2, o).pat = Resumed(m, o).pat
    BY DEF Resumed
  <2>5. \A l \in 1..Depth : l # Depth => Todo'[l] = Todo[l]
    BY <1>8, <1>12, <1>13
  <2> QED
    BY <2>1, <2>2, <2>3, <2>4, <2>5
<1>15. /\ T!SameShape /\ \A i \in T!Ids \ {T!Top.id} : nodes'[i].err = nodes[i].err
       /\ nodes'[T!Top.id].err = TRUE
  <2>1. T!Depth > 0 /\ ~Todo[T!Depth].read /\ UNCHANGED names
    BY <1>1, <1>14
  <2> QED
    BY <1>1, <1>9, <2>1, T!ErrorShape, SameAssumptions
<1>16. T!Dir = o
  BY <1>1, <1>3 DEF T!Dir
<1>17. T!Looked({})
  BY <1>1, <1>4, <1>9, <1>10, <1>12, <1>14, <1>15, <1>16 DEF T!Looked, EmitOK
<1>18. T!WalkOK' /\ T!Next
  BY <1>1, <1>9, <1>17, T!LookedKeeps, SameAssumptions DEF T!Next
<1> QED
  BY <1>1, <1>11, <1>18, EmissionKeeps DEF Finished

----------------------------------------------------------------------------
LEMMA IntoSeq ==
  ASSUME NEW s, IsSeq(s), NEW x PROVE \E S : s \in Seq(S) /\ x \in S
<1>1. PICK U : s \in Seq(U)
  BY DEF IsSeq
<1>2. PICK V : V = U \cup {x}
  OBVIOUS
<1> QED
  BY <1>1, <1>2

(* A call of emit takes the first of its children.                                 *)
LEMMA RestShorter ==
  ASSUME NEW m, NEW o, EmitOK(m, o), m.err = FALSE, m.rest # <<>>,
         NEW r, r = Head(m.rest),
         NEW m2, m2.err = FALSE, m2.rest = Tail(m.rest),
         m2 = [err |-> m2.err, rest |-> m2.rest]
  PROVE  /\ EmitOK(m2, o) /\ m2.err = FALSE
         /\ ObjsOf(m2.rest) = ObjsOf(m.rest) \ {r.obj} /\ r.obj \in ObjsOf(m.rest)
         /\ Good(r) /\ SaysRight(r.obj, r.kind) /\ r.obj \in Objects
<1>1. PICK s, t : s = m.rest /\ t = Tail(s)
  OBVIOUS
<1>2. IsSeq(s) /\ s # <<>>
  BY <1>1 DEF EmitOK
<1>3. PICK S : s \in Seq(S)
  BY <1>2 DEF IsSeq
<1>4. /\ Len(s) \in Nat /\ Len(s) > 0 /\ t \in Seq(S) /\ Len(t) = Len(s) - 1
      /\ \A i \in 1..(Len(s) - 1) : t[i] = s[i + 1]
      /\ r = s[1]
  BY <1>1, <1>2, <1>3, HeadTailProperties
<1>5. m2 = [err |-> FALSE, rest |-> t]
  BY <1>1
<1>6. m2.err = FALSE /\ m2.rest = t
  BY <1>5
<1>7. /\ \A i \in 1..Len(s) : Good(s[i]) /\ SaysRight(s[i].obj, s[i].kind)
      /\ \A i, j \in 1..Len(s) : s[i].obj = s[j].obj => i = j
  BY <1>1 DEF EmitOK
<1>8. \A i \in 1..Len(t) : i + 1 \in 1..Len(s) /\ t[i] = s[i + 1] /\ i + 1 # 1
  BY <1>4
<1>9. 1 \in 1..Len(s) /\ \A j \in 1..Len(s) : j # 1 => j - 1 \in 1..Len(t) /\ s[j] = t[j - 1]
  BY <1>4
<1>10. EmitOK(m2, o)
  <2>1. \A i \in 1..Len(t) : Good(t[i]) /\ SaysRight(t[i].obj, t[i].kind)
    BY <1>7, <1>8
  <2>2. ASSUME NEW i \in 1..Len(t), NEW j \in 1..Len(t), t[i].obj = t[j].obj PROVE i = j
    <3>1. i + 1 = j + 1
      BY <1>7, <1>8, <2>2
    <3> QED
      BY <3>1
  <2> QED
    BY <1>4, <1>5, <1>6, <2>1, <2>2 DEF EmitOK, IsSeq
<1>11. ObjsOf(t) = ObjsOf(s) \ {s[1].obj} /\ s[1].obj \in ObjsOf(s)
  <2>1. ASSUME NEW i \in 1..Len(t) PROVE t[i].obj \in ObjsOf(s) \ {s[1].obj}
    <3>1. i + 1 \in 1..Len(s) /\ t[i] = s[i + 1] /\ i + 1 # 1
      BY <1>8
    <3>2. t[i].obj # s[1].obj
      BY <1>7, <1>9, <3>1
    <3> QED
      BY <3>1, <3>2 DEF ObjsOf
  <2>2. ObjsOf(s) \ {s[1].obj} \subseteq ObjsOf(t)
    BY <1>9 DEF ObjsOf
  <2> QED
    BY <1>9, <2>1, <2>2 DEF ObjsOf
<1>12. Good(r) /\ SaysRight(r.obj, r.kind)
  BY <1>4, <1>7, <1>9
<1>13. r.obj \in Objects
  BY <1>12, GoodParts DEF Bears
<1> QED
  BY <1>1, <1>4, <1>6, <1>10, <1>11, <1>12, <1>13

(* What the innermost call of emit, for the directory o, is about to do.            *)
LEMMA Emits ==
  ASSUME QInv, Depth > 0
  PROVE  /\ EmitsOK /\ T!IInv /\ T!WalkOK /\ T!FsOK /\ Depth \in Nat
         /\ Depth = T!Depth /\ Depth \in 1..Depth /\ Top = open[Depth] /\ Top = T!Top
         /\ Ids = T!Ids /\ walked # <<>> /\ nodes # <<>> /\ open # <<>> /\ T!TypeOK
         /\ \A l \in 1..Depth : open[l].id \in Ids /\ names[open[l].id] \in Objects
         /\ \E m : \E o \in Objects : m = emits[Depth] /\ o = names[Top.id] /\ EmitOK(m, o)
         /\ Len(Todo) = Depth /\ Current = emits[Depth]
         /\ \A l \in 1..Depth : Todo[l] = Resumed(emits[l], names[open[l].id])
<1>1. open # <<>>
  BY DEF Depth
<1>2. /\ Depth \in Nat /\ Depth = T!Depth /\ Ids = T!Ids /\ Top = T!Top
      /\ \A l \in 1..Depth : open[l].id \in Ids /\ names[open[l].id] \in Objects
      /\ Depth \in 1..Depth /\ Top = open[Depth] /\ nodes # <<>> /\ walked # <<>> /\ T!TypeOK
  BY OpenShape
<1>3. EmitsOK /\ T!IInv /\ T!WalkOK /\ T!FsOK
  BY DEF QInv
<1>4. PICK m : m = emits[Depth]
  OBVIOUS
<1>5. PICK o \in Objects : o = names[Top.id]
  BY <1>2
<1>6. EmitOK(m, o)
  BY <1>2, <1>3, <1>4, <1>5 DEF EmitsOK
<1>7. /\ Len(Todo) = Depth
      /\ \A l \in 1..Depth : Todo[l] = Resumed(emits[l], names[open[l].id])
  BY <1>2, <1>3, TodoShape
<1>8. Current = emits[Depth]
  BY <1>3 DEF Current, EmitsOK
<1> QED
  BY <1>1, <1>2, <1>3, <1>4, <1>5, <1>6, <1>7, <1>8

LEMMA TodoAfter ==
  ASSUME UNCHANGED treeVars, EmitsOK', Len(open') \in Nat
  PROVE  /\ Todo' \in Seq(T!CallType) /\ Len(Todo') = Len(open')
         /\ \A l \in 1..Len(open') : Todo'[l] = Resumed(emits'[l], names'[open'[l].id])
<1>1. UNCHANGED patternVars /\ UNCHANGED T!patternVars
  BY DEF treeVars, patternVars, T!patternVars
<1>2. (EmitsOK /\ Depth \in Nat => Todo \in Seq(T!CallType) /\ Len(Todo) = Depth)'
  BY TodoShape, PTL
<1>3. Depth' = Len(open') /\ Len(emits') = Len(open')
  BY DEF Depth, EmitsOK
<1>4. T!CallType' = T!CallType
  BY <1>1, T!SamePatterns, SameAssumptions DEF T!CallType
<1>5. Todo' = [l \in 1..Len(emits') |-> Resumed(emits'[l], names'[open'[l].id])]
  BY <1>1, TodoNext
<1> QED
  BY <1>2, <1>3, <1>4, <1>5

----------------------------------------------------------------------------
LEMMA EmitKeeps ==
  ASSUME QInv, Emit PROVE QInv' /\ CensusStep
<1>1. /\ EmitsOK /\ T!IInv /\ T!WalkOK /\ Depth \in Nat /\ Depth = T!Depth /\ Depth > 0
      /\ Depth \in 1..Depth /\ Top = open[Depth] /\ Top = T!Top /\ Ids = T!Ids
      /\ walked # <<>> /\ nodes # <<>> /\ open # <<>> /\ T!TypeOK
      /\ \A l \in 1..Depth : open[l].id \in Ids /\ names[open[l].id] \in Objects
      /\ Len(Todo) = Depth /\ Current = emits[Depth]
      /\ \A l \in 1..Depth : Todo[l] = Resumed(emits[l], names[open[l].id])
      /\ \E n : \E p \in Objects : n = emits[Depth] /\ p = names[Top.id] /\ EmitOK(n, p)
  BY Emits DEF Emit
<1>2. PICK m : \E p \in Objects : m = emits[Depth] /\ p = names[Top.id] /\ EmitOK(m, p)
  BY <1>1
<1>3. PICK o \in Objects : m = emits[Depth] /\ o = names[Top.id] /\ EmitOK(m, o)
  BY <1>2
<1>4. PICK r, e, k : r = Head(m.rest) /\ e = r.obj /\ k = r.kind
  OBVIOUS
<1>5. PICK m2 : m2 = [m EXCEPT !.rest = Tail(@)]
  OBVIOUS
<1>6. /\ m.err = FALSE /\ m.rest # <<>>
      /\ names' = Append(names, e) /\ UNCHANGED <<treeVars, walkVars, failed>>
  <2>1. Current = m /\ m.err \in BOOLEAN
    BY <1>1, <1>3 DEF EmitOK
  <2>2. ~Current.err /\ Current.rest # <<>>
    BY DEF Emit
  <2>3. names' = Append(names, e) /\ UNCHANGED <<treeVars, walkVars, failed>>
    BY <1>4, <2>1 DEF Emit
  <2> QED
    BY <2>1, <2>2, <2>3
<1>7. m2.err = FALSE /\ m2.rest = Tail(m.rest) /\ m2 = [err |-> m2.err, rest |-> m2.rest]
  <2>1. m = [err |-> m.err, rest |-> m.rest] /\ m.err \in BOOLEAN
    BY <1>3 DEF EmitOK
  <2>2. PICK R : R = {m.rest, Tail(m.rest)}
    OBVIOUS
  <2>3. m \in [err : BOOLEAN, rest : R] /\ Tail(m.rest) \in R
    BY <2>1, <2>2
  <2>4. m2 \in [err : BOOLEAN, rest : R] /\ m2.rest = Tail(m.rest) /\ m2.err = m.err
    BY <1>5, <2>3
  <2> QED
    BY <1>6, <2>4
<1>8. /\ EmitOK(m2, o) /\ m2.err = FALSE
      /\ ObjsOf(m2.rest) = ObjsOf(m.rest) \ {e} /\ e \in ObjsOf(m.rest)
      /\ Good(r) /\ SaysRight(e, k) /\ e \in Objects
  BY <1>3, <1>4, <1>6, <1>7, RestShorter
<1>9. /\ IsSeq(emits) /\ Len(emits) = Depth /\ Depth \in 1..Len(emits)
      /\ \A l \in 1..Depth : EmitOK(emits[l], names[open[l].id])
  BY <1>1 DEF EmitsOK
<1>10. PICK base : base = [emits EXCEPT ![Depth] = m2]
  OBVIOUS
<1>11. /\ IsSeq(base) /\ Len(base) = Depth
       /\ \A l \in 1..Depth : base[l] = IF l = Depth THEN m2 ELSE emits[l]
  <2>1. PICK S : emits \in Seq(S) /\ m2 \in S
    BY <1>9, IntoSeq
  <2>2. /\ base \in Seq(S) /\ Len(base) = Depth
        /\ \A l \in 1..Depth : base[l] = IF l = Depth THEN m2 ELSE emits[l]
    BY <1>9, <1>10, <2>1, ExceptSeq
  <2> QED
    BY <2>2 DEF IsSeq
<1>12. \/ k \in Specials /\ AddSpecial(k) /\ emits' = base
       \/ k \in FileTypes /\ (\E b \in Blocks : AddStat(k, b)) /\ emits' = base
       \/ /\ k = "Dir" /\ \E b \in Blocks, v \in Devs : AddDir(b, v)
          /\ emits' = Append(base, Emitting(r))
  <2>1. base = [emits EXCEPT ![Depth].rest = Tail(@)]
    BY <1>3, <1>5, <1>10
  <2>2. r = Head(Current.rest)
    BY <1>1, <1>3, <1>4
  <2> QED
    BY <1>4, <2>1, <2>2 DEF Emit
<1>13. T!PutsEntry(k) /\ T!Next
  <2>1. \/ k \in T!Specials /\ T!AddSpecial(k)
        \/ k \in T!FileTypes /\ \E b \in Blocks : T!AddStat(k, b)
        \/ k = "Dir" /\ \E b \in Blocks, v \in Devs : T!AddDir(b, v)
    BY <1>12, SameActions, SameSink
  <2> QED
    BY <1>1, <2>1, T!AddsPut, SameAssumptions
<1>14. /\ Len(open') = (IF k = "Dir" THEN Depth + 1 ELSE Depth) /\ Len(open') \in Nat
       /\ \A l \in 1..Depth : open'[l].id = open[l].id
       /\ k = "Dir" => open'[Depth + 1].id = T!NewId
  BY <1>1, <1>13 DEF T!PutsEntry
<1>15. /\ IsSeq(emits') /\ Len(emits') = Len(open')
       /\ \A l \in 1..Depth : emits'[l] = IF l = Depth THEN m2 ELSE emits[l]
       /\ k = "Dir" => emits'[Depth + 1] = Emitting(r)
  <2>1. CASE emits' = base /\ k # "Dir"
    BY <1>11, <1>14, <2>1
  <2>2. CASE k = "Dir" /\ emits' = Append(base, Emitting(r))
    BY <1>11, <1>14, <2>2, Appended
  <2> QED
    BY <1>12, <2>1, <2>2 DEF Specials, FileTypes
<1>16. /\ \A i \in Ids : names'[i] = names[i]
       /\ names'[T!NewId] = e
  <2>1. names \in Seq(Objects) /\ Len(names) = Len(nodes) /\ T!NewId = Len(nodes) + 1
    BY <1>1 DEF T!WalkOK, T!NamesOK, T!NewId
  <2>2. Ids = 1..Len(names)
    BY <2>1 DEF Ids
  <2> QED
    BY <1>6, <1>8, <2>1, <2>2, AppendProperties
<1>17. PICK t : t = Resumed(Emitting(r), e)
  OBVIOUS
<1>18. k = "Dir" => /\ EmitOK(Emitting(r), e) /\ t \in T!CallType /\ T!Starts(t, e)
                    /\ e \in excused \/ T!IsDirectory(e)
  BY <1>4, <1>8, <1>17, EmittingStarts
<1>19. \A l \in 1..Len(open') : l \in 1..Depth \/ (k = "Dir" /\ l = Depth + 1)
  BY <1>1, <1>14
<1>20. EmitsOK'
  <2>1. ASSUME NEW l \in 1..Depth
        PROVE  \E n : \E p \in Objects :
                 n = emits'[l] /\ p = names'[open'[l].id] /\ EmitOK(n, p)
    <3>1. names'[open'[l].id] = names[open[l].id] /\ names[open[l].id] \in Objects
      BY <1>1, <1>14, <1>16
    <3>2. EmitOK(emits[l], names[open[l].id])
      BY <1>9
    <3>3. CASE l = Depth
      BY <1>1, <1>3, <1>8, <1>15, <3>1, <3>3
    <3>4. CASE l # Depth
      BY <1>15, <3>1, <3>2, <3>4
    <3> QED
      BY <3>3, <3>4
  <2>2. k = "Dir" => LET l == Depth + 1
                     IN  \E n : \E p \in Objects :
                           n = emits'[l] /\ p = names'[open'[l].id] /\ EmitOK(n, p)
    BY <1>8, <1>14, <1>15, <1>16, <1>18
  <2>3. \A l \in 1..Len(open') : \E n : \E p \in Objects :
          n = emits'[l] /\ p = names'[open'[l].id] /\ EmitOK(n, p)
    BY <1>19, <2>1, <2>2
  <2> QED
    BY <1>6, <1>14, <1>15, <2>3, EmitsFrom
<1>21. /\ Todo' \in Seq(T!CallType) /\ Len(Todo') = Len(open')
       /\ \A l \in 1..Len(open') : Todo'[l] = Resumed(emits'[l], names'[open'[l].id])
  BY <1>6, <1>14, <1>20, TodoAfter
<1>22. \A l \in 1..Depth :
         /\ Todo'[l].read = Todo[l].read /\ Todo'[l].pat = Todo[l].pat
         /\ Todo'[l].left = IF l = Depth THEN Todo[l].left \ {e} ELSE Todo[l].left
  <2>1. \A l \in 1..Depth : l \in 1..Len(open')
    BY <1>1, <1>14
  <2>2. \A l \in 1..Depth : names'[open'[l].id] = names[open[l].id]
    BY <1>1, <1>14, <1>16
  <2>3. \A l \in 1..Depth : l # Depth => Todo'[l] = Todo[l]
    BY <1>1, <1>15, <1>21, <2>1, <2>2
  <2>4. Todo[Depth] = Resumed(m, o) /\ Todo'[Depth] = Resumed(m2, o)
    BY <1>1, <1>3, <1>15, <1>21, <2>1, <2>2
  <2>5. /\ Resumed(m2, o).read = Resumed(m, o).read /\ Resumed(m2, o).pat = Resumed(m, o).pat
        /\ Resumed(m2, o).left = Resumed(m, o).left \ {e}
    BY <1>6, <1>8 DEF Resumed
  <2> QED
    BY <2>3, <2>4, <2>5
<1>23. k = "Dir" => T!Starts(Todo'[Depth + 1], e)
  <2>1. k = "Dir" => Depth + 1 \in 1..Len(open')
    BY <1>1, <1>14
  <2>2. k = "Dir" => Todo'[Depth + 1] = t
    BY <1>14, <1>15, <1>16, <1>17, <1>21, <2>1
  <2> QED
    BY <1>18, <2>2
<1>24. e \in Todo[Depth].left /\ T!LeftOK(e, T!Top.id)
  <2>1. Todo[Depth] = Resumed(m, o)
    BY <1>1, <1>3
  <2>2. Todo[Depth].left = ObjsOf(m.rest)
    BY <2>1 DEF Resumed
  <2>3. T!CallOK(Todo[Depth], open[Depth].id)
    BY <1>1 DEF T!WalkOK, T!TodoOK
  <2> QED
    BY <1>1, <1>8, <2>2, <2>3 DEF T!CallOK
<1>25. UNCHANGED T!treeVars /\ UNCHANGED failed
  BY <1>6 DEF treeVars, fsVars, patternVars, T!treeVars, T!fsVars, T!patternVars
<1>26. T!SaysRight(e, k)
  BY <1>8 DEF SaysRight
<1>27. T!Entered(e, k)
  BY <1>1, <1>6, <1>8, <1>13, <1>18, <1>21, <1>22, <1>23, <1>24, <1>25, <1>26 DEF T!Entered
<1>28. T!WalkOK'
  BY <1>1, <1>27, T!EnteredKeeps, SameAssumptions
<1> QED
  BY <1>1, <1>6, <1>13, <1>20, <1>28, EmissionKeeps DEF Finished

LEMMA EmitReturnKeeps ==
  ASSUME QInv, EmitReturn PROVE QInv' /\ CensusStep
<1>1. /\ EmitsOK /\ T!IInv /\ T!WalkOK /\ T!FsOK /\ Depth \in Nat /\ Depth = T!Depth
      /\ Depth > 0 /\ Len(open) = Depth
      /\ Depth \in 1..Depth /\ Top = open[Depth] /\ Top = T!Top /\ Ids = T!Ids
      /\ walked # <<>> /\ nodes # <<>> /\ open # <<>> /\ T!TypeOK
      /\ \A l \in 1..Depth : open[l].id \in Ids /\ names[open[l].id] \in Objects
      /\ Len(Todo) = Depth /\ Current = emits[Depth]
      /\ \A l \in 1..Depth : Todo[l] = Resumed(emits[l], names[open[l].id])
      /\ \E n : \E p \in Objects : n = emits[Depth] /\ p = names[Top.id] /\ EmitOK(n, p)
  BY Emits DEF EmitReturn, Depth
<1>2. PICK m : \E p \in Objects : m = emits[Depth] /\ p = names[Top.id] /\ EmitOK(m, p)
  BY <1>1
<1>3. PICK o \in Objects : m = emits[Depth] /\ o = names[Top.id] /\ EmitOK(m, o)
  BY <1>2
<1>4. /\ m.err = FALSE /\ m.rest = <<>> /\ emits' = Front(emits)
      /\ UNCHANGED <<treeVars, walkVars, names, failed>>
      /\ T!FinalizeSub \/ T!FinalizeRoot
  <2>1. Current = m /\ m.err \in BOOLEAN
    BY <1>1, <1>3 DEF EmitOK
  <2>2. ~Current.err /\ Current.rest = <<>>
    BY DEF EmitReturn
  <2>3. /\ emits' = Front(emits) /\ UNCHANGED <<treeVars, walkVars, names, failed>>
        /\ T!FinalizeSub \/ T!FinalizeRoot
    BY SameActions DEF EmitReturn
  <2> QED
    BY <2>1, <2>2, <2>3
<1>5. /\ T!SameEntries /\ T!Next /\ Len(open') = Depth - 1
      /\ \A l \in 1..(Depth - 1) : open'[l].id = open[l].id
  BY <1>1, <1>4, T!Closes, SameAssumptions
<1>6. /\ IsSeq(emits') /\ Len(emits') = Depth - 1
      /\ \A l \in 1..(Depth - 1) : emits'[l] = emits[l]
  <2>1. IsSeq(emits) /\ Len(emits) = Depth
    BY <1>1 DEF EmitsOK
  <2>2. PICK S : emits \in Seq(S)
    BY <2>1 DEF IsSeq
  <2>3. emits' = SubSeq(emits, 1, Len(emits) - 1)
    BY <1>4 DEF Front
  <2>4. /\ emits' \in Seq(S) /\ Len(emits') = Depth - 1
        /\ \A l \in 1..(Depth - 1) : emits'[l] = emits[l]
    BY <1>1, <2>1, <2>2, <2>3, SubSeqProperties
  <2> QED
    BY <2>4 DEF IsSeq
<1>7. Len(open') \in Nat /\ \A l \in 1..(Depth - 1) : l \in 1..Depth
  BY <1>1, <1>5
<1>8. EmitsOK'
  <2>1. \A l \in 1..Depth : EmitOK(emits[l], names[open[l].id])
    BY <1>1 DEF EmitsOK
  <2>2. \A l \in 1..Len(open') : \E n : \E p \in Objects :
          n = emits'[l] /\ p = names'[open'[l].id] /\ EmitOK(n, p)
    BY <1>1, <1>4, <1>5, <1>6, <1>7, <2>1
  <2> QED
    BY <1>4, <1>5, <1>6, <1>7, <2>2, EmitsFrom
<1>9. /\ Todo' \in Seq(T!CallType) /\ Len(Todo') = Depth - 1
      /\ \A l \in 1..(Depth - 1) : Todo'[l] = Todo[l]
  <2>1. /\ Todo' \in Seq(T!CallType) /\ Len(Todo') = Len(open')
        /\ \A l \in 1..Len(open') : Todo'[l] = Resumed(emits'[l], names'[open'[l].id])
    BY <1>4, <1>7, <1>8, TodoAfter
  <2> QED
    BY <1>1, <1>4, <1>5, <1>6, <1>7, <2>1
<1>10. Todo[Depth].read = TRUE /\ Todo[Depth].left = {}
  <2>1. Todo[Depth] = Resumed(m, o)
    BY <1>1, <1>3
  <2>2. ObjsOf(m.rest) = {}
    BY <1>4, EmptyOK DEF ObjsOf
  <2>3. Resumed(m, o).read = TRUE /\ Resumed(m, o).left = {}
    BY <1>4, <2>2 DEF Resumed
  <2> QED
    BY <2>1, <2>3
<1>11. /\ UNCHANGED fsVars /\ UNCHANGED T!patternVars
  BY <1>4 DEF treeVars, fsVars, patternVars, T!patternVars
<1>12. T!Interfered
  BY <1>1, <1>11, TreeSteps
<1>13. T!SameShape /\ \A i \in T!Ids : nodes'[i].err = nodes[i].err
  BY <1>4, <1>5 DEF T!SameShape, T!SameEntries
<1>14. T!Quiet
  BY <1>1, <1>5, <1>9, <1>10, <1>11, <1>12, <1>13 DEF T!Quiet
<1>15. T!WalkOK'
  BY <1>1, <1>14, T!QuietKeeps, SameAssumptions
<1> QED
  BY <1>1, <1>4, <1>5, <1>8, <1>15, EmissionKeeps DEF Finished

----------------------------------------------------------------------------
(* The steps of the walk.                                                        *)
LEMMA AsideStep ==
  ASSUME QInv, PInv', T!FsOK', T!Interfered, UNCHANGED <<patternVars, vars, emits, names, failed>>,
         Promises', Phases'
  PROVE  QInv' /\ CensusStep
BY AsideKeeps DEF QInv

(* Once the root's call has begun, the patterns are settled.                       *)
LEMMA Underway ==
  ASSUME QInv, (\E w \in Workers : Busy(w)) \/ queue # {}
  PROVE  walk[Root].at # "none" /\ Configured /\ ~failed
<1>1. walk[Root].at # "none"
  BY DEF QInv, PInv, WInv, Tasks, Busy
<1> QED
  BY <1>1 DEF QInv, Phases

LEMMA PhasesOnward ==
  ASSUME Phases, T!Interfered, UNCHANGED <<patternVars, nodes, failed>>, Configured, ~failed,
         walk'[Root].at # "none",
         walked' = walked \/ \E r : walked' = <<r>> /\ Good(r) /\ r.obj = Root /\ r.kind = "Dir"
  PROVE  Phases'
<1>1. Configured' = Configured
  BY DEF Configured, patternVars
<1>2. CASE walked' = walked
  <2>1. PICK r : r = walked[1]
    OBVIOUS
  <2>2. Good(r) => Good(r)'
    BY GoodStays
  <2> QED
    BY <1>1, <1>2, <2>1, <2>2 DEF Phases
<1>3. ASSUME NEW r, walked' = <<r>>, Good(r), r.obj = Root, r.kind = "Dir" PROVE Phases'
  <2>1. Good(r)'
    BY <1>3, GoodStays
  <2>2. walked'[1] = r /\ walked' # <<>> /\ walked' = <<walked'[1]>>
    BY <1>3
  <2>3. Good(walked[1])'
    BY <2>1, <2>2
  <2> QED
    BY <1>1, <1>3, <2>2, <2>3 DEF Phases
<1> QED
  BY <1>2, <1>3

LEMMA PromisesOnward ==
  ASSUME PInv, PInv', Promises, T!Interfered, UNCHANGED patternVars,
         \A d \in Objects : walk'[d] = walk[d] \/ \E c : c = walk'[d] /\ Holds(c, d)
  PROVE  Promises'
<1> SUFFICES ASSUME NEW d \in Objects PROVE Holds(walk[d], d)'
  BY DEF Promises
<1>1. PICK c : c = walk'[d]
  OBVIOUS
<1>2. CallOK(c, d)
  <2>1. CallOK(walk[d], d)'
    BY DEF PInv, WInv, Calls
  <2> QED
    BY <1>1, <2>1 DEF CallOK, Below
<1>3. Holds(c, d)
  BY <1>1 DEF Promises
<1>4. Holds(c, d)'
  BY <1>2, <1>3, HoldsStays
<1> QED
  BY <1>1, <1>4

(* A step of the walk leaves the tree alone, and the emission.                     *)
LEMMA WalkKeeps ==
  ASSUME QInv, PInv', UNCHANGED <<vars, treeVars, emits, names, failed>>,
         Configured, ~failed, walk'[Root].at # "none",
         walked' = walked \/ (\E r : walked' = <<r>> /\ Good(r) /\ r.obj = Root /\ r.kind = "Dir"),
         \A d \in Objects : walk'[d] = walk[d] \/ \E c : c = walk'[d] /\ Holds(c, d)
  PROVE  QInv' /\ CensusStep
<1>1. /\ PInv /\ T!FsOK /\ Phases /\ Promises
      /\ UNCHANGED fsVars /\ UNCHANGED <<patternVars, vars, emits, names, failed>>
      /\ UNCHANGED patternVars /\ UNCHANGED nodes
  BY DEF QInv, treeVars, vars
<1>2. T!FsOK' /\ T!Interfered
  BY <1>1, TreeSteps
<1>3. Promises'
  BY <1>1, <1>2, PromisesOnward
<1>4. Phases'
  BY <1>1, <1>2, PhasesOnward
<1> QED
  BY <1>1, <1>2, <1>3, <1>4, AsideStep

(* One call goes on, or begins.                                                   *)
LEMMA OneKeeps ==
  ASSUME QInv, PInv', UNCHANGED <<vars, treeVars, walked, emits, names, failed>>,
         Configured, ~failed, NEW d \in Objects, walk[Root].at # "none" \/ d = Root,
         NEW c, c.at # "none", Holds(c, d), walk'[d] = c,
         \A x \in Objects \ {d} : walk'[x] = walk[x]
  PROVE  QInv' /\ CensusStep
<1>1. walk'[Root].at # "none"
  BY FileTreeAssumption
<1>2. \A x \in Objects : walk'[x] = walk[x] \/ \E y : y = walk'[x] /\ Holds(y, x)
  OBVIOUS
<1> QED
  BY <1>1, <1>2, WalkKeeps

LEMMA RootCarries ==
  ASSUME QInv, Configured PROVE cur = Carried(Root)
<1>1. T!C!PathTo(Root) = RootPath
  BY T!PathUnfolds, SameAssumptions
<1>2. cur = T!X!CarriedBy(path)
  BY DEF QInv, T!X!IInv, Configured
<1> QED
  BY <1>1, <1>2, SameCarried DEF Configured

LEMMA InstallKeeps ==
  ASSUME QInv, PInv', NEW w \in Workers, Install(w) PROVE QInv' /\ CensusStep
<1>1. /\ walk[Root].at = "none" /\ ~failed /\ Configured /\ IsDirectory(Root) /\ Root \in Objects
      /\ UNCHANGED <<vars, treeVars, walked, emits, names, failed>>
      /\ walk' = [walk EXCEPT ![Root].at = "open", ![Root].pat = cur]
  BY FileTreeAssumption DEF Install, Called, Scannable
<1>2. PICK c : c = walk[Root]
  OBVIOUS
<1>3. PerObject(walk) /\ CallOK(c, Root) /\ Holds(c, Root)
  BY <1>1, <1>2 DEF QInv, PInv, WInv, Calls, Promises
<1>4. PICK c2 : c2 = Opened(c, Carried(Root))
  OBVIOUS
<1>5. walk'[Root] = c2 /\ \A x \in Objects \ {Root} : walk'[x] = walk[x]
  BY <1>1, <1>2, <1>3, <1>4, RootCarries DEF PerObject, Opened
<1>6. Holds(c2, Root) /\ c2.at = "open"
  BY <1>1, <1>2, <1>3, <1>4, HoldsOpened, CallOpened
<1> QED
  BY <1>1, <1>5, <1>6, OneKeeps

(* The subdirectory taken is a task of the call that waits for it.                  *)
LEMMA TaskAt ==
  ASSUME QInv, NEW d \in Objects \ {Root}, AwaitedIn(walk, d)
  PROVE  \E u \in Objects : \E c :
           /\ u = Up[d] /\ c = walk[u] /\ c.at = "join" /\ CallOK(c, u) /\ Holds(c, u)
           /\ Place(d) \in 1..Len(c.pending) /\ c.pending[Place(d)].obj = d
           /\ TaskOK(c, c.pending[Place(d)], c.subs[Place(d)])
<1>1. Up[d] \in Objects
  BY FileTreeAssumption
<1>2. PICK u \in Objects : u = Up[d]
  BY <1>1
<1>3. PICK c : c = walk[u]
  OBVIOUS
<1>4. CallOK(c, u) /\ Holds(c, u) /\ c.at = "join"
  BY <1>2, <1>3 DEF QInv, PInv, WInv, Calls, Promises, AwaitedIn
<1>5. Place(d) \in 1..Len(c.pending) /\ c.pending[Place(d)].obj = d
  BY <1>2, <1>3 DEF AwaitedIn, Place
<1>6. TaskOK(c, c.pending[Place(d)], c.subs[Place(d)])
  BY <1>4, <1>5 DEF Holds, TasksOK
<1> QED
  BY <1>2, <1>3, <1>4, <1>5, <1>6

LEMMA TakeKeeps ==
  ASSUME QInv, PInv', NEW w \in Workers, NEW d \in queue, Take(w, d) PROVE QInv' /\ CensusStep
<1>1. walk[Root].at # "none" /\ Configured /\ ~failed
  BY Underway
<1>2. /\ d \in Objects \ {Root} /\ AwaitedIn(walk, d) /\ ~OnStack(stack, d) /\ PerObject(walk)
      /\ WInv(walk, stack, queue)
  BY DEF QInv, PInv, WInv, Tasks, Calls
<1>3. PICK pat : pat = walk[Up[d]].pending[Place(d)].pat
  OBVIOUS
<1>4. pat = Carried(d) /\ (d \in excused \/ IsDirectory(d))
  BY <1>2, <1>3, TaskAt DEF TaskOK
<1>5. PICK c : c = walk[d]
  OBVIOUS
<1>6. CallOK(c, d) /\ Holds(c, d) /\ c.at \in {"none", "open", "done"}
  BY <1>2, <1>5 DEF QInv, WInv, Calls, Stacks, Promises, CallOK
<1>7. PICK c2 : c2 = Opened(c, Carried(d))
  OBVIOUS
<1>8. Holds(c2, d) /\ c2.at = "open"
  BY <1>2, <1>4, <1>6, <1>7, HoldsOpened, CallOpened
<1>9. /\ walk' = [walk EXCEPT ![d].at = "open", ![d].pat = pat]
      /\ UNCHANGED <<vars, treeVars, walked, emits, names, failed>>
  BY <1>3 DEF Take, Called
<1>10. walk'[d] = c2 /\ \A x \in Objects \ {d} : walk'[x] = walk[x]
  BY <1>2, <1>4, <1>5, <1>7, <1>9 DEF PerObject, Opened
<1> QED
  BY <1>1, <1>2, <1>8, <1>9, <1>10, OneKeeps

----------------------------------------------------------------------------
(* The innermost call of a busy worker.                                           *)
LEMMA BusyCall ==
  ASSUME QInv, NEW w \in Workers, Busy(w)
  PROVE  /\ Last(stack[w]) \in Objects /\ PerObject(walk) /\ Call(w) = walk[Last(stack[w])]
         /\ CallOK(Call(w), Last(stack[w])) /\ Holds(Call(w), Last(stack[w]))
         /\ walk[Root].at # "none" /\ Configured /\ ~failed /\ T!FsOK /\ T!X!IInv
BY InnermostCall, Underway DEF QInv, Call, Promises

LEMMA EntryKeeps ==
  ASSUME QInv, PInv', NEW w \in Workers, Busy(w), NEW e, Entry(w, e) PROVE QInv' /\ CensusStep
<1>1. PICK d, c : d = Last(stack[w]) /\ c = Call(w)
  OBVIOUS
<1>2. /\ d \in Objects /\ PerObject(walk) /\ c = walk[d] /\ CallOK(c, d) /\ Holds(c, d)
      /\ walk[Root].at # "none" /\ Configured /\ ~failed /\ T!FsOK /\ T!X!IInv
  BY <1>1, BusyCall
<1>3. PICK c2 : c2 = Classified(c, e)
  OBVIOUS
<1>4. /\ c.at = "read" /\ e \in c.left /\ walk' = [walk EXCEPT ![d] = Classified(@, e)]
      /\ UNCHANGED <<vars, treeVars, walked, emits, names, failed>>
  BY <1>1 DEF Entry
<1>5. walk'[d] = c2 /\ \A x \in Objects \ {d} : walk'[x] = walk[x]
  BY <1>2, <1>3, <1>4 DEF PerObject
<1>6. Holds(c2, d) /\ c2.at = "read"
  BY <1>2, <1>3, <1>4, HoldsClassified, CallClassified
<1> QED
  BY <1>2, <1>4, <1>5, <1>6, OneKeeps

LEMMA ForkKeeps ==
  ASSUME QInv, PInv', NEW w \in Workers, Fork(w) PROVE QInv' /\ CensusStep
<1>1. PICK d, c : d = Last(stack[w]) /\ c = Call(w)
  OBVIOUS
<1>2. /\ d \in Objects /\ PerObject(walk) /\ c = walk[d] /\ CallOK(c, d) /\ Holds(c, d)
      /\ walk[Root].at # "none" /\ Configured /\ ~failed
  BY <1>1, BusyCall DEF Fork
<1>3. PICK c2 : c2 = [c EXCEPT !.at = "join"]
  OBVIOUS
<1>4. /\ c.at = "read" /\ c.left = {} /\ walk' = [walk EXCEPT ![d].at = "join"]
      /\ UNCHANGED <<vars, treeVars, walked, emits, names, failed>>
  BY <1>1 DEF Fork
<1>5. walk'[d] = c2 /\ \A x \in Objects \ {d} : walk'[x] = walk[x]
  BY <1>2, <1>3, <1>4 DEF PerObject
<1>6. Holds(c2, d) /\ c2.at = "join"
  BY <1>2, <1>3, <1>4, HoldsForked, CallForked
<1> QED
  BY <1>2, <1>4, <1>5, <1>6, OneKeeps

(* The result of the call for d is right, and gets to its place.                    *)
LEMMA DeliverKeeps ==
  ASSUME QInv, PInv', NEW w \in Workers, Busy(w), NEW d, d = Last(stack[w]),
         NEW r, Deliver(w, d, r), Good(r), r.obj = d, r.kind = "Dir"
  PROVE  QInv' /\ CensusStep
<1>1. /\ d \in Objects /\ PerObject(walk) /\ walk[Root].at # "none" /\ Configured /\ ~failed
      /\ Root \in Objects
  BY BusyCall, FileTreeAssumption
<1>2. UNCHANGED <<vars, treeVars, emits, names, failed>>
  BY DEF Deliver
<1>3. CASE d = Root
  <2>1. walked' = <<r>> /\ walk' = [walk EXCEPT ![Root] = Returned]
    BY <1>3 DEF Deliver
  <2>2. walk'[Root] = Returned /\ \A x \in Objects \ {Root} : walk'[x] = walk[x]
    BY <1>1, <2>1 DEF PerObject
  <2>3. walk'[Root].at # "none"
    BY <1>1, <2>2, ReturnedOK
  <2>4. \A x \in Objects : walk'[x] = walk[x] \/ \E c : c = walk'[x] /\ Holds(c, x)
    BY <2>2, ReturnedHolds
  <2> QED
    BY <1>1, <1>2, <1>3, <2>1, <2>3, <2>4, WalkKeeps
<1>4. CASE d # Root
  <2>1. AwaitedIn(walk, d) /\ d \in Objects \ {Root} /\ Up[d] # d
    BY <1>4, InnermostCall, FileTreeAssumption DEF QInv
  <2>2. PICK u \in Objects : \E c :
           /\ u = Up[d] /\ c = walk[u] /\ c.at = "join" /\ CallOK(c, u) /\ Holds(c, u)
           /\ Place(d) \in 1..Len(c.pending) /\ c.pending[Place(d)].obj = d
    BY <2>1, TaskAt
  <2>3. PICK c :
           /\ u = Up[d] /\ c = walk[u] /\ c.at = "join" /\ CallOK(c, u) /\ Holds(c, u)
           /\ Place(d) \in 1..Len(c.pending) /\ c.pending[Place(d)].obj = d
    BY <2>2
  <2>4. PICK p \in 1..Len(c.pending) : p = Place(d)
    BY <2>3
  <2>5. PICK c2 : c2 = Answer(c, p, r)
    OBVIOUS
  <2>6. Holds(c2, u) /\ c2.at = "join"
    BY <2>3, <2>4, <2>5, HoldsAnswered, CallAnswered
  <2>7. /\ walked' = walked
        /\ walk' = [walk EXCEPT ![d] = Returned, ![u].subs[p] = <<r>>]
    BY <1>4, <2>3, <2>4 DEF Deliver
  <2>8. /\ walk'[d] = Returned /\ walk'[u] = c2
        /\ \A x \in Objects \ {d, u} : walk'[x] = walk[x]
    BY <1>1, <2>1, <2>3, <2>5, <2>7 DEF PerObject, Answer
  <2>9. walk'[Root].at # "none"
    <3>1. CASE Root = u
      BY <2>6, <2>8, <3>1
    <3>2. CASE Root # u
      BY <1>1, <1>4, <2>8, <3>2
    <3> QED
      BY <3>1, <3>2
  <2>10. \A x \in Objects : walk'[x] = walk[x] \/ \E y : y = walk'[x] /\ Holds(y, x)
    BY <2>6, <2>8, ReturnedHolds
  <2> QED
    BY <1>1, <1>2, <2>7, <2>9, <2>10, WalkKeeps
<1> QED
  BY <1>3, <1>4

LEMMA OpenDirKeeps ==
  ASSUME QInv, PInv', NEW w \in Workers, OpenDir(w) PROVE QInv' /\ CensusStep
<1>1. PICK d, c : d = Last(stack[w]) /\ c = Call(w)
  OBVIOUS
<1>2. /\ d \in Objects /\ PerObject(walk) /\ c = walk[d] /\ CallOK(c, d) /\ Holds(c, d)
      /\ walk[Root].at # "none" /\ Configured /\ ~failed /\ T!FsOK /\ Busy(w) /\ c.at = "open"
  BY <1>1, BusyCall DEF OpenDir
<1>3. CASE /\ CanRead(d)
           /\ walk' = [walk EXCEPT ![d].at = "read", ![d].left = Listed(d)]
           /\ UNCHANGED <<vars, treeVars, stack, queue, walked, emits, names, failed>>
  <2>1. PICK c2 : c2 = [c EXCEPT !.at = "read", !.left = Listed(d)]
    OBVIOUS
  <2>2. walk'[d] = c2 /\ \A x \in Objects \ {d} : walk'[x] = walk[x]
    BY <1>2, <1>3, <2>1 DEF PerObject
  <2>3. Listed(d) \subseteq Below(d)
    BY DEF QInv, PInv, Listed, Below
  <2>4. Holds(c2, d) /\ c2.at = "read"
    BY <1>2, <1>3, <2>1, <2>3, HoldsRead, CallRead
  <2> QED
    BY <1>2, <1>3, <2>2, <2>4, OneKeeps
<1>4. CASE ~CanRead(d) /\ Deliver(w, d, [Walked(d, "Dir") EXCEPT !.err = TRUE])
  <2>1. PICK r : r = Unread(d)
    OBVIOUS
  <2>2. d \in excused \/ (IsDirectory(d) /\ ~nature[d].readable)
    BY <1>2, <1>4 DEF Holds, CanRead
  <2>3. Good(r) /\ r.obj = d /\ r.kind = "Dir"
    BY <1>2, <2>1, <2>2, UnreadGood
  <2>4. Deliver(w, d, r)
    BY <1>4, <2>1 DEF Unread
  <2> QED
    BY <1>1, <1>2, <2>3, <2>4, DeliverKeeps
<1> QED
  BY <1>1, <1>3, <1>4 DEF OpenDir

LEMMA JoinKeeps ==
  ASSUME QInv, PInv', NEW w \in Workers, Join(w) PROVE QInv' /\ CensusStep
<1>1. PICK d, c : d = Last(stack[w]) /\ c = Call(w)
  OBVIOUS
<1>2. /\ d \in Objects /\ c = walk[d] /\ CallOK(c, d) /\ Holds(c, d)
      /\ Busy(w) /\ c.at = "join" /\ Complete(c)
  BY <1>1, BusyCall DEF Join
<1>3. PICK r : r = Joined(d, c)
  OBVIOUS
<1>4. Good(r) /\ r.obj = d /\ r.kind = "Dir"
  BY <1>2, <1>3, JoinedGood
<1>5. Deliver(w, d, r)
  BY <1>1, <1>2, <1>3 DEF Join, Joined
<1> QED
  BY <1>1, <1>2, <1>4, <1>5, DeliverKeeps

WithoutOK ==
  \A c, d, e, c2 :
    CallOK(c, d) /\ Holds(c, d) /\ c.at = "read" /\ e \in excused
      /\ c2 = [c EXCEPT !.left = @ \ {e}] => Holds(c2, d)

LEMMA WithoutHolds == WithoutOK
BY HoldsWithout DEF WithoutOK

LEMMA SkipKeeps ==
  ASSUME QInv, PInv', NEW w \in Workers, Busy(w), NEW e, Skip(w, e) PROVE QInv' /\ CensusStep
<1>1. PICK d, c : d = Last(stack[w]) /\ c = Call(w)
  OBVIOUS
<1>2. /\ d \in Objects /\ PerObject(walk) /\ c = walk[d] /\ CallOK(c, d) /\ Holds(c, d)
      /\ walk[Root].at # "none" /\ Configured /\ ~failed /\ T!FsOK
  BY <1>1, BusyCall
<1>3. PICK c2 : c2 = [c EXCEPT !.left = @ \ {e}]
  OBVIOUS
<1>4. /\ c.at = "read" /\ e \in c.left /\ NotReturned(e)
      /\ walk' = [walk EXCEPT ![d].left = @ \ {e}]
      /\ UNCHANGED <<vars, stack, queue, walked, emits, names, failed>>
  BY <1>1 DEF Skip
<1>5. walk'[d] = c2 /\ \A x \in Objects \ {d} : walk'[x] = walk[x]
  BY <1>2, <1>3, <1>4 DEF PerObject
<1>6. e \in Objects /\ UNCHANGED patternVars
  BY <1>2, <1>4 DEF CallOK, Below, NotReturned
<1>7. T!FsOK' /\ T!Interfered
  BY <1>2, <1>4, <1>6, TreeSteps
<1>8. e \in excused'
  <2>1. T!NotReturned(e)
    BY <1>4, SameDisturbance
  <2> QED
    BY <1>6, <2>1, T!SelfUnder, SameAssumptions DEF T!NotReturned
<1>9. Holds(c, d)'
  BY <1>2, <1>6, <1>7, HoldsStays
<1>10. Holds(c2, d)'
  <2>1. CallOK(c, d)'
    BY <1>2 DEF CallOK, Below
  <2>2. WithoutOK'
    BY WithoutHolds, PTL
  <2> QED
    BY <1>3, <1>4, <1>8, <1>9, <2>1, <2>2 DEF WithoutOK
<1>11. Promises'
  <2> SUFFICES ASSUME NEW x \in Objects PROVE Holds(walk[x], x)'
    BY DEF Promises
  <2>1. CASE x = d
    BY <1>5, <1>10, <2>1
  <2>2. CASE x # d
    <3>1. PICK y : y = walk[x]
      OBVIOUS
    <3>2. CallOK(y, x) /\ Holds(y, x) /\ walk'[x] = y
      BY <1>5, <2>2, <3>1 DEF QInv, PInv, WInv, Calls, Promises
    <3>3. Holds(y, x)'
      BY <1>6, <1>7, <3>2, HoldsStays
    <3> QED
      BY <3>2, <3>3
  <2> QED
    BY <2>1, <2>2
<1>12. walk'[Root].at # "none"
  <2>1. c2.at = "read"
    BY <1>2, <1>3, <1>4, CallWithout
  <2> QED
    BY <1>2, <1>5, <2>1, FileTreeAssumption
<1>13. Phases'
  BY <1>2, <1>4, <1>6, <1>7, <1>12, PhasesOnward DEF QInv, vars
<1> QED
  BY <1>4, <1>6, <1>7, <1>11, <1>13, AsideStep

----------------------------------------------------------------------------
(* The steps before the walk.                                                    *)
LEMMA NotBegun ==
  ASSUME QInv, walk[Root].at = "none"
  PROVE  /\ walked = <<>> /\ nodes = <<>> /\ open = <<>> /\ emits = <<>> /\ names = <<>>
         /\ ~Finished /\ ~T!Finished
         /\ \A d \in Objects : CallOK(walk[d], d) /\ walk[d].at \in {"none", "done"}
<1>1. walked = <<>> /\ nodes = <<>>
  BY DEF QInv, Phases
<1>2. Depth = 0 /\ names = <<>> /\ emits = <<>> /\ ~Finished
  BY <1>1, OpenShape
<1>3. open = <<>>
  <2>1. T!TypeOK /\ Len(open) = 0
    BY <1>2 DEF QInv, T!IInv, Depth
  <2>2. PICK S : open \in Seq(S)
    BY <2>1 DEF T!TypeOK
  <2> QED
    BY <2>1, <2>2
<1>4. ASSUME NEW d \in Objects PROVE CallOK(walk[d], d) /\ walk[d].at \in {"none", "done"}
  <2>1. ~OnStack(stack, d)
    <3>1. \A w \in Workers : stack[w] = <<>>
      BY DEF QInv, PInv, WInv, Tasks
    <3> QED
      BY <3>1, EmptyOK DEF OnStack
  <2> QED
    BY <2>1 DEF QInv, PInv, WInv, Calls, Stacks, CallOK
<1> QED
  BY <1>1, <1>2, <1>3, <1>4, SameSink

LEMMA NoneHolds ==
  ASSUME NEW c, NEW d, CallOK(c, d), c.at \in {"none", "done"}, c.left = {},
         c.children = <<>>, c.pat = Ex!NoPatterns
  PROVE  Holds(c, d) /\ Holds(c, d)'
<1>1. Len(c.children) = 0 /\ IsSeq(c.children) /\ c.pending = <<>> /\ Len(c.pending) = 0
  BY EmptyOK DEF CallOK
<1>2. 1..Len(c.children) = {} /\ 1..Len(c.pending) = {}
  BY <1>1
<1>3. ChildrenOK(c, d) /\ TasksOK(c) /\ ChildrenOK(c, d)' /\ TasksOK(c)'
  BY <1>1, <1>2 DEF ChildrenOK, TasksOK
<1> QED
  BY <1>3 DEF Holds

LEMMA PrepareKeeps ==
  ASSUME QInv, PInv', Prepare PROVE QInv' /\ CensusStep
<1>1. /\ Configure /\ walk[Root].at = "none" /\ UNCHANGED fsVars
      /\ UNCHANGED <<vars, walkVars, emits, names, failed>>
  BY DEF Prepare, Configure
<1>2. /\ walked = <<>> /\ nodes = <<>> /\ open = <<>> /\ emits = <<>> /\ names = <<>>
      /\ ~Finished /\ ~T!Finished
      /\ \A d \in Objects : CallOK(walk[d], d) /\ walk[d].at \in {"none", "done"}
  BY <1>1, NotBegun
<1>3. /\ UNCHANGED <<nodes, open, emits, names, failed, walk, walked>> /\ UNCHANGED T!vars
      /\ T!IInv /\ T!X!IInv /\ T!FsOK /\ Phases /\ Promises
  BY <1>1 DEF vars, T!vars, walkVars, QInv
<1>4. T!Configure /\ ~failed
  <2>1. T!Configure
    BY <1>1, SameConfigure
  <2>2. ~T!Configured
    BY <2>1, T!NoMoreConfigure, SameAssumptions
  <2> QED
    BY <1>3, <2>1, <2>2, SameSink DEF Phases
<1>5. T!FsOK' /\ T!IInv' /\ T!X!IInv'
  BY <1>1, <1>3, <1>4, TreeSteps, T!IInvStep, T!MatcherInv, SameAssumptions
<1>6. T!WalkOK'
  <2>1. (T!IInv /\ nodes = <<>> /\ names = <<>> /\ Todo = <<>> => T!WalkOK)'
    BY T!NothingYet, SameAssumptions, PTL
  <2>2. Len(emits') = 0
    BY <1>2, <1>3, EmptyOK
  <2>3. Todo' = <<>>
    BY <2>2 DEF Todo
  <2> QED
    BY <1>2, <1>3, <1>5, <2>1, <2>3
<1>7. EmitsOK'
  BY <1>2, <1>3, EmptyOK DEF EmitsOK, Depth
<1>8. Promises'
  <2> SUFFICES ASSUME NEW d \in Objects PROVE Holds(walk[d], d)'
    BY DEF Promises
  <2>1. PICK c : c = walk[d]
    OBVIOUS
  <2>2. CallOK(c, d) /\ Holds(c, d) /\ c.at \in {"none", "done"}
    BY <1>2, <1>3, <2>1 DEF Promises
  <2>3. Holds(c, d)'
    BY <2>2, NoneHolds DEF Holds
  <2> QED
    BY <1>3, <2>1, <2>3
<1>9. Phases'
  BY <1>1, <1>2, <1>3, <1>4 DEF Phases
<1>10. CensusStep
  <2>1. ~T!Finished'
    BY <1>2, <1>3 DEF T!Finished
  <2>2. T!CensusStep
    BY <1>2, <1>3, <1>4, <2>1, T!ConfigureStep, SameAssumptions
  <2> QED
    BY <2>2, SameStep
<1> QED
  BY <1>5, <1>6, <1>7, <1>8, <1>9, <1>10 DEF QInv

LEMMA NoScanKeeps ==
  ASSUME QInv, PInv', NoScan PROVE QInv' /\ CensusStep
<1>1. /\ walk[Root].at = "none" /\ ~failed /\ Configured /\ ~(Scannable /\ granted)
      /\ failed' = TRUE /\ UNCHANGED granted /\ UNCHANGED <<vars, treeVars, walkVars, emits, names>>
  BY DEF NoScan
<1>2. nodes = <<>> /\ walked = <<>> /\ ~T!Finished
  BY <1>1, NotBegun
<1>3. /\ UNCHANGED fsVars /\ UNCHANGED patternVars /\ UNCHANGED <<walk, walked, nodes>>
      /\ UNCHANGED T!treeVars /\ T!FsOK /\ PInv /\ Promises
  BY <1>1 DEF treeVars, fsVars, patternVars, T!treeVars, T!fsVars, T!patternVars,
              walkVars, vars, QInv
<1>4. T!FsOK' /\ T!Interfered
  BY <1>3, TreeSteps
<1>5. T!IInv' /\ T!X!IInv' /\ EmitsOK' /\ T!WalkOK'
  BY <1>1, <1>3, <1>4, AsideKeeps
<1>6. Promises'
  BY <1>3, <1>4, PromisesStay
<1>7. Phases'
  BY <1>1, <1>2, <1>3 DEF Phases, Configured, patternVars
<1>8. CensusStep
  <2>1. CASE ~Scannable
    <3>1. T!CensusStep
      BY <1>1, <1>2, <1>3, <2>1, SameTree, T!RefuseStep, SameAssumptions
    <3> QED
      BY <3>1, SameStep
  <2>2. CASE ~granted
    <3>1. ~Finished
      BY <1>2, SameSink
    <3>2. ScanReport = C!Pending /\ ScanReport' = C!Failed
      BY <1>1, <3>1 DEF ScanReport, C!Pending, C!Failed
    <3>3. C!Refuse
      BY <1>1, <1>3, <2>2, <3>2
         DEF C!Refuse, C!treeVars, C!fsVars, C!patternVars, fsVars, patternVars
    <3> QED
      BY <3>3 DEF CensusStep
  <2> QED
    BY <1>1, <2>1, <2>2
<1> QED
  BY <1>4, <1>5, <1>6, <1>7, <1>8 DEF QInv

LEMMA OthersKeep ==
  ASSUME QInv, PInv', Others \/ UNCHANGED pvars PROVE QInv' /\ CensusStep
<1>1. /\ UNCHANGED <<vars, walkVars, emits, names, failed>> /\ UNCHANGED patternVars
      /\ Interference \/ UNCHANGED fsVars
  BY DEF Others, Interference, pvars, treeVars
<1>2. /\ UNCHANGED <<walk, walked, nodes>> /\ T!FsOK /\ PInv /\ Promises /\ Phases
  BY <1>1 DEF vars, walkVars, QInv
<1>3. T!FsOK' /\ T!Interfered
  BY <1>1, <1>2, TreeSteps
<1>4. Promises' /\ Phases'
  BY <1>1, <1>2, <1>3, PromisesStay, PhasesStay
<1> QED
  BY <1>1, <1>3, <1>4, AsideStep

LEMMA QInvStart == PInit => QInv /\ C!CInit
<1> SUFFICES ASSUME PInit PROVE QInv /\ C!CInit
  OBVIOUS
<1>1. /\ Init /\ FsInit /\ PInv /\ nodes = <<>> /\ open = <<>>
      /\ walk = [o \in Objects |-> NoCall]
      /\ walked = <<>> /\ emits = <<>> /\ names = <<>> /\ failed = FALSE
  BY PInitInv DEF PInit, Init
<1>2. T!IInv /\ T!FsOK /\ C!FsInit
  BY <1>1, SameStart, T!IInvInit, T!FsStart, SameAssumptions
<1>3. T!X!IInv
  BY <1>1, SameStart, T!PatternsTyped, T!X!InitInv, SameAssumptions
<1>4. T!WalkOK
  <2>1. Len(emits) = 0
    BY <1>1, EmptyOK
  <2>2. Todo = <<>>
    BY <2>1 DEF Todo
  <2> QED
    BY <1>1, <1>2, <2>2, T!NothingYet, SameAssumptions
<1>5. EmitsOK
  BY <1>1, EmptyOK DEF EmitsOK, Depth
<1>6. Promises
  BY <1>1, ReturnedHolds DEF Promises
<1>7. Phases
  <2>1. walk[Root].at = "none"
    BY <1>1, ReturnedOK, FileTreeAssumption
  <2> QED
    BY <1>1, <2>1 DEF Phases
<1>8. C!CInit
  <2>1. ScanReport = C!Pending
    BY <1>1 DEF ScanReport, Finished, C!Pending
  <2> QED
    BY <1>2, <2>1 DEF C!CInit
<1> QED
  BY <1>1, <1>2, <1>3, <1>4, <1>5, <1>6, <1>7, <1>8 DEF QInv

LEMMA QInvStep == QInv /\ [PNext]_pvars => QInv' /\ CensusStep
<1> SUFFICES ASSUME QInv, [PNext]_pvars PROVE QInv' /\ CensusStep
  OBVIOUS
<1>1. PInv'
  BY NextInv DEF QInv
<1>2. ASSUME NEW w \in Workers, Work(w) PROVE QInv' /\ CensusStep
  <2>1. CASE Install(w)
    BY <1>1, <2>1, InstallKeeps
  <2>2. CASE OpenDir(w)
    BY <1>1, <2>2, OpenDirKeeps
  <2>3. CASE Fork(w)
    BY <1>1, <2>3, ForkKeeps
  <2>4. CASE Join(w)
    BY <1>1, <2>4, JoinKeeps
  <2>5. CASE \E d \in queue : Take(w, d)
    BY <1>1, <2>5, TakeKeeps
  <2>6. CASE Busy(w) /\ \E e \in Call(w).left : Skip(w, e) \/ Entry(w, e)
    BY <1>1, <2>6, SkipKeeps, EntryKeeps
  <2> QED
    BY <1>2, <2>1, <2>2, <2>3, <2>4, <2>5, <2>6 DEF Work
<1>3. CASE Prepare
  BY <1>1, <1>3, PrepareKeeps
<1>4. CASE NoScan
  BY <1>1, <1>4, NoScanKeeps
<1>5. CASE BuildRoot
  BY <1>5, BuildRootKeeps
<1>6. CASE EmitError
  BY <1>6, EmitErrorKeeps
<1>7. CASE Emit
  BY <1>7, EmitKeeps
<1>8. CASE EmitReturn
  BY <1>8, EmitReturnKeeps
<1>9. CASE Others \/ UNCHANGED pvars
  BY <1>1, <1>9, OthersKeep
<1> QED
  BY <1>2, <1>3, <1>4, <1>5, <1>6, <1>7, <1>8, <1>9 DEF PNext, Main

LEMMA QInvariant == PSpec => []QInv
BY QInvStart, QInvStep, PTL DEF PSpec

(* Nothing is walked but by the threads of the pool.                              *)
Granted == granted \in BOOLEAN /\ (walk[Root].at # "none" => granted)

LEMMA GrantedStart == PInit => Granted
<1> SUFFICES ASSUME PInit PROVE Granted
  OBVIOUS
<1>1. walk[Root].at = "none"
  BY ReturnedOK, FileTreeAssumption DEF PInit, NoCall
<1> QED
  BY <1>1 DEF PInit, Granted

LEMMA GrantedStep ==
  ASSUME QInv, Granted, [PNext]_pvars
  PROVE  Granted' /\ granted' = granted
<1>1. granted' = granted
  BY DEF PNext, Work, Install, OpenDir, Fork, Join, Take, Deliver, Skip, Entry,
         Main, Prepare, NoScan, BuildRoot, EmitError, Emit, EmitReturn, Others, pvars
<1>2. CASE walk[Root].at # "none"
  BY <1>1, <1>2 DEF Granted
<1>3. CASE walk[Root].at = "none"
  <2>1. queue = {} /\ \A w \in Workers : ~Busy(w)
    BY <1>3, Underway
  <2>2. ASSUME NEW w \in Workers, Work(w) PROVE granted
    BY <2>1, <2>2 DEF Work, Install, OpenDir, Fork, Join
  <2>3. CASE ~(\E w \in Workers : Work(w))
    <3>1. UNCHANGED walkVars
      BY <2>3 DEF PNext, Main, Prepare, NoScan, BuildRoot, EmitError, Emit, EmitReturn,
                  Others, pvars, walkVars
    <3> QED
      BY <1>1, <3>1 DEF walkVars, Granted
  <2> QED
    BY <1>1, <2>2, <2>3 DEF Granted
<1> QED
  BY <1>1, <1>2, <1>3

LEMMA GrantedAll == PSpec => []Granted
BY GrantedStart, GrantedStep, QInvariant, PTL DEF PSpec

(* The state of the walk and of the emission: the calls of walk_dir with the      *)
(* patterns carried into their directories, the stacks of the workers, the queue  *)
(* of the pool, and one call of emit for each open directory of the sink           *)
(* (walk_dir, emit in scan_parallel.rs).                                         *)
THEOREM ParallelTypes == PSpec => []PTypeOK
<1>1. QInv /\ Granted => PTypeOK
  <2> SUFFICES ASSUME QInv, Granted PROVE PTypeOK
    OBVIOUS
  <2>1. /\ PInv /\ Promises /\ Phases /\ EmitsOK
        /\ names \in Seq(Objects) /\ Len(names) = Len(nodes)
    BY OpenShape DEF QInv
  <2>2. ASSUME NEW d \in Objects
        PROVE  /\ walk[d].pat \in Ex!PatternSets
               /\ walk[d].at \in {"none", "open", "read", "join", "done"}
               /\ walk[d].left \subseteq Objects \ {Root}
               /\ Len(walk[d].pending) = Len(walk[d].subs)
    <3>1. CallOK(walk[d], d) /\ Holds(walk[d], d)
      BY <2>1 DEF PInv, WInv, Calls, Promises
    <3>2. Carried(d) \in Ex!PatternSets
      BY SameCarried, T!CarriedType, SameAssumptions
    <3>3. Ex!NoPatterns \in Ex!PatternSets
      BY DEF Ex!NoPatterns, Ex!PatternSets
    <3>4. walk[d].pat = Carried(d) \/ walk[d].pat = Ex!NoPatterns
      BY <3>1 DEF CallOK, Holds
    <3> QED
      BY <3>1, <3>2, <3>3, <3>4 DEF CallOK, Below
  <2>3. stack \in [Workers -> Seq(Objects)] /\ queue \subseteq Objects \ {Root}
    BY <2>1 DEF PInv, WInv, Stacks, AreStacks, Tasks
  <2>4. Len(walked) <= 1 /\ failed \in BOOLEAN
    <3>1. Len(walked) \in {0, 1}
      BY <2>1, EmptyOK DEF Phases
    <3>2. \A n \in {0, 1} : n <= 1
      OBVIOUS
    <3>3. Len(walked) <= 1
      BY <3>1, <3>2
    <3>4. failed \in BOOLEAN
      BY <2>1 DEF Phases
    <3> QED
      BY <3>3, <3>4
  <2> QED
    BY <2>1, <2>2, <2>3, <2>4 DEF PTypeOK, EmitsOK, Granted
<1> QED
  BY QInvariant, GrantedAll, <1>1, PTL

(* The parallel walk is a census too, for any number of workers and however they    *)
(* take turns: no placeholder survives, every subtree lands in its own directory,  *)
(* nothing is there twice and nothing that could be read and was left alone is      *)
(* missing (walk_dir, build_tree, emit in scan_parallel.rs).                       *)
THEOREM ParallelIsCensus == PSpec => IsCensus
<1>1. PInit => C!CInit
  BY QInvStart
<1>2. QInv /\ Finished => walk[Root].at # "none"
  BY NotBegun
<1>3. (QInv /\ Finished => walk[Root].at # "none")'
  BY <1>2, PTL
<1>4. QInv /\ Granted /\ [PNext]_pvars =>
        [C!Interfere \/ C!Prepare \/ C!Answer \/ C!Refuse]_(C!cvars)
  <2> SUFFICES ASSUME QInv, Granted, [PNext]_pvars
               PROVE  [C!Interfere \/ C!Prepare \/ C!Answer \/ C!Refuse]_(C!cvars)
    OBVIOUS
  <2>1. QInv' /\ CensusStep /\ Granted' /\ granted' = granted
    BY QInvStep, GrantedStep
  <2>2. Finished' => granted
    BY <1>3, <2>1 DEF Granted
  <2> QED
    BY <2>1, <2>2, PromisedStep
<1> QED
  BY <1>1, <1>4, QInvariant, GrantedAll, PTL DEF PSpec, IsCensus, C!CSpec

----------------------------------------------------------------------------
(* The report is that of the sequential walk.                                   *)
LEMMA SinkStep == [PNext]_pvars => [T!Next]_(T!vars)
<1>1. CASE \E w \in Workers : Work(w)
  BY <1>1 DEF Work, Install, OpenDir, Fork, Join, Take, Deliver, Skip, Entry, NotReturned,
              vars, T!vars
<1>2. CASE Main
  <2>1. CASE Prepare \/ NoScan
    BY <2>1 DEF Prepare, NoScan, vars, T!vars
  <2>2. CASE BuildRoot
    BY <2>2, SameActions DEF BuildRoot, T!Next
  <2>3. CASE EmitError
    BY <2>3, SameActions DEF EmitError, T!Next
  <2>4. CASE Emit
    BY <2>4, SameActions, SameSink DEF Emit, T!Next
  <2>5. CASE EmitReturn
    BY <2>5, SameActions DEF EmitReturn, T!Next
  <2> QED
    BY <1>2, <2>1, <2>2, <2>3, <2>4, <2>5 DEF Main
<1>3. CASE Others \/ UNCHANGED pvars
  BY <1>3 DEF Others, pvars, vars, T!vars
<1> QED
  BY <1>1, <1>2, <1>3 DEF PNext

LEMMA OwnSinkStep == [PNext]_pvars => [Next]_vars
<1>1. CASE \E w \in Workers : Work(w)
  BY <1>1 DEF Work, Install, OpenDir, Fork, Join, Take, Deliver, Skip, Entry, NotReturned, vars
<1>2. CASE Main
  BY <1>2 DEF Main, Prepare, NoScan, BuildRoot, EmitError, Emit, EmitReturn, vars, Next
<1>3. CASE Others \/ UNCHANGED pvars
  BY <1>3 DEF Others, pvars, vars
<1> QED
  BY <1>1, <1>2, <1>3 DEF PNext

(* So do build_tree and emit: however the workers interleave, the arena is filled by   *)
(* one thread in the order the sink asks for, and all that MemSinkProofs shows of it    *)
(* holds of the tree they build.                                                  *)
THEOREM ParallelUsesSink == PSpec => Spec
<1>1. PInit => Init
  BY DEF PInit
<1> QED
  BY <1>1, OwnSinkStep, PTL DEF PSpec, Spec

LEMMA AloneStart == PInit => T!Alone /\ T!Leafless /\ T!Refused
<1> SUFFICES ASSUME PInit PROVE T!Alone /\ T!Leafless /\ T!Refused
  OBVIOUS
<1>1. T!ScanReport # T!C!Failed
  BY DEF PInit, T!ScanReport, T!C!Failed
<1>2. T!Init /\ T!FsInit
  BY SameStart DEF PInit
<1>3. T!Alone /\ T!Leafless
  BY <1>2, SameAssumptions, T!AloneStart, T!LeaflessInit
<1> QED
  BY <1>1, <1>3 DEF T!Refused

(* A failure has its reason: the root, unless it is the pool.                      *)
LEMMA AloneStep ==
  ASSUME CensusStep, T!Alone, granted => T!Refused, granted' = granted
  PROVE  T!Alone' /\ (granted => T!Refused)'
<1>1. CASE T!CensusStep
  <2>1. T!Disturbed \/ T!Reported
    BY <1>1, T!CensusSteps, SameAssumptions
  <2>2. T!Alone'
    BY <2>1, T!AloneStep, SameAssumptions DEF T!Disturbed, T!Reported
  <2>3. T!Refused => T!Refused'
    BY <2>1, T!RefusedStep, SameAssumptions
  <2> QED
    BY <2>2, <2>3
<1>2. CASE C!Refuse
  <2>1. UNCHANGED <<nature, excused, past>>
    BY <1>2 DEF C!Refuse, C!treeVars, C!fsVars
  <2>2. T!Alone'
    BY <2>1, T!AloneStep, SameAssumptions
  <2>3. granted => Root \in excused \/ T!Unscannable
    BY <1>2 DEF C!Refuse, T!Unscannable
  <2>4. granted => T!Refused'
    BY <2>1, <2>3 DEF T!Refused, T!Unscannable
  <2> QED
    BY <2>2, <2>4
<1> QED
  BY <1>1, <1>2 DEF CensusStep

(* What is reported of a tree that is left alone: see ScanProofs.                  *)
TrueRows == T!TrueRows

ReportIsTrue ==
  excused = {} =>
    /\ ScanReport.state = "done" => ScanReport.rows = TrueRows
    /\ ScanReport.state = "failed" => T!Unscannable \/ ~granted

(* The parallel walk of a tree that nobody disturbs reports what the sequential      *)
(* one does: the same function of the tree and of the patterns, whatever the number   *)
(* of workers, whoever takes which directory and in whatever order they end.  It       *)
(* makes no difference to the user how many threads are given on the command line,      *)
(* as long as the OS starts them (scan_parallel, build_tree, emit; scan).            *)
THEOREM WalkersAgree == PSpec => []ReportIsTrue
<1>1. /\ QInv /\ Granted /\ T!Leafless /\ T!Alone /\ (granted => T!Refused) /\ [PNext]_pvars
      => T!Leafless' /\ T!Alone' /\ (granted => T!Refused)'
  <2> SUFFICES ASSUME QInv, Granted, T!Leafless, T!Alone, granted => T!Refused, [PNext]_pvars
               PROVE  T!Leafless' /\ T!Alone' /\ (granted => T!Refused)'
    OBVIOUS
  <2>1. T!Leafless'
    BY SinkStep, SameAssumptions, T!LeaflessStep DEF QInv
  <2>2. T!Alone' /\ (granted => T!Refused)'
    BY QInvStep, GrantedStep, AloneStep
  <2> QED
    BY <2>1, <2>2
<1>2. QInv /\ T!Leafless /\ T!Alone /\ (granted => T!Refused) => ReportIsTrue
  <2> SUFFICES ASSUME QInv, T!Leafless, T!Alone, granted => T!Refused, excused = {}
               PROVE  /\ ScanReport.state = "done" => ScanReport.rows = TrueRows
                      /\ ScanReport.state = "failed" => T!Unscannable \/ ~granted
    BY DEF ReportIsTrue
  <2>1. CASE failed
    <3>1. T!ScanReport = T!C!Failed /\ T!C!Failed.state = "failed"
      BY <2>1 DEF T!ScanReport, T!C!Failed
    <3> QED
      BY <3>1, SameReport DEF T!Refused
  <2>2. CASE ~failed /\ Finished
    <3>1. T!Finished
      BY <2>2, SameSink
    <3>2. T!Rows = T!TrueRows
      BY <3>1, SameAssumptions, T!RowsAreTrue DEF QInv
    <3>3. ScanReport = [state |-> "done", rows |-> Rows]
      BY <2>2 DEF ScanReport
    <3> QED
      BY <3>2, <3>3, SameReport DEF TrueRows
  <2>3. CASE ~failed /\ ~Finished
    <3>1. ScanReport = [state |-> "pending", rows |-> {}]
      BY <2>3 DEF ScanReport
    <3> QED
      BY <3>1
  <2> QED
    BY <2>1, <2>2, <2>3
<1> QED
  BY AloneStart, <1>1, <1>2, QInvariant, GrantedAll, PTL DEF PSpec

----------------------------------------------------------------------------
(* When the calls began: t numbers those under way in the order in which they  *)
(* did.  A worker starts a call above those it has, and a subdirectory after    *)
(* its directory, whose call is still under way.                              *)
Begun(st, t, n) ==
  /\ n \in Nat /\ t \in [Objects -> Nat]
  /\ \A d \in Objects : OnStack(st, d) => t[d] < n
  /\ \A w \in Workers : \A i, j \in 1..Len(st[w]) : i < j => t[st[w][i]] < t[st[w][j]]
  /\ \A d \in Objects \ {Root} : OnStack(st, d) => t[Up[d]] < t[d]

InOrder(st) == \E t, n : Begun(st, t, n)

LEMMA BegunPush ==
  ASSUME NEW st, AreStacks(st), InOrder(st), NEW w \in Workers, NEW d \in Objects,
         ~OnStack(st, d), d # Root => OnStack(st, Up[d]),
         \A e \in Objects \ {Root} : Up[e] = d => ~OnStack(st, e)
  PROVE  InOrder(Push(st, w, d))
<1>1. PICK t, n : Begun(st, t, n)
  BY DEF InOrder
<1>2. /\ n \in Nat /\ t \in [Objects -> Nat]
      /\ \A e \in Objects : OnStack(st, e) => t[e] < n
  BY <1>1 DEF Begun
<1>3. PICK t2 : t2 = [t EXCEPT ![d] = n]
  OBVIOUS
<1>4. /\ t2 \in [Objects -> Nat] /\ t2[d] = n
      /\ \A e \in Objects : e # d => t2[e] = t[e]
  BY <1>2, <1>3
<1>5. PICK st2 : st2 = Push(st, w, d)
  OBVIOUS
<1>6. \A e \in Objects : OnStack(st2, e) <=> OnStack(st, e) \/ e = d
  BY <1>5, Pushed
<1>7. \A e \in Objects : OnStack(st2, e) => t2[e] < n + 1
  BY <1>2, <1>4, <1>6
<1>8. /\ st \in [Workers -> Seq(Objects)]
      /\ st2 = [st EXCEPT ![w] = Append(@, d)]
  BY <1>5 DEF AreStacks, Push
<1>9. ASSUME NEW v \in Workers, NEW i \in 1..Len(st2[v]), NEW j \in 1..Len(st2[v]), i < j
      PROVE  t2[st2[v][i]] < t2[st2[v][j]]
  <2>1. ASSUME NEW k \in 1..Len(st[v])
        PROVE  /\ st[v][k] \in Objects /\ OnStack(st, st[v][k])
               /\ t2[st[v][k]] = t[st[v][k]] /\ t[st[v][k]] < n /\ t[st[v][k]] \in Nat
    <3>1. st[v][k] \in Objects
      BY <1>8
    <3>2. OnStack(st, st[v][k])
      BY DEF OnStack
    <3>3. st[v][k] # d
      BY <3>2
    <3> QED
      BY <1>2, <1>4, <3>1, <3>2, <3>3
  <2>2. \A k, l \in 1..Len(st[v]) : k < l => t[st[v][k]] < t[st[v][l]]
    BY <1>1 DEF Begun
  <2>3. CASE v # w
    <3>1. st2[v] = st[v]
      BY <1>8, <2>3
    <3> QED
      BY <1>9, <2>1, <2>2, <3>1
  <2>4. CASE v = w
    <3>1. /\ Len(st2[v]) = Len(st[v]) + 1 /\ Len(st[v]) \in Nat
          /\ st2[v][Len(st[v]) + 1] = d
          /\ \A k \in 1..Len(st[v]) : st2[v][k] = st[v][k]
      BY <1>8, <2>4
    <3>2. i \in 1..Len(st[v]) /\ st2[v][i] = st[v][i]
      BY <1>9, <3>1
    <3>3. CASE j \in 1..Len(st[v])
      BY <1>9, <2>1, <2>2, <3>1, <3>2, <3>3
    <3>4. CASE j = Len(st[v]) + 1
      BY <1>4, <2>1, <3>1, <3>2, <3>4
    <3> QED
      BY <3>1, <3>3, <3>4
  <2> QED
    BY <2>3, <2>4
<1>10. ASSUME NEW e \in Objects \ {Root}, OnStack(st2, e) PROVE t2[Up[e]] < t2[e]
  <2>1. Up[e] \in Objects /\ Up[e] # e
    BY FileTreeAssumption
  <2>2. CASE e = d
    <3>1. OnStack(st, Up[e]) /\ Up[e] # d
      BY <2>1, <2>2
    <3> QED
      BY <1>2, <1>4, <2>1, <2>2, <3>1
  <2>3. CASE e # d
    <3>1. OnStack(st, e) /\ Up[e] # d
      BY <1>6, <1>10, <2>3
    <3>2. t[Up[e]] < t[e]
      BY <1>1, <3>1 DEF Begun
    <3> QED
      BY <1>4, <2>1, <2>3, <3>1, <3>2
  <2> QED
    BY <2>2, <2>3
<1>11. Begun(st2, t2, n + 1)
  BY <1>2, <1>4, <1>7, <1>9, <1>10 DEF Begun
<1> QED
  BY <1>5, <1>11 DEF InOrder

LEMMA BegunPop ==
  ASSUME NEW st, AreStacks(st), InOrder(st), NEW w \in Workers, st[w] # <<>>
  PROVE  InOrder(Pop(st, w))
<1>1. PICK t, n : Begun(st, t, n)
  BY DEF InOrder
<1>2. PICK st2 : st2 = Pop(st, w)
  OBVIOUS
<1>3. \A e \in Objects : OnStack(st2, e) => OnStack(st, e)
  BY <1>2, Popped
<1>4. /\ st \in [Workers -> Seq(Objects)]
      /\ st2 = [st EXCEPT ![w] = Front(@)]
  BY <1>2 DEF AreStacks, Pop
<1>5. ASSUME NEW v \in Workers
      PROVE  /\ Len(st2[v]) \in Nat /\ Len(st[v]) \in Nat /\ Len(st2[v]) <= Len(st[v])
             /\ \A i \in 1..Len(st2[v]) : st2[v][i] = st[v][i]
  <2>1. CASE v # w
    BY <1>4, <2>1
  <2>2. CASE v = w
    <3>1. st[w] \in Seq(Objects)
      BY <1>4
    <3>2. st2[w] = Front(st[w])
      BY <1>4
    <3> QED
      BY <2>2, <3>1, <3>2, FrontType
  <2> QED
    BY <2>1, <2>2
<1>6. ASSUME NEW v \in Workers, NEW i \in 1..Len(st2[v]), NEW j \in 1..Len(st2[v]), i < j
      PROVE  t[st2[v][i]] < t[st2[v][j]]
  <2>1. i \in 1..Len(st[v]) /\ j \in 1..Len(st[v])
    BY <1>5
  <2>2. st2[v][i] = st[v][i] /\ st2[v][j] = st[v][j]
    BY <1>5
  <2> QED
    BY <1>1, <1>6, <2>1, <2>2 DEF Begun
<1>7. Begun(st2, t, n)
  BY <1>1, <1>3, <1>6 DEF Begun
<1> QED
  BY <1>2, <1>7 DEF InOrder

LEMMA TakeOrder ==
  ASSUME PInv, InOrder(stack), NEW w \in Workers, NEW d, Take(w, d)
  PROVE  InOrder(stack')
<1>1. /\ AreStacks(stack) /\ d \in queue /\ d \in Objects \ {Root}
      /\ stack' = Push(stack, w, d)
  BY DEF PInv, WInv, Stacks, Tasks, Take, Push
<1>2. ~OnStack(stack, d) /\ AwaitedIn(walk, d)
  BY <1>1 DEF PInv, WInv, Tasks
<1>3. Up[d] \in Objects /\ walk[Up[d]].at = "join"
  BY <1>1, <1>2, FileTreeAssumption DEF AwaitedIn
<1>4. OnStack(stack, Up[d]) /\ walk[d].at # "join"
  BY <1>1, <1>2, <1>3 DEF PInv, WInv, Stacks
<1>5. \A e \in Objects \ {Root} : Up[e] = d => ~OnStack(stack, e)
  <2>1. \A e \in Objects \ {Root} : Up[e] = d => ~AwaitedIn(walk, e)
    BY <1>4, NoneAwaited
  <2> QED
    BY <2>1 DEF PInv, WInv, Tasks
<1> QED
  BY <1>1, <1>2, <1>4, <1>5, BegunPush

LEMMA InstallOrder ==
  ASSUME PInv, InOrder(stack), NEW w \in Workers, Install(w)
  PROVE  InOrder(stack')
<1>1. /\ AreStacks(stack) /\ \A v \in Workers : stack[v] = <<>>
      /\ Root \in Objects
  BY FileTreeAssumption DEF PInv, WInv, Stacks, Tasks, Install
<1>2. \A e \in Objects : ~OnStack(stack, e)
  BY <1>1, EmptyOK DEF OnStack
<1>3. stack' = Push(stack, w, Root)
  <2>1. Append(<<>>, Root) = <<Root>>
    OBVIOUS
  <2>2. stack' = [stack EXCEPT ![w] = <<Root>>] /\ stack \in [Workers -> Seq(Objects)]
    BY <1>1 DEF Install, AreStacks
  <2> QED
    BY <1>1, <2>1, <2>2 DEF Push
<1> QED
  BY <1>1, <1>2, <1>3, BegunPush

LEMMA DeliverOrder ==
  ASSUME PInv, InOrder(stack), NEW w \in Workers, Busy(w), NEW d, NEW r, Deliver(w, d, r)
  PROVE  InOrder(stack')
<1>1. AreStacks(stack) /\ stack[w] # <<>>
  BY DEF PInv, WInv, Stacks, Busy
<1>2. stack' = Pop(stack, w)
  BY DEF Deliver, Pop
<1> QED
  BY <1>1, <1>2, BegunPop

LEMMA OrderKept ==
  ASSUME PInv, InOrder(stack), [PNext]_pvars PROVE InOrder(stack')
<1>1. ASSUME NEW w \in Workers, Work(w) PROVE InOrder(stack')
  <2>1. CASE Install(w)
    BY <2>1, InstallOrder
  <2>2. CASE OpenDir(w)
    BY <2>2, DeliverOrder DEF OpenDir
  <2>3. CASE Fork(w)
    BY <2>3 DEF Fork
  <2>4. CASE Join(w)
    BY <2>4, DeliverOrder DEF Join
  <2>5. CASE \E d \in queue : Take(w, d)
    BY <2>5, TakeOrder
  <2>6. CASE Busy(w) /\ \E e \in Call(w).left : Skip(w, e) \/ Entry(w, e)
    BY <2>6 DEF Skip, Entry
  <2> QED
    BY <1>1, <2>1, <2>2, <2>3, <2>4, <2>5, <2>6 DEF Work
<1>2. CASE Main
  BY <1>2 DEF Main, Prepare, NoScan, BuildRoot, EmitError, Emit, EmitReturn, walkVars
<1>3. CASE Others
  BY <1>3 DEF Others, walkVars
<1>4. CASE UNCHANGED pvars
  BY <1>4 DEF pvars, walkVars
<1> QED
  BY <1>1, <1>2, <1>3, <1>4 DEF PNext

LEMMA OrderStarts == PInit => InOrder(stack)
<1> SUFFICES ASSUME PInit PROVE InOrder(stack)
  OBVIOUS
<1>1. stack = [w \in Workers |-> <<>>]
  BY DEF PInit
<1>2. \A d : ~OnStack(stack, d)
  BY <1>1, EmptyOK DEF OnStack
<1>3. PICK t : t = [d \in Objects |-> 0]
  OBVIOUS
<1>4. Begun(stack, t, 0)
  BY <1>1, <1>2, <1>3, EmptyOK DEF Begun
<1> QED
  BY <1>4 DEF InOrder

(* Something for worker w to do: the innermost call of a busy one can go on, or *)
(* it may begin a closure that is queued.                                      *)
CanWork(w) ==
  \/ Busy(w) /\ Call(w).at \in {"open", "read"}
  \/ Busy(w) /\ Call(w).at = "join" /\ Complete(Call(w))
  \/ queue # {} /\ MayTake(w)

NeverStuck ==
  walk[Root].at \notin {"none", "done"} => \E w \in Workers : CanWork(w)

LEMMA LastBegun ==
  ASSUME NEW st, AreStacks(st), NEW t, NEW n, Begun(st, t, n),
         NEW r \in Objects, OnStack(st, r)
  PROVE  \E d \in Objects : /\ OnStack(st, d)
                            /\ \A e \in Objects : OnStack(st, e) => t[e] <= t[d]
<1> DEFINE S == {t[d] + 1 : d \in {x \in Objects : OnStack(st, x)}}
<1>1. n \in Nat /\ t \in [Objects -> Nat] /\ \A d \in Objects : OnStack(st, d) => t[d] < n
  BY DEF Begun
<1>2. S \in SUBSET (1..n) /\ S # {}
  <2>1. ASSUME NEW d \in Objects, OnStack(st, d) PROVE t[d] + 1 \in 1..n
    <3>1. t[d] \in Nat /\ t[d] < n
      BY <1>1, <2>1
    <3> QED
      BY <1>1, <3>1
  <2> QED
    BY <2>1
<1>3. PICK m \in S : \A k \in S : k <= m
  <2> HIDE DEF S
  <2> QED
    BY <1>1, <1>2, GreatestExists
<1>4. PICK d \in Objects : OnStack(st, d) /\ m = t[d] + 1
  BY <1>3
<1>5. ASSUME NEW e \in Objects, OnStack(st, e) PROVE t[e] <= t[d]
  <2>1. t[e] + 1 \in S
    BY <1>5
  <2>2. t[e] + 1 <= t[d] + 1
    BY <1>3, <1>4, <2>1
  <2>3. t[e] \in Nat /\ t[d] \in Nat
    BY <1>1
  <2> QED
    BY <2>2, <2>3
<1> QED
  BY <1>4, <1>5

(* The worker whose call began last can go on.                                *)
LEMMA LastCanWork ==
  ASSUME PInv, InOrder(stack), walk[Root].at \notin {"none", "done"}
  PROVE  \E w \in Workers : CanWork(w)
<1>1. /\ AreStacks(stack) /\ Root \in Objects
      /\ \A d \in Objects : CallOK(walk[d], d)
      /\ \A d \in Objects : walk[d].at \in {"open", "read", "join"} <=> OnStack(stack, d)
      /\ \A d \in Objects \ {Root} : AwaitedIn(walk, d) <=> d \in queue \/ OnStack(stack, d)
  BY FileTreeAssumption DEF PInv, WInv, Calls, Stacks, Tasks
<1>2. OnStack(stack, Root)
  BY <1>1 DEF CallOK
<1>3. PICK t, n : Begun(stack, t, n)
  BY DEF InOrder
<1>4. PICK d \in Objects : /\ OnStack(stack, d)
                           /\ \A e \in Objects : OnStack(stack, e) => t[e] <= t[d]
  BY <1>1, <1>2, <1>3, LastBegun
<1>5a. PICK w \in Workers : \E i \in 1..Len(stack[w]) : stack[w][i] = d
  BY <1>4 DEF OnStack
<1>5. PICK i \in 1..Len(stack[w]) : stack[w][i] = d
  BY <1>5a
<1>6. /\ stack[w] \in Seq(Objects) /\ Len(stack[w]) \in Nat
      /\ i \in Nat /\ 1 <= i /\ i <= Len(stack[w])
  BY <1>1, <1>5 DEF AreStacks
<1>7. t \in [Objects -> Nat]
  BY <1>3 DEF Begun
<1>8. i = Len(stack[w])
  <2> SUFFICES ASSUME i < Len(stack[w]) PROVE FALSE
    BY <1>6
  <2>1. Len(stack[w]) \in 1..Len(stack[w])
    BY <1>6
  <2>2. PICK e : e = stack[w][Len(stack[w])]
    OBVIOUS
  <2>3. e \in Objects /\ OnStack(stack, e)
    BY <1>6, <2>1, <2>2 DEF OnStack
  <2>4. t[stack[w][i]] < t[stack[w][Len(stack[w])]]
    BY <1>3, <1>5, <2>1 DEF Begun
  <2>5. t[d] < t[e] /\ t[d] \in Nat /\ t[e] \in Nat
    BY <1>5, <1>7, <2>2, <2>3, <2>4
  <2>6. t[e] <= t[d]
    BY <1>4, <2>3
  <2> QED
    BY <2>5, <2>6
<1>9. Busy(w) /\ Call(w) = walk[d]
  BY <1>5, <1>6, <1>8 DEF Busy, Call, Last
<1>10. walk[d].at \in {"open", "read", "join"}
  BY <1>1, <1>4
<1>11. CASE walk[d].at \in {"open", "read"}
  BY <1>9, <1>11 DEF CanWork
<1>12. CASE walk[d].at = "join" /\ Complete(walk[d])
  BY <1>9, <1>12 DEF CanWork
<1>13. CASE walk[d].at = "join" /\ ~Complete(walk[d])
  <2>1. PICK k \in 1..Len(walk[d].pending) : walk[d].subs[k] = <<>>
    BY <1>13 DEF Complete
  <2>2. PICK e : e = walk[d].pending[k].obj
    OBVIOUS
  <2>3. e \in Objects \ {Root} /\ Up[e] = d
    BY <1>1, <2>1, <2>2 DEF CallOK, Below
  <2>4. AwaitedIn(walk, e)
    BY <1>13, <2>1, <2>2, <2>3 DEF AwaitedIn
  <2>5. ~OnStack(stack, e)
    <3> SUFFICES ASSUME OnStack(stack, e) PROVE FALSE
      OBVIOUS
    <3>1. t[d] < t[e]
      BY <1>3, <2>3 DEF Begun
    <3>2. t[e] <= t[d] /\ t[d] \in Nat /\ t[e] \in Nat
      BY <1>4, <1>7, <2>3
    <3> QED
      BY <3>1, <3>2
  <2>6. queue # {}
    BY <1>1, <2>3, <2>4, <2>5
  <2>7. MayTake(w)
    BY <1>9, <1>13 DEF MayTake
  <2> QED
    BY <2>6, <2>7 DEF CanWork
<1> QED
  BY <1>10, <1>11, <1>12, <1>13

(* The pool is never at a standstill, however few the workers are and however   *)
(* deep their par_iters nest: while walk_dir has not returned for the root, one *)
(* of them can go on.  A worker that waits in a par_iter takes other closures    *)
(* of the pool and so may be kept from a result that is in; the one whose call    *)
(* began last is kept from nothing (rayon's join as walk_dir uses it).          *)
THEOREM PoolGoesOn == PSpec => []NeverStuck
<1>1. PInit => PInv /\ InOrder(stack)
  BY PInitInv, OrderStarts
<1>2. PInv /\ InOrder(stack) /\ [PNext]_pvars => PInv' /\ InOrder(stack)'
  BY NextInv, OrderKept
<1>3. PInv /\ InOrder(stack) => NeverStuck
  BY LastCanWork DEF NeverStuck
<1> QED
  BY <1>1, <1>2, <1>3, PTL DEF PSpec

----------------------------------------------------------------------------
(* How much is left to do.  A call of walk_dir is begun, opens its directory,   *)
(* looks at each entry once, forks and joins, and no directory is walked again;  *)
(* a call of emit may mark its directory, hands each child to the sink once and  *)
(* returns.                                                                   *)
Objs == Cardinality(Objects)

CallTurns(c) ==
  IF c.at = "none" THEN Objs + 4
  ELSE IF c.at = "open" THEN Objs + 3
  ELSE IF c.at = "read" THEN 2 + Cardinality(c.left)
  ELSE IF c.at = "join" THEN 1 ELSE 0

WalkTurns(wk) == SumFunctionOnSet([d \in Objects |-> CallTurns(wk[d])], Objects)

EmitTurns(es, ns) ==
  4 * (Objs - Len(ns)) + 2 * Len(es)
    + (IF es # <<>> /\ es[Len(es)].err THEN 1 ELSE 0)

TurnsLeft == WalkTurns(walk) + EmitTurns(emits, names)

(* A directory is begun once: none that is queued, or whose directory has not    *)
(* forked, has been.                                                          *)
Early == {"none", "open", "read"}

Fresh ==
  /\ \A d \in queue : walk[d].at = "none"
  /\ \A d \in Objects \ {Root} : walk[Up[d]].at \in Early => walk[d].at = "none"

(* What a turn of a worker does to the call for d, and to no other.              *)
Starts(d) ==
  /\ walk[d].at = "none" /\ walk'[d].at = "open"
  /\ d # Root => walk[Up[d]].at = "join"
  /\ queue' = queue \ {d}
Lists(d) ==
  /\ walk[d].at = "open" /\ walk'[d].at = "read" /\ walk'[d].left \subseteq Objects
  /\ queue' = queue
Looks(d) ==
  /\ walk[d].at = "read" /\ walk'[d].at = "read" /\ queue' = queue
  /\ \E e \in walk[d].left : walk'[d].left = walk[d].left \ {e}
ForksAt(d) ==
  /\ walk[d].at = "read" /\ walk'[d].at = "join"
  /\ \A e \in queue' : e \in queue \/ (e \in Objects \ {Root} /\ Up[e] = d)
Ends(d) ==
  /\ walk[d].at \in {"open", "join"} /\ walk'[d].at = "done" /\ queue' = queue

Turn(d) ==
  /\ \A x \in Objects : x # d => walk'[x].at = walk[x].at /\ walk'[x].left = walk[x].left
  /\ Starts(d) \/ Lists(d) \/ Looks(d) \/ ForksAt(d) \/ Ends(d)

LEMMA DeliverTurns ==
  ASSUME PInv, NEW w \in Workers, Busy(w), Call(w).at \in {"open", "join"},
         NEW r, Deliver(w, Last(stack[w]), r)
  PROVE  \E d \in Objects : Turn(d)
<1> DEFINE d == Last(stack[w])
<1>1. /\ d \in Objects /\ PerObject(walk) /\ walk[d].at \in {"open", "join"}
      /\ d # Root => d \in Objects \ {Root} /\ Up[d] \in Objects /\ AwaitedIn(walk, d)
  BY InnermostCall DEF Call
<1>2. Calls(walk) /\ queue' = queue
  BY DEF PInv, WInv, Deliver
<1> HIDE DEF d
<1>3. CASE d = Root
  <2>1. walk' = [walk EXCEPT ![Root] = Returned]
    BY <1>3 DEF Deliver, d
  <2>2. walk'[d] = Returned /\ \A x \in Objects : x # d => walk'[x] = walk[x]
    BY <1>1, <1>3, <2>1 DEF PerObject
  <2>3. Ends(d)
    BY <1>1, <1>2, <2>2, ReturnedOK DEF Ends, Returned, NoCall
  <2> QED
    BY <1>1, <2>2, <2>3 DEF Turn
<1>4. CASE d # Root
  <2> DEFINE u == Up[d]
  <2>1. PICK p : p = PlaceIn(walk, d)
    OBVIOUS
  <2>2. walk' = [walk EXCEPT ![d] = Returned, ![u].subs[p] = <<r>>]
    BY <1>4, <2>1 DEF Deliver, d, Place, PlaceIn
  <2>3. u # d /\ u \in Objects /\ p \in 1..Len(walk[u].pending)
    <3>1. u # d /\ u \in Objects
      BY <1>1, <1>4, FileTreeAssumption
    <3> QED
      BY <1>1, <1>4, <2>1, <3>1 DEF AwaitedIn, PlaceIn
  <2> HIDE DEF u
  <2>4. /\ walk'[d] = Returned /\ walk'[u] = Answer(walk[u], p, r)
        /\ \A x \in Objects : x # d /\ x # u => walk'[x] = walk[x]
    BY <1>1, <1>4, <2>2, <2>3 DEF PerObject, Answer
  <2>5. walk'[u].at = walk[u].at /\ walk'[u].left = walk[u].left
    <3>1. IsCall(walk[u])
      BY <1>2, <2>3 DEF Calls, CallOK
    <3> QED
      BY <2>4, <3>1 DEF IsCall, Answer
  <2>6. Ends(d)
    BY <1>1, <1>2, <2>4 DEF Ends, Returned, NoCall
  <2>7. Turn(d)
    BY <2>4, <2>5, <2>6 DEF Turn
  <2> QED
    BY <1>1, <2>7
<1> QED
  BY <1>3, <1>4

LEMMA WorkTurns ==
  ASSUME PInv, Fresh, NEW w \in Workers, Work(w)
  PROVE  \E d \in Objects : Turn(d)
<1> DEFINE d == Last(stack[w])
<1>0. Calls(walk) /\ PerObject(walk) /\ queue \subseteq Objects \ {Root}
  BY DEF PInv, WInv, Calls, Tasks
<1>1. Busy(w) => /\ d \in Objects /\ Call(w) = walk[d] /\ IsCall(walk[d])
                 /\ walk[d].left \subseteq Objects
  BY InnermostCall DEF Call, CallOK, Below
<1>2. CASE Install(w)
  <2>1. /\ Root \in Objects /\ walk[Root].at = "none" /\ queue' = queue
        /\ walk' = [walk EXCEPT ![Root].at = "open", ![Root].pat = cur]
    BY <1>2, FileTreeAssumption DEF Install, Called
  <2>2. IsCall(walk[Root])
    BY <1>0, <2>1 DEF Calls, CallOK
  <2>3. walk'[Root].at = "open" /\ \A x \in Objects : x # Root => walk'[x] = walk[x]
    BY <1>0, <2>1, <2>2 DEF PerObject, IsCall
  <2>4. Turn(Root)
    BY <1>0, <2>1, <2>3 DEF Turn, Starts
  <2> QED
    BY <2>1, <2>4
<1>3. ASSUME NEW e \in queue, Take(w, e) PROVE \E x \in Objects : Turn(x)
  <2>1. e \in Objects \ {Root} /\ AwaitedIn(walk, e) /\ walk[e].at = "none"
    BY <1>3 DEF PInv, WInv, Tasks, Fresh
  <2>2. PICK pat : walk' = [walk EXCEPT ![e].at = "open", ![e].pat = pat]
    BY <1>3 DEF Take, Called
  <2>3. IsCall(walk[e])
    BY <1>0, <2>1 DEF Calls, CallOK
  <2>4. walk'[e].at = "open" /\ \A x \in Objects : x # e => walk'[x] = walk[x]
    BY <1>0, <2>1, <2>2, <2>3 DEF PerObject, IsCall
  <2>5. queue' = queue \ {e}
    BY <1>3 DEF Take, Rest
  <2>6. Turn(e)
    BY <2>1, <2>4, <2>5 DEF Turn, Starts, AwaitedIn
  <2> QED
    BY <2>1, <2>6
<1>4. CASE OpenDir(w)
  <2>1. Busy(w) /\ walk[d].at = "open" /\ Call(w).at \in {"open", "join"}
    BY <1>1, <1>4 DEF OpenDir
  <2>2. CASE walk' = [walk EXCEPT ![d].at = "read", ![d].left = Listed(d)] /\ queue' = queue
    <3>1. Listed(d) \subseteq Objects
      BY DEF PInv, Listed
    <3>2. /\ walk'[d].at = "read" /\ walk'[d].left = Listed(d)
          /\ \A x \in Objects : x # d => walk'[x] = walk[x]
      BY <1>0, <1>1, <2>1, <2>2 DEF PerObject, IsCall
    <3>3. Turn(d)
      BY <2>1, <2>2, <3>1, <3>2 DEF Turn, Lists
    <3> QED
      BY <1>1, <2>1, <3>3
  <2>3. CASE \E r : Deliver(w, d, r)
    BY <2>1, <2>3, DeliverTurns
  <2> QED
    BY <1>4, <2>2, <2>3 DEF OpenDir
<1>5. ASSUME NEW e, Busy(w), Skip(w, e) \/ Entry(w, e) PROVE \E x \in Objects : Turn(x)
  <2>1. d \in Objects /\ walk[d].at = "read" /\ e \in walk[d].left /\ queue' = queue
    BY <1>1, <1>5 DEF Skip, Entry
  <2>2. /\ walk'[d].at = "read" /\ walk'[d].left = walk[d].left \ {e}
        /\ \A x \in Objects : x # d => walk'[x] = walk[x]
    <3>1. CASE Skip(w, e)
      <4>1. walk' = [walk EXCEPT ![d].left = @ \ {e}]
        BY <3>1 DEF Skip
      <4> QED
        BY <1>0, <1>1, <1>5, <2>1, <4>1 DEF PerObject, IsCall
    <3>2. CASE Entry(w, e)
      <4>1. walk' = [walk EXCEPT ![d] = Classified(@, e)]
        BY <3>2 DEF Entry
      <4>2. walk'[d] = Classified(walk[d], e) /\ \A x \in Objects : x # d => walk'[x] = walk[x]
        BY <1>0, <2>1, <4>1 DEF PerObject
      <4>3. /\ Classified(walk[d], e).at = "read"
            /\ Classified(walk[d], e).left = walk[d].left \ {e}
        BY <1>1, <1>5, <2>1 DEF Classified, IsCall
      <4> QED
        BY <4>2, <4>3
    <3> QED
      BY <1>5, <3>1, <3>2
  <2>3. Turn(d)
    BY <2>1, <2>2 DEF Turn, Looks
  <2> QED
    BY <2>1, <2>3
<1>6. CASE Fork(w)
  <2>1. /\ Busy(w) /\ d \in Objects /\ walk[d].at = "read" /\ CallOK(walk[d], d)
        /\ walk' = [walk EXCEPT ![d].at = "join"]
        /\ queue' = queue \cup {p.obj : p \in ToSet(walk[d].pending)}
    BY <1>0, <1>1, <1>6 DEF Fork, Calls
  <2>2. walk'[d].at = "join" /\ \A x \in Objects : x # d => walk'[x] = walk[x]
    BY <1>0, <1>1, <2>1 DEF PerObject, IsCall
  <2>3. ToSet(walk[d].pending) = {walk[d].pending[k] : k \in 1..Len(walk[d].pending)}
    BY <2>1 DEF ToSet, CallOK, IsSeq
  <2>4. \A e \in queue' : e \in queue \/ (e \in Objects \ {Root} /\ Up[e] = d)
    BY <2>1, <2>3 DEF CallOK, Below
  <2>5. Turn(d)
    BY <2>1, <2>2, <2>4 DEF Turn, ForksAt
  <2> QED
    BY <2>1, <2>5
<1>7. CASE Join(w)
  <2>1. Busy(w) /\ Call(w).at \in {"open", "join"} /\ \E r : Deliver(w, d, r)
    BY <1>7 DEF Join
  <2> QED
    BY <2>1, DeliverTurns
<1> HIDE DEF d
<1> QED
  BY <1>2, <1>3, <1>4, <1>5, <1>6, <1>7 DEF Work

LEMMA FreshTurn ==
  ASSUME PInv, Fresh, NEW d \in Objects, Turn(d) PROVE Fresh'
<1>1. /\ queue \subseteq Objects \ {Root}
      /\ \A x \in Objects \ {Root} : Up[x] \in Objects /\ Up[x] # x
      /\ \A x \in Objects : x # d => walk'[x].at = walk[x].at
  BY FileTreeAssumption DEF PInv, WInv, Tasks, Turn
<1>2. \A e \in queue' : e # d /\ e \in Objects /\ walk[e].at = "none"
  <2>1. CASE Starts(d)
    BY <1>1, <2>1 DEF Starts, Fresh
  <2>2. CASE ForksAt(d)
    BY <1>1, <2>2 DEF ForksAt, Fresh, Early
  <2>3. CASE Lists(d) \/ Looks(d) \/ Ends(d)
    <3>1. walk[d].at # "none" /\ queue' = queue
      BY <2>3 DEF Lists, Looks, Ends
    <3> QED
      BY <1>1, <3>1 DEF Fresh
  <2> QED
    BY <2>1, <2>2, <2>3 DEF Turn
<1>3. walk'[d].at \in Early => walk[d].at \in Early
  BY DEF Turn, Starts, Lists, Looks, ForksAt, Ends, Early
<1>4. d # Root /\ walk[Up[d]].at \in Early => FALSE
  BY DEF Turn, Starts, Lists, Looks, ForksAt, Ends, Early, Fresh
<1>5. ASSUME NEW e \in Objects \ {Root}, walk'[Up[e]].at \in Early
      PROVE  walk'[e].at = "none"
  <2>1. CASE e = d
    BY <1>1, <1>4, <1>5, <2>1
  <2>2. CASE e # d
    <3>1. walk[Up[e]].at \in Early
      BY <1>1, <1>3, <1>5
    <3> QED
      BY <1>1, <2>2, <3>1 DEF Fresh
  <2> QED
    BY <2>1, <2>2
<1> QED
  BY <1>1, <1>2, <1>5 DEF Fresh

LEMMA FreshStart == PInit => Fresh
<1> SUFFICES ASSUME PInit PROVE Fresh
  OBVIOUS
<1>1. walk = [o \in Objects |-> NoCall] /\ queue = {}
  BY DEF PInit
<1> QED
  BY <1>1 DEF Fresh, NoCall

LEMMA Elsewhere ==
  ASSUME [PNext]_pvars, ~(\E w \in Workers : Work(w)) PROVE UNCHANGED walkVars
  BY DEF PNext, Main, Prepare, NoScan, BuildRoot, EmitError, Emit, EmitReturn, Others,
         pvars, walkVars

LEMMA FreshStep ==
  ASSUME PInv, Fresh, [PNext]_pvars PROVE Fresh'
<1>1. CASE \E w \in Workers : Work(w)
  BY <1>1, WorkTurns, FreshTurn
<1>2. CASE ~(\E w \in Workers : Work(w))
  BY <1>2, Elsewhere DEF walkVars, Fresh
<1> QED
  BY <1>1, <1>2

----------------------------------------------------------------------------
LEMMA TurnsType ==
  ASSUME NEW c, NEW d, CallOK(c, d)
  PROVE  CallTurns(c) \in Nat /\ CallTurns(c) <= Objs + 4
<1>1. IsFiniteSet(Objects) /\ Objs \in Nat
  BY FileTreeAssumption, FS_CardinalityType DEF Objs
<1>2. c.left \in SUBSET Objects
  BY DEF CallOK, Below
<1>3. Cardinality(c.left) \in Nat /\ Cardinality(c.left) <= Objs
  BY <1>1, <1>2, Smaller DEF Objs
<1> QED
  BY <1>1, <1>3 DEF CallTurns, CallOK

LEMMA CallsSum ==
  ASSUME NEW wk, Calls(wk)
  PROVE  WalkTurns(wk) \in Nat
<1>1. PICK f : f = [d \in Objects |-> CallTurns(wk[d])]
  OBVIOUS
<1>2. IsFiniteSet(Objects) /\ \A d \in Objects : f[d] \in Nat
  BY <1>1, FileTreeAssumption, TurnsType DEF Calls
<1>3. \A d \in Objects : f[d] \in Int
  BY <1>2
<1>4. SumFunctionOnSet(f, Objects) \in Nat
  BY <1>2, <1>3, SumType
<1> QED
  BY <1>1, <1>4 DEF WalkTurns

LEMMA TurnIsLess ==
  ASSUME PInv, PInv', NEW d \in Objects, Turn(d)
  PROVE  WalkTurns(walk') < WalkTurns(walk)
<1>1. PICK f : f = [x \in Objects |-> CallTurns(walk[x])]
  OBVIOUS
<1>2. PICK g : g = [x \in Objects |-> CallTurns(walk'[x])]
  OBVIOUS
<1>3. IsFiniteSet(Objects) /\ Objs \in Nat
  BY FileTreeAssumption, FS_CardinalityType DEF Objs
<1>4. /\ \A x \in Objects : CallOK(walk[x], x)
      /\ \A x \in Objects : CallOK(walk'[x], x)
  BY DEF PInv, WInv, Calls
<1>5. \A x \in Objects : f[x] \in Int /\ g[x] \in Int
  BY <1>1, <1>2, <1>4, TurnsType
<1>6. \A x \in Objects : x # d => g[x] = f[x]
  BY <1>1, <1>2 DEF Turn, CallTurns
<1>7. CallTurns(walk'[d]) < CallTurns(walk[d])
  <2>1. /\ walk[d].left \in SUBSET Objects /\ walk'[d].left \in SUBSET Objects
    BY <1>4 DEF CallOK, Below
  <2>2. PICK old, new : old = walk[d].left /\ new = walk'[d].left
    OBVIOUS
  <2>3. /\ Cardinality(old) \in Nat /\ Cardinality(new) \in Nat
        /\ Cardinality(new) <= Objs
        /\ \A e \in old : Cardinality(old \ {e}) = Cardinality(old) - 1
    BY <1>3, <2>1, <2>2, Smaller DEF Objs
  <2>4. CASE Starts(d)
    BY <1>3, <2>4 DEF Starts, CallTurns
  <2>5. CASE Lists(d)
    BY <1>3, <2>2, <2>3, <2>5 DEF Lists, CallTurns
  <2>6. CASE Looks(d)
    <3>1. Cardinality(new) = Cardinality(old) - 1
      BY <2>2, <2>3, <2>6 DEF Looks
    <3> QED
      BY <2>2, <2>3, <2>6, <3>1 DEF Looks, CallTurns
  <2>7. CASE ForksAt(d)
    BY <2>2, <2>3, <2>7 DEF ForksAt, CallTurns
  <2>8. CASE Ends(d)
    BY <1>3, <2>8 DEF Ends, CallTurns
  <2> QED
    BY <2>4, <2>5, <2>6, <2>7, <2>8 DEF Turn
<1>8. g[d] < f[d]
  BY <1>1, <1>2, <1>7
<1>9. SumFunctionOnSet(g, Objects) < SumFunctionOnSet(f, Objects)
  BY <1>3, <1>5, <1>6, <1>8, SumLess
<1> QED
  BY <1>1, <1>2, <1>9 DEF WalkTurns

(* The emission.                                                              *)
LEMMA NamesFew ==
  ASSUME QInv PROVE Len(names) \in Nat /\ Len(names) <= Objs
<1>1. /\ names \in Seq(Objects) /\ Len(names) = Len(nodes)
      /\ \A i, j \in 1..Len(nodes) : names[i] = names[j] => i = j
  BY DEF QInv, T!WalkOK, T!NamesOK, T!Ids
<1>2. PICK n : n = Len(names)
  OBVIOUS
<1>3. n \in Nat /\ names \in [1..n -> Objects]
  BY <1>1, <1>2
<1>4. names \in Injection(1..n, Objects)
  BY <1>1, <1>2, <1>3 DEF Injection, IsInjective
<1>5. IsFiniteSet(1..n) /\ Cardinality(1..n) = n
  BY <1>3, UpTo
<1>6. Cardinality(1..n) <= Cardinality(Objects)
  BY <1>4, FileTreeAssumption, FS_Injection
<1> QED
  BY <1>2, <1>3, <1>5, <1>6 DEF Objs

LEMMA EmitsTyped ==
  ASSUME QInv
  PROVE  /\ Depth \in Nat /\ Len(emits) = Depth /\ IsSeq(emits)
         /\ Depth > 0 => emits[Depth].err \in BOOLEAN /\ Depth \in 1..Depth /\ emits # <<>>
         /\ Depth = 0 => emits = <<>>
<1>1. /\ Depth \in Nat /\ EmitsOK
      /\ Depth > 0 => Depth \in 1..Depth
  BY OpenShape DEF QInv
<1>2. Depth > 0 => emits[Depth].err \in BOOLEAN
  BY <1>1 DEF EmitsOK, EmitOK
<1>3. PICK S : emits \in Seq(S)
  BY <1>1 DEF EmitsOK, IsSeq
<1>4. Depth > 0 <=> emits # <<>>
  BY <1>1, <1>3 DEF EmitsOK
<1> QED
  BY <1>1, <1>2, <1>4 DEF EmitsOK

LEMMA EmitTurnsType ==
  ASSUME QInv PROVE EmitTurns(emits, names) \in Nat
<1>1. Len(names) \in Nat /\ Len(names) <= Objs /\ Objs \in Nat
  BY NamesFew, FileTreeAssumption, FS_CardinalityType DEF Objs
<1>2. Len(emits) \in Nat
  BY EmitsTyped
<1>3. Objs - Len(names) \in Nat
  BY <1>1
<1> QED
  BY <1>2, <1>3 DEF EmitTurns

(* A step of build_tree or emit.                                               *)
Emission == BuildRoot \/ EmitError \/ Emit \/ EmitReturn

LEMMA ErrorLess ==
  ASSUME QInv, EmitError PROVE EmitTurns(emits', names') < EmitTurns(emits, names)
<1>1. /\ Depth \in Nat /\ Len(emits) = Depth /\ Depth \in 1..Depth /\ emits # <<>>
      /\ emits[Depth].err = TRUE /\ EmitOK(emits[Depth], names[open[Depth].id])
      /\ IsSeq(emits)
  BY EmitsTyped DEF EmitError, Current, QInv, EmitsOK
<1>2. emits' = [emits EXCEPT ![Depth].err = FALSE] /\ names' = names
  BY DEF EmitError
<1>3. PICK m : m = [emits[Depth] EXCEPT !.err = FALSE]
  OBVIOUS
<1>4. m.err = FALSE
  <2>1. PICK rest : emits[Depth] = [err |-> TRUE, rest |-> rest]
    BY <1>1 DEF EmitOK
  <2> QED
    BY <1>3, <2>1
<1>5. PICK S : emits \in Seq(S)
  BY <1>1 DEF IsSeq
<1>6. emits' = [emits EXCEPT ![Depth] = m]
  BY <1>2, <1>3
<1>7. emits \in Seq(S \cup {m})
  BY <1>5
<1>8. Len(emits') = Depth /\ emits'[Depth] = m /\ emits' # <<>>
  BY <1>1, <1>6, <1>7
<1>9. PICK k : k = 4 * (Objs - Len(names)) + 2 * Depth
  OBVIOUS
<1>10. k \in Int
  <2>1. Len(names) \in Nat /\ Objs \in Nat
    BY NamesFew, FileTreeAssumption, FS_CardinalityType DEF Objs
  <2> QED
    BY <1>1, <1>9, <2>1
<1>11. EmitTurns(emits', names') = k + 0
  BY <1>2, <1>4, <1>8, <1>9 DEF EmitTurns
<1>12. EmitTurns(emits, names) = k + 1
  BY <1>1, <1>9 DEF EmitTurns
<1> QED
  BY <1>10, <1>11, <1>12

LEMMA ReturnLess ==
  ASSUME QInv, EmitReturn PROVE EmitTurns(emits', names') < EmitTurns(emits, names)
<1>1. /\ Depth \in Nat /\ Len(emits) = Depth /\ Depth \in 1..Depth /\ emits # <<>>
      /\ emits[Depth].err = FALSE /\ IsSeq(emits)
  BY EmitsTyped DEF EmitReturn, Current
<1>2. emits' = Front(emits) /\ names' = names
  BY DEF EmitReturn
<1>3. Len(emits') = Depth - 1
  BY <1>1, <1>2 DEF Front
<1>4. PICK k : k = 4 * (Objs - Len(names))
  OBVIOUS
<1>5. k \in Int
  <2>1. Len(names) \in Nat /\ Objs \in Nat
    BY NamesFew, FileTreeAssumption, FS_CardinalityType DEF Objs
  <2> QED
    BY <1>4, <2>1
<1>6. PICK r : r = IF emits' # <<>> /\ emits'[Len(emits')].err THEN 1 ELSE 0
  OBVIOUS
<1>7. r \in {0, 1}
  BY <1>6
<1>8. EmitTurns(emits', names') = k + 2 * (Depth - 1) + r
  BY <1>2, <1>3, <1>4, <1>6 DEF EmitTurns
<1>9. EmitTurns(emits, names) = k + 2 * Depth + 0
  BY <1>1, <1>4 DEF EmitTurns
<1> QED
  BY <1>1, <1>5, <1>7, <1>8, <1>9

LEMMA EmitLess ==
  ASSUME QInv, Emit PROVE EmitTurns(emits', names') < EmitTurns(emits, names)
<1>1. /\ Depth \in Nat /\ Len(emits) = Depth /\ Depth \in 1..Depth /\ emits # <<>>
      /\ emits[Depth].err = FALSE /\ IsSeq(emits)
  BY EmitsTyped DEF Emit, Current
<1>2. PICK o : names' = Append(names, o)
  BY DEF Emit
<1>3. Len(names) \in Nat /\ names \in Seq(Objects) /\ Objs \in Nat
  BY NamesFew, OpenShape, FileTreeAssumption, FS_CardinalityType DEF Objs
<1>4. Len(names') = Len(names) + 1
  BY <1>2, <1>3
<1>5. PICK m : m = [emits[Depth] EXCEPT !.rest = Tail(@)]
  OBVIOUS
<1>6. PICK S : emits \in Seq(S)
  BY <1>1 DEF IsSeq
<1>7. PICK rest : rest = [emits EXCEPT ![Depth] = m]
  OBVIOUS
<1>8. rest \in Seq(S \cup {m}) /\ Len(rest) = Depth
  BY <1>1, <1>6, <1>7
<1>9. Len(emits') \in {Depth, Depth + 1}
  <2>1. \/ emits' = rest
        \/ \E x : emits' = Append(rest, x)
    BY <1>5, <1>7 DEF Emit
  <2> QED
    BY <1>1, <1>8, <2>1
<1>10. PICK k : k = 4 * (Objs - Len(names))
  OBVIOUS
<1>11. k \in Int /\ 4 * (Objs - (Len(names) + 1)) = k - 4
  BY <1>3, <1>10
<1>12. PICK r : r = IF emits' # <<>> /\ emits'[Len(emits')].err THEN 1 ELSE 0
  OBVIOUS
<1>13. r \in {0, 1}
  BY <1>12
<1>14. PICK n : n = Len(emits')
  OBVIOUS
<1>15. EmitTurns(emits', names') = k - 4 + 2 * n + r
  BY <1>4, <1>11, <1>12, <1>14 DEF EmitTurns
<1>16. EmitTurns(emits, names) = k + 2 * Depth + 0
  BY <1>1, <1>10 DEF EmitTurns
<1>17. n \in {Depth, Depth + 1}
  BY <1>9, <1>14
<1> QED
  BY <1>1, <1>11, <1>13, <1>15, <1>16, <1>17

LEMMA RootLess ==
  ASSUME QInv, BuildRoot PROVE EmitTurns(emits', names') < EmitTurns(emits, names)
<1>1. nodes = <<>>
  BY DEF BuildRoot, CreateRoot
<1>2. names = <<>> /\ emits = <<>>
  BY <1>1, OpenShape
<1>3. PICK m : emits' = <<m>>
  BY DEF BuildRoot
<1>4. PICK o : names' = <<o>>
  BY DEF BuildRoot
<1>5. Len(emits') = 1 /\ Len(names') = 1 /\ Len(names) = 0 /\ Len(emits) = 0
  BY <1>2, <1>3, <1>4
<1>6. Objs \in Nat
  BY FileTreeAssumption, FS_CardinalityType DEF Objs
<1>7. PICK r : r = IF emits' # <<>> /\ emits'[Len(emits')].err THEN 1 ELSE 0
  OBVIOUS
<1>8. r \in {0, 1}
  BY <1>7
<1>9. EmitTurns(emits', names') = 4 * (Objs - 1) + 2 * 1 + r
  BY <1>5, <1>7 DEF EmitTurns
<1>10. EmitTurns(emits, names) = 4 * (Objs - 0) + 2 * 0 + 0
  BY <1>2, <1>5 DEF EmitTurns
<1> QED
  BY <1>6, <1>8, <1>9, <1>10

LEMMA TurnsNat ==
  ASSUME QInv PROVE WalkTurns(walk) \in Nat /\ EmitTurns(emits, names) \in Nat
BY CallsSum, EmitTurnsType DEF QInv, PInv, WInv

(* No run goes on for ever: the tree is finite, so each call of walk_dir reads its *)
(* directory once and looks at each entry once, no directory is walked twice, and  *)
(* emit visits each record once.  Every turn of a worker and every call of         *)
(* build_tree or emit leaves fewer to come, and nothing another program does to    *)
(* the file system meanwhile gives any of them back.                             *)
WindsDown ==
  /\ TurnsLeft \in Nat
  /\ TurnsLeft' <= TurnsLeft
  /\ (\E w \in Workers : Work(w)) \/ Emission => TurnsLeft' < TurnsLeft

LEMMA StepLess ==
  ASSUME QInv, QInv', Fresh, [PNext]_pvars PROVE WindsDown
<1>1. PICK a, b : a = WalkTurns(walk) /\ b = EmitTurns(emits, names)
  OBVIOUS
<1>2. PICK c, d : c = WalkTurns(walk') /\ d = EmitTurns(emits', names')
  OBVIOUS
<1>3. a \in Nat /\ b \in Nat /\ c \in Nat /\ d \in Nat
  <2>1. c \in Nat /\ d \in Nat
    <3>1. (QInv => WalkTurns(walk) \in Nat /\ EmitTurns(emits, names) \in Nat)'
      BY TurnsNat, PTL
    <3>2. WalkTurns(walk)' = WalkTurns(walk') /\ EmitTurns(emits, names)' = EmitTurns(emits', names')
      BY DEF WalkTurns, EmitTurns, CallTurns, Objs
    <3> QED
      BY <1>2, <3>1, <3>2
  <2> QED
    BY <1>1, <2>1, TurnsNat
<1>4. TurnsLeft = a + b /\ TurnsLeft' = c + d
  BY <1>1, <1>2 DEF TurnsLeft, WalkTurns, EmitTurns, CallTurns, Objs
<1>5. CASE \E w \in Workers : Work(w)
  <2>1. PInv /\ PInv'
    BY DEF QInv
  <2>2. c < a
    BY <1>1, <1>2, <1>5, <2>1, WorkTurns, TurnIsLess
  <2>3. UNCHANGED <<emits, names>>
    BY <1>5 DEF Work, Install, OpenDir, Fork, Join, Take, Deliver, Skip, Entry
  <2>4. b = d
    BY <1>1, <1>2, <2>3
  <2> QED
    BY <1>3, <1>4, <2>2, <2>4 DEF WindsDown
<1>6. CASE Emission
  <2>1. d < b
    BY <1>1, <1>2, <1>6, RootLess, ErrorLess, EmitLess, ReturnLess DEF Emission
  <2>2. walk' = walk
    BY <1>6 DEF Emission, BuildRoot, EmitError, Emit, EmitReturn, walkVars
  <2>3. a = c
    BY <1>1, <1>2, <2>2
  <2> QED
    BY <1>3, <1>4, <2>1, <2>3 DEF WindsDown
<1>7. CASE ~(\E w \in Workers : Work(w)) /\ ~Emission
  <2>1. UNCHANGED <<walk, emits, names>>
    BY <1>7 DEF PNext, Main, Emission, Prepare, NoScan, Others, pvars, walkVars
  <2>2. a = c /\ b = d
    BY <1>1, <1>2, <2>1
  <2> QED
    BY <1>3, <1>4, <1>7, <2>2 DEF WindsDown
<1> QED
  BY <1>5, <1>6, <1>7

THEOREM WalkWindsDown == PSpec => [][WindsDown]_pvars
<1>1. PInit => Fresh
  BY FreshStart
<1>2. QInv /\ Fresh /\ [PNext]_pvars => Fresh'
  BY FreshStep DEF QInv
<1>3. QInv /\ QInv' /\ Fresh /\ [PNext]_pvars => [WindsDown]_pvars
  BY StepLess
<1> QED
  BY <1>1, <1>2, <1>3, QInvariant, PTL DEF PSpec

----------------------------------------------------------------------------
(* What an object was is one of the natures there are; walk_dir has returned    *)
(* for the root once its call is over.                                         *)
Settled ==
  /\ past = [o \in Objects |-> past[o]] /\ \A o \in Objects : past[o] \subseteq Natures
  /\ walk[Root].at = "done" => walked # <<>>

LEMMA SettledStart == PInit => Settled
<1> SUFFICES ASSUME PInit PROVE Settled
  OBVIOUS
<1>1. past = [o \in Objects |-> {nature[o]}] /\ nature \in [Objects -> Natures]
  BY DEF PInit, FsInit
<1>2. walk[Root].at = "none"
  <2>1. walk = [o \in Objects |-> NoCall]
    BY DEF PInit
  <2> QED
    BY <2>1, FileTreeAssumption DEF NoCall
<1> QED
  BY <1>1, <1>2 DEF Settled

LEMMA PastSteps ==
  ASSUME [PNext]_pvars
  PROVE  \/ past' = past
         \/ \E o \in Objects, n \in Natures : past' = [past EXCEPT ![o] = @ \cup {n}]
<1>1. CASE \E w \in Workers : Work(w)
  BY <1>1 DEF Work, Install, OpenDir, Fork, Join, Take, Deliver, Skip, Entry, NotReturned,
              treeVars, fsVars
<1>2. CASE Main
  BY <1>2 DEF Main, Prepare, Configure, NoScan, BuildRoot, EmitError, Emit, EmitReturn,
              treeVars, fsVars
<1>3. CASE Others
  BY <1>3 DEF Others, Interference, Vanish, Replace
<1>4. CASE UNCHANGED pvars
  BY <1>4 DEF pvars, treeVars, fsVars
<1> QED
  BY <1>1, <1>2, <1>3, <1>4 DEF PNext

LEMMA DeliverSettles ==
  ASSUME PInv, NEW w \in Workers, Busy(w), NEW r, Deliver(w, Last(stack[w]), r)
  PROVE  walk'[Root].at = "done" => walked' # <<>> \/ (walked' = walked /\ walk[Root].at = "done")
<1>1. PICK d : d = Last(stack[w])
  OBVIOUS
<1>2. /\ d \in Objects /\ Calls(walk) /\ PerObject(walk)
      /\ d # Root => d \in Objects \ {Root} /\ Up[d] \in Objects
  BY <1>1, InnermostCall DEF PInv, WInv
<1>3. CASE d = Root
  <2>1. walked' = <<r>>
    BY <1>1, <1>3 DEF Deliver
  <2> QED
    BY <2>1
<1>4. CASE d # Root
  <2>1. PICK p : walk' = [walk EXCEPT ![d] = Returned, ![Up[d]].subs[p] = <<r>>]
    BY <1>1, <1>4 DEF Deliver
  <2>2. walked' = walked
    BY <1>1, <1>4 DEF Deliver
  <2>3. Root \in Objects /\ IsCall(walk[Root]) /\ Up[d] # d
    BY <1>2, <1>4, FileTreeAssumption DEF Calls, CallOK
  <2>4. walk'[Root].at = walk[Root].at
    <3>1. CASE Up[d] # Root
      BY <1>2, <1>4, <2>1, <2>3, <3>1 DEF PerObject
    <3>2. CASE Up[d] = Root
      <4>1. walk'[Root] = Answer(walk[Root], p, r)
        BY <1>2, <1>4, <2>1, <2>3, <3>2 DEF PerObject, Answer
      <4> QED
        BY <2>3, <4>1 DEF IsCall, Answer
    <3> QED
      BY <3>1, <3>2
  <2> QED
    BY <2>2, <2>4
<1> QED
  BY <1>3, <1>4

LEMMA OthersSettle ==
  ASSUME Calls(walk), NEW d \in Objects, NEW c, c.at # "done",
         walk' = [walk EXCEPT ![d] = c], walked' = walked, walk'[Root].at = "done"
  PROVE  walked' = walked /\ walk[Root].at = "done"
  BY FileTreeAssumption DEF Calls, PerObject

LEMMA RootSettles ==
  ASSUME PInv, [PNext]_pvars, walk'[Root].at = "done"
  PROVE  walked' # <<>> \/ (walked' = walked /\ walk[Root].at = "done")
<1>0. Calls(walk) /\ PerObject(walk) /\ Root \in Objects
  BY FileTreeAssumption DEF PInv, WInv, Calls
<1>1. CASE UNCHANGED walkVars
  BY <1>1 DEF walkVars
<1>2. ASSUME NEW w \in Workers, Work(w)
      PROVE  walked' # <<>> \/ (walked' = walked /\ walk[Root].at = "done")
  <2>1. PICK x : x = Last(stack[w])
    OBVIOUS
  <2>2. Busy(w) => x \in Objects /\ IsCall(walk[x])
    BY <2>1, InnermostCall DEF CallOK
  <2>3. CASE Install(w)
    <3>1. walk' = [walk EXCEPT ![Root].at = "open", ![Root].pat = cur] /\ walked' = walked
      BY <2>3 DEF Install, Called
    <3>2. PICK c : c = [walk[Root] EXCEPT !.at = "open", !.pat = cur]
      OBVIOUS
    <3>3. IsCall(walk[Root])
      BY <1>0 DEF Calls, CallOK
    <3>4. walk' = [walk EXCEPT ![Root] = c] /\ c.at # "done"
      BY <1>0, <3>1, <3>2, <3>3 DEF IsCall
    <3> QED
      BY <1>0, <3>1, <3>4, OthersSettle
  <2>4. CASE OpenDir(w)
    <3>1. CASE \E r : Deliver(w, Last(stack[w]), r)
      BY <2>4, <3>1, DeliverSettles DEF OpenDir
    <3>2. CASE walk' = [walk EXCEPT ![x].at = "read", ![x].left = Listed(x)] /\ walked' = walked
      <4>1. PICK c : c = [walk[x] EXCEPT !.at = "read", !.left = Listed(x)]
        OBVIOUS
      <4>2. x \in Objects /\ walk' = [walk EXCEPT ![x] = c] /\ c.at # "done"
        BY <1>0, <2>2, <2>4, <3>2, <4>1 DEF OpenDir, IsCall
      <4> QED
        BY <1>0, <3>2, <4>2, OthersSettle
    <3> QED
      BY <2>1, <2>4, <3>1, <3>2 DEF OpenDir
  <2>5. CASE Fork(w)
    <3>1. Busy(w) /\ walk' = [walk EXCEPT ![x].at = "join"] /\ walked' = walked
      BY <2>1, <2>5 DEF Fork
    <3>2. PICK c : c = [walk[x] EXCEPT !.at = "join"]
      OBVIOUS
    <3>3. x \in Objects /\ walk' = [walk EXCEPT ![x] = c] /\ c.at # "done"
      BY <1>0, <2>2, <3>1, <3>2 DEF IsCall
    <3> QED
      BY <1>0, <3>1, <3>3, OthersSettle
  <2>6. CASE Join(w)
    BY <2>6, DeliverSettles DEF Join
  <2>7. ASSUME NEW e \in queue, Take(w, e)
        PROVE  walked' # <<>> \/ (walked' = walked /\ walk[Root].at = "done")
    <3>1. PICK pat : walk' = [walk EXCEPT ![e].at = "open", ![e].pat = pat] /\ walked' = walked
      BY <2>7 DEF Take, Called
    <3>2. PICK c : c = [walk[e] EXCEPT !.at = "open", !.pat = pat]
      OBVIOUS
    <3>3. e \in Objects /\ IsCall(walk[e])
      BY <1>0 DEF PInv, WInv, Tasks, Calls, CallOK
    <3>4. walk' = [walk EXCEPT ![e] = c] /\ c.at # "done"
      BY <1>0, <3>1, <3>2, <3>3 DEF IsCall
    <3> QED
      BY <1>0, <3>1, <3>3, <3>4, OthersSettle
  <2>8. ASSUME Busy(w), NEW e, Skip(w, e) \/ Entry(w, e)
        PROVE  walked' # <<>> \/ (walked' = walked /\ walk[Root].at = "done")
    <3>1. walk[x].at = "read" /\ walked' = walked
      BY <2>1, <2>8 DEF Skip, Entry, Call
    <3>2. PICK c : c.at = "read" /\ walk' = [walk EXCEPT ![x] = c]
      <4>1. CASE Skip(w, e)
        <5>1. walk' = [walk EXCEPT ![x].left = @ \ {e}]
          BY <2>1, <4>1 DEF Skip
        <5>2. PICK c : c = [walk[x] EXCEPT !.left = @ \ {e}]
          OBVIOUS
        <5>3. c.at = "read" /\ walk' = [walk EXCEPT ![x] = c]
          BY <1>0, <2>2, <2>8, <3>1, <5>1, <5>2 DEF IsCall
        <5> QED
          BY <5>3
      <4>2. CASE Entry(w, e)
        <5>1. walk' = [walk EXCEPT ![x] = Classified(@, e)]
          BY <2>1, <4>2 DEF Entry
        <5>2. Classified(walk[x], e).at = "read"
          BY <2>2, <2>8, <3>1 DEF Classified, IsCall
        <5> QED
          BY <1>0, <5>1, <5>2
      <4> QED
        BY <2>8, <4>1, <4>2
    <3> QED
      BY <1>0, <2>2, <2>8, <3>1, <3>2, OthersSettle
  <2> QED
    BY <1>2, <2>3, <2>4, <2>5, <2>6, <2>7, <2>8 DEF Work
<1> QED
  BY <1>1, <1>2, Elsewhere

LEMMA SettledStep ==
  ASSUME PInv, Settled, [PNext]_pvars PROVE Settled'
<1>1. walk'[Root].at = "done" => walked' # <<>>
  BY RootSettles DEF Settled
<1>2. past' = [o \in Objects |-> past'[o]] /\ \A o \in Objects : past'[o] \subseteq Natures
  <2>1. CASE past' = past
    BY <2>1 DEF Settled
  <2>2. ASSUME NEW o \in Objects, NEW n \in Natures, past' = [past EXCEPT ![o] = @ \cup {n}]
        PROVE  past' = [x \in Objects |-> past'[x]] /\ \A x \in Objects : past'[x] \subseteq Natures
    <3>1. past' = [x \in Objects |-> IF x = o THEN past[x] \cup {n} ELSE past[x]]
      BY <2>2 DEF Settled
    <3> QED
      BY <3>1 DEF Settled
  <2> QED
    BY <2>1, <2>2, PastSteps
<1> QED
  BY <1>1, <1>2 DEF Settled

----------------------------------------------------------------------------
Kinds == Specials \cup FileTypes \cup {"Dir"}

LEMMA KindIsOne ==
  ASSUME Settled, NEW o \in Objects, NEW k, SaysRight(o, k) PROVE k \in Kinds
<1>1. \A n \in past[o] : n.kind \in {"Dir", "Reg", "NonReg", "Link"}
  BY FileTreeAssumption DEF Settled, Nature
<1>2. \A n \in past[o] : T!C!Promised(o, n) \in Kinds
  <2> SUFFICES ASSUME NEW n \in past[o] PROVE T!C!Promised(o, n) \in Kinds
    OBVIOUS
  <2>1. T!C!Promised(o, n) \in {"Err", "Pattern", n.kind}
    BY DEF T!C!Promised
  <2> QED
    BY <1>1, <2>1 DEF Kinds, Specials, FileTypes
<1>3. "Err" \in Kinds
  BY DEF Kinds, Specials
<1> QED
  BY <1>2, <1>3 DEF SaysRight, T!SaysRight

(* The next call of build_tree or emit, and that the sink takes it.              *)
CanEmit ==
  \/ nodes = <<>> /\ walked # <<>>
  \/ Depth > 0 /\ Current.err /\ nodes[Top.id].kids = <<>> /\ ~nodes[Top.id].err
  \/ /\ Depth > 0 /\ ~Current.err /\ Current.rest # <<>>
     /\ ~nodes[Top.id].err /\ Len(nodes) < Objs
     /\ Head(Current.rest).kind \in Kinds
  \/ Depth > 0 /\ ~Current.err /\ Current.rest = <<>>

LEMMA CanEmitNext ==
  ASSUME QInv, Settled, walk[Root].at = "done", ~Finished
  PROVE  CanEmit
<1>1. walked # <<>>
  BY DEF Settled
<1>2. CASE nodes = <<>>
  BY <1>1, <1>2 DEF CanEmit
<1>3. CASE nodes # <<>>
  <2>1. Depth > 0
    <3>1. Depth \in Nat /\ open \in Seq(T!HandleType) /\ open # <<>>
      BY <1>3, OpenShape DEF Finished, T!TypeOK
    <3> QED
      BY <3>1, EmptySeq DEF Depth
  <2>2. /\ T!IInv /\ T!WalkOK /\ Depth = T!Depth /\ Depth \in 1..Depth /\ Top = T!Top
        /\ \E m : \E o \in Objects : m = emits[Depth] /\ o = names[Top.id] /\ EmitOK(m, o)
        /\ Current = emits[Depth]
        /\ \A l \in 1..Depth : Todo[l] = Resumed(emits[l], names[open[l].id])
        /\ Top = open[Depth]
    BY <2>1, Emits
  <2>3. PICK m : m = emits[Depth]
    OBVIOUS
  <2>4. PICK o \in Objects : o = names[Top.id] /\ EmitOK(m, o)
    BY <2>2, <2>3
  <2>5. T!Ready(Todo[T!Depth])
    BY <2>1, <2>2, T!IsReady, SameAssumptions
  <2>6. PICK t : t = Todo[Depth]
    OBVIOUS
  <2>7. t = Resumed(m, o)
    BY <2>2, <2>3, <2>4, <2>6
  <2>8. t.read = ~m.err /\ t.left = ObjsOf(m.rest) /\ m.err \in BOOLEAN
    BY <2>4, <2>7 DEF Resumed, EmitOK
  <2>9. /\ ~t.read => nodes[Top.id].kids = <<>> /\ ~nodes[Top.id].err
        /\ t.left # {} => ~nodes[Top.id].err /\ Len(nodes) + 1 <= T!Objs
    BY <2>2, <2>5, <2>6 DEF T!Ready
  <2>10. CASE m.err
    BY <2>1, <2>2, <2>3, <2>8, <2>9, <2>10 DEF CanEmit
  <2>11. CASE ~m.err /\ m.rest = <<>>
    BY <2>1, <2>2, <2>3, <2>11 DEF CanEmit
  <2>12. CASE ~m.err /\ m.rest # <<>>
    <3>1. PICK r : r = m.rest[1]
      OBVIOUS
    <3>2. 1 \in 1..Len(m.rest) /\ r = Head(m.rest)
      <4>1. PICK s : s = m.rest
        OBVIOUS
      <4>2. PICK S : s \in Seq(S)
        BY <2>4, <4>1 DEF EmitOK, IsSeq
      <4>3. 1 \in 1..Len(s) /\ Head(s) = s[1]
        BY <2>12, <4>1, <4>2
      <4> QED
        BY <3>1, <4>1, <4>3
    <3>3. r.obj \in Objects /\ SaysRight(r.obj, r.kind) /\ t.left # {}
      <4>1. Good(r) /\ SaysRight(r.obj, r.kind)
        BY <2>4, <3>1, <3>2 DEF EmitOK
      <4>2. r.obj \in ObjsOf(m.rest)
        BY <3>1, <3>2 DEF ObjsOf
      <4> QED
        BY <2>8, <4>1, <4>2, GoodParts DEF Bears
    <3>4. r.kind \in Kinds
      BY <3>3, KindIsOne
    <3>5. T!Objs = Objs
      BY DEF T!Objs, Objs, T!Cardinality, T!IsFiniteSet, Cardinality, IsFiniteSet
    <3>6. Len(nodes) < Objs
      <4>1. Len(nodes) \in Nat /\ Objs \in Nat
        BY OpenShape, NamesFew, FileTreeAssumption, FS_CardinalityType DEF Objs
      <4> QED
        BY <2>9, <3>3, <3>5, <4>1
    <3> QED
      BY <2>1, <2>2, <2>3, <2>9, <2>12, <3>2, <3>3, <3>4, <3>6 DEF CanEmit
  <2> QED
    BY <2>8, <2>10, <2>11, <2>12
<1> QED
  BY <1>2, <1>3

(* Nor is the builder: once walk_dir has returned for the root, build_tree and   *)
(* emit have a next call to make until the tree is finished, and the sink takes   *)
(* it.  set_read_error comes before any child, a child is added to a directory    *)
(* that could be read and is one of the kinds emit tells apart, never the         *)
(* Placeholder its match calls unreachable, and there are never more nodes than   *)
(* objects.                                                                   *)
BuilderGoesOn == walk[Root].at = "done" /\ ~Finished => CanEmit

THEOREM EmissionGoesOn == PSpec => []BuilderGoesOn
<1>1. PInit => Settled
  BY SettledStart
<1>2. QInv /\ Settled /\ [PNext]_pvars => Settled'
  BY SettledStep DEF QInv
<1>3. QInv /\ Settled => BuilderGoesOn
  BY CanEmitNext DEF BuilderGoesOn
<1> QED
  BY <1>1, <1>2, <1>3, QInvariant, PTL DEF PSpec
=============================================================================
