----------------------------- MODULE ScanProofs -----------------------------
(***************************************************************************)
(* The sequential walk is a census, for any tree, any patterns and whatever   *)
(* other programs do to the tree meanwhile.                                   *)
(***************************************************************************)
EXTENDS Scan, MemSinkProofs

X == INSTANCE ExcludeProofs

----------------------------------------------------------------------------
(* The definitions of Exclude and FileTree under the names the instances give *)
(* them.                                                                     *)
LEMMA PatternsTyped == X!ExcludeAssumption
BY FileTreeAssumption
   DEF X!PatternTypes, X!Slash, X!Globs, X!Empty, X!PathNames,
       Ex!PatternTypes, Ex!Slash, Ex!Globs, Ex!Empty, Ex!PathNames

LEMMA SamePathNames ==
  RootPath \in Seq(X!PathNames) /\ \A o \in Objects \ {Root} : NameOf[o] \in X!PathNames
BY FileTreeAssumption DEF X!PathNames, X!Empty, Ex!PathNames, Ex!Empty

LEMMA SameMatcher ==
  /\ \A pat, name : Ex!Matches(pat, name) = X!Matches(pat, name)
  /\ \A pat, name : Ex!Enter(pat, name) = X!Enter(pat, name)
  /\ \A ns, name : C!Ex!Meaning(ns, name) = X!Meaning(ns, name)
<1>1. \A pat, name : Ex!Matches(pat, name) = X!Matches(pat, name)
  BY DEF Ex!Matches, Ex!MatchList, Ex!Match, Ex!At,
         X!Matches, X!MatchList, X!Match, X!At
<1>2. \A pat, name : Ex!Enter(pat, name) = X!Enter(pat, name)
  BY DEF Ex!Enter, Ex!Sorted, Ex!Subs, Ex!Match, Ex!At, Ex!IsLast,
         X!Enter, X!Sorted, X!Subs, X!Match, X!At, X!IsLast
<1>3. \A ns, name : C!Ex!Meaning(ns, name) = X!Meaning(ns, name)
  BY DEF C!Ex!Meaning, C!Ex!Patterns, C!Ex!Excludes, C!Ex!FitsTail, C!Ex!Match,
         C!Ex!Anchored, C!Ex!DirOnly, C!Ex!Slash,
         X!Meaning, X!Patterns, X!Excludes, X!FitsTail, X!Match,
         X!Anchored, X!DirOnly, X!Slash
<1> QED
  BY <1>1, <1>2, <1>3

LEMMA SameAdd ==
  ASSUME NEW w, Ex!Add(w)
  PROVE  C!Ex!Add(w) /\ X!Add(w)
<1>1. Ex!Parse(w) = C!Ex!Parse(w) /\ Ex!Parse(w) = X!Parse(w)
  BY DEF Ex!Parse, Ex!Split, Ex!SlashAt, Ex!Field, Ex!FirstSlash, Ex!OnlySlashes,
         Ex!Start, Ex!Component, Ex!Empty, Ex!Slash,
         C!Ex!Parse, C!Ex!Split, C!Ex!SlashAt, C!Ex!Field, C!Ex!FirstSlash,
         C!Ex!OnlySlashes, C!Ex!Start, C!Ex!Component, C!Ex!Empty, C!Ex!Slash,
         X!Parse, X!Split, X!SlashAt, X!Field, X!FirstSlash, X!OnlySlashes,
         X!Start, X!Component, X!Empty, X!Slash
<1>2. \A pats, t, chain : /\ Ex!With(pats, t, chain) = C!Ex!With(pats, t, chain)
                          /\ Ex!With(pats, t, chain) = X!With(pats, t, chain)
  BY Zenon DEF Ex!With, C!Ex!With, X!With
<1> QED
  BY <1>1, <1>2, Zenon DEF Ex!Add, C!Ex!Add, X!Add, Ex!Slash, C!Ex!Slash, X!Slash

LEMMA SameDescend ==
  ASSUME NEW name, Ex!Descend(name)
  PROVE  C!Ex!Descend(name) /\ X!Descend(name)
<1>1. \A pat : Ex!Enter(pat, name) = C!Ex!Enter(pat, name)
  BY DEF Ex!Enter, Ex!Sorted, Ex!Subs, Ex!Match, Ex!At, Ex!IsLast,
         C!Ex!Enter, C!Ex!Sorted, C!Ex!Subs, C!Ex!Match, C!Ex!At, C!Ex!IsLast
<1> QED
  BY <1>1, SameMatcher, Zenon DEF Ex!Descend, C!Ex!Descend, X!Descend

LEMMA SameConfigure == Configure => C!Configure
<1>1. ASSUME Ex!Begin PROVE C!Ex!Begin
  BY <1>1 DEF Ex!Begin, C!Ex!Begin
<1> QED
  BY <1>1, SameAdd, SameDescend, Zenon DEF Configure, C!Configure, fsVars, C!fsVars

(* The matcher as the walkers use it.                                          *)
LEMMA MatcherInv ==
  ASSUME X!IInv, Configure \/ UNCHANGED patternVars
  PROVE  X!IInv'
<1> USE PatternsTyped
<1>1. ASSUME NEW w \in Written, Ex!Add(w) PROVE X!IInv'
  BY <1>1, SameAdd, X!AddInv
<1>2. CASE Ex!Begin
  <2>1. X!Begin
    BY <1>2 DEF Ex!Begin, X!Begin
  <2> QED
    BY <2>1, X!BeginInv
<1>3. CASE Len(path) < Len(RootPath) /\ Ex!Descend(RootPath[Len(path) + 1])
  <2>1. RootPath \in Seq(X!PathNames) /\ path \in Seq(X!PathNames)
    BY SamePathNames DEF X!IInv, X!Typed
  <2>2. Len(path) + 1 \in 1..Len(RootPath)
    BY <1>3, <2>1
  <2>3. RootPath[Len(path) + 1] \in X!PathNames
    BY <2>1, <2>2
  <2> QED
    BY <1>3, <2>3, SameDescend, X!DescendInv
<1>4. CASE UNCHANGED patternVars
  <2>1. UNCHANGED X!vars
    BY <1>4 DEF patternVars, X!vars
  <2> QED
    BY <2>1, X!NextInv
<1> QED
  BY <1>1, <1>2, <1>3, <1>4 DEF Configure

LEMMA SameStart == FsInit => C!FsInit
BY DEF FsInit, C!FsInit, Above, C!Above, Ex!Init, C!Ex!Init, Ex!NoPatterns, C!Ex!NoPatterns

----------------------------------------------------------------------------
(* What is defined by climbing to the root exists, because there are no cycles. *)
Level == CHOOSE level \in [Objects -> 0..Cardinality(Objects)] :
           \A o \in Objects \ {Root} : level[Up[o]] < level[o]

LEMMA Levels ==
  /\ \A o \in Objects : Level[o] \in Nat
  /\ \A o \in Objects \ {Root} : Up[o] \in Objects /\ Level[Up[o]] < Level[o]
<1>1. /\ Level \in [Objects -> 0..Cardinality(Objects)]
      /\ \A o \in Objects \ {Root} : Level[Up[o]] < Level[o]
  BY FileTreeAssumption DEF Level
<1>2. Cardinality(Objects) \in Nat
  BY FileTreeAssumption, FS_CardinalityType
<1> QED
  BY <1>1, <1>2, FileTreeAssumption

LEMMA Climbs ==
  ASSUME NEW V, NEW base \in V, NEW G \in [Objects \ {Root} -> [V -> V]]
  PROVE  \E f \in [Objects -> V] :
           \A x \in Objects : f[x] = IF x = Root THEN base ELSE G[x][f[Up[x]]]
<1> DEFINE Climb(f, x) == IF x = Root THEN base ELSE G[x][f[Up[x]]]
           Solves(f, n) == \A x \in Objects : Level[x] <= n => f[x] = Climb(f, x)
           Solved == {n \in Nat : \E f \in [Objects -> V] : Solves(f, n)}
<1>1. 0 \in Solved
  <2> DEFINE f == [x \in Objects |-> base]
  <2>1. Solves(f, 0)
    <3> SUFFICES ASSUME NEW x \in Objects, Level[x] <= 0 PROVE f[x] = Climb(f, x)
      OBVIOUS
    <3>1. x = Root
      BY Levels
    <3> QED
      BY <3>1
  <2> QED
    BY <2>1
<1>2. ASSUME NEW n \in Nat, n \in Solved PROVE n + 1 \in Solved
  <2>1. PICK f \in [Objects -> V] : Solves(f, n)
    BY <1>2
  <2> DEFINE g == [x \in Objects |-> Climb(f, x)]
  <2>2. g \in [Objects -> V]
    BY Levels
  <2>3. Solves(g, n + 1)
    <3> SUFFICES ASSUME NEW x \in Objects, Level[x] <= n + 1, x # Root
                 PROVE  g[x] = Climb(g, x)
      OBVIOUS
    <3>1. Up[x] \in Objects /\ Level[Up[x]] <= n
      BY Levels
    <3>2. f[Up[x]] = g[Up[x]]
      BY <2>1, <3>1
    <3> QED
      BY <3>2
  <2> HIDE DEF g, Solves
  <2> QED
    BY <2>2, <2>3
<1>3. Nat \subseteq Solved
  <2> HIDE DEF Solved
  <2> QED  BY <1>1, <1>2, SetInduction
<1>4. Cardinality(Objects) \in Nat /\ \A x \in Objects : Level[x] <= Cardinality(Objects)
  BY FileTreeAssumption, FS_CardinalityType DEF Level
<1>5. PICK f \in [Objects -> V] : Solves(f, Cardinality(Objects))
  BY <1>3, <1>4
<1>6. \A x \in Objects : f[x] = Climb(f, x)
  BY <1>4, <1>5
<1> QED
  BY <1>6

LEMMA AboveUnfolds ==
  \A o \in Objects : Above(o) = IF o = Root THEN {o} ELSE {o} \cup Above(Up[o])
<1> DEFINE V == SUBSET Objects
           base == {Root}
           G == [x \in Objects \ {Root} |-> [s \in V |-> {x} \cup s]]
           Is(f) == f = [x \in Objects |-> IF x = Root THEN {x} ELSE {x} \cup f[Up[x]]]
           up == CHOOSE f : Is(f)
<1>1. base \in V /\ G \in [Objects \ {Root} -> [V -> V]]
  BY FileTreeAssumption
<1>2. \A x \in Objects \ {Root} : \A s \in V : G[x][s] = {x} \cup s
  OBVIOUS
<1> HIDE DEF G, V, base
<1>3. PICK f \in [Objects -> V] :
        \A x \in Objects : f[x] = IF x = Root THEN base ELSE G[x][f[Up[x]]]
  BY <1>1, Climbs
<1>4. \A x \in Objects : f[x] = IF x = Root THEN {x} ELSE {x} \cup f[Up[x]]
  BY <1>2, <1>3, Levels DEF base
<1>5. Is(f)
  BY <1>4
<1>6. Is(up)
  <2> HIDE DEF Is
  <2> QED  BY <1>5
<1>7. \A o : Above(o) = up[o]
  BY DEF Above
<1> HIDE DEF up
<1>8. \A o \in Objects : up[o] = IF o = Root THEN {o} ELSE {o} \cup up[Up[o]]
  BY <1>6
<1> QED
  BY <1>7, <1>8

LEMMA PathUnfolds ==
  /\ \A o \in Objects : C!PathTo(o) \in Seq(X!PathNames)
  /\ C!PathTo(Root) = RootPath
  /\ \A o \in Objects \ {Root} : C!PathTo(o) = Append(C!PathTo(Up[o]), NameOf[o])
<1> DEFINE V == Seq(X!PathNames)
           G == [x \in Objects \ {Root} |-> [s \in V |-> Append(s, NameOf[x])]]
           Is(f) == f = [x \in Objects |-> IF x = Root THEN RootPath
                                           ELSE Append(f[Up[x]], NameOf[x])]
           to == CHOOSE f : Is(f)
<1>1. RootPath \in V /\ G \in [Objects \ {Root} -> [V -> V]]
  BY SamePathNames
<1>2. \A x \in Objects \ {Root} : \A s \in V : G[x][s] = Append(s, NameOf[x])
  OBVIOUS
<1> HIDE DEF G, V
<1>3. PICK f \in [Objects -> V] :
        \A x \in Objects : f[x] = IF x = Root THEN RootPath ELSE G[x][f[Up[x]]]
  BY <1>1, Climbs
<1>4. \A x \in Objects : f[x] = IF x = Root THEN RootPath ELSE Append(f[Up[x]], NameOf[x])
  BY <1>2, <1>3, Levels
<1>5. Is(f)
  BY <1>4
<1>6. Is(to)
  <2> HIDE DEF Is
  <2> QED  BY <1>5
<1>7. \A o : C!PathTo(o) = to[o]
  BY DEF C!PathTo
<1> HIDE DEF to
<1>8. \A o \in Objects : to[o] = IF o = Root THEN RootPath ELSE Append(to[Up[o]], NameOf[o])
  BY <1>6
<1> DEFINE Typed == {n \in Nat : \A o \in Objects : Level[o] <= n => to[o] \in V}
<1>9. 0 \in Typed
  <2> SUFFICES ASSUME NEW o \in Objects, Level[o] <= 0 PROVE to[o] \in V
    OBVIOUS
  <2>1. o = Root
    BY Levels
  <2> QED
    BY <1>1, <1>8, <2>1
<1>10. ASSUME NEW n \in Nat, n \in Typed PROVE n + 1 \in Typed
  <2> SUFFICES ASSUME NEW o \in Objects, Level[o] <= n + 1, o # Root PROVE to[o] \in V
    BY <1>1, <1>8
  <2>1. Up[o] \in Objects /\ Level[Up[o]] <= n
    BY Levels
  <2>2. to[Up[o]] \in V
    BY <1>10, <2>1
  <2>3. NameOf[o] \in X!PathNames
    BY SamePathNames
  <2>4. Append(to[Up[o]], NameOf[o]) \in V
    BY <2>2, <2>3 DEF V
  <2> QED
    BY <1>8, <2>4
<1>11. Nat \subseteq Typed
  <2> HIDE DEF Typed
  <2> QED  BY <1>9, <1>10, SetInduction
<1>12. \A o \in Objects : to[o] \in V
  BY <1>11, Levels
<1> QED
  BY <1>7, <1>8, <1>12, FileTreeAssumption DEF V

----------------------------------------------------------------------------
(* The file system.  What was there in a directory is there, or excused.        *)
FsOK ==
  /\ nature \in [Objects -> Natures] /\ present \subseteq Objects
  /\ past = [o \in Objects |-> past[o]] /\ \A o \in Objects : nature[o] \in past[o]
  /\ Root \in present \cup excused
  /\ \A o \in Objects \ {Root} :
       IsDirectory(Up[o]) => o \in present \cup excused

(* The most a step may do to it.                                               *)
Interfered ==
  /\ excused \subseteq excused' /\ present' \subseteq present
  /\ present \ present' \subseteq excused'
  /\ \A o \in Objects : nature'[o] # nature[o] => o \in excused' \ excused
  /\ past' = [o \in Objects |-> past[o] \cup {nature'[o]}]

LEMMA SelfUnder == \A o \in Objects : o \in Under(o)
BY AboveUnfolds DEF Under

LEMMA UnderUp == \A x \in Objects, o \in Objects \ {Root} : Up[o] \in Under(x) => o \in Under(x)
BY AboveUnfolds DEF Under

LEMMA FsStart == FsInit => FsOK
<1> SUFFICES ASSUME FsInit PROVE FsOK
  OBVIOUS
<1>1. nature \in [Objects -> Natures] /\ excused = {} /\ past = [o \in Objects |-> {nature[o]}]
  BY DEF FsInit
<1>2. \A o \in Objects : o \in present <=> \A d \in Above(o) \ {o} : nature[d].kind = "Dir"
  BY DEF FsInit
<1>3. Root \in present
  BY <1>2, AboveUnfolds, FileTreeAssumption
<1>4. ASSUME NEW o \in Objects \ {Root}, IsDirectory(Up[o]) PROVE o \in present
  <2>1. Up[o] \in Objects /\ Above(o) = {o} \cup Above(Up[o])
    BY AboveUnfolds, FileTreeAssumption
  <2>2. \A d \in Above(Up[o]) : nature[d].kind = "Dir"
    BY <1>2, <1>4, <2>1 DEF IsDirectory
  <2> QED
    BY <1>2, <2>1, <2>2
<1>5. present \subseteq Objects
  BY DEF FsInit
<1>6. past = [o \in Objects |-> past[o]] /\ \A o \in Objects : nature[o] \in past[o]
  BY <1>1
<1> QED
  BY <1>1, <1>3, <1>4, <1>5, <1>6 DEF FsOK

LEMMA FsStays ==
  ASSUME FsOK, UNCHANGED nature, present' \subseteq present, UNCHANGED past,
         excused \subseteq excused', present \ present' \subseteq excused'
  PROVE  FsOK' /\ Interfered
<1>1. past' = [o \in Objects |-> past[o] \cup {nature'[o]}]
  <2>1. \A o \in Objects : past[o] = past[o] \cup {nature'[o]}
    BY DEF FsOK
  <2> QED
    BY <2>1 DEF FsOK
<1>2. Interfered
  BY <1>1 DEF Interfered
<1>3. ASSUME NEW o \in Objects \ {Root}, IsDirectory(Up[o])'
      PROVE  o \in present' \cup excused'
  <2>1. IsDirectory(Up[o])
    BY <1>3 DEF IsDirectory
  <2> QED
    BY <2>1 DEF FsOK
<1> QED
  BY <1>2, <1>3 DEF FsOK

LEMMA FsReplaced ==
  ASSUME FsOK, NEW o \in Objects, Replace(o)
  PROVE  FsOK' /\ Interfered
<1>1. PICK n \in Natures : /\ nature' = [nature EXCEPT ![o] = n]
                           /\ past' = [past EXCEPT ![o] = @ \cup {n}]
  BY DEF Replace
<1>2. /\ o \in present /\ o \notin excused /\ excused' = excused \cup Under(o)
      /\ present' \subseteq present /\ present \ present' \subseteq Under(o) \ {o}
  BY DEF Replace
<1>3. /\ nature' \in [Objects -> Natures]
      /\ \A x \in Objects : nature'[x] = IF x = o THEN n ELSE nature[x]
  BY <1>1 DEF FsOK
<1>4. past' = [x \in Objects |-> past[x] \cup {nature'[x]}]
  <2>1. /\ DOMAIN past' = Objects
        /\ \A x \in Objects : past'[x] = IF x = o THEN past[x] \cup {n} ELSE past[x]
    BY <1>1 DEF FsOK
  <2>2. \A x \in Objects : past'[x] = past[x] \cup {nature'[x]}
    BY <1>3, <2>1 DEF FsOK
  <2>3. past' = [x \in Objects |-> past'[x]]
    BY <1>1 DEF FsOK
  <2> QED
    BY <2>2, <2>3
<1>5. Interfered
  BY <1>2, <1>3, <1>4, SelfUnder DEF Interfered
<1>6. \A x \in Objects : nature'[x] \in past'[x]
  BY <1>4
<1>7. past' = [x \in Objects |-> past'[x]]
  BY <1>4
<1>8. ASSUME NEW x \in Objects \ {Root}, IsDirectory(Up[x])'
      PROVE  x \in present' \cup excused'
  <2>1. Up[x] \in Objects
    BY FileTreeAssumption
  <2>2. CASE Up[x] = o
    BY <1>2, <2>1, <2>2, SelfUnder, UnderUp
  <2>3. CASE Up[x] # o
    <3>1. IsDirectory(Up[x])
      BY <1>2, <1>3, <1>8, <2>1, <2>3 DEF IsDirectory
    <3> QED
      BY <1>2, <3>1, SelfUnder DEF FsOK
  <2> QED
    BY <2>2, <2>3
<1>9. Root \in present' \cup excused'
  BY <1>2 DEF FsOK
<1>10. present' \subseteq Objects
  BY <1>2 DEF FsOK
<1> QED
  BY <1>3, <1>5, <1>6, <1>7, <1>8, <1>9, <1>10 DEF FsOK

LEMMA FsSteps ==
  ASSUME FsOK,
         Interference \/ (\E o \in Objects : NotReturned(o)) \/ UNCHANGED fsVars
  PROVE  FsOK' /\ Interfered
<1>1. ASSUME NEW o \in Objects, Vanish(o) PROVE FsOK' /\ Interfered
  <2>1. /\ UNCHANGED nature /\ UNCHANGED past /\ present' = present \ Under(o)
        /\ excused' = excused \cup Under(o)
    BY <1>1 DEF Vanish
  <2> QED
    BY <2>1, FsStays
<1>2. ASSUME NEW o \in Objects, NotReturned(o) PROVE FsOK' /\ Interfered
  <2>1. /\ UNCHANGED nature /\ UNCHANGED past /\ UNCHANGED present
        /\ excused' = excused \cup Under(o)
    BY <1>2 DEF NotReturned
  <2> QED
    BY <2>1, FsStays
<1>3. CASE UNCHANGED fsVars
  BY <1>3, FsStays DEF fsVars
<1> QED
  BY <1>1, <1>2, <1>3, FsReplaced DEF Interference

----------------------------------------------------------------------------
(* The inductive invariant of the walk.  Every node but the first is in the     *)
(* list of its own directory, which was read.                                 *)
NamesOK ==
  /\ names \in Seq(Objects) /\ Len(names) = Len(nodes)
  /\ 1 \in Ids => names[1] = Root /\ IsDir(1)
  /\ \A i, j \in Ids : names[i] = names[j] => i = j

ListsOK ==
  /\ \A d \in Ids : \A k \in ToSet(nodes[d].kids) :
       /\ k \in Ids /\ k # 1 /\ Up[names[k]] = names[d]
       /\ IsDir(d) /\ ~nodes[d].err
  /\ \A j \in Ids \ {1} : \E d \in Ids : j \in ToSet(nodes[d].kids)

(* What a node says its object is.                                            *)
SaysRight(o, kind) ==
  \/ \E n \in past[o] : kind = C!Promised(o, n)
  \/ kind = "Err" /\ o \in excused

KindsOK == \A j \in Ids \ {1} : SaysRight(names[j], nodes[j].etype)

(* The directory d has yet to be read; its entry o has yet to be looked at.     *)
Waiting(d) == \E l \in 1..Depth : open[l].id = d /\ ~todo[l].read
Awaits(d, o) == \E l \in 1..Depth : open[l].id = d /\ o \in todo[l].left

DirsOK ==
  \A d \in Ids : IsDir(d) /\ names[d] \notin excused =>
    /\ IsDirectory(names[d])
    /\ ~Waiting(d) => nodes[d].err = ~nature[names[d]].readable

Recorded(o) == \E j \in Ids : names[j] = o

CompleteOK ==
  \A d \in Ids : IsDir(d) /\ ~nodes[d].err /\ ~Waiting(d) =>
    \A o \in Objects \ ({Root} \cup excused) :
      Up[o] = names[d] => Recorded(o) \/ Awaits(d, o)

(* A call of scan_dir for the directory d, one of whose entries is o.          *)
CallType == [read : BOOLEAN, left : SUBSET Objects, pat : X!PatternSets]

LeftOK(o, d) == /\ o # Root /\ Up[o] = names[d] /\ o \in present \cup excused
                /\ ~Recorded(o)

CallOK(t, d) ==
  /\ \A o \in t.left : LeftOK(o, d)
  /\ ~t.read => t.left = {} /\ nodes[d].kids = <<>> /\ ~nodes[d].err
  /\ nodes[d].err => t.left = {}
  /\ t.pat = X!CarriedBy(C!PathTo(names[d]))

TodoOK ==
  /\ todo \in Seq(CallType) /\ Len(todo) = Depth
  /\ \A l \in 1..Depth : CallOK(todo[l], open[l].id)

PhaseOK ==
  /\ failed \in BOOLEAN
  /\ nodes # <<>> \/ failed => Configured
  /\ failed => nodes = <<>>

WalkOK == NamesOK /\ ListsOK /\ KindsOK /\ DirsOK /\ CompleteOK /\ TodoOK

SInv == IInv /\ X!IInv /\ FsOK /\ PhaseOK /\ WalkOK

LEMMA StateShape ==
  ASSUME IInv
  PROVE  /\ Depth \in Nat /\ Len(nodes) \in Nat /\ Len(open) = Depth
         /\ \A i \in Ids : nodes[i] \in NodeType /\ nodes[i].kids \in Seq(Nat)
         /\ \A l \in 1..Depth : open[l].id \in Ids /\ IsDir(open[l].id)
         /\ \A l, m \in 1..Depth : open[l].id = open[m].id => l = m
         /\ nodes = <<>> => Depth = 0 /\ Ids = {}
         /\ nodes # <<>> => 1 \in Ids
         /\ Depth > 0 => Depth \in 1..Depth /\ Top.id = open[Depth].id /\ nodes # <<>>
<1>1. TypeOK /\ StackOK(nodes, open)
  BY DEF IInv
<1>2. Depth \in Nat /\ Len(nodes) \in Nat /\ Len(open) = Depth
  BY <1>1, LenProperties DEF TypeOK, Depth
<1>3. \A i \in Ids : nodes[i] \in NodeType /\ nodes[i].kids \in Seq(Nat)
  <2>1. \A i \in Ids : nodes[i] \in NodeType
    BY <1>1, <1>2, ElementOfSeq DEF TypeOK, Ids
  <2> QED
    BY <2>1 DEF NodeType
<1>4. \A l \in 1..Depth : open[l].id \in Ids /\ IsDir(open[l].id)
  BY <1>1, <1>2 DEF TypeOK, StackOK, IsDir
<1>5. ASSUME NEW l \in 1..Depth, NEW m \in 1..Depth, open[l].id = open[m].id PROVE l = m
  <2>1. l < m => open[l].id < open[m].id
    BY <1>1, <1>2 DEF StackOK
  <2>2. m < l => open[m].id < open[l].id
    BY <1>1, <1>2 DEF StackOK
  <2>3. open[l].id \in Nat
    BY <1>4 DEF Ids
  <2> QED
    BY <1>2, <1>5, <2>1, <2>2, <2>3
<1>6. nodes = <<>> => Ids = {}
  BY DEF Ids
<1>7. nodes = <<>> => Depth = 0
  BY <1>2, <1>4, <1>6
<1>8. nodes # <<>> => 1 \in Ids
  BY <1>1, <1>2, EmptySeq DEF TypeOK, Ids
<1> QED
  BY <1>2, <1>3, <1>4, <1>5, <1>6, <1>7, <1>8 DEF Top

LEMMA InList ==
  /\ ToSet(<<>>) = {}
  /\ \A s \in Seq(Nat), x \in Nat : ToSet(Append(s, x)) = ToSet(s) \cup {x}
<1>1. ASSUME NEW s \in Seq(Nat), NEW x \in Nat
      PROVE  ToSet(Append(s, x)) = ToSet(s) \cup {x}
  <2>1. /\ Len(Append(s, x)) = Len(s) + 1 /\ Len(s) \in Nat
        /\ \A i \in 1..Len(s) : Append(s, x)[i] = s[i]
        /\ Append(s, x)[Len(s) + 1] = x
        /\ DOMAIN s = 1..Len(s) /\ DOMAIN Append(s, x) = 1..(Len(s) + 1)
    BY AppendProperties
  <2>2. \A y : y \in ToSet(Append(s, x)) <=> \E i \in 1..(Len(s) + 1) : y = Append(s, x)[i]
    BY <2>1 DEF ToSet
  <2>3. \A y : y \in ToSet(s) <=> \E i \in 1..Len(s) : y = s[i]
    BY <2>1 DEF ToSet
  <2> QED
    BY <2>1, <2>2, <2>3
<1>2. ToSet(<<>>) = {}
  <2>1. DOMAIN <<>> = {}
    OBVIOUS
  <2> QED
    BY <2>1 DEF ToSet
<1> QED
  BY <1>1, <1>2

(* The patterns do not change under the walk.                                  *)
LEMMA SamePatterns ==
  ASSUME UNCHANGED patternVars
  PROVE  /\ \A o, n : C!Promised(o, n)' = C!Promised(o, n)
         /\ \A ns : X!CarriedBy(ns)' = X!CarriedBy(ns)
         /\ UNCHANGED X!PatternSets
<1> USE DEF patternVars
<1>1. \A ns, name : C!Ex!Meaning(ns, name)' = C!Ex!Meaning(ns, name)
  BY DEF C!Ex!Meaning, C!Ex!Patterns, C!Ex!Excludes, C!Ex!FitsTail, C!Ex!Match,
         C!Ex!Anchored, C!Ex!DirOnly
<1>2. \A o, n : C!Promised(o, n)' = C!Promised(o, n)
  BY <1>1 DEF C!Promised
<1>3. \A ns : X!CarriedBy(ns)' = X!CarriedBy(ns)
  BY DEF X!CarriedBy, X!Pointers, X!Patterns, X!Carried, X!FitsTail, X!Match,
         X!Anchored, X!IsLast
<1> QED
  BY <1>2, <1>3 DEF X!PatternSets, X!Pointers, X!Patterns

(* A step that leaves the entries and their lists alone.                       *)
SameShape ==
  /\ names' = names /\ Len(nodes') = Len(nodes)
  /\ \A i \in Ids : /\ nodes'[i].etype = nodes[i].etype
                    /\ nodes'[i].kids = nodes[i].kids
                    /\ nodes[i].kids # <<>> => nodes'[i].err = nodes[i].err

LEMMA SameShapeKeeps ==
  ASSUME NamesOK, ListsOK, SameShape
  PROVE  NamesOK' /\ ListsOK' /\ \A o : Recorded(o)' <=> Recorded(o)
<1>1. Ids' = Ids /\ names' = names
  BY DEF SameShape, Ids
<1>2. NamesOK'
  BY <1>1 DEF NamesOK, SameShape, IsDir, Ids
<1>3. ListsOK'
  <2>1. ASSUME NEW d \in Ids, NEW k \in ToSet(nodes'[d].kids)
        PROVE  /\ k \in Ids /\ k # 1 /\ Up[names[k]] = names[d]
               /\ IsDir(d)' /\ ~nodes'[d].err
    <3>1. k \in ToSet(nodes[d].kids) /\ nodes[d].kids # <<>>
      BY <2>1, InList DEF SameShape
    <3> QED
      BY <3>1 DEF ListsOK, SameShape, IsDir
  <2>2. ASSUME NEW j \in Ids \ {1} PROVE \E d \in Ids : j \in ToSet(nodes'[d].kids)
    BY <2>2 DEF ListsOK, SameShape
  <2> QED
    BY <1>1, <2>1, <2>2 DEF ListsOK
<1> QED
  BY <1>1, <1>2, <1>3 DEF Recorded

LEMMA SameShapeKinds ==
  ASSUME NamesOK, KindsOK, SameShape, Interfered, UNCHANGED patternVars
  PROVE  KindsOK'
<1>1. Ids' = Ids /\ names' = names
  BY DEF SameShape, Ids
<1>2. ASSUME NEW j \in Ids \ {1} PROVE SaysRight(names[j], nodes[j].etype)'
  <2>1. names[j] \in Objects
    BY ElementOfSeq DEF NamesOK, Ids
  <2>2. past[names[j]] \subseteq past'[names[j]]
    BY <2>1 DEF Interfered
  <2>3. nodes'[j].etype = nodes[j].etype
    BY <1>2 DEF SameShape
  <2>4. SaysRight(names[j], nodes[j].etype)
    BY <1>2 DEF KindsOK
  <2>5. \A n : C!Promised(names[j], n)' = C!Promised(names[j], n)
    BY <1>1, SamePatterns
  <2> QED
    BY <1>1, <2>2, <2>3, <2>4, <2>5 DEF SaysRight, Interfered
<1> QED
  BY <1>1, <1>2 DEF KindsOK

(* A step that adds no node and looks into no directory: calls may return, and   *)
(* entries be skipped that are excused.                                        *)
Quiet ==
  /\ SameShape /\ \A i \in Ids : nodes'[i].err = nodes[i].err
  /\ Interfered /\ UNCHANGED patternVars
  /\ todo' \in Seq(CallType) /\ Len(todo') = Len(open') /\ Len(todo') <= Depth
  /\ \A l \in 1..Len(todo') :
       /\ open'[l].id = open[l].id
       /\ todo'[l].read = todo[l].read /\ todo'[l].pat = todo[l].pat
       /\ todo'[l].left \subseteq todo[l].left
       /\ \A o \in todo[l].left : o \in todo'[l].left \cup excused'
  /\ \A l \in 1..Depth : l > Len(todo') => todo[l].read /\ todo[l].left = {}

LEMMA QuietCalls ==
  ASSUME IInv, WalkOK, Quiet
  PROVE  /\ \A d : Waiting(d)' <=> Waiting(d)
         /\ \A d, o : Awaits(d, o) => Awaits(d, o)' \/ o \in excused'
<1>1. /\ Depth \in Nat /\ Len(todo') \in Nat /\ Depth' = Len(todo') /\ Len(todo') <= Depth
      /\ 1..Len(todo') \subseteq 1..Depth
  BY StateShape, LenProperties DEF Quiet, Depth
<1>2. ASSUME NEW d PROVE Waiting(d)' <=> Waiting(d)
  <2>1. Waiting(d)' <=> \E l \in 1..Len(todo') : open'[l].id = d /\ ~todo'[l].read
    BY <1>1 DEF Waiting
  <2>2. ASSUME NEW l \in 1..Depth, ~todo[l].read PROVE l \in 1..Len(todo')
    BY <1>1, <2>2 DEF Quiet
  <2> QED
    BY <1>1, <2>1, <2>2 DEF Waiting, Quiet
<1>3. ASSUME NEW d, NEW o, Awaits(d, o) PROVE Awaits(d, o)' \/ o \in excused'
  <2>1. Awaits(d, o)' <=> \E l \in 1..Len(todo') : open'[l].id = d /\ o \in todo'[l].left
    BY <1>1 DEF Awaits
  <2>2. PICK l \in 1..Depth : open[l].id = d /\ o \in todo[l].left
    BY <1>3 DEF Awaits
  <2>3. l \in 1..Len(todo')
    BY <1>1, <2>2 DEF Quiet
  <2> QED
    BY <2>1, <2>2, <2>3 DEF Quiet
<1> QED
  BY <1>2, <1>3

(* A directory is as it was unless it was interfered with.                      *)
LEMMA StillDirectory ==
  ASSUME Interfered, NEW o \in Objects, o \notin excused'
  PROVE  /\ o \notin excused /\ nature'[o] = nature[o]
         /\ IsDirectory(o) => IsDirectory(o)'
BY DEF Interfered, IsDirectory

LEMMA QuietDirs ==
  ASSUME IInv, WalkOK, Quiet
  PROVE  DirsOK' /\ CompleteOK'
<1>1. /\ Ids' = Ids /\ names' = names
      /\ \A i \in Ids : (IsDir(i)' <=> IsDir(i)) /\ nodes'[i].err = nodes[i].err
  BY DEF Quiet, SameShape, Ids, IsDir
<1>2. /\ \A d : Waiting(d)' <=> Waiting(d)
      /\ \A d, o : Awaits(d, o) => Awaits(d, o)' \/ o \in excused'
      /\ \A o : Recorded(o)' <=> Recorded(o)
  BY QuietCalls, SameShapeKeeps DEF WalkOK, Quiet
<1>3. \A d \in Ids : names[d] \in Objects
  BY ElementOfSeq DEF WalkOK, NamesOK, Ids
<1>4. ASSUME NEW d \in Ids, IsDir(d), names[d] \notin excused'
      PROVE  /\ IsDirectory(names[d])'
             /\ ~Waiting(d)' => nodes'[d].err = ~nature'[names[d]].readable
  <2>1. PICK o \in Objects : o = names[d]
    BY <1>3
  <2>3. /\ IsDirectory(o)
        /\ ~Waiting(d) => nodes[d].err = ~nature[o].readable
    BY <1>4, <2>1, StillDirectory DEF WalkOK, DirsOK, Quiet
  <2>4. IsDirectory(o)' /\ nature'[o] = nature[o]
    BY <1>4, <2>1, <2>3, StillDirectory DEF Quiet
  <2>5. IsDirectory(names[d])'
    BY <1>1, <2>1, <2>4 DEF IsDirectory
  <2> QED
    BY <1>1, <1>2, <2>1, <2>3, <2>4, <2>5
<1>5. DirsOK'
  BY <1>1, <1>4 DEF DirsOK
<1>6. ASSUME NEW d \in Ids, IsDir(d), ~nodes[d].err, ~Waiting(d),
             NEW o \in Objects \ ({Root} \cup excused'), Up[o] = names[d]
      PROVE  Recorded(o)' \/ Awaits(d, o)'
  <2>1. o \notin excused
    BY <1>6, StillDirectory DEF Quiet
  <2> QED
    BY <1>2, <1>6, <2>1 DEF WalkOK, CompleteOK
<1>7. CompleteOK'
  BY <1>1, <1>2, <1>6 DEF CompleteOK
<1> QED
  BY <1>5, <1>7

LEMMA CallStays ==
  ASSUME SameShape, \A i \in Ids : nodes'[i].err = nodes[i].err, NamesOK, ListsOK,
         Interfered, UNCHANGED patternVars, NEW d \in Ids, NEW t, CallOK(t, d)
  PROVE  CallOK(t, d)'
<1>1. ASSUME NEW o, LeftOK(o, d) PROVE LeftOK(o, d)'
  BY <1>1, SameShapeKeeps DEF LeftOK, Interfered, SameShape
<1>2. X!CarriedBy(C!PathTo(names[d]))' = X!CarriedBy(C!PathTo(names[d]))
  <2>1. names' = names
    BY DEF SameShape
  <2> QED
    BY <2>1, SamePatterns
<1> QED
  BY <1>1, <1>2 DEF CallOK, SameShape

LEMMA QuietKeeps ==
  ASSUME IInv, WalkOK, Quiet
  PROVE  WalkOK'
<1>1. NamesOK' /\ ListsOK' /\ KindsOK' /\ DirsOK' /\ CompleteOK'
  BY SameShapeKeeps, SameShapeKinds, QuietDirs DEF WalkOK, Quiet
<1>2. /\ Depth \in Nat /\ Len(todo') \in Nat /\ Depth' = Len(todo')
      /\ 1..Len(todo') \subseteq 1..Depth
  BY StateShape, LenProperties DEF Quiet, Depth
<1>3. todo' \in Seq(CallType')
  BY SamePatterns DEF Quiet, CallType
<1>4. ASSUME NEW l \in 1..Len(todo') PROVE CallOK(todo[l], open[l].id)'
  <2>1. PICK t, u, d : t = todo[l] /\ u = todo'[l] /\ d = open[l].id
    OBVIOUS
  <2>2. CallOK(t, d) /\ d \in Ids
    BY <1>2, <2>1, StateShape DEF WalkOK, TodoOK
  <2>3. CallOK(t, d)'
    BY <2>2, CallStays DEF WalkOK, Quiet
  <2>4. u.read = t.read /\ u.pat = t.pat /\ u.left \subseteq t.left /\ open'[l].id = d
    BY <2>1 DEF Quiet
  <2>5. CallOK(u, d)'
    BY <2>3, <2>4 DEF CallOK
  <2> QED
    BY <2>1, <2>4, <2>5 DEF CallOK, LeftOK, Recorded, Ids
<1>5. TodoOK'
  BY <1>2, <1>3, <1>4 DEF TodoOK
<1> QED
  BY <1>1, <1>5 DEF WalkOK

(* A call for the directory e begins: it will read the directory, or has done so *)
(* and knows its entries.                                                      *)
Starts(t, e) ==
  /\ t.pat = X!CarriedBy(C!PathTo(e))
  /\ ~t.read => t.left = {}
  /\ \A o \in t.left : o # Root /\ Up[o] = e /\ o \in present \cup excused
  /\ t.read /\ e \notin excused => nature[e].readable
  /\ t.read => \A o \in Objects \ ({Root} \cup excused) : Up[o] = e => o \in t.left

LEMMA UnreadStarts == \A e : Starts(Unread(X!CarriedBy(C!PathTo(e))), e)
BY DEF Starts, Unread

(* A turn of the loop for the entry e, of the kind k.                            *)
Entered(e, k) ==
  /\ PutsEntry(k) /\ names' = Append(names, e) /\ UNCHANGED <<treeVars, failed>>
  /\ e \in Objects /\ LeftOK(e, Top.id) /\ e \in todo[Depth].left
  /\ SaysRight(e, k)
  /\ k = "Dir" => e \in excused \/ IsDirectory(e)
  /\ todo' \in Seq(CallType) /\ Len(todo') = Len(open')
  /\ \A l \in 1..Depth :
       /\ todo'[l].read = todo[l].read /\ todo'[l].pat = todo[l].pat
       /\ todo'[l].left = IF l = Depth THEN todo[l].left \ {e} ELSE todo[l].left
  /\ k = "Dir" => Starts(todo'[Depth + 1], e)

LEMMA EnteredShape ==
  ASSUME IInv, WalkOK, NEW e, NEW k, Entered(e, k)
  PROVE  /\ Len(nodes) \in Nat /\ Len(nodes) # 0 /\ NewId = Len(nodes) + 1
         /\ Ids = 1..Len(nodes) /\ Ids' = Ids \cup {NewId} /\ NewId \notin Ids /\ NewId # 1
         /\ \A i \in Ids : names'[i] = names[i]
         /\ names'[NewId] = e /\ names' \in Seq(Objects) /\ Len(names') = NewId
         /\ \A i \in Ids : (IsDir(i)' <=> IsDir(i)) /\ nodes'[i].err = nodes[i].err
         /\ nodes'[NewId].etype = k
         /\ Top.id \in Ids /\ IsDir(Top.id) /\ ~nodes[Top.id].err
         /\ \A o : Recorded(o)' <=> Recorded(o) \/ o = e
<1>1. Len(nodes) \in Nat /\ Top.id \in Ids /\ IsDir(Top.id) /\ ~nodes[Top.id].err
  BY StateShape DEF Entered, PutsEntry
<1>2. NewId = Len(nodes) + 1 /\ Len(nodes') = NewId /\ Ids = 1..Len(nodes)
  BY DEF NewId, Ids, Entered, PutsEntry
<1>3. Ids' = Ids \cup {NewId} /\ NewId \notin Ids /\ NewId # 1 /\ Len(nodes) # 0
  BY <1>1, <1>2 DEF Ids
<1>4. /\ names \in Seq(Objects) /\ Len(names) = Len(nodes) /\ e \in Objects
      /\ names' = Append(names, e)
  BY DEF WalkOK, NamesOK, Entered
<1>5. /\ \A i \in Ids : names'[i] = names[i]
      /\ names'[NewId] = e /\ names' \in Seq(Objects) /\ Len(names') = NewId
  BY <1>2, <1>4, AppendProperties
<1>6. /\ \A i \in Ids : (IsDir(i)' <=> IsDir(i)) /\ nodes'[i].err = nodes[i].err
      /\ nodes'[NewId].etype = k
  BY DEF IsDir, Entered, PutsEntry
<1>7. \A o : Recorded(o)' <=> Recorded(o) \/ o = e
  BY <1>3, <1>5 DEF Recorded
<1> QED
  BY <1>1, <1>2, <1>3, <1>5, <1>6, <1>7

LEMMA EnteredNames ==
  ASSUME IInv, WalkOK, NEW e, NEW k, Entered(e, k)
  PROVE  NamesOK' /\ ListsOK'
<1> DEFINE new == NewId
<1>1. /\ Len(nodes) \in Nat /\ Ids = 1..Len(nodes) /\ Ids' = Ids \cup {new}
      /\ new \notin Ids /\ new # 1 /\ new \in Nat /\ 1 \in Ids
      /\ \A i \in Ids : names'[i] = names[i]
      /\ names'[new] = e /\ names' \in Seq(Objects) /\ Len(names') = new
      /\ \A i \in Ids : (IsDir(i)' <=> IsDir(i)) /\ nodes'[i].err = nodes[i].err
      /\ Top.id \in Ids /\ IsDir(Top.id) /\ ~nodes[Top.id].err
  BY EnteredShape
<1>2. /\ \A i \in Ids : nodes'[i].kids = IF i = Top.id THEN Append(nodes[i].kids, new)
                                         ELSE nodes[i].kids
      /\ nodes'[new].kids = <<>> /\ Len(nodes') = new
  BY DEF Entered, PutsEntry
<1>3. \A i \in Ids : names[i] # e
  BY DEF Entered, LeftOK, Recorded
<1>4. Up[e] = names[Top.id]
  BY DEF Entered, LeftOK
<1>5. \A d \in Ids : ToSet(nodes'[d].kids) = IF d = Top.id THEN ToSet(nodes[d].kids) \cup {new}
                                             ELSE ToSet(nodes[d].kids)
  <2>1. \A d \in Ids : ToSet(Append(nodes[d].kids, new)) = ToSet(nodes[d].kids) \cup {new}
    BY <1>1, StateShape, InList
  <2> HIDE DEF new
  <2> QED
    BY <1>2, <2>1
<1>6. ToSet(nodes'[new].kids) = {}
  BY <1>2, InList
<1> HIDE DEF new
<1>7. NamesOK'
  <2>1. \A i, j \in Ids' : names'[i] = names'[j] => i = j
    BY <1>1, <1>3 DEF WalkOK, NamesOK
  <2>2. names'[1] = Root /\ IsDir(1)'
    BY <1>1 DEF WalkOK, NamesOK
  <2> QED
    BY <1>1, <1>2, <2>1, <2>2 DEF NamesOK
<1>8. ASSUME NEW d \in Ids', NEW c \in ToSet(nodes'[d].kids)
      PROVE  /\ c \in Ids' /\ c # 1 /\ Up[names'[c]] = names'[d]
             /\ IsDir(d)' /\ ~nodes'[d].err
  <2>1. d \in Ids
    BY <1>1, <1>6, <1>8
  <2>2. CASE c \in ToSet(nodes[d].kids)
    <3>1. /\ c \in Ids /\ c # 1 /\ Up[names[c]] = names[d]
          /\ IsDir(d) /\ ~nodes[d].err
      BY <2>1, <2>2 DEF WalkOK, ListsOK
    <3> QED
      BY <1>1, <2>1, <3>1
  <2>3. CASE c \notin ToSet(nodes[d].kids)
    <3>1. d = Top.id /\ c = new
      BY <1>5, <1>8, <2>1, <2>3
    <3> QED
      BY <1>1, <1>4, <3>1
  <2> QED
    BY <2>2, <2>3
<1>9. ASSUME NEW j \in Ids' \ {1} PROVE \E d \in Ids' : j \in ToSet(nodes'[d].kids)
  <2>1. CASE j = new
    BY <1>1, <1>5, <2>1
  <2>2. CASE j # new
    <3>1. PICK d \in Ids : j \in ToSet(nodes[d].kids)
      BY <1>1, <1>9, <2>2 DEF WalkOK, ListsOK
    <3> QED
      BY <1>1, <1>5, <3>1
  <2> QED
    BY <2>1, <2>2
<1>10. ListsOK'
  BY <1>8, <1>9 DEF ListsOK
<1> QED
  BY <1>7, <1>10

LEMMA EnteredWaiting ==
  ASSUME IInv, WalkOK, NEW e, NEW k, Entered(e, k)
  PROVE  /\ \A d \in Ids : Waiting(d)' <=> Waiting(d)
         /\ \A d \in Ids : \A o : Awaits(d, o) => Awaits(d, o)' \/ o = e
         /\ k = "Dir" => \E d, t : /\ d = NewId /\ Starts(t, e)
                                   /\ Waiting(d)' <=> ~t.read
                                   /\ \A o \in t.left : Awaits(d, o)'
<1>1. /\ Depth \in Nat /\ Depth' = Len(open')
      /\ Len(open') = IF k = "Dir" THEN Depth + 1 ELSE Depth
      /\ \A l \in 1..Depth : open'[l].id = open[l].id
      /\ k = "Dir" => open'[Depth + 1].id = NewId
  BY StateShape DEF Entered, PutsEntry, Depth
<1>2. /\ \A l \in 1..Depth' : l \in 1..Depth \/ (k = "Dir" /\ l = Depth + 1)
      /\ 1..Depth \subseteq 1..Depth'
      /\ k = "Dir" => Depth + 1 \in 1..Depth'
  BY <1>1
<1>3. NewId \notin Ids
  BY EnteredShape
<1>4. ASSUME NEW d \in Ids PROVE Waiting(d)' <=> Waiting(d)
  <2>1. Waiting(d)' <=> \E l \in 1..Depth' : open'[l].id = d /\ ~todo'[l].read
    BY DEF Waiting
  <2> QED
    BY <1>1, <1>2, <1>3, <2>1 DEF Waiting, Entered
<1>5. ASSUME NEW d \in Ids, NEW o, Awaits(d, o) PROVE Awaits(d, o)' \/ o = e
  <2>1. Awaits(d, o)' <=> \E l \in 1..Depth' : open'[l].id = d /\ o \in todo'[l].left
    BY DEF Awaits
  <2>2. PICK l \in 1..Depth : open[l].id = d /\ o \in todo[l].left
    BY <1>5 DEF Awaits
  <2> QED
    BY <1>1, <1>2, <2>1, <2>2 DEF Entered
<1>6. ASSUME k = "Dir"
      PROVE  \E d, t : /\ d = NewId /\ Starts(t, e)
                       /\ Waiting(d)' <=> ~t.read
                       /\ \A o \in t.left : Awaits(d, o)'
  <2>1. PICK d, t : d = NewId /\ t = todo'[Depth + 1]
    OBVIOUS
  <2>2. /\ Waiting(d)' <=> \E l \in 1..Depth' : open'[l].id = d /\ ~todo'[l].read
        /\ \A o : Awaits(d, o)' <=> \E l \in 1..Depth' : open'[l].id = d /\ o \in todo'[l].left
    BY DEF Waiting, Awaits
  <2>3. Starts(t, e)
    BY <1>6, <2>1 DEF Entered
  <2>4. \A l \in 1..Depth' : open'[l].id = d <=> l = Depth + 1
    <3>1. \A l \in 1..Depth : open'[l].id # d
      BY <1>1, <1>3, <2>1, StateShape
    <3> QED
      BY <1>1, <1>2, <1>6, <2>1, <3>1
  <2>5. Depth + 1 \in 1..Depth'
    BY <1>2, <1>6
  <2> QED
    BY <2>1, <2>2, <2>3, <2>4, <2>5
<1> QED
  BY <1>4, <1>5, <1>6

LEMMA EnteredDirs ==
  ASSUME IInv, WalkOK, NEW e, NEW k, Entered(e, k)
  PROVE  KindsOK' /\ DirsOK' /\ CompleteOK'
<1> DEFINE new == NewId
<1>1. /\ Ids' = Ids \cup {new} /\ new \notin Ids
      /\ \A i \in Ids : names'[i] = names[i]
      /\ names'[new] = e /\ nodes'[new].etype = k
      /\ \A i \in Ids : (IsDir(i)' <=> IsDir(i)) /\ nodes'[i].err = nodes[i].err
      /\ \A o : Recorded(o)' <=> Recorded(o) \/ o = e
  BY EnteredShape
<1>2. /\ UNCHANGED fsVars /\ UNCHANGED patternVars
      /\ SaysRight(e, k) /\ (k = "Dir" => e \in excused \/ IsDirectory(e))
  BY DEF Entered, treeVars
<1>3. \A i \in Ids : nodes'[i].etype = nodes[i].etype
  BY DEF Entered, PutsEntry
<1>4. /\ \A d \in Ids : Waiting(d)' <=> Waiting(d)
      /\ \A d \in Ids : \A o : Awaits(d, o) => Awaits(d, o)' \/ o = e
      /\ k = "Dir" => \E d, t : /\ d = new /\ Starts(t, e)
                                /\ Waiting(d)' <=> ~t.read
                                /\ \A o \in t.left : Awaits(d, o)'
  BY EnteredWaiting
<1>err. nodes'[new].err = FALSE
  BY DEF Entered, PutsEntry
<1> HIDE DEF new
<1>dirs. \A d, x : d = x => (Waiting(d)' <=> Waiting(x)')
  BY DEF Waiting
<1>5. \A o, n : SaysRight(o, n)' <=> SaysRight(o, n)
  BY <1>2, SamePatterns DEF SaysRight, fsVars
<1>6. \A o : IsDirectory(o)' <=> IsDirectory(o)
  BY <1>2 DEF IsDirectory, fsVars
<1>7. KindsOK'
  <2>1. ASSUME NEW j \in Ids' \ {1} PROVE SaysRight(names[j], nodes[j].etype)'
    <3>1. PICK o, n : o = names'[j] /\ n = nodes'[j].etype
      OBVIOUS
    <3>2. SaysRight(o, n)
      BY <1>1, <1>2, <1>3, <2>1, <3>1 DEF WalkOK, KindsOK
    <3>3. SaysRight(o, n)'
      BY <1>5, <3>2
    <3> QED
      BY <3>1, <3>3 DEF SaysRight
  <2> QED
    BY <2>1 DEF KindsOK
<1>8. ASSUME NEW d \in Ids', IsDir(d)', names'[d] \notin excused'
      PROVE  /\ IsDirectory(names[d])'
             /\ ~Waiting(d)' => nodes'[d].err = ~nature'[names'[d]].readable
  <2>1. PICK o : o = names'[d]
    OBVIOUS
  <2>2. /\ IsDirectory(o)
        /\ ~Waiting(d)' => nodes'[d].err = ~nature[o].readable
    <3>1. CASE d \in Ids
      BY <1>1, <1>2, <1>4, <1>8, <2>1, <3>1 DEF WalkOK, DirsOK, fsVars
    <3>2. CASE d = new
      <4>1. k = "Dir"
        BY <1>1, <1>8, <3>2 DEF IsDir
      <4>2. PICK x, t : /\ x = new /\ Starts(t, e) /\ (Waiting(x)' <=> ~t.read)
        BY <1>4, <4>1
      <4>3. o = e /\ e \notin excused
        BY <1>1, <1>2, <1>8, <2>1, <3>2 DEF fsVars
      <4>4. nodes'[d].err = FALSE
        BY <1>err, <3>2
      <4>5. Waiting(d)' \/ nature[e].readable = TRUE
        BY <1>dirs, <3>2, <4>2, <4>3 DEF Starts
      <4> QED
        BY <1>2, <3>2, <4>1, <4>3, <4>4, <4>5
    <3> QED
      BY <1>1, <3>1, <3>2
  <2>3. IsDirectory(o)' /\ nature' = nature
    BY <1>2, <1>6, <2>2 DEF fsVars
  <2> QED
    BY <2>1, <2>2, <2>3 DEF IsDirectory
<1>9. DirsOK'
  BY <1>8 DEF DirsOK
<1>10. ASSUME NEW d \in Ids', IsDir(d)', ~nodes'[d].err, ~Waiting(d)',
              NEW o \in Objects \ ({Root} \cup excused'), Up[o] = names'[d]
       PROVE  Recorded(o)' \/ Awaits(d, o)'
  <2>1. CASE d \in Ids
    <3>1. Recorded(o) \/ Awaits(d, o)
      BY <1>1, <1>2, <1>4, <1>10, <2>1 DEF WalkOK, CompleteOK, fsVars
    <3> QED
      BY <1>1, <1>4, <2>1, <3>1
  <2>2. CASE d = new
    <3>1. k = "Dir" /\ Up[o] = e /\ o \notin excused
      BY <1>1, <1>2, <1>10, <2>2 DEF IsDir, fsVars
    <3>2. PICK x, t : /\ x = new /\ Starts(t, e) /\ (Waiting(x)' <=> ~t.read)
                      /\ \A p \in t.left : Awaits(x, p)'
      BY <1>4, <3>1
    <3>3. o \in t.left
      BY <1>dirs, <1>10, <2>2, <3>1, <3>2 DEF Starts
    <3>4. Awaits(x, o)'
      BY <3>2, <3>3
    <3> QED
      BY <2>2, <3>2, <3>4 DEF Awaits
  <2> QED
    BY <1>1, <2>1, <2>2
<1>11. CompleteOK'
  BY <1>10 DEF CompleteOK
<1> QED
  BY <1>7, <1>9, <1>11

(* What is in a directory that is not recorded is not recorded either.           *)
LEMMA NothingBelow ==
  ASSUME NamesOK, ListsOK, NEW e \in Objects, ~Recorded(e),
         NEW o \in Objects \ {Root}, Up[o] = e
  PROVE  ~Recorded(o) /\ o # e
<1>1. o # e
  BY Levels
<1>2. SUFFICES ASSUME NEW j \in Ids, names[j] = o PROVE FALSE
  BY <1>1 DEF Recorded
<1>3. j # 1
  BY <1>2 DEF NamesOK
<1>4. PICK d \in Ids : j \in ToSet(nodes[d].kids)
  BY <1>2, <1>3 DEF ListsOK
<1>5. Up[names[j]] = names[d]
  BY <1>4 DEF ListsOK
<1> QED
  BY <1>2, <1>5 DEF Recorded

LEMMA EnteredTodo ==
  ASSUME IInv, WalkOK, NEW e, NEW k, Entered(e, k)
  PROVE  TodoOK'
<1> DEFINE new == NewId
<1>1. /\ \A i \in Ids : names'[i] = names[i]
      /\ names'[new] = e
      /\ \A i \in Ids : nodes'[i].err = nodes[i].err
      /\ \A o : Recorded(o)' <=> Recorded(o) \/ o = e
  BY EnteredShape
<1>2. /\ UNCHANGED fsVars /\ UNCHANGED patternVars
      /\ Len(todo') = Len(open') /\ todo' \in Seq(CallType)
      /\ e \in todo[Depth].left /\ Up[e] = names[Top.id]
      /\ \A l \in 1..Depth :
           /\ todo'[l].read = todo[l].read /\ todo'[l].pat = todo[l].pat
           /\ todo'[l].left = IF l = Depth THEN todo[l].left \ {e} ELSE todo[l].left
      /\ k = "Dir" => Starts(todo'[Depth + 1], e)
  BY DEF Entered, treeVars, LeftOK
<1>3. /\ \A i \in Ids : nodes'[i].kids = IF i = Top.id THEN Append(nodes[i].kids, new)
                                         ELSE nodes[i].kids
      /\ nodes'[new].kids = <<>> /\ nodes'[new].err = FALSE
  BY DEF Entered, PutsEntry
<1>4. /\ Depth \in Nat /\ Depth' = Len(open')
      /\ Len(open') = IF k = "Dir" THEN Depth + 1 ELSE Depth
      /\ \A l \in 1..Depth : open'[l].id = open[l].id
      /\ k = "Dir" => open'[Depth + 1].id = new
      /\ Depth > 0
  BY StateShape DEF Entered, PutsEntry, Depth
<1>5. /\ \A l \in 1..Depth : open[l].id \in Ids
      /\ \A l, m \in 1..Depth : open[l].id = open[m].id => l = m
      /\ Depth \in 1..Depth /\ Top.id = open[Depth].id
  BY <1>4, StateShape
<1> HIDE DEF new
<1>6. ASSUME NEW l \in 1..Depth PROVE CallOK(todo[l], open[l].id)'
  <2>1. PICK t, u, d : t = todo[l] /\ u = todo'[l] /\ d = open[l].id
    OBVIOUS
  <2>2. CallOK(t, d) /\ d \in Ids
    BY <1>5, <2>1 DEF WalkOK, TodoOK
  <2>3. /\ u.read = t.read /\ u.pat = t.pat /\ open'[l].id = d
        /\ u.left = IF l = Depth THEN t.left \ {e} ELSE t.left
    BY <1>2, <1>4, <2>1
  <2>4. e \notin u.left
    <3>1. CASE l = Depth
      BY <2>3, <3>1
    <3>2. ASSUME e \in t.left PROVE l = Depth
      <4>1. names[d] = names[Top.id]
        BY <1>2, <2>2, <3>2 DEF CallOK, LeftOK
      <4>2. d = Top.id
        BY <1>5, <2>2, <4>1 DEF WalkOK, NamesOK
      <4> QED
        BY <1>5, <2>1, <4>2
    <3> QED
      BY <2>3, <3>1, <3>2
  <2>5. \A o \in u.left : LeftOK(o, d)'
    BY <1>1, <1>2, <2>2, <2>3, <2>4 DEF CallOK, LeftOK, fsVars
  <2>6. ~u.read => u.left = {} /\ nodes'[d].kids = <<>> /\ ~nodes'[d].err
    <3> SUFFICES ASSUME ~u.read PROVE u.left = {} /\ nodes'[d].kids = <<>> /\ ~nodes'[d].err
      OBVIOUS
    <3>1. t.left = {} /\ nodes[d].kids = <<>> /\ ~nodes[d].err
      BY <2>2, <2>3 DEF CallOK
    <3>2. l # Depth
      BY <1>2, <2>1, <3>1
    <3>3. d # Top.id
      BY <1>5, <2>1, <3>2
    <3> QED
      BY <1>1, <1>3, <2>2, <2>3, <3>1, <3>3
  <2>7. nodes'[d].err => u.left = {}
    BY <1>1, <2>2, <2>3 DEF CallOK
  <2>8. u.pat = X!CarriedBy(C!PathTo(names[d]))'
    <3>1. u.pat = X!CarriedBy(C!PathTo(names[d]))
      BY <2>2, <2>3 DEF CallOK
    <3>2. names'[d] = names[d]
      BY <1>1, <2>2
    <3> QED
      BY <1>2, <3>1, <3>2, SamePatterns
  <2>9. CallOK(u, d)'
    BY <2>5, <2>6, <2>7, <2>8 DEF CallOK
  <2> QED
    BY <2>1, <2>3, <2>9 DEF CallOK, LeftOK, Recorded, Ids
<1>7. ASSUME k = "Dir", NEW l, l = Depth + 1 PROVE CallOK(todo[l], open[l].id)'
  <2>1. PICK u, d : u = todo'[l] /\ d = open'[l].id
    OBVIOUS
  <2>2. Starts(u, e) /\ d = new /\ e \in Objects
    BY <1>2, <1>4, <1>7, <2>1 DEF Entered
  <2>3. u.pat = X!CarriedBy(C!PathTo(names[d]))'
    <3>1. u.pat = X!CarriedBy(C!PathTo(e))
      BY <2>2 DEF Starts
    <3> QED
      BY <1>1, <1>2, <2>2, <3>1, SamePatterns
  <2>5. ASSUME NEW o \in u.left, o \in Objects PROVE LeftOK(o, d)'
    <3>1. o # Root /\ Up[o] = e /\ o \in present \cup excused
      BY <2>2, <2>5 DEF Starts
    <3>2. ~Recorded(e)
      BY DEF Entered, LeftOK
    <3>3. ~Recorded(o) /\ o # e
      BY <2>2, <2>5, <3>1, <3>2, NothingBelow DEF WalkOK
    <3>4. ~Recorded(o)'
      BY <1>1, <3>3
    <3>5. names'[d] = e
      BY <1>1, <2>2
    <3> QED
      BY <1>2, <3>1, <3>4, <3>5 DEF LeftOK, fsVars
  <2>6. u.left \subseteq Objects
    <3>1. Depth + 1 \in 1..Len(todo')
      BY <1>2, <1>4, <1>7
    <3>2. u \in CallType
      BY <1>2, <1>7, <2>1, <3>1, ElementOfSeq
    <3> QED
      BY <3>2 DEF CallType
  <2>4. CallOK(u, d)'
    <3>1. nodes'[d].kids = <<>> /\ nodes'[d].err = FALSE
      BY <1>3, <2>2
    <3>2. \A o \in u.left : LeftOK(o, d)'
      BY <2>5, <2>6
    <3> QED
      BY <2>2, <2>3, <3>1, <3>2 DEF CallOK, Starts
  <2> QED
    BY <2>1, <2>4 DEF CallOK, LeftOK, Recorded, Ids
<1>8. todo' \in Seq(CallType')
  BY <1>2, SamePatterns DEF CallType
<1> QED
  BY <1>2, <1>4, <1>6, <1>7, <1>8 DEF TodoOK

LEMMA EnteredKeeps ==
  ASSUME IInv, WalkOK, NEW e, NEW k, Entered(e, k)
  PROVE  WalkOK'
BY EnteredNames, EnteredDirs, EnteredTodo DEF WalkOK

----------------------------------------------------------------------------
(* The steps of the walk.                                                      *)
LEMMA CarriedType == \A ns : X!CarriedBy(ns) \in X!PatternSets
BY DEF X!CarriedBy, X!PatternSets

(* The matcher answers for an entry what the patterns mean for its path, and     *)
(* what is carried into a subdirectory is right again.                         *)
LEMMA Answers ==
  ASSUME X!IInv, NEW o \in Objects \ {Root}
  PROVE  LET pat == X!CarriedBy(C!PathTo(Up[o]))
         IN  /\ Ex!Matches(pat, NameOf[o]) = C!Ex!Meaning(C!PathTo(Up[o]), NameOf[o])
             /\ SubPat(pat, o) = X!CarriedBy(C!PathTo(o))
<1>1. X!Stored
  BY DEF X!IInv, X!Typed, X!Stored
<1>2. /\ Up[o] \in Objects /\ NameOf[o] \in X!PathNames
      /\ C!PathTo(Up[o]) \in Seq(X!PathNames) /\ C!PathTo(o) = Append(C!PathTo(Up[o]), NameOf[o])
  BY PathUnfolds, SamePathNames, FileTreeAssumption
<1>3. PICK ns \in Seq(X!PathNames), name \in X!PathNames : ns = C!PathTo(Up[o]) /\ name = NameOf[o]
  BY <1>2, Zenon
<1>4. X!Matches(X!CarriedBy(ns), name) = X!Meaning(ns, name)
  BY <1>1, PatternsTyped, X!MatchesMeans
<1>5. X!Enter(X!CarriedBy(ns), name) = X!CarriedBy(Append(ns, name))
  BY <1>1, PatternsTyped, X!EnterCarries
<1> QED
  BY <1>2, <1>3, <1>4, <1>5, SameMatcher DEF SubPat

LEMMA ClassRight ==
  ASSUME FsOK, NEW e \in Objects \ {Root}, e \in present \cup excused,
         NEW answer, answer = C!Ex!Meaning(C!PathTo(Up[e]), NameOf[e]),
         NEW k, k = Class(nature[e], e \in present, answer)
  PROVE  SaysRight(e, k) /\ (k = "Dir" => IsDirectory(e))
<1>1. nature[e] \in past[e] /\ nature[e] \in Nature
  BY FileTreeAssumption DEF FsOK
<1>2. PICK n \in Nature : n = nature[e]
  BY <1>1
<1>3. nature[e].kind \in {"Dir", "Reg", "NonReg", "Link"}
  BY <1>1 DEF Nature
<1>4. CASE e \in present
  <2>1. k = C!Promised(e, nature[e])
    BY <1>3, <1>4 DEF Class, C!Promised
  <2>2. k = "Dir" => nature[e].kind = "Dir"
    BY DEF Class
  <2> QED
    BY <1>1, <1>4, <2>1, <2>2 DEF SaysRight, IsDirectory
<1>5. CASE e \notin present
  <2>1. k = "Err" \/ k = C!Promised(e, nature[e])
    BY <1>5 DEF Class, C!Promised
  <2>2. k # "Dir"
    BY <1>5 DEF Class
  <2> QED
    BY <1>1, <1>5, <2>1, <2>2 DEF SaysRight
<1> QED
  BY <1>4, <1>5

LEMMA CallChanged ==
  ASSUME NEW ts \in Seq(CallType), NEW n \in 1..Len(ts), NEW t \in CallType
  PROVE  /\ [ts EXCEPT ![n] = t] \in Seq(CallType) /\ Len([ts EXCEPT ![n] = t]) = Len(ts)
         /\ \A l \in 1..Len(ts) : [ts EXCEPT ![n] = t][l] = IF l = n THEN t ELSE ts[l]
BY ExceptSeq

LEMMA EntryShape ==
  ASSUME IInv, WalkOK, Depth > 0, NEW e
  PROVE  /\ Without(e) \in Seq(CallType) /\ Len(Without(e)) = Depth
         /\ \A l \in 1..Depth :
              /\ Without(e)[l].read = todo[l].read /\ Without(e)[l].pat = todo[l].pat
              /\ Without(e)[l].left = IF l = Depth THEN todo[l].left \ {e} ELSE todo[l].left
<1> DEFINE t == [todo[Depth] EXCEPT !.left = @ \ {e}]
<1>1. todo \in Seq(CallType) /\ Len(todo) = Depth /\ Depth \in 1..Len(todo)
  BY StateShape DEF WalkOK, TodoOK
<1>2. todo[Depth] \in CallType
  BY <1>1, ElementOfSeq
<1>3. /\ t \in CallType /\ t.read = todo[Depth].read /\ t.pat = todo[Depth].pat
      /\ t.left = todo[Depth].left \ {e}
  BY <1>2 DEF CallType
<1>4. Without(e) = [todo EXCEPT ![Depth] = t]
  BY DEF Without
<1> HIDE DEF t
<1>5. t \in CallType
  BY <1>3
<1>6. /\ Without(e) \in Seq(CallType) /\ Len(Without(e)) = Depth
      /\ \A l \in 1..Depth : Without(e)[l] = IF l = Depth THEN t ELSE todo[l]
  BY <1>1, <1>4, <1>5, CallChanged
<1> QED
  BY <1>3, <1>6

LEMMA EntryEnters ==
  ASSUME SInv, Depth > 0, NEW e \in todo[Depth].left, Entry(e)
  PROVE  \E k : Entered(e, k) /\ Next
<1>1. /\ IInv /\ WalkOK /\ X!IInv /\ FsOK /\ TypeOK
      /\ Depth \in 1..Depth /\ Top.id = open[Depth].id
  BY StateShape DEF SInv, IInv
<1>2. CallOK(todo[Depth], Top.id) /\ todo \in Seq(CallType) /\ Len(todo) = Depth
  BY <1>1 DEF WalkOK, TodoOK
<1>3. /\ e \in Objects \ {Root} /\ LeftOK(e, Top.id) /\ Up[e] = names[Top.id]
      /\ e \in present \cup excused
      /\ todo[Depth].pat = X!CarriedBy(C!PathTo(Up[e]))
  <2>1. todo[Depth] \in CallType
    BY <1>1, <1>2, ElementOfSeq
  <2> QED
    BY <1>2, <2>1 DEF CallOK, LeftOK, CallType
<1> DEFINE pat == todo[Depth].pat
           answer == Ex!Matches(pat, NameOf[e])
           k == Class(nature[e], e \in present, answer)
<1>4. /\ answer = C!Ex!Meaning(C!PathTo(Up[e]), NameOf[e])
      /\ SubPat(pat, e) = X!CarriedBy(C!PathTo(e))
  BY <1>1, <1>3, Answers
<1>5. SaysRight(e, k) /\ (k = "Dir" => IsDirectory(e))
  <2> HIDE DEF answer
  <2> QED  BY <1>1, <1>3, <1>4, ClassRight
<1>6. /\ \/ k \in Specials /\ AddSpecial(k) /\ todo' = Without(e)
         \/ k \in FileTypes /\ (\E b \in Blocks : AddStat(k, b)) /\ todo' = Without(e)
         \/ /\ k = "Dir" /\ \E b \in Blocks, v \in Devs : AddDir(b, v)
            /\ todo' = Append(Without(e), Unread(SubPat(pat, e)))
      /\ names' = Append(names, e) /\ UNCHANGED <<treeVars, failed>>
  BY DEF Entry
<1> HIDE DEF k
<1>7. PutsEntry(k) /\ Next
  BY <1>1, <1>6, AddsPut
<1>8. Len(open') = IF k = "Dir" THEN Depth + 1 ELSE Depth
  BY <1>7 DEF PutsEntry
<1>9. /\ Without(e) \in Seq(CallType) /\ Len(Without(e)) = Depth
      /\ \A l \in 1..Depth :
           /\ Without(e)[l].read = todo[l].read /\ Without(e)[l].pat = todo[l].pat
           /\ Without(e)[l].left = IF l = Depth THEN todo[l].left \ {e} ELSE todo[l].left
  BY <1>1, EntryShape
<1>10. Unread(SubPat(pat, e)) = Unread(X!CarriedBy(C!PathTo(e)))
  BY <1>4
<1>11. /\ todo' \in Seq(CallType) /\ Len(todo') = Len(open')
       /\ \A l \in 1..Depth : todo'[l] = Without(e)[l]
       /\ k = "Dir" => Starts(todo'[Depth + 1], e)
  <2>1. CASE todo' = Without(e) /\ k # "Dir"
    BY <1>8, <1>9, <2>1
  <2>2. CASE k = "Dir" /\ todo' = Append(Without(e), Unread(SubPat(pat, e)))
    <3> DEFINE t == Unread(X!CarriedBy(C!PathTo(e)))
    <3>1. t \in CallType
      BY CarriedType DEF Unread, CallType
    <3>2. todo' = Append(Without(e), t)
      BY <1>10, <2>2
    <3> HIDE DEF t
    <3>3. /\ todo' \in Seq(CallType) /\ Len(todo') = Depth + 1
          /\ \A l \in 1..Depth : todo'[l] = Without(e)[l]
          /\ todo'[Depth + 1] = t
      BY <1>9, <3>1, <3>2, AppendProperties
    <3>4. Starts(t, e)
      BY UnreadStarts DEF t
    <3> QED
      BY <1>8, <2>2, <3>3, <3>4
  <2> QED
    BY <1>6, <2>1, <2>2 DEF Specials, FileTypes
<1>12. Entered(e, k)
  BY <1>3, <1>5, <1>6, <1>7, <1>9, <1>11 DEF Entered
<1> QED
  BY <1>7, <1>12

(* read_dir on the innermost directory returned the entries L, or failed.        *)
Looked(L) ==
  /\ SameShape /\ \A i \in Ids \ {Top.id} : nodes'[i].err = nodes[i].err
  /\ UNCHANGED <<treeVars, failed, open>>
  /\ Depth > 0 /\ ~todo[Depth].read
  /\ todo' \in Seq(CallType) /\ Len(todo') = Depth
  /\ \A l \in 1..Depth : /\ todo'[l].pat = todo[l].pat
                         /\ l # Depth => todo'[l] = todo[l]
  /\ todo'[Depth].read = TRUE /\ todo'[Depth].left = L
  /\ \/ CanRead(Dir) /\ L = Listed(Dir) /\ nodes'[Top.id].err = FALSE
     \/ /\ Dir \in excused \/ ~nature[Dir].readable
        /\ L = {} /\ nodes'[Top.id].err = TRUE

LEMMA ErrorShape ==
  ASSUME IInv, WalkOK, Depth > 0, ~todo[Depth].read, SetReadError, UNCHANGED names
  PROVE  /\ SameShape /\ UNCHANGED open
         /\ \A i \in Ids \ {Top.id} : nodes'[i].err = nodes[i].err
         /\ nodes'[Top.id].err = TRUE
<1>1. /\ TypeOK /\ Depth \in 1..Depth /\ Top.id = open[Depth].id /\ Top.id \in Ids
  BY StateShape DEF IInv
<1>2. nodes[Top.id].kids = <<>>
  BY <1>1 DEF WalkOK, TodoOK, CallOK
<1> DEFINE n == [nodes[Top.id] EXCEPT !.err = TRUE]
<1>3. /\ n.etype = nodes[Top.id].etype /\ n.kids = <<>> /\ n.err = TRUE
  BY <1>1, <1>2, StateShape DEF NodeType
<1>4. /\ Len(nodes') = Len(nodes)
      /\ \A i \in Ids : nodes'[i] = IF i = Top.id THEN n ELSE nodes[i]
  BY <1>1, SetReadErrorEffect
<1> HIDE DEF n
<1>5. SameShape
  BY <1>2, <1>3, <1>4 DEF SameShape
<1> QED
  BY <1>1, <1>3, <1>4, <1>5 DEF SetReadError

LEMMA ReadDirLooks ==
  ASSUME SInv, ReadDir
  PROVE  (\E L : Looked(L)) /\ [Next]_vars
<1>1. /\ IInv /\ WalkOK /\ FsOK /\ TypeOK
      /\ Depth \in 1..Depth /\ Top.id = open[Depth].id /\ Top.id \in Ids /\ Depth > 0
      /\ ~todo[Depth].read
  BY StateShape DEF SInv, IInv, ReadDir
<1>2. /\ CallOK(todo[Depth], Top.id) /\ todo \in Seq(CallType) /\ Len(todo) = Depth
      /\ Depth \in 1..Len(todo)
  BY <1>1 DEF WalkOK, TodoOK
<1>3. /\ todo[Depth] \in CallType /\ todo[Depth].left = {}
      /\ nodes[Top.id].kids = <<>> /\ ~nodes[Top.id].err
      /\ nodes[Top.id].err = FALSE
  <2>1. nodes[Top.id].err \in BOOLEAN
    BY <1>1, StateShape DEF NodeType
  <2> QED
    BY <1>1, <1>2, <2>1, ElementOfSeq DEF CallOK
<1>4. UNCHANGED <<treeVars, names, failed>>
  BY DEF ReadDir
<1>5. CASE CanRead(Dir) /\ UNCHANGED vars
           /\ todo' = [todo EXCEPT ![Depth].read = TRUE, ![Depth].left = Listed(Dir)]
  <2> DEFINE t == [todo[Depth] EXCEPT !.read = TRUE, !.left = Listed(Dir)]
  <2>1. Listed(Dir) \subseteq Objects
    BY <1>1 DEF Listed, FsOK
  <2>2. /\ t \in CallType /\ t.read = TRUE /\ t.left = Listed(Dir)
        /\ t.pat = todo[Depth].pat
    BY <1>3, <2>1 DEF CallType
  <2>3. todo' = [todo EXCEPT ![Depth] = t]
    BY <1>2, <1>5
  <2> HIDE DEF t
  <2>4. /\ todo' \in Seq(CallType) /\ Len(todo') = Depth
        /\ \A l \in 1..Depth : todo'[l] = IF l = Depth THEN t ELSE todo[l]
    BY <1>2, <2>2, <2>3, CallChanged
  <2>5. SameShape /\ UNCHANGED open /\ \A i \in Ids : nodes'[i].err = nodes[i].err
    BY <1>4, <1>5 DEF vars, SameShape
  <2>6. Looked(Listed(Dir))
    BY <1>1, <1>3, <1>4, <1>5, <2>2, <2>4, <2>5 DEF Looked
  <2> QED
    BY <1>5, <2>6
<1>6. CASE ~CanRead(Dir) /\ SetReadError /\ todo' = [todo EXCEPT ![Depth].read = TRUE]
  <2> DEFINE t == [todo[Depth] EXCEPT !.read = TRUE]
  <2>2. t \in CallType /\ t.read = TRUE /\ t.left = {} /\ t.pat = todo[Depth].pat
    BY <1>3 DEF CallType
  <2>3. todo' = [todo EXCEPT ![Depth] = t]
    BY <1>6
  <2>4. /\ SameShape /\ UNCHANGED open
        /\ \A i \in Ids \ {Top.id} : nodes'[i].err = nodes[i].err
        /\ nodes'[Top.id].err = TRUE
    BY <1>1, <1>4, <1>6, ErrorShape
  <2> HIDE DEF t
  <2>6. /\ todo' \in Seq(CallType) /\ Len(todo') = Depth
        /\ \A l \in 1..Depth : todo'[l] = IF l = Depth THEN t ELSE todo[l]
    BY <1>2, <2>2, <2>3, CallChanged
  <2>10. Dir \in excused \/ ~nature[Dir].readable
    BY <1>1, <1>6, StateShape DEF WalkOK, DirsOK, Dir, CanRead
  <2>9. Looked({})
    BY <1>1, <1>4, <1>6, <2>2, <2>4, <2>6, <2>10 DEF Looked
  <2> QED
    BY <1>6, <2>9 DEF Next
<1> QED
  BY <1>5, <1>6 DEF ReadDir

LEMMA LookedWaiting ==
  ASSUME IInv, WalkOK, NEW L, Looked(L)
  PROVE  /\ \A d \in Ids \ {Top.id} : Waiting(d)' <=> Waiting(d)
         /\ \A d \in Ids \ {Top.id} : \A o : Awaits(d, o) => Awaits(d, o)'
         /\ \A o \in L : \E d : d = Top.id /\ Awaits(d, o)'
<1>1. /\ Depth \in 1..Depth /\ Depth' = Depth /\ Top.id = open[Depth].id /\ open' = open
  BY StateShape DEF Looked, Depth
<1>2. \A d : Waiting(d)' <=> \E l \in 1..Depth : open[l].id = d /\ ~todo'[l].read
  BY <1>1 DEF Waiting
<1>3. \A d, o : Awaits(d, o)' <=> \E l \in 1..Depth : open[l].id = d /\ o \in todo'[l].left
  BY <1>1 DEF Awaits
<1> QED
  BY <1>1, <1>2, <1>3 DEF Waiting, Awaits, Looked

LEMMA LookedDirs ==
  ASSUME IInv, WalkOK, FsOK, NEW L, Looked(L)
  PROVE  DirsOK' /\ CompleteOK'
<1>1. /\ Ids' = Ids /\ names' = names /\ UNCHANGED fsVars
      /\ \A i \in Ids : (IsDir(i)' <=> IsDir(i)) /\ (i # Top.id => nodes'[i].err = nodes[i].err)
      /\ \A o : Recorded(o)' <=> Recorded(o)
      /\ \A o : IsDirectory(o)' <=> IsDirectory(o)
  <2>1. SameShape /\ UNCHANGED fsVars
    BY DEF Looked, treeVars
  <2>2. \A o : Recorded(o)' <=> Recorded(o)
    BY <2>1, SameShapeKeeps DEF WalkOK
  <2> QED
    BY <2>1, <2>2 DEF SameShape, Ids, IsDir, Looked, IsDirectory, fsVars
<1>2. \A d \in Ids : names[d] \in Objects
  BY ElementOfSeq DEF WalkOK, NamesOK, Ids
<1>3. \A o \in Objects : nature[o].readable \in BOOLEAN
  BY FileTreeAssumption DEF FsOK, Nature
<1>4. ASSUME NEW d \in Ids, IsDir(d), names[d] \notin excused
      PROVE  /\ IsDirectory(names[d])'
             /\ ~Waiting(d)' => nodes'[d].err = ~nature'[names[d]].readable
  <2>1. PICK o \in Objects : o = names[d]
    BY <1>2
  <2>2. IsDirectory(o) /\ (~Waiting(d) => nodes[d].err = ~nature[o].readable)
    BY <1>4, <2>1 DEF WalkOK, DirsOK
  <2>3. CASE d = Top.id
    <3>1. Dir = o
      BY <2>1, <2>3 DEF Dir
    <3>2. CASE CanRead(Dir) /\ nodes'[d].err = FALSE
      <4>1. nature[o].readable
        BY <3>1, <3>2 DEF CanRead
      <4> QED
        BY <1>1, <2>1, <2>2, <3>2, <4>1 DEF fsVars, IsDirectory
    <3>3. CASE (Dir \in excused \/ ~nature[Dir].readable) /\ nodes'[d].err = TRUE
      <4>1. ~nature[o].readable
        BY <1>4, <2>1, <3>1, <3>3
      <4> QED
        BY <1>1, <2>1, <2>2, <3>3, <4>1 DEF fsVars, IsDirectory
    <3> QED
      BY <2>3, <3>2, <3>3 DEF Looked
  <2>4. CASE d # Top.id
    BY <1>1, <2>1, <2>2, <2>4, LookedWaiting DEF fsVars, IsDirectory
  <2> QED
    BY <2>3, <2>4
<1>5. DirsOK'
  BY <1>1, <1>4 DEF DirsOK, fsVars
<1>6. ASSUME NEW d \in Ids, IsDir(d), ~nodes'[d].err, ~Waiting(d)',
             NEW o \in Objects \ ({Root} \cup excused), Up[o] = names[d]
      PROVE  Recorded(o)' \/ Awaits(d, o)'
  <2>1. CASE d = Top.id
    <3>1. Dir = Up[o] /\ CanRead(Dir) /\ L = Listed(Dir)
      BY <1>6, <2>1 DEF Looked, Dir
    <3>2. o \in present
      BY <1>6, <3>1 DEF FsOK, CanRead
    <3>3. o \in L
      BY <1>6, <3>1, <3>2 DEF Listed
    <3> QED
      BY <2>1, <3>3, LookedWaiting
  <2>2. CASE d # Top.id
    <3>1. Recorded(o) \/ Awaits(d, o)
      BY <1>1, <1>6, <2>2, LookedWaiting DEF WalkOK, CompleteOK
    <3> QED
      BY <1>1, <2>2, <3>1, LookedWaiting
  <2> QED
    BY <2>1, <2>2
<1>7. CompleteOK'
  BY <1>1, <1>6 DEF CompleteOK, fsVars
<1> QED
  BY <1>5, <1>7

LEMMA LookedTodo ==
  ASSUME IInv, WalkOK, FsOK, NEW L, Looked(L)
  PROVE  TodoOK'
<1>1. /\ SameShape /\ UNCHANGED fsVars /\ UNCHANGED patternVars
      /\ names' = names /\ Len(nodes') = Len(nodes) /\ Ids' = Ids
  BY DEF Looked, treeVars, SameShape, Ids
<1>2. /\ Depth \in 1..Depth /\ Depth' = Depth /\ Top.id = open[Depth].id /\ open' = open
      /\ Top.id \in Ids
      /\ \A l \in 1..Depth : open[l].id \in Ids
      /\ \A l, m \in 1..Depth : open[l].id = open[m].id => l = m
  BY StateShape DEF Looked, Depth
<1>3. /\ \A o : Recorded(o)' <=> Recorded(o)
      /\ \A ns : X!CarriedBy(ns)' = X!CarriedBy(ns)
  BY <1>1, SameShapeKeeps, SamePatterns DEF WalkOK
<1>4. CallOK(todo[Depth], Top.id)
  BY <1>2 DEF WalkOK, TodoOK
<1>5. nodes[Top.id].kids = <<>> /\ todo[Depth].pat = X!CarriedBy(C!PathTo(names[Top.id]))
  BY <1>4 DEF CallOK, Looked
<1>6. ASSUME NEW o \in L, NEW top, top = Top.id PROVE LeftOK(o, top)'
  <2>1. /\ o \in present \ {Root} /\ Up[o] = Dir
        /\ ~nodes'[Top.id].err
    BY <1>6 DEF Looked, Listed
  <2>2. ASSUME NEW j \in Ids, names[j] = o PROVE FALSE
    <3>1. j # 1
      BY <2>1, <2>2 DEF WalkOK, NamesOK
    <3>2. PICK d \in Ids : j \in ToSet(nodes[d].kids)
      BY <2>2, <3>1 DEF WalkOK, ListsOK
    <3>3. Up[names[j]] = names[d]
      BY <3>2 DEF WalkOK, ListsOK
    <3>4. d = Top.id
      BY <1>2, <2>1, <2>2, <3>3 DEF WalkOK, NamesOK, Dir
    <3> QED
      BY <1>5, <3>2, <3>4, InList
  <2> QED
    BY <1>1, <1>3, <1>6, <2>1, <2>2 DEF LeftOK, Recorded, Dir, fsVars
<1>7. ASSUME NEW l \in 1..Depth PROVE CallOK(todo[l], open[l].id)'
  <2>1. PICK t, u, d : t = todo[l] /\ u = todo'[l] /\ d = open[l].id
    OBVIOUS
  <2>2. CallOK(t, d) /\ d \in Ids /\ open'[l].id = d
    BY <1>2, <2>1 DEF WalkOK, TodoOK
  <2>3. CASE l = Depth
    <3>1. /\ d = Top.id /\ u.read = TRUE /\ u.left = L /\ u.pat = t.pat
      BY <1>2, <2>1, <2>3 DEF Looked
    <3>2. \A o \in u.left : LeftOK(o, d)'
      BY <1>6, <3>1
    <3>3. nodes'[d].err => u.left = {}
      BY <3>1 DEF Looked
    <3>4. u.pat = X!CarriedBy(C!PathTo(names[d]))'
      BY <1>1, <1>3, <2>2, <3>1 DEF CallOK
    <3> QED
      BY <2>1, <2>2, <3>1, <3>2, <3>3, <3>4 DEF CallOK, LeftOK, Recorded, Ids
  <2>4. CASE l # Depth
    <3>1. d # Top.id /\ u = t
      BY <1>2, <2>1, <2>4 DEF Looked
    <3>2. \A o \in t.left : LeftOK(o, d)'
      BY <1>1, <1>3, <2>2 DEF CallOK, LeftOK, fsVars
    <3>3. nodes'[d].err = nodes[d].err /\ nodes'[d].kids = nodes[d].kids
      BY <1>1, <2>2, <3>1 DEF Looked, SameShape
    <3>4. t.pat = X!CarriedBy(C!PathTo(names[d]))'
      BY <1>1, <1>3, <2>2 DEF CallOK
    <3>5. CallOK(t, d)'
      BY <2>2, <3>2, <3>3, <3>4 DEF CallOK
    <3> QED
      BY <2>1, <2>2, <3>1, <3>5 DEF CallOK, LeftOK, Recorded, Ids
  <2> QED
    BY <2>3, <2>4
<1>8. /\ todo' \in Seq(CallType') /\ Len(todo') = Depth'
  BY <1>1, <1>2, SamePatterns DEF Looked, CallType
<1> QED
  BY <1>2, <1>7, <1>8 DEF TodoOK

LEMMA LookedKeeps ==
  ASSUME IInv, WalkOK, FsOK, NEW L, Looked(L)
  PROVE  WalkOK'
<1>1. SameShape /\ Interfered /\ UNCHANGED patternVars
  BY FsSteps DEF Looked, treeVars
<1> QED
  BY <1>1, SameShapeKeeps, SameShapeKinds, LookedDirs, LookedTodo DEF WalkOK

(* The walk begins with the root alone.                                         *)
Started(t) ==
  /\ \E b \in Blocks, v \in Devs : CreateRoot(b, v)
  /\ Configured /\ (Root \in excused \/ IsDirectory(Root))
  /\ todo' = <<t>> /\ t \in CallType /\ Starts(t, Root)
  /\ names' = <<Root>> /\ UNCHANGED <<treeVars, failed>>

LEMMA StartedKeeps ==
  ASSUME TypeOK, NEW t, Started(t)
  PROVE  WalkOK' /\ nodes' # <<>> /\ open' # <<>>
<1>1. PICK b \in Blocks, v \in Devs : CreateRoot(b, v)
  BY DEF Started
<1>2. /\ Root \in excused \/ IsDirectory(Root)
      /\ UNCHANGED fsVars /\ UNCHANGED patternVars
      /\ names' = <<Root>> /\ todo' = <<t>> /\ t \in CallType /\ Starts(t, Root)
  BY DEF Started, treeVars
<1>3. /\ Len(nodes') = 1 /\ Len(open') = 1 /\ open'[1].id = 1
      /\ nodes'[1].etype = "Dir" /\ nodes'[1].kids = <<>> /\ nodes'[1].err = FALSE
  <2>1. /\ Len(nodes') = 1 /\ nodes'[1] = Node("Dir", b, NoEntry, DevId(v))
        /\ Len(open') = 1 /\ open'[1] = Handle(1)
    BY <1>1, CreateRootEffect
  <2> QED
    BY <2>1 DEF Node, Handle
<1>4. Ids' = {1} /\ Depth' = 1
  BY <1>3 DEF Ids, Depth
<1>6. Root \in Objects
  BY FileTreeAssumption
<1>7. NamesOK'
  BY <1>2, <1>3, <1>4, <1>6 DEF NamesOK, IsDir
<1>8. ListsOK' /\ KindsOK'
  BY <1>3, <1>4, InList DEF ListsOK, KindsOK
<1>9. /\ Waiting(1)' <=> ~t.read
      /\ \A o \in t.left : Awaits(1, o)'
  BY <1>2, <1>3, <1>4 DEF Waiting, Awaits
<1>10. /\ ~t.read => t.left = {}
       /\ \A o \in t.left : o # Root /\ Up[o] = Root /\ o \in present \cup excused
       /\ t.read /\ Root \notin excused => nature[Root].readable
       /\ t.read => \A o \in Objects \ ({Root} \cup excused) : Up[o] = Root => o \in t.left
       /\ t.pat = X!CarriedBy(C!PathTo(Root))
  BY <1>2 DEF Starts
<1>11. DirsOK'
  <2>1. ASSUME Root \notin excused PROVE IsDirectory(Root)'
    BY <1>2, <2>1 DEF IsDirectory, fsVars
  <2>2. ASSUME Root \notin excused, ~Waiting(1)' PROVE nature'[Root].readable = TRUE
    BY <1>2, <1>9, <1>10, <2>2 DEF fsVars
  <2>3. ASSUME NEW d \in Ids', names'[d] \notin excused'
        PROVE  /\ IsDirectory(names[d])'
               /\ ~Waiting(d)' => nodes'[d].err = ~nature'[names'[d]].readable
    <3>1. d = 1 /\ names'[d] = Root /\ Root \notin excused
      BY <1>2, <1>4, <2>3 DEF fsVars
    <3>2. IsDirectory(names[d])'
      BY <2>1, <3>1 DEF IsDirectory
    <3>3. Waiting(1)' => Waiting(d)'
      BY <3>1 DEF Waiting
    <3> QED
      BY <1>3, <2>2, <3>1, <3>2, <3>3
  <2> QED
    BY <2>3 DEF DirsOK
<1>12. CompleteOK'
  <2>1. ASSUME ~Waiting(1)', NEW o \in Objects \ ({Root} \cup excused), Up[o] = Root
        PROVE  Awaits(1, o)'
    BY <1>9, <1>10, <2>1
  <2> QED
    BY <1>2, <1>4, <2>1 DEF CompleteOK, fsVars
<1>13. TodoOK'
  <2>1. UNCHANGED CallType
    BY <1>2, SamePatterns DEF CallType
  <2>2. todo' \in Seq(CallType') /\ Len(todo') = 1
    BY <1>2, <2>1
  <2>3. t.pat = X!CarriedBy(C!PathTo(Root))'
    BY <1>2, <1>10, SamePatterns
  <2>4. \A o \in t.left : LeftOK(o, 1)'
    <3>1. \A o : Recorded(o)' <=> o = Root
      BY <1>2, <1>4 DEF Recorded
    <3> QED
      BY <1>2, <1>10, <3>1 DEF LeftOK, fsVars
  <2>5. CallOK(t, 1)'
    BY <1>2, <1>3, <1>10, <2>3, <2>4 DEF CallOK
  <2>6. todo'[1] = t /\ open'[1].id = 1
    BY <1>2, <1>3
  <2>7. CallOK(todo[1], open[1].id)'
    BY <2>5, <2>6 DEF CallOK, LeftOK, Recorded, Ids
  <2> QED
    BY <1>4, <2>2, <2>7 DEF TodoOK
<1>14. nodes' # <<>> /\ open' # <<>>
  BY <1>3
<1> QED
  BY <1>7, <1>8, <1>11, <1>12, <1>13, <1>14 DEF WalkOK

LEMMA BeginKeeps ==
  ASSUME SInv, Begin
  PROVE  WalkOK' /\ Next /\ nodes' # <<>> /\ open' # <<>>
<1>1. TypeOK /\ X!IInv
  BY DEF SInv, IInv
<1>2. cur = X!CarriedBy(C!PathTo(Root))
  BY <1>1, PathUnfolds DEF Begin, Configured, X!IInv
<1>3. Unread(cur) \in CallType /\ Starts(Unread(cur), Root)
  BY <1>2, CarriedType, UnreadStarts DEF Unread, CallType
<1>4. Started(Unread(cur)) /\ Next
  BY <1>3 DEF Begin, Scannable, Started, Next
<1> QED
  BY <1>1, <1>4, StartedKeeps

----------------------------------------------------------------------------
(* The report.                                                                  *)
Row(i) == [obj |-> names[i], kind |-> nodes[i].etype, err |-> nodes[i].err,
           dir |-> IF i = 1 THEN Root
                   ELSE names[CHOOSE d \in Ids : i \in ToSet(nodes[d].kids)]]

LEMMA RowsAre ==
  ASSUME NamesOK, ListsOK
  PROVE  /\ \A r : r \in Rows <=> \E i \in Ids : r = Row(i)
         /\ \A i \in Ids : /\ Row(i).obj = names[i] /\ Row(i).kind = nodes[i].etype
                           /\ Row(i).err = nodes[i].err
         /\ \A i \in Ids \ {1} : \E d \in Ids :
              /\ Row(i).dir = names[d] /\ Up[names[i]] = names[d]
              /\ nodes[d].etype = "Dir" /\ ~nodes[d].err
<1>1. \A r : r \in Rows <=> \E i \in Ids : r = Row(i)
  BY DEF Rows, Row
<1>2. \A i \in Ids : /\ Row(i).obj = names[i] /\ Row(i).kind = nodes[i].etype
                     /\ Row(i).err = nodes[i].err
  BY DEF Row
<1>3. ASSUME NEW i \in Ids \ {1}
      PROVE  \E d \in Ids : /\ Row(i).dir = names[d] /\ Up[names[i]] = names[d]
                            /\ nodes[d].etype = "Dir" /\ ~nodes[d].err
  <2> DEFINE InIt(d) == i \in ToSet(nodes[d].kids)
             d == CHOOSE x \in Ids : InIt(x)
  <2>1. \E x \in Ids : InIt(x)
    BY <1>3 DEF ListsOK
  <2>2. d \in Ids /\ InIt(d)
    <3> HIDE DEF InIt
    <3> QED  BY <2>1
  <2>3. Row(i).dir = names[d]
    BY <1>3 DEF Row
  <2> HIDE DEF d
  <2>4. Up[names[i]] = names[d] /\ IsDir(d) /\ ~nodes[d].err
    BY <2>2 DEF ListsOK
  <2> QED
    BY <2>2, <2>3, <2>4 DEF IsDir
<1> QED
  BY <1>1, <1>2, <1>3

LEMMA FaithfulTree == IInv /\ WalkOK /\ Finished => C!Faithful(Rows)
<1> SUFFICES ASSUME IInv, WalkOK, Finished PROVE C!Faithful(Rows)
  OBVIOUS
<1>1. /\ IInv /\ NamesOK /\ ListsOK /\ KindsOK /\ DirsOK /\ CompleteOK
  BY DEF WalkOK
<1>2. /\ 1 \in Ids /\ names[1] = Root /\ IsDir(1)
      /\ \A i \in Ids : names[i] \in Objects
      /\ \A i, j \in Ids : names[i] = names[j] => i = j
  <2>1. 1 \in Ids
    BY <1>1, StateShape DEF Finished
  <2>2. \A i \in Ids : names[i] \in Objects
    BY <1>1, ElementOfSeq DEF NamesOK, Ids
  <2> QED
    BY <1>1, <2>1, <2>2 DEF NamesOK
<1>3. (\A d : ~Waiting(d)) /\ \A d, o : ~Awaits(d, o)
  <2>1. 1..Depth = {}
    BY DEF Finished, Depth
  <2> QED
    BY <2>1 DEF Waiting, Awaits
<1>4. /\ \A r : r \in Rows <=> \E i \in Ids : r = Row(i)
      /\ \A i \in Ids : /\ Row(i).obj = names[i] /\ Row(i).kind = nodes[i].etype
                        /\ Row(i).err = nodes[i].err
      /\ \A i \in Ids \ {1} : \E d \in Ids :
           /\ Row(i).dir = names[d] /\ Up[names[i]] = names[d]
           /\ nodes[d].etype = "Dir" /\ ~nodes[d].err
  BY <1>1, RowsAre
<1>5. \A r, s \in Rows : r.obj = s.obj => r = s
  BY <1>2, <1>4
<1>6. \A i \in Ids : nodes[i].etype = "Dir" /\ ~nodes[i].err => names[i] \in C!Opened(Rows)
  <2> SUFFICES ASSUME NEW i \in Ids, nodes[i].etype = "Dir", ~nodes[i].err
               PROVE  names[i] \in C!Opened(Rows)
    OBVIOUS
  <2>1. Row(i) \in {x \in Rows : x.kind = "Dir" /\ ~x.err} /\ Row(i).obj = names[i]
    BY <1>4
  <2> QED
    BY <2>1 DEF C!Opened
<1>7. ASSUME NEW o \in C!Opened(Rows)
      PROVE  \E i \in Ids : names[i] = o /\ nodes[i].etype = "Dir" /\ ~nodes[i].err
  <2>1. PICK r \in {x \in Rows : x.kind = "Dir" /\ ~x.err} : r.obj = o
    BY DEF C!Opened
  <2> QED
    BY <1>4, <2>1
<1>8. ASSUME NEW r \in Rows
      PROVE  IF r.obj = Root THEN r.kind = "Dir"
             ELSE /\ r.dir = Up[r.obj] /\ r.dir \in C!Opened(Rows)
                  /\ \/ \E n \in past[r.obj] : r.kind = C!Promised(r.obj, n)
                     \/ r.kind = "Err" /\ r.obj \in excused
  <2>1. PICK i \in Ids : /\ r = Row(i) /\ r.obj = names[i] /\ r.kind = nodes[i].etype
    BY <1>4
  <2>2. CASE i = 1
    BY <1>2, <2>1, <2>2 DEF IsDir
  <2>3. CASE i # 1
    <3>1. r.obj # Root
      BY <1>2, <2>1, <2>3
    <3>2. PICK d \in Ids : /\ r.dir = names[d] /\ Up[names[i]] = names[d]
                           /\ nodes[d].etype = "Dir" /\ ~nodes[d].err
      BY <1>4, <2>1, <2>3
    <3>3. r.dir = Up[r.obj] /\ r.dir \in C!Opened(Rows)
      BY <1>6, <2>1, <3>2
    <3>4. SaysRight(r.obj, r.kind)
      BY <1>1, <2>1, <2>3 DEF KindsOK
    <3> QED
      BY <3>1, <3>3, <3>4 DEF SaysRight
  <2> QED
    BY <2>2, <2>3
<1>9. ASSUME NEW r \in Rows, r.kind = "Dir", r.obj \notin excused
      PROVE  r.err = ~nature[r.obj].readable
  <2>1. PICK i \in Ids : /\ r.obj = names[i] /\ r.kind = nodes[i].etype
                         /\ r.err = nodes[i].err
    BY <1>4
  <2> QED
    BY <1>1, <1>3, <1>9, <2>1 DEF DirsOK, IsDir
<1>10. ASSUME NEW o \in Objects \ ({Root} \cup excused), Up[o] \in C!Opened(Rows)
       PROVE  \E r \in Rows : r.obj = o
  <2>1. PICK d \in Ids : names[d] = Up[o] /\ nodes[d].etype = "Dir" /\ ~nodes[d].err
    BY <1>7, <1>10
  <2>2. Recorded(o)
    BY <1>1, <1>3, <2>1 DEF CompleteOK, IsDir
  <2> QED
    BY <1>4, <2>2 DEF Recorded
<1>11. \E r \in Rows : r.obj = Root
  BY <1>2, <1>4
<1> QED
  BY <1>5, <1>8, <1>9, <1>10, <1>11 DEF C!Faithful

LEMMA ReportPending ==
  /\ ~failed /\ ~Finished => ScanReport = C!Pending
  /\ ScanReport = C!Pending => ~failed /\ ~Finished
BY DEF ScanReport, C!Pending

(* What a step makes of the census.                                             *)
CensusStep == \/ C!Interfere \/ C!Prepare \/ C!Answer \/ C!Refuse
              \/ UNCHANGED C!cvars

LEMMA NothingSaid ==
  ASSUME ~failed, ~Finished, ~failed', ~Finished', UNCHANGED treeVars
  PROVE  CensusStep
<1>1. ScanReport' = ScanReport
  BY DEF ScanReport
<1>2. UNCHANGED C!cvars
  BY <1>1 DEF C!cvars, C!treeVars, C!fsVars, C!patternVars, treeVars, fsVars, patternVars
<1> QED
  BY <1>2 DEF CensusStep

LEMMA NoMoreConfigure == Configured => ~Configure
<1>1. Len(RootPath) \in Nat
  BY FileTreeAssumption, LenProperties
<1> QED
  BY <1>1 DEF Configured, Configure, Ex!Add, Ex!Begin

LEMMA InterfereStep ==
  ASSUME Interfered, UNCHANGED <<patternVars, nodes, open, names, failed>>
  PROVE  CensusStep
<1>1. ScanReport' = ScanReport
  BY DEF ScanReport, Finished, Rows, Ids
<1>2. C!Interfere
  BY <1>1 DEF C!Interfere, Interfered, patternVars, C!patternVars
<1> QED
  BY <1>2 DEF CensusStep

LEMMA AnswerStep ==
  ASSUME IInv', WalkOK', Finished', ~failed, ~failed', ~Finished, Configured,
         UNCHANGED treeVars
  PROVE  CensusStep
<1>1. (IInv /\ WalkOK /\ Finished => C!Faithful(Rows))'
  BY FaithfulTree, PTL
<1>2. PICK rows : rows = Rows'
  OBVIOUS
<1>3. C!Faithful(rows)'
  BY <1>1, <1>2 DEF C!Faithful, C!Opened
<1>4. C!Faithful(rows)
  BY <1>3, SamePatterns DEF C!Faithful, treeVars, fsVars
<1>5. ScanReport' = [state |-> "done", rows |-> rows]
  BY <1>2 DEF ScanReport
<1>6. C!Answer
  BY <1>4, <1>5, ReportPending
     DEF C!Answer, C!Configured, Configured, C!treeVars, C!fsVars, C!patternVars,
         treeVars, fsVars, patternVars
<1> QED
  BY <1>6 DEF CensusStep

LEMMA RefuseStep ==
  ASSUME FsOK, ~failed, ~Finished, failed', ~Scannable, UNCHANGED treeVars
  PROVE  CensusStep
<1>1. ScanReport = C!Pending /\ ScanReport' = C!Failed
  BY ReportPending DEF ScanReport, C!Failed
<1>2. Root \in excused \/ nature[Root].kind # "Dir" \/ ~nature[Root].stat
  BY DEF FsOK, Scannable, IsDirectory
<1>3. C!Refuse
  BY <1>1, <1>2
     DEF C!Refuse, C!treeVars, C!fsVars, C!patternVars, treeVars, fsVars, patternVars
<1> QED
  BY <1>3 DEF CensusStep

LEMMA ConfigureStep ==
  ASSUME Configure, ~failed, ~failed', ~Finished, ~Finished'
  PROVE  CensusStep
<1>1. ScanReport = C!Pending /\ ScanReport' = ScanReport
  BY ReportPending DEF ScanReport
<1>2. C!Prepare
  BY <1>1, SameConfigure DEF C!Prepare
<1> QED
  BY <1>2 DEF CensusStep

(* Before the walk, there is nothing to be wrong.                                *)
LEMMA NothingYet == IInv /\ nodes = <<>> /\ names = <<>> /\ todo = <<>> => WalkOK
<1> SUFFICES ASSUME IInv, nodes = <<>>, names = <<>>, todo = <<>> PROVE WalkOK
  OBVIOUS
<1>1. Ids = {} /\ Depth = 0
  BY StateShape
<1> QED
  BY <1>1 DEF WalkOK, NamesOK, ListsOK, KindsOK, DirsOK, CompleteOK, TodoOK

LEMMA NothingSoFar ==
  ASSUME IInv, WalkOK, nodes = <<>> PROVE names = <<>> /\ todo = <<>> /\ ~Finished
<1>1. Depth = 0 /\ Len(nodes) = 0
  BY StateShape
<1>2. names \in Seq(Objects) /\ Len(names) = 0 /\ todo \in Seq(CallType) /\ Len(todo) = 0
  BY <1>1 DEF WalkOK, NamesOK, TodoOK
<1> QED
  BY <1>2, EmptySeq DEF Finished

(* The steps that leave the nodes alone, those of others among them.             *)
LEMMA StillSteps ==
  ASSUME SInv, UNCHANGED <<vars, names, failed>>,
         \/ todo' = todo /\ (Interference \/ UNCHANGED treeVars)
         \/ Depth > 0 /\ \E e \in todo[Depth].left : NotReturned(e) /\ todo' = Without(e)
  PROVE  SInv' /\ CensusStep
<1>1. /\ IInv /\ WalkOK /\ FsOK /\ X!IInv /\ PhaseOK
      /\ UNCHANGED <<nodes, open, names, failed>>
  BY DEF SInv, vars
<1>2. UNCHANGED patternVars
  BY DEF Interference, NotReturned, treeVars
<1>3. ASSUME NEW e \in todo[Depth].left, Depth > 0 PROVE e \in Objects
  <2>1. todo \in Seq(CallType) /\ Depth \in 1..Len(todo)
    BY <1>1, <1>3, StateShape DEF WalkOK, TodoOK
  <2>2. todo[Depth] \in CallType
    BY <2>1, ElementOfSeq
  <2> QED
    BY <1>3, <2>2 DEF CallType
<1>4. FsOK' /\ Interfered
  BY <1>1, <1>3, FsSteps DEF treeVars
<1>5. Depth \in Nat /\ Len(todo) = Depth /\ todo \in Seq(CallType) /\ Len(open) = Depth
  BY <1>1, StateShape DEF WalkOK, TodoOK
<1>6. /\ todo' \in Seq(CallType) /\ Len(todo') = Depth
      /\ \A l \in 1..Depth : /\ todo'[l].read = todo[l].read /\ todo'[l].pat = todo[l].pat
                             /\ todo'[l].left \subseteq todo[l].left
                             /\ \A o \in todo[l].left : o \in todo'[l].left \cup excused'
  <2>1. CASE todo' = todo
    BY <1>5, <2>1
  <2>2. ASSUME Depth > 0, NEW e \in todo[Depth].left, NotReturned(e), todo' = Without(e)
        PROVE  /\ todo' \in Seq(CallType) /\ Len(todo') = Depth
               /\ \A l \in 1..Depth :
                    /\ todo'[l].read = todo[l].read /\ todo'[l].pat = todo[l].pat
                    /\ todo'[l].left \subseteq todo[l].left
                    /\ \A o \in todo[l].left : o \in todo'[l].left \cup excused'
    <3>1. e \in excused'
      BY <1>3, <2>2, SelfUnder DEF NotReturned
    <3>2. /\ todo' \in Seq(CallType) /\ Len(todo') = Depth
          /\ \A l \in 1..Depth :
               /\ todo'[l].read = todo[l].read /\ todo'[l].pat = todo[l].pat
               /\ todo'[l].left = IF l = Depth THEN todo[l].left \ {e} ELSE todo[l].left
      BY <1>1, <2>2, EntryShape
    <3> QED
      BY <3>1, <3>2
  <2> QED
    BY <2>1, <2>2
<1>7. SameShape /\ \A i \in Ids : nodes'[i].err = nodes[i].err
  BY <1>1 DEF SameShape
<1>8. Quiet
  BY <1>1, <1>2, <1>4, <1>5, <1>6, <1>7 DEF Quiet
<1>9. IInv' /\ WalkOK'
  BY <1>1, <1>8, IInvStep, QuietKeeps
<1>10. X!IInv' /\ PhaseOK'
  BY <1>1, <1>2, MatcherInv DEF PhaseOK, Configured, patternVars
<1>11. CensusStep
  BY <1>1, <1>2, <1>4, InterfereStep
<1> QED
  BY <1>4, <1>9, <1>10, <1>11 DEF SInv

(* The steps into the tree: the census does not notice them.                     *)
LEMMA InnerSteps ==
  ASSUME SInv, Begin \/ ReadDir \/ (Depth > 0 /\ \E e \in todo[Depth].left : Entry(e))
  PROVE  SInv' /\ CensusStep
<1>1. /\ IInv /\ WalkOK /\ FsOK /\ X!IInv /\ PhaseOK /\ Depth \in Nat
  BY StateShape DEF SInv
<1>2. UNCHANGED treeVars /\ UNCHANGED failed
  BY DEF Begin, ReadDir, Entry
<1>3. /\ WalkOK' /\ [Next]_vars /\ ~failed /\ Configured /\ ~Finished
      /\ open' # <<>>
  <2>1. CASE Begin
    BY <2>1, BeginKeeps DEF Begin, CreateRoot, Finished
  <2>2. CASE ReadDir
    <3>1. Depth > 0 /\ open # <<>> /\ nodes # <<>>
      BY <1>1, <2>2, StateShape DEF ReadDir
    <3>2. PICK L : Looked(L)
      BY <2>2, ReadDirLooks
    <3> QED
      BY <1>1, <2>2, <3>1, <3>2, ReadDirLooks, LookedKeeps
         DEF Looked, PhaseOK, Finished
  <2>3. ASSUME Depth > 0, NEW e \in todo[Depth].left, Entry(e)
        PROVE  /\ WalkOK' /\ [Next]_vars /\ ~failed /\ Configured /\ ~Finished
               /\ open' # <<>>
    <3>1. open # <<>> /\ nodes # <<>>
      BY <1>1, <2>3, StateShape
    <3>2. PICK k : Entered(e, k) /\ Next
      BY <2>3, EntryEnters
    <3>3. Len(open') # 0
      BY <1>1, <2>3, <3>2 DEF Entered, PutsEntry
    <3> QED
      BY <1>1, <3>1, <3>2, <3>3, EnteredKeeps DEF PhaseOK, Finished
  <2> QED
    BY <2>1, <2>2, <2>3
<1>4. IInv' /\ FsOK' /\ X!IInv'
  BY <1>1, <1>2, <1>3, IInvStep, FsSteps, MatcherInv DEF treeVars
<1>5. PhaseOK'
  BY <1>1, <1>2, <1>3 DEF PhaseOK, Configured, treeVars, patternVars
<1>6. CensusStep
  BY <1>2, <1>3, NothingSaid DEF Finished
<1> QED
  BY <1>3, <1>4, <1>5, <1>6 DEF SInv

LEMMA ReturnStep ==
  ASSUME SInv, Return
  PROVE  SInv' /\ CensusStep
<1>1. /\ IInv /\ TypeOK /\ WalkOK /\ FsOK /\ X!IInv /\ PhaseOK /\ Depth \in Nat
      /\ Depth > 0 /\ nodes # <<>> /\ Len(open) = Depth /\ ~Finished
      /\ todo \in Seq(CallType) /\ Len(todo) = Depth
  BY StateShape DEF SInv, Return, IInv, WalkOK, TodoOK, Finished
<1>2. /\ UNCHANGED treeVars /\ UNCHANGED <<names, failed>>
      /\ todo[Depth].read /\ todo[Depth].left = {} /\ todo' = Caller
  BY DEF Return
<1>3. /\ SameEntries /\ Next /\ Len(open') = Depth - 1
      /\ \A l \in 1..(Depth - 1) : open'[l].id = open[l].id
  BY <1>1, Closes DEF Return
<1>4. /\ todo' \in Seq(CallType) /\ Len(todo') = Depth - 1
      /\ \A l \in 1..(Depth - 1) : todo'[l] = todo[l]
  <2>1. todo' = SubSeq(todo, 1, Len(todo) - 1)
    BY <1>2 DEF Caller, Front
  <2> QED
    BY <1>1, <2>1, SubSeqProperties
<1>5. FsOK' /\ Interfered /\ X!IInv' /\ IInv'
  BY <1>1, <1>2, <1>3, FsSteps, MatcherInv, IInvStep DEF treeVars
<1>6. Quiet
  BY <1>1, <1>2, <1>3, <1>4, <1>5 DEF Quiet, SameShape, SameEntries, treeVars
<1>7. WalkOK'
  BY <1>1, <1>6, QuietKeeps
<1>8. Len(nodes') # 0
  BY <1>1, <1>3, StateShape DEF Ids, SameEntries
<1>9. PhaseOK' /\ ~failed /\ ~failed' /\ Configured
  BY <1>1, <1>2 DEF PhaseOK, Configured, treeVars, patternVars
<1>10. SInv'
  BY <1>5, <1>7, <1>9 DEF SInv
<1>11. CASE Finished'
  BY <1>1, <1>2, <1>5, <1>7, <1>9, <1>10, <1>11, AnswerStep
<1>12. CASE ~Finished'
  BY <1>1, <1>2, <1>9, <1>10, <1>12, NothingSaid
<1> QED
  BY <1>10, <1>11, <1>12

LEMMA NoScanStep ==
  ASSUME SInv, NoScan
  PROVE  SInv' /\ CensusStep
<1>1. /\ IInv /\ WalkOK /\ FsOK /\ X!IInv /\ PhaseOK /\ nodes = <<>> /\ ~failed
      /\ Configured /\ ~Scannable /\ failed' = TRUE
      /\ UNCHANGED <<vars, treeVars, todo, names>>
  BY DEF SInv, NoScan
<1>2. /\ UNCHANGED fsVars /\ UNCHANGED patternVars
      /\ UNCHANGED <<nodes, open, todo, names>>
  BY <1>1 DEF treeVars, vars
<1>3. FsOK' /\ X!IInv' /\ IInv'
  BY <1>1, <1>2, FsSteps, MatcherInv, IInvStep
<1>4. names = <<>> /\ todo = <<>> /\ ~Finished
  BY <1>1, NothingSoFar
<1>5. WalkOK'
  <2>1. (IInv /\ nodes = <<>> /\ names = <<>> /\ todo = <<>> => WalkOK)'
    BY NothingYet, PTL
  <2> QED
    BY <1>1, <1>2, <1>3, <1>4, <2>1
<1>6. PhaseOK'
  BY <1>1, <1>2 DEF PhaseOK, Configured, patternVars
<1>7. CensusStep
  BY <1>1, <1>4, RefuseStep
<1> QED
  BY <1>3, <1>5, <1>6, <1>7 DEF SInv

LEMMA PrepareStep ==
  ASSUME SInv, Prepare
  PROVE  SInv' /\ CensusStep
<1>1. /\ IInv /\ WalkOK /\ FsOK /\ X!IInv /\ PhaseOK /\ nodes = <<>> /\ Configure
      /\ UNCHANGED <<vars, todo, names, failed>> /\ UNCHANGED fsVars
  BY DEF SInv, Prepare, Configure
<1>2. ~failed /\ ~failed'
  BY <1>1, NoMoreConfigure DEF PhaseOK
<1>3. FsOK' /\ X!IInv' /\ IInv'
  BY <1>1, FsSteps, MatcherInv, IInvStep
<1>4. names = <<>> /\ todo = <<>> /\ ~Finished /\ UNCHANGED <<nodes, names, todo>>
  BY <1>1, NothingSoFar DEF vars
<1>5. WalkOK'
  <2>1. (IInv /\ nodes = <<>> /\ names = <<>> /\ todo = <<>> => WalkOK)'
    BY NothingYet, PTL
  <2> QED
    BY <1>1, <1>3, <1>4, <2>1
<1>6. PhaseOK'
  BY <1>1, <1>2, <1>4 DEF PhaseOK
<1>7. CensusStep
  BY <1>1, <1>2, <1>4, ConfigureStep DEF Finished, vars
<1> QED
  BY <1>3, <1>5, <1>6, <1>7 DEF SInv

LEMMA SInvStart == SInit => SInv /\ C!CInit
<1> SUFFICES ASSUME SInit PROVE SInv /\ C!CInit
  OBVIOUS
<1>1. /\ Init /\ FsInit /\ nodes = <<>> /\ todo = <<>> /\ names = <<>> /\ failed = FALSE
  BY DEF SInit, Init
<1>2. IInv /\ FsOK
  BY <1>1, IInvInit, FsStart
<1>3. X!IInv
  <2>1. X!Init
    BY <1>1 DEF FsInit, Ex!Init, X!Init, Ex!NoPatterns, X!NoPatterns
  <2> QED
    BY <2>1, PatternsTyped, X!InitInv
<1>4. Ids = {} /\ Depth = 0
  BY <1>1, <1>2, StateShape
<1>5. WalkOK
  BY <1>1, <1>4 DEF WalkOK, NamesOK, ListsOK, KindsOK, DirsOK, CompleteOK, TodoOK
<1>6. PhaseOK
  BY <1>1 DEF PhaseOK
<1>7. ScanReport = C!Pending
  BY <1>1, ReportPending DEF Finished
<1>8. C!CInit
  BY <1>1, <1>7, SameStart DEF C!CInit
<1> QED
  BY <1>2, <1>3, <1>5, <1>6, <1>8 DEF SInv

LEMMA SInvStep == SInv /\ [SNext]_svars => SInv' /\ CensusStep
<1> SUFFICES ASSUME SInv, [SNext]_svars PROVE SInv' /\ CensusStep
  OBVIOUS
<1>1. CASE Prepare
  BY <1>1, PrepareStep
<1>2. CASE Begin \/ ReadDir \/ (Depth > 0 /\ \E e \in todo[Depth].left : Entry(e))
  BY <1>2, InnerSteps
<1>3. CASE NoScan
  BY <1>3, NoScanStep
<1>4. CASE Return
  BY <1>4, ReturnStep
<1>5. CASE Depth > 0 /\ \E e \in todo[Depth].left : Skip(e)
  BY <1>5, StillSteps DEF Skip
<1>6. CASE Others
  BY <1>6, StillSteps DEF Others
<1>7. CASE UNCHANGED svars
  BY <1>7, StillSteps DEF svars
<1> QED
  BY <1>1, <1>2, <1>3, <1>4, <1>5, <1>6, <1>7 DEF SNext, Walk

LEMMA ScanInvariant == SSpec => []SInv
BY SInvStart, SInvStep, PTL DEF SSpec

(* The walker's own state: one call of scan_dir for each open directory, with    *)
(* the entries of that directory still to come and the patterns carried into it *)
(* (scan_dir's recursion).                                                     *)
THEOREM WalkTypes == SSpec => []STypeOK
<1>1. SInv => STypeOK
  <2> SUFFICES ASSUME SInv PROVE STypeOK
    OBVIOUS
  <2>1. /\ todo \in Seq(CallType) /\ Len(todo) = Depth /\ Depth \in Nat
        /\ \A l \in 1..Depth : CallOK(todo[l], open[l].id)
        /\ names \in Seq(Objects) /\ Len(names) = Len(nodes) /\ failed \in BOOLEAN
    BY StateShape DEF SInv, WalkOK, TodoOK, NamesOK, PhaseOK
  <2>2. X!PatternSets = Ex!PatternSets
    BY DEF X!PatternSets, X!Pointers, X!Patterns, Ex!PatternSets, Ex!Pointers, Ex!Patterns
  <2>3. ASSUME NEW l \in 1..Depth
        PROVE  /\ todo[l].read \in BOOLEAN /\ todo[l].left \subseteq Objects \ {Root}
               /\ todo[l].pat \in Ex!PatternSets
    <3>1. todo[l] \in CallType
      BY <2>1, ElementOfSeq
    <3>2. \A o \in todo[l].left : o # Root
      BY <2>1 DEF CallOK, LeftOK
    <3> QED
      BY <2>2, <3>1, <3>2 DEF CallType
  <2> QED
    BY <2>1, <2>3 DEF STypeOK
<1> QED
  BY <1>1, ScanInvariant, PTL

(* The sequential walk is a census: it adds every object once, in its own          *)
(* directory, as what it is to the patterns, or if it was interfered with as an   *)
(* error or as what it was, and misses none that was left alone in a directory     *)
(* that could be read (scan, scan_dir).                                           *)
THEOREM WalkIsCensus == SSpec => IsCensus
<1>1. SInit => C!CInit
  BY SInvStart
<1>2. SInv /\ [SNext]_svars =>
        [C!Interfere \/ C!Prepare \/ C!Answer \/ C!Refuse]_C!cvars
  BY SInvStep DEF CensusStep
<1> QED
  BY <1>1, <1>2, ScanInvariant, PTL DEF SSpec, IsCensus, C!CSpec

----------------------------------------------------------------------------
(* What there is to report of a tree that is left alone: what can be reached       *)
(* through directories that can be read and that no pattern keeps the walk out of,  *)
(* each as what it is to the patterns.                                          *)
TrueKind(o) == IF o = Root THEN "Dir" ELSE C!Promised(o, nature[o])
Walkable(d) == TrueKind(d) = "Dir" /\ nature[d].readable
Reached(o) == o = Root \/ \A d \in Above(Up[o]) : Walkable(d)
TrueRow(o) ==
  [obj |-> o, kind |-> TrueKind(o), err |-> TrueKind(o) = "Dir" /\ ~nature[o].readable,
   dir |-> IF o = Root THEN Root ELSE Up[o]]
TrueRows == {TrueRow(o) : o \in {x \in Objects : Reached(x)}}

(* What was left alone is what it was; and a failure has its reason.             *)
Alone == \A o \in Objects \ excused : past[o] = {nature[o]}
Unscannable == nature[Root].kind # "Dir" \/ ~nature[Root].stat
Refused == ScanReport = C!Failed /\ excused = {} => Unscannable

LEMMA AloneStart == FsInit => Alone
BY DEF FsInit, Alone

LEMMA RefusedStart == SInit => Refused
<1> SUFFICES ASSUME SInit PROVE ScanReport # C!Failed
  BY DEF Refused
<1> QED
  BY DEF SInit, ScanReport, C!Failed

(* What may happen to the tree and to the report.                               *)
Disturbed ==
  /\ excused \subseteq excused'
  /\ \A o \in Objects : nature'[o] # nature[o] => o \in excused' \ excused
  /\ past' = [o \in Objects |-> past[o] \cup {nature'[o]}]
  /\ ScanReport' = ScanReport
Reported ==
  /\ UNCHANGED <<nature, excused, past>>
  /\ \/ ScanReport' = ScanReport \/ ScanReport'.state = "done"
     \/ Root \in excused \/ Unscannable

LEMMA AloneStep ==
  ASSUME Alone,
         \/ /\ excused \subseteq excused'
            /\ \A o \in Objects : nature'[o] # nature[o] => o \in excused' \ excused
            /\ past' = [o \in Objects |-> past[o] \cup {nature'[o]}]
         \/ UNCHANGED <<nature, excused, past>>
  PROVE  Alone'
<1>1. CASE UNCHANGED <<nature, excused, past>>
  BY <1>1 DEF Alone
<1>2. CASE /\ excused \subseteq excused'
           /\ \A o \in Objects : nature'[o] # nature[o] => o \in excused' \ excused
           /\ past' = [o \in Objects |-> past[o] \cup {nature'[o]}]
  <2> SUFFICES ASSUME NEW o \in Objects \ excused' PROVE past'[o] = {nature'[o]}
    BY DEF Alone
  <2>1. o \notin excused /\ nature'[o] = nature[o]
    BY <1>2
  <2>2. past[o] = {nature[o]}
    BY <2>1 DEF Alone
  <2> QED
    BY <1>2, <2>1, <2>2
<1> QED
  BY <1>1, <1>2

LEMMA RefusedStep == ASSUME Refused, Disturbed \/ Reported PROVE Refused'
<1>0. C!Failed' = C!Failed /\ C!Failed.state = "failed"
  BY DEF C!Failed
<1>1. CASE Disturbed
  <2>1. /\ excused \subseteq excused'
        /\ \A o \in Objects : nature'[o] # nature[o] => o \in excused' \ excused
        /\ ScanReport' = ScanReport
    BY <1>1 DEF Disturbed
  <2>2. ASSUME ScanReport' = C!Failed, excused' = {} PROVE Unscannable'
    <3>1. excused = {} /\ nature'[Root] = nature[Root]
      BY <2>1, <2>2, FileTreeAssumption
    <3> QED
      BY <2>1, <2>2, <3>1 DEF Refused, Unscannable
  <2> QED
    BY <1>0, <2>2 DEF Refused
<1>2. CASE Reported
  BY <1>0, <1>2 DEF Refused, Reported, Unscannable
<1> QED
  BY <1>1, <1>2

LEMMA CensusSteps == CensusStep => Disturbed \/ Reported
<1>1. C!Interfere => Disturbed
  BY DEF C!Interfere, Disturbed
<1>2. C!Prepare => Reported
  BY DEF C!Prepare, C!Configure, C!fsVars, Reported
<1>3. C!Answer => Reported
  BY DEF C!Answer, C!treeVars, C!fsVars, Reported
<1>4. C!Refuse => Reported
  BY DEF C!Refuse, C!treeVars, C!fsVars, Reported, Unscannable
<1>5. UNCHANGED C!cvars => Reported
  BY DEF C!cvars, C!treeVars, C!fsVars, Reported
<1> QED
  BY <1>1, <1>2, <1>3, <1>4, <1>5 DEF CensusStep

LEMMA ReachedUnfolds ==
  ASSUME NEW o \in Objects, o # Root
  PROVE  Reached(o) <=> Reached(Up[o]) /\ Walkable(Up[o])
<1>1. PICK u \in Objects : u = Up[o]
  BY FileTreeAssumption
<1>2. Above(u) = IF u = Root THEN {u} ELSE {u} \cup Above(Up[u])
  BY AboveUnfolds
<1> QED
  BY <1>1, <1>2 DEF Reached

(* A faithful report of a tree that is left alone has no choice.                 *)
LEMMA FaithfulIsTrue ==
  ASSUME NEW rows, C!Faithful(rows), \A r \in rows : r.obj \in Objects,
         excused = {}, Alone
  PROVE  /\ \A o \in Objects : Reached(o) <=> \E r \in rows : r.obj = o
         /\ \A r \in rows :
              /\ r.kind = TrueKind(r.obj)
              /\ r.obj # Root => r.dir = Up[r.obj]
              /\ r.kind = "Dir" => r.err = ~nature[r.obj].readable
<1> DEFINE In(o) == \E r \in rows : r.obj = o
<1>1. \A r \in rows : /\ r.kind = TrueKind(r.obj)
                      /\ r.obj # Root => r.dir = Up[r.obj] /\ r.dir \in C!Opened(rows)
  <2> SUFFICES ASSUME NEW r \in rows
               PROVE  /\ r.kind = TrueKind(r.obj)
                      /\ r.obj # Root => r.dir = Up[r.obj] /\ r.dir \in C!Opened(rows)
    OBVIOUS
  <2>1. past[r.obj] = {nature[r.obj]}
    BY DEF Alone
  <2>2. IF r.obj = Root THEN r.kind = "Dir"
        ELSE /\ r.dir = Up[r.obj] /\ r.dir \in C!Opened(rows)
             /\ \/ \E n \in past[r.obj] : r.kind = C!Promised(r.obj, n)
                \/ r.kind = "Err" /\ r.obj \in excused
    BY DEF C!Faithful
  <2> QED
    BY <2>1, <2>2 DEF TrueKind
<1>2. \A r \in rows : r.kind = "Dir" => r.err = ~nature[r.obj].readable
  BY DEF C!Faithful
<1>3. \A o \in Objects : o \in C!Opened(rows) <=> In(o) /\ Walkable(o)
  <2> SUFFICES ASSUME NEW o \in Objects PROVE o \in C!Opened(rows) <=> In(o) /\ Walkable(o)
    OBVIOUS
  <2>1. ASSUME o \in C!Opened(rows) PROVE In(o) /\ Walkable(o)
    <3>1. PICK r \in rows : r.obj = o /\ r.kind = "Dir" /\ ~r.err
      BY <2>1 DEF C!Opened
    <3> QED
      BY <1>1, <1>2, <3>1 DEF Walkable
  <2>2. ASSUME In(o), Walkable(o) PROVE o \in C!Opened(rows)
    <3>1. PICK r \in rows : r.obj = o
      BY <2>2
    <3>2. r.kind = "Dir" /\ ~r.err
      BY <1>1, <1>2, <2>2, <3>1 DEF Walkable
    <3>3. r \in {x \in rows : x.kind = "Dir" /\ ~x.err}
      BY <3>2
    <3> QED
      BY <3>1, <3>3 DEF C!Opened
  <2> QED
    BY <2>1, <2>2
<1>4. In(Root) /\ Reached(Root)
  BY DEF C!Faithful, Reached
<1>5. ASSUME NEW o \in Objects, o # Root PROVE In(o) <=> In(Up[o]) /\ Walkable(Up[o])
  <2>1. Up[o] \in Objects
    BY <1>5, FileTreeAssumption
  <2>2. In(o) => Up[o] \in C!Opened(rows)
    BY <1>1, <1>5
  <2>3. Up[o] \in C!Opened(rows) => In(o)
    BY <1>5 DEF C!Faithful
  <2> QED
    BY <1>3, <2>1, <2>2, <2>3
<1> HIDE DEF In
<1> DEFINE Agreed == {n \in Nat : \A o \in Objects : Level[o] <= n => (In(o) <=> Reached(o))}
<1>6. 0 \in Agreed
  <2> SUFFICES ASSUME NEW o \in Objects, Level[o] <= 0 PROVE o = Root
    BY <1>4
  <2> QED
    BY Levels
<1>7. ASSUME NEW n \in Nat, n \in Agreed PROVE n + 1 \in Agreed
  <2> SUFFICES ASSUME NEW o \in Objects, Level[o] <= n + 1, o # Root
               PROVE  In(o) <=> Reached(o)
    BY <1>4
  <2>1. Up[o] \in Objects /\ Level[Up[o]] <= n
    BY Levels
  <2>2. In(Up[o]) <=> Reached(Up[o])
    BY <1>7, <2>1
  <2> QED
    BY <1>5, <2>2, ReachedUnfolds
<1>8. Nat \subseteq Agreed
  <2> HIDE DEF Agreed
  <2> QED  BY <1>6, <1>7, SetInduction
<1>9. \A o \in Objects : In(o) <=> Reached(o)
  BY <1>8, Levels
<1> QED
  BY <1>1, <1>2, <1>9 DEF In

LEMMA RowsAreTrue ==
  ASSUME IInv, Leafless, WalkOK, Finished, FsOK, excused = {}, Alone
  PROVE  Rows = TrueRows
<1>1. NamesOK /\ ListsOK /\ C!Faithful(Rows) /\ names[1] = Root /\ 1 \in Ids
  BY FaithfulTree, StateShape DEF WalkOK, NamesOK, Finished
<1>2. /\ \A r : r \in Rows <=> \E i \in Ids : r = Row(i)
      /\ \A i \in Ids : /\ Row(i).obj = names[i] /\ Row(i).kind = nodes[i].etype
                        /\ Row(i).err = nodes[i].err
      /\ \A i \in Ids : names[i] \in Objects /\ (names[i] = Root => i = 1)
  <2>1. \A i \in Ids : names[i] \in Objects /\ (names[i] = Root => i = 1)
    BY <1>1, ElementOfSeq DEF NamesOK, Ids
  <2> QED
    BY <1>1, <2>1, RowsAre
<1>3. \A r \in Rows : r.obj \in Objects
  BY <1>2
<1>4. /\ \A o \in Objects : Reached(o) <=> \E r \in Rows : r.obj = o
      /\ \A r \in Rows :
           /\ r.kind = TrueKind(r.obj)
           /\ r.obj # Root => r.dir = Up[r.obj]
           /\ r.kind = "Dir" => r.err = ~nature[r.obj].readable
  BY <1>1, <1>3, FaithfulIsTrue
<1>5. ASSUME NEW i \in Ids PROVE Row(i) = TrueRow(names[i])
  <2>1. Row(i) \in Rows
    BY <1>2
  <2>2. Row(i).kind = TrueKind(names[i])
    BY <1>2, <1>4, <2>1
  <2>3. Row(i).err = (TrueKind(names[i]) = "Dir" /\ ~nature[names[i]].readable)
    <3>1. nature[names[i]].readable \in BOOLEAN
      BY <1>2, FileTreeAssumption DEF FsOK, Nature
    <3>2. CASE IsDir(i)
      BY <1>2, <1>4, <2>1, <2>2, <3>1, <3>2 DEF IsDir
    <3>3. CASE ~IsDir(i)
      BY <1>2, <2>2, <3>3 DEF IsDir, Leafless
    <3> QED
      BY <3>2, <3>3
  <2>4. Row(i).dir = IF names[i] = Root THEN Root ELSE Up[names[i]]
    <3>1. CASE i = 1
      BY <1>1, <3>1 DEF Row
    <3>2. CASE i # 1
      BY <1>2, <1>4, <2>1, <3>2
    <3> QED
      BY <3>1, <3>2
  <2>5. PICK d : Row(i) = [obj |-> names[i], kind |-> nodes[i].etype,
                           err |-> nodes[i].err, dir |-> d]
    BY DEF Row
  <2> QED
    BY <1>2, <2>2, <2>3, <2>4, <2>5 DEF TrueRow
<1>6. ASSUME NEW r \in Rows PROVE r \in TrueRows
  <2>1. PICK i \in Ids : r = Row(i)
    BY <1>2
  <2>2. Reached(names[i])
    BY <1>2, <1>4, <2>1
  <2> QED
    BY <1>2, <1>5, <2>1, <2>2 DEF TrueRows
<1>7. ASSUME NEW r \in TrueRows PROVE r \in Rows
  <2>1. PICK o \in Objects : Reached(o) /\ r = TrueRow(o)
    BY <1>7 DEF TrueRows
  <2>2. PICK i \in Ids : names[i] = o
    BY <1>2, <1>4, <2>1
  <2> QED
    BY <1>2, <1>5, <2>1, <2>2
<1> QED
  BY <1>6, <1>7

(* A walker's step is one of the sink's, or none of it.                           *)
LEMMA SinkStep == [SNext]_svars => [Next]_vars
BY DEF SNext, Walk, Prepare, Others, Begin, ReadDir, Skip, Entry, Return, NoScan, svars, Next

(* scan and scan_dir call the sink as its contract asks (CreateRoot first, one        *)
(* finalize for each add_dir, in reverse order, nothing after the last): what they      *)
(* do to the arena is a behaviour of MemSink, so all that MemSinkProofs shows of its    *)
(* lists, totals, marks and devices holds of the tree they build.                    *)
THEOREM ScanUsesSink == SSpec => Spec
<1>1. SInit => Init
  BY DEF SInit
<1> QED
  BY <1>1, SinkStep, PTL DEF SSpec, Spec

(* The report of a scan that nobody disturbs, where no read of an entry fails, is   *)
(* a function of the tree and of the patterns: it has every object that can be      *)
(* reached through readable directories which no pattern excludes, and no other,     *)
(* each in its directory and as what it is to the patterns, and marks as unreadable   *)
(* the directories that are and, as an error, what lstat fails on; and only what is   *)
(* no directory, or stat fails on, is refused (scan, scan_dir).                    *)
ReportIsTrue ==
  excused = {} =>
    /\ ScanReport.state = "done" => ScanReport.rows = TrueRows
    /\ ScanReport.state = "failed" => Unscannable

THEOREM ScanIsTrue == SSpec => []ReportIsTrue
<1>1. SSpec => []Leafless
  <2>1. SInit => Leafless
    BY LeaflessInit DEF SInit
  <2>2. SInv /\ Leafless /\ [SNext]_svars => Leafless'
    BY LeaflessStep, SinkStep DEF SInv
  <2> QED
    BY <2>1, <2>2, ScanInvariant, PTL DEF SSpec
<1>2. SSpec => [](Alone /\ Refused)
  <2>1. SInit => Alone /\ Refused
    BY AloneStart, RefusedStart DEF SInit
  <2>2. SInv /\ Alone /\ Refused /\ [SNext]_svars => Alone' /\ Refused'
    <3>1. SInv /\ [SNext]_svars => Disturbed \/ Reported
      BY CensusSteps, SInvStep
    <3> QED
      BY <3>1, AloneStep, RefusedStep DEF Disturbed, Reported
  <2> QED
    BY <2>1, <2>2, ScanInvariant, PTL DEF SSpec
<1>3. SInv /\ Leafless /\ Alone /\ Refused => ReportIsTrue
  <2> SUFFICES ASSUME SInv, Leafless, Alone, Refused, excused = {}
               PROVE  /\ ScanReport.state = "done" => ScanReport.rows = TrueRows
                      /\ ScanReport.state = "failed" => Unscannable
    BY DEF ReportIsTrue
  <2>1. CASE failed
    BY <2>1 DEF ScanReport, C!Failed, Refused
  <2>2. CASE ~failed /\ Finished
    <3>1. Rows = TrueRows
      BY <2>2, RowsAreTrue DEF SInv
    <3>2. ScanReport = [state |-> "done", rows |-> Rows]
      BY <2>2 DEF ScanReport
    <3> QED
      BY <3>1, <3>2
  <2>3. CASE ~failed /\ ~Finished
    <3>1. ScanReport = [state |-> "pending", rows |-> {}]
      BY <2>3 DEF ScanReport
    <3> QED
      BY <3>1
  <2> QED
    BY <2>1, <2>2, <2>3
<1> QED
  BY <1>1, <1>2, <1>3, ScanInvariant, PTL

----------------------------------------------------------------------------
(* Each object has one node at most, so there are never more nodes than objects. *)
Objs == Cardinality(Objects)

LEMMA NamesFew ==
  ASSUME NamesOK PROVE Len(names) \in Nat /\ Len(names) <= Objs /\ Objs \in Nat
<1>1. /\ names \in Seq(Objects) /\ Len(names) = Len(nodes)
      /\ \A i, j \in 1..Len(nodes) : names[i] = names[j] => i = j
  BY DEF NamesOK, Ids
<1>2. PICK n : n = Len(names)
  OBVIOUS
<1>3. n \in Nat /\ names \in [1..n -> Objects]
  BY <1>1, <1>2
<1>4. names \in Injection(1..n, Objects)
  BY <1>1, <1>2, <1>3 DEF Injection, IsInjective
<1>5. IsFiniteSet(1..n) /\ Cardinality(1..n) = n
  BY <1>3, UpTo
<1>6. Cardinality(1..n) <= Cardinality(Objects)
  BY <1>4, FileTreeAssumption, FS_Injection
<1>7. Objs \in Nat
  BY FileTreeAssumption, FS_CardinalityType DEF Objs
<1> QED
  BY <1>2, <1>3, <1>5, <1>6, <1>7 DEF Objs

(* An object that is not recorded leaves room for a node.                       *)
LEMMA NamesFewer ==
  ASSUME NamesOK, NEW o \in Objects, ~Recorded(o)
  PROVE  Len(nodes) \in Nat /\ Len(nodes) + 1 <= Objs
<1>1. /\ names \in Seq(Objects) /\ Len(names) = Len(nodes)
      /\ \A i, j \in 1..Len(nodes) : names[i] = names[j] => i = j
      /\ \A i \in 1..Len(nodes) : names[i] # o
  BY DEF NamesOK, Ids, Recorded
<1>2. PICK n : n = Len(names)
  OBVIOUS
<1>3. n \in Nat /\ names \in [1..n -> Objects \ {o}]
  BY <1>1, <1>2
<1>4. names \in Injection(1..n, Objects \ {o})
  BY <1>1, <1>2, <1>3 DEF Injection, IsInjective
<1>5. IsFiniteSet(1..n) /\ Cardinality(1..n) = n
  BY <1>3, UpTo
<1>6. IsFiniteSet(Objects \ {o}) /\ Cardinality(Objects \ {o}) = Objs - 1
  BY FileTreeAssumption, FS_RemoveElement DEF Objs
<1>7. Cardinality(1..n) <= Cardinality(Objects \ {o})
  BY <1>4, <1>6, FS_Injection
<1>8. Objs \in Nat
  BY FileTreeAssumption, FS_CardinalityType DEF Objs
<1> QED
  BY <1>1, <1>2, <1>3, <1>5, <1>6, <1>7, <1>8

(* What the walker is about to ask of the sink.                                 *)
Ready(t) ==
  /\ ~t.read => nodes[Top.id].kids = <<>> /\ ~nodes[Top.id].err
  /\ t.left # {} => ~nodes[Top.id].err /\ Len(nodes) + 1 <= Objs

LEMMA IsReady ==
  ASSUME IInv, WalkOK, Depth > 0 PROVE Ready(todo[Depth])
<1>1. Depth \in 1..Depth /\ Top.id = open[Depth].id
  BY StateShape
<1>2. PICK t : t = todo[Depth]
  OBVIOUS
<1>3. /\ CallOK(t, Top.id) /\ NamesOK
      /\ t.left \subseteq Objects
  <2>1. todo[Depth] \in CallType
    BY <1>1, ElementOfSeq DEF WalkOK, TodoOK
  <2> QED
    BY <1>1, <1>2, <2>1 DEF WalkOK, TodoOK, CallType
<1>4. ASSUME t.left # {} PROVE ~nodes[Top.id].err /\ Len(nodes) + 1 <= Objs
  <2>1. PICK o \in Objects : o \in t.left
    BY <1>3, <1>4
  <2>2. ~Recorded(o)
    BY <1>3, <2>1 DEF CallOK, LeftOK
  <2> QED
    BY <1>3, <2>1, <2>2, NamesFewer DEF CallOK
<1> QED
  BY <1>2, <1>3, <1>4 DEF Ready, CallOK

(* The sink takes what scan_dir gives it: the walker marks a directory unreadable  *)
(* (set_read_error) before it has added anything to it and never adds to one that   *)
(* is (add_dir, add_stat, add_special), and it never asks for more nodes than       *)
(* there are objects.                                                            *)
Accepted ==
  Depth > 0 =>
    /\ ~todo[Depth].read => nodes[Top.id].kids = <<>> /\ ~nodes[Top.id].err
    /\ todo[Depth].left # {} => ~nodes[Top.id].err /\ Len(nodes) < Cardinality(Objects)

THEOREM SinkAccepts == SSpec => []Accepted
<1>1. SInv => Accepted
  <2> SUFFICES ASSUME SInv, Depth > 0 PROVE Accepted
    BY DEF Accepted
  <2>1. Ready(todo[Depth]) /\ Len(nodes) \in Nat /\ Objs \in Nat
    BY IsReady, StateShape, FileTreeAssumption, FS_CardinalityType DEF SInv, Objs
  <2> QED
    BY <2>1 DEF Ready, Accepted, Objs
<1> QED
  BY <1>1, ScanInvariant, PTL

----------------------------------------------------------------------------
(* How much is left to do: each object is recorded once, each directory read    *)
(* once, each of its entries looked at once, and each call returns once.        *)
LevelTurns(t) == IF t.read THEN 1 + Cardinality(t.left) ELSE Objs + 2

LevelsOf(ts) == [l \in 1..Len(ts) |-> LevelTurns(ts[l])]
StackTurns(ts) == SumFunctionOnSet(LevelsOf(ts), 1..Len(ts))

TurnsLeft == (Objs + 3) * (Objs - Len(names)) + StackTurns(todo)

LEMMA LevelType ==
  ASSUME NEW t \in CallType PROVE LevelTurns(t) \in Nat /\ LevelTurns(t) <= Objs + 2
<1>1. IsFiniteSet(Objects) /\ Objs \in Nat
  BY FileTreeAssumption, FS_CardinalityType DEF Objs
<1>2. t.left \in SUBSET Objects
  BY DEF CallType
<1>3. Cardinality(t.left) \in Nat /\ Cardinality(t.left) <= Objs
  BY <1>1, <1>2, Smaller DEF Objs
<1> QED
  BY <1>1, <1>3 DEF LevelTurns

LEMMA StackUnfolds ==
  ASSUME NEW ts \in Seq(CallType), NEW n, n = Len(ts), n > 0,
         NEW rest \in Seq(CallType), Len(rest) = n - 1, \A l \in 1..(n - 1) : rest[l] = ts[l]
  PROVE  /\ StackTurns(ts) = LevelTurns(ts[n]) + StackTurns(rest)
         /\ StackTurns(rest) \in Nat
<1>1. n \in Nat /\ n \in 1..n /\ n - 1 \in Nat /\ (1..n) \ {n} = 1..(n - 1)
  BY LenProperties
<1>2. PICK f : f = LevelsOf(ts)
  OBVIOUS
<1>3. PICK g : g = LevelsOf(rest)
  OBVIOUS
<1>4. \A l \in 1..n : f[l] = LevelTurns(ts[l]) /\ f[l] \in Nat
  BY <1>2, ElementOfSeq, LevelType DEF LevelsOf
<1>5. \A l \in 1..(n - 1) : g[l] = f[l] /\ g[l] \in Nat /\ g[l] \in Int /\ f[l] \in Int
  BY <1>1, <1>3, <1>4 DEF LevelsOf
<1>6. IsFiniteSet(1..n) /\ IsFiniteSet(1..(n - 1))
  BY <1>1, UpTo
<1>7. SumFunctionOnSet(f, 1..n) = f[n] + SumFunctionOnSet(f, 1..(n - 1))
  <2>1. \A l \in 1..n : f[l] \in Int
    BY <1>4
  <2> QED
    BY <1>1, <2>1, SumLast
<1>8. SumFunctionOnSet(f, 1..(n - 1)) = SumFunctionOnSet(g, 1..(n - 1))
  BY <1>5, <1>6, SumSame
<1>9. SumFunctionOnSet(g, 1..(n - 1)) \in Nat
  BY <1>5, <1>6, SumType
<1> QED
  BY <1>1, <1>2, <1>3, <1>4, <1>7, <1>8, <1>9 DEF StackTurns

LEMMA StackEmpty == ASSUME NEW ts, Len(ts) = 0 PROVE StackTurns(ts) = 0
<1>1. 1..Len(ts) = {}
  OBVIOUS
<1> QED
  BY <1>1, SumEmpty DEF StackTurns

LEMMA StackType ==
  ASSUME NEW ts \in Seq(CallType) PROVE StackTurns(ts) \in Nat
<1>1. PICK f : f = LevelsOf(ts)
  OBVIOUS
<1>2. Len(ts) \in Nat
  BY LenProperties
<1>3. \A l \in 1..Len(ts) : f[l] \in Nat
  BY <1>1, ElementOfSeq, LevelType DEF LevelsOf
<1>4. \A l \in 1..Len(ts) : f[l] \in Int
  BY <1>3
<1> QED
  BY <1>1, <1>2, <1>3, <1>4, UpTo, SumType DEF StackTurns

(* A stack whose innermost call is another.                                   *)
LEMMA TopTurns ==
  ASSUME NEW ts \in Seq(CallType), NEW n, n = Len(ts), n > 0,
         NEW us \in Seq(CallType), Len(us) = n, \A l \in 1..(n - 1) : us[l] = ts[l],
         LevelTurns(us[n]) < LevelTurns(ts[n])
  PROVE  StackTurns(us) < StackTurns(ts)
<1>1. n \in Nat /\ n \in 1..n
  BY LenProperties
<1>2. PICK rest : rest = SubSeq(ts, 1, n - 1)
  OBVIOUS
<1>3. /\ rest \in Seq(CallType) /\ Len(rest) = n - 1
      /\ \A l \in 1..(n - 1) : rest[l] = ts[l] /\ rest[l] = us[l]
  BY <1>1, <1>2, SubSeqProperties
<1>4. /\ StackTurns(ts) = LevelTurns(ts[n]) + StackTurns(rest)
      /\ StackTurns(us) = LevelTurns(us[n]) + StackTurns(rest)
      /\ StackTurns(rest) \in Nat
  BY <1>3, StackUnfolds
<1>5. LevelTurns(ts[n]) \in Nat /\ LevelTurns(us[n]) \in Nat
  BY <1>1, ElementOfSeq, LevelType
<1> QED
  BY <1>4, <1>5

LEMMA TurnsType ==
  ASSUME IInv, WalkOK
  PROVE  /\ Objs \in Nat /\ Objs - Len(names) \in Nat /\ StackTurns(todo) \in Nat
         /\ (Objs + 3) * (Objs - Len(names)) \in Nat
         /\ TurnsLeft \in Nat /\ Len(names) \in Nat
<1>1. Objs \in Nat /\ Objs - Len(names) \in Nat /\ Len(names) \in Nat
  BY NamesFew DEF WalkOK
<1>2. StackTurns(todo) \in Nat
  BY StackType DEF WalkOK, TodoOK
<1>3. \A x, y \in Nat : (x + 3) * y \in Nat
  OBVIOUS
<1> QED
  BY <1>1, <1>2, <1>3 DEF TurnsLeft

LEMMA Fewer ==
  ASSUME NEW x \in Nat, NEW y \in Int PROVE x * (y - 1) = x * y - x /\ x * y \in Int
  OBVIOUS

(* One more name, for at most as many turns as a directory takes.                *)
LEMMA NameTurns ==
  ASSUME IInv, WalkOK, Len(names') = Len(names) + 1, StackTurns(todo') \in Nat,
         StackTurns(todo') <= StackTurns(todo) + Objs + 2
  PROVE  TurnsLeft' < TurnsLeft
<1>1. PICK a, w : a = Objs - Len(names) /\ w = Objs + 3
  OBVIOUS
<1>2. PICK s, t : s = StackTurns(todo) /\ t = StackTurns(todo')
  OBVIOUS
<1>3. /\ a \in Int /\ w \in Nat /\ s \in Nat /\ t \in Nat /\ t <= s + w - 1
      /\ Objs - Len(names') = a - 1
  <2>1. PICK n, m : n = Len(names) /\ m = Objs
    OBVIOUS
  <2>2. n \in Nat /\ m \in Nat /\ s \in Nat /\ t \in Nat /\ t <= s + m + 2
    BY <1>2, <2>1, TurnsType
  <2>3. Len(names') = n + 1 /\ a = m - n /\ w = m + 3
    BY <1>1, <2>1
  <2> QED
    BY <2>1, <2>2, <2>3
<1>4. w * (a - 1) = w * a - w /\ w * a \in Int
  BY <1>3, Fewer
<1>5. TurnsLeft = w * a + s /\ TurnsLeft' = w * (a - 1) + t
  <2>1. TurnsLeft' = (Objs + 3) * (Objs - Len(names')) + StackTurns(todo')
    BY DEF TurnsLeft, Objs, StackTurns, LevelsOf, LevelTurns
  <2> QED
    BY <1>1, <1>2, <1>3, <2>1 DEF TurnsLeft
<1> QED
  BY <1>3, <1>4, <1>5

LEMMA SameNamesTurns ==
  ASSUME IInv, WalkOK, names' = names, StackTurns(todo') \in Nat,
         StackTurns(todo') < StackTurns(todo)
  PROVE  TurnsLeft' < TurnsLeft
<1>1. TurnsLeft' = (Objs + 3) * (Objs - Len(names)) + StackTurns(todo')
  BY DEF TurnsLeft, Objs, StackTurns, LevelsOf, LevelTurns
<1> QED
  BY <1>1, TurnsType DEF TurnsLeft

LEMMA TodoShape ==
  ASSUME IInv, WalkOK, Depth > 0
  PROVE  /\ Depth \in Nat /\ Depth \in 1..Depth /\ todo \in Seq(CallType) /\ Len(todo) = Depth
         /\ todo[Depth] \in CallType
<1>1. /\ Depth \in Nat /\ Depth \in 1..Depth /\ todo \in Seq(CallType) /\ Len(todo) = Depth
  BY StateShape DEF WalkOK, TodoOK
<1> QED
  BY <1>1, ElementOfSeq

(* The stack without e, which the innermost call had left.                      *)
LEMMA WithoutTurns ==
  ASSUME IInv, WalkOK, Depth > 0, NEW e \in todo[Depth].left
  PROVE  Without(e) \in Seq(CallType) /\ StackTurns(Without(e)) < StackTurns(todo)
<1>1. /\ Depth \in Nat /\ Depth \in 1..Depth /\ todo \in Seq(CallType) /\ Len(todo) = Depth
      /\ todo[Depth] \in CallType
  BY TodoShape
<1>2. PICK us : us = Without(e)
  OBVIOUS
<1>3. /\ us \in Seq(CallType) /\ Len(us) = Depth
      /\ \A l \in 1..Depth :
           /\ us[l].read = todo[l].read /\ us[l].pat = todo[l].pat
           /\ us[l].left = IF l = Depth THEN todo[l].left \ {e} ELSE todo[l].left
  BY <1>2, EntryShape
<1>4. \A l \in 1..(Depth - 1) : us[l] = todo[l]
  <2> SUFFICES ASSUME NEW l \in 1..(Depth - 1) PROVE us[l] = todo[l]
    OBVIOUS
  <2>1. l \in 1..Depth /\ l # Depth
    BY <1>1
  <2>2. us[l] \in CallType /\ todo[l] \in CallType
    BY <1>1, <1>3, <2>1, ElementOfSeq
  <2>3. us[l].read = todo[l].read /\ us[l].pat = todo[l].pat /\ us[l].left = todo[l].left
    BY <1>3, <2>1
  <2> QED
    BY <2>2, <2>3 DEF CallType
<1>5. LevelTurns(us[Depth]) < LevelTurns(todo[Depth])
  <2>1. PICK old : old = todo[Depth].left
    OBVIOUS
  <2>2. us[Depth].read = todo[Depth].read /\ us[Depth].left = old \ {e} /\ e \in old
    BY <1>1, <1>3, <2>1
  <2>3. todo[Depth].read
    BY <1>1 DEF WalkOK, TodoOK, CallOK
  <2>4. old \in SUBSET Objects
    BY <1>1, <2>1 DEF CallType
  <2>5. /\ Cardinality(old) \in Nat /\ Cardinality(old \ {e}) = Cardinality(old) - 1
    BY <2>2, <2>4, FileTreeAssumption, Smaller
  <2> QED
    BY <2>1, <2>2, <2>3, <2>5 DEF LevelTurns
<1>6. StackTurns(us) < StackTurns(todo)
  BY <1>1, <1>3, <1>4, <1>5, TopTurns
<1> QED
  BY <1>2, <1>3, <1>6

LEMMA BeginTurns ==
  ASSUME SInv, Begin PROVE TurnsLeft' < TurnsLeft
<1>1. IInv /\ WalkOK /\ nodes = <<>>
  BY DEF SInv, Begin, CreateRoot
<1>2. names = <<>> /\ todo = <<>> /\ Len(names) = 0
  <2>1. Depth = 0 /\ Len(nodes) = 0
    BY <1>1, StateShape
  <2>2. Len(names) = 0 /\ names \in Seq(Objects) /\ Len(todo) = 0 /\ todo \in Seq(CallType)
    BY <1>1, <2>1 DEF WalkOK, NamesOK, TodoOK
  <2> QED
    BY <2>2, EmptySeq
<1>3. PICK t : t = Unread(cur)
  OBVIOUS
<1>4. names' = <<Root>> /\ todo' = <<t>> /\ t.read = FALSE
  BY <1>3 DEF Begin, Unread
<1>5. Len(names') = Len(names) + 1 /\ Len(todo') = 1 /\ todo'[1] = t
  BY <1>2, <1>4
<1>6. t \in CallType
  <2>1. TypeOK /\ X!IInv
    BY DEF SInv, IInv
  <2>2. cur = X!CarriedBy(C!PathTo(Root))
    BY <2>1, PathUnfolds DEF Begin, Configured, X!IInv
  <2> QED
    BY <1>3, <2>2, CarriedType DEF Unread, CallType
<1>7. todo' \in Seq(CallType) /\ todo \in Seq(CallType) /\ Len(todo) = 0
  BY <1>2, <1>4, <1>6
<1>8. StackTurns(todo') = LevelTurns(t) + StackTurns(todo)
  <2>1. PICK us, n : us = todo' /\ n = 1
    OBVIOUS
  <2>2. /\ us \in Seq(CallType) /\ n = Len(us) /\ n > 0 /\ n - 1 = 0 /\ us[n] = t
        /\ \A l \in 1..(n - 1) : todo[l] = us[l]
    BY <1>5, <1>7, <2>1
  <2>3. StackTurns(us) = LevelTurns(us[n]) + StackTurns(todo)
    BY <1>7, <2>2, StackUnfolds
  <2> QED
    BY <2>1, <2>2, <2>3
<1>9. StackTurns(todo) = 0
  BY <1>7, StackEmpty
<1>10. LevelTurns(t) \in Nat /\ LevelTurns(t) <= Objs + 2 /\ Objs \in Nat
  BY <1>1, <1>6, LevelType, TurnsType
<1> QED
  BY <1>1, <1>5, <1>8, <1>9, <1>10, NameTurns

LEMMA ReadDirTurns ==
  ASSUME SInv, ReadDir PROVE TurnsLeft' < TurnsLeft
<1>1. IInv /\ WalkOK /\ FsOK /\ Depth > 0 /\ ~todo[Depth].read /\ names' = names
  BY DEF SInv, ReadDir
<1>2. /\ Depth \in Nat /\ Depth \in 1..Depth /\ todo \in Seq(CallType) /\ Len(todo) = Depth
      /\ todo[Depth] \in CallType /\ Depth \in 1..Len(todo)
  BY <1>1, TodoShape
<1>3. PICK t \in CallType : t.read = TRUE /\ todo' = [todo EXCEPT ![Depth] = t]
  <2>1. CASE todo' = [todo EXCEPT ![Depth].read = TRUE, ![Depth].left = Listed(Dir)]
    <3>1. Listed(Dir) \subseteq Objects
      BY <1>1 DEF Listed, FsOK
    <3>2. PICK t : t = [todo[Depth] EXCEPT !.read = TRUE, !.left = Listed(Dir)]
      OBVIOUS
    <3>3. t \in CallType /\ t.read = TRUE
      BY <1>2, <3>1, <3>2 DEF CallType
    <3>4. todo' = [todo EXCEPT ![Depth] = t]
      BY <1>2, <2>1, <3>2
    <3> QED
      BY <3>3, <3>4
  <2>2. CASE todo' = [todo EXCEPT ![Depth].read = TRUE]
    <3>1. PICK t : t = [todo[Depth] EXCEPT !.read = TRUE]
      OBVIOUS
    <3>2. t \in CallType /\ t.read = TRUE
      BY <1>2, <3>1 DEF CallType
    <3>3. todo' = [todo EXCEPT ![Depth] = t]
      BY <1>2, <2>2, <3>1
    <3> QED
      BY <3>2, <3>3
  <2> QED
    BY <2>1, <2>2 DEF ReadDir
<1>4. /\ todo' \in Seq(CallType) /\ Len(todo') = Depth
      /\ \A l \in 1..Depth : todo'[l] = IF l = Depth THEN t ELSE todo[l]
  BY <1>2, <1>3, CallChanged
<1>5. LevelTurns(todo'[Depth]) < LevelTurns(todo[Depth])
  <2>1. PICK left : left = t.left
    OBVIOUS
  <2>2. left \in SUBSET Objects
    BY <2>1 DEF CallType
  <2>3. Cardinality(left) \in Nat /\ Cardinality(left) <= Objs /\ Objs \in Nat
    BY <1>1, <2>2, FileTreeAssumption, Smaller, TurnsType DEF Objs
  <2>4. todo'[Depth] = t
    BY <1>2, <1>4
  <2> QED
    BY <1>1, <1>3, <2>1, <2>3, <2>4 DEF LevelTurns
<1>6. PICK us : us = todo'
  OBVIOUS
<1>7. StackTurns(us) < StackTurns(todo)
  <2>1. \A l \in 1..(Depth - 1) : us[l] = todo[l]
    BY <1>2, <1>4, <1>6
  <2> QED
    BY <1>1, <1>2, <1>4, <1>5, <1>6, <2>1, TopTurns
<1>8. StackTurns(us) \in Nat
  BY <1>4, <1>6, StackType
<1> QED
  BY <1>1, <1>6, <1>7, <1>8, SameNamesTurns

LEMMA SkipTurns ==
  ASSUME SInv, Depth > 0, NEW e \in todo[Depth].left, Skip(e) PROVE TurnsLeft' < TurnsLeft
<1>1. IInv /\ WalkOK /\ names' = names /\ todo' = Without(e)
  BY DEF SInv, Skip
<1>2. PICK us : us = Without(e)
  OBVIOUS
<1>3. StackTurns(us) < StackTurns(todo) /\ StackTurns(us) \in Nat
  BY <1>1, <1>2, WithoutTurns, StackType
<1> QED
  BY <1>1, <1>2, <1>3, SameNamesTurns

LEMMA EntryTurns ==
  ASSUME SInv, Depth > 0, NEW e \in todo[Depth].left, Entry(e) PROVE TurnsLeft' < TurnsLeft
<1>1. IInv /\ WalkOK /\ names' = Append(names, e)
  BY DEF SInv, Entry
<1>2. /\ Depth \in Nat /\ Depth \in 1..Depth /\ todo \in Seq(CallType) /\ Len(todo) = Depth
      /\ todo[Depth] \in CallType
  BY <1>1, TodoShape
<1>3. PICK us : us = Without(e)
  OBVIOUS
<1>4. /\ us \in Seq(CallType) /\ StackTurns(us) < StackTurns(todo) /\ StackTurns(us) \in Nat
      /\ Len(us) = Depth
  BY <1>1, <1>3, WithoutTurns, StackType, EntryShape
<1>5. Objs \in Nat /\ StackTurns(todo) \in Nat
  BY <1>1, TurnsType
<1>6. Len(names') = Len(names) + 1
  BY <1>1, AppendProperties DEF WalkOK, NamesOK
<1>7. CASE todo' = us
  <2>1. StackTurns(todo') \in Nat /\ StackTurns(todo') <= StackTurns(todo) + Objs + 2
    BY <1>4, <1>5, <1>7
  <2> QED
    BY <1>1, <1>6, <2>1, NameTurns
<1>8. CASE todo' = Append(us, Unread(SubPat(todo[Depth].pat, e)))
  <2>1. PICK t : t = Unread(SubPat(todo[Depth].pat, e))
    OBVIOUS
  <2>2. t.read = FALSE /\ LevelTurns(t) = Objs + 2
    BY <2>1 DEF Unread, LevelTurns
  <2>3. PICK vs : vs = todo'
    OBVIOUS
  <2>4. /\ vs = Append(us, t) /\ vs \in Seq(CallType)
    <3>1. SInv'
      BY SInvStep DEF SNext, Walk
    <3>2. todo' \in Seq(CallType)'
      BY <3>1 DEF SInv, WalkOK, TodoOK
    <3>3. CallType' = CallType
      BY SamePatterns DEF CallType, Entry, treeVars
    <3> QED
      BY <1>8, <2>1, <2>3, <3>2, <3>3
  <2>5. /\ Len(vs) = Depth + 1 /\ vs[Depth + 1] = t
        /\ \A l \in 1..Depth : vs[l] = us[l]
    BY <1>2, <1>4, <2>4
  <2>6. StackTurns(vs) = LevelTurns(vs[Depth + 1]) + StackTurns(us)
    <3>1. PICK n : n = Depth + 1
      OBVIOUS
    <3>2. n = Len(vs) /\ n > 0 /\ n - 1 = Depth
      BY <1>2, <2>5, <3>1
    <3>3. StackTurns(vs) = LevelTurns(vs[n]) + StackTurns(us)
      BY <1>4, <2>4, <2>5, <3>2, StackUnfolds
    <3> QED
      BY <3>1, <3>3
  <2>7. StackTurns(vs) \in Nat /\ StackTurns(vs) <= StackTurns(todo) + Objs + 2
    BY <1>4, <1>5, <2>2, <2>5, <2>6
  <2> QED
    BY <1>1, <1>6, <2>3, <2>7, NameTurns
<1> QED
  BY <1>3, <1>7, <1>8 DEF Entry

LEMMA ReturnTurns ==
  ASSUME SInv, Return PROVE TurnsLeft' < TurnsLeft
<1>1. /\ IInv /\ WalkOK /\ Depth > 0 /\ todo[Depth].read /\ todo[Depth].left = {}
      /\ names' = names /\ todo' = Front(todo)
  BY DEF SInv, Return, Caller
<1>2. /\ Depth \in Nat /\ Depth \in 1..Depth /\ todo \in Seq(CallType) /\ Len(todo) = Depth
  BY <1>1, TodoShape
<1>3. PICK us : us = todo'
  OBVIOUS
<1>4. /\ us \in Seq(CallType) /\ Len(us) = Depth - 1
      /\ \A l \in 1..(Depth - 1) : us[l] = todo[l]
  <2>1. us = SubSeq(todo, 1, Depth - 1)
    BY <1>1, <1>2, <1>3 DEF Front
  <2> QED
    BY <1>2, <2>1, SubSeqProperties
<1>5. StackTurns(todo) = LevelTurns(todo[Depth]) + StackTurns(us) /\ StackTurns(us) \in Nat
  BY <1>1, <1>2, <1>4, StackUnfolds
<1>6. LevelTurns(todo[Depth]) = 1
  BY <1>1, FS_EmptySet DEF LevelTurns
<1>7. StackTurns(us) < StackTurns(todo)
  BY <1>5, <1>6
<1> QED
  BY <1>1, <1>3, <1>5, <1>7, SameNamesTurns

(* No scan goes on for ever: each call of scan_dir reads its directory once, looks  *)
(* at each entry once and returns, and every call is for another directory.  A step  *)
(* of the walker leaves fewer to come, and nothing another program does meanwhile     *)
(* gives any of them back (scan_dir in scan.rs).                                   *)
WindsDown ==
  /\ TurnsLeft \in Nat
  /\ TurnsLeft' <= TurnsLeft
  /\ Walk /\ ~NoScan => TurnsLeft' < TurnsLeft

LEMMA StepLess ==
  ASSUME SInv, [SNext]_svars PROVE WindsDown
<1>1. TurnsLeft \in Nat
  BY TurnsType DEF SInv
<1>2. SInv'
  BY SInvStep
<1>3. TurnsLeft' \in Nat
  <2>1. (IInv /\ WalkOK => TurnsLeft \in Nat)'
    BY TurnsType, PTL
  <2> QED
    BY <1>2, <2>1 DEF SInv
<1>4. CASE Walk /\ ~NoScan
  <2>1. TurnsLeft' < TurnsLeft
    BY <1>4, BeginTurns, ReadDirTurns, ReturnTurns, SkipTurns, EntryTurns DEF Walk
  <2> QED
    BY <1>1, <1>3, <2>1 DEF WindsDown
<1>5. CASE UNCHANGED <<todo, names>>
  <2>1. TurnsLeft' = TurnsLeft
    BY <1>5 DEF TurnsLeft, StackTurns, LevelsOf, LevelTurns, Objs
  <2>2. Walk => NoScan
    <3>1. SUFFICES ASSUME Walk, ~NoScan PROVE FALSE
      OBVIOUS
    <3>2. TurnsLeft' < TurnsLeft
      BY <3>1, BeginTurns, ReadDirTurns, ReturnTurns, SkipTurns, EntryTurns DEF Walk
    <3> QED
      BY <1>1, <2>1, <3>2
  <2> QED
    BY <1>1, <2>1, <2>2 DEF WindsDown
<1>6. (Walk /\ ~NoScan) \/ UNCHANGED <<todo, names>>
  BY DEF SNext, Prepare, Others, NoScan, svars
<1> QED
  BY <1>4, <1>5, <1>6

THEOREM ScanWindsDown == SSpec => [][WindsDown]_svars
<1>1. SInv /\ [SNext]_svars => [WindsDown]_svars
  BY StepLess
<1> QED
  BY <1>1, ScanInvariant, PTL DEF SSpec
=============================================================================
