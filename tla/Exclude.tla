------------------------------ MODULE Exclude ------------------------------
(***************************************************************************)
(* The exclude patterns (exclude.rs): parsing on the command line, then the  *)
(* sets of partly matched patterns a walk carries from directory to          *)
(* directory.                                                               *)
(*                                                                         *)
(* A written pattern is a sequence of globs and slashes, a glob being the    *)
(* text between two slashes.  A pointer into a parsed chain is <<p, k>>, the *)
(* k-th component of pattern p.  The Vecs of such pointers are sets: only    *)
(* whether a match is in them matters to match_list and enter_into.          *)
(***************************************************************************)
EXTENDS Integers, Sequences

CONSTANTS
  Names,         (* file names                                              *)
  Wild,          (* globs with a special character                          *)
  Fnmatch,       (* Fnmatch[g]: the path components the glob g matches (libc) *)
  Written,       (* the patterns a user may give                            *)
  MaxPatterns, MaxDepth      (* bounds: patterns given, depth of the walk   *)

Slash == "/"
Empty == ""                          \* the text between two adjacent slashes
Globs == Names \cup Wild \cup {Empty}
PathNames == Names \cup {Empty}              \* a path may have adjacent slashes

PatternTypes ==
  /\ Slash \notin Globs /\ Empty \notin Names \cup Wild
  /\ Fnmatch \in [Wild -> SUBSET PathNames]
  /\ Written \subseteq Seq(Names \cup Wild \cup {Slash})
  /\ \A w \in Written : \A i \in 1..(Len(w) - 1) : w[i] = Slash \/ w[i + 1] = Slash
  /\ MaxPatterns \in Nat /\ MaxDepth \in Nat

ASSUME ExcludeAssumption == PatternTypes

VARIABLES
  storage,          (* the parsed patterns                                  *)
  root, root_unanchored,     (* where the walk of each kind begins          *)
  given,            (* history: the patterns as written                     *)
  path,             (* what is between the slashes from / to the directory    *)
                    (* being scanned, as typed                              *)
  cur,              (* its Patterns                                         *)
  walking           (* the command line is read, the walk has begun         *)

vars == <<storage, root, root_unanchored, given, path, cur, walking>>

----------------------------------------------------------------------------
(* Pattern::parse: a chain of components; only the last may be file-or-dir.  *)
Component(glob, isdir) == [glob |-> glob, isdir |-> isdir]

SlashAt(w, i) == {s \in i..Len(w) : w[s] = Slash}
FirstSlash(w, i) == CHOOSE s \in SlashAt(w, i) : \A r \in SlashAt(w, i) : s <= r
Field(w, i, j) == IF i < j THEN w[i] ELSE Empty       \* the text in i..(j - 1)
AtEnd(w, i) == i > Len(w)                            \* mutant of OnlySlashes
OnlySlashes(w, i) == \A s \in i..Len(w) : w[s] = Slash

Start(w) == CHOOSE i \in 1..(Len(w) + 1) :             \* trim_start_matches
              /\ \A s \in 1..(i - 1) : w[s] = Slash
              /\ i <= Len(w) => w[i] # Slash

(* The components from i on; chain has those from later places on.           *)
Split(w, chain, i) ==
  IF SlashAt(w, i) = {}
  THEN <<Component(Field(w, i, Len(w) + 1), FALSE)>>
  ELSE LET s == FirstSlash(w, i)
           c == Component(Field(w, i, s), TRUE)
       IN  IF OnlySlashes(w, s + 1) THEN <<c>> ELSE <<c>> \o chain[s + 1]

Parse(w) ==
  LET chain[i \in 1..(Len(w) + 1)] == Split(w, chain, i)
  IN  chain[Start(w)]

----------------------------------------------------------------------------
(* A component matches a name: literally, or by fnmatch.                     *)
Match(glob, name) ==
  IF glob \in Wild THEN name \in Fnmatch[glob] ELSE glob = name

At(t) == storage[t[1]][t[2]]
IsLast(t) == t[2] = Len(storage[t[1]])

(* match_list: "all" if files and directories are excluded, "dirs" if only   *)
(* directories are.                                                         *)
DirsWin(list, name) ==                                  \* mutant of MatchList
  LET hits == {t \in list : Match(At(t).glob, name)}
  IN  IF \E t \in hits : At(t).isdir THEN "dirs" ELSE IF hits # {} THEN "all" ELSE "no"
MatchList(list, name) ==
  LET hits == {t \in list : Match(At(t).glob, name)}
  IN  IF \E t \in hits : ~At(t).isdir THEN "all"
      ELSE IF hits # {} THEN "dirs" ELSE "no"

(* Patterns::matches.                                                       *)
Matches(pat, name) ==
  LET a == MatchList(pat.leaf, name)
      b == MatchList(root_unanchored.leaf, name)
  IN  IF "all" \in {a, b} THEN "all" ELSE IF a # "no" THEN a ELSE b

(* enter_into: the next components of the branches that match the name.      *)
Subs(branch, name) ==
  {<<t[1], t[2] + 1>> : t \in {u \in branch : Match(At(u).glob, name)}}
Sorted(ts) == [leaf |-> {t \in ts : IsLast(t)}, branch |-> {t \in ts : ~IsLast(t)}]

(* Patterns::enter.                                                         *)
ForgetUnanchored(pat, name) == Sorted(Subs(pat.branch, name)) \* mutant of Enter
KeepBranch(pat, name) ==                                      \* mutant of Enter
  Sorted(pat.branch \cup Subs(pat.branch \cup root_unanchored.branch, name))
Enter(pat, name) ==
  Sorted(Subs(pat.branch, name) \cup Subs(root_unanchored.branch, name))

----------------------------------------------------------------------------
NoPatterns == [leaf |-> {}, branch |-> {}]

Init ==
  /\ storage = <<>> /\ given = <<>>
  /\ root = NoPatterns /\ root_unanchored = NoPatterns
  /\ path = <<>> /\ cur = NoPatterns /\ walking = FALSE

(* ExcludeSet::add; the empty pattern is skipped.                            *)
AllBranch(pats, t, chain) == [pats EXCEPT !.branch = @ \cup {t}]   \* mutant
With(pats, t, chain) ==
  IF Len(chain) > 1 THEN [pats EXCEPT !.branch = @ \cup {t}]
  ELSE [pats EXCEPT !.leaf = @ \cup {t}]

Add(w) ==
  /\ ~walking /\ Len(given) < MaxPatterns
  /\ w # <<>>
  /\ storage' = Append(storage, Parse(w))
  /\ given' = Append(given, w)
  /\ LET first == <<Len(storage) + 1, 1>>
     IN  IF w[1] = Slash
         THEN /\ root' = With(root, first, Parse(w))
              /\ UNCHANGED root_unanchored
         ELSE /\ root_unanchored' = With(root_unanchored, first, Parse(w))
              /\ UNCHANGED root
  /\ UNCHANGED <<path, cur, walking>>

(* for_path begins at the root of the path it is given ...                   *)
Begin ==
  /\ ~walking
  /\ walking' = TRUE /\ cur' = root
  /\ UNCHANGED <<storage, root, root_unanchored, given, path>>

(* ... and enters its components, the empty ones between its slashes too, as   *)
(* the walk then does with directories.                                     *)
Descend(name) ==
  /\ walking /\ Len(path) < MaxDepth
  /\ path' = Append(path, name)
  /\ cur' = Enter(cur, name)
  /\ UNCHANGED <<storage, root, root_unanchored, given, walking>>

Next ==
  \/ \E w \in Written : Add(w)
  \/ Begin
  \/ \E name \in Names : Descend(name)
  \/ path # <<>> /\ Descend(Empty)             \* for_path trims the outer ones
  \/ walking /\ Len(path) = MaxDepth /\ UNCHANGED vars

Spec == Init /\ [][Next]_vars

----------------------------------------------------------------------------
Patterns == 1..Len(storage)
Pointers == UNION {{p} \X (1..Len(storage[p])) : p \in Patterns}
PatternSets == [leaf : SUBSET Pointers, branch : SUBSET Pointers]

(* Type invariant: every pointer held is into a stored chain (they live as   *)
(* 'static references to it).                                                *)
TypeOK ==
  /\ storage \in Seq(Seq([glob : Globs, isdir : BOOLEAN]) \ {<<>>})
  /\ Len(given) = Len(storage)
  /\ root \in PatternSets /\ root_unanchored \in PatternSets
  /\ cur \in PatternSets
  /\ path \in Seq(PathNames) /\ walking \in BOOLEAN

Anchored(p) == given[p][1] = Slash

(* The first k components of p match the k names that end ns.                *)
FitsTail(p, k, ns) ==
  /\ k <= Len(ns)
  /\ \A i \in 1..k : Match(storage[p][i].glob, ns[Len(ns) - k + i])

(* p excludes the entry with the path ns: an anchored pattern is matched     *)
(* against the whole path, any other against an end of it.                   *)
Excludes(p, ns) ==
  LET n == Len(storage[p])
  IN  FitsTail(p, n, ns) /\ (Anchored(p) => n = Len(ns))

DirOnly(p) == storage[p][Len(storage[p])].isdir

(* What the patterns say of the entry `name' in the directory with the path   *)
(* ns, by definition.                                                       *)
Meaning(ns, name) ==
  LET hits == {p \in Patterns : Excludes(p, Append(ns, name))}
  IN  IF \E p \in hits : ~DirOnly(p) THEN "all"
      ELSE IF hits # {} THEN "dirs" ELSE "no"

(* In every directory of a walk, the answer of Patterns::matches for every    *)
(* name is the meaning of the patterns for the full path, although enter      *)
(* only ever sees one name at a time.                                         *)
MatchesIsMeaning ==
  walking => \A name \in Names : Matches(cur, name) = Meaning(path, name)

(* The pointers carried into a directory are those to the components that     *)
(* come after a match of the end of its path, and no others: none is lost on  *)
(* the way down and none is kept too long.                                    *)
Carried(t, ns) ==
  /\ FitsTail(t[1], t[2] - 1, ns)
  /\ IF Anchored(t[1]) THEN t[2] - 1 = Len(ns) ELSE t[2] > 1
CarriedExactly ==
  walking => /\ cur.leaf = {t \in Pointers : Carried(t, path) /\ IsLast(t)}
             /\ cur.branch = {t \in Pointers : Carried(t, path) /\ ~IsLast(t)}

(* A written pattern is read by its outermost slashes: those before the first *)
(* glob only anchor it, those after the last only make it match directories,  *)
(* and what lies between is split at each slash (adjacent ones leaving an     *)
(* empty component, which matches no name but that of such a component).      *)
Text(w) == {i \in 1..Len(w) : w[i] # Slash}
Joined(chain) ==
  LET text(k) == IF chain[k].glob = Empty THEN <<>> ELSE <<chain[k].glob>>
      join[k \in 1..Len(chain)] ==
        IF k = 1 THEN text(1) ELSE join[k - 1] \o <<Slash>> \o text(k)
  IN  join[Len(chain)]

SplitAsWritten ==
  \A p \in Patterns :
    LET w == given[p]
    IN  IF Text(w) = {} THEN storage[p] = <<Component(Empty, FALSE)>>
        ELSE \E lo, hi \in Text(w) :
               /\ Text(w) \subseteq lo..hi
               /\ Joined(storage[p]) = SubSeq(w, lo, hi)
               /\ DirOnly(p) <=> hi < Len(w)
=============================================================================
