------------------------------- MODULE MCJson -------------------------------
(***************************************************************************)
(* Export and import of every tree of at most MaxNodes entries on two        *)
(* devices, with a unit of two bytes so that large totals overflow; and of   *)
(* dumps this program does not write: a root with up to two items, which may  *)
(* be directories of one, with fields that contradict each other, odd sizes,  *)
(* devices left out or repeated, and malformed items; in some of them that    *)
(* root is in another.  A directory with three around it is too deep.         *)
(***************************************************************************)
EXTENDS Json

Plain == [dsize |-> Absent, dev |-> Absent, hlnkc |-> FALSE, notreg |-> FALSE,
          read_error |-> FALSE, excluded |-> Absent]
V(kind, obj, rest) == [kind |-> kind, obj |-> obj, rest |-> rest]

Entries ==
  {V("entry", [Plain EXCEPT !.excluded = x, !.read_error = e, !.hlnkc = e,
                            !.dsize = <<5>>], <<>>) :
     x \in {Absent} \cup {<<t>> : t \in {"pattern", "otherfs", "othfs", "kernfs", "frmlnk"}},
     e \in BOOLEAN}
  \cup {V("entry", [Plain EXCEPT !.hlnkc = TRUE, !.notreg = TRUE, !.dev = <<10>>], <<>>),
        V("malformed", Plain, <<>>)}
DirObjs ==
  {[Plain EXCEPT !.dev = d, !.read_error = e, !.dsize = <<4>>,
                 !.excluded = IF e THEN <<"pattern">> ELSE Absent] :
     d \in {Absent, <<10>>, <<20>>}, e \in BOOLEAN}

OfOne(items) == {<<>>} \cup {<<v>> : v \in items}
Leaves == Entries \cup {V("dir", o, <<>>) : o \in DirObjs}
Inner == Leaves \cup {V("dir", o, r) : o \in DirObjs, r \in OfOne(Leaves) \ {<<>>}}
Dumps ==
  {V("dir", o, r) : o \in {p \in DirObjs : ~p.read_error},
                   r \in OfOne(Inner) \cup (Leaves \X Inner)}
  \cup Entries
Deeper ==
  {V("dir", Plain, <<d>>) :
     d \in {V("dir", o, r) : o \in {p \in DirObjs : ~p.read_error}, r \in OfOne(Inner)}}
MCNested == <<Leaves, Inner, Inner \cup Dumps, Dumps \cup Deeper>>
=============================================================================
