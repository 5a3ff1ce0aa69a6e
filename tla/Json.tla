-------------------------------- MODULE Json --------------------------------
(***************************************************************************)
(* Export of a tree (json_export.rs) and import of a dump (json_import.rs).  *)
(*                                                                         *)
(* A dump is a nested value: an item is of a kind, "dir" (an array), "entry"  *)
(* (an object) or "malformed" (anything else, or without a name), and has     *)
(* the fields of its object and, for a directory, the items after it in its  *)
(* array.  A field that is left out is <<>>, otherwise <<value>>; a flag that *)
(* is left out is FALSE.  hlnkc stands also for an nlink above 1 with an ino. *)
(* Text (names, escapes, the header) and Ext are left out, asize is like     *)
(* dsize.  A dump is written by this program or comes from another.          *)
(***************************************************************************)
EXTENDS MemSink, SequencesExt

CONSTANTS
  Unit,          (* bytes in a block, 512 in the code                       *)
  Levels,        (* so many levels of directories serde_json reads: its limit *)
                 (* of 127 open brackets and braces leaves room for 125       *)
  Nested         (* Nested[k]: the items of other programs' dumps that are    *)
                 (* nested at most k deep; the last are those dumps          *)

NoDev == MaxU64                                  \* u64::MAX, no real device

Optional(S) == {<<>>} \cup {<<x>> : x \in S}

ASSUME JsonAssumption ==
  /\ Unit \in Nat \ {0} /\ Levels \in Nat \ {0} /\ Devs \subseteq Nat \ {NoDev}
  /\ Len(Nested) \in Nat \ {0}
  /\ \A k \in 1..Len(Nested) : \A v \in Nested[k] :
       /\ v.obj.dsize \in Optional(0..MaxU64)
       /\ v.obj.dev \in Optional(Devs \cup {NoDev})
       /\ v.obj.read_error \in BOOLEAN
       /\ v.rest \in Seq(IF k = 1 THEN {} ELSE Nested[k - 1])

Foreign == Nested[Len(Nested)]

VARIABLES
  dump,        (* the dump: <<>>, or <<item>>                               *)
  origin,      (* history: "none", "scan", "import" or "other" wrote it      *)
  source,      (* history: the [nodes, devices] export_tree wrote it from    *)
  imported, idevices,   (* Tree::nodes and the devices of the import        *)
  calls,       (* the calls of parse_item for directories, a stack of       *)
               (* [id, dev, rest, child_ids]                                *)
  refused      (* import_tree returned an error                             *)

importVars == <<imported, idevices, calls, refused>>
jvars == <<vars, dump, origin, source, importVars>>

Absent == <<>>
Bytes(n) == LET b == n * Unit IN IF b > MaxU64 THEN MaxU64 ELSE b
Field(n) == IF n > 0 THEN <<n>> ELSE Absent
Or(field, default) == IF field = Absent THEN default ELSE field[1]

----------------------------------------------------------------------------
(* write_entry_object, with the read_error of write_dir; outer is the device *)
(* of the directory the entry is in, NoDev for the root.                     *)
Markers == Specials \cup {"OtherFs", "KernFs"}
Tags == [Pattern |-> "pattern", OtherFs |-> "otherfs", KernFs |-> "kernfs"]

DevOf(devs, n) == IF n.dev \in 1..Len(devs) THEN devs[n.dev] ELSE 0

Fields(devs, n, outer) ==
  LET differs == DevOf(devs, n) # outer
  IN [dsize |-> IF n.etype \in Markers THEN Absent ELSE Field(Bytes(n.blocks)),
      dev |-> IF n.etype = "Dir" /\ differs THEN <<DevOf(devs, n)>> ELSE Absent,
      hlnkc |-> n.etype = "Link",
      notreg |-> n.etype = "NonReg",
      read_error |-> n.etype = "Err" \/ n.err,
      excluded |-> IF n.etype \in DOMAIN Tags THEN <<Tags[n.etype]>> ELSE Absent]

(* write_dir: the item of entry i, from those of the entries after it.        *)
Outers == Devs \cup {0, NoDev}
Written(item, ns, devs, i, outer) ==
  [kind |-> IF ns[i].etype = "Dir" THEN "dir" ELSE "entry",
   obj |-> Fields(devs, ns[i], outer),
   rest |-> [k \in 1..Len(ns[i].kids) |->
               item[ns[i].kids[k]][DevOf(devs, ns[i])]]]

Item(ns, devs) ==
  LET item[i \in 1..Len(ns)] == [outer \in Outers |-> Written(item, ns, devs, i, outer)]
  IN  item[1][NoDev]

Tree(ns, devs) == [nodes |-> ns, devices |-> devs]
Emptied == imported' = <<>> /\ idevices' = <<>> /\ calls' = <<>> /\ refused' = FALSE

JInit ==
  /\ Init
  /\ dump = <<>> /\ origin = "none" /\ source = <<>>
  /\ imported = <<>> /\ idevices = <<>> /\ calls = <<>> /\ refused = FALSE

Scan ==
  /\ dump = <<>> /\ Next
  /\ UNCHANGED <<dump, origin, source, importVars>>

(* export_tree, of the scanned tree ...                                      *)
Export ==
  /\ Finished /\ dump = <<>>
  /\ dump' = <<Item(nodes, devices)>>
  /\ origin' = "scan" /\ source' = <<Tree(nodes, devices)>>
  /\ UNCHANGED <<vars, importVars>>

(* ... or, once, of an imported one, which is then to be imported in turn.    *)
(* write_dir fails on a root that is not a directory.                        *)
Imported == imported # <<>> /\ calls = <<>>

ExportImported ==
  /\ Imported /\ imported[1].etype = "Dir" /\ origin # "import"
  /\ dump' = <<Item(imported, idevices)>>
  /\ origin' = "import" /\ source' = <<Tree(imported, idevices)>>
  /\ Emptied
  /\ UNCHANGED vars

(* A dump of another program.                                               *)
Receive ==
  /\ nodes = <<>> /\ dump = <<>>
  /\ \E v \in Foreign : dump' = <<v>>
  /\ origin' = "other"
  /\ UNCHANGED <<vars, source, importVars>>

----------------------------------------------------------------------------
(* What the text of an `excluded' field means.                               *)
OfTag(tag) == CASE tag \in {"otherfs", "othfs"} -> "OtherFs"
                [] tag = "kernfs" -> "KernFs"
                [] OTHER -> "Pattern"

(* parse_item: the type of an entry by its fields, in the order of the tests. *)
ErrorFirst(v) ==                                            \* mutant of EType
  IF v.obj.read_error THEN "Err" ELSE IF v.kind = "dir" THEN "Dir"
  ELSE IF v.obj.excluded # Absent THEN "Pattern" ELSE "Reg"
EType(v) ==
  IF v.kind = "dir" THEN "Dir"
  ELSE IF v.obj.excluded # Absent THEN OfTag(v.obj.excluded[1])
  ELSE IF v.obj.read_error THEN "Err"
  ELSE IF v.obj.hlnkc THEN "Link"
  ELSE IF v.obj.notreg THEN "NonReg"
  ELSE "Reg"

(* parse_item up to the children: the node it creates.  outer is parent_dev.  *)
NotInherited(v, outer) == Or(v.obj.dev, 0)                  \* mutant of Dev
Dev(v, outer) == Or(v.obj.dev, outer)

PlaceOf(devs, d) == CHOOSE i \in 1..Len(devs) : devs[i] = d
Known(devs, d) == \E i \in 1..Len(devs) : devs[i] = d

Parsed(v, outer, devs) ==
  LET n == Node(EType(v), Or(v.obj.dsize, 0) \div Unit, NoEntry, 0)
  IN  IF v.kind = "dir" THEN [n EXCEPT !.err = v.obj.read_error,
                              !.dev = PlaceOf(devs, Dev(v, outer))]
      ELSE n

(* The caller links the child c it got back; ns is the arena.                 *)
Forgotten(ns, c, p) == ns                               \* mutant of WithParent
WithParent(ns, c, p) ==
  IF ns[c].etype \in {"Dir", "Link"} THEN [ns EXCEPT ![c].parent = p] ELSE ns

Create(v, outer) ==
  /\ idevices' = IF v.kind = "dir" /\ ~Known(idevices, Dev(v, outer))
                 THEN Append(idevices, Dev(v, outer)) ELSE idevices
  /\ LET c == Len(imported) + 1
         made == Append(imported, Parsed(v, outer, idevices'))
         up == Len(calls)
         called == IF up = 0 THEN calls
                   ELSE [calls EXCEPT ![up].rest = Tail(@)]
     IN  IF v.kind = "dir"
         THEN /\ imported' = made
              /\ calls' = Append(called, [id |-> c, dev |-> Dev(v, outer),
                                          rest |-> v.rest, child_ids |-> <<>>])
         ELSE IF up = 0
         THEN imported' = made /\ calls' = calls
         ELSE /\ imported' = WithParent(made, c, calls[up].id)
              /\ calls' = [called EXCEPT ![up].child_ids = Append(@, c)]
  /\ UNCHANGED refused

(* An error of parse_item ends all its calls, and the tree is dropped.         *)
PassedOver ==                                               \* mutant of Fail
  /\ calls' = [calls EXCEPT ![Len(calls)].rest = Tail(@)]
  /\ UNCHANGED <<imported, idevices, refused>>
Fail == refused' = TRUE /\ imported' = <<>> /\ idevices' = <<>> /\ calls' = <<>>

ParseItem(v, outer) ==
  /\ IF v.kind = "malformed" THEN Fail ELSE Create(v, outer)
  /\ UNCHANGED <<vars, dump, origin, source>>

(* serde_json gives up on a text that nests deeper than its recursion limit,   *)
(* wherever in the text that is.                                            *)
TooDeep(v) ==
  LET down[k \in 0..Levels] ==
        IF k = 0 THEN {v} ELSE UNION {ToSet(u.rest) : u \in down[k - 1]}
  IN  \E u \in down[Levels] : u.kind = "dir"

(* import_tree: from_reader reads all of the text before anything is made of   *)
(* it.  Text that is not JSON, or a header import_tree does not accept, is     *)
(* like a malformed root.                                                   *)
ParseRoot ==
  /\ dump # <<>> /\ imported = <<>> /\ ~refused
  /\ IF TooDeep(dump[1]) THEN Fail /\ UNCHANGED <<vars, dump, origin, source>>
     ELSE ParseItem(dump[1], NoDev)

OuterDev(c) == IF Len(calls) > 1 THEN calls[Len(calls) - 1].dev ELSE c.dev \* mutant
ChildDev(c) == c.dev                       \* what a child inherits: `dev'

ParseChild ==
  /\ calls # <<>> /\ calls[Len(calls)].rest # <<>>
  /\ LET c == calls[Len(calls)] IN ParseItem(Head(c.rest), ChildDev(c))

(* The end of parse_item for a directory, and the caller's linking of it.     *)
ParseDone ==
  /\ calls # <<>> /\ calls[Len(calls)].rest = <<>>
  /\ LET up == Len(calls) - 1
         c == calls[up + 1]
         linked == [imported EXCEPT ![c.id].kids = c.child_ids,
                                    ![c.id].items = Len(c.child_ids)]
     IN  IF up = 0
         THEN imported' = linked /\ calls' = <<>>
         ELSE /\ imported' = WithParent(linked, c.id, calls[up].id)
              /\ calls' = [SubSeq(calls, 1, up) EXCEPT
                             ![up].child_ids = Append(@, c.id)]
  /\ UNCHANGED <<vars, dump, origin, source, idevices, refused>>

Over ==
  \/ refused
  \/ Imported /\ (origin = "import" \/ imported[1].etype # "Dir")

JNext ==
  \/ Scan \/ Receive \/ Export \/ ExportImported
  \/ ParseRoot \/ ParseChild \/ ParseDone
  \/ Over /\ UNCHANGED jvars

JSpec == JInit /\ [][JNext]_jvars

----------------------------------------------------------------------------
(* Type invariant of the import.                                            *)
JTypeOK ==
  /\ \A i \in 1..Len(imported) :
       LET n == imported[i]
       IN  /\ n.etype \in {"Dir"} \cup FileTypes \cup Markers
           /\ n.blocks \in 0..MaxU64 /\ n.dev \in 0..Len(idevices)
           /\ n.kids \in Seq(1..Len(imported)) /\ n.err \in BOOLEAN
  /\ idevices \in Seq(Devs \cup {NoDev})
  /\ Len(dump) <= 1 /\ Len(source) <= 1 /\ refused \in BOOLEAN
  /\ \A l \in 1..Len(calls) : /\ calls[l].id \in 1..Len(imported)
                              /\ imported[calls[l].id].etype = "Dir"
                              /\ calls[l].dev \in Devs \cup {NoDev}

(* The items of other programs' dumps that are malformed, or hold an item that *)
(* is, however deep.                                                        *)
Spoilt ==
  LET spoilt[k \in 0..Len(Nested)] ==
        IF k = 0 THEN {}
        ELSE LET within == spoilt[k - 1]
             IN  {v \in Nested[k] : \/ v.kind = "malformed"
                                   \/ \E j \in 1..Len(v.rest) : v.rest[j] \in within}
  IN  spoilt[Len(Nested)]

(* Where entry i is listed, as <<directory, place>>; the item of the dump that  *)
(* is found there, and the device that is in force in it.                     *)
Spots(ns, i) ==
  {s \in UNION {{d} \X (1..Len(ns[d].kids)) : d \in 1..Len(ns)} : ns[s[1]].kids[s[2]] = i}

Found(v, outer) == [item |-> v, dev |-> IF v.obj.dev = Absent THEN outer ELSE v.obj.dev[1]]

FoundBelow(found, s) == Found(found[s[1]].item.rest[s[2]], found[s[1]].dev)

FoundIn(v, ns) ==
  LET found[i \in 1..Len(ns)] ==
        IF i = 1 THEN Found(v, NoDev) ELSE FoundBelow(found, CHOOSE s \in Spots(ns, i) : TRUE)
  IN  found

(* What the fields of an entry say it is, and which of them counts for more.  *)
Claims(v) ==
  {"Reg"} \cup {t \in {"NonReg"} : v.obj.notreg} \cup {t \in {"Link"} : v.obj.hlnkc}
          \cup {t \in {"Err"} : v.obj.read_error}
          \cup (IF v.obj.excluded = Absent THEN {} ELSE {OfTag(v.obj.excluded[1])})
Rank == [Reg |-> 0, NonReg |-> 1, Link |-> 2, Err |-> 3,
         Pattern |-> 4, OtherFs |-> 4, KernFs |-> 4]

(* A dump is refused only when its directories nest too deep for serde_json,   *)
(* or another program wrote it and an item of it, however deep, is malformed;  *)
(* and one that nests too deep is refused.  Otherwise it becomes a tree in     *)
(* which every entry but the root is in one list, once, and is made from the   *)
(* item at that place of the dump; every directory has as many children as    *)
(* its array has items, and is on the device that it or the nearest one around *)
(* it names; and every other entry is of the type that, of all its fields     *)
(* claim, counts for most (import_tree).                                     *)
ReadAsWritten ==
  /\ refused => TooDeep(dump[1]) \/ (origin = "other" /\ dump[1] \in Spoilt)
  /\ Imported =>
       LET found == FoundIn(dump[1], imported)
       IN  /\ ~TooDeep(dump[1])
           /\ \A i \in 2..Len(imported) : \E s \in Spots(imported, i) : Spots(imported, i) = {s}
           /\ \A i \in 1..Len(imported) :
                LET m == imported[i]
                    v == found[i].item
                IN  /\ v.kind # "malformed"
                    /\ m.blocks = Or(v.obj.dsize, 0) \div Unit
                    /\ IF v.kind = "dir"
                       THEN /\ m.etype = "Dir"
                            /\ Len(m.kids) = Len(v.rest) /\ m.items = Len(v.rest)
                            /\ DevOf(idevices, m) = found[i].dev
                       ELSE /\ m.etype \in Claims(v) /\ m.kids = <<>>
                            /\ \A t \in Claims(v) : Rank[t] <= Rank[m.etype]

(* A total whose bytes saturate in the dump comes back smaller.              *)
Fits(n) == n.blocks * Unit <= MaxU64

(* An import of what this program wrote is the tree it was written from,      *)
(* scanned or imported, entry for entry: types, totals, lists and their       *)
(* order, parents, errors and devices.  Only `items' and `suberr'             *)
(* (json_import.rs:150) and the size of a marker are not kept.                *)
RoundTrip ==
  Imported /\ source # <<>> =>
    LET ns == source[1].nodes
    IN  /\ Len(imported) = Len(ns)
        /\ \A i \in 1..Len(ns) :
             LET n == ns[i]
                 m == imported[i]
             IN  /\ m.etype = n.etype /\ m.kids = n.kids /\ m.parent = n.parent
                 /\ m.err = n.err
                 /\ n.etype \in Markers => m.blocks = 0
                 /\ n.etype \notin Markers =>
                      IF Fits(n) THEN m.blocks = n.blocks ELSE m.blocks < n.blocks
                 /\ n.etype = "Dir" =>
                      DevOf(idevices, m) = DevOf(source[1].devices, n)

(* Exporting such an import writes the same dump (the assertion of the         *)
(* round-trip tests, json_import.rs:253); the dump of a scan only as long as   *)
(* every total fits.                                                        *)
ReExported ==
  Imported /\ source # <<>> /\ (\A i \in 1..Len(source[1].nodes) :
                                 Fits(source[1].nodes[i]))
    => Item(imported, idevices) = dump[1]
=============================================================================
