----------------------------- MODULE ChildLists -----------------------------
(***************************************************************************)
(* What the rest of the program takes the children of a directory to be: a   *)
(* list at whose end a new entry is put, and from which any entry is taken   *)
(* out.  ChildChain implements this with the `sub' and `next' links of the    *)
(* arena; the other modules have such lists as the field `kids'.             *)
(***************************************************************************)
EXTENDS Integers, Sequences, SequencesExt

CONSTANT Entries              \* entry ids

VARIABLES
  lists,       (* the list of every entry, empty for what is no directory     *)
  linked       (* the entries that are, or were, in a list                    *)

lvars == <<lists, linked>>

LInit == lists = [d \in Entries |-> <<>>] /\ linked = {}

AppendTo(d, c) ==
  /\ c \notin linked \cup {d}
  /\ lists' = [lists EXCEPT ![d] = Append(@, c)]
  /\ linked' = linked \cup {c}

RemoveFrom(d, c) ==
  /\ c \in ToSet(lists[d])
  /\ lists' = [lists EXCEPT ![d] = RemoveFirst(@, c)]
  /\ UNCHANGED linked

LNext == \E d, c \in Entries : AppendTo(d, c) \/ RemoveFrom(d, c)

LSpec == LInit /\ [][LNext]_lvars
=============================================================================
