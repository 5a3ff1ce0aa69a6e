----------------------------- MODULE ChildChain -----------------------------
(***************************************************************************)
(* The child lists as the arena has them: a directory's `sub' is its first    *)
(* child, every entry's `next' the child after it.  Three functions write     *)
(* them: link_child (sink.rs) while scanning, parse_item (json_import.rs)      *)
(* while importing, and unlink_from_parent (delete.rs) while browsing.        *)
(* Their loops are run a turn at a time.                                      *)
(***************************************************************************)
EXTENDS Integers, Sequences, SequencesExt

CONSTANTS N, Dirs               \* entries are 1..N, the root is 1

ASSUME ChainAssumption == N \in Nat \ {0} /\ Dirs \subseteq 1..N /\ 1 \in Dirs

Entries == 1..N
None == 0                                                    \* EntryId::NONE

VARIABLES
  phase,       (* "scan", "import" or "browse"                               *)
  sub, next,
  linked,      (* history: the entries that were put in a list                *)
  call         (* the loop being run                                         *)

chain == <<phase, sub, next, linked, call>>

Idle == [op |-> "idle"]
Loop(op, d, t, cur) == [op |-> op, dir |-> d, target |-> t, cur |-> cur]

CInit ==
  /\ phase \in {"scan", "import"}
  /\ sub = [d \in Entries |-> None] /\ next = [e \in Entries |-> None]
  /\ linked = {} /\ call = Idle

(* The children of d, by the links; at most N of them, should they be cyclic. *)
Walked(subs, nexts, d) ==
  LET walk[k \in 0..N] ==
        [e \in 0..N |-> IF e = None \/ k = 0 THEN <<>>
                                             ELSE <<e>> \o walk[k - 1][nexts[e]]]
  IN  walk[N][subs[d]]
List(d) == Walked(sub, next, d)

----------------------------------------------------------------------------
(* link_child: the newest entry goes to the end of the list of an open         *)
(* directory.                                                                *)
Newest == CHOOSE c \in Entries \ ({1} \cup linked) :
            \A e \in Entries \ ({1} \cup linked) : c <= e

HasChild(d) == sub[d] # None
AtOnce(cur) == TRUE                                        \* mutant of IsTail
IsTail(cur) == next[cur] = None
Stay(cur) == cur                                          \* mutant of Advance
Advance(cur) == next[cur]

Link(d) ==
  /\ phase = "scan" /\ call = Idle
  /\ linked \cup {1} # Entries /\ d \in Dirs \cap ({1} \cup linked)
  /\ IF HasChild(d)
     THEN call' = Loop("link", d, Newest, sub[d]) /\ UNCHANGED <<sub, linked>>
     ELSE /\ sub' = [sub EXCEPT ![d] = Newest]
          /\ linked' = linked \cup {Newest}
          /\ UNCHANGED call
  /\ UNCHANGED <<phase, next>>

LinkTurn ==
  /\ call.op = "link"
  /\ IF IsTail(call.cur)
     THEN /\ next' = [next EXCEPT ![call.cur] = call.target]
          /\ linked' = linked \cup {call.target}
          /\ call' = Idle
     ELSE call' = [call EXCEPT !.cur = Advance(@)] /\ UNCHANGED <<next, linked>>
  /\ UNCHANGED <<phase, sub>>

----------------------------------------------------------------------------
(* parse_item: the ids of all children of d, which come after d's, are known    *)
(* before the first of them is linked.                                        *)
Import(d, ids) ==
  /\ phase = "import" /\ call = Idle
  /\ d \in Dirs \ linked /\ ~HasChild(d) /\ ids # <<>>
  /\ sub' = [sub EXCEPT ![d] = ids[1]]
  /\ linked' = linked \cup {ids[1]}
  /\ call' = Loop("windows", d, None, ids)
  /\ UNCHANGED <<phase, next>>

ImportTurn ==
  /\ call.op = "windows"
  /\ LET ids == call.cur
     IN  IF Len(ids) > 1
         THEN /\ next' = [next EXCEPT ![ids[1]] = ids[2]]
              /\ linked' = linked \cup {ids[2]}
              /\ call' = [call EXCEPT !.cur = Tail(@)]
         ELSE call' = Idle /\ UNCHANGED <<next, linked>>
  /\ UNCHANGED <<phase, sub>>

----------------------------------------------------------------------------
Browse ==
  /\ phase = "scan" /\ call = Idle /\ phase' = "browse"
  /\ UNCHANGED <<sub, next, linked, call>>

(* unlink_from_parent: the browser only asks for a child of the directory.    *)
Kept(t) == t                                               \* mutant of After
After(t) == next[t]

Unlink(d, t) ==
  /\ phase = "browse" /\ call = Idle
  /\ t \in ToSet(List(d))
  /\ IF sub[d] = t
     THEN sub' = [sub EXCEPT ![d] = After(t)] /\ UNCHANGED call
     ELSE call' = Loop("unlink", d, t, sub[d]) /\ UNCHANGED sub
  /\ UNCHANGED <<phase, next, linked>>

UnlinkTurn ==
  /\ call.op = "unlink"
  /\ LET cur == call.cur
     IN  IF cur = None THEN call' = Idle /\ UNCHANGED next
         ELSE IF next[cur] = call.target
         THEN next' = [next EXCEPT ![cur] = After(call.target)] /\ call' = Idle
         ELSE call' = [call EXCEPT !.cur = Advance(@)] /\ UNCHANGED next
  /\ UNCHANGED <<phase, sub, linked>>

Turn == LinkTurn \/ ImportTurn \/ UnlinkTurn

Increasing == {s \in SeqOf(Entries, N) : \A i \in 2..Len(s) : s[i - 1] < s[i]}

CNext ==
  \/ \E d \in Entries : Link(d)
  \/ \E d \in Entries, ids \in Increasing :
       ToSet(ids) \subseteq (d + 1)..N \ linked /\ Import(d, ids)
  \/ Browse
  \/ \E d, t \in Entries : Unlink(d, t)
  \/ Turn
  \/ phase # "scan" /\ call = Idle /\ UNCHANGED chain

(* One thread runs the loops.                                                *)
CSpec == CInit /\ [][CNext]_chain /\ WF_chain(Turn)

----------------------------------------------------------------------------
(* The links implement the lists: through every turn of a loop each directory *)
(* has a finite list without repetition, in the order of the scan, and an entry *)
(* leaves one only by being unlinked.  In particular a stale `next' of an entry *)
(* that was taken out leads nobody astray.                                    *)
Lists == INSTANCE ChildLists WITH lists <- [d \in Entries |-> List(d)]
ChainsAreLists == Lists!LSpec

(* unlink_from_parent does not run off the end of the chain: when it returns,  *)
(* the target is not in the list any more.                                    *)
UnlinkFinds ==
  [][call.op = "unlink" /\ call'.op = "idle"
       => call.target \notin ToSet(Walked(sub', next', call.dir))]_chain

(* Every walk along a chain comes to its end.                                *)
WalksEnd == []<>(call = Idle)
=============================================================================
