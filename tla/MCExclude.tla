----------------------------- MODULE MCExclude -----------------------------
(***************************************************************************)
(* Two names, the glob that matches all, every written pattern of at most    *)
(* five tokens, at most two of them at a time, every walk of depth 3, along  *)
(* paths with adjacent slashes too.                                          *)
(***************************************************************************)
EXTENDS Exclude

MCFnmatch == [g \in {"*"} |-> PathNames]
Tokens == {"a", "b", "*", Slash}
MCWritten ==
  {w \in UNION {[1..n -> Tokens] : n \in 0..5} :
     \A i \in 1..(Len(w) - 1) : w[i] = Slash \/ w[i + 1] = Slash}
=============================================================================
