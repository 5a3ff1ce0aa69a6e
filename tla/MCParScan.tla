----------------------------- MODULE MCParScan -----------------------------
(***************************************************************************)
(* Two workers on a tree deeper than there are workers: in a/ the entries a   *)
(* and b, and in a/a an entry b.  One pattern, from the root on, excludes      *)
(* that entry, so that the sets carried into the siblings a/a and a/b differ;  *)
(* the other applies to directories named b anywhere.                        *)
(***************************************************************************)
EXTENDS ParScan

MCObjects == 1..4
MCUp == [o \in 2..4 |-> IF o = 4 THEN 2 ELSE 1]
MCNameOf == [o \in 2..4 |-> IF o = 2 THEN "a" ELSE "b"]
MCRootPath == <<"a">>
MCFnmatch == [g \in {"*"} |-> {"a", "b", ""}]
Slash == "/"
MCWritten == {<<"b", Slash>>, <<Slash, "*", Slash, "a", Slash, "b">>}

Good(kind) == [kind |-> kind, stat |-> TRUE, readable |-> TRUE, utf8 |-> TRUE]
MCNatures == {Good("Dir"), [Good("Dir") EXCEPT !.readable = FALSE],
              [Good("Dir") EXCEPT !.stat = FALSE], Good("Reg")}
=============================================================================
