------------------------------- MODULE MCScan -------------------------------
(***************************************************************************)
(* The sequential walker on a/: the entries a and b in it and one entry, b,  *)
(* in a/a, each of any of the natures below, under one of the patterns.  The *)
(* patterns reach across the path of the root, apply to directories only, to *)
(* names anywhere, and from the root on.                                    *)
(***************************************************************************)
EXTENDS Scan

MCObjects == 1..4
MCUp == [o \in 2..4 |-> IF o = 4 THEN 2 ELSE 1]
MCNameOf == [o \in 2..4 |-> IF o = 2 THEN "a" ELSE "b"]
MCRootPath == <<"a">>
MCFnmatch == [g \in {"*"} |-> {"a", "b", ""}]
Slash == "/"
MCWritten == {<<"b">>, <<"a", Slash>>, <<"a", Slash, "b", Slash>>,
              <<Slash, "a", Slash, "a">>, <<Slash, "*", Slash, "a", Slash, "b">>}

Good(kind) == [kind |-> kind, stat |-> TRUE, readable |-> TRUE, utf8 |-> TRUE]
MCNatures == {Good("Dir"), [Good("Dir") EXCEPT !.readable = FALSE],
              [Good("Dir") EXCEPT !.stat = FALSE], Good("Reg"),
              [Good("Reg") EXCEPT !.utf8 = FALSE]}
=============================================================================
