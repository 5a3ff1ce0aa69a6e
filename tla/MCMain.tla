------------------------------- MODULE MCMain -------------------------------
(***************************************************************************)
(* Two projects and two paths; project files of up to three lines and         *)
(* reports of up to two, of every kind of line; a dump of three pieces        *)
(* through a buffer of two.                                                  *)
(***************************************************************************)
EXTENDS Main

MCProjectFiles ==
  UNION {[1..n -> {<<>>} \cup Projects \X Paths] : n \in 0..3}
MCReports ==
  UNION {[1..n -> {<<>>, <<Text>>} \cup Projects \X {Garbled, 0, 2, 3}] : n \in 0..2}
=============================================================================
