----------------------------- MODULE MCFileSync -----------------------------
(***************************************************************************)
(* Instantiates FileSync for TLC: files f1, f2 in the synced root, file f3 *)
(* in a subdirectory d1, two pool workers w1, w2.                          *)
(***************************************************************************)
EXTENDS FileSync, TLC

CONSTANTS f1, f2, f3, d1, root, w1, w2

TwoRootOneSub == (f1 :> root) @@ (f2 :> root) @@ (f3 :> d1)
OneRootFile == f1 :> root

\* Every version has its own size.
DistinctSizes == [v \in 1..MaxVer |-> v]
====
