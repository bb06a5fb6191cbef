------------------------------- MODULE MCDesktop -------------------------------
(* Small instances of Desktop.                                                *)
EXTENDS Desktop

CONSTANTS log1, log2, repo1, repo2, tree1, tree2, cm1, cm2, a1, a2

LogOrder == <<log1, log2>>
LineBound == [f \in {log1, log2} |-> IF f = log1 THEN 2 ELSE 1]
=================================================================================
