------------------------------- MODULE MCWorkbench -------------------------------
(* Small instances of Workbench.                                              *)
EXTENDS Workbench

CONSTANTS tree1, tree2, path1, path2, remark1, remark2, remark3

SourceOrder == <<path1, path2>>

\* A commit of two files and one of a single file.
CommitFiles == <<{path1, path2}, {path1}>>

\* A comment on the changes, and two on the first commit.
RemarkPlaces == [r \in {remark1, remark2, remark3} |->
    IF r = remark1 THEN [doc |-> path1, view |-> 0]
    ELSE IF r = remark2 THEN [doc |-> path1, view |-> 1] ELSE [doc |-> path2, view |-> 1]]
====================================================================================
