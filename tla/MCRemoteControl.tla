----------------------------- MODULE MCRemoteControl -----------------------------
(* Small instances of RemoteControl.                                        *)
EXTENDS RemoteControl

CONSTANTS calm, alarm, conn1, conn2, cmd1, cmd2, req1

\* An instruction and a question.
Kinds2 == [k \in Commands |-> IF k = cmd1 THEN "instruct" ELSE "report"]

\* A phone that acts and one that may only look.
GrantSets == {{"read"}, {"read", "act", "write"}}
=============================================================================
