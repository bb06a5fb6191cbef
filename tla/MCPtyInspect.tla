----------------------------- MODULE MCPtyInspect -----------------------------
(* Small instances of PtyInspect.                                             *)
EXTENDS PtyInspect

CONSTANTS agent1, agent2

\* One agent, restarted: terminal 2 replaces terminal 1.
RestartAgentOf == [t \in Terms |-> agent1]

\* Two agents, a terminal each: the phone switches between them.
SwitchAgentOf == [t \in Terms |-> IF t = 1 THEN agent1 ELSE agent2]
=============================================================================
