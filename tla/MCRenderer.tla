----------------------------- MODULE MCRenderer -----------------------------
(* Small instances of Renderer.                                             *)
EXTENDS Renderer

CONSTANTS agent, plain, tree1, tree2, ws1, ws2, ws3

Sidebar == <<ws1, ws2, ws3>>
=============================================================================
