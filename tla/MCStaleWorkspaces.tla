-------------------------- MODULE MCStaleWorkspaces --------------------------
(***************************************************************************)
(* Small instances of StaleWorkspaces for TLC.                             *)
(***************************************************************************)
EXTENDS StaleWorkspaces

CONSTANTS s1, s2, w1, w2, w3, p1, p2, p3, c1, c2

\* One checkout open in both sessions, the other in one of them.
ThreeWorkspaces == [w \in Workspaces |-> IF w = w1 THEN s1 ELSE s2]
OnePaneEach == [p \in Panes |-> CASE p = p1 -> w1 [] p = p2 -> w2 [] OTHER -> w3]
TwoCheckouts == [w \in Workspaces |-> IF w = w3 THEN c2 ELSE c1]

\* The second checkout is listed or not, the first exists or not.
SomeDisks == {{}, {c1}}
SomeLists == {{}, {c2}}
=============================================================================
