----------------------------- MODULE MCRemoval -----------------------------
(***************************************************************************)
(* Small instances of Removal for TLC.                                     *)
(***************************************************************************)
EXTENDS Removal

CONSTANTS s1, s2, w1, w2, p1, p2, e1

\* Two sessions with a workspace each.
TwoSessions == [w \in Workspaces |-> IF w = w1 THEN s1 ELSE s2]
\* Everything in one session.
OneSession == [w \in Workspaces |-> s1]
\* All panes in the first workspace.
OneWorkspace == [p \in Panes |-> w1]

AllModes == ModeSet
\* `prune --yes` with the process check, and a preview without.
PruneAndPreview == {[apply |-> TRUE, checkProcesses |-> TRUE],
                    [apply |-> FALSE, checkProcesses |-> FALSE]}
SomeFacts == {"unchanged", "resolves", "clean"}
MostFacts == GitFacts \ {"linked"}
============================================================================
