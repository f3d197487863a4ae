---------------------------- MODULE MCInspection ----------------------------
(***************************************************************************)
(* A small instance of Inspection for TLC: a main and two linked worktrees.*)
(***************************************************************************)
EXTENDS Inspection

CONSTANTS w1, w2, b1, b2, h1, h2
=============================================================================
