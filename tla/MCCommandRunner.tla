--------------------------- MODULE MCCommandRunner ---------------------------
(***************************************************************************)
(* Small instances of CommandRunner for TLC: numbers only.                 *)
(***************************************************************************)
EXTENDS CommandRunner
=============================================================================
