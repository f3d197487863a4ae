----------------------------- MODULE MCLopRuns -----------------------------
(***************************************************************************)
(* Small instances of LopRuns for TLC: which runs and probes may start.    *)
(***************************************************************************)
EXTENDS LopRuns

\* Process names; the configurations say which of them run.
CONSTANTS r1, r2, q1
============================================================================
