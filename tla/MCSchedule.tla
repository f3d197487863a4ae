----------------------------- MODULE MCSchedule -----------------------------
(***************************************************************************)
(* Small instances of Schedule for TLC.                                    *)
(***************************************************************************)
EXTENDS Schedule

\* Two clients, a scan and a prune schedule; the configurations choose.
CONSTANTS c1, c2, scan, prune
=============================================================================
