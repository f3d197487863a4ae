----------------------------- MODULE MCRunReport -----------------------------
(***************************************************************************)
(* Small instances of RunReport for TLC.                                   *)
(***************************************************************************)
EXTENDS RunReport, TLC

\* Nothing was known of a repository, or every worktree that is still there was kept.
EarlierRuns == [Repos -> {[w \in Worktrees |-> o] : o \in {"none", "kept"}}]

Alike == Permutations(Repos) \cup Permutations(Worktrees)
=============================================================================
