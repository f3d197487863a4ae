------------------------------ MODULE Cleanup ------------------------------
(***************************************************************************)
(* What lop promises of one candidate worktree, without the commands it    *)
(* takes: it looks as often as it likes, may retire Herdr workspaces, must *)
(* look again after that, and then removes the worktree or leaves it.      *)
(* Removal implements this.                                                *)
(***************************************************************************)
EXTENDS Naturals

CONSTANT Workspaces

VARIABLES
    apply,          \* the run was started with --yes
    vouched,        \* everything removal depends on was read after the last retirement
    retired,        \* the workspaces lop has closed
    tree,           \* "present", or "removed" by lop
    decision,       \* "none" until the candidate is decided
    failures        \* what it adds to the run's operational failures

contractVars == <<apply, vouched, retired, tree, decision, failures>>

Init ==
    /\ apply \in BOOLEAN
    /\ vouched = FALSE
    /\ retired = {}
    /\ tree = "present"
    /\ decision = "none"
    /\ failures = 0

\* Reading facts may establish them all, or discard what was established.
Inspect ==
    /\ decision = "none"
    /\ vouched' \in BOOLEAN
    /\ UNCHANGED <<apply, retired, tree, decision, failures>>

\* A retirement, only when asked to apply; nothing read so far counts after it.
Retire(w) ==
    /\ decision = "none" /\ apply
    /\ retired' = retired \cup {w}
    /\ vouched' = FALSE
    /\ UNCHANGED <<apply, tree, decision, failures>>

\* The one destructive step.  A worktree that is gone without a report is a failure.
Remove ==
    /\ decision = "none" /\ apply /\ vouched
    /\ \/ /\ tree' = "removed" /\ decision' = "removed"
          /\ failures' \in {failures, failures + 1}
       \/ /\ tree' \in {"present", "removed"} /\ decision' = "refused"
          /\ failures' = failures + 1
    /\ UNCHANGED <<apply, vouched, retired>>

\* Leaving the worktree alone: a refusal, or a candidate only reported in preview.
Leave ==
    /\ decision = "none"
    /\ \/ decision' = "refused" /\ failures' \in {failures, failures + 1}
       \/ ~apply /\ decision' = "candidate" /\ failures' = failures
    /\ vouched' \in BOOLEAN
    /\ UNCHANGED <<apply, retired, tree>>

Next == Inspect \/ (\E w \in Workspaces : Retire(w)) \/ Remove \/ Leave

Spec == Init /\ [][Next]_contractVars
=============================================================================
