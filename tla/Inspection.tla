----------------------------- MODULE Inspection -----------------------------
(***************************************************************************)
(* How one run of lop classifies the worktrees of one repository           *)
(* (inspect_repository of src/inspection.rs, with the Worktrunk proofs of  *)
(* src/integration.rs): fetch, list, look up every branch and its          *)
(* upstream, and ask Worktrunk about the branches whose upstream is gone.  *)
(* Every command is one step, and the repository may change between any    *)
(* two of them.                                                            *)
(***************************************************************************)
EXTENDS Naturals

CONSTANTS
    Main, Linked,   \* the main worktree, listed first, and the linked ones
    Branches,
    Commits,
    Detached,       \* HEAD names a commit
    Broken,         \* HEAD names nothing Git can print
    Unborn,         \* the branch does not exist
    MaxChanges      \* bound on the changes other actors make

Worktrees == Linked \cup {Main}
Heads == Branches \cup {Detached, Broken}
Tips == Commits \cup {Unborn}

ASSUME InspectionAssumption ==
    /\ Main \notin Linked
    /\ Detached \notin Branches /\ Broken \notin Branches /\ Detached # Broken
    /\ Unborn \notin Commits
    /\ MaxChanges \in Nat

VARIABLES
    \* The repository.
    on,             \* what each worktree's HEAD names
    mark,           \* Git's mark on it: fine, locked or prunable
    tip,            \* each branch's commit
    configured,     \* the branches with an upstream
    tracking,       \* the branches whose remote-tracking ref exists here
    server,         \* the branches whose upstream exists on the remote
    merged,         \* the commits integrated into the default branch
    changes,        \* how often others changed any of this, up to MaxChanges
    \* The inspection.
    pc,             \* the command lop runs next
    fetched,        \* how the fetch ended
    listed,         \* the inventory: HEAD, commit and mark of each worktree
    todo,           \* worktrees still to classify
    at,             \* the worktree whose branch is being looked up
    class,          \* the classifications
    candidates,     \* the worktrees whose upstream is gone
    issue,          \* a lookup failed
    outcome,
    \* History, for the properties only.
    gone            \* branches without a remote-tracking ref at some time since the fetch

repoVars == <<on, mark, tip, configured, tracking, server, merged>>
lopVars == <<pc, fetched, listed, todo, at, class, candidates, issue, outcome>>
vars == <<on, mark, tip, configured, tracking, server, merged, changes,
          pc, fetched, listed, todo, at, class, candidates, issue, outcome, gone>>

Steps == {"fetch", "list", "next", "upstream", "tracking", "version", "prove", "done"}
Fetches == {"pending", "ok", "FetchFailed", "FetchTimedOut"}
Marks == {"fine", "locked", "prunable"}

\* The six kinds of integration are one here.
Classes == {"none", "MainWorktree", "PrunableWorktree", "LockedWorktree", "DetachedWorktree",
            "DanglingSymbolicHead", "NoUpstream", "UpstreamExists", "Integrated",
            "NotIntegrated", "IntegrationIndeterminate", "DefaultBranchUnresolved",
            "WorktrunkFailed", "FetchFailed", "FetchTimedOut", "Malformed"}
Outcomes == {"none", "Inspected", "FetchFailed", "FetchTimedOut", "MalformedPorcelain",
             "IntegrationFailed", "InspectionFailed"}

HeadCommit(w) == IF on[w] \in Branches THEN tip[on[w]] ELSE Unborn
Inventory == [w \in Worktrees |-> [head |-> on[w], commit |-> HeadCommit(w), mark |-> mark[w]]]
Records == [head : Heads, commit : Tips, mark : Marks]

\* Git checks a branch out once unless forced to.
Init ==
    /\ on \in [Worktrees -> Branches]
    /\ \A v, w \in Linked : on[v] = on[w] => v = w
    /\ mark = [w \in Worktrees |-> "fine"]
    /\ tip \in [Branches -> Commits]
    /\ configured = Branches /\ tracking = Branches /\ server \in SUBSET Branches
    /\ merged \in SUBSET Commits
    /\ changes = 0
    /\ pc = "fetch" /\ fetched = "pending"
    /\ listed = Inventory
    /\ todo = {} /\ at = Main
    /\ class = [w \in Worktrees |-> "none"]
    /\ candidates = {} /\ issue = FALSE /\ outcome = "none"
    /\ gone = {}

Goto(step) == pc' = step /\ UNCHANGED outcome
Conclude(result) == pc' = "done" /\ outcome' = result
Classify(w, c) == class' = [class EXCEPT ![w] = c]

----------------------------------------------------------------------------
(***************************************************************************)
(* Fetch and inventory (inspect_repository_with_git).                      *)
(***************************************************************************)

\* The remote-tracking refs once those of the branches B are brought up to date.
Updated(B) == (tracking \ B) \cup (server \cap B)

\* `git fetch --all --prune`; one that fails or is killed has updated any of the refs.
Fetch ==
    /\ pc = "fetch"
    /\ \/ fetched' = "ok" /\ tracking' = Updated(Branches) /\ gone' = Branches \ tracking'
       \/ /\ fetched' \in {"FetchFailed", "FetchTimedOut"}
          /\ \E B \in SUBSET Branches : tracking' = Updated(B)
          /\ UNCHANGED gone
    /\ Goto("list")
    /\ UNCHANGED <<on, mark, tip, configured, server, merged, changes,
                   listed, todo, at, class, candidates, issue>>

\* `git worktree list --porcelain -z`, which may fail or be malformed as a whole (a bare
\* worktree's record is, having no HEAD).  Without a successful fetch it is all there is.
List ==
    /\ pc = "list"
    /\ \/ /\ outcome' \in {"MalformedPorcelain", "InspectionFailed"}
          /\ pc' = "done"
          /\ UNCHANGED <<listed, todo, class>>
       \/ /\ listed' = Inventory
          /\ fetched = "ok"
          /\ todo' = Worktrees
          /\ Goto("next")
          /\ UNCHANGED class
       \/ /\ listed' = Inventory
          /\ fetched # "ok"
          /\ class' = [w \in Worktrees |-> fetched]
          /\ Conclude(fetched)
          /\ UNCHANGED todo
    /\ UNCHANGED <<repoVars, changes, fetched, at, candidates, issue, gone>>

----------------------------------------------------------------------------
(***************************************************************************)
(* One worktree after the other (classify_after_fetch).                    *)
(***************************************************************************)

\* Slip: the lock is left to Worktrunk.
FromInventoryUnlocked(w) ==
    CASE w = Main -> "MainWorktree"
      [] listed[w].mark = "prunable" -> "PrunableWorktree"
      [] listed[w].head = Detached -> "DetachedWorktree"
      [] listed[w].head = Broken -> "Malformed"
      [] OTHER -> "none"

\* What the inventory alone decides.
FromInventory(w) ==
    CASE w = Main -> "MainWorktree"
      [] w # Main /\ listed[w].mark = "prunable" -> "PrunableWorktree"
      [] w # Main /\ listed[w].mark = "locked" -> "LockedWorktree"
      [] w # Main /\ listed[w].mark = "fine" /\ listed[w].head = Detached -> "DetachedWorktree"
      [] w # Main /\ listed[w].mark = "fine" /\ listed[w].head = Broken -> "Malformed"
      [] OTHER -> "none"

ClassifyDirectly(w) ==
    /\ pc = "next" /\ w \in todo
    /\ FromInventory(w) # "none"
    /\ todo' = todo \ {w}
    /\ Classify(w, FromInventory(w))
    /\ issue' = (issue \/ FromInventory(w) = "Malformed")
    /\ UNCHANGED <<repoVars, changes, pc, fetched, listed, at, candidates, outcome, gone>>

\* Slip: a lookup that fails is not kept as an issue of the repository.
LookupFailsQuietly(w) == Classify(w, "Malformed") /\ UNCHANGED issue

LookupFails(w) == Classify(w, "Malformed") /\ issue' = TRUE

\* `git show-ref` on the branch.
ReadBranch(w) ==
    /\ pc = "next" /\ w \in todo
    /\ FromInventory(w) = "none"
    /\ todo' = todo \ {w}
    /\ \/ LookupFails(w) /\ UNCHANGED <<pc, at>>
       \/ /\ tip[listed[w].head] = Unborn
          /\ Classify(w, "DanglingSymbolicHead")
          /\ UNCHANGED <<pc, at, issue>>
       \/ /\ tip[listed[w].head] # Unborn
          /\ at' = w
          /\ pc' = "upstream"
          /\ UNCHANGED <<class, issue>>
    /\ UNCHANGED <<repoVars, changes, fetched, listed, candidates, outcome, gone>>

\* `git for-each-ref --format=%(upstream)`; a branch deleted by now has none.
ReadUpstream ==
    LET b == listed[at].head
        found == b \in configured /\ tip[b] # Unborn
    IN
    /\ pc = "upstream"
    /\ \/ LookupFails(at) /\ Goto("next")
       \/ ~found /\ Classify(at, "NoUpstream") /\ Goto("next") /\ UNCHANGED issue
       \/ found /\ Goto("tracking") /\ UNCHANGED <<class, issue>>
    /\ UNCHANGED <<repoVars, changes, fetched, listed, todo, at, candidates, gone>>

\* Slip: a lookup that fails counts as an upstream that is gone.
ReadTrackingFailsOpen ==
    /\ pc = "tracking"
    /\ \/ /\ listed[at].head \in tracking
          /\ Classify(at, "UpstreamExists")
          /\ UNCHANGED candidates
       \/ /\ candidates' = candidates \cup {at}
          /\ Classify(at, "IntegrationIndeterminate")
    /\ Goto("next")
    /\ UNCHANGED <<repoVars, changes, fetched, listed, todo, at, issue, gone>>

\* `git show-ref` on the upstream.  A worktree whose upstream is gone is a candidate for a
\* proof, and indeterminate until there is one.
ReadTracking ==
    /\ pc = "tracking"
    /\ \/ LookupFails(at) /\ UNCHANGED candidates
       \/ /\ listed[at].head \in tracking
          /\ Classify(at, "UpstreamExists")
          /\ UNCHANGED <<issue, candidates>>
       \/ /\ listed[at].head \notin tracking
          /\ candidates' = candidates \cup {at}
          /\ Classify(at, "IntegrationIndeterminate")
          /\ UNCHANGED issue
    /\ Goto("next")
    /\ UNCHANGED <<repoVars, changes, fetched, listed, todo, at, gone>>

----------------------------------------------------------------------------
(***************************************************************************)
(* Worktrunk's proofs (classify_integrations, prove_integrations).         *)
(***************************************************************************)

Result == IF issue THEN "InspectionFailed" ELSE "Inspected"

\* Every worktree is looked up; Worktrunk is asked only if there are candidates.
LookedUp ==
    /\ pc = "next" /\ todo = {}
    /\ IF candidates = {} THEN Conclude(Result) ELSE Goto("version")
    /\ UNCHANGED <<repoVars, changes, fetched, listed, todo, at, class, candidates, issue, gone>>

\* No usable answer: no candidate has a proof.
ProofsFail ==
    /\ class' = [w \in Worktrees |-> IF w \in candidates THEN "WorktrunkFailed" ELSE class[w]]
    /\ Conclude("IntegrationFailed")

\* `wt --version`: missing, failing, unreadable or too old, or good enough.
CheckVersion ==
    /\ pc = "version"
    /\ \/ ProofsFail
       \/ Goto("prove") /\ UNCHANGED class
    /\ UNCHANGED <<repoVars, changes, fetched, listed, todo, at, candidates, issue, gone>>

\* Slip: the row is found by its path and branch, its commit is not compared.
RowMatchesAnyCommit(w) == on[w] = listed[w].head

\* Worktrunk's row for w is about the branch and the commit of the inventory.
RowMatches(w) == on[w] = listed[w].head /\ HeadCommit(w) = listed[w].commit

\* Worktrunk is trusted to prove nothing about a commit that is not integrated; it may
\* leave anything open.
Verdicts(w) ==
    {"IntegrationIndeterminate"} \cup
        (IF HeadCommit(w) \in merged THEN {"Integrated"} ELSE {"NotIntegrated"})

\* Slip: a row that does not match costs only its own candidate the proof.
ProveEach ==
    /\ pc = "prove"
    /\ \/ ProofsFail
       \/ \E proof \in [candidates -> Classes] :
            /\ \A w \in candidates :
                proof[w] \in IF RowMatches(w) THEN Verdicts(w) ELSE {"WorktrunkFailed"}
            /\ class' = [w \in Worktrees |->
                    IF w \in candidates THEN proof[w] ELSE class[w]]
            /\ Conclude(IF \E w \in candidates : ~RowMatches(w)
                        THEN "IntegrationFailed" ELSE Result)
    /\ UNCHANGED <<repoVars, changes, fetched, listed, todo, at, candidates, issue, gone>>

\* `wt list --format=json`.  The command or its output may be unusable; one candidate
\* without a matching row (or on the default branch) is enough to lose all the proofs.
Prove ==
    /\ pc = "prove"
    /\ \/ ProofsFail
       \/ /\ class' = [w \in Worktrees |->
                IF w \in candidates THEN "DefaultBranchUnresolved" ELSE class[w]]
          /\ Conclude(Result)
       \/ /\ \A w \in candidates : RowMatches(w)
          /\ \E proof \in [candidates -> Classes] :
                /\ \A w \in candidates : proof[w] \in Verdicts(w)
                /\ class' = [w \in Worktrees |->
                        IF w \in candidates THEN proof[w] ELSE class[w]]
          /\ Conclude(Result)
    /\ UNCHANGED <<repoVars, changes, fetched, listed, todo, at, candidates, issue, gone>>

----------------------------------------------------------------------------
(***************************************************************************)
(* Everyone else.                                                          *)
(***************************************************************************)

\* Someone commits, resets or deletes a branch, switches, locks or loses a worktree,
\* changes an upstream, pushes or deletes a remote branch, fetches, or merges.
RepositoryChanges ==
    \/ /\ \E b \in Branches, c \in Tips : tip[b] # c /\ tip' = [tip EXCEPT ![b] = c]
       /\ UNCHANGED <<on, mark, configured, tracking, server, merged>>
    \/ /\ \E w \in Worktrees, h \in Heads : on[w] # h /\ on' = [on EXCEPT ![w] = h]
       /\ UNCHANGED <<mark, tip, configured, tracking, server, merged>>
    \/ /\ \E w \in Worktrees, m \in Marks : mark[w] # m /\ mark' = [mark EXCEPT ![w] = m]
       /\ UNCHANGED <<on, tip, configured, tracking, server, merged>>
    \/ /\ \E b \in Branches : configured' = (configured \cup {b}) \ (configured \cap {b})
       /\ UNCHANGED <<on, mark, tip, tracking, server, merged>>
    \/ /\ \E b \in Branches : server' = (server \cup {b}) \ (server \cap {b})
       /\ UNCHANGED <<on, mark, tip, configured, tracking, merged>>
    \/ /\ \E b \in Branches : tracking' = Updated({b}) /\ tracking' # tracking
       /\ UNCHANGED <<on, mark, tip, configured, server, merged>>
    \/ /\ \E c \in Commits : merged' = (merged \cup {c}) \ (merged \cap {c})
       /\ UNCHANGED <<on, mark, tip, configured, tracking, server>>

OthersAct ==
    /\ changes < MaxChanges
    /\ changes' = changes + 1
    /\ RepositoryChanges
    /\ gone' = IF fetched = "ok" THEN gone \cup (Branches \ tracking') ELSE gone
    /\ UNCHANGED lopVars

Finished == pc = "done" /\ UNCHANGED vars

LopStep ==
    \/ Fetch \/ List
    \/ (\E w \in Worktrees : ClassifyDirectly(w) \/ ReadBranch(w))
    \/ ReadUpstream \/ ReadTracking \/ LookedUp \/ CheckVersion \/ Prove

Next == LopStep \/ OthersAct \/ Finished

Spec == Init /\ [][Next]_vars

----------------------------------------------------------------------------
(***************************************************************************)
(* Properties.                                                             *)
(***************************************************************************)

\* Every variable has its type, and Worktrunk is asked only if there are
\* candidates, all of which still want a proof.
TypeOK ==
    /\ on \in [Worktrees -> Heads]
    /\ mark \in [Worktrees -> Marks]
    /\ tip \in [Branches -> Tips]
    /\ configured \subseteq Branches /\ tracking \subseteq Branches /\ server \subseteq Branches
    /\ merged \subseteq Commits
    /\ changes \in 0..MaxChanges
    /\ pc \in Steps
    /\ fetched \in Fetches
    /\ listed \in [Worktrees -> Records]
    /\ todo \subseteq Worktrees /\ at \in Worktrees
    /\ class \in [Worktrees -> Classes]
    /\ candidates \subseteq Linked
    /\ issue \in BOOLEAN
    /\ outcome \in Outcomes
    /\ gone \subseteq Branches
    /\ pc \in {"version", "prove"} =>
        candidates # {} /\ \A w \in candidates : class[w] = "IntegrationIndeterminate"

\* A worktree is called integrated only if its fetch succeeded and the upstream of the
\* branch it had in the inventory was missing at some time since.
UpstreamWasGone ==
    \A w \in Worktrees :
        class[w] = "Integrated" => fetched = "ok" /\ listed[w].head \in gone

\* The proof is about the worktree as inventoried, which is what the safety gate compares
\* with later: at the moment of the proof that branch, at that commit, was integrated.
ProofIsCurrent ==
    [][\A w \in Worktrees :
        class'[w] = "Integrated" /\ class[w] # "Integrated" =>
            /\ on[w] = listed[w].head
            /\ HeadCommit(w) = listed[w].commit
            /\ listed[w].commit \in merged]_vars

\* The main worktree and the ones listed as locked, prunable or without a branch are never
\* called integrated.
ProtectedStay ==
    \A w \in Worktrees :
        class[w] = "Integrated" =>
            w # Main /\ listed[w].mark = "fine" /\ listed[w].head \in Branches

\* An inspection that failed as a whole yields no candidate: not after a failed fetch or
\* inventory, nor when Worktrunk's answer does not fit even one of the candidates.
FailsClosed ==
    outcome \in Outcomes \ {"none", "Inspected", "InspectionFailed"} =>
        \A w \in Worktrees : class[w] # "Integrated"

\* An inspection without failures has classified every worktree, none of them for want of
\* an answer; update_repository_summary counts every other outcome as a failure.
InspectedIsComplete ==
    outcome = "Inspected" =>
        \A w \in Worktrees : class[w] \notin
            {"none", "Malformed", "WorktrunkFailed", "FetchFailed", "FetchTimedOut"}
=============================================================================
