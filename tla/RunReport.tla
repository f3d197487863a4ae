------------------------------ MODULE RunReport ------------------------------
(***************************************************************************)
(* What one `lop scan` or `lop prune` reports (run_with_paths of           *)
(* src/lib.rs): a record for every repository, worktree, stale workspace   *)
(* and discovery issue, the summary that counts them, the memory saved for *)
(* the next run and the exit code.  The parts of the pipeline are reduced  *)
(* to the answers the other modules show they can give.                    *)
(*                                                                         *)
(* The output is buffered: a record handed over is not yet delivered, and  *)
(* handing one over may find out that the reader is gone.                  *)
(***************************************************************************)
EXTENDS Naturals, FiniteSets

CONSTANTS
    Repos,          \* repositories, by Git common directory
    Worktrees,      \* paths of linked worktrees and of checkouts that are gone; the main
                    \* worktree, always there and kept, is left out
    MaxIssues,      \* bound on the issues discovery collects
    EarlierMemories \* what earlier runs may have left in the state file

RepositoryOutcomes == {"inspected", "fetchFailed", "integrationFailed", "malformed"}

\* worktree_result: what a worktree is reported as before it is a matter of removal.  Retained
\* and skipped worktrees are "kept".
Classes == {"kept", "malformed", "refused", "candidate"}
Outcomes == Classes \cup {"removed"}

ASSUME ReportAssumption ==
    /\ IsFiniteSet(Repos) /\ IsFiniteSet(Worktrees)
    /\ MaxIssues \in Nat
    /\ EarlierMemories \subseteq [Repos -> [Worktrees -> Outcomes \cup {"none"}]]

VARIABLES
    apply,          \* `prune --yes`
    pc,
    left,           \* repositories still to inspect
    issues,         \* discovery issues still to report
    repo,           \* the repository at hand
    inventory,      \* inventory_paths
    class,          \* what its inspection made of each worktree still to decide
    todo,           \* those worktrees
    verdicts,       \* decisions on its stale workspaces still to record
    current,        \* current_classifications
    memory,         \* state.repositories
    inspections,    \* the repository records
    records,        \* the worktree records
    issuesTold,     \* how many discovery issues have a record
    summary,
    delivered,      \* all records have left the buffer
    exit,           \* the exit code
    \* History, for the properties only.
    acted,          \* what lop removed, or closed workspaces of
    unreported,     \* failures that have no record of their own
    loaded          \* the memory as it was read

vars == <<apply, pc, left, issues, repo, inventory, class, todo, verdicts, current, memory,
          inspections, records, issuesTold, summary, delivered, exit, acted, unreported, loaded>>

\* A decision, and whether it counts as an operational failure.
Decision(o, f) == [outcome |-> o, failed |-> f]
Record(r, w, d) == [repo |-> r, path |-> w, outcome |-> d.outcome, failed |-> d.failed]
Records == [repo : Repos, path : Worktrees, outcome : Outcomes, failed : BOOLEAN]

Counters == {"repositories_scanned", "fetch_failures", "worktrees_inspected", "candidates",
             "removals", "refusals", "malformed_states", "operational_failures"}

Nowhere == [w \in Worktrees |-> "none"]

Init ==
    /\ apply \in BOOLEAN
    /\ pc = "start"
    /\ left = {} /\ issues = 0
    /\ repo \in Repos /\ inventory = {} /\ class = [w \in Worktrees |-> "kept"] /\ todo = {}
    /\ verdicts = {} /\ current = Nowhere
    /\ memory \in EarlierMemories
    /\ inspections = [r \in Repos |-> "none"] /\ records = {} /\ issuesTold = 0
    /\ summary = [k \in Counters |-> 0]
    /\ delivered = FALSE /\ exit = "none"
    /\ acted = {} /\ unreported = 0 /\ loaded = memory

----------------------------------------------------------------------------
(***************************************************************************)
(* The summary.                                                            *)
(***************************************************************************)

With(D, o) == {d \in D : d.outcome = o}
Failed(D) == {d \in D : d.failed}

\* What the decisions D add to the summary: each counts as inspected, and its outcome has a
\* counter or, if the worktree is kept, none (update_worktree_summary).
Counts(D) ==
    [summary EXCEPT !["worktrees_inspected"] = @ + Cardinality(D),
                    !["candidates"] = @ + Cardinality(With(D, "candidate")),
                    !["removals"] = @ + Cardinality(With(D, "removed")),
                    !["refusals"] = @ + Cardinality(With(D, "refused")),
                    !["malformed_states"] = @ + Cardinality(With(D, "malformed")),
                    !["operational_failures"] = @ + Cardinality(Failed(D))]

\* Slip: a malformed repository is counted as malformed only.
CountsRepositoryOnce(outcome) ==
    LET If(b) == IF b THEN 1 ELSE 0 IN
    [summary EXCEPT !["operational_failures"] =
                        @ + If(outcome \in {"fetchFailed", "integrationFailed"}),
                    !["fetch_failures"] = @ + If(outcome = "fetchFailed"),
                    !["malformed_states"] = @ + If(outcome = "malformed")]

\* update_repository_summary
CountsRepository(outcome) ==
    LET If(b) == IF b THEN 1 ELSE 0 IN
    [summary EXCEPT !["operational_failures"] = @ + If(outcome # "inspected"),
                    !["fetch_failures"] = @ + If(outcome = "fetchFailed"),
                    !["malformed_states"] = @ + If(outcome = "malformed")]

\* Slip: a refusal fails the run.
ExitCodeOfRefusals ==
    IF summary["operational_failures"] + summary["refusals"] = 0 THEN "success" ELSE "failure"

ExitCode == IF summary["operational_failures"] = 0 THEN "success" ELSE "failure"

----------------------------------------------------------------------------
(***************************************************************************)
(* The run.                                                                *)
(***************************************************************************)

Goto(p) == pc' = p /\ UNCHANGED exit

\* Whatever error ends run_with_paths, main exits with a failure.
Fail == pc' = "ended" /\ exit' = "failure"

repositoryVars == <<repo, inventory, class, todo, verdicts, current>>
reportVars == <<inspections, records, issuesTold>>
historyVars == <<acted, unreported, loaded>>

\* The lock, the configuration, the state, and run_started.
Begin ==
    /\ pc = "start"
    /\ Goto("discover") \/ Fail
    /\ UNCHANGED <<apply, left, issues, repositoryVars, memory, reportVars, summary, delivered,
                   historyVars>>

DiscoverRepositories ==
    /\ pc = "discover"
    /\ left' \in SUBSET Repos
    /\ issues' \in 0..MaxIssues
    /\ summary' = [summary EXCEPT !["repositories_scanned"] = Cardinality(left'),
                                  !["operational_failures"] = issues']
    /\ Goto("repositories")
    /\ UNCHANGED <<apply, repositoryVars, memory, reportVars, delivered, historyVars>>

\* The classes c an inspection with this outcome can give the worktrees W it lists.  All are
\* skipped if the fetch failed, and what could have been proved integrated is kept if Worktrunk
\* failed.  A repository is malformed if its inventory cannot be read, or if the lookups for
\* one worktree failed; the others keep their classes, and some may still be candidates.
CanClassify(outcome, W, c) ==
    /\ outcome = "fetchFailed" => \A w \in W : c[w] = "kept"
    /\ outcome = "integrationFailed" =>
        (\E w \in W : c[w] = "kept") /\ (\A w \in W : c[w] # "candidate")
    /\ outcome = "malformed" => W = {} \/ \E w \in W : c[w] = "malformed"

InspectRepository(r) ==
    /\ pc = "repositories"
    /\ r \in left /\ left' = left \ {r}
    /\ repo' = r /\ current' = Nowhere
    /\ todo' \in SUBSET Worktrees /\ inventory' = todo'
    /\ \E outcome \in RepositoryOutcomes :
        /\ class' \in [Worktrees -> Classes] /\ CanClassify(outcome, todo', class')
        /\ \A w \in Worktrees \ todo' : class'[w] = "kept"
        /\ summary' = CountsRepository(outcome)
        /\ \/ Goto("worktrees") /\ inspections' = [inspections EXCEPT ![r] = outcome]
           \/ Fail /\ UNCHANGED inspections
    /\ UNCHANGED <<apply, issues, verdicts, memory, records, issuesTold, delivered,
                   historyVars>>

\* decide_worktree: in preview nothing is removed, with --yes no candidate stays one
\* (HonestOutcome of Removal), and what is not a candidate stays what it is.
DecisionsOn(w) ==
    IF class[w] # "candidate" THEN {Decision(class[w], FALSE)}
    ELSE {Decision("refused", FALSE), Decision("refused", TRUE)}
            \cup (IF apply THEN {Decision("removed", FALSE), Decision("removed", TRUE)}
                  ELSE {Decision("candidate", FALSE)})

\* What lop may have done before it decided so: a refusal can come after a retirement.
ActedOn(w, d) ==
    IF d.outcome = "removed" THEN {TRUE}
    ELSE IF apply /\ class[w] = "candidate" THEN BOOLEAN ELSE {FALSE}

\* write_worktree_decision
Tell(w, d, next) ==
    /\ current' = [current EXCEPT ![w] = d.outcome]
    /\ \/ Goto(next) /\ records' = records \cup {Record(repo, w, d)}
       \/ Fail /\ UNCHANGED records

DecideWorktree(w) ==
    /\ pc = "worktrees"
    /\ w \in todo /\ todo' = todo \ {w}
    /\ \E d \in DecisionsOn(w) :
        /\ summary' = Counts({Record(repo, w, d)})
        /\ \E did \in ActedOn(w, d) : acted' = IF did THEN acted \cup {<<repo, w>>} ELSE acted
        /\ Tell(w, d, "worktrees")
    /\ UNCHANGED <<apply, left, issues, repo, inventory, class, verdicts, memory, inspections,
                   issuesTold, delivered, unreported, loaded>>

\* Slip: the inventory is not consulted, so that a worktree removed just now is stale.
GoneCheckoutsAll == Worktrees

\* Only checkouts the inventory did not list can be stale.
GoneCheckouts == Worktrees \ inventory

\* A stale workspace is pending in preview, or retired, or a failure; or refused for a pane.
StaleDecisions ==
    {Decision("refused", FALSE)}
        \cup (IF apply THEN {Decision("removed", FALSE), Decision("refused", TRUE)}
              ELSE {Decision("candidate", FALSE)})

\* inspect_stale_workspaces fails, without a record; or it has an answer, and all that is
\* stale is decided and retired before the first record of it is written.
Reconcile ==
    \/ /\ verdicts' = {}
       /\ unreported' = unreported + 1
       /\ summary' = [summary EXCEPT !["operational_failures"] = @ + 1]
       /\ UNCHANGED acted
    \/ \E gone \in SUBSET GoneCheckouts : \E d \in [gone -> StaleDecisions] :
        LET stale == {Record(repo, w, d[w]) : w \in gone} IN
        /\ verdicts' = stale
        /\ summary' = Counts(stale)
        /\ \E touched \in SUBSET {w \in gone : d[w].outcome = "removed" \/ d[w].failed} :
            /\ {w \in gone : d[w].outcome = "removed"} \subseteq touched
            /\ acted' = acted \cup {<<repo, w>> : w \in touched}
        /\ UNCHANGED unreported

ReconcileStale ==
    /\ pc = "worktrees" /\ todo = {}
    /\ Reconcile
    /\ Goto("stale")
    /\ UNCHANGED <<apply, left, issues, repo, inventory, class, todo, current, memory,
                   reportVars, delivered, loaded>>

TellStale(v) ==
    /\ pc = "stale"
    /\ v \in verdicts /\ verdicts' = verdicts \ {v}
    /\ Tell(v.path, v, "stale")
    /\ UNCHANGED <<apply, left, issues, repo, inventory, class, todo, memory, inspections,
                   issuesTold, summary, delivered, historyVars>>

\* Slip: the memory is of the worktrees only, as it was before the stale workspaces.
RememberListed ==
    /\ pc = "stale" /\ verdicts = {}
    /\ memory' = [memory EXCEPT ![repo] =
                    [w \in Worktrees |-> IF w \in inventory THEN current[w] ELSE "none"]]
    /\ Goto("repositories")
    /\ UNCHANGED <<apply, left, issues, repositoryVars, reportVars, summary, delivered,
                   historyVars>>

Remember ==
    /\ pc = "stale" /\ verdicts = {}
    /\ memory' = [memory EXCEPT ![repo] = current]
    /\ Goto("repositories")
    /\ UNCHANGED <<apply, left, issues, repositoryVars, reportVars, summary, delivered,
                   historyVars>>

\* write_discovery_issues
TellIssue ==
    /\ pc = "repositories" /\ left = {}
    /\ issues > 0 /\ issues' = issues - 1
    /\ \/ Goto("repositories") /\ issuesTold' = issuesTold + 1
       \/ Fail /\ UNCHANGED issuesTold
    /\ UNCHANGED <<apply, left, repositoryVars, memory, inspections, records, summary,
                   delivered, historyVars>>

\* State::save
Save ==
    /\ pc = "repositories" /\ left = {} /\ issues = 0
    /\ Goto("saved") \/ Fail
    /\ UNCHANGED <<apply, left, issues, repositoryVars, memory, reportVars, summary, delivered,
                   historyVars>>

\* Slip: the buffer is left to be flushed when it is dropped, where an error is lost.
FinishUnflushed ==
    /\ pc = "saved"
    /\ pc' = "ended" /\ exit' = ExitCode /\ delivered' \in BOOLEAN
    /\ UNCHANGED <<apply, left, issues, repositoryVars, memory, reportVars, summary,
                   historyVars>>

\* The summary is written and everything flushed; main exits with what it says.
Finish ==
    /\ pc = "saved"
    /\ \/ pc' = "ended" /\ exit' = ExitCode /\ delivered' = TRUE
       \/ Fail /\ UNCHANGED delivered
    /\ UNCHANGED <<apply, left, issues, repositoryVars, memory, reportVars, summary,
                   historyVars>>

Ended == pc = "ended" /\ UNCHANGED vars

Next ==
    \/ Begin \/ DiscoverRepositories \/ (\E r \in Repos : InspectRepository(r))
    \/ (\E w \in Worktrees : DecideWorktree(w)) \/ ReconcileStale
    \/ (\E v \in verdicts : TellStale(v)) \/ Remember \/ TellIssue \/ Save \/ Finish \/ Ended

Spec == Init /\ [][Next]_vars

----------------------------------------------------------------------------
(***************************************************************************)
(* Properties.                                                             *)
(***************************************************************************)

TypeOK ==
    /\ apply \in BOOLEAN
    /\ pc \in {"start", "discover", "repositories", "worktrees", "stale", "saved", "ended"}
    /\ left \subseteq Repos /\ issues \in 0..MaxIssues
    /\ repo \in Repos /\ inventory \subseteq Worktrees
    /\ class \in [Worktrees -> Classes] /\ todo \subseteq inventory
    /\ verdicts \subseteq Records
    /\ current \in [Worktrees -> Outcomes \cup {"none"}]
    /\ {memory, loaded} \subseteq [Repos -> [Worktrees -> Outcomes \cup {"none"}]]
    /\ inspections \in [Repos -> RepositoryOutcomes \cup {"none"}]
    /\ records \subseteq Records
    /\ issuesTold \in Nat
    /\ summary \in [Counters -> Nat]
    /\ delivered \in BOOLEAN
    /\ exit \in {"none", "success", "failure"}
    /\ acted \subseteq Repos \X Worktrees
    /\ unreported \in Nat

\* The repositories reported with one of the outcomes O.
Inspected(O) == {r \in Repos : inspections[r] \in O}

\* No worktree of a repository is reported twice in a run, neither one that lop removed and
\* that is missing from disk by the time the stale workspaces are looked for, nor one of a
\* repository whose inventory could not be read.
OnePerWorktree ==
    \A a, b \in records \cup verdicts : a.repo = b.repo /\ a.path = b.path => a = b

\* The summary counts the records it follows, no more and no fewer, except for failed
\* inspections of stale workspaces, which have no record.
TotalsMatch ==
    LET Told(o) == Cardinality(With(records, o))
        Reported(O) == Cardinality(Inspected(O))
    IN pc = "saved" =>
        /\ summary["repositories_scanned"] = Reported(RepositoryOutcomes)
        /\ summary["fetch_failures"] = Reported({"fetchFailed"})
        /\ summary["worktrees_inspected"] = Cardinality(records)
        /\ summary["candidates"] = Told("candidate")
        /\ summary["removals"] = Told("removed")
        /\ summary["refusals"] = Told("refused")
        /\ summary["malformed_states"] = Told("malformed") + Reported({"malformed"})
        /\ summary["operational_failures"] =
            issuesTold + unreported + Cardinality(Failed(records))
                + Reported(RepositoryOutcomes \ {"inspected"})

\* README, "A run returns nonzero for operational failures, while safety refusals are
\* reported without making the run fail": a run that could report everything fails exactly
\* when something it tells of, or the inspection of stale workspaces, did.
ExitTellsFailures ==
    pc = "ended" /\ delivered =>
        (exit = "success" <=>
            /\ issuesTold = 0 /\ unreported = 0
            /\ \A r \in Repos : inspections[r] \in {"none", "inspected"}
            /\ \A rec \in records : ~rec.failed)

\* What lop did to a worktree, the reader has been told, or the run fails.
DoneIsTold ==
    exit = "success" =>
        /\ delivered
        /\ \A done \in acted : \E rec \in records : rec.repo = done[1] /\ rec.path = done[2]

\* The memory saved is what this run reported of each repository it has a record of, every
\* stale workspace included and nothing older; of any other repository, one that was not found
\* this time, it is still what earlier runs left.
SavedIsTold ==
    pc = "saved" =>
        \A r \in Repos :
            IF inspections[r] = "none" THEN memory[r] = loaded[r]
            ELSE \A w \in Worktrees :
                memory[r][w] =
                    IF \E rec \in records : rec.repo = r /\ rec.path = w
                    THEN (CHOOSE rec \in records : rec.repo = r /\ rec.path = w).outcome
                    ELSE "none"
=============================================================================
