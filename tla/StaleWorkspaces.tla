--------------------------- MODULE StaleWorkspaces ---------------------------
(***************************************************************************)
(* What lop does with the Herdr workspaces of one repository whose linked  *)
(* checkout has gone: reconcile_stale_herdr_workspaces and                 *)
(* retire_stale_workspace of src/lib.rs over inspect_stale_workspaces and  *)
(* retire_candidate of src/herdr.rs.  All of them are judged once, then    *)
(* retired one checkout at a time, each with commands of its own, while    *)
(* people go on using Herdr and the disk.                                  *)
(*                                                                         *)
(* Herdr's "tagged" workspaces are here those whose metadata names a       *)
(* linked worktree of this repository, and a pane is "inside" when every   *)
(* directory it reports is in its workspace's checkout or in Worktrunk's   *)
(* trash for it.                                                           *)
(***************************************************************************)
EXTENDS Herdr, Naturals

CONSTANTS
    Checkouts,      \* paths of linked worktrees
    CheckoutOf,     \* Workspaces -> Checkouts
    InventoryRead,  \* whether the repository's inventory could be read: a set of answers
    FirstDisks, FirstLists,     \* which checkouts exist, and which Git lists, when lop arrives
    MaxChanges      \* bound on the changes other actors make

ASSUME StaleAssumption ==
    /\ CheckoutOf \in [Workspaces -> Checkouts]
    /\ IsFiniteSet(Checkouts)
    /\ InventoryRead \subseteq BOOLEAN
    /\ FirstDisks \subseteq SUBSET Checkouts /\ FirstLists \subseteq SUBSET Checkouts
    /\ MaxChanges \in Nat

VARIABLES
    onDisk,         \* checkouts that exist
    registered,     \* checkouts Git lists as worktrees of the repository
    changes,        \* how often other actors changed something, up to MaxChanges
    apply,          \* `prune --yes`
    known,          \* inventory_paths: the worktrees this run's inventory listed
    pc, round,      \* the command lop runs next, and why
    todo,           \* sessions still to snapshot, or workspaces still to close
    listed,         \* Coordination.sessions: the sessions the judgement rests on
    seen,           \* what the last inspection made of each workspace
    found,          \* the workspaces it found stale
    observed,       \* the panes it saw in each of them
    status,         \* per checkout, the merged verdict on its stale workspaces
    current,        \* the checkout being retired
    failed,         \* retire_candidate has collected a failure
    decision,       \* per checkout, the reason code it is reported with
    summary,        \* what this repository adds to the run's Summary
    \* History, for the properties only.
    closed,         \* workspaces lop's own commands closed
    look,           \* what the last verification showed of each workspace
    kept,           \* workspaces open and linked ever since they were judged
    absence         \* per checkout: never read as gone, gone since then, or back since

worldVars == <<running, open, tagged, pane, onDisk, registered, changes>>
historyVars == <<closed, look, kept, absence>>
vars == <<running, open, tagged, pane, onDisk, registered, changes, apply, known, pc, round,
          todo, listed, seen, found, observed, status, current, failed, decision, summary,
          closed, look, kept, absence>>

Verdicts == {"unlinked", "clear", "focused", "active", "error"}
Looks == [panes : SUBSET Panes, idle : BOOLEAN]
NoLook == [panes |-> {}, idle |-> FALSE]

\* The reason codes a stale workspace is reported with, and the counter each adds to.
Counter == [HerdrStaleWorkspacePending |-> "candidates", HerdrFocusedPane |-> "refusals",
            HerdrActiveAgent |-> "refusals", HerdrStaleWorkspaceFailed |-> "refusals",
            HerdrStaleWorkspaceRetired |-> "removals"]
Reasons == DOMAIN Counter
Counters == {"worktrees_inspected", "candidates", "refusals", "removals",
             "operational_failures"}

Init ==
    /\ running \in SUBSET Sessions
    /\ open \in SUBSET {w \in Workspaces : SessionOf[w] \in running}
    /\ tagged \in SUBSET open
    /\ pane \in [Panes -> {[at |-> "inside", act |-> "quiet"], Absent}]
    /\ HerdrConsistent /\ \A w \in open : PanesIn(w) # {}
    /\ onDisk \in FirstDisks
    /\ registered \in FirstLists
    /\ changes = 0
    /\ apply \in BOOLEAN
    \* An inspection that failed hands on no worktree at all.
    /\ \E read \in InventoryRead : known = IF read THEN registered ELSE {}
    /\ pc = "sessions" /\ round = "first" /\ todo = {} /\ listed = {}
    /\ seen = [w \in Workspaces |-> "unlinked"]
    /\ found = {} /\ observed = [w \in Workspaces |-> {}]
    /\ status = [c \in Checkouts |-> "none"]
    /\ current \in Checkouts /\ failed = FALSE
    /\ decision = [c \in Checkouts |-> "none"]
    /\ summary = [k \in Counters |-> 0]
    /\ closed = {} /\ look = [w \in Workspaces |-> NoLook] /\ kept = {}
    /\ absence = [c \in Checkouts |-> "none"]

----------------------------------------------------------------------------
(***************************************************************************)
(* Judging one workspace (evaluate_stale_workspace).                       *)
(***************************************************************************)

\* stale_pane_belongs_to_checkout
Belongs(p) == pane[p].at = "inside"

\* The focus test comes first, then the pane's directories, then its agent.
StalePaneVerdict(p) ==
    CASE pane[p].act = "focused" -> "focused"
      [] pane[p].act # "focused" /\ (~Belongs(p) \/ pane[p].act = "unclear") -> "error"
      [] OTHER -> "active"

\* The answers one workspace of a snapshot can give, before its checkout is looked for; the
\* first pane that is not quiet and in place decides.
StaleVerdicts(w) ==
    LET stopping == {p \in PanesIn(w) : pane[p].act # "quiet" \/ ~Belongs(p)} IN
    IF w \notin open \cap tagged THEN {"unlinked"}
    ELSE IF PanesIn(w) = {} THEN {"error"}
    ELSE IF stopping = {} THEN {"clear"}
    ELSE {StalePaneVerdict(p) : p \in stopping}

\* Slip: the inventory is not consulted, only the disk.
StaleOnDisk(w) == seen[w] # "unlinked" /\ CheckoutOf[w] \notin onDisk

\* Linked to this repository, not in the inventory and not on disk.
Stale(w) == seen[w] # "unlinked" /\ CheckoutOf[w] \notin known \cup onDisk
StaleNow == {w \in Workspaces : Stale(w)}

\* The coordination of a checkout: its stale workspaces, in every session.
Targets(c) == {w \in found : CheckoutOf[w] = c}

\* Slip: the placeholder merge_stale_workspace puts in while it merges is left there.
MergedStatusPlaceholder(c) ==
    LET verdicts == {seen[w] : w \in {v \in StaleNow : CheckoutOf[v] = c}} IN
    IF Cardinality(verdicts) > 1 THEN "unavailable" ELSE CHOOSE v \in verdicts : TRUE

\* merge_stale_workspace and merge_candidate_status: the verdict on a checkout with a stale
\* workspace, over all of them.
MergedStatus(c) ==
    LET verdicts == {seen[w] : w \in {v \in StaleNow : CheckoutOf[v] = c}} IN
    CASE "focused" \in verdicts -> "focused"
      [] "focused" \notin verdicts /\ "active" \in verdicts -> "active"
      [] OTHER -> "clear"
StaleCheckouts == {CheckoutOf[w] : w \in StaleNow}

----------------------------------------------------------------------------
(***************************************************************************)
(* Decisions.                                                              *)
(***************************************************************************)

Goto(p, r) == pc' = p /\ round' = r

Add(counter, n) == summary' = [summary EXCEPT ![counter] = @ + n]

\* Checkout c is reported with reason, update_worktree_summary counts it, and a retirement
\* that failed is an operational failure as well.
Decide(c, reason) ==
    /\ decision' = [decision EXCEPT ![c] = reason]
    /\ summary' = [summary EXCEPT ![Counter[reason]] = @ + 1,
                                  !["operational_failures"] =
                                    @ + (IF reason = "HerdrStaleWorkspaceFailed" THEN 1 ELSE 0)]
    /\ Goto("choose", round)

\* Slip: a retirement that fails ends the whole reconciliation.
CommandFailsForAll ==
    /\ Add("operational_failures", 1)
    /\ Goto("done", round)
    /\ UNCHANGED decision

\* A command gave no usable answer.  Without Herdr there is nothing to reconcile; any other
\* failure of the first inspection drops all of it; later it fails the retirement.
CommandFails ==
    \/ /\ round = "first"
       /\ Add("operational_failures", 1)
       /\ Goto("done", round)
       /\ UNCHANGED decision
    \/ round # "first" /\ Decide(current, "HerdrStaleWorkspaceFailed")

\* Slip: a retirement whose outcome cannot be inspected is tried again.
SessionListFailsAgain ==
    \/ round = "first" /\ Goto("done", round) /\ UNCHANGED <<decision, summary>>
    \/ round \in {"first", "verify", "confirm"} /\ CommandFails
    \/ round = "again" /\ Goto("sessions", "verify") /\ UNCHANGED <<decision, summary>>

SessionListFails ==
    \/ round = "first" /\ Goto("done", round) /\ UNCHANGED <<decision, summary>>
    \/ CommandFails

----------------------------------------------------------------------------
(***************************************************************************)
(* Inspection (inspect_stale_workspaces), verification before closing      *)
(* (verify_coordination_unchanged) and after (verify_observed_sessions).   *)
(***************************************************************************)

\* `herdr session list`
ListSessions ==
    /\ pc = "sessions"
    /\ \/ SessionListFails /\ UNCHANGED <<todo, listed, seen>>
       \/ /\ round \in {"first", "again"}
          /\ todo' = running
          /\ listed' = IF round = "first" THEN running ELSE listed
          /\ seen' = [w \in Workspaces |-> "unlinked"]
          /\ Goto("snapshots", round)
          /\ UNCHANGED <<decision, summary>>
       \/ /\ round = "verify" /\ running = listed
          /\ todo' = running
          /\ Goto("snapshots", round)
          /\ UNCHANGED <<listed, seen, decision, summary>>
       \/ /\ round = "confirm" /\ running = listed /\ ~failed
          /\ Goto("sessions", "again")
          /\ UNCHANGED <<todo, listed, seen, decision, summary>>
       \/ /\ round \in {"verify", "confirm"}
          /\ running # listed \/ failed
          /\ CommandFails
          /\ UNCHANGED <<todo, listed, seen>>
    /\ UNCHANGED <<worldVars, apply, known, found, observed, status, current, failed,
                   historyVars>>

\* The first inspection keeps the panes it saw: they are the coordination.
JudgeSession(s) ==
    /\ \E verdict \in [WorkspacesOf(s) -> Verdicts] :
        /\ \A w \in WorkspacesOf(s) : verdict[w] \in StaleVerdicts(w)
        /\ seen' = [w \in Workspaces |-> IF w \in WorkspacesOf(s) THEN verdict[w] ELSE seen[w]]
    /\ observed' = IF round = "first"
                   THEN [w \in Workspaces |->
                            IF w \in WorkspacesOf(s) THEN PanesIn(w) ELSE observed[w]]
                   ELSE observed
    /\ todo' = todo \ {s}
    /\ UNCHANGED <<pc, round, decision, summary, look>>

\* Slip: only the existence of the workspace is checked again.
StillOpen(w) == w \in open

\* A workspace about to be closed still exists, is unfocused and idle, and its panes are the
\* observed ones.  Neither their directories nor the checkout are looked for again.
StillIdle(w) == w \in open /\ \A p \in PanesIn(w) : pane[p].act = "quiet"
Unchanged(s) ==
    \A w \in Targets(current) :
        SessionOf[w] = s => StillIdle(w) /\ PanesIn(w) = observed[w]

VerifySession(s) ==
    /\ \/ /\ Unchanged(s)
          /\ todo' = todo \ {s}
          /\ UNCHANGED <<pc, round, decision, summary>>
       \/ ~Unchanged(s) /\ CommandFails /\ UNCHANGED todo
    /\ look' = [w \in Workspaces |->
            IF SessionOf[w] # s THEN look[w]
            ELSE [panes |-> PanesIn(w),
                  idle |-> \A p \in PanesIn(w) : pane[p].act = "quiet"]]
    /\ UNCHANGED <<seen, observed>>

\* `herdr --session s api snapshot`; it fails for a session that no longer runs.
SnapshotSession(s) ==
    /\ pc = "snapshots"
    /\ s \in todo
    /\ \/ CommandFails /\ UNCHANGED <<todo, seen, observed, look>>
       \/ s \in running /\ (IF round = "verify" THEN VerifySession(s) ELSE JudgeSession(s))
    /\ UNCHANGED <<worldVars, apply, known, listed, found, status, current, failed,
                   closed, kept, absence>>

\* Every snapshot is in: lop looks for each checkout.  One stale workspace it cannot judge
\* fails the inspection, and so may `herdr pane process-info` on the panes of a clear one.
InspectionBreaks ==
    \/ \E w \in StaleNow : seen[w] = "error"
    \/ \E c \in StaleCheckouts : MergedStatus(c) = "clear"

InspectionHolds == \A w \in StaleNow : seen[w] # "error"

\* The first inspection fixes what is stale, and in which state, for the rest of the run.
Judge ==
    /\ pc = "snapshots" /\ todo = {} /\ round = "first"
    /\ \/ /\ InspectionBreaks /\ CommandFails
          /\ UNCHANGED <<found, status, kept, absence>>
       \/ /\ InspectionHolds
          /\ found' = StaleNow
          /\ status' = [c \in Checkouts |->
                            IF c \in StaleCheckouts THEN MergedStatus(c) ELSE "none"]
          /\ kept' = StaleNow \cap open \cap tagged
          /\ absence' = [c \in Checkouts |-> IF c \in StaleCheckouts THEN "held" ELSE "none"]
          /\ Add("worktrees_inspected", Cardinality(StaleCheckouts))
          /\ Goto("choose", round)
          /\ UNCHANGED decision
    /\ UNCHANGED <<worldVars, apply, known, todo, listed, seen, observed, current, failed,
                   closed, look>>

----------------------------------------------------------------------------
(***************************************************************************)
(* Retiring one checkout after the other.                                  *)
(***************************************************************************)

Undecided == {c \in Checkouts : status[c] # "none" /\ decision[c] = "none"}

Choose(c) ==
    /\ pc = "choose"
    /\ c \in Undecided
    /\ \/ /\ status[c] = "clear" /\ apply
          /\ current' = c
          /\ failed' = FALSE
          /\ look' = [w \in Workspaces |-> NoLook]
          /\ Goto("sessions", "verify")
          /\ UNCHANGED <<decision, summary>>
       \/ /\ status[c] = "clear" /\ ~apply
          /\ Decide(c, "HerdrStaleWorkspacePending")
          /\ UNCHANGED <<current, failed, look>>
       \/ /\ status[c] # "clear"
          /\ Decide(c, IF status[c] = "focused" THEN "HerdrFocusedPane" ELSE "HerdrActiveAgent")
          /\ UNCHANGED <<current, failed, look>>
    /\ UNCHANGED <<worldVars, apply, known, todo, listed, seen, found, observed, status,
                   closed, kept, absence>>

StartClosing ==
    /\ pc = "snapshots" /\ todo = {} /\ round = "verify"
    /\ todo' = Targets(current)
    /\ Goto("close", round)
    /\ UNCHANGED <<worldVars, apply, known, listed, seen, found, observed, status, current,
                   failed, decision, summary, historyVars>>

\* What was read of Herdr and of the disk may hold no longer.
Age ==
    /\ kept' = kept \cap open' \cap tagged'
    /\ absence' = [c \in Checkouts |->
            IF absence[c] = "held" /\ c \in onDisk' THEN "raced" ELSE absence[c]]

\* `herdr --session s workspace close w`: whether Herdr closes the workspace and whether lop
\* gets a valid acknowledgement are independent.
CloseWorkspace(w) ==
    /\ pc = "close"
    /\ w \in todo
    /\ todo' = todo \ {w}
    /\ \E gone \in BOOLEAN, acknowledged \in BOOLEAN :
        /\ failed' = (failed \/ ~acknowledged)
        /\ IF gone
           THEN WithoutWorkspaces({w}) /\ closed' = closed \cup ({w} \cap open)
           ELSE UNCHANGED <<open, tagged, pane, closed>>
    /\ IF todo' = {} THEN Goto("sessions", "confirm") ELSE UNCHANGED <<pc, round>>
    /\ UNCHANGED <<running, onDisk, registered, changes, apply, known, listed, seen, found,
                   observed, status, current, decision, summary, look>>
    /\ Age

\* Slip: a close that Herdr acknowledged is believed.
JudgeAgainBelieving ==
    /\ pc = "snapshots" /\ todo = {} /\ round = "again"
    /\ \/ InspectionBreaks /\ CommandFails
       \/ InspectionHolds /\ Decide(current, "HerdrStaleWorkspaceRetired")
    /\ UNCHANGED <<worldVars, apply, known, todo, listed, seen, found, observed, status,
                   current, failed, historyVars>>

\* The second inspection, with the inventory of before: the checkout has no stale workspace.
JudgeAgain ==
    /\ pc = "snapshots" /\ todo = {} /\ round = "again"
    /\ \/ InspectionBreaks /\ CommandFails
       \/ /\ InspectionHolds
          /\ Decide(current, IF current \in StaleCheckouts THEN "HerdrStaleWorkspaceFailed"
                             ELSE "HerdrStaleWorkspaceRetired")
    /\ UNCHANGED <<worldVars, apply, known, todo, listed, seen, found, observed, status,
                   current, failed, historyVars>>

AllDecided ==
    /\ pc = "choose" /\ Undecided = {}
    /\ Goto("done", round)
    /\ UNCHANGED <<worldVars, apply, known, todo, listed, seen, found, observed, status,
                   current, failed, decision, summary, historyVars>>

----------------------------------------------------------------------------
(***************************************************************************)
(* Everyone else.                                                          *)
(***************************************************************************)

\* `git worktree add` at the path, or the volume a listed one is on is mounted.
CheckoutAppears(c) ==
    /\ c \notin onDisk
    /\ onDisk' = onDisk \cup {c}
    /\ registered' = registered \cup {c}

\* The directory is deleted or unmounted; Git goes on listing it.
CheckoutVanishes(c) ==
    /\ c \in onDisk
    /\ onDisk' = onDisk \ {c}
    /\ UNCHANGED registered

OthersAct ==
    /\ changes < MaxChanges
    /\ changes' = changes + 1
    /\ \/ (\E c \in Checkouts : CheckoutAppears(c) \/ CheckoutVanishes(c)) /\ UNCHANGED herdrVars
       \/ HerdrUserStep /\ UNCHANGED <<onDisk, registered>>
    /\ UNCHANGED <<apply, known, pc, round, todo, listed, seen, found, observed, status, current,
                   failed, decision, summary, closed, look>>
    /\ Age

Finished == pc = "done" /\ UNCHANGED vars

LopStep ==
    \/ ListSessions \/ (\E s \in Sessions : SnapshotSession(s)) \/ Judge
    \/ (\E c \in Checkouts : Choose(c)) \/ StartClosing
    \/ (\E w \in Workspaces : CloseWorkspace(w)) \/ JudgeAgain \/ AllDecided

Next == LopStep \/ OthersAct \/ Finished

Spec == Init /\ [][Next]_vars

\* One thread; every command it runs ends or is killed at its timeout.
Fairness == WF_vars(LopStep)
FairSpec == Spec /\ Fairness

----------------------------------------------------------------------------
(***************************************************************************)
(* Properties.                                                             *)
(***************************************************************************)

TypeOK ==
    /\ HerdrTypeOK
    /\ onDisk \subseteq Checkouts /\ registered \subseteq Checkouts
    /\ changes \in 0..MaxChanges
    /\ apply \in BOOLEAN
    /\ known \subseteq Checkouts
    /\ pc \in {"sessions", "snapshots", "choose", "close", "done"}
    /\ round \in {"first", "verify", "confirm", "again"}
    /\ todo \subseteq Sessions \cup Workspaces
    /\ listed \subseteq Sessions
    /\ seen \in [Workspaces -> Verdicts]
    /\ found \subseteq Workspaces
    /\ observed \in [Workspaces -> SUBSET Panes]
    /\ status \in [Checkouts -> {"none", "clear", "focused", "active"}]
    /\ current \in Checkouts /\ failed \in BOOLEAN
    /\ decision \in [Checkouts -> Reasons \cup {"none"}]
    /\ summary \in [Counters -> Nat]
    /\ closed \subseteq Workspaces
    /\ look \in [Workspaces -> Looks]
    /\ kept \subseteq Workspaces
    /\ absence \in [Checkouts -> {"none", "held", "raced"}]

\* With --yes only, and only for a checkout that the inventory lop had did not list, that
\* lop found missing from disk, and whose workspaces, in every session, were all clear.
ClosesOnlyStale ==
    \A w \in closed :
        LET c == CheckoutOf[w] IN
        /\ apply
        /\ c \notin known
        /\ absence[c] # "none"
        /\ status[c] = "clear"

\* Every workspace lop closes was, in a snapshot read after lop last closed one of another
\* checkout, idle and unfocused and made of the panes it was judged by.
ClosesOnlyVerified ==
    [][\A w \in closed' \ closed :
        /\ CheckoutOf[w] = current
        /\ look[w].idle /\ look[w].panes = observed[w]]_vars

\* A checkout reported as retired has no workspace left that was open all along, unless
\* the checkout itself came back in between.
RetiredIsGone ==
    \A c \in Checkouts :
        decision[c] = "HerdrStaleWorkspaceRetired" /\ absence[c] = "held" =>
            kept \cap Targets(c) = {}

\* Each stale checkout is reported exactly once, whatever became of the others; the counters
\* add up, and nothing lop closed is reported as a candidate or as nothing at all.
ReportedOnce ==
    pc = "done" =>
        /\ Undecided = {}
        /\ summary["worktrees_inspected"] =
            summary["candidates"] + summary["refusals"] + summary["removals"]
        /\ summary["worktrees_inspected"] = Cardinality({c \in Checkouts : status[c] # "none"})
        /\ \A w \in closed : decision[CheckoutOf[w]] \in
            {"HerdrStaleWorkspaceRetired", "HerdrStaleWorkspaceFailed"}

\* The stale workspaces of a repository are reconciled or given up, whatever Herdr answers.
Termination == <>(pc = "done")

\* README, "whose linked checkout is already absent from Git and disk": a workspace lop
\* closes is not one of a worktree Git still lists.
AbsentFromGit == \A w \in closed : CheckoutOf[w] \notin registered
=============================================================================
