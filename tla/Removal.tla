------------------------------ MODULE Removal ------------------------------
(***************************************************************************)
(* What lop does with one integrated candidate worktree: prepare_candidate,*)
(* recheck_after_coordination and apply_removal of src/lib.rs, with the    *)
(* safety gate of src/cleanup.rs and the Herdr inspection and retirement   *)
(* of src/herdr.rs.  Every external command is one step, and between two   *)
(* steps people, agents and other programs may change what it read.        *)
(***************************************************************************)
EXTENDS Herdr, Naturals

CONSTANTS
    Strangers,      \* processes that belong to no Herdr pane
    Volatile,       \* the Git facts that change behind lop's back
    Modes,          \* the command lines and configurations considered
    MaxChanges      \* bound on the changes other actors make

(***************************************************************************)
(* The facts about the candidate the gate reads, in the order it tests     *)
(* them, and the reason it gives when one does not hold.                   *)
(***************************************************************************)
InventoryFacts ==
    {"registered", "linked", "unlocked", "attached", "valid", "unchanged", "sole"}
PathFacts == {"resolves", "samePath"}
StatusFacts == {"clean"}
GitFacts == InventoryFacts \cup PathFacts \cup StatusFacts

Rank == [registered |-> 1, linked |-> 2, unlocked |-> 3, attached |-> 4, valid |-> 5,
         unchanged |-> 6, sole |-> 7, resolves |-> 8, samePath |-> 9, clean |-> 10]

GateReason == [registered |-> "WorktreeMissing", linked |-> "MainWorktree",
               unlocked |-> "LockedWorktree", attached |-> "DetachedWorktree",
               valid |-> "InvalidGitMetadata", unchanged |-> "WorktreeChanged",
               sole |-> "CheckedOutMultipleTimes", resolves |-> "WorktreeMissing",
               samePath |-> "WorktreeChanged", clean |-> "DirtyWorktree"]

\* The process facts: nobody uses the worktree, or only processes attributed to idle panes.
Facts == GitFacts \cup {"unused", "attributed"}

ModeSet == [apply : BOOLEAN, checkProcesses : BOOLEAN]

ASSUME RemovalAssumption ==
    /\ Volatile \subseteq GitFacts \ {"linked"}
    /\ Modes \subseteq ModeSet
    /\ MaxChanges \in Nat
    /\ Strangers \cap Panes = {}

VARIABLES
    facts,          \* the truth about the candidate in Git and on disk
    strangers,      \* the strangers whose directory is in the worktree
    changes,        \* how often other actors changed something, up to MaxChanges
    mode,           \* apply (`prune --yes`) and config.check_processes
    pc,             \* the command lop runs next
    gate,           \* which run of check_candidate this is
    round,          \* which round of Herdr commands this is
    todo,           \* sessions still to snapshot, or workspaces still to close
    coord,          \* the Coordination inspect_candidate built
    veto,           \* the merged verdict of the snapshots read so far
    failed,         \* retire_candidate has collected a failure
    outcome, reason,\* the WorktreeDecision
    opfail,         \* what this candidate adds to summary.operational_failures
    \* History, for the properties only.
    tree,           \* "removed" once lop's `wt remove` took the worktree away
    retired,        \* workspaces lop's own close commands closed
    look,           \* what the last snapshot lop read showed of each workspace
    evidence,       \* per fact: never read, held since it was read, or changed since
    quiet           \* the same per session: it has nothing to do with the candidate

lopVars == <<mode, pc, gate, round, todo, coord, veto, failed, outcome, reason, opfail>>
worldVars == <<running, open, tagged, pane, facts, strangers, changes>>
ghostVars == <<tree, retired, look, evidence, quiet>>
vars == <<running, open, tagged, pane, facts, strangers, changes,
          mode, pc, gate, round, todo, coord, veto, failed, outcome, reason, opfail,
          tree, retired, look, evidence, quiet>>

Steps == {"inventory", "path", "status", "users", "sessions", "snapshots", "close",
          "remove", "done"}
Gates == {"initial", "unherded", "attributed", "final"}
Rounds == {"first", "verify", "confirm", "last"}
Vouchers == {"none", "held", "raced"}
Coordinations == [sessions : SUBSET Sessions, workspaces : SUBSET Workspaces,
                  panes : SUBSET Panes, processes : SUBSET Panes]
Looks == [panes : SUBSET Panes, idle : BOOLEAN, exclusive : BOOLEAN]

BranchOutcomes == {"Deleted", "NotAttempted", "RetainedUnmerged", "RetainedCheckedOut",
                   "RetainedRaced", "RetainedFailed"}
\* branch_outcome_reason
BranchReason == [Deleted |-> "BranchDeleted", NotAttempted |-> "BranchDeletionNotAttempted",
                 RetainedUnmerged |-> "BranchRetainedUnmerged",
                 RetainedCheckedOut |-> "BranchRetainedCheckedOut",
                 RetainedRaced |-> "BranchRetainedRaced",
                 RetainedFailed |-> "BranchDeletionFailed"]

\* Processes whose directory is at or below the worktree: strangers, and the shells of
\* panes that are there.
Users == strangers \cup {p \in Panes : Matches(p)}

Holds(f) ==
    CASE f = "unused" -> Users = {}
      [] f = "attributed" -> Users \subseteq coord.processes
      [] OTHER -> facts[f]

NoCoordination == [sessions |-> {}, workspaces |-> {}, panes |-> {}, processes |-> {}]

Init ==
    /\ running \in SUBSET Sessions
    /\ open \in SUBSET {w \in Workspaces : SessionOf[w] \in running}
    /\ tagged \in SUBSET open
    /\ pane \in [Panes -> {[at |-> "inside", act |-> "quiet"], Absent}]
    /\ HerdrConsistent
    /\ facts = [f \in GitFacts |-> TRUE]
    /\ strangers = {}
    /\ changes = 0
    /\ mode \in Modes
    /\ pc = "inventory" /\ gate = "initial" /\ round = "first"
    /\ todo = {} /\ coord = NoCoordination /\ veto = "none" /\ failed = FALSE
    /\ outcome = "candidate" /\ reason = "Integrated" /\ opfail = 0
    /\ tree = "present" /\ retired = {}
    /\ look = [w \in Workspaces |-> [panes |-> {}, idle |-> FALSE, exclusive |-> FALSE]]
    /\ evidence = [f \in Facts |-> "none"]
    /\ quiet = [s \in Sessions |-> "none"]

----------------------------------------------------------------------------
(***************************************************************************)
(* Decisions, and the history the properties are stated over.              *)
(***************************************************************************)

Goto(p, g, r) == pc' = p /\ gate' = g /\ round' = r

\* A refusal ends the candidate; op says whether it counts as an operational failure.
Refuse(why, op) ==
    /\ outcome' = "refused"
    /\ reason' = why
    /\ opfail' = opfail + (IF op THEN 1 ELSE 0)
    /\ pc' = "done"
    /\ UNCHANGED <<gate, round>>

\* Reading the facts F and finding that all hold.
Vouch(F) == evidence' = [f \in Facts |-> IF f \in F THEN "held" ELSE evidence[f]]

\* A step that changes the world: what was read before it may hold no longer.
Age ==
    /\ evidence' = [f \in Facts |->
            IF evidence[f] = "held" /\ ~Holds(f)' THEN "raced" ELSE evidence[f]]
    /\ quiet' = [s \in Sessions |->
            IF quiet[s] = "held" /\ ~Uninvolved(s)' THEN "raced" ELSE quiet[s]]

----------------------------------------------------------------------------
(***************************************************************************)
(* The safety gate, check_candidate_with_inspector.                        *)
(***************************************************************************)

\* Slip: a candidate with no workspace to retire is not inspected again.
PassGateWithoutRecheck ==
    \/ /\ gate = "initial"
       /\ Goto("sessions", gate, "first")
       /\ UNCHANGED reason
    \/ /\ gate = "attributed" /\ mode.apply /\ coord.workspaces # {}
       /\ Goto("sessions", gate, "verify")
       /\ UNCHANGED reason
    \/ /\ gate # "initial" /\ (gate = "attributed" => coord.workspaces = {})
       /\ pc' = IF mode.apply THEN "remove" ELSE "done"
       /\ UNCHANGED <<gate, round, reason>>

\* Slip: the dry run is only honoured where a removal follows directly.
PassGateRetiringInPreview ==
    \/ /\ gate = "initial"
       /\ Goto("sessions", gate, "first")
       /\ UNCHANGED reason
    \/ /\ gate \in {"unherded", "final"}
       /\ pc' = IF mode.apply THEN "remove" ELSE "done"
       /\ UNCHANGED <<gate, round, reason>>
    \/ /\ gate = "attributed"
       /\ Goto("sessions", gate, IF coord.workspaces # {} THEN "verify" ELSE "last")
       /\ UNCHANGED reason

\* What follows a gate that found nothing wrong (prepare_candidate and the end of
\* recheck_after_coordination).
PassGate ==
    \/ /\ gate = "initial"
       /\ Goto("sessions", gate, "first")
       /\ UNCHANGED reason
    \/ /\ gate \in {"unherded", "final"}
       /\ pc' = IF mode.apply THEN "remove" ELSE "done"
       /\ UNCHANGED <<gate, round, reason>>
    \/ /\ gate = "attributed" /\ ~mode.apply
       /\ pc' = "done"
       /\ reason' = IF coord.workspaces # {} THEN "HerdrCoordinationPending" ELSE reason
       /\ UNCHANGED <<gate, round>>
    \/ /\ gate = "attributed" /\ mode.apply
       /\ Goto("sessions", gate, IF coord.workspaces # {} THEN "verify" ELSE "last")
       /\ UNCHANGED reason

\* The first fact of F that does not hold gives the refusal its reason.
RefuseFirst(F) ==
    \E f \in F :
        /\ ~facts[f]
        /\ \A g \in F : Rank[g] < Rank[f] => facts[g]
        /\ Refuse(GateReason[f], FALSE)

InspectionFails == Refuse("SafetyInspectionFailed", TRUE)

\* `git worktree list --porcelain -z` and the tests on its records.
ReadInventory ==
    /\ pc = "inventory"
    /\ \/ (InspectionFails \/ RefuseFirst(InventoryFacts)) /\ UNCHANGED evidence
       \/ /\ \A f \in InventoryFacts : facts[f]
          /\ Vouch(InventoryFacts)
          /\ Goto("path", gate, round)
          /\ UNCHANGED <<outcome, reason, opfail>>
    /\ UNCHANGED <<worldVars, mode, todo, coord, veto, failed, tree, retired, look, quiet>>

\* fs::canonicalize on the candidate's path.
ResolvePath ==
    /\ pc = "path"
    /\ \/ RefuseFirst(PathFacts) /\ UNCHANGED evidence
       \/ /\ \A f \in PathFacts : facts[f]
          /\ Vouch(PathFacts)
          /\ Goto("status", gate, round)
          /\ UNCHANGED <<outcome, reason, opfail>>
    /\ UNCHANGED <<worldVars, mode, todo, coord, veto, failed, tree, retired, look, quiet>>

\* Slip: the process check is left to the last gate.
ReadStatusUsersLast ==
    /\ pc = "status"
    /\ \/ (InspectionFails \/ RefuseFirst(StatusFacts)) /\ UNCHANGED evidence
       \/ /\ \A f \in StatusFacts : facts[f]
          /\ Vouch(StatusFacts)
          /\ \/ /\ mode.checkProcesses /\ gate \in {"unherded", "final"}
                /\ Goto("users", gate, round)
                /\ UNCHANGED reason
             \/ ~(mode.checkProcesses /\ gate \in {"unherded", "final"}) /\ PassGate
          /\ UNCHANGED <<outcome, opfail>>
    /\ UNCHANGED <<worldVars, mode, todo, coord, veto, failed, tree, retired, look, quiet>>

\* `git status --porcelain=v1`; the initial gate stops here, and so does a gate whose
\* process check is off.
ReadStatus ==
    /\ pc = "status"
    /\ \/ (InspectionFails \/ RefuseFirst(StatusFacts)) /\ UNCHANGED evidence
       \/ /\ \A f \in StatusFacts : facts[f]
          /\ Vouch(StatusFacts)
          /\ \/ /\ mode.checkProcesses /\ gate # "initial"
                /\ Goto("users", gate, round)
                /\ UNCHANGED reason
             \/ ~(mode.checkProcesses /\ gate # "initial") /\ PassGate
          /\ UNCHANGED <<outcome, opfail>>
    /\ UNCHANGED <<worldVars, mode, todo, coord, veto, failed, tree, retired, look, quiet>>

\* The processes a gate may disregard: after the first Herdr inspection, the ones of idle panes.
Ignored == IF gate = "attributed" THEN coord.processes ELSE {}
ProcessFact == IF gate = "attributed" THEN "attributed" ELSE "unused"

\* check_worktree_processes: one `lsof` run.
ReadUsers ==
    /\ pc = "users"
    /\ \/ InspectionFails /\ UNCHANGED evidence
       \/ /\ ~(Users \subseteq Ignored)
          /\ Refuse("ProcessUsingWorktree", FALSE)
          /\ UNCHANGED evidence
       \/ /\ Users \subseteq Ignored
          /\ Vouch({ProcessFact})
          /\ PassGate
          /\ UNCHANGED <<outcome, opfail>>
    /\ UNCHANGED <<worldVars, mode, todo, coord, veto, failed, tree, retired, look, quiet>>

----------------------------------------------------------------------------
(***************************************************************************)
(* Herdr inspection (inspect_candidate), verification before retirement    *)
(* (verify_coordination_unchanged) and after it (verify_observed_sessions).*)
(***************************************************************************)

\* Starting an inspection discards what earlier ones and earlier gates established.
ForgetEvidence ==
    /\ evidence' = [f \in Facts |-> "none"]
    /\ quiet' = [s \in Sessions |-> IF s \in running THEN "none" ELSE "held"]

\* Slip: losing Herdr during the last inspection sends lop back to the gate before it.
SessionListRetries ==
    \/ /\ round = "first"
       /\ Goto("inventory", "unherded", round)
       /\ UNCHANGED <<outcome, reason, opfail>>
    \/ /\ round = "last"
       /\ Goto("inventory", "attributed", round)
       /\ UNCHANGED <<outcome, reason, opfail>>
    \/ /\ round \in {"verify", "confirm"}
       /\ Refuse("HerdrRetirementFailed", TRUE)

\* `herdr session list` gave no usable answer: it is missing, failed or timed out
\* (unavailable), or its output is malformed.
SessionListFails ==
    \/ /\ round = "first"        \* Herdr is optional: go on without it
       /\ Goto("inventory", "unherded", round)
       /\ UNCHANGED <<outcome, reason, opfail>>
    \/ /\ round = "first"
       /\ Refuse("HerdrInspectionFailed", TRUE)
    \/ /\ round = "last"
       /\ Refuse("HerdrInspectionFailed", TRUE)
    \/ /\ round \in {"verify", "confirm"}
       /\ Refuse("HerdrRetirementFailed", TRUE)

\* Slip: close failures are collected and then forgotten.
SessionsListedFailuresForgotten ==
    \/ /\ round \in {"first", "last"}
       /\ coord' = [NoCoordination EXCEPT !.sessions = running]
       /\ veto' = "none"
       /\ todo' = running
       /\ Goto("snapshots", gate, round)
       /\ UNCHANGED <<outcome, reason, opfail>>
    \/ /\ round = "verify" /\ running = coord.sessions
       /\ todo' = running
       /\ Goto("snapshots", gate, round)
       /\ UNCHANGED <<coord, veto, outcome, reason, opfail>>
    \/ /\ round = "confirm" /\ running = coord.sessions
       /\ Goto("sessions", gate, "last")
       /\ UNCHANGED <<coord, veto, todo, outcome, reason, opfail>>

\* The sessions to snapshot are the running ones; a round that verifies compares them first.
SessionsListed ==
    \/ /\ round \in {"first", "last"}
       /\ coord' = [NoCoordination EXCEPT !.sessions = running]
       /\ veto' = "none"
       /\ todo' = running
       /\ Goto("snapshots", gate, round)
       /\ UNCHANGED <<outcome, reason, opfail>>
    \/ /\ round = "verify" /\ running = coord.sessions
       /\ todo' = running
       /\ Goto("snapshots", gate, round)
       /\ UNCHANGED <<coord, veto, outcome, reason, opfail>>
    \/ /\ round = "confirm" /\ running = coord.sessions /\ ~failed
       /\ Goto("sessions", gate, "last")
       /\ UNCHANGED <<coord, veto, todo, outcome, reason, opfail>>
    \/ /\ round \in {"verify", "confirm"}
       /\ running # coord.sessions \/ failed
       /\ Refuse("HerdrRetirementFailed", TRUE)
       /\ UNCHANGED <<coord, veto, todo>>

ListSessions ==
    /\ pc = "sessions"
    /\ \/ SessionListFails /\ UNCHANGED <<coord, veto, todo>>
       \/ SessionsListed
    /\ IF round \in {"first", "last"} THEN ForgetEvidence ELSE UNCHANGED <<evidence, quiet>>
    /\ UNCHANGED <<worldVars, mode, failed, tree, retired, look>>

\* merge_candidate_status
MergeVeto(v) ==
    IF "focused" \in {v, veto} THEN "focused"
    ELSE IF "active" \in {v, veto} THEN "active"
    ELSE "none"

\* Adds to the coordination what the clear snapshot of s holds.
MergeCoordination(s) ==
    [coord EXCEPT !.workspaces = @ \cup CleanupWorkspaces(s),
                  !.panes = @ \cup CandidatePanes(s)]

EvaluateSnapshot(s) ==
    \E v \in SnapshotVerdicts(s) :
        \/ /\ v = "error"
           /\ Refuse("HerdrInspectionFailed", TRUE)
           /\ UNCHANGED <<coord, veto, todo, quiet>>
        \/ /\ v \in {"active", "focused"}
           /\ veto' = MergeVeto(v)
           /\ todo' = todo \ {s}
           /\ UNCHANGED <<coord, quiet, pc, gate, round, outcome, reason, opfail>>
        \/ /\ v = "clear"
           /\ coord' = MergeCoordination(s)
           /\ todo' = todo \ {s}
           /\ quiet' = [quiet EXCEPT ![s] = IF Uninvolved(s) THEN "held" ELSE @]
           /\ UNCHANGED <<veto, pc, gate, round, outcome, reason, opfail>>

\* Slip: only the existence of the workspace is checked again.
StillOpen(w) == w \in open

\* A workspace about to be closed still exists, is unfocused and idle; its panes are the
\* observed ones.  Their directories are not looked at again.
StillIdle(w) == w \in open /\ \A p \in PanesIn(w) : pane[p].act = "quiet"
Unchanged(s) ==
    LET mine == {w \in coord.workspaces : SessionOf[w] = s} IN
    /\ \A w \in mine : StillIdle(w)
    /\ UNION {PanesIn(w) : w \in mine} = {p \in coord.panes : SessionOf[WorkspaceOf[p]] = s}

VerifySnapshot(s) ==
    /\ \/ /\ Unchanged(s)
          /\ todo' = todo \ {s}
          /\ UNCHANGED <<pc, gate, round, outcome, reason, opfail>>
       \/ /\ ~Unchanged(s)
          /\ Refuse("HerdrRetirementFailed", TRUE)
          /\ UNCHANGED todo
    /\ UNCHANGED <<coord, veto, quiet>>

SnapshotFails ==
    /\ Refuse(IF round = "verify" THEN "HerdrRetirementFailed" ELSE "HerdrInspectionFailed",
              TRUE)
    /\ UNCHANGED <<coord, veto, todo, quiet, look>>

\* What a snapshot of s shows of its workspaces.
Look(s) ==
    look' = [w \in Workspaces |->
        IF SessionOf[w] # s THEN look[w]
        ELSE [panes |-> PanesIn(w),
              idle |-> \A p \in PanesIn(w) : pane[p].act = "quiet",
              exclusive |-> w \in open /\ ExclusivelyMapped(w)]]

\* `herdr --session s api snapshot`; it fails for a session that no longer runs.
SnapshotSession(s) ==
    /\ pc = "snapshots"
    /\ s \in todo
    /\ \/ SnapshotFails
       \/ /\ s \in running
          /\ Look(s)
          /\ IF round = "verify" THEN VerifySnapshot(s) ELSE EvaluateSnapshot(s)
    /\ UNCHANGED <<worldVars, mode, failed, tree, retired, evidence>>

\* Every snapshot is in.  A veto refuses; otherwise `herdr pane process-info` names the
\* processes of the observed panes, and fails for a pane that has gone.
AttributeProcesses ==
    /\ pc = "snapshots" /\ todo = {} /\ round \in {"first", "last"}
    /\ \/ /\ veto # "none"
          /\ Refuse(IF veto = "focused" THEN "HerdrFocusedPane" ELSE "HerdrActiveAgent", FALSE)
          /\ UNCHANGED coord
       \/ /\ veto = "none" /\ coord.panes # {}
          /\ Refuse("HerdrInspectionFailed", TRUE)
          /\ UNCHANGED coord
       \/ /\ veto = "none"
          /\ \A p \in coord.panes : pane[p] # Absent
          /\ coord' = [coord EXCEPT !.processes = coord.panes]
          /\ \/ /\ round = "first"
                /\ Goto("inventory", "attributed", round)
                /\ UNCHANGED <<outcome, reason, opfail>>
             \/ /\ round = "last" /\ coord.workspaces = {}
                /\ Goto("inventory", "final", round)
                /\ UNCHANGED <<outcome, reason, opfail>>
             \/ /\ round = "last" /\ coord.workspaces # {}
                /\ Refuse("HerdrRetirementFailed", TRUE)
    /\ UNCHANGED <<worldVars, mode, todo, veto, failed, ghostVars>>

----------------------------------------------------------------------------
(***************************************************************************)
(* Retirement (retire_candidate) and removal (apply_removal).              *)
(***************************************************************************)

\* The observed workspaces are unchanged: close every one of them.
StartRetiring ==
    /\ pc = "snapshots" /\ todo = {} /\ round = "verify"
    /\ todo' = coord.workspaces
    /\ Goto("close", gate, round)
    /\ UNCHANGED <<worldVars, mode, coord, veto, failed, outcome, reason, opfail, ghostVars>>

\* `herdr --session s workspace close w`.  Whether Herdr closes the workspace and whether
\* lop gets a valid acknowledgement are independent: the command may time out after its
\* effect, or answer "ok" without one.  A failure is collected and the loop goes on.
CloseWorkspace(w) ==
    /\ pc = "close"
    /\ w \in todo
    /\ todo' = todo \ {w}
    /\ \E closed \in BOOLEAN, acknowledged \in BOOLEAN :
        /\ failed' = (failed \/ ~acknowledged)
        /\ IF closed
           THEN WithoutWorkspaces({w}) /\ retired' = retired \cup ({w} \cap open)
           ELSE UNCHANGED <<open, tagged, pane, retired>>
    /\ IF todo' = {} THEN Goto("sessions", gate, "confirm") ELSE UNCHANGED <<pc, gate, round>>
    /\ UNCHANGED <<running, facts, strangers, changes, mode, coord, veto, outcome, reason,
                   opfail, tree, look>>
    /\ Age

\* What `wt remove` can answer: a branch outcome, a deferred deletion, or no usable result
\* (not started; timed out and killed, failed, or malformed, with or without effect).
Answers == BranchOutcomes \cup {"Deferred", "NotStarted", "NoResult"}

\* Slip: a removal that gives no result is refused like a safety veto.
DecideRemovalLeniently(answer) ==
    \/ /\ answer \in BranchOutcomes
       /\ outcome' = "removed"
       /\ reason' = BranchReason[answer]
       /\ opfail' = opfail + (IF answer = "RetainedFailed" THEN 1 ELSE 0)
       /\ pc' = "done"
       /\ UNCHANGED <<gate, round>>
    \/ /\ answer \notin BranchOutcomes
       /\ Refuse("RemovalFailed", FALSE)

\* The decision on wt's answer; parse_removal takes a deferred deletion for malformed.
DecideRemoval(answer) ==
    \/ /\ answer \in BranchOutcomes
       /\ outcome' = "removed"
       /\ reason' = BranchReason[answer]
       /\ opfail' = opfail + (IF answer = "RetainedFailed" THEN 1 ELSE 0)
       /\ pc' = "done"
       /\ UNCHANGED <<gate, round>>
    \/ /\ answer \notin BranchOutcomes
       /\ Refuse("RemovalFailed", TRUE)

\* Worktrunk is external: it may remove any registered worktree it is asked to, whatever
\* its state, and reports a branch outcome only for one it removed.
RemoveWorktree ==
    /\ pc = "remove"
    /\ \E answer \in Answers, gone \in BOOLEAN :
        /\ gone => facts["registered"]
        /\ answer \in BranchOutcomes \cup {"Deferred"} => gone
        /\ answer = "NotStarted" => ~gone
        /\ DecideRemoval(answer)
        /\ IF gone
           THEN /\ tree' = "removed"
                /\ facts' = [facts EXCEPT !["registered"] = FALSE, !["resolves"] = FALSE]
           ELSE UNCHANGED <<tree, facts>>
    /\ UNCHANGED <<herdrVars, strangers, changes, mode, todo, coord, veto, failed, retired, look>>
    /\ Age

----------------------------------------------------------------------------
(***************************************************************************)
(* Everyone else.                                                          *)
(***************************************************************************)

\* Someone edits, commits, locks, switches branches, moves or restores the worktree.
GitChanges(f) ==
    /\ facts' = [facts EXCEPT ![f] = ~facts[f]]
    /\ UNCHANGED <<herdrVars, strangers>>

\* A process enters or leaves the worktree.
StrangerMoves(p) ==
    /\ strangers' = (strangers \cup {p}) \ (strangers \cap {p})
    /\ UNCHANGED <<herdrVars, facts>>

OthersAct ==
    /\ changes < MaxChanges
    /\ changes' = changes + 1
    /\ \/ \E f \in Volatile : GitChanges(f)
       \/ \E p \in Strangers : StrangerMoves(p)
       \/ HerdrUserStep /\ UNCHANGED <<facts, strangers>>
    /\ UNCHANGED <<lopVars, tree, retired, look>>
    /\ Age

\* lop has decided; nothing is left to do for this candidate.
Finished == pc = "done" /\ UNCHANGED vars

LopStep ==
    \/ ReadInventory \/ ResolvePath \/ ReadStatus \/ ReadUsers
    \/ ListSessions \/ (\E s \in Sessions : SnapshotSession(s)) \/ AttributeProcesses
    \/ StartRetiring \/ (\E w \in Workspaces : CloseWorkspace(w)) \/ RemoveWorktree

Next == LopStep \/ OthersAct \/ Finished

Spec == Init /\ [][Next]_vars

\* lop is one thread that never waits for another lop step, and every command it runs ends
\* or is killed at its timeout: whenever it can go on, it does.
Fairness == WF_vars(LopStep)
FairSpec == Spec /\ Fairness

----------------------------------------------------------------------------
(***************************************************************************)
(* Properties.                                                             *)
(***************************************************************************)

TypeOK ==
    /\ HerdrTypeOK
    /\ facts \in [GitFacts -> BOOLEAN]
    /\ strangers \subseteq Strangers
    /\ changes \in 0..MaxChanges
    /\ mode \in Modes
    /\ pc \in Steps /\ gate \in Gates /\ round \in Rounds
    /\ todo \subseteq Sessions \cup Workspaces
    /\ coord \in Coordinations
    /\ veto \in {"none", "active", "focused"}
    /\ failed \in BOOLEAN
    /\ outcome \in {"candidate", "refused", "removed"}
    /\ opfail \in 0..1
    /\ tree \in {"present", "removed"}
    /\ retired \subseteq Workspaces
    /\ look \in [Workspaces -> Looks]
    /\ evidence \in [Facts -> Vouchers]
    /\ quiet \in [Sessions -> Vouchers]

\* A fact lop may rely on: read as true since the last look at Herdr, and false now only
\* because somebody else changed it after it was read.
Vouched(f) == evidence[f] = "raced" \/ (evidence[f] = "held" /\ Holds(f))
SessionVouched(s) == quiet[s] = "raced" \/ (quiet[s] = "held" /\ Uninvolved(s))

\* The worktree is handed to `wt remove` only when every Git fact, the absence of every
\* process (unless check_processes is off) and, where Herdr was found, the absence of any
\* workspace, pane or agent of the candidate have been read after the last change lop
\* itself made, so that only a change made by others in that window can be missed.
RemovalNeedsEvidence ==
    pc = "remove" =>
        /\ mode.apply
        /\ \A f \in GitFacts : Vouched(f)
        /\ mode.checkProcesses => Vouched("unused")
        /\ gate # "unherded" => \A s \in Sessions : SessionVouched(s)

\* Herdr workspaces are closed only for a candidate that passed the whole gate, its
\* processes all attributed to the observed panes, so that a refusal the gate could have
\* given costs nobody a terminal.
RetirementNeedsEvidence ==
    pc = "close" =>
        /\ mode.apply
        /\ \A f \in GitFacts : Vouched(f)
        /\ mode.checkProcesses => Vouched("attributed")

\* A workspace lop closes was, in the last snapshot lop read of its session, idle and
\* unfocused and made of observed panes only.
RetiresOnlyVerified ==
    [][\A w \in retired' \ retired :
        w \in coord.workspaces /\ look[w].idle /\ look[w].panes \subseteq coord.panes]_vars

\* Once a close has failed the worktree is safe: nothing later in the run removes it.
FailedRetirementKeepsTree == failed => tree = "present" /\ pc # "remove"

\* The decision is honest: a worktree reported as removed is gone; one that lop's command
\* took away without a report, and every retirement that ends in a close failure, is
\* counted as an operational failure; in apply mode nothing is left undecided.
HonestOutcome ==
    /\ outcome = "removed" => tree = "removed"
    /\ tree = "removed" /\ outcome # "removed" => opfail = 1
    /\ pc = "done" /\ failed => opfail = 1
    /\ pc = "done" /\ mode.apply => outcome # "candidate"
    /\ pc = "done" /\ retired # {} => outcome # "candidate"

\* Without --yes nothing lop does changes Git, the disk or Herdr.
PreviewChangesNothing ==
    [][~mode.apply /\ UNCHANGED changes => UNCHANGED <<worldVars, tree, retired>>]_vars

\* What lop promises of a candidate, implemented: everything is vouched for once the gate
\* that permits removal has read every fact it reads.
AllRead ==
    /\ gate \in {"unherded", "final"}
    /\ \A f \in GitFacts : evidence[f] # "none"
    /\ mode.checkProcesses => evidence["unused"] # "none"

Contract == INSTANCE Cleanup WITH
    apply <- mode.apply,
    vouched <- AllRead,
    decision <- IF pc = "done" THEN outcome ELSE "none",
    failures <- opfail

\* Removal implements the contract: one destructive step, only with --yes, only after
\* reading everything again since the last retirement, and a truthful final decision.
Implements == Contract!Spec

\* Every candidate is decided, whatever the commands answer and whatever others do.
Termination == <>(pc = "done")

\* README, "closes only workspaces mapped exclusively to the candidate": the last snapshot
\* lop read before closing a workspace showed it mapped exclusively to the candidate.
RetiresOnlyExclusive == [][\A w \in retired' \ retired : look[w].exclusive]_vars
=============================================================================
