------------------------------- MODULE Herdr -------------------------------
(***************************************************************************)
(* Herdr, the terminal multiplexer lop coordinates with, as lop sees it:   *)
(* running sessions, their workspaces and panes, what a person does with   *)
(* them while lop works, and how src/herdr.rs judges one session's         *)
(* snapshot with respect to one candidate worktree.                        *)
(*                                                                         *)
(* Herdr itself is not part of the repository: its state and the steps its *)
(* users take are external and over-approximate it.  Paths are reduced to  *)
(* what path_is_within tells apart: inside or outside the candidate.       *)
(***************************************************************************)
EXTENDS FiniteSets

CONSTANTS
    Sessions,       \* Herdr session identities (name and socket)
    Workspaces,     \* workspaces, each of one session
    Panes,          \* panes, each of one workspace; a pane is named by its shell PID
    SessionOf,      \* Workspaces -> Sessions
    WorkspaceOf     \* Panes -> Workspaces

ASSUME HerdrAssumption ==
    /\ SessionOf \in [Workspaces -> Sessions]
    /\ WorkspaceOf \in [Panes -> Workspaces]

VARIABLES
    running,        \* sessions that `herdr session list` would report as running
    open,           \* workspaces that exist
    tagged,         \* workspaces whose worktree metadata names the candidate checkout
    pane            \* what each pane shows; Absent when it does not exist

herdrVars == <<running, open, tagged, pane>>

(***************************************************************************)
(* A pane's directory matches the candidate ("inside") when its cwd or its *)
(* foreground cwd is within it, and is "nowhere" when Herdr reports        *)
(* neither.  Its activity folds the focus flags, the status of the pane's  *)
(* agent and the agent row of that pane into what the code tells apart;    *)
(* "visiting" is a working agent whose own directory is in the candidate   *)
(* though its pane's is not.                                               *)
(***************************************************************************)
Places == {"inside", "outside", "nowhere"}
Activities == {"quiet", "focused", "active", "unclear", "visiting"}
PaneStates == [at: Places, act: Activities]
Absent == [at |-> "absent", act |-> "quiet"]

HerdrTypeOK ==
    /\ running \subseteq Sessions
    /\ open \subseteq Workspaces
    /\ tagged \subseteq Workspaces
    /\ pane \in [Panes -> PaneStates \cup {Absent}]

\* What Herdr itself guarantees: a workspace lives in a running session, a pane in a workspace.
HerdrConsistent ==
    /\ \A w \in open : SessionOf[w] \in running
    /\ \A p \in Panes : pane[p] # Absent => WorkspaceOf[p] \in open

WorkspacesOf(s) == {w \in open : SessionOf[w] = s}
PanesIn(w) == {p \in Panes : WorkspaceOf[p] = w /\ pane[p] # Absent}
PanesOf(s) == UNION {PanesIn(w) : w \in WorkspacesOf(s)}

----------------------------------------------------------------------------
(***************************************************************************)
(* How lop reads the snapshot of session s (evaluate_snapshot).            *)
(***************************************************************************)

\* pane_matches
Matches(p) == pane[p].at = "inside"

\* candidate_workspaces: the ones Herdr's own metadata maps to the candidate.
CandidateWorkspaces(s) == {w \in WorkspacesOf(s) : w \in tagged}

\* The workspaces validate_candidate_workspaces looks at: mapped, or with a pane that matches.
Concerned(s) ==
    {w \in WorkspacesOf(s) : w \in tagged \/ \E p \in PanesIn(w) : Matches(p)}

\* validate_candidate_workspaces refuses an empty workspace, a pane without a
\* directory and a workspace shared with an unrelated directory.
ExclusivelyMapped(w) == PanesIn(w) # {} /\ \A p \in PanesIn(w) : Matches(p)
ValidCandidateWorkspaces(s) == \A w \in Concerned(s) : ExclusivelyMapped(w)

CandidatePanes(s) ==
    {p \in PanesOf(s) : Matches(p) \/ WorkspaceOf[p] \in CandidateWorkspaces(s)}

\* Panes whose focus or agent stops lop.
NoisyPanes(s) ==
    {p \in CandidatePanes(s) : pane[p].act # "quiet"}
        \cup {p \in PanesOf(s) : pane[p].act = "visiting"}

\* activity_veto, and the focus test before it.
PaneVerdict(p) ==
    CASE pane[p].act = "focused" -> "focused"
      [] pane[p].act = "unclear" -> "error"
      [] OTHER -> "active"

\* The answers evaluate_snapshot can give; the first noisy pane in Herdr's order decides.
SnapshotVerdicts(s) ==
    IF ~ValidCandidateWorkspaces(s) THEN {"error"}
    ELSE IF NoisyPanes(s) = {} THEN {"clear"}
    ELSE {PaneVerdict(p) : p \in NoisyPanes(s)}

\* cleanup_workspace_ids: the mapped workspaces and those all of whose panes match.
CleanupWorkspaces(s) ==
    CandidateWorkspaces(s) \cup {w \in WorkspacesOf(s) : ExclusivelyMapped(w)}

\* Nothing in session s has to do with the candidate.
Uninvolved(s) ==
    /\ Concerned(s) = {}
    /\ \A p \in PanesOf(s) : pane[p].act # "visiting"

----------------------------------------------------------------------------
(***************************************************************************)
(* What people and programs do in Herdr while lop works.                   *)
(***************************************************************************)

UserWorksInPane(p, st) ==
    /\ pane[p] # Absent
    /\ pane[p] # st
    /\ pane' = [pane EXCEPT ![p] = st]
    /\ UNCHANGED <<running, open, tagged>>

UserOpensPane(p, st) ==
    /\ WorkspaceOf[p] \in open
    /\ pane[p] = Absent
    /\ pane' = [pane EXCEPT ![p] = st]
    /\ UNCHANGED <<running, open, tagged>>

UserClosesPane(p) ==
    /\ pane[p] # Absent
    /\ pane' = [pane EXCEPT ![p] = Absent]
    /\ UNCHANGED <<running, open, tagged>>

\* A workspace opens with one pane, linked to the candidate checkout or not.
UserOpensWorkspace(w, p, st, linked) ==
    /\ SessionOf[w] \in running
    /\ w \notin open
    /\ WorkspaceOf[p] = w
    /\ open' = open \cup {w}
    /\ tagged' = IF linked THEN tagged \cup {w} ELSE tagged \ {w}
    /\ pane' = [pane EXCEPT ![p] = st]
    /\ UNCHANGED running

\* The state of Herdr without the workspaces W.
WithoutWorkspaces(W) ==
    /\ open' = open \ W
    /\ tagged' = tagged \ W
    /\ pane' = [p \in Panes |-> IF WorkspaceOf[p] \in W THEN Absent ELSE pane[p]]

UserClosesWorkspace(w) ==
    /\ w \in open
    /\ WithoutWorkspaces({w})
    /\ UNCHANGED running

SessionStarts(s) ==
    /\ s \notin running
    /\ running' = running \cup {s}
    /\ UNCHANGED <<open, tagged, pane>>

SessionStops(s) ==
    /\ s \in running
    /\ running' = running \ {s}
    /\ WithoutWorkspaces(WorkspacesOf(s))

HerdrUserStep ==
    \/ \E p \in Panes, st \in PaneStates : UserWorksInPane(p, st) \/ UserOpensPane(p, st)
    \/ \E p \in Panes : UserClosesPane(p)
    \/ \E w \in Workspaces, p \in Panes, st \in PaneStates, linked \in BOOLEAN :
        UserOpensWorkspace(w, p, st, linked)
    \/ \E w \in Workspaces : UserClosesWorkspace(w)
    \/ \E s \in Sessions : SessionStarts(s) \/ SessionStops(s)
=============================================================================
