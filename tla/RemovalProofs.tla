--------------------------- MODULE RemovalProofs ---------------------------
(***************************************************************************)
(* Theorems about Removal, for every number of sessions, workspaces, panes *)
(* and processes and any number of changes made by others.                 *)
(***************************************************************************)
EXTENDS Removal, TLAPS

(***************************************************************************)
(* What Herdr and its users keep true, for any sessions, workspaces and    *)
(* panes.                                                                  *)
(***************************************************************************)

\* What Herdr's users do keeps the types.
LEMMA HerdrUserStepTyped ==
    ASSUME HerdrTypeOK, HerdrUserStep
    PROVE  HerdrTypeOK'
<1>1. CASE \E p \in Panes, st \in PaneStates : UserWorksInPane(p, st) \/ UserOpensPane(p, st)
    BY <1>1 DEF HerdrTypeOK, UserWorksInPane, UserOpensPane
<1>2. CASE \E p \in Panes : UserClosesPane(p)
    BY <1>2 DEF HerdrTypeOK, UserClosesPane
<1>3. CASE \E w \in Workspaces, p \in Panes, st \in PaneStates, linked \in BOOLEAN :
               UserOpensWorkspace(w, p, st, linked)
    BY <1>3 DEF HerdrTypeOK, UserOpensWorkspace
<1>4. CASE \E w \in Workspaces : UserClosesWorkspace(w)
    BY <1>4 DEF HerdrTypeOK, UserClosesWorkspace, WithoutWorkspaces
<1>5. CASE \E s \in Sessions : SessionStarts(s) \/ SessionStops(s)
    BY <1>5 DEF HerdrTypeOK, SessionStarts, SessionStops, WithoutWorkspaces
<1>. QED
    BY <1>1, <1>2, <1>3, <1>4, <1>5 DEF HerdrUserStep

\* Closing workspaces takes their panes with them, and leaves no pane without its workspace.
LEMMA WithoutConsistent ==
    ASSUME NEW W, HerdrTypeOK, HerdrConsistent, WithoutWorkspaces(W), running' = running
    PROVE  HerdrConsistent'
BY HerdrAssumption DEF HerdrTypeOK, HerdrConsistent, WithoutWorkspaces

\* Herdr's users keep workspaces in running sessions and panes in open workspaces.
LEMMA HerdrUserStepConsistent ==
    ASSUME HerdrTypeOK, HerdrConsistent, HerdrUserStep
    PROVE  HerdrConsistent'
<1>1. ASSUME NEW p \in Panes, NEW st \in PaneStates, UserWorksInPane(p, st) \/ UserOpensPane(p, st)
      PROVE  HerdrConsistent'
    BY <1>1 DEF HerdrTypeOK, HerdrConsistent, UserWorksInPane, UserOpensPane
<1>2. ASSUME NEW p \in Panes, UserClosesPane(p)
      PROVE  HerdrConsistent'
    BY <1>2 DEF HerdrTypeOK, HerdrConsistent, UserClosesPane
<1>3. ASSUME NEW w \in Workspaces, NEW p \in Panes, NEW st \in PaneStates, NEW linked \in BOOLEAN,
             UserOpensWorkspace(w, p, st, linked)
      PROVE  HerdrConsistent'
    BY <1>3 DEF HerdrTypeOK, HerdrConsistent, UserOpensWorkspace
<1>4. ASSUME NEW w \in Workspaces, UserClosesWorkspace(w)
      PROVE  HerdrConsistent'
    BY <1>4, WithoutConsistent DEF UserClosesWorkspace
<1>5. ASSUME NEW s \in Sessions, SessionStarts(s)
      PROVE  HerdrConsistent'
    BY <1>5 DEF HerdrTypeOK, HerdrConsistent, SessionStarts
<1>6. ASSUME NEW s \in Sessions, SessionStops(s)
      PROVE  HerdrConsistent'
    BY <1>6, HerdrAssumption DEF HerdrTypeOK, HerdrConsistent, SessionStops, WithoutWorkspaces,
        WorkspacesOf
<1>. QED
    BY <1>1, <1>2, <1>3, <1>4, <1>5, <1>6 DEF HerdrUserStep
----------------------------------------------------------------------------

(***************************************************************************)
(* Type correctness.  A candidate not yet decided has cost no operational  *)
(* failure: without this opfail could not be bounded by one.               *)
(***************************************************************************)

Undecided == pc # "done" => opfail = 0

TypeInv == TypeOK /\ Undecided

USE DEF Steps, Gates, Rounds, Vouchers

\* Both kinds of evidence keep their type when they age.
LEMMA AgeTyped ==
    ASSUME evidence \in [Facts -> Vouchers], quiet \in [Sessions -> Vouchers], Age
    PROVE  evidence' \in [Facts -> Vouchers] /\ quiet' \in [Sessions -> Vouchers]
BY DEF Age

\* A refusal keeps the types of the decision.
LEMMA RefuseTyped ==
    ASSUME NEW why, NEW op \in BOOLEAN, TypeInv, pc # "done", Refuse(why, op)
    PROVE  /\ outcome' = "refused" /\ opfail' \in 0..1 /\ pc' = "done"
           /\ gate' \in Gates /\ round' \in Rounds
BY DEF TypeInv, TypeOK, Undecided, Refuse

\* So does passing the gate.
LEMMA PassGateTyped ==
    ASSUME TypeInv, PassGate
    PROVE  pc' \in Steps /\ gate' \in Gates /\ round' \in Rounds
BY DEF TypeInv, TypeOK, PassGate, Goto

\* The types hold when the candidate is taken up.
LEMMA InitTyped == Init => TypeInv
<1>. SUFFICES ASSUME Init
              PROVE  TypeInv
    OBVIOUS
<1>1. HerdrTypeOK
    BY DEF Init, HerdrTypeOK, PaneStates, Places, Activities
<1>2. facts \in [GitFacts -> BOOLEAN]
    BY DEF Init
<1>3. coord \in Coordinations
    BY DEF Init, NoCoordination, Coordinations
<1>4. look \in [Workspaces -> Looks]
    BY DEF Init, Looks
<1>5. evidence \in [Facts -> Vouchers] /\ quiet \in [Sessions -> Vouchers]
    BY DEF Init
<1>6. /\ strangers \subseteq Strangers /\ mode \in Modes /\ changes \in 0..MaxChanges
      /\ todo \subseteq Sessions \cup Workspaces /\ retired \subseteq Workspaces
    BY RemovalAssumption DEF Init
<1>7. /\ pc \in Steps /\ gate \in Gates /\ round \in Rounds
      /\ veto \in {"none", "active", "focused"} /\ failed \in BOOLEAN
      /\ outcome \in {"candidate", "refused", "removed"}
      /\ opfail \in 0..1 /\ opfail = 0 /\ tree \in {"present", "removed"}
    <2>1. /\ pc = "inventory" /\ gate = "initial" /\ round = "first"
          /\ veto = "none" /\ failed = FALSE /\ outcome = "candidate"
          /\ opfail = 0 /\ tree = "present"
        BY Zenon DEF Init
    <2>2. pc \in Steps /\ gate \in Gates /\ round \in Rounds
        BY <2>1
    <2>3. /\ veto \in {"none", "active", "focused"} /\ failed \in BOOLEAN
          /\ outcome \in {"candidate", "refused", "removed"} /\ tree \in {"present", "removed"}
        BY <2>1
    <2>4. opfail \in 0..1
        BY <2>1
    <2>. QED
        BY <2>1, <2>2, <2>3, <2>4
<1>. QED
    BY <1>1, <1>2, <1>3, <1>4, <1>5, <1>6, <1>7 DEF TypeInv, TypeOK, Undecided

\* Every command of lop's and every change by others keeps the types.
LEMMA StepTyped == TypeInv /\ [Next]_vars => TypeInv'
<1>. SUFFICES ASSUME TypeInv, [Next]_vars
              PROVE  TypeInv'
    OBVIOUS
<1>1. CASE ReadInventory
    <2>1. pc' \in Steps /\ gate' \in Gates /\ round' \in Rounds /\ opfail' \in 0..1
          /\ outcome' \in {"candidate", "refused", "removed"} /\ (pc' # "done" => opfail' = 0)
        BY <1>1, RefuseTyped DEF ReadInventory, InspectionFails, RefuseFirst, Goto, TypeInv,
            TypeOK, Undecided
    <2>2. evidence' \in [Facts -> Vouchers]
        BY <1>1 DEF ReadInventory, Vouch, TypeInv, TypeOK
    <2>. QED
        BY <1>1, <2>1, <2>2 DEF ReadInventory, TypeInv, TypeOK, Undecided, HerdrTypeOK, worldVars
<1>2. CASE ResolvePath
    <2>1. pc' \in Steps /\ gate' \in Gates /\ round' \in Rounds /\ opfail' \in 0..1
          /\ outcome' \in {"candidate", "refused", "removed"} /\ (pc' # "done" => opfail' = 0)
        BY <1>2, RefuseTyped DEF ResolvePath, RefuseFirst, Goto, TypeInv, TypeOK, Undecided
    <2>2. evidence' \in [Facts -> Vouchers]
        BY <1>2 DEF ResolvePath, Vouch, TypeInv, TypeOK
    <2>. QED
        BY <1>2, <2>1, <2>2 DEF ResolvePath, TypeInv, TypeOK, Undecided, HerdrTypeOK, worldVars
<1>3. CASE ReadStatus
    <2>1. pc' \in Steps /\ gate' \in Gates /\ round' \in Rounds /\ opfail' \in 0..1
          /\ outcome' \in {"candidate", "refused", "removed"} /\ (pc' # "done" => opfail' = 0)
        BY <1>3, RefuseTyped, PassGateTyped DEF ReadStatus, InspectionFails, RefuseFirst, Goto,
            TypeInv, TypeOK, Undecided
    <2>2. evidence' \in [Facts -> Vouchers]
        BY <1>3 DEF ReadStatus, Vouch, TypeInv, TypeOK
    <2>. QED
        BY <1>3, <2>1, <2>2 DEF ReadStatus, TypeInv, TypeOK, Undecided, HerdrTypeOK, worldVars
<1>4. CASE ReadUsers
    <2>1. pc' \in Steps /\ gate' \in Gates /\ round' \in Rounds /\ opfail' \in 0..1
          /\ outcome' \in {"candidate", "refused", "removed"} /\ (pc' # "done" => opfail' = 0)
        BY <1>4, RefuseTyped, PassGateTyped DEF ReadUsers, InspectionFails, TypeInv, TypeOK,
            Undecided
    <2>2. evidence' \in [Facts -> Vouchers]
        BY <1>4 DEF ReadUsers, Vouch, TypeInv, TypeOK
    <2>. QED
        BY <1>4, <2>1, <2>2 DEF ReadUsers, TypeInv, TypeOK, Undecided, HerdrTypeOK, worldVars
<1>5. CASE ListSessions
    <2>1. evidence' \in [Facts -> Vouchers] /\ quiet' \in [Sessions -> Vouchers]
        BY <1>5 DEF ListSessions, ForgetEvidence, TypeInv, TypeOK
    <2>2. UNCHANGED <<worldVars, mode, failed, tree, retired, look>>
        BY <1>5 DEF ListSessions
    <2>3. /\ pc' \in Steps /\ gate' \in Gates /\ round' \in Rounds /\ opfail' \in 0..1
          /\ outcome' \in {"candidate", "refused", "removed"} /\ (pc' # "done" => opfail' = 0)
          /\ coord' \in Coordinations /\ veto' \in {"none", "active", "focused"}
          /\ todo' \subseteq Sessions \cup Workspaces
        <3>1. CASE SessionListFails /\ UNCHANGED <<coord, veto, todo>>
            BY <1>5, <3>1, RefuseTyped DEF ListSessions, SessionListFails, Goto, TypeInv, TypeOK,
                Undecided
        <3>2. CASE SessionsListed
            <4>1. running \subseteq Sessions
                BY DEF TypeInv, TypeOK, HerdrTypeOK
            <4>2. [NoCoordination EXCEPT !.sessions = running] \in Coordinations
                BY <4>1 DEF NoCoordination, Coordinations
            <4>. QED
                BY <1>5, <3>2, <4>1, <4>2, RefuseTyped DEF ListSessions, SessionsListed, Goto,
                    TypeInv, TypeOK, Undecided
        <3>. QED
            BY <1>5, <3>1, <3>2 DEF ListSessions
    <2>. QED
        BY <2>1, <2>2, <2>3 DEF TypeInv, TypeOK, Undecided, HerdrTypeOK, worldVars
<1>6. CASE \E s \in Sessions : SnapshotSession(s)
    <2>. PICK s \in Sessions : SnapshotSession(s)
        BY <1>6
    <2>1. UNCHANGED <<worldVars, mode, failed, tree, retired, evidence>> /\ pc = "snapshots"
        BY DEF SnapshotSession
    <2>2. look' \in [Workspaces -> Looks]
        <3>1. CASE UNCHANGED look
            BY <3>1 DEF TypeInv, TypeOK
        <3>2. CASE Look(s)
            <4>1. ASSUME NEW w \in Workspaces, NEW idle \in BOOLEAN, NEW exclusive \in BOOLEAN
                  PROVE  [panes |-> PanesIn(w), idle |-> idle, exclusive |-> exclusive] \in Looks
                BY DEF PanesIn, Looks
            <4>2. ASSUME NEW w \in Workspaces
                  PROVE  [panes |-> PanesIn(w),
                          idle |-> \A p \in PanesIn(w) : pane[p].act = "quiet",
                          exclusive |-> w \in open /\ ExclusivelyMapped(w)] \in Looks
                <5>1. (\A p \in PanesIn(w) : pane[p].act = "quiet") \in BOOLEAN
                    OBVIOUS
                <5>2. (w \in open /\ ExclusivelyMapped(w)) \in BOOLEAN
                    OBVIOUS
                <5>. QED
                    BY <4>1, <5>1, <5>2, Zenon
            <4>. QED
                BY <3>2, <4>2 DEF Look, TypeInv, TypeOK
        <3>. QED
            BY <3>1, <3>2 DEF SnapshotSession, SnapshotFails
    <2>3. /\ pc' \in Steps /\ gate' \in Gates /\ round' \in Rounds /\ opfail' \in 0..1
          /\ outcome' \in {"candidate", "refused", "removed"} /\ (pc' # "done" => opfail' = 0)
          /\ coord' \in Coordinations /\ veto' \in {"none", "active", "focused"}
          /\ todo' \subseteq Sessions \cup Workspaces
          /\ quiet' \in [Sessions -> Vouchers]
        <3>1. CASE SnapshotFails
            BY <2>1, <3>1, RefuseTyped DEF SnapshotFails, TypeInv, TypeOK
        <3>2. CASE VerifySnapshot(s)
            BY <2>1, <3>2, RefuseTyped DEF VerifySnapshot, TypeInv, TypeOK, Undecided
        <3>3. CASE EvaluateSnapshot(s)
            <4>1. MergeCoordination(s) \in Coordinations
                <5>1. CleanupWorkspaces(s) \subseteq Workspaces /\ CandidatePanes(s) \subseteq Panes
                    BY DEF CleanupWorkspaces, CandidateWorkspaces, WorkspacesOf, CandidatePanes,
                        PanesOf, PanesIn, TypeInv, TypeOK, HerdrTypeOK
                <5>. QED
                    BY <5>1 DEF MergeCoordination, Coordinations, TypeInv, TypeOK
            <4>2. \A v : MergeVeto(v) \in {"none", "active", "focused"}
                BY DEF MergeVeto
            <4>. QED
                BY <2>1, <3>3, <4>1, <4>2, RefuseTyped DEF EvaluateSnapshot, TypeInv, TypeOK,
                    Undecided
        <3>. QED
            BY <3>1, <3>2, <3>3 DEF SnapshotSession
    <2>. QED
        BY <2>1, <2>2, <2>3 DEF TypeInv, TypeOK, Undecided, HerdrTypeOK, worldVars
<1>7. CASE AttributeProcesses
    <2>1. UNCHANGED <<worldVars, mode, todo, veto, failed, ghostVars>> /\ pc = "snapshots"
        BY <1>7 DEF AttributeProcesses
    <2>2. /\ pc' \in Steps /\ gate' \in Gates /\ round' \in Rounds /\ opfail' \in 0..1
          /\ outcome' \in {"candidate", "refused", "removed"} /\ (pc' # "done" => opfail' = 0)
        BY <1>7, <2>1, RefuseTyped DEF AttributeProcesses, Goto, TypeInv, TypeOK, Undecided
    <2>3. coord' \in Coordinations
        BY <1>7 DEF AttributeProcesses, Coordinations, TypeInv, TypeOK
    <2>. QED
        BY <2>1, <2>2, <2>3 DEF TypeInv, TypeOK, Undecided, HerdrTypeOK, worldVars, ghostVars
<1>8. CASE StartRetiring
    BY <1>8 DEF StartRetiring, Goto, TypeInv, TypeOK, Undecided, HerdrTypeOK, worldVars,
        ghostVars, Coordinations
<1>9. CASE \E w \in Workspaces : CloseWorkspace(w)
    <2>. PICK w \in Workspaces : CloseWorkspace(w)
        BY <1>9
    <2>1. HerdrTypeOK' /\ retired' \subseteq Workspaces /\ failed' \in BOOLEAN
        BY DEF CloseWorkspace, WithoutWorkspaces, TypeInv, TypeOK, HerdrTypeOK
    <2>2. /\ pc' \in Steps /\ gate' \in Gates /\ round' \in Rounds /\ todo' \subseteq todo
          /\ pc' # "done" /\ pc # "done"
        BY DEF CloseWorkspace, Goto, TypeInv, TypeOK
    <2>3. evidence' \in [Facts -> Vouchers] /\ quiet' \in [Sessions -> Vouchers]
        BY AgeTyped DEF CloseWorkspace, TypeInv, TypeOK
    <2>. QED
        BY <2>1, <2>2, <2>3 DEF CloseWorkspace, TypeInv, TypeOK, Undecided
<1>10. CASE RemoveWorktree
    <2>1. facts' \in [GitFacts -> BOOLEAN] /\ tree' \in {"present", "removed"}
        <3>1. facts \in [GitFacts -> BOOLEAN] /\ tree \in {"present", "removed"}
            BY DEF TypeInv, TypeOK
        <3>2. [facts EXCEPT !["registered"] = FALSE, !["resolves"] = FALSE]
                  \in [GitFacts -> BOOLEAN]
            BY <3>1
        <3>3. \/ UNCHANGED <<tree, facts>>
              \/ /\ tree' = "removed"
                 /\ facts' = [facts EXCEPT !["registered"] = FALSE, !["resolves"] = FALSE]
            BY <1>10, Zenon DEF RemoveWorktree
        <3>. QED
            BY <3>1, <3>2, <3>3
    <2>2. /\ pc' = "done" /\ gate' \in Gates /\ round' \in Rounds /\ opfail' \in 0..1
          /\ outcome' \in {"candidate", "refused", "removed"}
        <3>1. PICK answer \in Answers : DecideRemoval(answer)
            BY <1>10, Zenon DEF RemoveWorktree
        <3>2. pc = "remove"
            BY <1>10 DEF RemoveWorktree
        <3>3. opfail = 0 /\ gate \in Gates /\ round \in Rounds
            BY <3>2 DEF TypeInv, TypeOK, Undecided
        <3>. QED
            BY <3>1, <3>3 DEF DecideRemoval, Refuse
    <2>3. evidence' \in [Facts -> Vouchers] /\ quiet' \in [Sessions -> Vouchers]
        BY <1>10, AgeTyped DEF RemoveWorktree, TypeInv, TypeOK
    <2>. QED
        BY <1>10, <2>1, <2>2, <2>3 DEF RemoveWorktree, TypeInv, TypeOK, Undecided, HerdrTypeOK,
            herdrVars
<1>11. CASE OthersAct
    <2>1. evidence' \in [Facts -> Vouchers] /\ quiet' \in [Sessions -> Vouchers]
        BY <1>11, AgeTyped DEF OthersAct, TypeInv, TypeOK
    <2>2. changes' \in 0..MaxChanges /\ UNCHANGED <<lopVars, tree, retired, look>>
        BY <1>11, RemovalAssumption DEF OthersAct, TypeInv, TypeOK
    <2>3. HerdrTypeOK' /\ facts' \in [GitFacts -> BOOLEAN] /\ strangers' \subseteq Strangers
        <3>1. CASE \E f \in Volatile : GitChanges(f)
            BY <3>1 DEF GitChanges, herdrVars, TypeInv, TypeOK, HerdrTypeOK
        <3>2. CASE \E p \in Strangers : StrangerMoves(p)
            BY <3>2 DEF StrangerMoves, herdrVars, TypeInv, TypeOK, HerdrTypeOK
        <3>3. CASE HerdrUserStep /\ UNCHANGED <<facts, strangers>>
            BY <3>3, HerdrUserStepTyped DEF TypeInv, TypeOK
        <3>. QED
            BY <1>11, <3>1, <3>2, <3>3 DEF OthersAct
    <2>. QED
        BY <2>1, <2>2, <2>3 DEF TypeInv, TypeOK, Undecided, lopVars
<1>12. CASE Finished \/ UNCHANGED vars
    BY <1>12 DEF Finished, vars, TypeInv, TypeOK, Undecided, HerdrTypeOK
<1>. QED
    BY <1>1, <1>2, <1>3, <1>4, <1>5, <1>6, <1>7, <1>8, <1>9, <1>10, <1>11, <1>12
       DEF Next, LopStep

\* Every variable keeps its type, and a candidate adds at most one operational failure.
THEOREM TypeCorrect == Spec => []TypeOK
<1>1. Spec => []TypeInv
    BY InitTyped, StepTyped, PTL DEF Spec
<1>2. TypeInv => TypeOK
    BY DEF TypeInv
<1>. QED
    BY <1>1, <1>2, PTL

----------------------------------------------------------------------------
(***************************************************************************)
(* Evidence.  RemovalNeedsEvidence and RetirementNeedsEvidence speak of    *)
(* two commands only; the invariant that implies them says what has been   *)
(* read at each command on the way there.                                  *)
(***************************************************************************)

\* Evidence nobody spoilt is still true.
StillTrue ==
    /\ \A f \in Facts : evidence[f] = "held" => Holds(f)
    /\ \A s \in Sessions : quiet[s] = "held" => Uninvolved(s)

Read(F) == \A f \in F : evidence[f] # "none"

\* What a running gate has read so far.
GateProgress ==
    /\ pc = "path" => Read(InventoryFacts)
    /\ pc = "status" => Read(InventoryFacts \cup PathFacts)
    /\ pc = "users" => Read(GitFacts)

\* The gate that permits removal has read everything.
RemovalPermitted ==
    pc = "remove" =>
        /\ mode.apply /\ gate \in {"unherded", "final"}
        /\ Read(GitFacts)
        /\ mode.checkProcesses => Read({"unused"})

\* Retirement starts from a gate that has read everything, and nothing is forgotten before
\* the last close; the rounds that inspect start from nothing.
RetirementPermitted ==
    /\ round = "verify" /\ pc \in {"sessions", "snapshots", "close"} =>
        /\ mode.apply /\ gate = "attributed"
        /\ Read(GitFacts)
        /\ mode.checkProcesses => Read({"attributed"})
    /\ pc = "close" => round = "verify"
    /\ pc = "snapshots" => round # "confirm"
    /\ pc = "snapshots" /\ round # "verify" => evidence["attributed"] = "none"

\* In the last round a session already snapshot either has nothing to do with the
\* candidate or ends the attempt, so the final gate runs only when none has.
SessionProgress ==
    /\ pc = "snapshots" /\ round = "last" =>
        \A s \in Sessions \ todo :
            quiet[s] # "none" \/ coord.workspaces # {} \/ veto # "none"
    /\ gate = "final" /\ pc # "done" => \A s \in Sessions : quiet[s] # "none"
    /\ gate = "final" => pc \in {"inventory", "path", "status", "users", "remove", "done"}

Progress == GateProgress /\ RemovalPermitted /\ RetirementPermitted /\ SessionProgress

EvidenceInv == TypeInv /\ HerdrConsistent /\ StillTrue /\ Progress

\* What a fact is about: Git, the disk, the processes, and what lop knows of them.
LEMMA FactsStable ==
    ASSUME UNCHANGED <<worldVars, coord>>
    PROVE  \A f : Holds(f)' = Holds(f)
BY DEF Holds, Users, Matches, worldVars

\* A step that leaves Herdr alone leaves alone what lop could see of it.
LEMMA SessionsStable ==
    ASSUME UNCHANGED herdrVars
    PROVE  /\ \A s : Uninvolved(s)' = Uninvolved(s)
           /\ HerdrConsistent' = HerdrConsistent
BY DEF herdrVars, Uninvolved, Concerned, PanesOf, PanesIn, WorkspacesOf, Matches, HerdrConsistent

\* A session that is not running holds nothing.
LEMMA StoppedUninvolved ==
    ASSUME HerdrConsistent, NEW s, s \notin running, open \subseteq Workspaces
    PROVE  Uninvolved(s)
<1>1. WorkspacesOf(s) = {}
    BY DEF HerdrConsistent, WorkspacesOf
<1>. QED
    BY <1>1 DEF Uninvolved, Concerned, PanesOf

\* What evaluate_snapshot calls clear: either nothing in the session has to do with the
\* candidate, or there is a workspace to clean up.
LEMMA ClearSnapshot ==
    ASSUME NEW s, "clear" \in SnapshotVerdicts(s)
    PROVE  Uninvolved(s) \/ CleanupWorkspaces(s) # {}
<1>1. ValidCandidateWorkspaces(s) /\ NoisyPanes(s) = {}
    BY DEF SnapshotVerdicts, PaneVerdict
<1>2. CASE Concerned(s) = {}
    BY <1>1, <1>2 DEF NoisyPanes, Uninvolved
<1>3. CASE Concerned(s) # {}
    <2>1. PICK w \in WorkspacesOf(s) : w \in Concerned(s)
        BY <1>3 DEF Concerned
    <2>2. ExclusivelyMapped(w)
        BY <1>1, <2>1 DEF ValidCandidateWorkspaces
    <2>. QED
        BY <2>1, <2>2 DEF CleanupWorkspaces
<1>. QED
    BY <1>2, <1>3

\* A step that ages the evidence leaves only true evidence held, and forgets none.
LEMMA AgedTrue ==
    ASSUME Age
    PROVE  /\ StillTrue'
           /\ \A f \in Facts : evidence'[f] # "none" <=> evidence[f] # "none"
           /\ \A s \in Sessions : quiet[s] # "none" => quiet'[s] # "none"
BY DEF Age, StillTrue

\* A refusal ends the candidate: nothing is permitted any more.
LEMMA RefusedSafe ==
    ASSUME NEW why, NEW op, Refuse(why, op)
    PROVE  Progress'
BY DEF Refuse, Progress, GateProgress, RemovalPermitted, RetirementPermitted, SessionProgress

\* A gate that has read everything permits what follows it.
LEMMA PassedGate ==
    ASSUME TypeInv, Progress, PassGate, Read(GitFacts)', UNCHANGED <<mode, coord, quiet>>,
           mode.checkProcesses /\ gate # "initial" => evidence'[ProcessFact] # "none",
           pc \in {"status", "users"}
    PROVE  Progress'
<1>1. gate' = gate
    BY DEF PassGate, Goto
<1>2. CASE gate = "initial" \/ (gate = "attributed" /\ ~mode.apply)
    BY <1>1, <1>2 DEF PassGate, Goto, Progress, GateProgress, RemovalPermitted,
        RetirementPermitted, SessionProgress
<1>3. CASE gate \in {"unherded", "final"}
    <2>1. pc' = IF mode.apply THEN "remove" ELSE "done"
        BY <1>3 DEF PassGate
    <2>2. mode.checkProcesses => Read({"unused"})'
        BY <1>3 DEF ProcessFact, Read
    <2>. QED
        BY <1>1, <1>3, <2>1, <2>2 DEF Progress, GateProgress, RemovalPermitted,
            RetirementPermitted, SessionProgress, Read
<1>4. CASE gate = "attributed" /\ mode.apply
    <2>1. pc' = "sessions" /\ round' \in {"verify", "last"}
        BY <1>4 DEF PassGate, Goto
    <2>2. mode.checkProcesses => Read({"attributed"})'
        BY <1>4 DEF ProcessFact, Read
    <2>. QED
        BY <1>1, <1>4, <2>1, <2>2 DEF Progress, GateProgress, RemovalPermitted,
            RetirementPermitted, SessionProgress, Read
<1>. QED
    BY <1>2, <1>3, <1>4 DEF PassGate

\* Nothing is read and nothing vouched for when the candidate is taken up.
LEMMA InitEvidence == Init => EvidenceInv
<1>. SUFFICES ASSUME Init
              PROVE  EvidenceInv
    OBVIOUS
<1>1. StillTrue
    BY DEF Init, StillTrue
<1>2. Progress
    <2>1. pc = "inventory" /\ gate = "initial" /\ round = "first"
        BY Zenon DEF Init
    <2>. QED
        BY <2>1 DEF Progress, GateProgress, RemovalPermitted, RetirementPermitted, SessionProgress
<1>. QED
    BY <1>1, <1>2, InitTyped DEF Init, EvidenceInv

\* What a gate read is still true, and what it established before it still stands.
LEMMA VouchedTrue ==
    ASSUME NEW F, TypeInv, StillTrue, Vouch(F), \A f \in F : Holds(f),
           UNCHANGED <<worldVars, coord, quiet>>
    PROVE  /\ StillTrue'
           /\ \A f \in Facts : f \in F \/ evidence[f] # "none" => evidence'[f] # "none"
<1>1. \A f : Holds(f)' = Holds(f)
    BY FactsStable
<1>2. \A s : Uninvolved(s)' = Uninvolved(s)
    BY SessionsStable DEF worldVars, herdrVars
<1>. QED
    BY <1>1, <1>2 DEF StillTrue, Vouch

\* A step that reads nothing and changes nothing leaves the evidence as true as it was.
LEMMA UnreadTrue ==
    ASSUME StillTrue, UNCHANGED <<worldVars, coord, evidence, quiet>>
    PROVE  StillTrue'
<1>1. \A f : Holds(f)' = Holds(f)
    BY FactsStable
<1>2. \A s : Uninvolved(s)' = Uninvolved(s)
    BY SessionsStable DEF worldVars, herdrVars
<1>. QED
    BY <1>1, <1>2 DEF StillTrue

\* The Git facts hold as the candidate has them.
LEMMA GitFactsHold == \A f \in GitFacts : Holds(f) = facts[f]
BY DEF Holds, GitFacts, InventoryFacts, PathFacts, StatusFacts

\* The steps of the safety gate establish what they read.
LEMMA GateStepEvidence ==
    ASSUME EvidenceInv, ReadInventory \/ ResolvePath \/ ReadStatus \/ ReadUsers
    PROVE  StillTrue' /\ Progress'
<1>. USE DEF EvidenceInv
<1>0. UNCHANGED <<worldVars, mode, todo, coord, quiet>>
    BY DEF ReadInventory, ResolvePath, ReadStatus, ReadUsers
<1>1. CASE \E why, op : Refuse(why, op) /\ UNCHANGED evidence
    BY <1>0, <1>1, RefusedSafe, UnreadTrue
<1>2. CASE /\ pc = "inventory" /\ \A f \in InventoryFacts : facts[f]
           /\ Vouch(InventoryFacts) /\ Goto("path", gate, round)
    <2>1. \A f \in InventoryFacts : Holds(f)
        BY <1>2, GitFactsHold DEF GitFacts
    <2>2. /\ StillTrue'
          /\ \A f \in InventoryFacts : evidence'[f] # "none"
        BY <1>0, <1>2, <2>1, VouchedTrue DEF Facts, GitFacts
    <2>. QED
        BY <1>0, <1>2, <2>2 DEF Goto, Progress, GateProgress, RemovalPermitted,
            RetirementPermitted, SessionProgress, Read
<1>3. CASE /\ pc = "path" /\ \A f \in PathFacts : facts[f]
           /\ Vouch(PathFacts) /\ Goto("status", gate, round)
    <2>1. \A f \in PathFacts : Holds(f)
        BY <1>3, GitFactsHold DEF GitFacts
    <2>2. Read(InventoryFacts)
        BY <1>3 DEF Progress, GateProgress
    <2>3. /\ StillTrue'
          /\ \A f \in InventoryFacts \cup PathFacts : evidence'[f] # "none"
        BY <1>0, <1>3, <2>1, <2>2, VouchedTrue DEF Facts, GitFacts, Read
    <2>. QED
        BY <1>0, <1>3, <2>3 DEF Goto, Progress, GateProgress, RemovalPermitted,
            RetirementPermitted, SessionProgress, Read
<1>4. CASE /\ pc = "status" /\ Vouch(StatusFacts) /\ (\A f \in StatusFacts : facts[f])
           /\ \/ Goto("users", gate, round)
              \/ ~(mode.checkProcesses /\ gate # "initial") /\ PassGate
    <2>1. \A f \in StatusFacts : Holds(f)
        BY <1>4, GitFactsHold DEF GitFacts
    <2>2. Read(InventoryFacts \cup PathFacts)
        BY <1>4 DEF Progress, GateProgress
    <2>3. StillTrue' /\ Read(GitFacts)'
        <3>1. /\ StillTrue'
              /\ \A f \in Facts : f \in StatusFacts \/ evidence[f] # "none" => evidence'[f] # "none"
            BY <1>0, <1>4, <2>1, VouchedTrue
        <3>. QED
            BY <2>2, <3>1 DEF Facts, GitFacts, Read
    <2>4. CASE Goto("users", gate, round)
        BY <1>0, <1>4, <2>3, <2>4 DEF Goto, Progress, GateProgress, RemovalPermitted,
            RetirementPermitted, SessionProgress
    <2>5. CASE ~(mode.checkProcesses /\ gate # "initial") /\ PassGate
        BY <1>0, <1>4, <2>3, <2>5, PassedGate
    <2>. QED
        BY <1>4, <2>3, <2>4, <2>5
<1>5. CASE /\ pc = "users" /\ Users \subseteq Ignored /\ Vouch({ProcessFact}) /\ PassGate
    <2>1. Holds(ProcessFact) /\ ProcessFact \in Facts
        BY <1>5 DEF ProcessFact, Ignored, Holds, Facts
    <2>2. Read(GitFacts)
        BY <1>5 DEF Progress, GateProgress
    <2>3. StillTrue' /\ Read(GitFacts)' /\ evidence'[ProcessFact] # "none"
        BY <1>0, <1>5, <2>1, <2>2, VouchedTrue DEF Facts, Read
    <2>. QED
        BY <1>0, <1>5, <2>3, PassedGate
<1>. QED
    <2>1. CASE ReadInventory
        BY <1>1, <1>2, <2>1 DEF ReadInventory, InspectionFails, RefuseFirst
    <2>2. CASE ResolvePath
        BY <1>1, <1>3, <2>2 DEF ResolvePath, RefuseFirst
    <2>3. CASE ReadStatus
        BY <1>1, <1>4, <2>3 DEF ReadStatus, InspectionFails, RefuseFirst
    <2>4. CASE ReadUsers
        BY <1>1, <1>5, <2>4 DEF ReadUsers, InspectionFails
    <2>. QED
        BY <2>1, <2>2, <2>3, <2>4

\* Where lop starts over, no evidence is left but that of sessions that are not running.
LEMMA ForgottenTrue ==
    ASSUME HerdrConsistent, open \subseteq Workspaces, ForgetEvidence, UNCHANGED herdrVars
    PROVE  StillTrue'
<1>1. \A s : Uninvolved(s)' = Uninvolved(s)
    BY SessionsStable
<1>2. \A f \in Facts : evidence'[f] # "held"
    BY DEF ForgetEvidence
<1>3. \A s \in Sessions : quiet'[s] = "held" => Uninvolved(s)
    BY StoppedUninvolved DEF ForgetEvidence
<1>. QED
    BY <1>1, <1>2, <1>3 DEF StillTrue

\* Listing the sessions keeps the invariant.
LEMMA ListSessionsEvidence ==
    ASSUME EvidenceInv, ListSessions
    PROVE  StillTrue' /\ Progress'
<1>. USE DEF EvidenceInv
<1>0. pc = "sessions" /\ UNCHANGED <<worldVars, mode>> /\ running \subseteq Sessions
    BY DEF ListSessions, TypeInv, TypeOK, HerdrTypeOK
<1>1. CASE round \in {"first", "last"}
    <2>1. ForgetEvidence
        BY <1>1 DEF ListSessions
    <2>2. StillTrue'
        BY <1>0, <2>1, ForgottenTrue DEF worldVars, herdrVars, TypeInv, TypeOK, HerdrTypeOK
    <2>3. CASE \E why, op : Refuse(why, op)
        BY <2>2, <2>3, RefusedSafe
    <2>4. CASE Goto("inventory", "unherded", round)
        BY <2>2, <2>4 DEF Goto, Progress, GateProgress, RemovalPermitted, RetirementPermitted,
            SessionProgress
    <2>5. CASE todo' = running /\ Goto("snapshots", gate, round)
        <3>1. evidence'["attributed"] = "none" /\ \A s \in Sessions \ running : quiet'[s] # "none"
            BY <2>1 DEF ForgetEvidence, Facts
        <3>2. gate' # "final"
            BY <1>0, <2>5 DEF Goto, Progress, SessionProgress
        <3>. QED
            BY <1>1, <2>2, <2>5, <3>1, <3>2 DEF Goto, Progress, GateProgress, RemovalPermitted,
                RetirementPermitted, SessionProgress
    <2>. QED
        BY <1>1, <2>3, <2>4, <2>5 DEF ListSessions, SessionListFails, SessionsListed
<1>2. CASE round \notin {"first", "last"}
    <2>1. UNCHANGED <<evidence, quiet>>
        BY <1>2 DEF ListSessions
    <2>2. UNCHANGED coord
        BY <1>2 DEF ListSessions, SessionListFails, SessionsListed
    <2>3. StillTrue'
        BY <1>0, <2>1, <2>2, UnreadTrue
    <2>4. gate # "final"
        BY <1>0 DEF Progress, SessionProgress
    <2>5. CASE \E why, op : Refuse(why, op)
        BY <2>3, <2>5, RefusedSafe
    <2>6. CASE round = "verify" /\ Goto("snapshots", gate, round)
        BY <1>0, <2>1, <2>3, <2>4, <2>6 DEF Goto, Progress, GateProgress, RemovalPermitted,
            RetirementPermitted, SessionProgress, Read
    <2>7. CASE Goto("sessions", gate, "last")
        BY <2>3, <2>4, <2>7 DEF Goto, Progress, GateProgress, RemovalPermitted,
            RetirementPermitted, SessionProgress
    <2>. QED
        BY <1>2, <2>5, <2>6, <2>7 DEF ListSessions, SessionListFails, SessionsListed
<1>. QED
    BY <1>1, <1>2

\* Reading a session's snapshot keeps the invariant.
LEMMA SnapshotEvidence ==
    ASSUME EvidenceInv, NEW s \in Sessions, SnapshotSession(s)
    PROVE  StillTrue' /\ Progress'
<1>. USE DEF EvidenceInv
<1>0. /\ pc = "snapshots" /\ s \in todo
      /\ UNCHANGED <<worldVars, mode, evidence>>
      /\ gate # "final" /\ round # "confirm"
    BY DEF SnapshotSession, Progress, SessionProgress, RetirementPermitted
<1>1. \A r \in Sessions : Uninvolved(r)' = Uninvolved(r)
    BY <1>0, SessionsStable DEF worldVars, herdrVars
<1>2. CASE (\E why, op : Refuse(why, op)) /\ UNCHANGED <<coord, quiet>>
    BY <1>0, <1>2, RefusedSafe, UnreadTrue
<1>3. CASE VerifySnapshot(s) /\ round = "verify" /\ UNCHANGED <<pc, gate, round>>
    <2>1. UNCHANGED <<coord, quiet>>
        BY <1>3 DEF VerifySnapshot
    <2>2. StillTrue'
        BY <1>0, <2>1, UnreadTrue
    <2>. QED
        BY <1>0, <1>3, <2>2 DEF Progress, GateProgress, RemovalPermitted, RetirementPermitted,
            SessionProgress, Read
<1>4. CASE /\ \E v \in {"active", "focused"} : veto' = MergeVeto(v)
           /\ todo' = todo \ {s} /\ UNCHANGED <<coord, quiet, pc, gate, round>>
    <2>1. StillTrue'
        BY <1>0, <1>4, UnreadTrue
    <2>2. veto' # "none"
        BY <1>4 DEF MergeVeto
    <2>. QED
        BY <1>0, <1>4, <2>1, <2>2 DEF Progress, GateProgress, RemovalPermitted,
            RetirementPermitted, SessionProgress, Read
<1>5. CASE /\ round # "verify" /\ "clear" \in SnapshotVerdicts(s)
           /\ coord' = MergeCoordination(s) /\ todo' = todo \ {s}
           /\ quiet' = [quiet EXCEPT ![s] = IF Uninvolved(s) THEN "held" ELSE @]
           /\ UNCHANGED <<veto, pc, gate, round>>
    <2>1. coord \in Coordinations /\ quiet \in [Sessions -> Vouchers]
        BY DEF TypeInv, TypeOK
    <2>2. /\ coord'.processes = coord.processes
          /\ coord'.workspaces = coord.workspaces \cup CleanupWorkspaces(s)
        BY <1>5, <2>1 DEF MergeCoordination, Coordinations
    <2>3. \A f \in Facts : Holds(f)' = Holds(f)
        BY <1>0, <2>2 DEF Holds, Users, Matches, worldVars
    <2>4. StillTrue'
        BY <1>0, <1>1, <1>5, <2>1, <2>3 DEF StillTrue
    <2>5. quiet'[s] # "none" \/ coord'.workspaces # {}
        BY <1>5, <2>1, <2>2, ClearSnapshot
    <2>6. \A r \in Sessions : quiet[r] # "none" => quiet'[r] # "none"
        BY <1>5, <2>1
    <2>. QED
        BY <1>0, <1>5, <2>2, <2>4, <2>5, <2>6 DEF Progress, GateProgress, RemovalPermitted,
            RetirementPermitted, SessionProgress, Read
<1>. QED
    <2>1. CASE SnapshotFails
        BY <1>2, <2>1 DEF SnapshotFails
    <2>2. CASE VerifySnapshot(s) /\ round = "verify"
        BY <1>2, <1>3, <2>2 DEF VerifySnapshot
    <2>3. CASE EvaluateSnapshot(s) /\ round # "verify"
        BY <1>2, <1>4, <1>5, <2>3 DEF EvaluateSnapshot
    <2>. QED
        BY <2>1, <2>2, <2>3 DEF SnapshotSession

\* Attributing processes to idle panes keeps the invariant.
LEMMA AttributeEvidence ==
    ASSUME EvidenceInv, AttributeProcesses
    PROVE  StillTrue' /\ Progress'
<1>. USE DEF EvidenceInv
<1>0. /\ pc = "snapshots" /\ todo = {} /\ round # "verify"
      /\ UNCHANGED <<worldVars, mode, veto, evidence, quiet>>
    BY DEF AttributeProcesses, ghostVars
<1>1. evidence["attributed"] = "none"
    BY <1>0 DEF Progress, RetirementPermitted
<1>2. StillTrue'
    <2>1. \A f \in Facts \ {"attributed"} : Holds(f)' = Holds(f)
        BY <1>0 DEF Holds, Users, Matches, worldVars
    <2>2. \A s : Uninvolved(s)' = Uninvolved(s)
        BY <1>0, SessionsStable DEF worldVars, herdrVars
    <2>. QED
        BY <1>0, <1>1, <2>1, <2>2 DEF StillTrue
<1>3. CASE \E why, op : Refuse(why, op)
    BY <1>2, <1>3, RefusedSafe
<1>4. CASE Goto("inventory", "attributed", round)
    BY <1>2, <1>4 DEF Goto, Progress, GateProgress, RemovalPermitted, RetirementPermitted,
        SessionProgress
<1>5. CASE veto = "none" /\ round = "last" /\ coord.workspaces = {} /\ Goto("inventory", "final", round)
    <2>1. \A s \in Sessions : quiet'[s] # "none"
        BY <1>0, <1>5 DEF Progress, SessionProgress
    <2>. QED
        BY <1>2, <1>5, <2>1 DEF Goto, Progress, GateProgress, RemovalPermitted,
            RetirementPermitted, SessionProgress
<1>. QED
    BY <1>3, <1>4, <1>5 DEF AttributeProcesses

\* Retirement keeps the invariant: the evidence it destroys is read again.
LEMMA RetireEvidence ==
    ASSUME EvidenceInv, StartRetiring \/ \E w \in Workspaces : CloseWorkspace(w)
    PROVE  StillTrue' /\ Progress'
<1>. USE DEF EvidenceInv
<1>1. CASE StartRetiring
    <2>1. StillTrue'
        BY <1>1, UnreadTrue DEF StartRetiring, ghostVars
    <2>. QED
        BY <1>1, <2>1 DEF StartRetiring, ghostVars, Goto, Progress, GateProgress,
            RemovalPermitted, RetirementPermitted, SessionProgress, Read
<1>2. CASE \E w \in Workspaces : CloseWorkspace(w)
    <2>1. pc = "close" /\ Age /\ UNCHANGED mode
        BY <1>2 DEF CloseWorkspace
    <2>2. \/ UNCHANGED <<pc, gate, round>>
          \/ Goto("sessions", gate, "confirm")
        BY <1>2 DEF CloseWorkspace
    <2>3. gate # "final"
        BY <2>1 DEF Progress, SessionProgress
    <2>. QED
        BY <2>1, <2>2, <2>3, AgedTrue DEF Goto, Progress, GateProgress, RemovalPermitted,
            RetirementPermitted, SessionProgress, Read, Facts
<1>. QED
    BY <1>1, <1>2

\* The removal keeps the invariant.
LEMMA RemoveEvidence ==
    ASSUME EvidenceInv, RemoveWorktree
    PROVE  StillTrue' /\ Progress'
<1>1. StillTrue'
    BY AgedTrue DEF RemoveWorktree
<1>2. pc' = "done"
    BY DEF RemoveWorktree, DecideRemoval, Refuse
<1>. QED
    BY <1>1, <1>2 DEF Progress, GateProgress, RemovalPermitted, RetirementPermitted,
        SessionProgress

\* Other actors keep the invariant: what they change after it was read is raced.
LEMMA OthersEvidence ==
    ASSUME EvidenceInv, OthersAct
    PROVE  StillTrue' /\ Progress'
<1>1. Age /\ UNCHANGED <<mode, pc, gate, round, todo, coord, veto>>
    BY DEF OthersAct, lopVars
<1>2. GateProgress' /\ RemovalPermitted'
    BY <1>1, AgedTrue DEF EvidenceInv, Progress, GateProgress, RemovalPermitted, Read, Facts,
        GitFacts
<1>3. RetirementPermitted'
    BY <1>1, AgedTrue DEF EvidenceInv, Progress, RetirementPermitted, Read, Facts
<1>4. SessionProgress'
    BY <1>1, AgedTrue DEF EvidenceInv, Progress, SessionProgress
<1>. QED
    BY <1>1, <1>2, <1>3, <1>4, AgedTrue DEF Progress

\* Every step keeps Herdr consistent.
LEMMA StepConsistent ==
    ASSUME TypeInv, HerdrConsistent, Next
    PROVE  HerdrConsistent'
<1>0. HerdrTypeOK
    BY DEF TypeInv, TypeOK
<1>1. CASE UNCHANGED herdrVars
    BY <1>1, SessionsStable
<1>2. CASE \E w \in Workspaces : CloseWorkspace(w)
    BY <1>0, <1>1, <1>2, WithoutConsistent DEF CloseWorkspace, herdrVars
<1>3. CASE OthersAct
    BY <1>0, <1>1, <1>3, HerdrUserStepConsistent DEF OthersAct, GitChanges, StrangerMoves
<1>4. CASE \E s \in Sessions : SnapshotSession(s)
    BY <1>1, <1>4 DEF SnapshotSession, worldVars, herdrVars
<1>. QED
    BY <1>1, <1>2, <1>3, <1>4 DEF Next, LopStep, Finished, vars, ReadInventory, ResolvePath,
        ReadStatus, ReadUsers, ListSessions, AttributeProcesses, StartRetiring, RemoveWorktree,
        worldVars, herdrVars

\* Every step keeps the invariant.
LEMMA StepEvidence == EvidenceInv /\ [Next]_vars => EvidenceInv'
<1>. SUFFICES ASSUME EvidenceInv, [Next]_vars
              PROVE  EvidenceInv'
    OBVIOUS
<1>1. TypeInv'
    BY StepTyped DEF EvidenceInv
<1>2. CASE Finished \/ UNCHANGED vars
    <2>1. StillTrue'
        BY <1>2, UnreadTrue DEF EvidenceInv, Finished, vars, worldVars
    <2>2. HerdrConsistent'
        BY <1>2, SessionsStable DEF EvidenceInv, Finished, vars, herdrVars
    <2>3. Progress'
        BY <1>2 DEF EvidenceInv, Finished, vars, Progress, GateProgress, RemovalPermitted,
            RetirementPermitted, SessionProgress, Read
    <2>. QED
        BY <1>1, <2>1, <2>2, <2>3 DEF EvidenceInv
<1>3. CASE LopStep \/ OthersAct
    <2>1. HerdrConsistent'
        BY <1>3, StepConsistent DEF EvidenceInv, Next
    <2>2. StillTrue' /\ Progress'
        BY <1>3, GateStepEvidence, ListSessionsEvidence, SnapshotEvidence, AttributeEvidence,
           RetireEvidence, RemoveEvidence, OthersEvidence
           DEF LopStep
    <2>. QED
        BY <1>1, <2>1, <2>2 DEF EvidenceInv
<1>. QED
    BY <1>2, <1>3 DEF Next

\* What lop has read, and may rely on, at every step of the pipeline.
LEMMA EvidenceInvariant == Spec => []EvidenceInv
BY InitEvidence, StepEvidence, PTL DEF Spec

\* Nothing is handed to `wt remove` on evidence that was missing, or that lop itself spoilt.
THEOREM RemovalSound == Spec => []RemovalNeedsEvidence
<1>1. EvidenceInv => RemovalNeedsEvidence
    <2>. SUFFICES ASSUME EvidenceInv, pc = "remove"
                  PROVE  RemovalNeedsEvidence
        BY DEF RemovalNeedsEvidence
    <2>1. /\ evidence \in [Facts -> Vouchers] /\ quiet \in [Sessions -> Vouchers]
          /\ gate \in {"unherded", "final"}
        BY DEF EvidenceInv, TypeInv, TypeOK, Progress, RemovalPermitted
    <2>2. \A f \in Facts : evidence[f] # "none" => Vouched(f)
        BY <2>1 DEF EvidenceInv, StillTrue, Vouched
    <2>3. \A s \in Sessions : quiet[s] # "none" => SessionVouched(s)
        BY <2>1 DEF EvidenceInv, StillTrue, SessionVouched
    <2>. QED
        BY <2>1, <2>2, <2>3 DEF RemovalNeedsEvidence, EvidenceInv, Progress, RemovalPermitted,
            SessionProgress, Read, Facts
<1>. QED
    BY <1>1, EvidenceInvariant, PTL

\* No Herdr workspace is closed for a candidate the whole gate has not passed.
THEOREM RetirementSound == Spec => []RetirementNeedsEvidence
<1>1. EvidenceInv => RetirementNeedsEvidence
    <2>. SUFFICES ASSUME EvidenceInv, pc = "close"
                  PROVE  RetirementNeedsEvidence
        BY DEF RetirementNeedsEvidence
    <2>1. evidence \in [Facts -> Vouchers]
        BY DEF EvidenceInv, TypeInv, TypeOK
    <2>2. \A f \in Facts : evidence[f] # "none" => Vouched(f)
        BY <2>1 DEF EvidenceInv, StillTrue, Vouched
    <2>. QED
        BY <2>2 DEF RetirementNeedsEvidence, EvidenceInv, Progress, RetirementPermitted, Read,
            Facts
<1>. QED
    BY <1>1, EvidenceInvariant, PTL

----------------------------------------------------------------------------
(***************************************************************************)
(* The decision.  An undecided candidate has lost nothing, and a failed    *)
(* close leads nowhere but to an operational failure.                      *)
(***************************************************************************)

\* Until the decision nothing is removed; it tells the truth about the tree.
Truthful ==
    /\ pc # "done" => outcome = "candidate" /\ tree = "present"
    /\ outcome = "removed" => tree = "removed"
    /\ tree = "removed" /\ outcome # "removed" => opfail = 1
    /\ pc = "done" /\ mode.apply => outcome # "candidate"

\* After a failed close lop closes what is left, compares the sessions, and refuses.
FailureEnds ==
    failed =>
        /\ tree = "present"
        /\ \/ pc = "close"
           \/ pc = "sessions" /\ round = "confirm"
           \/ pc = "done" /\ opfail = 1

\* Only --yes closes workspaces.
RetiredByApply == retired # {} => mode.apply

DecisionInv == Truthful /\ FailureEnds /\ RetiredByApply

\* A refusal counted as an operational failure is honest about anything.
LEMMA RefusedDecision ==
    ASSUME EvidenceInv, DecisionInv, pc # "done", NEW why, NEW op \in BOOLEAN, Refuse(why, op),
           UNCHANGED <<mode, failed, tree, retired>>, failed => op
    PROVE  DecisionInv'
<1>1. opfail = 0
    BY DEF EvidenceInv, TypeInv, Undecided
<1>2. pc' = "done" /\ outcome' = "refused" /\ (op => opfail' = 1)
    BY <1>1 DEF Refuse
<1>3. tree = "present"
    BY DEF DecisionInv, Truthful
<1>. QED
    BY <1>2, <1>3 DEF DecisionInv, Truthful, FailureEnds, RetiredByApply

\* A step that decides nothing and fails nothing changes none of it.
LEMMA UndecidedDecision ==
    ASSUME DecisionInv, pc # "done", pc' # "done", UNCHANGED <<outcome, mode, failed, tree, retired>>,
           ~failed
    PROVE  DecisionInv'
BY DEF DecisionInv, Truthful, FailureEnds, RetiredByApply

\* Before a failure can have happened, passing the gate decides only previews.
LEMMA PassedDecision ==
    ASSUME DecisionInv, pc # "done", PassGate, UNCHANGED <<outcome, mode, failed, tree, retired>>,
           ~failed
    PROVE  DecisionInv'
<1>1. pc' = "done" => ~mode.apply
    BY DEF PassGate, Goto
<1>2. outcome = "candidate" /\ tree = "present"
    BY DEF DecisionInv, Truthful
<1>. QED
    BY <1>1, <1>2 DEF DecisionInv, Truthful, FailureEnds, RetiredByApply

\* The invariant holds when the candidate is taken up.
LEMMA InitDecision == Init => DecisionInv
<1>. SUFFICES ASSUME Init
              PROVE  DecisionInv
    OBVIOUS
<1>1. /\ pc = "inventory" /\ outcome = "candidate" /\ tree = "present" /\ retired = {}
      /\ failed = FALSE
    BY Zenon DEF Init
<1>. QED
    BY <1>1 DEF DecisionInv, Truthful, FailureEnds, RetiredByApply

\* Every command and every change by others keeps it.
LEMMA StepDecision == EvidenceInv /\ DecisionInv /\ [Next]_vars => DecisionInv'
<1>. SUFFICES ASSUME EvidenceInv, DecisionInv, [Next]_vars
              PROVE  DecisionInv'
    OBVIOUS
<1>1. CASE ReadInventory \/ ResolvePath
    <2>1. ~failed /\ pc # "done" /\ UNCHANGED <<mode, failed, tree, retired>>
        BY <1>1 DEF ReadInventory, ResolvePath, DecisionInv, FailureEnds
    <2>2. \/ \E why : \E op \in BOOLEAN : Refuse(why, op)
          \/ pc' # "done" /\ UNCHANGED outcome
        BY <1>1 DEF ReadInventory, ResolvePath, InspectionFails, RefuseFirst, Goto
    <2>. QED
        BY <2>1, <2>2, RefusedDecision, UndecidedDecision
<1>2. CASE ReadStatus \/ ReadUsers
    <2>1. ~failed /\ pc # "done" /\ UNCHANGED <<mode, failed, tree, retired>>
        BY <1>2 DEF ReadStatus, ReadUsers, DecisionInv, FailureEnds
    <2>2. \/ \E why : \E op \in BOOLEAN : Refuse(why, op)
          \/ pc' # "done" /\ UNCHANGED outcome
          \/ PassGate /\ UNCHANGED outcome
        BY <1>2 DEF ReadStatus, ReadUsers, InspectionFails, RefuseFirst, Goto
    <2>. QED
        BY <2>1, <2>2, RefusedDecision, UndecidedDecision, PassedDecision
<1>3. CASE ListSessions
    <2>1. pc = "sessions" /\ UNCHANGED <<mode, failed, tree, retired>>
        BY <1>3 DEF ListSessions
    <2>2. failed => round = "confirm"
        BY <2>1 DEF DecisionInv, FailureEnds
    <2>3. \/ \E why : Refuse(why, TRUE)
          \/ round # "confirm" /\ pc' # "done" /\ UNCHANGED outcome
          \/ ~failed /\ pc' # "done" /\ UNCHANGED outcome
        BY <1>3 DEF ListSessions, SessionListFails, SessionsListed, Goto
    <2>. QED
        BY <2>1, <2>2, <2>3, RefusedDecision, UndecidedDecision
<1>4. CASE \E s \in Sessions : SnapshotSession(s)
    <2>. PICK s \in Sessions : SnapshotSession(s)
        BY <1>4
    <2>1. ~failed /\ pc = "snapshots" /\ UNCHANGED <<mode, failed, tree, retired>>
        BY DEF SnapshotSession, DecisionInv, FailureEnds
    <2>2. \/ \E why : Refuse(why, TRUE)
          \/ pc' = pc /\ UNCHANGED outcome
        BY DEF SnapshotSession, SnapshotFails, VerifySnapshot, EvaluateSnapshot
    <2>. QED
        BY <2>1, <2>2, RefusedDecision, UndecidedDecision
<1>5. CASE AttributeProcesses \/ StartRetiring
    <2>1. ~failed /\ pc = "snapshots" /\ UNCHANGED <<mode, failed, tree, retired>>
        BY <1>5 DEF AttributeProcesses, StartRetiring, ghostVars, DecisionInv, FailureEnds
    <2>2. \/ \E why : \E op \in BOOLEAN : Refuse(why, op)
          \/ pc' # "done" /\ UNCHANGED outcome
        BY <1>5 DEF AttributeProcesses, StartRetiring, Goto
    <2>. QED
        BY <2>1, <2>2, RefusedDecision, UndecidedDecision
<1>6. CASE \E w \in Workspaces : CloseWorkspace(w)
    <2>. PICK w \in Workspaces : CloseWorkspace(w)
        BY <1>6
    <2>1. pc = "close" /\ UNCHANGED <<mode, outcome, tree>>
        BY DEF CloseWorkspace
    <2>2. pc' = "close" \/ (pc' = "sessions" /\ round' = "confirm")
        BY <2>1 DEF CloseWorkspace, Goto
    <2>3. mode.apply
        BY <2>1 DEF EvidenceInv, Progress, RetirementPermitted
    <2>. QED
        BY <2>1, <2>2, <2>3 DEF DecisionInv, Truthful, FailureEnds, RetiredByApply
<1>7. CASE RemoveWorktree
    <2>1. ~failed /\ pc = "remove" /\ UNCHANGED <<mode, failed, retired>> /\ opfail = 0
          /\ tree = "present"
        BY <1>7 DEF RemoveWorktree, DecisionInv, FailureEnds, Truthful, EvidenceInv, TypeInv,
            Undecided
    <2>2. PICK answer \in Answers, gone \in BOOLEAN :
              /\ answer \in BranchOutcomes \cup {"Deferred"} => gone
              /\ DecideRemoval(answer)
              /\ IF gone THEN tree' = "removed" ELSE UNCHANGED tree
        BY <1>7, Zenon DEF RemoveWorktree
    <2>3. CASE answer \in BranchOutcomes
        <3>1. gone /\ tree' = "removed"
            BY <2>2, <2>3
        <3>2. pc' = "done" /\ outcome' = "removed"
            BY <2>2, <2>3 DEF DecideRemoval
        <3>. QED
            BY <2>1, <3>1, <3>2 DEF DecisionInv, Truthful, FailureEnds, RetiredByApply
    <2>4. CASE answer \notin BranchOutcomes
        <3>1. pc' = "done" /\ outcome' = "refused" /\ opfail' = 1
            BY <2>1, <2>2, <2>4 DEF DecideRemoval, Refuse
        <3>. QED
            BY <2>1, <3>1 DEF DecisionInv, Truthful, FailureEnds, RetiredByApply
    <2>. QED
        BY <2>3, <2>4
<1>8. CASE OthersAct \/ Finished \/ UNCHANGED vars
    <2>1. UNCHANGED <<pc, round, mode, outcome, opfail, failed, tree, retired>>
        BY <1>8 DEF OthersAct, Finished, vars, lopVars
    <2>. QED
        BY <2>1 DEF DecisionInv, Truthful, FailureEnds, RetiredByApply
<1>. QED
    BY <1>1, <1>2, <1>3, <1>4, <1>5, <1>6, <1>7, <1>8 DEF Next, LopStep

\* What is decided about a candidate, and what is not yet, is true of it.
LEMMA DecisionInvariant == Spec => []DecisionInv
BY InitDecision, StepDecision, EvidenceInvariant, PTL DEF Spec

\* The decision apply_removal and the refusals report is what happened to the worktree.
THEOREM OutcomeHonest == Spec => []HonestOutcome
<1>1. DecisionInv => HonestOutcome
    BY DEF DecisionInv, Truthful, FailureEnds, RetiredByApply, HonestOutcome
<1>. QED
    BY <1>1, DecisionInvariant, PTL

\* A failed close in retire_candidate protects the worktree for good.
THEOREM FailureProtects == Spec => []FailedRetirementKeepsTree
<1>1. DecisionInv => FailedRetirementKeepsTree
    BY DEF DecisionInv, FailureEnds, FailedRetirementKeepsTree
<1>. QED
    BY <1>1, DecisionInvariant, PTL

\* In preview no command lop runs has an effect.
THEOREM PreviewSafe == Spec => PreviewChangesNothing
<1>. DEFINE Harmless ==
        ~mode.apply /\ UNCHANGED changes => UNCHANGED <<worldVars, tree, retired>>
<1>1. EvidenceInv /\ [Next]_vars => [Harmless]_vars
    <2>. SUFFICES ASSUME EvidenceInv, Next, ~mode.apply, UNCHANGED changes
                  PROVE  UNCHANGED <<worldVars, tree, retired>>
        OBVIOUS
    <2>1. pc # "close" /\ pc # "remove"
        BY DEF EvidenceInv, Progress, RetirementPermitted, RemovalPermitted
    <2>2. ~OthersAct
        BY DEF OthersAct, EvidenceInv, TypeInv, TypeOK
    <2>3. CASE \E s \in Sessions : SnapshotSession(s)
        BY <2>3 DEF SnapshotSession
    <2>4. CASE Finished
        BY <2>4 DEF Finished, vars, worldVars
    <2>. QED
        BY <2>1, <2>2, <2>3, <2>4 DEF Next, LopStep, ReadInventory, ResolvePath, ReadStatus,
            ReadUsers, ListSessions, AttributeProcesses, StartRetiring, CloseWorkspace,
            RemoveWorktree, ghostVars
<1>. QED
    BY <1>1, EvidenceInvariant, PTL DEF Spec, PreviewChangesNothing

----------------------------------------------------------------------------
(***************************************************************************)
(* Verification.  RetiresOnlyVerified relates a close to the last snapshot *)
(* of its session: between the two nothing else is snapshot, and no        *)
(* session of a workspace to close has been left out.                      *)
(***************************************************************************)

Verified(w) == look[w].idle /\ look[w].panes \subseteq coord.panes

\* The coordination names workspaces of its own sessions only.
Accountable ==
    /\ \A w \in coord.workspaces : SessionOf[w] \in coord.sessions
    /\ pc = "snapshots" => todo \subseteq coord.sessions

\* What the verifying round has come to is verified, and all that is closed.
VerifiedSoFar ==
    /\ pc = "snapshots" /\ round = "verify" =>
        \A w \in coord.workspaces : SessionOf[w] \in todo \/ Verified(w)
    /\ pc = "close" => todo \subseteq coord.workspaces /\ \A w \in todo : Verified(w)

VerificationInv == Accountable /\ VerifiedSoFar

\* Wherever lop neither snapshots nor closes there is little to verify.
LEMMA Elsewhere ==
    ASSUME VerificationInv, UNCHANGED coord, pc' \notin {"snapshots", "close"}
    PROVE  VerificationInv'
BY DEF VerificationInv, Accountable, VerifiedSoFar

\* Nor when nothing it depends on changes.
LEMMA Unmoved ==
    ASSUME VerificationInv, UNCHANGED <<coord, todo, pc, round, look>>
    PROVE  VerificationInv'
BY DEF VerificationInv, Accountable, VerifiedSoFar, Verified

\* The gate snapshots and closes nothing.
LEMMA GateVerification ==
    ASSUME VerificationInv, ReadInventory \/ ResolvePath \/ ReadStatus \/ ReadUsers
    PROVE  VerificationInv'
<1>1. UNCHANGED coord
    BY DEF ReadInventory, ResolvePath, ReadStatus, ReadUsers
<1>2. \A why, op : Refuse(why, op) => pc' = "done"
    BY DEF Refuse
<1>3. PassGate => pc' \notin {"snapshots", "close"}
    BY DEF PassGate, Goto
<1>4. pc' \notin {"snapshots", "close"}
    BY <1>2, <1>3 DEF ReadInventory, ResolvePath, ReadStatus, ReadUsers, RefuseFirst,
        InspectionFails, Goto
<1>. QED
    BY <1>1, <1>4, Elsewhere

\* Listing the sessions starts a round with all of them ahead.
LEMMA ListSessionsVerification ==
    ASSUME VerificationInv, ListSessions
    PROVE  VerificationInv'
<1>1. CASE SessionListFails /\ UNCHANGED <<coord, veto, todo>>
    <2>1. pc' \notin {"snapshots", "close"}
        BY <1>1 DEF SessionListFails, Goto, Refuse
    <2>. QED
        BY <1>1, <2>1, Elsewhere
<1>2. CASE SessionsListed /\ round \in {"first", "last"}
    <2>1. /\ coord'.workspaces = {} /\ coord'.sessions = running /\ todo' = running
          /\ pc' = "snapshots"
        BY <1>2 DEF SessionsListed, NoCoordination, Goto
    <2>. QED
        BY <2>1 DEF VerificationInv, Accountable, VerifiedSoFar
<1>3. CASE SessionsListed /\ round = "verify" /\ pc' = "snapshots"
    <2>1. UNCHANGED coord /\ todo' = coord.sessions
        BY <1>3 DEF SessionsListed, Goto, Refuse
    <2>. QED
        BY <1>3, <2>1 DEF VerificationInv, Accountable, VerifiedSoFar
<1>4. CASE SessionsListed /\ round \notin {"first", "last"} /\ pc' # "snapshots"
    <2>1. UNCHANGED coord /\ pc' \notin {"snapshots", "close"}
        BY <1>4 DEF SessionsListed, Goto, Refuse
    <2>. QED
        BY <2>1, Elsewhere
<1>5. CASE SessionsListed /\ round = "confirm"
    <2>1. pc' # "snapshots"
        BY <1>5 DEF SessionsListed, Goto, Refuse
    <2>. QED
        BY <1>4, <1>5, <2>1
<1>. QED
    BY <1>1, <1>2, <1>3, <1>4, <1>5 DEF ListSessions, SessionsListed

\* A snapshot that verifies shows the workspaces of its session idle and with no new pane.
LEMMA SnapshotVerification ==
    ASSUME EvidenceInv, VerificationInv, NEW s \in Sessions, SnapshotSession(s)
    PROVE  VerificationInv'
<1>. pc = "snapshots" /\ s \in todo
    BY DEF SnapshotSession
<1>1. CASE SnapshotFails
    BY <1>1, Elsewhere DEF SnapshotFails, Refuse
<1>2. CASE VerifySnapshot(s) /\ Look(s) /\ round = "verify"
    <2>1. CASE Unchanged(s) /\ todo' = todo \ {s}
        <3>. UNCHANGED <<coord, pc, round>>
            BY <1>2, <2>1 DEF VerifySnapshot, Refuse
        <3>1. ASSUME NEW w \in coord.workspaces, SessionOf[w] = s
              PROVE  Verified(w)'
            <4>1. w \in Workspaces
                BY DEF EvidenceInv, TypeInv, TypeOK, Coordinations
            <4>2. PanesIn(w) \subseteq coord.panes /\ \A p \in PanesIn(w) : pane[p].act = "quiet"
                BY <2>1, <3>1 DEF Unchanged, StillIdle
            <4>3. /\ look'[w].panes = PanesIn(w)
                  /\ look'[w].idle = \A p \in PanesIn(w) : pane[p].act = "quiet"
                BY <1>2, <3>1, <4>1, Zenon DEF Look
            <4>. QED
                BY <4>2, <4>3 DEF Verified
        <3>2. ASSUME NEW w \in coord.workspaces, SessionOf[w] # s, Verified(w)
              PROVE  Verified(w)'
            <4>1. w \in Workspaces
                BY DEF EvidenceInv, TypeInv, TypeOK, Coordinations
            <4>2. look'[w] = look[w]
                BY <1>2, <3>2, <4>1, Zenon DEF Look
            <4>. QED
                BY <3>2, <4>2 DEF Verified
        <3>. QED
            BY <1>2, <2>1, <3>1, <3>2 DEF VerificationInv, Accountable, VerifiedSoFar
    <2>2. CASE ~Unchanged(s)
        BY <1>2, <2>2, Elsewhere DEF VerifySnapshot, Refuse
    <2>. QED
        BY <1>2, <2>1, <2>2 DEF VerifySnapshot
<1>3. CASE EvaluateSnapshot(s) /\ round # "verify"
    <2>1. CASE pc' = "done" /\ UNCHANGED coord
        BY <2>1, Elsewhere
    <2>2. CASE UNCHANGED <<coord, pc, round>> /\ todo' = todo \ {s}
        BY <1>3, <2>2 DEF VerificationInv, Accountable, VerifiedSoFar
    <2>3. CASE UNCHANGED <<pc, round>> /\ todo' = todo \ {s} /\ coord' = MergeCoordination(s)
        <3>1. coord \in Coordinations
            BY DEF EvidenceInv, TypeInv, TypeOK
        <3>2. coord'.sessions = coord.sessions
              /\ coord'.workspaces = coord.workspaces \cup CleanupWorkspaces(s)
            BY <2>3, <3>1 DEF MergeCoordination, Coordinations
        <3>3. \A w \in CleanupWorkspaces(s) : SessionOf[w] = s
            BY DEF CleanupWorkspaces, CandidateWorkspaces, WorkspacesOf
        <3>. QED
            BY <1>3, <2>3, <3>2, <3>3 DEF VerificationInv, Accountable, VerifiedSoFar
    <2>. QED
        BY <1>3, <2>1, <2>2, <2>3 DEF EvaluateSnapshot, Refuse
<1>. QED
    BY <1>1, <1>2, <1>3 DEF SnapshotSession

\* What is left of the retirement is verified already.
LEMMA RetireVerification ==
    ASSUME EvidenceInv, VerificationInv,
           AttributeProcesses \/ StartRetiring \/ \E w \in Workspaces : CloseWorkspace(w)
    PROVE  VerificationInv'
<1>1. CASE AttributeProcesses
    <2>1. pc' \notin {"snapshots", "close"}
        BY <1>1 DEF AttributeProcesses, Goto, Refuse
    <2>2. coord \in Coordinations
        BY DEF EvidenceInv, TypeInv, TypeOK
    <2>3. coord'.sessions = coord.sessions /\ coord'.workspaces = coord.workspaces
        BY <1>1, <2>2 DEF AttributeProcesses, Coordinations
    <2>. QED
        BY <2>1, <2>3 DEF VerificationInv, Accountable, VerifiedSoFar
<1>2. CASE StartRetiring
    BY <1>2 DEF StartRetiring, Goto, ghostVars, VerificationInv, Accountable, VerifiedSoFar,
        Verified
<1>3. CASE \E w \in Workspaces : CloseWorkspace(w)
    <2>. PICK w \in Workspaces : CloseWorkspace(w)
        BY <1>3
    <2>1. /\ pc = "close" /\ todo' = todo \ {w} /\ UNCHANGED <<coord, look>>
          /\ pc' \in {"close", "sessions"}
        BY DEF CloseWorkspace, Goto
    <2>. QED
        BY <2>1 DEF VerificationInv, Accountable, VerifiedSoFar, Verified
<1>. QED
    BY <1>1, <1>2, <1>3

\* lop closes only what it has verified and not looked away from since.
LEMMA VerificationInvariant == Spec => []VerificationInv
<1>1. Init => VerificationInv
    <2>. SUFFICES ASSUME Init
                  PROVE  VerificationInv
        OBVIOUS
    <2>1. pc = "inventory" /\ coord = NoCoordination
        BY Zenon DEF Init
    <2>. QED
        BY <2>1 DEF NoCoordination, VerificationInv, Accountable, VerifiedSoFar
<1>2. EvidenceInv /\ VerificationInv /\ [Next]_vars => VerificationInv'
    <2>. SUFFICES ASSUME EvidenceInv, VerificationInv, [Next]_vars
                  PROVE  VerificationInv'
        OBVIOUS
    <2>1. CASE RemoveWorktree
        <3>1. UNCHANGED coord /\ pc' = "done"
            BY <2>1 DEF RemoveWorktree, DecideRemoval, Refuse
        <3>. QED
            BY <3>1, Elsewhere
    <2>2. CASE OthersAct \/ Finished \/ UNCHANGED vars
        BY <2>2, Unmoved DEF OthersAct, Finished, vars, lopVars
    <2>. QED
        BY <2>1, <2>2, GateVerification, ListSessionsVerification, SnapshotVerification,
           RetireVerification DEF Next, LopStep
<1>. QED
    BY <1>1, <1>2, EvidenceInvariant, PTL DEF Spec

\* Every workspace retire_candidate closes was shown idle, unfocused and made of observed
\* panes by the last snapshot of its session.
THEOREM RetirementVerified == Spec => RetiresOnlyVerified
<1>. DEFINE OnlyVerified ==
        \A w \in retired' \ retired :
            w \in coord.workspaces /\ look[w].idle /\ look[w].panes \subseteq coord.panes
<1>1. VerificationInv /\ [Next]_vars => [OnlyVerified]_vars
    <2>. SUFFICES ASSUME VerificationInv, Next, NEW w \in retired' \ retired
                  PROVE  w \in coord.workspaces /\ Verified(w)
        BY DEF Verified
    <2>1. \/ UNCHANGED retired
          \/ \E v \in Workspaces : CloseWorkspace(v)
        BY DEF Next, LopStep, ReadInventory, ResolvePath, ReadStatus, ReadUsers, ListSessions,
            SnapshotSession, AttributeProcesses, StartRetiring, RemoveWorktree, OthersAct,
            Finished, vars, ghostVars
    <2>2. PICK v \in Workspaces : CloseWorkspace(v)
        BY <2>1
    <2>3. w = v /\ v \in todo /\ pc = "close"
        BY <2>2 DEF CloseWorkspace
    <2>. QED
        BY <2>3 DEF VerificationInv, VerifiedSoFar
<1>. QED
    BY <1>1, VerificationInvariant, PTL DEF Spec, RetiresOnlyVerified

----------------------------------------------------------------------------
(***************************************************************************)
(* Refinement.  Removal implements the contract of Cleanup: its reading    *)
(* steps inspect, every close retires, `wt remove` removes, and a refusal  *)
(* or a preview leaves the candidate alone.                                *)
(***************************************************************************)

ContractState == <<mode.apply, AllRead, retired, tree,
                   IF pc = "done" THEN outcome ELSE "none", opfail>>

\* A command that decides nothing inspects.
LEMMA InspectsContract ==
    ASSUME pc # "done", pc' # "done", UNCHANGED <<mode, retired, tree, opfail>>
    PROVE  Contract!Inspect
<1>1. AllRead' \in BOOLEAN
    BY Zenon DEF AllRead
<1>. QED
    BY <1>1 DEF Contract!Inspect

\* A refusal leaves the candidate alone.
LEMMA RefusesContract ==
    ASSUME TypeInv, pc # "done", NEW why, NEW op \in BOOLEAN, Refuse(why, op),
           UNCHANGED <<mode, retired, tree>>
    PROVE  Contract!Leave
<1>1. AllRead' \in BOOLEAN
    BY Zenon DEF AllRead
<1>2. pc' = "done" /\ outcome' = "refused"
    BY DEF Refuse
<1>3. opfail' \in {opfail, opfail + 1}
    <2>1. CASE op
        BY <2>1 DEF Refuse
    <2>2. CASE ~op
        <3>1. opfail' = opfail + 0
            BY <2>2 DEF Refuse
        <3>. QED
            BY <3>1 DEF TypeInv, TypeOK
    <2>. QED
        BY <2>1, <2>2
<1>. QED
    BY <1>1, <1>2, <1>3 DEF Contract!Leave

\* A gate that is passed inspects, or reports a candidate in preview.
LEMMA PassesContract ==
    ASSUME DecisionInv, pc # "done", PassGate, UNCHANGED <<outcome, mode, retired, tree, opfail>>
    PROVE  Contract!Inspect \/ Contract!Leave
<1>1. CASE pc' # "done"
    BY <1>1, InspectsContract
<1>2. CASE pc' = "done"
    <2>1. AllRead' \in BOOLEAN
        BY Zenon DEF AllRead
    <2>2. ~mode.apply
        BY <1>2 DEF PassGate, Goto
    <2>3. outcome' = "candidate"
        BY DEF DecisionInv, Truthful
    <2>. QED
        BY <1>2, <2>1, <2>2, <2>3 DEF Contract!Leave
<1>. QED
    BY <1>1, <1>2

\* Closing a workspace retires it, and only a gate after that counts.
LEMMA RetiresContract ==
    ASSUME EvidenceInv, NEW w \in Workspaces, CloseWorkspace(w)
    PROVE  Contract!Inspect \/ \E v \in Workspaces : Contract!Retire(v)
<1>1. pc = "close" /\ pc' # "done" /\ UNCHANGED <<mode, tree, opfail>>
    BY DEF CloseWorkspace, Goto
<1>2. mode.apply /\ gate' = "attributed"
    BY <1>1 DEF CloseWorkspace, Goto, EvidenceInv, Progress, RetirementPermitted
<1>3. AllRead' = FALSE
    BY <1>2 DEF AllRead
<1>4. UNCHANGED retired \/ retired' = retired \cup {w}
    BY DEF CloseWorkspace
<1>5. CASE UNCHANGED retired
    BY <1>1, <1>5, InspectsContract
<1>6. CASE retired' = retired \cup {w}
    <2>1. Contract!Retire(w)
        BY <1>1, <1>2, <1>3, <1>6 DEF Contract!Retire
    <2>. QED
        BY <2>1
<1>. QED
    BY <1>4, <1>5, <1>6

\* What has been read stays read while evidence ages.
LEMMA AgedRead ==
    ASSUME Age, UNCHANGED <<gate, mode>>
    PROVE  AllRead' = AllRead
<1>1. \A f \in Facts : evidence'[f] # "none" <=> evidence[f] # "none"
    BY AgedTrue
<1>2. GitFacts \subseteq Facts /\ "unused" \in Facts
    BY DEF Facts
<1>. QED
    BY <1>1, <1>2, Zenon DEF AllRead

\* Handing the worktree to `wt remove` is the one destructive step.
LEMMA RemovesContract ==
    ASSUME EvidenceInv, DecisionInv, RemoveWorktree
    PROVE  Contract!Remove
<1>1. pc = "remove" /\ UNCHANGED <<mode, retired>> /\ Age
    BY DEF RemoveWorktree
<1>2. mode.apply /\ AllRead
    <2>1. /\ mode.apply /\ gate \in {"unherded", "final"} /\ Read(GitFacts)
          /\ mode.checkProcesses => Read({"unused"})
        BY <1>1 DEF EvidenceInv, Progress, RemovalPermitted
    <2>. QED
        BY <2>1 DEF AllRead, Read
<1>3. PICK answer \in Answers, gone \in BOOLEAN :
          /\ answer \in BranchOutcomes \cup {"Deferred"} => gone
          /\ DecideRemoval(answer)
          /\ IF gone THEN tree' = "removed" ELSE UNCHANGED tree
    BY Zenon DEF RemoveWorktree
<1>4. pc' = "done" /\ UNCHANGED gate
    BY <1>3 DEF DecideRemoval, Refuse
<1>5. AllRead' = AllRead
    BY <1>1, <1>4, AgedRead
<1>6. tree = "present" /\ opfail = 0
    BY <1>1 DEF DecisionInv, Truthful, EvidenceInv, TypeInv, Undecided
<1>7. \/ tree' = "removed" /\ outcome' = "removed" /\ opfail' \in {opfail, opfail + 1}
      \/ tree' \in {"present", "removed"} /\ outcome' = "refused" /\ opfail' = opfail + 1
    <2>1. CASE answer \in BranchOutcomes
        <3>1. tree' = "removed" /\ outcome' = "removed"
            BY <1>3, <2>1 DEF DecideRemoval, Refuse
        <3>2. opfail' = opfail + 0 \/ opfail' = opfail + 1
            BY <1>3, <2>1 DEF DecideRemoval, Refuse
        <3>. QED
            BY <1>6, <3>1, <3>2
    <2>2. CASE answer \notin BranchOutcomes
        BY <1>3, <1>6, <2>2 DEF DecideRemoval, Refuse
    <2>. QED
        BY <2>1, <2>2
<1>. QED
    BY <1>1, <1>2, <1>4, <1>5, <1>7 DEF Contract!Remove

\* Nothing else changes what the contract speaks of.
LEMMA StepContract ==
    ASSUME EvidenceInv, DecisionInv, [Next]_vars
    PROVE  Contract!Next \/ UNCHANGED ContractState
<1>. TypeInv
    BY DEF EvidenceInv
<1>1. CASE ReadInventory \/ ResolvePath
    <2>1. pc # "done" /\ UNCHANGED <<mode, retired, tree>>
        BY <1>1 DEF ReadInventory, ResolvePath
    <2>2. \/ \E why : \E op \in BOOLEAN : Refuse(why, op)
          \/ pc' # "done" /\ UNCHANGED opfail
        BY <1>1 DEF ReadInventory, ResolvePath, InspectionFails, RefuseFirst, Goto
    <2>. QED
        BY <2>1, <2>2, InspectsContract, RefusesContract DEF Contract!Next
<1>2. CASE ReadStatus \/ ReadUsers
    <2>1. pc # "done" /\ UNCHANGED <<mode, retired, tree>>
        BY <1>2 DEF ReadStatus, ReadUsers
    <2>2. \/ \E why : \E op \in BOOLEAN : Refuse(why, op)
          \/ pc' # "done" /\ UNCHANGED opfail
          \/ PassGate /\ UNCHANGED <<outcome, opfail>>
        BY <1>2 DEF ReadStatus, ReadUsers, InspectionFails, RefuseFirst, Goto
    <2>. QED
        BY <2>1, <2>2, InspectsContract, RefusesContract, PassesContract DEF Contract!Next
<1>3. CASE ListSessions
    <2>1. pc # "done" /\ UNCHANGED <<mode, retired, tree>>
        BY <1>3 DEF ListSessions
    <2>2. \/ \E why : Refuse(why, TRUE)
          \/ pc' # "done" /\ UNCHANGED opfail
        BY <1>3 DEF ListSessions, SessionListFails, SessionsListed, Goto
    <2>. QED
        BY <2>1, <2>2, InspectsContract, RefusesContract DEF Contract!Next
<1>4. CASE \E s \in Sessions : SnapshotSession(s)
    <2>. PICK s \in Sessions : SnapshotSession(s)
        BY <1>4
    <2>1. pc = "snapshots" /\ UNCHANGED <<mode, retired, tree>>
        BY DEF SnapshotSession
    <2>2. \/ \E why : Refuse(why, TRUE)
          \/ pc' = pc /\ UNCHANGED opfail
        BY DEF SnapshotSession, SnapshotFails, VerifySnapshot, EvaluateSnapshot
    <2>. QED
        BY <2>1, <2>2, InspectsContract, RefusesContract DEF Contract!Next
<1>5. CASE AttributeProcesses \/ StartRetiring
    <2>1. pc = "snapshots" /\ UNCHANGED <<mode, retired, tree>>
        BY <1>5 DEF AttributeProcesses, StartRetiring, ghostVars
    <2>2. \/ \E why : \E op \in BOOLEAN : Refuse(why, op)
          \/ pc' # "done" /\ UNCHANGED opfail
        BY <1>5 DEF AttributeProcesses, StartRetiring, Goto
    <2>. QED
        BY <2>1, <2>2, InspectsContract, RefusesContract DEF Contract!Next
<1>6. CASE \E w \in Workspaces : CloseWorkspace(w)
    BY <1>6, RetiresContract DEF Contract!Next
<1>7. CASE RemoveWorktree
    BY <1>7, RemovesContract DEF Contract!Next
<1>8. CASE OthersAct
    <2>1. UNCHANGED <<lopVars, tree, retired>> /\ Age
        BY <1>8 DEF OthersAct
    <2>2. AllRead' = AllRead
        BY <2>1, AgedRead DEF lopVars
    <2>. QED
        BY <2>1, <2>2 DEF ContractState, lopVars
<1>9. CASE Finished \/ UNCHANGED vars
    <2>1. UNCHANGED <<mode, gate, evidence, retired, tree, pc, outcome, opfail>>
        BY <1>9 DEF Finished, vars
    <2>2. AllRead' = AllRead
        BY <2>1, Zenon DEF AllRead
    <2>. QED
        BY <2>1, <2>2 DEF ContractState
<1>. QED
    BY <1>1, <1>2, <1>3, <1>4, <1>5, <1>6, <1>7, <1>8, <1>9 DEF Next, LopStep

\* The pipeline of commands implements what lop promises of a candidate.
THEOREM PipelineImplementsContract == Spec => Implements
<1>1. Init => Contract!Init
    <2>. SUFFICES ASSUME Init
                  PROVE  Contract!Init
        OBVIOUS
    <2>1. /\ pc = "inventory" /\ gate = "initial" /\ tree = "present" /\ retired = {}
          /\ opfail = 0 /\ mode \in Modes
        BY Zenon DEF Init
    <2>2. mode.apply \in BOOLEAN
        BY <2>1, RemovalAssumption DEF ModeSet
    <2>3. AllRead = FALSE
        BY <2>1 DEF AllRead
    <2>. QED
        BY <2>1, <2>2, <2>3 DEF Contract!Init
<1>2. EvidenceInv /\ DecisionInv /\ [Next]_vars => [Contract!Next]_(Contract!contractVars)
    BY StepContract DEF ContractState, Contract!contractVars
<1>. QED
    BY <1>1, <1>2, EvidenceInvariant, DecisionInvariant, PTL DEF Spec, Implements, Contract!Spec
----------------------------------------------------------------------------
(***************************************************************************)
(* Exclusiveness.  RetiresOnlyExclusive is false: an observed pane may     *)
(* leave the worktree before its workspace is closed.  That is the only    *)
(* way: while the observed panes stay where they are, until they close,    *)
(* every workspace closed was shown mapped exclusively to the candidate.   *)
(***************************************************************************)

PanesStay == \A p \in coord.panes : pane'[p].at \in {pane[p].at, "absent"}
ObservedPanesStay == [][OthersAct => PanesStay]_vars

\* The observed panes that still exist are in the worktree, and each workspace to close had one.
ObservedInside ==
    /\ \A p \in coord.panes : pane[p].at \in {"inside", "absent"}
    /\ \A w \in coord.workspaces : \E p \in coord.panes : WorkspaceOf[p] = w

\* What the verifying round has come to was shown exclusive, and all that is closed.
ExclusiveSoFar ==
    /\ pc = "snapshots" /\ round = "verify" =>
        \A w \in coord.workspaces : SessionOf[w] \in todo \/ look[w].exclusive
    /\ pc = "close" => \A w \in todo : look[w].exclusive

\* A snapshot with no unclear workspace has only panes in the worktree to observe, and every
\* workspace it adds has one of them.
LEMMA ObservedFromSnapshot ==
    ASSUME NEW s \in Sessions, ValidCandidateWorkspaces(s)
    PROVE  /\ \A p \in CandidatePanes(s) : Matches(p)
           /\ \A w \in CleanupWorkspaces(s) : \E p \in CandidatePanes(s) : WorkspaceOf[p] = w
<1>1. ASSUME NEW p \in CandidatePanes(s)
      PROVE  Matches(p)
    <2>1. PICK w \in WorkspacesOf(s) : p \in PanesIn(w)
        BY Zenon DEF CandidatePanes, PanesOf
    <2>2. WorkspaceOf[p] = w
        BY <2>1 DEF PanesIn
    <2>. QED
        BY <2>1, <2>2, Zenon DEF CandidatePanes, CandidateWorkspaces, ValidCandidateWorkspaces,
            Concerned, ExclusivelyMapped
<1>2. ASSUME NEW w \in CleanupWorkspaces(s)
      PROVE  \E p \in CandidatePanes(s) : WorkspaceOf[p] = w
    <2>1. w \in WorkspacesOf(s) /\ ExclusivelyMapped(w)
        BY Zenon DEF CleanupWorkspaces, CandidateWorkspaces, ValidCandidateWorkspaces, Concerned
    <2>2. PICK p : p \in PanesIn(w) /\ Matches(p)
        BY <2>1 DEF ExclusivelyMapped
    <2>3. p \in PanesOf(s)
        BY <2>1, <2>2, Zenon DEF PanesOf
    <2>. QED
        BY <2>2, <2>3 DEF CandidatePanes, PanesIn
<1>. QED
    BY <1>1, <1>2

\* The observed panes are inside when they are observed, and stay so.
LEMMA ObservedStep ==
    ASSUME TypeInv, ObservedInside, [Next]_vars, OthersAct => PanesStay
    PROVE  ObservedInside'
<1>. coord \in Coordinations
    BY DEF TypeInv, TypeOK
<1>1. CASE UNCHANGED <<coord, pane>>
    BY <1>1 DEF ObservedInside
<1>2. CASE ListSessions
    <2>1. \/ UNCHANGED <<coord, pane>>
          \/ coord'.panes = {} /\ coord'.workspaces = {}
        BY <1>2 DEF ListSessions, SessionListFails, SessionsListed, NoCoordination, worldVars
    <2>. QED
        BY <1>1, <2>1 DEF ObservedInside
<1>3. ASSUME NEW s \in Sessions, SnapshotSession(s)
      PROVE  ObservedInside'
    <2>. UNCHANGED pane
        BY <1>3 DEF SnapshotSession, worldVars
    <2>1. \/ UNCHANGED coord
          \/ coord' = MergeCoordination(s) /\ ValidCandidateWorkspaces(s)
        BY <1>3 DEF SnapshotSession, SnapshotFails, VerifySnapshot, EvaluateSnapshot,
            SnapshotVerdicts
    <2>2. CASE coord' = MergeCoordination(s) /\ ValidCandidateWorkspaces(s)
        <3>1. /\ coord'.panes = coord.panes \cup CandidatePanes(s)
              /\ coord'.workspaces = coord.workspaces \cup CleanupWorkspaces(s)
            BY <2>2 DEF MergeCoordination, Coordinations
        <3>. QED
            BY <2>2, <3>1, ObservedFromSnapshot DEF ObservedInside, Matches
    <2>. QED
        BY <1>1, <2>1, <2>2
<1>4. CASE AttributeProcesses
    <2>1. UNCHANGED pane
        BY <1>4 DEF AttributeProcesses, worldVars
    <2>2. coord'.panes = coord.panes /\ coord'.workspaces = coord.workspaces
        BY <1>4 DEF AttributeProcesses, Coordinations
    <2>. QED
        BY <2>1, <2>2 DEF ObservedInside
<1>5. ASSUME NEW w \in Workspaces, CloseWorkspace(w)
      PROVE  ObservedInside'
    <2>1. coord.panes \subseteq Panes /\ UNCHANGED coord
        BY <1>5 DEF CloseWorkspace, Coordinations
    <2>2. \A p \in Panes : pane'[p] \in {pane[p], Absent}
        BY <1>5 DEF CloseWorkspace, WithoutWorkspaces
    <2>. QED
        BY <2>1, <2>2 DEF ObservedInside, Absent
<1>6. CASE OthersAct
    <2>1. UNCHANGED coord
        BY <1>6 DEF OthersAct, lopVars
    <2>. QED
        BY <1>6, <2>1 DEF ObservedInside, PanesStay
<1>7. ReadInventory \/ ResolvePath \/ ReadStatus \/ ReadUsers \/ StartRetiring
        => UNCHANGED <<coord, pane>>
    BY DEF ReadInventory, ResolvePath, ReadStatus, ReadUsers, StartRetiring, worldVars
<1>8. RemoveWorktree \/ Finished \/ UNCHANGED vars => UNCHANGED <<coord, pane>>
    BY DEF RemoveWorktree, Finished, herdrVars, vars
<1>. QED
    BY <1>1, <1>2, <1>3, <1>4, <1>5, <1>6, <1>7, <1>8 DEF Next, LopStep

\* A workspace that is open, with the observed panes and no other, is exclusive.
LEMMA VerifiedExclusive ==
    ASSUME TypeInv, ObservedInside, NEW s \in Sessions, Unchanged(s),
           NEW w \in coord.workspaces, SessionOf[w] = s
    PROVE  w \in open /\ ExclusivelyMapped(w)
<1>. DEFINE mine == {v \in coord.workspaces : SessionOf[v] = s}
<1>. coord \in Coordinations
    BY DEF TypeInv, TypeOK
<1>1. /\ w \in open
      /\ UNION {PanesIn(v) : v \in mine} = {p \in coord.panes : SessionOf[WorkspaceOf[p]] = s}
    BY DEF Unchanged, StillIdle
<1>2. \A p \in PanesIn(w) : Matches(p)
    <2>. TAKE p \in PanesIn(w)
    <2>1. p \in coord.panes
        BY <1>1
    <2>2. pane[p] # Absent /\ pane[p] \in PaneStates
        BY DEF PanesIn, TypeInv, TypeOK, HerdrTypeOK
    <2>. QED
        BY <2>1, <2>2 DEF ObservedInside, Matches, PaneStates, Places
<1>3. PanesIn(w) # {}
    <2>1. PICK p \in coord.panes : WorkspaceOf[p] = w
        BY DEF ObservedInside
    <2>2. PICK v \in mine : p \in PanesIn(v)
        BY <1>1, <2>1
    <2>. QED
        BY <2>1, <2>2 DEF PanesIn
<1>. QED
    BY <1>1, <1>2, <1>3 DEF ExclusivelyMapped

\* What is shown exclusive is looked at no more until it is closed.
LEMMA ExclusiveStep ==
    ASSUME TypeInv, VerificationInv, ObservedInside, ExclusiveSoFar, [Next]_vars
    PROVE  ExclusiveSoFar'
<1>. coord \in Coordinations
    BY DEF TypeInv, TypeOK
<1>1. CASE pc' \notin {"snapshots", "close"}
    BY <1>1 DEF ExclusiveSoFar
<1>2. CASE UNCHANGED <<coord, todo, pc, round, look>>
    BY <1>2 DEF ExclusiveSoFar
<1>3. CASE ListSessions
    <2>1. CASE pc' = "snapshots" /\ round' = "verify"
        <3>1. todo' = coord.sessions /\ UNCHANGED coord
            BY <1>3, <2>1 DEF ListSessions, SessionListFails, SessionsListed, Refuse, Goto
        <3>. QED
            BY <2>1, <3>1 DEF VerificationInv, Accountable, ExclusiveSoFar
    <2>2. pc' # "close"
        BY <1>3 DEF ListSessions, SessionListFails, SessionsListed, Refuse, Goto
    <2>. QED
        BY <2>1, <2>2 DEF ExclusiveSoFar
<1>4. ASSUME NEW s \in Sessions, SnapshotSession(s)
      PROVE  ExclusiveSoFar'
    <2>1. CASE pc' = "done"
        BY <1>1, <2>1
    <2>2. CASE round # "verify" /\ UNCHANGED <<pc, round>>
        BY <1>4, <2>2 DEF SnapshotSession, ExclusiveSoFar
    <2>3. CASE /\ round = "verify" /\ UNCHANGED <<coord, pc, round>>
               /\ Unchanged(s) /\ Look(s) /\ todo' = todo \ {s}
        <3>1. ASSUME NEW w \in coord.workspaces, SessionOf[w] \in todo \/ look[w].exclusive
              PROVE  SessionOf[w] \in todo' \/ look'[w].exclusive
            <4>1. w \in Workspaces
                BY DEF Coordinations
            <4>2. CASE SessionOf[w] # s
                <5>1. look'[w] = look[w]
                    BY <2>3, <4>1, <4>2, Zenon DEF Look
                <5>. QED
                    BY <2>3, <3>1, <4>2, <5>1
            <4>3. CASE SessionOf[w] = s
                <5>1. look'[w].exclusive = (w \in open /\ ExclusivelyMapped(w))
                    BY <2>3, <4>1, <4>3, Zenon DEF Look
                <5>. QED
                    BY <2>3, <4>3, <5>1, VerifiedExclusive, Zenon
            <4>. QED
                BY <4>2, <4>3
        <3>2. pc = "snapshots"
            BY <1>4 DEF SnapshotSession
        <3>. QED
            BY <2>3, <3>1, <3>2 DEF ExclusiveSoFar
    <2>. QED
        BY <1>4, <2>1, <2>2, <2>3 DEF SnapshotSession, SnapshotFails, VerifySnapshot,
            EvaluateSnapshot, Refuse
<1>5. CASE StartRetiring
    BY <1>5 DEF StartRetiring, Goto, ghostVars, ExclusiveSoFar
<1>6. ASSUME NEW w \in Workspaces, CloseWorkspace(w)
      PROVE  ExclusiveSoFar'
    BY <1>6 DEF CloseWorkspace, Goto, ExclusiveSoFar
<1>7. CASE ReadStatus \/ ReadUsers
    <2>1. pc' \notin {"snapshots", "close"}
        BY <1>7 DEF ReadStatus, ReadUsers, InspectionFails, RefuseFirst, Refuse, PassGate, Goto
    <2>. QED
        BY <1>1, <2>1
<1>8. CASE ReadInventory \/ ResolvePath \/ AttributeProcesses \/ RemoveWorktree
    <2>1. pc' \notin {"snapshots", "close"}
        BY <1>8 DEF ReadInventory, ResolvePath, AttributeProcesses, RemoveWorktree,
            InspectionFails, RefuseFirst, DecideRemoval, Refuse, Goto
    <2>. QED
        BY <1>1, <2>1
<1>9. CASE OthersAct \/ Finished \/ UNCHANGED vars
    BY <1>2, <1>9 DEF OthersAct, Finished, lopVars, vars
<1>. QED
    BY <1>3, <1>4, <1>5, <1>6, <1>7, <1>8, <1>9 DEF Next, LopStep

\* While the observed panes stay where they are, the last snapshot lop read before closing a
\* workspace showed it mapped exclusively to the candidate (verify_coordination_unchanged need
\* not look at their directories then).
THEOREM RetirementExclusive == Spec /\ ObservedPanesStay => RetiresOnlyExclusive
<1>. DEFINE ExclusiveInv == ObservedInside /\ ExclusiveSoFar
            Exclusive == \A w \in retired' \ retired : look[w].exclusive
<1>1. Init => ExclusiveInv
    <2>. SUFFICES ASSUME Init  PROVE ExclusiveInv
        OBVIOUS
    <2>1. pc = "inventory" /\ coord = NoCoordination
        BY Zenon DEF Init
    <2>. QED
        BY <2>1 DEF NoCoordination, ObservedInside, ExclusiveSoFar
<1>2. TypeInv /\ VerificationInv /\ ExclusiveInv /\ [Next]_vars /\ [OthersAct => PanesStay]_vars
      => ExclusiveInv'
    <2>. SUFFICES ASSUME TypeInv, VerificationInv, ExclusiveInv, [Next]_vars,
                         [OthersAct => PanesStay]_vars
                  PROVE  ExclusiveInv'
        OBVIOUS
    <2>1. OthersAct => PanesStay
        BY DEF vars, PanesStay
    <2>. QED
        BY <2>1, ObservedStep, ExclusiveStep
<1>3. ExclusiveInv /\ [Next]_vars => [Exclusive]_vars
    <2>. SUFFICES ASSUME ExclusiveInv, Next, NEW w \in retired' \ retired
                  PROVE  look[w].exclusive
        OBVIOUS
    <2>1. \/ UNCHANGED retired
          \/ \E v \in Workspaces : CloseWorkspace(v)
        BY DEF Next, LopStep, ReadInventory, ResolvePath, ReadStatus, ReadUsers, ListSessions,
            SnapshotSession, AttributeProcesses, StartRetiring, RemoveWorktree, OthersAct,
            Finished, vars, ghostVars
    <2>2. PICK v \in Workspaces : CloseWorkspace(v)
        BY <2>1
    <2>3. w = v /\ v \in todo /\ pc = "close"
        BY <2>2 DEF CloseWorkspace
    <2>. QED
        BY <2>3 DEF ExclusiveSoFar
<1>4. Spec => []TypeInv
    BY InitTyped, StepTyped, PTL DEF Spec
<1>. QED
    BY <1>1, <1>2, <1>3, <1>4, VerificationInvariant, PTL
       DEF Spec, ObservedPanesStay, RetiresOnlyExclusive

----------------------------------------------------------------------------
(***************************************************************************)
(* Progress.  What TLC checks of termination is bounded by the changes     *)
(* others make; here they may go on for ever.  Every step lop takes leaves *)
(* less to do: fewer places of the pipeline ahead, or fewer sessions or    *)
(* workspaces to do at the present one; nothing others do adds to that,    *)
(* and lop always has something to go on with.                             *)
(***************************************************************************)

InGate == pc \in {"inventory", "path", "status", "users"}

\* How many places of the pipeline there are between this one and the decision: the first
\* gate and inspection, the gate that decides to retire, the retirement, the last inspection
\* and gate.
Ahead ==
    CASE pc = "done" -> 0
      [] pc = "remove" -> 1
      [] InGate -> [users |-> 2, status |-> 3, path |-> 4, inventory |-> 5][pc]
                   + [unherded |-> 0, final |-> 0, attributed |-> 10, initial |-> 16][gate]
      [] pc = "sessions" -> [last |-> 7, confirm |-> 8, verify |-> 11, first |-> 17][round]
      [] pc = "snapshots" -> [last |-> 6, confirm |-> 6, verify |-> 10, first |-> 16][round]
      [] pc = "close" -> 9

Nearer ==
    \/ Ahead' < Ahead
    \/ Ahead' = Ahead /\ todo' \subseteq todo /\ todo' # todo

\* Deciding ends the candidate, and every other place is ahead of the end.
LEMMA AheadOfDone ==
    ASSUME TypeInv
    PROVE  /\ Ahead \in Nat
           /\ pc = "done" <=> Ahead = 0
BY DEF TypeInv, TypeOK, Ahead, InGate

\* A decision ends the candidate.
LEMMA RefusalIsNearer ==
    ASSUME TypeInv, pc # "done", pc' = "done"
    PROVE  Nearer
<1>1. Ahead' = 0
    BY DEF Ahead, InGate
<1>. QED
    BY <1>1, AheadOfDone DEF Nearer

\* The gate is left for a place behind it.
LEMMA PassGateIsNearer ==
    ASSUME TypeInv, pc \in {"status", "users"}, PassGate
    PROVE  Nearer
<1>1. CASE pc' = "done"
    BY <1>1, RefusalIsNearer
<1>2. CASE pc' # "done"
    <2>1. PassGate /\ pc' # "done" =>
          \/ gate = "initial" /\ Ahead' = 17
          \/ gate \in {"unherded", "final"} /\ Ahead' = 1
          \/ gate = "attributed" /\ Ahead' \in {7, 11}
        BY DEF PassGate, Goto, Ahead, InGate
    <2>2. /\ gate = "initial" => Ahead >= 18
          /\ gate = "attributed" => Ahead >= 12
          /\ Ahead >= 2 /\ Ahead \in Nat
        BY DEF TypeInv, TypeOK, Ahead, InGate
    <2>. QED
        BY <1>2, <2>1, <2>2 DEF Nearer
<1>. QED
    BY <1>1, <1>2

\* The gate reads one thing after the other.
LEMMA GateIsNearer ==
    ASSUME TypeInv, ReadInventory \/ ResolvePath \/ ReadStatus \/ ReadUsers
    PROVE  Nearer
<1>1. CASE pc' = "done"
    BY <1>1, RefusalIsNearer DEF ReadInventory, ResolvePath, ReadStatus, ReadUsers
<1>2. CASE pc \in {"status", "users"} /\ PassGate
    BY <1>2, PassGateIsNearer
<1>3. CASE /\ gate' = gate
           /\ <<pc, pc'>> \in {<<"inventory", "path">>, <<"path", "status">>, <<"status", "users">>}
    BY <1>3 DEF TypeInv, TypeOK, Ahead, InGate, Nearer
<1>. QED
    BY <1>1, <1>2, <1>3 DEF ReadInventory, ResolvePath, ReadStatus, ReadUsers, InspectionFails,
        RefuseFirst, Refuse, Goto

\* A list of sessions leads to their snapshots, past them or to a refusal.
LEMMA ListSessionsIsNearer == TypeInv /\ ListSessions => Nearer
<1>. SUFFICES ASSUME TypeInv, ListSessions PROVE Nearer
    OBVIOUS
<1>1. CASE pc' = "done"
    BY <1>1, RefusalIsNearer DEF ListSessions
<1>2. CASE pc' # "done"
    <2>1. \/ round = "first" /\ Ahead' = 5
          \/ round = "first" /\ Ahead' = 16
          \/ round = "last" /\ Ahead' = 6
          \/ round = "verify" /\ Ahead' = 10
          \/ round = "confirm" /\ Ahead' = 7
        BY <1>2 DEF ListSessions, SessionListFails, SessionsListed, Refuse, Goto, Ahead, InGate
    <2>2. Ahead = [last |-> 7, confirm |-> 8, verify |-> 11, first |-> 17][round]
        BY DEF ListSessions, Ahead, InGate
    <2>. QED
        BY <2>1, <2>2 DEF Nearer
<1>. QED
    BY <1>1, <1>2

\* A snapshot leaves one session less, or ends the candidate.
LEMMA SnapshotIsNearer ==
    ASSUME TypeInv, NEW s \in Sessions, SnapshotSession(s)
    PROVE  Nearer
<1>1. CASE pc' = "done"
    BY <1>1, RefusalIsNearer DEF SnapshotSession
<1>2. CASE UNCHANGED <<pc, gate, round>> /\ todo' = todo \ {s}
    <2>1. s \in todo
        BY DEF SnapshotSession
    <2>. QED
        BY <1>2, <2>1 DEF Nearer, Ahead, InGate
<1>. QED
    BY <1>1, <1>2 DEF SnapshotSession, SnapshotFails, VerifySnapshot, EvaluateSnapshot, Refuse

\* After the snapshots there is another gate.
LEMMA AttributeIsNearer == TypeInv /\ AttributeProcesses => Nearer
<1>. SUFFICES ASSUME TypeInv, AttributeProcesses PROVE Nearer
    OBVIOUS
<1>1. CASE pc' = "done"
    BY <1>1, RefusalIsNearer DEF AttributeProcesses
<1>2. CASE pc' # "done"
    <2>1. /\ pc' = "inventory"
          /\ \/ round = "first" /\ gate' = "attributed"
             \/ round = "last" /\ gate' = "final"
        BY <1>2 DEF AttributeProcesses, Refuse, Goto
    <2>2. /\ gate' = "attributed" => Ahead' = 15
          /\ gate' = "final" => Ahead' = 5
        BY <2>1 DEF Ahead, InGate
    <2>3. Ahead = [last |-> 6, confirm |-> 6, verify |-> 10, first |-> 16][round]
        BY DEF AttributeProcesses, Ahead, InGate
    <2>. QED
        BY <2>1, <2>2, <2>3 DEF Nearer
<1>. QED
    BY <1>1, <1>2

\* Closing leaves one workspace less, until the sessions are compared.
LEMMA RetirementIsNearer ==
    ASSUME TypeInv, StartRetiring \/ \E w \in Workspaces : CloseWorkspace(w)
    PROVE  Nearer
<1>1. CASE StartRetiring
    BY <1>1 DEF StartRetiring, Goto, Nearer, Ahead, InGate
<1>2. ASSUME NEW w \in Workspaces, CloseWorkspace(w)
      PROVE  Nearer
    <2>1. /\ pc = "close" /\ w \in todo /\ todo' = todo \ {w}
          /\ \/ pc' = "sessions" /\ round' = "confirm"
             \/ UNCHANGED <<pc, gate, round>>
        BY <1>2 DEF CloseWorkspace, Goto
    <2>2. pc' = "sessions" /\ round' = "confirm" => Ahead' = 8
        BY DEF Ahead, InGate
    <2>3. UNCHANGED <<pc, gate, round>> => Ahead' = Ahead
        BY DEF Ahead, InGate
    <2>4. Ahead = 9
        BY <2>1 DEF Ahead, InGate
    <2>. QED
        BY <2>1, <2>2, <2>3, <2>4 DEF Nearer
<1>. QED
    BY <1>1, <1>2

\* lop has something to go on with: workspaces to close while it closes, and sessions to
\* snapshot, or all of them, in a round that looks at snapshots.
CanGoOn ==
    /\ pc = "close" => todo # {} /\ todo \subseteq Workspaces
    /\ pc = "snapshots" => todo \subseteq Sessions /\ round # "confirm"
    /\ pc \in {"sessions", "snapshots"} /\ round = "verify" => coord.workspaces # {}

\* No step leaves lop with nothing to go on with.
LEMMA CanGoOnStep == TypeInv /\ CanGoOn /\ [Next]_vars => CanGoOn'
<1>. SUFFICES ASSUME TypeInv, CanGoOn, [Next]_vars PROVE CanGoOn'
    OBVIOUS
<1>1. CASE pc' \notin {"sessions", "snapshots", "close"}
    BY <1>1 DEF CanGoOn
<1>2. CASE ReadStatus \/ ReadUsers
    BY <1>2 DEF ReadStatus, ReadUsers, InspectionFails, RefuseFirst, Refuse, PassGate, Goto, CanGoOn
<1>3. CASE ListSessions
    <2>1. running \subseteq Sessions
        BY DEF TypeInv, TypeOK, HerdrTypeOK
    <2>. QED
        BY <1>3, <2>1 DEF ListSessions, SessionListFails, SessionsListed, Refuse, Goto, CanGoOn
<1>4. ASSUME NEW s \in Sessions, SnapshotSession(s)
      PROVE  CanGoOn'
    <2>1. CASE pc' = "done"
        BY <2>1 DEF CanGoOn
    <2>2. CASE /\ UNCHANGED <<pc, round>> /\ todo' = todo \ {s}
               /\ round = "verify" => UNCHANGED coord
        BY <1>4, <2>2 DEF CanGoOn, SnapshotSession
    <2>. QED
        BY <1>4, <2>1, <2>2 DEF SnapshotSession, SnapshotFails, VerifySnapshot, EvaluateSnapshot,
            Refuse
<1>5. CASE StartRetiring
    <2>1. coord.workspaces \subseteq Workspaces
        BY DEF TypeInv, TypeOK, Coordinations
    <2>. QED
        BY <1>5, <2>1 DEF StartRetiring, Goto, CanGoOn
<1>6. ASSUME NEW w \in Workspaces, CloseWorkspace(w)
      PROVE  CanGoOn'
    BY <1>6 DEF CloseWorkspace, Goto, CanGoOn
<1>7. CASE ReadInventory \/ ResolvePath \/ AttributeProcesses \/ RemoveWorktree
    BY <1>1, <1>7 DEF ReadInventory, ResolvePath, AttributeProcesses, RemoveWorktree,
        InspectionFails, RefuseFirst, DecideRemoval, Refuse, Goto
<1>8. CASE OthersAct \/ Finished \/ UNCHANGED vars
    BY <1>8 DEF OthersAct, Finished, lopVars, vars, CanGoOn
<1>. QED
    BY <1>2, <1>3, <1>4, <1>5, <1>6, <1>7, <1>8 DEF Next, LopStep

\* Every command brings the decision nearer, whatever it answers, and nothing others do takes
\* lop back: no recheck starts over, and none waits for something that may never come.
THEOREM PipelineProgresses ==
    Spec => /\ [][LopStep => Nearer]_vars
            /\ [][OthersAct => UNCHANGED <<Ahead, todo>>]_vars
            /\ []CanGoOn
<1>1. TypeInv /\ LopStep => Nearer
    BY GateIsNearer, ListSessionsIsNearer, SnapshotIsNearer, AttributeIsNearer,
       RetirementIsNearer, RefusalIsNearer
       DEF LopStep, RemoveWorktree, DecideRemoval, Refuse
<1>2. OthersAct => UNCHANGED <<Ahead, todo>>
    BY DEF OthersAct, lopVars, Ahead, InGate
<1>3. Init => CanGoOn
    BY DEF Init, CanGoOn
<1>4. Spec => []TypeInv
    BY InitTyped, StepTyped, PTL DEF Spec
<1>. QED
    BY <1>1, <1>2, <1>3, <1>4, CanGoOnStep, PTL DEF Spec
=============================================================================
