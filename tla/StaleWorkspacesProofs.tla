----------------------- MODULE StaleWorkspacesProofs -----------------------
(***************************************************************************)
(* Theorems about StaleWorkspaces, for any sessions, workspaces, panes and *)
(* checkouts and any number of changes made by others.                     *)
(***************************************************************************)
EXTENDS StaleWorkspaces, FiniteSetTheorems, TLAPS

(***************************************************************************)
(* What Herdr and its users keep true, for any sessions, workspaces and    *)
(* panes.                                                                  *)
(***************************************************************************)

\* What Herdr's users do keeps the types.
LEMMA HerdrUserStepTyped ==
    ASSUME HerdrTypeOK, HerdrUserStep
    PROVE  HerdrTypeOK'
<1>1. CASE \E p \in Panes, st \in PaneStates : UserWorksInPane(p, st) \/ UserOpensPane(p, st)
    BY <1>1 DEF HerdrTypeOK, UserWorksInPane, UserOpensPane
<1>2. CASE \E p \in Panes : UserClosesPane(p)
    BY <1>2 DEF HerdrTypeOK, UserClosesPane
<1>3. CASE \E w \in Workspaces, p \in Panes, st \in PaneStates, linked \in BOOLEAN :
               UserOpensWorkspace(w, p, st, linked)
    BY <1>3 DEF HerdrTypeOK, UserOpensWorkspace
<1>4. CASE \E w \in Workspaces : UserClosesWorkspace(w)
    BY <1>4 DEF HerdrTypeOK, UserClosesWorkspace, WithoutWorkspaces
<1>5. CASE \E s \in Sessions : SessionStarts(s) \/ SessionStops(s)
    BY <1>5 DEF HerdrTypeOK, SessionStarts, SessionStops, WithoutWorkspaces
<1>. QED
    BY <1>1, <1>2, <1>3, <1>4, <1>5 DEF HerdrUserStep

\* So does closing workspaces.
LEMMA WithoutTyped ==
    ASSUME NEW W, HerdrTypeOK, WithoutWorkspaces(W), running' = running
    PROVE  HerdrTypeOK'
BY DEF HerdrTypeOK, WithoutWorkspaces

\* Closing workspaces takes their panes with them, and leaves no pane without its workspace.
LEMMA WithoutConsistent ==
    ASSUME NEW W, HerdrTypeOK, HerdrConsistent, WithoutWorkspaces(W), running' = running
    PROVE  HerdrConsistent'
BY HerdrAssumption DEF HerdrTypeOK, HerdrConsistent, WithoutWorkspaces

\* Herdr's users keep workspaces in running sessions and panes in open workspaces.
LEMMA HerdrUserStepConsistent ==
    ASSUME HerdrTypeOK, HerdrConsistent, HerdrUserStep
    PROVE  HerdrConsistent'
<1>1. ASSUME NEW p \in Panes, NEW st \in PaneStates, UserWorksInPane(p, st) \/ UserOpensPane(p, st)
      PROVE  HerdrConsistent'
    BY <1>1 DEF HerdrTypeOK, HerdrConsistent, UserWorksInPane, UserOpensPane
<1>2. ASSUME NEW p \in Panes, UserClosesPane(p)
      PROVE  HerdrConsistent'
    BY <1>2 DEF HerdrTypeOK, HerdrConsistent, UserClosesPane
<1>3. ASSUME NEW w \in Workspaces, NEW p \in Panes, NEW st \in PaneStates, NEW linked \in BOOLEAN,
             UserOpensWorkspace(w, p, st, linked)
      PROVE  HerdrConsistent'
    BY <1>3 DEF HerdrTypeOK, HerdrConsistent, UserOpensWorkspace
<1>4. ASSUME NEW w \in Workspaces, UserClosesWorkspace(w)
      PROVE  HerdrConsistent'
    BY <1>4, WithoutConsistent DEF UserClosesWorkspace
<1>5. ASSUME NEW s \in Sessions, SessionStarts(s)
      PROVE  HerdrConsistent'
    BY <1>5 DEF HerdrTypeOK, HerdrConsistent, SessionStarts
<1>6. ASSUME NEW s \in Sessions, SessionStops(s)
      PROVE  HerdrConsistent'
    BY <1>6, HerdrAssumption DEF HerdrTypeOK, HerdrConsistent, SessionStops, WithoutWorkspaces,
        WorkspacesOf
<1>. QED
    BY <1>1, <1>2, <1>3, <1>4, <1>5, <1>6 DEF HerdrUserStep
----------------------------------------------------------------------------

Steps == {"sessions", "snapshots", "choose", "close", "done"}
Rounds == {"first", "verify", "confirm", "again"}

USE DEF Steps, Rounds, Goto

(***************************************************************************)
(* Type correctness.                                                       *)
(***************************************************************************)

\* A decision is one of the reasons and counts.
LEMMA DecideTyped ==
    ASSUME TypeOK, NEW c \in Checkouts, NEW reason \in Reasons, Decide(c, reason)
    PROVE  /\ decision' \in [Checkouts -> Reasons \cup {"none"}]
           /\ summary' \in [Counters -> Nat]
           /\ pc' = "choose" /\ round' = round
<1>1. Counter[reason] \in Counters \ {"operational_failures"}
    BY DEF Counter, Reasons, Counters
<1>2. summary[Counter[reason]] + 1 \in Nat /\ "operational_failures" \in Counters
    BY <1>1 DEF TypeOK, Counters
<1>3. \A k \in Counters : summary[k] \in Nat
    BY DEF TypeOK
<1>. QED
    BY <1>1, <1>2, <1>3 DEF TypeOK, Decide

\* A command that fails ends the reconciliation or decides the current checkout.
LEMMA CommandFailsTyped ==
    ASSUME TypeOK, CommandFails
    PROVE  /\ decision' \in [Checkouts -> Reasons \cup {"none"}]
           /\ summary' \in [Counters -> Nat]
           /\ pc' \in {"choose", "done"} /\ round' = round
<1>1. CASE round # "first"
    <2>1. "HerdrStaleWorkspaceFailed" \in Reasons
        BY DEF Reasons, Counter
    <2>. QED
        BY <1>1, <2>1, DecideTyped DEF CommandFails, TypeOK
<1>2. CASE round = "first"
    <2>1. "operational_failures" \in Counters
        BY DEF Counters
    <2>. QED
        BY <1>2, <2>1 DEF CommandFails, TypeOK, Add
<1>. QED
    BY <1>1, <1>2

LEMMA InitTyped == Init => TypeOK
<1>. SUFFICES ASSUME Init PROVE TypeOK
    OBVIOUS
<1>1. HerdrTypeOK
    BY DEF Init, HerdrTypeOK, PaneStates, Places, Activities, Absent
<1>2. onDisk \subseteq Checkouts /\ registered \subseteq Checkouts /\ known \subseteq Checkouts
      /\ changes \in 0..MaxChanges
    BY StaleAssumption DEF Init
<1>3. look \in [Workspaces -> Looks]
    BY DEF Init, NoLook, Looks
<1>4. seen \in [Workspaces -> Verdicts] /\ observed \in [Workspaces -> SUBSET Panes]
    BY DEF Init, Verdicts
<1>5. decision \in [Checkouts -> Reasons \cup {"none"}] /\ summary \in [Counters -> Nat]
    BY DEF Init
<1>. QED
    BY <1>1, <1>2, <1>3, <1>4, <1>5 DEF Init, TypeOK

LEMMA ListSessionsTyped == TypeOK /\ ListSessions => TypeOK'
<1>. SUFFICES ASSUME TypeOK, ListSessions PROVE TypeOK'
    OBVIOUS
<1>1. HerdrTypeOK' /\ running \subseteq Sessions
    BY DEF ListSessions, worldVars, TypeOK, HerdrTypeOK
<1>2. /\ decision' \in [Checkouts -> Reasons \cup {"none"}]
      /\ summary' \in [Counters -> Nat]
      /\ pc' \in Steps /\ round' \in Rounds
    <2>1. CASE CommandFails
        BY <2>1, CommandFailsTyped DEF TypeOK
    <2>2. CASE ~CommandFails
        BY <2>2 DEF ListSessions, SessionListFails, TypeOK
    <2>. QED
        BY <2>1, <2>2
<1>3. todo' \subseteq Sessions \cup Workspaces /\ listed' \subseteq Sessions
      /\ seen' \in [Workspaces -> Verdicts]
    BY <1>1 DEF ListSessions, TypeOK, Verdicts
<1>. QED
    BY <1>1, <1>2, <1>3 DEF ListSessions, TypeOK, worldVars, historyVars

LEMMA VerdictsTyped == ASSUME NEW w PROVE StaleVerdicts(w) \subseteq Verdicts
BY DEF StaleVerdicts, StalePaneVerdict, Verdicts

LEMMA SnapshotTyped ==
    ASSUME TypeOK, NEW s \in Sessions, SnapshotSession(s)
    PROVE  TypeOK'
<1>0. HerdrTypeOK'
    BY DEF SnapshotSession, worldVars, TypeOK, HerdrTypeOK
<1>1. /\ decision' \in [Checkouts -> Reasons \cup {"none"}]
      /\ summary' \in [Counters -> Nat]
      /\ pc' \in Steps /\ round' \in Rounds
    <2>1. CASE CommandFails
        BY <2>1, CommandFailsTyped DEF TypeOK
    <2>2. CASE ~CommandFails
        BY <2>2 DEF SnapshotSession, VerifySession, JudgeSession, TypeOK
    <2>. QED
        BY <2>1, <2>2
<1>2. todo' \subseteq Sessions \cup Workspaces
    BY DEF SnapshotSession, VerifySession, JudgeSession, TypeOK
<1>3. seen' \in [Workspaces -> Verdicts]
    BY DEF SnapshotSession, VerifySession, JudgeSession, TypeOK
<1>4. observed' \in [Workspaces -> SUBSET Panes]
    BY DEF SnapshotSession, VerifySession, JudgeSession, TypeOK, PanesIn
<1>5. look' \in [Workspaces -> Looks]
    <2>1. CASE VerifySession(s)
        <3>. DEFINE Shown(w) == [panes |-> PanesIn(w),
                                 idle |-> \A p \in PanesIn(w) : pane[p].act = "quiet"]
        <3>1. \A w \in Workspaces : Shown(w) \in Looks
            <4>. TAKE w \in Workspaces
            <4>1. PanesIn(w) \in SUBSET Panes
                BY DEF PanesIn
            <4>2. (\A p \in PanesIn(w) : pane[p].act = "quiet") \in BOOLEAN
                BY Zenon
            <4>. QED
                BY <4>1, <4>2, Zenon DEF Looks
        <3>2. look' = [w \in Workspaces |-> IF SessionOf[w] # s THEN look[w] ELSE Shown(w)]
            BY <2>1, Zenon DEF VerifySession
        <3>. HIDE DEF Shown
        <3>. QED
            BY <3>1, <3>2 DEF TypeOK
    <2>2. CASE ~VerifySession(s)
        BY <2>2 DEF SnapshotSession, JudgeSession, TypeOK
    <2>. QED
        BY <2>1, <2>2
<1>. QED
    BY <1>0, <1>1, <1>2, <1>3, <1>4, <1>5 DEF SnapshotSession, TypeOK, worldVars

LEMMA JudgeTyped == TypeOK /\ Judge => TypeOK'
<1>. SUFFICES ASSUME TypeOK, Judge PROVE TypeOK'
    OBVIOUS
<1>1. HerdrTypeOK'
    BY DEF Judge, worldVars, TypeOK, HerdrTypeOK
<1>2. /\ decision' \in [Checkouts -> Reasons \cup {"none"}]
      /\ summary' \in [Counters -> Nat]
      /\ pc' \in Steps /\ round' \in Rounds
    <2>1. CASE CommandFails
        BY <2>1, CommandFailsTyped DEF TypeOK
    <2>2. CASE ~CommandFails
        <3>1. StaleCheckouts \subseteq Checkouts
            BY StaleAssumption DEF StaleCheckouts, StaleNow
        <3>2. Cardinality(StaleCheckouts) \in Nat
            BY <3>1, StaleAssumption, FS_Subset, FS_CardinalityType
        <3>3. "worktrees_inspected" \in Counters
            BY DEF Counters
        <3>. QED
            BY <2>2, <3>2, <3>3 DEF Judge, Add, TypeOK
    <2>. QED
        BY <2>1, <2>2
<1>3. /\ found' \subseteq Workspaces /\ kept' \subseteq Workspaces
      /\ absence' \in [Checkouts -> {"none", "held", "raced"}]
    BY DEF Judge, StaleNow, TypeOK
<1>4. status' \in [Checkouts -> {"none", "clear", "focused", "active"}]
    BY DEF Judge, MergedStatus, TypeOK
<1>. QED
    BY <1>1, <1>2, <1>3, <1>4 DEF Judge, TypeOK, worldVars

LEMMA ChooseTyped ==
    ASSUME TypeOK, NEW c \in Checkouts, Choose(c)
    PROVE  TypeOK'
<1>1. HerdrTypeOK'
    BY DEF Choose, worldVars, TypeOK, HerdrTypeOK
<1>2. {"HerdrStaleWorkspacePending", "HerdrFocusedPane", "HerdrActiveAgent"} \subseteq Reasons
    BY DEF Reasons, Counter
<1>3. /\ decision' \in [Checkouts -> Reasons \cup {"none"}]
      /\ summary' \in [Counters -> Nat]
      /\ pc' \in Steps /\ round' \in Rounds
    <2>1. CASE \E reason \in Reasons : Decide(c, reason)
        BY <2>1, DecideTyped DEF TypeOK
    <2>2. CASE ~\E reason \in Reasons : Decide(c, reason)
        BY <1>2, <2>2 DEF Choose, TypeOK
    <2>. QED
        BY <2>1, <2>2
<1>4. look' \in [Workspaces -> Looks]
    <2>1. NoLook \in Looks
        BY DEF NoLook, Looks
    <2>. QED
        BY <2>1 DEF Choose, TypeOK
<1>5. current' \in Checkouts /\ failed' \in BOOLEAN
    BY DEF Choose, TypeOK
<1>. QED
    BY <1>1, <1>3, <1>4, <1>5 DEF Choose, TypeOK, worldVars

LEMMA CloseTyped ==
    ASSUME TypeOK, NEW w \in Workspaces, CloseWorkspace(w)
    PROVE  TypeOK'
<1>1. HerdrTypeOK'
    <2>1. CASE WithoutWorkspaces({w})
        BY <2>1, WithoutTyped DEF CloseWorkspace, TypeOK
    <2>2. CASE UNCHANGED <<open, tagged, pane>>
        BY <2>2 DEF CloseWorkspace, TypeOK, HerdrTypeOK
    <2>. QED
        BY <2>1, <2>2 DEF CloseWorkspace
<1>2. pc' \in Steps /\ round' \in Rounds /\ todo' \subseteq Sessions \cup Workspaces
    BY DEF CloseWorkspace, TypeOK
<1>3. failed' \in BOOLEAN
    <2>1. PICK acknowledged \in BOOLEAN : failed' = (failed \/ ~acknowledged)
        BY Zenon DEF CloseWorkspace
    <2>. QED
        BY <2>1, Zenon DEF TypeOK
<1>4. closed' \subseteq Workspaces
    BY DEF CloseWorkspace, TypeOK
<1>5. kept' \subseteq Workspaces /\ absence' \in [Checkouts -> {"none", "held", "raced"}]
    BY DEF CloseWorkspace, Age, TypeOK
<1>. QED
    BY <1>1, <1>2, <1>3, <1>4, <1>5 DEF CloseWorkspace, TypeOK

LEMMA JudgeAgainTyped == TypeOK /\ JudgeAgain => TypeOK'
<1>. SUFFICES ASSUME TypeOK, JudgeAgain PROVE TypeOK'
    OBVIOUS
<1>1. HerdrTypeOK'
    BY DEF JudgeAgain, worldVars, TypeOK, HerdrTypeOK
<1>2. /\ decision' \in [Checkouts -> Reasons \cup {"none"}]
      /\ summary' \in [Counters -> Nat]
      /\ pc' \in Steps /\ round' \in Rounds
    <2>1. CASE CommandFails
        BY <2>1, CommandFailsTyped DEF TypeOK
    <2>2. CASE ~CommandFails
        <3>1. {"HerdrStaleWorkspaceFailed", "HerdrStaleWorkspaceRetired"} \subseteq Reasons
            BY DEF Reasons, Counter
        <3>2. PICK reason \in Reasons : Decide(current, reason)
            BY <2>2, <3>1 DEF JudgeAgain
        <3>. QED
            BY <3>2, DecideTyped DEF TypeOK
    <2>. QED
        BY <2>1, <2>2
<1>. QED
    BY <1>1, <1>2 DEF JudgeAgain, TypeOK, worldVars, historyVars

LEMMA OthersTyped == TypeOK /\ OthersAct => TypeOK'
<1>. SUFFICES ASSUME TypeOK, OthersAct PROVE TypeOK'
    OBVIOUS
<1>1. HerdrTypeOK'
    <2>1. CASE HerdrUserStep
        BY <2>1, HerdrUserStepTyped DEF TypeOK
    <2>2. CASE UNCHANGED herdrVars
        BY <2>2 DEF TypeOK, HerdrTypeOK, herdrVars
    <2>. QED
        BY <2>1, <2>2 DEF OthersAct
<1>2. onDisk' \subseteq Checkouts /\ registered' \subseteq Checkouts
    BY DEF OthersAct, CheckoutAppears, CheckoutVanishes, TypeOK
<1>3. changes' \in 0..MaxChanges
    BY StaleAssumption DEF OthersAct, TypeOK
<1>4. kept' \subseteq Workspaces /\ absence' \in [Checkouts -> {"none", "held", "raced"}]
    BY DEF OthersAct, Age, TypeOK
<1>. QED
    BY <1>1, <1>2, <1>3, <1>4 DEF OthersAct, TypeOK

LEMMA StepTyped == TypeOK /\ [Next]_vars => TypeOK'
<1>. SUFFICES ASSUME TypeOK, [Next]_vars PROVE TypeOK'
    OBVIOUS
<1>1. CASE UNCHANGED vars
    BY <1>1 DEF vars, TypeOK, HerdrTypeOK
<1>2. CASE StartClosing
    BY <1>2 DEF StartClosing, TypeOK, HerdrTypeOK, worldVars, historyVars, Targets
<1>3. CASE AllDecided
    BY <1>3 DEF AllDecided, TypeOK, HerdrTypeOK, worldVars, historyVars
<1>. QED
    BY <1>1, <1>2, <1>3, ListSessionsTyped, SnapshotTyped, JudgeTyped, ChooseTyped, CloseTyped,
       JudgeAgainTyped, OthersTyped DEF Next, LopStep, Finished

\* Every state of the reconciliation has its types, whatever Herdr answers
\* and whoever changes Herdr or the disk (reconcile_stale_herdr_workspaces).
THEOREM TypeCorrect == Spec => []TypeOK
<1>. QED
    BY InitTyped, StepTyped, PTL DEF Spec

----------------------------------------------------------------------------
(***************************************************************************)
(* Safety.  Nothing is closed outside a retirement, and a retirement rests *)
(* on the one judgement: these are the facts that survive everything       *)
(* others do between it and the close.                                     *)
(***************************************************************************)

\* Until the judgement nothing has been found, decided or closed, and only
\* workspaces of the sessions listed have been seen.
BeforeJudgement ==
    round = "first" /\ pc \in {"sessions", "snapshots"} =>
        /\ found = {} /\ closed = {} /\ kept = {}
        /\ \A c \in Checkouts : status[c] = "none" /\ decision[c] = "none"
        /\ pc = "snapshots" =>
            /\ todo \subseteq listed
            /\ \A w \in Workspaces : seen[w] # "unlinked" => SessionOf[w] \in listed

\* What was found stale was so when it was judged.
FoundStale ==
    \A w \in found :
        /\ CheckoutOf[w] \notin known
        /\ absence[CheckoutOf[w]] # "none"
        /\ SessionOf[w] \in listed

\* lop is busy with one checkout, judged clear and not reported yet.
Retiring ==
    pc = "close" \/ (pc \in {"sessions", "snapshots"} /\ round # "first") =>
        apply /\ status[current] = "clear" /\ decision[current] = "none"

\* A workspace a snapshot has verified may be closed.
Verified(w) == look[w].idle /\ look[w].panes = observed[w]

VerifiedSoFar ==
    /\ pc = "snapshots" /\ round = "verify" =>
        \A w \in Targets(current) : SessionOf[w] \in todo \/ Verified(w)
    /\ pc = "close" => round = "verify" /\ \A w \in todo : w \in Targets(current) /\ Verified(w)

Retirements == BeforeJudgement /\ FoundStale /\ Retiring /\ VerifiedSoFar /\ ClosesOnlyStale

StaleInv == TypeOK /\ Retirements

USE DEF Retirements

LEMMA InitStale == Init => Retirements
<1>. SUFFICES ASSUME Init PROVE Retirements
    OBVIOUS
<1>. QED
    BY DEF Init, BeforeJudgement, FoundStale, Retiring, VerifiedSoFar, ClosesOnlyStale

\* A decision ends the retirement and gives nothing up.
LEMMA DecisionSafe ==
    ASSUME StaleInv, pc' \in {"choose", "done"},
           UNCHANGED <<apply, known, listed, found, status, closed, absence>>
    PROVE  Retirements'
BY DEF StaleInv, BeforeJudgement, FoundStale, Retiring, VerifiedSoFar, ClosesOnlyStale, Targets

LEMMA FailureSafe ==
    ASSUME StaleInv, CommandFails,
           UNCHANGED <<apply, known, listed, found, status, closed, absence>>
    PROVE  Retirements'
<1>1. pc' \in {"choose", "done"}
    BY CommandFailsTyped DEF StaleInv
<1>. QED
    BY <1>1, DecisionSafe

LEMMA ListSessionsSafe == StaleInv /\ ListSessions => Retirements'
<1>. SUFFICES ASSUME StaleInv, ListSessions PROVE Retirements'
    OBVIOUS
<1>. USE DEF StaleInv, ListSessions, historyVars
<1>1. CASE CommandFails /\ UNCHANGED listed
    BY <1>1, FailureSafe DEF worldVars
<1>2. CASE round = "first" /\ pc' = "done" /\ UNCHANGED listed
    BY <1>2, DecisionSafe
<1>3. CASE round \in {"first", "again"} /\ pc' = "snapshots" /\ round' = round
           /\ todo' = running /\ listed' = (IF round = "first" THEN running ELSE listed)
           /\ seen' = [w \in Workspaces |-> "unlinked"] /\ UNCHANGED decision
    BY <1>3 DEF BeforeJudgement, FoundStale, Retiring, VerifiedSoFar, ClosesOnlyStale
<1>4. CASE round = "verify" /\ running = listed /\ todo' = running /\ pc' = "snapshots"
           /\ round' = round /\ UNCHANGED <<listed, decision>>
    <2>. USE <1>4
    <2>1. \A w \in Targets(current) : SessionOf[w] \in todo'
        BY DEF FoundStale, Targets
    <2>2. VerifiedSoFar'
        BY <2>1 DEF VerifiedSoFar, Targets
    <2>3. FoundStale' /\ ClosesOnlyStale'
        BY DEF FoundStale, ClosesOnlyStale
    <2>4. BeforeJudgement' /\ Retiring'
        BY DEF BeforeJudgement, Retiring
    <2>. QED
        BY <2>2, <2>3, <2>4
<1>5. CASE round = "confirm" /\ pc' = "sessions" /\ round' = "again"
           /\ UNCHANGED <<listed, decision>>
    BY <1>5 DEF BeforeJudgement, FoundStale, Retiring, VerifiedSoFar, ClosesOnlyStale
<1>. QED
    BY <1>1, <1>2, <1>3, <1>4, <1>5 DEF SessionListFails

LEMMA SnapshotSafe ==
    ASSUME StaleInv, NEW s \in Sessions, SnapshotSession(s)
    PROVE  Retirements'
<1>. USE DEF StaleInv, SnapshotSession
<1>1. CASE CommandFails
    BY <1>1, FailureSafe
<1>2. CASE round = "verify" /\ Unchanged(s) /\ VerifySession(s) /\ ~CommandFails
    <2>. USE <1>2
    <2>1. UNCHANGED <<pc, round, decision, observed>> /\ todo' = todo \ {s}
        BY DEF VerifySession
    <2>2. \A w \in Targets(current) : SessionOf[w] = s => Verified(w)'
        <3>. SUFFICES ASSUME NEW w \in Targets(current), SessionOf[w] = s PROVE Verified(w)'
            OBVIOUS
        <3>1. w \in Workspaces /\ StillIdle(w) /\ PanesIn(w) = observed[w]
            BY DEF Targets, TypeOK, Unchanged
        <3>2. look'[w] = [panes |-> PanesIn(w),
                          idle |-> \A p \in PanesIn(w) : pane[p].act = "quiet"]
            BY <3>1 DEF VerifySession
        <3>3. \A p \in PanesIn(w) : pane[p].act = "quiet"
            BY <3>1 DEF StillIdle
        <3>. QED
            BY <2>1, <3>1, <3>2, <3>3 DEF Verified
    <2>3. \A w \in Targets(current) : SessionOf[w] # s => (Verified(w)' <=> Verified(w))
        BY <2>1 DEF Targets, TypeOK, VerifySession, Verified
    <2>4. VerifiedSoFar'
        BY <2>1, <2>2, <2>3 DEF VerifiedSoFar, Targets
    <2>. QED
        BY <2>1, <2>4 DEF BeforeJudgement, FoundStale, Retiring, ClosesOnlyStale
<1>3. CASE round # "verify" /\ JudgeSession(s) /\ s \in todo
    <2>. USE <1>3 DEF JudgeSession
    <2>1. BeforeJudgement'
        <3>. SUFFICES ASSUME round = "first"
                      PROVE  \A w \in Workspaces : seen'[w] # "unlinked" => SessionOf[w] \in listed
            BY DEF BeforeJudgement
        <3>1. s \in listed
            BY DEF BeforeJudgement
        <3>. QED
            BY <3>1 DEF BeforeJudgement, WorkspacesOf
    <2>. QED
        BY <2>1 DEF FoundStale, Retiring, VerifiedSoFar, ClosesOnlyStale
<1>. QED
    BY <1>1, <1>2, <1>3 DEF VerifySession

LEMMA JudgeSafe == StaleInv /\ Judge => Retirements'
<1>. SUFFICES ASSUME StaleInv, Judge PROVE Retirements'
    OBVIOUS
<1>. USE DEF StaleInv, Judge
<1>1. CASE CommandFails /\ UNCHANGED <<found, status, kept, absence>>
    BY <1>1, FailureSafe
<1>2. CASE pc' = "choose" /\ found' = StaleNow
           /\ absence' = [c \in Checkouts |-> IF c \in StaleCheckouts THEN "held" ELSE "none"]
    <2>. USE <1>2
    <2>1. closed' = {}
        BY DEF BeforeJudgement
    <2>2. FoundStale'
        <3>. SUFFICES ASSUME NEW w \in StaleNow
                      PROVE  /\ CheckoutOf[w] \notin known
                             /\ absence'[CheckoutOf[w]] # "none"
                             /\ SessionOf[w] \in listed
            BY DEF FoundStale
        <3>1. w \in Workspaces /\ seen[w] # "unlinked" /\ CheckoutOf[w] \notin known
            BY DEF StaleNow, Stale
        <3>2. CheckoutOf[w] \in StaleCheckouts /\ CheckoutOf[w] \in Checkouts
            BY <3>1, StaleAssumption DEF StaleCheckouts
        <3>. QED
            BY <3>1, <3>2 DEF BeforeJudgement
    <2>. QED
        BY <2>1, <2>2 DEF BeforeJudgement, Retiring, VerifiedSoFar, ClosesOnlyStale
<1>. QED
    BY <1>1, <1>2

LEMMA ChooseSafe ==
    ASSUME StaleInv, NEW c \in Checkouts, Choose(c)
    PROVE  Retirements'
<1>. USE DEF StaleInv, Choose
<1>1. CASE pc' = "choose"
    BY <1>1, DecisionSafe
<1>2. CASE pc' = "sessions" /\ round' = "verify" /\ status[c] = "clear" /\ apply
           /\ current' = c /\ UNCHANGED decision
    BY <1>2 DEF BeforeJudgement, FoundStale, Retiring, VerifiedSoFar, ClosesOnlyStale, Undecided
<1>. QED
    BY <1>1, <1>2 DEF Decide

LEMMA StartClosingSafe == StaleInv /\ StartClosing => Retirements'
<1>. SUFFICES ASSUME StaleInv, StartClosing PROVE Retirements'
    OBVIOUS
<1>. QED
    BY DEF StaleInv, StartClosing, BeforeJudgement, FoundStale, Retiring, VerifiedSoFar,
        ClosesOnlyStale, Targets, Verified, historyVars

LEMMA AgeKeeps ==
    ASSUME TypeOK, Age
    PROVE  \A c \in Checkouts : absence'[c] = "none" <=> absence[c] = "none"
BY DEF Age, TypeOK

LEMMA CloseSafe ==
    ASSUME StaleInv, NEW w \in Workspaces, CloseWorkspace(w)
    PROVE  Retirements'
<1>. USE DEF StaleInv, CloseWorkspace
<1>1. w \in found /\ CheckoutOf[w] = current /\ current \in Checkouts
    BY DEF VerifiedSoFar, Targets, TypeOK
<1>2. closed' \subseteq closed \cup {w}
    OBVIOUS
<1>3. \A c \in Checkouts : absence'[c] = "none" <=> absence[c] = "none"
    BY AgeKeeps
<1>4. \A v \in Workspaces : CheckoutOf[v] \in Checkouts
    BY StaleAssumption
<1>5. FoundStale'
    BY <1>3, <1>4 DEF FoundStale, TypeOK
<1>6. ClosesOnlyStale'
    BY <1>1, <1>2, <1>3, <1>4 DEF ClosesOnlyStale, FoundStale, Retiring, TypeOK
<1>7. BeforeJudgement' /\ Retiring' /\ VerifiedSoFar'
    BY DEF BeforeJudgement, Retiring, VerifiedSoFar, Targets, Verified
<1>. QED
    BY <1>5, <1>6, <1>7

LEMMA OthersSafe == StaleInv /\ OthersAct => Retirements'
<1>. SUFFICES ASSUME StaleInv, OthersAct PROVE Retirements'
    OBVIOUS
<1>. USE DEF StaleInv, OthersAct
<1>1. \A c \in Checkouts : absence'[c] = "none" <=> absence[c] = "none"
    BY AgeKeeps
<1>2. \A v \in Workspaces : CheckoutOf[v] \in Checkouts
    BY StaleAssumption
<1>3. FoundStale' /\ ClosesOnlyStale'
    BY <1>1, <1>2 DEF FoundStale, ClosesOnlyStale, TypeOK
<1>4. BeforeJudgement' /\ Retiring' /\ VerifiedSoFar'
    BY DEF BeforeJudgement, Retiring, VerifiedSoFar, Targets, Verified, Age
<1>. QED
    BY <1>3, <1>4

LEMMA StepStale == StaleInv /\ [Next]_vars => StaleInv'
<1>. SUFFICES ASSUME StaleInv, [Next]_vars PROVE StaleInv'
    OBVIOUS
<1>1. TypeOK'
    BY StepTyped DEF StaleInv
<1>2. CASE UNCHANGED vars
    BY <1>1, <1>2 DEF StaleInv, vars, BeforeJudgement, FoundStale, Retiring, VerifiedSoFar,
        ClosesOnlyStale, Targets, Verified
<1>3. CASE JudgeAgain
    <2>1. pc' \in {"choose", "done"}
        BY <1>3, CommandFailsTyped DEF StaleInv, JudgeAgain, Decide
    <2>. QED
        BY <1>1, <1>3, <2>1, DecisionSafe DEF StaleInv, JudgeAgain, historyVars
<1>4. CASE AllDecided
    BY <1>1, <1>4, DecisionSafe DEF StaleInv, AllDecided, historyVars
<1>. QED
    BY <1>1, <1>2, <1>3, <1>4, ListSessionsSafe, SnapshotSafe, JudgeSafe, ChooseSafe,
       StartClosingSafe, CloseSafe, OthersSafe DEF StaleInv, Next, LopStep, Finished

LEMMA StaleInvariant == Spec => []StaleInv
<1>1. Init => StaleInv
    BY InitTyped, InitStale DEF StaleInv
<1>. QED
    BY <1>1, StepStale, PTL DEF Spec

\* Whatever others do in between, lop closes only workspaces of checkouts the
\* inventory did not list, that were gone when judged and clear in every
\* session, and only with --yes (retire_stale_workspace).
THEOREM StaleOnly == Spec => []ClosesOnlyStale
<1>1. StaleInv => ClosesOnlyStale
    BY DEF StaleInv
<1>. QED
    BY <1>1, StaleInvariant, PTL

VerifiedStep ==
    \A w \in closed' \ closed :
        /\ CheckoutOf[w] = current
        /\ look[w].idle /\ look[w].panes = observed[w]

\* Every workspace is closed as the last verification showed it, idle and with
\* the panes it was judged by (verify_coordination_unchanged).
THEOREM VerifiedOnly == Spec => ClosesOnlyVerified
<1>1. ASSUME StaleInv, [Next]_vars PROVE [VerifiedStep]_vars
    <2>1. ASSUME NEW w \in Workspaces, CloseWorkspace(w)
          PROVE  VerifiedStep
        <3>1. closed' \subseteq closed \cup {w}
            BY <2>1 DEF CloseWorkspace
        <3>2. w \in Targets(current) /\ Verified(w)
            BY <1>1, <2>1 DEF StaleInv, VerifiedSoFar, CloseWorkspace
        <3>. QED
            BY <3>1, <3>2 DEF VerifiedStep, Verified, Targets
    <2>2. CASE UNCHANGED closed
        BY <2>2 DEF VerifiedStep
    <2>3. \/ \E w \in Workspaces : CloseWorkspace(w)
          \/ UNCHANGED closed
        BY <1>1 DEF Next, LopStep, Finished, vars, ListSessions, SnapshotSession, Judge, Choose,
            StartClosing, JudgeAgain, AllDecided, OthersAct, historyVars
    <2>. QED
        BY <2>1, <2>2, <2>3
<1>. QED
    BY <1>1, StaleInvariant, PTL DEF Spec, ClosesOnlyVerified, VerifiedStep
----------------------------------------------------------------------------
(***************************************************************************)
(* What is reported as retired is gone.  The report rests on a second      *)
(* inspection, whose snapshots others may follow with anything: a          *)
(* workspace that was there all along was there when its session was read. *)
(***************************************************************************)

\* What has been there since the judgement is there, and was found.
KeptExists == kept \subseteq open \cap tagged \cap found

\* A checkout gone all along is gone.
HeldIsAbsent == \A c \in Checkouts : absence[c] = "held" => c \notin onDisk

\* The second inspection has seen whatever was there all along, in the sessions it has read.
SeenAgain ==
    pc = "snapshots" /\ round = "again" =>
        \A w \in kept : SessionOf[w] \in todo \/ seen[w] # "unlinked"

Disappearance == HerdrConsistent /\ KeptExists /\ HeldIsAbsent /\ SeenAgain /\ RetiredIsGone
GoneInv == StaleInv /\ Disappearance

LEMMA InitGone == Init => Disappearance
<1>. SUFFICES ASSUME Init PROVE Disappearance
    OBVIOUS
<1>1. HerdrConsistent
    BY DEF Init
<1>. QED
    BY <1>1 DEF Init, Disappearance, KeptExists, HeldIsAbsent, SeenAgain, RetiredIsGone

\* No step but the report of a retirement breaks the last part: what was kept, gone and
\* targeted only shrinks after the judgement.
LEMMA RetiredStaysGone ==
    ASSUME StaleInv, RetiredIsGone, kept' \subseteq kept, UNCHANGED found,
           \A c \in Checkouts :
                /\ absence'[c] = "held" => absence[c] = "held"
                /\ decision'[c] = "HerdrStaleWorkspaceRetired" =>
                        decision[c] = "HerdrStaleWorkspaceRetired"
    PROVE  RetiredIsGone'
BY DEF RetiredIsGone, Targets

\* A failure is not the report of a retirement.
LEMMA FailureIsNoRetirement ==
    ASSUME StaleInv, \/ CommandFails
                     \/ \E c \in Checkouts, reason \in Reasons \ {"HerdrStaleWorkspaceRetired"} :
                            Decide(c, reason)
    PROVE  \A c \in Checkouts : decision'[c] = "HerdrStaleWorkspaceRetired" =>
                decision[c] = "HerdrStaleWorkspaceRetired"
<1>1. "HerdrStaleWorkspaceFailed" \in Reasons \ {"HerdrStaleWorkspaceRetired"}
    BY DEF Reasons, Counter
<1>. QED
    BY <1>1 DEF StaleInv, TypeOK, CommandFails, Decide

\* A step that leaves Herdr, the disk and the history alone and leads away from the
\* snapshots has nothing else to answer for.
LEMMA LeavingSafe ==
    ASSUME GoneInv, UNCHANGED <<worldVars, kept, absence, found>>, pc' # "snapshots",
           \A c \in Checkouts : decision'[c] = "HerdrStaleWorkspaceRetired" =>
                decision[c] = "HerdrStaleWorkspaceRetired"
    PROVE  Disappearance'
<1>1. RetiredIsGone'
    BY RetiredStaysGone DEF GoneInv, Disappearance
<1>. QED
    BY <1>1 DEF GoneInv, Disappearance, worldVars, HerdrConsistent, KeptExists, HeldIsAbsent,
        SeenAgain

LEMMA ListSessionsGone == GoneInv /\ ListSessions => Disappearance'
<1>. SUFFICES ASSUME GoneInv, ListSessions PROVE Disappearance'
    OBVIOUS
<1>. USE DEF GoneInv, ListSessions, historyVars
<1>1. CASE CommandFails
    <2>1. pc' \in {"choose", "done"}
        BY <1>1, CommandFailsTyped DEF StaleInv
    <2>. QED
        BY <1>1, <2>1, FailureIsNoRetirement, LeavingSafe
<1>2. CASE pc' \in {"sessions", "done"} /\ UNCHANGED decision
    BY <1>2, LeavingSafe
<1>3. CASE pc' = "snapshots" /\ round' = round /\ todo' = running /\ UNCHANGED decision
    <2>. USE <1>3
    <2>1. RetiredIsGone'
        BY RetiredStaysGone DEF Disappearance
    <2>2. SeenAgain'
        <3>1. \A w \in kept : w \in Workspaces /\ SessionOf[w] \in running
            BY DEF Disappearance, KeptExists, HerdrConsistent, StaleInv, TypeOK
        <3>. QED
            BY <3>1 DEF SeenAgain
    <2>. QED
        BY <2>1, <2>2 DEF Disappearance, worldVars, HerdrConsistent, KeptExists, HeldIsAbsent
<1>. QED
    BY <1>1, <1>2, <1>3 DEF SessionListFails

LEMMA SnapshotGone ==
    ASSUME GoneInv, NEW s \in Sessions, SnapshotSession(s)
    PROVE  Disappearance'
<1>. USE DEF GoneInv, SnapshotSession
<1>1. CASE CommandFails
    <2>1. pc' \in {"choose", "done"}
        BY <1>1, CommandFailsTyped DEF StaleInv
    <2>. QED
        BY <1>1, <2>1, FailureIsNoRetirement, LeavingSafe
<1>2. CASE UNCHANGED <<pc, round, decision>> /\ (round = "verify" \/ JudgeSession(s))
    <2>. USE <1>2
    <2>1. RetiredIsGone'
        BY RetiredStaysGone DEF Disappearance
    <2>2. SeenAgain'
        <3>. SUFFICES ASSUME round = "again", NEW w \in kept
                      PROVE  SessionOf[w] \in todo' \/ seen'[w] # "unlinked"
            BY DEF SeenAgain
        <3>1. w \in Workspaces /\ w \in open \cap tagged /\ UNCHANGED <<open, tagged>>
            BY DEF Disappearance, KeptExists, StaleInv, TypeOK, worldVars
        <3>2. SessionOf[w] \in todo \/ seen[w] # "unlinked"
            BY DEF Disappearance, SeenAgain
        <3>3. todo' = todo \ {s}
            BY DEF JudgeSession
        <3>4. CASE SessionOf[w] = s
            <4>1. w \in WorkspacesOf(s)
                BY <3>1, <3>4 DEF WorkspacesOf
            <4>2. PICK verdict \in [WorkspacesOf(s) -> Verdicts] :
                    /\ \A v \in WorkspacesOf(s) : verdict[v] \in StaleVerdicts(v)
                    /\ seen' = [v \in Workspaces |->
                                    IF v \in WorkspacesOf(s) THEN verdict[v] ELSE seen[v]]
                BY DEF JudgeSession
            <4>3. seen'[w] \in StaleVerdicts(w)
                BY <3>1, <4>1, <4>2
            <4>4. "unlinked" \notin StaleVerdicts(w)
                BY <3>1 DEF StaleVerdicts, StalePaneVerdict
            <4>. QED
                BY <4>3, <4>4
        <3>5. CASE SessionOf[w] # s
            <4>1. w \notin WorkspacesOf(s)
                BY <3>5 DEF WorkspacesOf
            <4>. QED
                BY <3>1, <3>2, <3>3, <3>5, <4>1 DEF JudgeSession
        <3>. QED
            BY <3>4, <3>5
    <2>. QED
        BY <2>1, <2>2 DEF Disappearance, worldVars, HerdrConsistent, KeptExists, HeldIsAbsent
<1>. QED
    BY <1>1, <1>2 DEF VerifySession, JudgeSession

LEMMA JudgeGone == GoneInv /\ Judge => Disappearance'
<1>. SUFFICES ASSUME GoneInv, Judge PROVE Disappearance'
    OBVIOUS
<1>. USE DEF GoneInv, Judge
<1>1. CASE CommandFails /\ UNCHANGED <<found, status, kept, absence>>
    <2>1. pc' \in {"choose", "done"}
        BY <1>1, CommandFailsTyped DEF StaleInv
    <2>. QED
        BY <1>1, <2>1, FailureIsNoRetirement, LeavingSafe
<1>2. CASE /\ pc' = "choose" /\ found' = StaleNow /\ UNCHANGED decision
           /\ kept' = StaleNow \cap open \cap tagged
           /\ absence' = [c \in Checkouts |-> IF c \in StaleCheckouts THEN "held" ELSE "none"]
    <2>. USE <1>2
    <2>1. \A c \in StaleCheckouts : c \notin onDisk
        BY DEF StaleCheckouts, StaleNow, Stale
    <2>2. HeldIsAbsent'
        BY <2>1 DEF HeldIsAbsent, worldVars
    <2>3. RetiredIsGone'
        BY DEF RetiredIsGone, StaleInv, BeforeJudgement
    <2>. QED
        BY <2>2, <2>3 DEF Disappearance, worldVars, HerdrConsistent, KeptExists, SeenAgain
<1>. QED
    BY <1>1, <1>2

LEMMA ChooseGone ==
    ASSUME GoneInv, NEW c \in Checkouts, Choose(c)
    PROVE  Disappearance'
<1>. USE DEF GoneInv, Choose
<1>1. CASE pc' = "sessions" /\ UNCHANGED decision
    BY <1>1, LeavingSafe
<1>2. CASE \E reason \in Reasons \ {"HerdrStaleWorkspaceRetired"} : Decide(c, reason)
    <2>1. pc' = "choose"
        BY <1>2 DEF Decide
    <2>. QED
        BY <1>2, <2>1, FailureIsNoRetirement, LeavingSafe
<1>3. {"HerdrStaleWorkspacePending", "HerdrFocusedPane", "HerdrActiveAgent"} \subseteq
            Reasons \ {"HerdrStaleWorkspaceRetired"}
    BY DEF Reasons, Counter
<1>. QED
    BY <1>1, <1>2, <1>3

LEMMA AgeShrinks ==
    ASSUME TypeOK, KeptExists, Age, UNCHANGED found
    PROVE  /\ kept' \subseteq kept /\ KeptExists' /\ HeldIsAbsent'
           /\ \A c \in Checkouts : absence'[c] = "held" => absence[c] = "held"
BY DEF Age, TypeOK, KeptExists, HeldIsAbsent

LEMMA CloseGone ==
    ASSUME GoneInv, NEW w \in Workspaces, CloseWorkspace(w)
    PROVE  Disappearance'
<1>. USE DEF GoneInv, CloseWorkspace
<1>1. HerdrConsistent'
    <2>1. CASE WithoutWorkspaces({w})
        BY <2>1, WithoutConsistent DEF Disappearance, StaleInv, TypeOK
    <2>2. CASE UNCHANGED <<open, tagged, pane>>
        BY <2>2 DEF Disappearance, HerdrConsistent
    <2>. QED
        BY <2>1, <2>2
<1>2. KeptExists' /\ HeldIsAbsent' /\ RetiredIsGone'
    BY AgeShrinks, RetiredStaysGone DEF Disappearance, StaleInv
<1>3. pc' # "snapshots"
    OBVIOUS
<1>. QED
    BY <1>1, <1>2, <1>3 DEF Disappearance, SeenAgain

LEMMA JudgeAgainGone == GoneInv /\ JudgeAgain => Disappearance'
<1>. SUFFICES ASSUME GoneInv, JudgeAgain PROVE Disappearance'
    OBVIOUS
<1>. USE DEF GoneInv, JudgeAgain, historyVars
<1>1. CASE CommandFails
    <2>1. pc' \in {"choose", "done"}
        BY <1>1, CommandFailsTyped DEF StaleInv
    <2>. QED
        BY <1>1, <2>1, FailureIsNoRetirement, LeavingSafe
<1>2. CASE Decide(current, "HerdrStaleWorkspaceFailed")
    <2>1. "HerdrStaleWorkspaceFailed" \in Reasons \ {"HerdrStaleWorkspaceRetired"}
          /\ current \in Checkouts /\ pc' = "choose"
        BY <1>2 DEF Reasons, Counter, StaleInv, TypeOK, Decide
    <2>. QED
        BY <1>2, <2>1, FailureIsNoRetirement, LeavingSafe
<1>3. CASE Decide(current, "HerdrStaleWorkspaceRetired") /\ current \notin StaleCheckouts
    <2>. USE <1>3
    <2>1. pc' = "choose"
          /\ decision' = [decision EXCEPT ![current] = "HerdrStaleWorkspaceRetired"]
        BY DEF Decide
    <2>2. ASSUME absence[current] = "held", NEW w \in kept, w \in Targets(current)
          PROVE  FALSE
        <3>1. w \in Workspaces /\ CheckoutOf[w] = current /\ current \notin known
            BY <2>2 DEF Targets, StaleInv, TypeOK, FoundStale
        <3>2. current \notin onDisk
            BY <2>2 DEF Disappearance, HeldIsAbsent, StaleInv, TypeOK
        <3>3. seen[w] # "unlinked"
            BY <2>2 DEF Disappearance, SeenAgain
        <3>4. w \in StaleNow
            BY <3>1, <3>2, <3>3 DEF StaleNow, Stale
        <3>. QED
            BY <3>1, <3>4 DEF StaleCheckouts
    <2>3. RetiredIsGone'
        <3>. SUFFICES ASSUME NEW c \in Checkouts, absence[c] = "held",
                             decision'[c] = "HerdrStaleWorkspaceRetired"
                      PROVE  kept \cap Targets(c) = {}
            BY DEF RetiredIsGone, Targets
        <3>1. CASE c = current
            BY <2>2, <3>1
        <3>2. CASE c # current
            BY <2>1, <3>2 DEF Disappearance, RetiredIsGone, StaleInv, TypeOK
        <3>. QED
            BY <3>1, <3>2
    <2>. QED
        BY <2>1, <2>3 DEF Disappearance, worldVars, HerdrConsistent, KeptExists, HeldIsAbsent,
            SeenAgain
<1>. QED
    BY <1>1, <1>2, <1>3

LEMMA OthersGone == GoneInv /\ OthersAct => Disappearance'
<1>. SUFFICES ASSUME GoneInv, OthersAct PROVE Disappearance'
    OBVIOUS
<1>. USE DEF GoneInv, OthersAct
<1>1. HerdrConsistent'
    <2>1. CASE HerdrUserStep
        BY <2>1, HerdrUserStepConsistent DEF Disappearance, StaleInv, TypeOK
    <2>2. CASE UNCHANGED herdrVars
        BY <2>2 DEF Disappearance, HerdrConsistent, herdrVars
    <2>. QED
        BY <2>1, <2>2
<1>2. KeptExists' /\ HeldIsAbsent' /\ RetiredIsGone' /\ kept' \subseteq kept
    BY AgeShrinks, RetiredStaysGone DEF Disappearance, StaleInv
<1>3. SeenAgain'
    BY <1>2 DEF Disappearance, SeenAgain
<1>. QED
    BY <1>1, <1>2, <1>3 DEF Disappearance

LEMMA StepGone == GoneInv /\ [Next]_vars => GoneInv'
<1>. SUFFICES ASSUME GoneInv, [Next]_vars PROVE GoneInv'
    OBVIOUS
<1>1. StaleInv'
    BY StepStale DEF GoneInv
<1>2. CASE UNCHANGED vars
    BY <1>1, <1>2 DEF GoneInv, Disappearance, vars, HerdrConsistent, KeptExists, HeldIsAbsent,
        SeenAgain, RetiredIsGone, Targets
<1>3. CASE StartClosing
    BY <1>1, <1>3, LeavingSafe DEF GoneInv, StartClosing, historyVars
<1>4. CASE AllDecided
    BY <1>1, <1>4, LeavingSafe DEF GoneInv, AllDecided, historyVars
<1>. QED
    BY <1>1, <1>2, <1>3, <1>4, ListSessionsGone, SnapshotGone, JudgeGone, ChooseGone, CloseGone,
       JudgeAgainGone, OthersGone DEF GoneInv, Next, LopStep, Finished

\* A checkout reported as retired, gone from disk all along, has no workspace
\* left that was open since it was judged, although lop judges the workspaces
\* once and others go on using Herdr (retire_stale_workspace).
THEOREM RetiredSound == Spec => []RetiredIsGone
<1>1. Init => GoneInv
    BY InitTyped, InitStale, InitGone DEF StaleInv, GoneInv
<1>2. GoneInv => RetiredIsGone
    BY DEF GoneInv, Disappearance
<1>. QED
    BY <1>1, <1>2, StepGone, PTL DEF Spec
----------------------------------------------------------------------------
(***************************************************************************)
(* Each checkout is reported once.  The counters of those reported and the *)
(* number of those left add up to the number judged, at every step.        *)
(***************************************************************************)

Judged == {c \in Checkouts : status[c] # "none"}
Reported == summary["candidates"] + summary["refusals"] + summary["removals"]

\* lop is busy retiring the current checkout.
InRetirement == pc = "close" \/ (pc \in {"sessions", "snapshots"} /\ round # "first")

\* What lop has closed is being retired, or was reported as such.
ClosedIsReported ==
    \A w \in closed :
        \/ decision[CheckoutOf[w]] \in {"HerdrStaleWorkspaceRetired", "HerdrStaleWorkspaceFailed"}
        \/ InRetirement /\ CheckoutOf[w] = current

Tally ==
    /\ pc = "done" => Undecided = {}
    /\ summary["worktrees_inspected"] = Cardinality(Judged)
    /\ Reported + Cardinality(Undecided) = Cardinality(Judged)
    /\ ClosedIsReported

TallyInv == StaleInv /\ Tally

\* The sets counted are finite.
LEMMA CountsAreNumbers ==
    TypeOK => /\ IsFiniteSet(Judged) /\ IsFiniteSet(Undecided)
              /\ Cardinality(Judged) \in Nat /\ Cardinality(Undecided) \in Nat
              /\ Reported \in Nat
<1>1. Judged \subseteq Checkouts /\ Undecided \subseteq Checkouts
    BY DEF Judged, Undecided
<1>2. IsFiniteSet(Judged) /\ IsFiniteSet(Undecided)
    BY <1>1, StaleAssumption, FS_Subset
<1>3. Cardinality(Judged) \in Nat /\ Cardinality(Undecided) \in Nat
    BY <1>2, FS_CardinalityType
<1>4. TypeOK => Reported \in Nat
    BY DEF TypeOK, Counters, Reported
<1>. QED
    BY <1>2, <1>3, <1>4

LEMMA InitTally == Init => Tally
<1>. SUFFICES ASSUME Init PROVE Tally
    OBVIOUS
<1>1. Judged = {} /\ Undecided = {} /\ closed = {}
    BY DEF Init, Judged, Undecided
<1>2. Reported = 0 /\ summary["worktrees_inspected"] = 0
    BY DEF Init, Reported, Counters
<1>3. Cardinality({}) = 0
    BY FS_EmptySet
<1>. QED
    BY <1>1, <1>2, <1>3 DEF Tally, ClosedIsReported

\* A step that reports nothing and does not end the run.
LEMMA QuietTally ==
    ASSUME TallyInv, UNCHANGED <<status, decision, summary, closed, current>>,
           pc' = "done" => Undecided = {}, InRetirement => InRetirement'
    PROVE  Tally'
BY DEF TallyInv, Tally, Judged, Undecided, Reported, ClosedIsReported

\* A report takes its checkout from those left and adds it to one counter.
LEMMA DecideTally ==
    ASSUME TallyInv, NEW c \in Undecided, NEW reason \in Reasons, Decide(c, reason),
           UNCHANGED <<status, closed>>,
           InRetirement =>
                c = current /\ reason \in {"HerdrStaleWorkspaceRetired", "HerdrStaleWorkspaceFailed"}
    PROVE  Tally'
<1>. USE DEF TallyInv, StaleInv
<1>1. c \in Checkouts /\ decision[c] = "none" /\ decision' = [decision EXCEPT ![c] = reason]
    BY DEF Undecided, Decide
<1>2. Undecided' = Undecided \ {c} /\ Judged' = Judged
    <2>1. reason # "none"
        BY DEF Reasons, Counter
    <2>. QED
        BY <1>1, <2>1 DEF Undecided, Judged, TypeOK
<1>3. Cardinality(Undecided') = Cardinality(Undecided) - 1
    BY <1>2, CountsAreNumbers, FS_RemoveElement
<1>4. /\ Reported' = Reported + 1
      /\ summary'["worktrees_inspected"] = summary["worktrees_inspected"]
    <2>1. Counter[reason] \in {"candidates", "refusals", "removals"}
        BY DEF Counter, Reasons
    <2>2. summary' = [summary EXCEPT ![Counter[reason]] = @ + 1,
                                     !["operational_failures"] =
                                    @ + (IF reason = "HerdrStaleWorkspaceFailed" THEN 1 ELSE 0)]
        BY DEF Decide
    <2>3. summary \in [Counters -> Nat]
        BY DEF TypeOK
    <2>. QED
        BY <2>1, <2>2, <2>3 DEF Reported, Counters
<1>5. ClosedIsReported'
    <2>. SUFFICES ASSUME NEW w \in closed
                  PROVE  decision'[CheckoutOf[w]] \in
                            {"HerdrStaleWorkspaceRetired", "HerdrStaleWorkspaceFailed"}
        BY DEF ClosedIsReported
    <2>1. w \in Workspaces /\ CheckoutOf[w] \in Checkouts
        BY StaleAssumption DEF TypeOK
    <2>. QED
        BY <1>1, <2>1 DEF Tally, ClosedIsReported, TypeOK
<1>6. pc' = "choose"
    BY DEF Decide
<1>. QED
    BY <1>2, <1>3, <1>4, <1>5, <1>6, CountsAreNumbers DEF Tally

\* A command that fails ends the run before anything was judged, or reports a failure.
LEMMA FailureTally ==
    ASSUME TallyInv, CommandFails, pc \in {"sessions", "snapshots"},
           UNCHANGED <<status, closed>>
    PROVE  Tally'
<1>. USE DEF TallyInv, StaleInv
<1>1. CASE round # "first"
    <2>1. current \in Undecided /\ InRetirement
        BY <1>1 DEF Retiring, Undecided, TypeOK, InRetirement
    <2>2. "HerdrStaleWorkspaceFailed" \in Reasons
        BY DEF Reasons, Counter
    <2>. QED
        BY <1>1, <2>1, <2>2, DecideTally DEF CommandFails
<1>2. CASE round = "first"
    <2>1. Undecided = {} /\ closed = {}
        BY <1>2 DEF BeforeJudgement, Undecided
    <2>2. Undecided' = Undecided /\ Judged' = Judged
        BY <1>2 DEF CommandFails, Undecided, Judged
    <2>3. /\ Reported' = Reported
          /\ summary'["worktrees_inspected"] = summary["worktrees_inspected"]
        BY <1>2 DEF CommandFails, Add, Reported, TypeOK, Counters
    <2>. QED
        BY <2>1, <2>2, <2>3 DEF Tally, ClosedIsReported
<1>. QED
    BY <1>1, <1>2

LEMMA ListSessionsTally == TallyInv /\ ListSessions => Tally'
<1>. SUFFICES ASSUME TallyInv, ListSessions PROVE Tally'
    OBVIOUS
<1>. USE DEF ListSessions, historyVars
<1>1. CASE CommandFails
    BY <1>1, FailureTally
<1>2. CASE round = "first" /\ pc' = "done" /\ UNCHANGED <<decision, summary>>
    <2>1. Undecided = {} /\ ~InRetirement
        BY <1>2 DEF TallyInv, StaleInv, BeforeJudgement, Undecided, InRetirement
    <2>. QED
        BY <1>2, <2>1, QuietTally
<1>3. CASE /\ pc' \in {"sessions", "snapshots"} /\ UNCHANGED <<decision, summary>>
           /\ round = "first" \/ round' # "first"
    BY <1>3, QuietTally DEF InRetirement
<1>. QED
    BY <1>1, <1>2, <1>3 DEF SessionListFails

LEMMA SnapshotTally ==
    ASSUME TallyInv, NEW s \in Sessions, SnapshotSession(s)
    PROVE  Tally'
<1>1. CASE CommandFails
    BY <1>1, FailureTally DEF SnapshotSession
<1>2. CASE UNCHANGED <<pc, round, decision, summary>>
    BY <1>2, QuietTally DEF SnapshotSession, InRetirement
<1>. QED
    BY <1>1, <1>2 DEF SnapshotSession, VerifySession, JudgeSession

LEMMA JudgeTally == TallyInv /\ Judge => Tally'
<1>. SUFFICES ASSUME TallyInv, Judge PROVE Tally'
    OBVIOUS
<1>. USE DEF TallyInv, StaleInv
<1>1. CASE CommandFails /\ UNCHANGED status
    BY <1>1, FailureTally DEF Judge
<1>2. CASE /\ status' = [c \in Checkouts |->
                            IF c \in StaleCheckouts THEN MergedStatus(c) ELSE "none"]
           /\ Add("worktrees_inspected", Cardinality(StaleCheckouts))
           /\ pc' = "choose" /\ UNCHANGED decision
    <2>1. Judged = {} /\ closed = {} /\ \A c \in Checkouts : decision[c] = "none"
        BY DEF Judge, BeforeJudgement, Judged
    <2>2. Undecided = {} /\ Cardinality({}) = 0
        BY <2>1, FS_EmptySet DEF Judged, Undecided
    <2>3. StaleCheckouts \subseteq Checkouts
        BY StaleAssumption DEF StaleCheckouts, StaleNow
    <2>4. \A c \in Checkouts : MergedStatus(c) # "none"
        BY DEF MergedStatus
    <2>5. Judged' = StaleCheckouts /\ Undecided' = StaleCheckouts
        BY <1>2, <2>1, <2>3, <2>4 DEF Judged, Undecided
    <2>6. Cardinality(StaleCheckouts) \in Nat
        BY <2>3, StaleAssumption, FS_Subset, FS_CardinalityType
    <2>7. Reported' = Reported /\ Reported = 0
          /\ summary'["worktrees_inspected"] = Cardinality(StaleCheckouts)
        <3>1. summary' = [summary EXCEPT !["worktrees_inspected"] = @ + Cardinality(StaleCheckouts)]
            BY <1>2 DEF Add
        <3>2. summary \in [Counters -> Nat] /\ summary["worktrees_inspected"] = 0
            BY <2>1, <2>2 DEF TypeOK, Tally
        <3>3. Reported = 0
            BY <2>1, <2>2, CountsAreNumbers DEF Tally
        <3>. QED
            BY <2>6, <3>1, <3>2, <3>3 DEF Reported, Counters
    <2>8. ClosedIsReported' /\ pc' # "done"
        BY <1>2, <2>1 DEF Judge, ClosedIsReported
    <2>. QED
        BY <2>5, <2>6, <2>7, <2>8 DEF Tally
<1>. QED
    BY <1>1, <1>2 DEF Judge

LEMMA ChooseTally ==
    ASSUME TallyInv, NEW c \in Checkouts, Choose(c)
    PROVE  Tally'
<1>. USE DEF Choose
<1>1. c \in Undecided /\ ~InRetirement
    BY DEF InRetirement
<1>2. CASE \E reason \in Reasons : Decide(c, reason)
    BY <1>1, <1>2, DecideTally
<1>3. CASE pc' = "sessions" /\ round' = "verify" /\ UNCHANGED <<decision, summary>>
    BY <1>1, <1>3 DEF TallyInv, Tally, Judged, Undecided, Reported, ClosedIsReported
<1>4. {"HerdrStaleWorkspacePending", "HerdrFocusedPane", "HerdrActiveAgent"} \subseteq Reasons
    BY DEF Reasons, Counter
<1>. QED
    BY <1>2, <1>3, <1>4

LEMMA CloseTally ==
    ASSUME TallyInv, NEW w \in Workspaces, CloseWorkspace(w)
    PROVE  Tally'
<1>. USE DEF TallyInv, StaleInv, CloseWorkspace
<1>1. CheckoutOf[w] = current /\ closed' \subseteq closed \cup {w}
    BY DEF VerifiedSoFar, Targets
<1>2. InRetirement' /\ pc' # "done"
    BY DEF InRetirement, VerifiedSoFar
<1>3. ClosedIsReported'
    BY <1>1, <1>2 DEF Tally, ClosedIsReported
<1>. QED
    BY <1>2, <1>3 DEF Tally, Judged, Undecided, Reported

LEMMA JudgeAgainTally == TallyInv /\ JudgeAgain => Tally'
<1>. SUFFICES ASSUME TallyInv, JudgeAgain PROVE Tally'
    OBVIOUS
<1>. USE DEF JudgeAgain, historyVars
<1>1. CASE CommandFails
    BY <1>1, FailureTally
<1>2. CASE \E reason \in {"HerdrStaleWorkspaceRetired", "HerdrStaleWorkspaceFailed"} :
                Decide(current, reason)
    <2>1. {"HerdrStaleWorkspaceRetired", "HerdrStaleWorkspaceFailed"} \subseteq Reasons
        BY DEF Reasons, Counter
    <2>2. current \in Undecided
        BY DEF TallyInv, StaleInv, Retiring, Undecided, TypeOK
    <2>. QED
        BY <1>2, <2>1, <2>2, DecideTally
<1>. QED
    BY <1>1, <1>2

LEMMA StepTally == TallyInv /\ [Next]_vars => TallyInv'
<1>. SUFFICES ASSUME TallyInv, [Next]_vars PROVE TallyInv'
    OBVIOUS
<1>1. StaleInv'
    BY StepStale DEF TallyInv
<1>2. CASE UNCHANGED vars
    <2>1. pc' = "done" => Undecided = {}
        BY <1>2 DEF TallyInv, Tally, vars
    <2>. QED
        BY <1>1, <1>2, <2>1, QuietTally DEF TallyInv, vars, InRetirement
<1>3. CASE StartClosing
    BY <1>1, <1>3, QuietTally DEF TallyInv, StartClosing, historyVars, InRetirement
<1>4. CASE AllDecided
    BY <1>1, <1>4, QuietTally DEF TallyInv, AllDecided, historyVars, InRetirement
<1>5. CASE OthersAct
    <2>1. pc' = "done" => Undecided = {}
        BY <1>5 DEF TallyInv, Tally, OthersAct
    <2>. QED
        BY <1>1, <1>5, <2>1, QuietTally DEF TallyInv, OthersAct, InRetirement
<1>. QED
    BY <1>1, <1>2, <1>3, <1>4, <1>5, ListSessionsTally, SnapshotTally, JudgeTally, ChooseTally,
       CloseTally, JudgeAgainTally DEF TallyInv, Next, LopStep, Finished

\* When the stale workspaces of a repository are done with, each checkout was
\* reported once, the counters add up, and what lop closed is reported as
\* retired or failed, whichever command failed (reconcile_stale_herdr_workspaces).
THEOREM ReportedSound == Spec => []ReportedOnce
<1>1. Init => TallyInv
    BY InitTyped, InitStale, InitTally DEF StaleInv, TallyInv
<1>2. TallyInv => ReportedOnce
    <2>. SUFFICES ASSUME TallyInv, pc = "done" PROVE ReportedOnce
        BY DEF ReportedOnce
    <2>1. Undecided = {} /\ ~InRetirement /\ Cardinality({}) = 0
        BY FS_EmptySet DEF TallyInv, Tally, InRetirement
    <2>. QED
        BY <2>1, CountsAreNumbers DEF TallyInv, StaleInv, Tally, ReportedOnce, Judged, Reported,
            ClosedIsReported
<1>. QED
    BY <1>1, <1>2, StepTally, PTL DEF Spec

----------------------------------------------------------------------------
(***************************************************************************)
(* Absence from Git.  AbsentFromGit is false after an inspection that      *)
(* failed.  It takes that, or a worktree added after the inventory.        *)
(***************************************************************************)

InventoryIsRead == InventoryRead = {TRUE}
NoneAdded == [][registered' \subseteq registered]_vars

\* When the inventory was read and no worktree is added meanwhile, no workspace lop closes is
\* one of a worktree Git still lists.
THEOREM StaleIsAbsent == InventoryIsRead => (Spec /\ NoneAdded => []AbsentFromGit)
<1>. SUFFICES ASSUME InventoryIsRead
              PROVE  Spec /\ NoneAdded => []AbsentFromGit
    OBVIOUS
<1>. DEFINE Listed == registered \subseteq known
<1>1. Init => Listed
    BY Zenon DEF Init, InventoryIsRead
<1>2. Listed /\ [Next]_vars /\ [registered' \subseteq registered]_vars => Listed'
    <2>1. [Next]_vars => UNCHANGED known
        BY DEF Next, LopStep, ListSessions, SnapshotSession, Judge, Choose, StartClosing,
            CloseWorkspace, JudgeAgain, AllDecided, OthersAct, Finished, vars
    <2>2. [registered' \subseteq registered]_vars => registered' \subseteq registered
        BY DEF vars
    <2>. QED
        BY <2>1, <2>2
<1>3. StaleInv /\ Listed => AbsentFromGit
    BY DEF StaleInv, ClosesOnlyStale, AbsentFromGit
<1>. HIDE DEF Listed
<1>. QED
    BY <1>1, <1>2, <1>3, StaleInvariant, PTL DEF Spec, NoneAdded

----------------------------------------------------------------------------
(***************************************************************************)
(* Progress, however often others change something: every step of lop ends *)
(* the judgement, or decides a checkout, or leaves fewer places of a       *)
(* retirement ahead, or fewer sessions or workspaces at the present one.   *)
(***************************************************************************)

Judging == round = "first" /\ pc \in {"sessions", "snapshots"}

\* How many places there are between this one and the next decision.
Ahead ==
    CASE pc = "done" -> 0
      [] pc = "snapshots" -> [again |-> 1, confirm |-> 1, verify |-> 5, first |-> 8][round]
      [] pc = "sessions" -> [again |-> 2, confirm |-> 3, verify |-> 6, first |-> 9][round]
      [] pc = "close" -> 4
      [] pc = "choose" -> 7

Less(S, T) == S \subseteq T /\ S # T

Nearer ==
    \/ Judging /\ ~Judging'
    \/ /\ Judging' => Judging
       /\ \/ Less(Undecided', Undecided)
          \/ Undecided' = Undecided /\ Ahead' < Ahead
          \/ Undecided' = Undecided /\ Ahead' = Ahead /\ Less(todo', todo)

\* What a step that decides nothing has to show.
LEMMA CloserIsNearer ==
    ASSUME UNCHANGED <<status, decision>>, Judging' => Judging,
           Ahead' < Ahead \/ (Ahead' = Ahead /\ Less(todo', todo))
    PROVE  Nearer
BY DEF Nearer, Undecided

\* A decision is nearer the end than any place of a retirement.
LEMMA DecisionIsNearer ==
    ASSUME TypeOK, NEW c \in Undecided, NEW reason \in Reasons, Decide(c, reason), UNCHANGED status
    PROVE  Nearer
<1>1. decision'[c] # "none" /\ \A d \in Checkouts : d # c => decision'[d] = decision[d]
    BY DEF TypeOK, Decide, Undecided, Reasons, Counter
<1>2. Less(Undecided', Undecided)
    BY <1>1 DEF Undecided, Less
<1>3. ~Judging'
    BY DEF Decide, Goto, Judging
<1>. QED
    BY <1>2, <1>3 DEF Nearer

\* So is a failure.
LEMMA FailureIsNearer ==
    ASSUME StaleInv, pc \in {"sessions", "snapshots"}, CommandFails, UNCHANGED status
    PROVE  Nearer
<1>1. CASE round = "first"
    <2>1. Judging /\ ~Judging'
        BY <1>1 DEF CommandFails, Goto, Judging
    <2>. QED
        BY <2>1 DEF Nearer
<1>2. CASE round # "first"
    <2>1. "HerdrStaleWorkspaceFailed" \in Reasons
        BY DEF Reasons, Counter
    <2>2. current \in Undecided
        BY <1>2 DEF StaleInv, TypeOK, Retiring, Undecided
    <2>. QED
        BY <1>2, <2>1, <2>2, DecisionIsNearer DEF CommandFails, StaleInv
<1>. QED
    BY <1>1, <1>2

\* A list of sessions leads to their snapshots, past them or to a failure.
LEMMA ListSessionsIsNearer == StaleInv /\ ListSessions => Nearer
<1>. SUFFICES ASSUME StaleInv, ListSessions PROVE Nearer
    OBVIOUS
<1>. pc = "sessions" /\ UNCHANGED status
    BY DEF ListSessions
<1>1. CASE CommandFails
    BY <1>1, FailureIsNearer
<1>2. CASE round = "first" /\ pc' = "done"
    BY <1>2 DEF Nearer, Judging
<1>3. CASE UNCHANGED <<decision, round>> /\ pc' = "snapshots"
    <2>1. round \in Rounds
        BY DEF StaleInv, TypeOK, Rounds
    <2>2. Ahead' < Ahead
        BY <1>3, <2>1 DEF Ahead, Rounds
    <2>. QED
        BY <1>3, <2>2, CloserIsNearer DEF Judging
<1>4. CASE UNCHANGED decision /\ round = "confirm" /\ pc' = "sessions" /\ round' = "again"
    <2>1. Ahead' = 2 /\ Ahead = 3
        BY <1>4 DEF Ahead
    <2>. QED
        BY <1>4, <2>1, CloserIsNearer DEF Judging
<1>. QED
    BY <1>1, <1>2, <1>3, <1>4 DEF ListSessions, SessionListFails, Goto

\* A snapshot leaves one session less.
LEMMA SnapshotIsNearer ==
    ASSUME StaleInv, NEW s \in Sessions, SnapshotSession(s)
    PROVE  Nearer
<1>. pc = "snapshots" /\ s \in todo /\ UNCHANGED status
    BY DEF SnapshotSession
<1>1. CASE CommandFails
    BY <1>1, FailureIsNearer
<1>2. CASE UNCHANGED <<decision, pc, round>> /\ todo' = todo \ {s}
    <2>1. Ahead' = Ahead /\ Less(todo', todo)
        BY <1>2 DEF Ahead, Less
    <2>. QED
        BY <1>2, <2>1, CloserIsNearer DEF Judging
<1>. QED
    BY <1>1, <1>2 DEF SnapshotSession, VerifySession, JudgeSession

\* The judgements end an inspection, and a choice ends or begins a retirement.
LEMMA JudgementIsNearer ==
    ASSUME StaleInv, Judge \/ JudgeAgain \/ \E c \in Checkouts : Choose(c)
    PROVE  Nearer
<1>1. CASE Judge
    <2>1. Judging
        BY <1>1 DEF Judge, Judging
    <2>2. pc' \in {"choose", "done"}
        BY <1>1, CommandFailsTyped DEF Judge, Goto, StaleInv
    <2>. QED
        BY <2>1, <2>2 DEF Nearer, Judging
<1>2. CASE JudgeAgain
    <2>1. /\ pc = "snapshots" /\ UNCHANGED status
          /\ \/ CommandFails
             \/ Decide(current, "HerdrStaleWorkspaceFailed")
             \/ Decide(current, "HerdrStaleWorkspaceRetired")
        BY <1>2 DEF JudgeAgain
    <2>2. current \in Undecided
        BY <1>2 DEF JudgeAgain, StaleInv, TypeOK, Retiring, Undecided
    <2>3. {"HerdrStaleWorkspaceFailed", "HerdrStaleWorkspaceRetired"} \subseteq Reasons
        BY DEF Reasons, Counter
    <2>. QED
        BY <2>1, <2>2, <2>3, FailureIsNearer, DecisionIsNearer DEF StaleInv
<1>3. ASSUME NEW c \in Checkouts, Choose(c)
      PROVE  Nearer
    <2>1. {"HerdrStaleWorkspacePending", "HerdrFocusedPane", "HerdrActiveAgent"} \subseteq Reasons
        BY DEF Reasons, Counter
    <2>2. c \in Undecided /\ UNCHANGED status /\ pc = "choose"
        BY <1>3 DEF Choose
    <2>3. CASE \E reason \in Reasons : Decide(c, reason)
        BY <2>2, <2>3, DecisionIsNearer DEF StaleInv
    <2>4. CASE UNCHANGED decision /\ pc' = "sessions" /\ round' = "verify"
        <3>1. Ahead' = 6 /\ Ahead = 7
            BY <2>2, <2>4 DEF Ahead
        <3>. QED
            BY <2>2, <2>4, <3>1, CloserIsNearer DEF Judging
    <2>. QED
        BY <1>3, <2>1, <2>3, <2>4 DEF Choose, Goto
<1>. QED
    BY <1>1, <1>2, <1>3

\* Closing leaves one workspace less, until the sessions are compared.
LEMMA ClosingIsNearer ==
    ASSUME StaleInv, StartClosing \/ \E w \in Workspaces : CloseWorkspace(w)
    PROVE  Nearer
<1>1. CASE StartClosing
    <2>1. Ahead' = 4 /\ Ahead = 5 /\ ~Judging'
        BY <1>1 DEF StartClosing, Goto, Ahead, Judging
    <2>. QED
        BY <1>1, <2>1, CloserIsNearer DEF StartClosing
<1>2. ASSUME NEW w \in Workspaces, CloseWorkspace(w)
      PROVE  Nearer
    <2>1. /\ pc = "close" /\ w \in todo /\ todo' = todo \ {w} /\ UNCHANGED <<status, decision>>
          /\ \/ pc' = "sessions" /\ round' = "confirm"
             \/ UNCHANGED <<pc, round>>
        BY <1>2 DEF CloseWorkspace, Goto
    <2>2. Ahead = 4
        BY <2>1 DEF Ahead
    <2>3. Ahead' \in {3, 4} /\ ~Judging' /\ Less(todo', todo)
        BY <2>1 DEF Ahead, Judging, Less
    <2>. QED
        BY <2>1, <2>2, <2>3, CloserIsNearer
<1>. QED
    BY <1>1, <1>2

\* lop has something to go on with: sessions to snapshot or all of them seen, and a workspace
\* to close for every checkout it judged.
CanGoOn ==
    /\ pc = "close" => todo # {} /\ todo \subseteq Workspaces
    /\ pc = "snapshots" => todo \subseteq Sessions /\ round # "confirm"
    /\ \A c \in Checkouts : status[c] # "none" => Targets(c) # {}

\* No step leaves lop with nothing to go on with.
LEMMA CanGoOnStep == StaleInv /\ CanGoOn /\ [Next]_vars => CanGoOn'
<1>. SUFFICES ASSUME StaleInv, CanGoOn, [Next]_vars PROVE CanGoOn'
    OBVIOUS
<1>1. CASE UNCHANGED <<found, status, todo, pc, round>>
    BY <1>1 DEF CanGoOn, Targets
<1>2. CASE UNCHANGED <<found, status>> /\ pc' \notin {"snapshots", "close"}
    BY <1>2 DEF CanGoOn, Targets
<1>3. CommandFails => pc' \notin {"snapshots", "close"}
    BY CommandFailsTyped DEF StaleInv
<1>4. CASE ListSessions
    <2>1. running \subseteq Sessions
        BY DEF StaleInv, TypeOK, HerdrTypeOK
    <2>2. UNCHANGED <<found, status>>
        BY <1>4 DEF ListSessions
    <2>3. \/ pc' \notin {"snapshots", "close"}
          \/ pc' = "snapshots" /\ todo' = running /\ round' # "confirm"
        BY <1>3, <1>4 DEF ListSessions, SessionListFails, Goto
    <2>. QED
        BY <1>2, <2>1, <2>2, <2>3 DEF CanGoOn, Targets
<1>5. ASSUME NEW s \in Sessions, SnapshotSession(s)
      PROVE  CanGoOn'
    <2>1. UNCHANGED <<found, status>> /\ pc = "snapshots"
        BY <1>5 DEF SnapshotSession
    <2>2. \/ pc' \notin {"snapshots", "close"}
          \/ UNCHANGED <<pc, round>> /\ todo' = todo \ {s}
        BY <1>3, <1>5 DEF SnapshotSession, VerifySession, JudgeSession
    <2>. QED
        BY <1>2, <2>1, <2>2 DEF CanGoOn, Targets
<1>6. CASE Judge
    <2>1. pc' \notin {"snapshots", "close"}
        BY <1>3, <1>6 DEF Judge, Goto
    <2>2. CASE UNCHANGED <<found, status>>
        BY <1>2, <2>1, <2>2
    <2>3. CASE /\ found' = StaleNow
               /\ status' = [c \in Checkouts |->
                                IF c \in StaleCheckouts THEN MergedStatus(c) ELSE "none"]
        <3>1. ASSUME NEW c \in Checkouts, status'[c] # "none"
              PROVE  Targets(c)' # {}
            <4>1. PICK w \in StaleNow : c = CheckoutOf[w]
                BY <2>3, <3>1 DEF StaleCheckouts
            <4>. QED
                BY <2>3, <4>1 DEF Targets
        <3>. QED
            BY <2>1, <3>1 DEF CanGoOn
    <2>. QED
        BY <1>6, <2>2, <2>3 DEF Judge
<1>7. CASE StartClosing
    <2>1. Targets(current) # {} /\ Targets(current) \subseteq Workspaces
        BY <1>7 DEF StartClosing, StaleInv, TypeOK, Retiring, CanGoOn, Targets
    <2>. QED
        BY <1>7, <2>1 DEF StartClosing, Goto, CanGoOn, Targets
<1>8. ASSUME NEW w \in Workspaces, CloseWorkspace(w)
      PROVE  CanGoOn'
    BY <1>8 DEF CloseWorkspace, Goto, CanGoOn, Targets
<1>9. CASE JudgeAgain \/ AllDecided \/ \E c \in Checkouts : Choose(c)
    <2>1. pc' \notin {"snapshots", "close"} /\ UNCHANGED <<found, status>>
        BY <1>3, <1>9 DEF JudgeAgain, AllDecided, Choose, Decide, Goto
    <2>. QED
        BY <1>2, <2>1
<1>10. CASE OthersAct \/ Finished \/ UNCHANGED vars
    BY <1>1, <1>10 DEF OthersAct, Finished, vars
<1>. QED
    BY <1>4, <1>5, <1>6, <1>7, <1>8, <1>9, <1>10 DEF Next, LopStep

\* Every command brings the end of the reconciliation nearer, whatever it answers, and nothing
\* others do takes lop back: a retirement that fails is not tried again.
THEOREM ReconciliationProgresses ==
    Spec => /\ [][LopStep => Nearer]_vars
            /\ [][OthersAct => UNCHANGED <<Judging, Undecided, Ahead, todo>>]_vars
            /\ []CanGoOn
<1>1. AllDecided => Nearer
    BY CloserIsNearer DEF AllDecided, Goto, Judging, Ahead
<1>2. StaleInv /\ LopStep => Nearer
    BY <1>1, ListSessionsIsNearer, SnapshotIsNearer, JudgementIsNearer, ClosingIsNearer DEF LopStep
<1>3. OthersAct => UNCHANGED <<Judging, Undecided, Ahead, todo>>
    BY DEF OthersAct, Judging, Undecided, Ahead
<1>4. Init => CanGoOn
    BY DEF Init, CanGoOn
<1>. QED
    BY <1>2, <1>3, <1>4, StaleInvariant, CanGoOnStep, PTL DEF Spec
=============================================================================
