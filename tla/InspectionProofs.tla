-------------------------- MODULE InspectionProofs --------------------------
(***************************************************************************)
(* Theorems about Inspection, for any worktrees, branches and commits and  *)
(* any number of changes made by others.                                   *)
(***************************************************************************)
EXTENDS Inspection, TLAPS

Failed == {"none", "Malformed", "WorktrunkFailed", "FetchFailed", "FetchTimedOut"}

\* The steps after a successful fetch and inventory.
Looking == {"next", "upstream", "tracking", "version", "prove"}

\* Where the inspection is, and what has been classified by then.
Position ==
    /\ pc = "fetch" <=> fetched = "pending"
    /\ pc \in {"fetch", "list"} => candidates = {} /\ \A w \in Worktrees : class[w] = "none"
    /\ pc \in Looking => fetched = "ok"
    /\ pc # "done" <=> outcome = "none"
    /\ pc \in {"upstream", "tracking"} => FromInventory(at) = "none" /\ at \notin todo \cup candidates
    /\ pc \in {"version", "prove"} => todo = {}

\* What a candidate is.
Evidence ==
    /\ fetched = "ok" => Branches \ tracking \subseteq gone
    /\ candidates \cap todo = {}
    /\ \A w \in candidates :
        /\ fetched = "ok" /\ listed[w].head \in gone
        /\ FromInventory(w) = "none"
        /\ pc # "done" => class[w] = "IntegrationIndeterminate"

\* Only a candidate is ever integrated, and only in the end.
Integrations ==
    \A w \in Worktrees : class[w] = "Integrated" => pc = "done" /\ w \in candidates

\* A worktree without an answer is still to be looked up, or is an issue.
Answers ==
    pc \in Looking =>
        \A w \in Worktrees \ todo :
            class[w] \in Failed => \/ class[w] = "Malformed" /\ issue
                                   \/ w = at /\ pc \in {"upstream", "tracking"}

InspectionInv ==
    TypeOK /\ Position /\ Evidence /\ Integrations /\ Answers /\ FailsClosed /\ InspectedIsComplete

USE DEF Steps, Fetches, Classes, Outcomes, Goto, Conclude, Worktrees, Failed, Looking

\* A worktree the inventory does not decide is a linked one, on a branch, and fine.
LEMMA OnBranch ==
    ASSUME listed \in [Worktrees -> Records], NEW w \in Worktrees, FromInventory(w) = "none"
    PROVE  w # Main /\ listed[w].mark = "fine" /\ listed[w].head \in Branches
BY DEF FromInventory, Records, Heads, Marks

\* The inventory decides for one of these.
LEMMA DirectClass ==
    ASSUME listed \in [Worktrees -> Records], NEW w \in Worktrees, FromInventory(w) # "none"
    PROVE  FromInventory(w) \in {"MainWorktree", "PrunableWorktree", "LockedWorktree",
                                 "DetachedWorktree", "Malformed"}
BY DEF FromInventory, Records, Heads, Marks

\* The inventory is made of records.
LEMMA InventoryType ==
    ASSUME on \in [Worktrees -> Heads], mark \in [Worktrees -> Marks], tip \in [Branches -> Tips]
    PROVE  Inventory \in [Worktrees -> Records]
<1>1. \A w \in Worktrees : HeadCommit(w) \in Tips
    BY DEF HeadCommit, Tips
<1>. QED
    BY <1>1 DEF Inventory, Records

\* The inspection begins in the invariant, before the fetch.
LEMMA InitInspection == Init => InspectionInv
<1>. SUFFICES ASSUME Init PROVE InspectionInv
    OBVIOUS
<1>1. TypeOK
    <2>1. on \in [Worktrees -> Heads] /\ tip \in [Branches -> Tips] /\ mark \in [Worktrees -> Marks]
        BY DEF Init, Heads, Tips, Marks
    <2>2. listed \in [Worktrees -> Records]
        BY <2>1, InventoryType DEF Init
    <2>3. configured \subseteq Branches /\ tracking \subseteq Branches /\ server \subseteq Branches
        BY DEF Init
    <2>4. merged \subseteq Commits /\ changes \in 0..MaxChanges
        BY InspectionAssumption DEF Init
    <2>5. pc \in Steps /\ fetched \in Fetches /\ outcome \in Outcomes /\ issue \in BOOLEAN
        BY DEF Init
    <2>6. class \in [Worktrees -> Classes] /\ todo \subseteq Worktrees /\ at \in Worktrees
        BY DEF Init
    <2>7. candidates \subseteq Linked /\ gone \subseteq Branches /\ pc = "fetch"
        BY DEF Init
    <2>. QED
        BY <2>1, <2>2, <2>3, <2>4, <2>5, <2>6, <2>7 DEF TypeOK
<1>2. Position /\ Evidence /\ Integrations /\ Answers /\ FailsClosed /\ InspectedIsComplete
    BY DEF Init, Position, Evidence, Integrations, Answers, FailsClosed, InspectedIsComplete
<1>. QED
    BY <1>1, <1>2 DEF InspectionInv

\* Every step of lop's and of others keeps the invariant.
LEMMA StepInspection == InspectionInv /\ [Next]_vars => InspectionInv'
<1>. SUFFICES ASSUME InspectionInv, [Next]_vars PROVE InspectionInv'
    OBVIOUS
<1>. USE DEF InspectionInv
\* The inventory's verdicts change only with the inventory.
<1>0. listed' = listed => \A w \in Worktrees : FromInventory(w)' = FromInventory(w)
    BY DEF FromInventory
<1>1. ASSUME Fetch PROVE InspectionInv'
    <2>1. TypeOK'
        BY <1>1 DEF Fetch, TypeOK, Updated
    <2>2. Position'
        BY <1>1 DEF Fetch, Position
    <2>3. Evidence'
        BY <1>1 DEF Fetch, Position, Evidence
    <2>4. Integrations' /\ Answers' /\ FailsClosed' /\ InspectedIsComplete'
        BY <1>1 DEF Fetch, TypeOK, Position, Integrations, Answers, FailsClosed, InspectedIsComplete
    <2>. QED
        BY <2>1, <2>2, <2>3, <2>4
<1>2. ASSUME List PROVE InspectionInv'
    <2>0. listed' \in [Worktrees -> Records]
        BY <1>2, InventoryType DEF List, TypeOK
    <2>1. TypeOK'
        <3>1. class' \in [Worktrees -> Classes]
            BY <1>2 DEF List, TypeOK, Position
        <3>. QED
            BY <1>2, <2>0, <3>1 DEF List, TypeOK, repoVars
    <2>2. Position'
        BY <1>2 DEF List, TypeOK, Position, repoVars
    <2>3. Evidence'
        BY <1>2 DEF List, Position, Evidence, repoVars
    <2>4. Integrations' /\ Answers' /\ FailsClosed' /\ InspectedIsComplete'
        BY <1>2 DEF List, TypeOK, Position, Integrations, Answers, FailsClosed, InspectedIsComplete
    <2>. QED
        BY <2>1, <2>2, <2>3, <2>4
<1>3. ASSUME NEW w \in Worktrees, ClassifyDirectly(w) PROVE InspectionInv'
    <2>0. FromInventory(w) \in {"MainWorktree", "PrunableWorktree", "LockedWorktree",
                                "DetachedWorktree", "Malformed"}
        BY <1>3, DirectClass DEF ClassifyDirectly, TypeOK
    <2>1. TypeOK'
        BY <1>3, <2>0 DEF ClassifyDirectly, Classify, TypeOK, repoVars
    <2>2. Position'
        BY <1>3 DEF ClassifyDirectly, Position
    <2>3. Evidence'
        BY <1>0, <1>3, <2>0 DEF ClassifyDirectly, Classify, TypeOK, Evidence, repoVars
    <2>4. Integrations' /\ FailsClosed' /\ InspectedIsComplete'
        BY <1>3, <2>0 DEF ClassifyDirectly, Classify, TypeOK, Position, Integrations, FailsClosed,
            InspectedIsComplete
    <2>5. Answers'
        BY <1>3, <2>0 DEF ClassifyDirectly, Classify, TypeOK, Answers
    <2>. QED
        BY <2>1, <2>2, <2>3, <2>4, <2>5
<1>4. ASSUME NEW w \in Worktrees, ReadBranch(w) PROVE InspectionInv'
    <2>1. TypeOK'
        BY <1>4 DEF ReadBranch, LookupFails, Classify, TypeOK, repoVars
    <2>2. Position'
        BY <1>0, <1>4 DEF ReadBranch, Position, Evidence
    <2>3. Evidence'
        BY <1>0, <1>4 DEF ReadBranch, LookupFails, Classify, TypeOK, Evidence, repoVars
    <2>4. Integrations' /\ FailsClosed' /\ InspectedIsComplete'
        BY <1>4 DEF ReadBranch, LookupFails, Classify, TypeOK, Position, Integrations, FailsClosed,
            InspectedIsComplete
    <2>5. Answers'
        BY <1>4 DEF ReadBranch, LookupFails, Classify, TypeOK, Answers
    <2>. QED
        BY <2>1, <2>2, <2>3, <2>4, <2>5
<1>5. ASSUME ReadUpstream PROVE InspectionInv'
    <2>1. TypeOK'
        BY <1>5 DEF ReadUpstream, LookupFails, Classify, TypeOK, repoVars
    <2>2. Position'
        BY <1>0, <1>5 DEF ReadUpstream, TypeOK, Position
    <2>3. Evidence'
        BY <1>0, <1>5 DEF ReadUpstream, LookupFails, Classify, TypeOK, Position, Evidence, repoVars
    <2>4. Integrations' /\ FailsClosed' /\ InspectedIsComplete'
        BY <1>5 DEF ReadUpstream, LookupFails, Classify, TypeOK, Position, Integrations, FailsClosed,
            InspectedIsComplete
    <2>5. Answers'
        BY <1>5 DEF ReadUpstream, LookupFails, Classify, TypeOK, Answers
    <2>. QED
        BY <2>1, <2>2, <2>3, <2>4, <2>5
<1>6. ASSUME ReadTracking PROVE InspectionInv'
    <2>0. at \in Linked /\ listed[at].head \in Branches
        BY <1>6, OnBranch DEF ReadTracking, TypeOK, Position
    <2>1. TypeOK'
        BY <1>6, <2>0 DEF ReadTracking, LookupFails, Classify, TypeOK, repoVars
    <2>2. Position'
        BY <1>6 DEF ReadTracking, Position
    <2>3. Evidence'
        BY <1>0, <1>6, <2>0 DEF ReadTracking, LookupFails, Classify, TypeOK, Position, Evidence,
            repoVars
    <2>4. Integrations' /\ FailsClosed' /\ InspectedIsComplete'
        BY <1>6 DEF ReadTracking, LookupFails, Classify, TypeOK, Position, Integrations, FailsClosed,
            InspectedIsComplete
    <2>5. Answers'
        BY <1>6 DEF ReadTracking, LookupFails, Classify, TypeOK, Answers
    <2>. QED
        BY <2>1, <2>2, <2>3, <2>4, <2>5
<1>7. ASSUME LookedUp PROVE InspectionInv'
    <2>1. TypeOK'
        BY <1>7 DEF LookedUp, Result, TypeOK, Evidence, repoVars
    <2>2. Position'
        BY <1>7 DEF LookedUp, Result, Position
    <2>3. Evidence'
        BY <1>0, <1>7 DEF LookedUp, TypeOK, Evidence, repoVars
    <2>4. Integrations' /\ FailsClosed' /\ InspectedIsComplete'
        BY <1>7 DEF LookedUp, Result, TypeOK, Position, Integrations, Answers, FailsClosed,
            InspectedIsComplete
    <2>5. Answers'
        BY <1>7 DEF LookedUp, Answers
    <2>. QED
        BY <2>1, <2>2, <2>3, <2>4, <2>5
<1>8. ASSUME CheckVersion PROVE InspectionInv'
    <2>1. TypeOK'
        BY <1>8 DEF CheckVersion, ProofsFail, TypeOK, repoVars
    <2>2. Position'
        BY <1>8 DEF CheckVersion, ProofsFail, Position
    <2>3. Evidence'
        BY <1>0, <1>8 DEF CheckVersion, ProofsFail, TypeOK, Evidence, repoVars
    <2>4. Integrations' /\ Answers' /\ FailsClosed' /\ InspectedIsComplete'
        BY <1>8 DEF CheckVersion, ProofsFail, TypeOK, Position, Integrations, Answers, FailsClosed,
            InspectedIsComplete
    <2>. QED
        BY <2>1, <2>2, <2>3, <2>4
<1>9. ASSUME Prove PROVE InspectionInv'
    <2>1. CASE ProofsFail
        BY <1>0, <1>9, <2>1 DEF Prove, ProofsFail, TypeOK, Position, Evidence, Integrations,
            Answers, FailsClosed, InspectedIsComplete, repoVars
    <2>2. CASE /\ class' = [w \in Worktrees |->
                    IF w \in candidates THEN "DefaultBranchUnresolved" ELSE class[w]]
               /\ Conclude(Result)
        BY <1>0, <1>9, <2>2 DEF Prove, Result, TypeOK, Position, Evidence, Integrations,
            Answers, FailsClosed, InspectedIsComplete, repoVars
    <2>3. CASE /\ \E proof \in [candidates -> Classes] :
                    /\ \A w \in candidates : proof[w] \in Verdicts(w)
                    /\ class' = [w \in Worktrees |->
                            IF w \in candidates THEN proof[w] ELSE class[w]]
               /\ Conclude(Result)
        <3>1. PICK proof \in [candidates -> Classes] :
                    /\ \A w \in candidates : proof[w] \in Verdicts(w)
                    /\ class' = [w \in Worktrees |->
                            IF w \in candidates THEN proof[w] ELSE class[w]]
            BY <2>3
        <3>2. \A w \in candidates :
                proof[w] \in {"IntegrationIndeterminate", "Integrated", "NotIntegrated"}
            BY <3>1 DEF Verdicts
        <3>. QED
            BY <1>0, <1>9, <2>3, <3>1, <3>2 DEF Prove, Result, TypeOK, Position, Evidence,
                Integrations, Answers, FailsClosed, InspectedIsComplete, repoVars
    <2>. QED
        BY <1>9, <2>1, <2>2, <2>3 DEF Prove
<1>10. ASSUME OthersAct PROVE InspectionInv'
    <2>1. TypeOK'
        BY <1>10, InspectionAssumption DEF OthersAct, RepositoryChanges, Updated, TypeOK, lopVars,
            Heads, Tips, Marks
    <2>2. Position' /\ Integrations' /\ Answers' /\ FailsClosed' /\ InspectedIsComplete'
        BY <1>0, <1>10 DEF OthersAct, TypeOK, Position, Integrations, Answers, FailsClosed,
            InspectedIsComplete, lopVars
    <2>3. Evidence'
        BY <1>0, <1>10 DEF OthersAct, TypeOK, Evidence, lopVars
    <2>. QED
        BY <2>1, <2>2, <2>3
<1>11. ASSUME UNCHANGED vars PROVE InspectionInv'
    BY <1>0, <1>11 DEF vars, TypeOK, Position, Evidence, Integrations, Answers, FailsClosed,
        InspectedIsComplete
<1>. QED
    BY <1>1, <1>2, <1>3, <1>4, <1>5, <1>6, <1>7, <1>8, <1>9, <1>10, <1>11
    DEF Next, LopStep, Finished

\* What a candidate is, and that only candidates end as integrated, holds at every moment of
\* inspect_repository.
THEOREM InspectionInvariant == Spec => []InspectionInv
<1>. QED
    BY InitInspection, StepInspection, PTL DEF Spec

\* Every reachable state of the inspection of a repository has its types, and Worktrunk is
\* only asked about candidates.
THEOREM TypeCorrect == Spec => []TypeOK
<1>1. InspectionInv => TypeOK
    BY DEF InspectionInv
<1>. QED
    BY <1>1, InspectionInvariant, PTL

\* lop calls a worktree integrated only after a successful fetch, and only if the upstream of
\* its branch was missing at some time since.
THEOREM UpstreamSound == Spec => []UpstreamWasGone
<1>1. InspectionInv => UpstreamWasGone
    BY DEF InspectionInv, TypeOK, Evidence, Integrations, UpstreamWasGone
<1>. QED
    BY <1>1, InspectionInvariant, PTL

\* The main worktree, and those locked, prunable or without a branch, are never candidates.
THEOREM ProtectedSound == Spec => []ProtectedStay
<1>1. InspectionInv => ProtectedStay
    BY OnBranch DEF InspectionInv, TypeOK, Evidence, Integrations, ProtectedStay
<1>. QED
    BY <1>1, InspectionInvariant, PTL

\* An inspection that failed as a whole leaves no candidate, and one without failures has
\* classified every worktree.
THEOREM OutcomeSound == Spec => [](FailsClosed /\ InspectedIsComplete)
<1>1. InspectionInv => FailsClosed /\ InspectedIsComplete
    BY DEF InspectionInv
<1>. QED
    BY <1>1, InspectionInvariant, PTL

\* When lop takes over a proof, the worktree is still on the branch and the commit of the
\* inventory, and that commit is integrated.
THEOREM ProofSound == Spec => ProofIsCurrent
<1>. DEFINE Current ==
    \A w \in Worktrees :
        class'[w] = "Integrated" /\ class[w] # "Integrated" =>
            /\ on[w] = listed[w].head
            /\ HeadCommit(w) = listed[w].commit
            /\ listed[w].commit \in merged
<1>1. InspectionInv /\ [Next]_vars => [Current]_vars
    <2>. SUFFICES ASSUME InspectionInv, Next,
                         NEW w \in Worktrees,
                         class'[w] = "Integrated", class[w] # "Integrated"
                  PROVE  /\ on[w] = listed[w].head
                         /\ HeadCommit(w) = listed[w].commit
                         /\ listed[w].commit \in merged
        OBVIOUS
    <2>1. ASSUME Prove PROVE
            /\ on[w] = listed[w].head
            /\ HeadCommit(w) = listed[w].commit
            /\ listed[w].commit \in merged
        <3>1. w \in candidates /\ RowMatches(w) /\ "Integrated" \in Verdicts(w)
            BY <2>1 DEF Prove, ProofsFail, InspectionInv, TypeOK
        <3>. QED
            BY <3>1 DEF RowMatches, Verdicts
    <2>2. ASSUME NEW v \in Worktrees, ClassifyDirectly(v) PROVE FALSE
        BY <2>2, DirectClass DEF ClassifyDirectly, Classify, InspectionInv, TypeOK
    <2>3. Prove
        BY <2>2 DEF Next, LopStep, Fetch, List, ReadBranch, ReadUpstream, ReadTracking, LookedUp,
            CheckVersion, ProofsFail, LookupFails, Classify, OthersAct, lopVars, Finished, vars,
            InspectionInv, TypeOK
    <2>. QED
        BY <2>1, <2>3
<1>. QED
    BY <1>1, InspectionInvariant, PTL DEF Spec, ProofIsCurrent
=============================================================================
