--------------------------- MODULE RunReportProofs ---------------------------
(***************************************************************************)
(* Theorems about RunReport, for any repositories, worktrees and number of *)
(* discovery issues.                                                       *)
(***************************************************************************)
EXTENDS RunReport, FiniteSetTheorems, FunctionTheorems, TLAPS

Steps == {"start", "discover", "repositories", "worktrees", "stale", "saved", "ended"}

USE DEF Goto, Fail, repositoryVars, reportVars, historyVars

(***************************************************************************)
(* Type correctness.                                                       *)
(***************************************************************************)

\* What is counted of a finite set of decisions is a number.
LEMMA CountsAreNumbers ==
    ASSUME NEW D, IsFiniteSet(D)
    PROVE  /\ Cardinality(D) \in Nat
           /\ IsFiniteSet(Failed(D)) /\ Cardinality(Failed(D)) \in Nat
           /\ \A o : IsFiniteSet(With(D, o)) /\ Cardinality(With(D, o)) \in Nat
<1>1. Failed(D) \subseteq D /\ \A o : With(D, o) \subseteq D
    BY DEF Failed, With
<1>2. IsFiniteSet(Failed(D))
    BY <1>1, FS_Subset
<1>3. ASSUME NEW o PROVE IsFiniteSet(With(D, o)) /\ Cardinality(With(D, o)) \in Nat
    <2>1. IsFiniteSet(With(D, o))
        BY <1>1, FS_Subset
    <2>. QED
        BY <2>1, FS_CardinalityType
<1>. QED
    BY <1>2, <1>3, FS_CardinalityType

LEMMA CountsTyped ==
    ASSUME NEW D, IsFiniteSet(D), summary \in [Counters -> Nat]
    PROVE  Counts(D) \in [Counters -> Nat]
<1>1. /\ Cardinality(D) \in Nat /\ Cardinality(Failed(D)) \in Nat
      /\ \A o : Cardinality(With(D, o)) \in Nat
    BY CountsAreNumbers
<1>. QED
    BY <1>1 DEF Counts, Counters

LEMMA RecordTyped ==
    ASSUME NEW r \in Repos, NEW w \in Worktrees, NEW d, d.outcome \in Outcomes, d.failed \in BOOLEAN
    PROVE  Record(r, w, d) \in Records
BY Zenon DEF Record, Records

\* What a decision is made of.
LEMMA DecisionFields ==
    ASSUME NEW o, NEW f \in BOOLEAN
    PROVE  Decision(o, f).outcome = o /\ Decision(o, f).failed = f
           /\ Decision(o, f).failed \in BOOLEAN
BY Zenon DEF Decision

LEMMA StaleTyped ==
    \A d \in StaleDecisions : d.outcome \in Outcomes /\ d.failed \in BOOLEAN
<1>1. StaleDecisions \subseteq
            {Decision("refused", FALSE), Decision("removed", FALSE), Decision("refused", TRUE),
             Decision("candidate", FALSE)}
    BY DEF StaleDecisions
<1>2. {"refused", "removed", "candidate"} \subseteq Outcomes
    BY DEF Outcomes, Classes
<1>3. ASSUME NEW o \in Outcomes, NEW f \in BOOLEAN, NEW d, d = Decision(o, f)
      PROVE  d.outcome \in Outcomes /\ d.failed \in BOOLEAN
    BY <1>3, DecisionFields
<1>. QED
    BY <1>1, <1>2, <1>3

LEMMA DecisionTyped ==
    ASSUME TypeOK, NEW w \in Worktrees, NEW d \in DecisionsOn(w)
    PROVE  d.outcome \in Outcomes /\ d.failed \in BOOLEAN
<1>1. d \in {Decision(class[w], FALSE), Decision("refused", FALSE), Decision("refused", TRUE),
             Decision("removed", FALSE), Decision("removed", TRUE), Decision("candidate", FALSE)}
    BY DEF DecisionsOn
<1>2. class[w] \in Outcomes /\ {"refused", "removed", "candidate"} \subseteq Outcomes
    BY DEF TypeOK, Outcomes, Classes
<1>3. ASSUME NEW o \in Outcomes, NEW f \in BOOLEAN, d = Decision(o, f)
      PROVE  d.outcome \in Outcomes /\ d.failed \in BOOLEAN
    BY <1>3, DecisionFields
<1>. QED
    BY <1>1, <1>2, <1>3

\* The stale workspaces decided at once are a finite set of records.
LEMMA StaleRecords ==
    ASSUME TypeOK, NEW gone \in SUBSET Worktrees, NEW d \in [gone -> StaleDecisions]
    PROVE  LET stale == {Record(repo, w, d[w]) : w \in gone} IN
           stale \subseteq Records /\ IsFiniteSet(stale)
<1>. DEFINE stale == {Record(repo, w, d[w]) : w \in gone}
<1>1. \A w \in gone : d[w].outcome \in Outcomes /\ d[w].failed \in BOOLEAN
    BY StaleTyped
<1>2. stale \subseteq Records
    BY <1>1, RecordTyped DEF TypeOK
<1>3. IsFiniteSet(gone)
    BY ReportAssumption, FS_Subset
<1>4. IsFiniteSet(stale)
    <2>. DEFINE f == [w \in gone |-> Record(repo, w, d[w])]
    <2>1. f \in [gone -> stale] /\ \A t \in stale : \E w \in gone : f[w] = t
        OBVIOUS
    <2>. HIDE DEF stale, f
    <2>2. f \in Surjection(gone, stale)
        BY <2>1, Fun_IsSurj
    <2>. QED
        BY <1>3, <2>2, FS_Surjection
<1>. QED
    BY <1>2, <1>4

\* The records and what is about to be recorded are finite.
Finite == IsFiniteSet(records) /\ IsFiniteSet(verdicts)
TypeInv == TypeOK /\ Finite

LEMMA InitTyped == Init => TypeInv
<1>1. Init => Finite
    BY FS_EmptySet DEF Init, Finite
<1>2. ASSUME Init PROVE TypeOK
    <2>1. repo \in Repos /\ apply \in BOOLEAN /\ issues \in 0..MaxIssues
        BY <1>2, ReportAssumption DEF Init
    <2>2. summary \in [Counters -> Nat] /\ class \in [Worktrees -> Classes]
        BY <1>2 DEF Init, Classes
    <2>3. Nowhere \in [Worktrees -> Outcomes \cup {"none"}]
        BY DEF Nowhere
    <2>. QED
        BY <1>2, <2>1, <2>2, <2>3, ReportAssumption DEF Init, TypeOK
<1>. QED
    BY <1>1, <1>2 DEF TypeInv

LEMMA DiscoverTyped == TypeInv /\ DiscoverRepositories => TypeInv'
<1>. SUFFICES ASSUME TypeInv, DiscoverRepositories PROVE TypeInv'
    OBVIOUS
<1>1. IsFiniteSet(left')
    BY ReportAssumption, FS_Subset DEF DiscoverRepositories
<1>2. Cardinality(left') \in Nat
    BY <1>1, FS_CardinalityType
<1>3. summary' \in [Counters -> Nat]
    BY <1>2, ReportAssumption DEF DiscoverRepositories, TypeInv, TypeOK, Counters
<1>. QED
    BY <1>3 DEF DiscoverRepositories, TypeInv, TypeOK, Finite

LEMMA InspectTyped ==
    ASSUME TypeInv, NEW r \in Repos, InspectRepository(r)
    PROVE  TypeInv'
<1>. USE DEF InspectRepository
<1>1. summary' \in [Counters -> Nat]
    BY DEF CountsRepository, TypeInv, TypeOK, Counters
<1>2. class' \in [Worktrees -> Classes]
    OBVIOUS
<1>3. inspections' \in [Repos -> RepositoryOutcomes \cup {"none"}]
    BY DEF TypeInv, TypeOK
<1>4. current' \in [Worktrees -> Outcomes \cup {"none"}]
    BY DEF Nowhere
<1>. QED
    BY <1>1, <1>2, <1>3, <1>4 DEF TypeInv, TypeOK, Finite

LEMMA TellTyped ==
    ASSUME TypeInv, NEW w \in Worktrees, NEW d, NEW next \in Steps, Tell(w, d, next),
           d.outcome \in Outcomes, d.failed \in BOOLEAN
    PROVE  /\ current' \in [Worktrees -> Outcomes \cup {"none"}]
           /\ records' \subseteq Records /\ IsFiniteSet(records')
           /\ pc' \in Steps /\ exit' \in {"none", "success", "failure"}
<1>1. Record(repo, w, d) \in Records
    BY RecordTyped DEF TypeInv, TypeOK
<1>2. records' \in {records, records \cup {Record(repo, w, d)}}
    BY DEF Tell
<1>3. records' \subseteq Records /\ IsFiniteSet(records')
    <2>1. records \subseteq Records /\ IsFiniteSet(records)
        BY DEF TypeInv, TypeOK, Finite
    <2>2. IsFiniteSet(records \cup {Record(repo, w, d)})
        BY <2>1, FS_AddElement
    <2>. QED
        BY <1>1, <1>2, <2>1, <2>2
<1>. QED
    BY <1>3 DEF Tell, TypeInv, TypeOK, Steps

LEMMA DecideTyped ==
    ASSUME TypeInv, NEW w \in Worktrees, DecideWorktree(w)
    PROVE  TypeInv'
<1>1. PICK d \in DecisionsOn(w) :
        /\ summary' = Counts({Record(repo, w, d)})
        /\ \E did \in ActedOn(w, d) : acted' = IF did THEN acted \cup {<<repo, w>>} ELSE acted
        /\ Tell(w, d, "worktrees")
    BY DEF DecideWorktree
<1>2. d.outcome \in Outcomes /\ d.failed \in BOOLEAN
    BY DecisionTyped DEF TypeInv
<1>3. summary' \in [Counters -> Nat]
    BY <1>1, CountsTyped, FS_Singleton DEF TypeInv, TypeOK
<1>4. acted' \subseteq Repos \X Worktrees
    BY <1>1 DEF TypeInv, TypeOK
<1>5. /\ current' \in [Worktrees -> Outcomes \cup {"none"}]
      /\ records' \subseteq Records /\ IsFiniteSet(records')
      /\ pc' \in Steps /\ exit' \in {"none", "success", "failure"}
    BY <1>1, <1>2, TellTyped DEF Steps
<1>. QED
    BY <1>3, <1>4, <1>5 DEF DecideWorktree, TypeInv, TypeOK, Finite, Steps

LEMMA ReconcileTyped == TypeInv /\ ReconcileStale => TypeInv'
<1>. SUFFICES ASSUME TypeInv, ReconcileStale PROVE TypeInv'
    OBVIOUS
<1>1. /\ verdicts' \subseteq Records /\ IsFiniteSet(verdicts')
      /\ summary' \in [Counters -> Nat] /\ acted' \subseteq Repos \X Worktrees
      /\ unreported' \in Nat
    <2>1. CASE verdicts' = {} /\ unreported' = unreported + 1 /\ UNCHANGED acted
               /\ summary' = [summary EXCEPT !["operational_failures"] = @ + 1]
        BY <2>1, FS_EmptySet DEF TypeInv, TypeOK, Counters
    <2>2. ASSUME NEW gone \in SUBSET GoneCheckouts, NEW d \in [gone -> StaleDecisions],
                 NEW touched \in SUBSET gone,
                 verdicts' = {Record(repo, w, d[w]) : w \in gone},
                 summary' = Counts(verdicts'),
                 acted' = acted \cup {<<repo, w>> : w \in touched},
                 unreported' = unreported
          PROVE  /\ verdicts' \subseteq Records /\ IsFiniteSet(verdicts')
                 /\ summary' \in [Counters -> Nat] /\ acted' \subseteq Repos \X Worktrees
                 /\ unreported' \in Nat
        <3>1. gone \in SUBSET Worktrees
            BY DEF GoneCheckouts
        <3>2. verdicts' \subseteq Records /\ IsFiniteSet(verdicts')
            BY <2>2, <3>1, StaleRecords DEF TypeInv
        <3>3. summary' \in [Counters -> Nat]
            BY <2>2, <3>2, CountsTyped DEF TypeInv, TypeOK
        <3>. QED
            BY <2>2, <3>1, <3>2, <3>3 DEF TypeInv, TypeOK
    <2>. QED
        BY <2>1, <2>2 DEF ReconcileStale, Reconcile
<1>. QED
    BY <1>1 DEF ReconcileStale, TypeInv, TypeOK, Finite

LEMMA TellStaleTyped ==
    ASSUME TypeInv, NEW v \in verdicts, TellStale(v)
    PROVE  TypeInv'
<1>1. v.path \in Worktrees /\ v.outcome \in Outcomes /\ v.failed \in BOOLEAN
    BY DEF TypeInv, TypeOK, Records
<1>2. /\ current' \in [Worktrees -> Outcomes \cup {"none"}]
      /\ records' \subseteq Records /\ IsFiniteSet(records')
      /\ pc' \in Steps /\ exit' \in {"none", "success", "failure"}
    BY <1>1, TellTyped DEF TellStale, Steps
<1>3. verdicts' \subseteq Records /\ IsFiniteSet(verdicts')
    BY FS_RemoveElement DEF TellStale, TypeInv, TypeOK, Finite
<1>. QED
    BY <1>2, <1>3 DEF TellStale, TypeInv, TypeOK, Finite, Steps

LEMMA StepTyped == TypeInv /\ [Next]_vars => TypeInv'
<1>. SUFFICES ASSUME TypeInv, [Next]_vars PROVE TypeInv'
    OBVIOUS
<1>1. CASE Begin
    BY <1>1 DEF Begin, TypeInv, TypeOK, Finite
<1>2. CASE DiscoverRepositories
    BY <1>2, DiscoverTyped
<1>3. ASSUME NEW r \in Repos, InspectRepository(r) PROVE TypeInv'
    BY <1>3, InspectTyped
<1>4. ASSUME NEW w \in Worktrees, DecideWorktree(w) PROVE TypeInv'
    BY <1>4, DecideTyped
<1>5. CASE ReconcileStale
    BY <1>5, ReconcileTyped
<1>6. ASSUME NEW v \in verdicts, TellStale(v) PROVE TypeInv'
    BY <1>6, TellStaleTyped
<1>7. CASE Remember
    BY <1>7 DEF Remember, TypeInv, TypeOK, Finite
<1>8. CASE TellIssue
    <2>1. issues' \in 0..MaxIssues /\ issuesTold' \in Nat
        BY <1>8, ReportAssumption DEF TellIssue, TypeInv, TypeOK
    <2>. QED
        BY <1>8, <2>1 DEF TellIssue, TypeInv, TypeOK, Finite
<1>9. CASE Save
    BY <1>9 DEF Save, TypeInv, TypeOK, Finite
<1>10. CASE Finish
    BY <1>10 DEF Finish, ExitCode, TypeInv, TypeOK, Finite
<1>11. CASE UNCHANGED vars
    BY <1>11 DEF vars, TypeInv, TypeOK, Finite
<1>. QED
    BY <1>1, <1>2, <1>3, <1>4, <1>5, <1>6, <1>7, <1>8, <1>9, <1>10, <1>11 DEF Next, Ended

\* Every reachable state of a run's report has its types (lib.rs, run_with_paths).
THEOREM TypeCorrect == Spec => []TypeOK
<1>1. TypeInv => TypeOK
    BY DEF TypeInv
<1>. QED
    BY <1>1, InitTyped, StepTyped, PTL DEF Spec

(***************************************************************************)
(* One decision for each worktree.                                         *)
(***************************************************************************)

\* All that is decided, recorded or about to be.
Decided == records \cup verdicts

\* Nothing of r has been reported or done, and what is known of it is what was loaded.
Untouched(r) ==
    /\ inspections[r] = "none" /\ memory[r] = loaded[r]
    /\ \A a \in Decided : a.repo # r

\* Where the run has got to: nothing is known of a repository that is still left, and of the
\* one at hand only worktrees its inventory listed, until its stale workspaces are judged.
Places ==
    /\ pc \in {"start", "discover"} =>
        issues = 0 /\ acted = {} /\ \A r \in Repos : Untouched(r)
    /\ \A r \in left : Untouched(r)
    /\ pc \in {"worktrees", "stale"} => repo \notin left
    /\ pc = "worktrees" => \A a \in records : a.repo = repo => a.path \in inventory \ todo
    /\ pc = "stale" => \A v \in verdicts : v.repo = repo /\ v.path \notin inventory
    /\ pc \notin {"stale", "ended"} => verdicts = {}
    /\ pc = "saved" => left = {} /\ issues = 0

PlacesInv == TypeInv /\ Places /\ OnePerWorktree

\* What is recorded of a verdict on a stale workspace is the verdict.
LEMMA RecordOfVerdict ==
    ASSUME NEW v \in Records
    PROVE  Record(v.repo, v.path, v) = v
BY DEF Record, Records

LEMMA RecordFields ==
    ASSUME NEW r, NEW w, NEW d
    PROVE  /\ Record(r, w, d).repo = r /\ Record(r, w, d).path = w
           /\ Record(r, w, d).outcome = d.outcome /\ Record(r, w, d).failed = d.failed
BY Zenon DEF Record

LEMMA InitPlaces == Init => PlacesInv
BY InitTyped DEF PlacesInv, Init, Places, Untouched, Decided, OnePerWorktree

LEMMA InspectPlaces ==
    ASSUME PlacesInv, NEW r \in Repos, InspectRepository(r)
    PROVE  Places' /\ OnePerWorktree'
<1>1. UNCHANGED <<records, verdicts, memory, loaded, issues>> /\ left' = left \ {r} /\ repo' = r
    BY DEF InspectRepository
<1>2. pc = "repositories" /\ pc' \in {"worktrees", "ended"}
    BY DEF InspectRepository
<1>3. \A q \in left' : Untouched(q)'
    <2>1. \A q \in left' : inspections'[q] = inspections[q]
        BY <1>1 DEF InspectRepository, PlacesInv, TypeInv, TypeOK
    <2>. QED
        BY <1>1, <2>1 DEF PlacesInv, Places, Untouched, Decided
<1>4. \A a \in records : a.repo # r
    BY DEF InspectRepository, PlacesInv, Places, Untouched, Decided
<1>. QED
    BY <1>1, <1>2, <1>3, <1>4 DEF PlacesInv, Places, OnePerWorktree

\* Deciding on a worktree decides something new, and the records are of its repository.
LEMMA DecideNew ==
    ASSUME PlacesInv, NEW w \in Worktrees, DecideWorktree(w)
    PROVE  /\ pc = "worktrees" /\ verdicts = {} /\ verdicts' = {}
           /\ \A a \in records : ~(a.repo = repo /\ a.path = w)
           /\ \E d \in DecisionsOn(w) :
                /\ summary' = Counts({Record(repo, w, d)})
                /\ \E did \in ActedOn(w, d) :
                        acted' = IF did THEN acted \cup {<<repo, w>>} ELSE acted
                /\ current' = [current EXCEPT ![w] = d.outcome]
                /\ \/ /\ pc' = "worktrees" /\ exit' = exit
                      /\ records' = records \cup {Record(repo, w, d)}
                   \/ pc' = "ended" /\ exit' = "failure" /\ records' = records
BY DEF DecideWorktree, Tell, PlacesInv, Places

LEMMA DecidePlaces ==
    ASSUME PlacesInv, NEW w \in Worktrees, DecideWorktree(w)
    PROVE  Places' /\ OnePerWorktree'
<1>1. /\ UNCHANGED <<left, issues, repo, inventory, verdicts, memory, loaded, inspections>>
      /\ w \in todo /\ todo' = todo \ {w}
    BY DEF DecideWorktree
<1>2. /\ verdicts = {} /\ pc = "worktrees" /\ pc' \in {"worktrees", "ended"}
      /\ \A a \in records : ~(a.repo = repo /\ a.path = w)
    BY DecideNew
<1>3. PICK d : \/ records' = records \cup {Record(repo, w, d)}
               \/ records' = records
    BY DecideNew
<1>4. OnePerWorktree'
    BY <1>1, <1>2, <1>3, RecordFields DEF PlacesInv, OnePerWorktree
<1>5. \A q \in left' : Untouched(q)'
    BY <1>1, <1>2, <1>3, RecordFields DEF PlacesInv, Places, Untouched, Decided
<1>6. \A a \in records' : a.repo = repo => a.path \in inventory \ todo'
    <2>1. w \in inventory
        BY <1>1 DEF PlacesInv, TypeInv, TypeOK
    <2>2. \A a \in records : a.repo = repo => a.path \in inventory \ todo'
        BY <1>1, <1>2 DEF PlacesInv, Places
    <2>. QED
        BY <1>1, <1>3, <2>1, <2>2, RecordFields
<1>. QED
    BY <1>1, <1>2, <1>4, <1>5, <1>6 DEF PlacesInv, Places

\* The verdicts on the stale workspaces are of other checkouts than the records.
LEMMA ReconcileNew ==
    ASSUME PlacesInv, ReconcileStale
    PROVE  /\ pc = "worktrees" /\ verdicts = {} /\ pc' = "stale"
           /\ \A v \in verdicts' : v.repo = repo /\ v.path \notin inventory
           /\ \A a \in records, v \in verdicts' : ~(a.repo = v.repo /\ a.path = v.path)
           /\ \A u, v \in verdicts' : u.path = v.path => u = v
<1>1. /\ pc = "worktrees" /\ verdicts = {} /\ pc' = "stale"
      /\ \A a \in records : a.repo = repo => a.path \in inventory
    BY DEF ReconcileStale, PlacesInv, Places
<1>2. CASE verdicts' = {}
    BY <1>1, <1>2
<1>3. ASSUME NEW gone \in SUBSET GoneCheckouts, NEW d,
             verdicts' = {Record(repo, w, d[w]) : w \in gone}
      PROVE  /\ \A v \in verdicts' : v.repo = repo /\ v.path \notin inventory
             /\ \A u, v \in verdicts' : u.path = v.path => u = v
    BY <1>3, RecordFields DEF GoneCheckouts
<1>. QED
    BY <1>1, <1>2, <1>3 DEF ReconcileStale, Reconcile

LEMMA ReconcilePlaces ==
    ASSUME PlacesInv, ReconcileStale
    PROVE  Places' /\ OnePerWorktree'
<1>1. UNCHANGED <<left, issues, repo, inventory, records, memory, loaded, inspections>>
    BY DEF ReconcileStale
<1>2. OnePerWorktree'
    BY <1>1, ReconcileNew DEF PlacesInv, OnePerWorktree
<1>3. \A q \in left' : Untouched(q)'
    BY <1>1, ReconcileNew DEF PlacesInv, Places, Untouched, Decided
<1>. QED
    BY <1>1, <1>2, <1>3, ReconcileNew DEF PlacesInv, Places

\* A verdict told is a record, and the same one.
LEMMA TellStaleMoves ==
    ASSUME PlacesInv, NEW v \in verdicts, TellStale(v)
    PROVE  /\ pc = "stale" /\ v.repo = repo /\ verdicts' = verdicts \ {v}
           /\ current' = [current EXCEPT ![v.path] = v.outcome]
           /\ \/ pc' = "stale" /\ exit' = exit /\ records' = records \cup {v}
              \/ pc' = "ended" /\ exit' = "failure" /\ records' = records
<1>1. v.repo = repo /\ v \in Records
    BY DEF TellStale, PlacesInv, Places, TypeInv, TypeOK
<1>2. Record(repo, v.path, v) = v
    BY <1>1, RecordOfVerdict
<1>. QED
    BY <1>1, <1>2 DEF TellStale, Tell

LEMMA TellStalePlaces ==
    ASSUME PlacesInv, NEW v \in verdicts, TellStale(v)
    PROVE  Places' /\ OnePerWorktree'
<1>1. UNCHANGED <<left, issues, repo, inventory, memory, loaded, inspections>>
    BY DEF TellStale
<1>2. Decided' \subseteq Decided
    BY TellStaleMoves DEF Decided
<1>3. OnePerWorktree'
    BY <1>2 DEF PlacesInv, OnePerWorktree, Decided
<1>4. \A q \in left' : Untouched(q)'
    BY <1>1, <1>2 DEF PlacesInv, Places, Untouched
<1>. QED
    BY <1>1, <1>3, <1>4, TellStaleMoves DEF PlacesInv, Places

LEMMA RememberPlaces ==
    ASSUME PlacesInv, Remember
    PROVE  Places' /\ OnePerWorktree'
<1>1. \A q \in left' : Untouched(q)'
    BY DEF Remember, PlacesInv, Places, Untouched, Decided, TypeInv, TypeOK
<1>. QED
    BY <1>1 DEF Remember, PlacesInv, Places, OnePerWorktree

LEMMA StepPlaces == PlacesInv /\ [Next]_vars => PlacesInv'
<1>. SUFFICES ASSUME PlacesInv, [Next]_vars PROVE Places' /\ OnePerWorktree'
    BY StepTyped DEF PlacesInv
<1>1. CASE Begin
    BY <1>1 DEF Begin, PlacesInv, Places, OnePerWorktree, Untouched, Decided
<1>2. CASE DiscoverRepositories
    BY <1>2 DEF DiscoverRepositories, PlacesInv, Places, OnePerWorktree, Untouched, Decided
<1>3. ASSUME NEW r \in Repos, InspectRepository(r) PROVE Places' /\ OnePerWorktree'
    BY <1>3, InspectPlaces
<1>4. ASSUME NEW w \in Worktrees, DecideWorktree(w) PROVE Places' /\ OnePerWorktree'
    BY <1>4, DecidePlaces
<1>5. CASE ReconcileStale
    BY <1>5, ReconcilePlaces
<1>6. ASSUME NEW v \in verdicts, TellStale(v) PROVE Places' /\ OnePerWorktree'
    BY <1>6, TellStalePlaces
<1>7. CASE Remember
    BY <1>7, RememberPlaces
<1>8. CASE TellIssue
    BY <1>8 DEF TellIssue, PlacesInv, Places, OnePerWorktree, Untouched, Decided
<1>9. CASE Save
    BY <1>9 DEF Save, PlacesInv, Places, OnePerWorktree, Untouched, Decided
<1>10. CASE Finish
    BY <1>10 DEF Finish, PlacesInv, Places, OnePerWorktree, Untouched, Decided
<1>11. CASE UNCHANGED vars
    BY <1>11 DEF vars, PlacesInv, Places, OnePerWorktree, Untouched, Decided
<1>. QED
    BY <1>1, <1>2, <1>3, <1>4, <1>5, <1>6, <1>7, <1>8, <1>9, <1>10, <1>11 DEF Next, Ended

\* No worktree is reported twice: a stale workspace's checkout is one the inventory does not
\* list, even when lop has just removed it (lib.rs, inventory_paths).
THEOREM ReportedOnce == Spec => []OnePerWorktree
<1>1. PlacesInv => OnePerWorktree
    BY DEF PlacesInv
<1>. QED
    BY <1>1, InitPlaces, StepPlaces, PTL DEF Spec

(***************************************************************************)
(* What lop did is told.                                                   *)
(***************************************************************************)

\* The run still has what it needs to report, or has reported it.
Live == pc # "ended" \/ delivered

Told(r, w, D) == \E rec \in D : rec.repo = r /\ rec.path = w

\* Whatever was acted on is recorded or about to be, and only a run that has delivered all of
\* its records succeeds.
Covered ==
    /\ Live => \A done \in acted : Told(done[1], done[2], Decided)
    /\ pc # "ended" => ~delivered /\ exit = "none"
    /\ delivered => verdicts = {} /\ issues = 0 /\ exit = ExitCode
    /\ exit = "success" => delivered

CoveredInv == PlacesInv /\ Covered

LEMMA InitCovered == Init => CoveredInv
BY InitPlaces DEF CoveredInv, Covered, Init

\* A step that goes on, or ends the run in failure.
OnwardOrFail ==
    \/ pc' # "ended" /\ exit' = exit
    \/ pc' = "ended" /\ exit' = "failure"

\* Steps that leave the failures and the delivery alone and do not end well keep the rest.
LEMMA UndeliveredStep ==
    ASSUME CoveredInv, pc # "ended", UNCHANGED delivered,
           OnwardOrFail,
           pc' # "ended" => \A done \in acted' : Told(done[1], done[2], Decided')
    PROVE  Covered'
BY DEF CoveredInv, Covered, Live, OnwardOrFail

LEMMA DecideCovered ==
    ASSUME CoveredInv, NEW w \in Worktrees, DecideWorktree(w)
    PROVE  Covered'
<1>1. /\ UNCHANGED <<delivered, verdicts>> /\ pc # "ended" /\ verdicts = {}
      /\ OnwardOrFail
    BY DecideNew DEF DecideWorktree, CoveredInv, OnwardOrFail
<1>2. PICK d \in DecisionsOn(w) :
        /\ \E did \in ActedOn(w, d) : acted' = IF did THEN acted \cup {<<repo, w>>} ELSE acted
        /\ \/ pc' = "worktrees" /\ records' = records \cup {Record(repo, w, d)}
           \/ pc' = "ended"
    BY DecideNew DEF CoveredInv
<1>3. acted' \subseteq acted \cup {<<repo, w>>}
    BY <1>2
<1>4. ASSUME pc' # "ended", NEW done \in acted' PROVE Told(done[1], done[2], Decided')
    <2>1. Record(repo, w, d) \in Decided' /\ Decided \subseteq Decided'
        BY <1>1, <1>2, <1>4 DEF Decided
    <2>2. CASE done \in acted
        BY <1>1, <2>1, <2>2 DEF CoveredInv, Covered, Live, Told
    <2>3. CASE done = <<repo, w>>
        BY <2>1, <2>3, RecordFields DEF Told
    <2>. QED
        BY <1>3, <2>2, <2>3
<1>. QED
    BY <1>1, <1>4, UndeliveredStep

LEMMA ReconcileCovered ==
    ASSUME CoveredInv, ReconcileStale
    PROVE  Covered'
<1>1. /\ UNCHANGED <<delivered, records>> /\ pc # "ended" /\ verdicts = {}
      /\ OnwardOrFail
    BY ReconcileNew DEF ReconcileStale, CoveredInv, OnwardOrFail
<1>2. ASSUME NEW done \in acted' PROVE Told(done[1], done[2], Decided')
    <2>1. CASE done \in acted
        BY <1>1, <2>1 DEF CoveredInv, Covered, Live, Told, Decided
    <2>2. CASE done \notin acted
        <3>1. PICK gone \in SUBSET GoneCheckouts : \E d \in [gone -> StaleDecisions] :
                /\ verdicts' = {Record(repo, w, d[w]) : w \in gone}
                /\ \E touched \in SUBSET gone : acted' = acted \cup {<<repo, w>> : w \in touched}
            BY <1>2, <2>2 DEF ReconcileStale, Reconcile
        <3>2. PICK d \in [gone -> StaleDecisions] :
                /\ verdicts' = {Record(repo, w, d[w]) : w \in gone}
                /\ \E touched \in SUBSET gone : acted' = acted \cup {<<repo, w>> : w \in touched}
            BY <3>1
        <3>3. PICK w \in gone : done = <<repo, w>>
            BY <1>2, <2>2, <3>2
        <3>4. Record(repo, w, d[w]) \in Decided'
            BY <3>2, <3>3 DEF Decided
        <3>. QED
            BY <3>3, <3>4, RecordFields DEF Told
    <2>. QED
        BY <2>1, <2>2
<1>. QED
    BY <1>1, <1>2, UndeliveredStep

LEMMA TellStaleCovered ==
    ASSUME CoveredInv, NEW v \in verdicts, TellStale(v)
    PROVE  Covered'
<1>1. /\ UNCHANGED <<delivered, acted>> /\ pc # "ended"
      /\ OnwardOrFail
    BY TellStaleMoves DEF TellStale, CoveredInv, OnwardOrFail
<1>2. pc' # "ended" => Decided' = Decided
    BY TellStaleMoves DEF CoveredInv, Decided
<1>3. pc' # "ended" => \A done \in acted' : Told(done[1], done[2], Decided')
    BY <1>1, <1>2 DEF CoveredInv, Covered, Live, Told
<1>. QED
    BY <1>1, <1>3, UndeliveredStep

LEMMA StepCovered == CoveredInv /\ [Next]_vars => CoveredInv'
<1>. SUFFICES ASSUME CoveredInv, [Next]_vars PROVE Covered'
    BY StepPlaces DEF CoveredInv
<1>1. ASSUME UNCHANGED <<delivered, acted, records, verdicts>>, pc # "ended",
             OnwardOrFail
      PROVE  Covered'
    <2>1. \A done \in acted' : Told(done[1], done[2], Decided')
        BY <1>1 DEF CoveredInv, Covered, Live, Told, Decided
    <2>. QED
        BY <1>1, <2>1, UndeliveredStep
<1>2. CASE Begin
    BY <1>1, <1>2 DEF Begin, OnwardOrFail
<1>3. CASE DiscoverRepositories
    BY <1>1, <1>3 DEF DiscoverRepositories, OnwardOrFail
<1>4. ASSUME NEW r \in Repos, InspectRepository(r) PROVE Covered'
    BY <1>1, <1>4 DEF InspectRepository, OnwardOrFail
<1>5. ASSUME NEW w \in Worktrees, DecideWorktree(w) PROVE Covered'
    BY <1>5, DecideCovered
<1>6. CASE ReconcileStale
    BY <1>6, ReconcileCovered
<1>7. ASSUME NEW v \in verdicts, TellStale(v) PROVE Covered'
    BY <1>7, TellStaleCovered
<1>8. CASE Remember
    BY <1>1, <1>8 DEF Remember, OnwardOrFail
<1>9. CASE TellIssue
    BY <1>1, <1>9 DEF TellIssue, OnwardOrFail
<1>10. CASE Save
    BY <1>1, <1>10 DEF Save, OnwardOrFail
<1>11. CASE Finish
    <2>1. /\ pc = "saved" /\ verdicts = {} /\ verdicts' = {} /\ issues' = 0
          /\ UNCHANGED <<records, acted, summary>>
        BY <1>11 DEF Finish, CoveredInv, PlacesInv, Places
    <2>2. \A done \in acted' : Told(done[1], done[2], Decided')
        BY <2>1 DEF CoveredInv, Covered, Live, Told, Decided
    <2>3. \/ pc' = "ended" /\ exit' = ExitCode' /\ delivered'
          \/ pc' = "ended" /\ exit' = "failure" /\ ~delivered'
        BY <1>11, <2>1 DEF Finish, ExitCode, CoveredInv, Covered
    <2>. QED
        BY <2>1, <2>2, <2>3 DEF Covered
<1>12. CASE UNCHANGED vars
    BY <1>12 DEF vars, CoveredInv, Covered, Live, Told, Decided, ExitCode
<1>. QED
    BY <1>2, <1>3, <1>4, <1>5, <1>6, <1>7, <1>8, <1>9, <1>10, <1>11, <1>12 DEF Next, Ended

\* A run that succeeds has told of everything it removed and every workspace it closed; a
\* write that fails, or a buffer that cannot be flushed, fails the run (lib.rs, output.flush).
THEOREM ToldOrFails == Spec => []DoneIsTold
<1>1. CoveredInv => DoneIsTold
    BY DEF CoveredInv, Covered, DoneIsTold, Live, Told, Decided
<1>. QED
    BY <1>1, InitCovered, StepCovered, PTL DEF Spec

(***************************************************************************)
(* What is remembered is what is told.                                     *)
(***************************************************************************)

\* m is what the records say of worktree w of r.
Says(m, r, w) ==
    /\ \A rec \in records : rec.repo = r /\ rec.path = w => m = rec.outcome
    /\ m = "none" \/ Told(r, w, records)

\* The memory of a repository in the report is what it tells, that of another what was loaded.
Settled(r) ==
    IF inspections[r] = "none" THEN memory[r] = loaded[r]
    ELSE \A w \in Worktrees : Says(memory[r][w], r, w)

\* The repository at hand is in the report, and current is what has been told of it so far; all
\* others are settled.
AtHand == pc \in {"worktrees", "stale"}

Remembered ==
    pc # "ended" =>
        /\ AtHand =>
            inspections[repo] # "none" /\ \A w \in Worktrees : Says(current[w], repo, w)
        /\ \A r \in Repos : (AtHand /\ r = repo) \/ Settled(r)

RememberedInv == PlacesInv /\ Remembered

LEMMA InitRemembered == Init => RememberedInv
<1>1. Init => Remembered
    BY DEF Init, Remembered, AtHand, Settled
<1>. QED
    BY <1>1, InitPlaces DEF RememberedInv

\* A repository of which nothing more is told, and whose memory is left alone, stays settled.
LEMMA StaysSettled ==
    ASSUME NEW r \in Repos, Settled(r),
           inspections'[r] = inspections[r], memory'[r] = memory[r], loaded' = loaded,
           \A a \in records' : a.repo = r => a \in records, records \subseteq records'
    PROVE  Settled(r)'
<1>1. ASSUME NEW w \in Worktrees, Says(memory[r][w], r, w) PROVE Says(memory[r][w], r, w)'
    BY <1>1 DEF Says, Told
<1>. QED
    BY <1>1 DEF Settled

\* Telling one decision of the repository at hand, on a worktree of which nothing else is
\* recorded, keeps current in step.
LEMMA TellRemembered ==
    ASSUME RememberedInv, AtHand, AtHand',
           NEW w \in Worktrees, NEW rec, rec.repo = repo, rec.path = w,
           \A a \in records : a.repo = repo /\ a.path = w => a.outcome = rec.outcome,
           current' = [current EXCEPT ![w] = rec.outcome],
           records' = records \cup {rec}, repo' = repo, memory' = memory, loaded' = loaded,
           inspections' = inspections
    PROVE  Remembered'
<1>1. pc # "ended"
    BY DEF AtHand
<1>2. ASSUME NEW r \in Repos, r # repo PROVE Settled(r)'
    <2>1. Settled(r)
        BY <1>1, <1>2 DEF RememberedInv, Remembered
    <2>. QED
        BY <1>2, <2>1, StaysSettled
<1>3. ASSUME NEW u \in Worktrees, u # w PROVE Says(current[u], repo, u)'
    <2>1. Says(current[u], repo, u) /\ current'[u] = current[u]
        BY <1>1, <1>3 DEF RememberedInv, Remembered, PlacesInv, TypeInv, TypeOK
    <2>. QED
        BY <1>3, <2>1 DEF Says, Told
<1>4. Says(current[w], repo, w)'
    <2>1. current'[w] = rec.outcome
        BY DEF RememberedInv, PlacesInv, TypeInv, TypeOK
    <2>. QED
        BY <2>1 DEF Says, Told
<1>5. inspections'[repo'] # "none"
    BY <1>1 DEF RememberedInv, Remembered
<1>. QED
    BY <1>2, <1>3, <1>4, <1>5 DEF Remembered

LEMMA DecideRemembered ==
    ASSUME RememberedInv, NEW w \in Worktrees, DecideWorktree(w)
    PROVE  Remembered'
<1>1. CASE pc' = "ended"
    BY <1>1 DEF Remembered
<1>2. CASE pc' # "ended"
    <2>1. PICK d : /\ current' = [current EXCEPT ![w] = d.outcome] /\ pc' = "worktrees"
                   /\ records' = records \cup {Record(repo, w, d)}
        BY <1>2, DecideNew DEF RememberedInv
    <2>2. \A a \in records : ~(a.repo = repo /\ a.path = w)
        BY DecideNew DEF RememberedInv
    <2>3. AtHand /\ AtHand' /\ UNCHANGED <<repo, memory, loaded, inspections>>
        BY <2>1 DEF DecideWorktree, AtHand
    <2>4. PICK rec : rec = Record(repo, w, d)
        OBVIOUS
    <2>5. rec.repo = repo /\ rec.path = w /\ rec.outcome = d.outcome
        BY <2>4, RecordFields
    <2>6. current' = [current EXCEPT ![w] = rec.outcome] /\ records' = records \cup {rec}
        BY <2>1, <2>4, <2>5
    <2>. QED
        BY <2>1, <2>2, <2>3, <2>5, <2>6, TellRemembered
<1>. QED
    BY <1>1, <1>2

LEMMA TellStaleRemembered ==
    ASSUME RememberedInv, NEW v \in verdicts, TellStale(v)
    PROVE  Remembered'
<1>1. CASE pc' = "ended"
    BY <1>1 DEF Remembered
<1>2. CASE pc' # "ended"
    <2>1. /\ pc = "stale" /\ v.repo = repo /\ pc' = "stale" /\ records' = records \cup {v}
          /\ current' = [current EXCEPT ![v.path] = v.outcome]
        BY <1>2, TellStaleMoves DEF RememberedInv
    <2>2. v.path \in Worktrees
        BY DEF RememberedInv, PlacesInv, TypeInv, TypeOK, Records
    <2>3. \A a \in records : a.repo = repo /\ a.path = v.path => a.outcome = v.outcome
        BY <2>1 DEF RememberedInv, PlacesInv, OnePerWorktree
    <2>4. AtHand /\ AtHand' /\ UNCHANGED <<repo, memory, loaded, inspections>>
        BY <2>1 DEF TellStale, AtHand
    <2>. QED
        BY <2>1, <2>2, <2>3, <2>4, TellRemembered
<1>. QED
    BY <1>1, <1>2

LEMMA InspectRemembered ==
    ASSUME RememberedInv, NEW q \in Repos, InspectRepository(q)
    PROVE  Remembered'
<1>1. CASE pc' = "ended"
    BY <1>1 DEF Remembered
<1>2. CASE pc' # "ended"
    <2>1. /\ pc = "repositories" /\ pc' = "worktrees" /\ repo' = q /\ current' = Nowhere
          /\ UNCHANGED <<records, memory, loaded>>
          /\ \E outcome \in RepositoryOutcomes :
                inspections' = [inspections EXCEPT ![q] = outcome]
        BY <1>2 DEF InspectRepository
    <2>2. inspections \in [Repos -> RepositoryOutcomes \cup {"none"}]
        BY DEF RememberedInv, PlacesInv, TypeInv, TypeOK
    <2>3. \A a \in records : a.repo # q
        BY DEF InspectRepository, RememberedInv, PlacesInv, Places, Untouched, Decided
    <2>4. ASSUME NEW r \in Repos, r # q PROVE Settled(r)'
        <3>1. Settled(r)
            BY <2>1 DEF RememberedInv, Remembered, AtHand
        <3>2. inspections'[r] = inspections[r]
            BY <2>1, <2>2, <2>4
        <3>. QED
            BY <2>1, <3>1, <3>2, StaysSettled
    <2>5. ASSUME NEW w \in Worktrees PROVE Says(current[w], q, w)'
        BY <2>1, <2>3 DEF Says, Nowhere
    <2>6. inspections'[q] # "none"
        BY <2>1, <2>2 DEF RepositoryOutcomes
    <2>. QED
        BY <2>1, <2>4, <2>5, <2>6 DEF Remembered, AtHand
<1>. QED
    BY <1>1, <1>2

LEMMA RememberRemembered ==
    ASSUME RememberedInv, Remember
    PROVE  Remembered'
<1>1. /\ pc = "stale" /\ pc' = "repositories"
      /\ UNCHANGED <<records, repo, loaded, inspections>>
      /\ memory' = [memory EXCEPT ![repo] = current]
    BY DEF Remember
<1>2. /\ repo \in Repos /\ memory'[repo] = current
      /\ \A r \in Repos : r # repo => memory'[r] = memory[r]
    BY <1>1 DEF RememberedInv, PlacesInv, TypeInv, TypeOK
<1>3. ASSUME NEW r \in Repos, r # repo PROVE Settled(r)'
    <2>1. Settled(r)
        BY <1>1, <1>3 DEF RememberedInv, Remembered
    <2>. QED
        BY <1>1, <1>2, <1>3, <2>1, StaysSettled
<1>4. Settled(repo)'
    <2>1. inspections[repo] # "none" /\ \A w \in Worktrees : Says(current[w], repo, w)
        BY <1>1 DEF RememberedInv, Remembered, AtHand
    <2>. QED
        BY <1>1, <1>2, <2>1 DEF Settled, Says, Told
<1>. QED
    BY <1>1, <1>3, <1>4 DEF Remembered, AtHand

LEMMA StepRemembered == RememberedInv /\ [Next]_vars => RememberedInv'
<1>. SUFFICES ASSUME RememberedInv, [Next]_vars PROVE Remembered'
    BY StepPlaces DEF RememberedInv
<1>1. ASSUME UNCHANGED <<repo, current, memory, loaded, inspections, records>>,
             pc # "ended", pc' # "ended" => (AtHand' <=> AtHand)
      PROVE  Remembered'
    BY <1>1 DEF RememberedInv, Remembered, Settled, Says, Told
<1>2. CASE Begin
    BY <1>1, <1>2 DEF Begin, AtHand
<1>3. CASE DiscoverRepositories
    BY <1>1, <1>3 DEF DiscoverRepositories, AtHand
<1>4. ASSUME NEW r \in Repos, InspectRepository(r) PROVE Remembered'
    BY <1>4, InspectRemembered
<1>5. ASSUME NEW w \in Worktrees, DecideWorktree(w) PROVE Remembered'
    BY <1>5, DecideRemembered
<1>6. CASE ReconcileStale
    BY <1>1, <1>6 DEF ReconcileStale, AtHand
<1>7. ASSUME NEW v \in verdicts, TellStale(v) PROVE Remembered'
    BY <1>7, TellStaleRemembered
<1>8. CASE Remember
    BY <1>8, RememberRemembered
<1>9. CASE TellIssue
    BY <1>1, <1>9 DEF TellIssue, AtHand
<1>10. CASE Save
    BY <1>1, <1>10 DEF Save, AtHand
<1>11. CASE Finish
    BY <1>11 DEF Finish, Remembered
<1>12. CASE UNCHANGED vars
    BY <1>12 DEF vars, RememberedInv, Remembered, AtHand, Settled, Says, Told
<1>. QED
    BY <1>2, <1>3, <1>4, <1>5, <1>6, <1>7, <1>8, <1>9, <1>10, <1>11, <1>12 DEF Next, Ended

\* The state saved for the next run is what this one reported of every worktree of a repository
\* it inspected, the stale workspaces included, and what was loaded of any other (lib.rs,
\* last_classifications).
THEOREM MemoryIsTold == Spec => []SavedIsTold
<1>1. ASSUME RememberedInv, pc = "saved", NEW r \in Repos
      PROVE  IF inspections[r] = "none" THEN memory[r] = loaded[r]
             ELSE \A w \in Worktrees :
                memory[r][w] =
                    IF \E rec \in records : rec.repo = r /\ rec.path = w
                    THEN (CHOOSE rec \in records : rec.repo = r /\ rec.path = w).outcome
                    ELSE "none"
    <2>1. Settled(r)
        BY <1>1 DEF RememberedInv, Remembered, AtHand
    <2>2. ASSUME NEW w \in Worktrees, Says(memory[r][w], r, w)
          PROVE  memory[r][w] =
                    IF \E rec \in records : rec.repo = r /\ rec.path = w
                    THEN (CHOOSE rec \in records : rec.repo = r /\ rec.path = w).outcome
                    ELSE "none"
        BY <2>2 DEF Says, Told
    <2>. QED
        BY <2>1, <2>2 DEF Settled
<1>2. RememberedInv => SavedIsTold
    BY <1>1 DEF SavedIsTold
<1>. QED
    BY <1>2, InitRemembered, StepRemembered, PTL DEF Spec

(***************************************************************************)
(* The summary counts what is told.                                        *)
(***************************************************************************)

\* The counters, while the run is live, of what is decided whether told or not.
RepositoryTally ==
    /\ summary["repositories_scanned"] =
        Cardinality(left) + Cardinality(Inspected(RepositoryOutcomes))
    /\ summary["fetch_failures"] = Cardinality(Inspected({"fetchFailed"}))

DecisionTally ==
    /\ summary["worktrees_inspected"] = Cardinality(Decided)
    /\ summary["candidates"] = Cardinality(With(Decided, "candidate"))
    /\ summary["removals"] = Cardinality(With(Decided, "removed"))
    /\ summary["refusals"] = Cardinality(With(Decided, "refused"))
    /\ summary["malformed_states"] =
        Cardinality(With(Decided, "malformed")) + Cardinality(Inspected({"malformed"}))

FailureTally ==
    summary["operational_failures"] =
        issues + issuesTold + unreported + Cardinality(Failed(Decided))
            + Cardinality(Inspected(RepositoryOutcomes \ {"inspected"}))

Tally ==
    /\ Live => RepositoryTally /\ DecisionTally /\ FailureTally
    /\ pc \in {"start", "discover"} => issuesTold = 0 /\ unreported = 0

TallyInv == CoveredInv /\ Tally

\* Counters are numbers, and so is all they are compared with.
LEMMA Numbers ==
    ASSUME TypeInv
    PROVE  /\ IsFiniteSet(Decided) /\ Cardinality(Decided) \in Nat
           /\ IsFiniteSet(Failed(Decided)) /\ Cardinality(Failed(Decided)) \in Nat
           /\ \A o : IsFiniteSet(With(Decided, o)) /\ Cardinality(With(Decided, o)) \in Nat
           /\ \A O : IsFiniteSet(Inspected(O)) /\ Cardinality(Inspected(O)) \in Nat
           /\ IsFiniteSet(left) /\ Cardinality(left) \in Nat
           /\ summary \in [Counters -> Nat]
           /\ issues \in Nat /\ issuesTold \in Nat /\ unreported \in Nat
<1>1. IsFiniteSet(Decided)
    BY FS_Union DEF TypeInv, Finite, Decided
<1>2. IsFiniteSet(left) /\ Cardinality(left) \in Nat
    BY ReportAssumption, FS_Subset, FS_CardinalityType DEF TypeInv, TypeOK
<1>3. ASSUME NEW O PROVE IsFiniteSet(Inspected(O)) /\ Cardinality(Inspected(O)) \in Nat
    <2>1. Inspected(O) \subseteq Repos
        BY DEF Inspected
    <2>. QED
        BY <2>1, ReportAssumption, FS_Subset, FS_CardinalityType
<1>4. issues \in Nat /\ issuesTold \in Nat /\ unreported \in Nat
    BY ReportAssumption DEF TypeInv, TypeOK
<1>. QED
    BY <1>1, <1>2, <1>3, <1>4, CountsAreNumbers DEF TypeInv, TypeOK

\* Sets of decisions that have none in common add up.
LEMMA Disjoint ==
    ASSUME NEW A, NEW B, IsFiniteSet(A), IsFiniteSet(B), A \cap B = {}
    PROVE  Cardinality(A \cup B) = Cardinality(A) + Cardinality(B)
<1>1. Cardinality(A \cup B) = Cardinality(A) + Cardinality(B) - Cardinality(A \cap B)
    BY FS_Union
<1>2. Cardinality(A \cap B) = 0
    BY FS_EmptySet
<1>3. Cardinality(A) \in Nat /\ Cardinality(B) \in Nat
    BY FS_CardinalityType
<1>. QED
    BY <1>1, <1>2, <1>3

LEMMA CountsAdd ==
    ASSUME NEW A, NEW D, IsFiniteSet(A), IsFiniteSet(D), A \cap D = {}
    PROVE  /\ Cardinality(A \cup D) = Cardinality(A) + Cardinality(D)
           /\ Cardinality(Failed(A \cup D)) = Cardinality(Failed(A)) + Cardinality(Failed(D))
           /\ \A o : Cardinality(With(A \cup D, o)) =
                        Cardinality(With(A, o)) + Cardinality(With(D, o))
<1>1. /\ Failed(A \cup D) = Failed(A) \cup Failed(D)
      /\ Failed(A) \cap Failed(D) = {}
    BY DEF Failed
<1>2. Cardinality(Failed(A \cup D)) = Cardinality(Failed(A)) + Cardinality(Failed(D))
    BY <1>1, Disjoint, CountsAreNumbers
<1>3. ASSUME NEW o
      PROVE  Cardinality(With(A \cup D, o)) = Cardinality(With(A, o)) + Cardinality(With(D, o))
    <2>1. /\ With(A \cup D, o) = With(A, o) \cup With(D, o)
          /\ With(A, o) \cap With(D, o) = {}
        BY DEF With
    <2>. QED
        BY <2>1, Disjoint, CountsAreNumbers
<1>. QED
    BY <1>2, <1>3, Disjoint

\* The summary after counting D, none of which was decided before.
LEMMA CountedOnce ==
    ASSUME TypeInv, NEW D, IsFiniteSet(D), Decided \cap D = {},
           summary' = Counts(D), Decided' = Decided \cup D,
           left' = left, inspections' = inspections, issues' = issues,
           issuesTold' = issuesTold, unreported' = unreported,
           RepositoryTally, DecisionTally, FailureTally
    PROVE  RepositoryTally' /\ DecisionTally' /\ FailureTally'
<1>1. /\ summary \in [Counters -> Nat]
      /\ \A o : Cardinality(With(Decided, o)) \in Nat
      /\ Cardinality(Decided) \in Nat /\ Cardinality(Failed(Decided)) \in Nat
      /\ \A O : Cardinality(Inspected(O)) \in Nat
      /\ issues \in Nat /\ issuesTold \in Nat /\ unreported \in Nat
    BY Numbers
<1>2. /\ Cardinality(D) \in Nat /\ Cardinality(Failed(D)) \in Nat
      /\ \A o : Cardinality(With(D, o)) \in Nat
    BY CountsAreNumbers
<1>3. /\ Cardinality(Decided') = Cardinality(Decided) + Cardinality(D)
      /\ Cardinality(Failed(Decided')) = Cardinality(Failed(Decided)) + Cardinality(Failed(D))
      /\ \A o : Cardinality(With(Decided', o)) =
                    Cardinality(With(Decided, o)) + Cardinality(With(D, o))
    BY CountsAdd, Numbers
<1>4. \A O : Inspected(O)' = Inspected(O)
    BY DEF Inspected
<1>5. /\ summary'["repositories_scanned"] = summary["repositories_scanned"]
      /\ summary'["fetch_failures"] = summary["fetch_failures"]
      /\ summary'["worktrees_inspected"] = summary["worktrees_inspected"] + Cardinality(D)
      /\ summary'["candidates"] = summary["candidates"] + Cardinality(With(D, "candidate"))
      /\ summary'["removals"] = summary["removals"] + Cardinality(With(D, "removed"))
      /\ summary'["refusals"] = summary["refusals"] + Cardinality(With(D, "refused"))
      /\ summary'["malformed_states"] =
            summary["malformed_states"] + Cardinality(With(D, "malformed"))
      /\ summary'["operational_failures"] =
            summary["operational_failures"] + Cardinality(Failed(D))
    BY <1>1 DEF Counts, Counters
<1>6. RepositoryTally'
    BY <1>4, <1>5 DEF RepositoryTally
<1>7. DecisionTally'
    BY <1>1, <1>2, <1>3, <1>4, <1>5 DEF DecisionTally
<1>8. FailureTally'
    BY <1>1, <1>2, <1>3, <1>4, <1>5 DEF FailureTally
<1>. QED
    BY <1>6, <1>7, <1>8

LEMMA InitTally == Init => TallyInv
<1>1. Cardinality({}) = 0
    BY FS_EmptySet
<1>2. ASSUME Init PROVE Tally
    <2>1. /\ Decided = {} /\ left = {} /\ issues = 0 /\ issuesTold = 0 /\ unreported = 0
          /\ inspections = [r \in Repos |-> "none"] /\ summary = [k \in Counters |-> 0]
        BY <1>2 DEF Init, Decided
    <2>2. /\ Cardinality(Decided) = 0 /\ Cardinality(Failed(Decided)) = 0
          /\ \A o : Cardinality(With(Decided, o)) = 0
        <3>1. Failed(Decided) = {} /\ \A o : With(Decided, o) = {}
            BY <2>1 DEF Failed, With
        <3>. QED
            BY <1>1, <2>1, <3>1
    <2>3. /\ Inspected(RepositoryOutcomes) = {} /\ Inspected({"fetchFailed"}) = {}
          /\ Inspected({"malformed"}) = {} /\ Inspected(RepositoryOutcomes \ {"inspected"}) = {}
        BY <2>1 DEF Inspected, RepositoryOutcomes
    <2>4. /\ summary["repositories_scanned"] = 0 /\ summary["fetch_failures"] = 0
          /\ summary["worktrees_inspected"] = 0 /\ summary["candidates"] = 0
          /\ summary["removals"] = 0 /\ summary["refusals"] = 0
          /\ summary["malformed_states"] = 0 /\ summary["operational_failures"] = 0
        BY <2>1 DEF Counters
    <2>5. RepositoryTally
        BY <1>1, <2>1, <2>3, <2>4 DEF RepositoryTally
    <2>6. DecisionTally
        BY <1>1, <2>2, <2>3, <2>4 DEF DecisionTally
    <2>7. FailureTally
        BY <1>1, <2>1, <2>2, <2>3, <2>4 DEF FailureTally
    <2>. QED
        BY <2>1, <2>5, <2>6, <2>7 DEF Tally
<1>. QED
    BY <1>2, InitCovered DEF TallyInv

\* A step that counts and tells nothing keeps the tally.
LEMMA SameTally ==
    ASSUME TallyInv, pc # "ended",
           Decided' = Decided, summary' = summary, left' = left, inspections' = inspections,
           issues' + issuesTold' = issues + issuesTold,
           issues' \in Nat, issuesTold' \in Nat, unreported' = unreported,
           pc' \in {"start", "discover"} => pc \in {"start", "discover"} /\ issuesTold' = issuesTold
    PROVE  Tally'
<1>1. \A O : Inspected(O)' = Inspected(O)
    BY DEF Inspected
<1>2. RepositoryTally /\ DecisionTally /\ FailureTally
    BY DEF TallyInv, Tally, Live
<1>3. RepositoryTally' /\ DecisionTally'
    BY <1>1, <1>2 DEF RepositoryTally, DecisionTally
<1>4. FailureTally'
    <2>1. /\ issues \in Nat /\ issuesTold \in Nat /\ unreported \in Nat
          /\ Cardinality(Failed(Decided)) \in Nat
          /\ Cardinality(Inspected(RepositoryOutcomes \ {"inspected"})) \in Nat
        BY Numbers DEF TallyInv, CoveredInv, PlacesInv
    <2>. QED
        BY <1>1, <1>2, <2>1 DEF FailureTally
<1>. QED
    BY <1>3, <1>4 DEF TallyInv, Tally

\* A run cut short reports no summary.
LEMMA CutShort ==
    ASSUME TallyInv, pc # "ended", pc' = "ended", delivered' = delivered
    PROVE  Tally'
BY DEF TallyInv, CoveredInv, Covered, Tally, Live

LEMMA DiscoverTally ==
    ASSUME TallyInv, DiscoverRepositories
    PROVE  Tally'
<1>1. /\ \A r \in Repos : inspections'[r] = "none"
      /\ Decided = {} /\ Decided' = {} /\ issuesTold' = 0 /\ unreported' = 0
      /\ pc' = "repositories" /\ pc = "discover" /\ inspections' = inspections
    <2>1. \A a \in Decided : a.repo \in Repos
        BY DEF TallyInv, CoveredInv, PlacesInv, TypeInv, TypeOK, Decided, Records
    <2>. QED
        BY <2>1 DEF DiscoverRepositories, TallyInv, Tally, CoveredInv, PlacesInv, Places,
                    Untouched, Decided
<1>2. RepositoryTally /\ DecisionTally
    BY <1>1 DEF TallyInv, Tally, Live
<1>3. Inspected(RepositoryOutcomes)' = {} /\ Inspected(RepositoryOutcomes \ {"inspected"})' = {}
    BY <1>1 DEF Inspected, RepositoryOutcomes
<1>4. Cardinality({}) = 0 /\ Failed({}) = {}
    BY FS_EmptySet DEF Failed
<1>5. /\ summary'["repositories_scanned"] = Cardinality(left')
      /\ summary'["operational_failures"] = issues'
      /\ \A k \in Counters \ {"repositories_scanned", "operational_failures"} :
            summary'[k] = summary[k]
    BY Numbers DEF DiscoverRepositories, TallyInv, CoveredInv, PlacesInv, Counters
<1>6. issues' \in Nat /\ Cardinality(left') \in Nat
    BY StepTyped, Numbers, DiscoverTyped, ReportAssumption, FS_Subset, FS_CardinalityType
       DEF DiscoverRepositories, TallyInv, CoveredInv, PlacesInv
<1>7. RepositoryTally'
    <2>1. Inspected({"fetchFailed"})' = Inspected({"fetchFailed"})
        BY <1>1 DEF Inspected
    <2>. QED
        BY <1>2, <1>3, <1>4, <1>5, <1>6, <2>1 DEF RepositoryTally, Counters
<1>8. DecisionTally'
    <2>1. Inspected({"malformed"})' = Inspected({"malformed"})
        BY <1>1 DEF Inspected
    <2>. QED
        BY <1>1, <1>2, <1>5, <2>1 DEF DecisionTally, Counters
<1>9. FailureTally'
    <2>1. Cardinality(Failed(Decided)') = 0
        BY <1>1, <1>4 DEF Failed
    <2>2. Cardinality(Inspected(RepositoryOutcomes \ {"inspected"})') = 0
        BY <1>3, <1>4
    <2>. QED
        BY <1>1, <1>5, <1>6, <2>1, <2>2 DEF FailureTally
<1>. QED
    BY <1>1, <1>7, <1>8, <1>9 DEF Tally

\* The repositories reported with an outcome of O, once r is.
LEMMA InspectedOne ==
    ASSUME TypeInv, NEW r \in Repos, inspections[r] = "none", NEW outcome \in RepositoryOutcomes,
           inspections' = [inspections EXCEPT ![r] = outcome], NEW O \in SUBSET RepositoryOutcomes
    PROVE  Cardinality(Inspected(O)') =
            IF outcome \in O THEN Cardinality(Inspected(O)) + 1 ELSE Cardinality(Inspected(O))
<1>1. r \notin Inspected(O)
    BY DEF Inspected, RepositoryOutcomes
<1>2. Inspected(O)' = IF outcome \in O THEN Inspected(O) \cup {r} ELSE Inspected(O)
    BY DEF Inspected, TypeInv, TypeOK, RepositoryOutcomes
<1>. QED
    BY <1>1, <1>2, Numbers, FS_AddElement

LEMMA InspectTally ==
    ASSUME TallyInv, NEW r \in Repos, InspectRepository(r)
    PROVE  Tally'
<1>1. CASE pc' = "ended"
    BY <1>1, CutShort DEF InspectRepository
<1>2. CASE pc' # "ended"
    <2>1. PICK outcome \in RepositoryOutcomes :
            /\ summary' = CountsRepository(outcome) /\ pc' = "worktrees"
            /\ inspections' = [inspections EXCEPT ![r] = outcome]
        BY <1>2 DEF InspectRepository
    <2>2. /\ r \in left /\ left' = left \ {r} /\ inspections[r] = "none" /\ pc # "ended"
          /\ Decided' = Decided
          /\ issues' = issues /\ issuesTold' = issuesTold /\ unreported' = unreported
        BY DEF InspectRepository, TallyInv, CoveredInv, PlacesInv, Places, Untouched, Decided
    <2>3. RepositoryTally /\ DecisionTally /\ FailureTally
        BY <2>2 DEF TallyInv, Tally, Live
    <2>4. TypeInv
        BY DEF TallyInv, CoveredInv, PlacesInv
    <2>5. \A O \in SUBSET RepositoryOutcomes :
            Cardinality(Inspected(O)') =
            IF outcome \in O THEN Cardinality(Inspected(O)) + 1 ELSE Cardinality(Inspected(O))
        BY <2>1, <2>2, <2>4, InspectedOne
    <2>6. /\ summary \in [Counters -> Nat]
          /\ \A O : Cardinality(Inspected(O)) \in Nat
          /\ Cardinality(left) \in Nat /\ IsFiniteSet(left)
          /\ issues \in Nat /\ issuesTold \in Nat /\ unreported \in Nat
          /\ Cardinality(Failed(Decided)) \in Nat /\ Cardinality(With(Decided, "malformed")) \in Nat
        BY <2>4, Numbers
    <2>7. Cardinality(left') = Cardinality(left) - 1
        BY <2>2, <2>6, FS_RemoveElement
    <2>8. /\ summary'["operational_failures"] =
                summary["operational_failures"] + IF outcome # "inspected" THEN 1 ELSE 0
          /\ summary'["fetch_failures"] =
                summary["fetch_failures"] + IF outcome = "fetchFailed" THEN 1 ELSE 0
          /\ summary'["malformed_states"] =
                summary["malformed_states"] + IF outcome = "malformed" THEN 1 ELSE 0
          /\ \A k \in {"repositories_scanned", "worktrees_inspected", "candidates", "removals",
                        "refusals"} : summary'[k] = summary[k]
        BY <2>1, <2>6 DEF CountsRepository, Counters
    <2>9. RepositoryTally'
        <3>1. Cardinality(Inspected(RepositoryOutcomes)') =
                Cardinality(Inspected(RepositoryOutcomes)) + 1
            BY <2>5
        <3>2. Cardinality(Inspected({"fetchFailed"})') =
                Cardinality(Inspected({"fetchFailed"})) + IF outcome = "fetchFailed" THEN 1 ELSE 0
            BY <2>5, <2>6 DEF RepositoryOutcomes
        <3>. QED
            BY <2>3, <2>6, <2>7, <2>8, <3>1, <3>2 DEF RepositoryTally
    <2>10. DecisionTally'
        <3>1. Cardinality(Inspected({"malformed"})') =
                Cardinality(Inspected({"malformed"})) + IF outcome = "malformed" THEN 1 ELSE 0
            BY <2>5, <2>6 DEF RepositoryOutcomes
        <3>. QED
            BY <2>2, <2>3, <2>6, <2>8, <3>1 DEF DecisionTally
    <2>11. FailureTally'
        <3>1. Cardinality(Inspected(RepositoryOutcomes \ {"inspected"})') =
                Cardinality(Inspected(RepositoryOutcomes \ {"inspected"}))
                    + IF outcome # "inspected" THEN 1 ELSE 0
            BY <2>5, <2>6
        <3>. QED
            BY <2>2, <2>3, <2>6, <2>8, <3>1 DEF FailureTally
    <2>. QED
        BY <2>1, <2>9, <2>10, <2>11 DEF Tally
<1>. QED
    BY <1>1, <1>2

LEMMA DecideTally ==
    ASSUME TallyInv, NEW w \in Worktrees, DecideWorktree(w)
    PROVE  Tally'
<1>1. CASE pc' = "ended"
    BY <1>1, CutShort DEF DecideWorktree
<1>2. CASE pc' # "ended"
    <2>1. PICK d : /\ summary' = Counts({Record(repo, w, d)}) /\ pc' = "worktrees"
                   /\ records' = records \cup {Record(repo, w, d)}
        BY <1>2, DecideNew DEF TallyInv, CoveredInv
    <2>2. PICK D : D = {Record(repo, w, d)}
        OBVIOUS
    <2>3. IsFiniteSet(D) /\ summary' = Counts(D)
        BY <2>1, <2>2, FS_Singleton
    <2>4. Decided' = Decided \cup D /\ Decided \cap D = {}
        BY <2>1, <2>2, DecideNew, RecordFields DEF TallyInv, CoveredInv, Decided
    <2>5. /\ left' = left /\ inspections' = inspections /\ issues' = issues
          /\ issuesTold' = issuesTold /\ unreported' = unreported /\ pc = "worktrees"
        BY DEF DecideWorktree
    <2>6. TypeInv /\ RepositoryTally /\ DecisionTally /\ FailureTally
        BY <2>5 DEF TallyInv, CoveredInv, PlacesInv, Tally, Live
    <2>7. RepositoryTally' /\ DecisionTally' /\ FailureTally'
        BY <2>3, <2>4, <2>5, <2>6, CountedOnce
    <2>. QED
        BY <2>1, <2>7 DEF Tally
<1>. QED
    BY <1>1, <1>2

LEMMA ReconcileTally ==
    ASSUME TallyInv, ReconcileStale
    PROVE  Tally'
<1>1. /\ left' = left /\ inspections' = inspections /\ issues' = issues /\ records' = records
      /\ issuesTold' = issuesTold /\ pc = "worktrees" /\ pc' = "stale" /\ verdicts = {}
    BY ReconcileNew DEF ReconcileStale, TallyInv, CoveredInv
<1>2. TypeInv /\ RepositoryTally /\ DecisionTally /\ FailureTally
    BY <1>1 DEF TallyInv, CoveredInv, PlacesInv, Tally, Live
<1>3. CASE /\ verdicts' = {} /\ unreported' = unreported + 1
           /\ summary' = [summary EXCEPT !["operational_failures"] = @ + 1]
    <2>1. Decided' = Decided /\ \A O : Inspected(O)' = Inspected(O)
        BY <1>1, <1>3 DEF Decided, Inspected
    <2>2. /\ summary'["operational_failures"] = summary["operational_failures"] + 1
          /\ \A k \in Counters \ {"operational_failures"} : summary'[k] = summary[k]
        BY <1>2, <1>3 DEF TypeInv, TypeOK, Counters
    <2>3. RepositoryTally' /\ DecisionTally'
        BY <1>1, <1>2, <2>1, <2>2 DEF RepositoryTally, DecisionTally, Counters
    <2>4. FailureTally'
        <3>1. /\ issues \in Nat /\ issuesTold \in Nat /\ unreported \in Nat
              /\ Cardinality(Failed(Decided)) \in Nat
              /\ Cardinality(Inspected(RepositoryOutcomes \ {"inspected"})) \in Nat
            BY <1>2, Numbers
        <3>. QED
            BY <1>1, <1>2, <1>3, <2>1, <2>2, <3>1 DEF FailureTally
    <2>. QED
        BY <1>1, <2>3, <2>4 DEF Tally
<1>4. CASE summary' = Counts(verdicts') /\ unreported' = unreported
    <2>1. IsFiniteSet(verdicts')
        BY <1>2, ReconcileTyped DEF TypeInv, Finite
    <2>2. Decided' = Decided \cup verdicts' /\ Decided \cap verdicts' = {}
        BY <1>1, ReconcileNew DEF TallyInv, CoveredInv, Decided
    <2>3. RepositoryTally' /\ DecisionTally' /\ FailureTally'
        BY <1>1, <1>2, <1>4, <2>1, <2>2, CountedOnce
    <2>. QED
        BY <1>1, <2>3 DEF Tally
<1>. QED
    BY <1>3, <1>4 DEF ReconcileStale, Reconcile

LEMMA TellStaleTally ==
    ASSUME TallyInv, NEW v \in verdicts, TellStale(v)
    PROVE  Tally'
<1>1. CASE pc' = "ended"
    BY <1>1, CutShort DEF TellStale
<1>2. CASE pc' # "ended"
    <2>1. pc' = "stale" /\ Decided' = Decided
        BY <1>2, TellStaleMoves DEF TallyInv, CoveredInv, Decided
    <2>2. /\ pc # "ended" /\ summary' = summary /\ left' = left /\ inspections' = inspections
          /\ issues' = issues /\ issuesTold' = issuesTold /\ unreported' = unreported
        BY DEF TellStale
    <2>3. issues \in Nat /\ issuesTold \in Nat
        BY Numbers DEF TallyInv, CoveredInv, PlacesInv
    <2>. QED
        BY <2>1, <2>2, <2>3, SameTally
<1>. QED
    BY <1>1, <1>2

LEMMA FinishTally ==
    ASSUME TallyInv, Finish
    PROVE  Tally'
<1>1. /\ Decided' = Decided /\ summary' = summary /\ left' = left /\ inspections' = inspections
      /\ issues' = issues /\ issuesTold' = issuesTold /\ unreported' = unreported
      /\ pc = "saved" /\ pc' = "ended"
    BY DEF Finish, Decided
<1>2. issues \in Nat /\ issuesTold \in Nat
    BY Numbers DEF TallyInv, CoveredInv, PlacesInv
<1>. QED
    BY <1>1, <1>2, SameTally

LEMMA StepTally == TallyInv /\ [Next]_vars => TallyInv'
<1>. SUFFICES ASSUME TallyInv, [Next]_vars PROVE Tally'
    BY StepCovered DEF TallyInv
<1>0. issues \in Nat /\ issuesTold \in Nat
    BY Numbers DEF TallyInv, CoveredInv, PlacesInv
<1>1. CASE Begin
    BY <1>0, <1>1, SameTally, CutShort DEF Begin, Decided
<1>2. CASE DiscoverRepositories
    BY <1>2, DiscoverTally
<1>3. ASSUME NEW r \in Repos, InspectRepository(r) PROVE Tally'
    BY <1>3, InspectTally
<1>4. ASSUME NEW w \in Worktrees, DecideWorktree(w) PROVE Tally'
    BY <1>4, DecideTally
<1>5. CASE ReconcileStale
    BY <1>5, ReconcileTally
<1>6. ASSUME NEW v \in verdicts, TellStale(v) PROVE Tally'
    BY <1>6, TellStaleTally
<1>7. CASE Remember
    BY <1>0, <1>7, SameTally DEF Remember, Decided
<1>8. CASE TellIssue
    BY <1>0, <1>8, SameTally, CutShort DEF TellIssue, Decided
<1>9. CASE Save
    BY <1>0, <1>9, SameTally, CutShort DEF Save, Decided
<1>10. CASE Finish
    BY <1>10, FinishTally
<1>11. CASE UNCHANGED vars
    BY <1>11 DEF vars, TallyInv, Tally, Live, RepositoryTally, DecisionTally, FailureTally,
                 Decided, Inspected, Failed, With
<1>. QED
    BY <1>1, <1>2, <1>3, <1>4, <1>5, <1>6, <1>7, <1>8, <1>9, <1>10, <1>11 DEF Next, Ended

\* The summary counts exactly the records before it, and the failed inspections of stale
\* workspaces that have none (lib.rs, update_repository_summary, update_worktree_summary).
THEOREM TotalsCorrect == Spec => []TotalsMatch
<1>1. ASSUME TallyInv, pc = "saved" PROVE TotalsMatch
    <2>1. Decided = records /\ left = {} /\ issues = 0
        BY <1>1 DEF TallyInv, CoveredInv, PlacesInv, Places, Decided
    <2>2. RepositoryTally /\ DecisionTally /\ FailureTally
        BY <1>1 DEF TallyInv, Tally, Live
    <2>3. Cardinality(left) = 0
        BY <2>1, FS_EmptySet
    <2>4. /\ Cardinality(Inspected(RepositoryOutcomes)) \in Nat
          /\ issuesTold \in Nat
        BY <1>1, Numbers DEF TallyInv, CoveredInv, PlacesInv
    <2>. QED
        BY <2>1, <2>2, <2>3, <2>4
           DEF TotalsMatch, RepositoryTally, DecisionTally, FailureTally
<1>2. TallyInv => TotalsMatch
    BY <1>1 DEF TotalsMatch
<1>. QED
    BY <1>2, InitTally, StepTally, PTL DEF Spec

\* A run that reports everything exits with success exactly when nothing it tells of, and no
\* inspection of stale workspaces, has failed (main.rs, Summary::exit_code).
THEOREM ExitSound == Spec => []ExitTellsFailures
<1>1. ASSUME TallyInv, pc = "ended", delivered
      PROVE  exit = "success" <=>
                /\ issuesTold = 0 /\ unreported = 0
                /\ \A r \in Repos : inspections[r] \in {"none", "inspected"}
                /\ \A rec \in records : ~rec.failed
    <2>. DEFINE bad == Inspected(RepositoryOutcomes \ {"inspected"})
    <2>1. FailureTally
        BY <1>1 DEF TallyInv, Tally, Live
    <2>2. exit = ExitCode /\ issues = 0 /\ Decided = records
        BY <1>1 DEF TallyInv, CoveredInv, Covered, Decided
    <2>3. /\ issuesTold \in Nat /\ unreported \in Nat
          /\ Cardinality(Failed(records)) \in Nat /\ Cardinality(bad) \in Nat
          /\ IsFiniteSet(Failed(records)) /\ IsFiniteSet(bad)
        BY <1>1, <2>2, Numbers DEF TallyInv, CoveredInv, PlacesInv
    <2>4. summary["operational_failures"] =
            issuesTold + unreported + Cardinality(Failed(records)) + Cardinality(bad)
        BY <2>1, <2>2, <2>3 DEF FailureTally
    <2>5. Cardinality(Failed(records)) = 0 <=> \A rec \in records : ~rec.failed
        <3>1. Cardinality(Failed(records)) = 0 <=> Failed(records) = {}
            BY <2>3, FS_EmptySet
        <3>2. Failed(records) = {} <=> \A rec \in records : ~rec.failed
            BY DEF Failed
        <3>. QED
            BY <3>1, <3>2
    <2>6. Cardinality(bad) = 0 <=> \A r \in Repos : inspections[r] \in {"none", "inspected"}
        <3>1. Cardinality(bad) = 0 <=> bad = {}
            BY <2>3, FS_EmptySet
        <3>2. inspections \in [Repos -> RepositoryOutcomes \cup {"none"}]
            BY <1>1 DEF TallyInv, CoveredInv, PlacesInv, TypeInv, TypeOK
        <3>3. bad = {} <=> \A r \in Repos : inspections[r] \in {"none", "inspected"}
            BY <3>2 DEF Inspected, RepositoryOutcomes
        <3>. QED
            BY <3>1, <3>3
    <2>7. exit = "success" <=> summary["operational_failures"] = 0
        BY <2>2 DEF ExitCode
    <2>. HIDE DEF bad
    <2>8. summary["operational_failures"] = 0 <=>
            /\ issuesTold = 0 /\ unreported = 0
            /\ Cardinality(Failed(records)) = 0 /\ Cardinality(bad) = 0
        <3>1. PICK f, b, sum : /\ f = Cardinality(Failed(records)) /\ b = Cardinality(bad)
                               /\ sum = summary["operational_failures"]
            OBVIOUS
        <3>2. /\ f \in Nat /\ b \in Nat /\ issuesTold \in Nat /\ unreported \in Nat
              /\ sum = issuesTold + unreported + f + b
            BY <2>3, <2>4, <3>1
        <3>3. sum = 0 <=> issuesTold = 0 /\ unreported = 0 /\ f = 0 /\ b = 0
            BY <3>2
        <3>. QED
            BY <3>1, <3>3
    <2>. QED
        BY <2>5, <2>6, <2>7, <2>8
<1>2. TallyInv => ExitTellsFailures
    BY <1>1 DEF ExitTellsFailures
<1>. QED
    BY <1>2, InitTally, StepTally, PTL DEF Spec
=============================================================================
