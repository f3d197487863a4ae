--------------------------- MODULE LopRunsProofs ---------------------------
(***************************************************************************)
(* Theorems about LopRuns, for every number of runs, probes, repositories  *)
(* and classes.  They hold as long as nothing removes the lock file: it    *)
(* was there before the first probe, or there are no probes.  Without that *)
(* Exclusion is false, as the run of MCLopRuns_probe.cfg shows.            *)
(***************************************************************************)
EXTENDS LopRuns, TLAPS

LockFileStays == InitiallyPresent \/ Probes = {}

\* Runs at these steps are under the lock.
Under == RunSteps \ {"idle", "opened", "ended"}

USE DEF RunSteps, ProbeSteps, Reports, At, To

\* The one lock file: every run that has opened it opened the file the path still names.
OneFile ==
    /\ InitiallyPresent => file # Missing
    /\ \A r \in Runs : pc[r] # "idle" => file # Missing /\ handle[r] = file
    /\ \A q \in Probes : probe[q] # "idle" => existed[q]

\* What a run under the lock knows: the memory it loaded is the saved one, what it has not
\* inspected it has not touched, what is still to be inspected has not been reported, and the
\* temporary file is its own.
Faithful ==
    \A r \in Runs :
        /\ pc[r] \in {"loaded", "inspecting", "truncated", "written"} => base[r] = stored
        /\ pc[r] \in {"idle", "opened", "locked", "loaded"} =>
                \A p \in Repos : report[r][p] = "unseen"
        /\ pc[r] \in {"inspecting", "truncated", "written"} =>
                \A p \in Repos : report[r][p] = "unseen" => mine[r][p] = base[r][p]
        /\ pc[r] = "inspecting" => \A p \in pending[r] : report[r][p] = "unseen"
        /\ pc[r] = "written" => tmp = mine[r]

LockInv == TypeOK /\ OneFile /\ Exclusion /\ StateIsWhole /\ Faithful

\* The invariant holds before any process starts.
LEMMA InitLock == LockFileStays /\ Init => LockInv
<1>. SUFFICES ASSUME LockFileStays, Init
              PROVE  LockInv
    OBVIOUS
<1>1. TypeOK
    BY LopRunsAssumption DEF Init, TypeOK, Memory, Nothing, LockFiles
<1>2. OneFile
    BY LopRunsAssumption DEF Init, OneFile, LockFiles
<1>3. Exclusion /\ StateIsWhole
    BY LopRunsAssumption DEF Init, Exclusion, StateIsWhole
<1>4. Faithful
    BY DEF Init, Faithful
<1>. QED
    BY <1>1, <1>2, <1>3, <1>4 DEF LockInv

\* Only one run at a time is at a step under the lock.
LEMMA OneUnder ==
    ASSUME LockInv, NEW r \in Runs, NEW q \in Runs, pc[r] \in Under, pc[q] \in Under
    PROVE  r = q
BY DEF LockInv, TypeOK, Exclusion, Under

\* A run that ends takes its lock with it and leaves the data alone.
LEMMA EndLock ==
    ASSUME LockInv, NEW r \in Runs, pc[r] # "idle", End(r),
           UNCHANGED <<file, handle, stored, runVars, probeVars>>,
           tmp' \in Memory \cup {Torn, Missing},
           tmp' # tmp => pc[r] \in Under
    PROVE  LockInv'
<1>1. TypeOK'
    BY DEF LockInv, TypeOK, End, runVars, probeVars
<1>2. OneFile'
    BY DEF LockInv, TypeOK, OneFile, End, probeVars
<1>3. Exclusion' /\ StateIsWhole'
    BY DEF LockInv, Exclusion, StateIsWhole, End
<1>4. Faithful'
    <2>. SUFFICES ASSUME NEW q \in Runs, q # r
                  PROVE  pc'[q] = pc[q] /\ (pc[q] = "written" => tmp' = tmp)
        BY DEF LockInv, TypeOK, Faithful, End, runVars
    <2>. QED
        BY OneUnder DEF LockInv, TypeOK, End, Under
<1>. QED
    BY <1>1, <1>2, <1>3, <1>4 DEF LockInv

\* Every step of every run and probe keeps it, as long as the lock file stays.
LEMMA StepLock == LockFileStays /\ LockInv /\ [Next]_vars => LockInv'
<1>. SUFFICES ASSUME LockFileStays, LockInv, [Next]_vars
              PROVE  LockInv'
    OBVIOUS
<1>. USE DEF LockInv
<1>1. ASSUME NEW r \in Runs, OpenLock(r)
      PROVE  LockInv'
    <2>1. TypeOK'
        BY <1>1 DEF OpenLock, TypeOK, LockFiles, dataVars, runVars, probeVars
    <2>2. OneFile'
        BY <1>1, LopRunsAssumption DEF OpenLock, TypeOK, OneFile, LockFiles, probeVars
    <2>3. Exclusion' /\ StateIsWhole'
        BY <1>1 DEF OpenLock, Exclusion, StateIsWhole, dataVars
    <2>4. Faithful'
        BY <1>1 DEF OpenLock, TypeOK, Faithful, dataVars, runVars
    <2>. QED
        BY <2>1, <2>2, <2>3, <2>4
<1>2. ASSUME NEW r \in Runs, TryLock(r)
      PROVE  LockInv'
    <2>1. TypeOK'
        BY <1>2 DEF TryLock, TypeOK, dataVars, runVars, probeVars
    <2>2. OneFile'
        BY <1>2 DEF TryLock, TypeOK, OneFile, probeVars
    <2>3. holding' # holding => holding = {} /\ holding' = {r}
        BY <1>2 DEF TryLock, TypeOK, OneFile
    <2>4. Exclusion' /\ StateIsWhole'
        BY <1>2, <2>3 DEF TryLock, Exclusion, StateIsWhole, dataVars
    <2>5. Faithful'
        BY <1>2 DEF TryLock, TypeOK, Faithful, dataVars, runVars
    <2>. QED
        BY <2>1, <2>2, <2>4, <2>5
<1>3. ASSUME NEW r \in Runs, LoadState(r)
      PROVE  LockInv'
    <2>0. /\ pc' = [pc EXCEPT ![r] = "loaded"] /\ base' = [base EXCEPT ![r] = stored]
          /\ pc[r] = "locked"
          /\ UNCHANGED <<file, handle, holding, dataVars, pending, mine, report, probeVars>>
        BY <1>3 DEF LoadState, StateIsWhole
    <2>1. TypeOK'
        BY <2>0 DEF TypeOK, StateIsWhole, dataVars, probeVars
    <2>2. OneFile'
        BY <2>0 DEF TypeOK, OneFile, probeVars
    <2>3. Exclusion' /\ StateIsWhole'
        BY <2>0 DEF Exclusion, StateIsWhole, dataVars
    <2>4. Faithful'
        BY <2>0 DEF TypeOK, Faithful, dataVars
    <2>. QED
        BY <2>1, <2>2, <2>3, <2>4
<1>4. ASSUME NEW r \in Runs, NEW D \in SUBSET Repos, Discover(r, D)
      PROVE  LockInv'
    <2>1. TypeOK'
        BY <1>4 DEF Discover, TypeOK, lockVars, dataVars, probeVars
    <2>2. OneFile'
        BY <1>4 DEF Discover, TypeOK, OneFile, lockVars, probeVars
    <2>3. Exclusion' /\ StateIsWhole'
        BY <1>4 DEF Discover, Exclusion, StateIsWhole, lockVars, dataVars
    <2>4. Faithful'
        BY <1>4 DEF Discover, TypeOK, Faithful, dataVars
    <2>. QED
        BY <2>1, <2>2, <2>3, <2>4
<1>5. ASSUME NEW r \in Runs, NEW p \in Repos, NEW c \in Classes \cup {"none"}, Inspect(r, p, c)
      PROVE  LockInv'
    <2>0. Compared(base[r], p, c) \in Reports \ {"unseen"}
        BY DEF Compared
    <2>1. TypeOK'
        <3>1. mine' \in [Runs -> Memory]
            BY <1>5 DEF Inspect, TypeOK, Memory
        <3>2. report' \in [Runs -> [Repos -> Reports]]
            BY <1>5, <2>0 DEF Inspect, TypeOK
        <3>3. pending' \in [Runs -> SUBSET Repos]
            BY <1>5 DEF Inspect, TypeOK
        <3>. QED
            BY <1>5, <3>1, <3>2, <3>3 DEF Inspect, TypeOK, lockVars, dataVars, probeVars
    <2>2. OneFile' /\ Exclusion' /\ StateIsWhole'
        BY <1>5 DEF Inspect, OneFile, Exclusion, StateIsWhole, lockVars, dataVars, probeVars
    <2>3. Faithful'
        <3>1. \A q \in Runs, o \in Repos :
                (q # r \/ o # p) => mine'[q][o] = mine[q][o] /\ report'[q][o] = report[q][o]
            BY <1>5 DEF Inspect, TypeOK, Memory
        <3>2. report'[r][p] # "unseen"
            BY <1>5, <2>0 DEF Inspect, TypeOK
        <3>3. \A q \in Runs : q # r => mine'[q] = mine[q]
            BY <1>5 DEF Inspect, TypeOK
        <3>4. pc[r] = "inspecting" /\ UNCHANGED <<pc, stored, tmp, base>>
            BY <1>5 DEF Inspect, dataVars
        <3>5. /\ pending'[r] = pending[r] \ {p}
              /\ \A q \in Runs : pending'[q] \subseteq pending[q]
            BY <1>5 DEF Inspect, TypeOK
        <3>6. \A q \in Runs : \A o \in pending'[q] : q # r \/ o # p
            BY <3>5
        <3>7. \A q \in Runs : \A o \in pending[q] : o \in Repos
            BY DEF TypeOK
        <3>8. \A q \in Runs : pc'[q] = "inspecting" => \A o \in pending'[q] : report'[q][o] = "unseen"
            BY <3>1, <3>4, <3>5, <3>6, <3>7 DEF Faithful
        <3>. QED
            BY <3>1, <3>2, <3>3, <3>4, <3>8 DEF Faithful
    <2>. QED
        BY <2>1, <2>2, <2>3
<1>6. ASSUME NEW r \in Runs, TruncateTemp(r) \/ WriteTemp(r)
      PROVE  LockInv'
    <2>0. /\ pc[r] \in Under
          /\ \/ pc' = [pc EXCEPT ![r] = "truncated"] /\ pc[r] = "inspecting" /\ tmp' = Torn
             \/ pc' = [pc EXCEPT ![r] = "written"] /\ pc[r] = "truncated" /\ tmp' = mine[r]
          /\ UNCHANGED <<lockVars, stored, runVars, probeVars>>
        BY <1>6 DEF TruncateTemp, WriteTemp, Under
    <2>1. TypeOK'
        BY <2>0 DEF TypeOK, lockVars, runVars, probeVars
    <2>2. OneFile'
        BY <2>0 DEF TypeOK, OneFile, lockVars, probeVars
    <2>3. Exclusion' /\ StateIsWhole'
        BY <2>0 DEF Exclusion, StateIsWhole, lockVars
    <2>4. \A q \in Runs : q # r => pc[q] \notin Under
        BY <2>0, OneUnder
    <2>5. Faithful'
        BY <2>0, <2>4 DEF TypeOK, Faithful, runVars, Under
    <2>. QED
        BY <2>1, <2>2, <2>3, <2>5
<1>7. ASSUME NEW r \in Runs, Rename(r)
      PROVE  LockInv'
    <2>0. pc[r] = "written" /\ pc[r] \in Under /\ tmp = mine[r] /\ tmp \in Memory
        BY <1>7 DEF Rename, TypeOK, Faithful, Under
    <2>1. /\ pc' = [pc EXCEPT ![r] = "saved"] /\ stored' = tmp /\ tmp' = Missing
          /\ UNCHANGED <<holding, file, handle, runVars, probeVars>>
        BY <1>7, <2>0, LopRunsAssumption DEF Rename
    <2>2. TypeOK'
        BY <2>0, <2>1 DEF TypeOK, runVars, probeVars
    <2>3. OneFile'
        BY <2>0, <2>1 DEF TypeOK, OneFile, probeVars
    <2>4. Exclusion' /\ StateIsWhole'
        BY <2>0, <2>1, LopRunsAssumption DEF Exclusion, StateIsWhole
    <2>5. \A q \in Runs : q # r => pc[q] \notin Under
        BY <2>0, OneUnder
    <2>6. Faithful'
        BY <2>0, <2>1, <2>5 DEF TypeOK, Faithful, runVars, Under
    <2>. QED
        BY <2>2, <2>3, <2>4, <2>6
<1>8. ASSUME NEW r \in Runs, Report(r)
      PROVE  LockInv'
    <2>2. TypeOK'
        BY <1>8 DEF Report, End, TypeOK, dataVars, runVars, probeVars
    <2>3. OneFile'
        BY <1>8 DEF Report, End, TypeOK, OneFile, probeVars
    <2>4. Exclusion' /\ StateIsWhole'
        BY <1>8 DEF Report, End, Exclusion, StateIsWhole, dataVars
    <2>5. Faithful'
        BY <1>8 DEF Report, End, TypeOK, Faithful, dataVars, runVars
    <2>. QED
        BY <2>2, <2>3, <2>4, <2>5
<1>9. ASSUME NEW r \in Runs, Fail(r)
      PROVE  LockInv'
    <2>1. tmp' \in Memory \cup {Torn, Missing} /\ (tmp' # tmp => pc[r] \in Under)
        BY <1>9 DEF Fail, TypeOK, Under
    <2>. QED
        BY <1>9, <2>1, EndLock DEF Fail
<1>10. ASSUME NEW r \in Runs, Crash(r)
       PROVE  LockInv'
    <2>1. tmp' \in Memory \cup {Torn, Missing} /\ tmp' = tmp
        BY <1>10 DEF Crash, TypeOK, dataVars
    <2>. QED
        BY <1>10, <2>1, EndLock DEF Crash, dataVars
<1>11. ASSUME NEW q \in Probes, ProbeStep(q)
       PROVE  LockInv'
    <2>1. UNCHANGED <<file, handle, holding, dataVars, pc, runVars>>
        <3>1. InitiallyPresent
            BY DEF LockFileStays
        <3>. QED
            BY <1>11, <3>1 DEF ProbeStep, ProbeLooks, ProbeOpens, ProbeRemoves, lockVars, OneFile
    <2>2. /\ probe' \in [Probes -> ProbeSteps] /\ existed' \in [Probes -> BOOLEAN]
          /\ \A o \in Probes : probe'[o] # "idle" => existed'[o]
        <3>1. CASE ProbeLooks(q)
            <4>1. file # Missing
                BY DEF LockFileStays, OneFile
            <4>. QED
                BY <3>1, <4>1 DEF ProbeLooks, TypeOK, OneFile
        <3>2. CASE ProbeOpens(q) \/ ProbeRemoves(q)
            BY <3>2 DEF ProbeOpens, ProbeRemoves, TypeOK, OneFile
        <3>. QED
            BY <1>11, <3>1, <3>2 DEF ProbeStep
    <2>3. TypeOK' /\ OneFile'
        BY <2>1, <2>2 DEF TypeOK, OneFile, dataVars, runVars
    <2>4. Exclusion' /\ StateIsWhole' /\ Faithful'
        BY <2>1 DEF Exclusion, StateIsWhole, Faithful, dataVars, runVars
    <2>. QED
        BY <2>3, <2>4
<1>12. CASE Finished \/ UNCHANGED vars
    BY <1>12 DEF Finished, vars, TypeOK, OneFile, Exclusion, StateIsWhole, Faithful
<1>. QED
    BY <1>1, <1>2, <1>3, <1>4, <1>5, <1>6, <1>7, <1>8, <1>9, <1>10, <1>11, <1>12
       DEF Next, RunStep

\* One lock file, one run under it, and what that run knows is what is stored.
LEMMA LockInvariant ==
    ASSUME LockFileStays
    PROVE  Spec => []LockInv
BY InitLock, StepLock, PTL DEF Spec

\* Every variable keeps its type, and a run holds the lock exactly at the steps under it.
THEOREM TypeCorrect ==
    ASSUME LockFileStays
    PROVE  Spec => []TypeOK
<1>1. LockInv => TypeOK
    BY DEF LockInv
<1>. QED
    BY <1>1, LockInvariant, PTL

\* The process lock excludes: no two runs are ever under it at once.
THEOREM RunsExclude ==
    ASSUME LockFileStays
    PROVE  Spec => []Exclusion
<1>1. LockInv => Exclusion
    BY DEF LockInv
<1>. QED
    BY <1>1, LockInvariant, PTL

\* Neither a failed nor a killed run ever leaves a half-written state.json.
THEOREM StateNeverTorn ==
    ASSUME LockFileStays
    PROVE  Spec => []StateIsWhole
<1>1. LockInv => StateIsWhole
    BY DEF LockInv
<1>. QED
    BY <1>1, LockInvariant, PTL

\* No save loses what an earlier run saved about a repository this run did not inspect.
THEOREM NoMemoryLost ==
    ASSUME LockFileStays
    PROVE  Spec => SaveKeepsTheRest
<1>1. LockInv /\ [Next]_vars =>
        \A r \in Runs :
            At(r, "written") /\ pc'[r] = "saved" =>
                \A p \in Repos : report[r][p] = "unseen" => stored'[p] = stored[p]
    <2>. SUFFICES ASSUME LockInv, [Next]_vars, NEW r \in Runs, pc[r] = "written",
                         pc'[r] = "saved"
                  PROVE  \A p \in Repos : report[r][p] = "unseen" => stored'[p] = stored[p]
        OBVIOUS
    <2>1. Rename(r)
        <3>1. \A q \in Runs : RunStep(q) /\ q # r => pc'[r] = pc[r]
            BY DEF LockInv, TypeOK, RunStep, OpenLock, TryLock, LoadState, Discover, Inspect,
                TruncateTemp, WriteTemp, Rename, Report, Fail, Crash, End
        <3>2. \A q \in Probes : ProbeStep(q) => pc' = pc
            BY DEF ProbeStep, ProbeLooks, ProbeOpens, ProbeRemoves
        <3>3. RunStep(r)
            BY <3>1, <3>2 DEF Next, Finished, vars
        <3>. QED
            BY <3>3 DEF LockInv, TypeOK, RunStep, OpenLock, TryLock, LoadState, Discover, Inspect,
                TruncateTemp, WriteTemp, Report, Fail, Crash, End
    <2>2. stored' = tmp \/ stored' = stored
        BY <2>1 DEF Rename, dataVars
    <2>. QED
        BY <2>2 DEF LockInv, Faithful
<1>. QED
    BY <1>1, LockInvariant, PTL DEF Spec, SaveKeepsTheRest

\* classification_changed is decided against the last saved decision, whoever else starts.
THEOREM ChangedIsRight ==
    ASSUME LockFileStays
    PROVE  Spec => ChangedComparesSaved
<1>1. LockInv /\ [Next]_vars => \A r \in Runs, p \in Repos : ReportsAgainst(stored, r, p)
    <2>. SUFFICES ASSUME LockInv, [Next]_vars, NEW r \in Runs, NEW p \in Repos,
                         report[r][p] = "unseen", report'[r][p] # "unseen",
                         report'[r][p] \in {"same", "changed"}
                  PROVE  report'[r][p] = "changed" <=> mine'[r][p] # stored[p]
        BY DEF ReportsAgainst
    <2>1. PICK c \in Classes \cup {"none"} : Inspect(r, p, c)
        <3>1. \A q \in Probes : ProbeStep(q) => UNCHANGED report
            BY DEF ProbeStep, ProbeLooks, ProbeOpens, ProbeRemoves, runVars
        <3>2. PICK q \in Runs : RunStep(q)
            BY <3>1 DEF Next, Finished, vars
        <3>3. PICK o \in Repos, c \in Classes \cup {"none"} : Inspect(q, o, c)
            BY <3>2 DEF RunStep, OpenLock, TryLock, LoadState, Discover, TruncateTemp, WriteTemp,
                Rename, Report, Fail, Crash, runVars
        <3>4. q = r /\ o = p
            BY <3>3 DEF Inspect, LockInv, TypeOK
        <3>. QED
            BY <3>3, <3>4
    <2>2. base[r] = stored
        BY <2>1 DEF Inspect, LockInv, Faithful
    <2>3. report'[r][p] = Compared(stored, p, c) /\ mine'[r][p] = c
        BY <2>1, <2>2 DEF Inspect, LockInv, TypeOK, Memory
    <2>. QED
        BY <2>3 DEF Compared
<1>. QED
    BY <1>1, LockInvariant, PTL DEF Spec, ChangedComparesSaved
----------------------------------------------------------------------------
(***************************************************************************)
(* Atomicity.  LopRuns implements MemoryContract: lock, copies, temporary  *)
(* file and rename make of each run one turn with one save.                *)
(***************************************************************************)

Turns == [r \in Runs |-> Phase(pc[r])]
AllFound == [r \in Runs |-> [p \in Repos |-> Found(r, p)]]

\* What the contract sees of a run it sees of its step, its decisions and its reports.
LEMMA ContractSees ==
    ASSUME UNCHANGED <<stored, report>>, AllFound' = AllFound, Turns' = Turns
    PROVE  UNCHANGED Contract!contractVars
BY DEF Contract!contractVars, AllFound, Turns

\* Only the decisions a run has reported show.
LEMMA FoundKept ==
    ASSUME UNCHANGED report,
           \A r \in Runs, p \in Repos : report[r][p] # "unseen" => mine'[r][p] = mine[r][p]
    PROVE  AllFound' = AllFound
BY DEF AllFound, Found

\* A run that takes a step alone changes its phase alone.
LEMMA TurnsOf ==
    ASSUME TypeOK, NEW r \in Runs, NEW step, pc' = [pc EXCEPT ![r] = step]
    PROVE  Turns' = [Turns EXCEPT ![r] = Phase(step)]
BY DEF TypeOK, Turns

\* A run that ends, for whatever reason, does so in the contract.
LEMMA EndFinishes ==
    ASSUME LockInv, NEW r \in Runs, pc[r] \notin {"idle", "ended"}, End(r),
           UNCHANGED <<stored, runVars>>
    PROVE  Contract!Finish(r)
<1>1. Turns' = [Turns EXCEPT ![r] = "ended"]
    BY TurnsOf DEF LockInv, End, Phase
<1>2. Turns[r] # "ended"
    BY DEF LockInv, TypeOK, Turns, Phase
<1>3. AllFound' = AllFound
    BY FoundKept DEF runVars
<1>. QED
    BY <1>1, <1>2, <1>3 DEF Contract!Finish, Turns, AllFound, runVars

\* Every step of a run or a probe is a step of the contract, or none.
LEMMA StepActs ==
    LockFileStays /\ LockInv /\ LockInv' /\ [Next]_vars
        => [Contract!Next]_(Contract!contractVars)
<1>. SUFFICES ASSUME LockFileStays, LockInv, LockInv', [Next]_vars
              PROVE  Contract!Next \/ UNCHANGED Contract!contractVars
    BY DEF Contract!contractVars
<1>. USE DEF LockInv
<1>1. ASSUME NEW r \in Runs, OpenLock(r)
      PROVE  UNCHANGED Contract!contractVars
    <2>1. Turns' = Turns
        BY <1>1, TurnsOf DEF OpenLock, TypeOK, Turns, Phase
    <2>2. AllFound' = AllFound
        BY <1>1, FoundKept DEF OpenLock, runVars
    <2>. QED
        BY <1>1, <2>1, <2>2, ContractSees DEF OpenLock, dataVars, runVars
<1>2. ASSUME NEW r \in Runs, TryLock(r)
      PROVE  Contract!Begin(r) \/ Contract!Finish(r)
    <2>1. UNCHANGED <<stored, runVars>> /\ pc[r] = "opened"
        BY <1>2 DEF TryLock, dataVars
    <2>2. AllFound' = AllFound
        BY <2>1, FoundKept DEF runVars
    <2>3. CASE \E q \in holding : handle[q] = handle[r]
        <3>1. Turns' = [Turns EXCEPT ![r] = "ended"] /\ Turns[r] # "ended"
            BY <1>2, <2>1, <2>3, TurnsOf DEF TryLock, TypeOK, Turns, Phase
        <3>. QED
            BY <2>1, <2>2, <3>1 DEF Contract!Finish, Turns, AllFound, runVars
    <2>4. CASE ~\E q \in holding : handle[q] = handle[r]
        <3>1. Turns' = [Turns EXCEPT ![r] = "turn"] /\ Turns[r] = "waiting"
            BY <1>2, <2>1, <2>4, TurnsOf DEF TryLock, TypeOK, Turns, Phase
        <3>2. holding = {}
            BY <2>1, <2>4 DEF TypeOK, OneFile
        <3>3. \A q \in Runs : Turns[q] \notin {"turn", "saved"}
            BY <3>2 DEF TypeOK, Turns, Phase
        <3>. QED
            BY <2>1, <2>2, <3>1, <3>3 DEF Contract!Begin, Turns, AllFound, runVars
    <2>. QED
        BY <2>3, <2>4
<1>3. ASSUME NEW r \in Runs, LoadState(r) \/ TruncateTemp(r) \/ WriteTemp(r)
      PROVE  UNCHANGED Contract!contractVars
    <2>1. /\ UNCHANGED <<stored, mine, report>>
          /\ \/ pc' = [pc EXCEPT ![r] = "loaded"] /\ pc[r] = "locked"
             \/ pc' = [pc EXCEPT ![r] = "truncated"] /\ pc[r] = "inspecting"
             \/ pc' = [pc EXCEPT ![r] = "written"] /\ pc[r] = "truncated"
        BY <1>3 DEF LoadState, TruncateTemp, WriteTemp, StateIsWhole, dataVars, runVars
    <2>2. Turns' = Turns
        BY <2>1, TurnsOf DEF TypeOK, Turns, Phase
    <2>. QED
        BY <2>1, <2>2, FoundKept, ContractSees
<1>4. ASSUME NEW r \in Runs, NEW D \in SUBSET Repos, Discover(r, D)
      PROVE  UNCHANGED Contract!contractVars
    <2>1. Turns' = Turns
        BY <1>4, TurnsOf DEF Discover, TypeOK, Turns, Phase
    <2>2. \A q \in Runs, p \in Repos : report[q][p] # "unseen" => mine'[q][p] = mine[q][p]
        BY <1>4 DEF Discover, TypeOK, Faithful
    <2>3. AllFound' = AllFound
        BY <1>4, <2>2, FoundKept DEF Discover
    <2>. QED
        BY <1>4, <2>1, <2>3, ContractSees DEF Discover, dataVars
<1>5. ASSUME NEW r \in Runs, NEW p \in Repos, NEW c \in Classes \cup {"none"}, Inspect(r, p, c)
      PROVE  Contract!Note(r, p, c)
    <2>1. Turns[r] = "turn" /\ Turns' = Turns
        BY <1>5 DEF Inspect, Turns, Phase
    <2>2. report[r][p] = "unseen" /\ base[r] = stored
        BY <1>5 DEF Inspect, Faithful
    <2>3. report' = [report EXCEPT ![r][p] = Compared(stored, p, c)]
        BY <1>5, <2>2 DEF Inspect
    <2>4. Compared(stored, p, c) # "unseen"
        BY DEF Compared
    <2>5. \A q \in Runs, o \in Repos :
            Found(q, o)' = IF q = r /\ o = p THEN c ELSE Found(q, o)
        BY <1>5, <2>3, <2>4 DEF Inspect, TypeOK, Memory, Found
    <2>6. AllFound' = [AllFound EXCEPT ![r][p] = c]
        BY <2>5 DEF AllFound
    <2>. QED
        BY <1>5, <2>1, <2>2, <2>3, <2>6
           DEF Contract!Note, Inspect, Turns, AllFound, Compared, dataVars
<1>6. ASSUME NEW r \in Runs, Rename(r)
      PROVE  Contract!Save(r)
    <2>1. /\ pc[r] = "written" /\ pc' = [pc EXCEPT ![r] = "saved"]
          /\ stored' = mine[r] /\ mine[r] \in Memory /\ UNCHANGED runVars
        BY <1>6, LopRunsAssumption DEF Rename, TypeOK, Faithful
    <2>2. Turns[r] = "turn" /\ Turns' = [Turns EXCEPT ![r] = "saved"]
        BY <2>1, TurnsOf DEF TypeOK, Turns, Phase
    <2>3. AllFound' = AllFound
        BY <2>1, FoundKept DEF runVars
    <2>4. \A p \in Repos : report[r][p] = "unseen" => mine[r][p] = stored[p]
        BY <2>1 DEF Faithful
    <2>5. stored' = [p \in Repos |->
                        IF report[r][p] = "unseen" THEN stored[p] ELSE AllFound[r][p]]
        BY <2>1, <2>4 DEF Memory, AllFound, Found
    <2>. QED
        BY <2>1, <2>2, <2>3, <2>5 DEF Contract!Save, Turns, AllFound, runVars
<1>7. ASSUME NEW r \in Runs, Report(r) \/ Fail(r) \/ Crash(r)
      PROVE  Contract!Finish(r)
    <2>1. pc[r] \notin {"idle", "ended"} /\ End(r) /\ UNCHANGED <<stored, runVars>>
        BY <1>7 DEF Report, Fail, Crash, dataVars
    <2>. QED
        BY <2>1, EndFinishes
<1>8. ASSUME NEW q \in Probes, ProbeStep(q)
      PROVE  UNCHANGED Contract!contractVars
    <2>1. UNCHANGED <<stored, pc, mine, report>>
        BY <1>8 DEF ProbeStep, ProbeLooks, ProbeOpens, ProbeRemoves, dataVars, runVars
    <2>2. AllFound' = AllFound
        BY <2>1, FoundKept
    <2>. QED
        BY <2>1, <2>2, ContractSees DEF Turns
<1>9. CASE Finished \/ UNCHANGED vars
    <2>1. UNCHANGED <<stored, pc, mine, report>>
        BY <1>9 DEF Finished, vars
    <2>2. AllFound' = AllFound
        BY <2>1, FoundKept
    <2>. QED
        BY <2>1, <2>2, ContractSees DEF Turns
<1>. QED
    BY <1>1, <1>2, <1>3, <1>4, <1>5, <1>6, <1>7, <1>8, <1>9 DEF Next, RunStep, Contract!Next

\* To all who look at the memory and the reports, runs act one after the other and save all
\* they decided or nothing.
THEOREM RunsActAtomically ==
    ASSUME LockFileStays
    PROVE  Spec => ActsAtomically
<1>1. Init => Contract!Init
    <2>. SUFFICES ASSUME Init
                  PROVE  Contract!Init
        OBVIOUS
    <2>1. Turns = [r \in Runs |-> "waiting"]
        BY DEF Init, Turns, Phase
    <2>2. AllFound = [r \in Runs |-> [p \in Repos |-> "none"]]
        BY DEF Init, AllFound, Found
    <2>. QED
        BY <2>1, <2>2 DEF Init, Contract!Init, Turns, AllFound, Memory
<1>2. LockInv /\ LockInv' /\ [Next]_vars => [Contract!Next]_(Contract!contractVars)
    BY StepActs
<1>. QED
    BY <1>1, <1>2, LockInvariant, PTL DEF Spec, ActsAtomically, Contract!Spec
=============================================================================
