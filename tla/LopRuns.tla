------------------------------ MODULE LopRuns ------------------------------
(***************************************************************************)
(* Concurrent lop processes on one state directory: runs (run_with_paths   *)
(* of src/lib.rs) that take the process lock, load the classification      *)
(* memory, inspect repositories, save the memory and report; and the probe *)
(* that `lop schedule` makes of the lock file (validate_runtime_paths).    *)
(* Runs may fail or be killed at any step.                                 *)
(***************************************************************************)
EXTENDS Naturals

CONSTANTS
    Runs,               \* processes running `lop scan` or `lop prune`
    Probes,             \* processes running `lop schedule install`, `edit` or `status`
    Repos,              \* repositories, by Git common directory
    Classes,            \* decisions a worktree can get: an outcome and a reason
    InitiallyPresent,   \* the lock file exists when the first process starts
    First,              \* that lock file
    Missing, Torn       \* no file, a half-written file

(***************************************************************************)
(* A repository stands for its one worktree of interest: the memory holds  *)
(* the decision last recorded for it, if any.                              *)
(***************************************************************************)
Memory == [Repos -> Classes \cup {"none"}]
Nothing == [p \in Repos |-> "none"]

\* The lock files there have been, named by the process that created them: a process
\* opens the path once.
LockFiles == {First} \cup Runs \cup Probes

ASSUME LopRunsAssumption ==
    /\ Runs \cap Probes = {}
    /\ "none" \notin Classes
    /\ InitiallyPresent \in BOOLEAN
    /\ Missing \notin LockFiles \cup Memory
    /\ Torn \notin Memory /\ Torn # Missing

VARIABLES
    file,       \* the lock file the path names now, or Missing
    handle,     \* per run, the lock file it opened
    holding,    \* the runs that hold an flock on the file they opened
    stored,     \* state.json
    tmp,        \* state.json.tmp
    pc,         \* per run, the step it is at
    pending,    \* per run, the repositories still to inspect
    base,       \* per run, the memory it loaded
    mine,       \* per run, the memory it will save
    report,     \* per run and repository, what the run reported of it
    probe,      \* per probe, the step it is at
    existed     \* per probe, whether it saw the lock file

lockVars == <<file, handle, holding>>
dataVars == <<stored, tmp>>
runVars == <<pending, base, mine, report>>
probeVars == <<probe, existed>>
vars == <<file, handle, holding, stored, tmp, pc, pending, base, mine, report,
          probe, existed>>

RunSteps == {"idle", "opened", "locked", "loaded", "inspecting", "truncated", "written",
             "saved", "ended"}
\* Not inspected; no worktree; classification_changed false; or true.
Reports == {"unseen", "silent", "same", "changed"}
ProbeSteps == {"idle", "looked", "opened", "ended"}

Init ==
    /\ file = IF InitiallyPresent THEN First ELSE Missing
    /\ handle = [r \in Runs |-> Missing] /\ holding = {}
    /\ stored \in Memory /\ tmp = Missing
    /\ pc = [r \in Runs |-> "idle"]
    /\ pending = [r \in Runs |-> {}]
    /\ base = [r \in Runs |-> Nothing] /\ mine = [r \in Runs |-> Nothing]
    /\ report = [r \in Runs |-> [p \in Repos |-> "unseen"]]
    /\ probe = [q \in Probes |-> "idle"]
    /\ existed = [q \in Probes |-> FALSE]

At(r, step) == pc[r] = step
To(r, step) == pc' = [pc EXCEPT ![r] = step]

----------------------------------------------------------------------------
(***************************************************************************)
(* The lock: RunLock::acquire, and its release when the process ends.      *)
(***************************************************************************)

OpenLock(r) ==
    /\ At(r, "idle")
    /\ file' = IF file = Missing THEN r ELSE file
    /\ handle' = [handle EXCEPT ![r] = file']
    /\ To(r, "opened")
    /\ UNCHANGED <<holding, dataVars, runVars, probeVars>>

\* try_lock_exclusive: at once, or the run is refused.
TryLock(r) ==
    /\ At(r, "opened")
    /\ IF \E q \in holding : handle[q] = handle[r]
       THEN To(r, "ended") /\ UNCHANGED holding
       ELSE To(r, "locked") /\ holding' = holding \cup {r}
    /\ UNCHANGED <<file, handle, dataVars, runVars, probeVars>>

\* The run ends; the lock goes with it.
End(r) == To(r, "ended") /\ holding' = holding \ {r}

----------------------------------------------------------------------------
(***************************************************************************)
(* The run under the lock.                                                 *)
(***************************************************************************)

\* State::load; a torn file is malformed and fails the run.
LoadState(r) ==
    /\ At(r, "locked")
    /\ IF stored = Torn
       THEN End(r) /\ UNCHANGED base
       ELSE To(r, "loaded") /\ base' = [base EXCEPT ![r] = stored] /\ UNCHANGED holding
    /\ UNCHANGED <<file, handle, dataVars, pending, mine, report, probeVars>>

\* Slip: the memory starts afresh in every run.
DiscoverAfresh(r, D) ==
    /\ At(r, "loaded")
    /\ pending' = [pending EXCEPT ![r] = D]
    /\ mine' = [mine EXCEPT ![r] = Nothing]
    /\ To(r, "inspecting")
    /\ UNCHANGED <<lockVars, dataVars, base, report, probeVars>>

\* The repositories found this time may be any; the memory of the others stays.
Discover(r, D) ==
    /\ At(r, "loaded")
    /\ pending' = [pending EXCEPT ![r] = D]
    /\ mine' = [mine EXCEPT ![r] = base[r]]
    /\ To(r, "inspecting")
    /\ UNCHANGED <<lockVars, dataVars, base, report, probeVars>>

\* record_classification, against the memory m
Compared(m, p, c) ==
    CASE c = "none" -> "silent"
      [] m[p] = c -> "same"
      [] OTHER -> "changed"

\* Slip: the decision is recorded before it is compared.
InspectRecordedFirst(r, p, c) ==
    /\ At(r, "inspecting") /\ p \in pending[r]
    /\ pending' = [pending EXCEPT ![r] = @ \ {p}]
    /\ mine' = [mine EXCEPT ![r][p] = c]
    /\ report' = [report EXCEPT ![r][p] = Compared(mine'[r], p, c)]
    /\ UNCHANGED <<pc, lockVars, dataVars, base, probeVars>>

\* Inspects repository p and reports the decision c, or no worktree at all ("none": it has
\* none, or its inspection failed); what is reported replaces what was remembered of p.
Inspect(r, p, c) ==
    /\ At(r, "inspecting") /\ p \in pending[r]
    /\ pending' = [pending EXCEPT ![r] = @ \ {p}]
    /\ mine' = [mine EXCEPT ![r][p] = c]
    /\ report' = [report EXCEPT ![r][p] = Compared(base[r], p, c)]
    /\ UNCHANGED <<pc, lockVars, dataVars, base, probeVars>>

\* State::save opens and truncates the temporary file,
TruncateTemp(r) ==
    /\ At(r, "inspecting") /\ pending[r] = {}
    /\ tmp' = Torn
    /\ To(r, "truncated")
    /\ UNCHANGED <<lockVars, stored, runVars, probeVars>>

\* Slip: the file is renamed before its contents are written out.
WriteTempUnflushed(r) ==
    /\ At(r, "truncated")
    /\ To(r, "written")
    /\ UNCHANGED <<lockVars, dataVars, runVars, probeVars>>

\* writes and syncs it,
WriteTemp(r) ==
    /\ At(r, "truncated")
    /\ tmp' = mine[r]
    /\ To(r, "written")
    /\ UNCHANGED <<lockVars, stored, runVars, probeVars>>

\* and renames it over the state file; without the temporary file the rename fails.
Rename(r) ==
    /\ At(r, "written")
    /\ IF tmp = Missing
       THEN End(r) /\ UNCHANGED dataVars
       ELSE To(r, "saved") /\ stored' = tmp /\ tmp' = Missing /\ UNCHANGED holding
    /\ UNCHANGED <<file, handle, runVars, probeVars>>

\* The summary is written and flushed, and the run is complete.
Report(r) ==
    /\ At(r, "saved")
    /\ End(r)
    /\ UNCHANGED <<file, handle, dataVars, runVars, probeVars>>

\* Any step may fail instead: configuration, state and output errors end the run.  A failing
\* save removes the temporary file; a failing last write comes after the save.
Fail(r) ==
    /\ pc[r] \notin {"idle", "ended"}
    /\ End(r)
    /\ tmp' = IF pc[r] \in {"truncated", "written"} THEN Missing ELSE tmp
    /\ UNCHANGED <<file, handle, stored, runVars, probeVars>>

\* The process is killed: the kernel drops its lock, files stay as they are.
Crash(r) ==
    /\ pc[r] \notin {"idle", "ended"}
    /\ End(r)
    /\ UNCHANGED <<file, handle, dataVars, runVars, probeVars>>

RunStep(r) ==
    \/ OpenLock(r) \/ TryLock(r) \/ LoadState(r)
    \/ \E D \in SUBSET Repos : Discover(r, D)
    \/ \E p \in Repos, c \in Classes \cup {"none"} : Inspect(r, p, c)
    \/ TruncateTemp(r) \/ WriteTemp(r) \/ Rename(r) \/ Report(r)
    \/ Fail(r) \/ Crash(r)

----------------------------------------------------------------------------
(***************************************************************************)
(* The probe of the lock file, which takes no lock.                        *)
(***************************************************************************)

ProbeLooks(q) ==
    /\ probe[q] = "idle"
    /\ existed' = [existed EXCEPT ![q] = file # Missing]
    /\ probe' = [probe EXCEPT ![q] = "looked"]
    /\ UNCHANGED <<lockVars, dataVars, pc, runVars>>

ProbeOpens(q) ==
    /\ probe[q] = "looked"
    /\ file' = IF file = Missing THEN q ELSE file
    /\ probe' = [probe EXCEPT ![q] = "opened"]
    /\ UNCHANGED <<handle, holding, dataVars, pc, runVars, existed>>

\* Slip: the probe always cleans up.
ProbeRemovesAlways(q) ==
    /\ probe[q] = "opened"
    /\ file' = Missing
    /\ probe' = [probe EXCEPT ![q] = "ended"]
    /\ UNCHANGED <<handle, holding, dataVars, pc, runVars, existed>>

\* Removes the path if it was not there at first: whatever file it names by now.
ProbeRemoves(q) ==
    /\ probe[q] = "opened"
    /\ file' = IF existed[q] THEN file ELSE Missing
    /\ probe' = [probe EXCEPT ![q] = "ended"]
    /\ UNCHANGED <<handle, holding, dataVars, pc, runVars, existed>>

ProbeStep(q) == ProbeLooks(q) \/ ProbeOpens(q) \/ ProbeRemoves(q)

----------------------------------------------------------------------------

Finished ==
    /\ \A r \in Runs : At(r, "ended")
    /\ \A q \in Probes : probe[q] = "ended"
    /\ UNCHANGED vars

Next == (\E r \in Runs : RunStep(r)) \/ (\E q \in Probes : ProbeStep(q)) \/ Finished

Spec == Init /\ [][Next]_vars

----------------------------------------------------------------------------
(***************************************************************************)
(* Properties.                                                             *)
(***************************************************************************)

TypeOK ==
    /\ file \in LockFiles \cup {Missing}
    /\ handle \in [Runs -> LockFiles \cup {Missing}]
    /\ holding = {r \in Runs : pc[r] \notin {"idle", "opened", "ended"}}
    /\ stored \in Memory \cup {Torn}
    /\ tmp \in Memory \cup {Torn, Missing}
    /\ pc \in [Runs -> RunSteps]
    /\ pending \in [Runs -> SUBSET Repos]
    /\ base \in [Runs -> Memory] /\ mine \in [Runs -> Memory]
    /\ report \in [Runs -> [Repos -> Reports]]
    /\ probe \in [Probes -> ProbeSteps]
    /\ existed \in [Probes -> BOOLEAN]

\* README, "A process-wide lock prevents overlapping runs": two runs are never under the
\* lock at once.
Exclusion == \A r, q \in holding : r = q

\* However runs fail, are killed or overlap, state.json is never half written.
StateIsWhole == stored # Torn

\* A save forgets nothing it was not told anew: what any earlier run saved about a
\* repository that this run did not inspect survives it.
SaveKeepsTheRest ==
    [][\A r \in Runs :
        At(r, "written") /\ pc'[r] = "saved" =>
            \A p \in Repos : report[r][p] = "unseen" => stored'[p] = stored[p]]_vars

\* A step of r reports the decision of p against what the memory m holds.
ReportsAgainst(m, r, p) ==
    report[r][p] = "unseen" /\ report'[r][p] \in {"same", "changed"} =>
        (report'[r][p] = "changed" <=> mine'[r][p] # m[p])

\* classification_changed compares a decision with the last one any run saved for that
\* worktree, even when several runs start together.
ChangedComparesSaved == [][\A r \in Runs, p \in Repos : ReportsAgainst(stored, r, p)]_vars

\* A run has its turn from the lock to the save.
Phase(step) ==
    CASE step \in {"idle", "opened"} -> "waiting"
      [] step \in {"saved", "ended"} -> step
      [] OTHER -> "turn"

Found(r, p) == IF report[r][p] = "unseen" THEN "none" ELSE mine[r][p]

Contract == INSTANCE MemoryContract WITH
    memory <- stored,
    phase <- [r \in Runs |-> Phase(pc[r])],
    found <- [r \in Runs |-> [p \in Repos |-> Found(r, p)]]

\* Whatever runs are started, fail or are killed at any of the steps the memory takes: to all
\* who look at state.json and the reports, runs have had their turns one after the other and
\* each has saved all of its decisions or none.
ActsAtomically == Contract!Spec
=============================================================================
