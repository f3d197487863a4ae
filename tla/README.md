# A TLA+ model of lop

`lop` removes linked Git worktrees whose upstream branch is gone and whose work is integrated.
It decides what to remove by asking Git, Worktrunk (`wt`), `lsof` and Herdr, a terminal
multiplexer, one command at a time, while people, editors and agents go on working in the same
repositories. This directory holds TLA+ models of what lop does, TLC configurations that check
them on small instances, and proofs, checked by TLAPS, that the most important of their
invariants hold whatever the size of the instance. Line numbers below refer to the Rust sources
(`src/*.rs` of the repository).

## 1. The system

| component | state | operations | talks to |
|---|---|---|---|
| Run loop (`lib.rs`) | the summary's counters, the memory of the last classifications | lock, load, discover, inspect, decide, reconcile stale workspaces, save, report | every other component |
| Process lock (`lock.rs`) | an `flock` on `lop.lock` | acquire without waiting, release on drop | other lop processes |
| State file (`state.rs`) | `state.json` | load, migrate, save by temporary file and rename | the run loop |
| Discovery (`discovery.rs`) | none that lasts | bounded walk of the configured roots | the run loop |
| Inspection (`inspection.rs`) | one repository's inventory and classifications | fetch, list, look up branches and upstreams | Git |
| Integration proofs (`integration.rs`) | none | version check, `wt list`, one proof per candidate | Worktrunk |
| Safety gate (`cleanup.rs`) | none | read everything about a candidate again; `wt remove` | Git, `lsof`, Worktrunk |
| Herdr coordination (`herdr.rs`) | the `Coordination` of a candidate: sessions, workspaces, panes, processes | inspect, verify, retire, verify again | Herdr |
| Stale workspaces (`lib.rs`, `herdr.rs`) | the checkouts found gone, with their coordination | judge all once, retire one by one | Herdr, the disk |
| Removal pipeline (`lib.rs`) | the decision about one candidate | decide, prepare, recheck, apply | gate, Herdr, Worktrunk |
| Schedule (`schedule.rs`) | settings file, LaunchAgent file, loaded service | install, edit, uninstall, status | launchd, lock, discovery, inspection |
| Command runner (one copy in each of five files) | a child process and two reader threads | spawn, poll, kill at the timeout, join | the operating system |
| Configuration, paths, command line, output | none that outlives them | parse, validate, print | the run loop |

lop has one thread of control per process. What makes it hard is not inside it:

- **Everything it reads is stale at once.** A candidate is classified, gated, coordinated,
  gated again and removed by a dozen commands. Between any two of them somebody may commit,
  start an agent, focus a pane, lock the worktree.
- **It changes what it has read.** Closing a workspace ends shells, so what the gate saw before
  does not count after; the processes it may ignore are known only as long as the panes live.
- **Every command may fail, time out after its effect, or answer nonsense.** Each failure must
  protect the worktree and be counted.
- **Several lop processes share a state directory, a schedule and launchd**, and each may be
  killed anywhere.

What must be true of each component:

| component | correctness |
|---|---|
| Inspection, proofs | integrated only after a good fetch, upstream gone, with a proof of the inventoried commit; a failure leaves no candidate |
| Pipeline, gate, Herdr | `wt remove` only on facts read after lop's own last change; workspaces closed only after the whole gate and as verified; a preview changes nothing; the decision is honest; every candidate gets one |
| Lock, state, run loop | runs exclude each other; the memory is never torn nor forgets; `classification_changed` compares with the right memory |
| Schedule | no unapproved prune schedule; success is whole; failure restores |
| Stale workspaces | closed only for a checkout neither listed nor on disk, as verified right before; each reported once and truly |
| Runner | output is whole or an error; no command is left running that lop could wait for; only a helper that keeps a pipe can hold lop up |
| Report, summary, exit code | every worktree at most once; the totals are those of the records; the exit code tells failures; a success has told of all it did |
| Discovery | every repository in scope that is left alone is found, or reported if Git does not answer for it, once, at its smallest path; nothing is dropped silently |

## 2. The modules

| module | models | checked by | proved in |
|---|---|---|---|
| `Cleanup` | the contract: what lop promises of one candidate | as `Implements` of `Removal` | |
| `Herdr` | Herdr as lop sees it, its users, and the judgement of one snapshot | through the two below | `RemovalProofs`, `StaleWorkspacesProofs` |
| `Removal` | the pipeline for one candidate, with gate, coordination and retirement | `MCRemoval*.cfg` | `RemovalProofs` |
| `StaleWorkspaces` | the workspaces of one repository's vanished checkouts | `MCStaleWorkspaces*.cfg` | `StaleWorkspacesProofs` |
| `Inspection` | one repository from fetch to classification, with Worktrunk's proofs | `MCInspection.cfg` | `InspectionProofs` |
| `MemoryContract` | what lop promises of its classification memory | as `ActsAtomically` of `LopRuns` | |
| `LopRuns` | concurrent runs and lock probes on one state directory | `MCLopRuns_*.cfg` | `LopRunsProofs` |
| `RunReport` | the records, summary, memory and exit code of one run | `MCRunReport.cfg` | `RunReportProofs` |
| `Schedule` | concurrent `lop schedule` commands and launchd | `MCSchedule_*.cfg` | `ScheduleProofs` |
| `CommandRunner` | one external command, its pipes, its readers and its time limit | `MCCommandRunner.cfg` | `CommandRunnerProofs` |
| `Discovery` | the walk of the configured roots | `MCDiscovery.cfg` | `DiscoveryProofs` |

`Removal` and `StaleWorkspaces` extend `Herdr`; `Removal` instantiates `Cleanup` as the specification
it implements, and `LopRuns` instantiates `MemoryContract`. `Inspection` ends where `Removal` begins: a worktree classified as integrated, with the
branch and commit of the inventory, is the candidate of `Removal`'s initial state, and the fact
`unchanged` there is that the worktree still has them. `StaleWorkspaces` takes from it the worktrees
the inventory listed, or none when it could not be read. `LopRuns` reduces all that to the class a run
finds for a repository's worktree. `RunReport` puts the results of the others together: a class for every
worktree (`Inspection`), a decision and whether it counts as a failure (`Removal`, `StaleWorkspaces`), in the
order of `run_with_paths`. `Schedule` shares with `LopRuns` only the lock probe of its
preflight, which is therefore modelled there. `CommandRunner` is one step of every other module, and
justifies what they assume of it: a command gives its whole output, or fails, in a bounded time unless
it leaves a helper behind.

Definitions whose comment starts with "Slip:" are not part of any specification. Each is an
action of its module with one plausible mistake in it (a dropped recheck, a failure forgotten, an
error read as an answer), kept beside the action it varies: with the slip in the action's place
TLC finds a property violated, so each property is known to depend on the code.

### Removal, Herdr, Cleanup

One candidate. The program counter `pc` names the next external command; `gate` says which call of
`check_candidate` is running and `round` which round of Herdr commands:

| code | model |
|---|---|
| `check_candidate_with_inspector`: inventory, canonical paths, status, `lsof` | `ReadInventory`, `ResolvePath`, `ReadStatus`, `ReadUsers` |
| `prepare_candidate`, `recheck_after_coordination`: what follows a passed gate | `PassGate` |
| `discover_sessions`, `verify_observed_sessions` | `ListSessions` |
| `inspect_session_snapshots`, `evaluate_snapshot`, `verify_coordination_unchanged` | `SnapshotSession` (`EvaluateSnapshot`, `VerifySnapshot`, `SnapshotFails`) |
| `inspect_pane_processes` | `AttributeProcesses` |
| `retire_candidate_with_program` | `StartRetiring`, `CloseWorkspace` |
| `remove_worktree_with_program`, `parse_removal`, `apply_removal` | `RemoveWorktree`, `DecideRemoval` |
| `apply_safety_refusal` | `Refuse` |
| people, editors, other programs, Herdr's users | `OthersAct` |

The gate's Git facts are ten truths about the candidate (`registered` ... `clean`), tested in the
order of the code, each with the reason the code gives. Paths are reduced to inside or outside the
candidate, a pane's activity to what `activity_veto` tells apart. History variables record, for
each fact, whether lop has read it and whether it held when somebody else last changed it
(`evidence`, `quiet`), and what the last snapshot showed (`look`).

Simplifications: `AttributeProcesses` asks about all panes in one step, although the code runs one
command per pane; candidates of one repository do not interact, except through Git and Herdr,
whose changes `OthersAct` contains; `wt remove` is one step whose effect and answer are chosen
independently, as far as an answer does not imply its effect.

### StaleWorkspaces

One repository, whose checkouts' workspaces are judged by one inspection of all running sessions and
then retired one checkout at a time. `round` says which inspection is running:

| code | model |
|---|---|
| `reconcile_stale_herdr_workspaces` | `Choose`, `AllDecided`, `Decide` with the `summary` counters |
| `inspect_stale_workspaces`: sessions, snapshots, existence, status | `ListSessions`, `JudgeSession`, `Judge` (round "first") |
| `retire_candidate_with_program`: verification, closes, confirmation | `VerifySession`, `StartClosing`, `CloseWorkspace` (rounds "verify" and "confirm") |
| `retire_stale_workspace`: the inspection after it | `ListSessions`, `JudgeSession`, `JudgeAgain` (round "again") |
| `merge_stale_workspace`, `merge_candidate_status` | `MergedStatus` |
| people and programs using Herdr and the disk | `OthersAct` |

Simplifications: lop looks for all checkouts on disk in one step after the snapshots; the pane processes
of a clear workspace are asked for in the same step, which may fail (`InspectionBreaks`); several
reasons to stop in one workspace give any of the answers some order of the panes would give.

### CommandRunner

lop's thread (`Start`, `Poll`, `Join`), its two reader threads (`Read`, `ReadFails`), the command and a
helper it may fork (`ProcessStep`), the clock (`Tick`). The five copies of the loop (`run_git`, `run`,
`run_process`, `command_output`) are one: they differ in the errors they report (`Report`) and in that
only `schedule.rs` kills a command it cannot wait for. A tick is a poll interval, and time passes only
when lop and its readers wait. The helper inherits the pipes, may close them, and outlives the command.

### Discovery

`RootFails`, `RootAgain` and `StartWalk` are the loop over the configured roots, `Visit`, `InspectGit`, `AskGit`
and `QueueBelow` one turn of `walk_root`'s queue, with the tree changing between any two of them.
Directories are numbered in the order of their paths, which is the order in which the code sorts them.
Resolving and reading a directory is one step. A link may replace a directory but no configured root
and nothing above one, and leads to another directory or out of the tree; nothing outside the
tree is a repository. An entry whose own type cannot be read is left out. `git rev-parse` has no time
limit here, so only safety is stated.

Git looks upwards past a damaged `.git`: a directory with one that lies in another worktree is
attributed to that one's repository, and counts as inspected; only elsewhere it must become an issue. Git may
also fail for any directory, a healthy repository included: it cannot be run, refuses its owner, or names
something that is not UTF-8, not absolute or not there. `AskGit` reports an issue then, as `inspect_git_directory` does,
and `Complete` promises no more than that: found or reported.

### Inspection

One repository. `Fetch`, `List`, then for each worktree `ClassifyDirectly` (the inventory decides)
or `ReadBranch`, `ReadUpstream`, `ReadTracking` (`show-ref`, `for-each-ref`, `show-ref`), then
`CheckVersion` and `Prove`. A fetch that fails may have updated any of the remote-tracking refs.
`RepositoryChanges` is everybody else: commits, resets, deleted branches, switched, locked and
pruned worktrees, changed upstreams, pushes, other fetches, merges. The six kinds of integration
are one. Worktrunk is trusted: its row shows the worktree as it is, and it calls a commit
integrated only if it is. The worktrees are looked up in any order, which includes the code's.

`ReadUpstream` follows `git for-each-ref`, which prints nothing both for a branch without upstream
and for a branch deleted since `ReadBranch`; the worktree is then `NoUpstream` and stays.

### LopRuns

Lock files are identified by the process that created them, so that unlinking the path and creating
a new file can be told from keeping it; a lock is on the file a process has open. `OpenLock`,
`TryLock`, `LoadState`, `Discover`, `Inspect`, `TruncateTemp`, `WriteTemp`, `Rename`, `Report` are the
steps of `run_with_paths`; `Fail` and `Crash` may end a run at every one. `ProbeLooks`,
`ProbeOpens`, `ProbeRemoves` are the lock probe of `validate_runtime_paths`. A repository stands for
its worktree of interest and the memory holds one decision for it.

`MemoryContract` is what all this is for: runs have their turns one after the other, and each saves at one
stroke what it decided. A run's turn is from its lock to its rename, and the contract sees a decision
when the run reports it.

### RunReport

One run, from the lock to the exit code, over any repositories discovery may find (`DiscoverRepositories`) and
any linked worktrees an inspection may list (`InspectRepository`; the main worktree, always listed and kept, is left
out). What an outcome lets the worktrees be is `CanClassify`: none is a candidate when the fetch or Worktrunk failed,
but a repository in which the lookups for one worktree failed is reported as malformed while the others keep their
proofs, and with `--yes` are removed. `DecideWorktree` is `decide_worktree` with `write_worktree_decision`; its decisions are those `HonestOutcome` of
`Removal` allows, and `acted` remembers whether lop removed the worktree or closed workspaces of it, which it may
also have done before it refused. `ReconcileStale` is `reconcile_stale_herdr_workspaces`, all decided before the
first of them is told (`TellStale`). `Remember`, `TellIssue`, `Save` and `Finish` follow the code, and every write
may fail and end the run (`Fail`); a record written is only in the buffer until `Finish` flushes it.

The memory begins as any of `EarlierMemories`, what earlier runs may have left, and only the repositories this run
inspects get a new one; `loaded` remembers the rest.

Discovered repositories are taken in any order, and so are the worktrees, which includes the code's. Retained and
skipped worktrees are one class, "kept", and the two ways a fetch fails are one.

A failed inspection of the stale workspaces is counted but has no record (`lib.rs:243`), so that a run can
exit with a failure none of its records explains; `unreported` counts them, and `TotalsMatch` and
`ExitTellsFailures` say that this is the only such case.

### Schedule

The two files and the service, and one step for every read, write and `launchctl` command of
`install_transactionally`, `rollback_install` and `uninstall`. Any step may fail, with or without its
effect where the command is external, and any client may be killed. A `launchctl print` that exits with
anything but zero, or dies, is read as "not loaded" (`is_loaded`, `schedule.rs:1010`), so lop may be told so while
the service is loaded; `misread` remembers whether that happened to a command.
The repository preflight is its verdict, healthy or degraded, and `approved` remembers for which
schedules it was healthy or acknowledged.

## 3. What is checked

| run | instance | shows |
|---|---|---|
| `removal` | 2 sessions with a workspace each, 2 panes in one of them, 1 stranger, every Git fact but `linked` volatile, `prune --yes` with and a preview without the process check, 2 changes by others, fairness | `RemovalNeedsEvidence`, `HonestOutcome`, `RetirementNeedsEvidence`, `FailedRetirementKeepsTree`, `RetiresOnlyVerified`, `PreviewChangesNothing`, `Implements` (refinement of `Cleanup`), `Termination` |
| `removal_exclusive` | 1 session, workspace and pane | finding: `RetiresOnlyExclusive` fails |
| `stale` | 2 sessions, 3 workspaces with a pane each, 2 checkouts of which one is open in both sessions, 1 change, fairness | `ClosesOnlyStale`, `ClosesOnlyVerified`, `RetiredIsGone`, `ReportedOnce`, `Termination` |
| `stale_offline` | the same, the inventory not read, no change | finding: `AbsentFromGit` fails |
| `inspection` | a main and 2 linked worktrees, 2 branches, 2 commits, 1 change | `UpstreamWasGone`, `ProtectedStay`, `FailsClosed`, `InspectedIsComplete`, `ProofIsCurrent` |
| `runs_memory` | 2 runs, 1 probe, 2 repositories, lock file present | `Exclusion`, `SaveKeepsTheRest`, `ChangedComparesSaved`, `ActsAtomically` (refinement of `MemoryContract`, in which the memory is never half written) |
| `runs_probe` | 2 runs, 1 probe, lock file absent | finding: `Exclusion` fails |
| `schedule_commands` | 2 clients, 2 commands, a scan and a prune schedule | `OnlyApproved`, `SuccessIsWhole`, `FilesRestored` |
| `schedule_reload` | 1 client, 2 commands, fairness | finding: `ServiceRestored` fails |
| `command` | a limit of 2 polls, pipes of 1 unit, 2 units of output, 4 ticks, fairness | `OutputIsWhole`, `CommandReaped`, `OverdueOnlyForHelper`, `AnsweredOrHeld` |
| `report` | 2 repositories that may list the same 2 paths, each known or not from earlier runs, 1 discovery issue, symmetric | `OnePerWorktree`, `TotalsMatch`, `ExitTellsFailures`, `DoneIsTold`, `SavedIsTold` |
| `discovery` | 8 directories, 3 configured entries for 2 roots, depth 2, 1 change | `Sound`, `Complete`, `NothingDropped` |

`TypeOK` is proved for every module and checked by TLC where it says more than types:
in `discovery`, and in `stale`, where the status of a checkout excludes what would be a panic (`unreachable!`,
`lib.rs:281`).

**Bounds.** `MaxChanges` bounds the changes others make. Two are enough in `Removal` to invalidate a
fact after it was read and to restore it or change a second one before it is read again; the initial
states vary what Herdr shows. The two command lines have each option once on and once off; the proofs
cover the other two. One is enough in `Inspection`, where lop reads nothing twice and the
initial states already vary the checked out branches, the tips, the server and the merged commits:
one change, at any moment, of anything. Two sessions are what "one closes, the other fails" takes,
two panes what "one idle, one not" takes. Two runs are what exclusion takes, and the two
repositories are one inspected and one not. Two schedule commands are an installation and what
comes after or overlaps it. In `StaleWorkspaces` the checkout open in two sessions is what merging
and retiring across sessions take, the second checkout what one failing and the next going on take. A
pipe of one unit and two units of output block a writer; a limit of two polls and a clock of four leave
ticks on both sides of the limit. Two repositories and two paths in `RunReport` are one worktree listed and one
gone, in each of them, or neither. The tree of `Discovery` has a root named twice, a root inside another, an
ignored directory, two links (one upwards) and two directories of one repository. The proofs remove all of
these bounds from the properties they cover, which are all but the two liveness properties.

**Fairness.** `FairSpec` of `Removal` and `StaleWorkspaces` is weak fairness of lop's own steps together:
lop is one thread that never waits for anything but a command, and the runners kill a command at its
timeout. `CommandRunner` says what that rests on: with weak fairness of lop's thread, of its readers
and of the clock, and none of the command, every command is answered unless its helper runs for ever
(`AnsweredOrHeld`). For a command that ends in time and leaves a helper holding a pipe the readers are
joined without a limit (`inspection.rs:621` and its copies), and lop waits as long as the helper does.
`FairSpec` of `Schedule` is weak fairness per process, for the same reason. `LopRuns`, `RunReport`, `Inspection`
and `Discovery` state no liveness property and no fairness. Nothing is assumed of the other actors.

**Termination** is not obvious from the code: every recheck that finds something new must refuse and
not start over. In the model others may only act `MaxChanges` times, but the variants with a retry
(`SessionListRetries`, `SessionListFailsAgain`) already loop within that, and the progress theorems
below hold however often they act.

## 4. What is proved

All theorems are about the specifications as TLC runs them, for all values of the constants
under the named assumptions of the modules (the functions and sets have the types one expects).

`RemovalProofs`: `TypeCorrect`, `RemovalSound` (`RemovalNeedsEvidence`), `RetirementSound`
(`RetirementNeedsEvidence`), `OutcomeHonest` (`HonestOutcome`), `FailureProtects`
(`FailedRetirementKeepsTree`), `PreviewSafe` (`PreviewChangesNothing`), `RetirementVerified`
(`RetiresOnlyVerified`) and `PipelineImplementsContract` (`Implements`). `RemovalNeedsEvidence` only
speaks of the moment before `wt remove`; it is not inductive, because nothing says how lop got
there. The invariant `EvidenceInv` says for every step of the pipeline which facts have been read by
then and are still vouched for: `StillTrue` (a fact marked "held" holds, since `Age` downgrades it
whenever the world changes), `GateProgress` (the facts the running gate has passed so far),
`RemovalPermitted` and `RetirementPermitted` (what the gates that lead there have established),
`SessionProgress` (which sessions the current round of snapshots has found uninvolved). The decision
needs an invariant of its own, `DecisionInv`: what each step may find the tree, the decision and the
failure count to be (`Truthful`), that after a failed close lop closes what is left, compares the
sessions and refuses (`FailureEnds`), and that only `--yes` retires (`RetiredByApply`).
`VerificationInv` says of each workspace still to close that the last snapshot of its session showed
it idle with observed panes. The refinement then follows step by step: every step of the pipeline
maps to the contract's removal, decision or failure, or to a stutter, and `EvidenceInv` gives what
the contract's removal demands. `RetirementExclusive` and `PipelineProgresses` are described below.

`StaleWorkspacesProofs`: `TypeCorrect`, `StaleOnly` (`ClosesOnlyStale`), `VerifiedOnly`
(`ClosesOnlyVerified`), `RetiredSound` (`RetiredIsGone`) and `ReportedSound` (`ReportedOnce`). The invariant `StaleInv` says what the one
judgement established of every workspace found (`FoundStale`), that a retirement is of a checkout judged
clear and not reported (`Retiring`), and what the verification has shown so far (`VerifiedSoFar`).
`Disappearance` adds what `RetiredIsGone` rests on: a workspace open since the judgement was found by it,
its session still runs, and the second inspection, which reads the sessions one by one, has seen it or has
its session still to read (`SeenAgain`). `Tally` says that the counters of the checkouts reported and the
number of those undecided add up to those judged. What both modules need of Herdr (its users keep the types
and leave no workspace without its session, no pane without its workspace) is a lemma in each.

`CommandRunnerProofs`: `TypeCorrect`, `OutputComplete` (`OutputIsWhole`), `NothingLeftRunning`
(`CommandReaped`) and `OverdueSound` (`OverdueOnlyForHelper`), for any limit, pipe size, amount of output and
length of time. `CommandReaped` is about what happened, not about what is reported, for one copy reports every error
alike: only a failed `try_wait` (`waitFailed`), in a copy that just returns then, may leave a command behind. `RunnerInv` relates what was written to what is in
the pipe and what was read (`PipesKept`), says that only who still runs holds a pipe (`RunningHold`),
and what each place of lop's thread knows of the command and the readers (`Position`).

`RunReportProofs`: `TypeCorrect`, `ReportedOnce` (`OnePerWorktree`), `ToldOrFails` (`DoneIsTold`), `MemoryIsTold`
(`SavedIsTold`), `TotalsCorrect` (`TotalsMatch`) and `ExitSound` (`ExitTellsFailures`), for any number of
repositories, worktrees and issues; all properties of the module. The properties speak of the end of a run, and the
invariants of what is decided, told or not: `Places` says what is known of the repositories left and of the one at
hand, so that a decision is always about something undecided; `Covered`, that what lop did is decided; `Remembered`,
that memory and current classifications are those of the records, and the memory of a repository that has none the
one that was loaded; `Tally`, that each counter is the cardinality of a set of
decisions. A step adds a set disjoint from what was decided to both sides (`CountedOnce`).

`LopRunsProofs`: `TypeCorrect`, `RunsExclude`, `StateNeverTorn`, `NoMemoryLost`, `ChangedIsRight` and
`RunsActAtomically` (`ActsAtomically`), for any number of runs, probes and repositories, under `LockFileStays`:
the lock file exists at first or nobody probes. Without it `Exclusion` is false, as `runs_probe` shows. The
invariant `LockInv` adds to the properties that everyone who has opened the lock file has opened the one file
the path names (`OneFile`), and that what a run under the lock has loaded is what is stored, what it is still to
inspect it has not reported, and the temporary file is its own (`Faithful`). The refinement of `MemoryContract`
then follows step by step: taking the lock begins a turn, each inspection notes a decision, the rename saves,
any end is an end, and opening, loading, discovering and writing the temporary file are stutters.

`InspectionProofs`: `TypeCorrect`, `UpstreamSound`, `ProtectedSound`, `OutcomeSound` (`FailsClosed`
and `InspectedIsComplete`) and `ProofSound` (`ProofIsCurrent`), for any repository and any number of
changes. `InspectionInv` adds where the inspection is (`Position`), what a candidate is (`Evidence`:
its branch had no remote-tracking ref at some time since the good fetch, and the inventory did not
protect it), that only candidates become integrated and only in the last step (`Integrations`), and
that a worktree without an answer is still to be looked up or an issue (`Answers`).

`ScheduleProofs`: `TypeCorrect`, `OnlyApprovedInstalled` (`OnlyApproved`), `SuccessSound`
(`SuccessIsWhole`) and `FailureSound` (`FilesRestored`), for any number of clients, commands and
schedules. The first needs that not only what is installed but all a client may still write, its new
schedule and the two it remembers, has been approved (`Approved`); the others that a client whose
command nobody overlaps remembers the right previous files and has done exactly the steps before its
own (`Undisturbed`, with `UpdateAt` and `UninstallAt`). That the others are idle is part of it: a
command that begins while another runs ends the other's being alone. `SuccessSound` holds however launchd is
misread: an installation over a loaded service that was taken for none cannot succeed, as launchd refuses to load it
again; only what an uninstallation says of the service depends on it. `ServiceSound` (`ServiceRestored`) needs of
each step what the service is by then (`ServiceAt`).

`DiscoveryProofs`: `DiscoveryTyped`, `DiscoverySound` (`Sound`), `DiscoveryDropsNothing` (`NothingDropped`) and
`DiscoveryComplete` (`Complete`), for any tree, links, roots and depth. What the model computes by recursion, the
directories above one (`Above`), is shown to be a function with the expected facts by the least number for which
it would not be (`LeastNat`); that the queue holds what lies below a directory in the order of paths is `QueueFacts`.
`SoundInv` says that the smallest path Git was asked about is the one kept, and where the walk is as long as nothing
has changed. `DroppedInv` says that what was queued has been read, has an issue, or is pending. `CompleteInv` carries the
argument that is not in the code: a link may make the walk read a directory from further away, at a depth too large to
go on below it, and as it is then `visited`, it is not read again. Whether that loses a repository depends on the order
of the queue: it is in the order of depths and holds two levels at most (`Levels`), what lies directly below what has been
read is read or pending at its own depth or less (`Frontier`), so that a directory that nobody has touched is never
met too deep first, and behind the frontier all repositories are found or reported (`FoundBehind`).

**What the findings come down to.** Four properties are false, as their runs show. Each of them is proved under
provisos, among them the one the counterexample breaks, so that there is no way to break it but these:

| property | proviso | theorem |
|---|---|---|
| `RetiresOnlyExclusive` | `ObservedPanesStay`: the panes lop has observed stay where they are until they close | `RetirementExclusive` |
| `Exclusion` | `LockFileStays`: the lock file exists at first, or nobody probes | `RunsExclude` |
| `ServiceRestored` | `NoHalfStop`: a `launchctl bootout` that is reported to have failed has had no effect; and `NeverMisread`: `launchctl print` does not fail over a loaded service | `ServiceSound` |
| `AbsentFromGit` | `InventoryIsRead` and `NoneAdded`: the inventory was read, and nobody adds a worktree afterwards | `StaleIsAbsent` |

**Progress.** What `Termination` and `AnsweredOrHeld` need besides fairness is proved, without the bounds on how often
others act, on time or output. `PipelineProgresses`, `ReconciliationProgresses` and `RunnerProgresses` each say three
things. Every step of lop brings the end nearer, in an order of places (`Ahead`, `Onward`) and of what is left at one
(`todo`): no recheck starts over, no retirement is tried twice. Nothing the others do takes lop back. And lop has something
to go on with: where it takes sessions or workspaces one by one there are some, or all are done (`CanGoOn`); a thread that
waits sleeps within the limit or waits for a reader whom only a running helper holds up (`WaitsForHelper`).
`DiscoveryProgresses` says the first two of the walk, which reads a directory once and never takes a root back; the
third does not hold of it, as `git rev-parse` may hang. That steps which can be taken are taken is fairness, and
stays with TLC.

Only model-checked: the liveness properties `Termination` and `AnsweredOrHeld` themselves, for ENABLED and with it
fairness are out of the prover's reach.

## 5. What the checks found

- **`removal_exclusive`.** Before closing, `verify_coordination_unchanged` (`herdr.rs:719`) checks
  that the workspaces exist, are idle and made of the observed panes, but not where the panes are. A
  pane that moved to an unrelated directory after the first inspection is closed with its workspace.
  README: "Lop closes only workspaces mapped exclusively to the candidate".
- **`runs_probe`.** `validate_runtime_paths` (`schedule.rs:722`) removes the lock file if it did not
  exist when it looked, even when a run has created and locked it since. The next run locks a new
  file. README: "A process-wide lock prevents overlapping runs."
- **`schedule_reload`.** The old service is stopped before the transaction begins
  (`schedule.rs:1041`): a `launchctl bootout` that takes effect and then fails or times out ends the
  command with a plain failure and the prior service unloaded.
- **`stale_offline`.** After an inspection that could not read the inventory the worktrees lop knows are
  none (`lib.rs:126`), so that a missing directory alone makes a workspace stale, and lop closes those of
  a worktree Git still lists, for instance on a volume that is not mounted. README: "whose linked
  checkout is already absent from Git and disk".

Three properties say less than one might expect, because the code does. `ChangedComparesSaved` compares
with what is saved, which is not always what the last completed run found (`output.rs:159`): the
memory is saved before the summary is written (`lib.rs:178`), and a run that fails there has replaced it.
`SuccessIsWhole` asks of an uninstallation that the service is stopped only if there was a LaunchAgent
file and `launchctl print` did not fail over a loaded service: without the file `uninstall` does not ask launchd
(`schedule.rs:447`), and after an installation whose rollback could not ask launchd either, the file is gone and the
service loaded; with it, any failure of `launchctl print` is taken for "not loaded" (`schedule.rs:1010`), the files are
removed and success is reported. And `Complete` lets a repository be reported instead of found, since Git may not
answer for it.

## 6. What is not modelled

Configuration, paths and command line parsing, the packaging, the plist text, the layout of the JSON records
and the log wording hold no state that interleaves with anything. `RunReport` has one run and no crash, which
`LopRuns` has, and a worktree in it has no reason code. `schedule status`
only reads, and the environment and repository checks of the preflight are an outcome. The state
file's schema versions are reduced to readable or not. On platforms other than macOS `schedule.rs` only
refuses.

## 7. Plan

The order followed what a mistake would cost: the destructive step first, then what leads to it, then
what several processes share, then what all of it rests on. Items 1 to 11 are done.

1. `Herdr`, `Removal`, `Cleanup`: the pipeline, its contract, its evidence.
2. `LopRuns`: lock, memory, crash.
3. `Schedule`: transaction and rollback.
4. `Inspection`: where candidates come from.
5. `StaleWorkspaces`: the workspaces of vanished checkouts.
6. `CommandRunner` and `Discovery`: what every other module assumes.
7. Proofs of the safety of each module, and that `Removal` implements `Cleanup`.
8. `RunReport`, with its proofs: the run's records, totals, memory and exit code.
9. Proofs about `Discovery`, with its queue as a function and an invariant of the walk in place of the
   sequence operators.
10. What each finding comes down to, and progress without the bounds.
11. `MemoryContract`, and that `LopRuns` implements it.
12. What one module takes from another as a theorem: that the answers `RunReport` gives its inspections and
    decisions are those `Inspection` and `Cleanup` allow, and an abstract specification of the schedule, in which a
    command that nobody overlaps is one step.
