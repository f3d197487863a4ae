------------------------ MODULE CommandRunnerProofs ------------------------
(***************************************************************************)
(* Proofs about CommandRunner, for any time limit, pipe size and output.   *)
(***************************************************************************)
EXTENDS CommandRunner, TLAPS

USE DEF Streams, Processes

(***************************************************************************)
(* The inductive invariant: what is in the pipes, who holds them, and      *)
(* where the command is at each step of lop's thread.                      *)
(***************************************************************************)

\* A pipe keeps what its reader has not taken, and a reader that ended left
\* nothing behind and nobody who could add to it.
PipesKept ==
    \A s \in Streams :
        /\ written[s] = got[s] + pipe[s]
        /\ reader[s] = "ended" => pipe[s] = 0 /\ Holders(s) = {}

\* Only what runs holds a pipe, and nothing runs before the command does.
RunningHold ==
    /\ \A q \in Processes : process[q] # "running" => holds[q] = {}
    /\ process["command"] = "absent" => process["helper"] = "absent"

\* Where lop's thread is says how the command got there.
Position ==
    /\ pc = "spawn" =>
        process["command"] = "absent" /\ ~killed /\ \A s \in Streams : reader[s] = "absent"
    /\ pc = "poll" => process["command"] \in {"running", "ended"} /\ ~killed
    /\ pc \in Streams => process["command"] = "reaped" /\ ~killed
    /\ pc \in Streams \cup {"poll"} => \A s \in Streams : reader[s] # "absent"
    /\ pc = "stderr" => reader["stdout"] = "ended"
    /\ asleep => pc = "poll" /\ clock < Timeout

\* An output was taken from readers that had ended.
OutputRead == result = "output" => ~killed /\ \A s \in Streams : reader[s] = "ended"

RunnerInv ==
    /\ TypeOK
    /\ PipesKept
    /\ RunningHold
    /\ Position
    /\ OutputRead
    /\ CommandReaped

----------------------------------------------------------------------------

LEMMA ReportTyped ==
    ASSUME NEW r \in Runners, NEW c \in Causes
    PROVE  Report[r][c] \in Errors
BY DEF Runners, Causes, Report, Errors, InspectionReport, CleanupReport, IntegrationReport,
       HerdrReport, ScheduleReport

LEMMA InitInv == Init => RunnerInv
<1>. SUFFICES ASSUME Init PROVE RunnerInv
    OBVIOUS
<1>1. TypeOK
    <2>1. pipe \in [Streams -> 0..PipeSize] /\ clock \in 0..MaxTime
        BY RunnerAssumption DEF Init
    <2>2. holds \in [Processes -> SUBSET Streams]
        BY DEF Init
    <2>. QED
        BY <2>1, <2>2 DEF Init, TypeOK, Steps
<1>2. PipesKept /\ RunningHold
    BY DEF Init, PipesKept, RunningHold
<1>3. Position /\ OutputRead /\ CommandReaped
    BY DEF Init, Position, OutputRead, CommandReaped
<1>. QED
    BY <1>1, <1>2, <1>3 DEF RunnerInv

LEMMA StartInv == RunnerInv /\ Start => RunnerInv'
<1>. SUFFICES ASSUME RunnerInv, Start PROVE RunnerInv'
    OBVIOUS
<1>. USE DEF RunnerInv, Start, Answer
<1>1. Report[runner]["spawn"] \in Errors
    BY ReportTyped DEF TypeOK, Causes
<1>2. TypeOK'
    BY <1>1 DEF TypeOK, Steps, Errors
<1>3. PipesKept'
    BY <1>1 DEF TypeOK, PipesKept, Holders, Position
<1>4. RunningHold'
    BY DEF TypeOK, RunningHold, Position
<1>5. Position'
    BY DEF TypeOK, Position, OutputRead
<1>6. (OutputRead /\ CommandReaped)'
    BY <1>1 DEF TypeOK, OutputRead, CommandReaped, Errors, Position
<1>. QED
    BY <1>2, <1>3, <1>4, <1>5, <1>6

LEMMA PollInv == RunnerInv /\ Poll => RunnerInv'
<1>. SUFFICES ASSUME RunnerInv, Poll PROVE RunnerInv'
    OBVIOUS
<1>. USE DEF RunnerInv
<1>1. CASE PollEnded
    <2>. USE <1>1 DEF PollEnded, Poll
    <2>1. TypeOK'
        BY DEF TypeOK, Steps
    <2>2. PipesKept' /\ RunningHold'
        BY DEF TypeOK, PipesKept, RunningHold, Holders
    <2>3. Position'
        BY DEF TypeOK, Position
    <2>4. (OutputRead /\ CommandReaped)'
        BY DEF TypeOK, OutputRead, CommandReaped
    <2>. QED
        BY <2>1, <2>2, <2>3, <2>4
<1>2. CASE PollAgain
    <2>. USE <1>2 DEF PollAgain, Poll
    <2>1. TypeOK'
        BY DEF TypeOK, Steps
    <2>2. PipesKept' /\ RunningHold'
        BY DEF PipesKept, RunningHold, Holders
    <2>3. Position'
        BY DEF Position
    <2>4. (OutputRead /\ CommandReaped)'
        BY DEF OutputRead, CommandReaped
    <2>. QED
        BY <2>1, <2>2, <2>3, <2>4
<1>3. ASSUME KillCommand, NEW c \in {"timeout", "wait"}, Answer(Report[runner][c]),
             waitFailed' \in BOOLEAN, UNCHANGED <<asleep, clock>>
      PROVE  RunnerInv'
    <2>. USE <1>3 DEF KillCommand, Poll, Answer
    <2>1. Report[runner][c] \in Errors
        BY ReportTyped DEF TypeOK, Causes
    <2>2. TypeOK'
        BY <2>1 DEF TypeOK, Steps, Errors
    <2>3. PipesKept' /\ RunningHold'
        BY DEF TypeOK, PipesKept, RunningHold, Holders
    <2>4. Position'
        BY DEF TypeOK, Position
    <2>5. (OutputRead /\ CommandReaped)'
        BY <2>1 DEF TypeOK, OutputRead, CommandReaped, Errors
    <2>. QED
        BY <2>2, <2>3, <2>4, <2>5
<1>4. CASE PollFails /\ runner \notin KillsOnError
    <2>. USE <1>4 DEF PollFails, Poll, Answer
    <2>1. Report[runner]["wait"] \in Errors
        BY ReportTyped DEF TypeOK, Causes
    <2>2. TypeOK'
        BY <2>1 DEF TypeOK, Steps, Errors
    <2>3. PipesKept' /\ RunningHold' /\ Position'
        BY DEF TypeOK, PipesKept, RunningHold, Holders, Position
    <2>4. (OutputRead /\ CommandReaped)'
        BY <2>1 DEF TypeOK, OutputRead, CommandReaped, Errors
    <2>. QED
        BY <2>2, <2>3, <2>4
<1>. QED
    BY <1>1, <1>2, <1>3, <1>4 DEF Poll, PollTimeout, PollFails, TypeOK

LEMMA JoinInv == RunnerInv /\ Join => RunnerInv'
<1>. SUFFICES ASSUME RunnerInv, Join PROVE RunnerInv'
    OBVIOUS
<1>. USE DEF RunnerInv, Join, Answer
<1>1. Report[runner]["read"] \in Errors
    BY ReportTyped DEF TypeOK, Causes
<1>2. TypeOK'
    BY <1>1 DEF TypeOK, Steps, Errors
<1>3. PipesKept' /\ RunningHold'
    BY DEF PipesKept, RunningHold, Holders
<1>4. Position'
    BY DEF Position
<1>5. (OutputRead /\ CommandReaped)'
    BY <1>1 DEF TypeOK, OutputRead, CommandReaped, Errors, Position
<1>. QED
    BY <1>2, <1>3, <1>4, <1>5

LEMMA ReadInv ==
    ASSUME RunnerInv, NEW s \in Streams, Read(s) \/ ReadFails(s)
    PROVE  RunnerInv'
<1>. USE DEF RunnerInv
<1>1. CASE Read(s) /\ Take(s)
    <2>. USE <1>1 DEF Read, Take
    <2>1. TypeOK'
        <3>1. got[s] + pipe[s] \in Nat /\ 0 \in 0..PipeSize
            BY RunnerAssumption DEF TypeOK
        <3>. QED
            BY <3>1 DEF TypeOK
    <2>2. PipesKept'
        BY DEF TypeOK, PipesKept, Holders
    <2>3. RunningHold' /\ Position'
        BY DEF RunningHold, Position
    <2>4. (OutputRead /\ CommandReaped)'
        BY DEF OutputRead, CommandReaped
    <2>. QED
        BY <2>1, <2>2, <2>3, <2>4
<1>2. CASE Read(s) /\ EndOfFile(s)
    <2>. USE <1>2 DEF Read, EndOfFile
    <2>1. TypeOK'
        BY DEF TypeOK
    <2>2. PipesKept'
        BY DEF TypeOK, PipesKept, Holders
    <2>3. RunningHold' /\ Position'
        BY DEF TypeOK, RunningHold, Position
    <2>4. (OutputRead /\ CommandReaped)'
        BY DEF TypeOK, OutputRead, CommandReaped
    <2>. QED
        BY <2>1, <2>2, <2>3, <2>4
<1>3. CASE ReadFails(s)
    <2>. USE <1>3 DEF ReadFails
    <2>1. TypeOK'
        BY DEF TypeOK
    <2>2. PipesKept'
        BY DEF TypeOK, PipesKept, Holders
    <2>3. RunningHold' /\ Position'
        BY DEF TypeOK, RunningHold, Position
    <2>4. (OutputRead /\ CommandReaped)'
        BY DEF TypeOK, OutputRead, CommandReaped
    <2>. QED
        BY <2>1, <2>2, <2>3, <2>4
<1>. QED
    BY <1>1, <1>2, <1>3 DEF Read

\* A process that closes all it has open, or part of it, takes nothing from
\* what lop relies on.
LEMMA EndsInv ==
    ASSUME RunnerInv, NEW q \in Processes, process[q] = "running", Ends(q),
           UNCHANGED <<runner, pc, asleep, pipe, reader, got, result, clock, written, killed,
                       waitFailed>>
    PROVE  RunnerInv'
<1>. USE DEF RunnerInv, Ends
<1>1. TypeOK'
    BY DEF TypeOK
<1>2. PipesKept' /\ RunningHold'
    BY DEF TypeOK, PipesKept, RunningHold, Holders
<1>3. Position'
    BY DEF TypeOK, Position
<1>4. (OutputRead /\ CommandReaped)'
    BY DEF TypeOK, OutputRead, CommandReaped
<1>. QED
    BY <1>1, <1>2, <1>3, <1>4

LEMMA ProcessInv == RunnerInv /\ ProcessStep => RunnerInv'
<1>. SUFFICES ASSUME RunnerInv, ProcessStep PROVE RunnerInv'
    OBVIOUS
<1>. USE DEF ProcessStep
<1>1. ASSUME NEW q \in Processes, End(q)
      PROVE  RunnerInv'
    BY <1>1, EndsInv DEF End
<1>2. ASSUME NEW q \in Processes, NEW s \in Streams, Write(q, s)
      PROVE  RunnerInv'
    <2>1. CASE reader[s] = "failed"
        BY <1>2, <2>1, EndsInv DEF Write
    <2>2. CASE reader[s] # "failed"
        <3>. USE <1>2, <2>2 DEF Write, RunnerInv
        <3>1. pipe[s] + 1 \in 0..PipeSize /\ written[s] + 1 \in Nat
            BY RunnerAssumption DEF TypeOK
        <3>2. TypeOK'
            BY <3>1 DEF TypeOK
        <3>3. PipesKept'
            BY DEF TypeOK, PipesKept, Holders
        <3>4. RunningHold' /\ Position'
            BY DEF RunningHold, Position
        <3>5. (OutputRead /\ CommandReaped)'
            BY DEF OutputRead, CommandReaped
        <3>. QED
            BY <3>2, <3>3, <3>4, <3>5
    <2>. QED
        BY <2>1, <2>2
<1>3. ASSUME NEW q \in Processes, NEW s \in Streams, CloseStream(q, s)
      PROVE  RunnerInv'
    <2>. USE <1>3 DEF CloseStream, RunnerInv
    <2>1. TypeOK'
        BY DEF TypeOK
    <2>2. PipesKept' /\ RunningHold'
        BY DEF TypeOK, PipesKept, RunningHold, Holders
    <2>3. Position' /\ (OutputRead /\ CommandReaped)'
        BY DEF Position, OutputRead, CommandReaped
    <2>. QED
        BY <2>1, <2>2, <2>3
<1>4. CASE Fork
    <2>. USE <1>4 DEF Fork, RunnerInv
    <2>1. TypeOK'
        BY DEF TypeOK
    <2>2. PipesKept' /\ RunningHold'
        BY DEF TypeOK, PipesKept, RunningHold, Holders
    <2>3. Position' /\ (OutputRead /\ CommandReaped)'
        BY DEF TypeOK, Position, OutputRead, CommandReaped
    <2>. QED
        BY <2>1, <2>2, <2>3
<1>. QED
    BY <1>1, <1>2, <1>3, <1>4

\* Time passes.
LEMMA TickInv == RunnerInv /\ Tick => RunnerInv'
<1>. SUFFICES ASSUME RunnerInv, Tick PROVE RunnerInv'
    OBVIOUS
<1>. USE DEF RunnerInv, Tick
<1>1. clock + 1 \in 0..MaxTime
    BY RunnerAssumption DEF TypeOK
<1>2. TypeOK'
    BY <1>1 DEF TypeOK
<1>3. PipesKept' /\ RunningHold'
    BY DEF PipesKept, RunningHold, Holders
<1>4. Position' /\ OutputRead' /\ CommandReaped'
    BY DEF Position, OutputRead, CommandReaped
<1>. QED
    BY <1>2, <1>3, <1>4

LEMMA StepInv == RunnerInv /\ [Next]_vars => RunnerInv'
<1>. SUFFICES ASSUME RunnerInv, [Next]_vars PROVE RunnerInv'
    OBVIOUS
<1>1. CASE UNCHANGED vars
    BY <1>1 DEF vars, RunnerInv, TypeOK, PipesKept, RunningHold, Position, OutputRead,
                CommandReaped, Holders
<1>2. CASE LopStep
    BY <1>2, StartInv, PollInv, JoinInv DEF LopStep
<1>3. ASSUME NEW s \in Streams, Read(s) \/ ReadFails(s)
      PROVE  RunnerInv'
    BY <1>3, ReadInv
<1>. QED
    BY <1>1, <1>2, <1>3, ProcessInv, TickInv DEF Next, Finished

----------------------------------------------------------------------------
(***************************************************************************)
(* The theorems.                                                           *)
(***************************************************************************)

THEOREM Invariance == Spec => []RunnerInv
<1>. QED
    BY InitInv, StepInv, PTL DEF Spec

\* Every reachable state of lop's thread, its readers, the pipes and the
\* processes has its types (run, run_git, run_process, command_output).
THEOREM TypeCorrect == Spec => []TypeOK
<1>1. RunnerInv => TypeOK
    BY DEF RunnerInv
<1>. QED
    BY <1>1, Invariance, PTL

\* Whatever the sizes, an output that is parsed is all that was written, for
\* the readers are joined only at the end of their pipes (read_all).
THEOREM OutputComplete == Spec => []OutputIsWhole
<1>1. RunnerInv => OutputIsWhole
    BY DEF RunnerInv, OutputRead, PipesKept, TypeOK, OutputIsWhole
<1>. QED
    BY <1>1, Invariance, PTL

\* Whatever the command does and whatever the answer says, it is killed or
\* reaped before the caller goes on, unless try_wait failed in a copy that
\* only returns then.
THEOREM NothingLeftRunning == Spec => []CommandReaped
<1>1. RunnerInv => CommandReaped
    BY DEF RunnerInv
<1>. QED
    BY <1>1, Invariance, PTL

OverdueStep ==
    clock' # clock /\ clock >= Timeout =>
        /\ ~killed
        /\ process["command"] = "reaped"
        /\ holds["helper"] # {}

\* Past the limit time passes only in joining the readers of a command that
\* ended by itself, and then a helper holds one of its pipes.
THEOREM OverdueSound == Spec => OverdueOnlyForHelper
<1>1. ASSUME RunnerInv, [Next]_vars PROVE [OverdueStep]_vars
    <2>1. CASE Tick
        <3>. SUFFICES ASSUME clock >= Timeout
                      PROVE  ~killed /\ process["command"] = "reaped" /\ holds["helper"] # {}
            BY DEF OverdueStep
        <3>1. pc \in Streams /\ reader[pc] = "reading"
            BY <1>1, <2>1, RunnerAssumption DEF RunnerInv, TypeOK, Position, Tick, LopWaits
        <3>2. process["command"] = "reaped" /\ ~killed
            BY <1>1, <3>1 DEF RunnerInv, Position
        <3>3. Holders(pc) # {} /\ holds["command"] = {}
            BY <1>1, <2>1, <3>1, <3>2 DEF RunnerInv, RunningHold, Tick, ReadersWait
        <3>. QED
            BY <3>1, <3>2, <3>3 DEF Holders
    <2>2. CASE ~Tick
        BY <1>1, <2>2 DEF OverdueStep, Next, vars, LopStep, Start, Poll, Join, Read, ReadFails,
            ProcessStep, Finished, PollEnded, PollAgain, PollTimeout, PollFails
    <2>. QED
        BY <2>1, <2>2
<1>. QED
    BY <1>1, Invariance, PTL DEF Spec, OverdueOnlyForHelper, OverdueStep
----------------------------------------------------------------------------
(***************************************************************************)
(* Progress: what AnsweredOrHeld rests on besides fairness.                *)
(***************************************************************************)

Onward ==
    {<<"spawn", "poll">>, <<"poll", "stdout">>, <<"stdout", "stderr">>}
        \cup (Steps \ {"done"}) \X {"done"}

\* lop's thread goes on to a later place, or waits for the next tick within the limit.
Nearer ==
    \/ <<pc, pc'>> \in Onward
    \/ pc = "poll" /\ ~asleep /\ asleep' /\ clock < Timeout /\ UNCHANGED <<pc, clock>>

\* lop's thread stays where it is, sleeps until a tick, and finds a reader that has stopped
\* as it was.
LopUndisturbed ==
    /\ pc' = pc
    /\ asleep' # asleep => clock' = clock + 1
    /\ \A s \in Streams : reader[s] \in {"ended", "failed"} => reader'[s] = reader[s]

\* lop's thread sleeps only within the limit and waits only for a reader at work, who waits
\* for nobody but a helper that still runs.
WaitsForHelper ==
    /\ asleep => pc = "poll" /\ clock < Timeout
    /\ pc \in Streams =>
        \/ reader[pc] \in {"ended", "failed"}
        \/ /\ reader[pc] = "reading"
           /\ \A q \in Holders(pc) : q = "helper" /\ process[q] = "running"

\* Every step of lop's thread brings the answer nearer, nothing the others do takes it back,
\* and it is held up by nobody but a helper: not by the command, and not by
\* the other reader.
THEOREM RunnerProgresses ==
    Spec => /\ [][LopStep => Nearer]_vars
            /\ [][~LopStep => LopUndisturbed]_vars
            /\ []WaitsForHelper
<1>1. RunnerInv /\ LopStep => Nearer
    <2>. SUFFICES ASSUME RunnerInv, LopStep
                  PROVE  Nearer
        OBVIOUS
    <2>1. CASE Start
        BY <2>1 DEF Start, Answer, Nearer, Onward, Steps
    <2>2. CASE Poll
        BY <2>2 DEF Poll, PollEnded, PollAgain, PollTimeout, PollFails, Answer, Nearer, Onward, Steps
    <2>3. CASE Join
        BY <2>3 DEF Join, Answer, Nearer, Onward, Steps
    <2>. QED
        BY <2>1, <2>2, <2>3 DEF LopStep
<1>2. RunnerInv /\ [Next]_vars => [~LopStep => LopUndisturbed]_vars
    <2>. SUFFICES ASSUME RunnerInv, Next, ~LopStep
                  PROVE  LopUndisturbed
        BY DEF vars
    <2>1. ASSUME NEW s \in Streams, Read(s) \/ ReadFails(s)
          PROVE  LopUndisturbed
        BY <2>1 DEF Read, Take, EndOfFile, ReadFails, LopUndisturbed, RunnerInv, TypeOK
    <2>2. CASE ProcessStep \/ Tick \/ Finished
        BY <2>2 DEF ProcessStep, Tick, Finished, vars, LopUndisturbed
    <2>. QED
        BY <2>1, <2>2 DEF Next
<1>3. RunnerInv => WaitsForHelper
    <2>. SUFFICES ASSUME RunnerInv
                  PROVE  WaitsForHelper
        OBVIOUS
    <2>1. asleep => pc = "poll" /\ clock < Timeout
        BY DEF RunnerInv, Position
    <2>2. ASSUME pc \in Streams, reader[pc] \notin {"ended", "failed"}
          PROVE  /\ reader[pc] = "reading"
                 /\ \A q \in Holders(pc) : q = "helper" /\ process[q] = "running"
        BY <2>2 DEF RunnerInv, TypeOK, Position, RunningHold, Holders
    <2>. QED
        BY <2>1, <2>2 DEF WaitsForHelper
<1>. QED
    BY <1>1, <1>2, <1>3, Invariance, PTL DEF Spec
=============================================================================
