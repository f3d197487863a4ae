---------------------------- MODULE CommandRunner ----------------------------
(***************************************************************************)
(* How lop runs one external command with a time limit: run_git, run,      *)
(* run_process and command_output, five copies of one loop in src/.  lop   *)
(* starts the command with two pipes and a reader thread for each, polls   *)
(* it, and either kills it at the limit or joins the readers when it has   *)
(* ended.  The command may fork a helper that inherits its pipes, as `git  *)
(* fetch` and `wt` do, and that nobody kills or waits for.                 *)
(*                                                                         *)
(* A tick of the clock is a poll interval: time passes only when lop and   *)
(* its readers are waiting.  Processes and pipes are the kernel's.         *)
(***************************************************************************)
EXTENDS Integers

CONSTANTS
    Timeout,        \* the limit, in polls
    PipeSize,       \* what a pipe holds before its writers block
    MaxOutput,      \* bound on what is written to a pipe
    MaxTime         \* bound on the clock

ASSUME RunnerAssumption ==
    /\ Timeout \in Nat \ {0}
    /\ PipeSize \in Nat \ {0}
    /\ MaxOutput \in Nat
    /\ MaxTime \in Nat

VARIABLES
    runner,         \* the module whose copy of the loop this is
    pc,             \* where lop's thread is
    asleep,         \* it polled in this tick and sleeps until the next
    process,        \* the command and its helper
    holds,          \* the write ends each of them has open
    pipe,           \* what is in each pipe
    reader,         \* each reader thread
    got,            \* what each reader has read
    result,         \* what the caller gets
    clock,
    \* History, for the properties only.
    written,        \* what was written to each pipe
    killed,         \* lop killed the command
    waitFailed      \* lop could not wait for the command

vars == <<runner, pc, asleep, process, holds, pipe, reader, got, result, clock, written,
          killed, waitFailed>>

Streams == {"stdout", "stderr"}
Processes == {"command", "helper"}
Steps == {"spawn", "poll", "stdout", "stderr", "done"}
Causes == {"spawn", "timeout", "wait", "read"}

(***************************************************************************)
(* The error each copy reports for what can go wrong: the command does not *)
(* start, exceeds its limit, cannot be waited for, or cannot be read.      *)
(***************************************************************************)
InspectionReport ==
    [spawn |-> "Spawn", timeout |-> "TimedOut", wait |-> "Spawn", read |-> "Spawn"]
CleanupReport ==
    [spawn |-> "Spawn", timeout |-> "TimedOut", wait |-> "Spawn", read |-> "Spawn"]
IntegrationReport ==
    [spawn |-> "Unavailable", timeout |-> "TimedOut", wait |-> "Unavailable",
     read |-> "Unavailable"]
HerdrReport ==
    [spawn |-> "Unavailable", timeout |-> "Unavailable", wait |-> "Unavailable",
     read |-> "Unavailable"]
ScheduleReport ==
    [spawn |-> "Spawn", timeout |-> "TimedOut", wait |-> "Spawn", read |-> "Spawn"]

Report ==
    [inspection |-> InspectionReport, cleanup |-> CleanupReport,
     integration |-> IntegrationReport, herdr |-> HerdrReport, schedule |-> ScheduleReport]
Runners == {"inspection", "cleanup", "integration", "herdr", "schedule"}

\* The one copy that stops the command when it cannot be waited for.
KillsOnError == {"schedule"}

Errors == {"Spawn", "TimedOut", "Unavailable"}

Init ==
    /\ runner \in Runners
    /\ pc = "spawn" /\ asleep = FALSE
    /\ process = [q \in Processes |-> "absent"]
    /\ holds = [q \in Processes |-> {}]
    /\ pipe = [s \in Streams |-> 0]
    /\ reader = [s \in Streams |-> "absent"]
    /\ got = [s \in Streams |-> 0]
    /\ result = "none"
    /\ clock = 0
    /\ written = [s \in Streams |-> 0]
    /\ killed = FALSE /\ waitFailed = FALSE

Holders(s) == {q \in Processes : s \in holds[q]}

----------------------------------------------------------------------------
(***************************************************************************)
(* lop's thread.                                                           *)
(***************************************************************************)

Answer(r) == pc' = "done" /\ result' = r

\* The command starts with both write ends, and the reader threads with it.
Start ==
    /\ pc = "spawn"
    /\ \/ /\ Answer(Report[runner]["spawn"])
          /\ UNCHANGED <<process, holds, reader>>
       \/ /\ pc' = "poll"
          /\ process' = [process EXCEPT !["command"] = "running"]
          /\ holds' = [holds EXCEPT !["command"] = Streams]
          /\ reader' = [s \in Streams |-> "reading"]
          /\ UNCHANGED result
    /\ UNCHANGED <<runner, asleep, pipe, got, clock, written, killed, waitFailed>>

\* try_wait finds the command ended and reaps it: the readers are joined next.
PollEnded ==
    /\ process["command"] = "ended"
    /\ process' = [process EXCEPT !["command"] = "reaped"]
    /\ pc' = "stdout"
    /\ UNCHANGED <<asleep, holds, result, clock, killed, waitFailed>>

PollAgain ==
    /\ process["command"] = "running"
    /\ clock < Timeout
    /\ asleep' = TRUE
    /\ UNCHANGED <<pc, process, holds, result, clock, killed, waitFailed>>

\* kill and wait: the command is gone, its helper is not.
KillCommand ==
    /\ process' = [process EXCEPT !["command"] = "reaped"]
    /\ holds' = [holds EXCEPT !["command"] = {}]
    /\ killed' = TRUE

\* Slip: the command is given up but neither killed nor waited for.
PollTimeoutSparing ==
    /\ process["command"] = "running"
    /\ clock >= Timeout
    /\ Answer(Report[runner]["timeout"])
    /\ UNCHANGED <<asleep, process, holds, clock, killed, waitFailed>>

\* Slip: the readers of a killed command are joined like those of one that ended.
PollTimeoutJoining ==
    /\ process["command"] = "running"
    /\ clock >= Timeout
    /\ KillCommand
    /\ pc' = "stdout"
    /\ UNCHANGED <<asleep, result, clock, waitFailed>>

\* Slip: reaching the limit starts it again.
PollTimeoutRestarting ==
    /\ process["command"] = "running"
    /\ clock >= Timeout
    /\ asleep' = TRUE /\ clock' = 0
    /\ UNCHANGED <<pc, process, holds, result, killed, waitFailed>>

\* The limit is reached: the readers are left to themselves.
PollTimeout ==
    /\ process["command"] = "running"
    /\ clock >= Timeout
    /\ KillCommand
    /\ Answer(Report[runner]["timeout"])
    /\ UNCHANGED <<asleep, clock, waitFailed>>

\* try_wait fails.
PollFails ==
    /\ IF runner \in KillsOnError THEN KillCommand ELSE UNCHANGED <<process, holds, killed>>
    /\ waitFailed' = TRUE
    /\ Answer(Report[runner]["wait"])
    /\ UNCHANGED <<asleep, clock>>

Poll ==
    /\ pc = "poll" /\ ~asleep
    /\ PollEnded \/ PollAgain \/ PollTimeout \/ PollFails
    /\ UNCHANGED <<runner, pipe, reader, got, written>>

\* Slip: the output is what has been read when the command ends.
JoinAtOnce ==
    /\ pc \in Streams
    /\ \/ /\ reader[pc] # "failed"
          /\ \/ pc = "stdout" /\ pc' = "stderr" /\ UNCHANGED result
             \/ pc = "stderr" /\ Answer("output")
       \/ reader[pc] = "failed" /\ Answer(Report[runner]["read"])
    /\ UNCHANGED <<runner, asleep, process, holds, pipe, reader, got, clock, written, killed,
                   waitFailed>>

\* Joining the readers, stdout's first, for as long as they read.
Join ==
    /\ pc \in Streams
    /\ \/ /\ reader[pc] = "ended"
          /\ \/ pc = "stdout" /\ pc' = "stderr" /\ UNCHANGED result
             \/ pc = "stderr" /\ Answer("output")
       \/ reader[pc] = "failed" /\ Answer(Report[runner]["read"])
    /\ UNCHANGED <<runner, asleep, process, holds, pipe, reader, got, clock, written, killed,
                   waitFailed>>

----------------------------------------------------------------------------
(***************************************************************************)
(* The reader threads (read_all).                                          *)
(***************************************************************************)

\* read_to_end takes what is there ...
CanTake(s) == pipe[s] > 0

Take(s) ==
    /\ CanTake(s)
    /\ got' = [got EXCEPT ![s] = @ + pipe[s]]
    /\ pipe' = [pipe EXCEPT ![s] = 0]
    /\ UNCHANGED reader

\* ... until the pipe is empty and no process holds its other end ...
EndOfFile(s) ==
    /\ pipe[s] = 0 /\ Holders(s) = {}
    /\ reader' = [reader EXCEPT ![s] = "ended"]
    /\ UNCHANGED <<got, pipe>>

Read(s) ==
    /\ reader[s] = "reading"
    /\ Take(s) \/ EndOfFile(s)
    /\ UNCHANGED <<runner, pc, asleep, process, holds, result, clock, written, killed, waitFailed>>

\* ... or reading fails, and the pipe is closed on the writers.
ReadFails(s) ==
    /\ reader[s] = "reading"
    /\ reader' = [reader EXCEPT ![s] = "failed"]
    /\ UNCHANGED <<runner, pc, asleep, process, holds, pipe, got, result, clock, written, killed,
                   waitFailed>>

----------------------------------------------------------------------------
(***************************************************************************)
(* The command, its helper and the clock.                                  *)
(***************************************************************************)

\* A process that ends, or dies writing to a pipe nobody reads, closes what it holds.
Ends(q) ==
    /\ process' = [process EXCEPT ![q] = "ended"]
    /\ holds' = [holds EXCEPT ![q] = {}]

End(q) ==
    /\ process[q] = "running"
    /\ Ends(q)
    /\ UNCHANGED <<pipe, written>>

Write(q, s) ==
    /\ process[q] = "running" /\ s \in holds[q]
    /\ \/ /\ reader[s] = "reading"
          /\ pipe[s] < PipeSize /\ written[s] < MaxOutput
          /\ pipe' = [pipe EXCEPT ![s] = @ + 1]
          /\ written' = [written EXCEPT ![s] = @ + 1]
          /\ UNCHANGED <<process, holds>>
       \/ reader[s] = "failed" /\ Ends(q) /\ UNCHANGED <<pipe, written>>

CloseStream(q, s) ==
    /\ process[q] = "running" /\ s \in holds[q]
    /\ holds' = [holds EXCEPT ![q] = @ \ {s}]
    /\ UNCHANGED <<process, pipe, written>>

Fork ==
    /\ process["command"] = "running" /\ process["helper"] = "absent"
    /\ process' = [process EXCEPT !["helper"] = "running"]
    /\ holds' = [holds EXCEPT !["helper"] = holds["command"]]
    /\ UNCHANGED <<pipe, written>>

ProcessStep ==
    /\ \/ \E q \in Processes : End(q) \/ (\E s \in Streams : Write(q, s) \/ CloseStream(q, s))
       \/ Fork
    /\ UNCHANGED <<runner, pc, asleep, reader, got, result, clock, killed, waitFailed>>

LopWaits ==
    \/ pc = "poll" /\ asleep
    \/ pc \in Streams /\ reader[pc] = "reading"
ReadersWait ==
    \A s \in Streams : reader[s] = "reading" => ~CanTake(s) /\ Holders(s) # {}

Tick ==
    /\ LopWaits /\ ReadersWait
    /\ clock < MaxTime
    /\ clock' = clock + 1
    /\ asleep' = FALSE
    /\ UNCHANGED <<runner, pc, process, holds, pipe, reader, got, result, written, killed,
                   waitFailed>>

Finished == pc = "done" /\ UNCHANGED vars

LopStep == Start \/ Poll \/ Join

Next == LopStep \/ (\E s \in Streams : Read(s) \/ ReadFails(s)) \/ ProcessStep \/ Tick \/ Finished

Spec == Init /\ [][Next]_vars

\* lop's thread and the readers run when they can, and time goes on.  Nothing is assumed of
\* the command: neither that it ends nor that its helper does.
Fairness == WF_vars(LopStep) /\ (\A s \in Streams : WF_vars(Read(s))) /\ WF_vars(Tick)
FairSpec == Spec /\ Fairness

----------------------------------------------------------------------------
(***************************************************************************)
(* Properties.                                                             *)
(***************************************************************************)

TypeOK ==
    /\ runner \in Runners
    /\ pc \in Steps /\ asleep \in BOOLEAN
    /\ process \in [Processes -> {"absent", "running", "ended", "reaped"}]
    /\ holds \in [Processes -> SUBSET Streams]
    /\ pipe \in [Streams -> 0..PipeSize]
    /\ reader \in [Streams -> {"absent", "reading", "ended", "failed"}]
    /\ got \in [Streams -> Nat]
    /\ result \in Errors \cup {"none", "output"}
    /\ pc = "done" <=> result # "none"
    /\ clock \in 0..MaxTime
    /\ written \in [Streams -> Nat]
    /\ killed \in BOOLEAN /\ waitFailed \in BOOLEAN

\* An output lop goes on to parse is everything the command, and whatever inherited its
\* pipes, wrote to them: no reader stopped early and nobody can add to it.
OutputIsWhole ==
    result = "output" =>
        /\ ~killed
        /\ \A s \in Streams :
            reader[s] = "ended" /\ Holders(s) = {} /\ got[s] = written[s]

\* lop leaves no command running or unreaped behind an answer, whatever the answer says,
\* except where try_wait failed and the copy of the loop does not kill it then.
CommandReaped ==
    result # "none" =>
        \/ process["command"] \in {"absent", "reaped"}
        \/ runner \notin KillsOnError /\ waitFailed

\* Past the limit lop waits only for a command that ended by itself in time and left a
\* helper that still holds a pipe.
OverdueOnlyForHelper ==
    [][clock' # clock /\ clock >= Timeout =>
        /\ ~killed
        /\ process["command"] = "reaped"
        /\ holds["helper"] # {}]_vars

\* Every command is answered, unless a helper keeps running for ever.
AnsweredOrHeld == <>[](process["helper"] # "running") => <>(pc = "done")
=============================================================================
