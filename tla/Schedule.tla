------------------------------ MODULE Schedule ------------------------------
(***************************************************************************)
(* `lop schedule install`, `edit` and `uninstall` (src/schedule.rs): the   *)
(* settings file, the LaunchAgent file and the service launchd has loaded  *)
(* are replaced together, and put back when a step fails.  Every file and  *)
(* launchctl operation is one step; clients may run at the same time, and  *)
(* any of them may be killed between two steps.                            *)
(***************************************************************************)
EXTENDS Naturals

CONSTANTS
    Clients,        \* processes running `lop schedule`
    Schedules,      \* a mode and an interval
    Pruning,        \* the schedules in prune mode
    Default,        \* ScheduleSettings::default()
    None,
    MaxCommands     \* bound on the commands given

ASSUME ScheduleAssumption ==
    /\ Pruning \subseteq Schedules
    /\ Default \in Schedules \ Pruning
    /\ None \notin Schedules
    /\ MaxCommands \in Nat

Slots == Schedules \cup {None}

VARIABLES
    settings, agent,    \* the schedule each file holds, or None
    loaded,             \* the schedule launchd runs
    pc,                 \* per client, the step it is at
    kind,               \* per client, the command
    want,               \* per client, the schedule to install
    prevSettings, prevAgent, wasLoaded, \* per client, what it would restore
    problem,            \* per client, the rollback has met a failure
    result,             \* per client, how its last command ended
    commands,           \* commands given so far
    \* History, for the properties only.
    before,             \* per client, the three at the start of its command
    alone,              \* per client, no other command has overlapped its own
    misread,            \* per client, `launchctl print` failed over a loaded service
    approved            \* schedules whose preflight was healthy or acknowledged

diskVars == <<settings, agent>>
memoVars == <<kind, want, prevSettings, prevAgent, wasLoaded>>
ghostVars == <<before, alone, misread, approved>>
vars == <<settings, agent, loaded, pc, kind, want, prevSettings, prevAgent, wasLoaded,
          problem, result, commands, before, alone, misread, approved>>

Kinds == {"install", "edit", "uninstall"}
Results == {"none", "ok", "failed", "rollbackFailed", "killed"}
Steps == {"idle", "preflight", "readAgent", "readSettings", "ask", "bootout", "writeSettings",
          "writeAgent", "bootstrap", "askAgain", "undo", "restoreSettings", "restoreAgent",
          "reload", "askUninstall", "bootoutUninstall", "removeAgent", "removeSettings"}

Installed == [settings |-> settings, agent |-> agent, loaded |-> loaded]

Init ==
    /\ \/ settings = None /\ agent = None /\ loaded = None
       \/ settings = Default /\ agent = Default /\ loaded \in {Default, None}
    /\ pc = [c \in Clients |-> "idle"]
    /\ kind = [c \in Clients |-> "install"] /\ want = [c \in Clients |-> Default]
    /\ prevSettings = [c \in Clients |-> None] /\ prevAgent = [c \in Clients |-> None]
    /\ wasLoaded = [c \in Clients |-> FALSE] /\ problem = [c \in Clients |-> FALSE]
    /\ result = [c \in Clients |-> "none"]
    /\ commands = 0
    /\ before = [c \in Clients |-> Installed]
    /\ alone = [c \in Clients |-> TRUE]
    /\ misread = [c \in Clients |-> FALSE]
    /\ approved = {Default}

At(c, step) == pc[c] = step
To(c, step) == pc' = [pc EXCEPT ![c] = step] /\ UNCHANGED result
End(c, r) == pc' = [pc EXCEPT ![c] = "idle"] /\ result' = [result EXCEPT ![c] = r]

----------------------------------------------------------------------------
(***************************************************************************)
(* Giving a command.                                                       *)
(***************************************************************************)

Begin(c, k, step) ==
    /\ At(c, "idle")
    /\ commands < MaxCommands
    /\ commands' = commands + 1
    /\ kind' = [kind EXCEPT ![c] = k]
    /\ problem' = [problem EXCEPT ![c] = FALSE]
    /\ before' = [before EXCEPT ![c] = Installed]
    /\ alone' = [d \in Clients |->
            IF d = c THEN \A e \in Clients \ {c} : At(e, "idle")
            ELSE alone[d] /\ At(d, "idle")]
    /\ misread' = [misread EXCEPT ![c] = FALSE]
    /\ To(c, step)
    /\ UNCHANGED <<diskVars, loaded, prevSettings, prevAgent, wasLoaded, approved>>

\* install keeps the settings there are.
Install(c) ==
    /\ Begin(c, "install", "preflight")
    /\ want' = [want EXCEPT ![c] = IF settings = None THEN Default ELSE settings]

\* edit needs both files, and accepts any valid schedule from the editor.
Edit(c, new) ==
    /\ settings # None /\ agent # None
    /\ Begin(c, "edit", "preflight")
    /\ want' = [want EXCEPT ![c] = new]

\* uninstall asks launchd only when the LaunchAgent file is there.
Uninstall(c) ==
    /\ Begin(c, "uninstall", IF agent # None THEN "askUninstall" ELSE "removeSettings")
    /\ UNCHANGED want

\* Slip: only installing is held to the acknowledgement.
PreflightEditsFreely(c) ==
    /\ At(c, "preflight")
    /\ \E degraded \in BOOLEAN, acknowledged \in BOOLEAN :
        LET granted == want[c] \in Pruning /\ degraded => acknowledged IN
        /\ approved' = IF granted THEN approved \cup {want[c]} ELSE approved
        /\ IF granted \/ kind[c] = "edit" THEN To(c, "readAgent") ELSE End(c, "failed")
    /\ UNCHANGED <<diskVars, loaded, memoVars, problem, commands, before, alone, misread>>

\* Preflight and authorize_degraded_prune: a prune schedule over repositories that failed
\* their preflight needs the flag.
Preflight(c) ==
    /\ At(c, "preflight")
    /\ \E degraded \in BOOLEAN, acknowledged \in BOOLEAN :
        LET granted == want[c] \in Pruning /\ degraded => acknowledged IN
        /\ approved' = IF granted THEN approved \cup {want[c]} ELSE approved
        /\ IF granted THEN To(c, "readAgent") ELSE End(c, "failed")
    /\ UNCHANGED <<diskVars, loaded, memoVars, problem, commands, before, alone, misread>>

----------------------------------------------------------------------------
(***************************************************************************)
(* install_transactionally.                                                *)
(***************************************************************************)

ReadAgent(c) ==
    /\ At(c, "readAgent")
    /\ prevAgent' = [prevAgent EXCEPT ![c] = agent]
    /\ To(c, "readSettings")
    /\ UNCHANGED <<diskVars, loaded, kind, want, prevSettings, wasLoaded, problem, commands,
                   ghostVars>>

ReadSettings(c) ==
    /\ At(c, "readSettings")
    /\ prevSettings' = [prevSettings EXCEPT ![c] = settings]
    /\ To(c, "ask")
    /\ UNCHANGED <<diskVars, loaded, kind, want, prevAgent, wasLoaded, problem, commands,
                   ghostVars>>

\* is_loaded: `launchctl print` that does not run or times out is an error; otherwise its exit
\* status alone counts, so that every failure of it says "not loaded" of a loaded service too.
IsLoaded(c, said) ==
    /\ said => loaded # None
    /\ misread' = [misread EXCEPT ![c] = @ \/ (loaded # None /\ ~said)]
    /\ UNCHANGED <<before, alone, approved>>

AskLoaded(c) ==
    /\ At(c, "ask")
    /\ \E said \in BOOLEAN :
        /\ IsLoaded(c, said)
        /\ wasLoaded' = [wasLoaded EXCEPT ![c] = said]
        /\ To(c, IF said THEN "bootout" ELSE "writeSettings")
    /\ UNCHANGED <<diskVars, loaded, kind, want, prevSettings, prevAgent, problem, commands>>

\* `launchctl bootout` and `bootstrap`: a command may fail or time out after its effect.
\* ok says whether lop sees it succeed.
Bootout(ok) ==
    \/ loaded # None /\ loaded' = None
    \/ ~ok /\ UNCHANGED loaded
Bootstrap(ok) ==
    \/ loaded = None /\ agent # None /\ loaded' = agent
    \/ ~ok /\ UNCHANGED loaded

\* Stopping the old service comes before the transaction: its failure ends the command.
StopOld(c) ==
    /\ At(c, "bootout")
    /\ \E ok \in BOOLEAN :
        /\ Bootout(ok)
        /\ IF ok THEN To(c, "writeSettings") ELSE End(c, "failed")
    /\ UNCHANGED <<diskVars, memoVars, problem, commands, ghostVars>>

\* write_atomic replaces the file or leaves it.
WriteSettings(c) ==
    /\ At(c, "writeSettings")
    /\ \/ settings' = want[c] /\ To(c, "writeAgent")
       \/ UNCHANGED settings /\ To(c, "askAgain")
    /\ UNCHANGED <<agent, loaded, memoVars, problem, commands, ghostVars>>

WriteAgent(c) ==
    /\ At(c, "writeAgent")
    /\ \/ agent' = want[c] /\ To(c, "bootstrap")
       \/ UNCHANGED agent /\ To(c, "askAgain")
    /\ UNCHANGED <<settings, loaded, memoVars, problem, commands, ghostVars>>

\* Slip: a service that does not come up is taken for one that will.
StartNewUnchecked(c) ==
    /\ At(c, "bootstrap")
    /\ \E ok \in BOOLEAN : Bootstrap(ok)
    /\ End(c, "ok")
    /\ UNCHANGED <<diskVars, memoVars, problem, commands, ghostVars>>

StartNew(c) ==
    /\ At(c, "bootstrap")
    /\ \E ok \in BOOLEAN :
        /\ Bootstrap(ok)
        /\ IF ok THEN End(c, "ok") ELSE To(c, "askAgain")
    /\ UNCHANGED <<diskVars, memoVars, problem, commands, ghostVars>>

----------------------------------------------------------------------------
(***************************************************************************)
(* rollback_install: every step is tried, and failures are collected.      *)
(***************************************************************************)

Collect(c, ok) == problem' = [problem EXCEPT ![c] = @ \/ ~ok]

AskAgain(c) ==
    /\ At(c, "askAgain")
    /\ \/ \E said \in BOOLEAN :
            /\ IsLoaded(c, said) /\ Collect(c, TRUE)
            /\ To(c, IF said THEN "undo" ELSE "restoreSettings")
       \/ Collect(c, FALSE) /\ To(c, "restoreSettings") /\ UNCHANGED ghostVars
    /\ UNCHANGED <<diskVars, loaded, memoVars, commands>>

StopNew(c) ==
    /\ At(c, "undo")
    /\ \E ok \in BOOLEAN : Bootout(ok) /\ Collect(c, ok)
    /\ To(c, "restoreSettings")
    /\ UNCHANGED <<diskVars, memoVars, commands, ghostVars>>

RestoreSettings(c) ==
    /\ At(c, "restoreSettings")
    /\ \/ settings' = prevSettings[c] /\ Collect(c, TRUE)
       \/ UNCHANGED settings /\ Collect(c, FALSE)
    /\ To(c, "restoreAgent")
    /\ UNCHANGED <<agent, loaded, memoVars, commands, ghostVars>>

Undone(c) == IF problem'[c] THEN "rollbackFailed" ELSE "failed"

\* Slip: a failure to restore the agent goes unreported.
RestoreAgentQuietly(c) ==
    /\ At(c, "restoreAgent")
    /\ agent' \in {agent, prevAgent[c]} /\ Collect(c, TRUE)
    /\ IF wasLoaded[c] THEN To(c, "reload") ELSE End(c, Undone(c))
    /\ UNCHANGED <<settings, loaded, memoVars, commands, ghostVars>>

RestoreAgent(c) ==
    /\ At(c, "restoreAgent")
    /\ \/ agent' = prevAgent[c] /\ Collect(c, TRUE)
       \/ UNCHANGED agent /\ Collect(c, FALSE)
    /\ IF wasLoaded[c] THEN To(c, "reload") ELSE End(c, Undone(c))
    /\ UNCHANGED <<settings, loaded, memoVars, commands, ghostVars>>

Reload(c) ==
    /\ At(c, "reload")
    /\ \E ok \in BOOLEAN : Bootstrap(ok) /\ Collect(c, ok)
    /\ End(c, Undone(c))
    /\ UNCHANGED <<diskVars, memoVars, commands, ghostVars>>

----------------------------------------------------------------------------
(***************************************************************************)
(* uninstall, and what can happen to any command.                          *)
(***************************************************************************)

AskUninstall(c) ==
    /\ At(c, "askUninstall")
    /\ \E said \in BOOLEAN :
        /\ IsLoaded(c, said)
        /\ To(c, IF said THEN "bootoutUninstall" ELSE "removeAgent")
    /\ UNCHANGED <<diskVars, loaded, memoVars, problem, commands>>

StopInstalled(c) ==
    /\ At(c, "bootoutUninstall")
    /\ \E ok \in BOOLEAN :
        /\ Bootout(ok)
        /\ IF ok THEN To(c, "removeAgent") ELSE End(c, "failed")
    /\ UNCHANGED <<diskVars, memoVars, problem, commands, ghostVars>>

RemoveAgent(c) ==
    /\ At(c, "removeAgent")
    /\ agent' = None
    /\ To(c, "removeSettings")
    /\ UNCHANGED <<settings, loaded, memoVars, problem, commands, ghostVars>>

RemoveSettings(c) ==
    /\ At(c, "removeSettings")
    /\ settings' = None
    /\ End(c, "ok")
    /\ UNCHANGED <<agent, loaded, memoVars, problem, commands, ghostVars>>

\* Reading, asking and removing may fail, and the preflight may refuse: outside the
\* transaction a failure just ends the command.
Fail(c) ==
    /\ pc[c] \in {"preflight", "readAgent", "readSettings", "ask", "askUninstall",
                  "removeAgent", "removeSettings"}
    /\ End(c, "failed")
    /\ UNCHANGED <<diskVars, loaded, memoVars, problem, commands, ghostVars>>

Kill(c) ==
    /\ pc[c] # "idle"
    /\ End(c, "killed")
    /\ UNCHANGED <<diskVars, loaded, memoVars, problem, commands, ghostVars>>

Finished ==
    /\ commands = MaxCommands
    /\ \A c \in Clients : At(c, "idle")
    /\ UNCHANGED vars

Proceed(c) ==
    \/ Preflight(c) \/ ReadAgent(c) \/ ReadSettings(c) \/ AskLoaded(c) \/ StopOld(c)
    \/ WriteSettings(c) \/ WriteAgent(c) \/ StartNew(c)
    \/ AskAgain(c) \/ StopNew(c) \/ RestoreSettings(c) \/ RestoreAgent(c) \/ Reload(c)
    \/ AskUninstall(c) \/ StopInstalled(c) \/ RemoveAgent(c) \/ RemoveSettings(c)

Next ==
    \/ \E c \in Clients :
        \/ Install(c) \/ (\E new \in Schedules : Edit(c, new)) \/ Uninstall(c)
        \/ Proceed(c) \/ Fail(c) \/ Kill(c)
    \/ Finished

Spec == Init /\ [][Next]_vars

\* launchctl answers or is killed at its timeout, so a command that has begun goes on.
FairSpec == Spec /\ \A c \in Clients : WF_vars(Proceed(c))

----------------------------------------------------------------------------
(***************************************************************************)
(* Properties.  Commands that overlap take each other's halves for the     *)
(* previous schedule: what a command promises it promises when alone.      *)
(***************************************************************************)

\* Every variable has its type, and a client stops or reloads only a service it found.
TypeOK ==
    /\ settings \in Slots /\ agent \in Slots /\ loaded \in Slots
    /\ pc \in [Clients -> Steps]
    /\ kind \in [Clients -> Kinds]
    /\ want \in [Clients -> Schedules]
    /\ prevSettings \in [Clients -> Slots] /\ prevAgent \in [Clients -> Slots]
    /\ wasLoaded \in [Clients -> BOOLEAN]
    /\ \A c \in Clients : pc[c] \in {"bootout", "reload"} => wasLoaded[c]
    /\ problem \in [Clients -> BOOLEAN]
    /\ result \in [Clients -> Results]
    /\ commands \in 0..MaxCommands
    /\ before \in [Clients -> [settings : Slots, agent : Slots, loaded : Slots]]
    /\ alone \in [Clients -> BOOLEAN] /\ misread \in [Clients -> BOOLEAN]
    /\ approved \subseteq Schedules

\* Neither file and no loaded service ever holds a prune schedule over degraded
\* repositories that nobody acknowledged, whatever is rolled back, killed or overlaps.
OnlyApproved == {settings, agent, loaded} \subseteq approved \cup {None}

Ends(c, r) == alone[c] /\ pc[c] # "idle" /\ pc'[c] = "idle" /\ result'[c] = r

\* An installation or edit that reports success has done all of it, even when launchd was
\* misread: both files and launchd hold the new schedule.  An uninstallation that does has
\* removed both files, and has stopped the service if it had reason to ask launchd for it (the
\* LaunchAgent file was there) and launchd did not deny a loaded one.
SuccessIsWhole ==
    [][\A c \in Clients : Ends(c, "ok") =>
        IF kind[c] = "uninstall"
        THEN /\ settings' = None /\ agent' = None
             /\ before[c].agent # None /\ ~misread[c] => loaded' = None
        ELSE {settings', agent', loaded'} = {want[c]}]_vars

\* README, "a failed reload restores both previous files [...] or reports any rollback
\* failure explicitly": a failure reported without one has left both files as they were.
FilesRestored ==
    [][\A c \in Clients : Ends(c, "failed") /\ kind[c] # "uninstall" =>
        settings' = before[c].settings /\ agent' = before[c].agent]_vars

\* README, the same sentence on "the prior loaded service".
ServiceRestored ==
    [][\A c \in Clients : Ends(c, "failed") /\ kind[c] # "uninstall" =>
        (loaded' = None <=> before[c].loaded = None)]_vars
=============================================================================
