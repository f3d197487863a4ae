--------------------------- MODULE ScheduleProofs ---------------------------
(***************************************************************************)
(* Theorems about Schedule, for any number of clients, commands and        *)
(* schedules.                                                              *)
(***************************************************************************)
EXTENDS Schedule, TLAPS

Preparing == {"preflight", "readAgent", "readSettings", "ask", "bootout", "writeSettings"}
Transaction == {"readAgent", "readSettings", "ask", "bootout", "writeSettings", "writeAgent",
                "bootstrap", "askAgain", "undo", "restoreSettings", "restoreAgent", "reload"}
Undoing == {"askAgain", "undo", "restoreSettings", "restoreAgent", "reload"}
Uninstalling == {"askUninstall", "bootoutUninstall", "removeAgent", "removeSettings"}

\* What a client may still write was approved before.
Approved ==
    /\ OnlyApproved
    /\ \A c \in Clients :
        /\ {prevSettings[c], prevAgent[c]} \subseteq approved \cup {None}
        /\ pc[c] \in Transaction => want[c] \in approved

\* Only an uninstallation is at the steps of one.
RightSteps ==
    \A c \in Clients : pc[c] # "idle" => (kind[c] = "uninstall" <=> pc[c] \in Uninstalling)

\* What an update nobody overlaps has done and remembers at each step.
UpdateAt(c) ==
    /\ pc[c] \in Preparing => settings = before[c].settings /\ agent = before[c].agent
    /\ pc[c] \in Transaction \ {"readAgent"} => prevAgent[c] = before[c].agent
    /\ pc[c] \in Transaction \ {"readAgent", "readSettings"} =>
            prevSettings[c] = before[c].settings
    /\ pc[c] \in {"writeAgent", "bootstrap"} => settings = want[c]
    /\ pc[c] = "bootstrap" => agent = want[c]
    /\ pc[c] \in {"restoreAgent", "reload"} => problem[c] \/ settings = before[c].settings
    /\ pc[c] = "reload" => problem[c] \/ agent = before[c].agent

\* The same for an uninstallation.
UninstallAt(c) ==
    /\ pc[c] \in {"removeAgent", "removeSettings"} =>
            (before[c].agent # None /\ ~misread[c] => loaded = None)
    /\ pc[c] = "removeSettings" => agent = None

Undisturbed ==
    \A c \in Clients : alone[c] /\ pc[c] # "idle" =>
        /\ \A d \in Clients \ {c} : pc[d] = "idle"
        /\ UpdateAt(c) /\ UninstallAt(c)

ScheduleInv == TypeOK /\ Approved /\ RightSteps /\ Undisturbed

USE DEF Steps, Kinds, Results, At, To, End, diskVars, memoVars, ghostVars,
        Preparing, Transaction, Uninstalling

\* The invariant holds before the first command.
LEMMA InitSchedule == Init => ScheduleInv
<1>. SUFFICES ASSUME Init PROVE ScheduleInv
    OBVIOUS
<1>1. TypeOK
    BY ScheduleAssumption DEF Init, TypeOK, Slots, Installed
<1>2. Approved /\ RightSteps /\ Undisturbed
    BY DEF Init, Approved, OnlyApproved, RightSteps, Undisturbed
<1>. QED
    BY <1>1, <1>2 DEF ScheduleInv

\* A client at work does not disturb the others it overlaps, and overlaps nobody who is alone.
LEMMA Elsewhere ==
    ASSUME ScheduleInv, NEW c \in Clients, pc[c] # "idle",
           pc' \in [Clients -> Steps],
           \A d \in Clients \ {c} : pc'[d] = pc[d],
           UNCHANGED <<kind, alone, before>>,
           pc'[c] # "idle" => (kind[c] = "uninstall" <=> pc'[c] \in Uninstalling),
           alone[c] /\ pc'[c] # "idle" => (UpdateAt(c) /\ UninstallAt(c))'
    PROVE  RightSteps' /\ Undisturbed'
<1>1. RightSteps'
    BY DEF ScheduleInv, RightSteps
<1>2. ASSUME NEW d \in Clients, alone[d], pc'[d] # "idle"
      PROVE  /\ \A e \in Clients \ {d} : pc'[e] = "idle"
             /\ (UpdateAt(d) /\ UninstallAt(d))'
    <2>1. d = c
        BY <1>2 DEF ScheduleInv, Undisturbed
    <2>. QED
        BY <1>2, <2>1 DEF ScheduleInv, Undisturbed
<1>. QED
    BY <1>1, <1>2 DEF Undisturbed

\* A command begins: what it finds is what it promises to restore, and those it overlaps are
\* no longer alone.
LEMMA BeginStep ==
    ASSUME ScheduleInv, NEW c \in Clients, NEW k \in Kinds,
           NEW step \in {"preflight", "askUninstall", "removeSettings"},
           k = "uninstall" <=> step # "preflight",
           step = "removeSettings" => agent = None,
           Begin(c, k, step), want' \in [Clients -> Schedules],
           \A d \in Clients \ {c} : want'[d] = want[d]
    PROVE  ScheduleInv'
<1>1. TypeOK'
    <2>1. before' \in [Clients -> [settings : Slots, agent : Slots, loaded : Slots]]
        <3>1. Installed \in [settings : Slots, agent : Slots, loaded : Slots]
            BY DEF Installed, ScheduleInv, TypeOK
        <3>2. before' = [before EXCEPT ![c] = Installed]
            BY DEF Begin
        <3>. QED
            BY <3>1, <3>2 DEF ScheduleInv, TypeOK
    <2>2. commands' \in 0..MaxCommands
        BY ScheduleAssumption DEF Begin, ScheduleInv, TypeOK
    <2>5. alone' \in [Clients -> BOOLEAN]
        <3>. DEFINE still(d) == IF d = c THEN \A e \in Clients \ {c} : At(e, "idle")
                                ELSE alone[d] /\ At(d, "idle")
        <3>1. \A d \in Clients : still(d) \in BOOLEAN
            BY Zenon
        <3>2. alone' = [d \in Clients |-> still(d)]
            BY DEF Begin
        <3>. HIDE DEF still
        <3>. QED
            BY <3>1, <3>2
    <2>3. /\ pc' \in [Clients -> Steps] /\ kind' \in [Clients -> Kinds]
          /\ problem' \in [Clients -> BOOLEAN]
        BY DEF Begin, ScheduleInv, TypeOK
    <2>4. \A d \in Clients : pc'[d] \in {"bootout", "reload"} => wasLoaded'[d]
        BY DEF Begin, ScheduleInv, TypeOK
    <2>. QED
        BY <2>1, <2>2, <2>3, <2>4, <2>5 DEF Begin, ScheduleInv, TypeOK
<1>2. Approved'
    BY DEF Begin, ScheduleInv, TypeOK, Approved, OnlyApproved
<1>3. RightSteps'
    BY DEF Begin, ScheduleInv, TypeOK, RightSteps
<1>4. Undisturbed'
    <2>1. ASSUME NEW d \in Clients, alone'[d], pc'[d] # "idle"
          PROVE  d = c
        BY <2>1 DEF Begin, ScheduleInv, TypeOK
    <2>2. alone'[c] => \A e \in Clients \ {c} : pc'[e] = "idle"
        BY DEF Begin, ScheduleInv, TypeOK
    <2>3. (UpdateAt(c) /\ UninstallAt(c))'
        BY DEF Begin, ScheduleInv, TypeOK, Installed, UpdateAt, UninstallAt
    <2>. QED
        BY <2>1, <2>2, <2>3 DEF Undisturbed
<1>. QED
    BY <1>1, <1>2, <1>3, <1>4 DEF ScheduleInv

\* Collecting the failures of the rollback keeps them Boolean.
LEMMA Collects ==
    ASSUME problem \in [Clients -> BOOLEAN], NEW c \in Clients, NEW ok \in BOOLEAN,
           Collect(c, ok)
    PROVE  problem' \in [Clients -> BOOLEAN]
BY DEF Collect

\* Every step of every client keeps the invariant.
LEMMA StepSchedule == ScheduleInv /\ [Next]_vars => ScheduleInv'
<1>. SUFFICES ASSUME ScheduleInv, [Next]_vars PROVE ScheduleInv'
    OBVIOUS
<1>1. ASSUME NEW c \in Clients, Install(c) PROVE ScheduleInv'
    <2>1. want' \in [Clients -> Schedules] /\ \A d \in Clients \ {c} : want'[d] = want[d]
        BY <1>1, ScheduleAssumption DEF Install, ScheduleInv, TypeOK, Slots
    <2>. QED
        BY <1>1, <2>1, BeginStep DEF Install
<1>2. ASSUME NEW c \in Clients, NEW new \in Schedules, Edit(c, new) PROVE ScheduleInv'
    <2>1. want' \in [Clients -> Schedules] /\ \A d \in Clients \ {c} : want'[d] = want[d]
        BY <1>2 DEF Edit, ScheduleInv, TypeOK
    <2>. QED
        BY <1>2, <2>1, BeginStep DEF Edit
<1>3. ASSUME NEW c \in Clients, Uninstall(c) PROVE ScheduleInv'
    <2>1. want' \in [Clients -> Schedules] /\ \A d \in Clients \ {c} : want'[d] = want[d]
        BY <1>3 DEF Uninstall, ScheduleInv, TypeOK
    <2>2. CASE agent # None
        BY <1>3, <2>1, <2>2, BeginStep DEF Uninstall
    <2>3. CASE agent = None
        BY <1>3, <2>1, <2>3, BeginStep DEF Uninstall
    <2>. QED
        BY <2>2, <2>3
<1>4. ASSUME NEW c \in Clients, Preflight(c) PROVE ScheduleInv'
    <2>1. TypeOK'
        <3>1. approved' \subseteq Schedules
            BY <1>4 DEF Preflight, ScheduleInv, TypeOK
        <3>2. /\ pc' \in [Clients -> Steps] /\ result' \in [Clients -> Results]
              /\ \A d \in Clients : pc'[d] \in {"bootout", "reload"} => wasLoaded[d]
            BY <1>4 DEF Preflight, ScheduleInv, TypeOK
        <3>. QED
            BY <1>4, <3>1, <3>2 DEF Preflight, ScheduleInv, TypeOK
    <2>2. Approved'
        BY <1>4 DEF Preflight, ScheduleInv, TypeOK, Approved, OnlyApproved
    <2>3. /\ pc'[c] # "idle" => (kind[c] = "uninstall" <=> pc'[c] \in Uninstalling)
          /\ alone[c] /\ pc'[c] # "idle" => (UpdateAt(c) /\ UninstallAt(c))'
        BY <1>4 DEF Preflight, ScheduleInv, TypeOK, RightSteps,
            Undisturbed, UpdateAt, UninstallAt
    <2>. QED
        BY <1>4, <2>1, <2>2, <2>3, Elsewhere DEF Preflight, ScheduleInv, TypeOK
<1>5. ASSUME NEW c \in Clients, ReadAgent(c) PROVE ScheduleInv'
    <2>1. TypeOK'
        BY <1>5 DEF ReadAgent, ScheduleInv, TypeOK, Slots
    <2>2. Approved'
        BY <1>5 DEF ReadAgent, ScheduleInv, TypeOK, Approved, OnlyApproved
    <2>3. /\ pc'[c] # "idle" => (kind[c] = "uninstall" <=> pc'[c] \in Uninstalling)
          /\ alone[c] /\ pc'[c] # "idle" => (UpdateAt(c) /\ UninstallAt(c))'
        BY <1>5 DEF ReadAgent, ScheduleInv, TypeOK, RightSteps,
            Undisturbed, UpdateAt, UninstallAt
    <2>. QED
        BY <1>5, <2>1, <2>2, <2>3, Elsewhere DEF ReadAgent, ScheduleInv, TypeOK
<1>6. ASSUME NEW c \in Clients, ReadSettings(c) PROVE ScheduleInv'
    <2>1. TypeOK'
        BY <1>6 DEF ReadSettings, ScheduleInv, TypeOK, Slots
    <2>2. Approved'
        BY <1>6 DEF ReadSettings, ScheduleInv, TypeOK, Approved, OnlyApproved
    <2>3. /\ pc'[c] # "idle" => (kind[c] = "uninstall" <=> pc'[c] \in Uninstalling)
          /\ alone[c] /\ pc'[c] # "idle" => (UpdateAt(c) /\ UninstallAt(c))'
        BY <1>6 DEF ReadSettings, ScheduleInv, TypeOK, RightSteps,
            Undisturbed, UpdateAt, UninstallAt
    <2>. QED
        BY <1>6, <2>1, <2>2, <2>3, Elsewhere DEF ReadSettings, ScheduleInv, TypeOK
<1>7. ASSUME NEW c \in Clients, AskLoaded(c) PROVE ScheduleInv'
    <2>1. TypeOK'
        BY <1>7 DEF AskLoaded, IsLoaded, ScheduleInv, TypeOK, Slots
    <2>2. Approved'
        BY <1>7 DEF AskLoaded, IsLoaded, ScheduleInv, TypeOK, Approved, OnlyApproved
    <2>3. /\ pc'[c] # "idle" => (kind[c] = "uninstall" <=> pc'[c] \in Uninstalling)
          /\ alone[c] /\ pc'[c] # "idle" => (UpdateAt(c) /\ UninstallAt(c))'
        BY <1>7 DEF AskLoaded, IsLoaded, ScheduleInv, TypeOK, RightSteps,
            Undisturbed, UpdateAt, UninstallAt
    <2>. QED
        BY <1>7, <2>1, <2>2, <2>3, Elsewhere DEF AskLoaded, IsLoaded, ScheduleInv, TypeOK
<1>8. ASSUME NEW c \in Clients, StopOld(c) PROVE ScheduleInv'
    <2>1. TypeOK'
        BY <1>8 DEF StopOld, Bootout, ScheduleInv, TypeOK, Slots
    <2>2. Approved'
        BY <1>8 DEF StopOld, Bootout, ScheduleInv, TypeOK, Approved, OnlyApproved
    <2>3. /\ pc'[c] # "idle" => (kind[c] = "uninstall" <=> pc'[c] \in Uninstalling)
          /\ alone[c] /\ pc'[c] # "idle" => (UpdateAt(c) /\ UninstallAt(c))'
        BY <1>8 DEF StopOld, Bootout, ScheduleInv, TypeOK, RightSteps,
            Undisturbed, UpdateAt, UninstallAt
    <2>. QED
        BY <1>8, <2>1, <2>2, <2>3, Elsewhere DEF StopOld, ScheduleInv, TypeOK
<1>9. ASSUME NEW c \in Clients, WriteSettings(c) PROVE ScheduleInv'
    <2>1. TypeOK'
        BY <1>9 DEF WriteSettings, ScheduleInv, TypeOK, Slots
    <2>2. Approved'
        BY <1>9 DEF WriteSettings, ScheduleInv, TypeOK, Approved, OnlyApproved
    <2>3. /\ pc'[c] # "idle" => (kind[c] = "uninstall" <=> pc'[c] \in Uninstalling)
          /\ alone[c] /\ pc'[c] # "idle" => (UpdateAt(c) /\ UninstallAt(c))'
        BY <1>9 DEF WriteSettings, ScheduleInv, TypeOK, RightSteps,
            Undisturbed, UpdateAt, UninstallAt
    <2>. QED
        BY <1>9, <2>1, <2>2, <2>3, Elsewhere DEF WriteSettings, ScheduleInv, TypeOK
<1>10. ASSUME NEW c \in Clients, WriteAgent(c) PROVE ScheduleInv'
    <2>1. TypeOK'
        BY <1>10 DEF WriteAgent, ScheduleInv, TypeOK, Slots
    <2>2. Approved'
        BY <1>10 DEF WriteAgent, ScheduleInv, TypeOK, Approved, OnlyApproved
    <2>3. /\ pc'[c] # "idle" => (kind[c] = "uninstall" <=> pc'[c] \in Uninstalling)
          /\ alone[c] /\ pc'[c] # "idle" => (UpdateAt(c) /\ UninstallAt(c))'
        BY <1>10 DEF WriteAgent, ScheduleInv, TypeOK, RightSteps,
            Undisturbed, UpdateAt, UninstallAt
    <2>. QED
        BY <1>10, <2>1, <2>2, <2>3, Elsewhere DEF WriteAgent, ScheduleInv, TypeOK
<1>11. ASSUME NEW c \in Clients, StartNew(c) PROVE ScheduleInv'
    <2>1. TypeOK'
        BY <1>11 DEF StartNew, Bootstrap, ScheduleInv, TypeOK, Slots
    <2>2. Approved'
        BY <1>11 DEF StartNew, Bootstrap, ScheduleInv, TypeOK, Approved, OnlyApproved
    <2>3. /\ pc'[c] # "idle" => (kind[c] = "uninstall" <=> pc'[c] \in Uninstalling)
          /\ alone[c] /\ pc'[c] # "idle" => (UpdateAt(c) /\ UninstallAt(c))'
        BY <1>11 DEF StartNew, Bootstrap, ScheduleInv, TypeOK, RightSteps,
            Undisturbed, UpdateAt, UninstallAt
    <2>. QED
        BY <1>11, <2>1, <2>2, <2>3, Elsewhere DEF StartNew, ScheduleInv, TypeOK
<1>12. ASSUME NEW c \in Clients, AskAgain(c) PROVE ScheduleInv'
    <2>1. TypeOK'
        BY <1>12 DEF AskAgain, IsLoaded, Collect, ScheduleInv, TypeOK, Slots
    <2>2. Approved'
        BY <1>12 DEF AskAgain, IsLoaded, Collect, ScheduleInv, TypeOK, Approved, OnlyApproved
    <2>3. /\ pc'[c] # "idle" => (kind[c] = "uninstall" <=> pc'[c] \in Uninstalling)
          /\ alone[c] /\ pc'[c] # "idle" => (UpdateAt(c) /\ UninstallAt(c))'
        BY <1>12 DEF AskAgain, IsLoaded, Collect, ScheduleInv, TypeOK, RightSteps,
            Undisturbed, UpdateAt, UninstallAt
    <2>. QED
        BY <1>12, <2>1, <2>2, <2>3, Elsewhere DEF AskAgain, IsLoaded, ScheduleInv, TypeOK
<1>13. ASSUME NEW c \in Clients, StopNew(c) PROVE ScheduleInv'
    <2>1. TypeOK'
        BY <1>13 DEF StopNew, Bootout, Collect, ScheduleInv, TypeOK, Slots
    <2>2. Approved'
        BY <1>13 DEF StopNew, Bootout, Collect, ScheduleInv, TypeOK, Approved, OnlyApproved
    <2>3. /\ pc'[c] # "idle" => (kind[c] = "uninstall" <=> pc'[c] \in Uninstalling)
          /\ alone[c] /\ pc'[c] # "idle" => (UpdateAt(c) /\ UninstallAt(c))'
        BY <1>13 DEF StopNew, Bootout, Collect, ScheduleInv, TypeOK, RightSteps,
            Undisturbed, UpdateAt, UninstallAt
    <2>. QED
        BY <1>13, <2>1, <2>2, <2>3, Elsewhere DEF StopNew, ScheduleInv, TypeOK
<1>14. ASSUME NEW c \in Clients, RestoreSettings(c) PROVE ScheduleInv'
    <2>1. TypeOK'
        BY <1>14 DEF RestoreSettings, Collect, ScheduleInv, TypeOK, Slots
    <2>2. Approved'
        BY <1>14 DEF RestoreSettings, Collect, ScheduleInv, TypeOK, Approved, OnlyApproved
    <2>3. /\ pc'[c] # "idle" => (kind[c] = "uninstall" <=> pc'[c] \in Uninstalling)
          /\ alone[c] /\ pc'[c] # "idle" => (UpdateAt(c) /\ UninstallAt(c))'
        BY <1>14 DEF RestoreSettings, Collect, ScheduleInv, TypeOK, RightSteps,
            Undisturbed, UpdateAt, UninstallAt
    <2>. QED
        BY <1>14, <2>1, <2>2, <2>3, Elsewhere DEF RestoreSettings, ScheduleInv, TypeOK
<1>15. ASSUME NEW c \in Clients, RestoreAgent(c) PROVE ScheduleInv'
    <2>1. TypeOK'
        <3>1. /\ pc' \in [Clients -> Steps] /\ result' \in [Clients -> Results]
              /\ \A d \in Clients : pc'[d] \in {"bootout", "reload"} => wasLoaded[d]
            BY <1>15 DEF RestoreAgent, Undone, ScheduleInv, TypeOK
        <3>2. agent' = agent \/ agent' = prevAgent[c]
            BY <1>15, Zenon DEF RestoreAgent
        <3>3. problem' \in [Clients -> BOOLEAN]
            BY <1>15, Collects DEF RestoreAgent, ScheduleInv, TypeOK
        <3>. QED
            BY <1>15, <3>1, <3>2, <3>3 DEF RestoreAgent, ScheduleInv, TypeOK
    <2>2. Approved'
        BY <1>15 DEF RestoreAgent, Collect, Undone, ScheduleInv, TypeOK, Approved, OnlyApproved
    <2>3. /\ pc'[c] # "idle" => (kind[c] = "uninstall" <=> pc'[c] \in Uninstalling)
          /\ alone[c] /\ pc'[c] # "idle" => (UpdateAt(c) /\ UninstallAt(c))'
        BY <1>15 DEF RestoreAgent, Collect, Undone, ScheduleInv, TypeOK, RightSteps,
            Undisturbed, UpdateAt, UninstallAt
    <2>. QED
        BY <1>15, <2>1, <2>2, <2>3, Elsewhere DEF RestoreAgent, ScheduleInv, TypeOK
<1>16. ASSUME NEW c \in Clients, Reload(c) PROVE ScheduleInv'
    <2>1. TypeOK'
        BY <1>16 DEF Reload, Bootstrap, Collect, Undone, ScheduleInv, TypeOK, Slots
    <2>2. Approved'
        BY <1>16 DEF Reload, Bootstrap, Collect, Undone, ScheduleInv, TypeOK, Approved, OnlyApproved
    <2>3. /\ pc'[c] # "idle" => (kind[c] = "uninstall" <=> pc'[c] \in Uninstalling)
          /\ alone[c] /\ pc'[c] # "idle" => (UpdateAt(c) /\ UninstallAt(c))'
        BY <1>16 DEF Reload, Bootstrap, Collect, Undone, ScheduleInv, TypeOK, RightSteps,
            Undisturbed, UpdateAt, UninstallAt
    <2>. QED
        BY <1>16, <2>1, <2>2, <2>3, Elsewhere DEF Reload, ScheduleInv, TypeOK
<1>17. ASSUME NEW c \in Clients, AskUninstall(c) PROVE ScheduleInv'
    <2>1. TypeOK'
        BY <1>17 DEF AskUninstall, IsLoaded, ScheduleInv, TypeOK, Slots
    <2>2. Approved'
        BY <1>17 DEF AskUninstall, IsLoaded, ScheduleInv, TypeOK, Approved, OnlyApproved
    <2>3. /\ pc'[c] # "idle" => (kind[c] = "uninstall" <=> pc'[c] \in Uninstalling)
          /\ alone[c] /\ pc'[c] # "idle" => (UpdateAt(c) /\ UninstallAt(c))'
        BY <1>17 DEF AskUninstall, IsLoaded, ScheduleInv, TypeOK, RightSteps,
            Undisturbed, UpdateAt, UninstallAt
    <2>. QED
        BY <1>17, <2>1, <2>2, <2>3, Elsewhere DEF AskUninstall, IsLoaded, ScheduleInv, TypeOK
<1>18. ASSUME NEW c \in Clients, StopInstalled(c) PROVE ScheduleInv'
    <2>1. TypeOK'
        BY <1>18 DEF StopInstalled, Bootout, ScheduleInv, TypeOK, Slots
    <2>2. Approved'
        BY <1>18 DEF StopInstalled, Bootout, ScheduleInv, TypeOK, Approved, OnlyApproved
    <2>3. /\ pc'[c] # "idle" => (kind[c] = "uninstall" <=> pc'[c] \in Uninstalling)
          /\ alone[c] /\ pc'[c] # "idle" => (UpdateAt(c) /\ UninstallAt(c))'
        BY <1>18 DEF StopInstalled, Bootout, ScheduleInv, TypeOK, RightSteps,
            Undisturbed, UpdateAt, UninstallAt
    <2>. QED
        BY <1>18, <2>1, <2>2, <2>3, Elsewhere DEF StopInstalled, ScheduleInv, TypeOK
<1>19. ASSUME NEW c \in Clients, RemoveAgent(c) PROVE ScheduleInv'
    <2>1. TypeOK'
        BY <1>19 DEF RemoveAgent, ScheduleInv, TypeOK, Slots
    <2>2. Approved'
        BY <1>19 DEF RemoveAgent, ScheduleInv, TypeOK, Approved, OnlyApproved
    <2>3. /\ pc'[c] # "idle" => (kind[c] = "uninstall" <=> pc'[c] \in Uninstalling)
          /\ alone[c] /\ pc'[c] # "idle" => (UpdateAt(c) /\ UninstallAt(c))'
        BY <1>19 DEF RemoveAgent, ScheduleInv, TypeOK, RightSteps,
            Undisturbed, UpdateAt, UninstallAt
    <2>. QED
        BY <1>19, <2>1, <2>2, <2>3, Elsewhere DEF RemoveAgent, ScheduleInv, TypeOK
<1>20. ASSUME NEW c \in Clients, RemoveSettings(c) PROVE ScheduleInv'
    <2>1. TypeOK'
        BY <1>20 DEF RemoveSettings, ScheduleInv, TypeOK, Slots
    <2>2. Approved'
        BY <1>20 DEF RemoveSettings, ScheduleInv, TypeOK, Approved, OnlyApproved
    <2>3. /\ pc'[c] # "idle" => (kind[c] = "uninstall" <=> pc'[c] \in Uninstalling)
          /\ alone[c] /\ pc'[c] # "idle" => (UpdateAt(c) /\ UninstallAt(c))'
        BY <1>20 DEF RemoveSettings, ScheduleInv, TypeOK, RightSteps,
            Undisturbed, UpdateAt, UninstallAt
    <2>. QED
        BY <1>20, <2>1, <2>2, <2>3, Elsewhere DEF RemoveSettings, ScheduleInv, TypeOK
<1>21. ASSUME NEW c \in Clients, Fail(c) PROVE ScheduleInv'
    <2>1. TypeOK'
        BY <1>21 DEF Fail, ScheduleInv, TypeOK, Slots
    <2>2. Approved'
        BY <1>21 DEF Fail, ScheduleInv, TypeOK, Approved, OnlyApproved
    <2>3. /\ pc'[c] # "idle" => (kind[c] = "uninstall" <=> pc'[c] \in Uninstalling)
          /\ alone[c] /\ pc'[c] # "idle" => (UpdateAt(c) /\ UninstallAt(c))'
        BY <1>21 DEF Fail, ScheduleInv, TypeOK, RightSteps,
            Undisturbed, UpdateAt, UninstallAt
    <2>. QED
        BY <1>21, <2>1, <2>2, <2>3, Elsewhere DEF Fail, ScheduleInv, TypeOK
<1>22. ASSUME NEW c \in Clients, Kill(c) PROVE ScheduleInv'
    <2>1. TypeOK'
        BY <1>22 DEF Kill, ScheduleInv, TypeOK, Slots
    <2>2. Approved'
        BY <1>22 DEF Kill, ScheduleInv, TypeOK, Approved, OnlyApproved
    <2>3. /\ pc'[c] # "idle" => (kind[c] = "uninstall" <=> pc'[c] \in Uninstalling)
          /\ alone[c] /\ pc'[c] # "idle" => (UpdateAt(c) /\ UninstallAt(c))'
        BY <1>22 DEF Kill, ScheduleInv, TypeOK, RightSteps,
            Undisturbed, UpdateAt, UninstallAt
    <2>. QED
        BY <1>22, <2>1, <2>2, <2>3, Elsewhere DEF Kill, ScheduleInv, TypeOK
<1>23. ASSUME UNCHANGED vars PROVE ScheduleInv'
    BY <1>23 DEF vars, ScheduleInv, TypeOK, Approved, OnlyApproved, RightSteps, Undisturbed,
        UpdateAt, UninstallAt
<1>. QED
    BY <1>1, <1>2, <1>3, <1>4, <1>5, <1>6, <1>7, <1>8, <1>9, <1>10, <1>11,
        <1>12, <1>13, <1>14, <1>15, <1>16, <1>17, <1>18, <1>19, <1>20, <1>21, <1>22, <1>23
    DEF Next, Proceed, Finished
\* What each client has done, remembers and may still write holds at every moment of the
\* schedule commands.
THEOREM ScheduleInvariant == Spec => []ScheduleInv
<1>. QED
    BY InitSchedule, StepSchedule, PTL DEF Spec

\* Every reachable state of the schedule commands has its types, and a client stops or reloads
\* only a service it has found loaded.
THEOREM TypeCorrect == Spec => []TypeOK
<1>1. ScheduleInv => TypeOK
    BY DEF ScheduleInv
<1>. QED
    BY <1>1, ScheduleInvariant, PTL

\* However many commands overlap, fail, roll back or are killed, no file and no loaded service
\* holds a prune schedule over degraded repositories that nobody acknowledged.
THEOREM OnlyApprovedInstalled == Spec => []OnlyApproved
<1>1. ScheduleInv => OnlyApproved
    BY DEF ScheduleInv, Approved
<1>. QED
    BY <1>1, ScheduleInvariant, PTL

\* A command that ends takes a step of the client's own, one of these.
LEMMA HowItEnds ==
    ASSUME ScheduleInv, Next, NEW c \in Clients, pc[c] # "idle", pc'[c] = "idle",
           result'[c] \in {"ok", "failed"}
    PROVE  Preflight(c) \/ StopOld(c) \/ StartNew(c) \/ RestoreAgent(c) \/ Reload(c)
           \/ StopInstalled(c) \/ RemoveSettings(c) \/ Fail(c)
<1>. USE DEF ScheduleInv, TypeOK
<1>1. ASSUME NEW d \in Clients,
             Install(d) \/ (\E new \in Schedules : Edit(d, new)) \/ Uninstall(d)
      PROVE  FALSE
    BY <1>1 DEF Install, Edit, Uninstall, Begin
<1>2. ASSUME NEW d \in Clients, Proceed(d) \/ Fail(d) \/ Kill(d)
      PROVE  d = c
    BY <1>2 DEF Proceed, Fail, Kill, Preflight, ReadAgent, ReadSettings, AskLoaded, StopOld,
        WriteSettings, WriteAgent, StartNew, AskAgain, StopNew, RestoreSettings, RestoreAgent,
        Reload, AskUninstall, StopInstalled, RemoveAgent, RemoveSettings
<1>3. ~Kill(c)
    BY DEF Kill
<1>4. ~(ReadAgent(c) \/ ReadSettings(c) \/ AskLoaded(c) \/ WriteSettings(c) \/ WriteAgent(c)
        \/ AskAgain(c) \/ StopNew(c) \/ RestoreSettings(c) \/ AskUninstall(c) \/ RemoveAgent(c))
    BY DEF ReadAgent, ReadSettings, AskLoaded, WriteSettings, WriteAgent, AskAgain, StopNew,
        RestoreSettings, AskUninstall, RemoveAgent
<1>. QED
    BY <1>1, <1>2, <1>3, <1>4 DEF Next, Proceed, Finished, vars

\* Success of an installation or edit nobody overlapped means that the files and launchd agree on
\* the new schedule, however often launchd was misread; success of an uninstallation, that both
\* files are gone and a service found by its LaunchAgent file, and not denied by launchd, stopped.
THEOREM SuccessSound == Spec => SuccessIsWhole
<1>. DEFINE Whole ==
    \A c \in Clients : Ends(c, "ok") =>
        IF kind[c] = "uninstall"
        THEN /\ settings' = None /\ agent' = None
             /\ before[c].agent # None /\ ~misread[c] => loaded' = None
        ELSE {settings', agent', loaded'} = {want[c]}
<1>1. ScheduleInv /\ [Next]_vars => [Whole]_vars
    <2>. SUFFICES ASSUME ScheduleInv, Next, NEW c \in Clients, Ends(c, "ok")
                  PROVE  IF kind[c] = "uninstall"
                         THEN /\ settings' = None /\ agent' = None
                              /\ before[c].agent # None /\ ~misread[c] => loaded' = None
                         ELSE {settings', agent', loaded'} = {want[c]}
        OBVIOUS
    <2>1. StartNew(c) \/ RemoveSettings(c)
        BY HowItEnds DEF Ends, ScheduleInv, TypeOK, Preflight, StopOld, RestoreAgent, Reload,
            Undone, StopInstalled, Fail
    <2>2. CASE StartNew(c)
        BY <2>2 DEF Ends, StartNew, Bootstrap, ScheduleInv, TypeOK, RightSteps, Undisturbed, UpdateAt
    <2>3. CASE RemoveSettings(c)
        BY <2>3 DEF Ends, RemoveSettings, ScheduleInv, TypeOK, RightSteps, Undisturbed, UninstallAt
    <2>. QED
        BY <2>1, <2>2, <2>3
<1>. QED
    BY <1>1, ScheduleInvariant, PTL DEF Spec, SuccessIsWhole

\* An installation or edit nobody overlapped that fails without reporting a rollback failure
\* leaves both files as they were.
THEOREM FailureSound == Spec => FilesRestored
<1>. DEFINE Restored ==
    \A c \in Clients : Ends(c, "failed") /\ kind[c] # "uninstall" =>
        settings' = before[c].settings /\ agent' = before[c].agent
<1>1. ScheduleInv /\ [Next]_vars => [Restored]_vars
    <2>. SUFFICES ASSUME ScheduleInv, Next, NEW c \in Clients,
                         Ends(c, "failed"), kind[c] # "uninstall"
                  PROVE  settings' = before[c].settings /\ agent' = before[c].agent
        OBVIOUS
    <2>. USE DEF ScheduleInv, TypeOK, RightSteps, Undisturbed, UpdateAt
    <2>1. Preflight(c) \/ StopOld(c) \/ RestoreAgent(c) \/ Reload(c) \/ Fail(c)
        BY HowItEnds DEF Ends, StartNew, StopInstalled, RemoveSettings
    <2>2. CASE Preflight(c) \/ StopOld(c) \/ Fail(c)
        BY <2>2 DEF Ends, Preflight, StopOld, Fail
    <2>3. CASE RestoreAgent(c)
        BY <2>3 DEF Ends, RestoreAgent, Undone, Collect
    <2>4. CASE Reload(c)
        BY <2>4 DEF Ends, Reload, Undone, Collect
    <2>. QED
        BY <2>1, <2>2, <2>3, <2>4
<1>. QED
    BY <1>1, ScheduleInvariant, PTL DEF Spec, FilesRestored

----------------------------------------------------------------------------
(***************************************************************************)
(* The service.  ServiceRestored is false: a `launchctl bootout` that      *)
(* takes effect and fails ends the command before the transaction has      *)
(* begun, and a `launchctl print` that fails over a loaded service makes   *)
(* the rollback leave or stop what it should not.  There is no other way.  *)
(***************************************************************************)

\* Stopping the old service fails only without effect.
NoHalfStop ==
    [][\A c \in Clients : pc[c] = "bootout" /\ pc'[c] = "idle" => UNCHANGED loaded]_vars

\* `launchctl print` never fails over a loaded service.
NeverMisread == [](\A c \in Clients : ~misread[c])

\* What an update nobody overlaps has made of the service at each step.
ServiceAt(c) ==
    /\ pc[c] \in {"preflight", "readAgent", "readSettings", "ask", "bootout"} =>
            loaded = before[c].loaded
    /\ pc[c] \in Transaction \ {"readAgent", "readSettings", "ask"} =>
            (wasLoaded[c] <=> before[c].loaded # None)
    /\ pc[c] \in {"restoreSettings", "restoreAgent", "reload"} => problem[c] \/ loaded = None

ServiceKept == \A c \in Clients : alone[c] /\ ~misread[c] /\ pc[c] # "idle" => ServiceAt(c)

\* Only the step of the client that is alone matters.
LEMMA ServiceElsewhere ==
    ASSUME ScheduleInv, NEW c \in Clients, pc[c] # "idle",
           \A d \in Clients \ {c} : pc'[d] = pc[d],
           UNCHANGED alone,
           alone[c] /\ ~misread'[c] /\ pc'[c] # "idle" => ServiceAt(c)'
    PROVE  ServiceKept'
<1>. SUFFICES ASSUME NEW d \in Clients, alone[d], pc'[d] # "idle"
              PROVE  d = c
    BY DEF ServiceKept
<1>. QED
    BY DEF ScheduleInv, Undisturbed

\* A command begins with the service as it is.
LEMMA ServiceBegins ==
    ASSUME ScheduleInv, NEW c \in Clients, NEW k,
           NEW step \in {"preflight", "askUninstall", "removeSettings"},
           Begin(c, k, step)
    PROVE  ServiceKept'
<1>1. ASSUME NEW d \in Clients, alone'[d], pc'[d] # "idle"
      PROVE  d = c
    BY <1>1 DEF Begin, ScheduleInv, TypeOK
<1>2. ServiceAt(c)'
    BY DEF Begin, ScheduleInv, TypeOK, Installed, ServiceAt
<1>. QED
    BY <1>1, <1>2 DEF ServiceKept

\* Every step of every client keeps track of the service.
LEMMA StepService == ScheduleInv /\ ServiceKept /\ [Next]_vars => ServiceKept'
<1>. SUFFICES ASSUME ScheduleInv, ServiceKept, [Next]_vars PROVE ServiceKept'
    OBVIOUS
<1>1. ASSUME NEW c \in Clients,
             Install(c) \/ (\E new \in Schedules : Edit(c, new)) \/ Uninstall(c)
      PROVE  ServiceKept'
    BY <1>1, ServiceBegins DEF Install, Edit, Uninstall
<1>2. ASSUME NEW c \in Clients, Proceed(c) \/ Fail(c) \/ Kill(c)
      PROVE  ServiceKept'
    <2>. USE DEF ScheduleInv, TypeOK, ServiceAt
    <2>1. pc[c] # "idle" /\ UNCHANGED alone /\ \A d \in Clients \ {c} : pc'[d] = pc[d]
        BY <1>2 DEF Proceed, Preflight, ReadAgent, ReadSettings, AskLoaded, IsLoaded, StopOld,
            WriteSettings, WriteAgent, StartNew, AskAgain, StopNew, RestoreSettings,
            RestoreAgent, Reload, AskUninstall, StopInstalled, RemoveAgent, RemoveSettings,
            Fail, Kill
    <2>0. misread[c] => misread'[c]
        BY <1>2 DEF Proceed, Preflight, ReadAgent, ReadSettings, AskLoaded, IsLoaded, StopOld,
            WriteSettings, WriteAgent, StartNew, AskAgain, StopNew, RestoreSettings,
            RestoreAgent, Reload, AskUninstall, StopInstalled, RemoveAgent, RemoveSettings,
            Fail, Kill
    <2>. SUFFICES ASSUME alone[c], ~misread'[c], pc'[c] # "idle"
                  PROVE  ServiceAt(c)'
        BY <2>1, ServiceElsewhere
    <2>. ServiceAt(c)
        BY <2>0, <2>1 DEF ServiceKept
    <2>2. CASE Preflight(c) \/ ReadAgent(c) \/ ReadSettings(c)
        BY <2>2 DEF Preflight, ReadAgent, ReadSettings
    <2>3. CASE AskLoaded(c) \/ StopOld(c)
        BY <2>3 DEF AskLoaded, IsLoaded, StopOld
    <2>4. CASE WriteSettings(c) \/ WriteAgent(c) \/ StartNew(c)
        BY <2>4 DEF WriteSettings, WriteAgent, StartNew
    <2>5. CASE AskAgain(c)
        BY <2>5 DEF AskAgain, IsLoaded, Collect
    <2>6. CASE StopNew(c)
        BY <2>6 DEF StopNew, Bootout, Collect
    <2>7. CASE RestoreSettings(c) \/ RestoreAgent(c) \/ Reload(c)
        BY <2>7 DEF RestoreSettings, RestoreAgent, Reload, Collect
    <2>8. CASE AskUninstall(c) \/ StopInstalled(c) \/ RemoveAgent(c) \/ RemoveSettings(c)
        BY <2>8 DEF AskUninstall, IsLoaded, StopInstalled, RemoveAgent, RemoveSettings
    <2>9. CASE Fail(c) \/ Kill(c)
        BY <2>9 DEF Fail, Kill
    <2>. QED
        BY <1>2, <2>2, <2>3, <2>4, <2>5, <2>6, <2>7, <2>8, <2>9 DEF Proceed
<1>3. CASE UNCHANGED vars
    BY <1>3 DEF vars, ServiceKept, ServiceAt
<1>. QED
    BY <1>1, <1>2, <1>3 DEF Next, Finished

\* While a failing `launchctl bootout` has no effect and `launchctl print` does not fail over a
\* loaded service, an installation or edit nobody overlapped that fails without reporting a
\* rollback failure leaves a service loaded exactly if one was.
THEOREM ServiceSound == Spec /\ NoHalfStop /\ NeverMisread => ServiceRestored
<1>. DEFINE NoHalf == \A c \in Clients : pc[c] = "bootout" /\ pc'[c] = "idle" => UNCHANGED loaded
            NoMisread == \A c \in Clients : ~misread[c]
            Restored == \A c \in Clients : Ends(c, "failed") /\ kind[c] # "uninstall" =>
                            (loaded' = None <=> before[c].loaded = None)
<1>1. ScheduleInv /\ ServiceKept /\ NoMisread /\ [Next]_vars /\ [NoHalf]_vars => [Restored]_vars
    <2>. SUFFICES ASSUME ScheduleInv, ServiceKept, NoMisread, Next, NoHalf, NEW c \in Clients,
                         Ends(c, "failed"), kind[c] # "uninstall"
                  PROVE  loaded' = None <=> before[c].loaded = None
        OBVIOUS
    <2>. USE DEF ScheduleInv, TypeOK, RightSteps, ServiceAt
    <2>. ServiceAt(c)
        BY DEF ServiceKept, Ends
    <2>1. Preflight(c) \/ StopOld(c) \/ RestoreAgent(c) \/ Reload(c) \/ Fail(c)
        BY HowItEnds DEF Ends, StartNew, StopInstalled, RemoveSettings
    <2>2. CASE Preflight(c) \/ StopOld(c) \/ Fail(c)
        <3>1. UNCHANGED loaded
            BY <2>2 DEF Ends, Preflight, StopOld, Fail
        <3>2. pc[c] \in {"preflight", "readAgent", "readSettings", "ask", "bootout"}
            BY <2>2 DEF Ends, Preflight, StopOld, Fail
        <3>. QED
            BY <3>1, <3>2
    <2>3. CASE RestoreAgent(c)
        BY <2>3 DEF Ends, RestoreAgent, Undone, Collect
    <2>4. CASE Reload(c)
        BY <2>4 DEF Ends, Reload, Bootstrap, Undone, Collect
    <2>. QED
        BY <2>1, <2>2, <2>3, <2>4
<1>2. Init => ServiceKept
    BY DEF Init, ServiceKept
<1>. QED
    BY <1>1, <1>2, StepService, ScheduleInvariant, PTL DEF Spec, ServiceRestored, NoHalfStop, NeverMisread
=============================================================================
