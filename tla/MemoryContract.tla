--------------------------- MODULE MemoryContract ---------------------------
(***************************************************************************)
(* What lop promises of its classification memory, without the lock, the   *)
(* files and the copies it takes: runs have their turn one at a time; a    *)
(* run compares every decision with the memory as it is, and makes its     *)
(* decisions the memory's all at once, or not at all.  LopRuns implements  *)
(* this as long as nothing removes the lock file.                          *)
(***************************************************************************)

CONSTANTS
    Runs,       \* processes running `lop scan` or `lop prune`
    Repos,      \* repositories, by Git common directory
    Classes     \* decisions a worktree can get

VARIABLES
    memory,     \* per repository, the decision last saved, or "none"
    phase,      \* per run: "waiting", in its "turn", "saved" or "ended"
    found,      \* per run and repository, the decision it has made
    report      \* per run and repository: "unseen", "silent", "same" or "changed"

contractVars == <<memory, phase, found, report>>

Init ==
    /\ memory \in [Repos -> Classes \cup {"none"}]
    /\ phase = [r \in Runs |-> "waiting"]
    /\ found = [r \in Runs |-> [p \in Repos |-> "none"]]
    /\ report = [r \in Runs |-> [p \in Repos |-> "unseen"]]

\* A run begins when no other has its turn,
Begin(r) ==
    /\ phase[r] = "waiting"
    /\ \A q \in Runs : phase[q] \notin {"turn", "saved"}
    /\ phase' = [phase EXCEPT ![r] = "turn"]
    /\ UNCHANGED <<memory, found, report>>

\* decides a repository's worktree, once, and tells whether the memory had it otherwise,
Note(r, p, c) ==
    /\ phase[r] = "turn" /\ report[r][p] = "unseen"
    /\ found' = [found EXCEPT ![r][p] = c]
    /\ report' = [report EXCEPT ![r][p] =
                    CASE c = "none" -> "silent"
                      [] memory[p] = c -> "same"
                      [] OTHER -> "changed"]
    /\ UNCHANGED <<memory, phase>>

\* saves what it has decided, and nothing else,
Save(r) ==
    /\ phase[r] = "turn"
    /\ memory' = [p \in Repos |-> IF report[r][p] = "unseen" THEN memory[p] ELSE found[r][p]]
    /\ phase' = [phase EXCEPT ![r] = "saved"]
    /\ UNCHANGED <<found, report>>

\* and ends, as it also may before any of this.
Finish(r) ==
    /\ phase[r] # "ended"
    /\ phase' = [phase EXCEPT ![r] = "ended"]
    /\ UNCHANGED <<memory, found, report>>

Next ==
    \E r \in Runs :
        \/ Begin(r)
        \/ \E p \in Repos, c \in Classes \cup {"none"} : Note(r, p, c)
        \/ Save(r)
        \/ Finish(r)

Spec == Init /\ [][Next]_contractVars
=============================================================================
