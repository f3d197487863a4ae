------------------------------ MODULE Discovery ------------------------------
(***************************************************************************)
(* Finding the repositories beneath the configured roots: discover,        *)
(* walk_root and inspect_git_directory of src/discovery.rs.  A walk reads  *)
(* one directory at a time, and between two reads directories disappear,   *)
(* become unreadable or are replaced by links.                             *)
(*                                                                         *)
(* A directory is named by its place in the order of paths, in which a     *)
(* directory comes before what it contains.                                *)
(***************************************************************************)
EXTENDS Integers, Sequences, FiniteSetsExt

CONSTANTS
    Dirs,           \* the directories there may be
    Parent,         \* Dirs -> Dirs \cup {Top}
    Top,            \* what contains the topmost ones
    Ignored,        \* directories with a name ignored_directory lists
    LinkTo,         \* Dirs -> Dirs \cup {Top}, where a link put in its place leads:
                    \* Top for a place outside every root
    CommonOf,       \* Dirs -> Dirs, the Git common directory of a repository there
    Configured,     \* entries of config.roots
    RootOf,         \* Configured -> Dirs, what they resolve to
    ScanDepth,      \* config.scan_depth
    FirstGit,       \* what `.git` may be where, when lop starts
    MaxChanges      \* bound on the changes other programs make

ASSUME DiscoveryAssumption ==
    /\ Dirs \subseteq Nat \ {0} /\ IsFiniteSet(Dirs)
    /\ Top \notin Dirs
    /\ Parent \in [Dirs -> Dirs \cup {Top}]
    /\ \A d \in Dirs : Parent[d] # Top => Parent[d] < d
    /\ Ignored \subseteq Dirs
    /\ LinkTo \in [Dirs -> Dirs \cup {Top}]
    /\ CommonOf \in [Dirs -> Dirs]
    /\ RootOf \in [Configured -> Dirs]
    /\ ScanDepth \in Nat
    /\ FirstGit \subseteq [Dirs -> {"none", "file", "damaged", "repository"}]
    /\ MaxChanges \in Nat

VARIABLES
    disk,           \* each directory as it is on disk
    git,            \* what `.git` is in it
    changes,        \* how often other programs changed something, up to MaxChanges
    pc,
    left,           \* configured roots still to walk
    canonicalRoots,
    root,           \* the root being walked
    pending,        \* directories still to read, with their depth
    visited,        \* directories read in this walk
    here, depth,    \* the directory just read
    below,          \* the directories it contains
    repositories,   \* common directory -> the path found, or 0
    issues,
    \* History, for the properties only.
    queued,         \* what was ever pending, by root
    looked,         \* what was ever read, by root and canonical path
    named,          \* the common directories Git named, each with where
    steady          \* directories nobody has changed

worldVars == <<disk, git, changes, steady>>
walkVars == <<pc, left, canonicalRoots, root, pending, visited, here, depth, below>>
foundVars == <<repositories, issues, queued, looked, named>>
vars == <<worldVars, walkVars, foundVars>>

DiskStates == {"readable", "unreadable", "linked", "gone"}
GitEntries == {"none", "file", "damaged", "repository"}
Kinds == {"InaccessibleRoot", "InaccessibleDirectory", "UnsafeCanonicalization",
          "InvalidGitMetadata"}
Issues == [from : {Top}, path : Configured, kind : Kinds]
          \cup [from : Dirs, path : Dirs \cup {Top}, kind : Kinds]

Init ==
    /\ disk = [d \in Dirs |-> "readable"] /\ git \in FirstGit
    /\ changes = 0 /\ steady = Dirs
    /\ pc = "roots" /\ left = Configured /\ canonicalRoots = {}
    /\ root = 0 /\ pending = <<>> /\ visited = {} /\ here = 0 /\ depth = 0 /\ below = {}
    /\ repositories = [c \in Dirs |-> 0] /\ issues = {}
    /\ queued = {} /\ looked = {} /\ named = {}

----------------------------------------------------------------------------
(***************************************************************************)
(* The tree.                                                               *)
(***************************************************************************)

\* The directories that contain d, and d itself.
Above[d \in Dirs] == {d} \cup (IF Parent[d] = Top THEN {} ELSE Above[Parent[d]])

Roots == {RootOf[n] : n \in Configured}

\* Reading d lists these directories; a link is not one.
ChildrenOf(d) == {e \in Dirs : Parent[e] = d /\ disk[e] \in {"readable", "unreadable"}}

\* Whether the path d still names something: its own entry is there, and
\* nothing on the way to it is gone or, as a link, leads elsewhere.
Present(d) ==
    /\ disk[d] # "gone"
    /\ \A e \in Above[d] \ {d} : disk[e] \notin {"gone", "linked"}

\* fs::canonicalize: the directory a present path leads to, Top when outside.
Canonical(d) == IF disk[d] = "linked" THEN LinkTo[d] ELSE d

Resolves(d) ==
    /\ Present(d)
    /\ Canonical(d) \in Dirs =>
        Present(Canonical(d)) /\ disk[Canonical(d)] # "linked"

\* What the path d/.git is, followed through a link; nothing outside the roots
\* is a repository.
GitAt(d) ==
    IF Resolves(d) /\ Canonical(d) # Top /\ disk[Canonical(d)] # "unreadable"
    THEN git[Canonical(d)] ELSE "none"

\* The worktrees d is in; the largest path is the innermost.
Worktrees(d) ==
    IF Resolves(d) /\ Canonical(d) # Top
    THEN {e \in Above[Canonical(d)] : GitAt(e) \in {"file", "repository"}} ELSE {}

----------------------------------------------------------------------------
(***************************************************************************)
(* The walk.                                                               *)
(***************************************************************************)

Report(from, path, kind) == issues' = issues \cup {[from |-> from, path |-> path, kind |-> kind]}

\* The entries of config.roots, resolved one after the other.
RootFails(n) ==
    /\ pc = "roots" /\ n \in left /\ left' = left \ {n}
    /\ ~Resolves(RootOf[n])
    /\ Report(Top, n, "InaccessibleRoot")
    /\ UNCHANGED <<worldVars, pc, canonicalRoots, root, pending, visited, here, depth, below,
                   repositories, queued, looked, named>>

RootAgain(n) ==
    /\ pc = "roots" /\ n \in left /\ left' = left \ {n}
    /\ Resolves(RootOf[n]) /\ RootOf[n] \in canonicalRoots
    /\ UNCHANGED <<worldVars, foundVars, pc, canonicalRoots, root, pending, visited, here,
                   depth, below>>

StartWalk(n) ==
    LET r == RootOf[n] IN
    /\ pc = "roots" /\ n \in left /\ left' = left \ {n}
    /\ Resolves(r) /\ r \notin canonicalRoots
    /\ canonicalRoots' = canonicalRoots \cup {r}
    /\ root' = r /\ pending' = <<[path |-> r, depth |-> 0]>> /\ visited' = {}
    /\ queued' = queued \cup {<<r, r>>}
    /\ pc' = "walk"
    /\ UNCHANGED <<worldVars, here, depth, below, repositories, issues, looked, named>>

WalkEnds ==
    /\ pc = "walk" /\ pending = <<>> /\ pc' = "roots"
    /\ UNCHANGED <<worldVars, foundVars, left, canonicalRoots, root, pending, visited, here,
                   depth, below>>

AllWalked ==
    /\ pc = "roots" /\ left = {} /\ pc' = "done"
    /\ UNCHANGED <<worldVars, foundVars, left, canonicalRoots, root, pending, visited, here,
                   depth, below>>

\* A directory taken from the queue is refused, or was read before in this
\* walk, or cannot be read, or is read.
IsSafe(path) ==
    Resolves(path) /\ Canonical(path) # Top /\ root \in Above[Canonical(path)]

KindOf(isRoot) == IF isRoot THEN "InaccessibleRoot" ELSE "InaccessibleDirectory"

Refuse(path, isRoot) ==
    /\ ~IsSafe(path)
    /\ IF Resolves(path)
       THEN Report(root, Canonical(path), "UnsafeCanonicalization")
       ELSE Report(root, path, IF isRoot THEN "InaccessibleRoot" ELSE "UnsafeCanonicalization")
    /\ UNCHANGED <<visited, pc, here, depth, below, looked>>

ReadBefore(path) ==
    /\ IsSafe(path) /\ Canonical(path) \in visited
    /\ UNCHANGED <<issues, visited, pc, here, depth, below, looked>>

\* Slip: a directory that cannot be read is passed over.
PassOver(path, isRoot) ==
    /\ IsSafe(path) /\ Canonical(path) \notin visited
    /\ disk[Canonical(path)] = "unreadable"
    /\ visited' = visited \cup {Canonical(path)}
    /\ UNCHANGED <<pc, here, depth, below, looked, issues>>

CannotRead(path, isRoot) ==
    /\ IsSafe(path) /\ Canonical(path) \notin visited
    /\ disk[Canonical(path)] = "unreadable"
    /\ visited' = visited \cup {Canonical(path)}
    /\ Report(root, Canonical(path), KindOf(isRoot))
    /\ UNCHANGED <<pc, here, depth, below, looked>>

\* Slip: the depth limit off by one.
ReadTooDeep(path, level) ==
    /\ IsSafe(path) /\ Canonical(path) \notin visited
    /\ disk[Canonical(path)] = "readable"
    /\ visited' = visited \cup {Canonical(path)}
    /\ looked' = looked \cup {<<root, Canonical(path)>>}
    /\ here' = Canonical(path) /\ depth' = level
    /\ below' = IF level > ScanDepth THEN {} ELSE ChildrenOf(Canonical(path)) \ Ignored
    /\ pc' = IF git[Canonical(path)] = "none" THEN "below" ELSE "metadata"
    /\ UNCHANGED issues

\* What is ignored below it is left out.
Read(path, level) ==
    /\ IsSafe(path) /\ Canonical(path) \notin visited
    /\ disk[Canonical(path)] = "readable"
    /\ visited' = visited \cup {Canonical(path)}
    /\ looked' = looked \cup {<<root, Canonical(path)>>}
    /\ here' = Canonical(path) /\ depth' = level
    /\ below' = IF level >= ScanDepth THEN {} ELSE ChildrenOf(Canonical(path)) \ Ignored
    /\ pc' = IF git[Canonical(path)] = "none" THEN "below" ELSE "metadata"
    /\ UNCHANGED issues

Visit ==
    /\ pc = "walk" /\ pending # <<>> /\ pending' = Tail(pending)
    /\ LET path == Head(pending).path  level == Head(pending).depth IN
        \/ Refuse(path, level = 0)
        \/ ReadBefore(path)
        \/ CannotRead(path, level = 0)
        \/ Read(path, level)
    /\ UNCHANGED <<worldVars, left, canonicalRoots, root, repositories, queued, named>>

\* inspect_git_directory: what `.git` is by now.
InspectGit ==
    /\ pc = "metadata"
    /\ \/ GitAt(here) \in {"damaged", "repository"} /\ pc' = "revParse" /\ UNCHANGED issues
       \/ GitAt(here) = "file" /\ pc' = "below" /\ UNCHANGED issues
       \/ GitAt(here) = "none" /\ pc' = "below" /\ Report(root, here, "InvalidGitMetadata")
    /\ UNCHANGED <<worldVars, left, canonicalRoots, root, pending, visited, here, depth, below,
                   repositories, queued, looked, named>>

\* Slip: the last path found for a common directory replaces the one before.
KeepLast(found, c, path) == [found EXCEPT ![c] = path]

\* Of two repositories with one common directory the smaller path is kept.
Keep(found, c, path) ==
    [found EXCEPT ![c] = IF @ = 0 \/ path < @ THEN path ELSE @]

\* git rev-parse --git-common-dir, which has no timeout.  git passes over a `.git` that is
\* none and goes up: the answer may be about a directory that contains this one.  It may fail
\* for any repository: git does not start or refuses the owner, or its answer is not UTF-8, not
\* absolute or does not resolve.
AskGit ==
    /\ pc = "revParse" /\ pc' = "below"
    /\ \/ /\ Worktrees(here) # {}
          /\ LET c == CommonOf[Max(Worktrees(here))] IN
                /\ repositories' = Keep(repositories, c, here)
                /\ named' = named \cup {<<c, here>>}
          /\ UNCHANGED issues
       \/ /\ Report(root, here, "InvalidGitMetadata")
          /\ UNCHANGED <<repositories, named>>
    /\ UNCHANGED <<worldVars, left, canonicalRoots, root, pending, visited, here, depth, below,
                   queued, looked>>

\* The i-th of them by name comes after i - 1 others.
Queue(dirs, level) ==
    LET byName(i) == CHOOSE d \in dirs : Cardinality({e \in dirs : e < d}) = i - 1
    IN [i \in 1 .. Cardinality(dirs) |-> [path |-> byName(i), depth |-> level]]

\* Slip: a stack instead of a queue.
QueueInFront ==
    /\ pc = "below" /\ pc' = "walk"
    /\ pending' = Queue(below, depth + 1) \o pending
    /\ queued' = queued \cup ({root} \X below)
    /\ UNCHANGED <<worldVars, left, canonicalRoots, root, visited, here, depth, below,
                   repositories, issues, looked, named>>

\* The directories below join the queue in the order of their names.
QueueBelow ==
    /\ pc = "below" /\ pc' = "walk"
    /\ pending' = pending \o Queue(below, depth + 1)
    /\ queued' = queued \cup ({root} \X below)
    /\ UNCHANGED <<worldVars, left, canonicalRoots, root, visited, here, depth, below,
                   repositories, issues, looked, named>>

----------------------------------------------------------------------------
(***************************************************************************)
(* Other programs change the tree.  A link never takes the place of a      *)
(* configured root or of what contains one.                                *)
(***************************************************************************)

DirectoryChanges ==
    /\ changes < MaxChanges /\ changes' = changes + 1
    /\ \E d \in Dirs, s \in DiskStates :
        /\ s = "linked" => \A r \in Roots : d \notin Above[r]
        /\ disk' = [disk EXCEPT ![d] = s] /\ steady' = steady \ {d}
    /\ UNCHANGED <<git, walkVars, foundVars>>

GitChanges ==
    /\ changes < MaxChanges /\ changes' = changes + 1
    /\ \E d \in Dirs, g \in GitEntries :
        git' = [git EXCEPT ![d] = g] /\ steady' = steady \ {d}
    /\ UNCHANGED <<disk, walkVars, foundVars>>

Discover ==
    \/ \E n \in Configured : RootFails(n) \/ RootAgain(n) \/ StartWalk(n)
    \/ WalkEnds \/ AllWalked \/ Visit
    \/ InspectGit \/ AskGit \/ QueueBelow

TreeChanges == DirectoryChanges \/ GitChanges

Finished == pc = "done" /\ UNCHANGED vars

Next == Discover \/ TreeChanges \/ Finished

Spec == Init /\ [][Next]_vars

----------------------------------------------------------------------------
(***************************************************************************)
(* Properties.                                                             *)
(***************************************************************************)

Pending == [path : Dirs, depth : 0 .. ScanDepth]

\* Every variable of discover and walk_root keeps its type, and a walk never
\* queues a directory below scan_depth.
TypeOK ==
    /\ disk \in [Dirs -> DiskStates] /\ git \in [Dirs -> GitEntries]
    /\ changes \in 0 .. MaxChanges /\ steady \subseteq Dirs
    /\ pc \in {"roots", "walk", "metadata", "revParse", "below", "done"}
    /\ left \subseteq Configured /\ canonicalRoots \subseteq Roots
    /\ root \in Roots \cup {0} /\ here \in Dirs \cup {0} /\ depth \in 0 .. ScanDepth
    /\ pending \in Seq(Pending)
    /\ visited \subseteq Dirs /\ below \subseteq Dirs
    /\ repositories \in [Dirs -> Dirs \cup {0}] /\ issues \subseteq Issues
    /\ queued \subseteq Roots \X Dirs /\ looked \subseteq Roots \X Dirs
    /\ named \subseteq Dirs \X Dirs

\* d is in the part of the tree below r that is scanned.
InScope(r, d) ==
    /\ r \in Above[d]
    /\ LET between == Above[d] \ Above[r] IN
        Cardinality(between) <= ScanDepth /\ between \cap Ignored = {}

\* A repository is reported once for its common directory, at the smallest
\* path Git named it from, whatever the order of the roots; that path is
\* within a configured root, and while nothing changes neither too deep nor
\* below an ignored directory (the entry API in inspect_git_directory, the
\* checks of walk_root).
Sound ==
    \A c \in Dirs :
        LET places == {place[2] : place \in {p \in named : p[1] = c}} IN
        /\ repositories[c] = 0 <=> places = {}
        /\ \A d \in places :
            /\ repositories[c] <= d
            /\ \E r \in Roots : r \in Above[d]
            /\ steady = Dirs => \E r \in Roots : InScope(r, d)
        /\ repositories[c] \in places \cup {0}

\* A main repository in scope of a configured root that nobody touches, nor
\* anything on the way to it, is found by the end, or reported from that root as
\* one Git would not answer for, whatever happens to the rest of the tree: the
\* walk has been there (the order of the queue is what makes `visited` safe: a
\* link never makes the walk meet a directory first at a greater depth).
Complete ==
    pc = "done" =>
        \A n \in Configured, d \in Dirs :
            (InScope(RootOf[n], d) /\ Above[d] \subseteq steady /\ git[d] = "repository")
                => \/ repositories[CommonOf[d]] \in 1 .. d
                   \/ [from |-> RootOf[n], path |-> d, kind |-> "InvalidGitMetadata"] \in issues

\* Nothing disappears without a word: by the end each configured root was
\* walked or has an issue, and each directory ever queued was read, or has an
\* issue, or was a link to a directory of which one of these is true.
NothingDropped ==
    pc = "done" =>
        /\ \A n \in Configured :
            \/ RootOf[n] \in canonicalRoots
            \/ \E issue \in issues : issue.from = Top /\ issue.path = n
        /\ \A entry \in queued :
            \E d \in {entry[2], LinkTo[entry[2]]} :
                \/ <<entry[1], d>> \in looked
                \/ \E kind \in Kinds : [from |-> entry[1], path |-> d, kind |-> kind] \in issues
=============================================================================
