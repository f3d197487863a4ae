--------------------------- MODULE DiscoveryProofs ---------------------------
(***************************************************************************)
(* What discovery keeps true, for every tree, every configuration and any  *)
(* number of changes other programs make.                                  *)
(***************************************************************************)
EXTENDS Discovery, FiniteSetTheorems, SequenceTheorems, TLAPS

----------------------------------------------------------------------------
(***************************************************************************)
(* Natural numbers and finite sets of them.                                *)
(***************************************************************************)

\* Some number of T is the least: what the proofs use in place of induction.
\* The finite subsets of Nat are well-founded, and x stands for 0 .. x.
LEMMA LeastNat ==
    ASSUME NEW T \in SUBSET Nat, T # {}
    PROVE  \E x \in T : \A y \in T : x <= y
<1>. DEFINE U == {0 .. x : x \in T}
<1>1. U \subseteq FiniteSubsetsOf(Nat) /\ U # {}
  <2>1. ASSUME NEW x \in T  PROVE 0 .. x \in SUBSET Nat /\ IsFiniteSet(0 .. x)
    BY FS_Interval
  <2>. QED
    BY <2>1 DEF FiniteSubsetsOf
<1>2. PICK u \in U : \A v \in U : <<v, u>> \notin StrictSubsetOrdering(Nat)
    BY <1>1, WFMin, FS_StrictSubsetOrderingWellFounded
<1>3. PICK x \in T : u = 0 .. x
    OBVIOUS
<1>4. ASSUME NEW y \in T, y < x  PROVE FALSE
  <2>1. 0 .. y \subseteq 0 .. x /\ x \in 0 .. x /\ x \notin 0 .. y
    BY <1>4
  <2>2. 0 .. y \in U /\ 0 .. y # 0 .. x
    BY <2>1
  <2>3. 0 .. y \in SUBSET Nat /\ 0 .. x \in SUBSET Nat
    OBVIOUS
  <2>4. ASSUME NEW A \in SUBSET Nat, NEW B \in SUBSET Nat, A \subseteq B, A # B
        PROVE  <<A, B>> \in StrictSubsetOrdering(Nat)
    BY <2>4 DEF StrictSubsetOrdering
  <2>. QED
    BY <1>2, <1>3, <2>1, <2>2, <2>3, <2>4
<1>. QED
    BY <1>4

\* A finite set of numbers has a largest one, which is its Max.
LEMMA MaxOfFinite ==
    ASSUME NEW S \in SUBSET Nat, IsFiniteSet(S), S # {}
    PROVE  Max(S) \in S /\ \A s \in S : s <= Max(S)
<1>1. PICK n \in Nat : ExistsBijection(1 .. n, S)
    BY FS_NatBijection
<1>2. PICK f \in [1 .. n -> S] : \A s \in S : \E i \in 1 .. n : f[i] = s
    BY <1>1 DEF ExistsBijection, Bijection, Surjection
<1>. DEFINE Bounded(k) == \E b \in Nat : \A i \in 1 .. k : f[i] <= b
            Unbounded == {k \in 0 .. n : ~Bounded(k)}
<1>3. ASSUME NEW k \in 1 .. n, Bounded(k - 1)  PROVE Bounded(k)
  <2>1. PICK b \in Nat : \A i \in 1 .. (k - 1) : f[i] <= b
    BY <1>3
  <2>2. f[k] \in Nat
    OBVIOUS
  <2>3. PICK c \in Nat : b <= c /\ f[k] <= c
    BY <2>2
  <2>4. ASSUME NEW i \in 1 .. k  PROVE f[i] <= c
    <3>1. CASE i = k
        BY <3>1, <2>3
    <3>2. CASE i # k
        <4>1. i \in 1 .. (k - 1) /\ i \in 1 .. n
            BY <3>2
        <4>3. f[i] \in Nat
            BY <4>1
        <4>2. f[i] <= b
            BY <4>1, <2>1
        <4>. QED
            BY <4>3, <4>2, <2>3
    <3>. QED
        BY <3>1, <3>2
  <2>. QED
    BY <2>4
<1>4. Unbounded = {}
  <2>1. SUFFICES ASSUME Unbounded # {}  PROVE FALSE
    OBVIOUS
  <2>2. Unbounded \in SUBSET Nat
    OBVIOUS
  <2>3. PICK k \in Unbounded : \A j \in Unbounded : k <= j
    BY <2>1, <2>2, LeastNat
  <2>4. CASE k = 0
    <3>1. \A i \in 1 .. 0 : f[i] <= 0
        OBVIOUS
    <3>. QED
        BY <3>1, <2>4
  <2>5. CASE k # 0
    <3>1. k \in 1 .. n /\ k - 1 \in 0 .. n /\ ~(k <= k - 1)
        BY <2>5
    <3>2. k - 1 \notin Unbounded
        BY <3>1, <2>3
    <3>3. Bounded(k - 1)
        BY <3>1, <3>2
    <3>. HIDE DEF Bounded
    <3>. QED
        BY <3>1, <3>3, <1>3
  <2>. QED
    BY <2>4, <2>5
<1>5. PICK top \in Nat : \A i \in 1 .. n : f[i] <= top
  <2>1. n \in 0 .. n
    OBVIOUS
  <2>2. Bounded(n)
    BY <1>4, <2>1, Zenon
  <2>. QED
    BY <2>2
<1>. DEFINE Bounds == {b \in Nat : \A s \in S : s <= b}
<1>6. Bounds \in SUBSET Nat /\ Bounds # {}
    BY <1>2, <1>5
<1>7. PICK b \in Bounds : \A c \in Bounds : b <= c
    BY <1>6, LeastNat
<1>8. b \in S
  <2>1. SUFFICES ASSUME b \notin S  PROVE FALSE
    OBVIOUS
  <2>2. PICK s \in S : TRUE
    OBVIOUS
  <2>3. b \in Nat /\ s \in Nat /\ s <= b /\ s # b
    BY <2>1
  <2>4. b - 1 \in Nat /\ ~(b <= b - 1)
    BY <2>3
  <2>5. ASSUME NEW t \in S  PROVE t <= b - 1
    <3>1. t \in Nat /\ t <= b /\ t # b
        BY <2>1
    <3>. QED
        BY <3>1, <2>3
  <2>. QED
    BY <2>4, <2>5, <1>7
<1>. QED
    BY <1>7, <1>8 DEF Max
----------------------------------------------------------------------------
(***************************************************************************)
(* The tree.                                                               *)
(***************************************************************************)

\* What contains a directory is a directory that comes before it, or Top.
LEMMA ParentFacts ==
    ASSUME NEW d \in Dirs
    PROVE  /\ d \in Nat /\ d # 0
           /\ Parent[d] # Top =>
               Parent[d] \in Dirs /\ Parent[d] \in Nat /\ Parent[d] < d
BY DiscoveryAssumption DEF DiscoveryAssumption

\* Above is the function its recursive definition describes: what contains a
\* directory comes before it, so there is one such function on the directories
\* before m, for each m.
LEMMA AboveUnfolds ==
    Above = [d \in Dirs |-> {d} \cup (IF Parent[d] = Top THEN {} ELSE Above[Parent[d]])]
<1>. DEFINE Before(m) == {x \in Dirs : x < m}
            Step(g, d) == {d} \cup (IF Parent[d] = Top THEN {} ELSE g[Parent[d]])
            Solves(g, m) == g = [d \in Before(m) |-> Step(g, d)]
            Solvable(m) == \E g : Solves(g, m)
            Unsolvable == {m \in Nat : ~Solvable(m)}
<1>1. ASSUME NEW m \in Nat, Solvable(m)  PROVE Solvable(m + 1)
  <2>1. PICK g : Solves(g, m)
    BY <1>1
  <2>. DEFINE h == [d \in Before(m + 1) |-> Step(g, d)]
  <2>2. ASSUME NEW d \in Before(m + 1)  PROVE Step(h, d) = Step(g, d)
    <3>1. CASE Parent[d] = Top
        BY <3>1
    <3>2. CASE Parent[d] # Top
        <4>0. d \in Dirs /\ d < m + 1
            BY <2>2
        <4>1. Parent[d] \in Before(m) /\ Parent[d] \in Before(m + 1)
            BY <3>2, <4>0, ParentFacts
        <4>2. g[Parent[d]] = Step(g, Parent[d]) /\ h[Parent[d]] = Step(g, Parent[d])
            BY <4>1, <2>1
        <4>. QED
            BY <4>2
    <3>. QED
        BY <3>1, <3>2
  <2>3. h = [d \in Before(m + 1) |-> Step(h, d)]
    BY <2>2
  <2>. QED
    BY <2>3
<1>2. Solvable(0)
  <2>1. Before(0) = {}
    BY ParentFacts
  <2>2. Solves([d \in {} |-> {}], 0)
    BY <2>1
  <2>. QED
    BY <2>2
<1>3. Unsolvable = {}
  <2>1. SUFFICES ASSUME Unsolvable # {}  PROVE FALSE
    OBVIOUS
  <2>2. Unsolvable \in SUBSET Nat
    OBVIOUS
  <2>. HIDE DEF Solvable
  <2>3. PICK m \in Unsolvable : \A k \in Unsolvable : m <= k
    BY <2>1, <2>2, LeastNat
  <2>4. m # 0 /\ m \in Nat
    BY <1>2
  <2>5. m - 1 \in Nat /\ ~(m <= m - 1) /\ (m - 1) + 1 = m
    BY <2>4
  <2>6. Solvable(m - 1)
    BY <2>3, <2>5
  <2>. QED
    BY <1>1, <2>5, <2>6
<1>4. PICK b \in Nat : Before(b) = Dirs
  <2>1. CASE Dirs = {}
    BY <2>1
  <2>2. CASE Dirs # {}
    <3>1. Max(Dirs) \in Nat /\ \A d \in Dirs : d <= Max(Dirs)
        BY <2>2, MaxOfFinite, DiscoveryAssumption DEF DiscoveryAssumption
    <3>2. \A d \in Dirs : d < Max(Dirs) + 1
        BY <3>1, ParentFacts
    <3>. QED
        BY <3>1, <3>2
  <2>. QED
    BY <2>1, <2>2
<1>5. PICK g : g = [d \in Dirs |-> Step(g, d)]
  <2>1. Solvable(b)
    BY <1>3
  <2>. QED
    BY <2>1, <1>4
<1>. QED
    BY <1>5 DEF Above

\* The directories above d include d, come before it or are it, and have only
\* directories above d above them.
LEMMA AboveFacts ==
    ASSUME NEW d \in Dirs
    PROVE  /\ Above[d] = {d} \cup (IF Parent[d] = Top THEN {} ELSE Above[Parent[d]])
           /\ Above[d] \subseteq Dirs /\ d \in Above[d]
           /\ \A e \in Above[d] : e <= d /\ Above[e] \subseteq Above[d]
<1>. DEFINE Good(x) == /\ Above[x] \subseteq Dirs
                       /\ \A e \in Above[x] : e <= x /\ Above[e] \subseteq Above[x]
            Bad == {x \in Dirs : ~Good(x)}
<1>1. ASSUME NEW x \in Dirs
      PROVE  Above[x] = {x} \cup (IF Parent[x] = Top THEN {} ELSE Above[Parent[x]])
    BY AboveUnfolds
<1>2. ASSUME NEW x \in Dirs, Parent[x] # Top => Good(Parent[x])  PROVE Good(x)
  <2>1. CASE Parent[x] = Top
    BY <2>1, <1>1, ParentFacts
  <2>2. CASE Parent[x] # Top
    <3>1. Parent[x] \in Dirs /\ Parent[x] < x /\ x \in Nat /\ Parent[x] \in Nat
        BY <2>2, ParentFacts
    <3>2. Above[x] = {x} \cup Above[Parent[x]]
        BY <2>2, <1>1
    <3>3. Above[Parent[x]] \subseteq Dirs
        BY <2>2, <1>2
    <3>4. ASSUME NEW e \in Above[Parent[x]]
          PROVE  e <= x /\ Above[e] \subseteq Above[x]
        <4>1. e \in Nat /\ e <= Parent[x] /\ Above[e] \subseteq Above[Parent[x]]
            BY <3>3, <3>4, <2>2, <1>2, ParentFacts
        <4>. QED
            BY <4>1, <3>1, <3>2
    <3>. QED
        BY <3>1, <3>2, <3>3, <3>4
  <2>. QED
    BY <2>1, <2>2
<1>3. Bad = {}
  <2>1. SUFFICES ASSUME Bad # {}  PROVE FALSE
    OBVIOUS
  <2>2. Bad \in SUBSET Nat
    BY ParentFacts
  <2>. HIDE DEF Good
  <2>3. PICK x \in Bad : \A y \in Bad : x <= y
    BY <2>1, <2>2, LeastNat
  <2>4. ASSUME Parent[x] # Top  PROVE Good(Parent[x])
    <3>1. Parent[x] \in Dirs /\ Parent[x] < x /\ x \in Nat /\ Parent[x] \in Nat
        BY <2>4, ParentFacts
    <3>. QED
        BY <3>1, <2>3
  <2>. QED
    BY <1>2, <2>4
<1>4. Good(d)
    BY <1>3
<1>. QED
    BY <1>1, <1>4

\* How far below r a directory is.
Distance(r, d) == Cardinality(Above[d] \ Above[r])

\* Below r, each directory is one further from it than what contains it, and
\* nothing above a directory is further from r than the directory.
LEMMA DistanceFacts ==
    ASSUME NEW d \in Dirs, NEW r \in Above[d]
    PROVE  /\ Distance(r, d) \in Nat
           /\ Distance(d, d) = 0
           /\ r # d =>
               /\ Parent[d] \in Dirs /\ r \in Above[Parent[d]] /\ Above[Parent[d]] \subseteq Above[d]
               /\ Above[d] \ Above[r] = {d} \cup (Above[Parent[d]] \ Above[r])
               /\ Distance(r, d) = Distance(r, Parent[d]) + 1
           /\ \A e \in Above[d] :
               r \in Above[e] => Distance(r, e) \in Nat /\ Distance(r, e) <= Distance(r, d)
<1>1. r \in Dirs /\ IsFiniteSet(Above[d]) /\ IsFiniteSet(Above[d] \ Above[r])
    BY AboveFacts, FS_Subset, DiscoveryAssumption DEF DiscoveryAssumption
<1>2. Distance(r, d) \in Nat
    BY <1>1, FS_CardinalityType DEF Distance
<1>3. Distance(d, d) = 0
    BY FS_EmptySet DEF Distance
<1>4. ASSUME NEW e \in Above[d], r \in Above[e]
      PROVE  Distance(r, e) \in Nat /\ Distance(r, e) <= Distance(r, d)
  <2>1. Above[e] \ Above[r] \subseteq Above[d] \ Above[r]
    BY AboveFacts
  <2>. QED
    BY <1>1, <2>1, FS_Subset, FS_CardinalityType DEF Distance
<1>5. ASSUME r # d
      PROVE  /\ Parent[d] \in Dirs /\ r \in Above[Parent[d]] /\ Above[Parent[d]] \subseteq Above[d]
             /\ Above[d] \ Above[r] = {d} \cup (Above[Parent[d]] \ Above[r])
             /\ Distance(r, d) = Distance(r, Parent[d]) + 1
  <2>1. Parent[d] # Top
    BY <1>5, AboveFacts
  <2>2. Parent[d] \in Dirs /\ Parent[d] < d
    BY <2>1, ParentFacts
  <2>3. Above[d] = {d} \cup Above[Parent[d]]
    BY <2>1, AboveFacts
  <2>4. r \in Above[Parent[d]]
    BY <1>5, <2>3
  <2>5. d \notin Above[Parent[d]] /\ d \notin Above[r]
    <3>1. ~(d <= Parent[d])
        BY <2>2, ParentFacts
    <3>2. d \notin Above[Parent[d]]
        BY <2>2, <3>1, AboveFacts
    <3>. QED
        BY <2>2, <2>4, <3>2, AboveFacts
  <2>6. Above[d] \ Above[r] = {d} \cup (Above[Parent[d]] \ Above[r])
    BY <2>3, <2>5
  <2>7. IsFiniteSet(Above[Parent[d]] \ Above[r])
    BY <1>1, <2>3, FS_Subset
  <2>8. Cardinality((Above[Parent[d]] \ Above[r]) \cup {d})
            = Cardinality(Above[Parent[d]] \ Above[r]) + 1
    BY <2>5, <2>7, FS_AddElement
  <2>9. (Above[Parent[d]] \ Above[r]) \cup {d} = Above[d] \ Above[r]
    BY <2>6
  <2>. QED
    BY <2>2, <2>3, <2>4, <2>6, <2>8, <2>9 DEF Distance
<1>. QED
    BY <1>2, <1>3, <1>4, <1>5

\* What joins the queue: each directory of dirs, at the level, and nothing else.
LEMMA QueueFacts ==
    ASSUME NEW dirs \in SUBSET Dirs, NEW level \in 0 .. ScanDepth
    PROVE  /\ Queue(dirs, level) \in Seq(Pending)
           /\ \A i \in 1 .. Len(Queue(dirs, level)) :
               Queue(dirs, level)[i].path \in dirs /\ Queue(dirs, level)[i].depth = level
           /\ \A d \in dirs :
               \E i \in 1 .. Len(Queue(dirs, level)) : Queue(dirs, level)[i].path = d
<1>. DEFINE Earlier(d) == {e \in dirs : e < d}
            rank == [d \in dirs |-> Cardinality(Earlier(d)) + 1]
<1>1. IsFiniteSet(dirs)
    BY FS_Subset, DiscoveryAssumption DEF DiscoveryAssumption
<1>2. PICK n \in Nat : n = Cardinality(dirs)
    BY <1>1, FS_CardinalityType
<1>3. ASSUME NEW d \in dirs
      PROVE  IsFiniteSet(Earlier(d)) /\ Cardinality(Earlier(d)) \in 0 .. n - 1
  <2>1. Earlier(d) \in SUBSET dirs /\ Earlier(d) # dirs
    BY ParentFacts
  <2>2. IsFiniteSet(Earlier(d)) /\ Cardinality(Earlier(d)) <= n /\ Cardinality(Earlier(d)) # n
    BY <1>1, <1>2, <2>1, FS_Subset
  <2>3. Cardinality(Earlier(d)) \in Nat
    BY <2>2, FS_CardinalityType
  <2>. QED
    BY <2>2, <2>3
<1>4. ASSUME NEW d \in dirs, NEW e \in dirs, d < e  PROVE rank[d] < rank[e]
  <2>1. Earlier(d) \in SUBSET Earlier(e) /\ Earlier(d) # Earlier(e)
    BY <1>4, ParentFacts
  <2>2. Cardinality(Earlier(d)) <= Cardinality(Earlier(e))
        /\ Cardinality(Earlier(d)) # Cardinality(Earlier(e))
    BY <1>3, <2>1, FS_Subset
  <2>3. Cardinality(Earlier(d)) \in Nat /\ Cardinality(Earlier(e)) \in Nat
    BY <1>3
  <2>. QED
    BY <2>2, <2>3
<1>5. rank \in [dirs -> 1 .. n]
    BY <1>3
<1>6. ASSUME NEW d \in dirs, NEW e \in dirs, rank[d] = rank[e]  PROVE d = e
  <2>1. d \in Nat /\ e \in Nat /\ rank[d] \in Nat
    BY <1>5, ParentFacts
  <2>. QED
    BY <1>4, <1>6, <2>1
<1>7. rank \in Injection(dirs, 1 .. n)
  <2>. HIDE DEF rank
  <2>. QED
    BY <1>5, <1>6 DEF Injection, IsInjective
<1>8. \A i \in 1 .. n : \E d \in dirs : rank[d] = i
  <2>. HIDE DEF rank
  <2>1. IsFiniteSet(1 .. n) /\ Cardinality(1 .. n) = n
    BY FS_Interval
  <2>2. rank \in Surjection(dirs, 1 .. n)
    BY <1>2, <1>7, <2>1, FS_Injection
  <2>. QED
    BY <2>2 DEF Surjection
<1>. DEFINE nth(i) == CHOOSE d \in dirs : Cardinality(Earlier(d)) = i - 1
<1>9. ASSUME NEW i \in 1 .. n  PROVE nth(i) \in dirs /\ rank[nth(i)] = i
  <2>1. PICK d \in dirs : Cardinality(Earlier(d)) + 1 = i
    BY <1>8
  <2>9. Cardinality(Earlier(d)) \in Nat
    BY <1>3
  <2>4. PICK c \in Nat : c = Cardinality(Earlier(d))
    BY <2>9, Zenon
  <2>5. c + 1 = i
    BY <2>1, <2>4
  <2>6. c = i - 1
    BY <2>5
  <2>2. Cardinality(Earlier(d)) = i - 1
    BY <2>4, <2>6
  <2>3. nth(i) \in dirs /\ Cardinality(Earlier(nth(i))) = i - 1
    BY <2>2
  <2>10. Cardinality(Earlier(nth(i))) \in Nat
    BY <2>3, <1>3
  <2>7. PICK m \in Nat : m = Cardinality(Earlier(nth(i)))
    BY <2>10, Zenon
  <2>8. m + 1 = i
    BY <2>3, <2>7
  <2>. QED
    BY <2>3, <2>7, <2>8
<1>10. Queue(dirs, level) = [i \in 1 .. n |-> [path |-> nth(i), depth |-> level]]
    BY <1>2 DEF Queue
<1>. HIDE DEF nth, rank
<1>11. ASSUME NEW i \in 1 .. n
       PROVE  /\ Queue(dirs, level)[i] = [path |-> nth(i), depth |-> level]
              /\ Queue(dirs, level)[i].path = nth(i) /\ Queue(dirs, level)[i].depth = level
              /\ nth(i) \in dirs
    BY <1>9, <1>10
<1>12. ASSUME NEW d \in dirs  PROVE [path |-> d, depth |-> level] \in Pending
    BY DEF Pending
<1>13. Queue(dirs, level) \in [1 .. n -> Pending]
    BY <1>10, <1>11, <1>12
<1>14. Queue(dirs, level) \in Seq(Pending) /\ Len(Queue(dirs, level)) = n
    BY <1>13
<1>15. ASSUME NEW d \in dirs  PROVE \E i \in 1 .. n : Queue(dirs, level)[i].path = d
  <2>1. rank[d] \in 1 .. n /\ nth(rank[d]) = d
    BY <1>5, <1>6, <1>9
  <2>. QED
    BY <1>11, <2>1
<1>. QED
    BY <1>14, <1>15, <1>11
----------------------------------------------------------------------------
(***************************************************************************)
(* The inductive invariants.                                               *)
(***************************************************************************)

\* A root is being walked; a directory has been read and is dealt with.
Walking == pc \in {"walk", "metadata", "revParse", "below"}
Looking == pc \in {"metadata", "revParse", "below"}

\* The types, with what the control state says about the walk: a root is being
\* walked, what was read is a directory, only what is not too deep has
\* directories below it still to queue, and between walks nothing is pending.
TypeInv ==
    /\ TypeOK
    /\ Walking => root \in Roots
    /\ Looking => here \in Dirs /\ (below # {} => depth < ScanDepth)
    /\ ~Walking => pending = <<>>

\* d is in scope of the root being walked, at that depth.
Placed(d, level) ==
    /\ root \in Above[d] /\ Distance(root, d) = level
    /\ (Above[d] \ Above[root]) \cap Ignored = {}

\* For each common directory the smallest path Git named it from is kept.
SmallestKept ==
    \A c \in Dirs :
        /\ repositories[c] = 0 => \A d \in Dirs : <<c, d>> \notin named
        /\ repositories[c] # 0 => <<c, repositories[c]>> \in named
        /\ \A d \in Dirs : <<c, d>> \in named => repositories[c] <= d /\ repositories[c] # 0

\* Git was only asked within a root, and, while nothing has changed, in scope of it.
NamedWithin ==
    \A p \in named :
        \E r \in Roots : r \in Above[p[2]] /\ (steady = Dirs => InScope(r, p[2]))

\* Where the walk is: within its root, and, while nothing has changed, at the
\* depth the queue says.
WithinRoot ==
    /\ Looking => root \in Above[here]
    /\ steady = Dirs =>
        /\ \A d \in Dirs : disk[d] = "readable"
        /\ Walking => \A i \in 1 .. Len(pending) : Placed(pending[i].path, pending[i].depth)
        /\ Looking => Placed(here, depth)
        /\ Looking => \A d \in below : Parent[d] = here /\ d \notin Ignored

SoundInv == SmallestKept /\ NamedWithin /\ WithinRoot

\* d was read in the walk of r, or has an issue there.
Accounted(r, d) ==
    \/ <<r, d>> \in looked
    \/ \E kind \in Kinds : [from |-> r, path |-> d, kind |-> kind] \in issues

RootAccounted(n) ==
    \/ RootOf[n] \in canonicalRoots
    \/ \E issue \in issues : issue.from = Top /\ issue.path = n

\* Nothing is dropped on the way: what was queued and is not accounted for is
\* still pending, and what counts as visited is accounted for.
DroppedInv ==
    /\ \A n \in Configured : n \in left \/ RootAccounted(n)
    /\ pc = "done" => left = {}
    /\ \A r \in Roots, d \in Dirs : <<r, d>> \in queued =>
        \/ Accounted(r, d) \/ Accounted(r, LinkTo[d])
        \/ Walking /\ r = root /\ \E i \in 1 .. Len(pending) : pending[i].path = d
    /\ Walking => \A d \in visited : Accounted(root, d)

\* Nobody has touched d nor anything on the way to it.
Held(d) == Above[d] \subseteq steady

\* A main repository is found, or reported from r as one Git would not answer for.
Found(r, d) ==
    git[d] = "repository" =>
        \/ repositories[CommonOf[d]] \in 1 .. d
        \/ [from |-> r, path |-> d, kind |-> "InvalidGitMetadata"] \in issues

\* d is pending, or about to be, no deeper than it is.
Coming(d) ==
    \/ \E i \in 1 .. Len(pending) :
        pending[i].path = d /\ pending[i].depth <= Distance(root, d)
    \/ Looking /\ d \in below /\ depth + 1 <= Distance(root, d)

\* What nobody has touched is as it was at first, and a root nobody has touched is walked.
Untouched ==
    /\ \A d \in steady : disk[d] = "readable"
    /\ \A n \in Configured : n \notin left /\ Held(RootOf[n]) => RootOf[n] \in canonicalRoots
    /\ pc = "done" => left = {}

\* The queue is in the order of depths, and holds two levels at most.
Levels ==
    Walking =>
        /\ \A i, j \in 1 .. Len(pending) :
            /\ i <= j => pending[i].depth <= pending[j].depth
            /\ pending[j].depth <= pending[i].depth + 1
        /\ Looking => \A i \in 1 .. Len(pending) : pending[i].depth \in {depth, depth + 1}

\* The root, and what a directory read in this walk contains, is read or coming.
Frontier ==
    Walking =>
        \A d \in Dirs :
            (Held(d) /\ InScope(root, d) /\ d \notin visited /\ (d = root \/ Parent[d] \in visited))
                => Coming(d)

\* Where the walks have been, main repositories are found or reported.
FoundBehind ==
    /\ Walking => \A d \in visited :
        Held(d) => Found(root, d) \/ (d = here /\ pc \in {"metadata", "revParse"})
    /\ \A r \in canonicalRoots, d \in Dirs :
        Held(d) /\ InScope(r, d) => Found(r, d) \/ (Walking /\ r = root)

CompleteInv == Untouched /\ Levels /\ Frontier /\ FoundBehind

----------------------------------------------------------------------------
(***************************************************************************)
(* Types.                                                                  *)
(***************************************************************************)

LEMMA RootFacts ==
    /\ Roots \subseteq Dirs /\ Roots \subseteq Nat \ {0}
    /\ \A n \in Configured : RootOf[n] \in Roots
BY DiscoveryAssumption DEF DiscoveryAssumption, Roots

\* Where a link or a directory leads; what is safe to read is a directory.
LEMMA CanonicalFacts ==
    ASSUME TypeOK, NEW d \in Dirs
    PROVE  /\ Canonical(d) \in {d, LinkTo[d]} /\ LinkTo[d] \in Dirs \cup {Top}
           /\ IsSafe(d) => Canonical(d) \in Dirs /\ root \in Above[Canonical(d)]
BY DiscoveryAssumption DEF DiscoveryAssumption, Canonical, IsSafe

\* A visit takes the first entry of the queue and leaves the others in place.
LEMMA VisitFacts ==
    ASSUME TypeInv, Visit
    PROVE  /\ pc = "walk" /\ root \in Roots
           /\ Len(pending) \in Nat \ {0} /\ 1 \in 1 .. Len(pending)
           /\ Head(pending) = pending[1]
           /\ pending[1].path \in Dirs /\ pending[1].depth \in 0 .. ScanDepth
           /\ pending' \in Seq(Pending) /\ Len(pending') = Len(pending) - 1
           /\ \A i \in 1 .. Len(pending') :
               i \in 1 .. Len(pending) /\ i + 1 \in 1 .. Len(pending) /\ pending'[i] = pending[i + 1]
<1>1. pc = "walk" /\ pending # <<>> /\ pending' = Tail(pending)
    BY DEF Visit
<1>2. pending \in Seq(Pending) /\ root \in Roots
    BY <1>1 DEF TypeInv, TypeOK, Walking
<1>3. Len(pending) \in Nat \ {0} /\ 1 \in 1 .. Len(pending)
    BY <1>1, <1>2, EmptySeq
<1>4. Head(pending) = pending[1] /\ pending[1] \in Pending
    BY <1>2, <1>3
<1>5. pending' \in Seq(Pending) /\ Len(pending') = Len(pending) - 1
    BY <1>1, <1>2, HeadTailProperties
<1>6. \A i \in 1 .. Len(pending') :
        i \in 1 .. Len(pending) /\ i + 1 \in 1 .. Len(pending) /\ pending'[i] = pending[i + 1]
    BY <1>1, <1>2, <1>3, <1>5, HeadTailProperties
<1>. QED
    BY <1>1, <1>2, <1>3, <1>4, <1>5, <1>6 DEF Pending

\* What a report adds to the issues.
LEMMA ReportTyped ==
    ASSUME TypeOK, NEW from \in Dirs, NEW path \in Dirs \cup {Top}, NEW kind \in Kinds, Report(from, path, kind)
    PROVE  issues' \subseteq Issues
BY DEF TypeOK, Report, Issues

\* git names the innermost worktree: the largest, and one of them when there are some.
LEMMA InnermostFacts ==
    ASSUME TypeOK, NEW d \in Dirs, Worktrees(d) # {}
    PROVE  /\ Max(Worktrees(d)) \in Worktrees(d) /\ \A e \in Worktrees(d) : e <= Max(Worktrees(d))
           /\ Worktrees(d) \subseteq Dirs /\ CommonOf[Max(Worktrees(d))] \in Dirs
<1>1. Canonical(d) \in Dirs /\ Worktrees(d) \subseteq Above[Canonical(d)]
    BY CanonicalFacts DEF Worktrees
<1>2. Worktrees(d) \subseteq Dirs
    BY <1>1, AboveFacts
<1>3. IsFiniteSet(Worktrees(d)) /\ Worktrees(d) \in SUBSET Nat
    BY <1>2, FS_Subset, DiscoveryAssumption DEF DiscoveryAssumption
<1>. QED
    BY <1>2, <1>3, MaxOfFinite, DiscoveryAssumption DEF DiscoveryAssumption

\* The directories below join the end of the queue, one level deeper.
LEMMA QueuedFacts ==
    ASSUME TypeInv, QueueBelow
    PROVE  /\ pc = "below" /\ root \in Roots /\ here \in Dirs /\ below \subseteq Dirs
           /\ pending' \in Seq(Pending) /\ Len(pending) \in Nat /\ Len(pending) <= Len(pending')
           /\ \A i \in 1 .. Len(pending) : i \in 1 .. Len(pending') /\ pending'[i] = pending[i]
           /\ \A i \in 1 .. Len(pending') :
               i > Len(pending) => pending'[i].path \in below /\ pending'[i].depth = depth + 1
           /\ \A d \in below : \E i \in 1 .. Len(pending') :
               i > Len(pending) /\ pending'[i].path = d /\ pending'[i].depth = depth + 1
<1>1. /\ pc = "below" /\ root \in Roots /\ here \in Dirs /\ below \subseteq Dirs
      /\ pending' = pending \o Queue(below, depth + 1) /\ pending \in Seq(Pending)
      /\ (below # {} => depth + 1 \in 0 .. ScanDepth)
    BY DiscoveryAssumption DEF QueueBelow, TypeInv, TypeOK, Walking, Looking, DiscoveryAssumption
<1>2. CASE below = {}
  <2>1. Queue(below, depth + 1) = <<>>
    BY <1>2, FS_EmptySet DEF Queue
  <2>2. pending' = pending
    BY <1>1, <2>1, ConcatEmptySeq
  <2>3. Len(pending) \in Nat
    BY <1>1
  <2>4. ASSUME NEW i \in 1 .. Len(pending)  PROVE ~(i > Len(pending))
    BY <2>3
  <2>5. Len(pending) <= Len(pending') /\ Len(pending') = Len(pending)
    BY <2>2, <2>3
  <2>6. \A i \in 1 .. Len(pending) : i \in 1 .. Len(pending') /\ pending'[i] = pending[i]
    BY <2>2
  <2>7. \A i \in 1 .. Len(pending') : ~(i > Len(pending))
    BY <2>4, <2>5
  <2>8. pending' \in Seq(Pending)
    BY <1>1, <2>2
  <2>. QED
    BY <1>1, <1>2, <2>3, <2>5, <2>6, <2>7, <2>8
<1>3. CASE below # {}
  <2>. DEFINE more == Queue(below, depth + 1)
  <2>0. below \in SUBSET Dirs /\ depth + 1 \in 0 .. ScanDepth
    BY <1>1, <1>3
  <2>1. /\ more \in Seq(Pending)
        /\ \A i \in 1 .. Len(more) : more[i].path \in below /\ more[i].depth = depth + 1
        /\ \A d \in below : \E i \in 1 .. Len(more) : more[i].path = d
    BY <2>0, QueueFacts
  <2>. HIDE DEF more
  <2>2. /\ pending' = pending \o more
        /\ pending' \in Seq(Pending) /\ Len(pending') = Len(pending) + Len(more)
        /\ Len(pending) \in Nat /\ Len(more) \in Nat
        /\ \A i \in 1 .. Len(pending) + Len(more) :
            pending'[i] = IF i <= Len(pending) THEN pending[i] ELSE more[i - Len(pending)]
    BY <1>1, <2>1, ConcatProperties DEF more
  <2>3. ASSUME NEW i \in 1 .. Len(pending)
        PROVE  i \in 1 .. Len(pending') /\ pending'[i] = pending[i]
    BY <2>2
  <2>4. ASSUME NEW i \in 1 .. Len(pending'), i > Len(pending)
        PROVE  pending'[i].path \in below /\ pending'[i].depth = depth + 1
    <3>1. i - Len(pending) \in 1 .. Len(more) /\ pending'[i] = more[i - Len(pending)]
        BY <2>2, <2>4
    <3>. QED
        BY <2>1, <3>1
  <2>5. ASSUME NEW d \in below
        PROVE  \E i \in 1 .. Len(pending') :
                   i > Len(pending) /\ pending'[i].path = d /\ pending'[i].depth = depth + 1
    <3>1. PICK j \in 1 .. Len(more) : more[j].path = d
        BY <2>1
    <3>2. j + Len(pending) \in 1 .. Len(pending') /\ j + Len(pending) > Len(pending)
          /\ (j + Len(pending)) - Len(pending) = j
        BY <2>2
    <3>3. pending'[j + Len(pending)] = more[j]
        BY <2>2, <3>2
    <3>. QED
        BY <2>1, <3>1, <3>2, <3>3
  <2>6. Len(pending) <= Len(pending')
    BY <2>2
  <2>. QED
    BY <1>1, <2>2, <2>3, <2>4, <2>5, <2>6
<1>. QED
    BY <1>2, <1>3

LEMMA InitTyped == Init => TypeInv
<1>. SUFFICES ASSUME Init  PROVE TypeInv
    OBVIOUS
<1>1. ScanDepth \in Nat /\ MaxChanges \in Nat /\ FirstGit \subseteq [Dirs -> GitEntries]
    BY DiscoveryAssumption DEF DiscoveryAssumption, GitEntries
<1>2. pending \in Seq(Pending)
    BY DEF Init
<1>. QED
    BY <1>1, <1>2 DEF Init, TypeInv, TypeOK, Walking, Looking, DiskStates

LEMMA NextTyped ==
    ASSUME TypeInv, [Next]_vars
    PROVE  TypeInv'
<1>. USE RootFacts DEF TypeInv, TypeOK
<1>1. ASSUME NEW n \in Configured, RootFails(n)  PROVE TypeInv'
  <2>1. [from |-> Top, path |-> n, kind |-> "InaccessibleRoot"] \in Issues
    BY DEF Issues, Kinds
  <2>2. issues' \subseteq Issues
    BY <1>1, <2>1 DEF RootFails, Report
  <2>. QED
    BY <1>1, <2>2 DEF RootFails, worldVars, Walking, Looking
<1>2. ASSUME NEW n \in Configured, RootAgain(n)  PROVE TypeInv'
    BY <1>2 DEF RootAgain, worldVars, foundVars, Walking, Looking
<1>3. ASSUME NEW n \in Configured, StartWalk(n)  PROVE TypeInv'
  <2>1. RootOf[n] \in Roots /\ RootOf[n] \in Dirs /\ ScanDepth \in Nat
    BY DiscoveryAssumption DEF DiscoveryAssumption
  <2>2. [path |-> RootOf[n], depth |-> 0] \in Pending
    BY <2>1 DEF Pending
  <2>3. pending' \in Seq(Pending)
    BY <1>3, <2>2 DEF StartWalk
  <2>5. <<RootOf[n], RootOf[n]>> \in Roots \X Dirs /\ queued \subseteq Roots \X Dirs
    BY <2>1
  <2>6. queued' \subseteq Roots \X Dirs
    BY <1>3, <2>5 DEF StartWalk
  <2>4. /\ left' \subseteq Configured /\ canonicalRoots' \subseteq Roots /\ root' = RootOf[n]
        /\ visited' = {} /\ queued' \subseteq Roots \X Dirs /\ pc' = "walk"
        /\ disk' = disk /\ git' = git /\ changes' = changes /\ steady' = steady
        /\ UNCHANGED <<here, depth, below, repositories, issues, looked, named>>
    BY <1>3, <2>1, <2>6 DEF StartWalk, worldVars
  <2>. QED
    BY <2>1, <2>3, <2>4 DEF Walking, Looking
<1>4. ASSUME WalkEnds  PROVE TypeInv'
    BY <1>4 DEF WalkEnds, worldVars, foundVars, Walking, Looking
<1>5. ASSUME AllWalked  PROVE TypeInv'
    BY <1>5 DEF AllWalked, worldVars, foundVars, Walking, Looking
<1>6. ASSUME Visit  PROVE TypeInv'
  <2>. DEFINE path == pending[1].path  level == pending[1].depth
  <2>1. /\ pc = "walk" /\ root \in Roots /\ path \in Dirs /\ level \in 0 .. ScanDepth
        /\ pending' \in Seq(Pending)
    BY <1>6, VisitFacts
  <2>2. \/ Refuse(path, level = 0) \/ ReadBefore(path)
        \/ CannotRead(path, level = 0) \/ Read(path, level)
    BY <1>6, VisitFacts DEF Visit
  <2>3. UNCHANGED <<worldVars, left, canonicalRoots, root, repositories, queued, named>>
    BY <1>6 DEF Visit
  <2>. HIDE DEF path, level
  <2>4. CASE Refuse(path, level = 0)
    <3>0. Canonical(path) \in Dirs \cup {Top} /\ root \in Dirs
        BY <2>1, CanonicalFacts, RootFacts
    <3>1. issues' \subseteq Issues
        BY <2>1, <2>4, <3>0, ReportTyped DEF Refuse, Kinds
    <3>. QED
        BY <2>1, <2>3, <2>4, <3>1 DEF Refuse, worldVars, Walking, Looking
  <2>5. CASE ReadBefore(path)
    BY <2>1, <2>3, <2>5 DEF ReadBefore, worldVars, Walking, Looking
  <2>6. CASE CannotRead(path, level = 0)
    <3>1. Canonical(path) \in Dirs
        BY <2>1, <2>6, CanonicalFacts DEF CannotRead
    <3>2. issues' \subseteq Issues
        BY <2>1, <2>6, <3>1, ReportTyped DEF CannotRead, Kinds, KindOf
    <3>. QED
        BY <2>1, <2>3, <2>6, <3>1, <3>2 DEF CannotRead, worldVars, Walking, Looking
  <2>7. CASE Read(path, level)
    <3>1. Canonical(path) \in Dirs
        BY <2>1, <2>7, CanonicalFacts DEF Read
    <3>2. below' \subseteq Dirs /\ (below' # {} => level < ScanDepth)
        BY <2>1, <2>7, DiscoveryAssumption DEF Read, ChildrenOf, DiscoveryAssumption
    <3>3. here' = Canonical(path) /\ depth' = level /\ issues' = issues
          /\ visited' = visited \cup {Canonical(path)}
          /\ looked' = looked \cup {<<root, Canonical(path)>>}
          /\ pc' \in {"below", "metadata"}
        BY <2>7 DEF Read
    <3>4. <<root, Canonical(path)>> \in Roots \X Dirs /\ looked \subseteq Roots \X Dirs
        BY <2>1, <3>1
    <3>5. visited' \subseteq Dirs /\ looked' \subseteq Roots \X Dirs
        BY <3>1, <3>3, <3>4
    <3>. QED
        BY <2>1, <2>3, <3>1, <3>2, <3>3, <3>5 DEF worldVars, Walking, Looking
  <2>. QED
    BY <2>2, <2>4, <2>5, <2>6, <2>7
<1>7. ASSUME InspectGit  PROVE TypeInv'
  <2>1. here \in Dirs /\ root \in Dirs
    BY <1>7 DEF InspectGit, Walking, Looking
  <2>2. issues' \subseteq Issues
    BY <1>7, <2>1, ReportTyped DEF InspectGit, Kinds
  <2>. QED
    BY <1>7, <2>2 DEF InspectGit, worldVars, Walking, Looking
<1>8. ASSUME AskGit  PROVE TypeInv'
  <2>1. here \in Dirs /\ root \in Dirs
    BY <1>8 DEF AskGit, Walking, Looking
  <2>2. CASE Report(root, here, "InvalidGitMetadata") /\ UNCHANGED <<repositories, named>>
    <3>1. issues' \subseteq Issues
        BY <2>1, <2>2, ReportTyped DEF Kinds
    <3>. QED
        BY <1>8, <2>2, <3>1 DEF AskGit, worldVars, Walking, Looking
  <2>3. CASE ~(Report(root, here, "InvalidGitMetadata") /\ UNCHANGED <<repositories, named>>)
    <3>. DEFINE c == CommonOf[Max(Worktrees(here))]
    <3>2. repositories' = Keep(repositories, c, here) /\ named' = named \cup {<<c, here>>}
          /\ issues' = issues /\ Worktrees(here) # {}
        BY <1>8, <2>3 DEF AskGit
    <3>1. c \in Dirs
        BY <2>1, <3>2, InnermostFacts
    <3>. HIDE DEF c
    <3>3. repositories' \in [Dirs -> Dirs \cup {0}]
        BY <2>1, <3>1, <3>2 DEF Keep
    <3>. QED
        BY <1>8, <2>1, <3>1, <3>2, <3>3 DEF AskGit, worldVars, Walking, Looking
  <2>. QED
    BY <2>2, <2>3
<1>9. ASSUME QueueBelow  PROVE TypeInv'
  <2>1. pending' \in Seq(Pending)
    BY <1>9, QueuedFacts
  <2>2. root \in Roots
    BY <1>9 DEF QueueBelow, Walking
  <2>. QED
    BY <1>9, <2>1, <2>2 DEF QueueBelow, worldVars, Walking, Looking
<1>10. ASSUME DirectoryChanges  PROVE TypeInv'
  <2>1. disk' \in [Dirs -> DiskStates] /\ steady' \subseteq Dirs
    <3>1. PICK d \in Dirs, s \in DiskStates :
            disk' = [disk EXCEPT ![d] = s] /\ steady' = steady \ {d}
        BY <1>10 DEF DirectoryChanges
    <3>. QED
        BY <3>1
  <2>2. changes' \in 0 .. MaxChanges
    BY <1>10, DiscoveryAssumption DEF DirectoryChanges, DiscoveryAssumption
  <2>. QED
    BY <1>10, <2>1, <2>2 DEF DirectoryChanges, walkVars, foundVars, Walking, Looking
<1>11. ASSUME GitChanges  PROVE TypeInv'
  <2>1. git' \in [Dirs -> GitEntries] /\ steady' \subseteq Dirs
    BY <1>11 DEF GitChanges
  <2>2. changes' \in 0 .. MaxChanges
    BY <1>11, DiscoveryAssumption DEF GitChanges, DiscoveryAssumption
  <2>. QED
    BY <1>11, <2>1, <2>2 DEF GitChanges, walkVars, foundVars, Walking, Looking
<1>12. CASE UNCHANGED vars
    BY <1>12 DEF vars, worldVars, walkVars, foundVars, Walking, Looking
<1>. QED
    BY <1>1, <1>2, <1>3, <1>4, <1>5, <1>6, <1>7, <1>8, <1>9, <1>10, <1>11, <1>12
       DEF Next, Discover, TreeChanges, Finished

\* The types hold, and no directory is queued below scan_depth.
THEOREM DiscoveryTyped == Spec => []TypeOK
<1>1. TypeInv => TypeOK
    BY DEF TypeInv
<1>. QED
    BY <1>1, InitTyped, NextTyped, PTL DEF Spec

----------------------------------------------------------------------------
(***************************************************************************)
(* What lop reports (Sound).                                               *)
(***************************************************************************)

\* Other programs touch one directory, and nothing of lop's.
LEMMA TreeChangesFacts ==
    ASSUME TypeInv, TreeChanges
    PROVE  /\ UNCHANGED <<pc, left, canonicalRoots, root, pending, visited, here, depth, below>>
           /\ UNCHANGED <<repositories, issues, queued, looked, named>>
           /\ steady' \subseteq steady /\ steady' # Dirs
           /\ \A d \in steady' : disk'[d] = disk[d] /\ git'[d] = git[d]
<1>1. CASE DirectoryChanges
  <2>1. PICK d \in Dirs, s \in DiskStates :
            disk' = [disk EXCEPT ![d] = s] /\ steady' = steady \ {d}
    BY <1>1 DEF DirectoryChanges
  <2>2. \A e \in steady' : disk'[e] = disk[e]
    BY <2>1 DEF TypeInv, TypeOK
  <2>. QED
    BY <1>1, <2>1, <2>2 DEF DirectoryChanges, walkVars, foundVars
<1>2. CASE GitChanges
  <2>1. PICK d \in Dirs, g \in GitEntries :
            git' = [git EXCEPT ![d] = g] /\ steady' = steady \ {d}
    BY <1>2 DEF GitChanges
  <2>2. \A e \in steady' : git'[e] = git[e]
    BY <2>1 DEF TypeInv, TypeOK
  <2>. QED
    BY <1>2, <2>1, <2>2 DEF GitChanges, walkVars, foundVars
<1>. QED
    BY <1>1, <1>2 DEF TreeChanges

\* A step of the walk changes nothing on disk.
LEMMA DiscoverFacts ==
    ASSUME Discover
    PROVE  disk' = disk /\ git' = git /\ steady' = steady
BY DEF Discover, RootFails, RootAgain, StartWalk, WalkEnds, AllWalked, Visit, InspectGit,
    AskGit, QueueBelow, worldVars

\* Asking git is the only step that finds something, and it finds it here.
LEMMA AskGitFacts ==
    ASSUME TypeInv, AskGit
    PROVE  /\ pc = "revParse" /\ pc' = "below" /\ here \in Dirs /\ root \in Roots
           /\ UNCHANGED <<left, canonicalRoots, root, pending, visited, here, depth, below,
                          queued, looked>>
           /\ \/ /\ Worktrees(here) # {} /\ issues' = issues
                 /\ \E c \in Dirs :
                     /\ c = CommonOf[Max(Worktrees(here))]
                     /\ repositories' = Keep(repositories, c, here)
                     /\ named' = named \cup {<<c, here>>}
              \/ /\ Report(root, here, "InvalidGitMetadata")
                 /\ repositories' = repositories /\ named' = named
<1>1. here \in Dirs /\ root \in Roots
    BY DEF AskGit, TypeInv, Walking, Looking
<1>2. Worktrees(here) # {} => CommonOf[Max(Worktrees(here))] \in Dirs
    BY <1>1, InnermostFacts DEF TypeInv
<1>. QED
    BY <1>1, <1>2 DEF AskGit

\* Other steps of the walk find nothing.
LEMMA OthersFindNothing ==
    ASSUME Next, ~AskGit
    PROVE  repositories' = repositories /\ named' = named
BY DEF Next, Discover, TreeChanges, Finished, vars, RootFails, RootAgain, StartWalk, WalkEnds,
    AllWalked, Visit, InspectGit, QueueBelow, DirectoryChanges, GitChanges, foundVars

LEMMA SmallestKeptNext ==
    ASSUME TypeInv, SmallestKept, [Next]_vars
    PROVE  SmallestKept'
<1>1. CASE repositories' = repositories /\ named' = named
    BY <1>1 DEF SmallestKept
<1>2. ASSUME NEW c \in Dirs, here \in Dirs, repositories' = Keep(repositories, c, here),
             named' = named \cup {<<c, here>>}
      PROVE  SmallestKept'
  <2>. DEFINE now == repositories'[c]
  <2>1. repositories \in [Dirs -> Dirs \cup {0}] /\ here \in Nat /\ here # 0
    BY <1>2, ParentFacts DEF TypeInv, TypeOK
  <2>2. /\ \A e \in Dirs : e # c => repositories'[e] = repositories[e]
        /\ now = IF repositories[c] = 0 \/ here < repositories[c] THEN here ELSE repositories[c]
    BY <1>2, <2>1 DEF Keep
  <2>3. \A e, d \in Dirs : e # c => (<<e, d>> \in named' <=> <<e, d>> \in named)
    BY <1>2
  <2>4. \A d \in Dirs : <<c, d>> \in named' <=> (<<c, d>> \in named \/ d = here)
    BY <1>2
  <2>5. <<c, now>> \in named' /\ now # 0
    BY <2>1, <2>2, <1>2 DEF SmallestKept
  <2>6. ASSUME NEW d \in Dirs, <<c, d>> \in named'  PROVE now <= d
    <3>1. repositories[c] \in Nat /\ d \in Nat
        BY <2>1, ParentFacts
    <3>2. CASE d = here
        BY <2>1, <2>2, <3>1, <3>2
    <3>3. CASE <<c, d>> \in named
        <4>1. repositories[c] <= d /\ repositories[c] # 0
            BY <3>3 DEF SmallestKept
        <4>. QED
            BY <2>1, <2>2, <3>1, <4>1
    <3>. QED
        BY <2>4, <2>6, <3>2, <3>3
  <2>7. ASSUME NEW e \in Dirs, e # c
        PROVE  /\ repositories'[e] = 0 => \A d \in Dirs : <<e, d>> \notin named'
               /\ repositories'[e] # 0 => <<e, repositories'[e]>> \in named'
               /\ \A d \in Dirs : <<e, d>> \in named' => repositories'[e] <= d /\ repositories'[e] # 0
    <3>1. repositories'[e] = repositories[e] /\ \A d \in Dirs : <<e, d>> \in named' <=> <<e, d>> \in named
        BY <2>2, <2>3, <2>7
    <3>2. named \subseteq named'
        BY <1>2
    <3>. QED
        BY <3>1, <3>2 DEF SmallestKept
  <2>. QED
    BY <2>5, <2>6, <2>7 DEF SmallestKept
<1>3. CASE AskGit
    BY <1>1, <1>2, <1>3, AskGitFacts
<1>4. CASE UNCHANGED vars
    BY <1>1, <1>4 DEF vars, foundVars
<1>. QED
    BY <1>1, <1>3, <1>4, OthersFindNothing

\* A place at most scan_depth below the root being walked is in scope of it.
LEMMA PlacedInScope ==
    ASSUME NEW d \in Dirs, NEW level \in 0 .. ScanDepth, Placed(d, level)
    PROVE  InScope(root, d)
BY DiscoveryAssumption DEF Placed, InScope, Distance, DiscoveryAssumption

LEMMA NamedWithinNext ==
    ASSUME TypeInv, NamedWithin, WithinRoot, [Next]_vars
    PROVE  NamedWithin'
<1>0. steady' = Dirs => steady = Dirs
  <2>1. CASE TreeChanges
    BY <2>1, TreeChangesFacts
  <2>. QED
    BY <2>1, DiscoverFacts DEF Next, Finished, vars, worldVars
<1>1. CASE named' = named
    BY <1>0, <1>1 DEF NamedWithin, InScope
<1>2. ASSUME NEW c \in Dirs, pc = "revParse", here \in Dirs, root \in Roots,
             named' = named \cup {<<c, here>>}
      PROVE  NamedWithin'
  <2>1. root \in Above[here]
    BY <1>2 DEF WithinRoot, Looking
  <2>2. steady' = Dirs => InScope(root, here)
    BY <1>0, <1>2, PlacedInScope DEF WithinRoot, Looking, TypeInv, TypeOK
  <2>3. ASSUME NEW p \in named'
        PROVE  \E r \in Roots : r \in Above[p[2]] /\ (steady' = Dirs => InScope(r, p[2]))
    <3>1. CASE p \in named
        BY <1>0, <3>1 DEF NamedWithin
    <3>2. CASE p = <<c, here>>
        <4>1. p[2] = here
            BY <3>2
        <4>. QED
            BY <1>2, <2>1, <2>2, <4>1
    <3>. QED
        BY <1>2, <3>1, <3>2
  <2>. QED
    BY <2>3 DEF NamedWithin, InScope
<1>3. CASE AskGit
    BY <1>1, <1>2, <1>3, AskGitFacts
<1>4. CASE UNCHANGED vars
    BY <1>1, <1>4 DEF vars, foundVars
<1>. QED
    BY <1>1, <1>3, <1>4, OthersFindNothing

\* What a directory in scope contains is one deeper.
LEMMA ChildPlaced ==
    ASSUME TypeInv, NEW d \in Dirs, here \in Dirs, Placed(here, depth), Parent[d] = here,
           d \notin Ignored
    PROVE  Placed(d, depth + 1)
<1>1. here # Top
    BY DiscoveryAssumption DEF DiscoveryAssumption
<1>2. root \in Above[d] /\ root # d
  <2>1. Above[d] = {d} \cup Above[here]
    BY <1>1, AboveFacts
  <2>2. here < d /\ root <= here /\ here \in Nat /\ d \in Nat /\ root \in Nat
    BY <1>1, ParentFacts, AboveFacts DEF Placed
  <2>. QED
    BY <2>1, <2>2 DEF Placed
<1>3. Above[d] \ Above[root] = {d} \cup (Above[here] \ Above[root])
      /\ Distance(root, d) = Distance(root, here) + 1
    BY <1>2, DistanceFacts
<1>. QED
    BY <1>2, <1>3 DEF Placed

\* While nothing changes there are no links: what is read is what was queued.
LEMMA UnchangedTree ==
    ASSUME TypeOK, \A e \in Dirs : disk[e] = "readable", NEW d \in Dirs
    PROVE  Canonical(d) = d
BY DEF Canonical

LEMMA WithinRootNext ==
    ASSUME TypeInv, WithinRoot, [Next]_vars
    PROVE  WithinRoot'
<1>1. ASSUME NEW n \in Configured, RootFails(n) \/ RootAgain(n)  PROVE WithinRoot'
    BY <1>1 DEF WithinRoot, RootFails, RootAgain, worldVars, Walking, Looking
<1>2. ASSUME NEW n \in Configured, StartWalk(n)  PROVE WithinRoot'
  <2>1. /\ pc' = "walk" /\ root' = RootOf[n] /\ RootOf[n] \in Dirs /\ disk' = disk /\ steady' = steady
        /\ pending' = <<[path |-> RootOf[n], depth |-> 0]>>
    BY <1>2, RootFacts DEF StartWalk, worldVars
  <2>2. Placed(RootOf[n], 0)'
    BY <2>1, AboveFacts, DistanceFacts DEF Placed, Distance
  <2>3. ASSUME NEW i \in 1 .. Len(pending')
        PROVE  pending'[i].path = RootOf[n] /\ pending'[i].depth = 0
    <3>1. i = 1
        BY <2>1, <2>3
    <3>. QED
        BY <2>1, <3>1
  <2>4. \A i \in 1 .. Len(pending') : Placed(pending[i].path, pending[i].depth)'
    BY <2>1, <2>2, <2>3 DEF Placed, Distance
  <2>. QED
    BY <2>1, <2>4 DEF WithinRoot, Looking, Walking
<1>3. CASE WalkEnds \/ AllWalked
    BY <1>3 DEF WithinRoot, WalkEnds, AllWalked, worldVars, Walking, Looking
<1>4. ASSUME Visit  PROVE WithinRoot'
  <2>. DEFINE path == pending[1].path  level == pending[1].depth
  <2>1. /\ pc = "walk" /\ path \in Dirs /\ 1 \in 1 .. Len(pending)
        /\ \A i \in 1 .. Len(pending') : i + 1 \in 1 .. Len(pending) /\ pending'[i] = pending[i + 1]
    BY <1>4, VisitFacts
  <2>2. root' = root /\ disk' = disk /\ steady' = steady
    BY <1>4 DEF Visit, worldVars
  <2>3. steady = Dirs => \A i \in 1 .. Len(pending') : Placed(pending[i].path, pending[i].depth)'
    BY <2>1, <2>2 DEF WithinRoot, Walking, Placed, Distance
  <2>4. steady = Dirs => Placed(path, level) /\ Canonical(path) = path
    BY <2>1, UnchangedTree DEF WithinRoot, Walking, TypeInv
  <2>5. \/ pc' = pc /\ ~Looking'
        \/ Read(path, level)
    BY <1>4, <2>1, VisitFacts DEF Visit, Refuse, ReadBefore, CannotRead, Looking
  <2>. HIDE DEF path, level
  <2>6. CASE ~Looking'
    BY <2>1, <2>2, <2>3, <2>6 DEF WithinRoot
  <2>7. CASE Read(path, level)
    <3>1. /\ here' = Canonical(path) /\ depth' = level /\ root \in Above[Canonical(path)]
          /\ below' \subseteq ChildrenOf(Canonical(path)) \ Ignored
        BY <2>7 DEF Read, IsSafe
    <3>2. steady = Dirs => Placed(here, depth)'
        BY <2>2, <2>4, <3>1 DEF Placed, Distance
    <3>3. \A d \in below' : Parent[d] = here' /\ d \notin Ignored
        BY <3>1 DEF ChildrenOf
    <3>. QED
        BY <2>1, <2>2, <2>3, <3>1, <3>2, <3>3 DEF WithinRoot
  <2>. QED
    BY <2>5, <2>6, <2>7
<1>5. CASE InspectGit
    BY <1>5 DEF WithinRoot, InspectGit, worldVars, Walking, Looking, Placed, Distance
<1>6. CASE AskGit
    BY <1>6 DEF WithinRoot, AskGit, worldVars, Walking, Looking, Placed, Distance
<1>7. ASSUME QueueBelow  PROVE WithinRoot'
  <2>1. /\ pc' = "walk" /\ disk' = disk /\ steady' = steady /\ root' = root
        /\ pc = "below" /\ here \in Dirs /\ below \subseteq Dirs
    BY <1>7, QueuedFacts DEF QueueBelow, worldVars
  <2>2. ASSUME steady = Dirs, NEW i \in 1 .. Len(pending')
        PROVE  Placed(pending[i].path, pending[i].depth)'
    <3>1. CASE i \in 1 .. Len(pending)
        <4>1. pending'[i] = pending[i] /\ Placed(pending[i].path, pending[i].depth)
            BY <1>7, <2>1, <2>2, <3>1, QueuedFacts DEF WithinRoot, Walking
        <4>. QED
            BY <2>1, <4>1 DEF Placed, Distance
    <3>2. CASE i > Len(pending)
        <4>1. pending'[i].path \in below /\ pending'[i].depth = depth + 1
            BY <1>7, <3>2, QueuedFacts
        <4>2. Placed(pending'[i].path, depth + 1)
            BY <2>1, <2>2, <4>1, ChildPlaced DEF WithinRoot, Looking
        <4>. QED
            BY <2>1, <4>1, <4>2 DEF Placed, Distance
    <3>3. Len(pending) \in Nat
        BY <1>7, QueuedFacts
    <3>. QED
        BY <3>1, <3>2, <3>3
  <2>. QED
    BY <2>1, <2>2 DEF WithinRoot, Looking
<1>8. CASE TreeChanges
    BY <1>8, TreeChangesFacts DEF WithinRoot, Looking
<1>9. CASE UNCHANGED vars
    BY <1>9 DEF vars, worldVars, walkVars, foundVars, WithinRoot, Walking, Looking, Placed, Distance
<1>. QED
    BY <1>1, <1>2, <1>3, <1>4, <1>5, <1>6, <1>7, <1>8, <1>9 DEF Next, Discover, Finished

LEMMA SoundInvImpliesSound ==
    ASSUME TypeInv, SoundInv
    PROVE  Sound
<1>. SUFFICES ASSUME NEW c \in Dirs
              PROVE  LET places == {place[2] : place \in {p \in named : p[1] = c}} IN
                     /\ repositories[c] = 0 <=> places = {}
                     /\ \A d \in places :
                         /\ repositories[c] <= d
                         /\ \E r \in Roots : r \in Above[d]
                         /\ steady = Dirs => \E r \in Roots : InScope(r, d)
                     /\ repositories[c] \in places \cup {0}
    BY DEF Sound
<1>. DEFINE places == {place[2] : place \in {p \in named : p[1] = c}}
<1>1. \A d : d \in places <=> d \in Dirs /\ <<c, d>> \in named
    BY DEF TypeInv, TypeOK
<1>2. repositories[c] \in Dirs \cup {0}
    BY DEF TypeInv, TypeOK
<1>. HIDE DEF places
<1>3. repositories[c] = 0 => places = {}
    BY <1>1 DEF SoundInv, SmallestKept
<1>4. repositories[c] # 0 => repositories[c] \in places
    BY <1>1, <1>2 DEF SoundInv, SmallestKept
<1>5. \A d \in places : repositories[c] <= d
    BY <1>1 DEF SoundInv, SmallestKept
<1>6. ASSUME NEW d \in places
      PROVE  \E r \in Roots : r \in Above[d] /\ (steady = Dirs => InScope(r, d))
  <2>1. <<c, d>> \in named /\ <<c, d>>[2] = d
    BY <1>1
  <2>. QED
    BY <2>1 DEF SoundInv, NamedWithin
<1>. QED
    BY <1>3, <1>4, <1>5, <1>6 DEF places

\* A repository is reported once for its common directory, at the smallest path
\* Git named it from, whatever the order of the roots; that path is within a
\* configured root, and while nothing changes in scope of it.
THEOREM DiscoverySound == Spec => []Sound
<1>1. Init => SoundInv
  <2>. SUFFICES ASSUME Init  PROVE SoundInv
    OBVIOUS
  <2>1. SmallestKept /\ NamedWithin
    BY DEF Init, SmallestKept, NamedWithin
  <2>2. WithinRoot
    BY DEF Init, WithinRoot, Walking, Looking
  <2>. QED
    BY <2>1, <2>2 DEF SoundInv
<1>2. TypeInv /\ SoundInv /\ [Next]_vars => SoundInv'
    BY SmallestKeptNext, NamedWithinNext, WithinRootNext DEF SoundInv
<1>3. TypeInv /\ SoundInv => Sound
    BY SoundInvImpliesSound
<1>. QED
    BY <1>1, <1>2, <1>3, InitTyped, NextTyped, PTL DEF Spec

----------------------------------------------------------------------------
(***************************************************************************)
(* What lop does not drop (NothingDropped).                                *)
(***************************************************************************)

\* What was read, reported or walked stays so, and no root is to walk again.
LEMMA HistoryGrows ==
    ASSUME TypeInv, [Next]_vars
    PROVE  /\ looked \subseteq looked' /\ issues \subseteq issues'
           /\ canonicalRoots \subseteq canonicalRoots' /\ left' \subseteq left
<1>1. CASE \E n \in Configured : RootFails(n) \/ RootAgain(n) \/ StartWalk(n)
    BY <1>1 DEF RootFails, RootAgain, StartWalk, Report, foundVars
<1>2. CASE WalkEnds \/ AllWalked \/ InspectGit \/ AskGit \/ QueueBelow
    BY <1>2 DEF WalkEnds, AllWalked, InspectGit, AskGit, QueueBelow, Report, foundVars
<1>3. CASE Visit
    BY <1>3 DEF Visit, Refuse, ReadBefore, CannotRead, Read, Report
<1>4. CASE TreeChanges
    BY <1>4, TreeChangesFacts
<1>5. CASE UNCHANGED vars
    BY <1>5 DEF vars, walkVars, foundVars
<1>. QED
    BY <1>1, <1>2, <1>3, <1>4, <1>5 DEF Next, Discover, Finished

LEMMA AccountedStays ==
    ASSUME TypeInv, [Next]_vars, NEW r, NEW d, Accounted(r, d)
    PROVE  Accounted(r, d)'
BY HistoryGrows DEF Accounted

\* A visit reads the directory, or what it leads to, or gives it an issue, or
\* finds it accounted for.
LEMMA VisitAccounts ==
    ASSUME TypeInv, DroppedInv, Visit, NEW path, path = pending[1].path
    PROVE  /\ Accounted(root, path)' \/ Accounted(root, LinkTo[path])'
           /\ \A d \in visited' : Accounted(root, d)'
<1>1. /\ path \in Dirs /\ root' = root /\ Canonical(path) \in {path, LinkTo[path]}
    BY VisitFacts, CanonicalFacts DEF Visit, TypeInv
<1>2. ASSUME NEW d \in visited  PROVE Accounted(root, d)'
  <2>1. Accounted(root, d)
    BY VisitFacts DEF DroppedInv, Walking
  <2>2. [Next]_vars
    BY DEF Next, Discover
  <2>. QED
    BY <1>1, <2>1, <2>2, AccountedStays DEF Accounted
<1>. DEFINE level == pending[1].depth
<1>3. \/ Refuse(path, level = 0) \/ ReadBefore(path)
      \/ CannotRead(path, level = 0) \/ Read(path, level)
    BY VisitFacts DEF Visit
<1>. HIDE DEF level
<1>4. ASSUME NEW from, NEW d, NEW kind \in Kinds, Report(from, d, kind), from = root
      PROVE  Accounted(root, d)'
    BY <1>1, <1>4 DEF Report, Accounted
<1>5. PICK c : c = Canonical(path)
    OBVIOUS
<1>6. CASE Refuse(path, level = 0)
    BY <1>1, <1>2, <1>4, <1>6 DEF Refuse, Kinds
<1>7. CASE ReadBefore(path)
    BY <1>1, <1>2, <1>7 DEF ReadBefore
<1>8. CASE CannotRead(path, level = 0)
  <2>1. visited' = visited \cup {c} /\ Report(root, c, KindOf(level = 0))
    BY <1>8, <1>5 DEF CannotRead
  <2>2. KindOf(level = 0) \in Kinds
    BY DEF KindOf, Kinds
  <2>3. Accounted(root, c)'
    BY <1>4, <2>1, <2>2
  <2>. QED
    BY <1>1, <1>2, <1>5, <2>1, <2>3
<1>9. CASE Read(path, level)
  <2>1. visited' = visited \cup {c} /\ looked' = looked \cup {<<root, c>>}
    BY <1>9, <1>5 DEF Read
  <2>2. Accounted(root, c)'
    BY <1>1, <2>1 DEF Accounted
  <2>. QED
    BY <1>1, <1>2, <1>5, <2>1, <2>2
<1>. QED
    BY <1>3, <1>6, <1>7, <1>8, <1>9

LEMMA DroppedInvNext ==
    ASSUME TypeInv, DroppedInv, [Next]_vars
    PROVE  DroppedInv'
<1>. DEFINE Kept(r, d) == Accounted(r, d) \/ Accounted(r, LinkTo[d])
            Waiting(r, d) ==
                Walking /\ r = root /\ \E i \in 1 .. Len(pending) : pending[i].path = d
<1>1. \A n \in Configured : n \in left' \/ RootAccounted(n)'
  <2>1. ASSUME NEW n \in Configured, n \notin left \/ n \in left', n \notin left'
        PROVE  RootAccounted(n)'
    BY <2>1, HistoryGrows DEF DroppedInv, RootAccounted
  <2>2. ASSUME NEW n \in Configured, RootFails(n)  PROVE RootAccounted(n)'
    <3>1. [from |-> Top, path |-> n, kind |-> "InaccessibleRoot"] \in issues'
        BY <2>2 DEF RootFails, Report
    <3>. QED
        BY <3>1 DEF RootAccounted
  <2>3. ASSUME NEW n \in Configured, RootAgain(n) \/ StartWalk(n)  PROVE RootAccounted(n)'
    BY <2>3 DEF RootAgain, StartWalk, RootAccounted
  <2>4. \/ \E n \in Configured : RootFails(n) /\ left' = left \ {n}
        \/ \E n \in Configured : (RootAgain(n) \/ StartWalk(n)) /\ left' = left \ {n}
        \/ left' = left
    <3>1. CASE TreeChanges
        BY <3>1, TreeChangesFacts
    <3>. QED
        BY <3>1 DEF Next, Discover, Finished, vars, walkVars, RootFails, RootAgain, StartWalk,
            WalkEnds, AllWalked, Visit, InspectGit, AskGit, QueueBelow
  <2>. QED
    BY <2>1, <2>2, <2>3, <2>4
<1>2. pc' = "done" => left' = {}
  <2>1. CASE TreeChanges
    BY <2>1, TreeChangesFacts DEF DroppedInv
  <2>2. CASE Visit
    BY <2>2 DEF Visit, Refuse, ReadBefore, CannotRead, Read
  <2>. QED
    BY <2>1, <2>2 DEF DroppedInv, Next, Discover, Finished, vars, walkVars, RootFails, RootAgain,
        StartWalk, WalkEnds, AllWalked, InspectGit, AskGit, QueueBelow
<1>3. ASSUME NEW r \in Roots, NEW d \in Dirs, Kept(r, d)  PROVE Kept(r, d)'
    BY <1>3, AccountedStays
<1>4. CASE UNCHANGED <<pc, root, pending, visited, queued>>
  <2>1. \A r \in Roots, d \in Dirs : <<r, d>> \in queued' => (Kept(r, d) \/ Waiting(r, d))'
    BY <1>3, <1>4 DEF DroppedInv, Walking
  <2>2. Walking' => \A d \in visited' : Accounted(root, d)'
    BY <1>4, AccountedStays DEF DroppedInv, Walking, Accounted
  <2>. QED
    BY <1>1, <1>2, <2>1, <2>2 DEF DroppedInv
<1>5. ASSUME NEW n \in Configured, StartWalk(n)  PROVE DroppedInv'
  <2>1. /\ pc = "roots" /\ pc' = "walk" /\ root' = RootOf[n] /\ visited' = {}
        /\ pending' = <<[path |-> RootOf[n], depth |-> 0]>>
        /\ queued' = queued \cup {<<RootOf[n], RootOf[n]>>}
    BY <1>5 DEF StartWalk
  <2>2. Waiting(RootOf[n], RootOf[n])'
    BY <2>1 DEF Walking
  <2>3. \A r \in Roots, d \in Dirs : <<r, d>> \in queued' => (Kept(r, d) \/ Waiting(r, d))'
    BY <1>3, <2>1, <2>2 DEF DroppedInv, Walking
  <2>. QED
    BY <1>1, <1>2, <2>1, <2>3 DEF DroppedInv
<1>6. CASE WalkEnds
  <2>1. pending = <<>> /\ queued' = queued /\ ~Walking'
    BY <1>6 DEF WalkEnds, foundVars, Walking
  <2>2. \A r \in Roots, d \in Dirs : <<r, d>> \in queued' => Kept(r, d)'
    BY <1>3, <2>1 DEF DroppedInv
  <2>. QED
    BY <1>1, <1>2, <2>1, <2>2 DEF DroppedInv
<1>7. CASE AllWalked
  <2>1. ~Walking /\ ~Walking' /\ queued' = queued
    BY <1>7 DEF AllWalked, foundVars, Walking
  <2>2. \A r \in Roots, d \in Dirs : <<r, d>> \in queued' => Kept(r, d)'
    BY <1>3, <2>1 DEF DroppedInv
  <2>. QED
    BY <1>1, <1>2, <2>1, <2>2 DEF DroppedInv
<1>8. CASE Visit
  <2>1. Walking' /\ root' = root /\ queued' = queued
    BY <1>8 DEF Visit, Refuse, ReadBefore, CannotRead, Read, Walking
  <2>2. ASSUME NEW d \in Dirs, Waiting(root, d)  PROVE (Kept(root, d) \/ Waiting(root, d))'
    <3>1. PICK i \in 1 .. Len(pending) : pending[i].path = d
        BY <2>2
    <3>2. CASE i = 1
        BY <1>8, <2>1, <3>1, <3>2, VisitAccounts DEF Accounted
    <3>3. CASE i # 1
        <4>1. i - 1 \in 1 .. Len(pending') /\ (i - 1) + 1 = i
            BY <1>8, <3>3, VisitFacts
        <4>2. pending'[i - 1].path = d
            BY <1>8, <3>1, <4>1, VisitFacts
        <4>. QED
            BY <2>1, <4>1, <4>2
    <3>. QED
        BY <3>2, <3>3
  <2>3. \A r \in Roots, d \in Dirs : <<r, d>> \in queued' => (Kept(r, d) \/ Waiting(r, d))'
    BY <1>3, <2>1, <2>2 DEF DroppedInv
  <2>4. \A d \in visited' : Accounted(root, d)'
    BY <1>8, <2>1, VisitAccounts DEF Accounted
  <2>. QED
    BY <1>1, <1>2, <2>3, <2>4 DEF DroppedInv
<1>9. CASE InspectGit \/ AskGit
  <2>1. Walking /\ Walking' /\ UNCHANGED <<root, pending, visited, queued>>
    BY <1>9 DEF InspectGit, AskGit, Walking
  <2>2. \A r \in Roots, d \in Dirs : <<r, d>> \in queued' => (Kept(r, d) \/ Waiting(r, d))'
    BY <1>3, <2>1 DEF DroppedInv
  <2>3. \A d \in visited' : Accounted(root, d)'
    BY <2>1, AccountedStays DEF DroppedInv, Accounted
  <2>. QED
    BY <1>1, <1>2, <2>2, <2>3 DEF DroppedInv
<1>10. CASE QueueBelow
  <2>1. Walking /\ Walking' /\ root' = root /\ visited' = visited
        /\ queued' = queued \cup ({root} \X below)
    BY <1>10 DEF QueueBelow, Walking
  <2>2. ASSUME NEW d \in Dirs, d \in below \/ Waiting(root, d)  PROVE Waiting(root, d)'
    BY <1>10, <2>1, <2>2, QueuedFacts
  <2>3. ASSUME NEW r \in Roots, NEW d \in Dirs, <<r, d>> \in queued'
        PROVE  (Kept(r, d) \/ Waiting(r, d))'
    <3>1. CASE <<r, d>> \in queued
        <4>1. Kept(r, d) \/ (r = root /\ Waiting(root, d))
            BY <3>1 DEF DroppedInv
        <4>. HIDE DEF Kept, Waiting
        <4>2. CASE Kept(r, d)
            BY <1>3, <4>2
        <4>3. CASE r = root /\ Waiting(root, d)
            BY <2>1, <2>2, <4>3 DEF Waiting
        <4>. QED
            BY <4>1, <4>2, <4>3
    <3>2. CASE <<r, d>> \in {root} \X below
        <4>1. r = root /\ d \in below
            BY <3>2
        <4>2. Waiting(root, d)'
            BY <2>2, <4>1
        <4>. QED
            BY <2>1, <4>1, <4>2
    <3>. QED
        BY <2>1, <2>3, <3>1, <3>2
  <2>4. \A d \in visited' : Accounted(root, d)'
    BY <2>1, AccountedStays DEF DroppedInv, Accounted
  <2>. QED
    BY <1>1, <1>2, <2>3, <2>4 DEF DroppedInv
<1>11. UNCHANGED <<pc, root, pending, visited, queued>>
       \/ (\E n \in Configured : StartWalk(n)) \/ WalkEnds \/ AllWalked \/ Visit
       \/ (InspectGit \/ AskGit) \/ QueueBelow
  <2>1. CASE TreeChanges
    BY <2>1, TreeChangesFacts
  <2>. QED
    BY <2>1 DEF Next, Discover, Finished, vars, walkVars, foundVars, RootFails, RootAgain
<1>. QED
    BY <1>4, <1>5, <1>6, <1>7, <1>8, <1>9, <1>10, <1>11

\* Nothing disappears without a word: by the end each configured root was
\* walked or has an issue, and each directory ever queued was read, or has an
\* issue, or was a link to a directory of which one of these is true.
THEOREM DiscoveryDropsNothing == Spec => []NothingDropped
<1>1. Init => DroppedInv
    BY DEF Init, DroppedInv, Walking
<1>2. TypeInv /\ DroppedInv /\ [Next]_vars => DroppedInv'
    BY DroppedInvNext
<1>3. TypeInv /\ DroppedInv => NothingDropped
  <2>. SUFFICES ASSUME TypeInv, DroppedInv, pc = "done"
                PROVE  /\ \A n \in Configured : RootAccounted(n)
                       /\ \A entry \in queued :
                           \E d \in {entry[2], LinkTo[entry[2]]} : Accounted(entry[1], d)
    BY DEF NothingDropped, RootAccounted, Accounted
  <2>1. left = {} /\ ~Walking
    BY DEF DroppedInv, Walking
  <2>2. ASSUME NEW entry \in queued
        PROVE  entry = <<entry[1], entry[2]>> /\ entry[1] \in Roots /\ entry[2] \in Dirs
    BY DEF TypeInv, TypeOK
  <2>. QED
    BY <2>1, <2>2 DEF DroppedInv
<1>. QED
    BY <1>1, <1>2, <1>3, InitTyped, NextTyped, PTL DEF Spec

----------------------------------------------------------------------------
(***************************************************************************)
(* What lop finds (Complete).                                              *)
(***************************************************************************)

\* What nobody has touched resolves to itself, and so does all above it.
LEMMA HeldFacts ==
    ASSUME TypeInv, Untouched, NEW d \in Dirs, Held(d)
    PROVE  /\ d \in steady /\ disk[d] = "readable" /\ Canonical(d) = d /\ Resolves(d)
           /\ GitAt(d) = git[d] /\ \A e \in Above[d] : e \in Dirs /\ Held(e)
<1>1. d \in Above[d] /\ Above[d] \subseteq Dirs /\ \A e \in Above[d] : Above[e] \subseteq Above[d]
    BY AboveFacts
<1>2. \A e \in Above[d] : disk[e] = "readable"
    BY DEF Held, Untouched
<1>3. Canonical(d) = d
    BY <1>1, <1>2 DEF Canonical
<1>4. Present(d)
    BY <1>1, <1>2 DEF Present
<1>5. Resolves(d)
    BY <1>1, <1>2, <1>3, <1>4 DEF Resolves
<1>6. GitAt(d) = git[d]
  <2>1. d # Top
    BY DiscoveryAssumption DEF DiscoveryAssumption
  <2>. QED
    BY <1>1, <1>2, <1>3, <1>5, <2>1 DEF GitAt
<1>. QED
    BY <1>1, <1>2, <1>3, <1>5, <1>6 DEF Held

\* Nothing becomes untouched, and what stays so keeps its content.
LEMMA HeldShrinks ==
    ASSUME TypeInv, [Next]_vars
    PROVE  /\ steady' \subseteq steady
           /\ \A d \in steady' : disk'[d] = disk[d] /\ git'[d] = git[d]
           /\ \A d \in Dirs : Held(d)' => Held(d) /\ d \in steady'
<1>1. steady' \subseteq steady /\ \A d \in steady' : disk'[d] = disk[d] /\ git'[d] = git[d]
  <2>1. CASE TreeChanges
    BY <2>1, TreeChangesFacts
  <2>. QED
    BY <2>1, DiscoverFacts DEF Next, Finished, vars, worldVars
<1>. QED
    BY <1>1, AboveFacts DEF Held

LEMMA UntouchedNext ==
    ASSUME TypeInv, Untouched, [Next]_vars
    PROVE  Untouched'
<1>1. \A d \in steady' : disk'[d] = "readable"
    BY HeldShrinks DEF Untouched
<1>2. ASSUME NEW n \in Configured, n \notin left', Held(RootOf[n])'
      PROVE  RootOf[n] \in canonicalRoots'
  <2>1. RootOf[n] \in Dirs /\ Held(RootOf[n])
    BY <1>2, HeldShrinks, RootFacts
  <2>2. CASE n \notin left
    BY <2>1, <2>2, HistoryGrows DEF Untouched
  <2>3. CASE n \in left
    <3>1. RootFails(n) \/ RootAgain(n) \/ StartWalk(n)
        <4>1. CASE TreeChanges
            BY <1>2, <2>3, <4>1, TreeChangesFacts
        <4>. QED
            BY <1>2, <2>3, <4>1 DEF Next, Discover, Finished, vars, walkVars, RootFails, RootAgain,
                StartWalk, WalkEnds, AllWalked, Visit, InspectGit, AskGit, QueueBelow
    <3>2. Resolves(RootOf[n])
        BY <2>1, HeldFacts
    <3>. QED
        BY <3>1, <3>2 DEF RootFails, RootAgain, StartWalk
  <2>. QED
    BY <2>2, <2>3
<1>3. pc' = "done" => left' = {}
  <2>1. CASE TreeChanges
    BY <2>1, TreeChangesFacts DEF Untouched
  <2>2. CASE Visit
    BY <2>2 DEF Visit, Refuse, ReadBefore, CannotRead, Read
  <2>. QED
    BY <2>1, <2>2 DEF Untouched, Next, Discover, Finished, vars, walkVars, RootFails, RootAgain,
        StartWalk, WalkEnds, AllWalked, InspectGit, AskGit, QueueBelow
<1>. QED
    BY <1>1, <1>2, <1>3 DEF Untouched

\* A step of the walk itself, or one that leaves the walk where it is.
LEMMA WalkSteps ==
    ASSUME TypeInv, [Next]_vars
    PROVE  \/ \E n \in Configured : StartWalk(n)
           \/ WalkEnds \/ Visit \/ QueueBelow
           \/ /\ Walking' = Walking /\ Looking' = Looking /\ canonicalRoots' = canonicalRoots
              /\ UNCHANGED <<root, pending, visited, here, depth, below>>
              /\ \/ InspectGit \/ AskGit
                 \/ (pc' = pc \/ ~Walking) /\ repositories' = repositories
<1>1. CASE TreeChanges
    BY <1>1, TreeChangesFacts DEF Walking, Looking
<1>2. ASSUME NEW n \in Configured, RootFails(n) \/ RootAgain(n)
      PROVE  /\ pc' = pc /\ repositories' = repositories /\ canonicalRoots' = canonicalRoots
             /\ UNCHANGED <<root, pending, visited, here, depth, below>>
    BY <1>2 DEF RootFails, RootAgain, foundVars
<1>3. CASE AllWalked
    BY <1>3 DEF AllWalked, foundVars, Walking, Looking
<1>4. CASE InspectGit \/ AskGit
    BY <1>4 DEF InspectGit, AskGit, Walking, Looking
<1>5. CASE UNCHANGED vars
    BY <1>5 DEF vars, walkVars, foundVars, Walking, Looking
<1>. QED
    BY <1>1, <1>2, <1>3, <1>4, <1>5 DEF Next, Discover, Finished, Walking, Looking

LEMMA PendingTyped ==
    ASSUME TypeInv, NEW i \in 1 .. Len(pending)
    PROVE  pending[i].path \in Dirs /\ pending[i].depth \in 0 .. ScanDepth
<1>1. pending[i] \in Pending
    BY DEF TypeInv, TypeOK
<1>. QED
    BY <1>1 DEF Pending

LEMMA LevelsNext ==
    ASSUME TypeInv, Levels, [Next]_vars
    PROVE  Levels'
<1>0. depth \in Int /\ \A i \in 1 .. Len(pending) : pending[i].depth \in Int
    BY PendingTyped DEF TypeInv, TypeOK
<1>1. ASSUME NEW n \in Configured, StartWalk(n)  PROVE Levels'
  <2>1. pc' = "walk" /\ pending' = <<[path |-> RootOf[n], depth |-> 0]>>
    BY <1>1 DEF StartWalk
  <2>2. ASSUME NEW i \in 1 .. Len(pending')  PROVE pending'[i].depth = 0
    <3>1. i = 1
        BY <2>1, <2>2
    <3>. QED
        BY <2>1, <3>1
  <2>. QED
    BY <2>1, <2>2 DEF Levels, Looking
<1>2. CASE WalkEnds
    BY <1>2 DEF WalkEnds, Levels, Walking
<1>3. CASE Visit
  <2>1. /\ Walking /\ 1 \in 1 .. Len(pending) /\ Len(pending) \in Nat
        /\ Len(pending') = Len(pending) - 1
        /\ \A i \in 1 .. Len(pending') :
            i + 1 \in 1 .. Len(pending) /\ pending'[i] = pending[i + 1]
    BY <1>3, VisitFacts DEF Walking
  <2>2. ~Looking' \/ depth' = pending[1].depth
    BY <1>3, VisitFacts DEF Visit, Refuse, ReadBefore, CannotRead, Read, Looking
  <2>3. ASSUME NEW i \in 1 .. Len(pending'), NEW j \in 1 .. Len(pending')
        PROVE  /\ i <= j => pending'[i].depth <= pending'[j].depth
               /\ pending'[j].depth <= pending'[i].depth + 1
    <3>1. i <= j => i + 1 <= j + 1
        BY <2>1
    <3>. QED
        BY <2>1, <3>1 DEF Levels
  <2>4. ASSUME NEW i \in 1 .. Len(pending')
        PROVE  pending'[i].depth \in {pending[1].depth, pending[1].depth + 1}
    <3>1. 1 <= i + 1 /\ i + 1 \in 1 .. Len(pending)
        BY <2>1
    <3>2. pending[1].depth <= pending[i + 1].depth /\ pending[i + 1].depth <= pending[1].depth + 1
        BY <2>1, <3>1 DEF Levels
    <3>3. pending[1].depth \in Int /\ pending[i + 1].depth \in Int
        BY <1>0, <2>1, <3>1
    <3>4. pending[i + 1].depth = pending[1].depth \/ pending[i + 1].depth = pending[1].depth + 1
        BY <3>2, <3>3
    <3>. QED
        BY <2>1, <3>4
  <2>. QED
    BY <2>2, <2>3, <2>4 DEF Levels
<1>4. CASE QueueBelow
  <2>1. pc' = "walk" /\ Walking /\ Looking
    BY <1>4 DEF QueueBelow, Walking, Looking
  <2>2. ASSUME NEW i \in 1 .. Len(pending')
        PROVE  \/ i \in 1 .. Len(pending) /\ pending'[i] = pending[i]
                  /\ pending'[i].depth \in {depth, depth + 1}
               \/ i > Len(pending) /\ pending'[i].depth = depth + 1
    <3>1. CASE i \in 1 .. Len(pending)
        BY <1>4, <2>1, <3>1, QueuedFacts DEF Levels
    <3>2. CASE i > Len(pending)
        BY <1>4, <3>2, QueuedFacts
    <3>. QED
        BY <1>4, <3>1, <3>2, QueuedFacts
  <2>3. ASSUME NEW i \in 1 .. Len(pending'), NEW j \in 1 .. Len(pending')
        PROVE  /\ i <= j => pending'[i].depth <= pending'[j].depth
               /\ pending'[j].depth <= pending'[i].depth + 1
    <3>1. pending'[i].depth \in {depth, depth + 1} /\ pending'[j].depth \in {depth, depth + 1}
        BY <2>2
    <3>2. pending'[j].depth <= pending'[i].depth + 1
        BY <1>0, <3>1
    <3>3. ASSUME i <= j  PROVE pending'[i].depth <= pending'[j].depth
        <4>1. CASE i \in 1 .. Len(pending) /\ j \in 1 .. Len(pending)
            BY <1>4, <2>1, <3>3, <4>1, QueuedFacts DEF Levels
        <4>2. CASE pending'[j].depth = depth + 1
            BY <1>0, <3>1, <4>2
        <4>3. CASE i > Len(pending) /\ j \in 1 .. Len(pending)
            BY <1>4, <3>3, <4>3, QueuedFacts
        <4>. QED
            BY <2>2, <4>1, <4>2, <4>3
    <3>. QED
        BY <3>2, <3>3
  <2>. QED
    BY <2>1, <2>3 DEF Levels, Looking
<1>5. CASE Walking' = Walking /\ Looking' = Looking
           /\ UNCHANGED <<root, pending, visited, here, depth, below>>
    BY <1>5 DEF Levels
<1>. QED
    BY <1>1, <1>2, <1>3, <1>4, <1>5, WalkSteps

\* What lies between the root and a directory in scope of it is in scope too,
\* no further away, and held when the directory is.
LEMMA BetweenInScope ==
    ASSUME NEW r \in Dirs, NEW d \in Dirs, InScope(r, d), NEW e \in Above[d], r \in Above[e]
    PROVE  /\ InScope(r, e) /\ Distance(r, e) \in Nat /\ Distance(r, d) \in Nat
           /\ Distance(r, e) <= Distance(r, d) /\ Distance(r, d) <= ScanDepth
           /\ Held(d) => Held(e)
<1>1. r \in Above[d] /\ Above[e] \subseteq Above[d] /\ Distance(r, d) <= ScanDepth
      /\ (Above[d] \ Above[r]) \cap Ignored = {}
    BY AboveFacts DEF InScope, Distance
<1>2. Distance(r, e) \in Nat /\ Distance(r, e) <= Distance(r, d) /\ Distance(r, d) \in Nat
    BY <1>1, DistanceFacts
<1>3. Distance(r, e) <= ScanDepth
    BY <1>1, <1>2, DiscoveryAssumption DEF DiscoveryAssumption
<1>. QED
    BY <1>1, <1>2, <1>3 DEF InScope, Distance, Held

\* The queue is in the order of depths: while a held directory in scope is not
\* read, the next entry is no deeper than it.  The highest directory on the way
\* to it that is not read is pending.
LEMMA NextNoDeeper ==
    ASSUME TypeInv, Levels, Frontier, pc = "walk",
           NEW d \in Dirs, Held(d), InScope(root, d), d \notin visited
    PROVE  1 \in 1 .. Len(pending) /\ pending[1].depth <= Distance(root, d)
<1>. DEFINE Unread == {a \in Above[d] : root \in Above[a] /\ a \notin visited}
<1>1. root \in Roots /\ root \in Dirs /\ Walking /\ ~Looking
    BY RootFacts DEF TypeInv, Walking, Looking
<1>2. d \in Unread /\ Unread \in SUBSET Nat
    BY AboveFacts, ParentFacts DEF InScope
<1>3. PICK a \in Unread : \A b \in Unread : a <= b
    BY <1>2, LeastNat
<1>4. /\ a \in Dirs /\ InScope(root, a) /\ Held(a)
      /\ Distance(root, a) \in Nat /\ Distance(root, d) \in Nat
      /\ Distance(root, a) <= Distance(root, d)
    BY <1>1, AboveFacts, BetweenInScope
<1>5. a = root \/ Parent[a] \in visited
  <2>1. SUFFICES ASSUME a # root  PROVE Parent[a] \in visited
    OBVIOUS
  <2>2. Parent[a] \in Dirs /\ root \in Above[Parent[a]] /\ Above[Parent[a]] \subseteq Above[a]
    BY <1>4, <2>1, DistanceFacts
  <2>3. Parent[a] \in Above[d] /\ Parent[a] < a /\ ~(a <= Parent[a])
    BY <1>4, <2>2, AboveFacts, ParentFacts, DiscoveryAssumption DEF DiscoveryAssumption
  <2>. QED
    BY <1>3, <2>2, <2>3
<1>6. PICK i \in 1 .. Len(pending) : pending[i].path = a /\ pending[i].depth <= Distance(root, a)
    BY <1>1, <1>4, <1>5 DEF Frontier, Coming
<1>7. 1 \in 1 .. Len(pending) /\ 1 <= i
    OBVIOUS
<1>8. pending[1].depth <= pending[i].depth
    BY <1>1, <1>7 DEF Levels
<1>9. pending[1].depth \in Nat /\ pending[i].depth \in Nat
    BY <1>7, PendingTyped
<1>. QED
    BY <1>4, <1>6, <1>7, <1>8, <1>9

\* What a walk has still to read stays pending, one place earlier after a visit.
LEMMA VisitKeepsComing ==
    ASSUME TypeInv, Visit, NEW d \in Dirs, Coming(d), d # pending[1].path
    PROVE  Coming(d)'
<1>1. pc = "walk" /\ ~Looking /\ root' = root /\ Len(pending) \in Nat
      /\ Len(pending') = Len(pending) - 1
      /\ \A i \in 1 .. Len(pending') : pending'[i] = pending[i + 1]
    BY VisitFacts DEF Visit, Looking
<1>2. PICK i \in 1 .. Len(pending) : pending[i].path = d /\ pending[i].depth <= Distance(root, d)
    BY <1>1 DEF Coming
<1>3. i # 1
    BY <1>2
<1>4. i - 1 \in 1 .. Len(pending') /\ (i - 1) + 1 = i
    BY <1>1, <1>3
<1>5. pending'[i - 1] = pending[i]
    BY <1>1, <1>4
<1>. QED
    BY <1>1, <1>2, <1>4, <1>5 DEF Coming, Distance

\* A held directory within the root is read when its turn comes.
LEMMA HeldIsRead ==
    ASSUME TypeInv, Untouched, Visit, NEW path, path = pending[1].path, Held(path),
           root \in Above[path]
    PROVE  path \in visited'
<1>1. path \in Dirs
    BY VisitFacts
<1>2. Resolves(path) /\ Canonical(path) = path /\ disk[path] = "readable"
    BY <1>1, HeldFacts
<1>3. path # Top
    BY <1>1, DiscoveryAssumption DEF DiscoveryAssumption
<1>4. IsSafe(path)
    BY <1>2, <1>3 DEF IsSafe
<1>5. \/ Refuse(path, pending[1].depth = 0) \/ ReadBefore(path)
      \/ CannotRead(path, pending[1].depth = 0) \/ Read(path, pending[1].depth)
    BY VisitFacts DEF Visit
<1>. QED
    BY <1>2, <1>4, <1>5 DEF Refuse, ReadBefore, CannotRead, Read

LEMMA FrontierNext ==
    ASSUME TypeInv, Untouched, Levels, Frontier, [Next]_vars
    PROVE  Frontier'
<1>1. ASSUME NEW n \in Configured, StartWalk(n)  PROVE Frontier'
  <2>1. /\ pc' = "walk" /\ root' = RootOf[n] /\ visited' = {} /\ RootOf[n] \in Dirs
        /\ pending' = <<[path |-> RootOf[n], depth |-> 0]>>
    BY <1>1, RootFacts DEF StartWalk
  <2>2. Distance(RootOf[n], RootOf[n]) = 0
    BY <2>1, AboveFacts, DistanceFacts
  <2>3. Coming(RootOf[n])'
    BY <2>1, <2>2 DEF Coming, Distance
  <2>. QED
    BY <2>1, <2>3 DEF Frontier
<1>2. CASE WalkEnds
    BY <1>2 DEF WalkEnds, Frontier, Walking
<1>3. CASE Visit
  <2>. SUFFICES ASSUME NEW d \in Dirs, Held(d)', InScope(root', d), d \notin visited',
                       d = root' \/ Parent[d] \in visited'
                PROVE  Coming(d)'
    BY DEF Frontier, InScope
  <2>1. /\ pc = "walk" /\ root' = root /\ root \in Roots /\ root \in Dirs /\ visited \subseteq visited'
        /\ Walking
    BY <1>3, VisitFacts, RootFacts DEF Visit, Refuse, ReadBefore, CannotRead, Read, Walking
  <2>2. Held(d) /\ InScope(root, d) /\ d \notin visited /\ root \in Above[d]
    BY <2>1, HeldShrinks DEF InScope
  <2>3. CASE d = root \/ Parent[d] \in visited
    <3>1. Coming(d)
        BY <2>1, <2>2, <2>3 DEF Frontier
    <3>2. d # pending[1].path
        BY <1>3, <2>2, HeldIsRead
    <3>. QED
        BY <1>3, <3>1, <3>2, VisitKeepsComing
  <2>4. CASE d # root /\ Parent[d] \notin visited
    <3>. DEFINE path == pending[1].path  level == pending[1].depth
    <3>1. PICK x : x = Parent[d]
        OBVIOUS
    <3>2. x \in Dirs /\ root \in Above[x] /\ x \in Above[d] /\ Distance(root, d) = Distance(root, x) + 1
        BY <2>2, <2>4, <3>1, DistanceFacts, AboveFacts
    <3>3. Held(x) /\ InScope(root, x) /\ x \notin visited /\ x \in visited'
        BY <2>1, <2>2, <2>4, <3>1, <3>2, BetweenInScope
    <3>4. disk[x] = "readable" /\ disk[d] = "readable" /\ d # Top
        BY <2>2, <3>2, <3>3, HeldFacts, DiscoveryAssumption DEF DiscoveryAssumption
    <3>5. Read(path, level) /\ Canonical(path) = x
        <4>1. \/ Refuse(path, level = 0) \/ ReadBefore(path)
              \/ CannotRead(path, level = 0) \/ Read(path, level)
            BY <1>3, VisitFacts DEF Visit
        <4>. HIDE DEF path, level
        <4>. QED
            BY <3>3, <3>4, <4>1 DEF Refuse, ReadBefore, CannotRead, Read
    <3>6. level <= Distance(root, x) /\ level \in Nat /\ Distance(root, x) \in Nat
        BY <1>3, <2>1, <3>2, <3>3, NextNoDeeper, VisitFacts, BetweenInScope, AboveFacts
    <3>7. Distance(root, d) <= ScanDepth /\ ScanDepth \in Nat
        BY <2>2, DiscoveryAssumption DEF InScope, Distance, DiscoveryAssumption
    <3>8. ~(level >= ScanDepth) /\ level + 1 <= Distance(root, d)
        BY <3>2, <3>6, <3>7
    <3>9. d \in ChildrenOf(x) \ Ignored
        <4>1. d \notin Above[root]
            BY <2>1, <2>2, <2>4, <3>2, DistanceFacts
        <4>. QED
            BY <2>2, <3>1, <3>4, <4>1, AboveFacts DEF InScope, ChildrenOf
    <3>. HIDE DEF path, level
    <3>10. below' = ChildrenOf(x) \ Ignored /\ depth' = level /\ pc' \in {"below", "metadata"}
        BY <3>5, <3>8 DEF Read
    <3>. QED
        BY <2>1, <3>8, <3>9, <3>10 DEF Coming, Looking, Distance
  <2>. QED
    BY <2>1, <2>3, <2>4
<1>4. CASE QueueBelow
  <2>. SUFFICES ASSUME NEW d \in Dirs, Held(d)', InScope(root', d), d \notin visited',
                       d = root' \/ Parent[d] \in visited'
                PROVE  Coming(d)'
    BY DEF Frontier, InScope
  <2>1. root' = root /\ visited' = visited /\ Walking
    BY <1>4 DEF QueueBelow, Walking
  <2>2. Coming(d)
    BY <2>1, HeldShrinks DEF Frontier, InScope
  <2>3. CASE \E i \in 1 .. Len(pending) :
                pending[i].path = d /\ pending[i].depth <= Distance(root, d)
    BY <1>4, <2>1, <2>3, QueuedFacts DEF Coming, Distance
  <2>4. CASE d \in below /\ depth + 1 <= Distance(root, d)
    BY <1>4, <2>1, <2>4, QueuedFacts DEF Coming, Distance
  <2>. QED
    BY <2>2, <2>3, <2>4 DEF Coming
<1>5. CASE Walking' = Walking /\ Looking' = Looking
           /\ UNCHANGED <<root, pending, visited, here, depth, below>>
    BY <1>5, HeldShrinks DEF Frontier, InScope, Coming, Distance
<1>. QED
    BY <1>1, <1>2, <1>3, <1>4, <1>5, WalkSteps

\* A path found for a common directory is only ever replaced by a smaller one.
LEMMA KeepFacts ==
    ASSUME TypeInv, NEW c \in Dirs, NEW path \in Dirs, repositories' = Keep(repositories, c, path)
    PROVE  /\ repositories'[c] \in 1 .. path
           /\ \A e \in Dirs, d \in Dirs : repositories[e] \in 1 .. d => repositories'[e] \in 1 .. d
<1>1. /\ repositories \in [Dirs -> Dirs \cup {0}] /\ path \in Nat /\ path # 0
      /\ repositories[c] \in Nat
    BY ParentFacts DEF TypeInv, TypeOK
<1>2. repositories'[c] = IF repositories[c] = 0 \/ path < repositories[c]
                         THEN path ELSE repositories[c]
    BY <1>1 DEF Keep
<1>3. ASSUME NEW e \in Dirs, NEW d \in Dirs, repositories[e] \in 1 .. d
      PROVE  repositories'[e] \in 1 .. d
  <2>1. CASE e # c
    <3>1. repositories'[e] = repositories[e]
        BY <1>1, <2>1 DEF Keep
    <3>. QED
        BY <1>3, <3>1
  <2>2. CASE e = c
    BY <1>1, <1>2, <1>3, <2>2, ParentFacts
  <2>. QED
    BY <2>1, <2>2
<1>. QED
    BY <1>1, <1>2, <1>3

\* What is found or reported in a directory nobody touches stays so.
LEMMA FoundStays ==
    ASSUME TypeInv, [Next]_vars, NEW r, NEW d \in Dirs, d \in steady', Found(r, d)
    PROVE  Found(r, d)'
<1>1. git'[d] = git[d] /\ CommonOf[d] \in Dirs /\ issues \subseteq issues'
    BY HeldShrinks, HistoryGrows, DiscoveryAssumption DEF DiscoveryAssumption
<1>2. CASE repositories' = repositories
    BY <1>1, <1>2 DEF Found
<1>3. CASE AskGit
  <2>1. ASSUME NEW c \in Dirs, repositories' = Keep(repositories, c, here)  PROVE Found(r, d)'
    BY <1>1, <1>3, <2>1, AskGitFacts, KeepFacts DEF Found
  <2>. QED
    BY <1>2, <1>3, <2>1, AskGitFacts
<1>. QED
    BY <1>2, <1>3, OthersFindNothing DEF vars, foundVars

\* git, when it answers, names a held main repository by itself: it is the innermost of its
\* worktrees.
LEMMA AskGitFinds ==
    ASSUME TypeInv, Untouched, AskGit, Held(here)
    PROVE  Found(root, here)'
<1>1. here \in Dirs /\ here' = here /\ root' = root /\ git' = git
    BY AskGitFacts DEF AskGit, worldVars
<1>2. SUFFICES ASSUME git[here] = "repository", ~Report(root, here, "InvalidGitMetadata")
               PROVE  repositories'[CommonOf[here]] \in 1 .. here
    BY <1>1 DEF Found, Report
<1>3. Resolves(here) /\ Canonical(here) = here /\ GitAt(here) = "repository" /\ here # Top
    BY <1>1, <1>2, HeldFacts, DiscoveryAssumption DEF DiscoveryAssumption
<1>4. here \in Worktrees(here) /\ Worktrees(here) \subseteq Above[here]
    BY <1>1, <1>3, AboveFacts DEF Worktrees
<1>5. PICK top : top = Max(Worktrees(here))
    OBVIOUS
<1>6. top \in Worktrees(here) /\ here <= top /\ top <= here
    BY <1>1, <1>4, <1>5, InnermostFacts, AboveFacts DEF TypeInv
<1>7. top = here
    BY <1>1, <1>4, <1>6, AboveFacts, ParentFacts
<1>8. PICK c \in Dirs : c = CommonOf[here] /\ repositories' = Keep(repositories, c, here)
    BY <1>2, <1>4, <1>5, <1>7, AskGitFacts
<1>. QED
    BY <1>1, <1>8, KeepFacts

\* What is read is found or reported, or asked about.
LEMMA ReadIsFound ==
    ASSUME TypeInv, Untouched, FoundBehind, [Next]_vars, Walking',
           NEW d \in Dirs, d \in visited', Held(d)'
    PROVE  Found(root, d)' \/ (d = here' /\ pc' \in {"metadata", "revParse"})
<1>0. Held(d) /\ d \in steady' /\ git'[d] = git[d]
    BY HeldShrinks
<1>1. ASSUME NEW n \in Configured, StartWalk(n)  PROVE FALSE
    BY <1>1 DEF StartWalk
<1>8. root' = root
    BY <1>1, WalkSteps DEF WalkEnds, Visit, QueueBelow
<1>9. PICK q : q = root
    OBVIOUS
<1>10. SUFFICES Found(q, d)' \/ (d = here' /\ pc' \in {"metadata", "revParse"})
    BY <1>8, <1>9 DEF Found
<1>2. CASE WalkEnds
    BY <1>2 DEF WalkEnds, Walking
<1>3. CASE Visit
  <2>. DEFINE path == pending[1].path  level == pending[1].depth
  <2>1. \/ Refuse(path, level = 0) \/ ReadBefore(path)
        \/ CannotRead(path, level = 0) \/ Read(path, level)
    BY <1>3, VisitFacts DEF Visit
  <2>. HIDE DEF path, level
  <2>2. CASE d \in visited
    <3>1. Found(q, d)
        BY <1>0, <1>3, <1>9, <2>2, VisitFacts DEF FoundBehind, Walking
    <3>. QED
        BY <1>0, <3>1, FoundStays
  <2>3. CASE d \notin visited
    <3>1. disk[d] = "readable"
        BY <1>0, HeldFacts
    <3>2. d = Canonical(path) /\ Read(path, level)
        BY <2>1, <2>3, <3>1 DEF Refuse, ReadBefore, CannotRead, Read
    <3>3. here' = d /\ (git[d] # "none" => pc' = "metadata")
        BY <3>2 DEF Read
    <3>. QED
        BY <1>0, <3>3 DEF Found
  <2>. QED
    BY <2>2, <2>3
<1>4. CASE QueueBelow
  <2>1. visited' = visited /\ pc = "below"
    BY <1>4 DEF QueueBelow
  <2>. QED
    BY <1>0, <1>9, <2>1, FoundStays DEF FoundBehind, Walking
<1>5. CASE InspectGit
  <2>1. visited' = visited /\ here' = here /\ pc = "metadata" /\ Walking
    BY <1>5 DEF InspectGit, Walking
  <2>2. CASE Found(q, d)
    BY <1>0, <2>2, FoundStays
  <2>3. CASE ~Found(q, d)
    <3>1. d = here /\ git[d] = "repository"
        BY <1>0, <1>9, <2>1, <2>3 DEF FoundBehind, Found
    <3>2. GitAt(here) = "repository"
        BY <1>0, <3>1, HeldFacts
    <3>. QED
        BY <1>5, <2>1, <3>1, <3>2 DEF InspectGit
  <2>. QED
    BY <2>2, <2>3
<1>6. CASE AskGit
  <2>1. visited' = visited /\ here' = here /\ Walking
    BY <1>6 DEF AskGit, Walking
  <2>2. CASE Found(q, d)
    BY <1>0, <2>2, FoundStays
  <2>3. CASE ~Found(q, d)
    <3>1. d = here
        BY <1>0, <1>9, <2>1, <2>3 DEF FoundBehind
    <3>2. Held(here)
        BY <1>0, <3>1
    <3>3. Found(root, here)'
        BY <1>0, <1>6, <3>2, AskGitFinds
    <3>. QED
        BY <1>8, <1>9, <2>1, <3>1, <3>3 DEF Found
  <2>. QED
    BY <2>2, <2>3
<1>7. CASE pc' = pc /\ Walking /\ UNCHANGED <<visited, here>>
    BY <1>0, <1>7, <1>9, FoundStays DEF FoundBehind
<1>. QED
    BY <1>1, <1>2, <1>3, <1>4, <1>5, <1>6, <1>7, WalkSteps

LEMMA FoundBehindNext ==
    ASSUME TypeInv, Untouched, Levels, Frontier, FoundBehind, [Next]_vars
    PROVE  FoundBehind'
<1>1. Walking' => \A d \in visited' :
        Held(d)' => Found(root, d)' \/ (d = here' /\ pc' \in {"metadata", "revParse"})
  <2>1. visited' \subseteq Dirs
    BY NextTyped DEF TypeInv, TypeOK
  <2>. QED
    BY <2>1, ReadIsFound
<1>2. ASSUME NEW r \in canonicalRoots', NEW d \in Dirs, Held(d)', InScope(r, d)
      PROVE  Found(r, d)' \/ (Walking' /\ r = root')
  <2>0. Held(d) /\ d \in steady'
    BY <1>2, HeldShrinks
  <2>1. CASE r \in canonicalRoots /\ Found(r, d)
    BY <2>0, <2>1, FoundStays
  <2>2. CASE r \in canonicalRoots /\ ~Found(r, d)
    <3>1. Walking /\ r = root
        BY <1>2, <2>0, <2>2 DEF FoundBehind
    <3>2. ASSUME WalkEnds  PROVE FALSE
        <4>1. pc = "walk" /\ pending = <<>>
            BY <3>2 DEF WalkEnds
        <4>2. d \in visited
            BY <1>2, <2>0, <3>1, <4>1, NextNoDeeper
        <4>. QED
            BY <2>0, <2>2, <3>1, <4>1, <4>2 DEF FoundBehind
    <3>3. Walking' /\ root' = root
        <4>1. ~(\E n \in Configured : StartWalk(n))
            BY <3>1 DEF StartWalk, Walking
        <4>2. Visit \/ QueueBelow => Walking' /\ root' = root
            BY DEF Visit, Refuse, ReadBefore, CannotRead, Read, QueueBelow, Walking
        <4>. QED
            BY <3>1, <3>2, <4>1, <4>2, WalkSteps
    <3>. QED
        BY <3>1, <3>3
  <2>3. CASE r \notin canonicalRoots
    <3>1. \E n \in Configured : StartWalk(n)
        <4>1. WalkEnds \/ Visit \/ QueueBelow => canonicalRoots' = canonicalRoots
            BY DEF WalkEnds, Visit, QueueBelow
        <4>. QED
            BY <1>2, <2>3, <4>1, WalkSteps
    <3>. QED
        BY <1>2, <2>3, <3>1 DEF StartWalk, Walking
  <2>. QED
    BY <2>1, <2>2, <2>3
<1>. QED
    BY <1>1, <1>2 DEF FoundBehind, InScope

\* A main repository in scope of a configured root that nobody touches, nor
\* anything on the way to it, is found by the end, or reported from that root as
\* one Git would not answer for, whatever happens to the rest of the tree, for
\* every tree, depth and number of changes.
THEOREM DiscoveryComplete == Spec => []Complete
<1>1. Init => CompleteInv
  <2>. SUFFICES ASSUME Init  PROVE CompleteInv
    OBVIOUS
  <2>1. Untouched
    BY DEF Init, Untouched
  <2>2. Levels /\ Frontier /\ FoundBehind
    BY DEF Init, Levels, Frontier, FoundBehind, Walking
  <2>. QED
    BY <2>1, <2>2 DEF CompleteInv
<1>2. TypeInv /\ CompleteInv /\ [Next]_vars => CompleteInv'
    BY UntouchedNext, LevelsNext, FrontierNext, FoundBehindNext DEF CompleteInv
<1>3. TypeInv /\ CompleteInv => Complete
  <2>. SUFFICES ASSUME TypeInv, CompleteInv, pc = "done", NEW n \in Configured, NEW d \in Dirs,
                       InScope(RootOf[n], d), Above[d] \subseteq steady, git[d] = "repository"
                PROVE  Found(RootOf[n], d)
    BY DEF Complete, Found
  <2>1. Untouched /\ FoundBehind /\ left = {} /\ ~Walking /\ Held(d)
    BY DEF CompleteInv, Untouched, Walking, Held
  <2>2. Held(RootOf[n])
    BY <2>1, HeldFacts DEF InScope
  <2>3. RootOf[n] \in canonicalRoots
    BY <2>1, <2>2 DEF Untouched
  <2>. QED
    BY <2>1, <2>3 DEF FoundBehind, Found
<1>. QED
    BY <1>1, <1>2, <1>3, InitTyped, NextTyped, PTL DEF Spec

----------------------------------------------------------------------------
(***************************************************************************)
(* Progress.  No run checks that the walk ends, as `git rev-parse` has no  *)
(* time limit.  But no arrangement of links, and nobody who keeps changing *)
(* the tree, makes lop walk for ever: every step takes a configured root,  *)
(* or reads a directory for the first time in the walk, or leaves less to  *)
(* do with the one just read or in the queue.                              *)
(***************************************************************************)

Stage == [done |-> 0, roots |-> 1, walk |-> 2, below |-> 3, revParse |-> 4, metadata |-> 5][pc]

Nearer ==
    \/ left' \subseteq left /\ left' # left
    \/ left' = left /\ visited \subseteq visited' /\ visited # visited'
    \/ UNCHANGED <<left, visited>> /\ Stage' < Stage
    \/ UNCHANGED <<left, visited>> /\ Stage' = Stage /\ Len(pending') < Len(pending)

\* A turn of the queue shortens it, or reads a directory for the first time.
LEMMA VisitIsNearer ==
    ASSUME TypeInv, Visit
    PROVE  Nearer
<1>. DEFINE path == Head(pending).path  level == Head(pending).depth
<1>1. pc = "walk" /\ pending # <<>> /\ pending' = Tail(pending) /\ UNCHANGED left
    BY DEF Visit
<1>2. CASE Refuse(path, level = 0) \/ ReadBefore(path)
    <2>1. UNCHANGED <<visited, pc>>
        BY <1>2 DEF Refuse, ReadBefore
    <2>2. Len(pending') < Len(pending)
        <3>1. pending \in Seq(Pending)
            BY DEF TypeInv, TypeOK
        <3>. QED
            BY <1>1, <3>1
    <2>. QED
        BY <1>1, <2>1, <2>2 DEF Nearer, Stage
<1>3. CASE CannotRead(path, level = 0) \/ Read(path, level)
    <2>1. visited' = visited \cup {Canonical(path)} /\ Canonical(path) \notin visited
        BY <1>3 DEF CannotRead, Read
    <2>. QED
        BY <1>1, <2>1 DEF Nearer
<1>. QED
    BY <1>2, <1>3 DEF Visit

\* Every step of discover brings its end nearer, whatever links there are and whatever others
\* change, and visited never leaves the finite set of directories.
THEOREM DiscoveryProgresses ==
    Spec => /\ [][Discover => Nearer]_vars
            /\ [][TreeChanges => UNCHANGED <<left, visited, Stage, pending>>]_vars
            /\ [](visited \subseteq Dirs /\ IsFiniteSet(Dirs))
<1>1. TypeInv /\ Discover => Nearer
  <2>. SUFFICES ASSUME TypeInv, Discover  PROVE Nearer
    OBVIOUS
  <2>1. ASSUME NEW n \in Configured, RootFails(n) \/ RootAgain(n) \/ StartWalk(n)
        PROVE  Nearer
    <3>1. n \in left /\ left' = left \ {n}
        BY <2>1 DEF RootFails, RootAgain, StartWalk
    <3>. QED
        BY <3>1 DEF Nearer
  <2>2. CASE WalkEnds \/ AllWalked \/ InspectGit \/ AskGit \/ QueueBelow
    <3>1. UNCHANGED <<left, visited>>
        BY <2>2 DEF WalkEnds, AllWalked, InspectGit, AskGit, QueueBelow
    <3>2. <<pc, pc'>> \in {<<"walk", "roots">>, <<"roots", "done">>, <<"metadata", "revParse">>,
                           <<"metadata", "below">>, <<"revParse", "below">>, <<"below", "walk">>}
        BY <2>2 DEF WalkEnds, AllWalked, InspectGit, AskGit, QueueBelow
    <3>3. Stage' < Stage
        BY <3>2 DEF Stage
    <3>. QED
        BY <3>1, <3>3 DEF Nearer
  <2>. QED
    BY <2>1, <2>2, VisitIsNearer DEF Discover
<1>2. TreeChanges => UNCHANGED <<left, visited, Stage, pending>>
    BY DEF TreeChanges, DirectoryChanges, GitChanges, walkVars, Stage
<1>3. TypeInv => visited \subseteq Dirs /\ IsFiniteSet(Dirs)
    BY DiscoveryAssumption DEF TypeInv, TypeOK
<1>. QED
    BY <1>1, <1>2, <1>3, InitTyped, NextTyped, PTL DEF Spec
=============================================================================
