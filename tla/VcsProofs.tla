------------------------------ MODULE VcsProofs ------------------------------
(***************************************************************************)
(* Theorems about Vcs: what a snapshot is worth, and what an operation that  *)
(* nothing overlaps does.  The invariant comes in layers: the shape of the   *)
(* jobs, what the store holds while nobody is killed and no collection runs  *)
(* beside another operation, what it holds while nothing overlaps, and how   *)
(* far a job that works alone has come.                                      *)
(***************************************************************************)
EXTENDS Vcs, NaturalsInduction, WellFoundedInduction, TLAPS

(* The shape of the jobs *)

Operations ==
    {"none", "snapshot", "write", "rollback", "branch", "merge", "checkout", "collect"}

\* What can be left of the phases of an operation.
Suffixes(op) ==
    CASE op = "none" -> {<<>>}
      [] op = "snapshot" -> {<<"list", "capture">>, <<"capture">>}
      [] op = "write" -> {<<"list", "capture", "write">>, <<"capture", "write">>, <<"write">>}
      [] op = "rollback" ->
            {<<"load", "list", "capture", "list_both", "restore">>,
             <<"list", "capture", "list_both", "restore">>,
             <<"capture", "list_both", "restore">>,
             <<"list_both", "restore">>, <<"restore">>}
      [] op = "branch" ->
            {<<"list", "capture", "list_own", "copy", "head">>,
             <<"capture", "list_own", "copy", "head">>,
             <<"list_own", "copy", "head">>, <<"copy", "head">>, <<"head">>}
      [] op = "merge" ->
            {<<"list", "capture", "compare", "apply", "list", "capture">>,
             <<"capture", "compare", "apply", "list", "capture">>,
             <<"compare", "apply", "list", "capture">>,
             <<"apply", "list", "capture">>, <<"list", "capture">>, <<"capture">>}
      [] op = "checkout" ->
            {<<"list", "clear", "list_branch", "fill">>,
             <<"clear", "list_branch", "fill">>,
             <<"list_branch", "fill">>, <<"fill">>}
      [] op = "collect" ->
            {<<"mark", "sweep_blobs", "sweep_trees">>,
             <<"sweep_blobs", "sweep_trees">>, <<"sweep_trees">>}

Left(j) == Len(j.phases)
Phase(j) == IF j.phases = <<>> THEN "none" ELSE Head(j.phases)

BlobObjects == {Blob(c) : c \in Contents}
TreeObjects == {Tree(f) : f \in Folders}

Jobs ==
    [op : Operations, phases : UNION {Suffixes(op) : op \in Operations},
     rest : SUBSET Paths, entries : Folders,
     put : {Nothing} \cup BlobObjects \cup TreeObjects, open : BOOLEAN,
     folder : Folders, target : {<<>>} \cup (Paths \X Typed),
     keep : SUBSET BlobObjects, before : Folders]

\* A job is in a phase of its operation, and stores an object only in a capture:
\* blobs while it reads, the tree it has read at the end.
WellShaped(j) ==
    /\ j \in Jobs
    /\ j.phases \in Suffixes(j.op)
    /\ j.op = "none" => j = Idle
    /\ j.op = "write" => j.target \in Paths \X Typed
    /\ j.open => j.put # Nothing
    /\ j.put # Nothing => Phase(j) = "capture"
    /\ j.put \in TreeObjects => j.put = Tree(j.entries) /\ j.rest = {}

TypeInv ==
    /\ files \in Folders /\ work \in Folders
    /\ head \in {Nothing} \cup TreeObjects
    /\ stored \subseteq BlobObjects \cup TreeObjects
    /\ torn \subseteq BlobObjects \cup TreeObjects
    /\ job \in [Processes -> Jobs]
    /\ \A p \in Processes : WellShaped(job[p])
    /\ ops \in Nat /\ edits \in Nat /\ killed \in Nat
    /\ overlapped \in BOOLEAN /\ raced \in BOOLEAN
    /\ returned \subseteq Folders
    /\ safe \subseteq returned

-----------------------------------------------------------------------------
(* The store *)

\* A collection that does not race is alone, and so is an operation that nothing
\* overlaps.
Alone ==
    /\ raced => overlapped
    /\ ~raced => \A p, q \in Busy : job[p].op = "collect" => p = q
    /\ ~overlapped => \A p, q \in Busy : p = q

\* While nobody is killed and no collection races: what is torn is being filled,
\* and what was stored or returned is there, if perhaps torn by a writer that
\* found it missing.
Stored ==
    killed = 0 /\ ~raced =>
        /\ \A o \in torn : \E p \in Processes : job[p].open /\ job[p].put = o
        /\ \A p \in Processes :
              /\ job[p].open => job[p].put \in OnDisk
              /\ Blobs(job[p].entries) \subseteq OnDisk \cup {job[p].put}
              /\ job[p].op = "collect" /\ Phase(job[p]) = "sweep_blobs" =>
                    \A f \in returned : Blobs(f) \subseteq job[p].keep
        /\ \A f \in returned : Tree(f) \in OnDisk /\ Blobs(f) \subseteq OnDisk

\* While nothing overlaps, whoever is killed: what is about to be opened is not
\* there, so that what was stored stays whole.
Kept ==
    ~overlapped =>
        /\ \A p \in Processes :
              /\ job[p].put # Nothing /\ ~job[p].open => job[p].put \notin OnDisk
              /\ job[p].op = "collect" /\ Phase(job[p]) = "sweep_blobs" =>
                    \A f \in safe : Blobs(f) \subseteq job[p].keep
        /\ \A f \in safe : Restorable(f)

\* A collection reads no files.
CollectsNothing ==
    \A p \in Processes : job[p].op = "collect" => job[p].entries = Nowhere

StoreInv == Alone /\ CollectsNothing /\ Stored /\ Kept

-----------------------------------------------------------------------------
(* A job that works alone *)

\* Nothing has overlapped and nobody was killed.
Calm == ~overlapped /\ killed = 0

\* A capture has read all but the rest, and what it has yet to read is there.
Capturing(j) ==
    Phase(j) = "capture" =>
        /\ j.rest \subseteq Present(files)
        /\ \A x \in Paths \ j.rest : j.entries[x] = Decode[files[x]]

\* Until it changes the workspace an operation finds it as it was, and then
\* there is a snapshot of it.
Untouched(j) ==
    \/ j.op \in {"write", "branch"}
    \/ j.op = "rollback" /\ Left(j) >= 2
    \/ j.op = "merge" /\ Left(j) >= 4

Snapshot(j) ==
    \/ j.op = "write" /\ Left(j) <= 1
    \/ j.op = "rollback" /\ Left(j) <= 2
    \/ j.op = "merge" /\ Left(j) <= 4

Undone(j) ==
    /\ Untouched(j) => j.before = files
    /\ Snapshot(j) /\ IsText(j.before) => j.before \in safe

\* A rollback has all but the rest as in its tree, and what it has yet to remove
\* is there.
Restoring(j) ==
    j.op = "rollback" =>
        /\ j.folder \in returned
        /\ Phase(j) = "restore" =>
              /\ \A x \in Paths \ j.rest : files[x] = j.folder[x]
              /\ \A x \in j.rest : j.folder[x] = Absent => files[x] # Absent

\* A merge has all but the rest as in the worktree.
Merging(j) ==
    j.op = "merge" =>
        /\ Phase(j) = "compare" => j.entries = Decoded(files)
        /\ Phase(j) = "apply" => j.folder = Decoded(work)
        /\ IsText(j.before) /\ IsText(work) =>
              /\ Phase(j) = "apply" => \A x \in Paths \ j.rest : files[x] = work[x]
              /\ Left(j) <= 2 => files = work

\* A checkout empties the workspace first and then fills it.
CheckingOut(j) ==
    j.op = "checkout" =>
        /\ Phase(j) = "clear" => \A x \in Paths \ j.rest : files[x] = Absent
        /\ Phase(j) = "list_branch" => files = Nowhere
        /\ Phase(j) = "fill" =>
              /\ j.rest \subseteq Present(work)
              /\ \A x \in (Paths \ j.rest) \ Skipped : files[x] = work[x]

\* A new worktree is empty until it is filled from the workspace.
Filling(j) == j.op = "branch" /\ Left(j) <= 2

Branching(j) ==
    Filling(j) =>
        /\ j.rest \subseteq Present(files)
        /\ Phase(j) = "head" => j.rest = {}
        /\ head = Nothing =>
              \A x \in (Paths \ j.rest) \ Skipped : work[x] = files[x]

Progress(j) ==
    /\ Capturing(j) /\ Undone(j) /\ Restoring(j)
    /\ Merging(j) /\ CheckingOut(j) /\ Branching(j)

CalmInv ==
    Calm =>
        /\ \A p \in Processes : Progress(job[p])
        /\ head = Nothing => work = Nowhere \/ \E p \in Processes : Filling(job[p])

VcsInv == TypeInv /\ StoreInv /\ CalmInv

-----------------------------------------------------------------------------
(* Constants, names and phases *)

\* What is stored is told apart by its kind, and nothing is neither.
LEMMA Tags ==
    /\ \A c : Blob(c)[1] = "blob"
    /\ \A f : Tree(f)[1] = "tree"
    /\ Nothing[1] = "none"
BY DEF Blob, Tree, Nothing

LEMMA Kinds ==
    /\ \A c : Blob(c) # Nothing
    /\ \A f : Tree(f) # Nothing
    /\ \A c, f : Blob(c) # Tree(f)
<1>1. "blob" # "tree" /\ "blob" # "none" /\ "tree" # "none"
  OBVIOUS
<1>2. \A c : Blob(c) # Nothing
  BY <1>1, Tags, Zenon
<1>3. \A f : Tree(f) # Nothing
  BY <1>1, Tags, Zenon
<1>4. \A c, f : Blob(c) # Tree(f)
  BY <1>1, Tags, Zenon
<1> QED
  BY <1>2, <1>3, <1>4

\* The first of some paths is one of them.
LEMMA FirstIsIn ==
    ASSUME NEW S \in SUBSET Paths, S # {}
    PROVE  First(S) \in S
<1>1. S \in SUBSET Nat
  BY VcsAssumption DEF VcsAssumption
<1>2. PICK x \in S : \A y \in S : <<y, x>> \notin OpToRel(<, Nat)
  BY <1>1, WFMin, NatLessThanWellFounded
<1>3. \A y \in S : x <= y
  <2> SUFFICES ASSUME NEW y \in S PROVE x <= y
    OBVIOUS
  <2>1. y < x => <<y, x>> \in OpToRel(<, Nat)
    BY <1>1 DEF OpToRel
  <2>2. ~(y < x)
    BY <1>2, <2>1
  <2>3. x \in Nat /\ y \in Nat
    BY <1>1
  <2> QED
    BY <2>2, <2>3
<1> QED
  BY <1>3 DEF First

\* Reading a workspace gives a workspace with the same paths, and reading it
\* again the same one.
LEMMA DecodedFolder ==
    ASSUME NEW f \in Folders
    PROVE  /\ Decoded(f) \in Folders
           /\ Present(Decoded(f)) = Present(f)
           /\ IsText(Decoded(f))
<1>1. \A x \in Paths : /\ Decode[f[x]] \in Contents \cup {Absent}
                       /\ Decode[f[x]] = Absent <=> f[x] = Absent
                       /\ Decode[Decode[f[x]]] = Decode[f[x]]
  BY VcsAssumption DEF VcsAssumption, Folders
<1> QED
  BY <1>1 DEF Decoded, Present, IsText, Folders

LEMMA NowhereIsFolder == Nowhere \in Folders /\ Blobs(Nowhere) = {}
BY DEF Nowhere, Folders, Blobs, Present

\* The blobs of a tree have contents.
LEMMA BlobsAreBlobs ==
    ASSUME NEW f \in Folders
    PROVE  Blobs(f) \subseteq BlobObjects
BY DEF Blobs, Present, Folders, BlobObjects

\* The phases a job can be in, by what is left of them.
AtStage(j) ==
    /\ j.op = "none" => Left(j) = 0 /\ Phase(j) = "none"
    /\ j.op = "snapshot" =>
          \/ Left(j) = 2 /\ Phase(j) = "list"
          \/ Left(j) = 1 /\ Phase(j) = "capture"
    /\ j.op = "write" =>
          \/ Left(j) = 3 /\ Phase(j) = "list"
          \/ Left(j) = 2 /\ Phase(j) = "capture"
          \/ Left(j) = 1 /\ Phase(j) = "write"
    /\ j.op = "rollback" =>
          \/ Left(j) = 5 /\ Phase(j) = "load"
          \/ Left(j) = 4 /\ Phase(j) = "list"
          \/ Left(j) = 3 /\ Phase(j) = "capture"
          \/ Left(j) = 2 /\ Phase(j) = "list_both"
          \/ Left(j) = 1 /\ Phase(j) = "restore"
    /\ j.op = "branch" =>
          \/ Left(j) = 5 /\ Phase(j) = "list"
          \/ Left(j) = 4 /\ Phase(j) = "capture"
          \/ Left(j) = 3 /\ Phase(j) = "list_own"
          \/ Left(j) = 2 /\ Phase(j) = "copy"
          \/ Left(j) = 1 /\ Phase(j) = "head"
    /\ j.op = "merge" =>
          \/ Left(j) = 6 /\ Phase(j) = "list"
          \/ Left(j) = 5 /\ Phase(j) = "capture"
          \/ Left(j) = 4 /\ Phase(j) = "compare"
          \/ Left(j) = 3 /\ Phase(j) = "apply"
          \/ Left(j) = 2 /\ Phase(j) = "list"
          \/ Left(j) = 1 /\ Phase(j) = "capture"
    /\ j.op = "checkout" =>
          \/ Left(j) = 4 /\ Phase(j) = "list"
          \/ Left(j) = 3 /\ Phase(j) = "clear"
          \/ Left(j) = 2 /\ Phase(j) = "list_branch"
          \/ Left(j) = 1 /\ Phase(j) = "fill"
    /\ j.op = "collect" =>
          \/ Left(j) = 3 /\ Phase(j) = "mark"
          \/ Left(j) = 2 /\ Phase(j) = "sweep_blobs"
          \/ Left(j) = 1 /\ Phase(j) = "sweep_trees"

LEMMA Stages ==
    ASSUME NEW j, j.op \in Operations, j.phases \in Suffixes(j.op)
    PROVE  /\ AtStage(j)
           /\ Left(j) \in 0..6
           /\ Left(j) = 0 <=> j.op = "none"
           /\ j.phases = <<>> <=> j.op = "none"
<1>1. CASE j.op = "none"
  BY <1>1 DEF Suffixes, AtStage, Left, Phase
<1>2. CASE j.op = "snapshot"
  BY <1>2 DEF Suffixes, AtStage, Left, Phase
<1>3. CASE j.op = "write"
  BY <1>3 DEF Suffixes, AtStage, Left, Phase
<1>4. CASE j.op = "rollback"
  BY <1>4 DEF Suffixes, AtStage, Left, Phase
<1>5. CASE j.op = "branch"
  BY <1>5 DEF Suffixes, AtStage, Left, Phase
<1>6. CASE j.op = "merge"
  BY <1>6 DEF Suffixes, AtStage, Left, Phase
<1>7. CASE j.op = "checkout"
  BY SMTT(30), <1>7 DEF Suffixes, AtStage, Left, Phase
<1>8. CASE j.op = "collect"
  BY <1>8 DEF Suffixes, AtStage, Left, Phase
<1> QED
  BY <1>1, <1>2, <1>3, <1>4, <1>5, <1>6, <1>7, <1>8 DEF Operations

\* What is left after a phase is the rest of the phases.
LEMMA RestOfPhases ==
    ASSUME NEW op \in Operations, NEW s \in Suffixes(op), Len(s) # 1, op # "none"
    PROVE  /\ Tail(s) \in Suffixes(op)
           /\ Len(Tail(s)) = Len(s) - 1
<1>2. CASE op = "snapshot"
  <2>1. CASE s = <<"list", "capture">>
    <3>1. Tail(s) = <<"capture">>
      BY <2>1
    <3> QED
      BY <1>2, <2>1, <3>1 DEF Suffixes
  <2> QED
    BY <1>2, <2>1 DEF Suffixes
<1>3. CASE op = "write"
  <2>1. CASE s = <<"list", "capture", "write">>
    <3>1. Tail(s) = <<"capture", "write">>
      BY <2>1
    <3> QED
      BY <1>3, <2>1, <3>1 DEF Suffixes
  <2>2. CASE s = <<"capture", "write">>
    <3>1. Tail(s) = <<"write">>
      BY <2>2
    <3> QED
      BY <1>3, <2>2, <3>1 DEF Suffixes
  <2> QED
    BY <1>3, <2>1, <2>2 DEF Suffixes
<1>4. CASE op = "rollback"
  <2>1. CASE s = <<"load", "list", "capture", "list_both", "restore">>
    <3>1. Tail(s) = <<"list", "capture", "list_both", "restore">>
      BY <2>1
    <3> QED
      BY <1>4, <2>1, <3>1 DEF Suffixes
  <2>2. CASE s = <<"list", "capture", "list_both", "restore">>
    <3>1. Tail(s) = <<"capture", "list_both", "restore">>
      BY <2>2
    <3> QED
      BY <1>4, <2>2, <3>1 DEF Suffixes
  <2>3. CASE s = <<"capture", "list_both", "restore">>
    <3>1. Tail(s) = <<"list_both", "restore">>
      BY <2>3
    <3> QED
      BY <1>4, <2>3, <3>1 DEF Suffixes
  <2>4. CASE s = <<"list_both", "restore">>
    <3>1. Tail(s) = <<"restore">>
      BY <2>4
    <3> QED
      BY <1>4, <2>4, <3>1 DEF Suffixes
  <2> QED
    BY <1>4, <2>1, <2>2, <2>3, <2>4 DEF Suffixes
<1>5. CASE op = "branch"
  <2>1. CASE s = <<"list", "capture", "list_own", "copy", "head">>
    <3>1. Tail(s) = <<"capture", "list_own", "copy", "head">>
      BY <2>1
    <3> QED
      BY <1>5, <2>1, <3>1 DEF Suffixes
  <2>2. CASE s = <<"capture", "list_own", "copy", "head">>
    <3>1. Tail(s) = <<"list_own", "copy", "head">>
      BY <2>2
    <3> QED
      BY <1>5, <2>2, <3>1 DEF Suffixes
  <2>3. CASE s = <<"list_own", "copy", "head">>
    <3>1. Tail(s) = <<"copy", "head">>
      BY <2>3
    <3> QED
      BY <1>5, <2>3, <3>1 DEF Suffixes
  <2>4. CASE s = <<"copy", "head">>
    <3>1. Tail(s) = <<"head">>
      BY <2>4
    <3> QED
      BY <1>5, <2>4, <3>1 DEF Suffixes
  <2> QED
    BY <1>5, <2>1, <2>2, <2>3, <2>4 DEF Suffixes
<1>6. CASE op = "merge"
  <2>1. CASE s = <<"list", "capture", "compare", "apply", "list", "capture">>
    <3>1. Tail(s) = <<"capture", "compare", "apply", "list", "capture">>
      BY <2>1
    <3> QED
      BY <1>6, <2>1, <3>1 DEF Suffixes
  <2>2. CASE s = <<"capture", "compare", "apply", "list", "capture">>
    <3>1. Tail(s) = <<"compare", "apply", "list", "capture">>
      BY <2>2
    <3> QED
      BY <1>6, <2>2, <3>1 DEF Suffixes
  <2>3. CASE s = <<"compare", "apply", "list", "capture">>
    <3>1. Tail(s) = <<"apply", "list", "capture">>
      BY <2>3
    <3> QED
      BY <1>6, <2>3, <3>1 DEF Suffixes
  <2>4. CASE s = <<"apply", "list", "capture">>
    <3>1. Tail(s) = <<"list", "capture">>
      BY <2>4
    <3> QED
      BY <1>6, <2>4, <3>1 DEF Suffixes
  <2>5. CASE s = <<"list", "capture">>
    <3>1. Tail(s) = <<"capture">>
      BY <2>5
    <3> QED
      BY <1>6, <2>5, <3>1 DEF Suffixes
  <2> QED
    BY <1>6, <2>1, <2>2, <2>3, <2>4, <2>5 DEF Suffixes
<1>7. CASE op = "checkout"
  <2>1. CASE s = <<"list", "clear", "list_branch", "fill">>
    <3>1. Tail(s) = <<"clear", "list_branch", "fill">>
      BY <2>1
    <3> QED
      BY <1>7, <2>1, <3>1 DEF Suffixes
  <2>2. CASE s = <<"clear", "list_branch", "fill">>
    <3>1. Tail(s) = <<"list_branch", "fill">>
      BY <2>2
    <3> QED
      BY <1>7, <2>2, <3>1 DEF Suffixes
  <2>3. CASE s = <<"list_branch", "fill">>
    <3>1. Tail(s) = <<"fill">>
      BY <2>3
    <3> QED
      BY <1>7, <2>3, <3>1 DEF Suffixes
  <2> QED
    BY <1>7, <2>1, <2>2, <2>3 DEF Suffixes
<1>8. CASE op = "collect"
  <2>1. CASE s = <<"mark", "sweep_blobs", "sweep_trees">>
    <3>1. Tail(s) = <<"sweep_blobs", "sweep_trees">>
      BY <2>1
    <3> QED
      BY <1>8, <2>1, <3>1 DEF Suffixes
  <2>2. CASE s = <<"sweep_blobs", "sweep_trees">>
    <3>1. Tail(s) = <<"sweep_trees">>
      BY <2>2
    <3> QED
      BY <1>8, <2>2, <3>1 DEF Suffixes
  <2> QED
    BY <1>8, <2>1, <2>2 DEF Suffixes
<1> QED
  BY <1>2, <1>3, <1>4, <1>5, <1>6, <1>7, <1>8 DEF Operations

-----------------------------------------------------------------------------
(* How a job changes *)

LEMMA IdleShape ==
    /\ WellShaped(Idle)
    /\ Left(Idle) = 0 /\ Phase(Idle) = "none"
<1>1. Idle \in Jobs
  BY NowhereIsFolder DEF Idle, Jobs, Operations, Suffixes
<1>2. Nothing \notin TreeObjects
  BY Kinds DEF TreeObjects
<1>3. Idle.phases \in Suffixes(Idle.op)
  BY DEF Idle, Suffixes
<1>4. Left(Idle) = 0 /\ Phase(Idle) = "none"
  BY DEF Idle, Left, Phase
<1> QED
  BY <1>1, <1>2, <1>3, <1>4 DEF WellShaped, Idle

\* A job without a phase is that of nobody.
LEMMA InPhase ==
    ASSUME NEW p \in Processes, WellShaped(job[p])
    PROVE  /\ AtStage(job[p])
           /\ Left(job[p]) \in 0..6
           /\ job[p].op \in Operations
           /\ Left(job[p]) = 0 <=> job[p].op = "none"
           /\ \A h : In(p, h) <=> job[p].op # "none" /\ Phase(job[p]) = h
<1>1. job[p].op \in Operations /\ job[p].phases \in Suffixes(job[p].op)
  BY DEF WellShaped, Jobs
<1>2. /\ AtStage(job[p])
      /\ Left(job[p]) \in 0..6
      /\ Left(job[p]) = 0 <=> job[p].op = "none"
      /\ job[p].phases = <<>> <=> job[p].op = "none"
  BY <1>1, Stages
<1> QED
  BY <1>1, <1>2 DEF In, Phase

\* What a phase leaves as it is.
SameWork(k, j) ==
    /\ k.op = j.op /\ k.folder = j.folder /\ k.target = j.target
    /\ k.keep = j.keep /\ k.before = j.before

\* After its last phase a job is done, after another it is in the next.
LEMMA AdvancedJob ==
    ASSUME NEW j, j \in Jobs, j.phases \in Suffixes(j.op), j.op # "none",
           j.op = "write" => j.target \in Paths \X Typed
    PROVE  /\ WellShaped(Advanced(j))
           /\ Advanced(j).put = Nothing /\ Advanced(j).open = FALSE
           /\ Left(j) = 1 => Advanced(j) = Idle
           /\ Left(j) # 1 =>
                 /\ SameWork(Advanced(j), j)
                 /\ Left(Advanced(j)) = Left(j) - 1
                 /\ Advanced(j).rest = {} /\ Advanced(j).entries = j.entries
<1>1. CASE Left(j) = 1
  BY <1>1, IdleShape DEF Advanced, Left, Idle
<1>2. CASE Left(j) # 1
  <2> DEFINE k == [j EXCEPT !.phases = Tail(@), !.rest = {}, !.put = Nothing, !.open = FALSE]
  <2>1. Advanced(j) = k
    BY <1>2 DEF Advanced, Left
  <2>2. /\ j.op \in Operations
        /\ Left(j) \in 0..6 /\ Left(j) # 0
    BY Stages DEF Jobs
  <2>3. Tail(j.phases) \in Suffixes(j.op)
    BY <1>2, <2>2, RestOfPhases DEF Left
  <2>4. /\ k \in Jobs
        /\ SameWork(k, j)
        /\ k.phases = Tail(j.phases)
        /\ k.rest = {} /\ k.entries = j.entries
        /\ k.put = Nothing /\ k.open = FALSE
    BY <2>2, <2>3 DEF Jobs, SameWork
  <2>5. Len(Tail(j.phases)) = Len(j.phases) - 1
    BY <1>2, <2>2, RestOfPhases DEF Left
  <2>6. Nothing \notin TreeObjects
    BY Kinds DEF TreeObjects
  <2>7. WellShaped(k)
    BY <2>3, <2>4, <2>6 DEF WellShaped, SameWork
  <2> QED
    BY <1>2, <2>1, <2>4, <2>5, <2>7 DEF Left
<1> QED
  BY <1>1, <1>2

\* A step of one process leaves the jobs of the others alone.
LEMMA OneJob ==
    ASSUME TypeInv, NEW p \in Processes, NEW k, WellShaped(k), job' = [job EXCEPT ![p] = k]
    PROVE  /\ job' \in [Processes -> Jobs]
           /\ \A q \in Processes : WellShaped(job'[q])
           /\ job'[p] = k
           /\ \A q \in Processes : q # p => job'[q] = job[q]
<1>1. k \in Jobs
  BY DEF WellShaped
<1> QED
  BY <1>1 DEF TypeInv

\* The job is in its next phase, or done.
Moved(k, j) ==
    /\ WellShaped(k) /\ k.put = Nothing /\ k.open = FALSE
    /\ Left(j) = 1 => k = Idle
    /\ Left(j) # 1 =>
          /\ SameWork(k, j)
          /\ Left(k) = Left(j) - 1
          /\ k.rest = {} /\ k.entries = j.entries

\* The job is where it was, with one path less to see.
Shortened(k, j, x) ==
    /\ WellShaped(k) /\ SameWork(k, j)
    /\ k.phases = j.phases /\ k.entries = j.entries
    /\ k.put = Nothing /\ k.open = FALSE
    /\ k.rest = j.rest \ {x}

LEMMA AdvanceMoves ==
    ASSUME NEW p \in Processes, WellShaped(job[p]), job[p].op # "none"
    PROVE  Moved(Advanced(job[p]), job[p])
BY AdvancedJob DEF WellShaped, Moved

\* Having seen a path, a job that is not capturing goes on to the next path or,
\* after the last, to the next phase.
LEMMA PassedJob ==
    ASSUME NEW p \in Processes, WellShaped(job[p]), job[p].op # "none",
           ~In(p, "capture"), NEW x \in Paths
    PROVE  \/ Shortened(Passed(p, x), job[p], x) /\ job[p].rest \ {x} # {}
           \/ Moved(Passed(p, x), job[p]) /\ job[p].rest \ {x} = {}
<1> DEFINE k == [job[p] EXCEPT !.rest = @ \ {x}]
<1>1. job[p].put = Nothing /\ job[p].open = FALSE
  BY InPhase DEF WellShaped, Jobs
<1>2. /\ k \in Jobs
      /\ SameWork(k, job[p])
      /\ k.phases = job[p].phases /\ k.entries = job[p].entries
      /\ k.put = Nothing /\ k.open = FALSE
      /\ k.rest = job[p].rest \ {x}
      /\ Left(k) = Left(job[p])
  BY <1>1 DEF WellShaped, Jobs, SameWork, Left
<1>3. WellShaped(k)
  <2>1. Nothing \notin TreeObjects
    BY Kinds DEF TreeObjects
  <2> QED
    BY <1>2, <2>1 DEF WellShaped, SameWork
<1>4. CASE k.rest = {}
  <2>1. Passed(p, x) = Advanced(k)
    BY <1>4 DEF Passed
  <2>2. Moved(Advanced(k), k)
    BY <1>2, <1>3, AdvancedJob DEF WellShaped, Moved, SameWork
  <2>3. Moved(Advanced(k), job[p])
    BY <1>2, <2>2 DEF Moved, SameWork
  <2> QED
    BY <1>2, <1>4, <2>1, <2>3
<1>5. CASE k.rest # {}
  <2>1. Passed(p, x) = k
    BY <1>5 DEF Passed
  <2> QED
    BY <1>2, <1>3, <1>5, <2>1 DEF Shortened
<1> QED
  BY <1>4, <1>5

\* A capture is done with its paths only when it has stored what it read.
LEMMA PassedInCapture ==
    ASSUME NEW p \in Processes, In(p, "capture"), NEW x \in Paths
    PROVE  Passed(p, x) = [job[p] EXCEPT !.rest = @ \ {x}]
BY DEF Passed

-----------------------------------------------------------------------------
(* Types *)

\* Each operation begins in the first of its phases.
LEMMA BeginShape ==
    ASSUME NEW op \in Operations \ {"none"}, NEW target \in {<<>>} \cup (Paths \X Typed),
           op = "write" => target \in Paths \X Typed,
           NEW folder \in Folders, NEW before \in Folders
    PROVE  WellShaped([Idle EXCEPT !.op = op, !.phases = Phases(op), !.target = target,
                                   !.folder = folder, !.before = before])
<1>1. Phases(op) \in Suffixes(op)
  <2>2. CASE op = "snapshot"
    BY <2>2 DEF Suffixes, Phases
  <2>3. CASE op = "write"
    BY <2>3 DEF Suffixes, Phases, WritePhases
  <2>4. CASE op = "rollback"
    BY <2>4 DEF Suffixes, Phases
  <2>5. CASE op = "branch"
    BY <2>5 DEF Suffixes, Phases
  <2>6. CASE op = "merge"
    BY <2>6 DEF Suffixes, Phases
  <2>7. CASE op = "checkout"
    BY <2>7 DEF Suffixes, Phases
  <2>8. CASE op = "collect"
    BY <2>8 DEF Suffixes, Phases
  <2> QED
    BY <2>2, <2>3, <2>4, <2>5, <2>6, <2>7, <2>8 DEF Operations
<1> DEFINE k == [Idle EXCEPT !.op = op, !.phases = Phases(op), !.target = target,
                             !.folder = folder, !.before = before]
<1>2. /\ k.op = op /\ k.phases = Phases(op) /\ k.target = target
      /\ k.put = Nothing /\ k.open = FALSE
  BY DEF Idle
<1>3. k \in Jobs
  BY <1>1, NowhereIsFolder DEF Idle, Jobs
<1>4. Nothing \notin TreeObjects
  BY Kinds DEF TreeObjects
<1> QED
  BY <1>1, <1>2, <1>3, <1>4 DEF WellShaped

\* What is begun, and for what.
LEMMA StartBegins ==
    ASSUME TypeInv, NEW p \in Processes, Start(p)
    PROVE  \E op \in Operations \ {"none"}, target \in {<<>>} \cup (Paths \X Typed),
              folder \in Folders :
              /\ Begin(p, op, target, folder)
              /\ op = "write" => target \in Paths \X Typed
              /\ op = "rollback" => folder \in returned
<1>1. returned \subseteq Folders /\ Nowhere \in Folders
  BY NowhereIsFolder DEF TypeInv
<1>2. CASE \E op \in {"snapshot", "branch", "collect"} : Begin(p, op, <<>>, Nowhere)
  BY <1>1, <1>2 DEF Operations
<1>3. CASE \E op \in {"merge", "checkout"} : Begin(p, op, <<>>, Nowhere)
  BY <1>1, <1>3 DEF Operations
<1>4. CASE \E x \in Paths, c \in Typed : Begin(p, "write", <<x, c>>, Nowhere)
  BY <1>1, <1>4 DEF Operations
<1>5. CASE \E f \in returned : Begin(p, "rollback", <<>>, f)
  BY <1>1, <1>5 DEF Operations
<1> QED
  BY <1>2, <1>3, <1>4, <1>5 DEF Start

\* A step of one process is well typed if its job is and the files are.
LEMMA TypesKept ==
    ASSUME TypeInv, NEW p \in Processes, NEW k, WellShaped(k), Become(p, k),
           UNCHANGED <<ops, edits, killed, overlapped, raced>>,
           files' \in Folders, work' \in Folders, head' \in {Nothing} \cup TreeObjects,
           stored' \subseteq BlobObjects \cup TreeObjects,
           torn' \subseteq BlobObjects \cup TreeObjects,
           returned' \subseteq Folders, safe' \subseteq returned'
    PROVE  TypeInv'
<1>1. /\ job' \in [Processes -> Jobs]
      /\ \A q \in Processes : WellShaped(job'[q])
  BY OneJob DEF Become
<1> QED
  BY <1>1 DEF TypeInv

LEMMA BeginTypes ==
    ASSUME TypeInv, NEW p \in Processes, Start(p)
    PROVE  TypeInv'
<1>1. PICK op \in Operations \ {"none"}, target \in {<<>>} \cup (Paths \X Typed),
           folder \in Folders :
              /\ Begin(p, op, target, folder)
              /\ op = "write" => target \in Paths \X Typed
  BY StartBegins
<1> DEFINE k == [Idle EXCEPT !.op = op, !.phases = Phases(op), !.target = target,
                             !.folder = folder, !.before = files]
<1>2. WellShaped(k)
  BY <1>1, BeginShape DEF TypeInv
<1>3. job' = [job EXCEPT ![p] = k]
  BY <1>1 DEF Begin
<1>4. /\ job' \in [Processes -> Jobs]
      /\ \A q \in Processes : WellShaped(job'[q])
  BY <1>2, <1>3, OneJob
<1>5. /\ UNCHANGED <<files, work, head, stored, torn, edits, killed, returned, safe>>
      /\ ops' = ops + 1
      /\ overlapped' \in BOOLEAN /\ raced' \in BOOLEAN
  BY <1>1 DEF Begin, disk, store, memory
<1> QED
  BY <1>4, <1>5 DEF TypeInv

LEMMA EditTypes ==
    ASSUME TypeInv, Edit
    PROVE  TypeInv'
<1>1. /\ UNCHANGED <<head, stored, torn, job, ops, killed, raced, returned, safe>>
      /\ edits' = edits + 1
      /\ overlapped' \in BOOLEAN
  BY DEF Edit, store, memory
<1>2. files' \in Folders /\ work' \in Folders
  BY VcsAssumption DEF Edit, TypeInv, Folders, VcsAssumption
<1> QED
  BY <1>1, <1>2 DEF TypeInv

LEMMA KillTypes ==
    ASSUME TypeInv, NEW p \in Processes, Kill(p)
    PROVE  TypeInv'
<1>1. /\ job' \in [Processes -> Jobs]
      /\ \A q \in Processes : WellShaped(job'[q])
  BY OneJob, IdleShape DEF Kill, Become
<1>2. /\ UNCHANGED <<files, work, head, stored, torn, ops, edits, overlapped, raced, returned, safe>>
      /\ killed' = killed + 1
  BY DEF Kill, disk, store, memory
<1> QED
  BY <1>1, <1>2 DEF TypeInv

-----------------------------------------------------------------------------
(* What each phase does to its job *)

\* An exception ends the job or, in the capture of a write, moves it on.
LEMMA ThrowShape ==
    ASSUME TypeInv, NEW p \in Processes, Throw(p), job[p].op # "none"
    PROVE  \E k : /\ WellShaped(k) /\ Become(p, k)
                  /\ \/ k = Idle
                     \/ In(p, "capture") /\ job[p].op = "write" /\ Moved(k, job[p])
<1>1. WellShaped(job[p])
  BY DEF TypeInv
<1>2. Moved(Advanced(job[p]), job[p])
  BY <1>1, AdvanceMoves
<1>3. CASE In(p, "capture") /\ job[p].op = "write"
  BY <1>2, <1>3 DEF Throw, Moved
<1>4. CASE ~(In(p, "capture") /\ job[p].op = "write")
  BY <1>4, IdleShape DEF Throw
<1> QED
  BY <1>3, <1>4

\* Listing: the next phase has the paths that are there now.
LEMMA ListShape ==
    ASSUME TypeInv, NEW p \in Processes, List(p)
    PROVE  LET k == job'[p] IN
           /\ WellShaped(k) /\ Become(p, k)
           /\ SameWork(k, job[p]) /\ Left(k) = Left(job[p]) - 1
           /\ k.rest = Listed(p)
           /\ k.entries = IF In(p, "list") THEN Nowhere ELSE job[p].entries
           /\ k.put = Nothing /\ k.open = FALSE
<1> DEFINE a == Advanced(job[p])
           k == [a EXCEPT !.rest = Listed(p), !.entries = IF In(p, "list") THEN Nowhere ELSE @]
<1>0. WellShaped(job[p]) /\ files \in Folders /\ work \in Folders
  BY DEF TypeInv
<1>1. /\ job[p].op # "none"
      /\ Phase(job[p]) \in {"list", "list_both", "list_own", "list_branch"}
  BY <1>0, InPhase DEF List
<1>2. Left(job[p]) # 1
  BY <1>0, <1>1, InPhase DEF AtStage, Operations
<1>3. Moved(a, job[p])
  BY <1>0, <1>1, AdvanceMoves
<1>4. /\ WellShaped(a) /\ a.put = Nothing /\ a.open = FALSE
      /\ SameWork(a, job[p]) /\ Left(a) = Left(job[p]) - 1
      /\ a.entries = job[p].entries
      /\ a.op # "none"
  BY <1>1, <1>2, <1>3 DEF Moved, SameWork
<1>5. Listed(p) \subseteq Paths
  BY <1>0, <1>1, InPhase DEF Listed, Present
<1>6. /\ k \in Jobs
      /\ SameWork(k, a) /\ k.phases = a.phases
      /\ k.put = Nothing /\ k.open = FALSE
      /\ k.rest = Listed(p)
      /\ k.entries = IF In(p, "list") THEN Nowhere ELSE job[p].entries
  BY <1>4, <1>5, NowhereIsFolder DEF WellShaped, Jobs, SameWork
<1>7. Nothing \notin TreeObjects
  BY Kinds DEF TreeObjects
<1>8. WellShaped(k)
  BY <1>4, <1>6, <1>7 DEF WellShaped, SameWork
<1>9. Become(p, k)
  BY DEF List
<1>10. job'[p] = k
  BY <1>8, <1>9, OneJob DEF Become
<1>11. SameWork(k, job[p]) /\ Left(k) = Left(job[p]) - 1
  BY <1>4, <1>6 DEF SameWork, Left
<1> QED
  BY <1>6, <1>8, <1>9, <1>10, <1>11

\* Only a capture stores objects.
LEMMA PutInCapture ==
    ASSUME TypeInv, NEW p \in Processes
    PROVE  /\ job[p].put # Nothing => In(p, "capture") /\ job[p].op # "none"
           /\ job[p].put \in {Nothing} \cup BlobObjects \cup TreeObjects
           /\ job[p].open = TRUE \/ job[p].open = FALSE
           /\ job[p].open => job[p].put # Nothing
<1>1. WellShaped(job[p])
  BY DEF TypeInv
<1>2. job[p].put # Nothing => In(p, "capture") /\ job[p].op # "none"
  BY <1>1, InPhase DEF WellShaped, AtStage, Operations
<1> QED
  BY <1>1, <1>2 DEF WellShaped, Jobs

\* Reading: one path less, one entry more, and perhaps its blob to store.
LEMMA ReadShape ==
    ASSUME TypeInv, NEW p \in Processes, ReadFile(p)
    PROVE  \E x \in job[p].rest : LET k == job'[p] IN
           /\ In(p, "capture") /\ job[p].put = Nothing /\ job[p].open = FALSE
           /\ job[p].op # "none"
           /\ files[x] # Absent /\ Decode[files[x]] \in Contents
           /\ WellShaped(k) /\ Become(p, k)
           /\ SameWork(k, job[p]) /\ k.phases = job[p].phases
           /\ k.rest = job[p].rest \ {x}
           /\ k.entries = [job[p].entries EXCEPT ![x] = Decode[files[x]]]
           /\ k.put = IF Blob(Decode[files[x]]) \in OnDisk
                      THEN Nothing ELSE Blob(Decode[files[x]])
           /\ k.open = FALSE
<1>1. PICK x \in Paths :
          /\ At(p, "capture", x)
          /\ files[x] # Absent
          /\ LET c == Decode[files[x]]
             IN  Become(p, [Passed(p, x) EXCEPT
                               !.entries[x] = c,
                               !.put = IF Blob(c) \in OnDisk THEN Nothing ELSE Blob(c)])
  BY DEF ReadFile
<1> DEFINE c == Decode[files[x]]
           o == IF Blob(c) \in OnDisk THEN Nothing ELSE Blob(c)
           a == [job[p] EXCEPT !.rest = @ \ {x}]
           k == [a EXCEPT !.entries[x] = c, !.put = o]
<1>2. /\ In(p, "capture") /\ job[p].put = Nothing /\ x \in job[p].rest
      /\ WellShaped(job[p])
  BY <1>1 DEF At, TypeInv
<1>3. job[p].open = FALSE /\ job[p].op # "none" /\ Phase(job[p]) = "capture"
  BY <1>2, PutInCapture, InPhase
<1>4. c \in Contents
  BY <1>1, VcsAssumption DEF VcsAssumption, TypeInv, Folders
<1>5. Become(p, k)
  BY <1>1, <1>2, PassedInCapture
<1>6. /\ o \in {Nothing} \cup BlobObjects
      /\ o \notin TreeObjects
  BY <1>4, Kinds DEF BlobObjects, TreeObjects
<1>7. /\ k \in Jobs
      /\ SameWork(k, job[p]) /\ k.phases = job[p].phases
      /\ k.rest = job[p].rest \ {x}
      /\ k.entries = [job[p].entries EXCEPT ![x] = c]
      /\ k.put = o /\ k.open = FALSE
  <2>1. job[p] \in Jobs
    BY <1>2 DEF WellShaped
  <2>2. [job[p].entries EXCEPT ![x] = c] \in Folders
    BY <2>1, <1>4 DEF Jobs, Folders
  <2>3. k = [job[p] EXCEPT !.rest = @ \ {x}, !.entries = [@ EXCEPT ![x] = c], !.put = o]
    BY <2>1 DEF Jobs
  <2>4. o \in {Nothing} \cup BlobObjects \cup TreeObjects
    BY <1>6
  <2> HIDE DEF o, c, k, a
  <2> QED
    BY <1>3, <2>1, <2>2, <2>3, <2>4 DEF Jobs, SameWork
<1>8. WellShaped(k)
  BY <1>2, <1>3, <1>6, <1>7 DEF WellShaped, SameWork, Phase
<1>9. job'[p] = k
  BY <1>5, <1>8, OneJob DEF Become
<1> QED
  BY <1>1, <1>2, <1>3, <1>4, <1>5, <1>7, <1>8, <1>9

\* Opening: the object is the same and now open.
LEMMA OpenShape ==
    ASSUME TypeInv, NEW p \in Processes, OpenObject(p)
    PROVE  LET k == job'[p] IN
           /\ job[p].op # "none"
           /\ WellShaped(k) /\ Become(p, k)
           /\ SameWork(k, job[p]) /\ k.phases = job[p].phases
           /\ k.rest = job[p].rest /\ k.entries = job[p].entries
           /\ k.put = job[p].put /\ k.open = TRUE
<1> DEFINE k == [job[p] EXCEPT !.open = TRUE]
<1>1. WellShaped(job[p]) /\ job[p].put # Nothing /\ Become(p, k)
  BY DEF OpenObject, TypeInv
<1>2. job[p].op # "none"
  BY <1>1, PutInCapture
<1>3. /\ k \in Jobs
      /\ SameWork(k, job[p]) /\ k.phases = job[p].phases
      /\ k.rest = job[p].rest /\ k.entries = job[p].entries
      /\ k.put = job[p].put /\ k.open = TRUE
  BY <1>1 DEF WellShaped, Jobs, SameWork
<1>4. WellShaped(k)
  BY <1>1, <1>2, <1>3 DEF WellShaped, SameWork, Phase
<1>5. job'[p] = k
  BY <1>1, <1>4, OneJob DEF Become
<1> QED
  BY <1>1, <1>2, <1>3, <1>4, <1>5

\* Filling: a blob lets the capture go on, the tree ends it.
LEMMA FillShape ==
    ASSUME TypeInv, NEW p \in Processes, FillObject(p)
    PROVE  LET k == job'[p] IN
           /\ job[p].op # "none" /\ In(p, "capture") /\ job[p].put # Nothing
           /\ WellShaped(k) /\ Become(p, k)
           /\ k.put = Nothing /\ k.open = FALSE
           /\ \/ /\ job[p].put = Tree(job[p].entries) /\ job[p].rest = {}
                 /\ Moved(k, job[p]) /\ Captured(p)
              \/ /\ job[p].put \in BlobObjects
                 /\ SameWork(k, job[p]) /\ k.phases = job[p].phases
                 /\ k.rest = job[p].rest /\ k.entries = job[p].entries
                 /\ UNCHANGED memory
<1>1. WellShaped(job[p]) /\ job[p].open
  BY DEF FillObject, TypeInv
<1>2. /\ job[p].op # "none" /\ In(p, "capture") /\ job[p].put # Nothing
      /\ job[p].put \in BlobObjects \cup TreeObjects
  BY <1>1, PutInCapture
<1>3. CASE job[p].put \in TreeObjects
  <2>1. job[p].put[1] = "tree"
    BY <1>3, Tags DEF TreeObjects
  <2>2. Captured(p)
    BY <2>1 DEF FillObject
  <2>3. Moved(Advanced(job[p]), job[p])
    BY <1>1, <1>2, AdvanceMoves
  <2>4. Become(p, Advanced(job[p])) /\ job'[p] = Advanced(job[p])
    BY <2>2, <2>3, OneJob DEF Captured, Advance, Become, Moved
  <2>5. job[p].put = Tree(job[p].entries) /\ job[p].rest = {}
    BY <1>1, <1>3 DEF WellShaped
  <2> QED
    BY <1>2, <2>2, <2>3, <2>4, <2>5 DEF Moved
<1>4. CASE job[p].put \notin TreeObjects
  <2> DEFINE k == [job[p] EXCEPT !.put = Nothing, !.open = FALSE]
  <2>1. job[p].put \in BlobObjects
    BY <1>2, <1>4
  <2>2. job[p].put[1] # "tree"
    <3>1. job[p].put[1] = "blob"
      BY <2>1, Tags DEF BlobObjects
    <3> QED
      BY <3>1
  <2>3. Become(p, k) /\ UNCHANGED memory
    BY <2>2 DEF FillObject
  <2>4. /\ k \in Jobs
        /\ SameWork(k, job[p]) /\ k.phases = job[p].phases
        /\ k.rest = job[p].rest /\ k.entries = job[p].entries
        /\ k.put = Nothing /\ k.open = FALSE
    BY <1>1 DEF WellShaped, Jobs, SameWork
  <2>5. Nothing \notin TreeObjects
    BY Kinds DEF TreeObjects
  <2>6. WellShaped(k)
    BY <1>1, <1>2, <2>4, <2>5 DEF WellShaped, SameWork
  <2>7. job'[p] = k
    BY <2>3, <2>6, OneJob DEF Become
  <2> QED
    BY <1>2, <2>1, <2>3, <2>4, <2>6, <2>7
<1> QED
  BY <1>3, <1>4

\* Storing the tree: it is there and the capture ends, or it is to be opened.
LEMMA StoreShape ==
    ASSUME TypeInv, NEW p \in Processes, StoreTree(p)
    PROVE  LET k == job'[p] IN
           /\ job[p].op # "none" /\ In(p, "capture")
           /\ job[p].put = Nothing /\ job[p].open = FALSE /\ job[p].rest = {}
           /\ WellShaped(k) /\ Become(p, k) /\ k.open = FALSE
           /\ \/ /\ Tree(job[p].entries) \in OnDisk
                 /\ k.put = Nothing
                 /\ Moved(k, job[p]) /\ Captured(p)
              \/ /\ Tree(job[p].entries) \notin OnDisk
                 /\ SameWork(k, job[p]) /\ k.phases = job[p].phases
                 /\ k.rest = {} /\ k.entries = job[p].entries
                 /\ k.put = Tree(job[p].entries)
                 /\ UNCHANGED memory
<1>1. /\ WellShaped(job[p]) /\ In(p, "capture")
      /\ job[p].put = Nothing /\ job[p].rest = {}
  BY DEF StoreTree, TypeInv
<1>2. job[p].op # "none" /\ job[p].open = FALSE /\ Phase(job[p]) = "capture"
  BY <1>1, PutInCapture, InPhase
<1>3. CASE Tree(job[p].entries) \in OnDisk
  <2>2. Captured(p)
    BY <1>3 DEF StoreTree
  <2>3. Moved(Advanced(job[p]), job[p])
    BY <1>1, <1>2, AdvanceMoves
  <2>4. Become(p, Advanced(job[p])) /\ job'[p] = Advanced(job[p])
    BY <2>2, <2>3, OneJob DEF Captured, Advance, Become, Moved
  <2> QED
    BY <1>1, <1>2, <1>3, <2>2, <2>3, <2>4 DEF Moved
<1>4. CASE Tree(job[p].entries) \notin OnDisk
  <2> DEFINE k == [job[p] EXCEPT !.put = Tree(job[p].entries)]
  <2>1. job[p].entries \in Folders /\ Tree(job[p].entries) \in TreeObjects
    BY <1>1 DEF WellShaped, Jobs, TreeObjects
  <2>3. Become(p, k) /\ UNCHANGED memory
    BY <1>4 DEF StoreTree
  <2>4. /\ k \in Jobs
        /\ SameWork(k, job[p]) /\ k.phases = job[p].phases
        /\ k.rest = {} /\ k.entries = job[p].entries
        /\ k.put = Tree(job[p].entries) /\ k.open = FALSE
    BY <1>1, <1>2, <2>1 DEF WellShaped, Jobs, SameWork
  <2>6. WellShaped(k)
    BY <1>1, <1>2, <2>4 DEF WellShaped, SameWork, Phase
  <2>7. job'[p] = k
    BY <2>3, <2>6, OneJob DEF Become
  <2> QED
    BY <1>1, <1>2, <1>4, <2>3, <2>4, <2>6, <2>7
<1> QED
  BY <1>3, <1>4

\* To the next phase.
LEMMA AdvanceShape ==
    ASSUME TypeInv, NEW p \in Processes, job[p].op # "none", Advance(p)
    PROVE  /\ Moved(job'[p], job[p])
           /\ WellShaped(job'[p]) /\ Become(p, job'[p])
<1>1. Moved(Advanced(job[p]), job[p])
  BY AdvanceMoves DEF TypeInv
<1>2. Become(p, Advanced(job[p])) /\ job'[p] = Advanced(job[p])
  BY <1>1, OneJob DEF Advance, Become, Moved
<1> QED
  BY <1>1, <1>2 DEF Moved

\* To the next path, or phase.
LEMMA PathShape ==
    ASSUME TypeInv, NEW p \in Processes, job[p].op # "none", ~In(p, "capture"),
           NEW x \in Paths, Become(p, Passed(p, x))
    PROVE  /\ WellShaped(job'[p]) /\ Become(p, job'[p])
           /\ \/ Shortened(job'[p], job[p], x) /\ job[p].rest \ {x} # {}
              \/ Moved(job'[p], job[p]) /\ job[p].rest \ {x} = {}
<1> DEFINE k == Passed(p, x)
<1>1. \/ Shortened(k, job[p], x) /\ job[p].rest \ {x} # {}
      \/ Moved(k, job[p]) /\ job[p].rest \ {x} = {}
  BY PassedJob DEF TypeInv
<1>2. WellShaped(k)
  BY <1>1 DEF Shortened, Moved
<1>3. job'[p] = k
  BY <1>2, OneJob DEF Become
<1> QED
  BY <1>1, <1>2, <1>3

\* To nothing.
LEMMA IdleStep ==
    ASSUME TypeInv, NEW p \in Processes, Become(p, Idle)
    PROVE  WellShaped(job'[p]) /\ Become(p, job'[p]) /\ job'[p] = Idle
BY IdleShape, OneJob DEF Become

\* Comparing: what differs from the worktree is to be applied.
LEMMA CompareShape ==
    ASSUME TypeInv, NEW p \in Processes, Compare(p)
    PROVE  LET k == job'[p] IN
           /\ job[p].op = "merge" /\ Left(job[p]) = 4
           /\ WellShaped(k) /\ Become(p, k)
           /\ k.op = "merge" /\ k.before = job[p].before
           /\ Left(k) = 3
           /\ k.entries = job[p].entries
           /\ k.folder = Decoded(work)
           /\ k.rest = {x \in Paths : Decode[work[x]] # job[p].entries[x]}
           /\ k.put = Nothing /\ k.open = FALSE
<1> DEFINE a == Advanced(job[p])
           r == {x \in Paths : Decode[work[x]] # job[p].entries[x]}
           k == [a EXCEPT !.folder = Decoded(work), !.rest = r]
<1>0. WellShaped(job[p]) /\ work \in Folders
  BY DEF TypeInv
<1>1. /\ job[p].op # "none" /\ job[p].op \in Operations
      /\ Phase(job[p]) = "compare" /\ AtStage(job[p])
  BY <1>0, InPhase DEF Compare
<1>2. job[p].op = "merge" /\ Left(job[p]) = 4
  BY <1>1 DEF AtStage, Operations
<1>3. Moved(a, job[p])
  BY <1>0, <1>1, AdvanceMoves
<1>4. /\ WellShaped(a) /\ a.put = Nothing /\ a.open = FALSE
      /\ SameWork(a, job[p]) /\ Left(a) = 3
      /\ a.entries = job[p].entries
  BY <1>2, <1>3 DEF Moved
<1>5. Decoded(work) \in Folders
  BY SMTT(30), <1>0, DecodedFolder
<1>6. /\ k \in Jobs
      /\ k.op = a.op /\ k.before = a.before /\ k.target = a.target /\ k.phases = a.phases
      /\ k.put = Nothing /\ k.open = FALSE
      /\ k.rest = r
      /\ k.entries = job[p].entries
      /\ k.folder = Decoded(work)
  BY <1>4, <1>5 DEF WellShaped, Jobs
<1>7. Nothing \notin TreeObjects
  BY Kinds DEF TreeObjects
<1>8. WellShaped(k)
  BY <1>2, <1>4, <1>6, <1>7 DEF WellShaped, SameWork
<1>9. Become(p, k)
  BY SMTT(30) DEF Compare
<1>10. job'[p] = k
  BY <1>8, <1>9, OneJob DEF Become
<1>11. k.op = "merge" /\ k.before = job[p].before /\ Left(k) = 3
  BY <1>2, <1>4, <1>6 DEF SameWork, Left
<1> QED
  BY <1>2, <1>6, <1>8, <1>9, <1>10, <1>11

\* Marking: the blobs of the trees that are whole are to be kept.
LEMMA MarkShape ==
    ASSUME TypeInv, NEW p \in Processes, Mark(p)
    PROVE  LET k == job'[p] IN
           /\ job[p].op = "collect"
           /\ WellShaped(k) /\ Become(p, k)
           /\ k.op = "collect" /\ Left(k) = 2
           /\ k.entries = job[p].entries
           /\ k.keep = UNION {Blobs(f) : f \in {g \in Folders : Tree(g) \in stored}}
           /\ k.put = Nothing /\ k.open = FALSE
<1> DEFINE a == Advanced(job[p])
           kept == UNION {Blobs(f) : f \in {g \in Folders : Tree(g) \in stored}}
           k == [a EXCEPT !.keep = kept]
<1>0. WellShaped(job[p])
  BY DEF TypeInv
<1>1. /\ job[p].op # "none" /\ job[p].op \in Operations
      /\ Phase(job[p]) = "mark" /\ AtStage(job[p])
  BY <1>0, InPhase DEF Mark
<1>2. job[p].op = "collect" /\ Left(job[p]) = 3
  BY <1>1 DEF AtStage, Operations
<1>3. Moved(a, job[p])
  BY <1>0, <1>1, AdvanceMoves
<1>4. /\ WellShaped(a) /\ a.put = Nothing /\ a.open = FALSE
      /\ SameWork(a, job[p]) /\ Left(a) = 2
      /\ a.entries = job[p].entries
  BY <1>2, <1>3 DEF Moved
<1>5. kept \subseteq BlobObjects
  BY BlobsAreBlobs
<1> HIDE DEF kept
<1>6. /\ k \in Jobs
      /\ k.op = a.op /\ k.target = a.target /\ k.phases = a.phases
      /\ k.put = Nothing /\ k.open = FALSE
      /\ k.keep = kept
      /\ k.entries = job[p].entries
  BY <1>4, <1>5 DEF WellShaped, Jobs
<1>7. Nothing \notin TreeObjects
  BY Kinds DEF TreeObjects
<1>8. WellShaped(k)
  BY <1>2, <1>4, <1>6, <1>7 DEF WellShaped, SameWork
<1>9. Become(p, k)
  BY DEF Mark, kept
<1>10. job'[p] = k
  BY <1>8, <1>9, OneJob DEF Become
<1>11. k.op = "collect" /\ Left(k) = 2
  BY <1>2, <1>4, <1>6 DEF SameWork, Left
<1> QED
  BY <1>2, <1>6, <1>8, <1>9, <1>10, <1>11 DEF kept

LEMMA StoreTypes ==
    ASSUME TypeInv, NEW p \in Processes,
           ReadFile(p) \/ FileGone(p) \/ OpenObject(p) \/ FillObject(p) \/ StoreTree(p)
    PROVE  TypeInv'
<1>0. /\ files \in Folders /\ work \in Folders
      /\ head \in {Nothing} \cup TreeObjects
      /\ stored \subseteq BlobObjects \cup TreeObjects
      /\ torn \subseteq BlobObjects \cup TreeObjects
      /\ returned \subseteq Folders
      /\ safe \subseteq returned
      /\ WellShaped(job[p])
  BY DEF TypeInv
<1>1. CASE ReadFile(p)
  <2>1. PICK k : WellShaped(k) /\ Become(p, k)
    BY <1>1, ReadShape
  <2>2. UNCHANGED <<disk, store, counts, memory>>
    BY <1>1 DEF ReadFile
  <2> QED
    BY <1>0, <2>1, <2>2, TypesKept DEF disk, store, counts, memory
<1>2. CASE FileGone(p)
  <2>0. Throw(p) /\ job[p].op # "none"
    BY <1>0, <1>2, InPhase DEF FileGone, At
  <2>1. PICK k : WellShaped(k) /\ Become(p, k)
    BY <2>0, ThrowShape
  <2>2. UNCHANGED <<disk, store, counts, memory>>
    BY <2>0 DEF Throw
  <2> QED
    BY <1>0, <2>1, <2>2, TypesKept DEF disk, store, counts, memory
<1>3. CASE OpenObject(p)
  <2>1. PICK k : WellShaped(k) /\ Become(p, k)
    BY <1>3, OpenShape
  <2>2. /\ UNCHANGED <<disk, counts, memory>>
        /\ torn' = torn \cup {job[p].put}
        /\ stored' = stored \ {job[p].put}
        /\ job[p].put \in BlobObjects \cup TreeObjects
    BY <1>3, PutInCapture DEF OpenObject
  <2> QED
    BY <1>0, <2>1, <2>2, TypesKept DEF disk, counts, memory
<1>4. CASE FillObject(p)
  <2>1. PICK k : WellShaped(k) /\ Become(p, k)
    BY <1>4, FillShape
  <2>2. /\ UNCHANGED <<disk, counts>>
        /\ torn' = torn \ {job[p].put}
        /\ stored' = stored \cup ({job[p].put} \cap torn)
    BY <1>4 DEF FillObject
  <2>3. returned' \subseteq Folders /\ safe' \subseteq returned'
    <3>1. job[p].entries \in Folders
      BY <1>0 DEF WellShaped, Jobs
    <3> QED
      BY <1>0, <1>4, <3>1, FillShape DEF Captured, memory
  <2> QED
    BY <1>0, <2>1, <2>2, <2>3, TypesKept DEF disk, counts
<1>5. CASE StoreTree(p)
  <2>1. PICK k : WellShaped(k) /\ Become(p, k)
    BY <1>5, StoreShape
  <2>2. UNCHANGED <<disk, store, counts>>
    BY <1>5 DEF StoreTree
  <2>3. returned' \subseteq Folders /\ safe' \subseteq returned'
    <3>1. job[p].entries \in Folders
      BY <1>0 DEF WellShaped, Jobs
    <3> QED
      BY <1>0, <1>5, <3>1, StoreShape DEF Captured, memory
  <2> QED
    BY <1>0, <2>1, <2>2, <2>3, TypesKept DEF disk, counts, store
<1> QED
  BY <1>1, <1>2, <1>3, <1>4, <1>5

\* The steps that neither store nor capture.
Elsewhere(p) ==
    \/ List(p) \/ NoPaths(p)
    \/ WriteFile(p) \/ Load(p) \/ RestoreFile(p) \/ RemoveFile(p)
    \/ CopyFile(p) \/ WriteHead(p) \/ Compare(p) \/ ApplyChange(p) \/ ClearFile(p) \/ FillFile(p)
    \/ Mark(p) \/ SweepBlobs(p) \/ SweepTrees(p)

\* They leave the snapshots and, but for the sweeps, the store, and no job
\* that they move on has anything to store.
LEMMA ElsewhereShape ==
    ASSUME TypeInv, NEW p \in Processes, Elsewhere(p)
    PROVE  /\ WellShaped(job'[p]) /\ Become(p, job'[p])
           /\ job[p].op # "none" /\ ~In(p, "capture")
           /\ job[p].put = Nothing /\ job[p].open = FALSE
           /\ job'[p].put = Nothing /\ job'[p].open = FALSE
           /\ job'[p].entries = job[p].entries \/ job'[p].entries = Nowhere
           /\ job'[p].op = job[p].op \/ job'[p] = Idle
           /\ UNCHANGED <<counts, memory>>
           /\ SweepBlobs(p) \/ SweepTrees(p) \/ UNCHANGED store
<1>0. WellShaped(job[p])
  BY DEF TypeInv
<1>1. /\ UNCHANGED <<counts, memory>>
      /\ SweepBlobs(p) \/ SweepTrees(p) \/ UNCHANGED store
  BY DEF Elsewhere, List, NoPaths, WriteFile, Load, RestoreFile, RemoveFile, CopyFile, WriteHead,
         Compare, ApplyChange, ClearFile, FillFile, Mark, SweepBlobs, SweepTrees, Throw, store
<1>2. \E h \in {"list", "list_both", "list_own", "list_branch", "restore", "copy", "apply",
                "clear", "fill", "write", "load", "head", "compare", "mark", "sweep_blobs",
                "sweep_trees"} : In(p, h)
  BY DEF Elsewhere, List, NoPaths, WriteFile, Load, RestoreFile, RemoveFile, CopyFile, WriteHead,
         Compare, ApplyChange, ClearFile, FillFile, Mark, SweepBlobs, SweepTrees, At
<1>3. /\ job[p].op # "none" /\ ~In(p, "capture")
      /\ job[p].put = Nothing /\ job[p].open = FALSE
  <2>1. job[p].op # "none" /\ ~In(p, "capture")
    BY <1>0, <1>2, InPhase
  <2> QED
    BY <2>1, PutInCapture
<1> DEFINE Fine ==
      /\ WellShaped(job'[p]) /\ Become(p, job'[p])
      /\ job'[p].put = Nothing /\ job'[p].open = FALSE
      /\ job'[p].entries = job[p].entries \/ job'[p].entries = Nowhere
      /\ job'[p].op = job[p].op \/ job'[p] = Idle
<1>4. ASSUME Become(p, Idle)
      PROVE  Fine
  <2>1. WellShaped(job'[p]) /\ Become(p, job'[p]) /\ job'[p] = Idle
    BY <1>4, IdleStep
  <2>2. Idle.put = Nothing /\ Idle.open = FALSE /\ Idle.entries = Nowhere
    BY DEF Idle
  <2> QED
    BY <2>1, <2>2
<1>5. ASSUME Moved(job'[p], job[p]), Become(p, job'[p])
      PROVE  Fine
  BY <1>5 DEF Moved, SameWork, Idle
<1>6. ASSUME Advance(p)
      PROVE  Fine
  BY <1>3, <1>5, <1>6, AdvanceShape
<1>7. ASSUME NEW x \in Paths, Become(p, Passed(p, x))
      PROVE  Fine
  <2>1. /\ WellShaped(job'[p]) /\ Become(p, job'[p])
        /\ \/ Shortened(job'[p], job[p], x)
           \/ Moved(job'[p], job[p])
    BY <1>3, <1>7, PathShape
  <2> QED
    BY <1>5, <2>1 DEF Shortened, SameWork
<1>8. ASSUME Throw(p)
      PROVE  Fine
  BY <1>3, <1>4, <1>8 DEF Throw
<1>9. ASSUME List(p)
      PROVE  Fine
  BY <1>9, ListShape DEF SameWork
<1>10. ASSUME NoPaths(p) \/ WriteFile(p) \/ WriteHead(p) \/ SweepBlobs(p) \/ SweepTrees(p)
      PROVE  Fine
  BY <1>6, <1>10 DEF NoPaths, WriteFile, WriteHead, SweepBlobs, SweepTrees
<1>11. ASSUME Load(p)
      PROVE  Fine
  BY <1>4, <1>6, <1>11 DEF Load
<1>12. ASSUME RestoreFile(p)
      PROVE  Fine
  <2>1. Wanted(p) \in SUBSET Paths /\ Wanted(p) # {}
    BY <1>0, <1>12 DEF RestoreFile, Wanted, WellShaped, Jobs
  <2>2. First(Wanted(p)) \in Paths
    BY <2>1, FirstIsIn
  <2> QED
    BY <1>7, <1>8, <1>12, <2>2 DEF RestoreFile
<1>13. ASSUME RemoveFile(p)
      PROVE  Fine
  <2>1. job[p].rest \in SUBSET Paths /\ job[p].rest # {}
    BY <1>0, <1>13 DEF RemoveFile, WellShaped, Jobs
  <2>2. First(job[p].rest) \in Paths
    BY <2>1, FirstIsIn
  <2> QED
    BY <1>7, <1>8, <1>13, <2>2 DEF RemoveFile
<1>14. ASSUME CopyFile(p)
      PROVE  Fine
  BY <1>4, <1>7, <1>14 DEF CopyFile
<1>15. ASSUME Compare(p)
      PROVE  Fine
  BY <1>15, CompareShape
<1>16. ASSUME ApplyChange(p)
      PROVE  Fine
  BY <1>4, <1>7, <1>16 DEF ApplyChange, CopyBack
<1>17. ASSUME ClearFile(p)
      PROVE  Fine
  BY <1>7, <1>17 DEF ClearFile
<1>18. ASSUME FillFile(p)
      PROVE  Fine
  BY <1>4, <1>7, <1>18 DEF FillFile, CopyBack
<1>19. ASSUME Mark(p)
      PROVE  Fine
  BY <1>19, MarkShape
<1>20. Fine
  BY <1>9, <1>10, <1>11, <1>12, <1>13, <1>14, <1>15, <1>16, <1>17, <1>18, <1>19 DEF Elsewhere
<1> QED
  BY <1>1, <1>3, <1>20

LEMMA ElsewhereTypes ==
    ASSUME TypeInv, NEW p \in Processes, Elsewhere(p)
    PROVE  TypeInv'
<1>0. /\ files \in Folders /\ work \in Folders
      /\ head \in {Nothing} \cup TreeObjects
      /\ stored \subseteq BlobObjects \cup TreeObjects
      /\ torn \subseteq BlobObjects \cup TreeObjects
      /\ returned \subseteq Folders
      /\ safe \subseteq returned
      /\ WellShaped(job[p])
  BY DEF TypeInv
<1>1. PICK k : WellShaped(k) /\ Become(p, k)
  BY ElsewhereShape
<1>2. UNCHANGED <<counts, memory>>
  BY ElsewhereShape
<1>3. files' \in Folders /\ work' \in Folders /\ head' \in {Nothing} \cup TreeObjects
  <2>1. CASE List(p) \/ NoPaths(p) \/ Load(p) \/ Compare(p) \/ Mark(p)
              \/ SweepBlobs(p) \/ SweepTrees(p)
    <3>1. UNCHANGED disk
      BY <2>1 DEF List, NoPaths, Load, Compare, Mark, SweepBlobs, SweepTrees
    <3> QED
      BY <1>0, <3>1 DEF disk
  <2>2. CASE WriteFile(p)
    <3>1. job[p].op = "write"
      BY <1>0, <2>2, InPhase DEF WriteFile, AtStage, Operations
    <3>2. job[p].target \in Paths \X Typed
      BY <1>0, <3>1 DEF WellShaped
    <3> QED
      BY <1>0, <2>2, <3>2, VcsAssumption DEF WriteFile, Folders, VcsAssumption
  <2>3. CASE RestoreFile(p)
    <3>1. job[p].folder \in Folders
      BY <1>0 DEF WellShaped, Jobs
    <3>2. Wanted(p) \in SUBSET Paths /\ Wanted(p) # {}
      BY <1>0, <2>3 DEF RestoreFile, Wanted, WellShaped, Jobs
    <3>3. First(Wanted(p)) \in Wanted(p)
      BY <3>2, FirstIsIn
    <3>4. job[p].folder[First(Wanted(p))] \in Contents
      BY <3>1, <3>2, <3>3 DEF Wanted, Present, Folders
    <3> QED
      BY <1>0, <2>3, <3>4, VcsAssumption DEF RestoreFile, Throw, disk, Folders, VcsAssumption
  <2>4. CASE RemoveFile(p)
    BY <1>0, <2>4 DEF RemoveFile, Throw, disk, Folders
  <2>5. CASE CopyFile(p)
    BY <1>0, <2>5 DEF CopyFile, Folders
  <2>6. CASE WriteHead(p)
    <3>1. Tree(job[p].entries) \in TreeObjects
      BY <1>0 DEF WellShaped, Jobs, TreeObjects
    <3> QED
      BY <1>0, <2>6, <3>1 DEF WriteHead
  <2>7. CASE ApplyChange(p)
    BY <1>0, <2>7 DEF ApplyChange, CopyBack, Folders
  <2>8. CASE ClearFile(p)
    BY <1>0, <2>8 DEF ClearFile, Folders
  <2>9. CASE FillFile(p)
    BY <1>0, <2>9 DEF FillFile, CopyBack, Folders
  <2> QED
    BY <2>1, <2>2, <2>3, <2>4, <2>5, <2>6, <2>7, <2>8, <2>9 DEF Elsewhere
<1>4. /\ stored' \subseteq BlobObjects \cup TreeObjects
      /\ torn' \subseteq BlobObjects \cup TreeObjects
  <2>1. stored' \subseteq stored /\ torn' \subseteq torn
    BY ElsewhereShape DEF SweepBlobs, SweepTrees, store
  <2> QED
    BY <1>0, <2>1
<1> QED
  BY <1>0, <1>1, <1>2, <1>3, <1>4, TypesKept DEF counts, memory

LEMMA TypeStep == TypeInv /\ [Next]_vars => TypeInv'
<1>1. ASSUME TypeInv, UNCHANGED vars
      PROVE  TypeInv'
  BY <1>1 DEF TypeInv, vars, disk, store, counts, memory
<1>2. ASSUME TypeInv, NEW p \in Processes, Work(p)
      PROVE  TypeInv'
  BY <1>2, StoreTypes, ElsewhereTypes DEF Work, Elsewhere
<1> QED
  BY <1>1, <1>2, EditTypes, BeginTypes, KillTypes DEF Next

LEMMA TypeInit == Init => TypeInv
<1> SUFFICES ASSUME Init PROVE TypeInv
  OBVIOUS
<1>1. files \in Folders /\ work \in Folders
  BY NowhereIsFolder, VcsAssumption DEF Init, Folders, VcsAssumption
<1>2. \A p \in Processes : job[p] = Idle
  BY DEF Init
<1>3. Idle \in Jobs
  BY IdleShape DEF WellShaped
<1> QED
  BY <1>1, <1>2, <1>3, IdleShape DEF Init, TypeInv

-----------------------------------------------------------------------------
(* The store *)

LEMMA BusyJobs ==
    ASSUME TypeInv, NEW p \in Processes
    PROVE  /\ p \in Busy <=> job[p].op # "none"
           /\ p \notin Busy => /\ job[p] = Idle
                               /\ job[p].put = Nothing /\ job[p].open = FALSE
                               /\ job[p].entries = Nowhere
BY DEF TypeInv, Busy, WellShaped, Idle

\* A step of a process at work: what it works on, or nothing any more.
LEMMA WorkShape ==
    ASSUME TypeInv, NEW p \in Processes, Work(p)
    PROVE  /\ job[p].op # "none"
           /\ WellShaped(job'[p]) /\ Become(p, job'[p])
           /\ job'[p].op = job[p].op \/ job'[p] = Idle
           /\ UNCHANGED counts
           /\ \A q \in Processes : q # p => job'[q] = job[q]
<1>0. WellShaped(job[p])
  BY DEF TypeInv
<1>1. ASSUME ReadFile(p) PROVE job[p].op # "none" /\ WellShaped(job'[p]) /\ Become(p, job'[p])
                               /\ job'[p].op = job[p].op /\ UNCHANGED counts
  BY <1>1, ReadShape DEF SameWork, ReadFile
<1>2. ASSUME FileGone(p) PROVE job[p].op # "none" /\ WellShaped(job'[p]) /\ Become(p, job'[p])
                               /\ (job'[p].op = job[p].op \/ job'[p] = Idle)
                               /\ UNCHANGED counts
  <2>0. Throw(p) /\ job[p].op # "none"
    BY <1>0, <1>2, InPhase DEF FileGone, At
  <2>1. PICK k : /\ WellShaped(k) /\ Become(p, k)
                 /\ k = Idle \/ Moved(k, job[p])
    BY <2>0, ThrowShape
  <2>2. job'[p] = k
    BY <2>1, OneJob DEF Become
  <2> QED
    BY <2>0, <2>1, <2>2 DEF Moved, SameWork, Throw
<1>3. ASSUME OpenObject(p) PROVE job[p].op # "none" /\ WellShaped(job'[p]) /\ Become(p, job'[p])
                               /\ job'[p].op = job[p].op /\ UNCHANGED counts
  BY <1>3, OpenShape DEF SameWork, OpenObject
<1>4. ASSUME FillObject(p) PROVE job[p].op # "none" /\ WellShaped(job'[p]) /\ Become(p, job'[p])
                               /\ (job'[p].op = job[p].op \/ job'[p] = Idle)
                               /\ UNCHANGED counts
  BY <1>4, FillShape DEF Moved, SameWork, FillObject
<1>5. ASSUME StoreTree(p) PROVE job[p].op # "none" /\ WellShaped(job'[p]) /\ Become(p, job'[p])
                               /\ (job'[p].op = job[p].op \/ job'[p] = Idle)
                               /\ UNCHANGED counts
  BY <1>5, StoreShape DEF Moved, SameWork, StoreTree
<1>6. ASSUME Elsewhere(p) PROVE job[p].op # "none" /\ WellShaped(job'[p]) /\ Become(p, job'[p])
                               /\ (job'[p].op = job[p].op \/ job'[p] = Idle)
                               /\ UNCHANGED counts
  BY <1>6, ElsewhereShape
<1>7. /\ job[p].op # "none" /\ WellShaped(job'[p]) /\ Become(p, job'[p])
      /\ job'[p].op = job[p].op \/ job'[p] = Idle
      /\ UNCHANGED counts
  BY <1>1, <1>2, <1>3, <1>4, <1>5, <1>6 DEF Work, Elsewhere
<1>8. \A q \in Processes : q # p => job'[q] = job[q]
  BY <1>7 DEF Become, TypeInv
<1> QED
  BY <1>7, <1>8

LEMMA AloneStep == TypeInv /\ Alone /\ [Next]_vars => Alone'
<1> SUFFICES ASSUME TypeInv, Alone, [Next]_vars
             PROVE  Alone'
  OBVIOUS
<1>1. ASSUME NEW p \in Processes, Start(p)
      PROVE  Alone'
  <2>1. PICK op \in Operations \ {"none"}, target \in {<<>>} \cup (Paths \X Typed),
             folder \in Folders :
                /\ Begin(p, op, target, folder)
                /\ op = "write" => target \in Paths \X Typed
    BY <1>1, StartBegins
  <2> DEFINE k == [Idle EXCEPT !.op = op, !.phases = Phases(op), !.target = target,
                               !.folder = folder, !.before = files]
  <2>2. WellShaped(k)
    BY <2>1, BeginShape DEF TypeInv
  <2>3. /\ job[p].op = "none"
        /\ job'[p] = k
        /\ \A q \in Processes : q # p => job'[q] = job[q]
        /\ overlapped' = (overlapped \/ Busy # {})
        /\ raced' = (raced \/ \E q \in Busy : "collect" \in {op, job[q].op})
    BY <2>1, <2>2, OneJob DEF Begin
  <2>4. k.op = op
    BY DEF Idle
  <2> HIDE DEF k
  <2>5. Busy' = Busy \cup {p} /\ p \notin Busy
    BY <2>3, <2>4 DEF Busy
  <2>6. raced' => overlapped'
    BY <2>3 DEF Alone
  <2>7. ~overlapped' => \A q, r \in Busy' : q = r
    BY <2>3, <2>5
  <2>8. ASSUME ~raced', NEW q \in Busy', NEW r \in Busy', job'[q].op = "collect"
        PROVE  q = r
    <3>1. CASE q = p
      <4>1. Busy = {}
        BY <2>3, <2>4, <2>8, <3>1
      <4> QED
        BY <2>5, <2>8, <3>1, <4>1
    <3>2. CASE q # p
      <4>1. q \in Busy /\ job[q].op = "collect"
        BY <2>3, <2>5, <2>8, <3>2 DEF Busy
      <4> QED
        BY <2>3, <2>8, <4>1
    <3> QED
      BY <3>1, <3>2
  <2> QED
    BY <2>6, <2>7, <2>8 DEF Alone
<1>2. ASSUME Busy' \subseteq Busy,
             \A p \in Busy' : job'[p].op = job[p].op,
             raced' = raced, overlapped' = overlapped \/ overlapped' = TRUE
      PROVE  Alone'
  BY <1>2 DEF Alone, TypeInv
<1>3. ASSUME Edit
      PROVE  Alone'
  <2>1. /\ UNCHANGED <<job, raced>>
        /\ overlapped' = (overlapped \/ Busy # {})
    BY <1>3 DEF Edit
  <2> QED
    BY <1>2, <2>1 DEF Busy, TypeInv
<1>4. ASSUME NEW p \in Processes, Work(p)
      PROVE  Alone'
  <2>1. /\ job[p].op # "none"
        /\ job'[p].op = job[p].op \/ job'[p] = Idle
        /\ \A q \in Processes : q # p => job'[q] = job[q]
        /\ UNCHANGED <<raced, overlapped>>
    BY <1>4, WorkShape DEF counts
  <2>2. Idle.op = "none"
    BY DEF Idle
  <2> QED
    BY <1>2, <2>1, <2>2 DEF Busy
<1>5. ASSUME NEW p \in Processes, Kill(p)
      PROVE  Alone'
  <2>1. /\ job'[p] = Idle
        /\ \A q \in Processes : q # p => job'[q] = job[q]
        /\ UNCHANGED <<raced, overlapped>>
    BY <1>5, IdleShape, OneJob DEF Kill, Become
  <2>2. Idle.op = "none"
    BY DEF Idle
  <2> QED
    BY <1>2, <2>1, <2>2 DEF Busy
<1>6. ASSUME UNCHANGED vars
      PROVE  Alone'
  BY <1>6 DEF Alone, Busy, vars, counts
<1> QED
  BY <1>1, <1>3, <1>4, <1>5, <1>6 DEF Next

\* Blobs are no trees: a blob that is there is there whatever tree is stored.
LEMMA BlobsAlone ==
    ASSUME TypeInv, NEW f \in Folders, NEW g, NEW S
    PROVE  /\ Blobs(f) \subseteq S \cup {Nothing} => Blobs(f) \subseteq S
           /\ Blobs(f) \subseteq S \cup {Tree(g)} => Blobs(f) \subseteq S
<1>1. \A o \in Blobs(f) : o # Nothing /\ o # Tree(g)
  BY Kinds DEF Blobs
<1> QED
  BY <1>1

LEMMA BeginStore ==
    ASSUME TypeInv, StoreInv, Alone', NEW p \in Processes, Start(p)
    PROVE  CollectsNothing' /\ Stored' /\ Kept'
<1>1. PICK op \in Operations \ {"none"}, target \in {<<>>} \cup (Paths \X Typed),
           folder \in Folders :
              /\ Begin(p, op, target, folder)
              /\ op = "write" => target \in Paths \X Typed
  BY StartBegins
<1> DEFINE k == [Idle EXCEPT !.op = op, !.phases = Phases(op), !.target = target,
                             !.folder = folder, !.before = files]
<1>2. WellShaped(k)
  BY <1>1, BeginShape DEF TypeInv
<1>3. /\ job[p].op = "none"
      /\ job'[p] = k
      /\ \A q \in Processes : q # p => job'[q] = job[q]
      /\ overlapped' = (overlapped \/ Busy # {})
      /\ raced' = (raced \/ \E q \in Busy : "collect" \in {op, job[q].op})
      /\ UNCHANGED <<stored, torn, killed, returned, safe>>
  BY <1>1, <1>2, OneJob DEF Begin, store, memory
<1>4. /\ k.put = Nothing /\ k.open = FALSE /\ k.entries = Nowhere
      /\ k.op = "collect" => Phase(k) # "sweep_blobs"
  BY DEF Idle, Phase, Phases
<1> HIDE DEF k
<1>5. Blobs(Nowhere) = {}
  BY NowhereIsFolder
<1>6. CollectsNothing'
  BY <1>3, <1>4 DEF CollectsNothing, StoreInv
<1>7. job[p].open = FALSE
  BY <1>3, PutInCapture
<1>8. ASSUME killed' = 0, ~raced'
      PROVE  /\ \A o \in torn' : \E q \in Processes : job'[q].open /\ job'[q].put = o
             /\ \A q \in Processes :
                   /\ job'[q].open => job'[q].put \in OnDisk'
                   /\ Blobs(job'[q].entries) \subseteq OnDisk' \cup {job'[q].put}
                   /\ job'[q].op = "collect" /\ Phase(job'[q]) = "sweep_blobs" =>
                         \A f \in returned' : Blobs(f) \subseteq job'[q].keep
             /\ \A f \in returned' : Tree(f) \in OnDisk' /\ Blobs(f) \subseteq OnDisk'
  <2>1. killed = 0 /\ ~raced
    BY <1>3, <1>8
  <2>2. OnDisk' = OnDisk /\ torn' = torn /\ returned' = returned
    BY <1>3 DEF OnDisk
  <2>3. \A o \in torn : \E q \in Processes : q # p /\ job[q].open /\ job[q].put = o
    BY <1>7, <2>1 DEF StoreInv, Stored
  <2>4. \A o \in torn' : \E q \in Processes : job'[q].open /\ job'[q].put = o
    BY <1>3, <2>2, <2>3
  <2>5. ASSUME NEW q \in Processes
        PROVE  /\ job'[q].open => job'[q].put \in OnDisk'
               /\ Blobs(job'[q].entries) \subseteq OnDisk' \cup {job'[q].put}
               /\ job'[q].op = "collect" /\ Phase(job'[q]) = "sweep_blobs" =>
                     \A f \in returned' : Blobs(f) \subseteq job'[q].keep
    <3>1. CASE q = p
      BY <1>3, <1>4, <1>5, <3>1
    <3>2. CASE q # p
      BY <1>3, <2>1, <2>2, <3>2 DEF StoreInv, Stored
    <3> QED
      BY <3>1, <3>2
  <2> QED
    BY <2>1, <2>2, <2>4, <2>5 DEF StoreInv, Stored
<1>9. Stored'
  BY <1>8 DEF Stored
<1>10. ASSUME ~overlapped'
       PROVE  /\ \A q \in Processes :
                   /\ job'[q].put # Nothing /\ ~job'[q].open => job'[q].put \notin OnDisk'
                   /\ job'[q].op = "collect" /\ Phase(job'[q]) = "sweep_blobs" =>
                         \A f \in safe' : Blobs(f) \subseteq job'[q].keep
              /\ \A f \in safe' : Restorable(f)'
  <2>1. ~overlapped
    BY <1>3, <1>10
  <2>2. OnDisk' = OnDisk /\ safe' = safe /\ \A f : Restorable(f)' <=> Restorable(f)
    BY <1>3 DEF OnDisk, Restorable
  <2>3. ASSUME NEW q \in Processes
        PROVE  /\ job'[q].put # Nothing /\ ~job'[q].open => job'[q].put \notin OnDisk'
               /\ job'[q].op = "collect" /\ Phase(job'[q]) = "sweep_blobs" =>
                     \A f \in safe' : Blobs(f) \subseteq job'[q].keep
    <3>1. CASE q = p
      BY <1>3, <1>4, <3>1
    <3>2. CASE q # p
      BY <1>3, <2>1, <2>2, <3>2 DEF StoreInv, Kept
    <3> QED
      BY <3>1, <3>2
  <2> QED
    BY <2>1, <2>2, <2>3 DEF StoreInv, Kept
<1>11. Kept'
  BY <1>10 DEF Kept
<1> QED
  BY <1>6, <1>9, <1>11

\* A step of one process that loses no object keeps the store if it does so for
\* its own job and for what it returns.
LEMMA StoredFrame ==
    ASSUME TypeInv, StoreInv, NEW p \in Processes, job[p].op # "none",
           \A q \in Processes : q # p => job'[q] = job[q],
           UNCHANGED counts,
           OnDisk \subseteq OnDisk',
           killed = 0 /\ ~raced =>
             /\ \A o \in torn' : \/ o \in torn /\ ~(job[p].open /\ job[p].put = o)
                                 \/ job'[p].open /\ job'[p].put = o
             /\ job'[p].open => job'[p].put \in OnDisk'
             /\ Blobs(job'[p].entries) \subseteq OnDisk' \cup {job'[p].put}
             /\ job'[p].op = "collect" /\ Phase(job'[p]) = "sweep_blobs" =>
                   \A f \in returned' : Blobs(f) \subseteq job'[p].keep
             /\ \A f \in returned' \ returned : Tree(f) \in OnDisk' /\ Blobs(f) \subseteq OnDisk',
           returned' = returned \/ job[p].op # "collect"
    PROVE  Stored'
<1>1. ASSUME killed' = 0, ~raced'
      PROVE  /\ \A o \in torn' : \E q \in Processes : job'[q].open /\ job'[q].put = o
             /\ \A q \in Processes :
                   /\ job'[q].open => job'[q].put \in OnDisk'
                   /\ Blobs(job'[q].entries) \subseteq OnDisk' \cup {job'[q].put}
                   /\ job'[q].op = "collect" /\ Phase(job'[q]) = "sweep_blobs" =>
                         \A f \in returned' : Blobs(f) \subseteq job'[q].keep
             /\ \A f \in returned' : Tree(f) \in OnDisk' /\ Blobs(f) \subseteq OnDisk'
  <2>1. killed = 0 /\ ~raced
    BY <1>1 DEF counts
  <2>2. ASSUME NEW o \in torn'
        PROVE  \E q \in Processes : job'[q].open /\ job'[q].put = o
    <3>1. CASE o \in torn /\ ~(job[p].open /\ job[p].put = o)
      <4>1. PICK q \in Processes : job[q].open /\ job[q].put = o
        BY <2>1, <3>1 DEF StoreInv, Stored
      <4> QED
        BY <3>1, <4>1
    <3>2. CASE job'[p].open /\ job'[p].put = o
      BY <3>2
    <3> QED
      BY <2>1, <3>1, <3>2
  <2>3. ASSUME NEW q \in Processes
        PROVE  /\ job'[q].open => job'[q].put \in OnDisk'
               /\ Blobs(job'[q].entries) \subseteq OnDisk' \cup {job'[q].put}
               /\ job'[q].op = "collect" /\ Phase(job'[q]) = "sweep_blobs" =>
                     \A f \in returned' : Blobs(f) \subseteq job'[q].keep
    <3>1. CASE q = p
      BY <2>1, <3>1
    <3>2. CASE q # p
      <4>1. job'[q] = job[q]
        BY <3>2
      <4>2. /\ job[q].open => job[q].put \in OnDisk
            /\ Blobs(job[q].entries) \subseteq OnDisk \cup {job[q].put}
            /\ job[q].op = "collect" /\ Phase(job[q]) = "sweep_blobs" =>
                  \A f \in returned : Blobs(f) \subseteq job[q].keep
        BY <2>1 DEF StoreInv, Stored
      <4>3. job[q].op = "collect" => returned' = returned
        <5>1. ASSUME job[q].op = "collect", job[p].op # "collect"
              PROVE  FALSE
          <6>1. q \in Busy /\ p \in Busy
            BY <5>1, BusyJobs
          <6> QED
            BY <2>1, <3>2, <5>1, <6>1 DEF StoreInv, Alone
        <5> QED
          BY <5>1
      <4> QED
        BY <4>1, <4>2, <4>3
    <3> QED
      BY <3>1, <3>2
  <2>4. \A f \in returned' : Tree(f) \in OnDisk' /\ Blobs(f) \subseteq OnDisk'
    BY <2>1 DEF StoreInv, Stored
  <2> QED
    BY <2>2, <2>3, <2>4
<1> QED
  BY <1>1 DEF Stored

LEMMA KeptFrame ==
    ASSUME TypeInv, StoreInv, NEW p \in Processes, job[p].op # "none",
           \A q \in Processes : q # p => job'[q] = job[q],
           UNCHANGED counts,
           ~overlapped =>
             /\ job'[p].put # Nothing /\ ~job'[p].open => job'[p].put \notin OnDisk'
             /\ job'[p].op = "collect" /\ Phase(job'[p]) = "sweep_blobs" =>
                   \A f \in safe' : Blobs(f) \subseteq job'[p].keep
             /\ \A f \in safe' : Restorable(f)'
    PROVE  Kept'
<1>1. ASSUME ~overlapped', NEW q \in Processes, q # p
      PROVE  job'[q].put = Nothing /\ job'[q].op = "none"
  <2>1. ~overlapped /\ p \in Busy
    BY <1>1, BusyJobs DEF counts
  <2>2. q \notin Busy
    BY <1>1, <2>1 DEF StoreInv, Alone
  <2>3. job'[q] = job[q] /\ job[q].put = Nothing /\ job[q].op = "none"
    BY <1>1, <2>2, BusyJobs
  <2> QED
    BY <2>3
<1>2. ASSUME ~overlapped'
      PROVE  ~overlapped
  BY <1>2 DEF counts
<1>3. ASSUME ~overlapped', NEW q \in Processes
      PROVE  /\ job'[q].put # Nothing /\ ~job'[q].open => job'[q].put \notin OnDisk'
             /\ job'[q].op = "collect" /\ Phase(job'[q]) = "sweep_blobs" =>
                   \A f \in safe' : Blobs(f) \subseteq job'[q].keep
  <2>1. CASE q = p
    BY <1>2, <1>3, <2>1
  <2>2. CASE q # p
    BY <1>1, <1>3, <2>2
  <2> QED
    BY <2>1, <2>2
<1> QED
  BY <1>2, <1>3 DEF Kept

\* While nothing overlaps and nobody was killed, what is torn is what the one
\* process at work is filling.
LEMMA TornAlone ==
    ASSUME TypeInv, StoreInv, NEW p \in Processes, job[p].op # "none",
           ~overlapped, killed = 0
    PROVE  torn \subseteq {job[p].put} /\ (~job[p].open => torn = {})
<1>1. ~raced
  BY DEF StoreInv, Alone
<1>2. ASSUME NEW o \in torn
      PROVE  job[p].open /\ o = job[p].put
  <2>1. PICK q \in Processes : job[q].open /\ job[q].put = o
    BY <1>1 DEF StoreInv, Stored
  <2>2. q \in Busy /\ p \in Busy
    BY <2>1, BusyJobs
  <2>3. q = p
    BY <2>2 DEF StoreInv, Alone
  <2> QED
    BY <2>1, <2>3
<1> QED
  BY <1>2

\* So, too, while a collection is at work.
LEMMA CollectAlone ==
    ASSUME TypeInv, StoreInv, NEW p \in Processes, job[p].op = "collect",
           ~raced
    PROVE  /\ \A q \in Processes : q # p => job[q] = Idle /\ job[q].open = FALSE
                                            /\ job[q].entries = Nowhere
           /\ killed = 0 => torn = {}
<1>1. ASSUME NEW q \in Processes, q # p
      PROVE  job[q] = Idle /\ job[q].open = FALSE /\ job[q].entries = Nowhere
  <2>1. q \notin Busy
    BY <1>1, BusyJobs DEF StoreInv, Alone
  <2> QED
    BY <2>1, BusyJobs
<1>2. job[p].open = FALSE
  <2>1. job[p].put = Nothing
    <3>1. ~In(p, "capture")
      BY InPhase DEF TypeInv, AtStage
    <3> QED
      BY <3>1, PutInCapture
  <2> QED
    BY <2>1, PutInCapture
<1>3. killed = 0 => torn = {}
  BY <1>1, <1>2 DEF StoreInv, Stored
<1> QED
  BY <1>1, <1>3

LEMMA CollectsKept ==
    ASSUME TypeInv, StoreInv, NEW p \in Processes,
           \A q \in Processes : q # p => job'[q] = job[q],
           job'[p].op = "collect" =>
               job'[p].entries = Nowhere \/ (job[p].op = "collect" /\ job'[p].entries = job[p].entries)
    PROVE  CollectsNothing'
BY DEF StoreInv, CollectsNothing

LEMMA NoCollection ==
    ASSUME TypeInv, NEW p \in Processes, In(p, "capture")
    PROVE  job[p].op # "collect" /\ job[p].op # "none"
BY InPhase DEF TypeInv, AtStage

LEMMA ReadStore ==
    ASSUME TypeInv, StoreInv, NEW p \in Processes, ReadFile(p)
    PROVE  CollectsNothing' /\ Stored' /\ Kept'
<1>1. PICK x \in job[p].rest : LET k == job'[p] IN
           /\ In(p, "capture") /\ job[p].put = Nothing /\ job[p].open = FALSE
           /\ job[p].op # "none"
           /\ files[x] # Absent /\ Decode[files[x]] \in Contents
           /\ WellShaped(k) /\ Become(p, k)
           /\ SameWork(k, job[p])
           /\ k.entries = [job[p].entries EXCEPT ![x] = Decode[files[x]]]
           /\ k.put = IF Blob(Decode[files[x]]) \in OnDisk
                      THEN Nothing ELSE Blob(Decode[files[x]])
           /\ k.open = FALSE
  BY ReadShape
<1>2. /\ \A q \in Processes : q # p => job'[q] = job[q]
      /\ UNCHANGED <<counts, stored, torn, returned, safe>>
  BY WorkShape DEF Work, ReadFile, store, memory
<1>3. OnDisk' = OnDisk
  BY <1>2 DEF OnDisk
<1>4. job'[p].op = job[p].op /\ job[p].op # "collect"
  BY <1>1, NoCollection DEF SameWork
<1>5. CollectsNothing'
  BY <1>2, <1>4, CollectsKept
<1>6. ASSUME killed = 0, ~raced
      PROVE  Blobs(job'[p].entries) \subseteq OnDisk' \cup {job'[p].put}
  <2>1. job[p].entries \in Folders /\ x \in Paths
    BY DEF TypeInv, Jobs
  <2>2. Blobs(job[p].entries) \subseteq OnDisk
    BY <1>1, <1>6, <2>1, BlobsAlone DEF StoreInv, Stored
  <2>3. \A y \in Present(job'[p].entries) :
           \/ y = x /\ job'[p].entries[y] = Decode[files[x]]
           \/ y \in Present(job[p].entries) /\ job'[p].entries[y] = job[p].entries[y]
    BY <1>1, <2>1 DEF Present, Folders
  <2>4. \A o \in Blobs(job'[p].entries) : o = Blob(Decode[files[x]]) \/ o \in Blobs(job[p].entries)
    BY <2>3 DEF Blobs
  <2> QED
    BY <1>1, <1>3, <2>2, <2>4
<1>7. Stored'
  BY <1>1, <1>2, <1>3, <1>4, <1>6, StoredFrame
<1>8. ~overlapped => \A f \in safe' : Restorable(f)'
  BY <1>2 DEF StoreInv, Kept, Restorable
<1>9. job'[p].put # Nothing => job'[p].put \notin OnDisk'
  BY <1>1, <1>3
<1>10. Kept'
  BY <1>1, <1>2, <1>4, <1>8, <1>9, KeptFrame
<1> QED
  BY <1>5, <1>7, <1>10

LEMMA GoneStore ==
    ASSUME TypeInv, StoreInv, NEW p \in Processes, FileGone(p)
    PROVE  CollectsNothing' /\ Stored' /\ Kept'
<1>1. /\ Throw(p) /\ In(p, "capture") /\ job[p].put = Nothing
  BY DEF FileGone, At
<1>2. job[p].op # "collect" /\ job[p].op # "none"
  BY <1>1, NoCollection
<1>3. PICK k : /\ WellShaped(k) /\ Become(p, k)
               /\ k = Idle \/ Moved(k, job[p])
  BY <1>1, <1>2, ThrowShape
<1>4. /\ job'[p] = k
      /\ \A q \in Processes : q # p => job'[q] = job[q]
      /\ UNCHANGED <<counts, stored, torn, returned, safe>>
  BY <1>1, <1>3, OneJob DEF Become, Throw, store, memory
<1>5. /\ k.put = Nothing /\ k.open = FALSE
      /\ k.op # "collect"
      /\ k.entries = job[p].entries \/ k.entries = Nowhere
  <2>1. Idle.op = "none" /\ Idle.put = Nothing /\ Idle.open = FALSE /\ Idle.entries = Nowhere
    BY DEF Idle
  <2>2. CASE k = Idle
    BY <2>1, <2>2
  <2>3. CASE Moved(k, job[p]) /\ k # Idle
    BY <1>2, <2>3 DEF Moved, SameWork
  <2> QED
    BY <1>3, <2>2, <2>3
<1>6. CollectsNothing'
  BY <1>4, <1>5, CollectsKept
<1>7. OnDisk' = OnDisk
  BY <1>4 DEF OnDisk
<1>8. ASSUME killed = 0, ~raced
      PROVE  Blobs(job'[p].entries) \subseteq OnDisk' \cup {job'[p].put}
  <2>1. Blobs(job[p].entries) \subseteq OnDisk \cup {Nothing}
    BY <1>1, <1>8 DEF StoreInv, Stored
  <2> QED
    BY <1>4, <1>5, <1>7, <2>1, NowhereIsFolder
<1>9. job[p].open = FALSE
  BY <1>1, PutInCapture
<1>10. Stored'
  BY <1>2, <1>4, <1>5, <1>7, <1>8, <1>9, StoredFrame
<1>11. ~overlapped => \A f \in safe' : Restorable(f)'
  BY <1>4 DEF StoreInv, Kept, Restorable
<1>12. Kept'
  BY <1>2, <1>4, <1>5, <1>11, KeptFrame
<1> QED
  BY <1>6, <1>10, <1>12

\* Only what is missing is opened, as long as nothing overlaps.
LEMMA OpenStore ==
    ASSUME TypeInv, StoreInv, NEW p \in Processes, OpenObject(p)
    PROVE  CollectsNothing' /\ Stored' /\ Kept'
<1>1. /\ job[p].op # "none"
      /\ SameWork(job'[p], job[p])
      /\ job'[p].entries = job[p].entries
      /\ job'[p].put = job[p].put /\ job'[p].open = TRUE
  BY OpenShape
<1>2. /\ job[p].put # Nothing /\ ~job[p].open
      /\ torn' = torn \cup {job[p].put}
      /\ stored' = stored \ {job[p].put}
      /\ UNCHANGED <<counts, returned, safe>>
  BY DEF OpenObject, memory
<1>3. \A q \in Processes : q # p => job'[q] = job[q]
  BY WorkShape DEF Work
<1>4. job'[p].op = job[p].op /\ job[p].op # "collect"
  BY <1>1, <1>2, PutInCapture, NoCollection DEF SameWork
<1>5. CollectsNothing'
  BY <1>3, <1>4, CollectsKept
<1>6. OnDisk' = OnDisk \cup {job[p].put}
  BY <1>2 DEF OnDisk
<1>7. killed = 0 /\ ~raced => Blobs(job[p].entries) \subseteq OnDisk \cup {job[p].put}
  BY DEF StoreInv, Stored
<1>8. Stored'
  BY <1>1, <1>2, <1>3, <1>4, <1>6, <1>7, StoredFrame
<1>9. ASSUME ~overlapped
      PROVE  \A f \in safe' : Restorable(f)'
  <2>1. job[p].put \notin stored
    BY <1>2, <1>9 DEF StoreInv, Kept, OnDisk
  <2>2. stored' = stored
    BY <1>2, <2>1
  <2> QED
    BY <1>2, <1>9, <2>2 DEF StoreInv, Kept, Restorable
<1>10. Kept'
  BY <1>1, <1>2, <1>3, <1>4, <1>9, KeptFrame
<1> QED
  BY <1>5, <1>8, <1>10

\* What a capture returns is there, tree and blobs, and whole if nothing has
\* overlapped.
LEMMA CapturedStore ==
    ASSUME TypeInv, StoreInv, NEW p \in Processes, job[p].op # "none", job[p].op # "collect",
           Captured(p), UNCHANGED counts,
           \A q \in Processes : q # p => job'[q] = job[q],
           job'[p].put = Nothing, job'[p].open = FALSE,
           job'[p] = Idle \/ (SameWork(job'[p], job[p]) /\ job'[p].entries = job[p].entries),
           OnDisk' = OnDisk, torn' \subseteq torn, stored \subseteq stored',
           killed = 0 /\ ~raced =>
              /\ \A o \in torn' : ~(job[p].open /\ job[p].put = o)
              /\ Tree(job[p].entries) \in OnDisk
              /\ Blobs(job[p].entries) \subseteq OnDisk,
           killed = 0 /\ ~overlapped => torn' = {}
    PROVE  CollectsNothing' /\ Stored' /\ Kept'
<1>1. returned' = returned \cup {job[p].entries}
  BY DEF Captured
<1>2. safe' = IF overlapped \/ killed > 0 THEN safe ELSE safe \cup {job[p].entries}
  BY DEF Captured
<1>3. /\ job'[p].op # "collect"
      /\ job'[p].entries = job[p].entries \/ job'[p].entries = Nowhere
  BY DEF SameWork, Idle
<1>4. CollectsNothing'
  BY <1>3, CollectsKept
<1>5. killed = 0 /\ ~raced => Blobs(job'[p].entries) \subseteq OnDisk'
  BY <1>3, NowhereIsFolder
<1>6. Stored'
  BY <1>1, <1>3, <1>5, StoredFrame
<1>7. ASSUME ~overlapped, NEW f \in safe'
      PROVE  Tree(f) \in stored' /\ Blobs(f) \subseteq stored'
  <2>1. CASE f \in safe
    BY <1>7, <2>1 DEF StoreInv, Kept, Restorable
  <2>2. CASE f \notin safe
    <3>1. f = job[p].entries /\ killed = 0
      BY <1>2, <1>7, <2>2 DEF TypeInv
    <3>2. ~raced
      BY <1>7 DEF StoreInv, Alone
    <3>3. OnDisk = stored'
      BY <1>7, <3>1 DEF OnDisk
    <3> QED
      BY <3>1, <3>2, <3>3
  <2> QED
    BY <2>1, <2>2
<1>8. ~overlapped => \A f \in safe' : Restorable(f)'
  BY <1>7 DEF Restorable
<1>9. Kept'
  BY <1>3, <1>8, KeptFrame
<1> QED
  BY <1>4, <1>6, <1>9

LEMMA FillStore ==
    ASSUME TypeInv, StoreInv, NEW p \in Processes, FillObject(p)
    PROVE  CollectsNothing' /\ Stored' /\ Kept'
<1>1. LET k == job'[p] IN
           /\ job[p].op # "none" /\ In(p, "capture") /\ job[p].put # Nothing
           /\ k.put = Nothing /\ k.open = FALSE
           /\ \/ /\ job[p].put = Tree(job[p].entries) /\ job[p].rest = {}
                 /\ Moved(k, job[p]) /\ Captured(p)
              \/ /\ job[p].put \in BlobObjects
                 /\ SameWork(k, job[p])
                 /\ k.entries = job[p].entries
                 /\ UNCHANGED memory
  BY FillShape
<1>2. /\ job[p].open
      /\ torn' = torn \ {job[p].put}
      /\ stored' = stored \cup ({job[p].put} \cap torn)
      /\ UNCHANGED counts
  BY DEF FillObject
<1>3. \A q \in Processes : q # p => job'[q] = job[q]
  BY WorkShape DEF Work
<1>4. job[p].op # "collect"
  BY <1>1, NoCollection
<1>5. OnDisk' = OnDisk
  BY <1>2 DEF OnDisk
<1>6. killed = 0 /\ ~overlapped => torn' = {}
  BY <1>1, <1>2, TornAlone
<1>7. ASSUME killed = 0, ~raced
      PROVE  /\ job[p].put \in OnDisk
             /\ Blobs(job[p].entries) \subseteq OnDisk
  BY <1>2, <1>7 DEF StoreInv, Stored
<1>8. CASE job[p].put = Tree(job[p].entries) /\ Moved(job'[p], job[p]) /\ Captured(p)
  <2>1. job'[p] = Idle \/ (SameWork(job'[p], job[p]) /\ job'[p].entries = job[p].entries)
    BY <1>8 DEF Moved
  <2> QED
    BY <1>1, <1>2, <1>3, <1>4, <1>5, <1>6, <1>7, <1>8, <2>1, CapturedStore
<1>9. CASE SameWork(job'[p], job[p]) /\ job'[p].entries = job[p].entries /\ UNCHANGED memory
  <2>1. job'[p].op # "collect" /\ UNCHANGED <<returned, safe>>
    BY <1>4, <1>9 DEF SameWork, memory
  <2>2. CollectsNothing'
    BY <1>3, <2>1, CollectsKept
  <2>3. Stored'
    BY <1>1, <1>2, <1>3, <1>5, <1>7, <1>9, <2>1, StoredFrame
  <2>4. ~overlapped => \A f \in safe' : Restorable(f)'
    BY <1>2, <2>1 DEF StoreInv, Kept, Restorable
  <2>5. Kept'
    BY <1>1, <1>2, <1>3, <2>1, <2>4, KeptFrame
  <2> QED
    BY <2>2, <2>3, <2>5
<1> QED
  BY <1>1, <1>8, <1>9

LEMMA TreeStore ==
    ASSUME TypeInv, StoreInv, NEW p \in Processes, StoreTree(p)
    PROVE  CollectsNothing' /\ Stored' /\ Kept'
<1>1. LET k == job'[p] IN
           /\ job[p].op # "none" /\ In(p, "capture")
           /\ job[p].put = Nothing /\ job[p].open = FALSE
           /\ k.open = FALSE
           /\ \/ /\ Tree(job[p].entries) \in OnDisk
                 /\ k.put = Nothing
                 /\ Moved(k, job[p]) /\ Captured(p)
              \/ /\ Tree(job[p].entries) \notin OnDisk
                 /\ SameWork(k, job[p])
                 /\ k.entries = job[p].entries
                 /\ k.put = Tree(job[p].entries)
                 /\ UNCHANGED memory
  BY StoreShape
<1>2. UNCHANGED <<counts, stored, torn>>
  BY DEF StoreTree, store
<1>3. \A q \in Processes : q # p => job'[q] = job[q]
  BY WorkShape DEF Work
<1>4. job[p].op # "collect"
  BY <1>1, NoCollection
<1>5. OnDisk' = OnDisk
  BY <1>2 DEF OnDisk
<1>6. killed = 0 /\ ~overlapped => torn = {}
  BY <1>1, TornAlone
<1>7. ASSUME killed = 0, ~raced
      PROVE  Blobs(job[p].entries) \subseteq OnDisk
  <2>1. Blobs(job[p].entries) \subseteq OnDisk \cup {Nothing}
    BY <1>1, <1>7 DEF StoreInv, Stored
  <2>2. job[p].entries \in Folders
    BY DEF TypeInv, Jobs
  <2> QED
    BY <2>1, <2>2, BlobsAlone
<1>8. CASE /\ Tree(job[p].entries) \in OnDisk
           /\ job'[p].put = Nothing
           /\ Moved(job'[p], job[p]) /\ Captured(p)
  <2>1. job'[p] = Idle \/ (SameWork(job'[p], job[p]) /\ job'[p].entries = job[p].entries)
    BY <1>8 DEF Moved
  <2> QED
    BY <1>1, <1>2, <1>3, <1>4, <1>5, <1>6, <1>7, <1>8, <2>1, CapturedStore
<1>9. CASE /\ Tree(job[p].entries) \notin OnDisk
           /\ SameWork(job'[p], job[p])
           /\ job'[p].entries = job[p].entries
           /\ job'[p].put = Tree(job[p].entries)
           /\ UNCHANGED memory
  <2>1. job'[p].op # "collect" /\ UNCHANGED <<returned, safe>>
    BY <1>4, <1>9 DEF SameWork, memory
  <2>2. CollectsNothing'
    BY <1>3, <2>1, CollectsKept
  <2>3. Stored'
    BY <1>1, <1>2, <1>3, <1>5, <1>7, <1>9, <2>1, StoredFrame
  <2>4. ~overlapped => \A f \in safe' : Restorable(f)'
    BY <1>2, <2>1 DEF StoreInv, Kept, Restorable
  <2>5. Kept'
    BY <1>1, <1>2, <1>3, <1>5, <1>9, <2>1, <2>4, KeptFrame
  <2> QED
    BY <2>2, <2>3, <2>5
<1> QED
  BY <1>1, <1>8, <1>9

\* The phases of a collection, and what a job that only moves on does not mark.
LEMMA CollectSteps ==
    ASSUME TypeInv, NEW p \in Processes, Elsewhere(p), job[p].op = "collect"
    PROVE  Mark(p) \/ SweepBlobs(p) \/ SweepTrees(p)
<1>1. /\ job[p].op # "none"
      /\ Phase(job[p]) \in {"mark", "sweep_blobs", "sweep_trees"}
      /\ \A h : In(p, h) <=> Phase(job[p]) = h
  BY InPhase DEF TypeInv, AtStage
<1>2. \A h \in {"list", "list_both", "list_own", "list_branch", "restore", "copy", "apply",
                "clear", "fill", "write", "load", "head", "compare"} : ~In(p, h)
  BY <1>1
<1> QED
  BY <1>2 DEF Elsewhere, List, NoPaths, WriteFile, Load, RestoreFile, RemoveFile, CopyFile,
              WriteHead, Compare, ApplyChange, ClearFile, FillFile, At

LEMMA MarkStore ==
    ASSUME TypeInv, StoreInv, NEW p \in Processes, Mark(p)
    PROVE  CollectsNothing' /\ Stored' /\ Kept'
<1>1. LET k == job'[p] IN
           /\ job[p].op = "collect"
           /\ k.op = "collect"
           /\ k.entries = job[p].entries
           /\ k.keep = UNION {Blobs(f) : f \in {g \in Folders : Tree(g) \in stored}}
           /\ k.put = Nothing /\ k.open = FALSE
  BY MarkShape
<1>2. /\ \A q \in Processes : q # p => job'[q] = job[q]
      /\ UNCHANGED <<counts, stored, torn, returned, safe>>
  BY WorkShape DEF Work, Mark, store, memory
<1>3. CollectsNothing'
  BY <1>1, <1>2, CollectsKept
<1>4. OnDisk' = OnDisk
  BY <1>2 DEF OnDisk
<1>5. Blobs(job'[p].entries) = {}
  BY <1>1, NowhereIsFolder DEF StoreInv, CollectsNothing
<1>6. ASSUME NEW f \in returned, Tree(f) \in stored
      PROVE  Blobs(f) \subseteq job'[p].keep
  BY <1>1, <1>6 DEF TypeInv
<1>7. ASSUME killed = 0, ~raced
      PROVE  \A f \in returned : Tree(f) \in stored
  BY <1>1, <1>7, CollectAlone DEF StoreInv, Stored, OnDisk
<1>8. job[p].open = FALSE
  <2>1. ~In(p, "capture")
    BY <1>1, NoCollection
  <2> QED
    BY <2>1, PutInCapture
<1>9. Stored'
  BY <1>1, <1>2, <1>4, <1>5, <1>6, <1>7, <1>8, StoredFrame
<1>10. ASSUME ~overlapped, NEW f \in safe'
       PROVE  /\ Restorable(f)'
              /\ Blobs(f) \subseteq job'[p].keep
  <2>1. Restorable(f) /\ f \in returned
    BY <1>2, <1>10 DEF StoreInv, Kept, TypeInv
  <2> QED
    BY <1>2, <1>6, <2>1 DEF Restorable
<1>11. Kept'
  BY <1>1, <1>2, <1>10, KeptFrame
<1> QED
  BY <1>3, <1>9, <1>11

\* A sweep takes no tree that is whole and no blob of a snapshot.
LEMMA SweepStore ==
    ASSUME TypeInv, StoreInv, NEW p \in Processes, SweepBlobs(p) \/ SweepTrees(p)
    PROVE  CollectsNothing' /\ Stored' /\ Kept'
<1>0. WellShaped(job[p])
  BY DEF TypeInv
<1>1. /\ job[p].op = "collect"
      /\ SweepBlobs(p) => Phase(job[p]) = "sweep_blobs" /\ Left(job[p]) = 2
      /\ SweepTrees(p) => Left(job[p]) = 1
  <2>1. In(p, "sweep_blobs") \/ In(p, "sweep_trees")
    BY DEF SweepBlobs, SweepTrees
  <2>2. job[p].op = "collect"
    BY <1>0, <2>1, InPhase DEF AtStage, Operations
  <2> QED
    BY <1>0, <2>2, InPhase DEF AtStage, SweepBlobs, SweepTrees
<1>2. /\ Moved(job'[p], job[p])
      /\ \A q \in Processes : q # p => job'[q] = job[q]
      /\ UNCHANGED <<counts, returned, safe>>
  <2>1. Advance(p) /\ UNCHANGED <<counts, memory>>
    BY DEF SweepBlobs, SweepTrees
  <2>2. Moved(job'[p], job[p])
    BY <1>1, <2>1, AdvanceShape
  <2>3. \A q \in Processes : q # p => job'[q] = job[q]
    BY WorkShape DEF Work
  <2> QED
    BY <2>1, <2>2, <2>3 DEF memory
<1>3. job[p].entries = Nowhere
  BY <1>1 DEF StoreInv, CollectsNothing
<1>4. /\ job'[p].put = Nothing /\ job'[p].open = FALSE
      /\ job'[p].entries = Nowhere
      /\ ~(job'[p].op = "collect" /\ Phase(job'[p]) = "sweep_blobs")
  <2>1. CASE SweepTrees(p)
    BY <1>1, <1>2, <2>1 DEF Moved, Idle
  <2>2. CASE SweepBlobs(p)
    <3>1. /\ WellShaped(job'[p]) /\ job'[p].put = Nothing /\ job'[p].open = FALSE
          /\ Left(job'[p]) = 1
          /\ job'[p].entries = Nowhere /\ job'[p].op = "collect"
      BY <1>1, <1>2, <1>3, <2>2 DEF Moved, SameWork
    <3>2. AtStage(job'[p])
      BY <3>1, Stages DEF WellShaped, Jobs
    <3>3. Phase(job'[p]) = "sweep_trees"
      BY <3>1, <3>2 DEF AtStage
    <3> QED
      BY <3>1, <3>3
  <2> QED
    BY <2>1, <2>2
<1>5. CollectsNothing'
  BY <1>2, <1>4, CollectsKept
<1>6. torn' \subseteq torn
  BY DEF SweepBlobs, SweepTrees
<1>7. ASSUME NEW f \in Folders, Tree(f) \in stored, Blobs(f) \subseteq stored,
             SweepBlobs(p) => Blobs(f) \subseteq job[p].keep
      PROVE  Tree(f) \in stored' /\ Blobs(f) \subseteq stored'
  <2>1. CASE SweepTrees(p)
    BY <1>7, <2>1 DEF SweepTrees
  <2>2. CASE SweepBlobs(p)
    <3>1. Tree(f)[1] # "blob"
      <4>1. Tree(f)[1] = "tree"
        BY Tags
      <4> QED
        BY <4>1
    <3>2. stored' = stored \ ({o \in OnDisk : o[1] = "blob"} \ job[p].keep)
      BY <2>2 DEF SweepBlobs
    <3> QED
      BY <1>7, <2>2, <3>1, <3>2
  <2> QED
    BY <2>1, <2>2
<1>8. ASSUME killed' = 0, ~raced'
      PROVE  /\ \A o \in torn' : \E q \in Processes : job'[q].open /\ job'[q].put = o
             /\ \A q \in Processes :
                   /\ job'[q].open => job'[q].put \in OnDisk'
                   /\ Blobs(job'[q].entries) \subseteq OnDisk' \cup {job'[q].put}
                   /\ job'[q].op = "collect" /\ Phase(job'[q]) = "sweep_blobs" =>
                         \A f \in returned' : Blobs(f) \subseteq job'[q].keep
             /\ \A f \in returned' : Tree(f) \in OnDisk' /\ Blobs(f) \subseteq OnDisk'
  <2>1. killed = 0 /\ ~raced
    BY <1>2, <1>8 DEF counts
  <2>2. /\ \A q \in Processes : q # p => job'[q] = Idle
        /\ torn = {} /\ torn' = {}
    BY <1>1, <1>2, <1>6, <2>1, CollectAlone
  <2>3. OnDisk = stored /\ OnDisk' = stored'
    BY <2>2 DEF OnDisk
  <2>4. ASSUME NEW q \in Processes
        PROVE  /\ job'[q].open = FALSE
               /\ job'[q].entries = Nowhere
               /\ ~(job'[q].op = "collect" /\ Phase(job'[q]) = "sweep_blobs")
    <3>1. CASE q = p
      BY <1>4, <3>1
    <3>2. CASE q # p
      <4>1. Idle.open = FALSE /\ Idle.entries = Nowhere /\ Idle.op # "collect"
        BY DEF Idle
      <4> QED
        BY <2>2, <3>2, <4>1
    <3> QED
      BY <3>1, <3>2
  <2>5. ASSUME NEW f \in returned'
        PROVE  Tree(f) \in OnDisk' /\ Blobs(f) \subseteq OnDisk'
    <3>1. /\ f \in returned /\ f \in Folders
          /\ Tree(f) \in stored /\ Blobs(f) \subseteq stored
          /\ SweepBlobs(p) => Blobs(f) \subseteq job[p].keep
      BY <1>1, <1>2, <2>1, <2>3 DEF StoreInv, Stored, TypeInv
    <3> QED
      BY <1>7, <2>3, <3>1
  <2> QED
    BY <2>2, <2>4, <2>5, NowhereIsFolder
<1>9. Stored'
  BY <1>8 DEF Stored
<1>10. ASSUME ~overlapped, NEW f \in safe'
       PROVE  Restorable(f)'
  <2>1. f \in safe /\ f \in Folders /\ Restorable(f)
    BY <1>2, <1>10 DEF StoreInv, Kept, TypeInv
  <2>2. SweepBlobs(p) => Blobs(f) \subseteq job[p].keep
    BY <1>1, <1>10, <2>1 DEF StoreInv, Kept
  <2> QED
    BY <1>7, <2>1, <2>2 DEF Restorable
<1>11. Kept'
  BY <1>1, <1>2, <1>4, <1>10, KeptFrame
<1> QED
  BY <1>5, <1>9, <1>11

LEMMA ElsewhereStore ==
    ASSUME TypeInv, StoreInv, NEW p \in Processes, Elsewhere(p)
    PROVE  CollectsNothing' /\ Stored' /\ Kept'
<1>1. CASE job[p].op = "collect"
  BY <1>1, CollectSteps, MarkStore, SweepStore
<1>2. CASE job[p].op # "collect"
  <2>1. /\ job[p].op # "none" /\ ~In(p, "capture")
        /\ job[p].put = Nothing /\ job[p].open = FALSE
        /\ job'[p].put = Nothing /\ job'[p].open = FALSE
        /\ job'[p].entries = job[p].entries \/ job'[p].entries = Nowhere
        /\ job'[p].op = job[p].op \/ job'[p] = Idle
        /\ UNCHANGED <<counts, memory>>
        /\ SweepBlobs(p) \/ SweepTrees(p) \/ UNCHANGED store
    BY ElsewhereShape
  <2>2. ~SweepBlobs(p) /\ ~SweepTrees(p)
    BY <1>2, InPhase DEF SweepBlobs, SweepTrees, TypeInv, AtStage, Operations
  <2>3. UNCHANGED <<stored, torn, returned, safe>>
    BY <2>1, <2>2 DEF store, memory
  <2>4. \A q \in Processes : q # p => job'[q] = job[q]
    BY WorkShape DEF Work, Elsewhere
  <2>5. job'[p].op # "collect"
    <3>1. Idle.op = "none"
      BY DEF Idle
    <3> QED
      BY <1>2, <2>1, <3>1
  <2>6. CollectsNothing'
    BY <2>4, <2>5, CollectsKept
  <2>7. OnDisk' = OnDisk
    BY <2>3 DEF OnDisk
  <2>8. killed = 0 /\ ~raced => Blobs(job'[p].entries) \subseteq OnDisk' \cup {job'[p].put}
    BY <2>1, <2>7, NowhereIsFolder DEF StoreInv, Stored
  <2>9. Stored'
    BY <2>1, <2>3, <2>4, <2>5, <2>7, <2>8, StoredFrame
  <2>10. ~overlapped => \A f \in safe' : Restorable(f)'
    BY <2>3 DEF StoreInv, Kept, Restorable
  <2>11. Kept'
    BY <2>1, <2>3, <2>4, <2>5, <2>10, KeptFrame
  <2> QED
    BY <2>6, <2>9, <2>11
<1> QED
  BY <1>1, <1>2

LEMMA KillStore ==
    ASSUME TypeInv, StoreInv, NEW p \in Processes, Kill(p)
    PROVE  CollectsNothing' /\ Stored' /\ Kept'
<1>1. /\ job'[p] = Idle
      /\ \A q \in Processes : q # p => job'[q] = job[q]
      /\ killed' = killed + 1 /\ killed \in Nat
      /\ UNCHANGED <<stored, torn, overlapped, safe>>
  BY IdleShape, OneJob DEF Kill, Become, TypeInv, store, memory
<1>2. Idle.put = Nothing /\ Idle.op = "none" /\ Idle.entries = Nowhere
  BY DEF Idle
<1>3. CollectsNothing'
  BY <1>1, <1>2, CollectsKept
<1>4. Stored'
  BY <1>1 DEF Stored
<1>5. OnDisk' = OnDisk /\ \A f : Restorable(f)' <=> Restorable(f)
  BY <1>1 DEF OnDisk, Restorable
<1>6. ASSUME ~overlapped', NEW q \in Processes
      PROVE  /\ job'[q].put # Nothing /\ ~job'[q].open => job'[q].put \notin OnDisk'
             /\ job'[q].op = "collect" /\ Phase(job'[q]) = "sweep_blobs" =>
                   \A f \in safe' : Blobs(f) \subseteq job'[q].keep
  <2>1. CASE q = p
    BY <1>1, <1>2, <2>1
  <2>2. CASE q # p
    BY <1>1, <1>5, <1>6, <2>2 DEF StoreInv, Kept
  <2> QED
    BY <2>1, <2>2
<1>7. Kept'
  BY <1>1, <1>5, <1>6 DEF StoreInv, Kept
<1> QED
  BY <1>3, <1>4, <1>7

\* What does not look at the store or the jobs.
LEMMA OutsideStore ==
    ASSUME StoreInv, UNCHANGED <<stored, torn, job, killed, raced, returned, safe>>,
           ~overlapped' => ~overlapped
    PROVE  CollectsNothing' /\ Stored' /\ Kept'
<1>1. OnDisk' = OnDisk /\ \A f : Restorable(f)' <=> Restorable(f)
  BY DEF OnDisk, Restorable
<1>2. CollectsNothing'
  BY DEF StoreInv, CollectsNothing
<1>3. Stored'
  BY <1>1 DEF StoreInv, Stored
<1>4. Kept'
  BY <1>1 DEF StoreInv, Kept
<1> QED
  BY <1>2, <1>3, <1>4

LEMMA StoreStep == TypeInv /\ StoreInv /\ [Next]_vars => StoreInv'
<1> SUFFICES ASSUME TypeInv, StoreInv, [Next]_vars
             PROVE  StoreInv'
  OBVIOUS
<1>1. Alone'
  BY AloneStep DEF StoreInv
<1>2. ASSUME Edit
      PROVE  CollectsNothing' /\ Stored' /\ Kept'
  BY <1>2, OutsideStore DEF Edit, store, memory
<1>3. ASSUME NEW p \in Processes, Work(p)
      PROVE  CollectsNothing' /\ Stored' /\ Kept'
  BY <1>3, ReadStore, GoneStore, OpenStore, FillStore, TreeStore, ElsewhereStore DEF Work, Elsewhere
<1>4. ASSUME UNCHANGED vars
      PROVE  CollectsNothing' /\ Stored' /\ Kept'
  BY <1>4, OutsideStore DEF vars, store, counts, memory
<1>5. CollectsNothing' /\ Stored' /\ Kept'
  BY <1>1, <1>2, <1>3, <1>4, BeginStore, KillStore DEF Next
<1> QED
  BY <1>1, <1>5 DEF StoreInv

LEMMA StoreInit == Init => StoreInv
<1> SUFFICES ASSUME Init PROVE StoreInv
  OBVIOUS
<1>1. /\ \A p \in Processes : job[p] = Idle
      /\ stored = {} /\ torn = {} /\ returned = {} /\ safe = {}
      /\ overlapped = FALSE /\ raced = FALSE
  BY DEF Init
<1>2. /\ Idle.op = "none" /\ Idle.entries = Nowhere
      /\ Idle.put = Nothing /\ Idle.open = FALSE
  BY DEF Idle
<1>3. Busy = {}
  BY <1>1, <1>2 DEF Busy
<1>4. Alone
  BY <1>1, <1>3 DEF Alone
<1>5. CollectsNothing
  BY <1>1, <1>2 DEF CollectsNothing
<1>6. Stored
  BY <1>1, <1>2, NowhereIsFolder DEF Stored
<1>7. Kept
  BY <1>1, <1>2 DEF Kept
<1> QED
  BY <1>4, <1>5, <1>6, <1>7 DEF StoreInv

LEMMA StoreAlways == Spec => [](TypeInv /\ StoreInv)
<1>1. Init => TypeInv /\ StoreInv
  BY TypeInit, StoreInit
<1>2. TypeInv /\ StoreInv /\ [Next]_vars => (TypeInv /\ StoreInv)'
  BY TypeStep, StoreStep
<1> QED
  BY <1>1, <1>2, PTL DEF Spec

\* A snapshot that captureTreeSnapshot returned can be restored: with any number
\* of processes that capture, write, merge, roll back and are edited at the same
\* time, as long as nobody is killed and no collection runs beside another
\* operation; and, without overlaps, whoever is killed afterwards.
THEOREM SnapshotsAlwaysKept == Spec => []SnapshotsKept
<1>1. TypeInv /\ StoreInv => SnapshotsKept
  <2> SUFFICES ASSUME TypeInv, StoreInv PROVE SnapshotsKept
    OBVIOUS
  <2>1. ASSUME Busy = {}, killed = 0, ~raced
        PROVE  \A f \in returned : Restorable(f)
    <3>1. torn = {}
      BY <2>1, BusyJobs DEF StoreInv, Stored
    <3> QED
      BY <2>1, <3>1 DEF StoreInv, Stored, OnDisk, Restorable
  <2>2. ~overlapped => \A f \in safe : Restorable(f)
    BY DEF StoreInv, Kept
  <2> QED
    BY <2>1, <2>2 DEF SnapshotsKept
<1> QED
  BY <1>1, StoreAlways, PTL

-----------------------------------------------------------------------------
(* A job that works alone *)

LEMMA StageOf ==
    ASSUME NEW j, WellShaped(j)
    PROVE  /\ AtStage(j) /\ j.op \in Operations /\ Left(j) \in 0..6
           /\ Left(j) = 0 <=> j.op = "none"
           /\ j.rest \subseteq Paths /\ j.entries \in Folders
           /\ j.folder \in Folders /\ j.before \in Folders
BY Stages DEF WellShaped, Jobs

LEMMA IdleOp == Idle.op = "none"
BY DEF Idle

LEMMA IdleProgress == Progress(Idle)
BY IdleShape, IdleOp DEF Progress, Capturing, Undone, Untouched, Snapshot, Restoring, Merging,
   CheckingOut, Branching, Filling

\* What an operation that nothing overlapped has done when it ends.
EndsWell(j) ==
    /\ j.op \in {"write", "rollback", "merge"} /\ IsText(j.before) => j.before \in safe'
    /\ j.op = "rollback" => files' = j.folder
    /\ j.op = "merge" /\ IsText(j.before) /\ IsText(work) => files' = work
    /\ j.op = "checkout" => \A x \in Paths \ Skipped : files'[x] = work[x]
    /\ j.op = "branch" /\ head = Nothing => \A x \in Paths \ Skipped : work'[x] = j.before[x]

\* A step of the process that works alone.
GoesOn(p) ==
    /\ job'[p] = Idle => EndsWell(job[p])
    /\ Progress(job[p])'
    /\ head' = Nothing => work' = Nowhere \/ Filling(job'[p])

\* What is known of the process that works alone.
AtWork(p) ==
    /\ WellShaped(job[p]) /\ job[p].op # "none"
    /\ Progress(job[p])
    /\ head = Nothing => work = Nowhere \/ Filling(job[p])
    /\ ~job[p].open => /\ torn = {}
                       /\ \A f \in returned : Restorable(f)
    /\ files \in Folders /\ work \in Folders
    /\ killed = 0 /\ ~overlapped

LEMMA CalmJob ==
    ASSUME VcsInv, Calm, NEW p \in Processes, job[p].op # "none"
    PROVE  /\ AtWork(p)
           /\ \A q \in Processes : q # p => job[q] = Idle
<1>1. ASSUME NEW q \in Processes, q # p
      PROVE  job[q] = Idle
  <2>1. p \in Busy
    BY BusyJobs DEF VcsInv
  <2>2. q \notin Busy
    BY <1>1, <2>1 DEF VcsInv, StoreInv, Alone, Calm
  <2> QED
    BY <2>2, BusyJobs DEF VcsInv
<1>2. ~Filling(Idle)
  BY IdleOp DEF Filling
<1>3. head = Nothing => work = Nowhere \/ Filling(job[p])
  BY <1>1, <1>2 DEF VcsInv, CalmInv
<1>4. ~raced
  BY DEF VcsInv, StoreInv, Alone, Calm
<1>5. ~job[p].open => torn = {}
  BY TornAlone DEF VcsInv, Calm
<1>6. ~job[p].open => \A f \in returned : Restorable(f)
  BY <1>4, <1>5 DEF VcsInv, StoreInv, Stored, Calm, OnDisk, Restorable
<1> QED
  BY <1>1, <1>3, <1>5, <1>6 DEF AtWork, VcsInv, CalmInv, TypeInv, Calm

\* In a capture what has been read and what is done before stay as they are.
LEMMA CaptureGoesOn ==
    ASSUME NEW p \in Processes, AtWork(p), Phase(job[p]) = "capture",
           SameWork(job'[p], job[p]), job'[p].phases = job[p].phases,
           UNCHANGED <<files, work, head, returned, safe>>,
           Capturing(job[p])'
    PROVE  GoesOn(p)
<1>1. AtStage(job[p]) /\ job[p].op \in Operations
  BY StageOf DEF AtWork
<1>2. Left(job'[p]) = Left(job[p]) /\ Phase(job'[p]) = "capture"
  BY DEF Left, Phase
<1>3. job'[p] # Idle
  BY IdleOp DEF AtWork, SameWork
<1>4. Undone(job[p])'
  BY <1>2 DEF AtWork, Progress, Undone, Untouched, Snapshot, SameWork
<1>5. Restoring(job[p])'
  BY <1>2 DEF AtWork, Progress, Restoring, SameWork
<1>6. Merging(job[p])'
  BY <1>2 DEF AtWork, Progress, Merging, SameWork
<1>7. CheckingOut(job[p])'
  BY <1>2 DEF CheckingOut
<1>8. ~Filling(job[p]) /\ ~Filling(job'[p])
  BY <1>1, <1>2 DEF Filling, AtStage, SameWork
<1>9. Branching(job[p])'
  BY <1>8 DEF Branching
<1> QED
  BY <1>3, <1>4, <1>5, <1>6, <1>7, <1>8, <1>9 DEF GoesOn, Progress, AtWork

\* When the capture ends its tree is that of the workspace as it is read.
LEMMA CaptureEnds ==
    ASSUME TypeInv, NEW p \in Processes, AtWork(p), In(p, "capture"), job[p].rest = {},
           Moved(job'[p], job[p]), Captured(p),
           UNCHANGED <<files, work, head>>
    PROVE  GoesOn(p)
<1> DEFINE j == job[p]
           k == job'[p]
<1>1. /\ AtStage(j) /\ j.op \in Operations /\ Left(j) \in 0..6
      /\ j.entries \in Folders /\ j.before \in Folders /\ files \in Folders
      /\ Phase(j) = "capture" /\ j.op # "none"
  BY StageOf, InPhase DEF AtWork
<1>2. j.entries = Decoded(files)
  <2>1. \A x \in Paths : j.entries[x] = Decode[files[x]]
    BY <1>1 DEF AtWork, Progress, Capturing
  <2> QED
    BY <1>1, <2>1 DEF Decoded, Folders
<1>3. /\ returned' = returned \cup {j.entries}
      /\ safe' = safe \cup {j.entries}
  BY DEF Captured, AtWork
<1>4. ~Filling(j)
  BY <1>1 DEF Filling, AtStage
<1>5. head' = Nothing => work' = Nowhere
  BY <1>4 DEF AtWork
<1>6. CASE Left(j) = 1
  <2>1. k = Idle
    BY <1>6 DEF Moved
  <2>2. Progress(Idle)'
    BY IdleProgress, PTL
  <2>3. j.op \in {"snapshot", "merge"}
    BY <1>1, <1>6 DEF AtStage, Operations
  <2>4. Undone(j) /\ Merging(j)
    BY DEF AtWork, Progress
  <2>5. EndsWell(j)
    <3>1. j.op \in {"write", "rollback", "merge"} /\ IsText(j.before) => j.before \in safe'
      BY <1>3, <1>6, <2>3, <2>4 DEF Undone, Snapshot
    <3>2. j.op = "merge" /\ IsText(j.before) /\ IsText(work) => files' = work
      BY <1>6, <2>4 DEF Merging
    <3> QED
      BY <2>3, <3>1, <3>2 DEF EndsWell
  <2> QED
    BY <1>5, <2>1, <2>2, <2>5 DEF GoesOn
<1>7. CASE Left(j) # 1
  <2>1. /\ SameWork(k, j) /\ Left(k) = Left(j) - 1
        /\ k.rest = {} /\ k.entries = j.entries
        /\ WellShaped(k)
    BY <1>7 DEF Moved
  <2>2. AtStage(k) /\ k.op = j.op
    BY <2>1, StageOf DEF SameWork
  <2>3. \/ j.op = "write" /\ Left(j) = 2 /\ Phase(k) = "write"
        \/ j.op = "rollback" /\ Left(j) = 3 /\ Phase(k) = "list_both"
        \/ j.op = "branch" /\ Left(j) = 4 /\ Phase(k) = "list_own"
        \/ j.op = "merge" /\ Left(j) = 5 /\ Phase(k) = "compare"
    BY <1>1, <1>7, <2>1, <2>2 DEF AtStage, Operations
  <2>4. k # Idle
    BY <1>1, <2>2, IdleOp
  <2>5. k.before = files
    BY <2>1, <2>3 DEF AtWork, Progress, Undone, Untouched, SameWork
  <2>6. Undone(job[p])'
    <3>1. IsText(k.before) => k.before \in safe'
      BY <1>2, <1>3, <2>5 DEF IsText
    <3> QED
      BY <2>5, <3>1 DEF Undone
  <2>7. Capturing(job[p])'
    BY <2>3 DEF Capturing
  <2>8. Restoring(job[p])'
    BY <1>3, <2>1, <2>3 DEF Restoring, AtWork, Progress, SameWork
  <2>9. Merging(job[p])'
    <3>1. k.op = "merge" => Left(k) = 4 /\ Phase(k) = "compare"
      BY <2>1, <2>2, <2>3
    <3>2. k.entries = [x \in Paths |-> Decode[files'[x]]]
      BY <1>2, <2>1 DEF Decoded
    <3> QED
      BY <3>1, <3>2 DEF Merging, Decoded
  <2>10. CheckingOut(job[p])'
    BY <2>2, <2>3 DEF CheckingOut
  <2>11. Branching(job[p])'
    BY <2>1, <2>2, <2>3 DEF Branching, Filling
  <2> QED
    BY <1>5, <2>4, <2>6, <2>7, <2>8, <2>9, <2>10, <2>11 DEF GoesOn, Progress
<1> QED
  BY <1>6, <1>7

LEMMA CaptureGoes ==
    ASSUME TypeInv, NEW p \in Processes, AtWork(p),
           ReadFile(p) \/ FileGone(p) \/ OpenObject(p) \/ FillObject(p) \/ StoreTree(p)
    PROVE  GoesOn(p)
<1>0. Capturing(job[p])
  BY DEF AtWork, Progress
<1>1. ASSUME ReadFile(p)
      PROVE  GoesOn(p)
  <2>1. PICK x \in job[p].rest : LET k == job'[p] IN
           /\ In(p, "capture")
           /\ SameWork(k, job[p]) /\ k.phases = job[p].phases
           /\ k.rest = job[p].rest \ {x}
           /\ k.entries = [job[p].entries EXCEPT ![x] = Decode[files[x]]]
    BY <1>1, ReadShape
  <2>2. UNCHANGED <<files, work, head, returned, safe>>
    BY <1>1 DEF ReadFile, disk, memory
  <2>3. Phase(job[p]) = "capture" /\ job[p].entries \in Folders
    BY <2>1, InPhase, StageOf DEF AtWork
  <2>4. Capturing(job[p])'
    <3>1. /\ job'[p].rest \subseteq Present(files)
          /\ \A y \in Paths \ job'[p].rest : job'[p].entries[y] = Decode[files[y]]
      BY <1>0, <2>1, <2>3 DEF Capturing, Folders
    <3> QED
      BY <2>2, <3>1 DEF Capturing, Present
  <2> QED
    BY <2>1, <2>2, <2>3, <2>4, CaptureGoesOn
<1>2. ASSUME FileGone(p)
      PROVE  GoesOn(p)
  <2>1. PICK x \in Paths : At(p, "capture", x) /\ files[x] = Absent
    BY <1>2 DEF FileGone
  <2>2. Phase(job[p]) = "capture" /\ x \in job[p].rest
    BY <2>1, InPhase DEF At, AtWork
  <2> QED
    BY <1>0, <2>1, <2>2 DEF Capturing, Present
<1>3. ASSUME OpenObject(p)
      PROVE  GoesOn(p)
  <2>1. LET k == job'[p] IN
           /\ SameWork(k, job[p]) /\ k.phases = job[p].phases
           /\ k.rest = job[p].rest /\ k.entries = job[p].entries
    BY <1>3, OpenShape
  <2>2. UNCHANGED <<files, work, head, returned, safe>>
    BY <1>3 DEF OpenObject, disk, memory
  <2>3. Phase(job[p]) = "capture"
    BY <1>3, PutInCapture, InPhase DEF AtWork, OpenObject
  <2>4. Capturing(job[p])'
    BY <1>0, <2>1, <2>2, <2>3 DEF Capturing, Present
  <2> QED
    BY <2>1, <2>2, <2>3, <2>4, CaptureGoesOn
<1>4. ASSUME FillObject(p)
      PROVE  GoesOn(p)
  <2>1. LET k == job'[p] IN
           /\ In(p, "capture")
           /\ \/ /\ job[p].rest = {}
                 /\ Moved(k, job[p]) /\ Captured(p)
              \/ /\ SameWork(k, job[p]) /\ k.phases = job[p].phases
                 /\ k.rest = job[p].rest /\ k.entries = job[p].entries
                 /\ UNCHANGED memory
    BY <1>4, FillShape
  <2>2. UNCHANGED <<files, work, head>>
    BY <1>4 DEF FillObject, disk
  <2>3. Phase(job[p]) = "capture"
    BY <2>1, InPhase DEF AtWork
  <2>4. CASE job[p].rest = {} /\ Moved(job'[p], job[p]) /\ Captured(p)
    BY <2>1, <2>2, <2>4, CaptureEnds
  <2>5. CASE /\ SameWork(job'[p], job[p]) /\ job'[p].phases = job[p].phases
             /\ job'[p].rest = job[p].rest /\ job'[p].entries = job[p].entries
             /\ UNCHANGED memory
    <3>1. Capturing(job[p])'
      BY <1>0, <2>2, <2>3, <2>5 DEF Capturing, Present
    <3> QED
      BY <2>2, <2>3, <2>5, <3>1, CaptureGoesOn DEF memory
  <2> QED
    BY <2>1, <2>4, <2>5
<1>5. ASSUME StoreTree(p)
      PROVE  GoesOn(p)
  <2>1. LET k == job'[p] IN
           /\ In(p, "capture") /\ job[p].rest = {}
           /\ \/ /\ Moved(k, job[p]) /\ Captured(p)
              \/ /\ SameWork(k, job[p]) /\ k.phases = job[p].phases
                 /\ k.rest = {} /\ k.entries = job[p].entries
                 /\ UNCHANGED memory
    BY <1>5, StoreShape
  <2>2. UNCHANGED <<files, work, head>>
    BY <1>5 DEF StoreTree, disk
  <2>3. Phase(job[p]) = "capture"
    BY <2>1, InPhase DEF AtWork
  <2>4. CASE Moved(job'[p], job[p]) /\ Captured(p)
    BY <2>1, <2>2, <2>4, CaptureEnds
  <2>5. CASE /\ SameWork(job'[p], job[p]) /\ job'[p].phases = job[p].phases
             /\ job'[p].rest = {} /\ job'[p].entries = job[p].entries
             /\ UNCHANGED memory
    <3>1. Capturing(job[p])'
      BY <1>0, <2>1, <2>2, <2>3, <2>5 DEF Capturing, Present
    <3> QED
      BY <2>2, <2>3, <2>5, <3>1, CaptureGoesOn DEF memory
  <2> QED
    BY <2>1, <2>4, <2>5
<1> QED
  BY <1>1, <1>2, <1>3, <1>4, <1>5

\* Listing a folder finds what is in it.
LEMMA ListGoes ==
    ASSUME TypeInv, NEW p \in Processes, AtWork(p), List(p)
    PROVE  GoesOn(p)
<1> DEFINE j == job[p]
           k == job'[p]
<1>1. /\ WellShaped(k)
      /\ SameWork(k, j) /\ Left(k) = Left(j) - 1
      /\ k.rest = Listed(p)
      /\ k.entries = IF In(p, "list") THEN Nowhere ELSE j.entries
  BY ListShape
<1>2. UNCHANGED <<files, work, head, returned, safe>>
  BY DEF List, disk, memory
<1>3. /\ AtStage(j) /\ j.op \in Operations /\ Left(j) \in 0..6
      /\ files \in Folders /\ work \in Folders /\ j.folder \in Folders
      /\ j.op # "none"
  BY StageOf DEF AtWork
<1>4. AtStage(k) /\ k.op = j.op
  BY <1>1, StageOf DEF SameWork
<1>5. /\ Undone(j) /\ Restoring(j) /\ Merging(j) /\ CheckingOut(j) /\ Branching(j)
      /\ head = Nothing => work = Nowhere \/ Filling(j)
  BY DEF AtWork, Progress
<1>6. k # Idle
  BY <1>3, <1>4, IdleOp
<1>7. Decode[Absent] = Absent
  BY VcsAssumption DEF VcsAssumption
<1>8. CASE In(p, "list")
  <2>1. Phase(j) = "list"
    BY <1>8, InPhase DEF AtWork
  <2>2. /\ k.rest = Present(files) /\ k.entries = Nowhere
        /\ \/ Phase(k) = "capture"
           \/ Phase(k) = "clear" /\ j.op = "checkout"
        /\ j.op = "write" => Left(j) = 3
        /\ j.op = "rollback" => Left(j) = 4
        /\ j.op = "branch" => Left(j) = 5
        /\ j.op = "merge" => Left(j) = 6 \/ Left(j) = 2
    <3>1. k.rest = Present(files)
      BY <1>1, <2>1, InPhase DEF Listed, AtWork
    <3>2. \/ j.op = "snapshot" /\ Left(j) = 2
          \/ j.op = "write" /\ Left(j) = 3
          \/ j.op = "rollback" /\ Left(j) = 4
          \/ j.op = "branch" /\ Left(j) = 5
          \/ j.op = "merge" /\ (Left(j) = 6 \/ Left(j) = 2)
          \/ j.op = "checkout" /\ Left(j) = 4
      BY <1>3, <2>1 DEF AtStage, Operations
    <3>3. Phase(k) = "capture" \/ (Phase(k) = "clear" /\ j.op = "checkout")
      BY <1>1, <1>4, <3>2 DEF AtStage
    <3> QED
      BY <1>1, <1>8, <3>1, <3>2, <3>3
  <2>3. Capturing(job[p])'
    BY <1>2, <1>7, <2>2 DEF Capturing, Present, Nowhere
  <2>4. Undone(job[p])'
    BY <1>1, <1>2, <1>5, <2>2 DEF Undone, Untouched, Snapshot, SameWork
  <2>5. Restoring(job[p])'
    BY <1>1, <1>2, <1>5, <2>2 DEF Restoring, SameWork
  <2>6. Merging(job[p])'
    BY <1>1, <1>2, <1>4, <1>5, <2>2 DEF Merging, SameWork
  <2>7. CheckingOut(job[p])'
    BY <1>2, <2>2 DEF CheckingOut, Present
  <2>8. ~Filling(j) /\ ~Filling(k)
    BY <1>1, <1>4, <2>2 DEF Filling
  <2>9. Branching(job[p])'
    BY <2>8 DEF Branching
  <2> QED
    BY <1>2, <1>5, <1>6, <2>3, <2>4, <2>5, <2>6, <2>7, <2>8, <2>9 DEF GoesOn, Progress
<1>9. CASE In(p, "list_both")
  <2>1. Phase(j) = "list_both" /\ ~In(p, "list")
    BY <1>9, InPhase DEF AtWork
  <2>2. j.op = "rollback" /\ Left(j) = 2
    BY <1>3, <2>1 DEF AtStage, Operations
  <2>3. k.op = "rollback" /\ Left(k) = 1 /\ Phase(k) = "restore"
    BY <1>1, <1>4, <2>2 DEF AtStage
  <2>4. k.rest = Present(files) \cup Present(j.folder)
    BY <1>1, <2>1, InPhase DEF Listed, AtWork
  <2>5. Capturing(job[p])' /\ Merging(job[p])' /\ CheckingOut(job[p])' /\ Branching(job[p])'
    BY <2>3 DEF Capturing, Merging, CheckingOut, Branching, Filling
  <2>6. Undone(job[p])'
    BY <1>1, <1>2, <1>5, <2>2, <2>3 DEF Undone, Untouched, Snapshot, SameWork
  <2>7. Restoring(job[p])'
    <3>1. k.folder = j.folder /\ j.folder \in returned
      BY <1>1, <1>5, <2>2 DEF Restoring, SameWork
    <3>2. \A x \in Paths \ k.rest : files[x] = j.folder[x]
      BY <2>4 DEF Present
    <3>3. \A x \in k.rest : j.folder[x] = Absent => files[x] # Absent
      BY <2>4 DEF Present
    <3> QED
      BY <1>2, <3>1, <3>2, <3>3 DEF Restoring
  <2>8. ~Filling(j)
    BY <2>2 DEF Filling
  <2> QED
    BY <1>2, <1>5, <1>6, <2>5, <2>6, <2>7, <2>8 DEF GoesOn, Progress
<1>10. CASE In(p, "list_own")
  <2>1. Phase(j) = "list_own"
    BY <1>10, InPhase DEF AtWork
  <2>2. j.op = "branch" /\ Left(j) = 3
    BY <1>3, <2>1 DEF AtStage, Operations
  <2>3. k.op = "branch" /\ Left(k) = 2 /\ Phase(k) = "copy"
    BY <1>1, <1>4, <2>2 DEF AtStage
  <2>4. k.rest = Present(files) \ Skipped
    BY <1>1, <2>1, InPhase DEF Listed, AtWork
  <2>5. Capturing(job[p])' /\ Merging(job[p])' /\ CheckingOut(job[p])' /\ Restoring(job[p])'
    BY <2>3 DEF Capturing, Merging, CheckingOut, Restoring
  <2>6. Undone(job[p])'
    BY <1>1, <1>2, <1>5, <2>2, <2>3 DEF Undone, Untouched, Snapshot, SameWork
  <2>7. Branching(job[p])'
    <3>1. head = Nothing => work = Nowhere
      BY <1>5, <2>2 DEF Filling
    <3>2. head = Nothing => \A x \in (Paths \ k.rest) \ Skipped : work[x] = files[x]
      BY <2>4, <3>1 DEF Present, Nowhere
    <3>3. k.rest \subseteq Present(files)
      BY <2>4
    <3> QED
      BY <1>2, <2>3, <3>2, <3>3 DEF Branching, Present
  <2>8. Filling(k)
    BY <2>3 DEF Filling
  <2> QED
    BY <1>6, <2>5, <2>6, <2>7, <2>8 DEF GoesOn, Progress
<1>11. CASE In(p, "list_branch")
  <2>1. Phase(j) = "list_branch"
    BY <1>11, InPhase DEF AtWork
  <2>2. j.op = "checkout" /\ Left(j) = 2
    BY <1>3, <2>1 DEF AtStage, Operations
  <2>3. k.op = "checkout" /\ Left(k) = 1 /\ Phase(k) = "fill"
    BY <1>1, <1>4, <2>2 DEF AtStage
  <2>4. k.rest = Present(work) \ Skipped
    BY <1>1, <2>1, InPhase DEF Listed, AtWork
  <2>5. Capturing(job[p])' /\ Merging(job[p])' /\ Undone(job[p])' /\ Restoring(job[p])'
        /\ Branching(job[p])'
    BY <2>3 DEF Capturing, Merging, Undone, Untouched, Snapshot, Restoring, Branching, Filling
  <2>6. CheckingOut(job[p])'
    <3>1. files = Nowhere
      BY <1>5, <2>1, <2>2 DEF CheckingOut
    <3>2. \A x \in (Paths \ k.rest) \ Skipped : files[x] = work[x]
      BY <2>4, <3>1 DEF Present, Nowhere
    <3> QED
      BY <1>2, <2>3, <2>4, <3>2 DEF CheckingOut, Present
  <2>7. ~Filling(j)
    BY <2>2 DEF Filling
  <2> QED
    BY <1>2, <1>5, <1>6, <2>5, <2>6, <2>7 DEF GoesOn, Progress
<1> QED
  BY <1>8, <1>9, <1>10, <1>11 DEF List

LEMMA EndGoes ==
    ASSUME NEW p \in Processes, job'[p] = Idle, EndsWell(job[p]),
           head' = Nothing => work' = Nowhere
    PROVE  GoesOn(p)
<1>1. Progress(Idle)'
  BY IdleProgress, PTL
<1> QED
  BY <1>1 DEF GoesOn

\* A folder that agrees on all paths is the same.
LEMMA SameFolder ==
    ASSUME NEW f \in Folders, NEW g \in Folders, \A x \in Paths : f[x] = g[x]
    PROVE  f = g
BY DEF Folders

\* A rollback makes one more path as it is in the tree.
LEMMA RestoreGoes ==
    ASSUME TypeInv, TypeInv', NEW p \in Processes, AtWork(p), RestoreFile(p) \/ RemoveFile(p)
    PROVE  GoesOn(p)
<1> DEFINE j == job[p]
           k == job'[p]
<1>1. /\ AtStage(j) /\ j.op \in Operations /\ Left(j) \in 0..6
      /\ files \in Folders /\ j.folder \in Folders
      /\ j.op # "none" /\ j.rest \subseteq Paths
  BY StageOf DEF AtWork
<1>2. In(p, "restore") /\ Phase(j) = "restore" /\ ~In(p, "capture")
  BY InPhase DEF RestoreFile, RemoveFile, AtWork
<1>3. j.op = "rollback" /\ Left(j) = 1
  BY <1>1, <1>2 DEF AtStage, Operations
<1>4. j.open = FALSE
  BY <1>2, PutInCapture
<1>5. /\ j.folder \in returned
      /\ \A x \in Paths \ j.rest : files[x] = j.folder[x]
      /\ \A x \in j.rest : j.folder[x] = Absent => files[x] # Absent
  BY <1>2, <1>3 DEF AtWork, Progress, Restoring
<1>6. Undone(j)
  BY DEF AtWork, Progress
<1>7. Blobs(j.folder) \subseteq stored
  BY <1>4, <1>5 DEF AtWork, Restorable
<1>8. \E x \in j.rest :
         /\ files' = [files EXCEPT ![x] = j.folder[x]]
         /\ Become(p, Passed(p, x))
         /\ UNCHANGED <<work, head, store, counts, memory>>
  <2>1. CASE RestoreFile(p)
    <3>1. Wanted(p) \in SUBSET Paths /\ Wanted(p) # {}
      BY <1>1, <2>1 DEF RestoreFile, Wanted
    <3>2. PICK x \in Wanted(p) : x = First(Wanted(p))
      BY <3>1, FirstIsIn
    <3>3. x \in j.rest /\ x \in Present(j.folder)
      BY <3>2 DEF Wanted
    <3>4. Blob(j.folder[x]) \in stored
      BY <1>7, <3>3 DEF Blobs
    <3>5. Blob(j.folder[x]) \in OnDisk
      BY <3>4 DEF OnDisk
    <3> QED
      BY <2>1, <3>2, <3>3, <3>4, <3>5 DEF RestoreFile
  <2>2. CASE RemoveFile(p)
    <3>1. j.rest \in SUBSET Paths /\ j.rest # {} /\ Wanted(p) = {}
      BY <1>1, <2>2 DEF RemoveFile
    <3>2. PICK x \in j.rest : x = First(j.rest)
      BY <3>1, FirstIsIn
    <3>3. j.folder[x] = Absent
      BY <3>1, <3>2 DEF Wanted, Present
    <3>4. files[x] # Absent
      BY <1>5, <3>3
    <3> QED
      BY <2>2, <3>2, <3>3, <3>4 DEF RemoveFile
  <2> QED
    BY <2>1, <2>2
<1>9. PICK x \in j.rest :
         /\ files' = [files EXCEPT ![x] = j.folder[x]]
         /\ Become(p, Passed(p, x))
         /\ UNCHANGED <<work, head, store, counts, memory>>
  BY <1>8
<1>10. /\ \/ Shortened(k, j, x) /\ j.rest \ {x} # {}
          \/ Moved(k, j) /\ j.rest \ {x} = {}
  BY <1>1, <1>2, <1>9, PathShape
<1>11. \A y \in Paths \ (j.rest \ {x}) : files'[y] = j.folder[y]
  BY <1>1, <1>5, <1>9 DEF Folders
<1>12. ~Filling(j)
  BY <1>3 DEF Filling
<1>13. head' = Nothing => work' = Nowhere
  BY <1>9, <1>12 DEF AtWork
<1>14. CASE Moved(k, j) /\ j.rest \ {x} = {}
  <2>1. k = Idle
    BY <1>3, <1>14 DEF Moved
  <2>2. files' = j.folder
    BY <1>1, <1>11, <1>14, SameFolder DEF TypeInv
  <2>3. IsText(j.before) => j.before \in safe'
    BY <1>3, <1>6, <1>9 DEF Undone, Snapshot, memory
  <2>4. EndsWell(j)
    BY <1>3, <2>2, <2>3 DEF EndsWell
  <2> QED
    BY <1>13, <2>1, <2>4, EndGoes
<1>15. CASE Shortened(k, j, x)
  <2>1. /\ SameWork(k, j) /\ k.phases = j.phases /\ k.rest = j.rest \ {x}
    BY <1>15 DEF Shortened
  <2>2. k.op = "rollback" /\ Left(k) = 1 /\ Phase(k) = "restore"
    BY <1>2, <1>3, <2>1 DEF SameWork, Left, Phase
  <2>3. k # Idle
    BY <2>2, IdleOp
  <2>4. Capturing(job[p])' /\ Merging(job[p])' /\ CheckingOut(job[p])' /\ Branching(job[p])'
    BY <2>2 DEF Capturing, Merging, CheckingOut, Branching, Filling
  <2>5. Undone(job[p])'
    BY <1>3, <1>6, <1>9, <2>1, <2>2 DEF Undone, Untouched, Snapshot, SameWork, memory
  <2>6. Restoring(job[p])'
    <3>1. k.folder = j.folder /\ k.folder \in returned'
      BY <1>5, <1>9, <2>1 DEF SameWork, memory
    <3>2. \A y \in Paths \ k.rest : files'[y] = k.folder[y]
      BY <1>11, <2>1, <3>1
    <3>3. \A y \in k.rest : k.folder[y] = Absent => files'[y] # Absent
      BY <1>1, <1>5, <1>9, <2>1, <3>1 DEF Folders
    <3> QED
      BY <3>1, <3>2, <3>3 DEF Restoring
  <2> QED
    BY <1>13, <2>3, <2>4, <2>5, <2>6 DEF GoesOn, Progress
<1> QED
  BY <1>10, <1>14, <1>15

\* A phase that has no path left is done with its folder.
LEMMA NoPathsGoes ==
    ASSUME TypeInv, NEW p \in Processes, AtWork(p), NoPaths(p)
    PROVE  GoesOn(p)
<1> DEFINE j == job[p]
           k == job'[p]
<1>1. /\ AtStage(j) /\ j.op \in Operations /\ Left(j) \in 0..6
      /\ files \in Folders /\ work \in Folders /\ j.folder \in Folders
      /\ j.op # "none" /\ j.rest = {}
  BY StageOf DEF AtWork, NoPaths
<1>2. Moved(k, j) /\ UNCHANGED <<files, work, head, returned, safe>>
  BY <1>1, AdvanceShape DEF NoPaths, disk, memory
<1>3. /\ Undone(j) /\ Restoring(j) /\ Merging(j) /\ CheckingOut(j) /\ Branching(j)
      /\ head = Nothing => work = Nowhere \/ Filling(j)
  BY DEF AtWork, Progress
<1>4. \/ Phase(j) = "restore" /\ j.op = "rollback" /\ Left(j) = 1
      \/ Phase(j) = "copy" /\ j.op = "branch" /\ Left(j) = 2
      \/ Phase(j) = "apply" /\ j.op = "merge" /\ Left(j) = 3
      \/ Phase(j) = "clear" /\ j.op = "checkout" /\ Left(j) = 3
      \/ Phase(j) = "fill" /\ j.op = "checkout" /\ Left(j) = 1
  <2>1. Phase(j) \in {"restore", "copy", "apply", "clear", "fill"}
    BY InPhase DEF NoPaths, AtWork
  <2> QED
    BY <1>1, <2>1 DEF AtStage, Operations
<1>5. CASE Phase(j) = "restore" /\ j.op = "rollback" /\ Left(j) = 1
  <2>1. k = Idle
    BY <1>2, <1>5 DEF Moved
  <2>2. files = j.folder
    BY <1>1, <1>3, <1>5, SameFolder DEF Restoring
  <2>3. EndsWell(j)
    BY <1>2, <1>3, <1>5, <2>2 DEF EndsWell, Undone, Snapshot
  <2>4. head' = Nothing => work' = Nowhere
    BY <1>2, <1>3, <1>5 DEF Filling
  <2> QED
    BY <2>1, <2>3, <2>4, EndGoes
<1>6. CASE Phase(j) = "fill" /\ j.op = "checkout" /\ Left(j) = 1
  <2>1. k = Idle
    BY <1>2, <1>6 DEF Moved
  <2>2. EndsWell(j)
    BY <1>1, <1>2, <1>3, <1>6 DEF EndsWell, CheckingOut
  <2>3. head' = Nothing => work' = Nowhere
    BY <1>2, <1>3, <1>6 DEF Filling
  <2> QED
    BY <2>1, <2>2, <2>3, EndGoes
<1>7. ASSUME Left(j) # 1
      PROVE  /\ SameWork(k, j) /\ Left(k) = Left(j) - 1 /\ k.rest = {}
             /\ AtStage(k) /\ k.op = j.op /\ k # Idle
  BY <1>1, <1>2, <1>7, StageOf, IdleOp DEF Moved, SameWork
<1>8. CASE Phase(j) = "copy" /\ j.op = "branch" /\ Left(j) = 2
  <2>1. k.op = "branch" /\ Left(k) = 1 /\ Phase(k) = "head" /\ k.rest = {}
    BY <1>7, <1>8 DEF AtStage
  <2>2. Capturing(job[p])' /\ Merging(job[p])' /\ CheckingOut(job[p])' /\ Restoring(job[p])'
    BY <2>1 DEF Capturing, Merging, CheckingOut, Restoring
  <2>3. Undone(job[p])'
    BY <1>2, <1>3, <1>7, <1>8, <2>1 DEF Undone, Untouched, Snapshot, SameWork
  <2>4. Filling(j) /\ Filling(k)
    BY <1>8, <2>1 DEF Filling
  <2>5. Branching(job[p])'
    BY <1>1, <1>2, <1>3, <2>1, <2>4 DEF Branching
  <2> QED
    BY <1>7, <1>8, <2>2, <2>3, <2>4, <2>5 DEF GoesOn, Progress
<1>9. CASE Phase(j) = "apply" /\ j.op = "merge" /\ Left(j) = 3
  <2>1. k.op = "merge" /\ Left(k) = 2 /\ Phase(k) = "list"
    BY <1>7, <1>9 DEF AtStage
  <2>2. Capturing(job[p])' /\ Branching(job[p])' /\ CheckingOut(job[p])' /\ Restoring(job[p])'
    BY <2>1 DEF Capturing, Branching, Filling, CheckingOut, Restoring
  <2>3. Undone(job[p])'
    BY <1>2, <1>3, <1>7, <1>9, <2>1 DEF Undone, Untouched, Snapshot, SameWork
  <2>4. Merging(job[p])'
    <3>1. IsText(j.before) /\ IsText(work) => files = work
      BY <1>1, <1>3, <1>9, SameFolder DEF Merging
    <3>2. k.before = j.before
      BY <1>7, <1>9 DEF SameWork
    <3> QED
      BY <1>2, <2>1, <3>1, <3>2 DEF Merging
  <2>5. ~Filling(j)
    BY <1>9 DEF Filling
  <2> QED
    BY <1>2, <1>3, <1>7, <1>9, <2>2, <2>3, <2>4, <2>5 DEF GoesOn, Progress
<1>10. CASE Phase(j) = "clear" /\ j.op = "checkout" /\ Left(j) = 3
  <2>1. k.op = "checkout" /\ Left(k) = 2 /\ Phase(k) = "list_branch"
    BY <1>7, <1>10 DEF AtStage
  <2>2. Capturing(job[p])' /\ Branching(job[p])' /\ Merging(job[p])' /\ Restoring(job[p])'
        /\ Undone(job[p])'
    BY <2>1 DEF Capturing, Branching, Filling, Merging, Restoring, Undone, Untouched, Snapshot
  <2>3. CheckingOut(job[p])'
    <3>1. \A x \in Paths : files[x] = Nowhere[x]
      BY <1>1, <1>3, <1>10 DEF CheckingOut, Nowhere
    <3>2. files = Nowhere
      BY <1>1, <3>1, SameFolder, NowhereIsFolder
    <3> QED
      BY <1>2, <2>1, <3>2 DEF CheckingOut
  <2>4. ~Filling(j)
    BY <1>10 DEF Filling
  <2> QED
    BY <1>2, <1>3, <1>7, <1>10, <2>2, <2>3, <2>4 DEF GoesOn, Progress
<1> QED
  BY <1>4, <1>5, <1>6, <1>8, <1>9, <1>10

\* A write ends with its file, a snapshot of what was there having been taken.
LEMMA WriteGoes ==
    ASSUME TypeInv, NEW p \in Processes, AtWork(p), WriteFile(p)
    PROVE  GoesOn(p)
<1> DEFINE j == job[p]
           k == job'[p]
<1>1. AtStage(j) /\ j.op \in Operations /\ Left(j) \in 0..6 /\ j.op # "none"
  BY StageOf DEF AtWork
<1>2. j.op = "write" /\ Left(j) = 1
  BY <1>1, InPhase DEF WriteFile, AtWork, AtStage, Operations
<1>3. Moved(k, j) /\ UNCHANGED <<work, head, safe>>
  BY <1>1, AdvanceShape DEF WriteFile, memory
<1>4. k = Idle
  BY <1>2, <1>3 DEF Moved
<1>5. EndsWell(j)
  BY <1>2, <1>3 DEF EndsWell, AtWork, Progress, Undone, Snapshot
<1>6. head' = Nothing => work' = Nowhere
  BY <1>2, <1>3 DEF AtWork, Filling
<1> QED
  BY <1>4, <1>5, <1>6, EndGoes

\* A tree that was returned is loaded.
LEMMA LoadGoes ==
    ASSUME TypeInv, NEW p \in Processes, AtWork(p), Load(p)
    PROVE  GoesOn(p)
<1> DEFINE j == job[p]
           k == job'[p]
<1>1. AtStage(j) /\ j.op \in Operations /\ Left(j) \in 0..6 /\ j.op # "none"
  BY StageOf DEF AtWork
<1>2. In(p, "load") /\ Phase(j) = "load" /\ ~In(p, "capture")
  BY InPhase DEF Load, AtWork
<1>3. j.op = "rollback" /\ Left(j) = 5
  BY <1>1, <1>2 DEF AtStage, Operations
<1>4. Undone(j) /\ Restoring(j)
  BY DEF AtWork, Progress
<1>5. Tree(j.folder) \in stored
  <2>1. j.open = FALSE
    BY <1>2, PutInCapture
  <2> QED
    BY <1>3, <1>4, <2>1 DEF Restoring, AtWork, Restorable
<1>6. Moved(k, j) /\ UNCHANGED <<files, work, head, returned, safe>>
  BY <1>1, <1>5, AdvanceShape DEF Load, disk, memory
<1>7. /\ SameWork(k, j) /\ Left(k) = 4 /\ k.op = "rollback"
      /\ Phase(k) = "list" /\ k # Idle
  BY <1>3, <1>6, StageOf, IdleOp DEF Moved, SameWork, AtStage
<1>8. Capturing(job[p])' /\ Merging(job[p])' /\ CheckingOut(job[p])' /\ Branching(job[p])'
  BY <1>7 DEF Capturing, Merging, CheckingOut, Branching, Filling
<1>9. Undone(job[p])'
  BY <1>3, <1>4, <1>6, <1>7 DEF Undone, Untouched, Snapshot, SameWork
<1>10. Restoring(job[p])'
  BY <1>3, <1>4, <1>6, <1>7 DEF Restoring, SameWork
<1>11. head' = Nothing => work' = Nowhere
  BY <1>3, <1>6 DEF AtWork, Filling
<1> QED
  BY <1>7, <1>8, <1>9, <1>10, <1>11 DEF GoesOn, Progress

\* A new worktree gets one file more.
LEMMA CopyGoes ==
    ASSUME TypeInv, NEW p \in Processes, AtWork(p), CopyFile(p)
    PROVE  GoesOn(p)
<1> DEFINE j == job[p]
           k == job'[p]
<1>1. /\ AtStage(j) /\ j.op \in Operations /\ Left(j) \in 0..6 /\ j.op # "none"
      /\ files \in Folders /\ work \in Folders
  BY StageOf DEF AtWork
<1>2. PICK x \in Paths :
          /\ At(p, "copy", x)
          /\ work' = [work EXCEPT ![x] = IF files[x] = Absent THEN @ ELSE files[x]]
          /\ Become(p, IF files[x] = Absent THEN Idle ELSE Passed(p, x))
  BY DEF CopyFile
<1>3. x \in j.rest /\ Phase(j) = "copy" /\ ~In(p, "capture")
  BY <1>2, InPhase DEF At, AtWork
<1>4. j.op = "branch" /\ Left(j) = 2
  BY <1>1, <1>3 DEF AtStage, Operations
<1>5. /\ Undone(j) /\ Branching(j) /\ Filling(j)
  BY <1>4 DEF AtWork, Progress, Filling
<1>6. files[x] # Absent
  BY <1>3, <1>5 DEF Branching, Present
<1>7. /\ work' = [work EXCEPT ![x] = files[x]]
      /\ UNCHANGED <<files, head, returned, safe>>
      /\ Become(p, Passed(p, x))
  BY <1>2, <1>6 DEF CopyFile, memory
<1>8. \/ Shortened(k, j, x)
      \/ Moved(k, j) /\ j.rest \ {x} = {}
  BY <1>1, <1>3, <1>7, PathShape
<1>9. /\ k.rest = j.rest \ {x} /\ SameWork(k, j) /\ k.op = "branch"
      /\ \/ Left(k) = 2 /\ Phase(k) = "copy"
         \/ Left(k) = 1 /\ Phase(k) = "head" /\ k.rest = {}
      /\ k # Idle
  <2>1. CASE Shortened(k, j, x)
    BY <1>3, <1>4, <2>1, IdleOp DEF Shortened, SameWork, Left, Phase
  <2>2. CASE Moved(k, j) /\ j.rest \ {x} = {}
    BY <1>4, <2>2, StageOf, IdleOp DEF Moved, SameWork, AtStage
  <2> QED
    BY <1>8, <2>1, <2>2
<1>10. Capturing(job[p])' /\ Merging(job[p])' /\ CheckingOut(job[p])' /\ Restoring(job[p])'
  BY <1>9 DEF Capturing, Merging, CheckingOut, Restoring
<1>11. Undone(job[p])'
  BY <1>4, <1>5, <1>7, <1>9 DEF Undone, Untouched, Snapshot, SameWork
<1>12. Branching(job[p])'
  <2>1. k.rest \subseteq Present(files)
    BY <1>5, <1>9 DEF Branching
  <2>2. head = Nothing => \A y \in (Paths \ k.rest) \ Skipped : work'[y] = files[y]
    BY <1>1, <1>5, <1>7, <1>9 DEF Branching, Folders
  <2>3. Phase(k) = "head" => k.rest = {}
    BY <1>9
  <2> QED
    BY <1>7, <2>1, <2>2, <2>3 DEF Branching, Present
<1>13. Filling(k)
  BY <1>9 DEF Filling
<1> QED
  BY <1>9, <1>10, <1>11, <1>12, <1>13 DEF GoesOn, Progress

\* The branch is there when its worktree is.
LEMMA HeadGoes ==
    ASSUME TypeInv, NEW p \in Processes, AtWork(p), WriteHead(p)
    PROVE  GoesOn(p)
<1> DEFINE j == job[p]
           k == job'[p]
<1>1. AtStage(j) /\ j.op \in Operations /\ Left(j) \in 0..6 /\ j.op # "none"
  BY StageOf DEF AtWork
<1>2. j.op = "branch" /\ Left(j) = 1 /\ Phase(j) = "head"
  BY <1>1, InPhase DEF WriteHead, AtWork, AtStage, Operations
<1>3. Moved(k, j) /\ UNCHANGED <<files, work, safe>> /\ head' # Nothing
  BY <1>1, AdvanceShape, Kinds DEF WriteHead, memory
<1>4. k = Idle
  BY <1>2, <1>3 DEF Moved
<1>5. head = Nothing => \A x \in Paths \ Skipped : work[x] = j.before[x]
  <2>1. /\ j.before = files
        /\ head = Nothing => \A x \in (Paths \ j.rest) \ Skipped : work[x] = files[x]
    BY <1>2 DEF AtWork, Progress, Undone, Untouched, Branching, Filling
  <2>2. j.rest = {}
    BY <1>2 DEF AtWork, Progress, Branching, Filling
  <2> QED
    BY <2>1, <2>2
<1>6. EndsWell(j)
  BY <1>2, <1>3, <1>5 DEF EndsWell
<1> QED
  BY <1>3, <1>4, <1>6, EndGoes

\* What differs between the workspace and the worktree is what is left to apply.
LEMMA CompareGoes ==
    ASSUME TypeInv, NEW p \in Processes, AtWork(p), Compare(p)
    PROVE  GoesOn(p)
<1> DEFINE j == job[p]
           k == job'[p]
<1>1. /\ files \in Folders /\ work \in Folders
      /\ In(p, "compare") /\ Phase(j) = "compare"
  BY InPhase DEF AtWork, Compare
<1>2. /\ j.op = "merge" /\ Left(j) = 4
      /\ WellShaped(k) /\ k.op = "merge" /\ k.before = j.before /\ Left(k) = 3
      /\ k.folder = Decoded(work)
      /\ k.rest = {x \in Paths : Decode[work[x]] # j.entries[x]}
  BY CompareShape
<1>3. Phase(k) = "apply" /\ k # Idle
  BY <1>2, StageOf, IdleOp DEF AtStage
<1>4. UNCHANGED <<files, work, head, returned, safe>>
  BY DEF Compare, disk, memory
<1>5. Undone(j) /\ Merging(j)
  BY DEF AtWork, Progress
<1>6. Capturing(job[p])' /\ CheckingOut(job[p])' /\ Restoring(job[p])' /\ Branching(job[p])'
  BY <1>2, <1>3 DEF Capturing, CheckingOut, Restoring, Branching, Filling
<1>7. Undone(job[p])'
  BY <1>2, <1>4, <1>5 DEF Undone, Untouched, Snapshot
<1>8. Merging(job[p])'
  <2>1. k.folder = [x \in Paths |-> Decode[work'[x]]]
    BY <1>2, <1>4 DEF Decoded
  <2>2. ASSUME IsText(j.before), IsText(work), NEW x \in Paths \ k.rest
        PROVE  files[x] = work[x]
    <3>1. Decode[work[x]] = Decode[files[x]]
      BY <1>1, <1>2, <1>5, <2>2 DEF Merging, Decoded
    <3>2. IsText(files)
      BY <1>2, <1>5, <2>2 DEF Undone, Untouched
    <3>3. Decode[files[x]] = files[x] /\ Decode[work[x]] = work[x]
      BY <2>2, <3>2 DEF IsText, Decoded
    <3> QED
      BY <3>1, <3>3
  <2>3. IsText(job[p].before)' /\ IsText(work)' =>
            \A x \in Paths \ k.rest : files'[x] = work'[x]
    BY <1>2, <1>4, <2>2 DEF IsText, Decoded
  <2> QED
    BY <1>2, <1>3, <2>1, <2>3 DEF Merging, Decoded
<1>9. head' = Nothing => work' = Nowhere
  BY <1>2, <1>4 DEF AtWork, Filling
<1> QED
  BY <1>3, <1>6, <1>7, <1>8, <1>9 DEF GoesOn, Progress

\* A merge makes one more path as it is in the worktree.
LEMMA ApplyGoes ==
    ASSUME TypeInv, TypeInv', NEW p \in Processes, AtWork(p), ApplyChange(p)
    PROVE  GoesOn(p)
<1> DEFINE j == job[p]
           k == job'[p]
<1>1. /\ AtStage(j) /\ j.op \in Operations /\ Left(j) \in 0..6 /\ j.op # "none"
      /\ files \in Folders /\ work \in Folders
  BY StageOf DEF AtWork
<1>2. PICK x \in Paths :
          /\ At(p, "apply", x)
          /\ IF j.folder[x] = Absent
             THEN files' = [files EXCEPT ![x] = Absent] /\ Become(p, Passed(p, x))
             ELSE CopyBack(p, x)
  BY DEF ApplyChange
<1>3. x \in j.rest /\ Phase(j) = "apply" /\ ~In(p, "capture")
  BY <1>2, InPhase DEF At, AtWork
<1>4. j.op = "merge" /\ Left(j) = 3
  BY <1>1, <1>3 DEF AtStage, Operations
<1>5. Undone(j) /\ Merging(j)
  BY DEF AtWork, Progress
<1>6. j.folder[x] = Decode[work[x]]
  BY <1>3, <1>4, <1>5 DEF Merging, Decoded
<1>7. j.folder[x] = Absent <=> work[x] = Absent
  BY <1>1, <1>6, VcsAssumption DEF VcsAssumption, Folders
<1>8. files' = [files EXCEPT ![x] = work[x]] /\ Become(p, Passed(p, x))
  BY <1>2, <1>7 DEF CopyBack
<1>9. UNCHANGED <<work, head, returned, safe>>
  BY DEF ApplyChange, memory
<1>10. \/ Shortened(k, j, x)
       \/ Moved(k, j) /\ j.rest \ {x} = {}
  BY <1>1, <1>3, <1>8, PathShape
<1>11. IsText(j.before) /\ IsText(work) => \A y \in Paths \ (j.rest \ {x}) : files'[y] = work[y]
  BY <1>1, <1>3, <1>4, <1>5, <1>8 DEF Merging, Folders
<1>12. /\ SameWork(k, j) /\ k.op = "merge" /\ k # Idle
       /\ \/ Left(k) = 3 /\ Phase(k) = "apply" /\ k.rest = j.rest \ {x}
          \/ Left(k) = 2 /\ Phase(k) = "list" /\ j.rest \ {x} = {}
  <2>1. CASE Shortened(k, j, x)
    BY <1>3, <1>4, <2>1, IdleOp DEF Shortened, SameWork, Left, Phase
  <2>2. CASE Moved(k, j) /\ j.rest \ {x} = {}
    BY <1>4, <2>2, StageOf, IdleOp DEF Moved, SameWork, AtStage
  <2> QED
    BY <1>10, <2>1, <2>2
<1>13. Capturing(job[p])' /\ CheckingOut(job[p])' /\ Restoring(job[p])' /\ Branching(job[p])'
  BY <1>12 DEF Capturing, CheckingOut, Restoring, Branching, Filling
<1>14. Undone(job[p])'
  BY <1>4, <1>5, <1>9, <1>12 DEF Undone, Untouched, Snapshot, SameWork
<1>15. Merging(job[p])'
  <2>1. k.before = j.before /\ k.folder = j.folder
    BY <1>12 DEF SameWork
  <2>2. Phase(k) = "apply" => k.folder = [y \in Paths |-> Decode[work'[y]]]
    BY <1>3, <1>4, <1>5, <1>9, <2>1 DEF Merging, Decoded
  <2>3. ASSUME IsText(job[p].before)', IsText(work)'
        PROVE  /\ Phase(k) = "apply" => \A y \in Paths \ k.rest : files'[y] = work'[y]
               /\ Left(k) <= 2 => files' = work'
    <3>1. IsText(j.before) /\ IsText(work)
      BY <1>9, <2>1, <2>3 DEF IsText, Decoded
    <3>2. \A y \in Paths \ (j.rest \ {x}) : files'[y] = work'[y]
      BY <1>9, <1>11, <3>1
    <3>3. j.rest \ {x} = {} => files' = work'
      BY <1>1, <1>9, <3>2, SameFolder DEF TypeInv
    <3> QED
      BY <1>12, <3>2, <3>3
  <2> QED
    BY <1>12, <2>2, <2>3 DEF Merging, Decoded
<1>16. head' = Nothing => work' = Nowhere
  BY <1>4, <1>9 DEF AtWork, Filling
<1> QED
  BY <1>12, <1>13, <1>14, <1>15, <1>16 DEF GoesOn, Progress

\* A checkout removes one file more.
LEMMA ClearGoes ==
    ASSUME TypeInv, TypeInv', NEW p \in Processes, AtWork(p), ClearFile(p)
    PROVE  GoesOn(p)
<1> DEFINE j == job[p]
           k == job'[p]
<1>1. /\ AtStage(j) /\ j.op \in Operations /\ Left(j) \in 0..6 /\ j.op # "none"
      /\ files \in Folders
  BY StageOf DEF AtWork
<1>2. PICK x \in Paths :
          /\ At(p, "clear", x)
          /\ files' = [files EXCEPT ![x] = Absent]
          /\ Become(p, Passed(p, x))
  BY DEF ClearFile
<1>3. x \in j.rest /\ Phase(j) = "clear" /\ ~In(p, "capture")
  BY <1>2, InPhase DEF At, AtWork
<1>4. j.op = "checkout" /\ Left(j) = 3
  BY <1>1, <1>3 DEF AtStage, Operations
<1>5. UNCHANGED <<work, head>>
  BY DEF ClearFile
<1>6. \/ Shortened(k, j, x)
      \/ Moved(k, j) /\ j.rest \ {x} = {}
  BY <1>1, <1>2, <1>3, PathShape
<1>7. \A y \in Paths \ (j.rest \ {x}) : files'[y] = Absent
  BY <1>1, <1>2, <1>3, <1>4 DEF AtWork, Progress, CheckingOut, Folders
<1>8. /\ k.op = "checkout" /\ k # Idle
      /\ \/ Phase(k) = "clear" /\ k.rest = j.rest \ {x}
         \/ Phase(k) = "list_branch" /\ j.rest \ {x} = {}
  <2>1. CASE Shortened(k, j, x)
    BY <1>3, <1>4, <2>1, IdleOp DEF Shortened, SameWork, Phase
  <2>2. CASE Moved(k, j) /\ j.rest \ {x} = {}
    BY <1>4, <2>2, StageOf, IdleOp DEF Moved, SameWork, AtStage
  <2> QED
    BY <1>6, <2>1, <2>2
<1>9. /\ Capturing(job[p])' /\ Merging(job[p])' /\ Restoring(job[p])' /\ Branching(job[p])'
      /\ Undone(job[p])'
  BY <1>8 DEF Capturing, Merging, Restoring, Branching, Filling, Undone, Untouched, Snapshot
<1>10. CheckingOut(job[p])'
  <2>1. j.rest \ {x} = {} => \A y \in Paths : files'[y] = Nowhere[y]
    BY <1>7 DEF Nowhere
  <2>2. j.rest \ {x} = {} => files' = Nowhere
    BY <2>1, SameFolder, NowhereIsFolder DEF TypeInv
  <2> QED
    BY <1>7, <1>8, <2>2 DEF CheckingOut
<1>11. head' = Nothing => work' = Nowhere
  BY <1>4, <1>5 DEF AtWork, Filling
<1> QED
  BY <1>8, <1>9, <1>10, <1>11 DEF GoesOn, Progress

\* A checkout takes one file more from the worktree.
LEMMA FillGoes ==
    ASSUME TypeInv, NEW p \in Processes, AtWork(p), FillFile(p)
    PROVE  GoesOn(p)
<1> DEFINE j == job[p]
           k == job'[p]
<1>1. /\ AtStage(j) /\ j.op \in Operations /\ Left(j) \in 0..6 /\ j.op # "none"
      /\ files \in Folders
  BY StageOf DEF AtWork
<1>2. PICK x \in Paths : At(p, "fill", x) /\ CopyBack(p, x)
  BY DEF FillFile
<1>3. x \in j.rest /\ Phase(j) = "fill" /\ ~In(p, "capture")
  BY <1>2, InPhase DEF At, AtWork
<1>4. j.op = "checkout" /\ Left(j) = 1
  BY <1>1, <1>3 DEF AtStage, Operations
<1>5. /\ j.rest \subseteq Present(work)
      /\ \A y \in (Paths \ j.rest) \ Skipped : files[y] = work[y]
  BY <1>3, <1>4 DEF AtWork, Progress, CheckingOut
<1>6. work[x] # Absent
  BY <1>3, <1>5 DEF Present
<1>7. /\ files' = [files EXCEPT ![x] = work[x]] /\ Become(p, Passed(p, x))
      /\ UNCHANGED <<work, head>>
  BY <1>2, <1>6 DEF CopyBack, FillFile
<1>8. \/ Shortened(k, j, x)
      \/ Moved(k, j) /\ j.rest \ {x} = {}
  BY <1>1, <1>3, <1>7, PathShape
<1>9. \A y \in (Paths \ (j.rest \ {x})) \ Skipped : files'[y] = work[y]
  BY <1>1, <1>5, <1>7 DEF Folders
<1>10. head' = Nothing => work' = Nowhere
  BY <1>4, <1>7 DEF AtWork, Filling
<1>11. CASE Moved(k, j) /\ j.rest \ {x} = {}
  <2>1. k = Idle
    BY <1>4, <1>11 DEF Moved
  <2>2. EndsWell(j)
    BY <1>4, <1>9, <1>11 DEF EndsWell
  <2> QED
    BY <1>10, <2>1, <2>2, EndGoes
<1>12. CASE Shortened(k, j, x)
  <2>1. k.op = "checkout" /\ Phase(k) = "fill" /\ k.rest = j.rest \ {x} /\ k # Idle
    BY <1>3, <1>4, <1>12, IdleOp DEF Shortened, SameWork, Phase
  <2>2. /\ Capturing(job[p])' /\ Merging(job[p])' /\ Restoring(job[p])' /\ Branching(job[p])'
        /\ Undone(job[p])'
    BY <2>1 DEF Capturing, Merging, Restoring, Branching, Filling, Undone, Untouched, Snapshot
  <2>3. CheckingOut(job[p])'
    BY <1>5, <1>7, <1>9, <2>1 DEF CheckingOut, Present
  <2> QED
    BY <1>10, <2>1, <2>2, <2>3 DEF GoesOn, Progress
<1> QED
  BY <1>8, <1>11, <1>12

\* A collection leaves the workspaces alone.
LEMMA CollectGoes ==
    ASSUME TypeInv, NEW p \in Processes, AtWork(p), Mark(p) \/ SweepBlobs(p) \/ SweepTrees(p)
    PROVE  GoesOn(p)
<1> DEFINE j == job[p]
           k == job'[p]
<1>1. /\ AtStage(j) /\ j.op \in Operations /\ Left(j) \in 0..6 /\ j.op # "none"
  BY StageOf DEF AtWork
<1>2. Phase(j) \in {"mark", "sweep_blobs", "sweep_trees"}
  BY InPhase DEF AtWork, Mark, SweepBlobs, SweepTrees
<1>3. j.op = "collect"
  BY <1>1, <1>2 DEF AtStage, Operations
<1>4. k.op = "collect" \/ k = Idle
  <2>1. CASE Mark(p)
    BY <2>1, MarkShape
  <2>2. CASE SweepBlobs(p) \/ SweepTrees(p)
    BY <1>1, <1>3, <2>2, AdvanceShape DEF SweepBlobs, SweepTrees, Moved, SameWork
  <2> QED
    BY <2>1, <2>2
<1>5. head' = Nothing => work' = Nowhere
  BY <1>3 DEF AtWork, Filling, Mark, SweepBlobs, SweepTrees, disk
<1>6. EndsWell(j)
  BY <1>3 DEF EndsWell
<1>7. CASE k = Idle
  BY <1>5, <1>6, <1>7, EndGoes
<1>8. CASE k.op = "collect"
  <2>1. WellShaped(k)
    <3>1. CASE Mark(p)
      BY <3>1, MarkShape
    <3>2. CASE SweepBlobs(p) \/ SweepTrees(p)
      BY <1>1, <3>2, AdvanceShape DEF SweepBlobs, SweepTrees
    <3> QED
      BY <3>1, <3>2
  <2>2. Phase(k) # "capture"
    BY <1>8, <2>1, StageOf DEF AtStage
  <2>3. Progress(job[p])'
    BY <1>8, <2>2 DEF Progress, Capturing, Undone, Untouched, Snapshot, Restoring, Merging,
       CheckingOut, Branching, Filling
  <2> QED
    BY <1>5, <1>6, <2>3 DEF GoesOn
<1> QED
  BY <1>4, <1>7, <1>8

\* Whatever step it takes.
LEMMA WorkGoes ==
    ASSUME TypeInv, TypeInv', NEW p \in Processes, AtWork(p), Work(p)
    PROVE  GoesOn(p)
<1>1. CASE ReadFile(p) \/ FileGone(p) \/ OpenObject(p) \/ FillObject(p) \/ StoreTree(p)
  BY <1>1, CaptureGoes
<1>2. CASE List(p)
  BY <1>2, ListGoes
<1>3. CASE NoPaths(p)
  BY <1>3, NoPathsGoes
<1>4. CASE WriteFile(p)
  BY <1>4, WriteGoes
<1>5. CASE Load(p)
  BY <1>5, LoadGoes
<1>6. CASE RestoreFile(p) \/ RemoveFile(p)
  BY <1>6, RestoreGoes
<1>7. CASE CopyFile(p)
  BY <1>7, CopyGoes
<1>8. CASE WriteHead(p)
  BY <1>8, HeadGoes
<1>9. CASE Compare(p)
  BY <1>9, CompareGoes
<1>10. CASE ApplyChange(p)
  BY <1>10, ApplyGoes
<1>11. CASE ClearFile(p)
  BY <1>11, ClearGoes
<1>12. CASE FillFile(p)
  BY <1>12, FillGoes
<1>13. CASE Mark(p) \/ SweepBlobs(p) \/ SweepTrees(p)
  BY <1>13, CollectGoes
<1> QED
  BY <1>1, <1>2, <1>3, <1>4, <1>5, <1>6, <1>7, <1>8, <1>9, <1>10, <1>11, <1>12, <1>13
  DEF Work

\* An operation that begins alone has done nothing yet.
LEMMA BeginGoes ==
    ASSUME VcsInv, NEW p \in Processes, Start(p), Calm'
    PROVE  CalmInv'
<1>1. PICK op \in Operations \ {"none"}, target \in {<<>>} \cup (Paths \X Typed),
           folder \in Folders :
           /\ Begin(p, op, target, folder)
           /\ op = "write" => target \in Paths \X Typed
           /\ op = "rollback" => folder \in returned
  BY StartBegins DEF VcsInv
<1> DEFINE k == [Idle EXCEPT !.op = op, !.phases = Phases(op), !.target = target,
                             !.folder = folder, !.before = files]
<1>2. /\ ~overlapped /\ killed = 0 /\ Busy = {}
      /\ UNCHANGED <<files, work, head, returned, safe>>
  BY <1>1 DEF Begin, Calm, disk, memory
<1>3. /\ k.op = op /\ k.phases = Phases(op) /\ k.folder = folder /\ k.before = files
  BY DEF Idle
<1>4. WellShaped(k)
  <2>1. files \in Folders
    BY DEF VcsInv, TypeInv
  <2> QED
    BY <1>1, <2>1, BeginShape
<1>5. job'[p] = k /\ \A q \in Processes : q # p => job'[q] = job[q]
  BY <1>1, <1>4, OneJob DEF Begin, VcsInv
<1>6. \A q \in Processes : job[q] = Idle
  BY <1>2, BusyJobs DEF VcsInv
<1> HIDE DEF k
<1>7. Phase(k) \in {"list", "load", "mark"}
      /\ (op = "write" => Left(k) = 3)
      /\ (op = "rollback" => Left(k) = 5)
      /\ (op = "merge" => Left(k) = 6)
      /\ (op = "branch" => Left(k) = 5)
  <2>1. CASE op = "snapshot"
    BY <1>3, <2>1 DEF Phases, Phase, Left
  <2>2. CASE op = "write"
    BY <1>3, <2>2 DEF Phases, WritePhases, Phase, Left
  <2>3. CASE op = "rollback"
    BY <1>3, <2>3 DEF Phases, Phase, Left
  <2>4. CASE op = "branch"
    BY <1>3, <2>4 DEF Phases, Phase, Left
  <2>5. CASE op = "merge"
    BY <1>3, <2>5 DEF Phases, Phase, Left
  <2>6. CASE op = "checkout"
    BY <1>3, <2>6 DEF Phases, Phase, Left
  <2>7. CASE op = "collect"
    BY <1>3, <2>7 DEF Phases, Phase, Left
  <2> QED
    BY <2>1, <2>2, <2>3, <2>4, <2>5, <2>6, <2>7 DEF Operations
<1>8. Capturing(job[p])' /\ CheckingOut(job[p])' /\ Merging(job[p])' /\ Branching(job[p])'
  BY <1>3, <1>5, <1>7 DEF Capturing, CheckingOut, Merging, Branching, Filling
<1>9. Undone(job[p])' /\ Restoring(job[p])'
  BY <1>1, <1>2, <1>3, <1>5, <1>7 DEF Undone, Untouched, Snapshot, Restoring
<1>10. Progress(Idle)'
  BY IdleProgress, PTL
<1>11. \A q \in Processes : Progress(job[q])'
  BY <1>5, <1>6, <1>8, <1>9, <1>10 DEF Progress
<1>12. head' = Nothing => work' = Nowhere
  BY <1>2, <1>6, IdleOp DEF VcsInv, CalmInv, Calm, Filling
<1> QED
  BY <1>11, <1>12 DEF CalmInv

\* Others change the files of a workspace nobody works on.
LEMMA EditGoes ==
    ASSUME VcsInv, Edit, Calm'
    PROVE  CalmInv'
<1>1. /\ ~overlapped /\ killed = 0 /\ Busy = {}
      /\ UNCHANGED <<head, job>>
      /\ UNCHANGED work \/ head # Nothing
  BY DEF Edit, Calm, store, memory
<1>2. \A q \in Processes : job[q] = Idle /\ job'[q] = Idle
  BY <1>1, BusyJobs DEF VcsInv
<1>3. Progress(Idle)'
  BY IdleProgress, PTL
<1>4. \A q \in Processes : Progress(job[q])'
  BY <1>2, <1>3
<1>5. head' = Nothing => work' = Nowhere
  BY <1>1, <1>2, IdleOp DEF VcsInv, CalmInv, Calm, Filling
<1> QED
  BY <1>4, <1>5 DEF CalmInv

LEMMA CalmStep == VcsInv /\ [Next]_vars => CalmInv'
<1> SUFFICES ASSUME VcsInv, [Next]_vars, Calm' PROVE CalmInv'
  BY DEF CalmInv
<1>0. TypeInv'
  BY TypeStep DEF VcsInv
<1>1. CASE UNCHANGED vars
  BY <1>1 DEF VcsInv, CalmInv, Calm, Progress, Capturing, Undone, Untouched, Snapshot, Restoring,
     Merging, CheckingOut, Branching, Filling, Present, IsText, Decoded, vars, disk, store,
     counts, memory
<1>2. CASE Edit
  BY <1>2, EditGoes
<1>3. ASSUME NEW p \in Processes, Start(p) PROVE CalmInv'
  BY <1>3, BeginGoes
<1>4. ASSUME NEW p \in Processes, Kill(p) PROVE CalmInv'
  <2>1. killed' = killed + 1 /\ killed \in Nat
    BY <1>4 DEF Kill, VcsInv, TypeInv
  <2> QED
    BY <2>1 DEF Calm
<1>5. ASSUME NEW p \in Processes, Work(p) PROVE CalmInv'
  <2>1. /\ job[p].op # "none" /\ UNCHANGED counts
        /\ \A q \in Processes : q # p => job'[q] = job[q]
    BY <1>5, WorkShape DEF VcsInv
  <2>2. Calm
    BY <2>1 DEF Calm, counts
  <2>3. AtWork(p) /\ \A q \in Processes : q # p => job'[q] = Idle
    BY <2>1, <2>2, CalmJob
  <2>4. GoesOn(p)
    BY <1>0, <1>5, <2>3, WorkGoes DEF VcsInv
  <2>5. Progress(Idle)'
    BY IdleProgress, PTL
  <2>6. \A q \in Processes : Progress(job[q])'
    BY <2>3, <2>4, <2>5 DEF GoesOn
  <2>7. head' = Nothing => work' = Nowhere \/ \E q \in Processes : Filling(job[q])'
    BY <2>4 DEF GoesOn, Filling, Left
  <2> QED
    BY <2>6, <2>7 DEF CalmInv
<1> QED
  BY <1>1, <1>2, <1>3, <1>4, <1>5 DEF Next

LEMMA CalmInit == Init => CalmInv
<1> SUFFICES ASSUME Init PROVE CalmInv
  OBVIOUS
<1>1. \A q \in Processes : job[q] = Idle
  BY DEF Init
<1> QED
  BY <1>1, IdleProgress DEF Init, CalmInv

LEMMA VcsAlways == Spec => []VcsInv
<1>1. Init => VcsInv
  BY TypeInit, StoreInit, CalmInit DEF VcsInv
<1>2. VcsInv /\ [Next]_vars => VcsInv'
  BY TypeStep, StoreStep, CalmStep DEF VcsInv
<1> QED
  BY <1>1, <1>2, PTL DEF Spec

\* An operation that ends without an overlap and a kill ends well.
LEMMA EndsAlone ==
    ASSUME VcsInv, [Next]_vars, NEW p \in Processes, NEW set, Ends(p, set), "none" \notin set
    PROVE  EndsWell(job[p]) /\ job[p].op \in set
<1>1. /\ job[p].op \in set /\ job[p].op # "none" /\ job'[p] = Idle
      /\ ~overlapped' /\ killed' = 0
  BY DEF Ends
<1>2. job'[p] # job[p]
  BY <1>1, IdleOp
<1>3. PICK q \in Processes : Start(q) \/ Work(q) \/ Kill(q)
  BY <1>2 DEF Next, Edit, vars
<1>4. job \in [Processes -> Jobs] /\ killed \in Nat
  BY DEF VcsInv, TypeInv
<1>5. ~Kill(q)
  BY <1>1, <1>4 DEF Kill
<1>6. ~Start(q)
  <2> SUFFICES ASSUME Start(q) PROVE FALSE
    OBVIOUS
  <2>1. \E op, target, folder : Begin(q, op, target, folder)
    BY StartBegins DEF VcsInv
  <2>2. Busy = {}
    BY <1>1, <2>1 DEF Begin
  <2> QED
    BY <1>1, <2>2 DEF Busy
<1>7. Work(q)
  BY <1>3, <1>5, <1>6
<1>8. q = p
  BY <1>2, <1>7, WorkShape DEF VcsInv
<1>9. Calm
  BY <1>1, <1>7, WorkShape DEF VcsInv, Calm, counts
<1>10. AtWork(p) /\ TypeInv'
  BY <1>1, <1>9, CalmJob, TypeStep DEF VcsInv
<1> QED
  BY <1>1, <1>7, <1>8, <1>10, WorkGoes DEF VcsInv, GoesOn

\* A write, a rollback or a merge that nothing overlaps and nobody kills leaves a
\* snapshot of the workspace it found, if that was text: captureTreeSnapshot comes
\* before the first change, and reads all of the workspace.
THEOREM AlwaysUndoable == Spec => Undoable
<1>1. VcsInv /\ [Next]_vars =>
          \A p \in Processes :
              Ends(p, {"write", "rollback", "merge"}) /\ IsText(job[p].before) =>
                  job[p].before \in safe'
  <2> SUFFICES ASSUME VcsInv, [Next]_vars, NEW p \in Processes,
                      Ends(p, {"write", "rollback", "merge"}), IsText(job[p].before)
               PROVE  job[p].before \in safe'
    OBVIOUS
  <2>1. EndsWell(job[p]) /\ job[p].op \in {"write", "rollback", "merge"}
    BY EndsAlone
  <2> QED
    BY <2>1 DEF EndsWell
<1> QED
  BY <1>1, VcsAlways, PTL DEF Spec, Undoable

\* Without an overlap and a kill rollbackToTree ends in the tree it was given,
\* whatever was in the workspace; a merge, of text, brings every change of the branch
\* to the workspace; a checkout ends in the worktree of the branch; and a new
\* worktree in the workspace it was made from.
THEOREM EndsAlwaysExactly == Spec => EndsExactly
<1> DEFINE Exactly(p) ==
      /\ Ends(p, {"rollback"}) => files' = job[p].folder
      /\ Ends(p, {"merge"}) /\ IsText(job[p].before) /\ IsText(work) =>
             \A x \in BranchChanges : files'[x] = work[x]
      /\ Ends(p, {"checkout"}) => \A x \in Paths \ Skipped : files'[x] = work[x]
      /\ Ends(p, {"branch"}) /\ head = Nothing =>
             \A x \in Paths \ Skipped : work'[x] = job[p].before[x]
<1>1. VcsInv /\ [Next]_vars => \A p \in Processes : Exactly(p)
  <2> SUFFICES ASSUME VcsInv, [Next]_vars, NEW p \in Processes
               PROVE  Exactly(p)
    OBVIOUS
  <2>1. Ends(p, {"rollback"}) => EndsWell(job[p]) /\ job[p].op = "rollback"
    BY EndsAlone
  <2>2. Ends(p, {"merge"}) => EndsWell(job[p]) /\ job[p].op = "merge"
    BY EndsAlone
  <2>3. Ends(p, {"checkout"}) => EndsWell(job[p]) /\ job[p].op = "checkout"
    BY EndsAlone
  <2>4. Ends(p, {"branch"}) => EndsWell(job[p]) /\ job[p].op = "branch"
    BY EndsAlone
  <2> QED
    BY <2>1, <2>2, <2>3, <2>4 DEF EndsWell
<1> QED
  BY <1>1, VcsAlways, PTL DEF Spec, EndsExactly
=============================================================================
