--------------------------------- MODULE Vcs ---------------------------------
(***************************************************************************)
(* Versions of the workspace (packages/harness-core/src/vcs and the write   *)
(* tool of local-file.ts).  File contents are kept as blobs and workspaces   *)
(* as trees, each named by its hash: what is there is not written again.     *)
(* Several processes (agent loops, `ether vcs`, a collection) work on one    *)
(* workspace and one branch without a lock, a file at a time.                *)
(***************************************************************************)
EXTENDS Naturals, Sequences, FiniteSets

CONSTANTS
    Processes,       \* processes at work on the workspace
    Paths,           \* paths of files, numbered in their order
    Skipped,         \* paths a branch does not copy (under node_modules)
    Contents,        \* contents of a file
    Typed,           \* contents that are written
    Initial,         \* workspaces to begin with
    Absent,          \* no file
    Cut,             \* what a file cut short contains
    Decode,          \* Decode[c]: what reading c as UTF-8 makes of it
    MaxOps,          \* bound: operations
    MaxEdits,        \* bound: changes made by others
    MaxKills         \* bound: processes killed

ASSUME VcsAssumption ==
    /\ Paths \subseteq Nat /\ IsFiniteSet(Paths) /\ Skipped \subseteq Paths
    /\ Typed \subseteq Contents /\ Cut \in Contents /\ Absent \notin Contents
    /\ Initial \subseteq [Paths -> Contents \cup {Absent}]
    /\ Decode \in [Contents \cup {Absent} -> Contents \cup {Absent}]
    /\ \A c \in Contents : Decode[c] # Absent /\ Decode[Decode[c]] = Decode[c]
    /\ Decode[Absent] = Absent
    /\ MaxOps \in Nat /\ MaxEdits \in Nat /\ MaxKills \in Nat

VARIABLES
    files,           \* the main workspace
    work,            \* the worktree of the branch
    head,            \* the tree the branch was created from
    stored,          \* the blobs and trees on disk, whole
    torn,            \* the blobs and trees on disk, cut short
    job,             \* job[p]: what process p is doing
    ops, edits, killed,  \* how many operations were begun, edits made, processes killed
    overlapped,      \* history: operations or edits have overlapped
    raced,           \* history: a collection ran beside another operation
    returned,        \* history: the trees that captures have returned
    safe             \* history: those returned before any overlap or kill

disk == <<files, work, head>>
store == <<stored, torn>>
counts == <<ops, edits, killed, overlapped, raced>>
memory == <<returned, safe>>
vars == <<disk, store, job, counts, memory>>

Folders == [Paths -> Contents \cup {Absent}]
Nowhere == [x \in Paths |-> Absent]
Present(folder) == {x \in Paths : folder[x] # Absent}
First(paths) == CHOOSE x \in paths : \A y \in paths : x <= y

\* What the store holds is named by its contents.
Blob(c) == <<"blob", c>>
Tree(folder) == <<"tree", folder>>
Nothing == <<"none">>
OnDisk == stored \cup torn
Blobs(folder) == {Blob(folder[x]) : x \in Present(folder)}

\* A folder as it is read.
Decoded(folder) == [x \in Paths |-> Decode[folder[x]]]
IsText(folder) == Decoded(folder) = folder

-----------------------------------------------------------------------------
(* Operations and their phases *)

\* Variant of WritePhases: the snapshot is taken when the file is written.
LatePhases == <<"write", "list", "capture">>

WritePhases == <<"list", "capture", "write">>

Phases(op) ==
    CASE op = "snapshot" -> <<"list", "capture">>
      [] op = "write" -> WritePhases
      [] op = "rollback" -> <<"load", "list", "capture", "list_both", "restore">>
      [] op = "branch" -> <<"list", "capture", "list_own", "copy", "head">>
      [] op = "merge" -> <<"list", "capture", "compare", "apply", "list", "capture">>
      [] op = "checkout" -> <<"list", "clear", "list_branch", "fill">>
      [] op = "collect" -> <<"mark", "sweep_blobs", "sweep_trees">>

\* A process without work.  rest: the paths a phase has yet to see, entries: the
\* tree being captured, put and open: the object being stored, folder: the tree
\* to restore, target: path and contents to write, keep: what a collection marked.
Idle ==
    [op |-> "none", phases |-> <<>>, rest |-> {}, entries |-> Nowhere, put |-> Nothing,
     open |-> FALSE, folder |-> Nowhere, target |-> <<>>, keep |-> {}, before |-> Nowhere]

Busy == {p \in Processes : job[p].op # "none"}

Init ==
    /\ files \in Initial
    /\ work = Nowhere /\ head = Nothing
    /\ stored = {} /\ torn = {}
    /\ job = [p \in Processes |-> Idle]
    /\ ops = 0 /\ edits = 0 /\ killed = 0
    /\ overlapped = FALSE /\ raced = FALSE
    /\ returned = {} /\ safe = {}

Begin(p, op, target, folder) ==
    /\ job[p].op = "none" /\ ops < MaxOps
    /\ ops' = ops + 1
    /\ job' = [job EXCEPT ![p] = [Idle EXCEPT !.op = op, !.phases = Phases(op),
                                  !.target = target, !.folder = folder, !.before = files]]
    /\ overlapped' = (overlapped \/ Busy # {})
    /\ raced' = (raced \/ \E q \in Busy : "collect" \in {op, job[q].op})
    /\ UNCHANGED <<disk, store, edits, killed, memory>>

Start(p) ==
    \/ \E op \in {"snapshot", "branch", "collect"} : Begin(p, op, <<>>, Nowhere)
    \/ head # Nothing /\ \E op \in {"merge", "checkout"} : Begin(p, op, <<>>, Nowhere)
    \/ \E x \in Paths, c \in Typed : Begin(p, "write", <<x, c>>, Nowhere)
    \/ \E f \in returned : Begin(p, "rollback", <<>>, f)

\* A command, an editor or a child agent changes a file of the workspace or the
\* worktree.
Edit ==
    /\ edits < MaxEdits
    /\ edits' = edits + 1
    /\ \E x \in Paths, c \in Typed \cup {Absent} :
          \/ files' = [files EXCEPT ![x] = c] /\ UNCHANGED work
          \/ head # Nothing /\ work' = [work EXCEPT ![x] = c] /\ UNCHANGED files
    /\ overlapped' = (overlapped \/ Busy # {})
    /\ UNCHANGED <<head, store, job, ops, killed, raced, memory>>

-----------------------------------------------------------------------------
(* Steps *)

In(p, phase) == job[p].phases # <<>> /\ Head(job[p].phases) = phase

\* The job without its first phase: after the last it is done.
Advanced(j) ==
    IF Len(j.phases) = 1 THEN Idle
    ELSE [j EXCEPT !.phases = Tail(@), !.rest = {}, !.put = Nothing, !.open = FALSE]

Become(p, j) == job' = [job EXCEPT ![p] = j]
Advance(p) == Become(p, Advanced(job[p]))

\* An exception ends the operation, but a write goes on without a snapshot.
Throw(p) ==
    /\ Become(p, IF In(p, "capture") /\ job[p].op = "write" THEN Advanced(job[p]) ELSE Idle)
    /\ UNCHANGED <<disk, store, counts, memory>>

\* The paths the next phase goes through.
Listed(p) ==
    CASE In(p, "list") -> Present(files)
      [] In(p, "list_both") -> Present(files) \cup Present(job[p].folder)
      [] In(p, "list_own") -> Present(files) \ Skipped
      [] In(p, "list_branch") -> Present(work) \ Skipped

List(p) ==
    /\ \E phase \in {"list", "list_both", "list_own", "list_branch"} : In(p, phase)
    /\ Become(p, [Advanced(job[p]) EXCEPT
                     !.rest = Listed(p), !.entries = IF In(p, "list") THEN Nowhere ELSE @])
    /\ UNCHANGED <<disk, store, counts, memory>>

\* The phase is at path x, the first that is left of those listed.
At(p, phase, x) ==
    /\ In(p, phase) /\ job[p].put = Nothing
    /\ x \in job[p].rest /\ x = First(job[p].rest)

\* The job without path x: the phase ends with the last.
Passed(p, x) ==
    LET j == [job[p] EXCEPT !.rest = @ \ {x}]
    IN  IF j.rest = {} /\ ~In(p, "capture") THEN Advanced(j) ELSE j

NoPaths(p) ==
    /\ \E phase \in {"restore", "copy", "apply", "clear", "fill"} : In(p, phase)
    /\ job[p].rest = {}
    /\ Advance(p)
    /\ UNCHANGED <<disk, store, counts, memory>>

(* captureTreeSnapshot *)

\* A file is read and its blob looked for: one that is there, whole or not, is
\* left alone.
ReadFile(p) ==
    /\ \E x \in Paths :
          /\ At(p, "capture", x)
          /\ files[x] # Absent
          /\ LET c == Decode[files[x]]
             IN  Become(p, [Passed(p, x) EXCEPT
                               !.entries[x] = c,
                               !.put = IF Blob(c) \in OnDisk THEN Nothing ELSE Blob(c)])
    /\ UNCHANGED <<disk, store, counts, memory>>

FileGone(p) ==
    /\ \E x \in Paths : At(p, "capture", x) /\ files[x] = Absent
    /\ Throw(p)

\* writeFileSync opens the file, which cuts what is there, and then fills it.
OpenObject(p) ==
    /\ job[p].put # Nothing /\ ~job[p].open
    /\ torn' = torn \cup {job[p].put}
    /\ stored' = stored \ {job[p].put}
    /\ Become(p, [job[p] EXCEPT !.open = TRUE])
    /\ UNCHANGED <<disk, counts, memory>>

\* The capture returns its tree.
Captured(p) ==
    /\ Advance(p)
    /\ returned' = returned \cup {job[p].entries}
    /\ safe' = IF overlapped \/ killed > 0 THEN safe ELSE safe \cup {job[p].entries}

\* A file that a collection has removed in the meantime stays removed.
FillObject(p) ==
    /\ job[p].open
    /\ stored' = stored \cup ({job[p].put} \cap torn)
    /\ torn' = torn \ {job[p].put}
    /\ IF job[p].put[1] = "tree" THEN Captured(p)
       ELSE /\ Become(p, [job[p] EXCEPT !.put = Nothing, !.open = FALSE])
            /\ UNCHANGED memory
    /\ UNCHANGED <<disk, counts>>

\* The tree comes after its blobs, unless it is there.
StoreTree(p) ==
    /\ In(p, "capture") /\ job[p].put = Nothing /\ job[p].rest = {}
    /\ IF Tree(job[p].entries) \in OnDisk THEN Captured(p)
       ELSE /\ Become(p, [job[p] EXCEPT !.put = Tree(job[p].entries)])
            /\ UNCHANGED memory
    /\ UNCHANGED <<disk, store, counts>>

(* write, rollback *)

WriteFile(p) ==
    /\ In(p, "write")
    /\ files' = [files EXCEPT ![job[p].target[1]] = job[p].target[2]]
    /\ Advance(p)
    /\ UNCHANGED <<work, head, store, counts, memory>>

\* A tree that is missing or cut short cannot be parsed.
Load(p) ==
    /\ In(p, "load")
    /\ IF Tree(job[p].folder) \in stored THEN Advance(p) ELSE Become(p, Idle)
    /\ UNCHANGED <<disk, store, counts, memory>>

\* First the files of the tree are written, then the others removed.
Wanted(p) == job[p].rest \cap Present(job[p].folder)

RestoreFile(p) ==
    /\ In(p, "restore") /\ Wanted(p) # {}
    /\ LET x == First(Wanted(p))
           c == job[p].folder[x]
       IN  IF Blob(c) \notin OnDisk THEN Throw(p)
           ELSE /\ files' = [files EXCEPT ![x] = IF Blob(c) \in stored THEN c ELSE Cut]
                /\ Become(p, Passed(p, x))
                /\ UNCHANGED <<work, head, store, counts, memory>>

\* Variant of RemoveFile: the file stays.
KeepFile(p) ==
    /\ In(p, "restore") /\ Wanted(p) = {} /\ job[p].rest # {}
    /\ Become(p, Passed(p, First(job[p].rest)))
    /\ UNCHANGED <<disk, store, counts, memory>>

RemoveFile(p) ==
    /\ In(p, "restore") /\ Wanted(p) = {} /\ job[p].rest # {}
    /\ LET x == First(job[p].rest)
       IN  IF files[x] = Absent THEN Throw(p)
           ELSE /\ files' = [files EXCEPT ![x] = Absent]
                /\ Become(p, Passed(p, x))
                /\ UNCHANGED <<work, head, store, counts, memory>>

(* branches *)

\* What is in the worktree from before stays there.
CopyFile(p) ==
    /\ \E x \in Paths :
          /\ At(p, "copy", x)
          /\ work' = [work EXCEPT ![x] = IF files[x] = Absent THEN @ ELSE files[x]]
          /\ Become(p, IF files[x] = Absent THEN Idle ELSE Passed(p, x))
    /\ UNCHANGED <<files, head, store, counts, memory>>

WriteHead(p) ==
    /\ In(p, "head")
    /\ head' = Tree(job[p].entries)
    /\ Advance(p)
    /\ UNCHANGED <<files, work, store, counts, memory>>

\* The worktree is captured into a store of its own and compared with the
\* workspace as it was captured.
Compare(p) ==
    /\ In(p, "compare")
    /\ Become(p, [Advanced(job[p]) EXCEPT
                     !.folder = Decoded(work),
                     !.rest = {x \in Paths : Decode[work[x]] # job[p].entries[x]}])
    /\ UNCHANGED <<disk, store, counts, memory>>

\* A file that is no longer in the worktree cannot be copied from it.
CopyBack(p, x) ==
    /\ files' = [files EXCEPT ![x] = IF work[x] = Absent THEN @ ELSE work[x]]
    /\ Become(p, IF work[x] = Absent THEN Idle ELSE Passed(p, x))

\* What differs is made as it is in the worktree, whoever changed it.
ApplyChange(p) ==
    /\ \E x \in Paths :
          /\ At(p, "apply", x)
          /\ IF job[p].folder[x] = Absent
             THEN files' = [files EXCEPT ![x] = Absent] /\ Become(p, Passed(p, x))
             ELSE CopyBack(p, x)
    /\ UNCHANGED <<work, head, store, counts, memory>>

ClearFile(p) ==
    /\ \E x \in Paths :
          /\ At(p, "clear", x)
          /\ files' = [files EXCEPT ![x] = Absent]
          /\ Become(p, Passed(p, x))
    /\ UNCHANGED <<work, head, store, counts, memory>>

FillFile(p) ==
    /\ \E x \in Paths :
          /\ At(p, "fill", x)
          /\ CopyBack(p, x)
    /\ UNCHANGED <<work, head, store, counts, memory>>

(* gcUnreferencedObjects *)

\* Variant of Mark: only the tree of the branch keeps its blobs.
MarkHead(p) ==
    /\ In(p, "mark")
    /\ Become(p, [Advanced(job[p]) EXCEPT
                     !.keep = IF head \in stored THEN Blobs(head[2]) ELSE {}])
    /\ UNCHANGED <<disk, store, counts, memory>>

\* Only trees that are whole keep their blobs.
Mark(p) ==
    /\ In(p, "mark")
    /\ Become(p, [Advanced(job[p]) EXCEPT
                     !.keep = UNION {Blobs(f) : f \in {g \in Folders : Tree(g) \in stored}}])
    /\ UNCHANGED <<disk, store, counts, memory>>

SweepBlobs(p) ==
    /\ In(p, "sweep_blobs")
    /\ LET swept == {o \in OnDisk : o[1] = "blob"} \ job[p].keep
       IN  stored' = stored \ swept /\ torn' = torn \ swept
    /\ Advance(p)
    /\ UNCHANGED <<disk, counts, memory>>

SweepTrees(p) ==
    /\ In(p, "sweep_trees")
    /\ torn' = {o \in torn : o[1] # "tree"}
    /\ Advance(p)
    /\ UNCHANGED <<disk, stored, counts, memory>>

Kill(p) ==
    /\ job[p].op # "none" /\ killed < MaxKills
    /\ killed' = killed + 1
    /\ Become(p, Idle)
    /\ UNCHANGED <<disk, store, ops, edits, overlapped, raced, memory>>

Work(p) ==
    \/ List(p) \/ NoPaths(p)
    \/ ReadFile(p) \/ FileGone(p) \/ OpenObject(p) \/ FillObject(p) \/ StoreTree(p)
    \/ WriteFile(p) \/ Load(p) \/ RestoreFile(p) \/ RemoveFile(p)
    \/ CopyFile(p) \/ WriteHead(p) \/ Compare(p) \/ ApplyChange(p) \/ ClearFile(p) \/ FillFile(p)
    \/ Mark(p) \/ SweepBlobs(p) \/ SweepTrees(p)

Next == Edit \/ \E p \in Processes : Start(p) \/ Work(p) \/ Kill(p)

Spec == Init /\ [][Next]_vars

-----------------------------------------------------------------------------
(* Properties *)

Objects == {Blob(c) : c \in Contents} \cup {Tree(f) : f \in Folders}

\* The tree can be read and every blob it names is there, whole.
Restorable(folder) == Tree(folder) \in stored /\ Blobs(folder) \subseteq stored

\* A snapshot that was returned can be restored: when nobody was killed and no
\* collection ran beside another operation, whatever else has overlapped, and
\* without overlaps even though operations that came after it were killed.
SnapshotsKept ==
    /\ Busy = {} /\ killed = 0 /\ ~raced => \A f \in returned : Restorable(f)
    /\ ~overlapped => \A f \in safe : Restorable(f)

Ends(p, set) == job[p].op \in set /\ job'[p] = Idle /\ ~overlapped' /\ killed' = 0

\* A write, a rollback or a merge that nothing overlaps leaves a snapshot of the
\* workspace it found, if that was text.
Undoable ==
    [][\A p \in Processes :
          Ends(p, {"write", "rollback", "merge"}) /\ IsText(job[p].before) =>
              job[p].before \in safe']_vars

\* The tree a worktree began with: the branch's tree without what is not copied.
BegunWith == [x \in Paths |-> IF x \in Skipped THEN Absent ELSE head[2][x]]

\* What differs in the worktree from what it began with.
BranchChanges == {x \in Paths : work[x] # BegunWith[x]}

\* Without an overlap a rollback ends in the tree it was given, a merge brings every
\* change of the branch to the workspace, a checkout ends in the worktree of the
\* branch, and a new worktree in the workspace.
EndsExactly ==
    [][\A p \in Processes :
          /\ Ends(p, {"rollback"}) => files' = job[p].folder
          /\ Ends(p, {"merge"}) /\ IsText(job[p].before) /\ IsText(work) =>
                 \A x \in BranchChanges : files'[x] = work[x]
          /\ Ends(p, {"checkout"}) => \A x \in Paths \ Skipped : files'[x] = work[x]
          /\ Ends(p, {"branch"}) /\ head = Nothing =>
                 \A x \in Paths \ Skipped : work'[x] = job[p].before[x]]_vars

\* Without an overlap a merge changes only what the branch changed ("apply branch
\* worktree changes to the main workspace").  The code compares the worktree with the
\* workspace as it is: it takes back what was changed there meanwhile, and removes
\* the files under node_modules that no worktree has.
MergeKeepsTheRest ==
    [][\A p \in Processes :
          Ends(p, {"merge"}) /\ IsText(job[p].before) /\ IsText(work) =>
             \A x \in Paths \ BranchChanges : files'[x] = job[p].before[x]]_vars
=============================================================================
