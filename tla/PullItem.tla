------------------------------ MODULE PullItem ------------------------------
(***************************************************************************)
(* What the puller of a send-receive folder does to single items on disk   *)
(* (lib/model/folder_sendrecv.go): creating and replacing directories,     *)
(* symlinks and files, deletions, renames and metadata-only updates, with  *)
(* the checks of scanIfItemChanged and checkToBeDeleted in front of them,  *)
(* while the user changes the same items, scans notice that, other devices *)
(* change the global state, and the process may die with database updates  *)
(* outstanding.                                                            *)
(*                                                                         *)
(* A file's content is a number, new for every change.  Its mark stands    *)
(* for the modification time, which with the size is all that is compared  *)
(* with the database.  Each handler is one step: what happens between its  *)
(* look at the disk and its change of the disk is not modelled.  Conflict  *)
(* copies of one item are made in different seconds, by a clock that does  *)
(* not go back, so that the order of their names is that of their making.  *)
(***************************************************************************)
EXTENDS Integers, FiniteSets, Sequences

CONSTANTS ItemNames,     \* items of the folder
          Inside,        \* Inside[n]: the directory n is in, or "root"
          Versioned,     \* a versioner is configured
          MaxConflicts,  \* conflict copies kept of an item; negative: all
          ConflictNames, \* items that are conflict copies by their name
          SameSize,      \* all contents have the same size
          MaxClock       \* bound: changes by the user and by other devices

ASSUME ItemAssumption ==
    /\ Inside \in [ItemNames -> ItemNames \union {"root"}]
    /\ {Versioned, SameSize} \subseteq BOOLEAN
    /\ MaxConflicts \in Int /\ ConflictNames \subseteq ItemNames
    /\ MaxClock \in Nat

VARIABLES
    disk,    \* what is on disk
    cur,     \* the local device's file info in the database
    glob,    \* the global file info, and whether it conflicts with cur
    jobs,    \* dbUpdateJobs that are not committed yet
    saved,   \* contents in the versioner's archive, and in the temporary file
             \* of a rename
    copies,  \* contents in the conflict copies of each item, the newest first
    toScan,  \* items sent to scanChan
    clock,   \* the last content or mark used
    deletable \* items a (?d) pattern ignores, and temporary files: they do not
              \* keep the directory they are in from being deleted

itemVars == <<disk, cur, glob, jobs, saved, copies, toScan, clock, deletable>>

Absent == [type |-> "none", c |-> 0, mark |-> 0]
Dir == [type |-> "dir", c |-> 0, mark |-> 0]
NewFile(k) == [type |-> "file", c |-> k, mark |-> k]
Link(k) == [type |-> "link", c |-> k, mark |-> k]

Children(d) == {n \in ItemNames : Inside[n] = d /\ disk[n] # Absent}
HasParent(n) == Inside[n] # "root" => disk[Inside[n]].type = "dir"

\* The puller's turn to handle n: it is needed, and what was done to it before
\* is in the database.
Needed(n) ==
    /\ n \notin deletable
    /\ glob[n].item # cur[n] /\ ~ \E j \in jobs : j.n = n

-----------------------------------------------------------------------------
(* Checks, and removal of what is in the way.                              *)

Size(item) == IF SameSize THEN 0 ELSE item.c

\* isEquivalent, as the puller calls it: blocks are not compared.
IsEquivalent(a, b) ==
    a.type = b.type /\ a.mark = b.mark /\ Size(a) = Size(b)

\* scanIfItemChanged.
ItemChanged(n) == cur[n].type = "none" \/ ~IsEquivalent(disk[n], cur[n])

\* The children that need a scan before the directory can go.
ChildrenToScan(d) == {n \in Children(d) \ deletable : ItemChanged(n)}

\* deleteDirOnDiskHandleChildren: a directory with something in it stays,
\* unless it is only what may be deleted.
MayGo(n) == disk[n].type = "dir" => Children(n) \subseteq deletable

\* deleteItemOnDisk gives a file to the versioner.
Kept(n) ==
    IF disk[n].type = "file" /\ Versioned /\ ~glob[n].conflict
    THEN {disk[n].c} ELSE {}

\* Mutant: the oldest conflict copies are kept.
TrimmedKeepingOldest(q) ==
    IF MaxConflicts > -1 /\ Len(q) > MaxConflicts
    THEN SubSeq(q, Len(q) - MaxConflicts + 1, Len(q)) ELSE q

\* Conflict copies beyond MaxConflicts are removed, the oldest first.
Trimmed(q) ==
    IF MaxConflicts > -1 /\ Len(q) > MaxConflicts
    THEN SubSeq(q, 1, MaxConflicts) ELSE q

\* moveForConflict: a file in conflict becomes a conflict copy, but for one that
\* is a conflict copy already, and with MaxConflicts 0; these are removed.
MoveForConflict(n) ==
    IF /\ disk[n].type = "file" /\ glob[n].conflict
       /\ n \notin ConflictNames /\ MaxConflicts # 0
    THEN [copies EXCEPT ![n] = Trimmed(<<disk[n].c>> \o @)] ELSE copies

\* disk with n replaced by item, and nothing below it if it was a directory.
Placed(n, item) ==
    [m \in ItemNames |->
        IF m = n THEN item
        ELSE IF Inside[m] = n /\ disk[n].type = "dir" /\ item.type # "dir"
             THEN Absent ELSE disk[m]]

\* The handler gives up, after having asked for a scan of S.
Refuse(S) ==
    /\ toScan' = toScan \union S
    /\ UNCHANGED <<disk, cur, glob, jobs, saved, copies, clock, deletable>>

\* deleteDirOnDiskHandleChildren fails: something in the directory may not go,
\* or cannot be removed. What was removed before is gone.
RefuseDir(n) ==
    /\ disk[n].type = "dir"
    /\ \E gone \in SUBSET (Children(n) \intersect deletable) :
          /\ gone # Children(n)
          /\ disk' = [m \in ItemNames |-> IF m \in gone THEN Absent ELSE disk[m]]
    /\ toScan' = toScan \union ChildrenToScan(n)
    /\ UNCHANGED <<cur, glob, jobs, saved, copies, clock, deletable>>

-----------------------------------------------------------------------------
(* The handlers.                                                           *)

\* What is under the name is put out of the way; item takes its place (item is
\* Absent if creating it fails afterwards, and then nothing is recorded).
Replace(n, item) ==
    /\ MayGo(n)
    /\ saved' = saved \union Kept(n) /\ copies' = MoveForConflict(n)
    /\ disk' = Placed(n, item)
    /\ jobs' = IF item = Absent THEN jobs
               ELSE jobs \union {[n |-> n, item |-> glob[n].item]}
    /\ UNCHANGED <<cur, glob, toScan, clock, deletable>>

\* handleDir finds the directory there and corrects its metadata.
UpdateDir(n) ==
    /\ jobs' = jobs \union {[n |-> n, item |-> glob[n].item]}
    /\ UNCHANGED <<disk, cur, glob, saved, copies, toScan, clock, deletable>>

\* handleDir.
HandleDir(n) ==
    /\ Needed(n) /\ glob[n].item.type = "dir" /\ HasParent(n)
    /\ \/ disk[n].type = "dir" /\ UpdateDir(n)
       \/ /\ disk[n].type # "dir"
          /\ \/ disk[n] # Absent /\ ItemChanged(n) /\ Refuse({n})
             \/ /\ disk[n] = Absent \/ ~ItemChanged(n)
                /\ \E item \in {Dir, Absent} : Replace(n, item)

\* handleSymlink and handleSymlinkCheckExisting, and performFinish for a file.
HandleLinkOrFile(n) ==
    /\ Needed(n) /\ glob[n].item.type \in {"link", "file"} /\ HasParent(n)
    /\ \/ disk[n] # Absent /\ ItemChanged(n) /\ Refuse({n})
       \/ ~ItemChanged(n) /\ RefuseDir(n)
       \/ /\ disk[n] = Absent \/ ~ItemChanged(n)
          /\ \E item \in {glob[n].item, Absent} : Replace(n, item)

\* checkParent: a missing parent directory is created, and scanned later.
CheckParent(n) ==
    /\ Needed(n) /\ ~HasParent(n) /\ disk[Inside[n]] = Absent
    /\ HasParent(Inside[n])
    /\ disk' = [disk EXCEPT ![Inside[n]] = Dir]
    /\ toScan' = toScan \union {Inside[n]}
    /\ UNCHANGED <<cur, glob, jobs, saved, copies, clock, deletable>>

\* checkToBeDeleted: the item is gone from disk already, though the database
\* has it, so a scan is due; or it has been changed.
DeleteRefused(n) ==
    /\ Needed(n) /\ glob[n].item = Absent /\ HasParent(n)
    /\ ItemChanged(n)
    /\ Refuse({n})

\* deleteFileWithCurrent, deleteDir; what is not there, or behind something
\* that is not a directory any more, is only taken from the database.
Delete(n) ==
    /\ Needed(n) /\ glob[n].item = Absent
    /\ \/ /\ HasParent(n) /\ ~ItemChanged(n) /\ MayGo(n)
          /\ saved' = saved \union Kept(n) /\ copies' = MoveForConflict(n)
          /\ disk' = Placed(n, Absent)
          /\ jobs' = jobs \union {[n |-> n, item |-> Absent]}
          /\ UNCHANGED <<cur, glob, toScan, clock, deletable>>
       \/ /\ ~HasParent(n)
          /\ jobs' = jobs \union {[n |-> n, item |-> Absent]}
          /\ UNCHANGED <<disk, cur, glob, saved, copies, toScan, clock, deletable>>
       \/ HasParent(n) /\ ~ItemChanged(n) /\ RefuseDir(n)

\* renameFile: a file to be deleted provides the content of one that is needed.
\* Both are compared with the database first. If a later step fails, before or
\* after what is under the new name has gone, the content is left in a temporary
\* file.
RenameFile(n, m) ==
    /\ n # m /\ Needed(n) /\ Needed(m)
    /\ glob[n].item = Absent /\ cur[n].type = "file"
    /\ glob[m].item.type = "file" /\ glob[m].item.c = cur[n].c
    /\ HasParent(n) /\ HasParent(m) /\ disk[n] # Absent
    /\ \/ ItemChanged(n) /\ Refuse({n})
       \/ ~ItemChanged(n) /\ disk[m] # cur[m] /\ ItemChanged(m) /\ Refuse({m})
       \/ /\ ~ItemChanged(n) /\ (disk[m] = cur[m] \/ ~ItemChanged(m))
          /\ \/ /\ MayGo(m)
                /\ \E item \in {glob[m].item, Absent} :
                      /\ saved' = saved \union Kept(m)
                            \union (IF Versioned \/ item = Absent
                                    THEN {disk[n].c} ELSE {})
                      /\ disk' = [Placed(m, item) EXCEPT ![n] = Absent]
                      /\ jobs' = IF item = Absent THEN jobs
                                 ELSE jobs \union
                                      {[n |-> n, item |-> Absent],
                                       [n |-> m, item |-> glob[m].item]}
                /\ copies' = MoveForConflict(m)
             \/ /\ disk' = [disk EXCEPT ![n] = Absent]
                /\ saved' = saved \union {disk[n].c}
                /\ UNCHANGED <<jobs, copies>>
          /\ UNCHANGED <<cur, glob, toScan, clock, deletable>>

\* shortcutFile: the blocks are those of the database, only the metadata is
\* set, on whatever file is on disk.
ShortcutFile(n) ==
    /\ Needed(n) /\ glob[n].item.type = "file" /\ cur[n].type = "file"
    /\ glob[n].item.c = cur[n].c
    /\ disk[n].type = "file"
    /\ disk' = [disk EXCEPT ![n].mark = glob[n].item.mark]
    /\ jobs' = jobs \union {[n |-> n, item |-> glob[n].item]}
    /\ UNCHANGED <<cur, glob, saved, copies, toScan, clock, deletable>>

\* dbUpdaterRoutine commits.
Commit(j) ==
    /\ jobs' = jobs \ {j}
    /\ cur' = [cur EXCEPT ![j.n] = j.item]
    /\ glob' = [glob EXCEPT ![j.n].conflict = @ /\ glob[j.n].item # j.item]
    /\ UNCHANGED <<disk, saved, copies, toScan, clock, deletable>>

\* The process dies with updates outstanding.
CrashItems ==
    /\ jobs # {}
    /\ jobs' = {}
    /\ toScan' = {}
    /\ UNCHANGED <<disk, cur, glob, saved, copies, clock, deletable>>

-----------------------------------------------------------------------------
(* The rest of the world.                                                  *)

\* The user changes, creates or removes something.
UserChanges(n, item) ==
    /\ clock < MaxClock /\ HasParent(n) /\ disk[n] # item
    /\ disk' = Placed(n, item)
    /\ clock' = clock + 1
    /\ UNCHANGED <<cur, glob, jobs, saved, copies, toScan, deletable>>

\* A scan (never during a pull) finds an item changed. The new local version
\* wins, or is in conflict with a global one that has not been pulled.
Scan(n) ==
    /\ jobs = {} /\ n \notin deletable
    /\ ~IsEquivalent(disk[n], cur[n])
    /\ cur' = [cur EXCEPT ![n] = disk[n]]
    /\ glob' = [glob EXCEPT ![n] =
                   IF glob[n].item = cur[n]
                   THEN [item |-> disk[n], conflict |-> FALSE]
                   ELSE [item |-> glob[n].item, conflict |-> TRUE]]
    /\ toScan' = toScan \ {n}
    /\ UNCHANGED <<disk, jobs, saved, copies, clock, deletable>>

\* Another device's change of the item, which may be only of its metadata, and
\* which may not have seen ours.
RemoteChange(n, item) ==
    /\ clock < MaxClock /\ item # glob[n].item /\ n \notin deletable
    /\ \E concurrent \in BOOLEAN :
          glob' = [glob EXCEPT ![n].item = item,
                               ![n].conflict = @ \/ concurrent]
    /\ clock' = clock + 1
    /\ UNCHANGED <<disk, cur, jobs, saved, copies, toScan, deletable>>

\* There may be conflict copies from before, with content 0.
ItemInit ==
    /\ disk = [n \in ItemNames |-> Absent]
    /\ cur = disk
    /\ glob = [n \in ItemNames |-> [item |-> Absent, conflict |-> FALSE]]
    /\ jobs = {} /\ saved = {} /\ toScan = {} /\ clock = 0
    /\ \E before \in {<<>>, <<0>>} : copies = [n \in ItemNames |-> before]
    /\ deletable \in SUBSET {n \in ItemNames : \A m \in ItemNames : Inside[m] # n}

Environment ==
    \/ \E n \in ItemNames, item \in {Absent, Dir, NewFile(clock + 1),
                                     Link(clock + 1)} :
          UserChanges(n, item)
    \/ \E n \in ItemNames :
          \/ \E item \in {Absent, Dir, NewFile(clock + 1), Link(clock + 1)}
                         \union {glob[m].item : m \in ItemNames} :
                RemoteChange(n, item)
          \/ glob[n].item.type = "file"
             /\ RemoteChange(n, [glob[n].item EXCEPT !.mark = clock + 1])

Handle ==
    \/ \E n \in ItemNames :
          \/ HandleDir(n) \/ HandleLinkOrFile(n) \/ CheckParent(n)
          \/ DeleteRefused(n) \/ Delete(n) \/ ShortcutFile(n)
    \/ \E n, m \in ItemNames : RenameFile(n, m)

ItemNext ==
    \/ Environment \/ Handle \/ CrashItems
    \/ \E j \in jobs : Commit(j)
    \/ \E n \in ItemNames : Scan(n)

ItemSpec == ItemInit /\ [][ItemNext]_itemVars

-----------------------------------------------------------------------------

\* A file's content goes from disk by a handler only if it is kept elsewhere, if
\* its directory goes and a pattern says that it may go too, or if the database
\* knows it and it is not to become a conflict copy: content that lost a conflict
\* becomes one, unless the file is a conflict copy itself or none are wanted. Of
\* the copies, only those go that MaxConflicts newer ones replace.
KeepsContent ==
    [][clock' = clock =>
       \A n \in ItemNames :
          LET c == disk[n].c IN
          /\ disk[n].type = "file" /\ ~(\E m \in ItemNames : disk'[m].c = c) =>
                \/ c \in saved'
                \/ \E i \in 1..Len(copies'[n]) : copies'[n][i] = c
                \/ n \in deletable
                \/ cur[n].c = c /\ (glob[n].conflict => \/ n \in ConflictNames
                                                      \/ MaxConflicts = 0)
          /\ \A i \in 1..Len(copies[n]) :
                \/ \E k \in {i, i + 1} \intersect (1..Len(copies'[n])) :
                      copies'[n][k] = copies[n][i]
                \/ i >= MaxConflicts /\ MaxConflicts > -1]_itemVars
=============================================================================
