------------------------------ MODULE FolderDB ------------------------------
(***************************************************************************)
(* The rows of one file name in the folder database of internal/db/sqlite: *)
(* what every device has announced, which row carries the global flag and  *)
(* whether it carries the need flag, and the counts the triggers maintain. *)
(* The flags are kept up to date by recalculating a name whenever one of   *)
(* its rows is written, and otherwise only when the name has lost its      *)
(* global row.  Every operation is one transaction under updateLock.       *)
(*                                                                         *)
(* A version stands for one change of the file, so it fixes the time of    *)
(* the change and whether it was a deletion.  Names do not touch each      *)
(* other's rows (see NoEviction in IndexExchange).                         *)
(***************************************************************************)
EXTENDS Vectors, FiniteSets

CONSTANTS
    Remotes,    \* device indexes of the other devices
    Versions,   \* version vectors in use
    ModTimes    \* modification times in use

Local == 1      \* localDeviceIdx, the first one to be handed out
Devices == {Local} \union Remotes

ASSUME DevicesAssumption ==
    /\ IsFiniteSet(Remotes) /\ \A d \in Remotes : d \in Nat /\ d > Local
ASSUME VersionsAssumption ==
    /\ Versions \subseteq [Counters -> Nat]
    /\ ModTimes \subseteq Nat

VARIABLES
    content,    \* content[v]: when version v was made and whether it deletes
    rows,       \* rows[d]: what device d has announced
    counts,     \* counts[d]: the counts table, by device and kind of row
    changed,    \* local sequence # lastSuccessfulGCSeq
    gc,         \* periodic has read the sequence and goes on to collect
    whole       \* history: no row has gone since the flags were last set

dbVars == <<content, rows, counts, changed, gc, whole>>

NoRow == [version |-> "none"]
Rows == [version : Versions, invalid : BOOLEAN, global : BOOLEAN, need : BOOLEAN]
Kinds == BOOLEAN \X BOOLEAN \X BOOLEAN \X BOOLEAN

Present(t) == {d \in Devices : t[d] # NoRow}
Deleted(row) == content[row.version].deleted
Modified(row) == content[row.version].mod

-----------------------------------------------------------------------------
(* The order of versions.                                                  *)

\* Mutant: the older one of two conflicting changes wins.
BeatsOlder(t, d, e) ==
    LET vc == Compare(t[d].version, t[e].version)
    IN  \/ vc = "greater"
        \/ vc = "equal" /\ IF t[d].invalid # t[e].invalid THEN t[e].invalid ELSE d < e
        \/ /\ vc \in {"concurrentGreater", "concurrentLesser"}
           /\ IF t[d].invalid # t[e].invalid THEN t[e].invalid
              ELSE \/ Modified(t[d]) < Modified(t[e])
                   \/ Modified(t[d]) = Modified(t[e]) /\ vc = "concurrentGreater"

\* fileRow.Compare puts d's row before e's.
Beats(t, d, e) ==
    LET vc == Compare(t[d].version, t[e].version)
    IN  \/ vc = "greater"
        \/ vc = "equal" /\ IF t[d].invalid # t[e].invalid THEN t[e].invalid ELSE d < e
        \/ /\ vc \in {"concurrentGreater", "concurrentLesser"}
           /\ IF t[d].invalid # t[e].invalid THEN t[e].invalid
              ELSE \/ Modified(t[d]) > Modified(t[e])
                   \/ Modified(t[d]) = Modified(t[e]) /\ vc = "concurrentGreater"

(***************************************************************************)
(* What slices.SortFunc makes of the rows, as the position of every one.   *)
(* Beats is not transitive, so this is not one order: the insertion sort   *)
(* used for short lists only puts no row right behind one it beats, and    *)
(* which such order comes out depends on the order the query returns.      *)
(***************************************************************************)
Orders(t) ==
    LET P == Present(t) IN
    {pos \in [P -> 1..Cardinality(P)] :
        /\ \A d, e \in P : pos[d] = pos[e] => d = e
        /\ \A d, e \in P : pos[e] = pos[d] + 1 => Beats(t, d, e)}

-----------------------------------------------------------------------------
(* recalcGlobalForFile.                                                    *)

\* The first row that is not invalid, or the first row if all are.
IsGlobal(t, pos, g) ==
    /\ t[g].invalid => \A d \in DOMAIN pos : t[d].invalid
    /\ \A d \in DOMAIN pos : pos[d] < pos[g] => t[d].invalid /\ ~t[g].invalid

HasLocal(t, pos, g) ==
    IF Local \in DOMAIN pos
      THEN pos[Local] <= pos[g] \/ t[Local].version = t[g].version
      ELSE Deleted(t[g])

Flagged(t, pos, g) ==
    [d \in Devices |->
        IF d \notin DOMAIN pos THEN t[d]
        ELSE [t[d] EXCEPT !.global = d = g,
                          !.need = /\ d = g
                                   /\ ~t[g].invalid /\ ~HasLocal(t, pos, g)]]

\* The flags are recalculated; rows becomes t2.
Recalc(t, t2) ==
    \/ Present(t) = {} /\ t2 = t
    \/ \E pos \in Orders(t) : \E g \in DOMAIN pos :
          IsGlobal(t, pos, g) /\ t2 = Flagged(t, pos, g)

HasGlobal(t) == \E d \in Present(t) : t[d].global

\* recalcGlobalForFolder, as far as this name goes.
RecalcForFolder(t, t2) == IF HasGlobal(t) THEN t2 = t ELSE Recalc(t, t2)

-----------------------------------------------------------------------------
(* The triggers of the counts table.                                       *)

\* What rows are counted by: the flags and whether the file is deleted.
Kind(row) == <<row.invalid, row.global, row.need, Deleted(row)>>

CountsInsert(c, d, row) == [c EXCEPT ![d][Kind(row)] = @ + 1]

\* For every row in D.
CountsDelete(c, t, D) ==
    [d \in Devices |->
        IF d \in D /\ t[d] # NoRow THEN [c[d] EXCEPT ![Kind(t[d])] = @ - 1] ELSE c[d]]

\* For every row whose flags differ.
CountsUpdate(c, t, t2) ==
    [d \in Devices |->
        IF t[d] = t2[d] THEN c[d]
        ELSE [c[d] EXCEPT ![Kind(t2[d])] = @ + 1, ![Kind(t[d])] = @ - 1]]

-----------------------------------------------------------------------------

DBInit ==
    /\ content \in [Versions -> [mod : ModTimes, deleted : BOOLEAN]]
    /\ rows = [d \in Devices |-> NoRow]
    /\ counts = [d \in Devices |-> [k \in Kinds |-> 0]]
    /\ changed = FALSE /\ gc = FALSE /\ whole = TRUE

\* Mutant: recursive triggers are off, so a row that is replaced is not
\* counted out.
UpdateReplacing(d, v, inv) ==
    LET row == [version |-> v, invalid |-> inv, global |-> FALSE, need |-> FALSE]
        t == [rows EXCEPT ![d] = row]
    IN  /\ Recalc(t, rows')
        /\ counts' = CountsUpdate(CountsInsert(counts, d, row), t, rows')
        /\ changed' = (changed \/ d = Local)
        /\ whole' = TRUE
        /\ UNCHANGED <<content, gc>>

\* Update: INSERT OR REPLACE, which fires the delete and the insert trigger,
\* and recalcGlobalForFile.
Update(d, v, inv) ==
    LET row == [version |-> v, invalid |-> inv, global |-> FALSE, need |-> FALSE]
        t == [rows EXCEPT ![d] = row]
    IN  /\ Recalc(t, rows')
        /\ counts' = CountsUpdate(CountsInsert(CountsDelete(counts, rows, {d}), d, row),
                                  t, rows')
        /\ changed' = (changed \/ d = Local)
        /\ whole' = TRUE
        /\ UNCHANGED <<content, gc>>

\* Without d's row.
Without(d) == [rows EXCEPT ![d] = NoRow]

\* The triggers for the row that goes and for the flags that change.
Drop(d) ==
    /\ counts' = CountsUpdate(CountsDelete(counts, rows, {d}), Without(d), rows')
    /\ UNCHANGED <<content, changed, gc>>

\* DropAllFiles, which is only ever called for other devices. Without a row
\* of this name the names are recalculated for the sake of others, if at all.
DropAllFiles(d) ==
    /\ d # Local
    /\ RecalcForFolder(Without(d), rows') /\ Drop(d)
    /\ whole' = (HasGlobal(Without(d)) => whole /\ d \notin Present(rows))

\* DropFilesNamed, which is only ever called for the local device.
DropFilesNamed == Recalc(Without(Local), rows') /\ Drop(Local) /\ whole' = TRUE

\* periodic reads the local sequence, without updateLock ...
GCStart ==
    /\ changed /\ ~gc
    /\ gc' = TRUE /\ changed' = FALSE
    /\ UNCHANGED <<content, rows, counts, whole>>

\* Mutant: deletions that are needed are forgotten too.
ForgetAll(cutoff) ==
    LET old == {d \in Present(rows) : Deleted(rows[d]) /\ Modified(rows[d]) < cutoff}
    IN  /\ gc
        /\ rows' = [d \in Devices |-> IF d \in old THEN NoRow ELSE rows[d]]
        /\ counts' = CountsDelete(counts, rows, old)
        /\ gc' = FALSE
        /\ whole' = (whole /\ old = {})
        /\ UNCHANGED <<content, changed>>

\* ... and garbageCollectOldDeletedLocked forgets deletions made before cutoff.
\* Nothing is recalculated.
Forget(cutoff) ==
    LET old == {d \in Present(rows) : /\ Deleted(rows[d]) /\ Modified(rows[d]) < cutoff
                                      /\ ~rows[d].need}
    IN  /\ gc
        /\ rows' = [d \in Devices |-> IF d \in old THEN NoRow ELSE rows[d]]
        /\ counts' = CountsDelete(counts, rows, old)
        /\ gc' = FALSE
        /\ whole' = (whole /\ old = {})
        /\ UNCHANGED <<content, changed>>

Cutoffs == ModTimes \union {m + 1 : m \in ModTimes}

DBNext ==
    \/ \E d \in Devices, v \in Versions, inv \in BOOLEAN : Update(d, v, inv)
    \/ \E d \in Remotes : DropAllFiles(d)
    \/ DropFilesNamed
    \/ GCStart
    \/ \E m \in Cutoffs : Forget(m)

DBSpec == DBInit /\ [][DBNext]_dbVars

-----------------------------------------------------------------------------

\* Types; at most one row is the global one, and the need flag is only on a
\* global row that another device has announced and that is not invalid.
DBTypeOK ==
    /\ content \in [Versions -> [mod : ModTimes, deleted : BOOLEAN]]
    /\ rows \in [Devices -> Rows \union {NoRow}]
    /\ counts \in [Devices -> [Kinds -> Int]]
    /\ changed \in BOOLEAN /\ gc \in BOOLEAN /\ whole \in BOOLEAN
    /\ \A d, e \in Present(rows) : rows[d].global /\ rows[e].global => d = e
    /\ \A d \in Present(rows) :
          rows[d].need => rows[d].global /\ d # Local /\ ~rows[d].invalid

\* Whatever is written, dropped and forgotten, and however little of it leads
\* to a recalculation: a valid row of our own always has a global row beside
\* it, which is needed exactly if it is another version than ours.
LocalJudged ==
    Local \in Present(rows) /\ ~rows[Local].invalid =>
        \E g \in Present(rows) :
            /\ rows[g].global
            /\ rows[g].need <=> rows[g].version # rows[Local].version

\* d's row is a newer version than e's, or in conflict with it and to be
\* preferred: the valid one of the two, or else the one modified later.
Outdoes(d, e) ==
    LET vc == Compare(rows[d].version, rows[e].version)
    IN  \/ vc = "greater"
        \/ /\ vc \in {"concurrentGreater", "concurrentLesser"}
           /\ IF rows[d].invalid # rows[e].invalid THEN rows[e].invalid
              ELSE Modified(rows[d]) > Modified(rows[e])

\* Modification times need not follow versions, so fileRow.Compare may go in
\* circles and the sort may then pick any row of the circle. It never picks one
\* from outside: of rows each of which outdoes every other row there is, one is
\* the global row, and a valid one if there is one. So a valid row that outdoes
\* all others is global. This is as of the last recalculation; where a row has
\* gone since without another one, a circle may be broken and its pick remain.
NewestWins ==
    whole =>
        \A S \in SUBSET Present(rows) :
            /\ \E d \in S : ~rows[d].invalid
            /\ \A d \in S, e \in Present(rows) \ S : Outdoes(d, e)
            => \E g \in S : rows[g].global /\ ~rows[g].invalid

\* The counts are the numbers of rows, whichever triggers fired on the way.
CountsExact ==
    \A d \in Devices, k \in Kinds :
        counts[d][k] = IF d \in Present(rows) /\ k = Kind(rows[d]) THEN 1 ELSE 0
=============================================================================
