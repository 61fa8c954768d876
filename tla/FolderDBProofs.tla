--------------------------- MODULE FolderDBProofs ---------------------------
(***************************************************************************)
(* Proofs about FolderDB, for any devices, versions and times: types, the  *)
(* places of the flags, that every valid row of our own is judged by a     *)
(* global row although most operations recalculate little or nothing, that *)
(* the counts count, and that no row the others outdo is picked, in        *)
(* whichever order the sort leaves the rows.                               *)
(***************************************************************************)
EXTENDS FolderDB, FiniteSetTheorems, WellFoundedInduction, TLAPS

Contents == [Versions -> [mod : ModTimes, deleted : BOOLEAN]]
Tables == [Devices -> Rows \union {NoRow}]

\* The part of DBTypeOK that is about flags, for a table.
FlagsOK(t) ==
    /\ \A d, e \in Present(t) : t[d].global /\ t[e].global => d = e
    /\ \A d \in Present(t) : t[d].need => t[d].global /\ d # Local /\ ~t[d].invalid

\* LocalJudged, for a table.
Judged(t) ==
    Local \in Present(t) /\ ~t[Local].invalid =>
        \E g \in Present(t) :
            t[g].global /\ (t[g].need <=> t[g].version # t[Local].version)

\* A row is not the absence of one.
LEMMA RowIsNotNone ==
    ASSUME NEW r \in Rows
    PROVE  r # NoRow
<1>1. "invalid" \in DOMAIN r
  BY DEF Rows
<1>2. "invalid" \notin DOMAIN NoRow
  BY DEF NoRow
<1>3. QED
  BY <1>1, <1>2

\* Devices that have a row are finitely many, so positions are numbers.
LEMMA PresentIsFinite ==
    ASSUME NEW t
    PROVE  Cardinality(Present(t)) \in Nat
<1>1. IsFiniteSet(Devices)
  BY DevicesAssumption, FS_Singleton, FS_Union DEF Devices
<1>2. IsFiniteSet(Present(t))
  BY <1>1, FS_Subset DEF Present
<1>3. QED
  BY <1>2, FS_CardinalityType

\* Setting the flags changes no more than the flags of rows that are there.
LEMMA FlaggedTable ==
    ASSUME NEW t \in Tables, NEW pos \in Orders(t), NEW g \in DOMAIN pos
    PROVE  /\ Flagged(t, pos, g) \in Tables
           /\ DOMAIN pos = Present(t)
           /\ Present(Flagged(t, pos, g)) = Present(t)
           /\ \A d \in Present(t) :
                 /\ Flagged(t, pos, g)[d].version = t[d].version
                 /\ Flagged(t, pos, g)[d].invalid = t[d].invalid
                 /\ Flagged(t, pos, g)[d].global = (d = g)
                 /\ Flagged(t, pos, g)[d].need =
                       (d = g /\ ~t[g].invalid /\ ~HasLocal(t, pos, g))
<1> DEFINE t2 == Flagged(t, pos, g)
<1>1. DOMAIN pos = Present(t)
  BY DEF Orders
<1>2. \A d \in Devices : d \notin Present(t) => t2[d] = t[d] /\ t2[d] = NoRow
  BY <1>1 DEF Flagged, Present
<1>3. ASSUME NEW d \in Present(t)
      PROVE  /\ d \in Devices /\ t[d] \in Rows
             /\ t2[d] = [t[d] EXCEPT !.global = d = g,
                                     !.need = /\ d = g
                                              /\ ~t[g].invalid /\ ~HasLocal(t, pos, g)]
  BY <1>1 DEF Flagged, Present, Tables
<1>4. ASSUME NEW d \in Present(t)
      PROVE  /\ t2[d] \in Rows
             /\ t2[d].version = t[d].version /\ t2[d].invalid = t[d].invalid
             /\ t2[d].global = (d = g)
             /\ t2[d].need = (d = g /\ ~t[g].invalid /\ ~HasLocal(t, pos, g))
  <2>1. t[d] \in Rows
    BY <1>3
  <2> DEFINE x == (d = g) y == (d = g /\ ~t[g].invalid /\ ~HasLocal(t, pos, g))
  <2>2. t2[d] = [t[d] EXCEPT !.global = x, !.need = y]
    BY <1>3
  <2>3. x \in BOOLEAN /\ y \in BOOLEAN
    OBVIOUS
  <2> HIDE DEF x, y, t2
  <2>4. /\ t2[d] \in Rows
        /\ t2[d].version = t[d].version /\ t2[d].invalid = t[d].invalid
        /\ t2[d].global = x /\ t2[d].need = y
    BY <2>1, <2>2, <2>3 DEF Rows
  <2>5. QED
    BY <2>4 DEF x, y
<1>5. \A d \in Present(t) : t2[d] # NoRow
  BY <1>4, RowIsNotNone
<1>6. Present(t2) = Present(t)
  BY <1>2, <1>5 DEF Present
<1>7. t2 \in Tables
  <2>1. t2 = [d \in Devices |-> t2[d]]
    BY DEF Flagged
  <2>2. \A d \in Devices : t2[d] \in Rows \union {NoRow}
    BY <1>2, <1>4
  <2> HIDE DEF t2
  <2>3. QED
    BY <2>1, <2>2 DEF Tables
<1>8. QED
  BY <1>1, <1>4, <1>6, <1>7

\* What recalcGlobalForFile leaves behind, whatever order the sort came up with.
LEMMA RecalcJudges ==
    ASSUME NEW t \in Tables, NEW t2, Recalc(t, t2)
    PROVE  t2 \in Tables /\ FlagsOK(t2) /\ Judged(t2)
<1>1. CASE Present(t) = {} /\ t2 = t
  BY <1>1 DEF FlagsOK, Judged
<1>2. CASE \E pos \in Orders(t) : \E g \in DOMAIN pos :
              IsGlobal(t, pos, g) /\ t2 = Flagged(t, pos, g)
  <2>1. PICK pos \in Orders(t) : \E g \in DOMAIN pos :
              IsGlobal(t, pos, g) /\ t2 = Flagged(t, pos, g)
    BY <1>2
  <2>2. PICK g \in DOMAIN pos : IsGlobal(t, pos, g) /\ t2 = Flagged(t, pos, g)
    BY <2>1
  <2> DEFINE P == Present(t)
  <2>3. /\ t2 \in Tables /\ DOMAIN pos = P /\ Present(t2) = P
        /\ \A d \in P :
              /\ t2[d].version = t[d].version /\ t2[d].invalid = t[d].invalid
              /\ t2[d].global = (d = g)
              /\ t2[d].need = (d = g /\ ~t[g].invalid /\ ~HasLocal(t, pos, g))
    BY <2>2, FlaggedTable
  <2>4. pos \in [P -> Nat] /\ \A d, e \in P : pos[d] = pos[e] => d = e
    BY PresentIsFinite DEF Orders
  <2>5. Local \in P => (HasLocal(t, pos, g) <=>
                           pos[Local] <= pos[g] \/ t[Local].version = t[g].version)
    BY <2>3 DEF HasLocal
  <2>6. FlagsOK(t2)
    <3>1. Local \in P /\ g = Local => HasLocal(t, pos, g)
      BY <2>5
    <3>2. QED
      BY <2>3, <3>1 DEF FlagsOK
  <2>7. ASSUME Local \in P, ~t[Local].invalid
        PROVE  t2[g].global /\ (t2[g].need <=> t2[g].version # t2[Local].version)
    <3>1. ~t[g].invalid /\ ~(pos[Local] < pos[g])
      BY <2>2, <2>3, <2>7 DEF IsGlobal
    <3>2. pos[Local] <= pos[g] => Local = g
      BY <2>3, <2>4, <2>7, <3>1
    <3>3. HasLocal(t, pos, g) <=> t[Local].version = t[g].version
      BY <2>5, <2>7, <3>2
    <3>4. QED
      BY <2>3, <2>7, <3>1, <3>3
  <2>8. Judged(t2)
    BY <2>2, <2>3, <2>7 DEF Judged
  <2>9. QED
    BY <2>3, <2>6, <2>8
<1>3. QED
  BY <1>1, <1>2 DEF Recalc

-----------------------------------------------------------------------------

\* Recalculation keeps rows, versions and validity.
LEMMA RecalcKeeps ==
    ASSUME NEW t \in Tables, NEW t2, Recalc(t, t2)
    PROVE  /\ Present(t2) = Present(t)
           /\ \A d \in Present(t) : t2[d].version = t[d].version
<1>1. CASE Present(t) = {} /\ t2 = t
  BY <1>1
<1>2. CASE \E pos \in Orders(t) : \E g \in DOMAIN pos :
              IsGlobal(t, pos, g) /\ t2 = Flagged(t, pos, g)
  BY <1>2, FlaggedTable
<1>3. QED
  BY <1>1, <1>2 DEF Recalc

Numbers == [Devices -> [Kinds -> Int]]

\* CountsExact, for a table.
Exact(c, t) ==
    \A d \in Devices, k \in Kinds :
        c[d][k] = IF d \in Present(t) /\ k = Kind(t[d]) THEN 1 ELSE 0

LEMMA KindType ==
    ASSUME content \in Contents, NEW r \in Rows
    PROVE  Kind(r) \in Kinds
<1>1. content[r.version].deleted \in BOOLEAN
  BY DEF Contents, Rows
<1>2. QED
  BY <1>1 DEF Kind, Kinds, Deleted, Rows

\* The delete trigger.
LEMMA DeleteCounts ==
    ASSUME content \in Contents, NEW t \in Tables, NEW c \in Numbers, Exact(c, t),
           NEW D \in SUBSET Devices, NEW t2 \in Tables,
           t2 = [d \in Devices |-> IF d \in D THEN NoRow ELSE t[d]]
    PROVE  CountsDelete(c, t, D) \in Numbers /\ Exact(CountsDelete(c, t, D), t2)
<1> DEFINE c2 == CountsDelete(c, t, D)
<1>1. ASSUME NEW d \in Devices
      PROVE  /\ c2[d] \in [Kinds -> Int]
             /\ \A k \in Kinds :
                   c2[d][k] = IF d \in Present(t2) /\ k = Kind(t2[d]) THEN 1 ELSE 0
  <2>1. CASE d \in D /\ t[d] # NoRow
    <3>1. c2[d] = [c[d] EXCEPT ![Kind(t[d])] = @ - 1]
      BY <2>1 DEF CountsDelete
    <3>2. Kind(t[d]) \in Kinds
      BY <2>1, KindType DEF Tables
    <3>3. c[d] \in [Kinds -> Int]
      BY DEF Numbers
    <3>4. \A k \in Kinds : c[d][k] = IF k = Kind(t[d]) THEN 1 ELSE 0
      BY <2>1 DEF Exact, Present
    <3>5. d \notin Present(t2)
      BY <2>1 DEF Present
    <3> HIDE DEF c2
    <3>6. QED
      BY <3>1, <3>2, <3>3, <3>4, <3>5
  <2>2. CASE ~(d \in D /\ t[d] # NoRow)
    <3>1. c2[d] = c[d]
      BY <2>2 DEF CountsDelete
    <3>2. t2[d] = t[d]
      BY <2>2
    <3> HIDE DEF c2
    <3>3. QED
      BY <3>1, <3>2 DEF Exact, Numbers, Present
  <2>3. QED
    BY <2>1, <2>2
<1>2. c2 = [d \in Devices |-> c2[d]]
  BY DEF CountsDelete
<1> HIDE DEF c2
<1>3. c2 \in Numbers /\ Exact(c2, t2)
  BY <1>1, <1>2 DEF Numbers, Exact
<1>4. QED
  BY <1>3 DEF c2

\* The insert trigger.
LEMMA InsertCounts ==
    ASSUME content \in Contents, NEW t \in Tables, NEW c \in Numbers, Exact(c, t),
           NEW d \in Devices, d \notin Present(t), NEW r \in Rows
    PROVE  /\ CountsInsert(c, d, r) \in Numbers
           /\ Exact(CountsInsert(c, d, r), [t EXCEPT ![d] = r])
<1> DEFINE c2 == CountsInsert(c, d, r) t2 == [t EXCEPT ![d] = r]
<1>1. Kind(r) \in Kinds
  BY KindType
<1>2. c2 = [c EXCEPT ![d] = [c[d] EXCEPT ![Kind(r)] = c[d][Kind(r)] + 1]]
  BY DEF CountsInsert
<1>3. c2 \in Numbers
  BY <1>1, <1>2 DEF Numbers
<1>4. d \in Present(t2) /\ \A e \in Devices \ {d} : e \in Present(t2) <=> e \in Present(t)
  BY RowIsNotNone DEF Present, Tables
<1>5. t2[d] = r /\ \A e \in Devices \ {d} : t2[e] = t[e]
  BY DEF Tables
<1>6. \A k \in Kinds : c2[d][k] = IF k = Kind(r) THEN 1 ELSE 0
  BY <1>1, <1>2 DEF Numbers, Exact
<1>7. \A e \in Devices \ {d} : c2[e] = c[e]
  BY <1>2 DEF Numbers
<1> HIDE DEF c2, t2
<1>8. Exact(c2, t2)
  BY <1>4, <1>5, <1>6, <1>7 DEF Exact
<1>9. QED
  BY <1>3, <1>8 DEF c2, t2

\* The update trigger, when rows keep their places.
LEMMA UpdateCounts ==
    ASSUME content \in Contents, NEW t \in Tables, NEW c \in Numbers, Exact(c, t),
           NEW t2 \in Tables, Present(t2) = Present(t)
    PROVE  CountsUpdate(c, t, t2) \in Numbers /\ Exact(CountsUpdate(c, t, t2), t2)
<1> DEFINE c2 == CountsUpdate(c, t, t2)
<1>1. ASSUME NEW d \in Devices
      PROVE  /\ c2[d] \in [Kinds -> Int]
             /\ \A k \in Kinds :
                   c2[d][k] = IF d \in Present(t2) /\ k = Kind(t2[d]) THEN 1 ELSE 0
  <2>1. CASE t[d] = t2[d]
    <3>1. c2[d] = c[d]
      BY <2>1 DEF CountsUpdate
    <3> HIDE DEF c2
    <3>2. QED
      BY <2>1, <3>1 DEF Exact, Numbers
  <2>2. CASE t[d] # t2[d]
    <3>1. d \in Present(t) /\ d \in Present(t2)
      BY <2>2 DEF Present
    <3>2. Kind(t[d]) \in Kinds /\ Kind(t2[d]) \in Kinds
      BY <3>1, KindType DEF Tables, Present
    <3>3. c2[d] = [c[d] EXCEPT ![Kind(t2[d])] = @ + 1, ![Kind(t[d])] = @ - 1]
      BY <2>2 DEF CountsUpdate
    <3>4. c[d] \in [Kinds -> Int]
      BY DEF Numbers
    <3>5. \A k \in Kinds : c[d][k] = IF k = Kind(t[d]) THEN 1 ELSE 0
      BY <3>1 DEF Exact
    <3> DEFINE o == Kind(t[d]) n == Kind(t2[d])
    <3> HIDE DEF c2, o, n
    <3>6. c2[d] \in [Kinds -> Int] /\ \A k \in Kinds : c2[d][k] = IF k = n THEN 1 ELSE 0
      BY <3>2, <3>3, <3>4, <3>5 DEF o, n
    <3>7. QED
      BY <3>1, <3>6 DEF n
  <2>3. QED
    BY <2>1, <2>2
<1>2. c2 = [d \in Devices |-> c2[d]]
  BY DEF CountsUpdate
<1> HIDE DEF c2
<1>3. c2 \in Numbers /\ Exact(c2, t2)
  BY <1>1, <1>2 DEF Numbers, Exact
<1>4. QED
  BY <1>3 DEF c2

-----------------------------------------------------------------------------

FolderInv == DBTypeOK /\ LocalJudged /\ CountsExact

\* The same by table, which is how the lemmas above put it.
LEMMA InvByTable ==
    FolderInv <=> /\ content \in Contents /\ rows \in Tables /\ counts \in Numbers
                  /\ {changed, gc, whole} \subseteq BOOLEAN
                  /\ FlagsOK(rows) /\ Judged(rows) /\ Exact(counts, rows)
BY DEF FolderInv, DBTypeOK, LocalJudged, CountsExact, Contents, Tables, Numbers,
       FlagsOK, Judged, Exact

\* A device's row is taken away.
LEMMA WithoutRow ==
    ASSUME NEW t \in Tables, NEW d \in Devices
    PROVE  /\ [t EXCEPT ![d] = NoRow] \in Tables
           /\ [t EXCEPT ![d] = NoRow] =
                 [e \in Devices |-> IF e \in {d} THEN NoRow ELSE t[e]]
           /\ d \notin Present([t EXCEPT ![d] = NoRow])
           /\ \A e \in Devices \ {d} : [t EXCEPT ![d] = NoRow][e] = t[e]
           /\ Present([t EXCEPT ![d] = NoRow]) = Present(t) \ {d}
BY DEF Tables, Present

LEMMA InitInv == DBInit => FolderInv
<1> SUFFICES ASSUME DBInit PROVE FolderInv
  OBVIOUS
<1>1. Present(rows) = {}
  BY DEF DBInit, Present
<1>2. rows \in Tables /\ content \in Contents /\ {changed, gc, whole} \subseteq BOOLEAN
  BY DEF DBInit, Tables, Contents
<1>3. counts \in Numbers /\ Exact(counts, rows)
  BY <1>1 DEF DBInit, Numbers, Exact
<1>4. FlagsOK(rows) /\ Judged(rows)
  BY <1>1 DEF FlagsOK, Judged
<1>5. QED
  BY <1>2, <1>3, <1>4, InvByTable

LEMMA UpdateInv ==
    ASSUME FolderInv, NEW d \in Devices, NEW v \in Versions, NEW inv \in BOOLEAN,
           Update(d, v, inv)
    PROVE  FolderInv'
<1> DEFINE row == [version |-> v, invalid |-> inv, global |-> FALSE, need |-> FALSE]
           t == [rows EXCEPT ![d] = row]
           t0 == [rows EXCEPT ![d] = NoRow]
           c0 == CountsDelete(counts, rows, {d})
           c1 == CountsInsert(c0, d, row)
<1>1. /\ content \in Contents /\ rows \in Tables /\ counts \in Numbers
      /\ {changed, gc, whole} \subseteq BOOLEAN /\ Exact(counts, rows)
  BY InvByTable
<1>2. row \in Rows
  BY DEF Rows
<1>3. t0 \in Tables /\ d \notin Present(t0)
      /\ t0 = [e \in Devices |-> IF e \in {d} THEN NoRow ELSE rows[e]]
  BY <1>1, WithoutRow
<1>4. t \in Tables /\ t = [t0 EXCEPT ![d] = row]
  BY <1>1, <1>2 DEF Tables
<1>5. /\ Recalc(t, rows') /\ counts' = CountsUpdate(c1, t, rows')
      /\ content' = content /\ gc' = gc
      /\ changed' = (changed \/ d = Local) /\ whole' = TRUE
  BY DEF Update
<1> HIDE DEF row, t, t0
<1>6. c0 \in Numbers /\ Exact(c0, t0)
  BY <1>1, <1>3, DeleteCounts
<1> HIDE DEF c0
<1>7. c1 \in Numbers /\ Exact(c1, t)
  BY <1>1, <1>2, <1>3, <1>4, <1>6, InsertCounts
<1> HIDE DEF c1
<1>8. rows' \in Tables /\ FlagsOK(rows') /\ Judged(rows') /\ Present(rows') = Present(t)
  BY <1>4, <1>5, RecalcJudges, RecalcKeeps
<1>9. counts' \in Numbers /\ Exact(counts', rows')
  BY <1>1, <1>4, <1>5, <1>7, <1>8, UpdateCounts
<1>10. Exact(counts, rows)'
  BY <1>5, <1>9 DEF Exact, Kind, Deleted, Present
<1>11. FlagsOK(rows)' /\ Judged(rows)'
  BY <1>8 DEF FlagsOK, Judged, Present
<1>12. {changed', gc', whole'} \subseteq BOOLEAN
  BY <1>1, <1>5
<1>13. QED
  BY <1>1, <1>5, <1>8, <1>9, <1>10, <1>11, <1>12, InvByTable
     DEF FolderInv, DBTypeOK, LocalJudged, CountsExact, Contents, Tables, Numbers,
         FlagsOK, Judged, Exact

\* A row is dropped and the flags are either recalculated or as they should be.
LEMMA DropInv ==
    ASSUME FolderInv, NEW d \in Devices,
           LET t == [rows EXCEPT ![d] = NoRow]
           IN  /\ Recalc(t, rows') \/ (rows' = t /\ FlagsOK(t) /\ Judged(t))
               /\ counts' = CountsUpdate(CountsDelete(counts, rows, {d}), t, rows'),
           UNCHANGED <<content, changed, gc>>, whole' \in BOOLEAN
    PROVE  FolderInv'
<1> DEFINE t == [rows EXCEPT ![d] = NoRow]
           c == CountsDelete(counts, rows, {d})
<1>1. /\ content \in Contents /\ rows \in Tables /\ counts \in Numbers
      /\ {changed, gc, whole} \subseteq BOOLEAN /\ Exact(counts, rows)
  BY InvByTable
<1>2. /\ Recalc(t, rows') \/ (rows' = t /\ FlagsOK(t) /\ Judged(t))
      /\ counts' = CountsUpdate(c, t, rows')
  OBVIOUS
<1>3. t \in Tables /\ t = [e \in Devices |-> IF e \in {d} THEN NoRow ELSE rows[e]]
  BY <1>1, WithoutRow
<1> HIDE DEF t
<1>4. c \in Numbers /\ Exact(c, t)
  BY <1>1, <1>3, DeleteCounts
<1> HIDE DEF c
<1>5. rows' \in Tables /\ FlagsOK(rows') /\ Judged(rows') /\ Present(rows') = Present(t)
  BY <1>2, <1>3, RecalcJudges, RecalcKeeps
<1>6. counts' \in Numbers /\ Exact(counts', rows')
  BY <1>1, <1>2, <1>3, <1>4, <1>5, UpdateCounts
<1>7. QED
  BY <1>1, <1>5, <1>6
     DEF FolderInv, DBTypeOK, LocalJudged, CountsExact, Contents, Tables, Numbers,
         FlagsOK, Judged, Exact, Kind, Deleted, Present

\* DropAllFiles: the flags need no recalculation as long as there is a global row.
LEMMA DropAllFilesInv ==
    ASSUME FolderInv, NEW d \in Remotes, DropAllFiles(d)
    PROVE  FolderInv'
<1> DEFINE t == [rows EXCEPT ![d] = NoRow]
<1>1. d \in Devices /\ d # Local
  BY DEF DropAllFiles, Devices
<1>2. /\ RecalcForFolder(t, rows')
      /\ counts' = CountsUpdate(CountsDelete(counts, rows, {d}), t, rows')
      /\ UNCHANGED <<content, changed, gc>> /\ whole' \in BOOLEAN
  BY DEF DropAllFiles, Drop, Without
<1>3. rows \in Tables /\ FlagsOK(rows) /\ Judged(rows)
  BY InvByTable
<1>4. Present(t) = Present(rows) \ {d} /\ \A e \in Devices \ {d} : t[e] = rows[e]
  BY <1>1, <1>3, WithoutRow
<1>5. Present(rows) \subseteq Devices
  BY DEF Present
<1> HIDE DEF t
<1>6. FlagsOK(t)
  BY <1>3, <1>4, <1>5 DEF FlagsOK
<1>7. HasGlobal(t) => Judged(t)
  <2> SUFFICES ASSUME HasGlobal(t), Local \in Present(t), ~t[Local].invalid
               PROVE  \E g \in Present(t) : t[g].global
                         /\ (t[g].need <=> t[g].version # t[Local].version)
    BY DEF Judged
  <2>1. PICK h \in Present(t) : t[h].global
    BY DEF HasGlobal
  <2>2. t[Local] = rows[Local] /\ t[h] = rows[h] /\ {h, Local} \subseteq Present(rows)
    BY <1>4, <1>5, <2>1
  <2>3. PICK g \in Present(rows) :
           rows[g].global /\ (rows[g].need <=> rows[g].version # rows[Local].version)
    BY <1>3, <2>2 DEF Judged
  <2>4. g = h
    BY <1>3, <2>1, <2>2, <2>3 DEF FlagsOK
  <2>5. QED
    BY <2>1, <2>2, <2>3, <2>4
<1>8. Recalc(t, rows') \/ (rows' = t /\ FlagsOK(t) /\ Judged(t))
  BY <1>2, <1>6, <1>7 DEF RecalcForFolder
<1>9. QED
  BY <1>1, <1>2, <1>8, DropInv DEF t

\* Forgetting: a global row that goes has our version, so ours goes with it.
LEMMA ForgetInv ==
    ASSUME FolderInv, NEW m, Forget(m)
    PROVE  FolderInv'
<1> DEFINE old == {d \in Present(rows) : /\ Deleted(rows[d]) /\ Modified(rows[d]) < m
                                         /\ ~rows[d].need}
<1>1. /\ content \in Contents /\ rows \in Tables /\ counts \in Numbers
      /\ {changed, gc, whole} \subseteq BOOLEAN /\ Exact(counts, rows)
      /\ FlagsOK(rows) /\ Judged(rows)
  BY InvByTable
<1>2. /\ rows' = [d \in Devices |-> IF d \in old THEN NoRow ELSE rows[d]]
      /\ counts' = CountsDelete(counts, rows, old)
      /\ gc' = FALSE /\ UNCHANGED <<content, changed>> /\ whole' \in BOOLEAN
  BY DEF Forget
<1>3. old \subseteq Devices /\ Present(rows) \subseteq Devices
  BY DEF Present
<1>4. \A d \in Present(rows) : ~rows[d].need /\ ~(d \in old) =>
         ~(Deleted(rows[d]) /\ Modified(rows[d]) < m)
  OBVIOUS
<1>5. \A d \in old : /\ d \in Present(rows) /\ Deleted(rows[d])
                     /\ Modified(rows[d]) < m /\ ~rows[d].need
  OBVIOUS
<1> HIDE DEF old
<1>6. rows' \in Tables
  BY <1>1, <1>2 DEF Tables
<1>7. Present(rows') = Present(rows) \ old /\ \A d \in Present(rows') : rows'[d] = rows[d]
  BY <1>2, <1>3 DEF Present
<1>8. FlagsOK(rows')
  BY <1>1, <1>7 DEF FlagsOK
<1>9. Judged(rows')
  <2> SUFFICES ASSUME Local \in Present(rows'), ~rows'[Local].invalid
               PROVE  \E g \in Present(rows') : rows'[g].global
                         /\ (rows'[g].need <=> rows'[g].version # rows'[Local].version)
    BY DEF Judged
  <2>1. rows'[Local] = rows[Local] /\ Local \in Present(rows) /\ Local \notin old
    BY <1>7
  <2>2. PICK g \in Present(rows) :
           rows[g].global /\ (rows[g].need <=> rows[g].version # rows[Local].version)
    BY <1>1, <2>1 DEF Judged
  <2>3. g \notin old
    <3> SUFFICES ASSUME g \in old PROVE FALSE
      OBVIOUS
    <3>1. rows[g].version = rows[Local].version
      BY <1>5, <2>2
    <3>2. Deleted(rows[Local]) /\ Modified(rows[Local]) < m
      BY <1>5, <3>1 DEF Deleted, Modified
    <3>3. ~rows[Local].need
      BY <1>1, <2>1 DEF FlagsOK
    <3>4. QED
      BY <1>4, <2>1, <3>2, <3>3
  <2>4. QED
    BY <1>7, <2>1, <2>2, <2>3
<1>10. counts' \in Numbers /\ Exact(counts', rows')
  BY <1>1, <1>2, <1>3, <1>6, DeleteCounts
<1>11. DBTypeOK'
  BY <1>1, <1>2, <1>6, <1>8, <1>10
     DEF DBTypeOK, Contents, Tables, Numbers, FlagsOK, Present
<1>12. LocalJudged'
  BY <1>9 DEF LocalJudged, Judged, Present
<1>13. CountsExact'
  BY <1>2, <1>10 DEF CountsExact, Exact, Kind, Deleted, Present
<1>14. QED
  BY <1>11, <1>12, <1>13 DEF FolderInv

-----------------------------------------------------------------------------

\* FolderInv is inductive: no strengthening is needed, because a need flag is
\* only ever set by the recalculation that also sets the global flag.
LEMMA NextInv == FolderInv /\ [DBNext]_dbVars => FolderInv'
<1> SUFFICES ASSUME FolderInv, [DBNext]_dbVars PROVE FolderInv'
  OBVIOUS
<1>1. ASSUME NEW d \in Devices, NEW v \in Versions, NEW inv \in BOOLEAN,
             Update(d, v, inv)
      PROVE  FolderInv'
  BY <1>1, UpdateInv
<1>2. ASSUME NEW d \in Remotes, DropAllFiles(d) PROVE FolderInv'
  BY <1>2, DropAllFilesInv
<1>3. CASE DropFilesNamed
  <2>1. LET t == [rows EXCEPT ![Local] = NoRow]
        IN  /\ Recalc(t, rows')
            /\ counts' = CountsUpdate(CountsDelete(counts, rows, {Local}), t, rows')
    BY <1>3 DEF DropFilesNamed, Drop, Without
  <2>2. UNCHANGED <<content, changed, gc>> /\ whole' \in BOOLEAN /\ Local \in Devices
    BY <1>3 DEF DropFilesNamed, Drop, Devices
  <2>3. QED
    BY <2>1, <2>2, DropInv
<1>4. CASE GCStart
  <2>1. UNCHANGED <<content, rows, counts, whole>> /\ gc' = TRUE /\ changed' = FALSE
    BY <1>4 DEF GCStart
  <2>2. DBTypeOK'
    BY <2>1 DEF FolderInv, DBTypeOK, Present
  <2>3. LocalJudged'
    BY <2>1 DEF FolderInv, LocalJudged, Present
  <2>4. CountsExact'
    BY <2>1 DEF FolderInv, CountsExact, Present, Kind, Deleted
  <2>5. QED
    BY <2>2, <2>3, <2>4 DEF FolderInv
<1>5. ASSUME NEW m \in Cutoffs, Forget(m) PROVE FolderInv'
  BY <1>5, ForgetInv
<1>6. CASE UNCHANGED dbVars
  BY <1>6 DEF dbVars, FolderInv, DBTypeOK, LocalJudged, CountsExact, Present, Kind, Deleted
<1>7. QED
  BY <1>1, <1>2, <1>3, <1>4, <1>5, <1>6 DEF DBNext

\* For any devices, versions and times, types hold, at most one row of a name
\* is global and only a valid global row of another device is needed.
THEOREM FolderTypes == DBSpec => []DBTypeOK
<1>1. FolderInv => DBTypeOK
  BY DEF FolderInv
<1>2. QED
  BY <1>1, InitInv, NextInv, PTL DEF DBSpec

\* For any devices, versions and times, a valid row of our own has a global row
\* beside it that is needed exactly if the versions differ.
THEOREM LocalIsJudged == DBSpec => []LocalJudged
<1>1. FolderInv => LocalJudged
  BY DEF FolderInv
<1>2. QED
  BY <1>1, InitInv, NextInv, PTL DEF DBSpec

\* For any devices, versions and times, the triggers keep the counts exact.
THEOREM CountsAreExact == DBSpec => []CountsExact
<1>1. FolderInv => CountsExact
  BY DEF FolderInv
<1>2. QED
  BY <1>1, InitInv, NextInv, PTL DEF DBSpec

-----------------------------------------------------------------------------
(* Which row is the global one.                                            *)

\* A set of numbers has a least one, which is what inductions below rest on.
LEMMA LeastNat ==
    ASSUME NEW T, T \subseteq Nat, T # {}
    PROVE  \E m \in T : \A k \in T : m <= k
<1> DEFINE Less == OpToRel(<, Nat)
<1>1. IsWellFoundedOn(Less, Nat)
  BY NatLessThanWellFounded
<1>2. \A x, y \in Nat : x < y => <<x, y>> \in Less
  BY DEF OpToRel
<1> HIDE DEF Less
<1>3. PICK m \in T : \A k \in T : ~ (<<k, m>> \in Less)
  BY <1>1, WFMin
<1>4. \A k \in T : k \in Nat /\ m \in Nat
  OBVIOUS
<1>5. \A k \in T : ~ (k < m)
  BY <1>2, <1>3, <1>4
<1>6. QED
  BY <1>4, <1>5

\* What Compare says of two vectors the other way round.
LEMMA CompareBack ==
    ASSUME NEW v \in [Counters -> Nat], NEW w \in [Counters -> Nat]
    PROVE  /\ Compare(v, w) = "greater" => Compare(w, v) = "lesser"
           /\ Compare(v, w) \in {"concurrentGreater", "concurrentLesser"} =>
                 Compare(w, v) \in {"concurrentGreater", "concurrentLesser"}
<1> DEFINE differ == {i \in Counters : v[i] # w[i]}
           more == {i \in differ : v[i] > w[i]}
           differB == {i \in Counters : w[i] # v[i]}
           moreB == {i \in differB : w[i] > v[i]}
<1>1. \A i \in Counters : v[i] \in Nat /\ w[i] \in Nat
  OBVIOUS
<1>2. differB = differ
  OBVIOUS
<1>3. moreB = differ \ more
  <2>1. ASSUME NEW i \in differ PROVE w[i] > v[i] <=> ~(v[i] > w[i])
    <3>1. v[i] \in Nat /\ w[i] \in Nat /\ v[i] # w[i]
      BY <1>1
    <3>2. QED
      BY <3>1
  <2>2. QED
    BY <1>2, <2>1
<1>4. Compare(w, v) = CASE differB = {} -> "equal"
          [] differB # {} /\ moreB = differB -> "greater"
          [] differB # {} /\ moreB = {} -> "lesser"
          [] OTHER -> IF \E i \in moreB : \A j \in differB : i <= j
                        THEN "concurrentGreater" ELSE "concurrentLesser"
  BY DEF Compare
<1>5. Compare(v, w) = CASE differ = {} -> "equal"
          [] differ # {} /\ more = differ -> "greater"
          [] differ # {} /\ more = {} -> "lesser"
          [] OTHER -> IF \E i \in more : \A j \in differ : i <= j
                        THEN "concurrentGreater" ELSE "concurrentLesser"
  BY DEF Compare
<1>6. more \subseteq differ
  OBVIOUS
<1> HIDE DEF differ, more, differB, moreB
<1>7. ASSUME Compare(v, w) = "greater" PROVE Compare(w, v) = "lesser"
  <2>1. differ # {} /\ more = differ
    BY <1>5, <1>7
  <2>2. differB # {} /\ moreB = {} /\ moreB # differB
    BY <1>2, <1>3, <2>1
  <2>3. QED
    BY <1>4, <2>2
<1>8. ASSUME Compare(v, w) \in {"concurrentGreater", "concurrentLesser"}
      PROVE  Compare(w, v) \in {"concurrentGreater", "concurrentLesser"}
  <2>1. differ # {} /\ more # differ /\ more # {}
    BY <1>5, <1>8
  <2>2. differB # {} /\ moreB # {} /\ moreB # differB
    BY <1>2, <1>3, <1>6, <2>1
  <2>3. QED
    BY <1>4, <2>2
<1>9. QED
  BY <1>7, <1>8

\* Outdoes, for a table.
Better(t, d, e) ==
    LET vc == Compare(t[d].version, t[e].version)
    IN  \/ vc = "greater"
        \/ /\ vc \in {"concurrentGreater", "concurrentLesser"}
           /\ IF t[d].invalid # t[e].invalid THEN t[e].invalid
              ELSE Modified(t[d]) > Modified(t[e])

LEMMA RowFacts ==
    ASSUME content \in Contents, NEW t \in Tables, NEW d \in Present(t)
    PROVE  /\ t[d].version \in [Counters -> Nat]
           /\ Modified(t[d]) \in Nat
<1>1. t[d] \in Rows
  BY DEF Present, Tables
<1>2. t[d].version \in Versions
  BY <1>1 DEF Rows
<1>3. content[t[d].version].mod \in ModTimes
  BY <1>2 DEF Contents
<1>4. QED
  BY <1>2, <1>3, VersionsAssumption DEF Modified

\* Beats may go in circles, but not in circles of two.
LEMMA BetterIsNotBeaten ==
    ASSUME content \in Contents, NEW t \in Tables,
           NEW d \in Present(t), NEW e \in Present(t), Better(t, d, e)
    PROVE  ~Beats(t, e, d)
<1> DEFINE vc == Compare(t[d].version, t[e].version)
           back == Compare(t[e].version, t[d].version)
<1>1. Modified(t[d]) \in Nat /\ Modified(t[e]) \in Nat
  BY RowFacts
<1>2. /\ vc = "greater" => back = "lesser"
      /\ vc \in {"concurrentGreater", "concurrentLesser"} =>
            back \in {"concurrentGreater", "concurrentLesser"}
  BY RowFacts, CompareBack
<1>3. CASE vc = "greater"
  BY <1>2, <1>3 DEF Beats
<1>4. CASE /\ vc \in {"concurrentGreater", "concurrentLesser"}
           /\ IF t[d].invalid # t[e].invalid THEN t[e].invalid
              ELSE Modified(t[d]) > Modified(t[e])
  <2>1. back # "greater" /\ back # "equal"
    BY <1>2, <1>4
  <2>2. ~(IF t[e].invalid # t[d].invalid THEN t[d].invalid
          ELSE \/ Modified(t[e]) > Modified(t[d])
               \/ Modified(t[e]) = Modified(t[d]) /\ back = "concurrentGreater")
    <3>1. CASE t[d].invalid # t[e].invalid
      <4>1. t[d] \in Rows /\ t[e] \in Rows
        BY DEF Present, Tables
      <4>2. t[d].invalid \in BOOLEAN /\ t[e].invalid \in BOOLEAN
        BY <4>1 DEF Rows
      <4>3. QED
        BY <1>4, <3>1, <4>2, Zenon
    <3>2. CASE t[d].invalid = t[e].invalid
      <4>1. Modified(t[d]) > Modified(t[e])
        BY <1>4, <3>2
      <4>2. ~(Modified(t[e]) > Modified(t[d])) /\ Modified(t[e]) # Modified(t[d])
        BY <1>1, <4>1
      <4>3. QED
        BY <3>2, <4>2
    <3>3. QED
      BY <3>1, <3>2
  <2>3. QED
    BY <2>1, <2>2 DEF Beats
<1>5. QED
  BY <1>3, <1>4 DEF Better

\* Rows that outdo all the others come first in any order the sort may leave,
\* although Beats only holds between neighbours: the first of them behind
\* another row would be right behind one that it outdoes.
LEMMA BestComeFirst ==
    ASSUME content \in Contents, NEW t \in Tables, NEW pos \in Orders(t),
           NEW S, S \subseteq Present(t),
           \A d \in S, e \in Present(t) \ S : Better(t, d, e),
           NEW d \in S, NEW e \in Present(t) \ S
    PROVE  pos[d] < pos[e]
<1> DEFINE P == Present(t)
           n == Cardinality(P)
<1>1. IsFiniteSet(P) /\ n \in Nat
  <2>1. IsFiniteSet(Devices)
    BY DevicesAssumption, FS_Singleton, FS_Union DEF Devices
  <2>2. IsFiniteSet(P)
    BY <2>1, FS_Subset DEF Present
  <2>3. QED
    BY <2>2, FS_CardinalityType
<1>2. /\ pos \in [P -> 1..n] /\ \A x, y \in P : pos[x] = pos[y] => x = y
      /\ \A x, y \in P : pos[y] = pos[x] + 1 => Beats(t, x, y)
  BY DEF Orders
<1>3. d \in P /\ e \in P /\ d # e
  OBVIOUS
<1> HIDE DEF P, n
<1>4. \A k \in 1..n : \E x \in P : pos[x] = k
  <2>1. pos \in Injection(P, 1..n)
    BY <1>2 DEF Injection, IsInjective
  <2>2. IsFiniteSet(1..n) /\ Cardinality(1..n) = n
    BY <1>1, FS_Interval
  <2>3. pos \in Surjection(P, 1..n)
    BY <1>1, <2>1, <2>2, FS_Injection DEF n
  <2>4. QED
    BY <2>3 DEF Surjection
<1>5. pos[d] \in 1..n /\ pos[e] \in 1..n /\ pos[d] # pos[e]
  BY <1>2, <1>3
<1> SUFFICES ASSUME ~(pos[d] < pos[e]) PROVE FALSE
  OBVIOUS
<1>6. pos[e] < pos[d]
  BY <1>1, <1>5
<1> DEFINE Behind == {pos[x] : x \in {y \in S : pos[e] < pos[y]}}
<1>7. S \subseteq P
  BY DEF P
<1>8. Behind \subseteq Nat /\ Behind # {}
  BY <1>1, <1>2, <1>6, <1>7
<1>9. PICK m \in Behind : \A k \in Behind : m <= k
  BY <1>8, LeastNat
<1>10. PICK x \in S : pos[e] < pos[x] /\ pos[x] = m
  OBVIOUS
<1>11. /\ pos[x] \in 1..n /\ pos[x] - 1 \in 1..n /\ pos[x] = (pos[x] - 1) + 1
       /\ ~(pos[x] <= pos[x] - 1)
  BY <1>1, <1>2, <1>5, <1>7, <1>10
<1>12. PICK y \in P : pos[y] = pos[x] - 1
  BY <1>4, <1>11
<1>13. y \notin S
  <2> SUFFICES ASSUME y \in S PROVE FALSE
    OBVIOUS
  <2>1. y # e
    OBVIOUS
  <2>2. pos[y] # pos[e]
    BY <1>2, <1>3, <1>12, <2>1
  <2>3. pos[e] < pos[y]
    BY <1>1, <1>5, <1>10, <1>11, <1>12, <2>2
  <2>4. pos[y] \in Behind
    BY <2>3
  <2>5. QED
    BY <1>9, <1>10, <1>11, <1>12, <2>4
<1>14. Beats(t, y, x)
  BY <1>2, <1>7, <1>10, <1>11, <1>12
<1>15. Better(t, x, y)
  BY <1>10, <1>12, <1>13 DEF P
<1>16. QED
  BY <1>7, <1>10, <1>12, <1>14, <1>15, BetterIsNotBeaten DEF P

\* NewestWins, for a table.
BestWin(t) ==
    \A S \in SUBSET Present(t) :
        /\ \E d \in S : ~t[d].invalid
        /\ \A d \in S, e \in Present(t) \ S : Better(t, d, e)
        => \E g \in S : t[g].global /\ ~t[g].invalid

\* What recalcGlobalForFile leaves behind.
LEMMA RecalcBest ==
    ASSUME content \in Contents, NEW t \in Tables, NEW t2, Recalc(t, t2)
    PROVE  BestWin(t2)
<1>1. CASE Present(t) = {} /\ t2 = t
  BY <1>1 DEF BestWin
<1>2. CASE \E pos \in Orders(t) : \E g \in DOMAIN pos :
              IsGlobal(t, pos, g) /\ t2 = Flagged(t, pos, g)
  <2>1. PICK pos \in Orders(t) : \E g \in DOMAIN pos :
              IsGlobal(t, pos, g) /\ t2 = Flagged(t, pos, g)
    BY <1>2
  <2>2. PICK g \in DOMAIN pos : IsGlobal(t, pos, g) /\ t2 = Flagged(t, pos, g)
    BY <2>1
  <2>3. /\ DOMAIN pos = Present(t) /\ Present(t2) = Present(t)
        /\ \A d \in Present(t) :
              /\ t2[d].version = t[d].version /\ t2[d].invalid = t[d].invalid
              /\ t2[d].global = (d = g)
    BY <2>2, FlaggedTable
  <2>4. SUFFICES ASSUME NEW S \in SUBSET Present(t2), NEW v \in S, ~t2[v].invalid,
                        \A d \in S, e \in Present(t2) \ S : Better(t2, d, e)
                 PROVE  g \in S /\ ~t2[g].invalid
    BY <2>3 DEF BestWin
  <2>5. S \subseteq Present(t) /\ v \in Present(t) /\ g \in Present(t) /\ ~t[v].invalid
    BY <2>3, <2>4
  <2>6. \A d \in S, e \in Present(t) \ S : Better(t, d, e)
    BY <2>3, <2>4, <2>5 DEF Better, Modified
  <2>7. ~t[g].invalid
    BY <2>2, <2>3, <2>5 DEF IsGlobal
  <2>8. ~(pos[v] < pos[g])
    BY <2>2, <2>3, <2>5 DEF IsGlobal
  <2>9. g \in S
    BY <2>4, <2>5, <2>6, <2>8, BestComeFirst
  <2>10. QED
    BY <2>3, <2>5, <2>7, <2>9
<1>3. QED
  BY <1>1, <1>2 DEF Recalc

NewestInv == whole => BestWin(rows)

LEMMA NewestStep == FolderInv /\ NewestInv /\ [DBNext]_dbVars => NewestInv'
<1> SUFFICES ASSUME FolderInv, NewestInv, [DBNext]_dbVars, whole' PROVE NewestInv'
  BY DEF NewestInv
<1>0. content' = content
  BY DEF DBNext, Update, DropAllFiles, DropFilesNamed, Drop, GCStart, Forget, dbVars
<1> SUFFICES BestWin(rows')
  BY <1>0 DEF NewestInv, BestWin, Better, Modified, Present
<1>1. content \in Contents /\ rows \in Tables
  BY InvByTable
<1>2. ASSUME NEW d \in Devices, NEW v \in Versions, NEW inv \in BOOLEAN, Update(d, v, inv)
      PROVE  BestWin(rows')
  <2> DEFINE row == [version |-> v, invalid |-> inv, global |-> FALSE, need |-> FALSE]
             t == [rows EXCEPT ![d] = row]
  <2>1. Recalc(t, rows')
    BY <1>2 DEF Update
  <2>2. row \in Rows
    BY DEF Rows
  <2> HIDE DEF row
  <2>3. t \in Tables
    BY <1>1, <2>2 DEF Tables
  <2> HIDE DEF t
  <2>4. QED
    BY <1>1, <2>1, <2>3, RecalcBest
<1>3. ASSUME NEW d \in Devices, Recalc(Without(d), rows') PROVE BestWin(rows')
  <2>1. Without(d) \in Tables
    BY <1>1, WithoutRow DEF Without
  <2>2. QED
    BY <1>1, <1>3, <2>1, RecalcBest
<1>4. ASSUME NEW d \in Remotes, DropAllFiles(d) PROVE BestWin(rows')
  <2>1. d \in Devices
    BY DEF Devices
  <2>2. CASE HasGlobal(Without(d))
    <3>1. rows' = Without(d) /\ whole /\ d \notin Present(rows)
      BY <1>4, <2>2 DEF DropAllFiles, RecalcForFolder
    <3>2. rows' = rows
      BY <1>1, <2>1, <3>1 DEF Without, Present, Tables
    <3>3. QED
      BY <3>1, <3>2 DEF NewestInv
  <2>3. CASE ~HasGlobal(Without(d))
    <3>1. Recalc(Without(d), rows')
      BY <1>4, <2>3 DEF DropAllFiles, RecalcForFolder
    <3>2. QED
      BY <1>3, <2>1, <3>1
  <2>4. QED
    BY <2>2, <2>3
<1>5. CASE DropFilesNamed
  <2>1. Local \in Devices /\ Recalc(Without(Local), rows')
    BY <1>5 DEF DropFilesNamed, Devices
  <2>2. QED
    BY <1>3, <2>1
<1>6. CASE GCStart \/ UNCHANGED dbVars
  <2>1. rows' = rows /\ whole' = whole
    BY <1>6 DEF GCStart, dbVars
  <2>2. QED
    BY <2>1 DEF NewestInv
<1>7. ASSUME NEW m \in Cutoffs, Forget(m) PROVE BestWin(rows')
  <2>1. whole /\ rows' = [d \in Devices |-> rows[d]]
    BY <1>7 DEF Forget
  <2>2. rows' = rows
    BY <1>1, <2>1 DEF Tables
  <2>3. QED
    BY <2>1, <2>2 DEF NewestInv
<1>8. QED
  BY <1>2, <1>4, <1>5, <1>6, <1>7 DEF DBNext

\* For any devices, versions, modification times and invalid rows: as of the
\* last recalculation, of rows that outdo all the others one is global, and a
\* valid one if there is one, in whatever order slices.SortFunc leaves the rows
\* (fileRow.Compare, recalcGlobalForFile).
THEOREM NewestRowWins == DBSpec => []NewestWins
<1>1. DBInit => NewestInv
  BY DEF DBInit, NewestInv, BestWin, Present
<1>2. NewestInv => NewestWins
  BY DEF NewestInv, NewestWins, BestWin, Better, Outdoes
<1>3. QED
  BY <1>1, <1>2, InitInv, NextInv, NewestStep, PTL DEF DBSpec

=============================================================================
