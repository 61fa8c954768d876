----------------------------- MODULE FolderKinds -----------------------------
(***************************************************************************)
(* One item of a folder that is send-receive, send-only, receive-only or   *)
(* receive-encrypted, and may change from one to the other: what scans     *)
(* make of changes on disk and of ignore patterns, what pulls, Revert and  *)
(* Override make of what the other devices announce, and what the other    *)
(* devices are told.  The others are a single peer, whose folder is        *)
(* send-receive, and which takes what beats its own.                       *)
(*                                                                         *)
(* The contents of the item are numbers that stand for its modification    *)
(* time as well, which is all that scans compare.                          *)
(***************************************************************************)
EXTENDS Vectors

CONSTANTS
    FolderTypes,    \* the types the folder may be given
    Contents,       \* contents of the item
    MaxUser,        \* bound on changes on disk, of patterns, of types, overrides
    MaxPeer         \* bound on the peer's changes

Us == 1
Peer == 2

ASSUME KindsAssumption ==
    /\ {Us, Peer} \subseteq Counters
    /\ FolderTypes \subseteq {"sendreceive", "sendonly", "receiveonly", "receiveencrypted"}
    /\ Contents \subseteq Nat \ {0} /\ MaxUser \in Nat /\ MaxPeer \in Nat

VARIABLES
    ftype,      \* the type of the folder
    ignoring,   \* the patterns match the item
    onDisk,     \* what is on disk; Nothing if there is no such file
    ours,       \* our row, with its local flags
    theirs,     \* the peer's row, as announced
    scanning,   \* between the two halves of a scan
    user,       \* number of changes by the user so far, and the clock
    everSent    \* history: the folder has been of a type that sends changes

kindVars == <<ftype, ignoring, onDisk, ours, theirs, scanning, user, everSent>>

Nothing == 0

\* The time in seconds: what users do takes at least one each.
Now == user + 1

NoItem == [none |-> TRUE]
Receiving == {"receiveonly", "receiveencrypted"}

\* localFlags: what scans set on what they find changed.
FlagReceiveOnly == ftype \in Receiving

Row(data, mod, del, ver, ro) ==
    [data |-> data, mod |-> mod, del |-> del, ver |-> ver, ro |-> ro, ign |-> FALSE]

\* IsInvalid, and ShouldConflict, which is the same for these flags.
IsInvalid(row) == row.ro \/ row.ign

\* SetDeleted.
SetDeleted(row, mod) ==
    [row EXCEPT !.data = Nothing, !.mod = mod, !.del = TRUE,
                !.ver = VectorUpdate(@, Us, Now)]

\* SetIgnored, which replaces the other local flags.
SetIgnored(row) == [row EXCEPT !.data = Nothing, !.ro = FALSE, !.ign = TRUE]

\* isEquivalent, with the receive-only flag ignored if ignoreRO.
IsEquivalentOptional(a, b, ignoreRO) ==
    /\ a.del = b.del /\ a.data = b.data /\ a.mod = b.mod
    /\ (a.ign \/ (a.ro /\ ~ignoreRO)) = (b.ign \/ (b.ro /\ ~ignoreRO))

-----------------------------------------------------------------------------
(* The database.                                                           *)

\* fileRow.Compare puts a before b, which is another device's.
RowBeats(a, b) ==
    LET vc == Compare(a.ver, b.ver)
    IN  \/ vc = "greater"
        \/ /\ vc \in {"concurrentGreater", "concurrentLesser"}
           /\ IF IsInvalid(a) # IsInvalid(b) THEN IsInvalid(b)
              ELSE a.mod > b.mod \/ (a.mod = b.mod /\ vc = "concurrentGreater")

\* GetGlobalFile: the first valid row; ours if versions are equal.
GlobalFile ==
    IF theirs = NoItem THEN ours
    ELSE IF ours = NoItem \/ IsInvalid(ours) \/ RowBeats(theirs, ours) THEN theirs
    ELSE ours

\* AllNeededGlobalFiles has the item: it is theirs, and we neither have that
\* version nor a row that comes before it.
NeedsIt(mine, other) ==
    /\ other # NoItem /\ ~IsInvalid(other)
    /\ IF mine = NoItem THEN ~other.del ELSE RowBeats(other, mine)

ItemNeeded == NeedsIt(ours, theirs)

\* prepareFileInfoForIndex: what the peer is told of our row.
Announced(row) ==
    IF row = NoItem THEN NoItem
    ELSE IF row.ro THEN [row EXCEPT !.ver = EmptyVector] ELSE row

\* Rows that other devices take, with what they stand for.
Means(row) ==
    IF row = NoItem \/ IsInvalid(row) \/ row.ver = EmptyVector THEN {}
    ELSE {<<row.ver, row.data, row.del>>}

-----------------------------------------------------------------------------
(* Scanning.                                                               *)

\* scanBatch.Update: what becomes of our row when the scan reports fi.
BatchUpdate(fi) ==
    LET gf == GlobalFile IN
    CASE gf = NoItem -> fi
      [] gf # NoItem /\ gf.ro -> IF fi.del THEN NoItem ELSE fi
      [] gf # NoItem /\ ~gf.ro ->
           IF ftype \in Receiving /\ IsEquivalentOptional(gf, fi, TRUE) THEN gf ELSE fi

\* walkRegular: the item on disk as the walker sees it.
Walked ==
    LET was == IF ours = NoItem THEN EmptyVector ELSE ours.ver
        ver == VectorUpdate(was, Us, Now)
        drop == ours # NoItem /\ IsInvalid(ours) /\ ~FlagReceiveOnly
    IN  Row(onDisk, onDisk, FALSE, IF drop THEN DropOthers(ver, Us) ELSE ver, FlagReceiveOnly)

Unchanged == ours # NoItem /\ IsEquivalentOptional(ours, Walked, FlagReceiveOnly)

\* scanSubdirsChangedAndNew.
ScanChangedAndNew ==
    /\ ~scanning /\ scanning' = TRUE
    /\ IF onDisk = Nothing \/ ignoring \/ Unchanged
         THEN UNCHANGED ours
         ELSE ours' = BatchUpdate(Walked)
    /\ UNCHANGED <<ftype, ignoring, onDisk, theirs, user, everSent>>

\* Our row is of a file that is no longer there.
NoLongerThere(mod) ==
    LET nf == [SetDeleted(ours, mod) EXCEPT !.ro = FlagReceiveOnly, !.ign = FALSE]
    IN  IF IsInvalid(ours) THEN [nf EXCEPT !.ver = EmptyVector] ELSE nf

\* A deletion that was not to be sent is still a deletion.
StillDeleted ==
    LET gf == GlobalFile
        plain == [ours EXCEPT !.ro = FALSE]
    IN  IF ftype \notin Receiving THEN BatchUpdate(plain)
        ELSE IF gf.ro THEN NoItem
        ELSE IF gf.del THEN BatchUpdate(plain)
        ELSE ours

\* scanSubdirsDeletedAndIgnored.
ScanDeletedAndIgnored ==
    /\ scanning /\ scanning' = FALSE
    /\ \/ /\ ours # NoItem /\ ignoring /\ ~ours.ign
          /\ ours' = BatchUpdate(SetIgnored(ours))
       \/ /\ ours # NoItem /\ ~ignoring /\ (ours.ign \/ ~ours.del)
          /\ onDisk = Nothing
          /\ \E mod \in Contents : ours' = BatchUpdate(NoLongerThere(mod))
       \/ /\ ours # NoItem /\ ~ignoring /\ ~ours.ign /\ ours.del /\ ours.ro
          /\ ours' = StillDeleted
       \/ /\ \/ ours = NoItem
             \/ /\ ours # NoItem
                /\ IF ours.ign THEN ignoring \/ onDisk # Nothing
                   ELSE ~ignoring /\ IF ours.del THEN ~ours.ro ELSE onDisk # Nothing
          /\ UNCHANGED ours
    /\ UNCHANGED <<ftype, ignoring, onDisk, theirs, user, everSent>>

-----------------------------------------------------------------------------
(* Pulling.                                                                *)

\* scanIfItemChanged and checkToBeDeleted: what is on disk is what our row says.
AsExpected == onDisk = Nothing \/ (ours # NoItem /\ ~ours.del /\ ours.data = onDisk)

\* shortcutFile: a file whose content our row has already is taken without a
\* look at what is on disk.
Shortcut == ours # NoItem /\ ~ours.del /\ ~theirs.del /\ ours.data = theirs.data

\* sendReceiveFolder.pull, which the receiving types share.
PullReceive ==
    /\ ftype # "sendonly" /\ ~scanning /\ ItemNeeded
    /\ \/ ignoring /\ ours' = SetIgnored(theirs) /\ UNCHANGED onDisk
       \/ ~ignoring /\ Shortcut /\ ours' = theirs /\ UNCHANGED onDisk
       \/ ~ignoring /\ AsExpected /\ ours' = theirs /\ onDisk' = theirs.data
    /\ UNCHANGED <<ftype, ignoring, theirs, scanning, user, everSent>>

\* sendOnlyFolder.pull: versions of what is the same anyway are taken.
PullSendOnly ==
    /\ ftype = "sendonly" /\ ~scanning /\ ItemNeeded
    /\ \/ ignoring /\ ours' = SetIgnored(theirs)
       \/ /\ ~ignoring /\ ours # NoItem /\ IsEquivalentOptional(theirs, ours, FALSE)
          /\ ours' = theirs
    /\ UNCHANGED <<ftype, ignoring, onDisk, theirs, scanning, user, everSent>>

\* Mutant: the version is merged and not counted up.
OverrideMerging ==
    /\ ftype = "sendonly" /\ ~scanning /\ ItemNeeded /\ user < MaxUser
    /\ \/ /\ ours = NoItem
          /\ \E mod \in Contents : ours' = SetDeleted(theirs, mod)
       \/ /\ ours # NoItem /\ ~IsInvalid(ours)
          /\ ours' = [ours EXCEPT !.ver = VectorMerge(@, theirs.ver)]
    /\ user' = user + 1
    /\ UNCHANGED <<ftype, ignoring, onDisk, theirs, scanning, everSent>>

\* sendOnlyFolder.override: what we have, or that we do not have it, becomes
\* the newest version.
Override ==
    /\ ftype = "sendonly" /\ ~scanning /\ ItemNeeded /\ user < MaxUser
    /\ \/ /\ ours = NoItem
          /\ \E mod \in Contents : ours' = SetDeleted(theirs, mod)
       \/ /\ ours # NoItem /\ ~IsInvalid(ours)
          /\ ours' = [ours EXCEPT !.ver = VectorUpdate(VectorMerge(@, theirs.ver), Us, Now)]
    /\ user' = user + 1
    /\ UNCHANGED <<ftype, ignoring, onDisk, theirs, scanning, everSent>>

\* Mutant: a changed file is reverted by clearing its flag.
RevertUnflagging ==
    /\ ftype = "receiveonly" /\ ~scanning /\ ours # NoItem /\ ours.ro
    /\ ours' = [ours EXCEPT !.ro = FALSE]
    /\ UNCHANGED <<ftype, ignoring, onDisk, theirs, scanning, user, everSent>>

\* receiveOnlyFolder.revert. A file that only we have is deleted, unless it is
\* ignored (or cannot be deleted); anything else is made older than all other
\* versions, so that the next pull replaces it.
RevertReceiveOnly ==
    LET gf == GlobalFile
        plain == [ours EXCEPT !.ro = FALSE]
    IN  /\ ftype = "receiveonly" /\ ~scanning /\ ours # NoItem /\ ours.ro
        /\ \/ /\ gf.ro /\ ours.del
              /\ ours' = [plain EXCEPT !.ver = EmptyVector] /\ UNCHANGED onDisk
           \/ /\ gf.ro /\ ~ours.del /\ ~ignoring
              /\ onDisk' = Nothing
              /\ \E mod \in Contents :
                    ours' = [SetDeleted(plain, mod) EXCEPT !.ver = EmptyVector]
           \/ /\ ~gf.ro
              /\ ours' = IF IsEquivalentOptional(gf, plain, TRUE) THEN gf
                       ELSE [plain EXCEPT !.ver = EmptyVector]
              /\ UNCHANGED onDisk
        /\ UNCHANGED <<ftype, ignoring, theirs, scanning, user, everSent>>

\* receiveEncryptedFolder.revert: removed without looking, marked as deleted
\* even if that failed, and not announced.
RevertReceiveEncrypted ==
    /\ ftype = "receiveencrypted" /\ ~scanning
    /\ ours # NoItem /\ ours.ro /\ ~ours.del
    /\ \E mod \in Contents : ours' = [SetDeleted(ours, mod) EXCEPT !.ver = EmptyVector]
    /\ onDisk' \in {Nothing, onDisk}
    /\ UNCHANGED <<ftype, ignoring, theirs, scanning, user, everSent>>

-----------------------------------------------------------------------------
(* The surroundings.                                                       *)

KindsInit ==
    /\ ftype \in FolderTypes /\ everSent = (ftype \notin Receiving)
    /\ ignoring = FALSE /\ onDisk = Nothing /\ ours = NoItem /\ theirs = NoItem
    /\ scanning = FALSE /\ user = 0

\* The user writes or removes the file.
UserChange ==
    /\ user < MaxUser /\ user' = user + 1
    /\ \E c \in (Contents \union {Nothing}) \ {onDisk} : onDisk' = c
    /\ UNCHANGED <<ftype, ignoring, ours, theirs, scanning, everSent>>

\* SetIgnores.
UserIgnores ==
    /\ user < MaxUser /\ user' = user + 1
    /\ ~scanning /\ ignoring' = ~ignoring
    /\ UNCHANGED <<ftype, onDisk, ours, theirs, scanning, everSent>>

\* The folder is restarted with another type.
UserRetypes ==
    /\ user < MaxUser /\ user' = user + 1
    /\ ~scanning
    /\ \E t \in FolderTypes \ {ftype} :
          ftype' = t /\ everSent' = (everSent \/ t \notin Receiving)
    /\ UNCHANGED <<ignoring, onDisk, ours, theirs, scanning>>

\* The peer changes or deletes the item and announces that.
PeerChanges ==
    LET was == IF theirs = NoItem THEN EmptyVector ELSE theirs.ver
    IN  /\ was[Peer] < MaxPeer
        /\ \E c \in Contents :
              \/ theirs' = Row(c, c, FALSE, VectorUpdate(was, Peer, 0), FALSE)
              \/ /\ theirs # NoItem /\ ~theirs.del
                 /\ theirs' = Row(Nothing, c, TRUE, VectorUpdate(was, Peer, 0), FALSE)
        /\ UNCHANGED <<ftype, ignoring, onDisk, ours, scanning, user, everSent>>

\* The peer pulls what we announce.
PeerPulls ==
    /\ NeedsIt(theirs, Announced(ours))
    /\ theirs' = Announced(ours)
    /\ UNCHANGED <<ftype, ignoring, onDisk, ours, scanning, user, everSent>>

KindsNext ==
    \/ ScanChangedAndNew \/ ScanDeletedAndIgnored
    \/ PullReceive \/ PullSendOnly \/ Override
    \/ RevertReceiveOnly \/ RevertReceiveEncrypted
    \/ UserChange \/ UserIgnores \/ UserRetypes
    \/ PeerChanges \/ PeerPulls

KindsSpec == KindsInit /\ [][KindsNext]_kindVars

-----------------------------------------------------------------------------

\* A version stands for one state of the item: if our row and the peer's have
\* the same version they describe the same file, although scans, Override and
\* un-ignoring make versions from the clock, and rows are dropped, begun anew
\* and reset to versions older than any other.
VersionMeansContent ==
    \A m \in Means(ours), n \in Means(theirs) : m[1] = n[1] => m = n

\* While the folder only receives, nothing comes to be announced that the peer
\* has not announced, whatever scans, pulls, Revert and ignore patterns do to
\* the flags and versions of our row. Deletions of what is deleted are excepted.
ReceiveOnlySilent ==
    [][(ftype \in Receiving) /\ ftype' = ftype /\ ours' # ours =>
         \/ Means(ours') \subseteq Means(ours) \union Means(theirs)
         \/ ours'.del /\ theirs.del]_kindVars

\* docs/users/foldertypes.rst: "Local changes are however not distributed to
\* other devices." What the peer has on disk does not change because of a folder
\* that has always been receive-only.
LocalChangesStay ==
    [][PeerPulls => everSent \/ theirs.data = theirs'.data]_kindVars
=============================================================================
