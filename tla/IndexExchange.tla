--------------------------- MODULE IndexExchange ---------------------------
(***************************************************************************)
(* The delta index exchange of one folder from a device S, whose local     *)
(* index changes, to a device R that keeps a copy of it: the local index   *)
(* and the indexids rows of internal/db/sqlite, the cluster configs of     *)
(* lib/model/model.go, the index handlers and their registry of            *)
(* lib/model/indexhandler.go on both ends, and the connection between      *)
(* them.  The opposite direction is the same code with the roles swapped   *)
(* and shares no state with this one.                                      *)
(*                                                                         *)
(* A file's row is represented by its sequence number, which identifies    *)
(* the change (0: no row).  Everything R knows of S is what a delta index  *)
(* relies on: R announces <<rID, rSeq>> and S sends only what is newer.    *)
(***************************************************************************)
EXTENDS Integers, Sequences, FiniteSets

CONSTANTS Names,       \* file names
          Hidden,      \* receive-only changed items of a receive-encrypted
                       \* folder on S, which sendIndexTo skips
          MaxSeq,      \* bound: local changes on S
          MaxID,       \* bound: index IDs S generates
          BatchSize,   \* MaxBatchSizeFiles
          MaxQueue,    \* bound: messages in flight to R
          MaxChanges   \* bound: configuration changes during one connection

ASSUME HiddenAssumption == Hidden \subseteq Names
ASSUME BoundsAssumption ==
    {MaxSeq, MaxID, BatchSize, MaxQueue, MaxChanges} \subseteq Nat

VARIABLES
    sID, sSeq, sRow,   \* S: local index ID, indexids.sequence, local rows
    rID, rSeq, rRow,   \* R: indexids row and file rows for device S
    up,                \* the connection
    sCfg, rCfg,        \* the folder in either configuration
    sReg, rReg,        \* the registries: "noreg" before the first cluster
                       \* config, then whether folderStates has the folder
    sh, sPrev,         \* S's index handler and its localPrevSequence
    sOut,              \* the batch its flush function is about to send
    sInfo, rInfo,      \* startInfos: a cluster config waiting for the folder
    rh,                \* R's index handler
    mid,               \* R: the batch between DropAllFiles and Update
    toR, toS,          \* messages under way
    sCC,               \* S: cluster configs generated and not yet sent
    changes            \* configuration changes on this connection

dbVars == <<sID, sSeq, sRow, rID, rSeq, rRow>>
sVars == <<sReg, sh, sPrev, sOut, sInfo>>
rVars == <<rReg, rh, rInfo, mid>>
netVars == <<up, toR, toS, sCC, changes>>
vars == <<dbVars, sCfg, rCfg, sVars, rVars, netVars>>

None == [t |-> "none"]
NoRows == [n \in Names |-> 0]
Handlers == {"none", "running", "paused"}

\* The rows of S that are newer than a sequence number, and what may be sent.
Newer(s) == {n \in Names : sRow[n] > s}
Unsent(s) == Newer(s) \ Hidden

\* Cluster configs, as generateClusterConfigRLocked fills them in.
CCFromS(cfg) == [t |-> "cc", run |-> cfg, id |-> sID, no |-> changes]
CCFromR(cfg, no) == [run |-> cfg, id |-> rID, max |-> rSeq, no |-> no]

-----------------------------------------------------------------------------
(* The two ends of the connection.                                         *)

\* Closed on both ends: the registries and their handlers are gone. R's
\* dispatcher has finished the message it was handling, unless R crashed.
Hangup ==
    /\ up' = FALSE
    /\ toR' = <<>>
    /\ toS' = {}
    /\ sCC' = {}
    /\ changes' = 0
    /\ sReg' = "noreg" /\ sh' = "none" /\ sPrev' = 0 /\ sOut' = None
    /\ sInfo' = None
    /\ rReg' = "noreg" /\ rh' = "none" /\ rInfo' = None
    /\ mid' = None

\* AddConnection and the first cluster config of either side.
Connect ==
    /\ ~up
    /\ up' = TRUE
    /\ toR' = <<CCFromS(sCfg)>>
    /\ toS' = {CCFromR(rCfg, 0)}
    /\ UNCHANGED <<dbVars, sCfg, rCfg, sVars, rVars, sCC, changes>>

\* The connection is lost for any reason.
Disconnect ==
    /\ up
    /\ mid = None
    /\ Hangup
    /\ UNCHANGED <<dbVars, sCfg, rCfg>>

\* R crashes, or its database fails, in the middle of receive: what was
\* committed so far stays.
RAbort ==
    /\ mid # None
    /\ Hangup
    /\ UNCHANGED <<dbVars, sCfg, rCfg>>

-----------------------------------------------------------------------------
(* S: the local index.                                                     *)

\* Mutant: the next local sequence number is the last one again.
LocalUpdateReuse(n, s) ==
    /\ s >= sSeq
    /\ sRow' = [sRow EXCEPT ![n] = s]
    /\ sSeq' = s
    /\ UNCHANGED <<sID, rID, rSeq, rRow, sCfg, rCfg, sVars, rVars, netVars>>

\* folderDB.Update for the local device. The sequence is shared with the rows
\* of other devices, so the local numbers may have holes.
LocalUpdate(n, s) ==
    /\ s > sSeq
    /\ sRow' = [sRow EXCEPT ![n] = s]
    /\ sSeq' = s
    /\ UNCHANGED <<sID, rID, rSeq, rRow, sCfg, rCfg, sVars, rVars, netVars>>

\* DropFilesNamed for the local device: a row goes away without a trace.
DropFilesNamed(n) ==
    /\ sRow[n] # 0
    /\ sRow' = [sRow EXCEPT ![n] = 0]
    /\ UNCHANGED <<sID, sSeq, rID, rSeq, rRow, sCfg, rCfg, sVars, rVars,
                   netVars>>

\* DropAllIndexIDs at startup; GetIndexID makes a new one when it is needed.
SDropAllIndexIDs ==
    /\ ~up /\ sID < MaxID
    /\ sID' = sID + 1
    /\ sSeq' \in {sRow[n] : n \in Names} \union {0}
    /\ \A n \in Names : sRow[n] <= sSeq'
    /\ UNCHANGED <<sRow, rID, rSeq, rRow, sCfg, rCfg, sVars, rVars, netVars>>

\* removeFolder: the folder database is gone, the folder is added again later.
SDropFolder ==
    /\ ~up /\ sID < MaxID
    /\ sID' = sID + 1
    /\ sSeq' = 0
    /\ sRow' = NoRows
    /\ UNCHANGED <<rID, rSeq, rRow, sCfg, rCfg, sVars, rVars, netVars>>

\* The same two on R's side.
RDropAllIndexIDs ==
    /\ ~up /\ rID # 0
    /\ rID' = 0
    /\ rSeq' = 0
    /\ UNCHANGED <<sID, sSeq, sRow, rRow, sCfg, rCfg, sVars, rVars, netVars>>

RDropFolder ==
    /\ ~up /\ rID # 0
    /\ rID' = 0
    /\ rSeq' = 0
    /\ rRow' = NoRows
    /\ UNCHANGED <<sID, sSeq, sRow, sCfg, rCfg, sVars, rVars, netVars>>

-----------------------------------------------------------------------------
(* S: registry and index handler.                                          *)

\* Mutant: the announced index ID is not compared.
StartSequenceAnyID(cc) == IF cc.max <= sSeq THEN cc.max ELSE 0

\* newIndexHandler's choice of where to start, from what R says it knows of S.
StartSequence(cc) ==
    IF cc.id = sID /\ cc.max <= sSeq THEN cc.max ELSE 0

\* startLocked. A running handler is stopped first; a batch it has not yet
\* handed over is dropped with it.
SStart(cc) ==
    /\ sh' = "running"
    /\ sPrev' = StartSequence(cc)
    /\ sOut' = None
    /\ sInfo' = None

\* Remove and RemoveAllExcept.
SRemove ==
    /\ sh' = "none" /\ sPrev' = 0 /\ sOut' = None /\ sInfo' = None

\* What ensureIndexHandler's new registry knows of the folder.
Registered(reg, cfg) ==
    IF reg # "noreg" THEN reg
    ELSE IF cfg = "running" THEN "known" ELSE "unknown"

\* ClusterConfig on S. R's cluster configs are sent by goroutines of their
\* own (sendClusterConfig), so they may arrive in any order.
SHandleCC(cc) ==
    /\ cc \in toS
    /\ toS' = toS \ {cc}
    /\ sReg' = Registered(sReg, sCfg)
    /\ \/ cc.run # "running" /\ SRemove
       \/ /\ cc.run = "running"
          /\ \/ sReg' = "known" /\ SStart(cc)
             \/ /\ sReg' # "known"
                /\ sh' = "none" /\ sPrev' = 0 /\ sOut' = None
                /\ sInfo' = cc
    /\ UNCHANGED <<dbVars, sCfg, rCfg, rVars, up, toR, sCC, changes>>

\* Mutant: every first batch of a run of sendIndexTo is a full index.
ReadBatchFull(cut) ==
    LET P == {n \in Newer(sPrev) : sRow[n] <= cut} IN
    /\ sh = "running" /\ sOut = None
    /\ \E n \in P : sRow[n] = cut
    /\ Cardinality(P) <= BatchSize + 1
    /\ sPrev' = cut
    /\ \/ P \subseteq Hidden /\ sOut' = None
       \/ \E l \in P \ Hidden :
             /\ \A n \in P \ Hidden : sRow[n] <= sRow[l]
             /\ sOut' = [t |-> "index",
                         files |-> [n \in Names |-> IF n \in P \ Hidden
                                                    THEN sRow[n] ELSE 0],
                         last |-> sRow[l]]
    /\ UNCHANGED <<dbVars, sCfg, rCfg, sReg, sh, sInfo, rVars, netVars>>

\* sendIndexTo up to the flush: the rows in order of their sequence numbers,
\* up to the row where the batch is full (by size, by count, or one further by
\* the rename rule). Hidden rows count as seen and are not sent. What the
\* message says of its first and last sequence is not looked at by R
\* (handleIndex passes zeros), so only the rows are kept.
ReadBatch(cut) ==
    LET P == {n \in Newer(sPrev) : sRow[n] <= cut} IN
    /\ sh = "running" /\ sOut = None
    /\ \E n \in P : sRow[n] = cut
    /\ Cardinality(P) <= BatchSize + 1
    /\ sPrev' = cut
    /\ \/ P \subseteq Hidden /\ sOut' = None
       \/ \E l \in P \ Hidden :
             /\ \A n \in P \ Hidden : sRow[n] <= sRow[l]
             /\ sOut' = [t |-> IF sPrev = 0 THEN "index" ELSE "update",
                         files |-> [n \in Names |-> IF n \in P \ Hidden
                                                    THEN sRow[n] ELSE 0],
                         last |-> sRow[l]]
    /\ UNCHANGED <<dbVars, sCfg, rCfg, sReg, sh, sInfo, rVars, netVars>>

\* Mutant: every batch is sent by a goroutine of its own.
FlushUnordered ==
    /\ sOut # None
    /\ Len(toR) < MaxQueue
    /\ toR' \in {Append(toR, sOut), <<sOut>> \o toR}
    /\ sOut' = None
    /\ UNCHANGED <<dbVars, sCfg, rCfg, sReg, sh, sPrev, sInfo, rVars,
                   up, toS, sCC, changes>>

\* The flush function: conn.Index or conn.IndexUpdate. A folder that is
\* paused meanwhile does not stop it.
Flush ==
    /\ sOut # None
    /\ Len(toR) < MaxQueue
    /\ toR' = Append(toR, sOut)
    /\ sOut' = None
    /\ UNCHANGED <<dbVars, sCfg, rCfg, sReg, sh, sPrev, sInfo, rVars,
                   up, toS, sCC, changes>>

\* The goroutine of sendClusterConfig gets its message out.
SSendCC(cc) ==
    /\ cc \in sCC
    /\ Len(toR) < MaxQueue
    /\ toR' = Append(toR, cc)
    /\ sCC' = sCC \ {cc}
    /\ UNCHANGED <<dbVars, sCfg, rCfg, sVars, rVars, up, toS, changes>>

\* A configuration change that makes S send a new cluster config.
SAnnounce(cfg) ==
    \/ up /\ changes < MaxChanges /\ changes' = changes + 1
       /\ sCC' = sCC \union {CCFromS(cfg)}
    \/ ~up /\ UNCHANGED <<changes, sCC>>

\* restartFolder with the folder paused: RegisterFolderState pauses the handler.
SPause ==
    /\ sCfg = "running"
    /\ sCfg' = "paused"
    /\ sReg' = IF sReg = "noreg" THEN sReg ELSE "unknown"
    /\ sh' = IF sh = "running" THEN "paused" ELSE sh
    /\ SAnnounce("paused")
    /\ UNCHANGED <<dbVars, rCfg, sPrev, sOut, sInfo, rVars, up, toR, toS>>

\* Mutant: a start info that waits for the folder is not looked at.
SResumeForgetsInfo ==
    /\ sCfg = "paused"
    /\ sCfg' = "running"
    /\ sReg' = IF sReg = "noreg" THEN sReg ELSE "known"
    /\ sh' = IF sh = "paused" THEN "running" ELSE sh
    /\ SAnnounce("running")
    /\ UNCHANGED <<dbVars, rCfg, sPrev, sOut, sInfo, rVars, up, toR, toS>>

\* restartFolder with the folder unpaused: a pending start info starts a
\* handler, else a paused handler is resumed where it was.
SResume ==
    /\ sCfg = "paused"
    /\ sCfg' = "running"
    /\ sReg' = IF sReg = "noreg" THEN sReg ELSE "known"
    /\ \/ sInfo # None /\ SStart(sInfo)
       \/ /\ sInfo = None
          /\ sh' = IF sh = "paused" THEN "running" ELSE sh
          /\ UNCHANGED <<sPrev, sOut, sInfo>>
    /\ SAnnounce("running")
    /\ UNCHANGED <<dbVars, rCfg, rVars, up, toR, toS>>

\* Any other change of S's configuration that concerns R.
SResendCC ==
    /\ up
    /\ SAnnounce(sCfg)
    /\ UNCHANGED <<dbVars, sCfg, rCfg, sVars, rVars, up, toR, toS>>

-----------------------------------------------------------------------------
(* R: registry, index handler and database.                                *)

\* Mutant: a new index ID is filed with the old sequence number.
RStartKeepSeq(id) ==
    /\ rh' = "running"
    /\ rInfo' = None
    /\ rID' = id
    /\ rSeq' = rSeq
    /\ rRow' = IF id = rID THEN rRow ELSE NoRows

\* newIndexHandler on R: an index ID other than the one on file means that
\* everything known of S is dropped.
RStart(id) ==
    /\ rh' = "running"
    /\ rInfo' = None
    /\ rID' = id
    /\ rSeq' = IF id = rID THEN rSeq ELSE 0
    /\ rRow' = IF id = rID THEN rRow ELSE NoRows

\* ClusterConfig on R.
RHandleCC ==
    /\ toR # <<>> /\ Head(toR).t = "cc" /\ mid = None
    /\ toR' = Tail(toR)
    /\ rReg' = Registered(rReg, rCfg)
    /\ \/ /\ Head(toR).run # "running"
          /\ rh' = "none" /\ rInfo' = None
          /\ UNCHANGED <<rID, rSeq, rRow>>
       \/ /\ Head(toR).run = "running" /\ rReg' = "known"
          /\ RStart(Head(toR).id)
       \/ /\ Head(toR).run = "running" /\ rReg' # "known"
          /\ rh' = "none" /\ rInfo' = Head(toR)
          /\ UNCHANGED <<rID, rSeq, rRow>>
    /\ UNCHANGED <<sID, sSeq, sRow, sCfg, rCfg, sVars, mid, up, toS, sCC,
                   changes>>

\* R crashes in newIndexHandler between DropAllFiles and SetIndexID.
RAbortStart ==
    /\ toR # <<>> /\ Head(toR).t = "cc" /\ mid = None
    /\ Head(toR).run = "running" /\ Registered(rReg, rCfg) = "known"
    /\ Head(toR).id # rID
    /\ rRow' = NoRows
    /\ Hangup
    /\ UNCHANGED <<sID, sSeq, sRow, rID, rSeq, sCfg, rCfg>>

\* ReceiveIndex and the first half of receive: a full index drops the rows,
\* and only the rows.
RReceive ==
    /\ toR # <<>> /\ Head(toR).t # "cc" /\ mid = None
    /\ rh = "running"
    /\ mid' = Head(toR)
    /\ toR' = Tail(toR)
    /\ rRow' = IF Head(toR).t = "index" THEN NoRows ELSE rRow
    /\ UNCHANGED <<sID, sSeq, sRow, rID, rSeq, sCfg, rCfg, sVars, rReg, rh,
                   rInfo, up, toS, sCC, changes>>

\* The second half: Update, whose trigger files the sequence of the last row.
RUpdate ==
    /\ mid # None
    /\ rRow' = [n \in Names |-> IF mid.files[n] # 0 THEN mid.files[n]
                                ELSE rRow[n]]
    /\ rSeq' = mid.last
    /\ mid' = None
    /\ UNCHANGED <<sID, sSeq, sRow, rID, sCfg, rCfg, sVars, rReg, rh, rInfo,
                   netVars>>

\* An index for a folder without a running handler is an error that closes
\* the connection.
RReject ==
    /\ toR # <<>> /\ Head(toR).t # "cc" /\ mid = None
    /\ rh # "running"
    /\ Hangup
    /\ UNCHANGED <<dbVars, sCfg, rCfg>>

\* A configuration change that makes R send a new cluster config; it is
\* generated from the database as it is, in the middle of a receive too.
RAnnounce(cfg) ==
    \/ up /\ changes < MaxChanges /\ changes' = changes + 1
       /\ toS' = toS \union {CCFromR(cfg, changes + 1)}
    \/ ~up /\ UNCHANGED <<changes, toS>>

RPause ==
    /\ rCfg = "running" /\ mid = None
    /\ rCfg' = "paused"
    /\ rReg' = IF rReg = "noreg" THEN rReg ELSE "unknown"
    /\ rh' = IF rh = "running" THEN "paused" ELSE rh
    /\ RAnnounce("paused")
    /\ UNCHANGED <<dbVars, sCfg, sVars, rInfo, mid, up, toR, sCC>>

\* Unpaused, or shared again.
RResume ==
    /\ rCfg # "running" /\ mid = None
    /\ rCfg' = "running"
    /\ rReg' = IF rReg = "noreg" THEN rReg ELSE "known"
    /\ \/ rInfo # None /\ RStart(rInfo.id)
       \/ /\ rInfo = None
          /\ rh' = IF rh = "paused" THEN "running" ELSE rh
          /\ UNCHANGED <<rInfo, rID, rSeq, rRow>>
    /\ RAnnounce("running")
    /\ UNCHANGED <<sID, sSeq, sRow, sCfg, sVars, mid, up, toR, sCC>>

\* Any other change of R's configuration that concerns S.
RResendCC ==
    /\ up
    /\ RAnnounce(rCfg)
    /\ UNCHANGED <<dbVars, sCfg, rCfg, sVars, rVars, up, toR, sCC>>

\* The folder is no longer shared with S: addAndStartFolderLocked drops S's
\* rows (not the indexids row), RegisterFolderState removes the handler (not
\* the folder state), and the cluster config no longer mentions the folder.
RUnshare ==
    /\ rCfg = "running" /\ mid = None
    /\ rCfg' = "unshared"
    /\ rRow' = NoRows
    /\ rh' = "none" /\ rInfo' = None
    /\ RAnnounce("unshared")
    /\ UNCHANGED <<sID, sSeq, sRow, rID, rSeq, sCfg, sVars, rReg, mid, up, toR,
                   sCC>>

-----------------------------------------------------------------------------

Init ==
    /\ sID = 1 /\ sSeq = 0 /\ sRow = NoRows
    /\ rID = 0 /\ rSeq = 0 /\ rRow = NoRows
    /\ up = FALSE /\ toR = <<>> /\ toS = {} /\ sCC = {} /\ changes = 0
    /\ sCfg = "running" /\ rCfg = "running"
    /\ sReg = "noreg" /\ sh = "none" /\ sPrev = 0 /\ sOut = None
    /\ sInfo = None
    /\ rReg = "noreg" /\ rh = "none" /\ rInfo = None /\ mid = None

\* What S does.
SNext ==
    \/ \E n \in Names :
          \/ \E s \in 1..MaxSeq : LocalUpdate(n, s)
          \/ DropFilesNamed(n)
    \/ SDropAllIndexIDs \/ SDropFolder
    \/ \E cc \in toS : SHandleCC(cc)
    \/ \E cut \in 1..MaxSeq : ReadBatch(cut)
    \/ Flush
    \/ \E cc \in sCC : SSendCC(cc)
    \/ SPause \/ SResume \/ SResendCC

\* What R does with its database and with what S sends.
RNext ==
    \/ RDropAllIndexIDs \/ RDropFolder
    \/ RHandleCC \/ RReceive \/ RUpdate \/ RReject

\* R fails between two of its database transactions.
RFail == RAbort \/ RAbortStart

\* Changes of R's configuration, which make it announce <<rID, rSeq>> anew on
\* an existing connection.
RConfig == RPause \/ RResume \/ RResendCC

Normal == Connect \/ Disconnect \/ SNext \/ RNext

\* R's configuration stays as it is; R may fail.
StableNext == Normal \/ RFail

\* R's configuration changes, but S stays a device of the folder.
SharedNext == StableNext \/ RConfig

Next == SharedNext \/ RUnshare

StableSpec == Init /\ [][StableNext]_vars
Spec == Init /\ [][Next]_vars

\* R's configuration changes and R never fails.
NoFailSpec == Init /\ [][Normal \/ RConfig]_vars

(***************************************************************************)
(* Goroutines that can run do run and what is sent arrives while the       *)
(* connection is up; devices that are not connected connect.  No change of *)
(* the index or of a configuration, and no failure, has to happen.         *)
(***************************************************************************)
Fairness ==
    /\ WF_vars(Connect)
    /\ WF_vars(\E cc \in toS : SHandleCC(cc))
    /\ WF_vars(\E cut \in 1..MaxSeq : ReadBatch(cut))
    /\ WF_vars(Flush)
    /\ WF_vars(\E cc \in sCC : SSendCC(cc))
    /\ WF_vars(RHandleCC) /\ WF_vars(RReceive) /\ WF_vars(RUpdate)
    /\ WF_vars(RReject)

FairStableSpec == StableSpec /\ Fairness

-----------------------------------------------------------------------------

Batches == [t : {"index", "update"}, files : [Names -> Nat], last : Nat]
SCCs == [t : {"cc"}, run : {"running", "paused"}, id : Nat, no : Nat]
RCCs == [run : {"running", "paused", "unshared"}, id : Nat, max : Nat, no : Nat]

\* Rows, handlers and messages have their types, and a connection that is down
\* has left nothing behind on either side.
TypeOK ==
    /\ {sID, sSeq, rID, rSeq, sPrev, changes} \subseteq Nat
    /\ sRow \in [Names -> Nat] /\ rRow \in [Names -> Nat]
    /\ sCfg \in {"running", "paused"}
    /\ rCfg \in {"running", "paused", "unshared"}
    /\ {sReg, rReg} \subseteq {"noreg", "known", "unknown"}
    /\ {sh, rh} \subseteq Handlers
    /\ {sOut, mid} \subseteq Batches \union {None}
    /\ sInfo \in RCCs \union {None}
    /\ rInfo \in SCCs \union {None}
    /\ toR \in Seq(Batches \union SCCs)
    /\ toS \subseteq RCCs
    /\ sCC \subseteq SCCs
    /\ up \in BOOLEAN
    /\ ~up => /\ toR = <<>> /\ toS = {} /\ sCC = {} /\ changes = 0
              /\ sReg = "noreg" /\ sh = "none" /\ sPrev = 0 /\ sOut = None
              /\ sInfo = None
              /\ rReg = "noreg" /\ rh = "none" /\ rInfo = None /\ mid = None

\* What a delta index rests on: under S's index ID, R has every row of S up to
\* the sequence number R announces. newIndexHandler on S starts behind that
\* number, so a row that is missing below it is never sent again.
DeltaComplete ==
    rID = sID =>
        /\ rSeq <= sSeq
        /\ \A n \in Names \ Hidden :
              sRow[n] # 0 /\ sRow[n] <= rSeq => rRow[n] = sRow[n]

-----------------------------------------------------------------------------
(* Why DeltaComplete holds under StableSpec.                               *)

IsBatch(m) == m.t \in {"index", "update"}

\* The batches between sendIndexTo's reading of S's rows and R's Update.
InFlight ==
    {b \in {mid, sOut} \union {toR[i] : i \in DOMAIN toR} : IsBatch(b)}

\* Up to where R has S's index.
Known == IF rID = sID THEN rSeq ELSE 0

\* Batch b can only be applied after batch a.
Before(a, b) ==
    /\ b.t = "update" /\ a.last < b.last
    /\ \A n \in Names : b.files[n] # 0 => a.last < b.files[n]

\* What a batch in flight may contain.
BatchOK(b) ==
    /\ Known < b.last /\ b.last <= sPrev
    /\ b.t = "index" => Known = 0
    /\ \A n \in Names :
          b.files[n] # 0 =>
              /\ Known < b.files[n] /\ b.files[n] <= b.last
              /\ sRow[n] # 0 => b.files[n] <= sRow[n]

\* The rows S's handler has passed and R does not have are in flight, in the
\* order of their sequence numbers: what StartSequence promised is kept by
\* every batch, and a full index comes first and finds nothing to lose.
Pipeline ==
    /\ \A b \in InFlight : BatchOK(b)
    /\ \A i, j \in DOMAIN toR :
          i < j /\ IsBatch(toR[i]) /\ IsBatch(toR[j]) => Before(toR[i], toR[j])
    /\ \A i \in DOMAIN toR : IsBatch(toR[i]) =>
          /\ mid # None => Before(mid, toR[i])
          /\ sOut # None => Before(toR[i], sOut)
    /\ mid # None /\ sOut # None => Before(mid, sOut)
    /\ \A n \in Names \ Hidden :
          Known < sRow[n] /\ sRow[n] <= sPrev =>
              \E b \in InFlight : b.files[n] = sRow[n]

\* S's cluster configs carry the ID of the index that is being sent, R's say
\* truly how much of it R has until S's handler starts from them.
Handshake ==
    /\ 0 < sID /\ rID <= sID /\ Known <= sSeq /\ sPrev <= sSeq
    /\ \A n \in Names : sRow[n] <= sSeq
    /\ rCfg = "running" /\ rReg # "unknown" /\ rInfo = None /\ rh # "paused"
    /\ rh = "running" \/ mid # None => rID = sID
    /\ \A cc \in sCC : cc.id = sID
    /\ \A i \in DOMAIN toR : toR[i].t = "cc" => toR[i].id = sID
    /\ \A cc \in toS \union {sInfo} : cc # None =>
          /\ sh = "none" /\ cc.run = "running"
          /\ StartSequence(cc) = Known
          /\ cc.id = sID => rID = sID /\ cc.max <= sSeq
    /\ \A c, d \in toS : c = d
    /\ toS # {} => sInfo = None
    /\ IF sh = "none" THEN sPrev = 0 /\ InFlight = {} ELSE Known <= sPrev

StableInv == TypeOK /\ DeltaComplete /\ Pipeline /\ Handshake

-----------------------------------------------------------------------------

\* Nothing is left to do: S's handler has seen its whole index, and no message
\* is under way.
Quiet ==
    /\ up /\ sh = "running" /\ sOut = None /\ Unsent(sPrev) = {}
    /\ toR = <<>> /\ toS = {} /\ sCC = {} /\ mid = None

\* R's picture of S's folder is S's index.
Synced == \A n \in Names \ Hidden : sRow[n] # 0 => rRow[n] = sRow[n]

\* Once the exchange has come to rest on a connection, R knows every row of S.
SyncedWhenQuiet == Quiet => Synced

\* S's sequence numbers are unique among the rows R holds, so the unique index
\* on (device, remote_sequence) never makes INSERT OR REPLACE evict another
\* file's row.
NoEviction ==
    \A m, n \in Names : rRow[m] = rRow[n] /\ rRow[n] # 0 => m = n

\* As long as R files S under the same index ID, a row is only ever replaced by
\* a newer one (or dropped), whatever is resent, reordered or interrupted.
NoRegress ==
    [][\A n \in Names : rID' = rID /\ rRow'[n] # 0 => rRow'[n] >= rRow[n]]_vars

\* On a connection that stays up with the folder running on S, R gets to know
\* all of S's index and stays in step.
Converges == <>[](up /\ sCfg = "running") => <>[]Synced

-----------------------------------------------------------------------------

\* The exchange seen from the two databases alone.
Copy == INSTANCE IndexCopy WITH srcID <- sID, srcTop <- sSeq, src <- sRow,
                                copyID <- rID, known <- rSeq, copy <- rRow

\* With R's configuration left alone, every step of handlers, connections,
\* crashes and restarts is for R's copy of S's index one of the steps of
\* IndexCopy: the copy grows by complete stretches and loses rows only while
\* no number is announced for them.
ImplementsCopy == Copy!CopySpec
=============================================================================
