------------------------ MODULE IndexExchangeProofs ------------------------
(***************************************************************************)
(* StableInv is an inductive invariant of StableSpec, for any set of files,*)
(* any batch size and any bounds: as long as R's configuration stays as it *)
(* is, a delta index loses nothing, whatever connections drop, devices     *)
(* restart or databases are reset.  From it: the refinement of IndexCopy,  *)
(* and, with the uniqueness of sequence numbers, that R's rows neither     *)
(* evict each other nor go back.                                           *)
(***************************************************************************)
EXTENDS IndexExchange, TLAPS

-----------------------------------------------------------------------------
(* Sequences and records.                                                  *)

\* Head, Tail and Append as functions of positions.
LEMMA TailFacts ==
    ASSUME NEW S, NEW s \in Seq(S), s # <<>>
    PROVE  /\ Head(s) \in S /\ Head(s) = s[1] /\ 1 \in DOMAIN s
           /\ Tail(s) \in Seq(S)
           /\ \A i \in DOMAIN Tail(s) :
                 i + 1 \in DOMAIN s /\ Tail(s)[i] = s[i + 1]
           /\ \A i \in DOMAIN s : i = 1 \/ (i - 1) \in DOMAIN Tail(s)
           /\ DOMAIN s \subseteq Nat /\ DOMAIN Tail(s) \subseteq Nat
OBVIOUS

LEMMA EmptySeq == ASSUME NEW S PROVE <<>> \in Seq(S)
OBVIOUS

LEMMA AppendFacts ==
    ASSUME NEW S, NEW s \in Seq(S), NEW e \in S
    PROVE  /\ Append(s, e) \in Seq(S)
           /\ \A i \in DOMAIN Append(s, e) :
                 \/ i \in DOMAIN s /\ Append(s, e)[i] = s[i]
                 \/ /\ Append(s, e)[i] = e
                    /\ \A j \in DOMAIN s : j < i
           /\ \A i \in DOMAIN s : i \in DOMAIN Append(s, e)
                                  /\ Append(s, e)[i] = s[i]
           /\ \E i \in DOMAIN Append(s, e) : Append(s, e)[i] = e
           /\ \A i \in DOMAIN s, j \in DOMAIN Append(s, e) :
                 j \notin DOMAIN s => ~(j < i)
<1>1. Len(s) + 1 \in DOMAIN Append(s, e) /\ Append(s, e)[Len(s) + 1] = e
  OBVIOUS
<1> QED BY <1>1

\* The kinds of message are told apart by t; a cluster config is not None.
LEMMA MessageKinds ==
    /\ \A b \in Batches : IsBatch(b) /\ b # None /\ b.t # "cc"
    /\ \A c \in SCCs : ~IsBatch(c) /\ c # None /\ c.t = "cc"
    /\ \A c \in RCCs : c # None
    /\ ~IsBatch(None)
  BY DEF Batches, SCCs, RCCs, IsBatch, None

-----------------------------------------------------------------------------

LEMMA InitInv == Init => StableInv
<1> SUFFICES ASSUME Init PROVE StableInv
  OBVIOUS
<1>1. TypeOK
  <2>1. sRow \in [Names -> Nat] /\ rRow \in [Names -> Nat]
    BY DEF Init, NoRows
  <2>2. toR \in Seq(Batches \union SCCs)
    BY EmptySeq DEF Init
  <2>3. {sh, rh} \subseteq Handlers /\ up \in BOOLEAN
    BY DEF Init, Handlers
  <2> QED BY <2>1, <2>2, <2>3 DEF Init, TypeOK
<1>2. InFlight = {}
  BY DEF Init, InFlight, None, IsBatch
<1>3. DeltaComplete /\ Pipeline
  BY <1>2 DEF Init, DeltaComplete, Pipeline, NoRows, Known, None
<1>4. Handshake
  BY <1>2 DEF Init, Handshake, NoRows, Known, None
<1> QED BY <1>1, <1>3, <1>4 DEF StableInv

\* With the connection gone nothing is in flight and nothing has been passed.
LEMMA HangupInv ==
    ASSUME StableInv, Hangup, UNCHANGED <<sID, sSeq, sRow, rID, rSeq, sCfg, rCfg>>,
           rRow' = rRow \/ (rRow' = NoRows /\ rID # sID)
    PROVE  StableInv'
<1> USE DEF StableInv
<1>1. TypeOK'
  <2>1. rRow' \in [Names -> Nat]
    BY DEF TypeOK, NoRows
  <2>2. toR' \in Seq(Batches \union SCCs)
    BY EmptySeq DEF Hangup
  <2>3. {sh, rh}' \subseteq Handlers /\ up' \in BOOLEAN
    BY DEF Hangup, Handlers
  <2> QED BY <2>1, <2>2, <2>3 DEF TypeOK, Hangup
<1>2. InFlight' = {}
  BY DEF Hangup, InFlight, None, IsBatch
<1>3. Known' = Known /\ Known \in Nat
  BY DEF Known, TypeOK
<1>4. DeltaComplete'
  BY DEF DeltaComplete
<1>5. Pipeline'
  BY <1>2, <1>3 DEF Pipeline, Hangup, TypeOK, None
<1>6. Handshake'
  BY <1>2, <1>3 DEF Handshake, Hangup, TypeOK, None
<1> QED BY <1>1, <1>4, <1>5, <1>6

LEMMA ConnectInv == StableInv /\ Connect => StableInv'
<1> SUFFICES ASSUME StableInv, Connect PROVE StableInv'
  OBVIOUS
<1> USE DEF StableInv
<1>1. CCFromS(sCfg) \in SCCs /\ CCFromR(rCfg, 0) \in RCCs
  BY DEF TypeOK, CCFromS, CCFromR, SCCs, RCCs
<1>2. TypeOK'
  BY <1>1 DEF TypeOK, Connect, dbVars, sVars, rVars
<1>3. /\ InFlight' = {} /\ mid' = None /\ sOut' = None
      /\ \A i \in DOMAIN toR' : ~IsBatch(toR'[i]) /\ toR'[i] = CCFromS(sCfg)
  BY <1>1, MessageKinds DEF TypeOK, Connect, InFlight, sVars, rVars
<1>4. Known' = Known /\ Known \in Nat
  BY DEF Known, TypeOK, Connect, dbVars
<1>5. DeltaComplete'
  BY DEF DeltaComplete, Connect, dbVars
<1>6. Pipeline'
  BY <1>3, <1>4 DEF Pipeline, Connect, TypeOK, sVars, dbVars
<1>7. /\ CCFromR(rCfg, 0) # None /\ CCFromR(rCfg, 0).run = "running"
      /\ StartSequence(CCFromR(rCfg, 0)) = Known
      /\ CCFromR(rCfg, 0).id = sID => rID = sID /\ CCFromR(rCfg, 0).max <= sSeq
  BY <1>1, MessageKinds DEF CCFromR, StartSequence, Known, Handshake
<1>8. Handshake'
  BY <1>3, <1>4, <1>7
  DEF Handshake, Connect, TypeOK, dbVars, sVars, rVars, CCFromS, StartSequence
<1> QED BY <1>2, <1>5, <1>6, <1>8

\* Losing the connection, an error that closes it, and R's failures.
LEMMA HangupsInv ==
    StableInv /\ (Disconnect \/ RAbort \/ RReject \/ RAbortStart) => StableInv'
<1> SUFFICES ASSUME StableInv, Disconnect \/ RAbort \/ RReject \/ RAbortStart
             PROVE  StableInv'
  OBVIOUS
<1>1. CASE Disconnect \/ RAbort \/ RReject
  BY <1>1, HangupInv DEF Disconnect, RAbort, RReject, dbVars
<1>2. CASE RAbortStart
  <2>1. Head(toR) = toR[1] /\ 1 \in DOMAIN toR
    BY <1>2, TailFacts DEF RAbortStart, StableInv, TypeOK
  <2>2. rID # sID
    BY <1>2, <2>1 DEF RAbortStart, StableInv, Handshake
  <2> QED BY <1>2, <2>2, HangupInv DEF RAbortStart
<1> QED BY <1>1, <1>2

-----------------------------------------------------------------------------
(* S's database.                                                           *)

\* A new row is newer than everything that was sent or announced.
LEMMA LocalUpdateInv ==
    ASSUME StableInv, NEW n \in Names, NEW s \in 1..MaxSeq, LocalUpdate(n, s)
    PROVE  StableInv'
<1> USE DEF StableInv
<1> s \in Nat /\ s > sSeq
  BY BoundsAssumption DEF LocalUpdate
<1>1. TypeOK'
  BY DEF TypeOK, LocalUpdate, sVars, rVars, netVars
<1>2. /\ sRow' \in [Names -> Nat] /\ sRow'[n] = s
      /\ \A k \in Names : k # n => sRow'[k] = sRow[k]
  BY DEF LocalUpdate, TypeOK
<1>3. Known' = Known /\ Known \in Nat
  BY DEF Known, TypeOK, LocalUpdate
<1>4. InFlight' = InFlight /\ \A b \in InFlight : b \in Batches
  BY MessageKinds DEF InFlight, LocalUpdate, TypeOK, sVars, rVars, netVars
<1>5. DeltaComplete'
  BY <1>2 DEF DeltaComplete, LocalUpdate, TypeOK
<1>6. Pipeline'
  <2>1. \A b \in InFlight : BatchOK(b)'
    BY <1>2, <1>3, <1>4 DEF Pipeline, BatchOK, Batches, Handshake, LocalUpdate,
                            TypeOK, sVars
  <2>2. \A k \in Names \ Hidden :
           Known' < sRow'[k] /\ sRow'[k] <= sPrev' =>
               \E b \in InFlight' : b.files[k] = sRow'[k]
    BY <1>2, <1>3, <1>4 DEF Pipeline, Handshake, LocalUpdate, TypeOK, sVars
  <2> QED BY <1>4, <2>1, <2>2
          DEF Pipeline, Before, LocalUpdate, sVars, rVars, netVars
<1>7. Handshake'
  BY <1>2, <1>3, <1>4
  DEF Handshake, LocalUpdate, TypeOK, StartSequence, RCCs, sVars, rVars, netVars
<1> QED BY <1>1, <1>5, <1>6, <1>7

LEMMA DropFilesNamedInv ==
    ASSUME StableInv, NEW n \in Names, DropFilesNamed(n)
    PROVE  StableInv'
<1> USE DEF StableInv
<1>1. TypeOK'
  BY DEF TypeOK, DropFilesNamed, sVars, rVars, netVars
<1>2. /\ sRow' \in [Names -> Nat] /\ sRow'[n] = 0
      /\ \A k \in Names : k # n => sRow'[k] = sRow[k]
  BY DEF DropFilesNamed, TypeOK
<1>3. Known' = Known /\ Known \in Nat
  BY DEF Known, TypeOK, DropFilesNamed
<1>4. InFlight' = InFlight
  BY DEF InFlight, DropFilesNamed, sVars, rVars, netVars
<1>5. DeltaComplete'
  BY <1>2 DEF DeltaComplete, DropFilesNamed
<1>6. Pipeline'
  <2>1. \A b \in InFlight : BatchOK(b)'
    BY <1>2, <1>3 DEF Pipeline, BatchOK, DropFilesNamed, sVars
  <2> QED BY <1>2, <1>3, <1>4, <2>1
          DEF Pipeline, Before, DropFilesNamed, sVars, rVars, netVars
<1>7. Handshake'
  BY <1>2, <1>3, <1>4
  DEF Handshake, DropFilesNamed, TypeOK, StartSequence, sVars, rVars, netVars
<1> QED BY <1>1, <1>5, <1>6, <1>7

\* Neither end knows anything of the other's new or lost index.
LEMMA ResetInv ==
    StableInv /\ (SDropAllIndexIDs \/ SDropFolder \/ RDropAllIndexIDs \/ RDropFolder)
        => StableInv'
<1> SUFFICES ASSUME StableInv,
                    \/ SDropAllIndexIDs \/ SDropFolder
                    \/ RDropAllIndexIDs \/ RDropFolder
             PROVE  StableInv'
  OBVIOUS
<1> USE DEF StableInv, SDropAllIndexIDs, SDropFolder, RDropAllIndexIDs, RDropFolder
<1>1. /\ ~up /\ UNCHANGED <<sCfg, rCfg, sVars, rVars, netVars>>
      /\ sID' \in Nat /\ sSeq' \in Nat /\ rID' \in Nat /\ rSeq' \in Nat
      /\ sRow' \in [Names -> Nat] /\ rRow' \in [Names -> Nat]
      /\ \A n \in Names : sRow'[n] <= sSeq'
      /\ 0 < sID' /\ rID' < sID'
  BY DEF TypeOK, Handshake, NoRows
<1>2. TypeOK'
  BY <1>1 DEF TypeOK, sVars, rVars, netVars
<1>3. InFlight' = {} /\ Known' = 0
  BY <1>1 DEF InFlight, Known, TypeOK, sVars, rVars, netVars, IsBatch, None
<1>4. DeltaComplete'
  BY <1>1 DEF DeltaComplete
<1>5. Pipeline'
  BY <1>1, <1>3 DEF Pipeline, TypeOK, sVars, rVars, netVars
<1>6. Handshake'
  BY <1>1, <1>3 DEF Handshake, TypeOK, sVars, rVars, netVars
<1> QED BY <1>2, <1>4, <1>5, <1>6

-----------------------------------------------------------------------------
(* S's registry and index handler.                                         *)

\* A handler starts exactly where R's knowledge ends, with nothing in flight.
LEMMA SStartInv ==
    ASSUME StableInv, NEW cc \in toS \union {sInfo}, cc # None, SStart(cc),
           UNCHANGED <<dbVars, rCfg, rVars, up, toR>>, up,
           sCfg' \in {"running", "paused"}, sReg' \in {"noreg", "known", "unknown"},
           toS' = {}, sCC' \subseteq SCCs, \A c \in sCC' : c.id = sID,
           changes' \in Nat
    PROVE  StableInv'
<1> USE DEF StableInv
<1>1. sh = "none" /\ StartSequence(cc) = Known /\ InFlight = {} /\ Known \in Nat
  BY DEF Handshake, Known, TypeOK
<1>2. TypeOK'
  BY <1>1 DEF TypeOK, SStart, dbVars, rVars, Handlers
<1>3. InFlight' = {} /\ mid' = None /\ \A i \in DOMAIN toR : ~IsBatch(toR[i])
  BY <1>1, MessageKinds DEF InFlight, SStart, rVars, TypeOK
<1>4. Known' = Known /\ sPrev' = Known
  BY <1>1 DEF Known, SStart, dbVars
<1>5. DeltaComplete'
  BY DEF DeltaComplete, dbVars
<1>6. Pipeline'
  BY <1>1, <1>3, <1>4 DEF Pipeline, TypeOK, dbVars
<1>7. Handshake'
  BY <1>1, <1>3, <1>4 DEF Handshake, TypeOK, SStart, dbVars, rVars
<1> QED BY <1>2, <1>5, <1>6, <1>7

\* Steps that leave the databases, the batches and R alone.
LEMMA SControlInv ==
    ASSUME StableInv, UNCHANGED <<dbVars, rCfg, rVars, up, toR, sPrev, sOut>>,
           up \/ /\ UNCHANGED <<sReg, sh, sInfo, toS>>
                 /\ sCC' = {} /\ changes' = 0,
           sCfg' \in {"running", "paused"}, sReg' \in {"noreg", "known", "unknown"},
           sh' \in Handlers, sh' = "none" <=> sh = "none",
           toS' \subseteq toS, sInfo' \in toS \union {sInfo},
           toS' # {} => sInfo' = None,
           sCC' \subseteq SCCs, \A c \in sCC' : c.id = sID,
           changes' \in Nat
    PROVE  StableInv'
<1> USE DEF StableInv
<1>1. TypeOK'
  BY DEF TypeOK, dbVars, rVars
<1>2. InFlight' = InFlight /\ Known' = Known
  BY DEF InFlight, rVars, Known, dbVars
<1>3. DeltaComplete'
  BY DEF DeltaComplete, dbVars
<1>4. Pipeline'
  BY <1>2 DEF Pipeline, BatchOK, Before, dbVars, rVars
<1>5. Handshake'
  BY <1>2 DEF Handshake, StartSequence, dbVars, rVars
<1> QED BY <1>1, <1>3, <1>4, <1>5

LEMMA SHandleCCInv ==
    ASSUME StableInv, NEW cc \in toS, SHandleCC(cc)
    PROVE  StableInv'
<1>1. /\ cc # None /\ cc.run = "running" /\ toS' = {} /\ sInfo = None /\ up
      /\ sh = "none" /\ sOut = None /\ sPrev = 0
  <2>1. cc # None /\ toS' = {} /\ sInfo = None /\ up /\ InFlight = {}
    BY MessageKinds DEF StableInv, Handshake, TypeOK, SHandleCC
  <2> QED BY <2>1, MessageKinds
          DEF StableInv, Handshake, TypeOK, SHandleCC, InFlight
<1>2. /\ sReg' \in {"noreg", "known", "unknown"}
      /\ UNCHANGED <<sCfg, dbVars, rCfg, rVars, up, toR, sCC, changes>>
      /\ sCfg \in {"running", "paused"} /\ sCC \subseteq SCCs /\ changes \in Nat
      /\ \A c \in sCC : c.id = sID
  BY DEF StableInv, TypeOK, Handshake, SHandleCC, Registered
<1>3. CASE SStart(cc)
  BY <1>1, <1>2, <1>3, SStartInv
<1>4. CASE ~SStart(cc)
  <2>1. sh' = sh /\ sPrev' = sPrev /\ sOut' = sOut /\ sInfo' = cc
    BY <1>1, <1>4 DEF SHandleCC
  <2> QED BY <1>1, <1>2, <2>1, SControlInv DEF Handlers
<1> QED BY <1>3, <1>4

\* What S announces when its configuration changes.
LEMMA SAnnounceFacts ==
    ASSUME StableInv, NEW cfg \in {"running", "paused"}, SAnnounce(cfg)
    PROVE  /\ sCC' \subseteq SCCs /\ \A c \in sCC' : c.id = sID
           /\ changes' \in Nat /\ (~up => sCC' = {} /\ changes' = 0)
  BY DEF StableInv, TypeOK, Handshake, SAnnounce, CCFromS, SCCs

LEMMA SConfigInv ==
    StableInv /\ (SPause \/ SResume \/ SResendCC) => StableInv'
<1> SUFFICES ASSUME StableInv, SPause \/ SResume \/ SResendCC PROVE StableInv'
  OBVIOUS
<1>1. CASE SPause
  <2>1. /\ sCC' \subseteq SCCs /\ \A c \in sCC' : c.id = sID
        /\ changes' \in Nat /\ (~up => sCC' = {} /\ changes' = 0)
    BY <1>1, SAnnounceFacts DEF SPause
  <2>2. /\ ~up => sh = "none" /\ sReg = "noreg"
        /\ sh \in Handlers /\ sReg \in {"noreg", "known", "unknown"}
        /\ toS # {} => sInfo = None
    BY DEF StableInv, TypeOK, Handshake
  <2> QED BY <1>1, <2>1, <2>2, SControlInv DEF SPause, Handlers
<1>2. CASE SResume
  <2>1. /\ sCC' \subseteq SCCs /\ \A c \in sCC' : c.id = sID
        /\ changes' \in Nat /\ (~up => sCC' = {} /\ changes' = 0)
    BY <1>2, SAnnounceFacts DEF SResume
  <2>2. /\ ~up => sh = "none" /\ sReg = "noreg" /\ sInfo = None
        /\ sh \in Handlers /\ sReg \in {"noreg", "known", "unknown"}
        /\ toS # {} => sInfo = None
    BY DEF StableInv, TypeOK, Handshake
  <2>3. CASE sInfo # None
    BY <1>2, <2>1, <2>2, <2>3, SStartInv DEF SResume
  <2>4. CASE sInfo = None
    BY <1>2, <2>1, <2>2, <2>4, SControlInv DEF SResume, Handlers
  <2> QED BY <2>3, <2>4
<1>3. CASE SResendCC
  <2>1. /\ sCC' \subseteq SCCs /\ \A c \in sCC' : c.id = sID /\ changes' \in Nat
        /\ sCfg \in {"running", "paused"}
    BY <1>3, SAnnounceFacts DEF SResendCC, StableInv, TypeOK
  <2>2. /\ sh \in Handlers /\ sReg \in {"noreg", "known", "unknown"}
        /\ toS # {} => sInfo = None
        /\ changes' \in Nat
    BY <1>3, SAnnounceFacts DEF SResendCC, StableInv, TypeOK, Handshake
  <2> QED BY <1>3, <2>1, <2>2, SControlInv DEF SResendCC, sVars
<1> QED BY <1>1, <1>2, <1>3

\* A batch holds all that may be sent between the old and the new position,
\* and it comes after everything that is in flight.
LEMMA ReadBatchInv ==
    ASSUME StableInv, NEW cut \in 1..MaxSeq, ReadBatch(cut)
    PROVE  StableInv'
<1> DEFINE P == {n \in Newer(sPrev) : sRow[n] <= cut}
<1> USE DEF StableInv
<1>1. /\ cut \in Nat /\ sPrev' = cut /\ sPrev < cut /\ cut <= sSeq /\ sPrev \in Nat
      /\ sh = "running" /\ sOut = None /\ up /\ Known \in Nat /\ Known <= sPrev
  BY BoundsAssumption DEF ReadBatch, Newer, TypeOK, Handshake, Known
<1>2. UNCHANGED <<sID, sSeq, sRow, rID, rSeq, rRow, sCfg, rCfg, sReg, sh, sInfo,
                  rReg, rh, rInfo, mid, up, toR, toS, sCC, changes>>
  BY DEF ReadBatch, dbVars, rVars, netVars
<1>3. Known' = Known
  BY <1>2 DEF Known
<1>4. \/ P \subseteq Hidden /\ sOut' = None
      \/ /\ sOut' \in Batches
         /\ \A n \in Names : sOut'.files[n] # 0 =>
               sOut'.files[n] = sRow[n] /\ sPrev < sRow[n] /\ sRow[n] <= sOut'.last
         /\ \A n \in P \ Hidden : sOut'.files[n] = sRow[n]
         /\ sPrev < sOut'.last /\ sOut'.last <= cut
         /\ sOut'.t = IF sPrev = 0 THEN "index" ELSE "update"
  BY <1>1, SMTT(30) DEF ReadBatch, Newer, Batches, TypeOK
<1>5. TypeOK'
  BY <1>1, <1>2, <1>4 DEF TypeOK
<1>6. DeltaComplete'
  BY <1>2 DEF DeltaComplete
<1>7. /\ \A b \in InFlight' : b \in InFlight \/ (b = sOut' /\ sOut' # None)
      /\ InFlight \subseteq InFlight'
      /\ sOut' # None => sOut' \in InFlight'
  BY <1>1, <1>2, <1>4, MessageKinds DEF InFlight
<1>8. \A b \in InFlight : b \in Batches /\ BatchOK(b) /\ BatchOK(b)'
  BY <1>1, <1>2, <1>3, MessageKinds
  DEF Pipeline, BatchOK, InFlight, TypeOK, Batches
<1>9. /\ \A b : b = sOut' /\ b # None => BatchOK(b)'
      /\ sOut' # None => \A b \in InFlight : Before(b, sOut')
  BY <1>1, <1>2, <1>3, <1>4, <1>8 DEF BatchOK, Before, Batches, TypeOK
<1>10. Pipeline'
  <2>1. \A b \in InFlight' : BatchOK(b)'
    BY <1>7, <1>8, <1>9
  <2>2. \A i \in DOMAIN toR : IsBatch(toR[i]) => toR[i] \in InFlight
    BY DEF InFlight
  <2>3. mid # None => mid \in InFlight
    BY MessageKinds DEF InFlight, TypeOK
  <2>4. \A n \in Names \ Hidden :
           Known' < sRow'[n] /\ sRow'[n] <= sPrev' =>
               \E b \in InFlight' : b.files[n] = sRow'[n]
    <3> SUFFICES ASSUME NEW n \in Names \ Hidden, Known < sRow[n], sRow[n] <= cut
                 PROVE  \E b \in InFlight' : b.files[n] = sRow[n]
      BY <1>1, <1>2, <1>3
    <3>1. CASE sRow[n] <= sPrev
      BY <1>7, <3>1 DEF Pipeline
    <3>2. CASE ~(sRow[n] <= sPrev)
      <4>1. n \in P \ Hidden
        BY <1>1, <3>2 DEF Newer, TypeOK
      <4> QED BY <1>4, <1>7, <4>1, MessageKinds
    <3> QED BY <3>1, <3>2
  <2> QED BY <1>2, <1>9, <2>1, <2>2, <2>3, <2>4 DEF Pipeline, Before
<1>11. Handshake'
  BY <1>1, <1>2, <1>3 DEF Handshake, TypeOK, StartSequence
<1> QED BY <1>5, <1>6, <1>10, <1>11

\* The batch moves from the flush function to the connection.
LEMMA FlushInv == StableInv /\ Flush => StableInv'
<1> SUFFICES ASSUME StableInv, Flush PROVE StableInv'
  OBVIOUS
<1> USE DEF StableInv
<1>1. /\ sOut \in Batches /\ IsBatch(sOut) /\ up
      /\ toR \in Seq(Batches \union SCCs)
  BY MessageKinds DEF TypeOK, Flush
<1>2. /\ toR' = Append(toR, sOut) /\ sOut' = None
      /\ UNCHANGED <<sID, sSeq, sRow, rID, rSeq, rRow, sCfg, rCfg, sReg, sh, sPrev,
                     sInfo, rReg, rh, rInfo, mid, up, toS, sCC, changes>>
  BY DEF Flush, dbVars, rVars
<1>3. /\ toR' \in Seq(Batches \union SCCs)
      /\ \A i \in DOMAIN toR' : \/ i \in DOMAIN toR /\ toR'[i] = toR[i]
                                \/ /\ toR'[i] = sOut
                                   /\ \A j \in DOMAIN toR : j < i
      /\ \A i \in DOMAIN toR : i \in DOMAIN toR' /\ toR'[i] = toR[i]
      /\ \E i \in DOMAIN toR' : toR'[i] = sOut
      /\ \A i \in DOMAIN toR, j \in DOMAIN toR' : j \notin DOMAIN toR => ~(j < i)
      /\ DOMAIN toR \subseteq Nat /\ DOMAIN toR' \subseteq Nat
  BY <1>1, <1>2, AppendFacts
<1>4. TypeOK'
  BY <1>1, <1>2, <1>3 DEF TypeOK
<1>5. DeltaComplete'
  BY <1>2 DEF DeltaComplete
<1>6. InFlight' = InFlight /\ Known' = Known
  BY <1>2, <1>3, MessageKinds DEF InFlight, Known
<1>7. Pipeline'
  <2>1. \A b \in InFlight' : BatchOK(b)'
    BY <1>2, <1>6 DEF Pipeline, BatchOK
  <2>2. \A i, j \in DOMAIN toR' :
           i < j /\ IsBatch(toR'[i]) /\ IsBatch(toR'[j]) =>
               Before(toR'[i], toR'[j])
    BY <1>1, <1>2, <1>3, MessageKinds DEF Pipeline
  <2>3. \A i \in DOMAIN toR' : IsBatch(toR'[i]) /\ mid # None =>
           Before(mid, toR'[i])
    BY <1>1, <1>2, <1>3, MessageKinds DEF Pipeline
  <2>4. \A n \in Names \ Hidden :
           Known' < sRow'[n] /\ sRow'[n] <= sPrev' =>
               \E b \in InFlight' : b.files[n] = sRow'[n]
    BY <1>2, <1>6 DEF Pipeline
  <2> QED BY <1>2, <2>1, <2>2, <2>3, <2>4 DEF Pipeline, Before
<1>8. Handshake'
  BY <1>1, <1>2, <1>3, <1>6, MessageKinds DEF Handshake, StartSequence
<1> QED BY <1>4, <1>5, <1>7, <1>8

LEMMA SSendCCInv ==
    ASSUME StableInv, NEW cc \in sCC, SSendCC(cc)
    PROVE  StableInv'
<1> USE DEF StableInv
<1>1. /\ cc \in SCCs /\ ~IsBatch(cc) /\ cc.id = sID /\ up
      /\ toR \in Seq(Batches \union SCCs)
  BY MessageKinds DEF TypeOK, Handshake
<1>2. /\ toR' = Append(toR, cc) /\ sCC' \subseteq sCC
      /\ UNCHANGED <<sID, sSeq, sRow, rID, rSeq, rRow, sCfg, rCfg, sReg, sh, sPrev,
                     sOut, sInfo, rReg, rh, rInfo, mid, up, toS, changes>>
  BY DEF SSendCC, dbVars, sVars, rVars
<1>3. /\ toR' \in Seq(Batches \union SCCs)
      /\ \A i \in DOMAIN toR' : \/ i \in DOMAIN toR /\ toR'[i] = toR[i]
                                \/ toR'[i] = cc
      /\ \A i \in DOMAIN toR : i \in DOMAIN toR' /\ toR'[i] = toR[i]
  BY <1>1, <1>2, AppendFacts
<1>4. TypeOK'
  BY <1>1, <1>2, <1>3 DEF TypeOK
<1>5. DeltaComplete'
  BY <1>2 DEF DeltaComplete
<1>6. InFlight' = InFlight /\ Known' = Known
  BY <1>1, <1>2, <1>3 DEF InFlight, Known
<1>7. Pipeline'
  <2>1. \A b \in InFlight' : BatchOK(b)'
    BY <1>2, <1>6 DEF Pipeline, BatchOK
  <2> QED BY <1>1, <1>2, <1>3, <1>6, <2>1 DEF Pipeline, Before
<1>8. Handshake'
  BY <1>1, <1>2, <1>3, <1>6, MessageKinds DEF Handshake, StartSequence
<1> QED BY <1>4, <1>5, <1>7, <1>8

-----------------------------------------------------------------------------
(* R's registry, index handler and database.                               *)

\* The next message for R and what stays behind it.
LEMMA NextMessage ==
    ASSUME StableInv, toR # <<>>
    PROVE  /\ Head(toR) \in Batches \union SCCs
           /\ Head(toR) = toR[1] /\ 1 \in DOMAIN toR /\ up
           /\ Tail(toR) \in Seq(Batches \union SCCs)
           /\ \A i \in DOMAIN Tail(toR) :
                 i + 1 \in DOMAIN toR /\ Tail(toR)[i] = toR[i + 1] /\ i \in Nat
           /\ \A i \in DOMAIN toR :
                 i = 1 \/ \E j \in DOMAIN Tail(toR) : Tail(toR)[j] = toR[i]
           /\ DOMAIN toR \subseteq Nat
<1>1. toR \in Seq(Batches \union SCCs) /\ up
  BY DEF StableInv, TypeOK
<1>2. ASSUME NEW i \in DOMAIN toR, i # 1
      PROVE  \E j \in DOMAIN Tail(toR) : Tail(toR)[j] = toR[i]
  <2>1. (i - 1) \in DOMAIN Tail(toR) /\ i \in Nat
    BY <1>1, <1>2, TailFacts
  <2>2. Tail(toR)[i - 1] = toR[(i - 1) + 1] /\ (i - 1) + 1 = i
    BY <1>1, <2>1, TailFacts
  <2> QED BY <2>1, <2>2
<1> QED BY <1>1, <1>2, TailFacts

\* A handler that starts for another index ID drops nothing S counts on.
LEMMA RHandleCCInv == StableInv /\ RHandleCC => StableInv'
<1> SUFFICES ASSUME StableInv, RHandleCC PROVE StableInv'
  OBVIOUS
<1> USE DEF StableInv
<1>1. /\ toR # <<>> /\ mid = None /\ toR' = Tail(toR) /\ Head(toR) \in SCCs
      /\ ~IsBatch(toR[1]) /\ Head(toR).id = sID /\ up
  BY NextMessage, MessageKinds DEF RHandleCC, Handshake
<1>2. UNCHANGED <<sID, sSeq, sRow, sCfg, rCfg, sReg, sh, sPrev, sOut, sInfo, mid,
                  up, toS, sCC, changes>>
  BY DEF RHandleCC, sVars
<1>3. /\ rReg' = "known" /\ rInfo' = None
      /\ \/ rh' = "none" /\ UNCHANGED <<rID, rSeq, rRow>>
         \/ RStart(sID)
  BY <1>1 DEF RHandleCC, Registered, Handshake, TypeOK, RStart
<1>4. /\ rh' \in {"none", "running"} /\ rID' \in {rID, sID}
      /\ rh' = "running" => rID' = sID
      /\ Known' = Known
      /\ rSeq' \in Nat /\ rRow' \in [Names -> Nat]
      /\ \/ UNCHANGED <<rID, rSeq, rRow>>
         \/ rID # sID /\ rSeq' = 0
  BY <1>2, <1>3 DEF RStart, TypeOK, Known, NoRows
<1>5. TypeOK'
  BY <1>1, <1>2, <1>3, <1>4, NextMessage DEF TypeOK, Handlers
<1>6. DeltaComplete'
  BY <1>2, <1>4 DEF DeltaComplete, TypeOK
<1>7. InFlight' = InFlight
  <2>1. {toR'[i] : i \in DOMAIN toR'} \subseteq {toR[i] : i \in DOMAIN toR}
    BY <1>1, NextMessage
  <2>2. \A m \in {toR[i] : i \in DOMAIN toR} :
           IsBatch(m) => m \in {toR'[i] : i \in DOMAIN toR'}
    BY <1>1, NextMessage
  <2> QED BY <1>2, <2>1, <2>2 DEF InFlight
<1>8. Pipeline'
  <2>1. \A b \in InFlight' : BatchOK(b)'
    BY <1>2, <1>4, <1>7 DEF Pipeline, BatchOK
  <2> QED BY <1>1, <1>2, <1>4, <1>7, <2>1, NextMessage DEF Pipeline, Before
<1>9. Handshake'
  BY <1>1, <1>2, <1>3, <1>4, <1>7, NextMessage
  DEF Handshake, StartSequence, TypeOK
<1> QED BY <1>5, <1>6, <1>8, <1>9

\* A full index comes only while R has nothing, so dropping the rows is safe.
LEMMA RReceiveInv == StableInv /\ RReceive => StableInv'
<1> SUFFICES ASSUME StableInv, RReceive PROVE StableInv'
  OBVIOUS
<1> USE DEF StableInv
<1>1. /\ toR # <<>> /\ mid = None /\ toR' = Tail(toR) /\ mid' = Head(toR)
      /\ mid' \in Batches /\ IsBatch(toR[1]) /\ mid' = toR[1] /\ 1 \in DOMAIN toR
      /\ up /\ rh = "running" /\ rID = sID
  BY NextMessage, MessageKinds DEF RReceive, Handshake
<1>2. UNCHANGED <<sID, sSeq, sRow, rID, rSeq, sCfg, rCfg, sReg, sh, sPrev, sOut,
                  sInfo, rReg, rh, rInfo, up, toS, sCC, changes>>
  BY DEF RReceive, sVars
<1>3. InFlight' = InFlight /\ Known' = Known
  <2>1. {toR'[i] : i \in DOMAIN toR'} \subseteq {toR[i] : i \in DOMAIN toR}
    BY <1>1, NextMessage
  <2>2. \A m \in {toR[i] : i \in DOMAIN toR} :
           m = mid' \/ m \in {toR'[i] : i \in DOMAIN toR'}
    BY <1>1, NextMessage
  <2> QED BY <1>1, <1>2, <2>1, <2>2, MessageKinds DEF InFlight, Known
<1>4. TypeOK'
  BY <1>1, <1>2, NextMessage DEF TypeOK, RReceive, NoRows
<1>5. DeltaComplete'
  <2>1. toR[1] \in InFlight
    BY <1>1 DEF InFlight
  <2>2. Head(toR).t = "index" => rSeq = 0
    BY <1>1, <2>1 DEF Pipeline, BatchOK, Known
  <2> QED BY <1>2, <2>2 DEF DeltaComplete, RReceive, TypeOK
<1>6. Pipeline'
  <2>1. \A b \in InFlight' : BatchOK(b)'
    BY <1>2, <1>3 DEF Pipeline, BatchOK
  <2>2. \A i, j \in DOMAIN toR' :
           i < j /\ IsBatch(toR'[i]) /\ IsBatch(toR'[j]) =>
               Before(toR'[i], toR'[j])
    BY <1>1, NextMessage DEF Pipeline
  <2>3. \A i \in DOMAIN toR' : IsBatch(toR'[i]) =>
           /\ Before(mid', toR'[i])
           /\ sOut # None => Before(toR'[i], sOut)
    BY <1>1, NextMessage DEF Pipeline
  <2>4. sOut # None => Before(mid', sOut)
    BY <1>1 DEF Pipeline
  <2>5. \A n \in Names \ Hidden :
           Known' < sRow'[n] /\ sRow'[n] <= sPrev' =>
               \E b \in InFlight' : b.files[n] = sRow'[n]
    BY <1>2, <1>3 DEF Pipeline
  <2> QED BY <1>2, <2>1, <2>2, <2>3, <2>4, <2>5 DEF Pipeline, Before
<1>7. Handshake'
  BY <1>1, <1>2, <1>3, NextMessage DEF Handshake, StartSequence
<1> QED BY <1>4, <1>5, <1>6, <1>7

\* R now has what the batch carried, and what it lacks below the batch's last
\* sequence was in no batch at all.
LEMMA RUpdateInv == StableInv /\ RUpdate => StableInv'
<1> SUFFICES ASSUME StableInv, RUpdate PROVE StableInv'
  OBVIOUS
<1> USE DEF StableInv
<1>1. /\ mid \in Batches /\ mid \in InFlight /\ BatchOK(mid) /\ rID = sID /\ up
      /\ Known = rSeq /\ sh # "none" /\ mid # None
  BY MessageKinds DEF RUpdate, TypeOK, InFlight, Pipeline, Handshake, Known
<1>2. /\ mid' = None /\ rSeq' = mid.last
      /\ UNCHANGED <<sID, sSeq, sRow, rID, sCfg, rCfg, sReg, sh, sPrev, sOut, sInfo,
                     rReg, rh, rInfo, up, toR, toS, sCC, changes>>
  BY DEF RUpdate, sVars, netVars
<1>3. /\ mid.last \in Nat /\ rSeq < mid.last /\ mid.last <= sPrev /\ sPrev <= sSeq
      /\ Known' = mid.last /\ rSeq \in Nat /\ sPrev \in Nat /\ sSeq \in Nat
      /\ sRow \in [Names -> Nat] /\ mid.files \in [Names -> Nat]
  BY <1>1, <1>2 DEF BatchOK, Batches, TypeOK, Handshake, Known
<1>4. /\ rRow' \in [Names -> Nat]
      /\ \A n \in Names : rRow'[n] = IF mid.files[n] # 0 THEN mid.files[n]
                                     ELSE rRow[n]
  BY <1>1 DEF RUpdate, Batches, TypeOK
<1>5. TypeOK'
  BY <1>1, <1>2, <1>3, <1>4 DEF TypeOK
<1>6. \A b \in InFlight' : b \in Batches /\ b \in InFlight /\ Before(mid, b)
  BY <1>1, <1>2, MessageKinds DEF InFlight, Pipeline, TypeOK
<1>7. \A b \in InFlight : b = mid \/ b \in InFlight'
  BY <1>2 DEF InFlight
<1>8. DeltaComplete'
  <2> SUFFICES ASSUME NEW n \in Names \ Hidden, sRow[n] # 0, sRow[n] <= mid.last
               PROVE  rRow'[n] = sRow[n]
    BY <1>2, <1>3 DEF DeltaComplete
  <2>1. CASE sRow[n] <= rSeq
    <3>1. mid.files[n] = 0
      BY <1>1, <1>3, <2>1 DEF BatchOK
    <3> QED BY <1>1, <1>4, <2>1, <3>1 DEF DeltaComplete
  <2>2. CASE ~(sRow[n] <= rSeq)
    <3>1. PICK b \in InFlight : b.files[n] = sRow[n]
      BY <1>1, <1>3, <2>2 DEF Pipeline
    <3>2. b = mid
      BY <1>3, <1>6, <1>7, <3>1 DEF Before
    <3> QED BY <1>4, <3>1, <3>2
  <2> QED BY <2>1, <2>2
<1>9. Pipeline'
  <2>1. \A b \in InFlight' : BatchOK(b)'
    <3> SUFFICES ASSUME NEW b \in InFlight' PROVE BatchOK(b)'
      OBVIOUS
    <3>1. /\ b \in Batches /\ BatchOK(b) /\ b.t = "update" /\ mid.last < b.last
          /\ \A n \in Names : b.files[n] # 0 => mid.last < b.files[n]
      BY <1>6 DEF Pipeline, Before
    <3> QED BY <1>1, <1>2, <1>3, <3>1 DEF BatchOK
  <2>2. \A n \in Names \ Hidden :
           Known' < sRow'[n] /\ sRow'[n] <= sPrev' =>
               \E b \in InFlight' : b.files[n] = sRow'[n]
    <3> SUFFICES ASSUME NEW n \in Names \ Hidden, mid.last < sRow[n], sRow[n] <= sPrev
                 PROVE  \E b \in InFlight' : b.files[n] = sRow[n]
      BY <1>2, <1>3
    <3>1. PICK b \in InFlight : b.files[n] = sRow[n]
      BY <1>1, <1>3 DEF Pipeline
    <3>2. b # mid
      BY <1>1, <1>3, <3>1 DEF BatchOK
    <3> QED BY <1>7, <3>1, <3>2
  <2> QED BY <1>2, <2>1, <2>2 DEF Pipeline, Before
<1>10. Handshake'
  BY <1>1, <1>2, <1>3 DEF Handshake
<1> QED BY <1>5, <1>8, <1>9, <1>10

-----------------------------------------------------------------------------

LEMMA StepInv == StableInv /\ [StableNext]_vars => StableInv'
<1> SUFFICES ASSUME StableInv, [StableNext]_vars PROVE StableInv'
  OBVIOUS
<1>1. CASE Connect
  BY <1>1, ConnectInv
<1>2. CASE Disconnect \/ RAbort \/ RReject \/ RAbortStart
  BY <1>2, HangupsInv
<1>3. ASSUME NEW n \in Names, NEW s \in 1..MaxSeq, LocalUpdate(n, s)
      PROVE  StableInv'
  BY <1>3, LocalUpdateInv
<1>4. ASSUME NEW n \in Names, DropFilesNamed(n) PROVE StableInv'
  BY <1>4, DropFilesNamedInv
<1>5. CASE SDropAllIndexIDs \/ SDropFolder \/ RDropAllIndexIDs \/ RDropFolder
  BY <1>5, ResetInv
<1>6. ASSUME NEW cc \in toS, SHandleCC(cc) PROVE StableInv'
  BY <1>6, SHandleCCInv
<1>7. ASSUME NEW cut \in 1..MaxSeq, ReadBatch(cut) PROVE StableInv'
  BY <1>7, ReadBatchInv
<1>8. CASE Flush
  BY <1>8, FlushInv
<1>9. ASSUME NEW cc \in sCC, SSendCC(cc) PROVE StableInv'
  BY <1>9, SSendCCInv
<1>10. CASE SPause \/ SResume \/ SResendCC
  BY <1>10, SConfigInv
<1>11. CASE RHandleCC
  BY <1>11, RHandleCCInv
<1>12. CASE RReceive
  BY <1>12, RReceiveInv
<1>13. CASE RUpdate
  BY <1>13, RUpdateInv
<1>14. CASE UNCHANGED vars
  <2>1. UNCHANGED <<sID, sSeq, sRow, rID, rSeq, rRow, up, sCfg, rCfg, sReg, rReg,
                    sh, sPrev, sOut, sInfo, rInfo, rh, mid, toR, toS, sCC, changes>>
    BY <1>14 DEF vars, dbVars, sVars, rVars, netVars
  <2>2. TypeOK' /\ DeltaComplete' /\ InFlight' = InFlight /\ Known' = Known
    BY <2>1 DEF StableInv, TypeOK, DeltaComplete, InFlight, Known
  <2>3. Pipeline'
    BY <2>1, <2>2 DEF StableInv, Pipeline, BatchOK, Before
  <2>4. Handshake'
    BY <2>1, <2>2 DEF StableInv, Handshake, StartSequence
  <2> QED BY <2>2, <2>3, <2>4 DEF StableInv
<1> QED
  BY <1>1, <1>2, <1>3, <1>4, <1>5, <1>6, <1>7, <1>8, <1>9, <1>10, <1>11, <1>12,
     <1>13, <1>14
  DEF StableNext, Normal, SNext, RNext, RFail

\* StableInv holds in every state that StableSpec reaches.
THEOREM StableInvariant == StableSpec => []StableInv
<1>1. Init => StableInv
  BY InitInv
<1>2. StableInv /\ [StableNext]_vars => StableInv'
  BY StepInv
<1> QED BY <1>1, <1>2, PTL DEF StableSpec

\* Every handler, message and row has its type, and a lost connection leaves
\* nothing behind in either registry.
THEOREM TypeCorrect == StableSpec => []TypeOK
<1>1. StableInv => TypeOK
  BY DEF StableInv
<1> QED BY <1>1, StableInvariant, PTL

\* Under S's index ID, R has every row up to the sequence number it announces:
\* the number newIndexHandler on S relies on to start a delta index.
THEOREM DeltaIsComplete == StableSpec => []DeltaComplete
<1>1. StableInv => DeltaComplete
  BY DEF StableInv
<1> QED BY <1>1, StableInvariant, PTL

\* When the exchange has come to rest, R has all of S's index.
THEOREM QuietIsSynced == StableSpec => []SyncedWhenQuiet
<1>1. StableInv => SyncedWhenQuiet
  <2> SUFFICES ASSUME StableInv, Quiet, NEW n \in Names \ Hidden, sRow[n] # 0
               PROVE  rRow[n] = sRow[n]
    BY DEF SyncedWhenQuiet, Synced
  <2> USE DEF StableInv
  <2>1. InFlight = {}
    BY DEF Quiet, InFlight, IsBatch, None
  <2>2. sRow[n] <= sPrev /\ sRow[n] \in Nat /\ sPrev \in Nat
    BY DEF Quiet, Unsent, Newer, TypeOK
  <2>3. Known \in Nat /\ ~(Known < sRow[n])
    BY <2>1, <2>2 DEF Pipeline, Known, TypeOK
  <2> QED BY <2>2, <2>3 DEF DeltaComplete, Known
<1> QED BY <1>1, StableInvariant, PTL

-----------------------------------------------------------------------------
(* The exchange implements IndexCopy.                                      *)

\* A batch that is applied is the next stretch of S's rows, complete.
LEMMA UpdateLearns == StableInv /\ RUpdate => Copy!Learn
<1> SUFFICES ASSUME StableInv, RUpdate PROVE Copy!Learn
  OBVIOUS
<1>1. StableInv'
  BY RUpdateInv
<1>2. /\ mid \in Batches /\ BatchOK(mid) /\ rID = sID /\ Known = rSeq
      /\ mid.files \in [Names -> Nat] /\ mid.last \in Nat
  BY MessageKinds
  DEF StableInv, RUpdate, TypeOK, InFlight, Pipeline, Handshake, Known, Batches
<1>3. /\ rSeq' = mid.last /\ UNCHANGED <<sID, sSeq, sRow, rID>>
      /\ rRow' = [n \in Names |-> IF mid.files[n] # 0 THEN mid.files[n]
                                  ELSE rRow[n]]
  BY DEF RUpdate
<1>4. rSeq < rSeq' /\ rSeq' <= sSeq /\ rRow' \in [Names -> Nat]
  BY <1>1, <1>2, <1>3 DEF StableInv, BatchOK, DeltaComplete, TypeOK
<1>5. \A n \in Names : \/ rRow'[n] = rRow[n]
                       \/ /\ rSeq < rRow'[n] /\ rRow'[n] <= rSeq'
                          /\ sRow[n] # 0 => rRow'[n] <= sRow[n]
  BY <1>2, <1>3 DEF BatchOK
<1>6. \A n \in Names \ Hidden :
         sRow[n] # 0 /\ sRow[n] <= rSeq' => rRow'[n] = sRow[n]
  BY <1>1, <1>2, <1>3 DEF StableInv, DeltaComplete
<1> QED BY <1>2, <1>3, <1>4, <1>5, <1>6 DEF Copy!Learn

\* Rows are dropped by a full index only while R has announced nothing.
LEMMA ReceiveLoses ==
    StableInv /\ RReceive => Copy!Lose \/ UNCHANGED Copy!copyVars
<1> SUFFICES ASSUME StableInv, RReceive
             PROVE  Copy!Lose \/ UNCHANGED Copy!copyVars
  OBVIOUS
<1> USE DEF StableInv
<1>1. toR[1] \in InFlight /\ Head(toR) = toR[1] /\ rID = sID
  BY NextMessage, MessageKinds DEF RReceive, Handshake, InFlight
<1>2. Head(toR).t = "index" => rSeq = 0
  BY <1>1 DEF Pipeline, BatchOK, Known
<1> QED
  BY <1>2 DEF RReceive, Copy!Lose, Copy!copyVars, Copy!NoneKnown, NoRows

\* A cluster config makes R file S under its index ID, or changes nothing.
LEMMA HandleCCAdopts ==
    StableInv /\ RHandleCC => Copy!Adopt \/ UNCHANGED Copy!copyVars
<1> SUFFICES ASSUME StableInv, RHandleCC
             PROVE  Copy!Adopt \/ UNCHANGED Copy!copyVars
  OBVIOUS
<1>1. Head(toR).id = sID
  BY TailFacts DEF StableInv, RHandleCC, Handshake, TypeOK
<1> QED
  BY <1>1 DEF RHandleCC, RStart, Copy!Adopt, Copy!copyVars, Copy!NoneKnown,
              NoRows

\* A crash of R between the two transactions of newIndexHandler.
LEMMA AbortStartLoses == StableInv /\ RAbortStart => Copy!Lose
<1> SUFFICES ASSUME StableInv, RAbortStart PROVE Copy!Lose
  OBVIOUS
<1>1. Head(toR).id = sID
  BY TailFacts DEF StableInv, RAbortStart, Handshake, TypeOK
<1> QED BY <1>1 DEF RAbortStart, Copy!Lose, Copy!NoneKnown, NoRows

\* The database resets of either side.
LEMMA ResetsMap ==
    /\ StableInv /\ (SDropAllIndexIDs \/ SDropFolder) => Copy!Restart
    /\ RDropAllIndexIDs \/ RDropFolder => Copy!Disown
<1>1. ASSUME StableInv, SDropAllIndexIDs PROVE Copy!Restart
  <2>1. sRow \in [Names -> Nat] /\ sSeq' \in Nat
    BY <1>1 DEF StableInv, TypeOK, SDropAllIndexIDs
  <2> QED BY <1>1, <2>1 DEF SDropAllIndexIDs, Copy!Restart
<1>2. ASSUME SDropFolder PROVE Copy!Restart
  BY <1>2 DEF SDropFolder, Copy!Restart, Copy!NoneKnown, NoRows
<1>3. ASSUME RDropAllIndexIDs \/ RDropFolder PROVE Copy!Disown
  BY <1>3 DEF RDropAllIndexIDs, RDropFolder, Copy!Disown, Copy!NoneKnown, NoRows
<1> QED BY <1>1, <1>2, <1>3

\* Every step of the exchange is a step of the copy or leaves both databases
\* alone.
LEMMA StepMaps ==
    StableInv /\ [StableNext]_vars => [Copy!CopyNext]_(Copy!copyVars)
<1> SUFFICES ASSUME StableInv, [StableNext]_vars
             PROVE  Copy!CopyNext \/ UNCHANGED Copy!copyVars
  OBVIOUS
<1> USE DEF Copy!CopyNext
<1>1. ASSUME NEW n \in Names, NEW s \in 1..MaxSeq, LocalUpdate(n, s)
      PROVE  Copy!Change(n)
  BY <1>1, BoundsAssumption DEF LocalUpdate, Copy!Change
<1>2. ASSUME NEW n \in Names, DropFilesNamed(n) PROVE Copy!Retract(n)
  BY <1>2 DEF DropFilesNamed, Copy!Retract
<1>3. CASE SDropAllIndexIDs \/ SDropFolder \/ RDropAllIndexIDs \/ RDropFolder
  BY <1>3, ResetsMap
<1>4. CASE RHandleCC \/ RReceive \/ RUpdate \/ RAbortStart
  BY <1>4, HandleCCAdopts, ReceiveLoses, UpdateLearns, AbortStartLoses
<1>5. CASE UNCHANGED dbVars
  BY <1>5 DEF dbVars, Copy!copyVars
<1>6. \/ Connect \/ Disconnect \/ RAbort \/ RReject
      \/ \E cc \in toS : SHandleCC(cc)
      \/ \E cut \in 1..MaxSeq : ReadBatch(cut)
      \/ Flush \/ (\E cc \in sCC : SSendCC(cc))
      \/ SPause \/ SResume \/ SResendCC \/ UNCHANGED vars
      => UNCHANGED dbVars
  BY DEF Connect, Disconnect, RAbort, RReject, SHandleCC, ReadBatch, Flush,
         SSendCC, SPause, SResume, SResendCC, vars
<1> QED
  BY <1>1, <1>2, <1>3, <1>4, <1>5, <1>6
  DEF StableNext, Normal, SNext, RNext, RFail

\* Whatever messages are under way and whoever restarts, R's copy of S's
\* index moves only in the steps IndexCopy allows.
THEOREM Refinement == StableSpec => ImplementsCopy
<1>1. Init => Copy!CopyInit
  BY DEF Init, Copy!CopyInit, Copy!NoneKnown, NoRows
<1>2. StableInv /\ [StableNext]_vars => [Copy!CopyNext]_(Copy!copyVars)
  BY StepMaps
<1> QED
  BY <1>1, <1>2, StableInvariant, PTL
  DEF StableSpec, ImplementsCopy, Copy!CopySpec


-----------------------------------------------------------------------------
(* Sequence numbers identify rows, and rows only become newer.             *)

UniqueIn(row) == \A m, n \in Names : row[m] = row[n] /\ row[n] # 0 => m = n

\* Numbers are unique in S's index, in every batch and in R's copy, and R's
\* copy of the current index holds nothing newer than what R announces: what
\* a batch brings is newer than all of it (BatchOK), so the two cannot meet.
UniqueInv ==
    /\ UniqueIn(sRow) /\ UniqueIn(rRow)
    /\ \A b \in InFlight : UniqueIn(b.files)
    /\ rID = sID => \A n \in Names : rRow[n] <= rSeq

LEMMA InitUnique == Init => UniqueInv
<1>1. Init => InFlight = {}
  BY DEF Init, InFlight, None, IsBatch
<1> QED BY <1>1 DEF Init, UniqueInv, UniqueIn, NoRows

\* Where the batches in flight can come from: no step but ReadBatch makes one.
LEMMA NoNewBatch ==
    ASSUME StableInv, StableNext, ~\E cut \in 1..MaxSeq : ReadBatch(cut)
    PROVE  InFlight' \subseteq InFlight
<1> USE DEF StableInv
<1>1. CASE Connect
  BY <1>1, MessageKinds DEF Connect, InFlight, CCFromS, IsBatch, sVars, rVars
<1>2. CASE Disconnect \/ RAbort \/ RReject \/ RAbortStart
  BY <1>2 DEF Disconnect, RAbort, RReject, RAbortStart, Hangup, InFlight, IsBatch,
              None
<1>3. CASE \/ \E n \in Names : \/ \E s \in 1..MaxSeq : LocalUpdate(n, s)
                               \/ DropFilesNamed(n)
           \/ SDropAllIndexIDs \/ SDropFolder \/ RDropAllIndexIDs \/ RDropFolder
  BY <1>3 DEF LocalUpdate, DropFilesNamed, SDropAllIndexIDs, SDropFolder,
              RDropAllIndexIDs, RDropFolder, InFlight, sVars, rVars, netVars
<1>4. CASE \/ \E cc \in toS : SHandleCC(cc)
           \/ SPause \/ SResume \/ SResendCC
  <2>1. sOut' \in {sOut, None} /\ UNCHANGED <<mid, toR>>
    BY <1>4 DEF SHandleCC, SPause, SResume, SResendCC, SStart, SRemove, sVars, rVars
  <2> QED BY <2>1, MessageKinds DEF InFlight
<1>5. CASE Flush
  <2>1. /\ sOut \in Batches \union SCCs /\ toR \in Seq(Batches \union SCCs)
        /\ sOut' = None /\ mid' = mid /\ toR' = Append(toR, sOut)
    BY <1>5 DEF Flush, TypeOK, rVars
  <2>2. \A i \in DOMAIN toR' : (i \in DOMAIN toR /\ toR'[i] = toR[i]) \/ toR'[i] = sOut
    BY <2>1, AppendFacts
  <2> QED BY <2>1, <2>2, MessageKinds DEF InFlight
<1>6. ASSUME NEW cc \in sCC, SSendCC(cc) PROVE InFlight' \subseteq InFlight
  <2>1. /\ cc \in SCCs /\ toR \in Seq(Batches \union SCCs)
        /\ sOut' = sOut /\ mid' = mid /\ toR' = Append(toR, cc)
    BY <1>6 DEF SSendCC, TypeOK, sVars, rVars
  <2>2. \A i \in DOMAIN toR' : (i \in DOMAIN toR /\ toR'[i] = toR[i]) \/ toR'[i] = cc
    BY <2>1, AppendFacts
  <2> QED BY <2>1, <2>2, MessageKinds DEF InFlight
<1>7. CASE RHandleCC \/ RReceive
  <2>1. /\ toR # <<>> /\ toR' = Tail(toR) /\ sOut' = sOut /\ mid' \in {mid, Head(toR)}
    BY <1>7 DEF RHandleCC, RReceive, sVars
  <2>2. {toR'[i] : i \in DOMAIN toR'} \subseteq {toR[i] : i \in DOMAIN toR}
    BY <2>1, NextMessage
  <2>3. mid' \in {mid} \union {toR[i] : i \in DOMAIN toR}
    BY <2>1, NextMessage
  <2> QED BY <2>1, <2>2, <2>3 DEF InFlight
<1>8. CASE RUpdate
  <2>1. mid' = None /\ UNCHANGED <<sOut, toR>>
    BY <1>8 DEF RUpdate, sVars, netVars
  <2> QED BY <2>1, MessageKinds DEF InFlight
<1> QED
  BY <1>1, <1>2, <1>3, <1>4, <1>5, <1>6, <1>7, <1>8
  DEF StableNext, Normal, SNext, RNext, RFail

\* R's rows after a step, against the rows before it.
LEMMA RowsStep ==
    ASSUME StableInv, UniqueInv, StableNext
    PROVE  /\ UniqueIn(rRow')
           /\ rID' = sID' => \A n \in Names : rRow'[n] <= rSeq'
           /\ \A n \in Names : rID' = rID /\ rRow'[n] # 0 => rRow'[n] >= rRow[n]
<1> USE DEF StableInv
<1>1. /\ sID \in Nat /\ rID \in Nat /\ rSeq \in Nat /\ rID <= sID
      /\ rRow \in [Names -> Nat]
  BY DEF TypeOK, Handshake
<1>2. CASE RUpdate
  <2>1. mid \in Batches /\ mid \in InFlight /\ BatchOK(mid) /\ rID = sID
    BY <1>2, MessageKinds DEF RUpdate, TypeOK, InFlight, Pipeline, Handshake
  <2>2. /\ mid.last \in Nat /\ rSeq < mid.last /\ mid.files \in [Names -> Nat]
        /\ \A n \in Names : mid.files[n] # 0 =>
              rSeq < mid.files[n] /\ mid.files[n] <= mid.last
        /\ UniqueIn(mid.files) /\ \A n \in Names : rRow[n] <= rSeq
    BY <2>1 DEF BatchOK, Batches, Known, UniqueInv
  <2>3. /\ rSeq' = mid.last /\ rID' = rID
        /\ \A n \in Names : rRow'[n] = IF mid.files[n] # 0 THEN mid.files[n]
                                       ELSE rRow[n]
    BY <1>2 DEF RUpdate
  <2>4. UniqueIn(rRow')
    BY <1>1, <2>2, <2>3 DEF UniqueIn, UniqueInv
  <2>5. \A n \in Names : rRow'[n] <= rSeq' /\ rRow'[n] >= rRow[n]
    <3> SUFFICES ASSUME NEW n \in Names PROVE rRow'[n] <= rSeq' /\ rRow'[n] >= rRow[n]
      OBVIOUS
    <3>1. rRow[n] \in Nat /\ mid.files[n] \in Nat /\ rRow[n] <= rSeq
      BY <1>1, <2>2
    <3> QED BY <1>1, <2>2, <2>3, <3>1
  <2> QED BY <2>4, <2>5
<1>3. CASE RHandleCC
  <2>1. Head(toR).id = sID
    BY <1>3, TailFacts DEF RHandleCC, Handshake, TypeOK
  <2>2. /\ sID' = sID
        /\ \/ UNCHANGED <<rID, rSeq, rRow>>
           \/ rRow' = NoRows /\ rSeq' = 0
    BY <1>3, <2>1 DEF RHandleCC, RStart
  <2> QED BY <1>1, <2>2 DEF UniqueIn, UniqueInv, NoRows
<1>4. CASE RReceive \/ RDropFolder \/ RAbortStart
  <2>1. sID' = sID /\ rID' \in {rID, 0} /\ (rRow' = rRow \/ rRow' = NoRows)
    BY <1>4 DEF RReceive, RDropFolder, RAbortStart
  <2>2. rID' = rID \/ rID' # sID
    BY <1>1, <2>1 DEF Handshake
  <2>3. rID' = rID => rSeq' = rSeq
    BY <1>4 DEF RReceive, RDropFolder, RAbortStart
  <2>4. \A n \in Names : rRow'[n] = rRow[n] \/ rRow'[n] = 0
    BY <2>1 DEF NoRows
  <2> QED BY <1>1, <2>1, <2>2, <2>3, <2>4 DEF UniqueIn, UniqueInv
<1>5. CASE SDropAllIndexIDs \/ SDropFolder \/ RDropAllIndexIDs
  <2>1. rRow' = rRow /\ rID' # sID'
    BY <1>1, <1>5 DEF SDropAllIndexIDs, SDropFolder, RDropAllIndexIDs, Handshake
  <2> QED BY <1>1, <2>1 DEF UniqueIn, UniqueInv
<1>6. CASE UNCHANGED <<sID, rID, rSeq, rRow>>
  BY <1>1, <1>6 DEF UniqueIn, UniqueInv
<1>7. \/ Connect \/ Disconnect \/ RAbort \/ RReject
      \/ \E n \in Names : \/ \E s \in 1..MaxSeq : LocalUpdate(n, s)
                          \/ DropFilesNamed(n)
      \/ \E cc \in toS : SHandleCC(cc)
      \/ \E cut \in 1..MaxSeq : ReadBatch(cut)
      \/ Flush \/ (\E cc \in sCC : SSendCC(cc))
      \/ SPause \/ SResume \/ SResendCC
      => UNCHANGED <<sID, rID, rSeq, rRow>>
  BY DEF Connect, Disconnect, RAbort, RReject, LocalUpdate, DropFilesNamed,
         SHandleCC, ReadBatch, Flush, SSendCC, SPause, SResume, SResendCC, dbVars
<1> QED
  BY <1>2, <1>3, <1>4, <1>5, <1>6, <1>7
  DEF StableNext, Normal, SNext, RNext, RFail

\* A new local number is larger than all others.
LEMMA LocalRowsStep ==
    ASSUME StableInv, UniqueInv, StableNext
    PROVE  UniqueIn(sRow')
<1> USE DEF StableInv
<1>1. /\ sSeq \in Nat /\ sRow \in [Names -> Nat]
      /\ \A n \in Names : sRow[n] <= sSeq
  BY DEF TypeOK, Handshake
<1>2. ASSUME NEW n \in Names, NEW s \in 1..MaxSeq, LocalUpdate(n, s)
      PROVE  UniqueIn(sRow')
  BY <1>1, <1>2, BoundsAssumption DEF LocalUpdate, UniqueIn, UniqueInv
<1>3. ASSUME NEW n \in Names, DropFilesNamed(n) PROVE UniqueIn(sRow')
  BY <1>1, <1>3 DEF DropFilesNamed, UniqueIn, UniqueInv
<1>4. CASE sRow' = sRow \/ sRow' = NoRows
  BY <1>4 DEF UniqueIn, UniqueInv, NoRows
<1>5. \/ Connect \/ Disconnect \/ RAbort \/ RReject \/ RAbortStart
      \/ SDropAllIndexIDs \/ SDropFolder \/ RDropAllIndexIDs \/ RDropFolder
      \/ RHandleCC \/ RReceive \/ RUpdate
      \/ \E cc \in toS : SHandleCC(cc)
      \/ \E cut \in 1..MaxSeq : ReadBatch(cut)
      \/ Flush \/ (\E cc \in sCC : SSendCC(cc))
      \/ SPause \/ SResume \/ SResendCC
      => sRow' = sRow \/ sRow' = NoRows
  BY DEF Connect, Disconnect, RAbort, RReject, RAbortStart, SDropAllIndexIDs,
         SDropFolder, RDropAllIndexIDs, RDropFolder, RHandleCC, RReceive, RUpdate,
         SHandleCC, ReadBatch, Flush, SSendCC, SPause, SResume, SResendCC, dbVars
<1> QED
  BY <1>2, <1>3, <1>4, <1>5 DEF StableNext, Normal, SNext, RNext, RFail

LEMMA UniqueStep == StableInv /\ UniqueInv /\ [StableNext]_vars => UniqueInv'
<1> SUFFICES ASSUME StableInv, UniqueInv, [StableNext]_vars PROVE UniqueInv'
  OBVIOUS
<1>1. CASE StableNext
  <2>1. UniqueIn(rRow') /\ (rID' = sID' => \A n \in Names : rRow'[n] <= rSeq')
    BY <1>1, RowsStep
  <2>2. UniqueIn(sRow')
    BY <1>1, LocalRowsStep
  <2>3. \A b \in InFlight' : UniqueIn(b.files)
    <3>1. ASSUME NEW cut \in 1..MaxSeq, ReadBatch(cut)
          PROVE  \A b \in InFlight' : UniqueIn(b.files)
      <4>1. /\ mid' = mid /\ toR' = toR
            /\ sOut' # None => \A n \in Names : sOut'.files[n] \in {sRow[n], 0}
        BY <3>1 DEF ReadBatch, rVars, netVars
      <4>2. sOut' # None => UniqueIn(sOut'.files)
        BY <4>1 DEF UniqueIn, UniqueInv
      <4>3. \A b \in InFlight' : b \in InFlight \/ (b = sOut' /\ sOut' # None)
        BY <4>1, MessageKinds DEF InFlight
      <4> QED BY <4>2, <4>3 DEF UniqueInv
    <3>2. CASE ~\E cut \in 1..MaxSeq : ReadBatch(cut)
      BY <1>1, <3>2, NoNewBatch DEF UniqueInv
    <3> QED BY <3>1, <3>2
  <2> QED BY <2>1, <2>2, <2>3 DEF UniqueInv, UniqueIn
<1>2. CASE UNCHANGED vars
  <2>1. UNCHANGED <<sID, sRow, rID, rSeq, rRow, mid, sOut, toR>>
    BY <1>2 DEF vars, dbVars, sVars, rVars, netVars
  <2> QED BY <2>1 DEF UniqueInv, UniqueIn, InFlight
<1> QED BY <1>1, <1>2

\* For any files, batches and bounds, as long as R's configuration is left
\* alone: no two of the rows R holds of S share a sequence number, so Update's
\* INSERT OR REPLACE evicts nothing on the unique index over them.
THEOREM NothingIsEvicted == StableSpec => []NoEviction
<1>1. Init => UniqueInv
  BY InitUnique
<1>2. StableInv /\ UniqueInv /\ [StableNext]_vars => UniqueInv'
  BY UniqueStep
<1>3. UniqueInv => NoEviction
  BY DEF UniqueInv, UniqueIn, NoEviction
<1> QED BY <1>1, <1>2, <1>3, StableInvariant, PTL DEF StableSpec

\* In the same setting: under one index ID, R never replaces a row of S by an
\* older one, whatever is sent again, dropped or interrupted.
THEOREM RowsDoNotRegress == StableSpec => NoRegress
<1>1. Init => UniqueInv
  BY InitUnique
<1>2. StableInv /\ UniqueInv /\ [StableNext]_vars => UniqueInv'
  BY UniqueStep
<1>3. ASSUME StableInv, UniqueInv, [StableNext]_vars
      PROVE  [\A n \in Names : rID' = rID /\ rRow'[n] # 0 => rRow'[n] >= rRow[n]]_vars
  BY <1>3, RowsStep
<1> QED BY <1>1, <1>2, <1>3, StableInvariant, PTL DEF StableSpec, NoRegress
=============================================================================
