------------------------------ MODULE TempIndex ------------------------------
(***************************************************************************)
(* What a device tells another one about the blocks in its temporary files *)
(* (lib/model/progressemitter.go, sentdownloadstate.go), and what the      *)
(* other one makes of that (devicedownloadstate.go), for one file of one   *)
(* folder and one connection at a time.                                    *)
(*                                                                         *)
(* The emitter's Serve loop computes the updates under its lock and sends  *)
(* them after having released it.  Time stamps are numbers, new for every  *)
(* event that takes one.                                                   *)
(***************************************************************************)
EXTENDS Integers, Sequences, FiniteSets

CONSTANTS TempVersions,  \* versions of the file
          TempBlocks,    \* its blocks
          MaxStamp       \* bound: pullers and blocks

ASSUME TempAssumption == MaxStamp \in Nat /\ "none" \notin TempVersions

VARIABLES
    puller,     \* the registry: the file's puller, or NoPuller
    stamp,      \* the last time stamp
    timer,      \* the emitter's timer is running
    disabled,
    lastSeen,   \* lastUpdate and lastCount of the Serve loop
    sent,       \* sentDownloadStates, for the file, or NoSent
    subscribed, \* connections has the device
    unsent,     \* progressUpdates that are computed but not sent
    connected,
    inFlight,       \* DownloadProgress messages on the connection
    downloads,  \* the other device's deviceDownloads, for the file, or NoSent
    raced       \* the emitter was disabled between computing and sending

tempVars == <<puller, stamp, timer, disabled, lastSeen, sent, subscribed,
              unsent, connected, inFlight, downloads, raced>>

NoPuller == [v |-> "none", created |-> 0, avail |-> <<>>, updated |-> 0]
NoSent == [v |-> "none", created |-> 0, blocks |-> <<>>, updated |-> 0]

ForgetUpdate(v) == <<[type |-> "forget", v |-> v, blocks |-> <<>>]>>
AppendUpdate(v, bs) == <<[type |-> "append", v |-> v, blocks |-> bs]>>

\* What the sent state is after everything of the puller p has been sent.
SentAll(p) == [v |-> p.v, created |-> p.created, blocks |-> p.avail,
               updated |-> p.updated]

Count == IF puller = NoPuller THEN 0 ELSE 1
NewestUpdate == IF puller.updated > lastSeen.update THEN puller.updated
                ELSE lastSeen.update

-----------------------------------------------------------------------------
(* sentFolderDownloadState.update                                          *)

\* Mutant: a puller that was made anew for the same version is not noticed.
UpdatesCreated(s, p) ==
    IF s = NoSent
    THEN IF p.avail = <<>> THEN <<>> ELSE AppendUpdate(p.v, p.avail)
    ELSE IF p = NoPuller THEN ForgetUpdate(s.v)
    ELSE IF s.updated = p.updated /\ s.v = p.v THEN <<>>
    ELSE IF s.v # p.v
    THEN ForgetUpdate(s.v) \o AppendUpdate(p.v, p.avail)
    ELSE IF Len(p.avail) <= Len(s.blocks) THEN <<>>
    ELSE AppendUpdate(s.v, SubSeq(p.avail, Len(s.blocks) + 1, Len(p.avail)))

\* The updates to send for a puller that is read as p (or none), the state s
\* having been sent before.
Updates(s, p) ==
    IF s = NoSent
    THEN IF p.avail = <<>> THEN <<>> ELSE AppendUpdate(p.v, p.avail)
    ELSE IF p = NoPuller THEN ForgetUpdate(s.v)
    ELSE IF s.updated = p.updated /\ s.v = p.v THEN <<>>
    ELSE IF s.v # p.v \/ s.created # p.created
    THEN ForgetUpdate(s.v) \o AppendUpdate(p.v, p.avail)
    ELSE LET new == SubSeq(p.avail, Len(s.blocks) + 1, Len(p.avail))
         IN IF new = <<>> THEN <<>> ELSE AppendUpdate(s.v, new)

\* The state that is kept of what was sent.
SentAfter(s, p) ==
    IF p = NoPuller \/ (s = NoSent /\ p.avail = <<>>) THEN NoSent
    ELSE IF s # NoSent /\ s.updated = p.updated /\ s.v = p.v THEN s
    ELSE SentAll(p)

-----------------------------------------------------------------------------
(* The emitter.                                                            *)

\* Register, by a copier, of a puller that found the blocks reused; one that is
\* still registered for the file (its temporary file could not be opened when
\* it was to be closed) is replaced.
Register(v, reused) ==
    /\ stamp < MaxStamp /\ ~disabled
    /\ stamp' = stamp + 1
    /\ puller' = [v |-> v, created |-> stamp', avail |-> reused,
                  updated |-> stamp']
    /\ timer' = (timer \/ puller = NoPuller)
    /\ UNCHANGED <<disabled, lastSeen, sent, subscribed, unsent, connected,
                   inFlight, downloads, raced>>

\* copyDone and pullDone, for the emitter, whose lock they do not take.
BlockReady(b) ==
    /\ stamp < MaxStamp /\ puller # NoPuller
    /\ \A i \in DOMAIN puller.avail : puller.avail[i] # b
    /\ stamp' = stamp + 1
    /\ puller' = [puller EXCEPT !.avail = Append(@, b), !.updated = stamp']

BlockAvailable(b) ==
    /\ BlockReady(b)
    /\ UNCHANGED <<timer, disabled, lastSeen, sent, subscribed, unsent,
                   connected, inFlight, downloads, raced>>

Deregister ==
    /\ puller # NoPuller
    /\ puller' = NoPuller
    /\ UNCHANGED <<stamp, timer, disabled, lastSeen, sent, subscribed, unsent,
                   connected, inFlight, downloads, raced>>

\* The timer fires: the locked part of Serve with computeProgressUpdates, which
\* reads the puller as p.
TickReads(p) ==
    /\ timer /\ unsent = <<>>
    /\ timer' = (Count # 0)
    /\ lastSeen' = [update |-> NewestUpdate, count |-> Count]
    /\ IF lastSeen' # lastSeen /\ subscribed
       THEN unsent' = Updates(sent, p) /\ sent' = SentAfter(sent, p)
       ELSE /\ UNCHANGED unsent
            /\ sent' = IF lastSeen' # lastSeen THEN NoSent ELSE sent
    /\ UNCHANGED <<disabled, subscribed, connected, inFlight, downloads, raced>>

Tick == TickReads(puller) /\ UNCHANGED <<puller, stamp>>

\* The same with a block that becomes available after Updated was read: before
\* Available is read, or between that and AvailableUpdated.
TickMeanwhile(b) ==
    /\ BlockReady(b)
    /\ \E avail \in {puller.avail, puller'.avail} :
          TickReads([puller' EXCEPT !.avail = avail])

\* The rest of it: update.send.
SendUpdates ==
    /\ unsent # <<>>
    /\ inFlight' = IF connected THEN Append(inFlight, unsent) ELSE inFlight
    /\ unsent' = <<>>
    /\ UNCHANGED <<puller, stamp, timer, disabled, lastSeen, sent, subscribed,
                   connected, downloads, raced>>

\* CommitConfiguration with an update interval of zero: clearLocked.
Disable ==
    /\ ~disabled
    /\ disabled' = TRUE
    /\ inFlight' = IF sent # NoSent /\ subscribed THEN Append(inFlight, ForgetUpdate(sent.v))
               ELSE inFlight
    /\ puller' = NoPuller
    /\ sent' = NoSent
    /\ subscribed' = FALSE
    /\ raced' = (raced \/ unsent # <<>>)
    /\ UNCHANGED <<stamp, timer, lastSeen, unsent, connected, downloads>>

Enable ==
    /\ disabled
    /\ disabled' = FALSE
    /\ UNCHANGED <<puller, stamp, timer, lastSeen, sent, subscribed, unsent,
                   connected, inFlight, downloads, raced>>

\* temporaryIndexSubscribe, when a ClusterConfig has been received.
TemporaryIndexSubscribe ==
    /\ connected /\ ~subscribed
    /\ subscribed' = TRUE
    /\ UNCHANGED <<puller, stamp, timer, disabled, lastSeen, sent, unsent,
                   connected, inFlight, downloads, raced>>

-----------------------------------------------------------------------------
(* The other device.                                                       *)

\* deviceFolderDownloadState.Update, for one update.
Apply(local, u) ==
    IF u.type = "forget"
    THEN IF local.v = u.v THEN NoSent ELSE local
    ELSE [NoSent EXCEPT !.v = u.v,
                        !.blocks = IF local.v = u.v THEN local.blocks \o u.blocks
                                   ELSE u.blocks]

\* DownloadProgress. A message has at most two updates for a file.
ReceiveUpdates ==
    /\ inFlight # <<>>
    /\ LET us == Head(inFlight)
           one == Apply(downloads, us[1])
       IN downloads' = IF Len(us) = 1 THEN one ELSE Apply(one, us[2])
    /\ inFlight' = Tail(inFlight)
    /\ UNCHANGED <<puller, stamp, timer, disabled, lastSeen, sent, subscribed,
                   unsent, connected, raced>>

\* Closed, on both sides: temporaryIndexUnsubscribe, and the other side drops
\* its deviceDownloads.
Disconnect ==
    /\ connected
    /\ connected' = FALSE
    /\ subscribed' = FALSE
    /\ inFlight' = <<>>
    /\ downloads' = NoSent
    /\ unsent' = <<>>
    /\ UNCHANGED <<puller, stamp, timer, disabled, lastSeen, sent, raced>>

\* AddConnection.
Connect ==
    /\ ~connected
    /\ connected' = TRUE
    /\ UNCHANGED <<puller, stamp, timer, disabled, lastSeen, sent, subscribed,
                   unsent, inFlight, downloads, raced>>

\* Has: what blockAvailabilityFromTemporary asks.
Has(v, b) ==
    downloads.v = v /\ \E i \in DOMAIN downloads.blocks : downloads.blocks[i] = b

-----------------------------------------------------------------------------

TempInit ==
    /\ puller = NoPuller /\ stamp = 0
    /\ timer = TRUE /\ disabled = FALSE
    /\ lastSeen = [update |-> 0, count |-> 0]
    /\ sent = NoSent /\ subscribed = FALSE /\ unsent = <<>>
    /\ connected = FALSE /\ inFlight = <<>> /\ downloads = NoSent
    /\ raced = FALSE

TempNext ==
    \/ \E v \in TempVersions :
          \/ Register(v, <<>>)
          \/ \E b \in TempBlocks : Register(v, <<b>>)
    \/ \E b \in TempBlocks : BlockAvailable(b) \/ TickMeanwhile(b)
    \/ Deregister \/ Tick \/ SendUpdates \/ Disable \/ Enable \/ TemporaryIndexSubscribe
    \/ ReceiveUpdates \/ Disconnect \/ Connect

TempSpec == TempInit /\ [][TempNext]_tempVars

\* Once the emitter has nothing more to say and its messages have arrived, the
\* other device expects a block in a temporary file only if the puller of that
\* version is there and has it. (A configuration change that disables the
\* emitter between Serve's computing and its sending of updates overtakes them,
\* and leaves the other device with blocks that are gone.)
TempBlocksReal ==
    /\ ~timer \/ lastSeen = [update |-> NewestUpdate, count |-> Count]
    /\ unsent = <<>> /\ inFlight = <<>> /\ ~raced
    => \A v \in TempVersions, b \in TempBlocks :
          Has(v, b) => /\ puller.v = v
                       /\ \E i \in DOMAIN puller.avail : puller.avail[i] = b
=============================================================================
