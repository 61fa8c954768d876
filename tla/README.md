# Verification of the synchronisation core

TLA+ models of the parts of syncthing that decide what devices know of each
other's files, over which connection they learn it, and what they do to the
files on disk. Every module is translated from the Go source and the SQL schema;
`PROJECT.json` maps each definition to the lines it stands for.

- [The system](#the-system): components, their state, and what is hard about them
- [Modules](#modules): how state and actions correspond to the code
- [Runs](#runs): what TLC checks, bounds, fairness
- [Proofs](#proofs): what TLAPS proves, and along which argument
- [Findings](#findings): where the code and what it says of itself disagree
- [Observations](#observations), [Abstractions](#abstractions),
  [Not modelled](#not-modelled) and [Plan](#plan)

To repeat a run or a proof:

    tlc -config IndexStable.cfg MCIndexExchange
    tlapm IndexExchangeProofs.tla

## The system

A device keeps, for each shared folder, a database with one row per file name
and device: what it has itself (the rows of the local device) and what every
other device has announced. Devices exchange these *indexes* over BEP
connections, compare versions to find the *global* one of each name, and
request the blocks of what they *need*. Scans, started by timers, requests and a
file system watcher, find what the user has changed; pulls bring the disk to the
global state. The configuration says which folders and devices there are; the
model and the connections service follow its changes.

| Component | State | Operations | Talks to | Hard because |
|---|---|---|---|---|
| Index exchange: `lib/model/indexhandler.go`, `model.go`, `folderdb_indexid.go` | rows and `indexids` of each device; registry of handlers, start infos, `localPrevSequence` | cluster config, start, pause, resume, remove, send batch, receive index | database, connection, configuration | what is missing is inferred from one number; crashes between transactions, configs overtaking each other, restarts of one side |
| Index handler: `indexhandler.go` | pause flag, condition variable, context | Serve, pause, resume, remove | registry mutex, supervisor | condition variable and context are two wake-up channels with two locks |
| Folders in the model: `model.go`, `indexhandler.go` | `folderCfgs`, `folderRunners`, the registry's `folderStates`, `startInfos` and handlers | newFolder, restartFolder, removeFolder, ensureIndexHandler, ccHandleFolders | configuration, connection | the configuration is replaced before the model commits it, and messages are handled in between |
| Sharing: `model.go`, `lib/config` | devices, folders' devices with `IntroducedBy` | introductions, de-introductions, automatic accepts | configuration, cluster configs | several introducers and the user change the same lists |
| Connection: `lib/protocol/protocol.go` | `awaiting`, four unbuffered channels, `closed` | Request, serve, Close, internalClose, three loops | model callbacks | anybody may close at any time, also from inside a callback |
| Connections of a device: `model.go` | `deviceConnIDs`, `promotedConnID`, registry per device | AddConnection, promote, Closed, ClusterConfig, Index | connections service, timer, both ends | the two ends decide separately and in their own order |
| Connections service: `lib/connections` | tracker, limits, stability and priority scores | accept, hello, account, dial now | model, discovery, relays | a check before the hello, bookkeeping after it, mutexes of four objects |
| Folder IO limiter: `model.go`, `folder.go` | slots | pull, Index, IndexUpdate | semaphore, dispatcher | pulls wait for the dispatcher, the dispatcher for pulls |
| Folder database: `internal/db/sqlite` | rows with global and need flags, counts | Update, drops, periodic collection | everybody | flags and counts are maintained incrementally |
| Folder runner: `folder.go` | timers, one-place channels, folder error, watcher | Serve, scan, pull, setError, monitorWatch | database, limiter, watcher | requests coalesce; errors cancel and re-arm timers |
| Folder types: `folder_sendonly.go`, `folder_recvonly.go`, `folder_recvenc.go`, `scanner/walk.go` | local flags and versions | scan, pull, Override, Revert | database, disk | a version has to stand for one content on every path |
| Puller pipeline: `folder_sendrecv.go`, `sharedpullerstate.go`, `queue.go` | per-file shared state, queue, channels | copy, pull, finish, record | connection, database, disk | routines share the state of a file and are shut down in turn |
| Items on disk: `folder_sendrecv.go` | disk, rows, updates not yet written | replace, delete, rename, shortcut | user, scans, crashes | files change under the puller |
| Progress emitter: `progressemitter.go`, `sentdownloadstate.go`, `devicedownloadstate.go` | sent and received block lists | register, compute, send, receive | puller, connection | updates are computed under a lock and sent without it |
| Watcher: `lib/watchaggregator` | tree of events, counters, timer | event, aggregate, pop, notify | runner | merging of events at limits, batches in flight |
| Configuration: `lib/config/wrapper.go` | configuration, queue, subscribers, waiters | Modify, Serve, Subscribe, Save | everybody | concurrent commits, subscribers that come and go |
| Events: `lib/events` | subscriptions, their IDs, ring | Log, Subscribe, Since | REST API | drops for slow readers, compaction on leaving |
| Semaphore: `lib/semaphore` | counter, capacity, condition variable | Take, Give, SetCapacity | request, folder IO, write limits | capacity changes under way, contexts |
| Scanner, encryption, encodings, discovery, NAT, relays, API, GUI | | | | see [Not modelled](#not-modelled) |

The properties that make these correct:

- **Index exchange.** A device that announces a sequence for an index has all
  rows up to it; an exchange at rest has delivered everything; on a lasting
  connection it gets there; rows never go back or evict each other. In short: it
  implements a copy that only ever catches up (`IndexCopy`).
- **Index handler.** No resume is slept through; pausing stops sending; what is
  new is sent.
- **Folders in the model.** Once changes and cluster configs have been handled,
  the runner is the current one and the index handler works with it.
- **Sharing.** What the user or one introducer has set up is not undone by another.
- **Connection.** A channel ends once, no call and no buffer waits for nobody,
  messages leave in a legal order, closing ends and is the last the model hears.
- **Connections of a device.** A promotion is always finished, and indexes find
  their handler. **Connections service.** A connection that got through its hello
  is served.
- **Folder IO limiter.** An index message is received in the end.
- **Folder database.** One global row per name, needed exactly if it is not what
  we have; a version that outdoes all others is the global one; counts count.
- **Folder runner.** No request for a pull is lost, and a needed item leads to a
  pull. **Folder types.** A version means one content; folders that only receive
  announce nothing of their own.
- **Puller.** Only complete files are recorded, nobody writes to a closed file,
  every file is settled, the stages drain, the iteration returns. **Items on
  disk.** No content goes that is not recorded, kept somewhere or given up by a
  rule the user has set.
- **Progress.** The other device expects only blocks that are there. **Watcher.**
  Every change stays covered until it is scanned. **Configuration.** Subscribers
  see a chain of configurations, applied changes stay and are saved unless saving
  fails. **Events.** A client misses
  only what was dropped.
- **Semaphore.** Nobody sleeps on a request that fits, no unit is lost.

The 40 hazards in `PROJECT.json` are the places where these are at stake, each
with the properties that watch it.

## Modules

`...Proofs` holds theorems. Definitions marked *Mutant* are faulty variants used
to show that a property can fail. Three catalogs, `MCServices`, `MCParts` and
`MCFolder`, instantiate several components that share no state: a variable says
which component a behaviour is about, and all others keep their initial values.
The state graphs are added, not multiplied. In `MCServices` the fairness is a
disjunction: the fairness of the component the behaviour is about.

### Index exchange

**IndexExchange.** One folder from S to R. A row is its sequence number. R's
database is `rID`, `rSeq`, `rRow`; S's `sID`, `sSeq`, `sRow`. The registries'
`folderStates`, `startInfos` and handlers are `sReg`, `sInfo`, `sh` and `rReg`,
`rInfo`, `rh`. Handlers that commit twice are two actions with the state in
between (`mid` between `DropAllFiles` and `Update`; `RAbortStart` between
`DropAllFiles` and `SetIndexID`), so that a crash can come there. The dispatcher
handles messages in order (`toR`); cluster configs that are sent from goroutines
of their own may overtake each other (`toS`, `sCC`). Three specifications differ
in what R's configuration may do: `StableSpec` (nothing; failures allowed),
`NoFailSpec` (changes and resent cluster configs; no failures), `Spec`
(everything, unsharing included).

**IndexCopy** is the abstract specification: a source with numbered rows, and a
copy that learns them in order, announces up to where it is complete, and may
start over. `ImplementsCopy` in IndexExchange states the refinement, in which
the messages, handlers and connections are hidden.

**IndexHandler.** `Serve` point by point, with `waitWhilePaused`, the goroutine
that broadcasts when the context quits, and the registry, which stops a handler
with its own mutex held. IndexExchange treats a batch as read and sent without
regard to where in its loop the handler is; this module is about the loop.

**FolderStates.** One folder and one connection. `fcfg` is what the wrapper's
configuration says, `commit` the model's CommitConfiguration between its
critical sections, `folderCfgs` and `folderRunners` the model's maps, `registry`
the index handler registry, `handling` a ClusterConfig between its own. A start of
a handler may fail, after which there is neither a handler nor a start info;
`registry.failed` remembers that the last one did.

**Sharing.** `shares` is the folders' device lists with `IntroducedBy`, `devs` the
devices. `CCAccepts` and `CCIntroduces` are the two modifications of
ClusterConfig, with what it read of the sender at its start; each is followed by
`Prepare`.

### Connections

**RawConnection.** The reader, writer and dispatcher loops, `Request` calls, the
goroutines that serve the peer, `Close` and `internalClose`. An unbuffered
channel is a rendezvous of both sides in one step. Every select on one also has
`<-c.closed`: a goroutine parked there is woken by `close(closed)` and none
parks afterwards, so no rendezvous happens after it.

**ConnectionPromotion.** Both ends of the connections between two devices: `ids`
is `deviceConnIDs`, `actions` the post-lock actions of `promoteConnections`,
`registry` and `handler` the index handler registry and whether it knows the
folder. Dialling and losing a connection are external.

**ConnService.** Connections from `Accept` through `connectionCheckEarly`, hello,
`handleHellos` and the tracker to the model. Whether a connection is refused for
its certificate, its network or an ignored device is a choice. The two goroutines that run
`handleConns` and the one that runs `handleHellos` take `connectionsMut` and the
stability manager's mutex explicitly, since the question is who holds what.

**PullDispatch** composes pulls, the folder IO limiter and the dispatcher of one
connection, each reduced to what it holds and what it waits for, with the
receive timeout.

**Semaphore.** `max`, `available` are the fields; `mut` is the owner of the mutex.
Each call is a goroutine whose `pc` separates the points where it can be
preempted: before the first context check, before the mutex, between the decision
to wait and joining the wait list, on the list, and woken without the mutex.
`Cancel` ends a context; `OuterBroadcast` is the broadcast of `TakeWithContext`,
which does not hold the mutex. `Give` and `SetCapacity` are atomic because they
hold it throughout.

### Files

**FolderDB.** The rows of one name. `Beats` is `fileRow.Compare`; because it is
not transitive, `Orders` is the set of results `slices.SortFunc` may produce,
namely those in which no row directly follows one that it beats. `Recalc` is
`recalcGlobalForFile`; the three triggers on the counts table are applied by each
operation in the order SQLite fires them. Times are those of the files and in any
relation to the versions. `whole` is history: no row has gone since the flags were
last set. **Vectors** has the version vectors,
which FolderKinds uses too.

**FolderKinds.** One item of a folder whose type may change: the row with its local
flags, the disk, and a peer. `ScanChangedAndNew` and `ScanDeletedAndIgnored` are
the two halves of a scan, and the user acts between them.

**FolderRunner.** `serve` is where the goroutine of Serve is: at its select or
inside an operation. `timers` and `chans` are the timers that run and the filled
channels (the pull timer has a step of its own for going off, because a request
sets it anew until then and after it), `initial` the initial scan, `folderErr` the folder's error, `watch` the
watcher's goroutine.

**Puller.** One pullerIteration: the main goroutine, copiers, puller, requests,
finisher and database updater with their program counters, and a
`sharedPullerState` per file.

**PullItem.** Three items, one inside another: `disk`, `cur` (our rows), `glob`,
`jobs` (updates of the database that are not written yet), `saved` (archived
versions, and what a rename has under a temporary name) and `copies` (the conflict
copies of each item, the newest first, trimmed to `MaxConflicts`). Items in
`ConflictNames` are conflict copies themselves, those in `deletable` may go with
their directory. One action per handler of the puller.

**TempIndex**, **WatchAggregator**, **ConfigWrapper** and **EventLog** follow one
source file each; their headers say what is state and what is left out.

## Runs

| Run | Bounds | Shows |
|---|---|---|
| `index_stable` | 3 files, one hidden; 3 changes, 2 index IDs, batches of 1 | the delta exchange is complete, converges and implements IndexCopy, through lost connections, crashes, resets and pauses |
| `index_resend` | 2 files, 2 changes | violation: finding 1 |
| `services` | 2 goroutines with sizes 1 and 3, capacities 0, 1, 3; 3 sends of a handler; 2 connections with queues of 1; 2 folders, 2 slots, 3 messages | no lost wake-ups or units, cancelled calls return; no resume slept through, pausing stops, what is new is sent; promotions end; index messages are received |
| `conn_safety` | 1 call, 1 request of the peer | channels, buffers, order on the wire, last call into the model |
| `conn_live` | 1 call | closing ends and everybody returns |
| `promotion_index` | 2 connections, queues of 2 | violation: finding 2 |
| `parts` | 3 devices, 3 versions, 2 times; 4 user actions, 2 of the peer; 3 items, 1 conflict copy kept of each; 2 versions of 2 blocks, 3 stamps; 3 paths, limits of 2 and 1; 3 modifications, 2 subscribers; 3 events, ring of 2 | database flags and counts; versions and local flags; no content lost on disk; temporary indexes; covered changes; configuration commits; polling |
| `folder` | 1 folder, 4 configuration changes; 3 devices, 2 folders, 3 cluster configs, 1 edit | pulls are not lost and begin; runner and index handler follow the configuration; shares are kept |
| `puller` | files of 2 and 1 blocks, 1 copier, 2 pending requests | the pipeline records only complete files, settles every file and drains |
| `puller_return` | the same | violation: finding 3 |
| `conn_tracker` | 2 devices, 2 connections | violation: finding 4 |
| `receiveonly_deletion` | 2 contents, 2 user actions, 3 of the peer | violation: finding 5 |

**Why these bounds are enough for the questions asked.** In the exchange, a gap
needs one row that is delivered and one that is not, hence two visible files;
the third is hidden, to have positions pass what is not sent. Two index IDs make
a reset visible, batches of one file make every index span several messages. Two
takers with sizes above the capacity are what it takes for one to wait for the
other and for a clamped request. The connection's calls do not see each other
except through the writer and the map, which the theorems cover for any number.
Two connections are the least for a secondary one, and with both ends they cross
in every order. Two folders and two slots let pulls fill the limiter. Three
versions, two in line and one in conflict with both, with two times in every
combination that orders them differently (`MCTimes`), are the least for a circle of
the comparison; one conflict copy and a limit of one let a second conflict trim it. A folder's item needs two changes of the user and one of the peer
for a conflict, and one more for a Revert or a change of type. A directory, an
item in it and one beside it are the operands of every handler on disk. The
aggregator's limits are below the number of paths, so both kinds of merging
happen. Three modifications by three callers against two subscribers let one
modification wait while another is committed and a subscriber leaves. Three
events with a ring of two overwrite. A folder that is paused, unshared, shared
and resumed takes four changes. Two introducers and a third device, with two
folders, are the least for a device to be held by one introducer's share when the
other withdraws; that takes three cluster configs. A file of two blocks lets
copying and pulling of one file overlap, and the second file lets a stage be busy
with another one.

**Fairness.** Goroutines that can run do run (weak fairness of their steps), and
what is written to a connection arrives while it is up. Strong fairness is used
where a goroutine blocked on a mutex or a semaphore gets it although others take
it in between, since `sync.Mutex` hands over to a starving waiter (`Lock`,
`Relock`, `Give` of Semaphore; `IndexTakes` and `PullGives` of PullDispatch); and
where a `select` with several ready branches picks at random, so does not pass one
over for ever (`HandlerDone` of IndexHandler, `PostLockAction` of
ConnectionPromotion, waiting for `writerLoop`, and the branches of the folder's
Serve in FolderRunner). Timers that are not put off go off in the end: the receive
timeout of PullDispatch and the scan timer of FolderRunner, which requests only set
to go off at once (`DelayScan` is therefore not among them). Scans end, the I/O
limiter has a slot in the end, and counting what is needed does not fail every
time. Nothing that depends on
users, networks or failures is fair: nobody has to change a file, lose or dial a
connection, cancel, pause or resume. `NeededIsPulled` is about the runner, and has
what it needs of others as hypotheses: the folder's health recovers for good, the
folder is not stopped, no pull hangs (by finding 3 they do), and the pull timer is
not put off for ever by ever new requests. `Converges` asks for a connection that
lasts.

**Deadlock** is checked in `services`, `conn_safety`, `index_stable`,
`index_resend` and `promotion_index`. The other instances end by their bounds or by the system's own
end (a closed connection, a finished iteration, a service that is stopped);
there, what must not stop is a liveness property or a statement about the state
at rest (`CloseCompletes`, `PipelineDrains`, `AllSettled`, `HandlersFollow`).

## Proofs

TLAPS proves the following for every value of the constants (any number of
goroutines, files, calls, devices, versions; bounds are arbitrary numbers).

| Module | Theorem | States |
|---|---|---|
| SemaphoreProofs | `TypeCorrect`, `NoLostWakeup`, `UnitsAreNotLost` | `TypeOK`, `ParkedOnlyWhenShort`, `NoUnitsLost` |
| IndexExchangeProofs | `StableInvariant`, `TypeCorrect`, `DeltaIsComplete`, `QuietIsSynced`, `Refinement`, `NothingIsEvicted`, `RowsDoNotRegress` | `StableInv`, `TypeOK`, `DeltaComplete`, `SyncedWhenQuiet`, `ImplementsCopy`, `NoEviction`, `NoRegress`, all under `StableSpec` |
| IndexHandlerProofs | `HandlerTypes`, `NoLostResume`, `PauseBounds` | `HandlerTypeOK`, `AsleepOnlyWhilePaused`, `PauseStopsSending` |
| RawConnectionProofs | `ConnectionTypes`, `ChannelsEndOnce`, `NoCallIsStranded`, `NoCallAfterClosed`, `WireIsOrdered`, `NoBufferIsStranded` | `TypeOK`, `AwaitingOpen`, `NoStrandedRequest`, `ClosedIsLast`, `WireOrder`, `NoStrandedBuffer` |
| FolderDBProofs | `FolderTypes`, `LocalIsJudged`, `CountsAreExact`, `NewestRowWins` | types and places of the flags, `LocalJudged`, `CountsExact`, `NewestWins` |
| PullerProofs | `RecordedIsComplete`, `ClosedIsQuiet`, `EverythingIsSettled` | `RecordedComplete`, `NobodyWrites`, `AllSettled` |
| FolderProofs | `NoPullIsLost`, `HandlersAlwaysFollow`, `SharesAreKept`, `ChangesStayCovered` | `NoLostPull` (if `Periodic`), `HandlersFollow`, `SharesKept`, `ChangesCovered` |
| PartsProofs | `CommitsAreChained`, `ModificationsAreKept`, `PollingIsComplete`, `ContentIsKept`, `ReceivingIsSilent`, `VersionsAreContents`, `TempBlocksAreReal` | `CommitsChain`, `ModificationsKept`, `PollingComplete`, `KeepsContent` (unless `SameSize`), `ReceiveOnlySilent`, `VersionMeansContent`, `TempBlocksReal` |

The assumptions are the named `ASSUME`s of the modules: sets of numbers are sets
of numbers, sentinels are not members, the local device has the lowest index,
goroutines are finitely many, paths are sequences of names. Two theorems have a
hypothesis that is part of the system's contract. `NoPullIsLost` is about folders
with a rescan interval: without one, nothing looks again at a folder whose health
check failed. `ContentIsKept` takes contents of equal size and time to be equal,
because `scanIfItemChanged` compares nothing else. `NewestWins` itself speaks of
the flags as they were last set: where a row has gone since without another
recalculation, it says nothing (see Observations).

*Semaphore.* `ParkedOnlyWhenShort` speaks of goroutines on the wait list; a
goroutine gets there from "parking", where it holds the mutex. The strengthening
says the same of it: nobody can change the counter in between. `NoUnitsLost`
compares the capacity with a sum over the goroutines. The lemmas about that sum
are proved by the least counterexample over the size of the set: a sum splits at
any element, so a step that changes one goroutine changes one term.

*IndexExchange.* `DeltaComplete` is not inductive: it says nothing of batches
under way. `StableInv` adds `Pipeline` (what S's handler has passed and R lacks
is in a batch in flight; batches follow each other in sequence order; only the
first can be a full index, and then R has nothing to lose) and `Handshake` (a
cluster config that S has not acted on tells the truth about R, and there is no
handler yet). The proof has a lemma per action. `Handshake` is what fails once R
announces itself again on a live connection, which is the content of the first
finding. `Refinement` uses the same invariant: the initial states are initial
states of IndexCopy, and each action is a step of the copy (a received batch
learns rows, a handler's start may start over) or leaves the copy as it is.
`UniqueInv` adds that sequence numbers are unique in S's index, in every batch
under way and in R's copy, and that R's copy of the current index holds nothing
newer than what it announces. What a batch brings is newer than that, so it
neither meets a number R has (`NoEviction`) nor takes a row back (`NoRegress`).

*IndexHandler.* `HandlerInv` adds that whoever is between the test and the wait
list is there because of the pause (the lock is held from one to the other), and
where a paused handler may be after one more batch.

*RawConnection.* `CallsInv` (types and `AwaitingOpen`) is inductive by itself.
`NoStrandedRequest` needs to know of calls that are about to send that they are
registered or their channel has been ended (`SendersKnown`). `WireInv` adds to
`WireOrder` what has been written at each point of the writer, and that a request
or a response that was taken by the writer has left the state in which it is
offered, so it cannot be taken again.

*FolderDB.* `FolderInv`, the conjunction of the three, is inductive. The argument
for `LocalJudged` is that a row that is forgotten is not needed, so if it is the
global one it has our version, is therefore a deletion of ours too, and our row
is forgotten with it. The lemmas hold for every order the sort may produce. For
`NewestWins`: a row that outdoes another is not beaten by it. In any order, rows
each of which outdoes all others come first: take the least position at which one
of them stands behind a row that is not one of them; what is right before it is
such a row, and must beat it. This holds with circles among these rows or among
the others. The first valid row of the order is then one of them.

*Puller.* `PullerInv` says where every block of a file is: with the goroutine
that sends it, a copier, the puller, a request, or in the file. `copyNeeded` and
`pullNeeded` are never below the numbers of blocks under way, so a file that
finalClose closes without an error has nothing under way and everything in it.
Stages end in order, each after everything that could hand it work has ended.

*Folder runner.* `RunnerInv`: a periodic folder's scan timer runs or its scan does
(`ScanDue`); outside of a pull, a needed item has a pull scheduled, a pull timer,
a folder error or an initial scan ahead of it (`PullDue`); and what becomes needed
during a pull has filled the channel.

*Folders in the model.* `HandlersFollow` speaks of the state at rest. `StatesInv` says
the same of what the model has committed so far: it has a runner exactly for a
committed folder that runs, an open registry knows that runner and has handed it
to its handler, and a device that wants the folder has a handler or a start info,
unless the last start failed (`Served`). A handler is missing at rest only by its
own failure, not by one of a start before it.
*Sharing.* `SharingInv` adds that a folder is shared only with devices that are
configured and trusted, so that `Prepare` drops no share by itself.

*Watcher.* `AggInv`: the total of the counter is never below the number of tracked
events (it drifts, but only upwards), so the timer is idle only without events,
and a batch is only out while it is off. Merging keeps the oldest first time, and
being within a path is transitive, so what covered a change before covers it after.

*Configuration and events.* `CfgInv`: a call under way is about the change Serve waits
for, from what the subscriber was told to what is current; a subscriber without a
call knows the current configuration; an Unsubscribe during a call waits for that
very change; what Serve has in hand is the current configuration with one
modification; and unless the last save failed, what is on disk is the current
configuration or the save timer runs. `EvInv`: IDs up to the ring's are in the ring or accounted for, from
there to the next one they are in the channel or dropped, and everything is in
order; a subscription that leaves takes its own next ID with it.

*Items on disk.* `KeepsContent` needs types only: the check of an item and its use are
one step in PullItem, so it follows from what each handler's check compares. Lemmas
about `Trimmed` say where a copy stands after a new one has been put before it: one
place further, unless as many newer ones as are wanted are before it.

*Folder types.* `ReceiveOnlySilent` needs types only: in a folder that receives,
every row a scan, pull or Revert makes is flagged, ignored, empty or the peer's.
`VersionMeansContent` is not inductive: it says nothing of flagged rows, whose
flag may be cleared, nor of why a version made from the clock is new. `KindInv`
adds that the versions of both rows have at most the clock's time in our
counter; that when one has exactly that time, what is on disk agrees with our row
(`Settled`), so no scan makes another version until the user does something; that
the peer then has it from a row that was not flagged, so no Revert resets ours;
and that our row never counts more of the peer's changes than the peer's row.

*Progress.* The invariant tells the future: `Accounted` says that there is a chain of
states the other device will go through as the messages under way arrive, one per
message, and that the last is what the emitter believes to have sent.

**Checked by TLC only.** Liveness (`CancelledReturns`, `Converges`,
`KeepsSending`, `CloseCompletes`, `RequestsReturn`, `PromotionEnds`,
`IndexReceived`, `NeededIsPulled`, `PipelineDrains`), which is out of the
prover's reach. Every safety property of a passing run has a theorem.

## Findings

1. **Resent cluster configs lose rows** (`index_resend`, `model.go:1736`). R
   announces its sequence again while batches are under way; S restarts from it;
   a full index that was under way drops what S takes as delivered. R lacks rows
   until the devices reconnect, and if another file changes first, R's sequence
   passes the gap and the rows are not sent then either. No failure is needed.
2. **A secondary cluster config takes the index handlers along**
   (`promotion_index`, `model.go:1420`). The registry moves to the secondary
   connection, which names no folders, and the next index on the primary one is
   refused.
3. **A puller iteration never returns** (`puller_return`,
   `folder_sendrecv.go:284`). The finisher's goroutine waits on the wait group it
   should count down. Deletions are not processed and the folder does not pull
   again.
4. **The first connection stops the connections service** (`conn_tracker`,
   `connection_stability.go:92`). Accounting for a connection takes the stability
   manager's mutex a second time, with the tracker's mutex held.
5. **A deletion in a receive-only folder gets out** (`receiveonly_deletion`,
   `folder.go:829`). It loses its flag when the global item is deleted too, keeps
   its version, and can win over a file that is restored elsewhere.

## Observations

What came up while modelling and has no run of its own. The definitions named
here are in the modules and do not hold.

*Index exchange and connections.*

- `model.go:408`: unsharing drops the rows and keeps the `indexids` row, so after
  sharing again a delta is asked for on top of nothing. `SyncedWhenQuiet` fails
  under the full `Spec`. A crash between `DropAllFiles` and `Update` of a resent
  full index (`indexhandler.go:373`) has the same effect; under `StableSpec` it
  cannot happen because a full index is only sent to a device that has nothing.
- `indexhandler.go:177`: the broadcast for a cancelled context is not under the
  lock, so a removed handler may sleep for ever (`StoppedReturns`), and whoever
  removes it waits with the registry's mutex held.
- `indexhandler.go:570`: `Remove` keeps `folderStates`, so a cluster config that is
  handled around an unsharing starts an index handler for a folder that is no
  longer shared (`HandlersOnlyShared`). Sharing again without a new cluster config
  from the peer leaves no handler until its next index closes the connection.
- `indexhandler.go:539`: a handler whose start fails in the database is not there, the
  error is discarded at 567 and 650, and the start info is gone, so nothing tries
  again before the next cluster config; the peer's next index closes the connection.
- `indexhandler.go:343`: if all items of the first batch are hidden, the position
  moves and an Index Update is sent without an Index before it, unlike
  `docs/specs/bep-v1.rst:356`. `handleIndex` passes zeros for the previous and
  last sequences of a message, so the checks made with them are idle.
- `model.go:3068`: `ResetFolder` locks `m.mut` and then calls
  `dbOperationLimiter`, which locks it for reading.
- `model.go:1224`: pulls that hold all slots and the dispatcher wait for each
  other; only the receive timeout ends that, which `IndexReceived` needs.
- `model.go:2548`: `CloseConnection` passes a nil error to `Close`, whose message
  is built from it. `protocol.go:502`: a Request that ends by its context leaves
  its entry in `awaiting` until a response or the end of the connection.
- `service.go:257`: `NewService` starts `handleConns` a second time under the
  name of the dial loop, which is not started at all (`DialsWanted`).
- `service.go:348`: the limit on connections is checked before the hello and the
  connection is added after it, so two that arrive together pass a limit of one,
  unlike `docs/users/config.rst:1322`; a device that is removed in between leaves a
  connection that nobody tracks. The comparison in
  `closeWorsePriorityConnectionsLocked` is the wrong way round.
- `convergence.go:124` and `GetPrimaryConnection`, `GetSwitchMetrics` and
  `DistributeDataChunks` lock a mutex they hold; the minute's reset in
  `recordSwitch` cannot be reached; `MigrateTransfers` overwrites transfers. The
  service does not use these.
- `service_map.go`: `RemoveAndWaitChan` keeps the token of what it removes.

*Introductions and pending folders.*

- `model.go:1480`: a cluster config that found a folder not shared writes its
  pending entry after a commit has cleaned the entries up, so a folder that is
  shared stays pending until the device's next cluster config; and one that
  arrives while the folder is being removed has its new entry removed with it.
- `model.go:1801`: a device that two introducers vouch for is removed with the one
  who introduced it, and comes back with the other's next cluster config.
- `model.go:1741`: if every folder of an unknown device needs a password,
  the device is added to the map, and `changed` is not set.

*Folders, scans and pulls.*

- `folder_sendrecv.go`: the candidates of a block that is requested in several chunks
  are used up by the first ones (`NoDeviceMeansNone` fails for `Chunks = 2`);
  `finalClose` with an error leaves a file unsettled; an error of `handleFile`
  leaves it in the queue's progress list; `processNeededRanked` returns zero
  changes; the check before an item is replaced compares size and time, not
  contents (`KeepsContent` is run with `SameSize = FALSE`).
- `folder.go:197`: with a puller delay every request sets the pull timer anew, so
  requests that come faster than the delay postpone the pull for as long as they do.
- `folder_sendrecv.go:2213`: a file that lost a conflict is removed without a copy if
  it is a conflict copy itself, and with `MaxConflicts` 0; older copies beyond
  `MaxConflicts` are removed with each new one (`KeepsContent` says what remains).
- `folder.go`: with a rescan interval of zero there is no retry after a health
  error at a pull; `Scan` waits for the initial scan; events between the end of one
  watcher and the start of the next are only found by the next scan;
  `newScanBatch` ignores the error of `updateLocalsFromScanning`.
- Receive-only folders: `Revert` announces the changed file unflagged with an empty
  version until the pull; an ignore pattern replaces the receive-only flag, so the
  row is announced as invalid with its version. Versions made within one second may
  repeat after `DropOthers`; FolderKinds takes the user's actions to be a second
  apart.
- `progressemitter.go`: an emitter that is disabled between computing and sending
  updates leaves the other device with blocks that are gone (`raced`).
- `aggregator.go`: the counter of events drifts from their number; it is never zero
  while there are events, which is what `ChangesCovered` needs.
- `wrapper.go`: `Modify` hangs once `Serve` has ended; a save that fails (295) is
  logged and not repeated before the next modification or the end of Serve, where a
  failure is the last word; `Modify` with a wait, or `Unsubscribe`, inside CommitConfiguration would
  wait for itself.

*Database.*

- `db_service.go:196`: forgetting deletions does not recalculate, so a name may
  keep rows and no global one, and a valid global row may be un-needed though
  the local row is gone (it was an invalid deletion). `20-files.sql` says one
  version "is considered the global version" and a missing one "gets the Need
  bit set". `LocalJudged` is what remains true.
- `folderdb_update.go:478`: versions A newer than B, and C in conflict with both,
  can beat each other in a circle by their modification times. The sort then makes
  any of them the global row, depending on the order of the query, and devices with
  the same rows may choose differently. If a row of the circle goes and the global
  one stays, nothing is recalculated, and the pick remains although what is left
  has an order. `NewestWins` is what is true besides. `LocalJudged` says nothing
  once our own row is gone or invalid.
- `folderdb_update.go:159`: the blocks of a local file are stored only if its
  block list is new, which it is not if another device announced it before,
  although `50-blocks.sql` says "For all local files we store the blocks
  individually".
- `db_open_nocgo.go:18`: with the relaxed synchronous mode a power loss may roll
  back transactions whose sequences have been announced; numbers are then used
  twice under one index ID, which IndexExchange excludes.

## Abstractions

- A row is a sequence number in IndexExchange and a version in FolderDB; contents,
  names, blocks and sizes are left out. Names do not affect each other, which
  `NoEviction` justifies.
- `generateClusterConfigRLocked` reads index ID and sequence in two queries,
  which count as one step.
- Unsharing starts from a running folder; a folder whose database is dropped has
  been removed and is added again.
- Forgetting old deletions is in FolderDB and not in IndexExchange, where R's rows
  go only by drops and updates.
- Statistics are left out of the connection modules. All model callbacks are alike
  but for whether they close the connection.
- FolderDB leaves out failing transactions, which change nothing, and
  `DropDevice`, which nobody calls.
- In FolderRunner a pull gets its item or fails; in Puller an item becomes blocks;
  in PullItem a handler is one step. Each takes the others' results as choices.
- Time is a small counter where order matters (FolderKinds, TempIndex,
  WatchAggregator); elsewhere a timer may go off at any time after it was armed.
- Each handler of PullItem is one step: what happens between its look at the disk and
  its change of the disk is not there. Conflict copies of an item are made in
  different seconds by a clock that does not go back, so that their names sort by
  age; they are items of their own in the program and contents in `copies` here.
  Children of a directory that are receive-only changes are left out.
- In IndexExchange every peer announces an index ID (`indexhandler.go:107` starts one
  without from scratch), and a failing start comes with the loss of the connection;
  starts that fail alone are in FolderStates, and `Converges` does not cover them.
- FolderRunner leaves out the return of Serve on a fatal error: such errors are made
  when folders are started and by the API only, never by a scan or a pull.
- FolderStates and Sharing leave encrypted folders out: a failed check of the
  encryption ends the connection.

## Not modelled

Each is a component of `PROJECT.json` with its reason. In short: end-to-end
encryption, encodings, ignore matching, hashing and the file system layer are
data; discovery, NAT traversal, relaying, the REST API, usage reports and upgrades
do input and output; connection quality is heuristics over floating-point scores,
most of it without a caller; pending entries, summaries and statistics are for the
user interface; GUI, Android application, command line and infrastructure servers
are separate programs. These are by far the larger part of the repository: the
map covers the core of `lib/model`, `lib/protocol`, `lib/config`'s wrapper,
`lib/events`, `lib/semaphore`, `lib/watchaggregator`, the connections service and
the folder database's updates, and that is what the project is about.

## Plan

Built so far, in this order: Semaphore, IndexExchange, IndexHandler,
RawConnection, ConnectionPromotion, FolderDB; then Puller, PullItem,
PullDispatch, IndexCopy with its refinement, TempIndex, WatchAggregator,
ConfigWrapper, EventLog, FolderRunner, ConnService, FolderKinds, FolderStates and
Sharing. Next:

1. Theorems about what the modules without proofs keep: `PromotionTypeOK` and that an
   index handler belongs to a connection of the device (ConnectionPromotion), that a
   slot of the folder IO limiter is given back (PullDispatch).
2. Two devices: FolderKinds at both ends, with FolderDB's choice of the global
   row, and convergence after concurrent changes.
3. `remoteFolderStates` in ConnectionPromotion; block lists in FolderDB.
