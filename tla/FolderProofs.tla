---------------------------- MODULE FolderProofs ----------------------------
(***************************************************************************)
(* Proofs about the life of a folder, for every value of the constants: no *)
(* pull is lost by its runner, the index handler follows the changes of    *)
(* the configuration, shares outlast what introducers say, and what the    *)
(* file system watcher reports stays covered until it is scanned.          *)
(***************************************************************************)
EXTENDS FolderRunner, FolderStates, Sharing, WatchAggregator, FiniteSetTheorems,
        WellFoundedInduction, TLAPS

-----------------------------------------------------------------------------
(* The runner.                                                             *)

RunnerTypes ==
    /\ serve \in [pc : {"select", "pullWait", "pull", "scanWait", "stopped"},
                  why : {"none", "timer", "request", "event", "restart"},
                  hash : BOOLEAN]
    /\ initial \in {"open", "closed", "taken"}
    /\ need \in [item : BOOLEAN, fresh : BOOLEAN]

\* The timer of a folder that is scanned periodically runs, or its scan does.
ScanDue == "scan" \in timers \/ (serve.pc = "scanWait" /\ serve.why = "timer")

\* The needed item is not forgotten: outside of a pull, a pull is due or one
\* comes with the end of the error or of the initial scan.
PullDue ==
    \/ "pullScheduled" \in chans
    \/ "pull" \in timers \/ "pullFired" \in timers \/ "pullFail" \in timers
    \/ folderErr \/ initial \in {"open", "closed"}

RunnerInv ==
    /\ RunnerTypes
    /\ ~stopping =>
         /\ serve.pc # "stopped"
         /\ Periodic => ScanDue
         /\ serve.pc \in {"select", "scanWait"} /\ need.item /\ ~updated => PullDue
         /\ serve.pc = "pull" /\ need.fresh /\ ~updated => "pullScheduled" \in chans

LEMMA RunnerInitInv == RunnerInit => RunnerInv
  BY DEF RunnerInit, RunnerInv, RunnerTypes, ScanDue, PullDue, AtSelect

\* pull, up to its waiting for a slot, from any of its select cases.
LEMMA PullKeepsInv ==
    ASSUME RunnerInv, serve.pc = "select",
           NEW STATE ts, NEW STATE cs, Pull(ts, cs), "scan" \in timers => "scan" \in ts,
           initial' = initial \/ (initial' = "taken" /\ initial = "closed"),
           UNCHANGED <<healthy, updated, stopping>>
    PROVE  RunnerInv'
<1> DEFINE back == serve' = AtSelect
           waits == serve' = [pc |-> "pullWait", why |-> "none", hash |-> FALSE]
<1>1. /\ need' = need /\ timers' = ts \ {"pullFail"}
      /\ \/ back /\ (initial = "open" \/ ~need.item)
         \/ back /\ SetError(watch)
         \/ waits
  BY DEF Pull
<1>2. serve' \in [pc : {"select", "pullWait"}, why : {"none"}, hash : BOOLEAN]
  <2>1. CASE back
    BY <2>1 DEF AtSelect
  <2>2. CASE waits
    BY <2>2
  <2>3. QED
    BY <1>1, <2>1, <2>2
<1>3. RunnerTypes' /\ (Periodic /\ ~stopping' => ScanDue')
  BY <1>1, <1>2 DEF RunnerInv, RunnerTypes, ScanDue
<1>4. \/ initial = "open" \/ ~need.item
      \/ folderErr' \/ stopping'
      \/ serve'.pc = "pullWait"
  <2>1. CASE SetError(watch)
    BY <2>1 DEF SetError
  <2>2. QED
    BY <1>1, <2>1
<1>5. QED
  BY <1>1, <1>2, <1>3, <1>4 DEF RunnerInv, PullDue

\* A scan, up to its waiting for a slot, from any of its select cases.
LEMMA ScanKeepsInv ==
    ASSUME RunnerInv, serve.pc = "select",
           NEW why \in {"timer", "request", "event", "restart"},
           NEW STATE ts, NEW STATE cs, NEW STATE w, Scan(why, ts, cs, w),
           ts = IF why = "timer" THEN timers \ {"scan"} ELSE timers,
           "pullScheduled" \in chans => "pullScheduled" \in cs,
           UNCHANGED <<healthy, need, updated, stopping>>
    PROVE  RunnerInv'
<1>1. CASE healthy
  BY <1>1 DEF RunnerInv, RunnerTypes, Scan, ScanDue, PullDue, ClearError,
     Cleared, When
<1>2. CASE ~healthy
  <2>1. /\ serve' = AtSelect /\ (folderErr' \/ stopping')
        /\ initial' \in {initial, "closed"}
        /\ timers' = ts \union When(why = "timer" /\ Periodic, {"scan"})
    BY <1>2 DEF Scan, SetError, Rescheduled, TimerScanDone
  <2>2. RunnerTypes' /\ (Periodic /\ ~stopping' => ScanDue')
    BY <2>1 DEF RunnerInv, RunnerTypes, ScanDue, AtSelect, When
  <2>3. QED
    BY <2>1, <2>2 DEF RunnerInv, PullDue, AtSelect
<1>3. QED
  BY <1>1, <1>2 DEF RunnerInv, RunnerTypes

\* The end of a scan.
LEMMA ScanReturnKeepsInv ==
    ASSUME RunnerInv, serve.pc = "scanWait", NEW changes, ScanReturns(changes),
           folderErr => folderErr',
           UNCHANGED <<healthy, need, updated, stopping>>
    PROVE  RunnerInv'
  BY DEF RunnerInv, RunnerTypes, ScanReturns, AtSelect, ScanDue, PullDue,
     Rescheduled, TimerScanDone, When

LEMMA RunnerStep == RunnerInv /\ [RunnerNext]_runnerVars => RunnerInv'
<1> SUFFICES ASSUME RunnerInv, [RunnerNext]_runnerVars PROVE RunnerInv'
  OBVIOUS
<1>1. CASE SelectPullScheduled
  <2>1. CASE PullerDelay
    BY <1>1, <2>1 DEF SelectPullScheduled, RunnerInv, RunnerTypes, ScanDue, PullDue
  <2>2. CASE ~PullerDelay
    BY <1>1, <2>2, PullKeepsInv DEF SelectPullScheduled
  <2>3. QED
    BY <2>1, <2>2
<1>2. CASE SelectInitialCompleted
  BY <1>2, PullKeepsInv DEF SelectInitialCompleted
<1>3. ASSUME NEW t \in {"pullFired", "pullFail"}, SelectPullTimer(t) PROVE RunnerInv'
  BY <1>3, PullKeepsInv DEF SelectPullTimer
<1>4. CASE SelectScanTimer
  BY <1>4, ScanKeepsInv DEF SelectScanTimer
<1>5. ASSUME NEW c \in {"forcedRescan", "doInSync"}, SelectScanRequest(c)
      PROVE  RunnerInv'
  BY <1>5, ScanKeepsInv DEF SelectScanRequest
<1>6. ASSUME NEW c \in {"scanDelay", "scanScheduled"}, SelectResetTimer(c)
      PROVE  RunnerInv'
  BY <1>6 DEF SelectResetTimer, RunnerInv, RunnerTypes, ScanDue, PullDue
<1>7. CASE SelectWatchEvent
  BY <1>7, ScanKeepsInv DEF SelectWatchEvent
<1>8. CASE SelectRestartWatch
  BY <1>8, ScanKeepsInv DEF SelectRestartWatch
<1>9. CASE SelectDone
  BY <1>9 DEF SelectDone, RunnerInv, RunnerTypes
<1>10. CASE PullSucceeds
  BY <1>10 DEF PullSucceeds, Returned, AtSelect, RunnerInv, RunnerTypes,
     ScanDue, PullDue
<1>11. ASSUME NEW b \in BOOLEAN, ScanFails(b) PROVE RunnerInv'
  BY <1>11, ScanReturnKeepsInv DEF ScanFails, SetError, RunnerInv, RunnerTypes
<1>12. ASSUME NEW b \in BOOLEAN, PullStarts(b) PROVE RunnerInv'
  <2>1. CASE healthy
    <3>1. /\ serve.pc = "pullWait" /\ serve' = [serve EXCEPT !.pc = "pull", !.hash = b]
          /\ need' = [need EXCEPT !.fresh = FALSE]
          /\ UNCHANGED <<timers, initial, updated, stopping>>
      BY <1>12, <2>1 DEF PullStarts
    <3>2. RunnerTypes
      BY DEF RunnerInv
    <3>3. serve'.pc = "pull" /\ need'.fresh = FALSE
      BY <3>1, <3>2 DEF RunnerTypes
    <3>4. RunnerTypes'
      BY <3>1, <3>2 DEF RunnerTypes
    <3>5. ~stopping /\ Periodic => ScanDue'
      BY <3>1 DEF RunnerInv, ScanDue
    <3>6. QED
      BY <3>1, <3>3, <3>4, <3>5 DEF RunnerInv
  <2>2. CASE ~healthy
    <3>1. serve' = AtSelect /\ (folderErr' \/ stopping')
      BY <1>12, <2>2 DEF PullStarts, SetError, Returned
    <3>2. RunnerTypes' /\ (Periodic /\ ~stopping' => ScanDue')
      BY <1>12, <2>2, <3>1 DEF PullStarts, Returned, RunnerInv, RunnerTypes,
         ScanDue, AtSelect
    <3>3. QED
      BY <1>12, <3>1, <3>2 DEF RunnerInv, PullDue, AtSelect, PullStarts
  <2>3. QED
    BY <2>1, <2>2 DEF RunnerInv, RunnerTypes
<1>13. ASSUME NEW b \in BOOLEAN, PullFails(b) PROVE RunnerInv'
  BY <1>13 DEF PullFails, SetError, Returned, AtSelect, RunnerInv, RunnerTypes,
     ScanDue, PullDue
<1>14. ASSUME NEW b \in BOOLEAN, ScanCompletes(b) PROVE RunnerInv'
  BY <1>14, ScanReturnKeepsInv DEF ScanCompletes, RunnerInv, RunnerTypes
<1>15. CASE PullCancelled
  BY <1>15 DEF PullCancelled, AtSelect, RunnerInv, RunnerTypes
<1>16. CASE ScanCancelled
  BY <1>16, ScanReturnKeepsInv DEF ScanCancelled, RunnerInv, RunnerTypes
<1>17. CASE SchedulePull
  BY <1>17 DEF SchedulePull, RunnerInv, RunnerTypes, ScanDue, PullDue
<1>18. CASE IndexUpdated
  BY <1>18 DEF IndexUpdated, RunnerInv, RunnerTypes, ScanDue, PullDue
<1>19. CASE DiskChanges \/ HealthChanges \/ WatchBreaks \/ StopFolder
            \/ UNCHANGED runnerVars
  BY <1>19 DEF DiskChanges, HealthChanges, WatchBreaks, StopFolder, runnerVars,
     RunnerInv, RunnerTypes, ScanDue, PullDue
<1>20. CASE WatchStarts \/ WatchFails \/ \E c \in Asked : Ask(c)
  BY <1>20 DEF WatchStarts, WatchFails, Ask, RunnerInv, RunnerTypes, ScanDue,
     PullDue
<1>21. CASE PullTimerFires
  BY <1>21 DEF PullTimerFires, RunnerInv, RunnerTypes, ScanDue, PullDue
<1>22. QED
  BY <1>1, <1>2, <1>3, <1>4, <1>5, <1>6, <1>7, <1>8, <1>9, <1>10, <1>11, <1>12,
     <1>13, <1>14, <1>15, <1>16, <1>17, <1>18, <1>19, <1>20, <1>21
     DEF RunnerNext, Select, Operation, RunnerEnvironment

\* For a folder that is scanned periodically, whatever may be asked of it and
\* whether or not it is watched and its pulls are delayed: Serve is never back
\* at its select with an item to pull that no channel, timer or scan will bring
\* it to.
THEOREM NoPullIsLost == Periodic => (RunnerSpec => []NoLostPull)
<1> SUFFICES ASSUME Periodic PROVE RunnerSpec => []NoLostPull
  OBVIOUS
<1>1. RunnerInv => NoLostPull
  BY DEF RunnerInv, RunnerTypes, ScanDue, PullDue, NoLostPull
<1>2. QED
  BY <1>1, RunnerInitInv, RunnerStep, PTL DEF RunnerSpec

-----------------------------------------------------------------------------
(* The folder in the model and in the registry of a connection.            *)

\* What the model has committed of the configuration.
Committed == IF commit.pc = "idle" THEN fcfg ELSE commit.from
CommittedRuns == Committed.here /\ ~Committed.paused

KnownStates == [known : {TRUE}, runner : Nat]
Handlers == [on : {TRUE}, paused : BOOLEAN, runner : Nat]
Registries == [open : {TRUE}, state : {NoState} \union KnownStates,
               info : BOOLEAN, handler : {NoHandler} \union Handlers,
               failed : BOOLEAN]

StatesTypes ==
    /\ fcfg \in FolderCfgs
    /\ commit \in {Idle} \union [pc : {"begin", "stopped"}, from : FolderCfgs,
                                 to : FolderCfgs]
    /\ registry \in {NoRegistry} \union Registries
    /\ folderRunners \in Nat /\ lastRunner \in Nat

\* What CommitConfiguration is about to commit is the configuration there is,
\* and another one than the model has committed.
CommitIsCurrent ==
    commit.pc # "idle" => /\ commit.to = fcfg /\ commit.from # commit.to
                          /\ commit.pc = "stopped" => commit.from.here

\* The model has a runner exactly for a folder that runs, and only the change
\* under way has stopped it.
ModelFollows ==
    /\ IF CommittedRuns THEN folderRunners # 0 /\ folderCfgs = Committed
       ELSE folderRunners = 0 /\ folderCfgs = Absent
    /\ stoppedRunner => commit.pc = "stopped"

\* An open registry knows the runner of a folder that runs and is shared, and
\* has handed it to the handler it has.
RegistryFollows ==
    registry.open /\ CommittedRuns /\ Committed.shared =>
        /\ registry.state = [known |-> TRUE, runner |-> folderRunners]
        /\ ~registry.info
        /\ registry.handler.on => registry.handler = HandlerOf(folderRunners)

\* There is a handler, or the start info for one, or else its start has failed,
\* and then there is none.
Served(reg) ==
    /\ reg.info \/ reg.handler.on \/ reg.failed
    /\ reg.failed => reg.handler = NoHandler

\* This is so while the other device wants the folder.
WantedIsKept ==
    /\ handling.pc # "idle" => registry.open
    /\ wanted => registry.open /\ Served(registry)

StatesInv ==
    StatesTypes /\ CommitIsCurrent /\ ModelFollows /\ RegistryFollows /\ WantedIsKept

LEMMA NotHere ==
    ASSUME NEW c \in FolderCfgs, ~c.here
    PROVE  c = Absent
  BY DEF FolderCfgs, Absent

LEMMA CfgFields ==
    /\ Absent \in FolderCfgs
    /\ ~Absent.here /\ ~Absent.paused /\ ~Absent.shared
  BY DEF FolderCfgs, Absent

\* What the operations of the registry make of a registry.
LEMMA StartedRegistry ==
    ASSUME NEW reg \in Registries, NEW run \in Nat, NEW ok \in BOOLEAN
    PROVE  LET new == StartLocked(reg, run, ok)
           IN  /\ new \in Registries /\ new.state = reg.state /\ ~new.info
               /\ new.handler.on => new.handler = HandlerOf(run)
               /\ Served(new)
<1>1. CASE ok
  BY <1>1 DEF StartLocked, HandlerOf, Registries, Handlers, Served
<1>2. CASE ~ok
  BY <1>2 DEF StartLocked, NoHandler, Registries, Handlers, Served
<1>3. QED
  BY <1>1, <1>2

LEMMA RemovedRegistry ==
    ASSUME NEW reg \in Registries
    PROVE  /\ Remove(reg) \in Registries /\ Remove(reg).state = reg.state
           /\ ~Remove(reg).handler.on /\ ~Remove(reg).info
  BY DEF Remove, NoHandler, Registries

LEMMA PausedRegistry ==
    ASSUME NEW reg \in Registries
    PROVE  LET new == FolderPaused(reg)
           IN  /\ new \in Registries /\ new.info = reg.info
               /\ Served(reg) => Served(new)
<1>1. CASE reg.handler.on
  <2>1. FolderPaused(reg) = [reg EXCEPT !.state = NoState,
                !.handler = [on |-> TRUE, paused |-> TRUE, runner |-> 0]]
    BY <1>1 DEF FolderPaused, Registries
  <2>2. [on |-> TRUE, paused |-> TRUE, runner |-> 0] \in Handlers
    BY DEF Handlers
  <2>3. /\ FolderPaused(reg) \in Registries
        /\ FolderPaused(reg).info = reg.info
        /\ FolderPaused(reg).failed = reg.failed
        /\ FolderPaused(reg).handler =
              [on |-> TRUE, paused |-> TRUE, runner |-> 0]
    BY <2>1, <2>2 DEF Registries
  <2>4. Served(reg) => ~reg.failed
    BY <1>1 DEF Served, NoHandler
  <2>5. QED
    BY <2>3, <2>4 DEF Served
<1>2. CASE ~reg.handler.on
  <2>1. FolderPaused(reg) = [reg EXCEPT !.state = NoState]
    BY <1>2 DEF FolderPaused, Registries
  <2>2. QED
    BY <1>2, <2>1 DEF Registries, Served
<1>3. QED
  BY <1>1, <1>2

LEMMA RunningRegistry ==
    ASSUME NEW reg \in Registries, NEW run \in Nat, NEW ok \in BOOLEAN
    PROVE  LET new == FolderRunning(reg, run, ok)
           IN  /\ new \in Registries
               /\ new.state = [known |-> TRUE, runner |-> run] /\ ~new.info
               /\ new.handler.on => new.handler = HandlerOf(run)
               /\ Served(reg) => Served(new)
<1> DEFINE known == [reg EXCEPT !.state = [known |-> TRUE, runner |-> run]]
<1>1. /\ known \in Registries /\ known.info = reg.info
      /\ known.handler = reg.handler /\ known.failed = reg.failed
      /\ known.state = [known |-> TRUE, runner |-> run]
  BY DEF Registries, KnownStates
<1> HIDE DEF known
<1>2. CASE known.info
  BY <1>1, <1>2, StartedRegistry DEF FolderRunning, known
<1>3. CASE ~known.info /\ known.handler.on
  <2>1. FolderRunning(reg, run, ok) = [known EXCEPT !.handler = HandlerOf(run)]
    BY <1>3 DEF FolderRunning, known
  <2>2. HandlerOf(run) \in Handlers /\ HandlerOf(run).on
    BY DEF HandlerOf, Handlers
  <2>3. Served(reg) => ~reg.failed
    BY <1>1, <1>3 DEF Served, NoHandler
  <2>4. QED
    BY <1>1, <1>3, <2>1, <2>2, <2>3 DEF Registries, Served
<1>4. CASE ~known.info /\ ~known.handler.on
  BY <1>1, <1>4 DEF FolderRunning, known, Served
<1>5. QED
  BY <1>2, <1>3, <1>4

LEMMA AddedRegistry ==
    ASSUME NEW reg \in Registries, NEW ok \in BOOLEAN
    PROVE  LET new == AddIndexInfo(reg, ok)
           IN  /\ new \in Registries /\ new.state = reg.state
               /\ Served(new)
               /\ reg.state.known =>
                     /\ ~new.info
                     /\ new.handler.on => new.handler = HandlerOf(reg.state.runner)
<1>1. CASE reg.state.known
  <2>1. reg.state.runner \in Nat
    <3>1. ~NoState.known
      BY DEF NoState
    <3>2. reg.state \in KnownStates
      BY <1>1, <3>1 DEF Registries
    <3>3. QED
      BY <3>2 DEF KnownStates
  <2>2. QED
    BY <1>1, <2>1, StartedRegistry DEF AddIndexInfo
<1>2. CASE ~reg.state.known
  <2>1. AddIndexInfo(reg, ok) =
           [reg EXCEPT !.handler = NoHandler, !.info = TRUE, !.failed = FALSE]
    BY <1>2 DEF AddIndexInfo
  <2>2. QED
    BY <1>2, <2>1 DEF Registries, Served
<1>3. QED
  BY <1>1, <1>2

\* An open registry is none that was closed.
LEMMA OpenRegistries ==
    /\ ~NoRegistry.open /\ \A reg \in Registries : reg.open
    /\ Idle.pc = "idle"
  BY DEF NoRegistry, Registries, Idle

LEMMA StatesInitInv == StatesInit => StatesInv
<1> SUFFICES ASSUME StatesInit PROVE StatesInv
  OBVIOUS
<1>1. StatesTypes
  BY DEF StatesInit, StatesTypes
<1>2. CommitIsCurrent /\ WantedIsKept /\ RegistryFollows
  BY OpenRegistries DEF StatesInit, CommitIsCurrent, WantedIsKept, RegistryFollows
<1>3. ModelFollows
  BY CfgFields, OpenRegistries DEF StatesInit, ModelFollows, CommittedRuns, Committed
<1>4. QED
  BY <1>1, <1>2, <1>3 DEF StatesInv

\* A registry that knows the runner and works with no other one.
Follows(reg, run) ==
    /\ reg.state = [known |-> TRUE, runner |-> run]
    /\ ~reg.info
    /\ reg.handler.on => reg.handler = HandlerOf(run)

LEMMA RegisteredFolderState ==
    ASSUME NEW reg \in {NoRegistry} \union Registries,
           NEW cfg \in FolderCfgs, NEW run \in Nat, NEW ok \in BOOLEAN
    PROVE  LET new == RegisterFolderState(reg, cfg, run, ok)
           IN  /\ new \in {NoRegistry} \union Registries
               /\ new.open <=> reg.open
               /\ new.open /\ cfg.shared /\ ~cfg.paused => Follows(new, run)
               /\ cfg.shared /\ reg.open /\ Served(reg) => Served(new)
<1>1. CASE ~reg.open
  BY <1>1 DEF RegisterFolderState
<1>2. CASE reg.open /\ ~cfg.shared
  BY <1>2, OpenRegistries, RemovedRegistry DEF RegisterFolderState
<1>3. CASE reg.open /\ cfg.shared /\ cfg.paused
  BY <1>3, OpenRegistries, PausedRegistry DEF RegisterFolderState
<1>4. CASE reg.open /\ cfg.shared /\ ~cfg.paused
  <2>1. reg \in Registries
    BY <1>4, OpenRegistries
  <2>2. RegisterFolderState(reg, cfg, run, ok) = FolderRunning(reg, run, ok)
    BY <1>4 DEF RegisterFolderState
  <2>3. QED
    BY <1>4, <2>1, <2>2, OpenRegistries, RunningRegistry DEF Follows
<1>5. QED
  BY <1>1, <1>2, <1>3, <1>4

LEMMA StatesStep == StatesInv /\ [StatesNext]_statesVars => StatesInv'
<1> SUFFICES ASSUME StatesInv, [StatesNext]_statesVars PROVE StatesInv'
  OBVIOUS
<1> USE DEF StatesInv
<1>1. /\ Idle.pc = "idle" /\ (commit.pc = "idle" => commit = Idle)
      /\ commit.pc # "idle" => commit.from \in FolderCfgs /\ commit.to \in FolderCfgs
      /\ Committed \in FolderCfgs
  BY OpenRegistries DEF StatesTypes, Committed
<1>2. ASSUME NEW to \in FolderCfgs, ModifyFolder(to) PROVE StatesInv'
  <2>1. Committed' = Committed
    BY <1>1, <1>2 DEF ModifyFolder, Committed
  <2>2. StatesTypes' /\ CommitIsCurrent'
    BY <1>2 DEF ModifyFolder, StatesTypes, CommitIsCurrent, modelVars
  <2>3. ModelFollows' /\ RegistryFollows' /\ WantedIsKept'
    BY <1>1, <1>2, <2>1 DEF ModifyFolder, modelVars, ModelFollows,
       RegistryFollows, WantedIsKept, CommittedRuns
  <2>4. QED
    BY <2>2, <2>3
<1>3. CASE NewFolder
  <2>0. commit.pc # "idle" /\ commit.from = Absent
    <3>1. commit.pc # "idle" /\ ~commit.from.here
      BY <1>3 DEF NewFolder
    <3>2. QED
      BY <1>1, <3>1, NotHere
  <2>1. /\ commit.to = fcfg /\ fcfg \in FolderCfgs /\ commit.from = Absent
        /\ commit.to # Absent /\ Committed = commit.from
    BY <1>1, <2>0 DEF CommitIsCurrent, Committed
  <2>2. Committed' = fcfg /\ commit'.pc = "idle" /\ fcfg.here
    <3>1. fcfg.here
      BY <2>1, NotHere
    <3>2. QED
      BY <1>1, <1>3, <3>1 DEF NewFolder, Committed
  <2>3. CommitIsCurrent'
    BY <2>2 DEF CommitIsCurrent
  <2>4. CASE fcfg.paused
    <3>1. StatesTypes'
      BY <1>3, <2>1, <2>4 DEF NewFolder, StatesTypes, modelVars
    <3>2. ~CommittedRuns /\ ~CommittedRuns'
      BY <2>1, <2>2, <2>4, CfgFields DEF CommittedRuns
    <3>3. ModelFollows' /\ RegistryFollows' /\ WantedIsKept'
      BY <1>3, <2>1, <2>4, <3>2 DEF NewFolder, modelVars, ModelFollows,
         RegistryFollows, WantedIsKept
    <3>4. QED
      BY <2>3, <3>1, <3>3
  <2>5. CASE ~fcfg.paused
    <3>1. /\ folderRunners' = lastRunner + 1 /\ lastRunner' = lastRunner + 1
          /\ folderCfgs' = fcfg /\ ~stoppedRunner'
          /\ \E ok \in BOOLEAN : registry' =
                RegisterFolderState(registry, fcfg, folderRunners', ok)
          /\ wanted' = (wanted /\ fcfg.shared) /\ commit' = Idle
          /\ UNCHANGED <<fcfg, handling>>
      BY <1>3, <2>1, <2>5 DEF NewFolder, AddAndStart
    <3>2. folderRunners' \in Nat /\ folderRunners' # 0 /\ lastRunner' \in Nat
      BY <3>1 DEF StatesTypes
    <3>3. /\ registry' \in {NoRegistry} \union Registries
          /\ registry'.open <=> registry.open
          /\ registry'.open /\ fcfg.shared => Follows(registry', folderRunners')
          /\ fcfg.shared /\ registry.open /\ Served(registry) => Served(registry')
      BY <2>1, <2>5, <3>1, <3>2, RegisteredFolderState DEF StatesTypes
    <3>4. StatesTypes'
      BY <3>1, <3>2, <3>3 DEF StatesTypes
    <3>5. ModelFollows' /\ RegistryFollows' /\ WantedIsKept'
      BY <2>2, <2>5, <3>1, <3>2, <3>3 DEF ModelFollows, RegistryFollows,
         WantedIsKept, CommittedRuns, Follows
    <3>6. QED
      BY <2>3, <3>4, <3>5
  <2>6. QED
    BY <2>4, <2>5
<1>4. CASE StopRunner
  <2>1. commit.to = fcfg /\ fcfg \in FolderCfgs /\ Committed = commit.from
        /\ commit \in [pc : {"begin", "stopped"}, from : FolderCfgs, to : FolderCfgs]
    BY <1>1, <1>4 DEF StopRunner, StatesTypes, CommitIsCurrent, Committed
  <2>2. CASE commit.to.here /\ commit.from.paused /\ commit.to.paused
    <3>1. /\ commit' = Idle /\ wanted' = (wanted /\ fcfg.shared)
          /\ UNCHANGED <<fcfg, folderCfgs, folderRunners, stoppedRunner, lastRunner,
                         registry, handling>>
      BY <1>4, <2>1, <2>2 DEF StopRunner
    <3>2. ~CommittedRuns /\ ~CommittedRuns' /\ commit.pc = "begin"
      BY <1>1, <1>4, <2>1, <2>2, <3>1 DEF CommittedRuns, Committed, StopRunner
    <3>3. StatesTypes' /\ CommitIsCurrent'
      BY <1>1, <3>1 DEF StatesTypes, CommitIsCurrent
    <3>4. ModelFollows' /\ RegistryFollows' /\ WantedIsKept'
      BY <3>1, <3>2 DEF ModelFollows, RegistryFollows, WantedIsKept
    <3>5. QED
      BY <3>3, <3>4
  <2>3. CASE ~(commit.to.here /\ commit.from.paused /\ commit.to.paused)
    <3>1. /\ commit' = [commit EXCEPT !.pc = "stopped"]
          /\ stoppedRunner' = (folderRunners # 0)
          /\ UNCHANGED <<fcfg, folderCfgs, folderRunners, lastRunner, registry,
                         handling, wanted>>
      BY <1>4, <2>3 DEF StopRunner
    <3>2. /\ commit'.pc = "stopped" /\ commit'.from = commit.from
          /\ commit'.to = commit.to
          /\ commit' \in [pc : {"begin", "stopped"}, from : FolderCfgs, to : FolderCfgs]
      BY <2>1, <3>1
    <3>3. Committed' = Committed
      BY <2>1, <3>2 DEF Committed
    <3>4. StatesTypes' /\ CommitIsCurrent'
      BY <1>4, <3>1, <3>2 DEF StatesTypes, CommitIsCurrent, StopRunner
    <3>5. ModelFollows' /\ RegistryFollows' /\ WantedIsKept'
      BY <3>1, <3>2, <3>3 DEF ModelFollows, RegistryFollows, WantedIsKept,
         CommittedRuns
    <3>6. QED
      BY <3>4, <3>5
  <2>4. QED
    BY <2>2, <2>3
<1>5. CASE RemoveFolder
  <2>0. commit.pc # "idle" /\ ~commit.to.here
    BY <1>5 DEF RemoveFolder
  <2>1. commit.to = fcfg /\ fcfg = Absent
    BY <1>1, <2>0, NotHere DEF CommitIsCurrent
  <2>2. Committed' = Absent /\ commit'.pc = "idle" /\ ~CommittedRuns'
    BY <1>1, <1>5, <2>1, CfgFields DEF RemoveFolder, Committed, CommittedRuns
  <2>3. /\ registry' \in {NoRegistry} \union Registries
        /\ registry'.open <=> registry.open
    BY <1>5, OpenRegistries, RemovedRegistry DEF RemoveFolder, StatesTypes
  <2>4. StatesTypes' /\ CommitIsCurrent'
    BY <1>5, <2>2, <2>3 DEF RemoveFolder, StatesTypes, CommitIsCurrent
  <2>5. ModelFollows' /\ RegistryFollows' /\ WantedIsKept'
    BY <1>5, <2>2, <2>3 DEF RemoveFolder, ModelFollows, RegistryFollows, WantedIsKept
  <2>6. QED
    BY <2>4, <2>5
<1>6. CASE RestartFolder
  <2>1. commit.to = fcfg /\ fcfg \in FolderCfgs
    BY <1>6 DEF RestartFolder, StatesTypes, CommitIsCurrent
  <2>2. Committed' = fcfg /\ commit'.pc = "idle" /\ fcfg.here
    BY <1>1, <1>6, <2>1 DEF RestartFolder, Committed
  <2>3. /\ \E ok \in BOOLEAN : registry' =
              RegisterFolderState(registry, fcfg, folderRunners', ok)
        /\ wanted' = (wanted /\ fcfg.shared) /\ commit' = Idle
        /\ UNCHANGED <<fcfg, handling>>
    BY <1>6, <2>1 DEF RestartFolder
  <2>4. /\ folderRunners' \in Nat /\ lastRunner' \in Nat /\ ~stoppedRunner'
        /\ IF fcfg.paused THEN folderRunners' = 0 /\ folderCfgs' = Absent
           ELSE folderRunners' # 0 /\ folderCfgs' = fcfg
    BY <1>6, <2>1 DEF RestartFolder, AddAndStart, StatesTypes
  <2>5. /\ registry' \in {NoRegistry} \union Registries
        /\ registry'.open <=> registry.open
        /\ registry'.open /\ fcfg.shared /\ ~fcfg.paused =>
               Follows(registry', folderRunners')
        /\ fcfg.shared /\ registry.open /\ Served(registry) => Served(registry')
    BY <2>1, <2>3, <2>4, RegisteredFolderState DEF StatesTypes
  <2>6. StatesTypes' /\ CommitIsCurrent'
    BY <2>2, <2>3, <2>4, <2>5 DEF StatesTypes, CommitIsCurrent
  <2>7. ModelFollows' /\ RegistryFollows' /\ WantedIsKept'
    BY <2>2, <2>3, <2>4, <2>5 DEF ModelFollows, RegistryFollows, WantedIsKept,
       CommittedRuns, Follows
  <2>8. QED
    BY <2>6, <2>7
<1>7. handling.pc # "idle" => registry \in Registries
  BY OpenRegistries DEF StatesTypes, WantedIsKept
<1>8. ASSUME NEW a, EnsureIndexHandler(a) PROVE StatesInv'
  <2>1. /\ handling'.pc = "lookup"
        /\ UNCHANGED <<fcfg, commit, folderCfgs, folderRunners, stoppedRunner,
                       lastRunner, wanted>>
    BY <1>8 DEF EnsureIndexHandler, modelVars
  <2>2. Committed' = Committed /\ CommittedRuns' = CommittedRuns
    BY <2>1 DEF Committed, CommittedRuns
  <2>3. ModelFollows'
    BY <2>1, <2>2 DEF ModelFollows
  <2>4. CASE registry.open
    <3>1. registry' = registry
      BY <1>8, <2>4 DEF EnsureIndexHandler
    <3>2. StatesTypes' /\ CommitIsCurrent'
      BY <2>1, <3>1 DEF StatesTypes, CommitIsCurrent
    <3>3. RegistryFollows' /\ WantedIsKept'
      BY <2>1, <2>2, <2>4, <3>1 DEF RegistryFollows, WantedIsKept
    <3>4. QED
      BY <2>3, <3>2, <3>3
  <2>5. CASE ~registry.open
    <3> DEFINE new == [open |-> TRUE, state |-> NoState, info |-> FALSE,
                       handler |-> NoHandler, failed |-> FALSE]
    <3>1. new \in Registries
      BY DEF Registries
    <3>2. ~wanted'
      BY <2>1, <2>5 DEF WantedIsKept
    <3>3. CASE folderCfgs.here
      <4>1. registry' = RegisterFolderState(new, folderCfgs, folderRunners, TRUE)
        BY <1>8, <2>5, <3>3 DEF EnsureIndexHandler
      <4>2. CommittedRuns /\ folderCfgs = Committed /\ folderCfgs \in FolderCfgs
        BY <1>1, <3>3, CfgFields DEF ModelFollows
      <4>3. /\ registry' \in {NoRegistry} \union Registries /\ registry'.open
            /\ folderCfgs.shared => Follows(registry', folderRunners)
        BY <3>1, <4>1, <4>2, OpenRegistries, RegisteredFolderState
           DEF StatesTypes, CommittedRuns
      <4>4. StatesTypes' /\ CommitIsCurrent'
        BY <2>1, <4>3 DEF StatesTypes, CommitIsCurrent
      <4>5. RegistryFollows' /\ WantedIsKept'
        BY <2>1, <2>2, <3>2, <4>2, <4>3 DEF RegistryFollows, WantedIsKept, Follows
      <4>6. QED
        BY <2>3, <4>4, <4>5
    <3>4. CASE ~folderCfgs.here
      <4>1. registry' = new
        BY <1>8, <2>5, <3>4 DEF EnsureIndexHandler
      <4>2. ~CommittedRuns
        BY <3>4 DEF ModelFollows, CommittedRuns
      <4>3. StatesTypes' /\ CommitIsCurrent'
        BY <2>1, <3>1, <4>1 DEF StatesTypes, CommitIsCurrent
      <4>4. RegistryFollows' /\ WantedIsKept'
        BY <2>1, <2>2, <3>2, <4>1, <4>2 DEF RegistryFollows, WantedIsKept
      <4>5. QED
        BY <2>3, <4>3, <4>4
    <3>5. QED
      BY <3>3, <3>4
  <2>6. QED
    BY <2>4, <2>5
<1>9. ASSUME UNCHANGED <<fcfg, commit, commits, modelVars>>,
             registry' \in {NoRegistry} \union Registries,
             registry.open /\ registry'.open => registry'.state = registry.state,
             registry'.open => registry.open,
             registry'.open /\ registry.state.known =>
                 /\ ~registry'.info \/ registry'.info = registry.info
                 /\ registry'.handler.on =>
                      \/ registry'.handler = registry.handler
                      \/ registry'.handler = HandlerOf(registry.state.runner),
             WantedIsKept'
      PROVE  StatesInv'
  <2>1. Committed' = Committed /\ CommittedRuns' = CommittedRuns
    BY <1>9 DEF Committed, CommittedRuns
  <2>2. StatesTypes' /\ CommitIsCurrent' /\ ModelFollows'
    BY <1>9, <2>1 DEF StatesTypes, CommitIsCurrent, ModelFollows, modelVars
  <2>3. RegistryFollows'
    BY <1>9, <2>1 DEF RegistryFollows, modelVars
  <2>4. QED
    BY <1>9, <2>2, <2>3
<1>10. CASE CCLookUp
  <2>1. WantedIsKept'
    BY <1>10 DEF CCLookUp, WantedIsKept
  <2>2. QED
    BY <1>9, <1>10, <2>1 DEF CCLookUp, StatesTypes
<1>11. ASSUME NEW b \in BOOLEAN, CCRemove(b) PROVE StatesInv'
  <2>1. registry \in Registries /\ registry' = Remove(registry) /\ ~wanted'
    BY <1>7, <1>11 DEF CCRemove
  <2>2. WantedIsKept'
    BY <2>1, OpenRegistries, RemovedRegistry DEF WantedIsKept
  <2>3. QED
    BY <1>9, <1>11, <2>1, <2>2, OpenRegistries, RemovedRegistry DEF CCRemove
<1>12. CASE CCAdd
  <2>1. PICK ok \in BOOLEAN :
           registry \in Registries /\ registry' = AddIndexInfo(registry, ok)
    BY <1>7, <1>12 DEF CCAdd
  <2>2. WantedIsKept'
    BY <2>1, OpenRegistries, AddedRegistry DEF WantedIsKept
  <2>3. QED
    BY <1>9, <1>12, <2>1, <2>2, OpenRegistries, AddedRegistry DEF CCAdd
<1>13. CASE CCRemoveAllExcept
  <2>1. /\ registry \in Registries /\ handling'.pc = "idle"
        /\ \/ registry' = registry /\ (wanted' => wanted)
           \/ registry' = Remove(registry) /\ ~wanted'
    BY <1>1, <1>7, <1>13 DEF CCRemoveAllExcept
  <2>2. WantedIsKept'
    BY <2>1, OpenRegistries, RemovedRegistry DEF WantedIsKept
  <2>3. QED
    BY <1>9, <1>13, <2>1, <2>2, OpenRegistries, RemovedRegistry
       DEF CCRemoveAllExcept
<1>14. CASE CloseRegistry
  <2>1. WantedIsKept'
    BY <1>1, <1>14 DEF CloseRegistry, WantedIsKept
  <2>2. QED
    BY <1>9, <1>14, <2>1, OpenRegistries DEF CloseRegistry
<1>15. CASE UNCHANGED statesVars
  BY <1>15 DEF statesVars, modelVars, StatesTypes, CommitIsCurrent, ModelFollows,
     RegistryFollows, WantedIsKept, Committed, CommittedRuns
<1>16. QED
  BY <1>2, <1>3, <1>4, <1>5, <1>6, <1>8, <1>10, <1>11, <1>12, <1>13, <1>14, <1>15
     DEF StatesNext

\* For any number of changes of the configuration and of runners: once a change
\* and a cluster config have been handled, in whatever order their steps came,
\* the folder has a runner exactly if it is to run, and the index handler of a
\* device that wants it works with that runner, or is missing because its own
\* start failed (startLocked); no start info is left over.
THEOREM HandlersAlwaysFollow == StatesSpec => []HandlersFollow
<1>1. StatesInv => HandlersFollow
  <2> SUFFICES ASSUME StatesInv, Settled PROVE
        /\ (folderRunners # 0) = Runs /\ ~stoppedRunner
        /\ wanted /\ Runs /\ fcfg.shared =>
              /\ ~registry.info
              /\ registry.handler = IF registry.failed THEN NoHandler
                                    ELSE HandlerOf(folderRunners)
    BY DEF HandlersFollow
  <2>1. commit.pc = "idle" /\ Committed = fcfg /\ (CommittedRuns <=> Runs)
    BY OpenRegistries DEF Settled, Committed, CommittedRuns, Runs
  <2>2. (folderRunners # 0) = Runs /\ ~stoppedRunner
    BY <2>1 DEF StatesInv, ModelFollows, Runs
  <2>3. wanted /\ Runs /\ fcfg.shared =>
              /\ ~registry.info
              /\ registry.handler = IF registry.failed THEN NoHandler
                                    ELSE HandlerOf(folderRunners)
    BY <2>1 DEF StatesInv, RegistryFollows, WantedIsKept, Served
  <2>4. QED
    BY <2>2, <2>3
<1>2. QED
  BY <1>1, StatesInitInv, StatesStep, PTL DEF StatesSpec

-----------------------------------------------------------------------------
(* Shares.                                                                 *)

Sharers == Peers \union {"user", "nobody"}

\* A folder is shared only with devices that are configured and trusted.
SharedWithTrusted ==
    \A f \in ShFolders, d \in Peers :
        shares[f][d] # "nobody" => devs[d].here /\ ~devs[d].untrusted

SharingInv ==
    /\ shares \in [ShFolders -> [Peers -> Sharers]]
    /\ DOMAIN devs = Peers /\ DOMAIN ccHandling = Peers
    /\ edits \in Nat
    /\ SharedWithTrusted

LEMMA SharingInitInv == SharingInit => SharingInv
<1> SUFFICES ASSUME SharingInit PROVE SharingInv
  OBVIOUS
<1>1. shares \in [ShFolders -> [Peers -> Sharers]]
  BY DEF SharingInit, Sharers
<1>2. SharedWithTrusted
  BY DEF SharingInit, SharedWithTrusted, Device
<1>3. QED
  BY <1>1, <1>2 DEF SharingInv, SharingInit

\* prepare keeps a share exactly if its device is configured and trusted.
LEMMA Prepared ==
    ASSUME NEW STATE newShares, NEW STATE newDevs, Prepare(newShares, newDevs),
           newShares \in [ShFolders -> [Peers -> Sharers]]
    PROVE  /\ shares' \in [ShFolders -> [Peers -> Sharers]]
           /\ DOMAIN devs' = Peers
           /\ SharedWithTrusted'
           /\ \A f \in ShFolders, d \in Peers :
                 /\ newDevs[d].here /\ ~newDevs[d].untrusted =>
                       shares'[f][d] = newShares[f][d]
<1>1. \A f \in ShFolders, d \in Peers :
          shares'[f][d] = IF ~newDevs[d].here \/ newDevs[d].untrusted THEN "nobody"
                          ELSE newShares[f][d]
  BY DEF Prepare
<1>2. shares' \in [ShFolders -> [Peers -> Sharers]]
  BY DEF Prepare, Sharers
<1>3. \A d \in Peers : newDevs[d].here /\ ~newDevs[d].untrusted =>
          devs'[d] = newDevs[d]
  BY DEF Prepare
<1>4. SharedWithTrusted'
  BY <1>1, <1>3 DEF SharedWithTrusted
<1>5. DOMAIN devs' = Peers
  BY DEF Prepare
<1>6. QED
  BY <1>1, <1>2, <1>4, <1>5

\* What handleAutoAccepts does to shares: they become more.
LEMMA AcceptsKeepShares ==
    ASSUME SharingInv, NEW p \in Peers, NEW free \in SUBSET ShFolders,
           CCAccepts(p, free)
    PROVE  SharingInv' /\ \A f \in ShFolders, d \in Peers :
                             SharedWith(f, d) => SharedWith(f, d)'
<1> DEFINE offered == ccHandling[p].offered
           new == {f \in (offered \ shFolders) \intersect free : <<f, p>> \notin Tokens}
           joined == {f \in offered \intersect shFolders :
                        ~SharedWith(f, p) /\ <<f, p>> \notin Tokens}
           ns == [f \in ShFolders |->
                     IF f \in new \union joined THEN [shares[f] EXCEPT ![p] = "user"]
                     ELSE shares[f]]
<1>1. Prepare(ns, devs) /\ DOMAIN ccHandling' = Peers /\ edits' = edits
  BY DEF CCAccepts, SharingInv
<1> HIDE DEF new, joined
<1>2. ns \in [ShFolders -> [Peers -> Sharers]]
  BY DEF SharingInv, Sharers
<1>3. \A f \in ShFolders, d \in Peers : ns[f][d] = shares[f][d] \/ ns[f][d] = "user"
  BY DEF SharingInv
<1> HIDE DEF ns
<1>4. SharingInv'
  BY <1>1, <1>2, Prepared DEF SharingInv
<1>5. ASSUME NEW f \in ShFolders, NEW d \in Peers, SharedWith(f, d)
      PROVE  SharedWith(f, d)'
  <2>1. devs[d].here /\ ~devs[d].untrusted /\ ns[f][d] # "nobody"
    BY <1>3, <1>5 DEF SharingInv, SharedWithTrusted, SharedWith
  <2>2. shares'[f][d] = ns[f][d]
    BY <1>1, <1>2, <2>1, Prepared
  <2>3. QED
    BY <2>1, <2>2 DEF SharedWith
<1>6. QED
  BY <1>4, <1>5

\* What handleIntroductions and handleDeintroductions do to shares: only ones of
\* this introducer are taken away.
LEMMA IntroducesKeepShares ==
    ASSUME SharingInv, NEW p \in Peers, NEW cc, NEW theirs, NEW skips,
           CCIntroduces(p, cc, theirs, skips)
    PROVE  SharingInv' /\ \A f \in ShFolders, d \in Peers :
                             SharedWith(f, d) /\ ~SharedWith(f, d)' => shares[f][d] = p
<1> DEFINE skip == ccHandling[p].skip
           s == IntroducedShares(p, cc)
           ds == IntroducedDevices(p, cc, theirs, skips)
           gone(f, d) == ~skip /\ s[f][d] = p /\ ~Vouched(cc, f, d)
           left(d) == /\ ~skip /\ ds[d].here /\ ds[d].by = p
                      /\ \A f \in ShFolders : ~Vouched(cc, f, d)
                      /\ ~NotIntroduced(p, s, d)
           ns == [f \in ShFolders |-> [d \in Peers |->
                            IF gone(f, d) THEN "nobody" ELSE s[f][d]]]
           nd == [d \in Peers |-> IF left(d) THEN Unknown ELSE ds[d]]
<1>1. /\ Prepare(ns, nd) \/ UNCHANGED <<shares, devs>>
      /\ DOMAIN ccHandling' = Peers /\ edits' = edits
  BY DEF CCIntroduces, SharingInv
<1>2. \A f \in ShFolders, d \in Peers :
          /\ s[f][d] \in Sharers
          /\ SharedWith(f, d) => s[f][d] = shares[f][d]
  BY DEF IntroducedShares, SharingInv, SharedWith, Sharers
<1>3. \A d \in Peers : devs[d].here => ds[d] = devs[d]
  BY DEF IntroducedDevices
<1> HIDE DEF s, ds
<1>4. ns \in [ShFolders -> [Peers -> Sharers]]
  BY <1>2 DEF Sharers
<1>5. ASSUME NEW f \in ShFolders, NEW d \in Peers, SharedWith(f, d), shares[f][d] # p
      PROVE  ns[f][d] = shares[f][d] /\ nd[d] = devs[d]
             /\ devs[d].here /\ ~devs[d].untrusted
  <2>1. s[f][d] = shares[f][d] /\ s[f][d] \notin {"nobody", p}
    BY <1>2, <1>5 DEF SharedWith
  <2>2. ~gone(f, d) /\ ~left(d)
    BY <2>1 DEF NotIntroduced
  <2>3. devs[d].here /\ ~devs[d].untrusted
    BY <1>5 DEF SharingInv, SharedWithTrusted, SharedWith
  <2>4. QED
    BY <1>3, <2>1, <2>2, <2>3
<1> HIDE DEF ns, nd
<1>6. SharingInv'
  <2>1. CASE Prepare(ns, nd)
    BY <1>1, <1>4, <2>1, Prepared DEF SharingInv
  <2>2. CASE UNCHANGED <<shares, devs>>
    BY <1>1, <2>2 DEF SharingInv, SharedWithTrusted
  <2>3. QED
    BY <1>1, <2>1, <2>2
<1>7. ASSUME NEW f \in ShFolders, NEW d \in Peers, SharedWith(f, d), ~SharedWith(f, d)'
      PROVE  shares[f][d] = p
  <2> SUFFICES ASSUME shares[f][d] # p PROVE FALSE
    OBVIOUS
  <2>1. shares'[f][d] # shares[f][d]
    BY <1>7 DEF SharedWith
  <2>2. Prepare(ns, nd)
    BY <1>1, <2>1
  <2>3. shares'[f][d] = ns[f][d]
    BY <1>4, <1>5, <1>7, <2>2, Prepared
  <2>4. QED
    BY <1>5, <1>7, <2>1, <2>3
<1>8. QED
  BY <1>6, <1>7

\* What the user does.
LEMMA UserKeepsInv ==
    ASSUME SharingInv,
           \/ \E f \in ShFolders : UserFolder(f) \/ \E d \in Peers : UserShares(f, d)
           \/ \E d \in Peers : \E new \in UserChoices(d) : UserDevice(d, new)
    PROVE  SharingInv' /\ edits' # edits
<1>1. ASSUME NEW f \in ShFolders, UserFolder(f) PROVE SharingInv' /\ edits' # edits
  <2> DEFINE ns == [shares EXCEPT ![f] = [d \in Peers |-> "nobody"]]
  <2>1. ns \in [ShFolders -> [Peers -> Sharers]]
    BY DEF SharingInv, Sharers
  <2>2. Prepare(ns, devs) /\ edits' = edits + 1 /\ ccHandling' = ccHandling
    BY <1>1 DEF UserFolder, UserEdits
  <2> HIDE DEF ns
  <2>3. QED
    BY <2>1, <2>2, Prepared DEF SharingInv
<1>2. ASSUME NEW f \in ShFolders, NEW d \in Peers, UserShares(f, d)
      PROVE  SharingInv' /\ edits' # edits
  <2> DEFINE ns == [shares EXCEPT ![f][d] = IF @ = "nobody" THEN "user" ELSE "nobody"]
  <2>1. ns \in [ShFolders -> [Peers -> Sharers]]
    BY DEF SharingInv, Sharers
  <2>2. Prepare(ns, devs) /\ edits' = edits + 1 /\ ccHandling' = ccHandling
    BY <1>2 DEF UserShares, UserEdits
  <2> HIDE DEF ns
  <2>3. QED
    BY <2>1, <2>2, Prepared DEF SharingInv
<1>3. ASSUME NEW d \in Peers, NEW new, UserDevice(d, new)
      PROVE  SharingInv' /\ edits' # edits
  <2>1. Prepare(shares, [devs EXCEPT ![d] = new]) /\ edits' = edits + 1
        /\ ccHandling' = ccHandling
    BY <1>3 DEF UserDevice, UserEdits
  <2>2. QED
    BY <2>1, Prepared DEF SharingInv
<1>4. QED
  BY <1>1, <1>2, <1>3

LEMMA SharingStep ==
    ASSUME SharingInv, [SharingNext]_sharingVars
    PROVE  /\ SharingInv'
           /\ \A f \in ShFolders, d \in Peers :
                 SharedWith(f, d) /\ ~SharedWith(f, d)' /\ edits' = edits =>
                     LET by == shares[f][d]
                     IN  /\ by \in Peers /\ ccHandling[by].pc = "introduce"
                         /\ ccHandling'[by] = NoCC
<1>1. ASSUME NEW p \in Peers, NEW offered, CCBegins(p, offered)
      PROVE  SharingInv' /\ UNCHANGED shares
  BY <1>1 DEF CCBegins, SharingInv, SharedWithTrusted
<1>2. ASSUME NEW p \in Peers, NEW cc, NEW theirs, NEW skips,
             CCIntroduces(p, cc, theirs, skips)
      PROVE  ccHandling[p].pc = "introduce" /\ ccHandling'[p] = NoCC
  BY <1>2 DEF CCIntroduces, SharingInv
<1>3. CASE UNCHANGED sharingVars
  BY <1>3 DEF sharingVars, SharingInv, SharedWithTrusted, SharedWith
<1>4. QED
  BY <1>1, <1>2, <1>3, AcceptsKeepShares, IntroducesKeepShares, UserKeepsInv
     DEF SharingNext, SharedWith

\* For any devices and folders and any number of changes and cluster configs: a
\* share disappears only by the user's doing or by the introducer that made it,
\* whether the share itself is dropped or its device.
THEOREM SharesAreKept == SharingSpec => SharesKept
<1> DEFINE Kept ==
        \A f \in ShFolders, d \in Peers :
            SharedWith(f, d) /\ ~SharedWith(f, d)' /\ edits' = edits =>
                LET by == shares[f][d]
                IN  by \in Peers /\ ccHandling[by].pc = "introduce" /\ ccHandling'[by] = NoCC
<1>1. SharingInv /\ [SharingNext]_sharingVars => SharingInv' /\ [Kept]_sharingVars
  BY SharingStep
<1>2. SharesKept <=> [][Kept]_sharingVars
  BY DEF SharesKept
<1> HIDE DEF Kept
<1>3. QED
  BY <1>1, <1>2, SharingInitInv, PTL DEF SharingSpec

-----------------------------------------------------------------------------
(* The watcher's aggregator.                                               *)

\* Every set of numbers that is not empty has a least one.
LEMMA LeastNat ==
    ASSUME NEW T, T \subseteq Nat, T # {}
    PROVE  \E m \in T : \A k \in T : m <= k
<1> DEFINE Less == OpToRel(<, Nat)
<1>1. IsWellFoundedOn(Less, Nat)
  BY NatLessThanWellFounded
<1>2. \A x, y \in Nat : x < y => <<x, y>> \in Less
  BY DEF OpToRel
<1> HIDE DEF Less
<1>3. PICK m \in T : \A k \in T : ~ (<<k, m>> \in Less)
  BY <1>1, WFMin
<1>4. \A k \in T : k \in Nat /\ m \in Nat
  OBVIOUS
<1>5. \A k \in T : ~ (k < m)
  BY <1>2, <1>3, <1>4
<1>6. \A k \in T : m <= k
  BY <1>4, <1>5
<1> QED BY <1>6

LEMMA MinFacts ==
    ASSUME NEW T, T \subseteq Nat, T # {}
    PROVE  Min(T) \in T /\ \A k \in T : Min(T) <= k
  BY LeastNat DEF Min

\* An eventCounter.
IsCount(c) ==
    /\ c.removes \in Int /\ c.nonRemoves \in Int
    /\ c = [removes |-> c.removes, nonRemoves |-> c.nonRemoves]

AggTypes ==
    /\ aggNow \in Nat /\ since \in Nat \union {Never} /\ probe \in AggPaths
    /\ IsFiniteSet(DOMAIN tracked) /\ DOMAIN tracked \subseteq Seq(STRING)
    /\ \A p \in DOMAIN tracked : tracked[p].first \in Nat /\ tracked[p].first <= aggNow
    /\ IsCount(eventCounts)

\* The counter may be ahead of the events that are tracked and is never behind
\* them, so the timer rests only without events; and what notify sends has the
\* timer stopped.
CounterAhead ==
    /\ Total(eventCounts) >= Cardinality(DOMAIN tracked)
    /\ DOMAIN tracked # {} => notifyTimer # "idle"
    /\ DOMAIN notifying # {} => notifyTimer = "off"

AggInv == AggTypes /\ CounterAhead /\ ChangesCovered

\* Being at or below a path is transitive.
LEMMA WithinTransitive ==
    ASSUME NEW p \in Seq(STRING), NEW q \in Seq(STRING), NEW r \in Seq(STRING),
           Within(p, q), Within(q, r)
    PROVE  Within(p, r)
<1>1. /\ Len(q) <= Len(p) /\ \A i \in 1..Len(q) : q[i] = p[i]
      /\ Len(r) <= Len(q) /\ \A i \in 1..Len(r) : r[i] = q[i]
  BY DEF Within, Prefix
<1>2. Len(r) <= Len(p) /\ \A i \in 1..Len(r) : r[i] = p[i]
  BY <1>1
<1> QED BY <1>2 DEF Within, Prefix

\* The event for a path is one at the path or above it.
LEMMA TargetAbove ==
    ASSUME NEW p \in Seq(STRING)
    PROVE  Target(p) \in Seq(STRING) /\ Within(p, Target(p))
<1>1. ASSUME NEW i \in 0..Len(p)
      PROVE  Prefix(p, i) \in Seq(STRING) /\ Within(p, Prefix(p, i))
  <2>1. Prefix(p, i) \in Seq(STRING) /\ Len(Prefix(p, i)) = i
    BY DEF Prefix
  <2> QED BY <2>1 DEF Within
<1>2. Root \in Seq(STRING) /\ Within(p, Root)
  BY DEF Root, Within, Prefix
<1>3. Within(p, p)
  BY DEF Within, Prefix
<1> DEFINE stops == {i \in 1..(Len(p) - 1) :
                        Tracked(Prefix(p, i)) \/ Full(Prefix(p, i - 1))}
<1>4. stops # {} => Min(stops) \in 1..(Len(p) - 1)
  <2>1. stops \subseteq 1..(Len(p) - 1) /\ stops \subseteq Nat
    OBVIOUS
  <2> HIDE DEF stops
  <2> QED BY <2>1, MinFacts
<1>5. \/ Target(p) = Root \/ Target(p) = p
      \/ stops # {} /\ Target(p) \in {Prefix(p, Min(stops)), Prefix(p, Min(stops) - 1)}
      \/ p # Root /\ Target(p) = Prefix(p, Len(p) - 1)
  BY DEF Target
<1> HIDE DEF stops
<1>6. CASE stops # {} /\ Target(p) \in {Prefix(p, Min(stops)), Prefix(p, Min(stops) - 1)}
  <2>1. Min(stops) \in 0..Len(p) /\ Min(stops) - 1 \in 0..Len(p)
    BY <1>4, <1>6
  <2> QED BY <1>1, <1>6, <2>1
<1>7. CASE p # Root /\ Target(p) = Prefix(p, Len(p) - 1)
  <2>1. Len(p) - 1 \in 0..Len(p)
    BY <1>7 DEF Root
  <2> QED BY <1>1, <1>7, <2>1
<1> QED BY <1>2, <1>3, <1>5, <1>6, <1>7

\* The counter changes by what is added to it.
LEMMA AddTotal ==
    ASSUME NEW a \in Int, NEW b \in Int, NEW kind, NEW n \in Int
    PROVE  LET c == [removes |-> a, nonRemoves |-> b]
               e == Add(c, kind, n)
           IN  /\ e.removes \in Int /\ e.nonRemoves \in Int
               /\ e = [removes |-> e.removes, nonRemoves |-> e.nonRemoves]
               /\ e.removes + e.nonRemoves = a + b + n
<1> DEFINE c == [removes |-> a, nonRemoves |-> b]
<1>1. CASE "remove" \in kind
  <2>1. Add(c, kind, n) = [removes |-> a + n, nonRemoves |-> b]
    BY <1>1 DEF Add
  <2> QED BY <2>1
<1>2. CASE "remove" \notin kind
  <2>1. Add(c, kind, n) = [removes |-> a, nonRemoves |-> b + n]
    BY <1>2 DEF Add
  <2> QED BY <2>1
<1> QED BY <1>1, <1>2

\* The same for any counter.
LEMMA AddCount ==
    ASSUME NEW c, IsCount(c), NEW kind, NEW n \in Int
    PROVE  IsCount(Add(c, kind, n)) /\ Total(Add(c, kind, n)) = Total(c) + n
<1>1. PICK a \in Int, b \in Int : c = [removes |-> a, nonRemoves |-> b]
  BY DEF IsCount
<1>2. c.removes = a /\ c.nonRemoves = b
  BY <1>1
<1> QED BY <1>1, <1>2, AddTotal DEF IsCount, Total

\* NewEvent adds at most one event, and none where it takes over others.
LEMMA NewEventCounted ==
    ASSUME AggInv, NEW q, NEW kind
    PROVE  LET D == (DOMAIN tracked \ Below(q)) \union {q}
           IN  /\ IsCount(Counted(q, kind)) /\ IsFiniteSet(D)
               /\ Total(Counted(q, kind)) >= Cardinality(D)
               /\ DOMAIN TakeOver(q, kind) = D
<1> DEFINE D == (DOMAIN tracked \ Below(q)) \union {q}
           merged == TakeOver(q, kind)[q].kind
           N == Cardinality(DOMAIN tracked)
<1>1. /\ IsFiniteSet(DOMAIN tracked) /\ N \in Nat /\ IsCount(eventCounts)
      /\ Total(eventCounts) >= N /\ Total(eventCounts) \in Int
  BY FS_CardinalityType DEF AggInv, AggTypes, CounterAhead, IsCount, Total
<1>2. IsFiniteSet(D) /\ Cardinality(D) \in Nat /\ Cardinality(D) <= N + 1
  <2>1. IsFiniteSet(DOMAIN tracked \union {q})
        /\ Cardinality(DOMAIN tracked \union {q}) <= N + 1
    BY <1>1, FS_AddElement
  <2>2. D \in SUBSET (DOMAIN tracked \union {q})
    OBVIOUS
  <2>3. IsFiniteSet(D) /\ Cardinality(D) <= Cardinality(DOMAIN tracked \union {q})
    BY <2>1, <2>2, FS_Subset
  <2>4. Cardinality(D) \in Nat /\ Cardinality(DOMAIN tracked \union {q}) \in Nat
    BY <2>1, <2>3, FS_CardinalityType
  <2> HIDE DEF D, N
  <2> QED BY <1>1, <2>1, <2>3, <2>4
<1>3. Below(q) # {} => Cardinality(D) <= N
  <2> SUFFICES ASSUME NEW e \in Below(q) PROVE Cardinality(D) <= N
    OBVIOUS
  <2>1. e \in DOMAIN tracked /\ Below(q) \subseteq DOMAIN tracked
    BY DEF Below
  <2> DEFINE E == DOMAIN tracked \ {e}
  <2>2. IsFiniteSet(E) /\ Cardinality(E) = N - 1
    BY <1>1, <2>1, FS_RemoveElement
  <2>3. IsFiniteSet(E \union {q}) /\ Cardinality(E \union {q}) <= N
    BY <1>1, <2>2, FS_AddElement
  <2>4. D \in SUBSET (E \union {q})
    BY <2>1
  <2>5. Cardinality(D) <= Cardinality(E \union {q}) /\ Cardinality(E \union {q}) \in Nat
    BY <2>3, <2>4, FS_Subset, FS_CardinalityType
  <2> HIDE DEF D, E, N
  <2> QED BY <1>1, <1>2, <2>3, <2>5
<1>4. DOMAIN TakeOver(q, kind) = D
  BY DEF TakeOver
<1>5. Below(q) = {} => merged = kind
  <2>1. q \in (DOMAIN tracked \ Below(q)) \union {q}
    OBVIOUS
  <2>2. merged = UNION ({tracked[e].kind : e \in Below(q)} \union {kind})
    BY <2>1 DEF TakeOver
  <2> QED BY <2>2
<1>6. Tracked(q) => Below(q) # {} \/ q \notin Seq(STRING)
  <2> SUFFICES ASSUME Tracked(q), q \in Seq(STRING) PROVE q \in Below(q)
    OBVIOUS
  <2>1. Within(q, q)
    BY DEF Within, Prefix
  <2> QED BY <2>1 DEF Below, Tracked
<1> HIDE DEF D, merged, N
<1>7. CASE q = Root
  <2>1. Counted(q, kind) = Add([removes |-> 0, nonRemoves |-> 0], merged, 1)
    BY <1>7 DEF Counted, merged
  <2>2. IsCount([removes |-> 0, nonRemoves |-> 0])
        /\ Total([removes |-> 0, nonRemoves |-> 0]) = 0
    BY DEF IsCount, Total
  <2>3. IsCount(Counted(q, kind)) /\ Total(Counted(q, kind)) = 0 + 1
    BY <2>1, <2>2, AddCount
  <2>4. Below(q) = DOMAIN tracked
    <3>1. \A p \in DOMAIN tracked : Within(p, Root)
      BY DEF AggInv, AggTypes, Within, Prefix, Root
    <3> QED BY <1>7, <3>1 DEF Below
  <2>5. D = {q}
    BY <2>4 DEF D
  <2>6. Cardinality(D) = 1
    BY <2>5, FS_Singleton
  <2> QED BY <1>2, <1>4, <2>3, <2>6 DEF D
<1>8. CASE q # Root /\ Tracked(q)
  <2>1. Counted(q, kind) = Add(Add(eventCounts, tracked[q].kind, -1), merged, 1)
    BY <1>8 DEF Counted, merged
  <2>2. /\ IsCount(Add(eventCounts, tracked[q].kind, -1))
        /\ Total(Add(eventCounts, tracked[q].kind, -1)) = Total(eventCounts) + (-1)
    BY <1>1, AddCount
  <2>3. /\ IsCount(Counted(q, kind))
        /\ Total(Counted(q, kind)) = (Total(eventCounts) + (-1)) + 1
    BY <2>1, <2>2, AddCount
  <2>4. q \in Seq(STRING)
    BY <1>8 DEF AggInv, AggTypes, Tracked
  <2>5. Cardinality(D) <= N
    BY <1>3, <1>6, <1>8, <2>4
  <2>6. Total(Counted(q, kind)) >= Cardinality(D)
    BY <1>1, <1>2, <2>3, <2>5
  <2> QED BY <1>2, <1>4, <2>3, <2>6 DEF D
<1>9. CASE q # Root /\ ~Tracked(q) /\ merged = kind
  <2>1. Counted(q, kind) = Add(eventCounts, merged, 1)
    BY <1>9 DEF Counted, merged
  <2>2. IsCount(Counted(q, kind)) /\ Total(Counted(q, kind)) = Total(eventCounts) + 1
    BY <1>1, <2>1, AddCount
  <2>3. Total(Counted(q, kind)) >= Cardinality(D)
    BY <1>1, <1>2, <2>2
  <2> QED BY <1>2, <1>4, <2>2, <2>3 DEF D
<1>10. CASE q # Root /\ ~Tracked(q) /\ merged # kind
  <2>1. Counted(q, kind) = Add(Add(eventCounts, kind, -1), merged, 1)
    BY <1>10 DEF Counted, merged
  <2>2. /\ IsCount(Add(eventCounts, kind, -1))
        /\ Total(Add(eventCounts, kind, -1)) = Total(eventCounts) + (-1)
    BY <1>1, AddCount
  <2>3. /\ IsCount(Counted(q, kind))
        /\ Total(Counted(q, kind)) = (Total(eventCounts) + (-1)) + 1
    BY <2>1, <2>2, AddCount
  <2>4. Total(Counted(q, kind)) >= Cardinality(D)
    BY <1>1, <1>2, <1>3, <1>5, <1>10, <2>3
  <2> QED BY <1>2, <1>4, <2>3, <2>4 DEF D
<1> QED BY <1>7, <1>8, <1>9, <1>10

\* What takes over events is as old as they are.
LEMMA TakeOverFirst ==
    ASSUME AggTypes, NEW q, NEW kind
    PROVE  /\ TakeOver(q, kind)[q].first \in Nat
           /\ TakeOver(q, kind)[q].first <= aggNow
           /\ \A e \in Below(q) : TakeOver(q, kind)[q].first <= tracked[e].first
           /\ \A p \in DOMAIN tracked \ Below(q) :
                 p # q => TakeOver(q, kind)[p] = tracked[p]
<1> DEFINE F == {tracked[e].first : e \in Below(q)} \union {aggNow}
<1>1. F \subseteq Nat /\ F # {} /\ aggNow \in F
      /\ \A e \in Below(q) : tracked[e].first \in F
  BY DEF AggTypes, Below
<1>2. TakeOver(q, kind)[q].first = Min(F)
  <2>1. q \in (DOMAIN tracked \ Below(q)) \union {q}
    OBVIOUS
  <2> QED BY <2>1 DEF TakeOver
<1>3. \A p \in DOMAIN tracked \ Below(q) : p # q => TakeOver(q, kind)[p] = tracked[p]
  BY DEF TakeOver
<1> HIDE DEF F
<1>4. Min(F) \in Nat /\ \A k \in F : Min(F) <= k
  BY <1>1, MinFacts
<1> QED BY <1>1, <1>2, <1>3, <1>4

\* newEvent: whatever is merged with what, every change stays covered.
LEMMA NewEventInv ==
    ASSUME AggInv, NEW p \in AggPaths, NEW kind, NewEvent(p, kind)
    PROVE  AggInv'
<1> DEFINE q == Target(p)
           T == TakeOver(q, kind)
<1>1. /\ p \in Seq(STRING) /\ probe \in Seq(STRING) /\ probe \in AggPaths
      /\ aggNow \in Nat
  BY AggAssumption DEF AggInv, AggTypes
<1>2. q \in Seq(STRING) /\ Within(p, q)
  BY <1>1, TargetAbove
<1>3. /\ UNCHANGED <<aggNow, notifying, probe>>
      /\ since' = since \/ (since' = aggNow /\ p = probe /\ p \notin inProgress)
  BY DEF NewEvent
<1>4. since' \in Nat \union {Never}
  BY <1>1, <1>3 DEF AggInv, AggTypes
<1>5. CASE UNCHANGED <<tracked, eventCounts, notifyTimer>>
  <2>1. AggTypes' /\ CounterAhead'
    BY <1>3, <1>4, <1>5 DEF AggInv, AggTypes, CounterAhead
  <2>2. CASE since' = since
    BY <1>3, <1>5, <2>1, <2>2 DEF AggInv, ChangesCovered
  <2>3. CASE since' = aggNow /\ p = probe /\ p \notin inProgress
    <3>1. CASE Tracked(Root)
      <4>1. tracked[Root].first <= aggNow /\ Root \in DOMAIN tracked
        BY <3>1 DEF AggInv, AggTypes, Tracked
      <4>2. Within(probe, Root)
        BY <1>1 DEF Within, Prefix, Root
      <4>3. notifyTimer # "idle"
        BY <4>1 DEF AggInv, CounterAhead
      <4>4. ChangesCovered'
        BY <1>3, <1>5, <2>3, <4>1, <4>2, <4>3 DEF ChangesCovered
      <4> QED BY <2>1, <4>4 DEF AggInv
    <3>2. CASE ~Tracked(Root)
      <4>1. tracked' = T /\ notifyTimer' = IF notifyTimer = "idle" /\ ~Tracked(q)
                                           THEN "armed" ELSE notifyTimer
        BY <2>3, <3>2 DEF NewEvent
      <4>2. q \in DOMAIN T /\ T[q].first <= aggNow
        BY TakeOverFirst DEF AggInv, TakeOver
      <4>3. q \in DOMAIN tracked /\ tracked[q].first <= aggNow
        BY <1>5, <4>1, <4>2
      <4>4. notifyTimer # "idle"
        BY <4>3 DEF AggInv, CounterAhead
      <4>5. ChangesCovered'
        BY <1>2, <1>3, <1>5, <2>3, <4>3, <4>4 DEF ChangesCovered
      <4> QED BY <2>1, <4>5 DEF AggInv
    <3> QED BY <3>1, <3>2
  <2> QED BY <1>3, <2>2, <2>3
<1>6. CASE /\ tracked' = T /\ eventCounts' = Counted(q, kind)
           /\ notifyTimer' = IF notifyTimer = "idle" /\ ~Tracked(q)
                             THEN "armed" ELSE notifyTimer
  <2> DEFINE D == (DOMAIN tracked \ Below(q)) \union {q}
  <2>1. /\ IsCount(eventCounts') /\ IsFiniteSet(D) /\ DOMAIN tracked' = D
        /\ Total(eventCounts') >= Cardinality(D)
    BY <1>6, NewEventCounted
  <2>2. /\ tracked'[q].first \in Nat /\ tracked'[q].first <= aggNow
        /\ \A e \in Below(q) : tracked'[q].first <= tracked[e].first
        /\ \A e \in DOMAIN tracked \ Below(q) : e # q => tracked'[e] = tracked[e]
    BY <1>6, TakeOverFirst DEF AggInv
  <2>3. AggTypes'
    <3>1. \A e \in D : tracked'[e].first \in Nat /\ tracked'[e].first <= aggNow
      BY <2>2 DEF AggInv, AggTypes
    <3>2. D \subseteq Seq(STRING)
      BY <1>2 DEF AggInv, AggTypes
    <3> QED BY <1>1, <1>3, <1>4, <2>1, <3>1, <3>2 DEF AggTypes, IsCount
  <2>4. notifyTimer' # "idle"
    <3>1. notifyTimer = "idle" => ~Tracked(q)
      BY DEF AggInv, CounterAhead, Tracked
    <3> QED BY <1>6, <3>1
  <2>5. CounterAhead'
    <3>1. notifyTimer = "off" => notifyTimer' = "off"
      BY <1>6
    <3> QED BY <1>3, <2>1, <2>4, <3>1 DEF AggInv, CounterAhead, Total
  <2>6. ChangesCovered'
    <3>1. CASE since' = aggNow /\ p = probe
      BY <1>2, <1>3, <2>1, <2>2, <2>4, <3>1 DEF ChangesCovered
    <3>2. CASE since' = since /\ since # Never
      <4>1. CASE \E e \in DOMAIN notifying :
                    Within(probe, e) /\ notifying[e].first <= since
        BY <1>3, <3>2, <4>1 DEF ChangesCovered
      <4>2. ASSUME NEW e \in DOMAIN tracked, Within(probe, e), tracked[e].first <= since
            PROVE  \E x \in D : Within(probe, x) /\ tracked'[x].first <= since
        <5>1. since \in Nat /\ tracked[e].first \in Nat /\ e \in Seq(STRING)
          BY <3>2 DEF AggInv, AggTypes
        <5>2. CASE e \in Below(q)
          <6>1. Within(e, q)
            BY <5>2 DEF Below
          <6>2. Within(probe, q)
            BY <1>1, <1>2, <4>2, <5>1, <6>1, WithinTransitive
          <6>3. tracked'[q].first <= tracked[e].first /\ tracked'[q].first \in Nat
            BY <2>2, <5>2
          <6>4. tracked'[q].first <= since
            BY <4>2, <5>1, <6>3
          <6> QED BY <6>2, <6>4
        <5>3. CASE e \notin Below(q) /\ e # q
          BY <2>2, <4>2, <5>3
        <5>4. CASE e = q /\ e \notin Below(q)
          <6>1. Within(q, q)
            BY <1>2 DEF Within, Prefix
          <6> QED BY <5>4, <6>1 DEF Below
        <5> QED BY <5>2, <5>3, <5>4
      <4> QED BY <1>3, <2>1, <2>4, <3>2, <4>1, <4>2 DEF AggInv, ChangesCovered
    <3>3. CASE since' = Never
      BY <3>3 DEF ChangesCovered
    <3> QED BY <1>3, <3>1, <3>2, <3>3
  <2> QED BY <2>3, <2>5, <2>6 DEF AggInv
<1> QED BY <1>5, <1>6 DEF NewEvent

\* actOnTimer: what is popped is what notify gets, and what the counter loses.
LEMMA ActOnTimerInv == AggInv /\ ActOnTimer => AggInv'
<1> SUFFICES ASSUME AggInv, ActOnTimer PROVE AggInv'
  OBVIOUS
<1>1. UNCHANGED <<aggNow, probe, since>> /\ notifyTimer = "armed" /\ DOMAIN notifying = {}
  BY DEF ActOnTimer, AggInv, CounterAhead
<1>2. IsFiniteSet(DOMAIN tracked) /\ Cardinality(DOMAIN tracked) \in Nat
  BY FS_CardinalityType DEF AggInv, AggTypes
<1>3. CASE Total(eventCounts) = 0 /\ notifyTimer' = "idle"
           /\ UNCHANGED <<tracked, eventCounts, notifying>>
  <2>1. DOMAIN tracked = {}
    <3>1. Cardinality(DOMAIN tracked) = 0
      BY <1>2, <1>3 DEF AggInv, CounterAhead
    <3> QED BY <1>2, <3>1, FS_EmptySet
  <2>2. AggTypes'
    BY <1>1, <1>3 DEF AggInv, AggTypes
  <2>3. CounterAhead'
    BY <1>1, <1>3, <2>1 DEF AggInv, CounterAhead
  <2>4. since = Never
    BY <1>1, <2>1 DEF AggInv, ChangesCovered
  <2> QED BY <1>1, <2>2, <2>3, <2>4 DEF AggInv, ChangesCovered
<1>4. CASE UNCHANGED <<tracked, eventCounts, notifying, notifyTimer>>
  BY <1>1, <1>4 DEF AggInv, AggTypes, CounterAhead, ChangesCovered
<1>5. CASE /\ tracked' = [p \in DOMAIN tracked \ Popped |-> tracked[p]]
           /\ eventCounts' = Uncounted(eventCounts, Popped)
           /\ notifying' = [p \in Popped |-> tracked[p]]
           /\ notifyTimer' = "off"
  <2> DEFINE P == Popped
             R == {p \in P : "remove" \in tracked[p].kind}
  <2>1. P \subseteq DOMAIN tracked
    BY DEF Popped, OldEvents
  <2>2. eventCounts' = [removes |-> eventCounts.removes - Cardinality(R),
                        nonRemoves |-> eventCounts.nonRemoves - Cardinality(P \ R)]
    BY <1>5 DEF Uncounted
  <2>3. /\ DOMAIN tracked' = DOMAIN tracked \ P
        /\ \A p \in DOMAIN tracked \ P : tracked'[p] = tracked[p]
        /\ DOMAIN notifying' = P /\ \A p \in P : notifying'[p] = tracked[p]
    BY <1>5
  <2>4. R \subseteq P
    OBVIOUS
  <2> HIDE DEF P, R
  <2>5. IsFiniteSet(P) /\ IsFiniteSet(R) /\ IsFiniteSet(P \ R)
    BY <1>2, <2>1, <2>4, FS_Subset, FS_Difference
  <2>6. /\ Cardinality(P) \in Nat /\ Cardinality(R) \in Nat /\ Cardinality(P \ R) \in Nat
        /\ Cardinality(P \ R) = Cardinality(P) - Cardinality(R)
    <3>1. P \cap R = R
      BY <2>4
    <3> QED BY <2>5, <3>1, FS_CardinalityType, FS_Difference
  <2>7. /\ IsFiniteSet(DOMAIN tracked \ P)
        /\ Cardinality(DOMAIN tracked \ P) = Cardinality(DOMAIN tracked) - Cardinality(P)
    <3>1. DOMAIN tracked \cap P = P
      BY <2>1
    <3> QED BY <1>2, <3>1, FS_Difference
  <2>8. /\ eventCounts.removes \in Int /\ eventCounts.nonRemoves \in Int
        /\ eventCounts.removes + eventCounts.nonRemoves >= Cardinality(DOMAIN tracked)
    BY DEF AggInv, AggTypes, IsCount, CounterAhead, Total
  <2>9. /\ eventCounts'.removes = eventCounts.removes - Cardinality(R)
        /\ eventCounts'.nonRemoves = eventCounts.nonRemoves - Cardinality(P \ R)
    BY <2>2
  <2>10. IsCount(eventCounts)'
    <3>1. eventCounts'.removes \in Int /\ eventCounts'.nonRemoves \in Int
      BY <2>6, <2>8, <2>9
    <3>2. eventCounts' = [removes |-> eventCounts'.removes,
                          nonRemoves |-> eventCounts'.nonRemoves]
      BY <2>2, <2>9
    <3> QED BY <3>1, <3>2 DEF IsCount
  <2>11. AggTypes'
    BY <1>1, <2>3, <2>7, <2>10 DEF AggInv, AggTypes
  <2>12. CounterAhead'
    <3>1. eventCounts'.removes + eventCounts'.nonRemoves
             >= Cardinality(DOMAIN tracked \ P)
      <4>1. eventCounts'.removes + eventCounts'.nonRemoves
              = (eventCounts.removes + eventCounts.nonRemoves) - Cardinality(P)
        BY <2>6, <2>8, <2>9
      <4> QED BY <1>2, <2>6, <2>7, <2>8, <4>1
    <3> QED BY <1>5, <2>3, <3>1 DEF CounterAhead, Total
  <2>13. ChangesCovered'
    <3> SUFFICES ASSUME since # Never PROVE ChangesCovered'
      BY <1>1 DEF ChangesCovered
    <3>1. PICK e \in DOMAIN tracked : Within(probe, e) /\ tracked[e].first <= since
      BY <1>1 DEF AggInv, ChangesCovered
    <3> QED BY <1>1, <1>5, <2>3, <3>1 DEF ChangesCovered
  <2> QED BY <2>11, <2>12, <2>13 DEF AggInv
<1> QED BY <1>3, <1>4, <1>5 DEF ActOnTimer

LEMMA AggStep == AggInv /\ [AggNext]_aggVars => AggInv'
<1> SUFFICES ASSUME AggInv, [AggNext]_aggVars PROVE AggInv'
  OBVIOUS
<1>1. ASSUME NEW p \in AggPaths, NEW kind, NewEvent(p, kind) PROVE AggInv'
  BY <1>1, NewEventInv
<1>2. CASE ActOnTimer
  BY <1>2, ActOnTimerInv
<1>3. CASE Send
  <2>1. PICK batch : /\ DOMAIN notifying' = DOMAIN notifying \ batch
                     /\ \A p \in DOMAIN notifying \ batch : notifying'[p] = notifying[p]
                     /\ since' = IF \E p \in batch : Within(probe, p) THEN Never
                                 ELSE since
    BY <1>3 DEF Send
  <2>2. UNCHANGED <<aggNow, tracked, eventCounts, notifyTimer, probe>>
    BY <1>3 DEF Send
  <2>3. AggTypes'
    BY <2>1, <2>2 DEF AggInv, AggTypes
  <2>4. CounterAhead'
    BY <2>1, <2>2 DEF AggInv, CounterAhead
  <2>5. ChangesCovered'
    BY <2>1, <2>2 DEF AggInv, ChangesCovered
  <2> QED BY <2>3, <2>4, <2>5 DEF AggInv
<1>4. CASE ResetNotifyTimer
  <2>1. /\ UNCHANGED <<aggNow, tracked, eventCounts, notifying, probe, since>>
        /\ notifyTimer' = "armed" /\ DOMAIN notifying = {}
    BY <1>4 DEF ResetNotifyTimer, NoEvents
  <2>2. AggTypes'
    BY <2>1 DEF AggInv, AggTypes
  <2>3. CounterAhead' /\ ChangesCovered'
    BY <2>1 DEF AggInv, CounterAhead, ChangesCovered
  <2> QED BY <2>2, <2>3 DEF AggInv
<1>5. CASE \/ \E p \in Pulled : UpdateInProgressSet(p)
           \/ \E s \in AggSettings : UpdateConfig(s)
           \/ UNCHANGED aggVars
  <2>1. UNCHANGED <<aggNow, tracked, eventCounts, notifyTimer, notifying, probe, since>>
    BY <1>5 DEF UpdateInProgressSet, UpdateConfig, aggVars
  <2> QED BY <2>1 DEF AggInv, AggTypes, CounterAhead, ChangesCovered
<1>6. CASE AggTick
  <2>1. /\ UNCHANGED <<tracked, eventCounts, notifyTimer, notifying, probe, since>>
        /\ aggNow' = aggNow + 1
    BY <1>6 DEF AggTick
  <2>2. AggTypes'
    <3>1. aggNow \in Nat /\ \A p \in DOMAIN tracked :
              tracked[p].first \in Nat /\ tracked[p].first <= aggNow
      BY DEF AggInv, AggTypes
    <3>2. aggNow' \in Nat /\ \A p \in DOMAIN tracked : tracked[p].first <= aggNow'
      BY <2>1, <3>1
    <3> QED BY <2>1, <3>1, <3>2 DEF AggInv, AggTypes
  <2> QED BY <2>1, <2>2 DEF AggInv, CounterAhead, ChangesCovered
<1> QED BY <1>1, <1>2, <1>3, <1>4, <1>5, <1>6 DEF AggNext

\* For any paths, limits, delays and orders of events: a change that was reported
\* stays covered, by an event that is not younger and that the timer or notify
\* will deal with, until a scan of it is asked for.
THEOREM ChangesStayCovered == AggSpec => []ChangesCovered
<1>1. AggInit => AggInv
  <2> SUFFICES ASSUME AggInit PROVE AggInv
    OBVIOUS
  <2>1. DOMAIN tracked = {} /\ DOMAIN notifying = {}
    BY DEF AggInit, NoEvents
  <2>2. IsCount(eventCounts) /\ Total(eventCounts) = 0
    BY DEF AggInit, IsCount, Total
  <2>3. AggTypes
    BY <2>1, <2>2, FS_EmptySet DEF AggInit, AggTypes
  <2>4. CounterAhead /\ ChangesCovered
    BY <2>1, <2>2, FS_EmptySet DEF AggInit, CounterAhead, ChangesCovered
  <2> QED BY <2>3, <2>4 DEF AggInv
<1>2. AggInv /\ [AggNext]_aggVars => AggInv'
  BY AggStep
<1>3. AggInv => ChangesCovered
  BY DEF AggInv
<1> QED BY <1>1, <1>2, <1>3, PTL DEF AggSpec
=============================================================================
