---------------------------- MODULE FolderStates ----------------------------
(***************************************************************************)
(* One folder on one device: how changes of the configuration reach the    *)
(* maps of the model and the index handler registry of a connection to     *)
(* another device, while cluster configs of that device are handled.       *)
(*                                                                         *)
(* The wrapper replaces the configuration first and then has the model     *)
(* commit it, one change after the other, so that handlers of messages see *)
(* configurations the model has not committed yet.  model.mut is free only *)
(* between the steps here; the registry's own mutex within ccHandleFolders *)
(* as well.  Runners are numbered.  Starting a handler may fail, in the    *)
(* database, which nobody hears of.  A failed check of the encryption,     *)
(* which ends the connection, is left out.                                 *)
(***************************************************************************)
EXTENDS Naturals

CONSTANTS MaxRunners,   \* bound: runners that are ever started
          MaxCommits    \* bound: changes of the configuration

ASSUME StatesAssumption == MaxRunners \in Nat /\ MaxCommits \in Nat

VARIABLES
    fcfg,         \* the folder in the wrapper's configuration
    commit,       \* CommitConfiguration: [pc, from, to]
    commits,      \* number of changes so far
    folderCfgs,   \* the model's entry for the folder
    folderRunners,\* the runner in the service map: 0 for none
    stoppedRunner,\* the runner has been stopped and is still in the map
    lastRunner,   \* number of runners so far
    registry,     \* the index handler registry of the connection; failed is
                  \* history: the last start of a handler failed
    handling,     \* ClusterConfig: [pc, announced, cfg]
    wanted        \* history: the device's last cluster config has the folder
                  \* running, and we have not unshared or removed it since

modelVars == <<folderCfgs, folderRunners, stoppedRunner, lastRunner>>
statesVars == <<fcfg, commit, commits, modelVars, registry, handling, wanted>>

\* What the configuration says of the folder.
Absent == [here |-> FALSE, paused |-> FALSE, shared |-> FALSE]
FolderCfgs == {Absent} \union [here : {TRUE}, paused : BOOLEAN, shared : BOOLEAN]

NoRegistry == [open |-> FALSE]
NoState == [known |-> FALSE]
NoHandler == [on |-> FALSE]
Idle == [pc |-> "idle"]

HandlerOf(run) == [on |-> TRUE, paused |-> FALSE, runner |-> run]

-----------------------------------------------------------------------------
(* The registry.  Each of these runs with its mutex held.                  *)

\* startLocked. The start info is gone before newIndexHandler may fail, and both
\* callers drop the error.
StartLocked(reg, run, ok) ==
    [reg EXCEPT !.handler = IF ok THEN HandlerOf(run) ELSE NoHandler,
                !.info = FALSE, !.failed = ~ok]

\* AddIndexInfo.
AddIndexInfo(reg, ok) ==
    IF reg.state.known THEN StartLocked(reg, reg.state.runner, ok)
    ELSE [reg EXCEPT !.handler = NoHandler, !.info = TRUE, !.failed = FALSE]

\* Remove, which leaves the state of the folder.
Remove(reg) == [reg EXCEPT !.handler = NoHandler, !.info = FALSE, !.failed = FALSE]

\* folderPausedLocked.
FolderPaused(reg) ==
    [reg EXCEPT !.state = NoState,
                !.handler = IF @.on THEN [on |-> TRUE, paused |-> TRUE, runner |-> 0] ELSE @]

\* Mutant: a handler is resumed with the runner that was known before.
FolderRunningOldRunner(reg, run, ok) ==
    LET old == IF reg.state.known THEN reg.state.runner ELSE run
        known == [reg EXCEPT !.state = [known |-> TRUE, runner |-> run]]
    IN  IF known.info THEN StartLocked(known, run, ok)
        ELSE IF known.handler.on THEN [known EXCEPT !.handler = HandlerOf(old)]
        ELSE known

\* folderRunningLocked: a start info that waits is used, or else the handler
\* resumed with the runner there is now.
FolderRunning(reg, run, ok) ==
    LET known == [reg EXCEPT !.state = [known |-> TRUE, runner |-> run]]
    IN  IF known.info THEN StartLocked(known, run, ok)
        ELSE IF known.handler.on THEN [known EXCEPT !.handler = HandlerOf(run)]
        ELSE known

\* RegisterFolderState.
RegisterFolderState(reg, cfg, run, ok) ==
    IF ~reg.open THEN reg
    ELSE IF ~cfg.shared THEN Remove(reg)
    ELSE IF cfg.paused THEN FolderPaused(reg)
    ELSE FolderRunning(reg, run, ok)

-----------------------------------------------------------------------------
(* Configuration changes.                                                  *)

StatesInit ==
    /\ fcfg \in {c \in FolderCfgs : ~c.here \/ c.paused}
    /\ commit = Idle /\ commits = 0
    /\ folderCfgs = Absent /\ folderRunners = 0 /\ stoppedRunner = FALSE
    /\ lastRunner = 0
    /\ registry = NoRegistry /\ handling = Idle /\ wanted = FALSE

\* Modify: the wrapper replaces the configuration and calls CommitConfiguration,
\* once the last change has been committed.
ModifyFolder(to) ==
    /\ commit = Idle /\ commits < MaxCommits /\ to # fcfg
    /\ fcfg' = to /\ commits' = commits + 1
    /\ commit' = [pc |-> "begin", from |-> fcfg, to |-> to]
    /\ UNCHANGED <<modelVars, registry, handling, wanted>>

\* addAndStartFolderLocked, where another runner would be a panic.
AddAndStart(to) ==
    /\ lastRunner < MaxRunners
    /\ folderCfgs' = to
    /\ folderRunners' = lastRunner + 1 /\ lastRunner' = lastRunner + 1
    /\ stoppedRunner' = FALSE

\* newFolder, of a folder that is new; paused ones are not added.
NewFolder ==
    /\ commit.pc = "begin" /\ ~commit.from.here
    /\ IF commit.to.paused
         THEN UNCHANGED <<modelVars, registry>>
         ELSE /\ AddAndStart(commit.to)
              /\ \E ok \in BOOLEAN : registry' =
                    RegisterFolderState(registry, commit.to, folderRunners', ok)
    /\ wanted' = (wanted /\ commit.to.shared)
    /\ commit' = Idle
    /\ UNCHANGED <<fcfg, commits, handling>>

\* removeFolder and restartFolder stop the runner and wait for it without the
\* mutex. A folder that stays paused is passed over.
StopRunner ==
    /\ commit.pc = "begin" /\ commit.from.here
    /\ IF commit.to.here /\ commit.from.paused /\ commit.to.paused
         THEN /\ commit' = Idle /\ UNCHANGED stoppedRunner
              /\ wanted' = (wanted /\ commit.to.shared)
         ELSE /\ commit' = [commit EXCEPT !.pc = "stopped"]
              /\ stoppedRunner' = (folderRunners # 0) /\ UNCHANGED wanted
    /\ UNCHANGED <<fcfg, commits, folderCfgs, folderRunners, lastRunner, registry, handling>>

\* The rest of removeFolder.
RemoveFolder ==
    /\ commit.pc = "stopped" /\ ~commit.to.here
    /\ folderCfgs' = Absent /\ folderRunners' = 0 /\ stoppedRunner' = FALSE
    /\ registry' = IF registry.open THEN Remove(registry) ELSE registry
    /\ wanted' = FALSE
    /\ commit' = Idle
    /\ UNCHANGED <<fcfg, commits, lastRunner, handling>>

\* The rest of restartFolder.
RestartFolder ==
    /\ commit.pc = "stopped" /\ commit.to.here
    /\ IF commit.to.paused
         THEN /\ folderCfgs' = Absent /\ folderRunners' = 0 /\ stoppedRunner' = FALSE
              /\ UNCHANGED lastRunner
         ELSE AddAndStart(commit.to)
    /\ \E ok \in BOOLEAN : registry' =
          RegisterFolderState(registry, commit.to, folderRunners', ok)
    /\ wanted' = (wanted /\ commit.to.shared)
    /\ commit' = Idle
    /\ UNCHANGED <<fcfg, commits, handling>>

-----------------------------------------------------------------------------
(* Cluster configs.                                                        *)

\* A cluster config arrives that has the folder running, paused or not at all.
\* ensureIndexHandler: a new registry is told of the folders that run, and has
\* nothing to start yet.
EnsureIndexHandler(announced) ==
    /\ handling = Idle
    /\ registry' =
         IF registry.open THEN registry
         ELSE LET new == [open |-> TRUE, state |-> NoState, info |-> FALSE,
                          handler |-> NoHandler, failed |-> FALSE]
              IN  IF folderCfgs.here
                  THEN RegisterFolderState(new, folderCfgs, folderRunners, TRUE)
                  ELSE new
    /\ handling' = [pc |-> "lookup", announced |-> announced]
    /\ UNCHANGED <<fcfg, commit, commits, modelVars, wanted>>

\* ccHandleFolders looks the folder up in the wrapper's configuration.
CCLookUp ==
    /\ handling.pc = "lookup"
    /\ handling' = [handling EXCEPT !.pc =
         IF handling.announced = "absent" THEN "except"
         ELSE IF ~fcfg.shared THEN "unexpected"
         ELSE IF handling.announced = "paused" THEN "remove"
         ELSE "add"]
    /\ UNCHANGED <<fcfg, commit, commits, modelVars, registry, wanted>>

\* A folder that is not shared with the device, or that it has paused. The
\* former becomes a pending folder, unless folders of that name are ignored.
CCRemove(ignoredFolder) ==
    /\ handling.pc \in {"unexpected", "remove"}
    /\ registry' = Remove(registry)
    /\ handling' = [handling EXCEPT !.pc =
         IF @ = "unexpected" /\ handling.announced = "running" /\ ~ignoredFolder
         THEN "add" ELSE "except"]
    /\ wanted' = FALSE
    /\ UNCHANGED <<fcfg, commit, commits, modelVars>>

CCAdd ==
    /\ handling.pc = "add"
    /\ \E ok \in BOOLEAN : registry' = AddIndexInfo(registry, ok)
    /\ handling' = [handling EXCEPT !.pc = "except"]
    /\ wanted' = TRUE
    /\ UNCHANGED <<fcfg, commit, commits, modelVars>>

\* RemoveAllExcept.
CCRemoveAllExcept ==
    /\ handling.pc = "except"
    /\ registry' = IF handling.announced = "absent" THEN Remove(registry) ELSE registry
    /\ wanted' = (wanted /\ handling.announced # "absent")
    /\ handling' = Idle
    /\ UNCHANGED <<fcfg, commit, commits, modelVars>>

\* Closed, after the last message has been handled.
CloseRegistry ==
    /\ registry.open /\ handling = Idle
    /\ registry' = NoRegistry
    /\ wanted' = FALSE
    /\ UNCHANGED <<fcfg, commit, commits, modelVars, handling>>

StatesNext ==
    \/ \E to \in FolderCfgs : ModifyFolder(to)
    \/ NewFolder \/ StopRunner \/ RemoveFolder \/ RestartFolder
    \/ \E a \in {"running", "paused", "absent"} : EnsureIndexHandler(a)
    \/ CCLookUp \/ \E b \in BOOLEAN : CCRemove(b)
    \/ CCAdd \/ CCRemoveAllExcept
    \/ CloseRegistry

StatesSpec == StatesInit /\ [][StatesNext]_statesVars

-----------------------------------------------------------------------------

Settled == commit = Idle /\ handling = Idle
Runs == fcfg.here /\ ~fcfg.paused

\* Whatever the order in which cluster configs and changes of the configuration
\* are handled: once both are, the model has a runner, which is not a stopped
\* one, exactly for a folder that is to run; and if the other device wants it
\* too, no start info waits for an occasion that will not come, and the index
\* handler is there and works with that runner, unless its own start failed.
HandlersFollow ==
    Settled =>
        /\ (folderRunners # 0) = Runs /\ ~stoppedRunner
        /\ wanted /\ Runs /\ fcfg.shared =>
              /\ ~registry.info
              /\ registry.handler = IF registry.failed THEN NoHandler
                                    ELSE HandlerOf(folderRunners)

\* An index handler is there only for a folder that is shared. Does not hold:
\* Remove keeps the folder's state, and a cluster config handled around a change
\* starts a handler from it.
HandlersOnlyShared ==
    Settled /\ registry.open => (registry.handler.on => fcfg.shared)
=============================================================================
