---------------------------- MODULE FolderRunner ----------------------------
(***************************************************************************)
(* The service of one folder (lib/model/folder.go): the select loop of     *)
(* Serve with its timers and one-place channels, scans, pulls, the folder  *)
(* error, and the file system watcher that runs beside it.                 *)
(*                                                                         *)
(* A timer may go off at any time after it was armed.  What there is to    *)
(* pull is one needed item; a pull gets it or fails.  Whether a scan finds *)
(* changes, whether the ignore patterns are found changed when they are    *)
(* loaded, and whether the database fails is a choice.  A scan or pull has *)
(* a step before and one after it has got a slot of the I/O limiter.  The  *)
(* cleanup of old versions is left out, and so is the return of Serve on a *)
(* fatal error: nothing that scans or pulls makes one.                     *)
(***************************************************************************)
EXTENDS Integers

CONSTANTS Asked,       \* requests from outside the folder: a subset of Requests
          Periodic,    \* RescanIntervalS # 0
          Watching,    \* FSWatcherEnabled
          PullerDelay  \* PullerDelayS > 0

\* The channels that ScheduleScan, ScheduleForceRescan, DelayScan and Scan use.
Requests == {"scanScheduled", "forcedRescan", "scanDelay", "doInSync"}

ASSUME RunnerAssumption ==
    /\ Asked \subseteq Requests
    /\ {Periodic, Watching, PullerDelay} \subseteq BOOLEAN

VARIABLES
    serve,       \* the Serve loop: [pc, why, hash]; hash: the ignore patterns
                 \* were found changed by the operation under way
    healthy,     \* the folder's health check succeeds
    folderErr,   \* the state tracker has an error
    initial,     \* initialScanFinished: "open", "closed", or "taken" by the loop
    timers,      \* the timers that run: "scan", "pull", "pullFail"; "pullFired"
                 \* once the pull timer has gone off
    chans,       \* the channels with something in them
    need,        \* [item, fresh]: an item is needed; no pull has begun since it is
    updated,     \* index handlers about to call SchedulePull
    watch,       \* [state, err, event]: the watcher, watchErr, and whether the
                 \* aggregator holds an event
    stopping     \* ctx is done

runnerVars == <<serve, healthy, folderErr, initial, timers, chans, need,
                updated, watch, stopping>>


AtSelect == [pc |-> "select", why |-> "none", hash |-> FALSE]
When(c, S) == IF c THEN S ELSE {}

-----------------------------------------------------------------------------
(* setError, which does nothing once ctx is done.                          *)

\* Mutant: clearing the error does not schedule a pull.
ClearedQuietly == When(folderErr /\ Watching /\ ~stopping, {"restartWatch"})

\* The channels that are filled when the error is cleared.
Cleared == When(folderErr /\ ~stopping,
                {"pullScheduled"} \union When(Watching, {"restartWatch"}))

ClearError == folderErr' = (folderErr /\ stopping)

\* An error: unless it is the one there was, the watcher, which is w otherwise,
\* is stopped.
SetError(w) ==
    /\ folderErr' = (folderErr \/ ~stopping)
    /\ \E other \in {TRUE, ~folderErr} :
          watch' = IF Watching /\ other /\ ~stopping
                   THEN [state |-> "off", err |-> FALSE, event |-> FALSE]
                   ELSE w

-----------------------------------------------------------------------------
(* pull                                                                    *)

\* Mutant: a pull that was asked for during another one is forgotten.
ReturnedForgetful(ts, cs) ==
    /\ serve' = AtSelect
    /\ timers' = ts
    /\ chans' = cs \ {"pullScheduled"}

\* A pull is over; the timers ts run and the channels cs have something.
Returned(ts, cs) ==
    /\ serve' = AtSelect
    /\ timers' = ts
    /\ chans' = cs

\* pull, up to its waiting for a slot; ts and cs are what is left of timers and
\* channels by the select case. No pull before the initial scan. Counting what is
\* needed may fail, whatever that is and however healthy the folder.
Pull(ts, cs) ==
    LET left == ts \ {"pullFail"} IN
    \/ /\ initial = "open" \/ ~need.item
       /\ serve' = AtSelect /\ timers' = left /\ chans' = cs
       /\ UNCHANGED <<folderErr, watch, need>>
    \/ /\ initial # "open"
       /\ serve' = AtSelect /\ timers' = left /\ chans' = cs
       /\ SetError(watch)
       /\ UNCHANGED need
    \/ /\ initial # "open" /\ need.item /\ healthy
       /\ serve' = [pc |-> "pullWait", why |-> "none", hash |-> FALSE]
       /\ timers' = left /\ chans' = cs
       /\ UNCHANGED <<folderErr, watch, need>>

\* The slot is there. Ignore patterns and health are checked again.
PullStarts(hash) ==
    /\ serve.pc = "pullWait"
    /\ IF healthy
       THEN /\ serve' = [serve EXCEPT !.pc = "pull", !.hash = hash]
            /\ ClearError
            /\ chans' = chans \union Cleared
            /\ need' = [need EXCEPT !.fresh = FALSE]
            /\ UNCHANGED <<watch, timers>>
       ELSE /\ SetError(watch)
            /\ Returned(timers,
                        chans \union When(hash /\ Watching, {"restartWatch"}))
            /\ UNCHANGED need
    /\ UNCHANGED <<healthy, initial, updated, stopping>>

\* puller.pull has got what was needed.
PullSucceeds ==
    /\ serve.pc = "pull"
    /\ need' = [need EXCEPT !.item = need.fresh]
    /\ Returned(timers,
                chans \union When(serve.hash /\ Watching, {"restartWatch"}))
    /\ UNCHANGED <<healthy, folderErr, initial, updated, watch, stopping>>

\* It has not; with an error of the database it ends the same way, and the
\* folder is in error.
PullFails(err) ==
    /\ serve.pc = "pull"
    /\ Returned(timers \union {"pullFail"},
                chans \union When(serve.hash /\ Watching, {"restartWatch"}))
    /\ IF err THEN SetError(watch) ELSE UNCHANGED <<folderErr, watch>>
    /\ UNCHANGED <<healthy, initial, need, updated, stopping>>

-----------------------------------------------------------------------------
(* scanSubdirs                                                             *)

\* What scanTimerFired does after the scan.
TimerScanDone(why) ==
    initial' = IF why = "timer" /\ initial = "open" THEN "closed" ELSE initial

Rescheduled(why, ts) == ts \union When(why = "timer" /\ Periodic, {"scan"})

\* scanSubdirs, up to its waiting for a slot: health, ignore patterns, error.
\* w: the watcher, as the select case leaves it.
Scan(why, ts, cs, w) ==
    IF healthy
    THEN /\ \E hash \in BOOLEAN :
               serve' = [pc |-> "scanWait", why |-> why, hash |-> hash]
         /\ ClearError
         /\ chans' = cs \union Cleared
         /\ timers' = ts
         /\ watch' = w
         /\ UNCHANGED initial
    ELSE /\ serve' = AtSelect
         /\ SetError(w)
         /\ chans' = cs
         /\ timers' = Rescheduled(why, ts)
         /\ TimerScanDone(why)

\* The scan is over; changes: something was found.
ScanReturns(changes) ==
    /\ serve' = AtSelect
    /\ chans' = chans \union When(changes \/ serve.hash, {"pullScheduled"})
                      \union When(serve.hash /\ Watching, {"restartWatch"})
    /\ timers' = Rescheduled(serve.why, timers)
    /\ TimerScanDone(serve.why)

\* The slot is there, and the walk and the updates of the database.
ScanCompletes(changes) ==
    /\ serve.pc = "scanWait"
    /\ ScanReturns(changes)
    /\ UNCHANGED <<healthy, folderErr, need, updated, watch, stopping>>

\* The database fails, or a batch is not written because the folder's health has
\* changed. Changes found before count.
ScanFails(changes) ==
    /\ serve.pc = "scanWait"
    /\ ScanReturns(changes)
    /\ SetError(watch)
    /\ UNCHANGED <<healthy, need, updated, stopping>>

-----------------------------------------------------------------------------
(* The select loop.                                                        *)

\* With a delay, the pull timer starts anew, also if it has gone off already.
SelectPullScheduled ==
    /\ serve.pc = "select" /\ "pullScheduled" \in chans
    /\ IF PullerDelay
       THEN /\ timers' = (timers \ {"pullFired"}) \union {"pull"}
            /\ chans' = chans \ {"pullScheduled"}
            /\ UNCHANGED <<serve, folderErr, watch, need>>
       ELSE Pull(timers, chans \ {"pullScheduled"})
    /\ UNCHANGED <<healthy, initial, updated, stopping>>

PullTimerFires ==
    /\ "pull" \in timers
    /\ timers' = (timers \ {"pull"}) \union {"pullFired"}
    /\ UNCHANGED <<serve, healthy, folderErr, initial, chans, need, updated,
                   watch, stopping>>

SelectPullTimer(t) ==
    /\ serve.pc = "select" /\ t \in timers
    /\ Pull(timers \ {t}, chans)
    /\ UNCHANGED <<healthy, initial, updated, stopping>>

SelectInitialCompleted ==
    /\ serve.pc = "select" /\ initial = "closed"
    /\ initial' = "taken"
    /\ Pull(timers, chans)
    /\ UNCHANGED <<healthy, updated, stopping>>

SelectScanTimer ==
    /\ serve.pc = "select" /\ "scan" \in timers
    /\ Scan("timer", timers \ {"scan"}, chans, watch)
    /\ UNCHANGED <<healthy, need, updated, stopping>>

\* A forced rescan, or a Scan called from elsewhere, which waits for the
\* initial scan first.
SelectScanRequest(c) ==
    /\ serve.pc = "select" /\ c \in chans
    /\ c = "doInSync" => initial # "open"
    /\ Scan("request", timers, chans \ {c}, watch)
    /\ UNCHANGED <<healthy, need, updated, stopping>>

\* scanDelay and scanScheduled only set the timer.
SelectResetTimer(c) ==
    /\ serve.pc = "select" /\ c \in chans
    /\ timers' = timers \union {"scan"}
    /\ chans' = chans \ {c}
    /\ UNCHANGED <<serve, healthy, folderErr, initial, need, updated, watch,
                   stopping>>

SelectWatchEvent ==
    /\ serve.pc = "select" /\ watch.event
    /\ Scan("event", timers, chans, [watch EXCEPT !.event = FALSE])
    /\ UNCHANGED <<healthy, need, updated, stopping>>

\* restartWatch: stopWatch, startWatch and a scan.
SelectRestartWatch ==
    /\ serve.pc = "select" /\ "restartWatch" \in chans
    /\ Scan("restart", timers, chans \ {"restartWatch"},
            [state |-> "starting", err |-> FALSE, event |-> FALSE])
    /\ UNCHANGED <<healthy, need, updated, stopping>>

SelectDone ==
    /\ serve.pc = "select" /\ stopping
    /\ serve' = [serve EXCEPT !.pc = "stopped"]
    /\ timers' = timers \ {"scan"}
    /\ UNCHANGED <<healthy, folderErr, initial, chans, need, updated, watch,
                   stopping>>

\* While the loop waits for a slot, the end of ctx ends the wait.
PullCancelled ==
    /\ serve.pc = "pullWait" /\ stopping
    /\ serve' = AtSelect
    /\ UNCHANGED <<healthy, folderErr, initial, timers, chans, need, updated,
                   watch, stopping>>

ScanCancelled ==
    /\ serve.pc = "scanWait" /\ stopping
    /\ ScanReturns(FALSE)
    /\ UNCHANGED <<healthy, folderErr, need, updated, watch, stopping>>

-----------------------------------------------------------------------------
(* monitorWatch                                                            *)

\* Watch succeeds; after an error a full scan is asked for, by a send on the
\* unbuffered scanDelay.
WatchStarts ==
    /\ watch.state = "starting"
    /\ watch' = [watch EXCEPT !.state = "on", !.err = FALSE]
    /\ chans' = chans \union When(watch.err, {"scanDelay"})
    /\ UNCHANGED <<serve, healthy, folderErr, initial, timers, need, updated,
                   stopping>>

WatchFails ==
    /\ watch.state = "starting"
    /\ watch' = [watch EXCEPT !.err = TRUE]
    /\ chans' = chans \union When(watch.err, {"scanDelay"})
    /\ UNCHANGED <<serve, healthy, folderErr, initial, timers, need, updated,
                   stopping>>

\* An error while watching: the aggregator and what it holds are dropped.
WatchBreaks ==
    /\ watch.state = "on"
    /\ watch' = [state |-> "starting", err |-> TRUE, event |-> FALSE]
    /\ UNCHANGED <<serve, healthy, folderErr, initial, timers, chans, need,
                   updated, stopping>>

-----------------------------------------------------------------------------
(* Everybody else.                                                         *)

\* An index handler has written something that is needed to the database.
IndexUpdated ==
    /\ ~updated
    /\ updated' = TRUE
    /\ need' = [item |-> TRUE, fresh |-> TRUE]
    /\ UNCHANGED <<serve, healthy, folderErr, initial, timers, chans, watch,
                   stopping>>

SchedulePull ==
    /\ updated
    /\ updated' = FALSE
    /\ chans' = chans \union {"pullScheduled"}
    /\ UNCHANGED <<serve, healthy, folderErr, initial, timers, need, watch,
                   stopping>>

\* ScheduleScan, ScheduleForceRescan, DelayScan and Scan; bound: one at a time.
Ask(c) ==
    /\ chans \intersect Asked = {}
    /\ chans' = chans \union {c}
    /\ UNCHANGED <<serve, healthy, folderErr, initial, timers, need, updated,
                   watch, stopping>>

\* Something changes on disk, and the watcher notices.
DiskChanges ==
    /\ watch.state = "on"
    /\ watch' = [watch EXCEPT !.event = TRUE]
    /\ UNCHANGED <<serve, healthy, folderErr, initial, timers, chans, need,
                   updated, stopping>>

HealthChanges ==
    /\ healthy' = ~healthy
    /\ UNCHANGED <<serve, folderErr, initial, timers, chans, need, updated,
                   watch, stopping>>

StopFolder ==
    /\ stopping' = TRUE
    /\ UNCHANGED <<serve, healthy, folderErr, initial, timers, chans, need,
                   updated, watch>>

-----------------------------------------------------------------------------

RunnerInit ==
    /\ serve = AtSelect
    /\ healthy \in BOOLEAN
    /\ folderErr = FALSE
    /\ initial = "open"
    /\ timers = {"scan"}
    /\ chans = {}
    /\ need \in {[item |-> b, fresh |-> b] : b \in BOOLEAN}
    /\ updated = FALSE
    /\ watch = [state |-> IF Watching /\ healthy THEN "starting" ELSE "off",
                err |-> FALSE, event |-> FALSE]
    /\ stopping = FALSE

Select ==
    \/ SelectPullScheduled \/ SelectInitialCompleted \/ SelectScanTimer
    \/ \E t \in {"pullFired", "pullFail"} : SelectPullTimer(t)
    \/ \E c \in {"forcedRescan", "doInSync"} : SelectScanRequest(c)
    \/ \E c \in {"scanDelay", "scanScheduled"} : SelectResetTimer(c)
    \/ SelectWatchEvent \/ SelectRestartWatch \/ SelectDone

Operation ==
    \/ PullSucceeds
    \/ \E b \in BOOLEAN :
          PullStarts(b) \/ PullFails(b) \/ ScanCompletes(b) \/ ScanFails(b)
    \/ PullCancelled \/ ScanCancelled

RunnerEnvironment ==
    /\ ~stopping
    /\ \/ IndexUpdated \/ DiskChanges \/ HealthChanges
       \/ \E c \in Asked : Ask(c)
       \/ WatchStarts \/ WatchFails \/ WatchBreaks \/ StopFolder

RunnerNext ==
    Select \/ PullTimerFires \/ Operation \/ SchedulePull \/ RunnerEnvironment

RunnerSpec == RunnerInit /\ [][RunnerNext]_runnerVars

(***************************************************************************)
(* The select statement picks among the cases that are ready at random, so *)
(* none of them is passed over for ever.  Scans end, and slots of the I/O  *)
(* limiter get free; nothing is assumed of the end of a pull, nor of the   *)
(* pull timer, which may be put off again and again.  The scan timer is    *)
(* reset only to go off at once, so not with "scanDelay" in Asked.         *)
(* Counting what is needed does not fail every time.                       *)
(***************************************************************************)
RunnerFairness ==
    /\ WF_runnerVars(Operation /\ serve.pc # "pull") /\ WF_runnerVars(SchedulePull)
    /\ SF_runnerVars(SelectScanTimer) /\ SF_runnerVars(SelectInitialCompleted)
    /\ SF_runnerVars(SelectPullScheduled /\ (PullerDelay \/ serve'.pc = "pullWait"))
    /\ SF_runnerVars(SelectPullTimer("pullFired") /\ serve'.pc = "pullWait")

FairRunnerSpec == RunnerSpec /\ RunnerFairness

-----------------------------------------------------------------------------

\* No pull is lost: whenever the loop is back at its select while an item is
\* needed and its index handler has called SchedulePull, a pull is due (by a
\* channel, a timer, or the end of the initial scan), or the folder is in error
\* or has not been scanned yet and the scan that will lead to a pull is due.
NoLostPull ==
    serve.pc = "select" /\ need.item /\ ~updated /\ initial # "closed"
        /\ ~stopping =>
        \/ "pullScheduled" \in chans
        \/ timers \intersect {"pull", "pullFired", "pullFail"} # {}
        \/ "scan" \in timers /\ (folderErr \/ initial = "open")

\* If the folder's health recovers for good and the folder is not stopped, if no
\* pull hangs and the requests for pulls do not put the pull timer off for ever,
\* then a pull begins in the end for every item that has come to be needed,
\* whatever goes on besides and even if pulls and scans keep failing.
NeededIsPulled ==
    /\ <>[]healthy /\ []~stopping
    /\ []<>(serve.pc # "pull") /\ []<>("pull" \notin timers)
    => (need.fresh ~> ~need.fresh)
=============================================================================
