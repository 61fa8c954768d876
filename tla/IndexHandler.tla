---------------------------- MODULE IndexHandler ----------------------------
(***************************************************************************)
(* One index handler of lib/model/indexhandler.go: the loop of Serve, the  *)
(* condition variable it sleeps on while the folder is paused, the         *)
(* goroutine that is to wake it when its context quits, and the registry   *)
(* that pauses, resumes and replaces it under its own mutex.               *)
(*                                                                         *)
(* What is sent is the subject of IndexExchange; here newer says only that *)
(* the local index has something the handler has not sent.                 *)
(***************************************************************************)
EXTENDS Naturals

CONSTANT MaxSends      \* bound: what sends counts up to

ASSUME SendsAssumption == MaxSends \in Nat \ {0}

VARIABLES
    hpc,        \* Serve: where it is
    paused,    \* the handler's flag, under cond.L
    woken,     \* the sleeper has been notified by a Broadcast
    locked,    \* Serve holds cond.L
    ctxDone,   \* the context of Serve has been cancelled
    watcher,   \* the goroutine that broadcasts when the context quits
    regMut,    \* who holds the registry's mutex across a wait
    first,     \* Serve has not sent its first index
    newer,     \* GetDeviceSequence > localPrevSequence
    sends      \* history: sendIndexTo begun since the last pause or resume

handlerVars == <<hpc, paused, woken, locked, ctxDone, watcher, regMut, first, newer,
          sends>>

\* Points of Serve: about to lock cond.L, holding it in the loop's test, past
\* the test and about to Wait, asleep, past the pause, about to send, waiting
\* for news, waiting 250 ms, returned.
Points == {"none", "enter", "test", "wait", "asleep", "seq", "send", "idle",
           "gap", "done"}

\* sync.Cond.Broadcast: whoever is asleep now is woken, nobody else.
CondBroadcast == woken' = IF hpc = "asleep" THEN TRUE ELSE woken

HandlerInit ==
    /\ hpc = "none" /\ paused = FALSE /\ woken = FALSE /\ locked = FALSE
    /\ ctxDone = FALSE /\ watcher = "none" /\ regMut = "free"
    /\ first = TRUE /\ newer = FALSE /\ sends = 0

-----------------------------------------------------------------------------
(* Serve.                                                                  *)

\* waitWhilePaused takes cond.L.
Enter ==
    /\ hpc = "enter"
    /\ hpc' = "test" /\ locked' = TRUE
    /\ UNCHANGED <<paused, woken, ctxDone, watcher, regMut, first, newer, sends>>

\* Mutant: an if instead of the loop.
TestOnce ==
    /\ hpc = "test"
    /\ \/ ~paused /\ hpc' = "seq" /\ locked' = FALSE
       \/ paused /\ ctxDone /\ hpc' = "done" /\ locked' = FALSE
       \/ paused /\ ~ctxDone /\ hpc' \in {"wait", "seq"} /\ locked' = (hpc' = "wait")
    /\ UNCHANGED <<paused, woken, ctxDone, watcher, regMut, first, newer, sends>>

\* One round of waitWhilePaused's loop.
Test ==
    /\ hpc = "test"
    /\ \/ ~paused /\ hpc' = "seq" /\ locked' = FALSE
       \/ paused /\ ctxDone /\ hpc' = "done" /\ locked' = FALSE
       \/ paused /\ ~ctxDone /\ hpc' = "wait" /\ locked' = TRUE
    /\ UNCHANGED <<paused, woken, ctxDone, watcher, regMut, first, newer, sends>>

\* cond.Wait: onto the wait list and out of the lock.
Wait ==
    /\ hpc = "wait"
    /\ hpc' = "asleep" /\ locked' = FALSE /\ woken' = FALSE
    /\ UNCHANGED <<paused, ctxDone, watcher, regMut, first, newer, sends>>

\* cond.Wait returns with the lock.
Wake ==
    /\ hpc = "asleep" /\ woken
    /\ hpc' = "test" /\ locked' = TRUE /\ woken' = FALSE
    /\ UNCHANGED <<paused, ctxDone, watcher, regMut, first, newer, sends>>

\* Past the pause. One index is sent whether there is something to send or
\* not; later ones when there is.
CheckSequence ==
    /\ hpc = "seq"
    /\ hpc' = IF first \/ newer THEN "send" ELSE "idle"
    /\ UNCHANGED <<paused, woken, locked, ctxDone, watcher, regMut, first, newer,
                   sends>>

\* sendIndexTo: a batch of what is new goes out.
Send ==
    /\ hpc = "send"
    /\ hpc' = IF first THEN "enter" ELSE "gap"
    /\ first' = FALSE
    /\ newer' \in {newer, FALSE}
    /\ sends' = IF sends < MaxSends THEN sends + 1 ELSE sends
    /\ UNCHANGED <<paused, woken, locked, ctxDone, watcher, regMut>>

\* An error of the database or the connection, or the context, ends Serve.
Fail ==
    /\ hpc \in {"seq", "send"}
    /\ hpc' = "done"
    /\ UNCHANGED <<paused, woken, locked, ctxDone, watcher, regMut, first, newer,
                   sends>>

\* The two selects: an event or a timer ...
SelectEvent ==
    /\ hpc \in {"idle", "gap"}
    /\ hpc' = "enter"
    /\ UNCHANGED <<paused, woken, locked, ctxDone, watcher, regMut, first, newer,
                   sends>>

\* ... or the context.
HandlerDone ==
    /\ hpc \in {"idle", "gap"} /\ ctxDone
    /\ hpc' = "done"
    /\ UNCHANGED <<paused, woken, locked, ctxDone, watcher, regMut, first, newer,
                   sends>>

\* The goroutine that waits for the context. It does not take cond.L.
WatchContext ==
    /\ watcher = "select"
    /\ \/ ctxDone /\ CondBroadcast
       \/ hpc = "done" /\ UNCHANGED woken
    /\ watcher' = "none"
    /\ UNCHANGED <<hpc, paused, locked, ctxDone, regMut, first, newer, sends>>

-----------------------------------------------------------------------------
(* The registry.  Every operation holds its mutex, and waits with it.      *)

\* startLocked adds the handler to the supervisor.
Start ==
    /\ regMut = "free" /\ hpc = "none"
    /\ hpc' = "enter" /\ watcher' = "select"
    /\ paused' = FALSE /\ ctxDone' = FALSE /\ first' = TRUE /\ sends' = 0
    /\ UNCHANGED <<woken, locked, regMut, newer>>

\* folderPausedLocked and pause.
Pause ==
    /\ regMut = "free" /\ hpc # "none" /\ ~locked
    /\ paused' = TRUE
    /\ CondBroadcast
    /\ sends' = 0
    /\ UNCHANGED <<hpc, locked, ctxDone, watcher, regMut, first, newer>>

\* Mutant: the flag is reset and nobody is told.
ResumeSilently ==
    /\ regMut = "free" /\ hpc # "none" /\ ~locked
    /\ paused' = FALSE
    /\ sends' = 0
    /\ UNCHANGED <<hpc, woken, locked, ctxDone, watcher, regMut, first, newer>>

\* folderRunningLocked and resume.
Resume ==
    /\ regMut = "free" /\ hpc # "none" /\ ~locked
    /\ paused' = FALSE
    /\ CondBroadcast
    /\ sends' = 0
    /\ UNCHANGED <<hpc, locked, ctxDone, watcher, regMut, first, newer>>

\* RemoveAndWait of Remove, RemoveAllExcept, AddIndexInfo or startLocked.
RemoveHandler ==
    /\ regMut = "free" /\ hpc # "none"
    /\ regMut' = "removing" /\ ctxDone' = TRUE
    /\ UNCHANGED <<hpc, paused, woken, locked, watcher, first, newer, sends>>

Removed ==
    /\ regMut = "removing" /\ hpc = "done"
    /\ regMut' = "free" /\ hpc' = "none"
    /\ paused' = FALSE /\ watcher' = "none" /\ sends' = 0
    /\ UNCHANGED <<woken, locked, ctxDone, first, newer>>

\* The registry's own context is cancelled (model.Closed, shutdown).
CancelHandler ==
    /\ hpc # "none"
    /\ ctxDone' = TRUE
    /\ UNCHANGED <<hpc, paused, woken, locked, watcher, regMut, first, newer, sends>>

\* The local index changes.
LocalChange ==
    /\ newer' = TRUE
    /\ UNCHANGED <<hpc, paused, woken, locked, ctxDone, watcher, regMut, first, sends>>

ServeStep ==
    Enter \/ Test \/ Wait \/ Wake \/ CheckSequence \/ Send \/ SelectEvent

HandlerNext ==
    \/ ServeStep \/ HandlerDone \/ Fail \/ WatchContext
    \/ Start \/ Pause \/ Resume \/ RemoveHandler \/ Removed \/ CancelHandler
    \/ LocalChange

HandlerSpec == HandlerInit /\ [][HandlerNext]_handlerVars

\* Serve and its goroutine run on, and a select does not pick the other branch
\* for ever when the context has quit. Nothing else has to happen.
HandlerFairness ==
    /\ WF_handlerVars(ServeStep) /\ WF_handlerVars(WatchContext)
    /\ WF_handlerVars(Removed) /\ SF_handlerVars(HandlerDone)

FairHandlerSpec == HandlerSpec /\ HandlerFairness

-----------------------------------------------------------------------------

\* Values, and the condition variable's lock is held in the loop and nowhere
\* else.
HandlerTypeOK ==
    /\ hpc \in Points /\ watcher \in {"none", "select"}
    /\ regMut \in {"free", "removing"}
    /\ paused \in BOOLEAN /\ woken \in BOOLEAN /\ locked \in BOOLEAN
    /\ ctxDone \in BOOLEAN /\ first \in BOOLEAN /\ newer \in BOOLEAN
    /\ locked <=> hpc \in {"test", "wait"}
    /\ sends \in 0..MaxSends

\* Nobody sleeps through a resume: whoever is asleep without a notification is
\* asleep because the folder is paused.
AsleepOnlyWhilePaused == hpc = "asleep" /\ ~woken => paused

\* A folder that has been paused sends at most the batch it was about to send.
PauseStopsSending == paused => sends <= 1

\* Why: a test that lets Serve pass is over before the flag is set, and the
\* next one comes only after the batch.
OneBatchAtMost ==
    paused => sends = 0 \/ (sends = 1 /\ hpc \notin {"seq", "send"})

\* Why: cond.L is held from the test to the wait list.
WaitsPaused == hpc = "wait" => paused

HandlerInv == HandlerTypeOK /\ AsleepOnlyWhilePaused /\ WaitsPaused /\ OneBatchAtMost

\* As long as a handler runs and is not paused, what is new is sent.
KeepsSending ==
    <>[](hpc \notin {"none", "done"} /\ ~paused) => [](newer => <>(hpc = "send"))

\* A handler whose context has quit returns, so whoever waits for its removal
\* gets on. Does not hold: the broadcast of WatchContext may come too early.
StoppedReturns == (ctxDone /\ hpc # "none") ~> hpc \in {"done", "none"}
=============================================================================
