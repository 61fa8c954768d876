------------------------------- MODULE Puller -------------------------------
(***************************************************************************)
(* One puller iteration of a send-receive folder (pullerIteration of       *)
(* lib/model/folder_sendrecv.go): the goroutine that runs processNeeded    *)
(* and then waits for the stages in turn, the copiers, the puller with its *)
(* block requests, the finisher and the database updater, joined by        *)
(* unbuffered channels, and the sharedPullerState every file is passed     *)
(* around with.                                                            *)
(*                                                                         *)
(* The steps of different goroutines interleave.  A send on an unbuffered  *)
(* channel is one step of sender and receiver.  The contents of blocks,    *)
(* which candidate device is tried first and the reasons of an I/O error   *)
(* are abstracted to choices.                                              *)
(***************************************************************************)
EXTENDS Integers, Sequences, FiniteSets

CONSTANTS Files,       \* regular files that are needed
          BlocksOf,    \* the blocks of every file
          Copiers,     \* the copier routines
          MaxPending,  \* requestLimiter: block requests under way
          MaxDevices,  \* devices blockAvailability finds
          Chunks       \* chunks of a block (1: the block fits in a chunk, or
                       \* resumable transfers are off)

ASSUME PullerAssumption ==
    /\ MaxPending \in Nat \ {0} /\ MaxDevices \in Nat
    /\ Chunks \in Nat \ {0}
    /\ IsFiniteSet(Files) /\ DOMAIN BlocksOf = Files
    /\ \A f \in Files : IsFiniteSet(BlocksOf[f])

Blocks == UNION {BlocksOf[f] : f \in Files}

VARIABLES
    main,       \* the goroutine of pullerIteration: [pc, f, todo]
    doneWg,     \* the wait group it waits on for the finisher
    queued, progress,   \* the job queue
    st,         \* the sharedPullerState of every file that was handed over
    cop,        \* the copier routines
    pul,        \* the puller routine
    reqs,       \* its goroutines, one per block under way (pullBlock)
    fin,        \* the finisher routine
    db,         \* how often dbUpdaterRoutine was given the file to commit
    errs,       \* tempPullErrors
    registry,   \* the progress emitter's registry
    stopped     \* f.ctx is done

vars == <<main, doneWg, queued, progress, st, cop, pul, reqs, fin, db,
          errs, registry, stopped>>

NoFile == [live |-> FALSE, err |-> "nil", writer |-> FALSE, reused |-> {},
           copyNeeded |-> 0, pullNeeded |-> 0, closed |-> FALSE, got |-> {}]

\* newSharedPullerState, for a file of which the blocks todo are missing from
\* the temporary file.
NewState(f, todo) ==
    [NoFile EXCEPT !.live = TRUE, !.reused = BlocksOf[f] \ todo,
                   !.copyNeeded = Cardinality(todo),
                   !.got = BlocksOf[f] \ todo]

\* A routine that holds no file.
Idle(pc) == [pc |-> pc]

Errors == {"nil", "stopped", "failed"}

\* Done: the entries after the file, which is there once at most, move up.
Remove(s, f) ==
    IF \E i \in DOMAIN s : s[i] = f
    THEN LET i == CHOOSE i \in DOMAIN s : s[i] = f
         IN  [j \in 1..(Len(s) - 1) |-> IF j < i THEN s[j] ELSE s[j + 1]]
    ELSE s

CopyClosed == main.pc \in {"closePull", "closeFinish", "doneWait", "returned"}
PullClosed == main.pc \in {"closeFinish", "doneWait", "returned"}
FinishClosed == main.pc \in {"doneWait", "returned"}

Busy(routine) == routine.pc \notin {"recv", "gone"}

-----------------------------------------------------------------------------
(* sharedPullerState: what a locked section makes of the state s.          *)

\* failLocked: the first error stays.
Fail(s, e) == IF s.err = "nil" THEN [s EXCEPT !.err = e] ELSE s

\* copyDone, pullStarted and pullDone.
CopyDone(s, b) == [s EXCEPT !.copyNeeded = @ - 1, !.got = @ \union {b}]

PullStarted(s) == [s EXCEPT !.copyNeeded = @ - 1, !.pullNeeded = @ + 1]

PullDone(s, b) == [s EXCEPT !.pullNeeded = @ - 1, !.got = @ \union {b}]

\* tempFile: the writer, opened if need be, or an error. ok: whether the
\* temporary file can be opened now.
TempFile(s, ok) ==
    IF s.err # "nil" THEN s
    ELSE IF s.writer \/ ok THEN [s EXCEPT !.writer = TRUE]
    ELSE Fail(s, "failed")

\* Mutant: finalClose looks at the pulls only.
ReadyToCloseEarly(s) == ~s.closed /\ (s.pullNeeded = 0 \/ s.err # "nil")

\* Mutant: finalClose waits for every block of a file that has failed, too.
ReadyToCloseComplete(s) == ~s.closed /\ s.pullNeeded + s.copyNeeded = 0

\* finalClose's first two early returns.
ReadyToClose(s) ==
    ~s.closed /\ (s.pullNeeded + s.copyNeeded = 0 \/ s.err # "nil")

-----------------------------------------------------------------------------
(* processNeeded's loop over the job queue.                                *)

\* BringToFront, from the API, at any time: the entries before the file move
\* down by one.
BringToFront(f) ==
    /\ \E i \in 2..Len(queued) :
          /\ queued[i] = f
          /\ queued' = [j \in DOMAIN queued |->
                           IF j = 1 THEN f
                           ELSE IF j <= i THEN queued[j - 1] ELSE queued[j]]
    /\ UNCHANGED <<main, doneWg, progress, st, cop, pul, reqs, fin, db, errs,
                   registry, stopped>>

\* Pop.
Pop ==
    /\ main.pc = "loop" /\ ~stopped /\ queued # <<>>
    /\ main' = [pc |-> "file", f |-> Head(queued)]
    /\ queued' = Tail(queued)
    /\ progress' = Append(progress, Head(queued))
    /\ UNCHANGED <<doneWg, st, cop, pul, reqs, fin, db, errs, registry,
                   stopped>>

\* The file is done with at once: it is gone from the global state or has
\* changed its type, or a rename of a file to be deleted provides it.
Dispatched(renamed) ==
    /\ main.pc = "file"
    /\ main' = Idle("loop")
    /\ progress' = Remove(progress, main.f)
    /\ db' = IF renamed THEN [db EXCEPT ![main.f] = @ + 1] ELSE db
    /\ UNCHANGED <<doneWg, queued, st, cop, pul, reqs, fin, errs, registry,
                   stopped>>

\* The file cannot be pulled now: its parent is missing, no device has it or
\* the disk is full.
Unavailable ==
    /\ main.pc = "file"
    /\ main' = Idle("loop")
    /\ progress' = Remove(progress, main.f)
    /\ errs' = errs \union {main.f}
    /\ UNCHANGED <<doneWg, queued, st, cop, pul, reqs, fin, db, registry,
                   stopped>>

\* handleFile fails on the database; the file stays in queue.progress.
HandleFileFails ==
    /\ main.pc = "file"
    /\ main' = Idle("loop")
    /\ errs' = errs \union {main.f}
    /\ UNCHANGED <<doneWg, queued, progress, st, cop, pul, reqs, fin, db,
                   registry, stopped>>

\* handleFile up to its send: reuseBlocks finds some of the blocks in the
\* temporary file.
HandleFile(todo) ==
    /\ main.pc = "file" /\ todo \subseteq BlocksOf[main.f]
    /\ main' = [pc |-> "send", f |-> main.f, todo |-> todo]
    /\ st' = [st EXCEPT ![main.f] = NewState(main.f, todo)]
    /\ UNCHANGED <<doneWg, queued, progress, cop, pul, reqs, fin, db, errs,
                   registry, stopped>>

\* copyChan <- cs, and the copier registers the file with the emitter.
SendToCopier(c) ==
    /\ main.pc = "send" /\ cop[c].pc = "recv"
    /\ main' = Idle("loop")
    /\ cop' = [cop EXCEPT ![c] = [pc |-> "block", f |-> main.f,
                                  todo |-> main.todo, b |-> {}]]
    /\ registry' = registry \union {main.f}
    /\ UNCHANGED <<doneWg, queued, progress, st, pul, reqs, fin, db, errs,
                   stopped>>

\* The database fails when the file is looked up, and processNeeded returns.
LookupFails ==
    /\ main.pc = "file"
    /\ main' = Idle("closePull")
    /\ UNCHANGED <<doneWg, queued, progress, st, cop, pul, reqs, fin, db, errs,
                   registry, stopped>>

\* The queue is empty, or the folder is being stopped: close(copyChan).
CloseCopy ==
    /\ main.pc = "loop" /\ (stopped \/ queued = <<>>)
    /\ main' = Idle("closePull")
    /\ UNCHANGED <<doneWg, queued, progress, st, cop, pul, reqs, fin, db, errs,
                   registry, stopped>>

\* Mutant: pullWg.Wait() comes before close(pullChan).
ClosePullSwapped ==
    /\ main.pc = "closePull" /\ pul.pc = "gone"
    /\ main' = Idle("closeFinish")
    /\ UNCHANGED <<doneWg, queued, progress, st, cop, pul, reqs, fin, db,
                   errs, registry, stopped>>

\* copyWg.Wait(), close(pullChan).
ClosePull ==
    /\ main.pc = "closePull"
    /\ \A c \in Copiers : cop[c].pc = "gone"
    /\ main' = Idle("closeFinish")
    /\ UNCHANGED <<doneWg, queued, progress, st, cop, pul, reqs, fin, db, errs,
                   registry, stopped>>

\* pullWg.Wait(), close(finisherChan).
CloseFinish ==
    /\ main.pc = "closeFinish" /\ pul.pc = "gone"
    /\ main' = Idle("doneWait")
    /\ UNCHANGED <<doneWg, queued, progress, st, cop, pul, reqs, fin, db, errs,
                   registry, stopped>>

\* doneWg.Wait() returns, and with it the rest of pullerIteration:
\* processDeletions, close(dbUpdateChan), the updater's last flush, Reset.
Return ==
    /\ main.pc = "doneWait" /\ doneWg = 0
    /\ main' = Idle("returned")
    /\ queued' = <<>> /\ progress' = <<>>
    /\ UNCHANGED <<doneWg, st, cop, pul, reqs, fin, db, errs, registry, stopped>>

\* The folder is stopped: f.ctx.
Stop ==
    /\ ~stopped
    /\ stopped' = TRUE
    /\ UNCHANGED <<main, doneWg, queued, progress, st, cop, pul, reqs, fin, db,
                   errs, registry>>

-----------------------------------------------------------------------------
(* copierRoutine.                                                          *)

\* A copier c moves on to pc with the blocks todo, with the state s.
CopierStep(c, pc, todo, s) ==
    /\ cop' = [cop EXCEPT ![c] = [pc |-> pc, f |-> @.f, todo |-> todo, b |-> {}]]
    /\ st' = [st EXCEPT ![cop[c].f] = s]
    /\ UNCHANGED <<main, doneWg, queued, progress, pul, reqs, fin, db, errs,
                   registry, stopped>>

\* The top of the loop over the blocks: the folder is being stopped; or the
\* block is all zeroes in a new temporary file; or copyBlock has found and
\* verified a copy and asks for the temporary file; or there is no copy, and
\* the block goes to the puller unless the file has failed.
CopyBlock(c, b) ==
    LET s == st[cop[c].f]  rest == cop[c].todo \ {b} IN
    /\ cop[c].pc = "block" /\ b \in cop[c].todo
    /\ IF stopped THEN CopierStep(c, "out", {}, Fail(s, "stopped"))
       ELSE \/ s.reused = {} /\ CopierStep(c, "block", rest, CopyDone(s, b))
            \/ \E ok \in BOOLEAN :
                 LET t == TempFile(s, ok) IN
                 IF t.err # "nil" THEN CopierStep(c, "out", {}, t)
                 ELSE /\ cop' = [cop EXCEPT ![c].pc = "write", ![c].b = {b},
                                            ![c].todo = rest]
                      /\ st' = [st EXCEPT ![cop[c].f] = t]
                      /\ UNCHANGED <<main, doneWg, queued, progress, pul, reqs,
                                     fin, db, errs, registry, stopped>>
            \/ IF s.err # "nil" THEN CopierStep(c, "out", {}, s)
               ELSE /\ cop' = [cop EXCEPT ![c].pc = "pull", ![c].b = {b},
                                          ![c].todo = rest]
                    /\ st' = [st EXCEPT ![cop[c].f] = PullStarted(s)]
                    /\ UNCHANGED <<main, doneWg, queued, progress, pul, reqs,
                                   fin, db, errs, registry, stopped>>

\* The write of the copied block, under the writer's lock: it fails once the
\* file is closed.
CopyWrite(c) ==
    LET s == st[cop[c].f] IN
    /\ cop[c].pc = "write"
    /\ \E b \in cop[c].b :
          \/ s.writer /\ CopierStep(c, "block", cop[c].todo, CopyDone(s, b))
          \/ CopierStep(c, "out", {}, Fail(s, "failed"))

\* pullChan <- ps; the puller looks at the state first.
SendToPuller(c) ==
    /\ cop[c].pc = "pull" /\ pul.pc = "recv"
    /\ cop' = [cop EXCEPT ![c].pc = "block", ![c].b = {}]
    /\ \E b \in cop[c].b :
          pul' = [pc |-> IF st[cop[c].f].err # "nil" THEN "out" ELSE "take",
                  f |-> cop[c].f, b |-> b]
    /\ UNCHANGED <<main, doneWg, queued, progress, st, reqs, fin, db, errs,
                   registry, stopped>>

\* The last block is through. A file without any blocks to get still needs its
\* temporary file.
CopierEndsFile(c) ==
    LET s == st[cop[c].f] IN
    /\ cop[c].pc = "block" /\ cop[c].todo = {}
    /\ \E ok \in BOOLEAN :
          CopierStep(c, "out", {},
                     IF s.reused = BlocksOf[cop[c].f] THEN TempFile(s, ok) ELSE s)

\* The copier ends when copyChan is closed.
CopierEnds(c) ==
    /\ CopyClosed /\ cop[c].pc = "recv"
    /\ cop' = [cop EXCEPT ![c] = Idle("gone")]
    /\ UNCHANGED <<main, doneWg, queued, progress, st, pul, reqs, fin, db,
                   errs, registry, stopped>>

-----------------------------------------------------------------------------
(* pullerRoutine and pullBlock.                                            *)

\* requestLimiter.TakeWithContext and the goroutine for the block.
PullerTakes ==
    /\ pul.pc = "take" /\ ~stopped /\ Cardinality(reqs) < MaxPending
    /\ pul' = Idle("recv")
    /\ reqs' = reqs \union {[pc |-> "open", f |-> pul.f, b |-> pul.b,
                             cands |-> 0, chunk |-> 0, lastError |-> FALSE]}
    /\ UNCHANGED <<main, doneWg, queued, progress, st, cop, fin, db, errs,
                   registry, stopped>>

PullerStopped ==
    /\ pul.pc = "take" /\ stopped
    /\ pul' = [pul EXCEPT !.pc = "out"]
    /\ st' = [st EXCEPT ![pul.f] = Fail(@, "stopped")]
    /\ UNCHANGED <<main, doneWg, queued, progress, cop, reqs, fin, db, errs,
                   registry, stopped>>

\* pullChan is closed, and wg.Wait() for the requests.
PullerEnds ==
    /\ PullClosed /\ pul.pc = "recv" /\ reqs = {}
    /\ pul' = Idle("gone")
    /\ UNCHANGED <<main, doneWg, queued, progress, st, cop, reqs, fin, db,
                   errs, registry, stopped>>

\* The request r becomes r2, with the state s.
RequestStep(r, r2, s) ==
    /\ reqs' = (reqs \ {r}) \union {r2}
    /\ st' = [st EXCEPT ![r.f] = s]
    /\ UNCHANGED <<main, doneWg, queued, progress, cop, pul, fin, db, errs,
                   registry, stopped>>

\* pullBlock up to its loop: the temporary file and blockAvailability.
RequestOpens(r, ok, n) ==
    LET s == TempFile(st[r.f], ok) IN
    /\ r.pc = "open"
    /\ RequestStep(r, IF s.err # "nil" THEN [r EXCEPT !.pc = "out"]
                      ELSE [r EXCEPT !.pc = "req", !.cands = n], s)

\* Before the next device is asked: the folder is being stopped, or there is
\* no candidate left.
RequestGivesUp(r) ==
    /\ r.pc = "req"
    /\ \/ /\ stopped
          /\ RequestStep(r, [r EXCEPT !.pc = "out"], Fail(st[r.f], "stopped"))
       \/ /\ ~stopped /\ r.cands = 0
          /\ RequestStep(r, [r EXCEPT !.pc = "out"],
                         Fail(st[r.f], "failed"))

\* RequestGlobal returns an error, or a block that is not what was asked for:
\* the device is not a candidate any more.
RequestFails(r) ==
    /\ r.pc = "req" /\ r.cands > 0
    /\ RequestStep(r, [r EXCEPT !.cands = @ - 1, !.lastError = TRUE], st[r.f])

\* The data (of one chunk) arrives and is written. The device is not a
\* candidate for the next chunk any more.
RequestArrives(r) ==
    LET s == st[r.f]
        next == [r EXCEPT !.cands = @ - 1, !.lastError = FALSE,
                          !.chunk = @ + 1]
    IN
    /\ r.pc = "req" /\ r.cands > 0
    /\ \/ RequestStep(r, [next EXCEPT !.pc = "out"], Fail(s, "failed"))
       \/ /\ s.writer
          /\ IF next.chunk < Chunks THEN RequestStep(r, next, s)
             ELSE RequestStep(r, [next EXCEPT !.pc = "out"], PullDone(s, r.b))

\* With resumable transfers the block is read back once it is complete, and it
\* is not right.
RequestMismatch(r) ==
    /\ r.pc = "req" /\ r.cands > 0 /\ r.chunk = Chunks - 1
    /\ RequestStep(r, [r EXCEPT !.pc = "out", !.cands = @ - 1],
                   Fail(st[r.f], "failed"))

-----------------------------------------------------------------------------
(* finisherRoutine and dbUpdaterRoutine.                                   *)

\* finisherChan <- state, from a copier, the puller or a request, which then
\* gives its slot of the limiter back.
SendToFinisher(f) ==
    /\ fin.pc = "recv"
    /\ fin' = [pc |-> "close", f |-> f]
    /\ UNCHANGED <<main, doneWg, queued, progress, st, db, errs, registry,
                   stopped>>

CopierSendsOut(c) ==
    /\ cop[c].pc = "out"
    /\ SendToFinisher(cop[c].f)
    /\ cop' = [cop EXCEPT ![c] = Idle("recv")]
    /\ UNCHANGED <<pul, reqs>>

PullerSendsOut ==
    /\ pul.pc = "out"
    /\ SendToFinisher(pul.f)
    /\ pul' = Idle("recv")
    /\ UNCHANGED <<cop, reqs>>

RequestSendsOut(r) ==
    /\ r.pc = "out"
    /\ SendToFinisher(r.f)
    /\ reqs' = reqs \ {r}
    /\ UNCHANGED <<cop, pul>>

\* finalClose: not yet, or not any more, or the temporary file that nobody
\* needed so far cannot be opened now.
NotClosed ==
    LET s == st[fin.f] IN
    /\ fin.pc = "close"
    /\ ~ReadyToClose(s) \/ ~s.writer
    /\ fin' = Idle("recv")
    /\ UNCHANGED <<main, doneWg, queued, progress, st, cop, pul, reqs, db,
                   errs, registry, stopped>>

\* finalClose closes the file (and may fail in that), and queue.Done.
FinalClose(e) ==
    LET s == st[fin.f] IN
    /\ fin.pc = "close" /\ ReadyToClose(s)
    /\ st' = [st EXCEPT ![fin.f] = [Fail(s, e) EXCEPT !.closed = TRUE,
                                                      !.writer = FALSE]]
    /\ fin' = [fin EXCEPT !.pc = "finish"]
    /\ progress' = Remove(progress, fin.f)
    /\ UNCHANGED <<main, doneWg, queued, cop, pul, reqs, db, errs, registry,
                   stopped>>

\* Mutant: performFinish whether or not the file has failed.
FinishAnyway ==
    /\ fin.pc = "finish"
    /\ db' = [db EXCEPT ![fin.f] = @ + 1]
    /\ registry' = registry \ {fin.f}
    /\ fin' = Idle("recv")
    /\ UNCHANGED <<main, doneWg, queued, progress, st, cop, pul, reqs, errs,
                   stopped>>

\* performFinish replaces the file and hands it to the updater.
Finish ==
    /\ fin.pc = "finish" /\ st[fin.f].err = "nil"
    /\ db' = [db EXCEPT ![fin.f] = @ + 1]
    /\ registry' = registry \ {fin.f}
    /\ fin' = Idle("recv")
    /\ UNCHANGED <<main, doneWg, queued, progress, st, cop, pul, reqs, errs,
                   stopped>>

\* The file has failed, or performFinish fails (the file on disk has been
\* changed, for one). newPullError leaves out the folder's being stopped.
FinishFails ==
    /\ fin.pc = "finish"
    /\ errs' = IF st[fin.f].err = "stopped" THEN errs ELSE errs \union {fin.f}
    /\ registry' = registry \ {fin.f}
    /\ fin' = Idle("recv")
    /\ UNCHANGED <<main, doneWg, queued, progress, st, cop, pul, reqs, db,
                   stopped>>

\* finisherChan is closed: the routine ends, and its goroutine calls
\* doneWg.Wait().
FinisherEnds ==
    /\ FinishClosed /\ fin.pc = "recv"
    /\ fin' = Idle("gone")
    /\ doneWg' = doneWg
    /\ UNCHANGED <<main, queued, progress, st, cop, pul, reqs, db, errs,
                   registry, stopped>>

-----------------------------------------------------------------------------

\* The files are in the queue in the order the database returned them; all
\* routines have been started.
Init ==
    /\ main = Idle("loop")
    /\ doneWg = 1
    /\ queued \in {q \in [1..Cardinality(Files) -> Files] :
                      \A i, j \in DOMAIN q : q[i] = q[j] => i = j}
    /\ progress = <<>>
    /\ st = [f \in Files |-> NoFile]
    /\ cop = [c \in Copiers |-> Idle("recv")]
    /\ pul = Idle("recv")
    /\ reqs = {}
    /\ fin = Idle("recv")
    /\ db = [f \in Files |-> 0]
    /\ errs = {}
    /\ registry = {}
    /\ stopped = FALSE

MainNext ==
    \/ Pop \/ Unavailable \/ HandleFileFails \/ LookupFails
    \/ \E renamed \in BOOLEAN : Dispatched(renamed)
    \/ \E todo \in SUBSET Blocks : HandleFile(todo)
    \/ \E c \in Copiers : SendToCopier(c)
    \/ CloseCopy \/ ClosePull \/ CloseFinish

CopierNext(c) ==
    \/ \E b \in Blocks : CopyBlock(c, b)
    \/ CopyWrite(c) \/ SendToPuller(c) \/ CopierEndsFile(c)
    \/ CopierSendsOut(c) \/ CopierEnds(c)

PullerNext == PullerTakes \/ PullerStopped \/ PullerSendsOut \/ PullerEnds

RequestNext(r) ==
    \/ \E ok \in BOOLEAN, n \in 0..MaxDevices : RequestOpens(r, ok, n)
    \/ RequestGivesUp(r) \/ RequestFails(r) \/ RequestArrives(r)
    \/ RequestMismatch(r) \/ RequestSendsOut(r)

FinisherNext ==
    \/ NotClosed \/ Finish \/ FinishFails \/ FinisherEnds
    \/ \E e \in {"nil", "failed"} : FinalClose(e)

\* What the routines do by themselves.
Work ==
    \/ MainNext \/ PullerNext \/ FinisherNext
    \/ \E c \in Copiers : CopierNext(c)
    \/ \E r \in reqs : RequestNext(r)

Next == Work \/ Stop \/ \E f \in Files : BringToFront(f)

Spec == Init /\ [][Next]_vars

(***************************************************************************)
(* Every routine that can take a step does so at some time; requests to    *)
(* other devices end.  Nobody has to stop the folder.                      *)
(***************************************************************************)
Fairness ==
    /\ WF_vars(MainNext) /\ WF_vars(PullerNext) /\ WF_vars(FinisherNext)
    /\ \A c \in Copiers : WF_vars(CopierNext(c))
    /\ \A f \in Files, b \in Blocks :
          WF_vars(\E r \in reqs : r.f = f /\ r.b = b /\ RequestNext(r))

FairSpec == Spec /\ Fairness

\* The same with the rest of pullerIteration, behind doneWg.Wait().
IterationSpec == Init /\ [][Next \/ Return]_vars /\ Fairness /\ WF_vars(Return)

-----------------------------------------------------------------------------

TypeOK ==
    /\ main \in [pc : {"loop", "closePull", "closeFinish", "doneWait",
                       "returned"}]
                \union [pc : {"file"}, f : Files]
                \union [pc : {"send"}, f : Files, todo : SUBSET Blocks]
    /\ doneWg \in {0, 1}
    /\ queued \in Seq(Files) /\ progress \in Seq(Files)
    /\ st \in [Files -> [live : BOOLEAN, err : Errors, writer : BOOLEAN,
                         reused : SUBSET Blocks, copyNeeded : Nat,
                         pullNeeded : Nat, closed : BOOLEAN,
                         got : SUBSET Blocks]]
    /\ cop \in [Copiers -> [pc : {"recv", "gone"}]
                           \union [pc : {"block", "write", "pull", "out"},
                                   f : Files, todo : SUBSET Blocks,
                                   b : SUBSET Blocks]]
    /\ pul \in [pc : {"recv", "gone"}]
               \union [pc : {"take", "out"}, f : Files, b : Blocks]
    /\ reqs \subseteq [pc : {"open", "req", "out"}, f : Files, b : Blocks,
                       cands : 0..MaxDevices, chunk : 0..Chunks,
                       lastError : BOOLEAN]
    /\ fin \in [pc : {"recv", "gone"}]
               \union [pc : {"close", "finish"}, f : Files]
    /\ db \in [Files -> Nat]
    /\ errs \subseteq Files /\ registry \subseteq Files
    /\ stopped \in BOOLEAN

\* A file goes into the database at most once per iteration, and if it went
\* through the pipeline every block of it is in the temporary file that was
\* renamed.
RecordedComplete ==
    \A f \in Files :
        /\ db[f] <= 1
        /\ st[f].live /\ db[f] = 1 => st[f].got = BlocksOf[f]

\* Once a file is closed without an error, no copier and no request is going
\* to touch it any more: the last one to finish a block was the one whose
\* message closed it.
NobodyWrites ==
    \A f \in Files : st[f].closed /\ st[f].err = "nil" =>
        /\ \A c \in Copiers : Busy(cop[c]) /\ cop[c].f = f =>
              cop[c].pc \notin {"write", "pull"} /\ cop[c].todo = {}
        /\ \A r \in reqs : r.f = f => r.pc = "out"
        /\ ~(pul.pc = "take" /\ pul.f = f)

\* When the finisher has ended, every file that was handed over has been either
\* recorded or reported and the progress emitter has let go of it, unless its
\* temporary file could not be created in the end.
AllSettled ==
    fin.pc = "gone" =>
        \A f \in Files : st[f].live =>
            IF st[f].closed
            THEN /\ f \notin registry
                 /\ st[f].err = "stopped" \/ (db[f] = 1 <=> f \notin errs)
            ELSE ~st[f].writer

\* No stage waits for another one for ever: the finisher sees the end of its
\* input.
PipelineDrains == <>(fin.pc = "gone")

\* pullerIteration returns.
IterationReturns == <>(main.pc = "returned")

\* A request that has got everything it asked for so far is not about to fail
\* with errNoDevice: the devices that sent the first chunks of a block have the
\* rest of it as well. Does not hold for more than one chunk per block.
NoDeviceMeansNone ==
    \A r \in reqs :
        ~(r.pc = "req" /\ r.cands = 0 /\ ~r.lastError /\ r.chunk > 0)
=============================================================================
