---------------------------- MODULE RawConnection ----------------------------
(***************************************************************************)
(* One connection of lib/protocol/protocol.go: the reader, dispatcher and  *)
(* writer loops, the calls of Request that wait for a response, the        *)
(* goroutines that answer the peer's requests, and the two ways to close   *)
(* the connection, Close (which sends a Close message first) and           *)
(* internalClose.                                                          *)
(*                                                                         *)
(* inbox, outbox, closeBox and clusterConfigBox are unbuffered and every   *)
(* select on them also waits for the channel closed.  A goroutine that is  *)
(* parked in such a select is woken by close(closed), and none parks there *)
(* afterwards, so a message changes hands only before close(closed): one   *)
(* step of both sides, guarded by ~Closed.                                 *)
(***************************************************************************)
CONSTANTS
    Requests,     \* calls of Request
    Served        \* requests of the peer

ASSUME CallsAssumption == Requests \cap Served = {}

VARIABLES
    closePc,    \* internalClose: how far it is
    closeMsg,   \* Close: what became of its message
    rpc,        \* rpc[r]: where the call r of Request is
    rc,         \* rc[r]: its result channel
    awaiting,   \* the calls in c.awaiting
    qpc,        \* qpc[q]: where the handler of the peer's request q is
    done,       \* done[q]: the done channel of q's response is closed
    wpc,        \* writerLoop
    wmsg,       \* the message it is writing
    wire,       \* history: the set of what it has written
    rdpc,       \* readerLoop
    rmsg,       \* the message it is passing on
    dpc,        \* dispatcherLoop
    dmsg,       \* the message it handles
    ready       \* its state is stateReady

reqVars == <<rpc, rc, awaiting>>
srvVars == <<qpc, done>>
wVars == <<wpc, wmsg, wire>>
rdVars == <<rdpc, rmsg>>
dVars == <<dpc, dmsg, ready>>
vars == <<closePc, closeMsg, rpc, rc, awaiting, qpc, done, wpc, wmsg, wire,
          rdpc, rmsg, dpc, dmsg, ready>>

Msg(k, x) == [kind |-> k, of |-> x]

NoMsg == Msg("none", "none")
ConfigMsg == Msg("config", "none")
OtherMsg == Msg("other", "none")
CloseMsg == Msg("close", "none")
ReqMsgs == {Msg("request", x) : x \in Requests \cup Served}
RespMsgs == {Msg("response", x) : x \in Requests \cup Served}
Messages == {NoMsg, ConfigMsg, OtherMsg, CloseMsg} \cup ReqMsgs \cup RespMsgs

\* internalClose: not called, called, underlying connection closed under
\* startStopMut, channel closed, awaiting drained, dispatcher gone, model told.
ClosePoints == {"none", "called", "down", "closed", "drained", "notify", "done"}

Down == closePc \in {"down", "closed", "drained", "notify", "done"}
Closed == closePc \in {"closed", "drained", "notify", "done"}
Started == dpc # "off"
DispatcherStopped == dpc \in {"exit", "stopped"}

CallInternalClose == closePc' = IF closePc = "none" THEN "called" ELSE closePc

Init ==
    /\ closePc = "none" /\ closeMsg = "none"
    /\ rpc = [r \in Requests |-> "idle"] /\ rc = [r \in Requests |-> "none"]
    /\ awaiting = {}
    /\ qpc = [q \in Served |-> "none"] /\ done = [q \in Served |-> FALSE]
    /\ wpc = "off" /\ wmsg = NoMsg /\ wire = {}
    /\ rdpc = "off" /\ rmsg = NoMsg
    /\ dpc = "off" /\ dmsg = NoMsg /\ ready = FALSE

\* Start, under startStopMut, which internalClose holds while it waits.
Start ==
    /\ ~Started /\ closePc \in {"none", "called"}
    /\ rdpc' = "read" /\ wpc' = "first" /\ dpc' = "top"
    /\ UNCHANGED <<closePc, closeMsg, reqVars, srvVars, wmsg, wire, rmsg, dmsg, ready>>

-----------------------------------------------------------------------------
(* Request.                                                                *)

\* The first select.
RequestCheck(r) ==
    /\ rpc[r] = "idle"
    /\ rpc' = [rpc EXCEPT ![r] = IF Closed THEN "failed" ELSE "checked"]
    /\ UNCHANGED <<closePc, closeMsg, rc, awaiting, srvVars, wVars, rdVars, dVars>>

\* The result channel, with room for one result, goes into awaiting.
RequestRegister(r) ==
    /\ rpc[r] = "checked"
    /\ rpc' = [rpc EXCEPT ![r] = "sending"]
    /\ rc' = [rc EXCEPT ![r] = "open"]
    /\ awaiting' = awaiting \cup {r}
    /\ UNCHANGED <<closePc, closeMsg, srvVars, wVars, rdVars, dVars>>

\* Mutant: outbox has a buffer, so a message is accepted with the writer gone.
RequestSendBuffered(r) ==
    /\ rpc[r] = "sending" /\ wpc \in {"select", "stopped"}
    /\ rpc' = [rpc EXCEPT ![r] = "waiting"]
    /\ wpc' = IF wpc = "select" THEN "write" ELSE wpc
    /\ wmsg' = Msg("request", r)
    /\ UNCHANGED <<closePc, closeMsg, rc, awaiting, srvVars, wire, rdVars, dVars>>

\* send, and writerLoop receives.
RequestSend(r) ==
    /\ rpc[r] = "sending" /\ wpc = "select" /\ ~Closed
    /\ rpc' = [rpc EXCEPT ![r] = "waiting"]
    /\ wpc' = "write" /\ wmsg' = Msg("request", r)
    /\ UNCHANGED <<closePc, closeMsg, rc, awaiting, srvVars, wire, rdVars, dVars>>

\* send finds the connection closed.
RequestSendClosed(r) ==
    /\ rpc[r] = "sending" /\ Closed
    /\ rpc' = [rpc EXCEPT ![r] = "failed"]
    /\ UNCHANGED <<closePc, closeMsg, rc, awaiting, srvVars, wVars, rdVars, dVars>>

\* The caller's context ends the call, which stays in awaiting.
RequestCancel(r) ==
    /\ rpc[r] \in {"idle", "sending", "waiting"}
    /\ rpc' = [rpc EXCEPT ![r] = "failed"]
    /\ UNCHANGED <<closePc, closeMsg, rc, awaiting, srvVars, wVars, rdVars, dVars>>

\* The result, or the end of the channel without one.
RequestReturn(r) ==
    /\ rpc[r] = "waiting" /\ rc[r] \in {"result", "closed"}
    /\ rpc' = [rpc EXCEPT ![r] = IF rc[r] = "result" THEN "answered" ELSE "failed"]
    /\ UNCHANGED <<closePc, closeMsg, rc, awaiting, srvVars, wVars, rdVars, dVars>>

-----------------------------------------------------------------------------
(* handleRequest, a goroutine for every request of the peer.               *)

\* model.Request returns an error, or a buffer that has to be given back.
ServeRequest(q) ==
    /\ qpc[q] = "serving"
    /\ qpc' \in {[qpc EXCEPT ![q] = p] : p \in {"refusing", "sending"}}
    /\ UNCHANGED <<closePc, closeMsg, reqVars, done, wVars, rdVars, dVars>>

\* send, and writerLoop receives.
ServeSend(q) ==
    /\ qpc[q] \in {"refusing", "sending"} /\ wpc = "select" /\ ~Closed
    /\ qpc' = [qpc EXCEPT ![q] = IF @ = "sending" THEN "holding" ELSE "over"]
    /\ wpc' = "write" /\ wmsg' = Msg("response", q)
    /\ UNCHANGED <<closePc, closeMsg, reqVars, done, wire, rdVars, dVars>>

\* send finds the connection closed, and closes the done channel itself.
ServeSendClosed(q) ==
    /\ qpc[q] \in {"refusing", "sending"} /\ Closed
    /\ qpc' = [qpc EXCEPT ![q] = IF @ = "sending" THEN "holding" ELSE "over"]
    /\ done' = [done EXCEPT ![q] = qpc[q] = "sending"]
    /\ UNCHANGED <<closePc, closeMsg, reqVars, wVars, rdVars, dVars>>

\* res.Close after the wait for done.
ServeRelease(q) ==
    /\ qpc[q] = "holding" /\ done[q]
    /\ qpc' = [qpc EXCEPT ![q] = "over"]
    /\ UNCHANGED <<closePc, closeMsg, reqVars, done, wVars, rdVars, dVars>>

-----------------------------------------------------------------------------
(* writerLoop.                                                             *)

\* A cluster config, the only message but Close that may be the first.
WriterConfig ==
    /\ wpc \in {"first", "select"} /\ ~Closed
    /\ wpc' = "write" /\ wmsg' = ConfigMsg
    /\ UNCHANGED <<closePc, closeMsg, reqVars, srvVars, wire, rdVars, dVars>>

\* Index, IndexUpdate, DownloadProgress, QueryDevice, ResponseDevice, ping.
WriterOther ==
    /\ wpc = "select" /\ ~Closed
    /\ wpc' = "write" /\ wmsg' = OtherMsg
    /\ UNCHANGED <<closePc, closeMsg, reqVars, srvVars, wire, rdVars, dVars>>

\* The message of Close.
WriterClose ==
    /\ wpc \in {"first", "loop", "select"} /\ ~Closed /\ closeMsg = "offered"
    /\ closeMsg' = "taken"
    /\ wpc' = "write" /\ wmsg' = CloseMsg
    /\ UNCHANGED <<closePc, reqVars, srvVars, wire, rdVars, dVars>>

\* The first of the two selects lets closing go first.
WriterLoop ==
    /\ wpc = "loop" /\ closeMsg # "offered" /\ ~Closed
    /\ wpc' = "select"
    /\ UNCHANGED <<closePc, closeMsg, reqVars, srvVars, wmsg, wire, rdVars, dVars>>

WriterClosed ==
    /\ wpc \in {"first", "loop", "select"} /\ Closed
    /\ wpc' = "stopped"
    /\ UNCHANGED <<closePc, closeMsg, reqVars, srvVars, wmsg, wire, rdVars, dVars>>

\* The done channel of what was written, or could not be written.
WriteDone ==
    /\ closeMsg' = IF wmsg = CloseMsg /\ closeMsg = "taken" THEN "written" ELSE closeMsg
    /\ done' = [q \in Served |->
                  done[q] \/ (wmsg = Msg("response", q) /\ qpc[q] = "holding")]

\* Mutant: the loop goes on after a Close message.
WriteOn ==
    /\ wpc = "write" /\ ~Down
    /\ wire' = wire \cup {wmsg}
    /\ WriteDone
    /\ wmsg' = NoMsg
    /\ wpc' = "loop"
    /\ UNCHANGED <<closePc, reqVars, qpc, rdVars, dVars>>

\* writeMessage succeeds.
Write ==
    /\ wpc = "write" /\ ~Down
    /\ wire' = wire \cup {wmsg}
    /\ WriteDone
    /\ wmsg' = NoMsg
    /\ wpc' = IF wmsg = CloseMsg THEN "stopped" ELSE "loop"
    /\ UNCHANGED <<closePc, reqVars, qpc, rdVars, dVars>>

\* Mutant: an error returns before the done channel is closed.
WriteFailEarly ==
    /\ wpc = "write"
    /\ wmsg' = NoMsg
    /\ wpc' = IF wmsg = CloseMsg THEN "stopped" ELSE "closing"
    /\ IF wmsg = CloseMsg THEN UNCHANGED closePc ELSE CallInternalClose
    /\ UNCHANGED <<closeMsg, reqVars, srvVars, wire, rdVars, dVars>>

\* writeMessage fails: writerLoop closes the connection and waits for that,
\* unless it was writing a Close message.
WriteFail ==
    /\ wpc = "write"
    /\ WriteDone
    /\ wmsg' = NoMsg
    /\ wpc' = IF wmsg = CloseMsg THEN "stopped" ELSE "closing"
    /\ IF wmsg = CloseMsg THEN UNCHANGED closePc ELSE CallInternalClose
    /\ UNCHANGED <<reqVars, qpc, wire, rdVars, dVars>>

\* internalClose has returned to writerLoop.
WriterReturns ==
    /\ wpc = "closing" /\ closePc = "done"
    /\ wpc' = "stopped"
    /\ UNCHANGED <<closePc, closeMsg, reqVars, srvVars, wmsg, wire, rdVars, dVars>>

-----------------------------------------------------------------------------
(* readerLoop.  The peer may send anything at any time, but each of its    *)
(* requests once.                                                          *)

Arriving ==
    {ConfigMsg, OtherMsg, CloseMsg} \cup {Msg("response", r) : r \in Requests}
        \cup {Msg("request", q) : q \in {p \in Served : qpc[p] = "none"}}

Read ==
    /\ rdpc = "read" /\ ~Down
    /\ rmsg' \in Arriving
    /\ rdpc' = "offer"
    /\ UNCHANGED <<closePc, closeMsg, reqVars, srvVars, wVars, dVars>>

ReadFail ==
    /\ rdpc = "read"
    /\ rdpc' = "closing"
    /\ CallInternalClose
    /\ UNCHANGED <<closeMsg, reqVars, srvVars, wVars, rmsg, dVars>>

\* Mutant: the message is passed on without an eye on the channel closed.
ReaderStuck ==
    /\ rdpc = "closing" /\ closePc = "done"
    /\ rdpc' = "stopped"
    /\ UNCHANGED <<closePc, closeMsg, reqVars, srvVars, wVars, rmsg, dVars>>

\* The loop ends: closed while it offers a message, or back from internalClose.
ReaderReturns ==
    /\ \/ rdpc = "offer" /\ Closed
       \/ rdpc = "closing" /\ closePc = "done"
    /\ rdpc' = "stopped" /\ rmsg' = NoMsg
    /\ UNCHANGED <<closePc, closeMsg, reqVars, srvVars, wVars, dVars>>

-----------------------------------------------------------------------------
(* dispatcherLoop.                                                         *)

\* The first select of the loop ...
DispatchTop ==
    /\ dpc = "top"
    /\ dpc' = IF Closed THEN "exit" ELSE "select"
    /\ UNCHANGED <<closePc, closeMsg, reqVars, srvVars, wVars, rdVars, dmsg, ready>>

\* ... and the second: a message from readerLoop ...
DispatchTake ==
    /\ dpc = "select" /\ rdpc = "offer" /\ ~Closed
    /\ dmsg' = rmsg /\ rmsg' = NoMsg
    /\ dpc' = "handle" /\ rdpc' = "read"
    /\ UNCHANGED <<closePc, closeMsg, reqVars, srvVars, wVars, ready>>

\* ... or the end.
DispatchClosed ==
    /\ dpc = "select" /\ Closed
    /\ dpc' = "exit"
    /\ UNCHANGED <<closePc, closeMsg, reqVars, srvVars, wVars, rdVars, dmsg, ready>>

\* A Close message, or anything before the first cluster config.
Refused(m) == m = CloseMsg \/ (m # ConfigMsg /\ ~ready)

\* These end the dispatcher, as does a request with a name checkFilename does
\* not accept.
DispatchRefuse ==
    /\ dpc = "handle"
    /\ Refused(dmsg) \/ \E q \in Served : dmsg = Msg("request", q)
    /\ dmsg' = NoMsg
    /\ dpc' = "exit"
    /\ UNCHANGED <<closePc, closeMsg, reqVars, srvVars, wVars, rdVars, ready>>

\* The model handles a cluster config, an index, progress or a query. It may
\* return an error, and it may close the connection.
DispatchModel ==
    /\ dpc = "handle" /\ ~Refused(dmsg) /\ dmsg \in {ConfigMsg, OtherMsg}
    /\ ready' = TRUE
    /\ dmsg' = NoMsg
    /\ dpc' \in {"top", "exit", "inClose"}
    /\ closeMsg' = IF dpc' = "inClose" /\ closeMsg = "none" THEN "offered" ELSE closeMsg
    /\ UNCHANGED <<closePc, reqVars, srvVars, wVars, rdVars>>

\* Mutant: Close runs internalClose itself and waits for it.
HandlerReturnsLast ==
    /\ dpc = "inClose" /\ closeMsg = "over" /\ closePc = "done"
    /\ dpc' \in {"top", "exit"}
    /\ UNCHANGED <<closePc, closeMsg, reqVars, srvVars, wVars, rdVars, dmsg, ready>>

\* Close has returned to the model's handler, and that to the loop.
HandlerReturns ==
    /\ dpc = "inClose" /\ closeMsg = "over"
    /\ dpc' \in {"top", "exit"}
    /\ UNCHANGED <<closePc, closeMsg, reqVars, srvVars, wVars, rdVars, dmsg, ready>>

\* A request is handled in a goroutine of its own.
HandleRequest ==
    /\ dpc = "handle" /\ ~Refused(dmsg)
    /\ \E q \in Served :
         /\ dmsg = Msg("request", q)
         /\ qpc' = [qpc EXCEPT ![q] = IF @ = "none" THEN "serving" ELSE @]
    /\ dmsg' = NoMsg
    /\ dpc' = "top"
    /\ UNCHANGED <<closePc, closeMsg, reqVars, done, wVars, rdVars, ready>>

\* handleResponse, under awaitingMut: one result and the end of the channel.
HandleResponse ==
    /\ dpc = "handle" /\ ~Refused(dmsg)
    /\ \E r \in Requests :
         /\ dmsg = Msg("response", r)
         /\ rc' = [rc EXCEPT ![r] =
                     IF r \notin awaiting THEN @
                     ELSE IF @ = "closed" THEN "panic" ELSE "result"]
         /\ awaiting' = awaiting \ {r}
    /\ dmsg' = NoMsg
    /\ dpc' = "top"
    /\ UNCHANGED <<closePc, closeMsg, rpc, srvVars, wVars, rdVars, ready>>

\* The loop has returned, and Close is called with its error.
DispatcherCloses ==
    /\ dpc = "exit"
    /\ \/ closeMsg = "none" /\ closeMsg' = "offered" /\ UNCHANGED <<dpc, closePc>>
       \/ /\ closeMsg = "over" /\ CallInternalClose
          /\ dpc' = "stopped" /\ UNCHANGED closeMsg
    /\ UNCHANGED <<reqVars, srvVars, wVars, rdVars, dmsg, ready>>

-----------------------------------------------------------------------------
(* Close and internalClose.                                                *)

\* Somebody outside the loops calls Close.
Close ==
    /\ closeMsg = "none"
    /\ closeMsg' = "offered"
    /\ UNCHANGED <<closePc, reqVars, srvVars, wVars, rdVars, dVars>>

\* Its message is written, or the channel is closed, or CloseTimeout is over.
CloseReturns ==
    /\ closeMsg \in {"offered", "taken", "written"}
    /\ closeMsg' = "over"
    /\ CallInternalClose
    /\ UNCHANGED <<reqVars, srvVars, wVars, rdVars, dVars>>

\* pingReceiver has read nothing for ReceiveTimeout.
ReceiveTimeout ==
    /\ Started /\ ~Closed
    /\ CallInternalClose
    /\ UNCHANGED <<closeMsg, reqVars, srvVars, wVars, rdVars, dVars>>

\* closeOnce: startStopMut, and the underlying connection is closed.
CloseConn ==
    /\ closePc = "called" /\ closePc' = "down"
    /\ UNCHANGED <<closeMsg, reqVars, srvVars, wVars, rdVars, dVars>>

CloseChannel ==
    /\ closePc = "down" /\ closePc' = "closed"
    /\ UNCHANGED <<closeMsg, reqVars, srvVars, wVars, rdVars, dVars>>

\* Mutant: the channels are closed and stay in the map.
DrainKeeping ==
    /\ closePc = "closed" /\ closePc' = "drained"
    /\ rc' = [r \in Requests |-> IF r \in awaiting THEN "closed" ELSE rc[r]]
    /\ UNCHANGED <<closeMsg, rpc, awaiting, srvVars, wVars, rdVars, dVars>>

\* Mutant: the map is emptied, the channels are left open.
DrainOpen ==
    /\ closePc = "closed" /\ closePc' = "drained"
    /\ awaiting' = {}
    /\ UNCHANGED <<closeMsg, rpc, rc, srvVars, wVars, rdVars, dVars>>

\* Every waiting call gets the end of its channel.
Drain ==
    /\ closePc = "closed" /\ closePc' = "drained"
    /\ rc' = [r \in Requests |-> IF r \in awaiting THEN "closed" ELSE rc[r]]
    /\ awaiting' = {}
    /\ UNCHANGED <<closeMsg, rpc, srvVars, wVars, rdVars, dVars>>

\* Mutant: the dispatcher is not waited for.
AwaitNobody ==
    /\ closePc = "drained"
    /\ closePc' = "notify"
    /\ UNCHANGED <<closeMsg, reqVars, srvVars, wVars, rdVars, dVars>>

\* The wait for dispatcherLoopStopped, if there is a dispatcher.
AwaitDispatcher ==
    /\ closePc = "drained" /\ (Started => DispatcherStopped)
    /\ closePc' = "notify"
    /\ UNCHANGED <<closeMsg, reqVars, srvVars, wVars, rdVars, dVars>>

\* model.Closed.
NotifyModel ==
    /\ closePc = "notify" /\ closePc' = "done"
    /\ UNCHANGED <<closeMsg, reqVars, srvVars, wVars, rdVars, dVars>>

-----------------------------------------------------------------------------

RequestStep(r) ==
    \/ RequestRegister(r) \/ RequestSendClosed(r) \/ RequestReturn(r)

ServeStep(q) == ServeRequest(q) \/ ServeSendClosed(q) \/ ServeRelease(q)

WriterStep == WriterClosed \/ WriterReturns \/ (Down /\ WriteFail)

ReaderStep == ReaderReturns \/ (Down /\ ReadFail)

DispatcherStep ==
    \/ DispatchTop \/ DispatchClosed \/ DispatchRefuse \/ DispatchModel
    \/ HandlerReturns \/ HandleRequest \/ HandleResponse \/ DispatcherCloses

CloserStep ==
    \/ CloseReturns \/ CloseConn \/ CloseChannel \/ Drain
    \/ AwaitDispatcher \/ NotifyModel

\* Nothing is left to run.
Finished ==
    /\ closePc = "done"
    /\ {rdpc, wpc, dpc} \subseteq {"off", "stopped"}
    /\ \A r \in Requests : rpc[r] \in {"answered", "failed"}
    /\ \A q \in Served : qpc[q] \in {"none", "over"}
    /\ UNCHANGED vars

Next ==
    \/ Start
    \/ \E r \in Requests : RequestCheck(r) \/ RequestStep(r) \/ RequestSend(r)
                             \/ RequestCancel(r)
    \/ \E q \in Served : ServeStep(q) \/ ServeSend(q)
    \/ WriterConfig \/ WriterOther \/ WriterClose \/ WriterLoop
    \/ WriterClosed \/ Write \/ WriteFail \/ WriterReturns
    \/ Read \/ ReadFail \/ ReaderReturns
    \/ DispatcherStep \/ DispatchTake
    \/ Close \/ ReceiveTimeout \/ CloserStep
    \/ Finished

Spec == Init /\ [][Next]_vars

\* Goroutines that can run do run, and a model's handler returns. A read or a
\* write ends at the latest when the underlying connection is closed. Nothing
\* has to be sent, and nobody has to close the connection.
Fairness ==
    /\ \A r \in Requests : WF_vars(RequestStep(r))
    /\ \A q \in Served : WF_vars(ServeStep(q))
    /\ WF_vars(WriterStep) /\ WF_vars(ReaderStep) /\ WF_vars(DispatcherStep)
    /\ WF_vars(CloserStep)

FairSpec == Spec /\ Fairness

-----------------------------------------------------------------------------

\* Types. A send on a closed channel would make rc "panic", which is not among
\* them: handleResponse never does that.
TypeOK ==
    /\ closePc \in ClosePoints
    /\ closeMsg \in {"none", "offered", "taken", "written", "over"}
    /\ rpc \in [Requests -> {"idle", "checked", "sending", "waiting", "answered",
                             "failed"}]
    /\ rc \in [Requests -> {"none", "open", "result", "closed"}]
    /\ awaiting \subseteq Requests
    /\ qpc \in [Served -> {"none", "serving", "refusing", "sending", "holding",
                           "over"}]
    /\ done \in [Served -> BOOLEAN]
    /\ wpc \in {"off", "first", "loop", "select", "write", "closing", "stopped"}
    /\ wmsg \in Messages /\ wire \subseteq Messages
    /\ rdpc \in {"off", "read", "offer", "closing", "stopped"}
    /\ rmsg \in Messages
    /\ dpc \in {"off", "top", "select", "handle", "inClose", "exit", "stopped"}
    /\ dmsg \in Messages /\ ready \in BOOLEAN

\* handleResponse and the drain of internalClose both end a result channel:
\* a channel that can still be found has not been used.
AwaitingOpen == \A r \in awaiting : rc[r] = "open"

\* A call that waits for its result can still get one: it is in awaiting, or
\* its channel has a result or has been closed. It is in awaiting only as long
\* as the drain has not been done.
NoStrandedRequest ==
    \A r \in Requests : rpc[r] = "waiting" =>
        \/ rc[r] \in {"result", "closed"}
        \/ r \in awaiting /\ closePc \notin {"drained", "notify", "done"}

\* A goroutine that waits to give its buffer back is waited for by nobody else:
\* its done channel is closed, or the writer has its response in hand and
\* closes it whether the write succeeds or not.
NoStrandedBuffer ==
    \A q \in Served : qpc[q] = "holding" =>
        done[q] \/ (wpc = "write" /\ wmsg = Msg("response", q))

\* After the model has been told that the connection is closed, the dispatcher
\* does not call it any more.
ClosedIsLast == closePc \in {"notify", "done"} => dpc \in {"off", "exit", "stopped"}

\* On the wire: the first message is a cluster config (or a Close), nothing
\* follows a Close, and no request or response is written twice.
WireOrder ==
    wpc = "write" =>
        /\ wire = {} => wmsg \in {ConfigMsg, CloseMsg}
        /\ CloseMsg \notin wire
        /\ wmsg \in wire => wmsg \in {ConfigMsg, OtherMsg}

\* Closing comes to an end: whoever calls Close or internalClose, from wherever,
\* the model is told, and all loops end.
CloseCompletes ==
    (closeMsg # "none" \/ closePc # "none") ~>
        /\ closePc = "done"
        /\ {rdpc, wpc, dpc} \subseteq {"off", "stopped"}

\* Once the connection is closed, every call of Request returns.
RequestsReturn ==
    \A r \in Requests :
        (Closed /\ rpc[r] \in {"checked", "sending", "waiting"})
            ~> rpc[r] \in {"answered", "failed"}
=============================================================================
