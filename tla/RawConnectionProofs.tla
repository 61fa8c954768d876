------------------------- MODULE RawConnectionProofs -------------------------
(***************************************************************************)
(* A connection, for any number of calls and of served requests.           *)
(***************************************************************************)
EXTENDS RawConnection, TLAPS

\* A call that is about to send can be found by whoever ends the channels,
\* unless that has been done already, and then it cannot send.
SendersKnown ==
    \A r \in Requests : rpc[r] = "sending" /\ closePc \notin {"drained", "notify", "done"}
        => r \in awaiting \/ rc[r] \in {"result", "closed"}

CallsInv == TypeOK /\ AwaitingOpen

ResultInv == SendersKnown /\ NoStrandedRequest

LEMMA InitCalls == Init => CallsInv
<1> SUFFICES ASSUME Init PROVE CallsInv
  OBVIOUS
<1>1. done \in [Served -> BOOLEAN] /\ ready \in BOOLEAN
  BY DEF Init
<1>2. TypeOK
  BY <1>1 DEF Init, TypeOK, ClosePoints, Messages
<1>3. AwaitingOpen
  BY DEF Init, AwaitingOpen
<1> QED BY <1>2, <1>3 DEF CallsInv

LEMMA StepCalls == CallsInv /\ [Next]_vars => CallsInv'
<1> SUFFICES ASSUME CallsInv, [Next]_vars PROVE CallsInv'
  OBVIOUS
<1> USE DEF CallsInv, TypeOK, AwaitingOpen
<1>1. CASE Start
  BY <1>1 DEF Start, reqVars, srvVars
<1>2. CASE \E r \in Requests : RequestCheck(r) \/ RequestSendClosed(r)
                                 \/ RequestCancel(r) \/ RequestReturn(r)
  BY <1>2 DEF RequestCheck, RequestSendClosed, RequestCancel, RequestReturn,
              srvVars, wVars, rdVars, dVars
<1>3. CASE \E r \in Requests : RequestRegister(r)
  BY <1>3 DEF RequestRegister, srvVars, wVars, rdVars, dVars
<1>4. CASE \E r \in Requests : RequestSend(r)
  BY <1>4 DEF RequestSend, srvVars, rdVars, dVars, Messages, ReqMsgs
<1>5. CASE \E q \in Served : ServeRequest(q)
  BY <1>5 DEF ServeRequest, reqVars, wVars, rdVars, dVars
<1>6. CASE \E q \in Served : ServeSend(q)
  BY <1>6 DEF ServeSend, reqVars, rdVars, dVars, Messages, RespMsgs
<1>7. CASE \E q \in Served : ServeSendClosed(q) \/ ServeRelease(q)
  <2> PICK q \in Served : ServeSendClosed(q) \/ ServeRelease(q)
    BY <1>7
  <2>1. done' \in [Served -> BOOLEAN]
    BY DEF ServeSendClosed, ServeRelease
  <2>2. qpc' \in [Served -> {"none", "serving", "refusing", "sending", "holding", "over"}]
    BY DEF ServeSendClosed, ServeRelease
  <2> QED
    BY <2>1, <2>2 DEF ServeSendClosed, ServeRelease, reqVars, wVars, rdVars, dVars
<1>8. CASE WriterConfig \/ WriterOther \/ WriterClose
  BY <1>8 DEF WriterConfig, WriterOther, WriterClose, reqVars, srvVars, rdVars, dVars,
              Messages
<1>9. CASE WriterLoop \/ WriterClosed \/ WriterReturns
  BY <1>9 DEF WriterLoop, WriterClosed, WriterReturns, reqVars, srvVars, rdVars, dVars
<1>10. CASE Write
  BY <1>10 DEF Write, WriteDone, reqVars, rdVars, dVars, Messages
<1>11. CASE WriteFail
  BY <1>11 DEF WriteFail, WriteDone, CallInternalClose, ClosePoints, reqVars, rdVars,
               dVars, Messages
<1>12. CASE Read
  BY <1>12 DEF Read, Arriving, Messages, ReqMsgs, RespMsgs, reqVars, srvVars, wVars, dVars
<1>13. CASE ReadFail \/ ReaderReturns
  BY <1>13 DEF ReadFail, ReaderReturns, CallInternalClose, ClosePoints, Messages, reqVars,
               srvVars, wVars, dVars
<1>14. CASE DispatchTop \/ DispatchTake \/ DispatchClosed \/ DispatchRefuse
  BY <1>14 DEF DispatchTop, DispatchTake, DispatchClosed, DispatchRefuse, Messages, reqVars,
               srvVars, wVars, rdVars
<1>15. CASE DispatchModel
  BY <1>15 DEF DispatchModel, Messages, reqVars, srvVars, wVars, rdVars
<1>16. CASE HandlerReturns
  BY <1>16 DEF HandlerReturns, reqVars, srvVars, wVars, rdVars
<1>17. CASE HandleRequest
  BY <1>17 DEF HandleRequest, Messages, reqVars, wVars, rdVars
<1>18. CASE HandleResponse
  BY <1>18 DEF HandleResponse, Messages, srvVars, wVars, rdVars
<1>19. CASE DispatcherCloses
  BY <1>19 DEF DispatcherCloses, CallInternalClose, ClosePoints, reqVars, srvVars, wVars,
               rdVars
<1>20. CASE Close \/ CloseReturns \/ ReceiveTimeout
  BY <1>20 DEF Close, CloseReturns, ReceiveTimeout, CallInternalClose, ClosePoints, reqVars,
               srvVars, wVars, rdVars, dVars
<1>21. CASE CloseConn \/ CloseChannel \/ AwaitDispatcher \/ NotifyModel
  BY <1>21 DEF CloseConn, CloseChannel, AwaitDispatcher, NotifyModel, ClosePoints, reqVars,
               srvVars, wVars, rdVars, dVars
<1>22. CASE Drain
  BY <1>22 DEF Drain, ClosePoints, srvVars, wVars, rdVars, dVars
<1>23. CASE UNCHANGED vars
  BY <1>23 DEF vars
<1> QED
  BY <1>1, <1>2, <1>3, <1>4, <1>5, <1>6, <1>7, <1>8, <1>9, <1>10, <1>11, <1>12, <1>13,
     <1>14, <1>15, <1>16, <1>17, <1>18, <1>19, <1>20, <1>21, <1>22, <1>23
     DEF Next, RequestStep, ServeStep, DispatcherStep, CloserStep, Finished

LEMMA StepResult == CallsInv /\ ResultInv /\ [Next]_vars => ResultInv'
<1> SUFFICES ASSUME CallsInv, ResultInv, [Next]_vars PROVE ResultInv'
  OBVIOUS
<1> USE DEF CallsInv, TypeOK, AwaitingOpen, ResultInv, SendersKnown, NoStrandedRequest
<1>1. CASE UNCHANGED <<rpc, rc, awaiting, closePc>>
  BY <1>1
<1>2. CASE \E r \in Requests : RequestCheck(r) \/ RequestSendClosed(r)
                                 \/ RequestCancel(r) \/ RequestReturn(r)
  BY <1>2 DEF RequestCheck, RequestSendClosed, RequestCancel, RequestReturn
<1>3. CASE \E r \in Requests : RequestRegister(r)
  BY <1>3 DEF RequestRegister
<1>4. CASE \E r \in Requests : RequestSend(r)
  BY <1>4 DEF RequestSend, Closed
<1>5. CASE HandleResponse
  BY <1>5 DEF HandleResponse
<1>6. CASE Drain
  BY <1>6 DEF Drain
<1>7. CASE UNCHANGED <<rpc, rc, awaiting>> /\ CallInternalClose
  BY <1>7 DEF CallInternalClose
<1>8. CASE UNCHANGED <<rpc, rc, awaiting>>
            /\ (CloseConn \/ CloseChannel \/ AwaitDispatcher \/ NotifyModel)
  BY <1>8 DEF CloseConn, CloseChannel, AwaitDispatcher, NotifyModel
<1>9. CASE Start \/ (\E q \in Served : ServeStep(q) \/ ServeSend(q))
  BY <1>9, <1>1 DEF Start, ServeStep, ServeSend, ServeRequest, ServeSendClosed,
     ServeRelease, reqVars
<1>10. CASE WriterConfig \/ WriterOther \/ WriterClose \/ WriterLoop \/ WriterClosed
              \/ Write \/ WriteFail \/ WriterReturns
  BY <1>10, <1>1, <1>7 DEF WriterConfig, WriterOther, WriterClose, WriterLoop,
     WriterClosed, Write, WriteFail, WriterReturns, reqVars
<1>11. CASE Read \/ ReadFail \/ ReaderReturns
  BY <1>11, <1>1, <1>7 DEF Read, ReadFail, ReaderReturns, reqVars
<1>12. CASE DispatchTop \/ DispatchTake \/ DispatchClosed \/ DispatchRefuse
              \/ DispatchModel \/ HandlerReturns \/ HandleRequest \/ DispatcherCloses
  BY <1>12, <1>1, <1>7 DEF DispatchTop, DispatchTake, DispatchClosed, DispatchRefuse,
     DispatchModel, HandlerReturns, HandleRequest, DispatcherCloses, reqVars
<1>13. CASE Close \/ CloseReturns \/ ReceiveTimeout \/ CloseConn \/ CloseChannel
              \/ AwaitDispatcher \/ NotifyModel
  BY <1>13, <1>1, <1>7, <1>8 DEF Close, CloseReturns, ReceiveTimeout, CloseConn,
     CloseChannel, AwaitDispatcher, NotifyModel, reqVars
<1>14. CASE UNCHANGED vars
  BY <1>14, <1>1 DEF vars
<1> QED
  BY <1>2, <1>3, <1>4, <1>5, <1>6, <1>9, <1>10, <1>11, <1>12, <1>13, <1>14
     DEF Next, RequestStep, DispatcherStep, CloserStep, Finished

\* Only the dispatcher moves on from its exit, and Start is too late by then.
LEMMA StepClosedIsLast == CallsInv /\ ClosedIsLast /\ [Next]_vars => ClosedIsLast'
<1> SUFFICES ASSUME CallsInv, ClosedIsLast, [Next]_vars PROVE ClosedIsLast'
  OBVIOUS
<1> USE DEF ClosedIsLast
<1>1. CASE UNCHANGED <<dpc, closePc>>
  BY <1>1
<1>2. CASE UNCHANGED dpc /\ CallInternalClose
  BY <1>2 DEF CallInternalClose
<1>3. CASE Start
  BY <1>3 DEF Start
<1>4. CASE \E r \in Requests : RequestCheck(r) \/ RequestStep(r) \/ RequestSend(r)
                                 \/ RequestCancel(r)
  BY <1>4, <1>1 DEF RequestCheck, RequestStep, RequestSend, RequestCancel,
     RequestRegister, RequestSendClosed, RequestReturn, dVars
<1>5. CASE \E q \in Served : ServeStep(q) \/ ServeSend(q)
  BY <1>5, <1>1 DEF ServeStep, ServeSend, ServeRequest, ServeSendClosed, ServeRelease, dVars
<1>6. CASE WriterConfig \/ WriterOther \/ WriterClose \/ WriterLoop \/ WriterClosed
             \/ Write \/ WriteFail \/ WriterReturns
  BY <1>6, <1>1, <1>2 DEF WriterConfig, WriterOther, WriterClose, WriterLoop,
     WriterClosed, Write, WriteFail, WriterReturns, dVars
<1>7. CASE Read \/ ReadFail \/ ReaderReturns
  BY <1>7, <1>1, <1>2 DEF Read, ReadFail, ReaderReturns, dVars
<1>8. CASE DispatchTop \/ DispatchTake \/ DispatchClosed \/ DispatchRefuse
             \/ DispatchModel \/ HandlerReturns \/ HandleRequest \/ HandleResponse
  BY <1>8 DEF DispatchTop, DispatchTake, DispatchClosed, DispatchRefuse,
     DispatchModel, HandlerReturns, HandleRequest, HandleResponse
<1>9. CASE DispatcherCloses
  BY <1>9 DEF DispatcherCloses, CallInternalClose
<1>10. CASE Close \/ CloseReturns \/ ReceiveTimeout
  BY <1>10, <1>1, <1>2 DEF Close, CloseReturns, ReceiveTimeout, dVars
<1>11. CASE CloseConn \/ CloseChannel \/ Drain \/ NotifyModel
  BY <1>11 DEF CloseConn, CloseChannel, Drain, NotifyModel, dVars
<1>12. CASE AwaitDispatcher
  BY <1>12 DEF AwaitDispatcher, Started, DispatcherStopped, dVars
<1>13. CASE UNCHANGED vars
  BY <1>13, <1>1 DEF vars
<1> QED
  BY <1>3, <1>4, <1>5, <1>6, <1>7, <1>8, <1>9, <1>10, <1>11, <1>12, <1>13
     DEF Next, DispatcherStep, CloserStep, Finished

LEMMA MsgsDiffer ==
    /\ ConfigMsg # CloseMsg /\ OtherMsg # CloseMsg /\ OtherMsg # ConfigMsg
    /\ NoMsg \notin {ConfigMsg, OtherMsg, CloseMsg}
    /\ \A x : /\ Msg("request", x) \notin {ConfigMsg, OtherMsg, CloseMsg, NoMsg}
              /\ Msg("response", x) \notin {ConfigMsg, OtherMsg, CloseMsg, NoMsg}
    /\ \A x, y : Msg("request", x) # Msg("response", y)
    /\ \A x, y : Msg("request", x) = Msg("request", y) => x = y
    /\ \A x, y : Msg("response", x) = Msg("response", y) => x = y
BY DEF Msg, ConfigMsg, OtherMsg, CloseMsg, NoMsg

\* Why messages go out in order: nothing but a cluster config or a Close is
\* taken before something has been written, nothing is taken after a Close, and
\* a request or response has left its sender when it is taken.
WireInv ==
    /\ WireOrder
    /\ dpc = "off" => wpc = "off"
    /\ wpc \in {"off", "first"} => wire = {}
    /\ wpc \in {"loop", "select"} => wire # {} /\ CloseMsg \notin wire
    /\ \A r \in Requests :
         Msg("request", r) \in wire \/ (wpc = "write" /\ wmsg = Msg("request", r))
           => rpc[r] \in {"waiting", "answered", "failed"}
    /\ \A q \in Served :
         Msg("response", q) \in wire \/ (wpc = "write" /\ wmsg = Msg("response", q))
           => qpc[q] \in {"holding", "over"}

LEMMA InitWire == Init => WireInv
BY DEF Init, WireInv, WireOrder

LEMMA StepWire == CallsInv /\ WireInv /\ [Next]_vars => WireInv'
<1> SUFFICES ASSUME CallsInv, WireInv, [Next]_vars PROVE WireInv'
  OBVIOUS
<1> USE DEF CallsInv, TypeOK, WireInv, WireOrder
<1>1. CASE UNCHANGED <<wpc, wmsg, wire, rpc, qpc>> /\ (dpc' = "off" => dpc = "off")
  BY <1>1
<1>2. CASE Start
  BY <1>2 DEF Start, Started, reqVars, srvVars
<1>3. CASE \E r \in Requests : RequestCheck(r) \/ RequestStep(r) \/ RequestCancel(r)
  <2> PICK r \in Requests : RequestCheck(r) \/ RequestStep(r) \/ RequestCancel(r)
    BY <1>3
  <2>1. UNCHANGED <<wpc, wmsg, wire, qpc, dpc>>
    BY DEF RequestCheck, RequestStep, RequestCancel, RequestRegister,
       RequestSendClosed, RequestReturn, wVars, srvVars, dVars
  <2>2. \A s \in Requests : \/ rpc'[s] = rpc[s]
                             \/ rpc[s] \in {"idle", "checked"}
                             \/ rpc'[s] \in {"answered", "failed"}
    BY DEF RequestCheck, RequestStep, RequestCancel, RequestRegister,
       RequestSendClosed, RequestReturn
  <2> QED BY <2>1, <2>2
<1>4. CASE \E r \in Requests : RequestSend(r)
  BY <1>4, MsgsDiffer DEF RequestSend, srvVars, dVars
<1>5. CASE \E q \in Served : ServeStep(q)
  BY <1>5 DEF ServeStep, ServeRequest, ServeSendClosed, ServeRelease, wVars, reqVars, dVars
<1>6. CASE \E q \in Served : ServeSend(q)
  BY <1>6, MsgsDiffer DEF ServeSend, reqVars, dVars
<1>7. CASE WriterConfig \/ WriterOther \/ WriterClose
  BY <1>7, MsgsDiffer DEF WriterConfig, WriterOther, WriterClose, reqVars, srvVars, dVars
<1>8. CASE WriterLoop \/ WriterClosed \/ WriterReturns
  BY <1>8 DEF WriterLoop, WriterClosed, WriterReturns, reqVars, srvVars, dVars
<1>9. CASE Write
  BY <1>9, MsgsDiffer DEF Write, WriteDone, reqVars, dVars
<1>10. CASE WriteFail
  BY <1>10 DEF WriteFail, reqVars, dVars
<1>11. CASE Read \/ ReadFail \/ ReaderReturns
  BY <1>11, <1>1 DEF Read, ReadFail, ReaderReturns, reqVars, srvVars, wVars, dVars
<1>12. CASE DispatchTop \/ DispatchTake \/ DispatchClosed \/ DispatchRefuse
              \/ DispatchModel \/ HandlerReturns \/ HandleResponse \/ DispatcherCloses
  BY <1>12, <1>1 DEF DispatchTop, DispatchTake, DispatchClosed, DispatchRefuse,
     DispatchModel, HandlerReturns, HandleResponse, DispatcherCloses, reqVars, srvVars, wVars
<1>13. CASE HandleRequest
  BY <1>13 DEF HandleRequest, reqVars, wVars
<1>14. CASE Close \/ ReceiveTimeout \/ CloserStep
  BY <1>14, <1>1 DEF Close, ReceiveTimeout, CloserStep, CloseReturns, CloseConn,
     CloseChannel, Drain, AwaitDispatcher, NotifyModel, reqVars, srvVars, wVars, dVars
<1>15. CASE UNCHANGED vars
  BY <1>15, <1>1 DEF vars
<1> QED
  BY <1>2, <1>3, <1>4, <1>5, <1>6, <1>7, <1>8, <1>9, <1>10, <1>11, <1>12, <1>13, <1>14,
     <1>15 DEF Next, DispatcherStep, Finished

LEMMA StepBuffer ==
    CallsInv /\ WireInv /\ NoStrandedBuffer /\ [Next]_vars => NoStrandedBuffer'
<1> SUFFICES ASSUME CallsInv, WireInv, NoStrandedBuffer, [Next]_vars PROVE NoStrandedBuffer'
  OBVIOUS
<1> USE DEF CallsInv, TypeOK, NoStrandedBuffer
<1>1. CASE UNCHANGED <<wpc, wmsg, qpc, done>>
  BY <1>1
<1>2. CASE UNCHANGED <<qpc, done>> /\ wpc # "write"
  BY <1>2
<1>3. CASE \E r \in Requests : RequestCheck(r) \/ RequestStep(r) \/ RequestCancel(r)
  BY <1>3, <1>1 DEF RequestCheck, RequestStep, RequestCancel, RequestRegister,
     RequestSendClosed, RequestReturn, wVars, srvVars
<1>4. CASE \E r \in Requests : RequestSend(r)
  BY <1>4, <1>2 DEF RequestSend, srvVars
<1>5. CASE \E q \in Served : ServeStep(q)
  <2> PICK q \in Served : ServeStep(q)
    BY <1>5
  <2>1. UNCHANGED <<wpc, wmsg>>
    BY DEF ServeStep, ServeRequest, ServeSendClosed, ServeRelease, wVars
  <2>2. \A p \in Served : p # q => qpc'[p] = qpc[p] /\ done'[p] = done[p]
    BY DEF ServeStep, ServeRequest, ServeSendClosed, ServeRelease
  <2>3. qpc'[q] = "holding" => done'[q]
    BY DEF ServeStep, ServeRequest, ServeSendClosed, ServeRelease
  <2> QED BY <2>1, <2>2, <2>3
<1>6. CASE \E q \in Served : ServeSend(q)
  BY <1>6 DEF ServeSend
<1>7. CASE WriterConfig \/ WriterOther \/ WriterClose \/ WriterLoop \/ WriterClosed
             \/ WriterReturns
  BY <1>7, <1>2 DEF WriterConfig, WriterOther, WriterClose, WriterLoop, WriterClosed,
     WriterReturns, srvVars
<1>8. CASE Write \/ WriteFail
  <2>1. /\ UNCHANGED qpc
        /\ \A q \in Served : done'[q] <=>
             done[q] \/ (wmsg = Msg("response", q) /\ qpc[q] = "holding")
    BY <1>8 DEF Write, WriteFail, WriteDone
  <2> QED BY <2>1
<1>9. CASE Read \/ ReadFail \/ ReaderReturns
  BY <1>9, <1>1 DEF Read, ReadFail, ReaderReturns, srvVars, wVars
<1>10. CASE DispatchTop \/ DispatchTake \/ DispatchClosed \/ DispatchRefuse
              \/ DispatchModel \/ HandlerReturns \/ HandleResponse \/ DispatcherCloses
  BY <1>10, <1>1 DEF DispatchTop, DispatchTake, DispatchClosed, DispatchRefuse,
     DispatchModel, HandlerReturns, HandleResponse, DispatcherCloses, srvVars, wVars
<1>11. CASE HandleRequest
  BY <1>11 DEF HandleRequest, wVars
<1>12. CASE Close \/ ReceiveTimeout \/ CloserStep
  BY <1>12, <1>1 DEF Close, ReceiveTimeout, CloserStep, CloseReturns, CloseConn,
     CloseChannel, Drain, AwaitDispatcher, NotifyModel, srvVars, wVars
<1>13. CASE Start
  BY <1>13, <1>2 DEF Start, Started, WireInv, srvVars
<1>14. CASE UNCHANGED vars
  BY <1>14, <1>1 DEF vars
<1> QED
  BY <1>3, <1>4, <1>5, <1>6, <1>7, <1>8, <1>9, <1>10, <1>11, <1>12, <1>13, <1>14
     DEF Next, DispatcherStep, Finished

\* Values, and handleResponse never sends on a closed channel.
THEOREM ConnectionTypes == Spec => []TypeOK
<1>1. CallsInv => TypeOK
  BY DEF CallsInv
<1> QED BY <1>1, InitCalls, StepCalls, PTL DEF Spec

\* handleResponse and internalClose never end one result channel twice.
THEOREM ChannelsEndOnce == Spec => []AwaitingOpen
<1>1. CallsInv => AwaitingOpen
  BY DEF CallsInv
<1> QED BY <1>1, InitCalls, StepCalls, PTL DEF Spec

\* No call of Request is left waiting on a channel nobody will use.
THEOREM NoCallIsStranded == Spec => []NoStrandedRequest
<1>1. Init => ResultInv
  BY DEF Init, ResultInv, SendersKnown, NoStrandedRequest
<1>2. ResultInv => NoStrandedRequest
  BY DEF ResultInv
<1> QED BY <1>1, <1>2, InitCalls, StepCalls, StepResult, PTL DEF Spec

\* The dispatcher makes no call into the model after model.Closed.
THEOREM NoCallAfterClosed == Spec => []ClosedIsLast
<1>1. Init => ClosedIsLast
  BY DEF Init, ClosedIsLast
<1> QED BY <1>1, InitCalls, StepCalls, StepClosedIsLast, PTL DEF Spec

\* A cluster config comes first, a Close last, and nothing is sent twice.
THEOREM WireIsOrdered == Spec => []WireOrder
<1>1. WireInv => WireOrder
  BY DEF WireInv
<1> QED BY <1>1, InitWire, InitCalls, StepCalls, StepWire, PTL DEF Spec

\* Every goroutine that waits to give its buffer back will be told to.
THEOREM NoBufferIsStranded == Spec => []NoStrandedBuffer
<1>1. Init => NoStrandedBuffer
  BY DEF Init, NoStrandedBuffer
<1> QED BY <1>1, InitCalls, StepCalls, InitWire, StepWire, StepBuffer, PTL DEF Spec
=============================================================================
