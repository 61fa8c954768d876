------------------------- MODULE IndexHandlerProofs -------------------------
(***************************************************************************)
(* Pausing and resuming an index handler, for any bound on the history.    *)
(***************************************************************************)
EXTENDS IndexHandler, TLAPS

LEMMA InitHandler == HandlerInit => HandlerInv
<1> SUFFICES ASSUME HandlerInit PROVE HandlerInv
  OBVIOUS
<1>1. sends \in 0..MaxSends
  BY SendsAssumption DEF HandlerInit
<1>2. HandlerTypeOK
  BY <1>1 DEF HandlerInit, HandlerTypeOK, Points
<1>3. AsleepOnlyWhilePaused /\ WaitsPaused /\ OneBatchAtMost
  BY DEF HandlerInit, AsleepOnlyWhilePaused, WaitsPaused, OneBatchAtMost
<1> QED BY <1>2, <1>3 DEF HandlerInv

\* Nobody but Serve moves hpc on, and Serve does not touch the flag.
LEMMA StepHandler == HandlerInv /\ [HandlerNext]_handlerVars => HandlerInv'
<1> SUFFICES ASSUME HandlerInv, [HandlerNext]_handlerVars PROVE HandlerInv'
  OBVIOUS
<1> USE DEF HandlerInv
<1>0. 0 \in 0..MaxSends
  BY SendsAssumption
<1>1. CASE Enter \/ Test \/ Wait \/ Wake
  <2>1. sends' \in 0..MaxSends
    BY <1>1, SendsAssumption DEF HandlerTypeOK, Enter, Test, Wait, Wake
  <2>2. HandlerTypeOK'
    <3>1. CASE Enter
      BY <3>1, <2>1 DEF HandlerTypeOK, Points, Enter
    <3>2. CASE Test
      BY <3>2, <2>1 DEF HandlerTypeOK, Points, Test
    <3>3. CASE Wait
      BY <3>3, <2>1 DEF HandlerTypeOK, Points, Wait
    <3>4. CASE Wake
      BY <3>4, <2>1 DEF HandlerTypeOK, Points, Wake
    <3> QED BY <1>1, <3>1, <3>2, <3>3, <3>4
  <2>3. AsleepOnlyWhilePaused'
    BY <1>1 DEF HandlerTypeOK, AsleepOnlyWhilePaused, WaitsPaused, Enter, Test, Wait, Wake
  <2>5. WaitsPaused'
    BY <1>1 DEF WaitsPaused, Enter, Test, Wait, Wake
  <2>4. OneBatchAtMost'
    BY <1>1, SendsAssumption DEF HandlerTypeOK, OneBatchAtMost, Enter, Test, Wait, Wake
  <2> QED BY <2>2, <2>3, <2>4, <2>5
<1>2. CASE CheckSequence \/ SelectEvent \/ HandlerDone \/ Fail
  <2>1. sends' \in 0..MaxSends
    BY <1>2, SendsAssumption DEF HandlerTypeOK, CheckSequence, SelectEvent, HandlerDone, Fail
  <2>2. HandlerTypeOK'
    BY <1>2, <2>1 DEF HandlerTypeOK, Points, CheckSequence, SelectEvent, HandlerDone, Fail
  <2>3. AsleepOnlyWhilePaused'
    BY <1>2 DEF HandlerTypeOK, AsleepOnlyWhilePaused, CheckSequence, SelectEvent, HandlerDone, Fail
  <2>5. WaitsPaused'
    BY <1>2 DEF WaitsPaused, CheckSequence, SelectEvent, HandlerDone, Fail
  <2>4. OneBatchAtMost'
    BY <1>2, SendsAssumption DEF HandlerTypeOK, OneBatchAtMost, CheckSequence, SelectEvent, HandlerDone, Fail
  <2> QED BY <2>2, <2>3, <2>4, <2>5
<1>3. CASE Send
  <2>1. sends' \in 0..MaxSends
    BY <1>3, SendsAssumption DEF HandlerTypeOK, Send
  <2>2. HandlerTypeOK'
    BY <1>3, <2>1 DEF HandlerTypeOK, Points, Send
  <2>3. AsleepOnlyWhilePaused'
    BY <1>3 DEF HandlerTypeOK, AsleepOnlyWhilePaused, Send
  <2>5. WaitsPaused'
    BY <1>3 DEF WaitsPaused, Send
  <2>4. OneBatchAtMost'
    BY <1>3, SendsAssumption DEF HandlerTypeOK, OneBatchAtMost, Send
  <2> QED BY <2>2, <2>3, <2>4, <2>5
<1>4. CASE WatchContext
  <2>1. sends' \in 0..MaxSends
    BY <1>4, SendsAssumption DEF HandlerTypeOK, WatchContext, CondBroadcast
  <2>2. HandlerTypeOK'
    BY <1>4, <2>1 DEF HandlerTypeOK, Points, WatchContext, CondBroadcast
  <2>3. AsleepOnlyWhilePaused'
    BY <1>4 DEF HandlerTypeOK, AsleepOnlyWhilePaused, WatchContext, CondBroadcast
  <2>5. WaitsPaused'
    BY <1>4 DEF WaitsPaused, WatchContext
  <2>4. OneBatchAtMost'
    BY <1>4, SendsAssumption DEF HandlerTypeOK, OneBatchAtMost, WatchContext, CondBroadcast
  <2> QED BY <2>2, <2>3, <2>4, <2>5
<1>5. CASE Pause \/ Resume
  <2>1. sends' \in 0..MaxSends
    BY <1>0, <1>5 DEF Pause, Resume
  <2>2. UNCHANGED <<hpc, locked, ctxDone, watcher, regMut, first, newer>>
    BY <1>5 DEF Pause, Resume
  <2>3. /\ paused' \in BOOLEAN
        /\ IF hpc = "asleep" THEN woken' = TRUE ELSE woken' = woken
    BY <1>5 DEF Pause, Resume, CondBroadcast
  <2>5. HandlerTypeOK'
    BY <2>1, <2>2, <2>3 DEF HandlerTypeOK
  <2>6. AsleepOnlyWhilePaused'
    BY <2>2, <2>3 DEF AsleepOnlyWhilePaused
  <2>7. WaitsPaused'
    BY <1>5 DEF HandlerTypeOK, WaitsPaused, Pause, Resume
  <2>4. OneBatchAtMost'
    BY <1>5, SendsAssumption DEF HandlerTypeOK, OneBatchAtMost, Pause, Resume, CondBroadcast
  <2> QED BY <2>4, <2>5, <2>6, <2>7
<1>6. CASE Start \/ RemoveHandler \/ Removed \/ CancelHandler \/ LocalChange
  <2>1. sends' \in 0..MaxSends
    BY <1>0, <1>6 DEF HandlerTypeOK, Start, RemoveHandler, Removed, CancelHandler, LocalChange
  <2>2. HandlerTypeOK'
    <3>1. CASE Start
      BY <3>1, <2>1 DEF HandlerTypeOK, Points, Start
    <3>2. CASE RemoveHandler
      BY <3>2, <2>1 DEF HandlerTypeOK, Points, RemoveHandler
    <3>3. CASE Removed
      BY <3>3, <2>1 DEF HandlerTypeOK, Points, Removed
    <3>4. CASE CancelHandler
      BY <3>4, <2>1 DEF HandlerTypeOK, Points, CancelHandler
    <3>5. CASE LocalChange
      BY <3>5, <2>1 DEF HandlerTypeOK, Points, LocalChange
    <3> QED BY <1>6, <3>1, <3>2, <3>3, <3>4, <3>5
  <2>3. AsleepOnlyWhilePaused'
    BY <1>6 DEF HandlerTypeOK, AsleepOnlyWhilePaused, Start, RemoveHandler, Removed, CancelHandler, LocalChange
  <2>5. WaitsPaused'
    BY <1>6 DEF WaitsPaused, Start, RemoveHandler, Removed, CancelHandler, LocalChange
  <2>4. OneBatchAtMost'
    BY <1>6, SendsAssumption DEF HandlerTypeOK, OneBatchAtMost, Start, RemoveHandler, Removed, CancelHandler, LocalChange
  <2> QED BY <2>2, <2>3, <2>4, <2>5
<1>7. CASE UNCHANGED handlerVars
  BY <1>7 DEF handlerVars, HandlerTypeOK, AsleepOnlyWhilePaused, WaitsPaused, OneBatchAtMost
<1> QED BY <1>1, <1>2, <1>3, <1>4, <1>5, <1>6, <1>7 DEF HandlerNext, ServeStep

\* Values, and cond.L is held exactly in the loop of waitWhilePaused.
THEOREM HandlerTypes == HandlerSpec => []HandlerTypeOK
<1>1. HandlerInv => HandlerTypeOK
  BY DEF HandlerInv
<1> QED BY <1>1, InitHandler, StepHandler, PTL DEF HandlerSpec

\* The handler never sleeps through a resume.
THEOREM NoLostResume == HandlerSpec => []AsleepOnlyWhilePaused
<1>1. HandlerInv => AsleepOnlyWhilePaused
  BY DEF HandlerInv
<1> QED BY <1>1, InitHandler, StepHandler, PTL DEF HandlerSpec

\* A paused folder sends at most the batch that was past the test already.
THEOREM PauseBounds == HandlerSpec => []PauseStopsSending
<1>1. HandlerInv => PauseStopsSending
  BY DEF HandlerInv, OneBatchAtMost, PauseStopsSending
<1> QED BY <1>1, InitHandler, StepHandler, PTL DEF HandlerSpec
=============================================================================
