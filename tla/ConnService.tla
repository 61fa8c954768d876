---------------------------- MODULE ConnService ----------------------------
(***************************************************************************)
(* lib/connections/service.go on one device: connections that come in      *)
(* from the listeners, the check before and the bookkeeping after the      *)
(* exchange of hellos, the deviceConnectionTracker, and the requests to    *)
(* dial a device now.  NewService starts handleConns twice (once under     *)
(* the name "connect") and handleHellos once; dialDevices has no caller,   *)
(* so there is no action for it.                                           *)
(*                                                                         *)
(* Priorities are numbers, lower is better.  All metrics of the            *)
(* connection prioritizer other than the priority are at their defaults,   *)
(* so a connection's score is a function of its priority alone.            *)
(***************************************************************************)
EXTENDS Integers, FiniteSets, FiniteSetsExt

CONSTANTS Peers,       \* other devices
          ConnIDs,     \* bound: connections during one run
          Priorities,  \* of connections
          LimitMax,    \* ConnectionLimitMax, 0: no limit
          Threshold    \* ConnectionPriorityUpgradeThreshold

VARIABLES peerCfg,        \* peer -> "absent", "paused" or "active"
          stage,          \* connection -> where it is
          peerOf, prio,   \* connection -> whose it is, its priority
          connections,    \* the tracker's connections
          adding,         \* what handleHellos has accounted and not yet
                          \* given to the model
          tracker,        \* connectionsMut is held by handleHellos for this one
          stability,      \* the mutexes of stability managers that are held
          inModel,        \* connections the model knows
          toClose,        \* connections that somebody is closing
          dialNowDevices, \* peers to dial now
          dialNow         \* the signal for the dialling loop is there

csVars == <<peerCfg, stage, peerOf, prio, connections, adding, tracker, stability,
            inModel, toClose, dialNowDevices, dialNow>>
lockVars == <<tracker, stability>>

Stages == {"none", "arrived", "hello", "failed", "helloed", "open", "closed",
           "gone"}
NoConn == "noconn"
Conns(d) == {c \in connections : peerOf[c] = d}
ConnectedDevices == {peerOf[c] : c \in connections}

\* desiredConnectionsToDevice: helloForDevice leaves NumConnections at zero,
\* so the other side counts as one that does not support several.
DesiredConnections(d) == IF peerCfg[d] = "absent" THEN 0 ELSE 1

\* connectionCheckEarly, as far as it looks at connections and at whether the
\* device is known and not paused.
PassesEarly(c) ==
    LET d == peerOf[c] IN
    /\ LimitMax = 0 \/ Cardinality(ConnectedDevices) < LimitMax
    /\ \/ peerCfg[d] = "absent"
       \/ /\ peerCfg[d] = "active"
          /\ \/ Cardinality(Conns(d)) < DesiredConnections(d)
             \/ Conns(d) = {}
             \/ prio[c] + Threshold < Max({prio[e] : e \in Conns(d)})

\* closeWorsePriorityConnectionsLocked, with c among the connections: of those
\* above the cutoff the ones are closed that have no other beside them, or
\* that ShouldReplaceConnection prefers to the one CompareConnections leaves,
\* which is the one with the worst score.
Worse(c, all) ==
    LET Others(e) == all \ {e}
        Other(e) == Max({prio[o] : o \in Others(e)})
    IN {e \in all :
          /\ prio[e] > prio[c] - Threshold
          /\ \/ Others(e) = {}
             \/ Other(e) - prio[e] > 400     \* more than 10 points of score
             \/ Other(e) - prio[e] >= Threshold}

-----------------------------------------------------------------------------

\* A listener has accepted a connection and done the TLS handshake.
Accept(c, d, p) ==
    /\ stage[c] = "none"
    /\ stage' = [stage EXCEPT ![c] = "arrived"]
    /\ peerOf' = [peerOf EXCEPT ![c] = d]
    /\ prio' = [prio EXCEPT ![c] = p]
    /\ UNCHANGED <<peerCfg, connections, adding, lockVars, inModel, toClose,
                   dialNowDevices, dialNow>>

\* handleConns, either of the two, which asks the tracker. Any connection may
\* be refused: for its certificates, because the device is ignored, or because
\* it comes from a network that is not allowed.
HandleConns(c) ==
    /\ stage[c] = "arrived" /\ tracker = NoConn
    /\ \E refused \in BOOLEAN :
          stage' = [stage EXCEPT ![c] = IF PassesEarly(c) /\ ~refused THEN "hello"
                                        ELSE "gone"]
    /\ UNCHANGED <<peerCfg, peerOf, prio, connections, adding, lockVars, inModel,
                   toClose, dialNowDevices, dialNow>>

\* The hellos are exchanged within 20 seconds, or not.
ExchangeHello(c) ==
    /\ stage[c] = "hello"
    /\ \E s \in {"helloed", "failed"} : stage' = [stage EXCEPT ![c] = s]
    /\ UNCHANGED <<peerCfg, peerOf, prio, connections, adding, lockVars, inModel,
                   toClose, dialNowDevices, dialNow>>

\* handleHellos: OnHello and the configuration refuse devices that are not, or
\* no longer, known; the name on the certificate may be wrong. For others accountAddedConnection takes connectionsMut,
\* and RecordConnectionEstablished the mutex of the stability manager.
HandleHellos(c) ==
    /\ stage[c] \in {"helloed", "failed"} /\ adding = NoConn /\ tracker = NoConn
    /\ \/ /\ stage' = [stage EXCEPT ![c] = "gone"]
          /\ UNCHANGED <<connections, lockVars>>
       \/ /\ stage[c] = "helloed" /\ peerCfg[peerOf[c]] # "absent"
          /\ tracker' = c
          /\ connections' = connections \union {c}
          /\ stability' = stability \union {peerOf[c]}
          /\ UNCHANGED stage
    /\ UNCHANGED <<peerCfg, peerOf, prio, adding, inModel, toClose,
                   dialNowDevices, dialNow>>

\* updateStabilityScore, still in RecordConnectionEstablished, reads the metrics
\* with GetStabilityMetrics, which takes the same mutex for reading. With that
\* the connection is recorded, and others are closed.
AccountAdded(c) ==
    /\ tracker = c /\ peerOf[c] \notin stability
    /\ tracker' = NoConn
    /\ stage' = [stage EXCEPT ![c] = "open"]
    /\ toClose' = toClose \union Worse(c, Conns(peerOf[c]))
    /\ adding' = c
    /\ UNCHANGED <<peerCfg, peerOf, prio, connections, stability, inModel,
                   dialNowDevices, dialNow>>

\* The rest of it, AddConnection of the model: an unknown device is ignored.
AddConnection ==
    /\ adding # NoConn
    /\ inModel' = IF peerCfg[peerOf[adding]] = "absent" THEN inModel
                  ELSE inModel \union {adding}
    /\ adding' = NoConn
    /\ UNCHANGED <<peerCfg, stage, peerOf, prio, connections, lockVars, toClose,
                   dialNowDevices, dialNow>>

\* A connection ends: somebody closes it, or it breaks.
Close(c) ==
    /\ stage[c] = "open"
    /\ c \in toClose \union inModel
    /\ stage' = [stage EXCEPT ![c] = "closed"]
    /\ toClose' = toClose \ {c}
    /\ inModel' = inModel \ {c}
    /\ UNCHANGED <<peerCfg, peerOf, prio, connections, adding, lockVars,
                   dialNowDevices, dialNow>>

\* The goroutine of handleHellos that waits for the end of the connection.
AccountRemoved(c) ==
    /\ stage[c] = "closed" /\ tracker = NoConn
    /\ stage' = [stage EXCEPT ![c] = "gone"]
    /\ connections' = connections \ {c}
    /\ dialNowDevices' = dialNowDevices \union {peerOf[c]}
    /\ dialNow' = TRUE
    /\ UNCHANGED <<peerCfg, peerOf, prio, adding, lockVars, inModel, toClose>>

\* CommitConfiguration of this service (checkAndSignalConnectLoopOnUpdated-
\* Devices) and of the model, which closes what it knows of a device that is
\* paused or removed.
CommitConfiguration(d, s) ==
    /\ peerCfg[d] # s
    /\ peerCfg' = [peerCfg EXCEPT ![d] = s]
    /\ \/ /\ s = "active"
          /\ dialNowDevices' = dialNowDevices \union {d} /\ dialNow' = TRUE
          /\ UNCHANGED toClose
       \/ /\ s # "active"
          /\ toClose' = toClose \union (inModel \intersect Conns(d))
          /\ UNCHANGED <<dialNowDevices, dialNow>>
    /\ UNCHANGED <<stage, peerOf, prio, connections, adding, lockVars, inModel>>

\* DialNow.
DialNow ==
    /\ dialNowDevices' = dialNowDevices
                         \union {d \in Peers : peerCfg[d] = "active"}
    /\ dialNow' = TRUE
    /\ UNCHANGED <<peerCfg, stage, peerOf, prio, connections, adding, lockVars,
                   inModel, toClose>>

CSInit ==
    /\ peerCfg \in [Peers -> {"absent", "active"}]
    /\ stage = [c \in ConnIDs |-> "none"]
    /\ peerOf \in {[c \in ConnIDs |-> d] : d \in Peers}
    /\ prio = [c \in ConnIDs |-> 0]
    /\ connections = {} /\ adding = NoConn /\ inModel = {} /\ toClose = {}
    /\ tracker = NoConn /\ stability = {}
    /\ dialNowDevices = {d \in Peers : peerCfg[d] = "active"}
    /\ dialNow = (dialNowDevices # {})

\* The goroutines NewService starts, and the ones they start.
CSRoutines ==
    \/ \E c \in ConnIDs : \/ HandleConns(c) \/ ExchangeHello(c)
                          \/ HandleHellos(c) \/ AccountAdded(c)
                          \/ AccountRemoved(c)
                          \/ (c \in toClose /\ Close(c))
    \/ AddConnection

CSNext ==
    \/ CSRoutines
    \/ \E c \in ConnIDs, d \in Peers, p \in Priorities : Accept(c, d, p)
    \/ \E c \in ConnIDs : Close(c)
    \/ \E d \in Peers, s \in {"absent", "paused", "active"} :
          CommitConfiguration(d, s)
    \/ DialNow

\* Whatever the service's goroutines can do they do in the end. No peer has
\* to connect by itself.
CSSpec == CSInit /\ [][CSNext]_csVars /\ WF_csVars(CSRoutines)

\* multipath_connection_test.go: connections that are accounted for are counted
\* afterwards. A connection that has exchanged hellos is handed to the model or
\* refused.
HelloedIsServed ==
    \A c \in ConnIDs :
        stage[c] = "helloed" ~> c \in inModel \/ stage[c] \in {"closed", "gone"}

\* A device that is to be dialled now is dialled: the request is taken up, the
\* device connects, or it is no longer wanted. Does not hold: nobody dials.
DialsWanted ==
    \A d \in Peers :
        (d \in dialNowDevices /\ dialNow /\ peerCfg[d] = "active") ~>
            (d \notin dialNowDevices \/ d \in ConnectedDevices
             \/ peerCfg[d] # "active")
=============================================================================
