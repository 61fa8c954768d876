------------------------- MODULE ConnectionPromotion -------------------------
(***************************************************************************)
(* Several connections between two devices, as lib/model/model.go keeps    *)
(* them at both ends: adding and losing connections, choosing the primary  *)
(* one, the cluster configs that announce it, and the index handler that   *)
(* follows the cluster configs of the other side.                          *)
(*                                                                         *)
(* Both ends share a folder all the time.  A message is a primary cluster  *)
(* config (with the folder), a secondary one (without folders) or an index *)
(* of the folder.                                                          *)
(***************************************************************************)
EXTENDS Naturals, Sequences, SequencesExt

CONSTANTS
    Nodes,      \* the two devices
    Conns,      \* connection IDs, each used once
    None,
    MaxQueue    \* bound: messages of a connection under way in one direction

ASSUME PromotionAssumption ==
    /\ \E a, b \in Nodes : a # b /\ Nodes = {a, b}
    /\ None \notin Conns /\ MaxQueue \in Nat

VARIABLES
    net,        \* net[c]: "none", "up" or "down"
    seen,       \* seen[n]: connections AddConnection has been called for
    ids,        \* ids[n]: deviceConnIDs of the other device
    promoted,   \* promoted[n]: promotedConnID
    started,    \* started[n]: connections whose Start has been called
    timer,      \* timer[n]: promotionTimer is running
    actions,    \* actions[n]: postLockActions still to be executed
    registry,   \* registry[n]: the connection of the index handler registry
    handler,    \* handler[n]: the registry has an index handler for the folder
    queue       \* queue[n][c]: messages to n

netVars == <<net, seen>>
promoVars == <<promoted, started, timer, actions>>
idxVars == <<registry, handler>>
promotionVars == <<net, seen, ids, promoted, started, timer, actions, registry, handler, queue>>

Peer(n) == CHOOSE m \in Nodes : m # n

PromotionInit ==
    /\ net = [c \in Conns |-> "none"]
    /\ seen = [n \in Nodes |-> {}] /\ ids = [n \in Nodes |-> <<>>]
    /\ promoted = [n \in Nodes |-> None] /\ started = [n \in Nodes |-> {}]
    /\ timer = [n \in Nodes |-> TRUE] /\ actions = [n \in Nodes |-> <<>>]
    /\ registry = [n \in Nodes |-> None] /\ handler = [n \in Nodes |-> FALSE]
    /\ queue = [n \in Nodes |-> [c \in Conns |-> <<>>]]

-----------------------------------------------------------------------------

\* The connection service has a new connection to the other device.
Dial(c) ==
    /\ net[c] = "none"
    /\ net' = [net EXCEPT ![c] = "up"]
    /\ UNCHANGED <<seen, ids, promoVars, idxVars, queue>>

\* The connection breaks or is closed, started or not.
Lose(c) ==
    /\ net[c] = "up"
    /\ net' = [net EXCEPT ![c] = "down"]
    /\ UNCHANGED <<seen, ids, promoVars, idxVars, queue>>

\* AddConnection.
AddConnection(n, c) ==
    /\ net[c] # "none" /\ c \notin seen[n]
    /\ seen' = [seen EXCEPT ![n] = @ \cup {c}]
    /\ ids' = [ids EXCEPT ![n] = Append(@, c)]
    /\ timer' = [timer EXCEPT ![n] = TRUE]
    /\ UNCHANGED <<net, promoted, started, actions, idxVars, queue>>

\* What promoteConnections has to do once it has released the mutex: announce
\* a new primary connection, start the other new ones as secondary.
Promotion(n) ==
    LET first == Head(ids[n])
        others == SelectSeq(Tail(ids[n]), LAMBDA c : c \notin started[n])
    IN  (IF promoted[n] # first THEN <<<<first, "primary">>>> ELSE <<>>)
          \o [i \in DOMAIN others |-> <<others[i], "secondary">>]

\* Mutant: connections that have been started are taken for announced.
PromoteNew(n) ==
    /\ timer[n] /\ actions[n] = <<>>
    /\ timer' = [timer EXCEPT ![n] = FALSE]
    /\ IF ids[n] = <<>> \/ Head(ids[n]) \in started[n]
         THEN UNCHANGED <<promoted, actions>>
         ELSE /\ actions' = [actions EXCEPT ![n] = Promotion(n)]
              /\ promoted' = [promoted EXCEPT ![n] = Head(ids[n])]
    /\ UNCHANGED <<netVars, ids, started, idxVars, queue>>

\* promoteConnections, when the timer fires and the last call has returned.
PromoteConnections(n) ==
    /\ timer[n] /\ actions[n] = <<>>
    /\ timer' = [timer EXCEPT ![n] = FALSE]
    /\ IF ids[n] = <<>>
         THEN UNCHANGED <<promoted, actions>>
         ELSE /\ actions' = [actions EXCEPT ![n] = Promotion(n)]
              /\ promoted' = [promoted EXCEPT ![n] = Head(ids[n])]
    /\ UNCHANGED <<netVars, ids, started, idxVars, queue>>

\* One of the actions: Start and ClusterConfig, which wait for the writer or
\* for the connection to be closed.
PostLockAction(n) ==
    /\ actions[n] # <<>>
    /\ actions' = [actions EXCEPT ![n] = Tail(@)]
    /\ LET c == Head(actions[n])[1]
           sent == c \in Range(ids[n]) /\ net[c] = "up"
       IN  /\ started' = [started EXCEPT ![n] =
                            IF c \in Range(ids[n]) THEN @ \cup {c} ELSE @]
           /\ sent => Len(queue[Peer(n)][c]) < MaxQueue
           /\ queue' = IF sent
                         THEN [queue EXCEPT ![Peer(n)][c] = Append(@, Head(actions[n])[2])]
                         ELSE queue
    /\ UNCHANGED <<netVars, ids, promoted, timer, idxVars>>

\* sendClusterConfig, after a change of the configuration.
SendClusterConfig(n) ==
    /\ ids[n] # <<>>
    /\ LET c == Head(ids[n])
       IN  /\ c \in started[n] /\ net[c] = "up" /\ Len(queue[Peer(n)][c]) < MaxQueue
           /\ queue' = [queue EXCEPT ![Peer(n)][c] = Append(@, "primary")]
    /\ UNCHANGED <<netVars, ids, promoVars, idxVars>>

\* The index handler sends an index on the connection of its registry.
SendIndex(n) ==
    /\ handler[n] /\ registry[n] \in Range(ids[n])
    /\ LET c == registry[n]
       IN  /\ net[c] = "up" /\ Len(queue[Peer(n)][c]) < MaxQueue
           /\ queue' = [queue EXCEPT ![Peer(n)][c] = Append(@, "index")]
    /\ UNCHANGED <<netVars, ids, promoVars, idxVars>>

\* The dispatcher of connection c at n has a message.
Arrived(n, c, m) ==
    /\ c \in started[n] /\ c \in Range(ids[n])
    /\ queue[n][c] # <<>> /\ Head(queue[n][c]) = m

\* ClusterConfig: the registry moves to this connection (ensureIndexHandler),
\* and has an index handler for the folders named (ccHandleFolders).
ClusterConfig(n, c) ==
    /\ \E m \in {"primary", "secondary"} :
         /\ Arrived(n, c, m)
         /\ handler' = [handler EXCEPT ![n] = m = "primary"]
    /\ registry' = [registry EXCEPT ![n] = c]
    /\ queue' = [queue EXCEPT ![n][c] = Tail(@)]
    /\ UNCHANGED <<netVars, ids, promoVars>>

\* handleIndex finds the registry and the registry the index handler ...
Index(n, c) ==
    /\ Arrived(n, c, "index")
    /\ registry[n] = c /\ handler[n]
    /\ queue' = [queue EXCEPT ![n][c] = Tail(@)]
    /\ UNCHANGED <<netVars, ids, promoVars, idxVars>>

\* ... or returns an error, and the dispatcher closes the connection.
IndexRefused(n, c) ==
    /\ Arrived(n, c, "index")
    /\ registry[n] # c \/ ~handler[n]
    /\ net' = [net EXCEPT ![c] = "down"]
    /\ queue' = [queue EXCEPT ![n][c] = <<>>]
    /\ UNCHANGED <<seen, ids, promoVars, idxVars>>

\* Closed.
Closed(n, c) ==
    /\ c \in Range(ids[n]) /\ net[c] = "down"
    /\ ids' = [ids EXCEPT ![n] = SelectSeq(@, LAMBDA x : x # c)]
    /\ IF promoted[n] = c /\ registry[n] = c
         THEN /\ registry' = [registry EXCEPT ![n] = None]
              /\ handler' = [handler EXCEPT ![n] = FALSE]
         ELSE UNCHANGED idxVars
    /\ timer' = [timer EXCEPT ![n] = @ \/ promoted[n] = c]
    /\ promoted' = [promoted EXCEPT ![n] = IF ids'[n] = <<>> THEN None ELSE @]
    /\ queue' = [queue EXCEPT ![n][c] = <<>>]
    /\ UNCHANGED <<netVars, started, actions>>

-----------------------------------------------------------------------------

\* Nothing is left to do: every connection has come and gone.
Finished ==
    /\ \A c \in Conns : net[c] = "down"
    /\ \A n \in Nodes : seen[n] = Conns /\ ids[n] = <<>> /\ ~timer[n]
    /\ UNCHANGED promotionVars

PromotionNext ==
    \/ \E c \in Conns : Dial(c) \/ Lose(c)
    \/ \E n \in Nodes :
         \/ PromoteConnections(n) \/ PostLockAction(n)
         \/ SendClusterConfig(n) \/ SendIndex(n)
    \/ \E n \in Nodes, c \in Conns :
         \/ AddConnection(n, c) \/ ClusterConfig(n, c)
         \/ Index(n, c) \/ IndexRefused(n, c) \/ Closed(n, c)
    \/ Finished

PromotionSpec == PromotionInit /\ [][PromotionNext]_promotionVars

\* The model's service loop and the connections' goroutines run on, and the
\* select of writerLoop does not pass over a waiting cluster config for ever.
\* Nothing has to be dialled, lost or sent.
PromotionFairness ==
    \A n \in Nodes :
        /\ WF_promotionVars(PromoteConnections(n))
        /\ SF_promotionVars(PostLockAction(n))
        /\ \A c \in Conns :
              /\ WF_promotionVars(AddConnection(n, c))
              /\ WF_promotionVars(ClusterConfig(n, c))
              /\ WF_promotionVars(Index(n, c) \/ IndexRefused(n, c))
              /\ WF_promotionVars(Closed(n, c))

FairPromotionSpec == PromotionSpec /\ PromotionFairness

-----------------------------------------------------------------------------

\* Types; an index handler lives in a registry, and deviceConnIDs has no
\* connection twice and none that was not added.
PromotionTypeOK ==
    /\ net \in [Conns -> {"none", "up", "down"}]
    /\ seen \in [Nodes -> SUBSET Conns] /\ started \in [Nodes -> SUBSET Conns]
    /\ promoted \in [Nodes -> Conns \cup {None}]
    /\ registry \in [Nodes -> Conns \cup {None}]
    /\ timer \in [Nodes -> BOOLEAN] /\ handler \in [Nodes -> BOOLEAN]
    /\ \A n \in Nodes :
         /\ handler[n] => registry[n] # None
         /\ Range(ids[n]) \subseteq seen[n] /\ IsInjective(ids[n])
         /\ Range(actions[n]) \subseteq Conns \X {"primary", "secondary"}
         /\ \A c \in Conns : Range(queue[n][c]) \subseteq {"primary", "secondary", "index"}

\* The first connection is the promoted one and every connection has been
\* started.
Settled(n) ==
    /\ actions[n] = <<>>
    /\ ids[n] # <<>> => promoted[n] = Head(ids[n]) /\ Range(ids[n]) \subseteq started[n]

\* However additions, losses and promotions interleave, somebody sees to it that
\* connections settle.
PromotionEnds == \A n \in Nodes : <>[]Settled(n)

\* An index that arrives finds its index handler.
IndexHasHandler ==
    \A n \in Nodes, c \in Conns :
        Arrived(n, c, "index") => registry[n] = c /\ handler[n]
=============================================================================
