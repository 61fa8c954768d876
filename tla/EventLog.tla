------------------------------ MODULE EventLog ------------------------------
(***************************************************************************)
(* lib/events: the logger that numbers events per subscription and drops   *)
(* what a subscriber does not take in time, and the buffered subscription  *)
(* behind the REST API's event polling, a ring of the last events.         *)
(*                                                                         *)
(* An event is its type; what is followed is its SubscriptionID.  Every    *)
(* subscription has a buffer and a client that polls it with the ID of the *)
(* last event it has got.                                                  *)
(***************************************************************************)
EXTENDS Integers, Sequences

CONSTANTS Subscribers,   \* subscriptions
          EventTypes,    \* types of events
          ChanSize,      \* BufferSize
          RingSize,      \* of a bufferedSubscription
          MaxEvents      \* bound: events logged

ASSUME EventAssumption == ChanSize \in Nat /\ RingSize \in Nat \ {0}

VARIABLES logged,        \* events logged so far
          logQueue,      \* l.events
          sending,       \* sendEvent: the event and the positions still to do
          lsubs,         \* l.subs: [sub, mask]
          nextIDs,       \* l.nextSubscriptionIDs
          channel,       \* s.events
          ring, ringNext, ringCur,   \* buf, next and cur
          lastID,        \* what the client has seen
          got, missed    \* IDs it was given; IDs dropped or overwritten

evVars == <<logged, logQueue, sending, lsubs, nextIDs, channel, ring, ringNext,
            ringCur, lastID, got, missed>>
bufVars == <<ring, ringNext, ringCur, lastID, got>>

LogIdle == [busy |-> FALSE]
IsSubscribed(s) == \E i \in DOMAIN lsubs : lsubs[i].sub = s

\* Log: blocks while the logger's queue is full.
Log(t) ==
    /\ logged < MaxEvents /\ Len(logQueue) < ChanSize
    /\ logQueue' = Append(logQueue, t)
    /\ logged' = logged + 1
    /\ UNCHANGED <<sending, lsubs, nextIDs, channel, bufVars, missed>>

\* Serve takes an event and starts sendEvent.
TakeEvent ==
    /\ sending = LogIdle /\ logQueue # <<>>
    /\ sending' = [busy |-> TRUE, type |-> Head(logQueue), at |-> 1]
    /\ logQueue' = Tail(logQueue)
    /\ UNCHANGED <<logged, lsubs, nextIDs, channel, bufVars, missed>>

\* Mutant: an event gets its ID after the next one has been counted up.
SendToCounted ==
    /\ sending # LogIdle /\ sending.at <= Len(lsubs)
    /\ LET e == lsubs[sending.at]
           id == nextIDs[sending.at] + 1
       IN \/ /\ sending.type \notin e.mask
             /\ UNCHANGED <<nextIDs, channel, missed>>
          \/ /\ sending.type \in e.mask
             /\ nextIDs' = [nextIDs EXCEPT ![sending.at] = @ + 1]
             /\ \/ /\ Len(channel[e.sub]) < ChanSize
                   /\ channel' = [channel EXCEPT ![e.sub] = Append(@, id)]
                   /\ UNCHANGED missed
                \/ /\ missed' = [missed EXCEPT ![e.sub] = @ \union {id}]
                   /\ UNCHANGED channel
    /\ sending' = [sending EXCEPT !.at = @ + 1]
    /\ UNCHANGED <<logged, logQueue, lsubs, bufVars>>

\* One turn of sendEvent's loop: the ID is used up, whether the subscriber
\* takes the event or the timeout drops it, as the select may even if there is
\* room by now.
SendTo ==
    /\ sending # LogIdle /\ sending.at <= Len(lsubs)
    /\ LET e == lsubs[sending.at]
           id == nextIDs[sending.at]
       IN \/ /\ sending.type \notin e.mask
             /\ UNCHANGED <<nextIDs, channel, missed>>
          \/ /\ sending.type \in e.mask
             /\ nextIDs' = [nextIDs EXCEPT ![sending.at] = @ + 1]
             /\ \/ /\ Len(channel[e.sub]) < ChanSize
                   /\ channel' = [channel EXCEPT ![e.sub] = Append(@, id)]
                   /\ UNCHANGED missed
                \/ /\ missed' = [missed EXCEPT ![e.sub] = @ \union {id}]
                   /\ UNCHANGED channel
    /\ sending' = [sending EXCEPT !.at = @ + 1]
    /\ UNCHANGED <<logged, logQueue, lsubs, bufVars>>

LogDone ==
    /\ sending # LogIdle /\ sending.at > Len(lsubs)
    /\ sending' = LogIdle
    /\ UNCHANGED <<logged, logQueue, lsubs, nextIDs, channel, bufVars, missed>>

\* Subscribe, handled by Serve between two events.
Subscribed(s, mask) ==
    /\ sending = LogIdle /\ ~IsSubscribed(s) /\ ringCur[s] = 0
    /\ channel[s] = <<>>
    /\ lsubs' = Append(lsubs, [sub |-> s, mask |-> mask])
    /\ nextIDs' = Append(nextIDs, 1)
    /\ UNCHANGED <<logged, logQueue, sending, channel, bufVars, missed>>

\* The last element takes the place of the one at i.
SwapRemove(q, i) ==
    [j \in 1..(Len(q) - 1) |-> IF j = i THEN q[Len(q)] ELSE q[j]]

\* unsubscribe.
Leave(i) ==
    /\ sending = LogIdle
    /\ lsubs' = SwapRemove(lsubs, i)
    /\ nextIDs' = SwapRemove(nextIDs, i)
    /\ UNCHANGED <<logged, logQueue, sending, channel, bufVars, missed>>

\* pollingLoop moves an event into the ring, over the oldest one.
Buffer(s) ==
    /\ channel[s] # <<>>
    /\ missed' = [missed EXCEPT ![s] =
                     @ \union ({ring[s][ringNext[s]]} \ (got[s] \union {0}))]
    /\ ring' = [ring EXCEPT ![s][ringNext[s]] = Head(channel[s])]
    /\ ringNext' = [ringNext EXCEPT ![s] = (@ + 1) % RingSize]
    /\ ringCur' = [ringCur EXCEPT ![s] = Head(channel[s])]
    /\ channel' = [channel EXCEPT ![s] = Tail(@)]
    /\ UNCHANGED <<logged, logQueue, sending, lsubs, nextIDs, lastID, got>>

\* Since, once there is something newer than id: where the entries are that are
\* newer.
Since(s, id) == {i \in 0..(RingSize - 1) : ring[s][i] > id}

\* Since gives the entries from next on, and then the ones before it.
InOrder(s, i, j) ==
    IF (i < ringNext[s]) = (j < ringNext[s]) THEN i <= j ELSE j < ringNext[s]

\* A client asks for what came after the last event it has got.
Poll(s) ==
    LET events == Since(s, lastID[s])
        last == CHOOSE i \in events : \A j \in events : InOrder(s, j, i) IN
    /\ lastID[s] < ringCur[s]
    /\ lastID' = [lastID EXCEPT ![s] = ring[s][last]]
    /\ got' = [got EXCEPT ![s] = @ \union {ring[s][i] : i \in events}]
    /\ UNCHANGED <<logged, logQueue, sending, lsubs, nextIDs, channel, ring,
                   ringNext, ringCur, missed>>

EvInit ==
    /\ logged = 0 /\ logQueue = <<>> /\ sending = LogIdle
    /\ lsubs = <<>> /\ nextIDs = <<>>
    /\ channel = [s \in Subscribers |-> <<>>]
    /\ ring = [s \in Subscribers |-> [i \in 0..(RingSize - 1) |-> 0]]
    /\ ringNext = [s \in Subscribers |-> 0]
    /\ ringCur = [s \in Subscribers |-> 0]
    /\ lastID = [s \in Subscribers |-> 0]
    /\ got = [s \in Subscribers |-> {}]
    /\ missed = [s \in Subscribers |-> {}]

EvNext ==
    \/ \E t \in EventTypes : Log(t)
    \/ TakeEvent \/ SendTo \/ LogDone
    \/ \E s \in Subscribers :
          \/ \E m \in (SUBSET EventTypes) \ {{}} : Subscribed(s, m)
          \/ Buffer(s) \/ Poll(s)
    \/ \E i \in DOMAIN lsubs : Leave(i)

EvSpec == EvInit /\ [][EvNext]_evVars

-----------------------------------------------------------------------------

\* A client that polls with the last ID it has got misses nothing it could
\* have got: every ID up to that one was given to it, or dropped by the logger
\* or overwritten in the ring before it asked. The other subscriptions, their
\* masks and their leaving make no difference.
PollingComplete ==
    \A s \in Subscribers : 1..lastID[s] \subseteq got[s] \union missed[s]
=============================================================================
