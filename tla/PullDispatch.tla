---------------------------- MODULE PullDispatch ----------------------------
(***************************************************************************)
(* Pulls and the receiving of index messages share one semaphore: pull     *)
(* (lib/model/folder.go) holds a slot of the folder I/O limiter while it   *)
(* waits for blocks, and Index and IndexUpdate (lib/model/model.go), which *)
(* the connection's only dispatcher calls, take one of the same limiter    *)
(* (dbOperationLimiter).  This module puts the folders' pulls, the limiter *)
(* and the dispatcher of one connection together with the timeout that     *)
(* watches over the connection.                                            *)
(***************************************************************************)
EXTENDS Integers, Sequences, FiniteSets

CONSTANTS Folders,      \* folders shared with the other device
          Concurrency,  \* MaxFolderConcurrency
          MaxWire       \* bound: messages on the connection

VARIABLES
    pulling,     \* folders whose pull holds a slot
    asked,       \* folders with a block request at the other device
    onWire,      \* messages from the other device: "index" or a folder, for
                 \* the response to its request
    dispatcher,  \* "idle", "taking" the slot for an index message, "handling" it
    open         \* the connection is open

dispatchVars == <<pulling, asked, onWire, dispatcher, open>>

Free == Cardinality(pulling) + (IF dispatcher = "handling" THEN 1 ELSE 0)
        < Concurrency

\* pull: ioLimiter.TakeWithContext.
PullTakes(f) ==
    /\ f \notin pulling /\ Free
    /\ pulling' = pulling \union {f}
    /\ UNCHANGED <<asked, onWire, dispatcher, open>>

\* RequestGlobal, which waits for the response.
PullRequests(f) ==
    /\ f \in pulling \ asked /\ open
    /\ asked' = asked \union {f}
    /\ UNCHANGED <<pulling, onWire, dispatcher, open>>

\* The pull is done and gives the slot back.
PullGives(f) ==
    /\ f \in pulling \ asked
    /\ pulling' = pulling \ {f}
    /\ UNCHANGED <<asked, onWire, dispatcher, open>>

\* The other device answers, or has a change to announce.
RemoteSends(m) ==
    /\ open /\ Len(onWire) < MaxWire
    /\ m # "index" => \A i \in DOMAIN onWire : onWire[i] # m
    /\ onWire' = Append(onWire, m)
    /\ UNCHANGED <<pulling, asked, dispatcher, open>>

\* The dispatcher takes the next message from the reader. A response is handed
\* to the waiting request; an index message needs a slot.
Dispatch ==
    /\ open /\ dispatcher = "idle" /\ onWire # <<>>
    /\ onWire' = Tail(onWire)
    /\ IF Head(onWire) = "index"
       THEN dispatcher' = "taking" /\ UNCHANGED asked
       ELSE asked' = asked \ {Head(onWire)} /\ UNCHANGED dispatcher
    /\ UNCHANGED <<pulling, open>>

\* dbLimiter.Take(1), handleIndex, and Give.
IndexTakes ==
    /\ dispatcher = "taking" /\ Free
    /\ dispatcher' = "handling"
    /\ UNCHANGED <<pulling, asked, onWire, open>>

IndexHandled ==
    /\ dispatcher = "handling"
    /\ dispatcher' = "idle"
    /\ UNCHANGED <<pulling, asked, onWire, open>>

\* Mutant: the requests that wait are not told.
TimeoutQuietly ==
    /\ open /\ dispatcher = "taking" /\ onWire # <<>>
    /\ open' = FALSE
    /\ onWire' = <<>>
    /\ UNCHANGED <<pulling, asked, dispatcher>>

\* pingReceiver: nothing could be read for ReceiveTimeout, because the reader
\* waits for the dispatcher. Closing the connection fails the requests.
Timeout ==
    /\ open /\ dispatcher = "taking" /\ onWire # <<>>
    /\ open' = FALSE
    /\ onWire' = <<>>
    /\ asked' = {}
    /\ UNCHANGED <<pulling, dispatcher>>

Reconnect ==
    /\ ~open /\ dispatcher = "idle"
    /\ open' = TRUE
    /\ UNCHANGED <<pulling, asked, onWire, dispatcher>>

DispatchInit ==
    /\ pulling = {} /\ asked = {} /\ onWire = <<>>
    /\ dispatcher = "idle" /\ open = TRUE

DispatchNext ==
    \/ \E f \in Folders : PullTakes(f) \/ PullRequests(f) \/ PullGives(f)
    \/ \E m \in asked \union {"index"} : RemoteSends(m)
    \/ Dispatch \/ IndexTakes \/ IndexHandled \/ Timeout \/ Reconnect

DispatchSpec == DispatchInit /\ [][DispatchNext]_dispatchVars

(***************************************************************************)
(* A pull comes to its end once its requests are answered, the other       *)
(* device answers, the dispatcher and the timeout run, and the semaphore   *)
(* does not pass over the same waiter for ever.                            *)
(***************************************************************************)
DispatchFairness ==
    /\ \A f \in Folders : /\ SF_dispatchVars(PullGives(f))
                          /\ WF_dispatchVars(f \in asked /\ RemoteSends(f))
    /\ WF_dispatchVars(Dispatch) /\ WF_dispatchVars(IndexHandled)
    /\ SF_dispatchVars(IndexTakes) /\ WF_dispatchVars(Timeout)

FairDispatchSpec == DispatchSpec /\ DispatchFairness

\* An index message that is being received is received in the end. With every
\* slot held by a pull whose response is behind that message, the dispatcher
\* waits for the pulls and the pulls for the dispatcher; it is only the receive
\* timeout, which closes the connection and fails the requests, that gets
\* them going again.
IndexReceived == dispatcher = "taking" ~> dispatcher # "taking"
=============================================================================
