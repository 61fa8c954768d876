----------------------------- MODULE Semaphore -----------------------------
(***************************************************************************)
(* The byte and slot limiter of lib/semaphore/semaphore.go: a counter with *)
(* a capacity that can be changed at run time, guarded by one mutex and    *)
(* one condition variable.  TakeWithContext runs takeInner in a goroutine  *)
(* of its own and, when the context ends first, broadcasts on the          *)
(* condition variable WITHOUT holding the mutex.  The model therefore      *)
(* keeps the points where a goroutine can be preempted apart: before the   *)
(* mutex, between the decision to wait and joining the wait list (mutex    *)
(* held), on the wait list, and woken but not yet holding the mutex.       *)
(***************************************************************************)
EXTENDS Integers, FiniteSets, FiniteSetsExt

CONSTANTS Clients,      \* goroutines calling Take / TakeWithContext and Give
          Sizes,        \* the sizes they ask for
          InitMax,      \* the argument of New
          Capacities,   \* the arguments SetCapacity is called with
          NoOne         \* the mutex is free

ASSUME SizesAssumption == Sizes \subseteq Nat
ASSUME CapacitiesAssumption == Capacities \subseteq Int /\ InitMax \in Int
ASSUME NoOneAssumption == NoOne \notin Clients
ASSUME ClientsAssumption == IsFiniteSet(Clients)

VARIABLES max,        \* Semaphore.max
          available,  \* Semaphore.available
          mut,        \* who holds Semaphore.mut
          pc,         \* where each goroutine is
          want,       \* the size the caller asked for (and will give back)
          size,       \* takeInner's size, clamped to the capacity it saw
          cancelled,  \* the contexts that have ended
          cast        \* the calls whose outer select took the ctx.Done branch

vars == <<max, available, mut, pc, want, size, cancelled, cast>>
callVars == <<want, size, cancelled, cast>>

\* "idle" no call; "check" before the first ctx check; "lock" before mut.Lock;
\* "parking" inside cond.Wait, not yet on the wait list, mutex held;
\* "parked" on the wait list; "woken" removed from it, before relocking;
\* "failed" takeInner returned ctx.Err; "took" takeInner returned nil;
\* "holding" the call returned nil and the caller uses the resource.
PCs == {"idle", "check", "lock", "parking", "parked", "woken", "failed",
        "took", "holding"}
InCall == PCs \ {"idle", "holding"}

ClampMin(a, b) == IF a < b THEN a ELSE b
NonNeg(a) == IF a < 0 THEN 0 ELSE a

\* cond.Broadcast: everybody on the wait list is taken off it.
Broadcast(p) == [d \in Clients |-> IF p[d] = "parked" THEN "woken" ELSE p[d]]

\* New
Init ==
    /\ max = NonNeg(InitMax)
    /\ available = NonNeg(InitMax)
    /\ mut = NoOne
    /\ pc = [c \in Clients |-> "idle"]
    /\ want = [c \in Clients |-> 0]
    /\ size = [c \in Clients |-> 0]
    /\ cancelled = {}
    /\ cast = {}

\* A caller enters TakeWithContext (or Take: a context that never ends).
Call(c, n) ==
    /\ pc[c] = "idle"
    /\ pc' = [pc EXCEPT ![c] = "check"]
    /\ want' = [want EXCEPT ![c] = n]
    /\ size' = [size EXCEPT ![c] = n]
    /\ UNCHANGED <<max, available, mut, cancelled, cast>>

\* The caller's context ends while the call is under way.
Cancel(c) ==
    /\ pc[c] \in InCall
    /\ c \notin cancelled
    /\ cancelled' = cancelled \union {c}
    /\ UNCHANGED <<max, available, mut, pc, want, size, cast>>

\* takeInner's first select.
CheckCtx(c) ==
    /\ pc[c] = "check"
    /\ pc' = [pc EXCEPT ![c] = IF c \in cancelled THEN "failed" ELSE "lock"]
    /\ UNCHANGED <<max, available, mut, want, size, cancelled, cast>>

\* The loop test of takeInner, with the mutex held: clamp, then wait or take.
TryTake(c) ==
    LET n == ClampMin(size[c], max) IN
    /\ size' = [size EXCEPT ![c] = n]
    /\ \/ /\ n > available
          /\ pc' = [pc EXCEPT ![c] = "parking"]
          /\ mut' = c
          /\ UNCHANGED available
       \/ /\ n <= available
          /\ pc' = [pc EXCEPT ![c] = "took"]
          /\ available' = available - n
          /\ UNCHANGED mut
    /\ UNCHANGED <<max, want, cancelled, cast>>

\* mut.Lock and the first evaluation of the loop condition.
Lock(c) == pc[c] = "lock" /\ mut = NoOne /\ TryTake(c)

\* cond.Wait joins the wait list and unlocks the mutex.
Park(c) ==
    /\ pc[c] = "parking"
    /\ pc' = [pc EXCEPT ![c] = "parked"]
    /\ mut' = NoOne
    /\ UNCHANGED <<max, available, callVars>>

\* cond.Wait returns with the mutex; the context is looked at again first.
Relock(c) ==
    /\ pc[c] = "woken"
    /\ mut = NoOne
    /\ \/ /\ c \in cancelled
          /\ pc' = [pc EXCEPT ![c] = "failed"]
          /\ UNCHANGED <<max, available, mut, callVars>>
       \/ /\ c \notin cancelled
          /\ TryTake(c)

\* TakeWithContext's ctx.Done branch: a broadcast that needs no mutex.
OuterBroadcast(c) ==
    /\ pc[c] \in InCall
    /\ c \in cancelled \ cast
    /\ cast' = cast \union {c}
    /\ pc' = Broadcast(pc)
    /\ UNCHANGED <<max, available, mut, want, size, cancelled>>

\* The call is over: its arguments and locals are gone.
Forget(c) ==
    /\ want' = [want EXCEPT ![c] = 0]
    /\ size' = [size EXCEPT ![c] = 0]
    /\ cancelled' = cancelled \ {c}
    /\ cast' = cast \ {c}

\* Mutant of Return: a late cancellation hides that the units were taken.
ReturnCtxErr(c) ==
    \/ /\ pc[c] = "failed" \/ (pc[c] = "took" /\ c \in cancelled)
       /\ pc' = [pc EXCEPT ![c] = "idle"]
       /\ Forget(c)
       /\ UNCHANGED <<max, available, mut>>
    \/ /\ pc[c] = "took" /\ c \notin cancelled
       /\ pc' = [pc EXCEPT ![c] = "holding"]
       /\ UNCHANGED <<max, available, mut, callVars>>

\* <-done: the call returns what takeInner returned.
Return(c) ==
    \/ /\ pc[c] = "failed"
       /\ pc' = [pc EXCEPT ![c] = "idle"]
       /\ Forget(c)
       /\ UNCHANGED <<max, available, mut>>
    \/ /\ pc[c] = "took"
       /\ pc' = [pc EXCEPT ![c] = "holding"]
       /\ cancelled' = cancelled \ {c}
       /\ cast' = cast \ {c}
       /\ UNCHANGED <<max, available, mut, want, size>>

\* Mutant of Give: nobody is woken.
GiveSilently(c) ==
    /\ pc[c] = "holding"
    /\ mut = NoOne
    /\ available' = ClampMin(available + ClampMin(want[c], max), max)
    /\ pc' = [pc EXCEPT ![c] = "idle"]
    /\ Forget(c)
    /\ UNCHANGED <<max, mut>>

\* The caller gives back the size it asked for, not the clamped one.
Give(c) ==
    /\ pc[c] = "holding"
    /\ mut = NoOne
    /\ available' = ClampMin(available + ClampMin(want[c], max), max)
    /\ pc' = [Broadcast(pc) EXCEPT ![c] = "idle"]
    /\ Forget(c)
    /\ UNCHANGED <<max, mut>>

\* SetCapacity moves available by the difference, within its bounds.
SetCapacity(capacity) ==
    LET n == NonNeg(capacity) IN
    /\ mut = NoOne
    /\ max' = n
    /\ available' = ClampMin(NonNeg(available + (n - max)), n)
    /\ pc' = Broadcast(pc)
    /\ UNCHANGED <<mut, callVars>>

Next ==
    \/ \E c \in Clients :
          \/ \E n \in Sizes : Call(c, n)
          \/ Cancel(c) \/ CheckCtx(c) \/ Lock(c) \/ Park(c) \/ Relock(c)
          \/ OuterBroadcast(c) \/ Return(c) \/ Give(c)
    \/ \E n \in Capacities : SetCapacity(n)

(***************************************************************************)
(* Goroutines that can run do run; a goroutine waiting for the mutex gets  *)
(* it even if the mutex is taken and released in between (sync.Mutex hands *)
(* itself over to a waiter that is starved); a caller that holds the       *)
(* resource gives it back (every call site pairs the take with a Give).    *)
(* Nobody has to call, to cancel or to change the capacity.                *)
(***************************************************************************)
Fairness ==
    \A c \in Clients :
        /\ WF_vars(CheckCtx(c)) /\ WF_vars(Park(c))
        /\ WF_vars(OuterBroadcast(c)) /\ WF_vars(Return(c))
        /\ SF_vars(Lock(c)) /\ SF_vars(Relock(c)) /\ SF_vars(Give(c))

Spec == Init /\ [][Next]_vars
FairSpec == Spec /\ Fairness

-----------------------------------------------------------------------------

\* The counter stays between zero and the capacity whatever Take, Give and
\* SetCapacity do, and exactly the goroutine that is about to wait owns the
\* mutex between two steps.
TypeOK ==
    /\ max \in Nat
    /\ available \in 0..max
    /\ pc \in [Clients -> PCs]
    /\ want \in [Clients -> Nat]
    /\ size \in [Clients -> Nat]
    /\ cancelled \subseteq Clients
    /\ cast \subseteq Clients
    /\ mut \in Clients \union {NoOne}
    /\ \A c \in Clients : mut = c <=> pc[c] = "parking"

\* No wakeup is lost inside the semaphore: a goroutine sleeps on the condition
\* variable only while the part of its request that fits the present capacity
\* exceeds what is available, so no Give or SetCapacity that made room (or
\* shrank the request) left it asleep (takeInner, Give, SetCapacity).
ParkedOnlyWhenShort ==
    \A c \in Clients :
        pc[c] = "parked" => ClampMin(want[c], max) > available

\* What takeInner really took for a client, from the take to the Give.
Taken(c) == IF pc[c] \in {"took", "holding"} THEN size[c] ELSE 0

\* No unit is ever lost: what is available and what was taken by the calls that
\* have not given back yet covers the capacity, through clamped requests,
\* cancelled calls and capacity changes while requests are out. In particular
\* an idle semaphore is full (takeInner, Give, SetCapacity).
NoUnitsLost ==
    available + MapThenSumSet(Taken, Clients) >= max

\* TakeWithContext returns once its context has ended, although its broadcast
\* can come before takeInner has joined the wait list: the holders it waits for
\* give back, and their broadcast wakes it.
CancelledReturns ==
    \A c \in Clients :
        (pc[c] \in InCall /\ c \in cancelled) ~> pc[c] \notin InCall
=============================================================================
