-------------------------- MODULE WatchAggregator --------------------------
(***************************************************************************)
(* lib/watchaggregator: file system events of one folder are collected     *)
(* until they are old enough, too many of them in one place are replaced   *)
(* by an event for the directory above, and batches of paths go to the     *)
(* folder, which scans them.                                               *)
(*                                                                         *)
(* A path is the sequence of its segments, <<>> the folder's root.  The    *)
(* eventDirs are implied by the events below them: none is ever empty.     *)
(* Time is a small clock.  The aggregator's goroutine and at most one      *)
(* goroutine in notify take turns.  One path, any, is followed: since is   *)
(* when its first change was reported that no scan request covers yet.     *)
(***************************************************************************)
EXTENDS Integers, Sequences, FiniteSets, FiniteSetsExt

CONSTANTS AggPaths,        \* paths events are reported for
          Pulled,          \* the ones the puller works on too
          AggSettings,     \* pairs <<notifyDelay, notifyTimeout>>
          MaxFiles,        \* maxFiles
          MaxFilesPerDir,  \* maxFilesPerDir
          MaxNow           \* bound: the clock

ASSUME AggAssumption == AggPaths \subseteq Seq(STRING) /\ MaxNow \in Nat

VARIABLES aggNow,      \* the clock
          aggSetting,  \* <<notifyDelay, notifyTimeout>>
          tracked,     \* root: path -> [first, last, kind]
          eventCounts,      \* [removes, nonRemoves]
          notifyTimer, \* "armed", "idle" (notifyTimerNeedsReset) or "off"
          notifying,   \* the events notify has still to send, by path
          inProgress,  \* items the puller is at work on
          probe,       \* the path that is followed
          since        \* time of its oldest unscanned report, or Never

aggVars == <<aggNow, aggSetting, tracked, eventCounts, notifyTimer, notifying,
             inProgress, probe, since>>

\* fs.EventType is a set of bits; Merge is their union.
EventKinds == {{"nonRemove"}, {"remove"}, {"nonRemove", "remove"}}
Root == <<>>
Never == -1
NoEvents == [p \in {} |-> 0]
Tracked(p) == p \in DOMAIN tracked

Prefix(p, i) == SubSeq(p, 1, i)
Within(p, q) == Len(q) <= Len(p) /\ Prefix(p, Len(q)) = q
Below(q) == {p \in DOMAIN tracked : Within(p, q)}
IsEventDir(q) == Below(q) \ {q} # {}
ChildCount(q) == Cardinality({p[Len(q) + 1] : p \in Below(q) \ {q}})
Full(q) == ChildCount(q) = IF q = Root THEN MaxFiles ELSE MaxFilesPerDir

\* eventCounter.add: what is not a pure change eventCounts as a removal.
Add(c, kind, n) ==
    IF "remove" \in kind THEN [c EXCEPT !.removes = @ + n]
    ELSE [c EXCEPT !.nonRemoves = @ + n]
Total(c) == c.removes + c.nonRemoves

\* Where aggregateEvent ends up with an event for p: the topmost ancestor
\* that is tracked or that is full and so takes its children's place.
Target(p) ==
    LET stops == {i \in 1..(Len(p) - 1) :
                     Tracked(Prefix(p, i)) \/ Full(Prefix(p, i - 1))}
    IN IF p = Root \/ Total(eventCounts) = MaxFiles THEN Root
       ELSE IF stops # {}
            THEN LET i == Min(stops)
                 IN Prefix(p, IF Tracked(Prefix(p, i)) THEN i ELSE i - 1)
       ELSE IF Tracked(p) \/ IsEventDir(p) \/ ~Full(Prefix(p, Len(p) - 1))
            THEN p
       ELSE Prefix(p, Len(p) - 1)

\* Mutant: an event that takes over older ones starts its own timeout.
TakeOverFresh(q, kind) ==
    [p \in (DOMAIN tracked \ Below(q)) \union {q} |->
        IF p # q THEN tracked[p]
        ELSE [first |-> aggNow, last |-> aggNow,
              kind |-> UNION ({tracked[e].kind : e \in Below(q)}
                              \union {kind})]]

\* An event takes over the tracked events below it, their types and the time
\* of the oldest of them.
TakeOver(q, kind) ==
    [p \in (DOMAIN tracked \ Below(q)) \union {q} |->
        IF p # q THEN tracked[p]
        ELSE [first |-> Min({tracked[e].first : e \in Below(q)}
                            \union {aggNow}),
              last |-> aggNow,
              kind |-> UNION ({tracked[e].kind : e \in Below(q)}
                              \union {kind})]]

\* How the counter is kept. An event that replaces an eventDir is counted
\* and the events below it stay counted.
Counted(q, kind) ==
    LET merged == TakeOver(q, kind)[q].kind
    IN IF q = Root THEN Add([removes |-> 0, nonRemoves |-> 0], merged, 1)
       ELSE IF Tracked(q)
            THEN Add(Add(eventCounts, tracked[q].kind, -1), merged, 1)
       ELSE Add(IF merged # kind THEN Add(eventCounts, kind, -1) ELSE eventCounts,
                merged, 1)

\* newEvent and aggregateEvent for a change the watcher reports.
NewEvent(p, kind) ==
    LET q == Target(p) IN
    /\ \/ /\ Tracked(Root) \/ p \in inProgress
          /\ UNCHANGED <<tracked, eventCounts, notifyTimer>>
       \/ /\ ~Tracked(Root) /\ p \notin inProgress
          /\ tracked' = TakeOver(q, kind)
          /\ eventCounts' = Counted(q, kind)
          /\ notifyTimer' = IF notifyTimer = "idle" /\ ~Tracked(q)
                            THEN "armed" ELSE notifyTimer
    /\ since' = IF p = probe /\ since = Never /\ p \notin inProgress
                THEN aggNow ELSE since
    /\ UNCHANGED <<aggNow, aggSetting, notifying, inProgress, probe>>

\* isOld.
IsOld(e, delayRem) ==
    \/ /\ ~delayRem \/ e.kind = {"nonRemove"}
       /\ 2 * (aggNow - e.last) > aggSetting[1]
    \/ aggNow - e.first > aggSetting[2]

\* popOldEventsTo takes the old events out of the tree and the counter.
Uncounted(c, P) ==
    LET removals == {p \in P : "remove" \in tracked[p].kind}
    IN [removes |-> c.removes - Cardinality(removals),
        nonRemoves |-> c.nonRemoves - Cardinality(P \ removals)]

OldEvents(delayRem) == {p \in DOMAIN tracked : IsOld(tracked[p], delayRem)}

\* What actOnTimer pops: removals wait, unless only removals are left.
Popped ==
    LET old == OldEvents(TRUE)
        left == Uncounted(eventCounts, old)
    IN IF aggSetting[1] # aggSetting[2] /\ left.nonRemoves = 0
          /\ left.removes # 0
       THEN old \union OldEvents(FALSE) ELSE old

\* actOnTimer.
ActOnTimer ==
    /\ notifyTimer = "armed"
    /\ \/ /\ Total(eventCounts) = 0
          /\ notifyTimer' = "idle"
          /\ UNCHANGED <<tracked, eventCounts, notifying>>
       \/ /\ Total(eventCounts) # 0 /\ Popped = {}
          /\ UNCHANGED <<tracked, eventCounts, notifying, notifyTimer>>
       \/ /\ Total(eventCounts) # 0 /\ Popped # {}
          /\ tracked' = [p \in DOMAIN tracked \ Popped |-> tracked[p]]
          /\ eventCounts' = Uncounted(eventCounts, Popped)
          /\ notifying' = [p \in Popped |-> tracked[p]]
          /\ notifyTimer' = "off"
    /\ UNCHANGED <<aggNow, aggSetting, inProgress, probe, since>>

\* The kind whose turn it is in notify.
Turn ==
    CHOOSE k \in {notifying[p].kind : p \in DOMAIN notifying} :
        \A j \in {notifying[p].kind : p \in DOMAIN notifying} :
            "nonRemove" \notin k => "nonRemove" \notin j
        /\ (k = {"nonRemove", "remove"} => j # {"nonRemove"})

\* notify hands one batch to the folder, which will scan what is below.
Send ==
    LET batch == {p \in DOMAIN notifying : notifying[p].kind = Turn}
    IN /\ notifying # NoEvents
       /\ notifying' = [p \in DOMAIN notifying \ batch |-> notifying[p]]
       /\ since' = IF \E p \in batch : Within(probe, p) THEN Never ELSE since
       /\ UNCHANGED <<aggNow, aggSetting, tracked, eventCounts, notifyTimer,
                      inProgress, probe>>

\* notify is done and has the main loop reset the timer.
ResetNotifyTimer ==
    /\ notifyTimer = "off" /\ notifying = NoEvents
    /\ notifyTimer' = "armed"
    /\ UNCHANGED <<aggNow, aggSetting, tracked, eventCounts, notifying, inProgress,
                   probe, since>>

\* updateInProgressSet.
UpdateInProgressSet(p) ==
    /\ inProgress' = (inProgress \ {p}) \union ({p} \ inProgress)
    /\ UNCHANGED <<aggNow, aggSetting, tracked, eventCounts, notifyTimer,
                   notifying, probe, since>>

\* updateConfig.
UpdateConfig(s) ==
    /\ s # aggSetting
    /\ aggSetting' = s
    /\ UNCHANGED <<aggNow, tracked, eventCounts, notifyTimer, notifying,
                   inProgress, probe, since>>

AggTick ==
    /\ aggNow < MaxNow
    /\ aggNow' = aggNow + 1
    /\ UNCHANGED <<aggSetting, tracked, eventCounts, notifyTimer, notifying,
                   inProgress, probe, since>>

AggInit ==
    /\ aggNow = 0 /\ aggSetting \in AggSettings
    /\ tracked = NoEvents /\ eventCounts = [removes |-> 0, nonRemoves |-> 0]
    /\ notifyTimer = "armed" /\ notifying = NoEvents
    /\ inProgress = {} /\ probe \in AggPaths /\ since = Never

AggNext ==
    \/ \E p \in AggPaths, k \in EventKinds \ {{"nonRemove", "remove"}} :
          NewEvent(p, k)
    \/ ActOnTimer \/ Send \/ ResetNotifyTimer
    \/ \E p \in Pulled : UpdateInProgressSet(p)
    \/ \E s \in AggSettings : UpdateConfig(s)
    \/ AggTick

AggSpec == AggInit /\ [][AggNext]_aggVars

-----------------------------------------------------------------------------

\* However events are merged, replaced by directories or taken out by type: a
\* reported change stays covered until it is sent, by an event at its path or
\* above that is not younger than the change, so that notifyTimeout bounds the
\* wait of every single change. The event is one that notify is sending, or the
\* timer runs for it: the counter that lets it rest is not zero too early.
ChangesCovered ==
    since # Never =>
        \/ /\ notifyTimer # "idle"
           /\ \E p \in DOMAIN tracked :
                 Within(probe, p) /\ tracked[p].first <= since
        \/ \E p \in DOMAIN notifying :
              Within(probe, p) /\ notifying[p].first <= since
=============================================================================
