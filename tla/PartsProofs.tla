---------------------------- MODULE PartsProofs ----------------------------
(***************************************************************************)
(* Proofs about components that do not share state, each for every value   *)
(* of its constants: the configuration wrapper, the event log, items on    *)
(* disk under the puller, what the folder types announce and what versions *)
(* stand for, and the download progress a device tells another one.        *)
(***************************************************************************)
EXTENDS ConfigWrapper, EventLog, PullItem, FolderKinds, TempIndex, TLAPS

-----------------------------------------------------------------------------
(* The configuration wrapper.                                              *)

Configs == [CfgCallers -> {0, 1}]
Commits == [busy : {TRUE}, from : Configs, to : Configs]

CfgTypes ==
    /\ wcfg \in Configs /\ wsaved \in Configs
    /\ wqueue \in Seq(CfgCallers)
    /\ DOMAIN caller = CfgCallers
    /\ servePc \in {"select", "replace", "wait", "stopped"}
    /\ serveTo \in Configs
    /\ wsubs \subseteq CfgSubs
    /\ change \in Nat
    /\ commit \in [CfgSubs -> Commits \union {NoCommit}]
    /\ view \in [CfgSubs -> Configs]
    /\ leaving \in [CfgSubs -> Nat \union {NotLeaving, Gone}]

\* A call of CommitConfiguration is about the change that Serve waits for (or
\* waited for when it was stopped), and Unsubscribe of a committer with a call
\* under way waits for that very change.
CallsAreCurrent ==
    \A s \in CfgSubs :
        commit[s] # NoCommit =>
            /\ servePc \in {"wait", "stopped"}
            /\ commit[s].from = view[s] /\ commit[s].to = wcfg
            /\ s \in wsubs \/ leaving[s] = change

\* A subscriber without a call under way knows the configuration.
SubscribersKnow ==
    \A s \in wsubs : /\ leaving[s] = NotLeaving
                     /\ commit[s] = NoCommit => view[s] = wcfg

\* What Serve has in hand is the configuration with the modification it took;
\* if the last save did not fail and no other is to come, it is on disk.
ServeFromCurrent ==
    /\ servePc = "replace" => /\ serveE \in CfgCallers
                              /\ serveTo = [wcfg EXCEPT ![serveE] = 1]
    /\ lastSave /\ (servePc = "stopped" \/ ~saveTimer) => wsaved = wcfg
    /\ \A c \in CfgCallers : caller[c] = "applied" => wcfg[c] = 1

CfgInv == CfgTypes /\ CallsAreCurrent /\ SubscribersKnow /\ ServeFromCurrent

LEMMA CommitIsBusy == \A r \in Commits : r # NoCommit
  BY DEF Commits, NoCommit

LEMMA CfgInitInv == CfgInit => CfgInv
<1> SUFFICES ASSUME CfgInit PROVE CfgInv
  OBVIOUS
<1>1. NobodyYet \in Configs
  BY DEF NobodyYet, Configs
<1>2. CfgTypes
  BY <1>1 DEF CfgInit, CfgTypes, NotLeaving, Gone
<1>3. CallsAreCurrent /\ SubscribersKnow /\ ServeFromCurrent
  BY DEF CfgInit, CallsAreCurrent, SubscribersKnow, ServeFromCurrent
<1>4. QED
  BY <1>2, <1>3 DEF CfgInv

LEMMA CfgStep == CfgInv /\ [CfgNext]_cfgVars => CfgInv'
<1> SUFFICES ASSUME CfgInv, [CfgNext]_cfgVars PROVE CfgInv'
  OBVIOUS
<1> USE DEF CfgInv
<1>1. ASSUME NEW c \in CfgCallers, Modify(c) PROVE CfgInv'
  <2>1. CfgTypes'
    BY <1>1 DEF Modify, saveVars, CfgTypes, serveVars, subVars
  <2>2. QED
    BY <1>1, <2>1 DEF Modify, saveVars, CfgTypes, serveVars, subVars, CallsAreCurrent,
       SubscribersKnow, ServeFromCurrent
<1>2. CASE ServeTake
  <2>1. Head(wqueue) \in CfgCallers /\ Tail(wqueue) \in Seq(CfgCallers)
    BY <1>2 DEF ServeTake, saveVars, CfgTypes
  <2>2. CfgTypes'
    BY <1>2, <2>1 DEF ServeTake, saveVars, CfgTypes, subVars, Configs
  <2>3. CallsAreCurrent'
    BY <1>2 DEF ServeTake, saveVars, CallsAreCurrent, subVars
  <2>4. SubscribersKnow' /\ ServeFromCurrent'
    BY <1>2, <2>1 DEF ServeTake, saveVars, SubscribersKnow, ServeFromCurrent, subVars
  <2>5. QED
    BY <2>2, <2>3, <2>4
<1>3. CASE ServeReplace
  <2>1. \A s \in CfgSubs : commit[s] = NoCommit
    BY <1>3 DEF ServeReplace, saveVars, CallsAreCurrent
  <2>2. serveE \in CfgCallers /\ serveTo = [wcfg EXCEPT ![serveE] = 1]
    BY <1>3 DEF ServeReplace, saveVars, ServeFromCurrent
  <2>3. CASE wcfg' = wcfg /\ change' = change /\ commit' = commit
             /\ caller' = [caller EXCEPT ![serveE] = "rejected"]
    BY <1>3, <2>1, <2>2, <2>3 DEF ServeReplace, saveVars, CfgTypes, CallsAreCurrent,
       SubscribersKnow, ServeFromCurrent
  <2>4. CASE /\ wcfg' = serveTo /\ change' = change + 1
             /\ commit' = [s \in CfgSubs |->
                           IF s \in wsubs
                           THEN [busy |-> TRUE, from |-> wcfg, to |-> serveTo]
                           ELSE commit[s]]
             /\ caller' = [caller EXCEPT ![serveE] = "applied"]
    <3>1. [busy |-> TRUE, from |-> wcfg, to |-> serveTo] \in Commits
      BY DEF Commits, CfgTypes
    <3>2. CfgTypes'
      BY <1>3, <2>4, <3>1 DEF ServeReplace, saveVars, CfgTypes
    <3>3. \A s \in CfgSubs : s \notin wsubs => commit'[s] = NoCommit
      BY <2>1, <2>4
    <3>4. \A s \in wsubs : /\ commit'[s] # NoCommit
                           /\ commit'[s].from = wcfg /\ commit'[s].to = serveTo
      BY <2>4, <3>1, CommitIsBusy DEF CfgTypes
    <3>5. CallsAreCurrent'
      BY <1>3, <2>1, <2>4, <3>3, <3>4 DEF ServeReplace, saveVars, CallsAreCurrent,
         SubscribersKnow, CfgTypes
    <3>6. SubscribersKnow'
      BY <1>3, <3>4 DEF ServeReplace, saveVars, SubscribersKnow
    <3>7. ServeFromCurrent'
      BY <1>3, <2>2, <2>4 DEF ServeReplace, saveVars, ServeFromCurrent, CfgTypes, Configs
    <3>8. QED
      BY <3>2, <3>5, <3>6, <3>7
  <2>5. QED
    BY <1>3, <2>3, <2>4 DEF ServeReplace
<1>4. CASE ServeNext
  BY <1>4 DEF ServeNext, saveVars, CfgTypes, CallsAreCurrent, SubscribersKnow,
     ServeFromCurrent, Handled, subVars
<1>5. CASE ServeSave
  BY <1>5 DEF ServeSave, Save, CfgTypes, CallsAreCurrent, SubscribersKnow,
     ServeFromCurrent, subVars, serveVars
<1>6. CASE ServeStop
  BY <1>6 DEF ServeStop, Save, CfgTypes, CallsAreCurrent, SubscribersKnow,
     ServeFromCurrent, subVars
<1>7. ASSUME NEW s \in CfgSubs, CommitDone(s) PROVE CfgInv'
  <2>1. commit[s] \in Commits /\ commit[s].to = wcfg
    BY <1>7 DEF CommitDone, saveVars, CfgTypes, CallsAreCurrent
  <2>2. CfgTypes'
    BY <1>7, <2>1 DEF CommitDone, saveVars, CfgTypes, Commits, serveVars
  <2>3. CallsAreCurrent' /\ SubscribersKnow' /\ ServeFromCurrent'
    BY <1>7, <2>1 DEF CommitDone, saveVars, CfgTypes, CallsAreCurrent, SubscribersKnow,
       ServeFromCurrent, serveVars
  <2>4. QED
    BY <2>2, <2>3
<1>8. ASSUME NEW s \in CfgSubs, Subscribe(s) PROVE CfgInv'
  <2>1. commit[s] = NoCommit
    BY <1>8 DEF Subscribe, saveVars, CallsAreCurrent, CfgTypes, NotLeaving, Gone
  <2>2. CfgTypes'
    BY <1>8 DEF Subscribe, saveVars, CfgTypes, serveVars
  <2>3. CallsAreCurrent' /\ SubscribersKnow' /\ ServeFromCurrent'
    BY <1>8, <2>1 DEF Subscribe, saveVars, CfgTypes, CallsAreCurrent, SubscribersKnow,
       ServeFromCurrent, serveVars
  <2>4. QED
    BY <2>2, <2>3
<1>9. ASSUME NEW s \in CfgSubs, Unsubscribe(s) PROVE CfgInv'
  BY <1>9 DEF Unsubscribe, saveVars, CfgTypes, CallsAreCurrent, SubscribersKnow,
     ServeFromCurrent, serveVars
<1>10. ASSUME NEW s \in CfgSubs, Unsubscribed(s) PROVE CfgInv'
  <2>1. s \notin wsubs
    BY <1>10 DEF Unsubscribed, saveVars, SubscribersKnow, NotLeaving
  <2>2. commit[s] = NoCommit
    BY <1>10, <2>1 DEF Unsubscribed, saveVars, CallsAreCurrent, Handled
  <2>3. QED
    BY <1>10, <2>1, <2>2 DEF Unsubscribed, saveVars, CfgTypes, CallsAreCurrent,
       SubscribersKnow, ServeFromCurrent, serveVars
<1>11. CASE UNCHANGED cfgVars
  BY <1>11 DEF cfgVars, CfgTypes, CallsAreCurrent, SubscribersKnow,
     ServeFromCurrent
<1>12. QED
  BY <1>1, <1>2, <1>3, <1>4, <1>5, <1>6, <1>7, <1>8, <1>9, <1>10, <1>11
     DEF CfgNext

LEMMA CfgInvHolds == CfgSpec => []CfgInv
  BY CfgInitInv, CfgStep, PTL DEF CfgSpec

\* For any callers, committers and length of the queue: CommitConfiguration is
\* called with the configuration the committer was last told, and no call is
\* under way for a committer whose Unsubscribe has returned.
THEOREM CommitsAreChained == CfgSpec => []CommitsChain
<1>1. CfgInv => CommitsChain
  BY DEF CfgInv, CfgTypes, CallsAreCurrent, SubscribersKnow, CommitsChain,
     NotLeaving, Gone
<1>2. QED
  BY <1>1, CfgInvHolds, PTL

\* For any callers, committers and length of the queue: a modification that
\* Modify reported as applied stays in the configuration, and it is on disk, or
\* the save timer runs, or the last save has failed.
THEOREM ModificationsAreKept == CfgSpec => []ModificationsKept
<1>1. CfgInv => ModificationsKept
  BY DEF CfgInv, CfgTypes, ServeFromCurrent, ModificationsKept
<1>2. QED
  BY <1>1, CfgInvHolds, PTL

-----------------------------------------------------------------------------
(* The event log.                                                          *)

Ring == 0..(RingSize - 1)

EvTypes ==
    /\ lsubs \in Seq([sub : Subscribers, mask : SUBSET EventTypes])
    /\ nextIDs \in Seq(Nat \ {0}) /\ Len(nextIDs) = Len(lsubs)
    /\ sending \in {LogIdle} \union [busy : {TRUE}, type : EventTypes, at : Nat \ {0}]
    /\ logQueue \in Seq(EventTypes)
    /\ channel \in [Subscribers -> Seq(Nat \ {0})]
    /\ ring \in [Subscribers -> [Ring -> Nat]]
    /\ ringNext \in [Subscribers -> Ring]
    /\ ringCur \in [Subscribers -> Nat] /\ lastID \in [Subscribers -> Nat]
    /\ got \in [Subscribers -> SUBSET Nat] /\ missed \in [Subscribers -> SUBSET Nat]

SubscribedOnce ==
    \A i, j \in DOMAIN lsubs : lsubs[i].sub = lsubs[j].sub => i = j

\* Where the entry is that was written last.
Newest(s) == IF ringNext[s] = 0 THEN RingSize - 1 ELSE ringNext[s] - 1

\* Up to cur everything is in the ring, unless it is accounted for.
RingsComplete ==
    \A s \in Subscribers :
        /\ \A i \in Ring : ring[s][i] <= ringCur[s]
        /\ ring[s][Newest(s)] = ringCur[s]
        /\ lastID[s] <= ringCur[s]
        /\ \A id \in Nat \ {0} : id <= ringCur[s] =>
              id \in got[s] \union missed[s] \/ \E i \in Ring : ring[s][i] = id

\* From cur to the last event in the channel everything is in the channel,
\* unless it was dropped, and the events are in order.
ChannelsComplete ==
    \A s \in Subscribers :
        /\ \A k \in DOMAIN channel[s] : ringCur[s] < channel[s][k]
        /\ \A j, k \in DOMAIN channel[s] : j < k => channel[s][j] < channel[s][k]
        /\ \A k \in DOMAIN channel[s], id \in Nat \ {0} :
              ringCur[s] < id /\ id <= channel[s][k] =>
                  id \in missed[s] \/ \E j \in DOMAIN channel[s] : channel[s][j] = id

\* The same up to the ID that is given out next.
NextIsNew ==
    \A i \in DOMAIN lsubs :
        LET s == lsubs[i].sub IN
        /\ ringCur[s] < nextIDs[i]
        /\ \A k \in DOMAIN channel[s] : channel[s][k] < nextIDs[i]
        /\ \A id \in Nat \ {0} : ringCur[s] < id /\ id < nextIDs[i] =>
              id \in missed[s] \/ \E j \in DOMAIN channel[s] : channel[s][j] = id

EvInv ==
    /\ EvTypes /\ SubscribedOnce /\ RingsComplete /\ ChannelsComplete /\ NextIsNew
    /\ PollingComplete

LEMMA RingSteps ==
    ASSUME NEW n \in Ring
    PROVE  (n + 1) % RingSize = IF n + 1 = RingSize THEN 0 ELSE n + 1
<1>1. RingSize \in Nat \ {0}
  BY EventAssumption
<1>2. CASE n + 1 = RingSize
  BY <1>1, <1>2 DEF Ring
<1>3. CASE n + 1 < RingSize
  BY <1>1, <1>3 DEF Ring
<1>4. QED
  BY <1>1, <1>2, <1>3 DEF Ring

LEMMA EvStarts == EvInit => EvInv
<1> SUFFICES ASSUME EvInit PROVE EvInv
  OBVIOUS
<1>1. RingSize \in Nat \ {0}
  BY EventAssumption
<1>2. 0 \in Ring
  BY <1>1 DEF Ring
<1>3. EvTypes
  BY <1>2 DEF EvInit, EvTypes, Ring
<1>4. SubscribedOnce /\ NextIsNew /\ ChannelsComplete /\ PollingComplete
  BY DEF EvInit, SubscribedOnce, NextIsNew, ChannelsComplete, PollingComplete
<1>5. RingsComplete
  <2>1. \A s \in Subscribers : Newest(s) \in 0..(RingSize - 1)
    BY <1>1 DEF EvInit, Newest
  <2>2. QED
    BY <2>1 DEF EvInit, RingsComplete, Ring
<1>6. QED
  BY <1>3, <1>4, <1>5 DEF EvInv

\* Steps that leave the subscriptions, channels and rings alone.
LEMMA EvSame ==
    ASSUME EvInv, UNCHANGED <<lsubs, nextIDs, channel, bufVars, missed>>,
           sending' \in {LogIdle} \union [busy : {TRUE}, type : EventTypes, at : Nat \ {0}],
           logQueue' \in Seq(EventTypes)
    PROVE  EvInv'
<1>1. UNCHANGED <<lsubs, nextIDs, channel, ring, ringNext, ringCur, lastID, got, missed>>
  BY DEF bufVars
<1>2. EvTypes'
  BY <1>1 DEF EvInv, EvTypes
<1>3. SubscribedOnce' /\ ChannelsComplete' /\ NextIsNew' /\ PollingComplete'
  BY <1>1 DEF EvInv, SubscribedOnce, ChannelsComplete, NextIsNew, PollingComplete
<1>4. RingsComplete'
  BY <1>1 DEF EvInv, RingsComplete, Newest
<1>5. QED
  BY <1>2, <1>3, <1>4 DEF EvInv

LEMMA PollKeeps ==
    ASSUME EvInv, NEW s \in Subscribers, Poll(s)
    PROVE  EvInv'
<1> DEFINE events == Since(s, lastID[s])
           last == CHOOSE i \in events : \A j \in events : InOrder(s, j, i)
<1>1. /\ lastID[s] < ringCur[s]
      /\ lastID' = [lastID EXCEPT ![s] = ring[s][last]]
      /\ got' = [got EXCEPT ![s] = got[s] \union {ring[s][i] : i \in events}]
      /\ UNCHANGED <<logQueue, sending, lsubs, nextIDs, channel, ring, ringNext,
                     ringCur, missed>>
  BY DEF Poll
<1>2. RingSize \in Nat \ {0} /\ ringNext[s] \in Ring
  BY EventAssumption DEF EvInv, EvTypes
<1>3. Newest(s) \in Ring /\ events \subseteq Ring
  BY <1>2 DEF Newest, Ring, Since
<1>4. Newest(s) \in events
  BY <1>1, <1>3 DEF EvInv, RingsComplete, Since, Ring
<1>5. \A j \in Ring : InOrder(s, j, Newest(s))
  BY <1>2 DEF InOrder, Newest, Ring
<1>6. last \in events /\ \A j \in events : InOrder(s, j, last)
  BY <1>3, <1>4, <1>5
<1>7. last = Newest(s)
  <2>1. InOrder(s, Newest(s), last) /\ InOrder(s, last, Newest(s)) /\ last \in Ring
    BY <1>3, <1>4, <1>5, <1>6
  <2> HIDE DEF last
  <2>2. QED
    BY <1>2, <1>3, <2>1 DEF InOrder, Ring
<1>8. ring[s][last] = ringCur[s]
  BY <1>7 DEF EvInv, RingsComplete
<1> HIDE DEF last
<1>9. /\ lastID'[s] = ringCur[s]
      /\ \A t \in Subscribers : t # s => lastID'[t] = lastID[t] /\ got'[t] = got[t]
      /\ got'[s] = got[s] \union {ring[s][i] : i \in events}
      /\ lastID' \in [Subscribers -> Nat] /\ got' \in [Subscribers -> SUBSET Nat]
  BY <1>1, <1>3, <1>8 DEF EvInv, EvTypes
<1>10. EvTypes'
  BY <1>1, <1>9 DEF EvInv, EvTypes
<1>11. SubscribedOnce' /\ ChannelsComplete' /\ NextIsNew'
  BY <1>1 DEF EvInv, SubscribedOnce, ChannelsComplete, NextIsNew
<1>12. RingsComplete'
  <2>1. \A t \in Subscribers : Newest(t)' = Newest(t) /\ got[t] \subseteq got'[t]
    BY <1>1, <1>9 DEF Newest
  <2>2. \A t \in Subscribers : lastID'[t] <= ringCur[t]
    <3>1. ringCur[s] \in Nat /\ \A t \in Subscribers : lastID[t] <= ringCur[t]
      BY DEF EvInv, RingsComplete, EvTypes
    <3>2. lastID'[s] <= ringCur[s]
      BY <1>9, <3>1
    <3>3. QED
      BY <1>9, <3>1, <3>2
  <2>3. QED
    BY <1>1, <2>1, <2>2 DEF EvInv, RingsComplete
<1>13. PollingComplete'
  <2>1. ASSUME NEW id \in 1..ringCur[s] PROVE id \in got'[s] \union missed[s]
    <3>1. ringCur[s] \in Nat /\ lastID[s] \in Nat /\ id \in Nat \ {0} /\ id <= ringCur[s]
      BY DEF EvInv, EvTypes
    <3>2. CASE id <= lastID[s]
      BY <1>9, <3>1, <3>2 DEF EvInv, PollingComplete
    <3>3. CASE id > lastID[s]
      <4>1. CASE \E i \in Ring : ring[s][i] = id
        BY <1>9, <3>3, <4>1 DEF Since, Ring
      <4>2. CASE id \in got[s] \union missed[s]
        BY <1>9, <4>2
      <4>3. QED
        BY <3>1, <4>1, <4>2 DEF EvInv, RingsComplete
    <3>4. QED
      BY <3>1, <3>2, <3>3
  <2>2. \A t \in Subscribers : t # s => 1..lastID'[t] \subseteq got'[t] \union missed'[t]
    BY <1>1, <1>9 DEF EvInv, PollingComplete
  <2>3. QED
    BY <1>1, <1>9, <2>1, <2>2 DEF PollingComplete
<1>14. QED
  BY <1>10, <1>11, <1>12, <1>13 DEF EvInv

LEMMA SubsTyped ==
    ASSUME EvInv
    PROVE  /\ \A i \in DOMAIN lsubs : lsubs[i].sub \in Subscribers /\ i \in DOMAIN nextIDs
           /\ DOMAIN lsubs = 1..Len(lsubs) /\ DOMAIN nextIDs = 1..Len(lsubs)
           /\ Len(lsubs) \in Nat
<1>1. /\ lsubs \in Seq([sub : Subscribers, mask : SUBSET EventTypes])
      /\ nextIDs \in Seq(Nat \ {0}) /\ Len(nextIDs) = Len(lsubs)
  BY DEF EvInv, EvTypes
<1>2. \A i \in DOMAIN lsubs : lsubs[i] \in [sub : Subscribers, mask : SUBSET EventTypes]
  <2> DEFINE R == [sub : Subscribers, mask : SUBSET EventTypes]
  <2>1. lsubs \in Seq(R)
    BY <1>1
  <2> HIDE DEF R
  <2>2. \A i \in DOMAIN lsubs : lsubs[i] \in R
    BY <2>1
  <2>3. QED
    BY <2>2 DEF R
<1>3. \A i \in DOMAIN lsubs : lsubs[i].sub \in Subscribers
  BY <1>2
<1>4. DOMAIN lsubs = 1..Len(lsubs) /\ Len(lsubs) \in Nat
  BY <1>1
<1>5. DOMAIN nextIDs = 1..Len(lsubs)
  BY <1>1
<1>6. QED
  BY <1>3, <1>4, <1>5

LEMMA TailFacts ==
    ASSUME NEW S, NEW q \in Seq(S), q # <<>>
    PROVE  /\ Head(q) = q[1] /\ q[1] \in S /\ 1 \in DOMAIN q
           /\ Tail(q) \in Seq(S)
           /\ \A k \in DOMAIN q : k # 1 =>
                 k - 1 \in DOMAIN Tail(q) /\ Tail(q)[k - 1] = q[k]
           /\ \A k \in DOMAIN Tail(q) :
                 k + 1 \in DOMAIN q /\ Tail(q)[k] = q[k + 1] /\ k \in Nat \ {0}
<1>1. Len(q) \in Nat \ {0} /\ DOMAIN q = 1..Len(q)
  OBVIOUS
<1>2. Tail(q) \in Seq(S) /\ Len(Tail(q)) = Len(q) - 1 /\ DOMAIN Tail(q) = 1..(Len(q) - 1)
  OBVIOUS
<1>3. \A k \in 1..(Len(q) - 1) : Tail(q)[k] = q[k + 1]
  OBVIOUS
<1>4. Head(q) = q[1] /\ q[1] \in S
  OBVIOUS
<1>5. QED
  BY <1>1, <1>2, <1>3, <1>4

LEMMA BufferKeeps ==
    ASSUME EvInv, NEW s \in Subscribers, Buffer(s)
    PROVE  EvInv'
<1> DEFINE n == ringNext[s]
           h == channel[s][1]
<1>1. /\ channel[s] # <<>> /\ channel[s] \in Seq(Nat \ {0})
      /\ ring[s] \in [Ring -> Nat] /\ n \in Ring
      /\ ringCur[s] \in Nat /\ lastID[s] \in Nat
      /\ got[s] \subseteq Nat /\ missed[s] \subseteq Nat
  BY DEF Buffer, EvInv, EvTypes
<1>2. /\ Head(channel[s]) = h /\ h \in Nat \ {0} /\ 1 \in DOMAIN channel[s]
      /\ Tail(channel[s]) \in Seq(Nat \ {0})
      /\ \A k \in DOMAIN channel[s] : k # 1 =>
            k - 1 \in DOMAIN Tail(channel[s]) /\ Tail(channel[s])[k - 1] = channel[s][k]
      /\ \A k \in DOMAIN Tail(channel[s]) :
            /\ k + 1 \in DOMAIN channel[s] /\ Tail(channel[s])[k] = channel[s][k + 1]
            /\ k \in Nat \ {0}
  BY <1>1, TailFacts
<1>3. /\ missed' = [missed EXCEPT ![s] = missed[s] \union ({ring[s][n]} \ (got[s] \union {0}))]
      /\ ring' = [ring EXCEPT ![s] = [ring[s] EXCEPT ![n] = h]]
      /\ ringNext' = [ringNext EXCEPT ![s] = (n + 1) % RingSize]
      /\ ringCur' = [ringCur EXCEPT ![s] = h]
      /\ channel' = [channel EXCEPT ![s] = Tail(channel[s])]
      /\ UNCHANGED <<logQueue, sending, lsubs, nextIDs, lastID, got>>
  BY <1>2 DEF Buffer
<1>4. (n + 1) % RingSize = IF n + 1 = RingSize THEN 0 ELSE n + 1
  BY <1>1, RingSteps
<1>5. RingSize \in Nat \ {0} /\ n \in 0..(RingSize - 1)
  BY <1>1, EventAssumption DEF Ring
<1>6. (n + 1) % RingSize \in Ring
  BY <1>4, <1>5 DEF Ring
<1>7. /\ missed'[s] = missed[s] \union ({ring[s][n]} \ (got[s] \union {0}))
      /\ ring'[s] = [ring[s] EXCEPT ![n] = h]
      /\ ringNext'[s] = IF n + 1 = RingSize THEN 0 ELSE n + 1
      /\ ringCur'[s] = h /\ channel'[s] = Tail(channel[s])
  BY <1>3, <1>4 DEF EvInv, EvTypes
<1>8. \A t \in Subscribers : t # s =>
          /\ missed'[t] = missed[t] /\ ring'[t] = ring[t] /\ ringNext'[t] = ringNext[t]
          /\ ringCur'[t] = ringCur[t] /\ channel'[t] = channel[t]
  BY <1>3 DEF EvInv, EvTypes
<1>9. ringCur[s] < h /\ \A k \in DOMAIN channel[s] : k # 1 => h < channel[s][k]
  <2>1. \A k \in DOMAIN channel[s] : k # 1 => 1 < k
    BY <1>1
  <2>2. QED
    BY <1>2, <2>1 DEF EvInv, ChannelsComplete
<1>10. EvTypes'
  <2>1. ring[s][n] \in Nat /\ [ring[s] EXCEPT ![n] = h] \in [Ring -> Nat]
    BY <1>1, <1>2
  <2>2. ring' \in [Subscribers -> [Ring -> Nat]] /\ missed' \in [Subscribers -> SUBSET Nat]
    BY <1>1, <1>3, <2>1 DEF EvInv, EvTypes
  <2>3. /\ ringNext' \in [Subscribers -> Ring] /\ ringCur' \in [Subscribers -> Nat]
        /\ channel' \in [Subscribers -> Seq(Nat \ {0})]
    BY <1>2, <1>3, <1>6 DEF EvInv, EvTypes
  <2>4. QED
    BY <1>3, <2>2, <2>3 DEF EvInv, EvTypes
<1> HIDE DEF h
<1>11. SubscribedOnce'
  BY <1>3 DEF EvInv, SubscribedOnce
<1>12. missed[s] \subseteq missed'[s]
  BY <1>7
<1>13. RingsComplete'
  <2>1. ASSUME NEW t \in Subscribers, t # s
        PROVE  /\ \A i \in Ring : ring'[t][i] <= ringCur'[t]
               /\ ring'[t][Newest(t)'] = ringCur'[t]
               /\ lastID'[t] <= ringCur'[t]
               /\ \A id \in Nat \ {0} : id <= ringCur'[t] =>
                    id \in got'[t] \union missed'[t] \/ \E i \in Ring : ring'[t][i] = id
    <3>1. Newest(t)' = Newest(t)
      BY <1>8, <2>1 DEF Newest
    <3>2. QED
      BY <1>3, <1>8, <2>1, <3>1 DEF EvInv, RingsComplete
  <2>2. \A i \in Ring : ring'[s][i] = IF i = n THEN h ELSE ring[s][i]
    BY <1>1, <1>7
  <2>3. \A i \in Ring : ring[s][i] \in Nat /\ ring[s][i] <= ringCur[s]
    BY <1>1 DEF EvInv, RingsComplete
  <2>4. \A i \in Ring : ring'[s][i] <= h
    BY <1>1, <1>2, <1>9, <2>2, <2>3
  <2>5. ring'[s][Newest(s)'] = h
    <3>1. Newest(s)' = n
      BY <1>5, <1>7 DEF Newest
    <3>2. QED
      BY <1>1, <2>2, <3>1
  <2>6. lastID[s] <= h
    <3>1. lastID[s] <= ringCur[s]
      BY DEF EvInv, RingsComplete
    <3>2. QED
      BY <1>1, <1>2, <1>9, <3>1
  <2>7. ASSUME NEW id \in Nat \ {0}, id <= h
        PROVE  id \in got[s] \union missed'[s] \/ \E i \in Ring : ring'[s][i] = id
    <3>1. CASE id = h
      BY <1>1, <2>2, <3>1
    <3>2. CASE id # h /\ ringCur[s] < id
      <4>1. id \in missed[s] \/ \E j \in DOMAIN channel[s] : channel[s][j] = id
        <5>1. \A k \in DOMAIN channel[s], x \in Nat \ {0} :
                 ringCur[s] < x /\ x <= channel[s][k] =>
                     x \in missed[s] \/ \E j \in DOMAIN channel[s] : channel[s][j] = x
          BY DEF EvInv, ChannelsComplete
        <5>2. 1 \in DOMAIN channel[s] /\ id <= channel[s][1]
          BY <1>2, <2>7 DEF h
        <5>3. QED
          BY <2>7, <3>2, <5>1, <5>2
      <4>2. \A j \in DOMAIN channel[s] : channel[s][j] # id
        <5>1. \A j \in DOMAIN channel[s] : channel[s][j] \in Nat
          BY <1>1
        <5>2. ASSUME NEW j \in DOMAIN channel[s], j # 1 PROVE channel[s][j] # id
          BY <1>2, <1>9, <2>7, <3>2, <5>1, <5>2
        <5>3. channel[s][1] # id
          BY <3>2 DEF h
        <5>4. QED
          BY <5>2, <5>3
      <4>3. QED
        BY <1>12, <4>1, <4>2
    <3>3. CASE id <= ringCur[s]
      <4>1. id \in got[s] \union missed[s] \/ \E i \in Ring : ring[s][i] = id
        BY <2>7, <3>3 DEF EvInv, RingsComplete
      <4>2. CASE \E i \in Ring : ring[s][i] = id
        <5>1. PICK i \in Ring : ring[s][i] = id
          BY <4>2
        <5>2. CASE i = n
          BY <1>7, <2>7, <5>1, <5>2
        <5>3. CASE i # n
          BY <2>2, <5>1, <5>3
        <5>4. QED
          BY <5>2, <5>3
      <4>3. QED
        BY <1>12, <4>1, <4>2
    <3>4. QED
      BY <1>1, <2>7, <3>1, <3>2, <3>3
  <2>8. QED
    BY <1>3, <1>7, <2>1, <2>4, <2>5, <2>6, <2>7 DEF RingsComplete
<1>14. ChannelsComplete'
  <2> DEFINE tl == Tail(channel[s])
  <2>1. \A k \in DOMAIN tl : h < tl[k]
    BY <1>2, <1>9
  <2>2. \A j, k \in DOMAIN tl : j < k => tl[j] < tl[k]
    <3>1. \A j, k \in DOMAIN tl : j < k => j + 1 < k + 1
      BY <1>2
    <3>2. QED
      BY <1>2, <3>1 DEF EvInv, ChannelsComplete
  <2>3. ASSUME NEW k \in DOMAIN tl, NEW id \in Nat \ {0}, h < id, id <= tl[k]
        PROVE  id \in missed'[s] \/ \E j \in DOMAIN tl : tl[j] = id
    <3>1. ringCur[s] < id /\ k + 1 \in DOMAIN channel[s] /\ id <= channel[s][k + 1]
      BY <1>1, <1>2, <1>9, <2>3
    <3>2. id \in missed[s] \/ \E j \in DOMAIN channel[s] : channel[s][j] = id
      BY <3>1 DEF EvInv, ChannelsComplete
    <3>3. ASSUME NEW j \in DOMAIN channel[s], channel[s][j] = id
          PROVE  \E i \in DOMAIN tl : tl[i] = id
      <4>1. j # 1
        BY <1>2, <2>3, <3>3 DEF h
      <4>2. QED
        BY <1>2, <3>3, <4>1
    <3>4. QED
      BY <1>12, <3>2, <3>3
  <2>4. ASSUME NEW t \in Subscribers, t # s
        PROVE  /\ \A k \in DOMAIN channel'[t] : ringCur'[t] < channel'[t][k]
               /\ \A j, k \in DOMAIN channel'[t] : j < k => channel'[t][j] < channel'[t][k]
               /\ \A k \in DOMAIN channel'[t], id \in Nat \ {0} :
                    ringCur'[t] < id /\ id <= channel'[t][k] =>
                        id \in missed'[t] \/ \E j \in DOMAIN channel'[t] : channel'[t][j] = id
    BY <1>8, <2>4 DEF EvInv, ChannelsComplete
  <2>5. /\ \A k \in DOMAIN channel'[s] : ringCur'[s] < channel'[s][k]
        /\ \A j, k \in DOMAIN channel'[s] : j < k => channel'[s][j] < channel'[s][k]
        /\ \A k \in DOMAIN channel'[s], id \in Nat \ {0} :
              ringCur'[s] < id /\ id <= channel'[s][k] =>
                  id \in missed'[s] \/ \E j \in DOMAIN channel'[s] : channel'[s][j] = id
    <3> HIDE DEF tl
    <3>1. channel'[s] = tl /\ ringCur'[s] = h
      BY <1>7 DEF tl
    <3>2. QED
      BY <2>1, <2>2, <2>3, <3>1
  <2>6. QED
    BY <2>4, <2>5 DEF ChannelsComplete
<1>15. NextIsNew'
  <2>1. SUFFICES ASSUME NEW i \in DOMAIN lsubs, NEW t \in Subscribers, lsubs[i].sub = t
                 PROVE  /\ ringCur'[t] < nextIDs[i]
                        /\ \A k \in DOMAIN channel'[t] : channel'[t][k] < nextIDs[i]
                        /\ \A id \in Nat \ {0} : ringCur'[t] < id /\ id < nextIDs[i] =>
                              id \in missed'[t] \/ \E j \in DOMAIN channel'[t] : channel'[t][j] = id
    <3>1. \A i \in DOMAIN lsubs : lsubs[i].sub \in Subscribers
      BY SubsTyped
    <3>2. lsubs' = lsubs /\ nextIDs' = nextIDs
      BY <1>3
    <3>3. QED
      BY <3>1, <3>2 DEF NextIsNew
  <2>2. CASE t # s
    BY <1>8, <2>1, <2>2 DEF EvInv, NextIsNew
  <2>3. CASE t = s
    <3>1. /\ \A k \in DOMAIN channel[s] : channel[s][k] < nextIDs[i]
          /\ \A id \in Nat \ {0} : ringCur[s] < id /\ id < nextIDs[i] =>
                id \in missed[s] \/ \E j \in DOMAIN channel[s] : channel[s][j] = id
      BY <2>1, <2>3 DEF EvInv, NextIsNew
    <3>2. h < nextIDs[i] /\ \A k \in DOMAIN channel'[s] : channel'[s][k] < nextIDs[i]
      BY <1>2, <1>7, <3>1 DEF h
    <3>3. ASSUME NEW id \in Nat \ {0}, h < id, id < nextIDs[i]
          PROVE  id \in missed'[s] \/ \E j \in DOMAIN channel'[s] : channel'[s][j] = id
      <4>1. ringCur[s] < id
        BY <1>1, <1>2, <1>9, <3>3
      <4>2. id \in missed[s] \/ \E j \in DOMAIN channel[s] : channel[s][j] = id
        BY <3>1, <3>3, <4>1
      <4>3. ASSUME NEW j \in DOMAIN channel[s], channel[s][j] = id
            PROVE  \E k \in DOMAIN channel'[s] : channel'[s][k] = id
        <5>1. j # 1
          BY <1>2, <3>3, <4>3 DEF h
        <5>2. QED
          BY <1>2, <1>7, <4>3, <5>1
      <4>4. QED
        BY <1>12, <4>2, <4>3
    <3>4. QED
      BY <1>7, <2>3, <3>2, <3>3
  <2>4. QED
    BY <2>2, <2>3
<1>16. PollingComplete'
  <2>1. \A t \in Subscribers : missed[t] \subseteq missed'[t]
    BY <1>8, <1>12
  <2>2. QED
    BY <1>3, <2>1 DEF EvInv, PollingComplete
<1>17. QED
  BY <1>10, <1>11, <1>13, <1>14, <1>15, <1>16 DEF EvInv

\* One turn of sendEvent's loop uses up an ID.
LEMMA SendToKeeps ==
    ASSUME EvInv, SendTo
    PROVE  EvInv'
<1> DEFINE a == sending.at
           s == lsubs[a].sub
           id == nextIDs[a]
<1>1. /\ sending # LogIdle /\ a <= Len(lsubs)
      /\ sending' = [sending EXCEPT !.at = @ + 1]
      /\ UNCHANGED <<logQueue, lsubs, ring, ringNext, ringCur, lastID, got>>
  BY DEF SendTo, bufVars
<1>2. sending \in [busy : {TRUE}, type : EventTypes, at : Nat \ {0}]
  BY <1>1 DEF EvInv, EvTypes
<1>3. sending' \in [busy : {TRUE}, type : EventTypes, at : Nat \ {0}] /\ a \in Nat \ {0}
  <2>1. a \in Nat \ {0} /\ sending.type \in EventTypes /\ sending.busy = TRUE
    BY <1>2
  <2>2. a + 1 \in Nat \ {0}
    BY <2>1
  <2>3. sending' = [busy |-> TRUE, type |-> sending.type, at |-> a + 1]
    BY <1>1, <1>2, <2>1
  <2> HIDE DEF a
  <2>4. QED
    BY <2>1, <2>2, <2>3
<1>4. a \in DOMAIN lsubs /\ a \in DOMAIN nextIDs /\ s \in Subscribers
  BY <1>1, <1>3, SubsTyped
<1>5. CASE UNCHANGED <<nextIDs, channel, missed>>
  <2>1. UNCHANGED <<lsubs, nextIDs, channel, bufVars, missed>>
    BY <1>1, <1>5 DEF bufVars
  <2>2. logQueue' \in Seq(EventTypes)
    BY <1>1 DEF EvInv, EvTypes
  <2>3. QED
    BY <1>3, <2>1, <2>2, EvSame
<1>6. ASSUME nextIDs' = [nextIDs EXCEPT ![a] = id + 1],
             \/ /\ channel' = [channel EXCEPT ![s] = Append(channel[s], id)]
                /\ missed' = missed
             \/ /\ missed' = [missed EXCEPT ![s] = missed[s] \union {id}]
                /\ channel' = channel
      PROVE  EvInv'
  <2>0. PICK t \in Subscribers : t = s
    BY <1>4
  <2>1. /\ nextIDs \in Seq(Nat \ {0}) /\ id \in Nat \ {0} /\ ringCur[t] \in Nat
        /\ channel[t] \in Seq(Nat \ {0})
    <3>1. nextIDs \in Seq(Nat \ {0}) /\ ringCur[t] \in Nat
      BY DEF EvInv, EvTypes
    <3>2. channel[t] \in Seq(Nat \ {0})
      BY DEF EvInv, EvTypes
    <3>3. id \in Nat \ {0}
      BY <1>4, <3>1
    <3>4. QED
      BY <3>1, <3>2, <3>3
  <2>2. /\ nextIDs' \in Seq(Nat \ {0}) /\ Len(nextIDs') = Len(nextIDs)
        /\ nextIDs'[a] = id + 1 /\ \A i \in DOMAIN lsubs : i # a => nextIDs'[i] = nextIDs[i]
    BY <1>4, <1>6, <2>1, SubsTyped
  <2>3. /\ ringCur[t] < id
        /\ \A k \in DOMAIN channel[t] : channel[t][k] < id
        /\ \A x \in Nat \ {0} : ringCur[t] < x /\ x < id =>
              x \in missed[t] \/ \E j \in DOMAIN channel[t] : channel[t][j] = x
    BY <1>4, <2>0 DEF EvInv, NextIsNew
  <2>4. /\ \A u \in Subscribers : u # t => channel'[u] = channel[u] /\ missed'[u] = missed[u]
        /\ missed[t] \subseteq missed'[t]
        /\ channel' \in [Subscribers -> Seq(Nat \ {0})]
        /\ missed' \in [Subscribers -> SUBSET Nat]
        /\ \/ channel'[t] = Append(channel[t], id)
           \/ channel'[t] = channel[t] /\ id \in missed'[t]
    <3>1. channel \in [Subscribers -> Seq(Nat \ {0})] /\ missed \in [Subscribers -> SUBSET Nat]
      BY DEF EvInv, EvTypes
    <3>2. Append(channel[t], id) \in Seq(Nat \ {0}) /\ missed[t] \union {id} \in SUBSET Nat
      BY <2>1, <3>1
    <3> HIDE DEF id
    <3>3. CASE /\ channel' = [channel EXCEPT ![s] = Append(channel[s], id)]
               /\ missed' = missed
      BY <2>0, <3>1, <3>2, <3>3
    <3>4. CASE /\ missed' = [missed EXCEPT ![s] = missed[s] \union {id}]
               /\ channel' = channel
      BY <2>0, <3>1, <3>2, <3>4
    <3>5. QED
      BY <1>6, <3>3, <3>4
  <2> DEFINE app == Append(channel[t], id)
  <2>5. /\ DOMAIN app = 1..(Len(channel[t]) + 1) /\ Len(channel[t]) \in Nat
        /\ DOMAIN channel[t] = 1..Len(channel[t])
        /\ app[Len(channel[t]) + 1] = id
        /\ \A k \in DOMAIN channel[t] : app[k] = channel[t][k]
    BY <2>1
  <2>6. /\ \A k \in DOMAIN channel[t] : k \in DOMAIN channel'[t] /\ channel'[t][k] = channel[t][k]
        /\ \A k \in DOMAIN channel'[t] :
              k \in DOMAIN channel[t] \/ (channel'[t][k] = id /\ \A j \in DOMAIN channel'[t] : j <= k)
        /\ id \in missed'[t] \/ \E j \in DOMAIN channel'[t] : channel'[t][j] = id
    <3>1. CASE channel'[t] = app
      <4>1. /\ Len(channel[t]) + 1 \in DOMAIN app
            /\ \A k \in DOMAIN app : k \in DOMAIN channel[t] \/ k = Len(channel[t]) + 1
            /\ \A k \in DOMAIN app : k <= Len(channel[t]) + 1
            /\ \A k \in DOMAIN channel[t] : k \in DOMAIN app
        BY <2>5
      <4> HIDE DEF app
      <4>2. QED
        BY <2>5, <3>1, <4>1
    <3>2. CASE channel'[t] = channel[t] /\ id \in missed'[t]
      BY <3>2
    <3>3. QED
      BY <2>4, <3>1, <3>2
  <2> HIDE DEF app
  <2>7. EvTypes'
    BY <1>1, <1>3, <2>2, <2>4 DEF EvInv, EvTypes
  <2>8. SubscribedOnce'
    BY <1>1 DEF EvInv, SubscribedOnce
  <2>9. \A u \in Subscribers : missed[u] \subseteq missed'[u]
    BY <2>4
  <2>10. RingsComplete'
    BY <1>1, <2>9 DEF EvInv, RingsComplete, Newest
  <2>11. PollingComplete'
    BY <1>1, <2>9 DEF EvInv, PollingComplete
  <2>12. ASSUME NEW x \in Nat \ {0}, ringCur[t] < x, x <= id
         PROVE  x \in missed'[t] \/ \E j \in DOMAIN channel'[t] : channel'[t][j] = x
    <3>1. CASE x = id
      BY <2>6, <3>1
    <3>2. CASE x < id
      BY <2>3, <2>4, <2>6, <2>12, <3>2
    <3>3. QED
      BY <2>1, <2>12, <3>1, <3>2
  <2>13. \A k \in DOMAIN channel'[t] : ringCur[t] < channel'[t][k] /\ channel'[t][k] <= id
    <3>1. ASSUME NEW k \in DOMAIN channel[t] PROVE ringCur[t] < channel[t][k] /\ channel[t][k] <= id
      <4>1. channel[t][k] \in Nat
        BY <2>1
      <4>2. QED
        BY <2>1, <2>3, <4>1 DEF EvInv, ChannelsComplete
    <3>2. id <= id
      BY <2>1
    <3>3. QED
      BY <2>3, <2>6, <3>1, <3>2
  <2>14. \A j, k \in DOMAIN channel'[t] : j < k => channel'[t][j] < channel'[t][k]
    <3>1. ASSUME NEW j \in DOMAIN channel'[t], NEW k \in DOMAIN channel'[t], j < k
          PROVE  channel'[t][j] < channel'[t][k]
      <4>1. j \in Int /\ k \in Int
        BY <2>4, <2>5 DEF app
      <4>2. j \in DOMAIN channel[t]
        BY <2>6, <3>1, <4>1
      <4>3. CASE k \in DOMAIN channel[t]
        BY <2>6, <3>1, <4>2, <4>3 DEF EvInv, ChannelsComplete
      <4>4. CASE channel'[t][k] = id
        BY <2>3, <2>6, <4>2, <4>4
      <4>5. QED
        BY <2>6, <4>3, <4>4
    <3>2. QED
      BY <3>1
  <2>15. ChannelsComplete'
    <3>1. \A k \in DOMAIN channel'[t], x \in Nat \ {0} :
              ringCur[t] < x /\ x <= channel'[t][k] => x <= id
      <4>1. \A k \in DOMAIN channel'[t] : channel'[t][k] \in Nat
        BY <2>4
      <4>2. QED
        BY <2>1, <2>13, <4>1
    <3>2. ASSUME NEW u \in Subscribers, u # t
          PROVE  /\ \A k \in DOMAIN channel'[u] : ringCur'[u] < channel'[u][k]
                 /\ \A j, k \in DOMAIN channel'[u] : j < k => channel'[u][j] < channel'[u][k]
                 /\ \A k \in DOMAIN channel'[u], x \in Nat \ {0} :
                      ringCur'[u] < x /\ x <= channel'[u][k] =>
                          x \in missed'[u] \/ \E j \in DOMAIN channel'[u] : channel'[u][j] = x
      <4>1. channel'[u] = channel[u] /\ missed'[u] = missed[u] /\ ringCur'[u] = ringCur[u]
        BY <1>1, <2>4, <3>2
      <4>2. QED
        BY <4>1 DEF EvInv, ChannelsComplete
    <3>3. QED
      BY <1>1, <2>12, <2>13, <2>14, <3>1, <3>2 DEF ChannelsComplete
  <2>16. NextIsNew'
    <3>1. SUFFICES ASSUME NEW i \in DOMAIN lsubs, NEW u \in Subscribers, lsubs[i].sub = u
                   PROVE  /\ ringCur[u] < nextIDs'[i]
                          /\ \A k \in DOMAIN channel'[u] : channel'[u][k] < nextIDs'[i]
                          /\ \A x \in Nat \ {0} : ringCur[u] < x /\ x < nextIDs'[i] =>
                               x \in missed'[u] \/ \E j \in DOMAIN channel'[u] : channel'[u][j] = x
      <4>1. \A i \in DOMAIN lsubs : lsubs[i].sub \in Subscribers
        BY SubsTyped
      <4>2. QED
        BY <1>1, <4>1 DEF NextIsNew
    <3>2. CASE i = a
      <4>1. u = t /\ nextIDs'[i] = id + 1
        BY <2>0, <2>2, <3>1, <3>2
      <4>2. ringCur[t] < id + 1
        BY <2>1, <2>3
      <4>3. \A k \in DOMAIN channel'[t] : channel'[t][k] < id + 1
        <5>1. \A k \in DOMAIN channel'[t] : channel'[t][k] \in Nat
          BY <2>4
        <5>2. QED
          BY <2>1, <2>13, <5>1
      <4>4. \A x \in Nat \ {0} : x < id + 1 => x <= id
        BY <2>1
      <4>5. QED
        BY <2>12, <4>1, <4>2, <4>3, <4>4
    <3>3. CASE i # a
      <4>1. u # t
        BY <1>4, <2>0, <3>1, <3>3 DEF EvInv, SubscribedOnce
      <4>2. QED
        <5>1. channel'[u] = channel[u] /\ missed'[u] = missed[u] /\ nextIDs'[i] = nextIDs[i]
          BY <2>2, <2>4, <3>3, <4>1
        <5>2. QED
          BY <3>1, <5>1 DEF EvInv, NextIsNew
    <3>4. QED
      BY <3>2, <3>3
  <2>17. QED
    BY <2>7, <2>8, <2>10, <2>11, <2>15, <2>16 DEF EvInv
<1>7. QED
  BY <1>5, <1>6 DEF SendTo

\* A new subscription starts at 1, with nothing in its channel and its ring.
LEMMA SubscribedKeeps ==
    ASSUME EvInv, NEW s \in Subscribers, NEW m \in SUBSET EventTypes, Subscribed(s, m)
    PROVE  EvInv'
<1> DEFINE R == [sub : Subscribers, mask : SUBSET EventTypes]
           e == [sub |-> s, mask |-> m]
           n == Len(lsubs)
<1>1. /\ lsubs' = Append(lsubs, e) /\ nextIDs' = Append(nextIDs, 1)
      /\ UNCHANGED <<logQueue, sending, channel, ring, ringNext, ringCur, lastID, got, missed>>
  BY DEF Subscribed, bufVars
<1>2. ringCur[s] = 0 /\ channel[s] = <<>> /\ \A i \in DOMAIN lsubs : lsubs[i].sub # s
  BY DEF Subscribed, IsSubscribed
<1>3. lsubs \in Seq(R) /\ nextIDs \in Seq(Nat \ {0}) /\ Len(nextIDs) = n /\ n \in Nat
  BY SubsTyped DEF EvInv, EvTypes
<1>4. e \in R /\ e.sub = s
  OBVIOUS
<1> HIDE DEF R, e
<1>5. /\ lsubs' \in Seq(R) /\ Len(lsubs') = n + 1 /\ DOMAIN lsubs' = 1..(n + 1)
      /\ DOMAIN lsubs = 1..n /\ lsubs'[n + 1] = e
      /\ \A i \in 1..n : lsubs'[i] = lsubs[i]
  BY <1>1, <1>3, <1>4
<1>6. /\ nextIDs' \in Seq(Nat \ {0}) /\ Len(nextIDs') = n + 1 /\ nextIDs'[n + 1] = 1
      /\ \A i \in 1..n : nextIDs'[i] = nextIDs[i]
  BY <1>1, <1>3
<1> HIDE DEF n
<1>7. \A i \in DOMAIN lsubs' : \/ i = n + 1
                               \/ i # n + 1 /\ i \in DOMAIN lsubs
  BY <1>3, <1>5
<1>8. EvTypes'
  BY <1>1, <1>5, <1>6 DEF EvInv, EvTypes, R
<1>9. SubscribedOnce'
  <2>1. \A i, j \in DOMAIN lsubs : lsubs'[i].sub = lsubs'[j].sub => i = j
    BY <1>5 DEF EvInv, SubscribedOnce
  <2>2. \A i \in DOMAIN lsubs : lsubs'[i].sub # lsubs'[n + 1].sub
    BY <1>2, <1>4, <1>5
  <2>3. QED
    BY <1>7, <2>1, <2>2 DEF SubscribedOnce
<1>10. RingsComplete'
  BY <1>1 DEF EvInv, RingsComplete, Newest
<1>11. ChannelsComplete' /\ PollingComplete'
  BY <1>1 DEF EvInv, ChannelsComplete, PollingComplete
<1>12. NextIsNew'
  <2>1. SUFFICES ASSUME NEW i \in DOMAIN lsubs', NEW u, lsubs'[i].sub = u
                 PROVE  /\ ringCur[u] < nextIDs'[i]
                        /\ \A k \in DOMAIN channel[u] : channel[u][k] < nextIDs'[i]
                        /\ \A x \in Nat \ {0} : ringCur[u] < x /\ x < nextIDs'[i] =>
                             x \in missed[u] \/ \E j \in DOMAIN channel[u] : channel[u][j] = x
    <3>1. UNCHANGED <<channel, ringCur, missed>>
      BY <1>1
    <3>2. QED
      BY <3>1 DEF NextIsNew
  <2>2. CASE i = n + 1
    <3>1. u = s /\ nextIDs'[i] = 1
      BY <1>4, <1>5, <1>6, <2>1, <2>2
    <3>2. DOMAIN channel[s] = {}
      BY <1>2
    <3>3. QED
      BY <1>2, <3>1, <3>2
  <2>3. CASE i \in DOMAIN lsubs
    <3>1. lsubs[i].sub = u /\ nextIDs'[i] = nextIDs[i]
      BY <1>5, <1>6, <2>1, <2>3
    <3>2. QED
      BY <2>3, <3>1 DEF EvInv, NextIsNew
  <2>4. QED
    <3>1. i = n + 1 \/ i \in DOMAIN lsubs
      BY <1>7, <2>1
    <3>2. QED
      BY <2>2, <2>3, <3>1
<1>13. QED
  BY <1>8, <1>9, <1>10, <1>11, <1>12 DEF EvInv

\* What is left after a removal, and where it was before.
LEMMA SwapRemoveFacts ==
    ASSUME NEW S, NEW q \in Seq(S), NEW i \in DOMAIN q
    PROVE  /\ SwapRemove(q, i) \in Seq(S) /\ Len(SwapRemove(q, i)) = Len(q) - 1
           /\ DOMAIN SwapRemove(q, i) = 1..(Len(q) - 1)
           /\ \A j \in 1..(Len(q) - 1) :
                 SwapRemove(q, i)[j] = IF j = i THEN q[Len(q)] ELSE q[j]
<1>1. Len(q) \in Nat \ {0} /\ DOMAIN q = 1..Len(q) /\ \A j \in 1..Len(q) : q[j] \in S
  OBVIOUS
<1>2. Len(q) - 1 \in Nat
  BY <1>1
<1> DEFINE r == [j \in 1..(Len(q) - 1) |-> IF j = i THEN q[Len(q)] ELSE q[j]]
<1>3. \A j \in 1..(Len(q) - 1) : r[j] \in S
  BY <1>1
<1>4. r \in [1..(Len(q) - 1) -> S]
  BY <1>3
<1>5. r \in Seq(S) /\ Len(r) = Len(q) - 1
  BY <1>2, <1>4
<1>6. QED
  BY <1>4, <1>5 DEF SwapRemove

\* unsubscribe keeps every subscription together with its ID.
LEMMA LeaveKeeps ==
    ASSUME EvInv, NEW i \in DOMAIN lsubs, Leave(i)
    PROVE  EvInv'
<1> DEFINE R == [sub : Subscribers, mask : SUBSET EventTypes]
           n == Len(lsubs)
           Was(j) == IF j = i THEN n ELSE j
<1>1. /\ lsubs' = SwapRemove(lsubs, i) /\ nextIDs' = SwapRemove(nextIDs, i)
      /\ UNCHANGED <<logQueue, sending, channel, ring, ringNext, ringCur, lastID, got, missed>>
  BY DEF Leave, bufVars
<1>2. /\ lsubs \in Seq(R) /\ nextIDs \in Seq(Nat \ {0}) /\ Len(nextIDs) = n
      /\ n \in Nat /\ DOMAIN lsubs = 1..n /\ DOMAIN nextIDs = 1..n
  BY SubsTyped DEF EvInv, EvTypes
<1> HIDE DEF R
<1>3. /\ lsubs' \in Seq(R) /\ Len(lsubs') = n - 1 /\ DOMAIN lsubs' = 1..(n - 1)
      /\ \A j \in 1..(n - 1) : lsubs'[j] = lsubs[Was(j)]
  BY <1>1, <1>2, SwapRemoveFacts
<1>4. /\ nextIDs' \in Seq(Nat \ {0}) /\ Len(nextIDs') = n - 1
      /\ \A j \in 1..(n - 1) : nextIDs'[j] = nextIDs[Was(j)]
  <2> DEFINE IDs == Nat \ {0}
  <2>1. nextIDs \in Seq(IDs) /\ i \in DOMAIN nextIDs
    BY <1>2
  <2> HIDE DEF IDs
  <2>2. /\ nextIDs' \in Seq(IDs) /\ Len(nextIDs') = n - 1
        /\ \A j \in 1..(n - 1) : nextIDs'[j] = nextIDs[Was(j)]
    <3>1. /\ SwapRemove(nextIDs, i) \in Seq(IDs)
          /\ Len(SwapRemove(nextIDs, i)) = Len(nextIDs) - 1
          /\ \A j \in 1..(Len(nextIDs) - 1) : SwapRemove(nextIDs, i)[j] =
                IF j = i THEN nextIDs[Len(nextIDs)] ELSE nextIDs[j]
      BY <2>1, SwapRemoveFacts
    <3>2. nextIDs' = SwapRemove(nextIDs, i) /\ Len(nextIDs) = n
      BY <1>1, <1>2
    <3>3. QED
      BY <3>1, <3>2
  <2>3. QED
    BY <2>2 DEF IDs
<1>5. /\ \A j \in 1..(n - 1) : Was(j) \in DOMAIN lsubs
      /\ \A j, k \in 1..(n - 1) : Was(j) = Was(k) => j = k
  <2>1. i \in 1..n /\ n \in Nat /\ DOMAIN lsubs = 1..n
    BY <1>2
  <2> HIDE DEF n
  <2>2. QED
    BY <2>1
<1> HIDE DEF n, Was
<1>6. EvTypes'
  <2>1. EvTypes
    BY DEF EvInv
  <2>2. /\ lsubs' \in Seq([sub : Subscribers, mask : SUBSET EventTypes])
        /\ nextIDs' \in Seq(Nat \ {0}) /\ Len(nextIDs') = Len(lsubs')
    BY <1>3, <1>4 DEF R
  <2>3. QED
    BY <1>1, <2>1, <2>2, Zenon DEF EvTypes
<1>7. SubscribedOnce'
  BY <1>3, <1>5 DEF EvInv, SubscribedOnce
<1>8. RingsComplete'
  BY <1>1 DEF EvInv, RingsComplete, Newest
<1>9. ChannelsComplete' /\ PollingComplete'
  BY <1>1 DEF EvInv, ChannelsComplete, PollingComplete
<1>10. NextIsNew'
  <2>1. SUFFICES ASSUME NEW j \in DOMAIN lsubs', NEW u, lsubs'[j].sub = u
                 PROVE  /\ ringCur[u] < nextIDs'[j]
                        /\ \A k \in DOMAIN channel[u] : channel[u][k] < nextIDs'[j]
                        /\ \A x \in Nat \ {0} : ringCur[u] < x /\ x < nextIDs'[j] =>
                             x \in missed[u] \/ \E k \in DOMAIN channel[u] : channel[u][k] = x
    BY <1>1 DEF NextIsNew
  <2>2. /\ Was(j) \in DOMAIN lsubs /\ lsubs[Was(j)].sub = u
        /\ nextIDs'[j] = nextIDs[Was(j)]
    BY <1>3, <1>4, <1>5, <2>1
  <2>3. QED
    BY <2>2 DEF EvInv, NextIsNew
<1>11. QED
  BY <1>6, <1>7, <1>8, <1>9, <1>10 DEF EvInv

LEMMA EvStep == EvInv /\ [EvNext]_evVars => EvInv'
<1> SUFFICES ASSUME EvInv, [EvNext]_evVars PROVE EvInv'
  OBVIOUS
<1>1. /\ sending \in {LogIdle} \union [busy : {TRUE}, type : EventTypes, at : Nat \ {0}]
      /\ logQueue \in Seq(EventTypes)
  BY DEF EvInv, EvTypes
<1>2. ASSUME NEW t \in EventTypes, Log(t) PROVE EvInv'
  <2>1. logQueue' \in Seq(EventTypes)
    BY <1>1, <1>2 DEF Log
  <2>2. QED
    BY <1>1, <1>2, <2>1, EvSame DEF Log
<1>3. CASE TakeEvent
  <2>1. Head(logQueue) \in EventTypes /\ Tail(logQueue) \in Seq(EventTypes)
    BY <1>1, <1>3, TailFacts DEF TakeEvent
  <2>2. sending' \in [busy : {TRUE}, type : EventTypes, at : Nat \ {0}]
    BY <1>3, <2>1 DEF TakeEvent
  <2>3. logQueue' \in Seq(EventTypes)
    BY <1>3, <2>1 DEF TakeEvent
  <2>4. QED
    BY <1>3, <2>2, <2>3, EvSame DEF TakeEvent
<1>4. CASE LogDone
  BY <1>1, <1>4, EvSame DEF LogDone
<1>5. CASE UNCHANGED evVars
  BY <1>1, <1>5, EvSame DEF evVars, bufVars
<1>6. QED
  BY <1>2, <1>3, <1>4, <1>5, SendToKeeps, SubscribedKeeps, BufferKeeps, PollKeeps, LeaveKeeps
     DEF EvNext

LEMMA EvInvHolds == EvSpec => []EvInv
<1>1. QED
  BY EvStarts, EvStep, PTL DEF EvSpec

\* A client that polls with the ID it got last misses nothing: whatever the
\* sizes of the channel and the ring, however many subscriptions there are and
\* however they come and leave, every ID up to that one was given to the client,
\* dropped by the logger (sendEvent's timeout) or overwritten in the ring
\* (bufferedSubscription.pollingLoop, Since).
THEOREM PollingIsComplete == EvSpec => []PollingComplete
<1>1. EvInv => PollingComplete
  BY DEF EvInv
<1>2. QED
  BY <1>1, EvInvHolds, PTL

-----------------------------------------------------------------------------
(* Items on disk.                                                          *)

Items == [type : {"none", "dir", "file", "link"}, c : Nat, mark : Nat]

ItemTypes ==
    /\ disk \in [ItemNames -> Items] /\ cur \in [ItemNames -> Items]
    /\ glob \in [ItemNames -> [item : Items, conflict : BOOLEAN]]
    /\ jobs \subseteq [n : ItemNames, item : Items]
    /\ clock \in Nat
    /\ copies \in [ItemNames -> Seq(Nat)]

LEMMA PlacedTyped ==
    ASSUME ItemTypes, NEW n \in ItemNames, NEW item \in Items
    PROVE  /\ Placed(n, item) \in [ItemNames -> Items]
           /\ Placed(n, item)[n] = item
           /\ \A m \in ItemNames :
                 m # n /\ MayGo(n) =>
                     Placed(n, item)[m] = disk[m] \/ m \in deletable
<1>1. Absent \in Items
  BY DEF Absent, Items
<1>2. \A m \in ItemNames : disk[m] \in Items
  BY DEF ItemTypes
<1>3. Placed(n, item) \in [ItemNames -> Items] /\ Placed(n, item)[n] = item
  BY <1>1, <1>2 DEF Placed
<1>4. ASSUME NEW m \in ItemNames, m # n, MayGo(n)
      PROVE  Placed(n, item)[m] = disk[m] \/ m \in deletable
  <2>1. CASE Inside[m] = n /\ disk[n].type = "dir" /\ item.type # "dir"
    <3>1. disk[m] = Absent \/ m \in deletable
      BY <1>4, <2>1 DEF MayGo, Children
    <3>2. QED
      BY <1>4, <2>1, <3>1 DEF Placed
  <2>2. CASE ~(Inside[m] = n /\ disk[n].type = "dir" /\ item.type # "dir")
    BY <1>4, <2>2 DEF Placed
  <2>3. QED
    BY <2>1, <2>2
<1>5. QED
  BY <1>3, <1>4

LEMMA NewItems ==
    ASSUME ItemTypes
    PROVE  /\ {Absent, Dir, NewFile(clock + 1), Link(clock + 1)} \subseteq Items
           /\ \A n \in ItemNames : /\ glob[n].item \in Items
                                   /\ [glob[n].item EXCEPT !.mark = clock + 1] \in Items
                                   /\ glob[n].conflict \in BOOLEAN
<1>1. clock + 1 \in Nat
  BY DEF ItemTypes
<1>2. Absent \in Items /\ Dir \in Items
  BY DEF Absent, Dir, Items
<1>3. NewFile(clock + 1) \in Items /\ Link(clock + 1) \in Items
  BY <1>1 DEF NewFile, Link, Items
<1>4. ASSUME NEW n \in ItemNames
      PROVE  /\ glob[n].item \in Items
             /\ [glob[n].item EXCEPT !.mark = clock + 1] \in Items
             /\ glob[n].conflict \in BOOLEAN
  <2>1. glob[n] \in [item : Items, conflict : BOOLEAN]
    BY DEF ItemTypes
  <2>2. glob[n].item \in Items
    BY <2>1
  <2>3. glob[n].conflict \in BOOLEAN
    BY <2>1
  <2>4. [glob[n].item EXCEPT !.mark = clock + 1] \in Items
    BY <1>1, <2>2 DEF Items
  <2>5. QED
    BY <2>2, <2>3, <2>4
<1>5. QED
  BY <1>2, <1>3, <1>4

\* What happens to the conflict copies of an item.
CopiesKept(n) ==
    \A i \in 1..Len(copies[n]) :
        \/ \E k \in {i, i + 1} \intersect (1..Len(copies'[n])) :
              copies'[n][k] = copies[n][i]
        \/ i >= MaxConflicts /\ MaxConflicts > -1

LEMMA TrimmedKeeps ==
    ASSUME NEW q \in Seq(Nat), NEW c \in Nat, MaxConflicts # 0
    PROVE  LET t == Trimmed(<<c>> \o q) IN
           /\ t \in Seq(Nat) /\ Len(t) >= 1 /\ t[1] = c
           /\ \A i \in 1..Len(q) :
                 \/ i + 1 <= Len(t) /\ t[i + 1] = q[i]
                 \/ i >= MaxConflicts /\ MaxConflicts > -1
<1> DEFINE p == <<c>> \o q
<1>1. p \in Seq(Nat) /\ Len(p) = Len(q) + 1 /\ Len(q) \in Nat
  OBVIOUS
<1>2. p[1] = c /\ \A i \in 1..Len(q) : p[i + 1] = q[i]
  OBVIOUS
<1> HIDE DEF p
<1>3. MaxConflicts \in Int
  BY ItemAssumption
<1> DEFINE Keeps(t) ==
           /\ t \in Seq(Nat) /\ Len(t) >= 1 /\ t[1] = c
           /\ \A i \in 1..Len(q) :
                 \/ i + 1 <= Len(t) /\ t[i + 1] = q[i]
                 \/ i >= MaxConflicts /\ MaxConflicts > -1
<1>4. ASSUME MaxConflicts > -1 /\ Len(p) > MaxConflicts
      PROVE  Keeps(Trimmed(p))
  <2>1. Trimmed(p) = SubSeq(p, 1, MaxConflicts)
    BY <1>4 DEF Trimmed
  <2>2. MaxConflicts \in 1..Len(p)
    BY <1>1, <1>3, <1>4
  <2>3. /\ Trimmed(p) \in Seq(Nat) /\ Len(Trimmed(p)) = MaxConflicts
        /\ \A i \in 1..MaxConflicts : Trimmed(p)[i] = p[i]
    BY <1>1, <2>1, <2>2
  <2>4. QED
    BY <1>1, <1>2, <1>3, <1>4, <2>2, <2>3
<1>5. ASSUME ~(MaxConflicts > -1 /\ Len(p) > MaxConflicts)
      PROVE  Keeps(Trimmed(p))
  <2>1. Trimmed(p) = p
    BY <1>5 DEF Trimmed
  <2>2. QED
    BY <1>1, <1>2, <2>1
<1>6. QED
  BY <1>4, <1>5 DEF p

\* A file in conflict is in a copy afterwards, if copies are kept of it, and no
\* other item's copies change.
LEMMA MovedForConflict ==
    ASSUME ItemTypes, NEW n \in ItemNames, copies' = MoveForConflict(n)
    PROVE  /\ copies' \in [ItemNames -> Seq(Nat)]
           /\ \A m \in ItemNames : CopiesKept(m)
           /\ /\ disk[n].type = "file" /\ glob[n].conflict
              /\ n \notin ConflictNames /\ MaxConflicts # 0
              => \E i \in 1..Len(copies'[n]) : copies'[n][i] = disk[n].c
<1> DEFINE moved == /\ disk[n].type = "file" /\ glob[n].conflict
                    /\ n \notin ConflictNames /\ MaxConflicts # 0
           t == Trimmed(<<disk[n].c>> \o copies[n])
<1>1. copies \in [ItemNames -> Seq(Nat)] /\ disk[n].c \in Nat
  BY DEF ItemTypes, Items
<1>2. \A m \in ItemNames : copies[m] \in Seq(Nat) /\ Len(copies[m]) \in Nat
  BY <1>1
<1>3. ASSUME NEW m \in ItemNames, copies'[m] = copies[m] PROVE CopiesKept(m)
  BY <1>2, <1>3 DEF CopiesKept
<1>4. CASE moved
  <2>1. copies' = [copies EXCEPT ![n] = t]
    BY <1>4 DEF MoveForConflict
  <2>2. /\ t \in Seq(Nat) /\ Len(t) >= 1 /\ t[1] = disk[n].c
        /\ \A i \in 1..Len(copies[n]) :
              \/ i + 1 <= Len(t) /\ t[i + 1] = copies[n][i]
              \/ i >= MaxConflicts /\ MaxConflicts > -1
    BY <1>1, <1>2, <1>4, TrimmedKeeps
  <2> HIDE DEF t
  <2>3. copies' \in [ItemNames -> Seq(Nat)] /\ copies'[n] = t /\ Len(t) \in Nat
    BY <1>1, <2>1, <2>2
  <2>4. CopiesKept(n)
    <3> SUFFICES ASSUME NEW i \in 1..Len(copies[n]),
                        ~(i >= MaxConflicts /\ MaxConflicts > -1)
                 PROVE  \E k \in {i, i + 1} \intersect (1..Len(copies'[n])) :
                           copies'[n][k] = copies[n][i]
      BY DEF CopiesKept
    <3>1. i + 1 \in {i, i + 1} \intersect (1..Len(copies'[n]))
      BY <1>2, <2>2, <2>3
    <3>2. copies'[n][i + 1] = copies[n][i]
      BY <2>2, <2>3
    <3>3. QED
      BY <3>1, <3>2
  <2>5. \A m \in ItemNames : m # n => copies'[m] = copies[m]
    BY <1>1, <2>1
  <2>6. \E i \in 1..Len(copies'[n]) : copies'[n][i] = disk[n].c
    BY <2>2, <2>3
  <2>7. QED
    BY <1>3, <2>3, <2>4, <2>5, <2>6
<1>5. CASE ~moved
  <2>1. copies' = copies
    BY <1>5 DEF MoveForConflict
  <2>2. QED
    BY <1>1, <1>3, <1>5, <2>1
<1>6. QED
  BY <1>4, <1>5

LEMMA CopiesStay ==
    ASSUME ItemTypes, copies' = copies
    PROVE  \A n \in ItemNames : CopiesKept(n)
<1>1. \A n \in ItemNames : copies[n] \in Seq(Nat) /\ Len(copies[n]) \in Nat
  BY DEF ItemTypes
<1>2. QED
  BY <1>1 DEF CopiesKept

\* Steps of a handler.
LEMMA ReplaceTypes ==
    ASSUME ItemTypes, NEW n \in ItemNames, NEW item \in Items, Replace(n, item)
    PROVE  ItemTypes'
<1>1. /\ disk' = Placed(n, item) /\ UNCHANGED <<cur, glob, clock>>
      /\ jobs' \subseteq jobs \union {[n |-> n, item |-> glob[n].item]}
  BY DEF Replace
<1>2. [n |-> n, item |-> glob[n].item] \in [n : ItemNames, item : Items]
  BY NewItems
<1>3. disk' \in [ItemNames -> Items]
  BY <1>1, PlacedTyped
<1>4. jobs' \subseteq [n : ItemNames, item : Items]
  BY <1>1, <1>2 DEF ItemTypes
<1>5. copies' \in [ItemNames -> Seq(Nat)]
  BY MovedForConflict DEF Replace
<1>6. QED
  BY <1>1, <1>3, <1>4, <1>5 DEF ItemTypes

\* A handler that leaves the disk alone, but for what is typed.
LEMMA RefuseTypes ==
    ASSUME ItemTypes, UNCHANGED <<disk, cur, glob, copies, clock>>,
           jobs' \subseteq [n : ItemNames, item : Items]
    PROVE  ItemTypes'
BY DEF ItemTypes

LEMMA JobTyped ==
    ASSUME ItemTypes, NEW n \in ItemNames
    PROVE  /\ [n |-> n, item |-> glob[n].item] \in [n : ItemNames, item : Items]
           /\ [n |-> n, item |-> Absent] \in [n : ItemNames, item : Items]
<1>1. glob[n].item \in Items /\ Absent \in Items
  BY NewItems
<1>2. QED
  BY <1>1

LEMMA HandlerTypes ==
    ASSUME ItemTypes, NEW n \in ItemNames,
           \/ HandleDir(n) \/ HandleLinkOrFile(n) \/ CheckParent(n)
           \/ DeleteRefused(n) \/ Delete(n) \/ ShortcutFile(n)
    PROVE  ItemTypes'
<1>1. jobs \subseteq [n : ItemNames, item : Items]
  BY DEF ItemTypes
<1>2. Dir \in Items /\ Absent \in Items /\ glob[n].item \in Items
  BY NewItems
<1>3. ASSUME NEW S, Refuse(S) PROVE ItemTypes'
  BY <1>1, <1>3, RefuseTypes DEF Refuse
<1>11. ASSUME RefuseDir(n) PROVE ItemTypes'
  <2>1. PICK gone \in SUBSET (Children(n) \intersect deletable) :
           disk' = [m \in ItemNames |-> IF m \in gone THEN Absent ELSE disk[m]]
    BY <1>11 DEF RefuseDir
  <2>2. disk' \in [ItemNames -> Items]
    BY <1>2, <2>1 DEF ItemTypes
  <2>3. QED
    BY <1>11, <2>2 DEF RefuseDir, ItemTypes
<1>4. CASE HandleDir(n)
  <2>1. CASE UpdateDir(n)
    <3>1. jobs' \subseteq [n : ItemNames, item : Items]
      BY <1>1, <2>1, JobTyped DEF UpdateDir
    <3>2. QED
      BY <2>1, <3>1, RefuseTypes DEF UpdateDir
  <2>2. QED
    BY <1>2, <1>3, <1>4, <2>1, ReplaceTypes DEF HandleDir
<1>5. CASE HandleLinkOrFile(n)
  BY <1>2, <1>3, <1>5, <1>11, ReplaceTypes DEF HandleLinkOrFile
<1>6. CASE CheckParent(n)
  <2>1. disk' = [disk EXCEPT ![Inside[n]] = Dir] /\ UNCHANGED <<cur, glob, jobs, copies, clock>>
    BY <1>6 DEF CheckParent
  <2>2. disk' \in [ItemNames -> Items]
    BY <1>2, <2>1 DEF ItemTypes
  <2>3. QED
    BY <2>1, <2>2 DEF ItemTypes
<1>7. CASE DeleteRefused(n)
  BY <1>3, <1>7 DEF DeleteRefused
<1>8. CASE Delete(n)
  <2>1. CASE /\ disk' = Placed(n, Absent)
             /\ jobs' = jobs \union {[n |-> n, item |-> Absent]}
             /\ copies' = MoveForConflict(n) /\ UNCHANGED <<cur, glob, clock>>
    <3>1. disk' \in [ItemNames -> Items]
      BY <1>2, <2>1, PlacedTyped
    <3>2. jobs' \subseteq [n : ItemNames, item : Items]
      BY <1>1, <2>1, JobTyped
    <3>3. copies' \in [ItemNames -> Seq(Nat)]
      BY <2>1, MovedForConflict
    <3>4. QED
      BY <2>1, <3>1, <3>2, <3>3 DEF ItemTypes
  <2>2. CASE /\ jobs' = jobs \union {[n |-> n, item |-> Absent]}
             /\ UNCHANGED <<disk, cur, glob, copies, clock>>
    <3>1. jobs' \subseteq [n : ItemNames, item : Items]
      BY <1>1, <2>2, JobTyped
    <3>2. QED
      BY <2>2, <3>1, RefuseTypes
  <2>3. QED
    BY <1>3, <1>8, <1>11, <2>1, <2>2 DEF Delete
<1>9. CASE ShortcutFile(n)
  <2>1. /\ disk' = [disk EXCEPT ![n].mark = glob[n].item.mark]
        /\ jobs' = jobs \union {[n |-> n, item |-> glob[n].item]}
        /\ UNCHANGED <<cur, glob, copies, clock>>
    BY <1>9 DEF ShortcutFile
  <2>2. disk[n] \in Items
    BY DEF ItemTypes
  <2>3. [disk[n] EXCEPT !.mark = glob[n].item.mark] \in Items
    BY <1>2, <2>2 DEF Items
  <2>4. disk' \in [ItemNames -> Items]
    BY <2>1, <2>3 DEF ItemTypes
  <2>5. jobs' \subseteq [n : ItemNames, item : Items]
    BY <1>1, <2>1, JobTyped
  <2>6. QED
    BY <2>1, <2>4, <2>5 DEF ItemTypes
<1>10. QED
  BY <1>4, <1>5, <1>6, <1>7, <1>8, <1>9

LEMMA RenameTypes ==
    ASSUME ItemTypes, NEW n \in ItemNames, NEW m \in ItemNames, RenameFile(n, m)
    PROVE  ItemTypes'
<1>1. jobs \subseteq [n : ItemNames, item : Items]
  BY DEF ItemTypes
<1>2. Absent \in Items /\ glob[m].item \in Items
  BY NewItems
<1>3. ASSUME NEW S, Refuse(S) PROVE ItemTypes'
  BY <1>1, <1>3, RefuseTypes DEF Refuse
<1>4. ASSUME NEW item \in {glob[m].item, Absent},
             disk' = [Placed(m, item) EXCEPT ![n] = Absent],
             jobs' \subseteq jobs \union {[n |-> n, item |-> Absent],
                                        [n |-> m, item |-> glob[m].item]},
             copies' = MoveForConflict(m), UNCHANGED <<cur, glob, clock>>
      PROVE  ItemTypes'
  <2>1. Placed(m, item) \in [ItemNames -> Items]
    BY <1>2, PlacedTyped
  <2>2. disk' \in [ItemNames -> Items]
    BY <1>2, <1>4, <2>1
  <2>3. jobs' \subseteq [n : ItemNames, item : Items]
    BY <1>1, <1>4, JobTyped
  <2>4. copies' \in [ItemNames -> Seq(Nat)]
    BY <1>4, MovedForConflict
  <2>5. QED
    BY <1>4, <2>2, <2>3, <2>4 DEF ItemTypes
<1>5. CASE /\ disk' = [disk EXCEPT ![n] = Absent]
           /\ UNCHANGED <<cur, glob, jobs, copies, clock>>
  BY <1>2, <1>5 DEF ItemTypes
<1>6. QED
  BY <1>3, <1>4, <1>5 DEF RenameFile

LEMMA WorldTypes ==
    ASSUME ItemTypes, Environment
    PROVE  ItemTypes' /\ clock' # clock
<1>1. clock \in Nat /\ clock + 1 \in Nat /\ clock + 1 # clock
  BY DEF ItemTypes
<1>2. ASSUME NEW n \in ItemNames, NEW item \in Items, UserChanges(n, item)
      PROVE  ItemTypes' /\ clock' # clock
  <2>1. /\ disk' = Placed(n, item) /\ clock' = clock + 1
        /\ UNCHANGED <<cur, glob, jobs, copies>>
    BY <1>2 DEF UserChanges
  <2>2. disk' \in [ItemNames -> Items]
    BY <2>1, PlacedTyped
  <2>3. QED
    BY <1>1, <2>1, <2>2 DEF ItemTypes
<1>3. ASSUME NEW n \in ItemNames, NEW item \in Items, RemoteChange(n, item)
      PROVE  ItemTypes' /\ clock' # clock
  <2>1. PICK concurrent \in BOOLEAN :
           glob' = [glob EXCEPT ![n].item = item, ![n].conflict = @ \/ concurrent]
    BY <1>3 DEF RemoteChange
  <2>2. glob[n] \in [item : Items, conflict : BOOLEAN]
    BY DEF ItemTypes
  <2>3. [glob[n] EXCEPT !.item = item, !.conflict = @ \/ concurrent]
           \in [item : Items, conflict : BOOLEAN]
    BY <2>2
  <2>4. glob' \in [ItemNames -> [item : Items, conflict : BOOLEAN]]
    BY <2>1, <2>3 DEF ItemTypes
  <2>5. clock' = clock + 1 /\ UNCHANGED <<disk, cur, jobs, copies>>
    BY <1>3 DEF RemoteChange
  <2>6. QED
    BY <1>1, <2>4, <2>5 DEF ItemTypes
<1>4. QED
  BY <1>2, <1>3, NewItems DEF Environment

LEMMA ItemStepTypes == ItemTypes /\ [ItemNext]_itemVars => ItemTypes'
<1> SUFFICES ASSUME ItemTypes, [ItemNext]_itemVars PROVE ItemTypes'
  OBVIOUS
<1>1. CASE Handle
  BY <1>1, HandlerTypes, RenameTypes DEF Handle
<1>2. CASE CrashItems
  BY <1>2 DEF CrashItems, ItemTypes
<1>3. ASSUME NEW j \in jobs, Commit(j) PROVE ItemTypes'
  <2>1. /\ jobs' = jobs \ {j} /\ cur' = [cur EXCEPT ![j.n] = j.item]
        /\ glob' = [glob EXCEPT ![j.n].conflict = @ /\ glob[j.n].item # j.item]
        /\ UNCHANGED <<disk, copies, clock>>
    BY <1>3 DEF Commit
  <2>2. j \in [n : ItemNames, item : Items]
    BY DEF ItemTypes
  <2>3. j.n \in ItemNames /\ j.item \in Items
    BY <2>2
  <2>4. cur' \in [ItemNames -> Items]
    BY <2>1, <2>3 DEF ItemTypes
  <2>5. glob[j.n] \in [item : Items, conflict : BOOLEAN]
    BY <2>3 DEF ItemTypes
  <2>6. [glob[j.n] EXCEPT !.conflict = @ /\ glob[j.n].item # j.item]
            \in [item : Items, conflict : BOOLEAN]
    BY <2>5
  <2>7. glob' \in [ItemNames -> [item : Items, conflict : BOOLEAN]]
    BY <2>1, <2>3, <2>6 DEF ItemTypes
  <2>8. QED
    BY <2>1, <2>4, <2>7 DEF ItemTypes
<1>4. ASSUME NEW n \in ItemNames, Scan(n) PROVE ItemTypes'
  <2> DEFINE g == IF glob[n].item = cur[n] THEN [item |-> disk[n], conflict |-> FALSE]
                  ELSE [item |-> glob[n].item, conflict |-> TRUE]
  <2>1. /\ cur' = [cur EXCEPT ![n] = disk[n]] /\ glob' = [glob EXCEPT ![n] = g]
        /\ UNCHANGED <<disk, jobs, copies, clock>>
    BY <1>4 DEF Scan
  <2>2. disk[n] \in Items /\ glob[n].item \in Items
    BY NewItems DEF ItemTypes
  <2>3. g \in [item : Items, conflict : BOOLEAN]
    BY <2>2
  <2> HIDE DEF g
  <2>4. cur' \in [ItemNames -> Items]
    BY <2>1, <2>2 DEF ItemTypes
  <2>5. glob' \in [ItemNames -> [item : Items, conflict : BOOLEAN]]
    BY <2>1, <2>3 DEF ItemTypes
  <2>6. QED
    BY <2>1, <2>4, <2>5 DEF ItemTypes
<1>5. CASE UNCHANGED itemVars
  BY <1>5 DEF itemVars, ItemTypes
<1>6. QED
  BY <1>1, <1>2, <1>3, <1>4, <1>5, WorldTypes DEF ItemNext

\* What KeepsContent asks of one item's content.
ContentKept(n) ==
    LET c == disk[n].c IN
    disk[n].type = "file" /\ ~(\E m \in ItemNames : disk'[m].c = c) =>
        \/ c \in saved'
        \/ \E i \in 1..Len(copies'[n]) : copies'[n][i] = c
        \/ n \in deletable
        \/ cur[n].c = c /\ (glob[n].conflict => \/ n \in ConflictNames
                                              \/ MaxConflicts = 0)

\* What is removed after a look at the database is known there, or kept.
LEMMA RemovedIsKept ==
    ASSUME ~SameSize, ItemTypes, NEW n \in ItemNames,
           disk[n] = Absent \/ ~ItemChanged(n), copies' = MoveForConflict(n)
    PROVE  ContentKept(n)
<1> SUFFICES ASSUME disk[n].type = "file"
             PROVE  \/ \E i \in 1..Len(copies'[n]) : copies'[n][i] = disk[n].c
                    \/ cur[n].c = disk[n].c /\ (glob[n].conflict =>
                          n \in ConflictNames \/ MaxConflicts = 0)
  BY DEF ContentKept
<1>1. ~ItemChanged(n)
  BY DEF Absent
<1>2. cur[n].c = disk[n].c
  BY <1>1 DEF ItemChanged, IsEquivalent, Size
<1>3. glob[n].conflict /\ n \notin ConflictNames /\ MaxConflicts # 0 =>
          \E i \in 1..Len(copies'[n]) : copies'[n][i] = disk[n].c
  BY MovedForConflict
<1>4. QED
  BY <1>2, <1>3

LEMMA StaysOnDisk ==
    ASSUME NEW n \in ItemNames, disk'[n].c = disk[n].c \/ n \in deletable
    PROVE  ContentKept(n)
BY DEF ContentKept

LEMMA PlacedKeeps ==
    ASSUME ~SameSize, ItemTypes, NEW n \in ItemNames, NEW item \in Items, MayGo(n),
           disk[n] = Absent \/ ~ItemChanged(n), copies' = MoveForConflict(n),
           disk' = Placed(n, item)
    PROVE  \A m \in ItemNames : ContentKept(m) /\ CopiesKept(m)
<1>1. \A m \in ItemNames : m # n => disk'[m] = disk[m] \/ m \in deletable
  BY PlacedTyped
<1>2. QED
  BY <1>1, RemovedIsKept, StaysOnDisk, MovedForConflict

LEMMA ReplaceKeeps ==
    ASSUME ~SameSize, ItemTypes, NEW n \in ItemNames, NEW item \in Items, Replace(n, item),
           disk[n] = Absent \/ ~ItemChanged(n)
    PROVE  \A m \in ItemNames : ContentKept(m) /\ CopiesKept(m)
<1>1. MayGo(n) /\ disk' = Placed(n, item) /\ copies' = MoveForConflict(n)
  BY DEF Replace
<1>2. QED
  BY <1>1, PlacedKeeps

LEMMA HandlerKeeps ==
    ASSUME ~SameSize, ItemTypes, NEW n \in ItemNames,
           \/ HandleDir(n) \/ HandleLinkOrFile(n) \/ CheckParent(n)
           \/ DeleteRefused(n) \/ Delete(n) \/ ShortcutFile(n)
    PROVE  \A m \in ItemNames : ContentKept(m) /\ CopiesKept(m)
<1>1. Dir \in Items /\ Absent \in Items /\ glob[n].item \in Items
  BY NewItems
<1>2. ASSUME disk' = disk, copies' = copies PROVE \A m \in ItemNames : ContentKept(m) /\ CopiesKept(m)
  BY <1>2, StaysOnDisk, CopiesStay
<1>10. ASSUME RefuseDir(n) PROVE \A m \in ItemNames : ContentKept(m) /\ CopiesKept(m)
  <2>1. PICK gone \in SUBSET (Children(n) \intersect deletable) :
           disk' = [m \in ItemNames |-> IF m \in gone THEN Absent ELSE disk[m]]
    BY <1>10 DEF RefuseDir
  <2>2. \A m \in ItemNames : disk'[m] = disk[m] \/ m \in deletable
    BY <2>1
  <2>3. QED
    BY <1>10, <2>2, StaysOnDisk, CopiesStay DEF RefuseDir
<1>3. CASE HandleDir(n)
  BY <1>1, <1>2, <1>3, ReplaceKeeps DEF HandleDir, UpdateDir, Refuse
<1>4. CASE HandleLinkOrFile(n)
  BY <1>1, <1>2, <1>4, <1>10, ReplaceKeeps DEF HandleLinkOrFile, Refuse
<1>5. CASE CheckParent(n)
  <2>1. /\ disk' = [disk EXCEPT ![Inside[n]] = Dir] /\ disk[Inside[n]] = Absent
        /\ copies' = copies
    BY <1>5 DEF CheckParent
  <2>2. ASSUME NEW m \in ItemNames PROVE ContentKept(m)
    <3>1. CASE m = Inside[n]
      BY <2>1, <3>1 DEF ContentKept, Absent
    <3>2. CASE m # Inside[n]
      BY <2>1, <3>2, StaysOnDisk DEF ItemTypes
    <3>3. QED
      BY <3>1, <3>2
  <2>3. QED
    BY <2>1, <2>2, CopiesStay
<1>6. CASE DeleteRefused(n)
  BY <1>2, <1>6 DEF DeleteRefused, Refuse
<1>7. CASE Delete(n)
  <2>1. CASE /\ ~ItemChanged(n) /\ MayGo(n) /\ disk' = Placed(n, Absent)
             /\ copies' = MoveForConflict(n)
    BY <1>1, <2>1, PlacedKeeps
  <2>2. QED
    BY <1>2, <1>7, <1>10, <2>1 DEF Delete
<1>8. CASE ShortcutFile(n)
  <2>1. disk' = [disk EXCEPT ![n].mark = glob[n].item.mark] /\ copies' = copies
    BY <1>8 DEF ShortcutFile
  <2>2. ASSUME NEW m \in ItemNames PROVE disk'[m].c = disk[m].c
    <3>1. disk[m] \in Items
      BY DEF ItemTypes
    <3>2. QED
      BY <2>1, <3>1 DEF ItemTypes, Items
  <2>3. QED
    BY <2>1, <2>2, StaysOnDisk, CopiesStay
<1>9. QED
  BY <1>3, <1>4, <1>5, <1>6, <1>7, <1>8

LEMMA RenameKeeps ==
    ASSUME ~SameSize, ItemTypes, NEW n \in ItemNames, NEW m \in ItemNames, RenameFile(n, m)
    PROVE  \A x \in ItemNames : ContentKept(x) /\ CopiesKept(x)
<1>1. Absent \in Items /\ glob[m].item \in Items
  BY NewItems
<1>2. n # m /\ disk[n] # Absent /\ glob[m].item.c = cur[n].c
  BY DEF RenameFile
<1>3. CASE disk' = disk /\ copies' = copies
  BY <1>3, StaysOnDisk, CopiesStay
<1>4. ASSUME ~ItemChanged(n), disk[m] = cur[m] \/ ~ItemChanged(m), MayGo(m),
             copies' = MoveForConflict(m), NEW item \in {glob[m].item, Absent},
             item = Absent => disk[n].c \in saved',
             disk' = [Placed(m, item) EXCEPT ![n] = Absent]
      PROVE  \A x \in ItemNames : ContentKept(x) /\ CopiesKept(x)
  <2>1. /\ Placed(m, item) \in [ItemNames -> Items]
        /\ Placed(m, item)[m] = item
        /\ \A x \in ItemNames : x # m => Placed(m, item)[x] = disk[x] \/ x \in deletable
    BY <1>1, <1>4, PlacedTyped
  <2>2. \A x \in ItemNames : x # m /\ x # n => disk'[x] = disk[x] \/ x \in deletable
    BY <1>4, <2>1
  <2>3. cur[n].c = disk[n].c
    BY <1>4 DEF ItemChanged, IsEquivalent, Size
  <2>4. item = Absent \/ disk'[m].c = disk[n].c
    BY <1>2, <1>4, <2>1, <2>3
  <2>5. ContentKept(n)
    BY <1>4, <2>4 DEF ContentKept
  <2>6. disk[m].type = "file" => ~ItemChanged(m)
    BY <1>4 DEF ItemChanged, IsEquivalent
  <2>7. ContentKept(m)
    <3>1. CASE disk[m].type = "file"
      BY <1>4, <2>6, <3>1, RemovedIsKept
    <3>2. CASE disk[m].type # "file"
      BY <3>2 DEF ContentKept
    <3>3. QED
      BY <3>1, <3>2
  <2>8. QED
    BY <1>4, <2>2, <2>5, <2>7, StaysOnDisk, MovedForConflict
<1>5. CASE /\ disk' = [disk EXCEPT ![n] = Absent] /\ saved' = saved \union {disk[n].c}
           /\ copies' = copies
  <2>1. ContentKept(n)
    BY <1>5 DEF ContentKept
  <2>2. \A x \in ItemNames : x # n => disk'[x] = disk[x]
    BY <1>5 DEF ItemTypes
  <2>3. QED
    BY <1>5, <2>1, <2>2, StaysOnDisk, CopiesStay
<1>6. QED
  BY <1>3, <1>4, <1>5 DEF RenameFile, Refuse

LEMMA ItemStepKeeps ==
    ASSUME ~SameSize, ItemTypes, [ItemNext]_itemVars, clock' = clock
    PROVE  \A n \in ItemNames : ContentKept(n) /\ CopiesKept(n)
<1>1. CASE Handle
  BY <1>1, HandlerKeeps, RenameKeeps DEF Handle
<1>2. CASE Environment
  BY <1>2, WorldTypes
<1>3. CASE disk' = disk /\ copies' = copies
  BY <1>3, StaysOnDisk, CopiesStay
<1>4. QED
  BY <1>1, <1>2, <1>3 DEF ItemNext, CrashItems, Commit, Scan, itemVars

\* No handler removes a file's content that the database does not know, and
\* none that lost a conflict, without keeping it, and a conflict copy goes only
\* if MaxConflicts newer ones replace it; for any tree of items, with a versioner
\* or without, any number of conflict copies, and with crashes in between; as
\* long as contents of the same size and time are the same, which is what
\* scanIfItemChanged relies on. Excepted are, as in the code, files in a deleted
\* directory that a pattern says may go, and files in conflict that are conflict
\* copies themselves (moveForConflict).
THEOREM ContentIsKept == ~SameSize => (ItemSpec => KeepsContent)
<1> SUFFICES ASSUME ~SameSize PROVE ItemSpec => KeepsContent
  OBVIOUS
<1>1. ItemInit => ItemTypes
  <2>1. <<>> \in Seq(Nat) /\ <<0>> \in Seq(Nat)
    OBVIOUS
  <2>2. ASSUME ItemInit PROVE copies \in [ItemNames -> Seq(Nat)]
    <3>1. PICK before \in {<<>>, <<0>>} : copies = [n \in ItemNames |-> before]
      BY <2>2 DEF ItemInit
    <3>2. before \in Seq(Nat)
      BY <2>1, <3>1
    <3>3. QED
      BY <3>1, <3>2
  <2>3. QED
    BY <2>2 DEF ItemInit, ItemTypes, Absent, Items
<1>2. ItemTypes /\ [ItemNext]_itemVars =>
        [clock' = clock =>
         \A n \in ItemNames :
          LET c == disk[n].c IN
          /\ disk[n].type = "file" /\ ~(\E m \in ItemNames : disk'[m].c = c) =>
                \/ c \in saved'
                \/ \E i \in 1..Len(copies'[n]) : copies'[n][i] = c
                \/ n \in deletable
                \/ cur[n].c = c /\ (glob[n].conflict => \/ n \in ConflictNames
                                                      \/ MaxConflicts = 0)
          /\ \A i \in 1..Len(copies[n]) :
                \/ \E k \in {i, i + 1} \intersect (1..Len(copies'[n])) :
                      copies'[n][k] = copies[n][i]
                \/ i >= MaxConflicts /\ MaxConflicts > -1]_itemVars
  BY ItemStepKeeps DEF ContentKept, CopiesKept
<1>3. QED
  BY <1>1, <1>2, ItemStepTypes, PTL DEF ItemSpec, KeepsContent

-----------------------------------------------------------------------------
(* Types of folders.                                                       *)

ItemRows == [data : Nat, mod : Nat, del : BOOLEAN, ver : [Counters -> Nat],
             ro : BOOLEAN, ign : BOOLEAN]

KindTypes ==
    /\ ours \in ItemRows \union {NoItem} /\ theirs \in ItemRows \union {NoItem}
    /\ onDisk \in Nat /\ user \in Nat /\ ftype \in FolderTypes

\* A row is not the absence of one.
LEMMA ItemRowIsSome ==
    ASSUME NEW r \in ItemRows PROVE r # NoItem
<1>1. "data" \in DOMAIN r
  BY DEF ItemRows
<1>2. "data" \notin DOMAIN NoItem
  BY DEF NoItem
<1>3. QED
  BY <1>1, <1>2

LEMMA VectorsTyped ==
    ASSUME NEW v \in [Counters -> Nat], NEW w \in [Counters -> Nat], KindTypes,
           NEW i \in Counters
    PROVE  /\ VectorUpdate(v, i, Now) \in [Counters -> Nat]
           /\ VectorUpdate(v, i, 0) \in [Counters -> Nat]
           /\ VectorMerge(v, w) \in [Counters -> Nat]
           /\ DropOthers(v, i) \in [Counters -> Nat]
           /\ EmptyVector \in [Counters -> Nat]
<1>1. Now \in Nat /\ v[i] \in Nat /\ v[i] + 1 \in Nat
  BY DEF KindTypes, Now
<1>2. EmptyVector \in [Counters -> Nat]
  BY DEF EmptyVector
<1>3. DropOthers(v, i) \in [Counters -> Nat]
  BY <1>1, <1>2 DEF DropOthers
<1>4. VectorMerge(v, w) \in [Counters -> Nat]
  BY DEF VectorMerge
<1>5. VectorUpdate(v, i, Now) \in [Counters -> Nat] /\ VectorUpdate(v, i, 0) \in [Counters -> Nat]
  BY <1>1 DEF VectorUpdate
<1>6. QED
  BY <1>2, <1>3, <1>4, <1>5

\* What the operators that make rows of rows do to the fields.
LEMMA RowEdits ==
    ASSUME KindTypes, NEW r \in ItemRows, NEW mod \in Nat
    PROVE  /\ /\ SetDeleted(r, mod) \in ItemRows /\ SetDeleted(r, mod).del
              /\ SetDeleted(r, mod).ro = r.ro /\ SetDeleted(r, mod).ign = r.ign
           /\ SetIgnored(r) \in ItemRows /\ SetIgnored(r).ign
           /\ /\ [r EXCEPT !.ver = EmptyVector] \in ItemRows
              /\ [r EXCEPT !.ver = EmptyVector].ver = EmptyVector
           /\ /\ [r EXCEPT !.ro = FALSE] \in ItemRows /\ [r EXCEPT !.ro = FALSE].del = r.del
              /\ ~[r EXCEPT !.ro = FALSE].ro
<1>1. r.ver \in [Counters -> Nat] /\ Us \in Counters
  BY KindsAssumption DEF ItemRows
<1>2. VectorUpdate(r.ver, Us, Now) \in [Counters -> Nat] /\ EmptyVector \in [Counters -> Nat]
  BY <1>1, VectorsTyped
<1>3. SetIgnored(r) \in ItemRows /\ SetIgnored(r).ign
  BY DEF SetIgnored, ItemRows, Nothing
<1>4. /\ [r EXCEPT !.ver = EmptyVector] \in ItemRows
      /\ [r EXCEPT !.ver = EmptyVector].ver = EmptyVector
  BY <1>2 DEF ItemRows
<1>5. /\ [r EXCEPT !.ro = FALSE] \in ItemRows /\ [r EXCEPT !.ro = FALSE].del = r.del
      /\ ~[r EXCEPT !.ro = FALSE].ro
  BY DEF ItemRows
<1>6. /\ SetDeleted(r, mod) \in ItemRows /\ SetDeleted(r, mod).del
      /\ SetDeleted(r, mod).ro = r.ro /\ SetDeleted(r, mod).ign = r.ign
  <2> DEFINE w == VectorUpdate(r.ver, Us, Now)
  <2>1. SetDeleted(r, mod) = [r EXCEPT !.data = 0, !.mod = mod, !.del = TRUE, !.ver = w]
    BY DEF SetDeleted, Nothing
  <2>2. w \in [Counters -> Nat]
    BY <1>2
  <2> HIDE DEF w
  <2>3. SetDeleted(r, mod) \in ItemRows
    <3>1. SetDeleted(r, mod) = [data |-> 0, mod |-> mod, del |-> TRUE, ver |-> w,
                                ro |-> r.ro, ign |-> r.ign]
      BY <2>1 DEF ItemRows
    <3>2. r.ro \in BOOLEAN /\ r.ign \in BOOLEAN
      BY DEF ItemRows
    <3>3. QED
      BY <2>2, <3>1, <3>2 DEF ItemRows
  <2>4. SetDeleted(r, mod).del
    BY <2>1 DEF ItemRows
  <2>5. SetDeleted(r, mod).ro = r.ro
    BY <2>1 DEF ItemRows
  <2>6. SetDeleted(r, mod).ign = r.ign
    BY <2>1 DEF ItemRows
  <2>7. QED
    BY <2>3, <2>4, <2>5, <2>6
<1>7. QED
  BY <1>3, <1>4, <1>5, <1>6

LEMMA GlobalIsARow ==
    /\ GlobalFile \in {ours, theirs}
    /\ ours # NoItem => GlobalFile # NoItem
BY DEF GlobalFile

LEMMA BatchGives ==
    ASSUME NEW fi
    PROVE  BatchUpdate(fi) \in {fi, NoItem, GlobalFile}
<1>1. CASE GlobalFile = NoItem
  BY <1>1 DEF BatchUpdate
<1>2. CASE GlobalFile # NoItem /\ GlobalFile.ro
  BY <1>2 DEF BatchUpdate
<1>3. CASE GlobalFile # NoItem /\ ~GlobalFile.ro
  BY <1>3 DEF BatchUpdate
<1>4. QED
  BY <1>1, <1>2, <1>3

LEMMA WalkedTyped ==
    ASSUME KindTypes
    PROVE  Walked \in ItemRows /\ Walked.ro = FlagReceiveOnly
<1> DEFINE was == IF ours = NoItem THEN EmptyVector ELSE ours.ver
           ver == VectorUpdate(was, Us, Now)
           drop == ours # NoItem /\ IsInvalid(ours) /\ ~FlagReceiveOnly
           w == IF drop THEN DropOthers(ver, Us) ELSE ver
<1>1. was \in [Counters -> Nat]
  <2>1. CASE ours = NoItem
    BY <2>1 DEF EmptyVector
  <2>2. CASE ours \in ItemRows
    BY <2>2, ItemRowIsSome DEF ItemRows
  <2>3. QED
    BY <2>1, <2>2 DEF KindTypes
<1> HIDE DEF was
<1>2. ver \in [Counters -> Nat]
  BY <1>1, VectorsTyped, KindsAssumption
<1> HIDE DEF ver
<1>3. w \in [Counters -> Nat]
  BY <1>2, VectorsTyped, KindsAssumption
<1>4. Walked = [data |-> onDisk, mod |-> onDisk, del |-> FALSE, ver |-> w,
                ro |-> FlagReceiveOnly, ign |-> FALSE]
  BY DEF Walked, Row, w, drop, ver, was
<1> HIDE DEF w
<1>5. FlagReceiveOnly \in BOOLEAN /\ onDisk \in Nat
  BY DEF FlagReceiveOnly, KindTypes
<1>6. QED
  BY <1>3, <1>4, <1>5 DEF ItemRows

LEMMA NoLongerTyped ==
    ASSUME KindTypes, ours \in ItemRows, NEW mod \in Nat
    PROVE  NoLongerThere(mod) \in ItemRows /\ NoLongerThere(mod).ro = FlagReceiveOnly
<1> DEFINE d == SetDeleted(ours, mod)
           nf == [d EXCEPT !.ro = FlagReceiveOnly, !.ign = FALSE]
<1>1. d \in ItemRows
  BY RowEdits
<1>2. FlagReceiveOnly \in BOOLEAN
  BY DEF FlagReceiveOnly
<1>3. NoLongerThere(mod) = IF IsInvalid(ours) THEN [nf EXCEPT !.ver = EmptyVector] ELSE nf
  BY DEF NoLongerThere
<1> HIDE DEF d
<1>4. nf \in ItemRows
  BY <1>1, <1>2 DEF ItemRows
<1>5. nf.ro = FlagReceiveOnly
  BY <1>1 DEF ItemRows
<1> HIDE DEF nf
<1>6. [nf EXCEPT !.ver = EmptyVector] \in ItemRows
  BY <1>4, RowEdits
<1>7. [nf EXCEPT !.ver = EmptyVector].ro = nf.ro
  BY <1>4 DEF ItemRows
<1>8. QED
  BY <1>3, <1>4, <1>5, <1>6, <1>7

LEMMA StillDeletedGives ==
    ASSUME ours # NoItem
    PROVE  StillDeleted \in {ours, [ours EXCEPT !.ro = FALSE], NoItem, GlobalFile}
<1>1. BatchUpdate([ours EXCEPT !.ro = FALSE]) \in {[ours EXCEPT !.ro = FALSE], NoItem, GlobalFile}
  BY BatchGives
<1>2. QED
  BY <1>1 DEF StillDeleted

LEMMA ScanTypes ==
    ASSUME KindTypes, ScanChangedAndNew \/ ScanDeletedAndIgnored
    PROVE  ours' \in ItemRows \union {NoItem}
<1>1. GlobalFile \in ItemRows \union {NoItem} /\ ours \in ItemRows \union {NoItem}
  BY GlobalIsARow DEF KindTypes
<1>2. \A fi \in ItemRows : BatchUpdate(fi) \in ItemRows \union {NoItem}
  BY <1>1, BatchGives
<1>3. CASE ScanChangedAndNew
  <2>1. ours' \in {ours, BatchUpdate(Walked)}
    BY <1>3 DEF ScanChangedAndNew
  <2>2. QED
    BY <1>1, <1>2, <2>1, WalkedTyped
<1>4. CASE ScanDeletedAndIgnored
  <2>1. CASE ours # NoItem /\ ours' = BatchUpdate(SetIgnored(ours))
    <3>1. SetIgnored(ours) \in ItemRows
      BY <1>1, <2>1, RowEdits
    <3>2. QED
      BY <1>2, <2>1, <3>1
  <2>2. CASE ours # NoItem /\ \E mod \in Contents : ours' = BatchUpdate(NoLongerThere(mod))
    <3>1. PICK mod \in Contents : ours' = BatchUpdate(NoLongerThere(mod))
      BY <2>2
    <3>2. NoLongerThere(mod) \in ItemRows
      BY <1>1, <2>2, NoLongerTyped, KindsAssumption
    <3>3. QED
      BY <1>2, <3>1, <3>2
  <2>3. CASE ours # NoItem /\ ours' = StillDeleted
    <3>1. [ours EXCEPT !.ro = FALSE] \in ItemRows
      BY <1>1, <2>3, RowEdits
    <3>2. QED
      BY <1>1, <2>3, <3>1, StillDeletedGives
  <2>4. CASE ours' = ours
    BY <1>1, <2>4
  <2>5. QED
    BY <1>4, <2>1, <2>2, <2>3, <2>4 DEF ScanDeletedAndIgnored
<1>5. QED
  BY <1>3, <1>4

LEMMA PullTypes ==
    ASSUME KindTypes, PullReceive \/ PullSendOnly \/ Override
    PROVE  ours' \in ItemRows \union {NoItem} /\ onDisk' \in Nat
<1>1. ours \in ItemRows \union {NoItem} /\ theirs \in ItemRows /\ onDisk \in Nat
  BY DEF KindTypes, PullReceive, PullSendOnly, Override, ItemNeeded, NeedsIt
<1>2. SetIgnored(theirs) \in ItemRows /\ theirs.data \in Nat
  BY <1>1, RowEdits DEF ItemRows
<1>3. CASE PullReceive
  BY <1>1, <1>2, <1>3 DEF PullReceive
<1>4. CASE PullSendOnly
  BY <1>1, <1>2, <1>4 DEF PullSendOnly
<1>5. CASE Override
  <2>1. ASSUME NEW mod \in Contents, ours' = SetDeleted(theirs, mod) PROVE ours' \in ItemRows
    BY <1>1, <2>1, RowEdits, KindsAssumption
  <2>2. ASSUME ours # NoItem,
               ours' = [ours EXCEPT !.ver = VectorUpdate(VectorMerge(@, theirs.ver), Us, Now)]
        PROVE  ours' \in ItemRows
    <3> DEFINE w == VectorUpdate(VectorMerge(ours.ver, theirs.ver), Us, Now)
    <3>1. ours \in ItemRows
      BY <1>1, <2>2
    <3>2. ours.ver \in [Counters -> Nat] /\ theirs.ver \in [Counters -> Nat]
      BY <1>1, <3>1 DEF ItemRows
    <3>3. Us \in Counters
      BY KindsAssumption
    <3>4. VectorMerge(ours.ver, theirs.ver) \in [Counters -> Nat]
      BY <3>2, <3>3, VectorsTyped
    <3>5. w \in [Counters -> Nat]
      BY <3>3, <3>4, VectorsTyped
    <3>6. ours' = [ours EXCEPT !.ver = w]
      BY <2>2
    <3> HIDE DEF w
    <3>7. QED
      BY <3>1, <3>5, <3>6 DEF ItemRows
  <2>3. onDisk' = onDisk
    BY <1>5 DEF Override
  <2>4. QED
    BY <1>1, <1>5, <2>1, <2>2, <2>3 DEF Override
<1>6. QED
  BY <1>3, <1>4, <1>5

LEMMA RevertTypes ==
    ASSUME KindTypes, RevertReceiveOnly \/ RevertReceiveEncrypted
    PROVE  ours' \in ItemRows \union {NoItem} /\ onDisk' \in Nat
<1> DEFINE plain == [ours EXCEPT !.ro = FALSE]
<1>1. ours \in ItemRows /\ onDisk \in Nat
  BY DEF KindTypes, RevertReceiveOnly, RevertReceiveEncrypted
<1>2. plain \in ItemRows
  BY <1>1, RowEdits
<1>3. CASE RevertReceiveOnly
  <2>1. \/ ours' = [plain EXCEPT !.ver = EmptyVector] /\ onDisk' = onDisk
        \/ /\ onDisk' = Nothing
           /\ \E mod \in Contents : ours' = [SetDeleted(plain, mod) EXCEPT !.ver = EmptyVector]
        \/ ours' = GlobalFile /\ onDisk' = onDisk
    BY <1>3 DEF RevertReceiveOnly
  <2> HIDE DEF plain
  <2>2. [plain EXCEPT !.ver = EmptyVector] \in ItemRows
    BY <1>2, RowEdits
  <2>3. \A mod \in Contents : [SetDeleted(plain, mod) EXCEPT !.ver = EmptyVector] \in ItemRows
    BY <1>2, RowEdits, KindsAssumption
  <2>4. GlobalFile \in ItemRows \union {NoItem}
    BY GlobalIsARow DEF KindTypes
  <2>5. onDisk' \in Nat
    <3>1. onDisk' \in {onDisk, Nothing}
      BY <1>3 DEF RevertReceiveOnly
    <3>2. QED
      BY <1>1, <3>1 DEF Nothing
  <2>6. ours' \in ItemRows \union {NoItem}
    BY <2>1, <2>2, <2>3, <2>4
  <2>7. QED
    BY <2>5, <2>6
<1>4. CASE RevertReceiveEncrypted
  <2>1. \A mod \in Contents : [SetDeleted(ours, mod) EXCEPT !.ver = EmptyVector] \in ItemRows
    BY <1>1, RowEdits, KindsAssumption
  <2>2. QED
    BY <1>1, <1>4, <2>1 DEF RevertReceiveEncrypted, Nothing
<1>5. QED
  BY <1>3, <1>4

LEMMA PeerTypes ==
    ASSUME KindTypes, PeerChanges \/ PeerPulls
    PROVE  theirs' \in ItemRows \union {NoItem}
<1>1. CASE PeerPulls
  <2>1. CASE ours = NoItem
    BY <1>1, <2>1 DEF PeerPulls, Announced
  <2>2. CASE ours \in ItemRows
    <3>1. [ours EXCEPT !.ver = EmptyVector] \in ItemRows
      BY <2>2, RowEdits
    <3>2. QED
      BY <1>1, <2>2, <3>1 DEF PeerPulls, Announced
  <2>3. QED
    BY <2>1, <2>2 DEF KindTypes
<1>2. CASE PeerChanges
  <2> DEFINE was == IF theirs = NoItem THEN EmptyVector ELSE theirs.ver
             w == VectorUpdate(was, Peer, 0)
  <2>1. was \in [Counters -> Nat]
    <3>1. CASE theirs = NoItem
      BY <3>1 DEF EmptyVector
    <3>2. CASE theirs \in ItemRows
      BY <3>2, ItemRowIsSome DEF ItemRows
    <3>3. QED
      BY <3>1, <3>2 DEF KindTypes
  <2>2. \E c \in Contents : theirs' = Row(c, c, FALSE, w, FALSE)
                            \/ theirs' = Row(Nothing, c, TRUE, w, FALSE)
    BY <1>2 DEF PeerChanges
  <2> HIDE DEF was
  <2>3. w \in [Counters -> Nat]
    BY <2>1, VectorsTyped, KindsAssumption
  <2> HIDE DEF w
  <2>4. ASSUME NEW c \in Nat
        PROVE  Row(c, c, FALSE, w, FALSE) \in ItemRows /\ Row(Nothing, c, TRUE, w, FALSE) \in ItemRows
    BY <2>3 DEF Row, ItemRows, Nothing
  <2>5. QED
    BY <2>2, <2>4, KindsAssumption
<1>3. QED
  BY <1>1, <1>2

LEMMA KindStepTypes == KindTypes /\ [KindsNext]_kindVars => KindTypes'
<1> SUFFICES ASSUME KindTypes, [KindsNext]_kindVars PROVE KindTypes'
  OBVIOUS
<1>1. CASE ScanChangedAndNew \/ ScanDeletedAndIgnored
  <2>1. UNCHANGED <<ftype, onDisk, theirs, user>>
    BY <1>1 DEF ScanChangedAndNew, ScanDeletedAndIgnored
  <2>2. QED
    BY <1>1, <2>1, ScanTypes DEF KindTypes
<1>2. CASE PullReceive \/ PullSendOnly \/ Override
  <2>1. UNCHANGED <<ftype, theirs>> /\ user' \in {user, user + 1}
    BY <1>2 DEF PullReceive, PullSendOnly, Override
  <2>2. user' \in Nat
    BY <2>1 DEF KindTypes
  <2>3. QED
    BY <1>2, <2>1, <2>2, PullTypes DEF KindTypes
<1>3. CASE RevertReceiveOnly \/ RevertReceiveEncrypted
  <2>1. UNCHANGED <<ftype, theirs, user>>
    BY <1>3 DEF RevertReceiveOnly, RevertReceiveEncrypted
  <2>2. QED
    BY <1>3, <2>1, RevertTypes DEF KindTypes
<1>4. CASE UserChange \/ UserIgnores \/ UserRetypes
  <2>1. /\ UNCHANGED <<ours, theirs>> /\ user' = user + 1 /\ ftype' \in FolderTypes
        /\ onDisk' \in Contents \union {Nothing, onDisk}
    BY <1>4 DEF UserChange, UserIgnores, UserRetypes, KindTypes
  <2>2. onDisk' \in Nat
    BY <2>1, KindsAssumption DEF KindTypes, Nothing
  <2>3. user' \in Nat
    BY <2>1 DEF KindTypes
  <2>4. QED
    BY <2>1, <2>2, <2>3 DEF KindTypes
<1>5. CASE PeerChanges \/ PeerPulls
  <2>1. UNCHANGED <<ftype, onDisk, ours, user>>
    BY <1>5 DEF PeerChanges, PeerPulls
  <2>2. QED
    BY <1>5, <2>1, PeerTypes DEF KindTypes
<1>6. CASE UNCHANGED kindVars
  BY <1>6 DEF kindVars, KindTypes
<1>7. QED
  BY <1>1, <1>2, <1>3, <1>4, <1>5, <1>6 DEF KindsNext

\* What ReceiveOnlySilent asks of a step that changes our row.
Silent ==
    \/ Means(ours') \subseteq Means(ours) \union Means(theirs)
    \/ ours'.del /\ theirs.del

LEMMA MeansNothing ==
    ASSUME NEW r, r = NoItem \/ r.ro \/ r.ign \/ r.ver = EmptyVector
    PROVE  Means(r) = {}
BY DEF Means, IsInvalid

LEMMA SilentIf ==
    /\ ours' \in {ours, theirs} => Silent
    /\ (ours' = NoItem \/ ours'.ro \/ ours'.ign \/ ours'.ver = EmptyVector) => Silent
<1>1. ASSUME ours' \in {ours, theirs} PROVE Silent
  BY <1>1 DEF Silent
<1>2. ASSUME ours' = NoItem \/ ours'.ro \/ ours'.ign \/ ours'.ver = EmptyVector PROVE Silent
  <2>1. Means(ours') = {}
    BY <1>2, MeansNothing
  <2>2. QED
    BY <2>1 DEF Silent
<1>3. QED
  BY <1>1, <1>2

\* A scan of a folder that receives flags what it finds, ignores it or takes the
\* global version.
LEMMA ScansAreSilent ==
    ASSUME KindTypes, ftype \in Receiving, ScanChangedAndNew \/ ScanDeletedAndIgnored
    PROVE  Silent
<1>1. FlagReceiveOnly = TRUE
  BY DEF FlagReceiveOnly
<1>2. GlobalFile \in {ours, theirs}
  BY GlobalIsARow
<1>3. \A fi : (fi.ro \/ fi.ign) /\ ours' = BatchUpdate(fi) => Silent
  <2> TAKE fi
  <2>1. BatchUpdate(fi) \in {fi, NoItem, GlobalFile}
    BY BatchGives
  <2>2. QED
    BY <1>2, <2>1, SilentIf
<1>4. CASE ScanChangedAndNew
  <2>1. ours' = ours \/ ours' = BatchUpdate(Walked)
    BY <1>4 DEF ScanChangedAndNew
  <2>2. Walked.ro
    BY <1>1, WalkedTyped
  <2>3. QED
    BY <1>3, <2>1, <2>2, SilentIf
<1>5. CASE ScanDeletedAndIgnored
  <2>0. ours \in ItemRows \union {NoItem}
    BY DEF KindTypes
  <2>1. CASE ours # NoItem /\ ours' = BatchUpdate(SetIgnored(ours))
    <3>1. SetIgnored(ours).ign
      BY <2>0, <2>1, RowEdits
    <3>2. QED
      BY <1>3, <2>1, <3>1
  <2>2. CASE ours # NoItem /\ \E mod \in Contents : ours' = BatchUpdate(NoLongerThere(mod))
    <3>1. PICK mod \in Contents : ours' = BatchUpdate(NoLongerThere(mod))
      BY <2>2
    <3>2. NoLongerThere(mod).ro
      BY <1>1, <2>0, <2>2, NoLongerTyped, KindsAssumption
    <3>3. QED
      BY <1>3, <3>1, <3>2
  <2>3. CASE ours # NoItem /\ ours.del /\ ours.ro /\ ours' = StillDeleted
    <3> DEFINE plain == [ours EXCEPT !.ro = FALSE]
    <3>1. plain.del
      BY <2>0, <2>3, RowEdits
    <3>2. \/ ours' \in {NoItem, ours}
          \/ ~GlobalFile.ro /\ GlobalFile.del /\ ours' = BatchUpdate(plain)
      BY <2>3 DEF StillDeleted
    <3>3. BatchUpdate(plain) \in {plain, NoItem, GlobalFile}
      BY BatchGives
    <3> HIDE DEF plain
    <3>4. CASE ours' \in {NoItem, ours, GlobalFile}
      BY <1>2, <3>4, SilentIf
    <3>5. CASE ~GlobalFile.ro /\ GlobalFile.del /\ ours' = plain
      <4>1. GlobalFile = theirs
        BY <1>2, <2>3, <3>5
      <4>2. QED
        BY <3>1, <3>5, <4>1 DEF Silent
    <3>6. QED
      BY <3>2, <3>3, <3>4, <3>5
  <2>4. CASE ours' = ours
    BY <2>4, SilentIf
  <2>5. QED
    BY <1>5, <2>1, <2>2, <2>3, <2>4 DEF ScanDeletedAndIgnored
<1>6. QED
  BY <1>4, <1>5

\* So do pulls, and Revert makes what we have older than any other version.
LEMMA PullsAreSilent ==
    ASSUME KindTypes, PullReceive
    PROVE  Silent
<1>1. theirs \in ItemRows
  BY DEF KindTypes, PullReceive, ItemNeeded, NeedsIt
<1>2. SetIgnored(theirs).ign
  BY <1>1, RowEdits
<1>3. QED
  BY <1>2, SilentIf DEF PullReceive

LEMMA RevertIsSilent ==
    ASSUME KindTypes, RevertReceiveOnly \/ RevertReceiveEncrypted
    PROVE  Silent
<1> DEFINE plain == [ours EXCEPT !.ro = FALSE]
<1>1. ours \in ItemRows
  BY DEF KindTypes, RevertReceiveOnly, RevertReceiveEncrypted
<1>2. plain \in ItemRows
  BY <1>1, RowEdits
<1>3. \/ ours' = [plain EXCEPT !.ver = EmptyVector]
      \/ \E mod \in Contents : \/ ours' = [SetDeleted(plain, mod) EXCEPT !.ver = EmptyVector]
                               \/ ours' = [SetDeleted(ours, mod) EXCEPT !.ver = EmptyVector]
      \/ ours' = GlobalFile
  BY DEF RevertReceiveOnly, RevertReceiveEncrypted
<1> HIDE DEF plain
<1>4. [plain EXCEPT !.ver = EmptyVector].ver = EmptyVector
  BY <1>2, RowEdits
<1>5. \A mod \in Contents :
         /\ [SetDeleted(plain, mod) EXCEPT !.ver = EmptyVector].ver = EmptyVector
         /\ [SetDeleted(ours, mod) EXCEPT !.ver = EmptyVector].ver = EmptyVector
  BY <1>1, <1>2, RowEdits, KindsAssumption
<1>6. QED
  BY <1>3, <1>4, <1>5, GlobalIsARow, SilentIf

\* While a folder is receive-only or receive-encrypted no scan, pull, Revert or
\* change of ignore patterns gives the others a version they do not have, but
\* that of a deletion of what they have deleted: for any contents, types and
\* number of changes (updateLocalsFromScanning's scanBatch, receiveOnlyFolder,
\* receiveEncryptedFolder).
THEOREM ReceivingIsSilent == KindsSpec => ReceiveOnlySilent
<1>1. KindsInit => KindTypes
  BY DEF KindsInit, KindTypes, Nothing
<1>2. KindTypes /\ [KindsNext]_kindVars =>
        [(ftype \in Receiving) /\ ftype' = ftype /\ ours' # ours =>
         \/ Means(ours') \subseteq Means(ours) \union Means(theirs)
         \/ ours'.del /\ theirs.del]_kindVars
  <2> SUFFICES ASSUME KindTypes, KindsNext, ftype \in Receiving, ftype' = ftype, ours' # ours
               PROVE  Silent
    BY DEF Silent, kindVars
  <2>1. ftype # "sendonly"
    BY DEF Receiving
  <2>2. ~PullSendOnly /\ ~Override
    BY <2>1 DEF PullSendOnly, Override
  <2>3. ~(UserChange \/ UserIgnores \/ UserRetypes \/ PeerChanges \/ PeerPulls)
    BY DEF UserChange, UserIgnores, UserRetypes, PeerChanges, PeerPulls
  <2>4. QED
    BY <2>2, <2>3, ScansAreSilent, PullsAreSilent, RevertIsSilent DEF KindsNext
<1>3. QED
  BY <1>1, <1>2, KindStepTypes, PTL DEF KindsSpec, ReceiveOnlySilent

-----------------------------------------------------------------------------
(* Versions and contents of an item.                                       *)

Counted(r, i) == IF r = NoItem THEN 0 ELSE r.ver[i]

\* What the fields of a row say together.
Shaped(r) ==
    /\ ~(r.ro /\ r.ign)
    /\ ~r.ign => (r.data = Nothing <=> r.del) /\ (~r.del => r.mod = r.data)

Shapes ==
    /\ ours # NoItem => Shaped(ours)
    /\ theirs # NoItem => Shaped(theirs) /\ ~theirs.ro /\ ~theirs.ign

\* No half of a scan makes a version of what is on disk as it is.
Settled ==
    \/ ignoring
    \/ onDisk = Nothing /\ (ours = NoItem \/ (ours.del /\ ~ours.ign))
    \/ /\ onDisk # Nothing /\ ours # NoItem
       /\ ~ours.del /\ ~ours.ign /\ (ours.ro => FlagReceiveOnly)
       /\ ours.data = onDisk /\ ours.mod = onDisk

\* Versions do not run ahead of the clock, and one that has the clock's time
\* is the last until the user does something; the peer counts for itself.
Clocked ==
    /\ Counted(ours, Us) <= Now /\ Counted(theirs, Us) <= Now
    /\ Counted(ours, Us) = Now => Settled
    /\ Counted(theirs, Us) = Now => Settled /\ (ours # NoItem => ~ours.ro)
    /\ Counted(ours, Peer) <= Counted(theirs, Peer)

\* VersionMeansContent, for flagged rows too: the flag may be cleared.
Alike ==
    ours # NoItem /\ theirs # NoItem /\ ~ours.ign
      /\ ours.ver = theirs.ver /\ ours.ver # EmptyVector
      => ours.data = theirs.data /\ ours.del = theirs.del

KindInv == KindTypes /\ Shapes /\ Clocked /\ Alike

LEMMA CountedIsNat ==
    ASSUME KindTypes
    PROVE  /\ Counted(ours, Us) \in Nat /\ Counted(ours, Peer) \in Nat
           /\ Counted(theirs, Us) \in Nat /\ Counted(theirs, Peer) \in Nat
           /\ Now \in Nat /\ user \in Nat /\ Now = user + 1
<1>1. Us \in Counters /\ Peer \in Counters
  BY KindsAssumption
<1>2. ASSUME NEW r \in ItemRows \union {NoItem}
      PROVE  Counted(r, Us) \in Nat /\ Counted(r, Peer) \in Nat
  <2>1. CASE r = NoItem
    BY <2>1 DEF Counted
  <2>2. CASE r \in ItemRows
    BY <1>1, <2>2, ItemRowIsSome DEF Counted, ItemRows
  <2>3. QED
    BY <2>1, <2>2
<1>3. QED
  BY <1>2 DEF KindTypes, Now

LEMMA VectorCounts ==
    ASSUME KindTypes, NEW v \in [Counters -> Nat], NEW w \in [Counters -> Nat]
    PROVE  /\ VectorUpdate(v, Us, Now)[Us] = IF v[Us] + 1 > Now THEN v[Us] + 1 ELSE Now
           /\ VectorUpdate(v, Us, Now)[Peer] = v[Peer]
           /\ VectorUpdate(v, Peer, 0)[Peer] = v[Peer] + 1
           /\ VectorUpdate(v, Peer, 0)[Us] = v[Us]
           /\ VectorMerge(v, w)[Us] = IF v[Us] > w[Us] THEN v[Us] ELSE w[Us]
           /\ VectorMerge(v, w)[Peer] = IF v[Peer] > w[Peer] THEN v[Peer] ELSE w[Peer]
           /\ DropOthers(v, Us)[Us] = v[Us] /\ DropOthers(v, Us)[Peer] = 0
           /\ EmptyVector[Us] = 0 /\ EmptyVector[Peer] = 0
<1>1. Us \in Counters /\ Peer \in Counters /\ Us # Peer
  BY KindsAssumption DEF Us, Peer
<1>2. EmptyVector[Us] = 0 /\ EmptyVector[Peer] = 0
  BY <1>1 DEF EmptyVector
<1>3. DropOthers(v, Us)[Us] = v[Us] /\ DropOthers(v, Us)[Peer] = 0
  BY <1>1 DEF DropOthers, EmptyVector
<1>4. /\ VectorMerge(v, w)[Us] = IF v[Us] > w[Us] THEN v[Us] ELSE w[Us]
      /\ VectorMerge(v, w)[Peer] = IF v[Peer] > w[Peer] THEN v[Peer] ELSE w[Peer]
  BY <1>1 DEF VectorMerge
<1>5. /\ VectorUpdate(v, Us, Now)[Us] = IF v[Us] + 1 > Now THEN v[Us] + 1 ELSE Now
      /\ VectorUpdate(v, Us, Now)[Peer] = v[Peer]
  BY <1>1 DEF VectorUpdate
<1>6. v[Peer] \in Nat
  BY <1>1
<1>7. /\ VectorUpdate(v, Peer, 0)[Peer] = v[Peer] + 1
      /\ VectorUpdate(v, Peer, 0)[Us] = v[Us]
  BY <1>1, <1>6 DEF VectorUpdate
<1> QED
  BY <1>2, <1>3, <1>4, <1>5, <1>7

\* A step that changes our row only, and maybe what is on disk.
LEMMA OurStep ==
    ASSUME KindInv, KindTypes', UNCHANGED <<theirs, user>>,
           ours' # NoItem =>
             /\ Shaped(ours')
             /\ \/ ours'.ver = EmptyVector
                \/ /\ ours'.ver[Us] = Now /\ ours'.ver[Peer] <= Counted(ours, Peer)
                   /\ Counted(theirs, Us) < Now /\ Settled'
                \/ /\ ours # NoItem /\ ours'.ver = ours.ver
                   /\ ours'.ign \/ (~ours.ign /\ ours'.data = ours.data /\ ours'.del = ours.del)
                   /\ Counted(ours, Us) = Now => Settled'
                \/ /\ theirs # NoItem /\ ours'.ver = theirs.ver
                   /\ ours'.ign \/ (ours'.data = theirs.data /\ ours'.del = theirs.del),
           Counted(theirs, Us) = Now => Settled' /\ (ours' # NoItem => ~ours'.ro)
    PROVE  KindInv'
<1>1. Now' = Now /\ Counted(theirs, Us)' = Counted(theirs, Us)
      /\ Counted(theirs, Peer)' = Counted(theirs, Peer) /\ theirs' = theirs
  BY DEF Now, Counted
<1>2. Shapes'
  BY <1>1 DEF KindInv, Shapes, Shaped
<1>3. /\ Counted(ours, Us) \in Nat /\ Counted(ours, Peer) \in Nat
      /\ Counted(theirs, Us) \in Nat /\ Counted(theirs, Peer) \in Nat /\ Now \in Nat /\ Now > 0
  BY CountedIsNat DEF KindInv
<1>4. EmptyVector[Us] = 0 /\ EmptyVector[Peer] = 0
  BY KindsAssumption DEF EmptyVector
<1>5. CASE ours' = NoItem
  <2>1. Counted(ours, Us)' = 0 /\ Counted(ours, Peer)' = 0
    BY <1>5 DEF Counted
  <2>2. Clocked'
    BY <1>1, <1>3, <1>5, <2>1 DEF Clocked, KindInv
  <2>3. QED
    BY <1>2, <1>5, <2>2 DEF KindInv, Alike
<1>6. CASE ours' # NoItem
  <2>0. Counted(ours, Us)' = ours'.ver[Us] /\ Counted(ours, Peer)' = ours'.ver[Peer]
    BY <1>6 DEF Counted
  <2>1. CASE ours'.ver = EmptyVector
    <3>1. Clocked'
      BY <1>1, <1>3, <1>4, <1>6, <2>0, <2>1 DEF Clocked, KindInv
    <3>2. Alike'
      BY <2>1 DEF Alike
    <3>3. QED
      BY <1>2, <3>1, <3>2 DEF KindInv
  <2>2. CASE /\ ours'.ver[Us] = Now /\ ours'.ver[Peer] <= Counted(ours, Peer)
             /\ Counted(theirs, Us) < Now /\ Settled'
    <3>0. ours'.ver[Peer] \in Nat
      BY <1>6, KindsAssumption DEF KindTypes, ItemRows
    <3>1. Clocked'
      BY <1>1, <1>3, <1>6, <2>0, <2>2, <3>0 DEF Clocked, KindInv
    <3>2. theirs # NoItem => theirs.ver[Us] # Now
      BY <1>3, <2>2 DEF Counted
    <3>3. Alike'
      BY <1>1, <2>2, <3>2 DEF Alike
    <3>4. QED
      BY <1>2, <3>1, <3>3 DEF KindInv
  <2>3. CASE /\ ours # NoItem /\ ours'.ver = ours.ver
             /\ ours'.ign \/ (~ours.ign /\ ours'.data = ours.data /\ ours'.del = ours.del)
             /\ Counted(ours, Us) = Now => Settled'
    <3>1. Counted(ours, Us)' = Counted(ours, Us) /\ Counted(ours, Peer)' = Counted(ours, Peer)
      BY <2>0, <2>3 DEF Counted
    <3>2. Clocked'
      BY <1>1, <1>3, <1>6, <2>3, <3>1 DEF Clocked, KindInv
    <3>3. Alike'
      BY <1>1, <2>3 DEF Alike, KindInv
    <3>4. QED
      BY <1>2, <3>2, <3>3 DEF KindInv
  <2>4. CASE /\ theirs # NoItem /\ ours'.ver = theirs.ver
             /\ ours'.ign \/ (ours'.data = theirs.data /\ ours'.del = theirs.del)
    <3>1. Counted(ours, Us)' = Counted(theirs, Us) /\ Counted(ours, Peer)' = Counted(theirs, Peer)
      BY <2>0, <2>4 DEF Counted
    <3>2. Clocked'
      BY <1>1, <1>3, <1>6, <3>1 DEF Clocked, KindInv
    <3>3. Alike'
      BY <1>1, <2>4 DEF Alike
    <3>4. QED
      BY <1>2, <3>2, <3>3 DEF KindInv
  <2>5. QED
    BY <1>6, <2>1, <2>2, <2>3, <2>4
<1>7. QED
  BY <1>5, <1>6

LEMMA SameRows ==
    ASSUME KindInv, KindTypes', UNCHANGED <<ftype, ignoring, onDisk, ours, theirs, user>>
    PROVE  KindInv'
BY DEF KindInv, KindTypes, Shapes, Shaped, Clocked, Counted, Settled, Alike, Now, FlagReceiveOnly

\* While something on disk is not settled no version has the clock's time.
LEMMA NotYet ==
    ASSUME KindInv, ~Settled
    PROVE  Counted(ours, Us) < Now /\ Counted(theirs, Us) < Now
BY CountedIsNat DEF KindInv, Clocked

LEMMA WalkedFields ==
    ASSUME KindTypes
    PROVE  /\ Walked.data = onDisk /\ Walked.mod = onDisk /\ Walked.del = FALSE
           /\ Walked.ro = FlagReceiveOnly /\ Walked.ign = FALSE
           /\ Walked.ver[Us] = IF Counted(ours, Us) + 1 > Now THEN Counted(ours, Us) + 1 ELSE Now
           /\ Walked.ver[Peer] <= Counted(ours, Peer)
<1> DEFINE was == IF ours = NoItem THEN EmptyVector ELSE ours.ver
           ver == VectorUpdate(was, Us, Now)
           drop == ours # NoItem /\ IsInvalid(ours) /\ ~FlagReceiveOnly
           w == IF drop THEN DropOthers(ver, Us) ELSE ver
<1>1. was \in [Counters -> Nat] /\ was[Us] = Counted(ours, Us) /\ was[Peer] = Counted(ours, Peer)
  <2>1. CASE ours = NoItem
    BY <2>1, KindsAssumption DEF EmptyVector, Counted
  <2>2. CASE ours \in ItemRows
    BY <2>2, ItemRowIsSome DEF ItemRows, Counted
  <2>3. QED
    BY <2>1, <2>2 DEF KindTypes
<1> HIDE DEF was
<1>2. /\ ver \in [Counters -> Nat]
      /\ ver[Us] = IF Counted(ours, Us) + 1 > Now THEN Counted(ours, Us) + 1 ELSE Now
      /\ ver[Peer] = Counted(ours, Peer)
  BY <1>1, VectorsTyped, VectorCounts, KindsAssumption
<1> HIDE DEF ver
<1>3. w[Us] = ver[Us] /\ w[Peer] \in {0, ver[Peer]}
  BY <1>2, VectorCounts
<1>4. Walked = [data |-> onDisk, mod |-> onDisk, del |-> FALSE, ver |-> w,
                ro |-> FlagReceiveOnly, ign |-> FALSE]
  BY DEF Walked, Row, w, drop, ver, was
<1> HIDE DEF w
<1>5. w[Peer] <= Counted(ours, Peer)
  BY <1>2, <1>3, CountedIsNat
<1>6. QED
  BY <1>2, <1>3, <1>4, <1>5

LEMMA DeletedFields ==
    ASSUME KindTypes, NEW r \in ItemRows, NEW mod \in Nat
    PROVE  /\ SetDeleted(r, mod) \in ItemRows
           /\ SetDeleted(r, mod).del /\ SetDeleted(r, mod).data = Nothing
           /\ SetDeleted(r, mod).ro = r.ro /\ SetDeleted(r, mod).ign = r.ign
           /\ SetDeleted(r, mod).ver[Us] =
                 IF Counted(r, Us) + 1 > Now THEN Counted(r, Us) + 1 ELSE Now
           /\ SetDeleted(r, mod).ver[Peer] = Counted(r, Peer)
<1> DEFINE w == VectorUpdate(r.ver, Us, Now)
<1>1. /\ r.ver \in [Counters -> Nat] /\ Counted(r, Us) = r.ver[Us]
      /\ Counted(r, Peer) = r.ver[Peer]
  BY ItemRowIsSome DEF ItemRows, Counted
<1>2. /\ w[Us] = IF Counted(r, Us) + 1 > Now THEN Counted(r, Us) + 1 ELSE Now
      /\ w[Peer] = Counted(r, Peer)
  BY <1>1, VectorCounts
<1>3. SetDeleted(r, mod) = [r EXCEPT !.data = Nothing, !.mod = mod, !.del = TRUE, !.ver = w]
  BY DEF SetDeleted
<1> HIDE DEF w
<1>4. SetDeleted(r, mod).data = Nothing /\ SetDeleted(r, mod).ver = w
  BY <1>3 DEF ItemRows
<1>5. QED
  BY <1>2, <1>4, RowEdits

LEMMA NoLongerFields ==
    ASSUME KindTypes, ours \in ItemRows, NEW mod \in Nat
    PROVE  /\ NoLongerThere(mod).data = Nothing /\ NoLongerThere(mod).del
           /\ NoLongerThere(mod).ro = FlagReceiveOnly /\ ~NoLongerThere(mod).ign
           /\ \/ NoLongerThere(mod).ver = EmptyVector
              \/ /\ NoLongerThere(mod).ver[Us] =
                       IF Counted(ours, Us) + 1 > Now THEN Counted(ours, Us) + 1 ELSE Now
                 /\ NoLongerThere(mod).ver[Peer] = Counted(ours, Peer)
<1> DEFINE d == SetDeleted(ours, mod)
           nf == [d EXCEPT !.ro = FlagReceiveOnly, !.ign = FALSE]
<1>1. /\ d \in ItemRows /\ d.del /\ d.data = Nothing
      /\ d.ver[Us] = IF Counted(ours, Us) + 1 > Now THEN Counted(ours, Us) + 1 ELSE Now
      /\ d.ver[Peer] = Counted(ours, Peer)
  BY DeletedFields
<1>2. NoLongerThere(mod) \in {nf, [nf EXCEPT !.ver = EmptyVector]}
  BY DEF NoLongerThere
<1>3. FlagReceiveOnly \in BOOLEAN
  BY DEF FlagReceiveOnly
<1> HIDE DEF d
<1>4. /\ nf \in ItemRows /\ nf.del /\ nf.data = Nothing /\ nf.ver = d.ver
      /\ nf.ro = FlagReceiveOnly /\ ~nf.ign
  BY <1>1, <1>3 DEF ItemRows
<1> HIDE DEF nf
<1>5. /\ [nf EXCEPT !.ver = EmptyVector].del /\ [nf EXCEPT !.ver = EmptyVector].data = Nothing
      /\ [nf EXCEPT !.ver = EmptyVector].ro = FlagReceiveOnly
      /\ ~[nf EXCEPT !.ver = EmptyVector].ign
      /\ [nf EXCEPT !.ver = EmptyVector].ver = EmptyVector
  BY <1>4 DEF ItemRows
<1>6. QED
  BY <1>1, <1>2, <1>4, <1>5

LEMMA UnchangedMeans ==
    ASSUME KindTypes, onDisk # Nothing, ~ignoring, Settled
    PROVE  Unchanged
<1>1. ours # NoItem /\ ~ours.del /\ ~ours.ign /\ (ours.ro => FlagReceiveOnly)
      /\ ours.data = onDisk /\ ours.mod = onDisk /\ ours \in ItemRows
  BY DEF Settled, KindTypes
<1>2. /\ Walked.data = onDisk /\ Walked.mod = onDisk /\ Walked.del = FALSE
      /\ Walked.ro = FlagReceiveOnly /\ Walked.ign = FALSE
  BY WalkedFields
<1>3. ours.del = FALSE /\ ours.ign = FALSE /\ ours.ro \in BOOLEAN /\ FlagReceiveOnly \in BOOLEAN
  BY <1>1 DEF ItemRows, FlagReceiveOnly
<1>4. QED
  BY <1>1, <1>2, <1>3 DEF Unchanged, IsEquivalentOptional

LEMMA ShapedTheirs ==
    ASSUME KindInv, theirs # NoItem
    PROVE  /\ theirs \in ItemRows /\ Shaped(theirs) /\ ~theirs.ro /\ ~theirs.ign
           /\ SetIgnored(theirs) # NoItem /\ SetIgnored(theirs).ign /\ ~SetIgnored(theirs).ro
           /\ SetIgnored(theirs).ver = theirs.ver
<1>1. theirs \in ItemRows
  BY DEF KindInv, KindTypes
<1>2. SetIgnored(theirs) \in ItemRows
  BY <1>1, RowEdits, KindsAssumption DEF KindInv
<1>3. /\ SetIgnored(theirs).ign /\ ~SetIgnored(theirs).ro
      /\ SetIgnored(theirs).ver = theirs.ver
  BY <1>1 DEF SetIgnored, ItemRows
<1>4. QED
  BY <1>1, <1>2, <1>3, ItemRowIsSome DEF KindInv, Shapes

\* Taking over the global row, or nothing, while no version has the clock's time.
LEMMA TakeGlobal ==
    ASSUME KindInv, KindTypes', UNCHANGED <<theirs, user, ftype, ignoring, onDisk>>,
           ours' \in {NoItem, GlobalFile}, ours' # ours,
           Counted(theirs, Us) < Now
    PROVE  KindInv'
<1>1. ours' = NoItem \/ (ours' = theirs /\ theirs # NoItem)
  BY GlobalIsARow
<1>2. Counted(theirs, Us) # Now
  BY CountedIsNat DEF KindInv
<1>3. ours' # NoItem => Shaped(ours') /\ theirs # NoItem /\ ours'.ver = theirs.ver
                        /\ ours'.data = theirs.data /\ ours'.del = theirs.del
  BY <1>1, ShapedTheirs
<1>4. QED
  BY <1>2, <1>3, OurStep

LEMMA FirstHalf ==
    ASSUME KindInv, KindTypes', ScanChangedAndNew
    PROVE  KindInv'
<1>1. UNCHANGED <<ftype, ignoring, onDisk, theirs, user>>
  BY DEF ScanChangedAndNew
<1>2. CASE ours' = ours
  BY <1>1, <1>2, SameRows
<1>3. CASE ours' # ours
  <2>1. onDisk # Nothing /\ ~ignoring /\ ~Unchanged /\ ours' = BatchUpdate(Walked)
    BY <1>3 DEF ScanChangedAndNew
  <2>2. ~Settled
    BY <2>1, UnchangedMeans DEF KindInv
  <2>3. Counted(ours, Us) < Now /\ Counted(theirs, Us) < Now
    BY <2>2, NotYet
  <2>4. ours' \in {Walked, NoItem, GlobalFile}
    BY <2>1, BatchGives
  <2>5. CASE ours' = Walked
    <3>0. KindTypes
      BY DEF KindInv
    <3>1. /\ ours'.data = onDisk /\ ours'.mod = onDisk /\ ours'.del = FALSE
          /\ ours'.ro = FlagReceiveOnly /\ ours'.ign = FALSE
          /\ ours'.ver[Us] = IF Counted(ours, Us) + 1 > Now THEN Counted(ours, Us) + 1 ELSE Now
          /\ ours'.ver[Peer] <= Counted(ours, Peer)
      BY <2>5, <3>0, WalkedFields
    <3>2. ours'.ver[Us] = Now /\ Counted(theirs, Us) # Now
      BY <2>3, <3>0, <3>1, CountedIsNat
    <3>3. Shaped(ours')
      BY <2>1, <3>1 DEF Shaped
    <3>4. ours' # NoItem
      BY <2>5, <3>0, WalkedTyped, ItemRowIsSome
    <3>5. FlagReceiveOnly' = FlagReceiveOnly
      BY <1>1 DEF FlagReceiveOnly
    <3>6. Settled'
      BY <1>1, <2>1, <3>1, <3>4, <3>5 DEF Settled
    <3>7. QED
      BY <1>1, <2>3, <3>1, <3>2, <3>3, <3>6, OurStep
  <2>6. CASE ours' \in {NoItem, GlobalFile}
    BY <1>1, <1>3, <2>3, <2>6, TakeGlobal
  <2>7. QED
    BY <2>4, <2>5, <2>6
<1>4. QED
  BY <1>2, <1>3

LEMMA SecondHalf ==
    ASSUME KindInv, KindTypes', ScanDeletedAndIgnored
    PROVE  KindInv'
<1>0. KindTypes /\ (ours # NoItem => ours \in ItemRows)
  BY DEF KindInv, KindTypes
<1>1. UNCHANGED <<ftype, ignoring, onDisk, theirs, user>>
  BY DEF ScanDeletedAndIgnored
<1>2. CASE ours' = ours
  BY <1>1, <1>2, SameRows
<1>3. CASE ours' # ours /\ ours # NoItem /\ ignoring /\ ours' = BatchUpdate(SetIgnored(ours))
  <2>1. Settled'
    BY <1>1, <1>3 DEF Settled
  <2>2. ours' \in {SetIgnored(ours), NoItem, GlobalFile}
    BY <1>3, BatchGives
  <2>3. CASE ours' = SetIgnored(ours)
    <3>1. ours'.ver = ours.ver /\ ours'.ign /\ ~ours'.ro
      BY <1>0, <1>3, <2>3 DEF SetIgnored, ItemRows
    <3>2. Shaped(ours')
      BY <3>1 DEF Shaped
    <3>3. QED
      BY <1>1, <1>3, <2>1, <3>1, <3>2, OurStep
  <2>4. CASE ours' \in {NoItem, GlobalFile}
    <3>1. ours' = NoItem \/ (ours' = theirs /\ theirs # NoItem)
      BY <1>3, <2>4, GlobalIsARow
    <3>2. ours' # NoItem => Shaped(ours') /\ theirs # NoItem /\ ours'.ver = theirs.ver /\ ~ours'.ro
                            /\ ours'.data = theirs.data /\ ours'.del = theirs.del
      BY <3>1, ShapedTheirs
    <3>3. QED
      BY <1>1, <2>1, <3>2, OurStep
  <2>5. QED
    BY <2>2, <2>3, <2>4
<1>4. CASE /\ ours' # ours /\ ours # NoItem /\ ~ignoring /\ (ours.ign \/ ~ours.del)
           /\ onDisk = Nothing
           /\ \E mod \in Contents : ours' = BatchUpdate(NoLongerThere(mod))
  <2>1. ~Settled
    BY <1>4 DEF Settled
  <2>2. Counted(ours, Us) < Now /\ Counted(theirs, Us) < Now
    BY <2>1, NotYet
  <2>3. PICK mod \in Contents : ours' = BatchUpdate(NoLongerThere(mod))
    BY <1>4
  <2>4. mod \in Nat /\ ours \in ItemRows
    BY <1>0, <1>4, KindsAssumption
  <2>5. ours' \in {NoLongerThere(mod), NoItem, GlobalFile}
    BY <2>3, BatchGives
  <2>6. CASE ours' = NoLongerThere(mod)
    <3>1. /\ ours'.data = Nothing /\ ours'.del /\ ~ours'.ign
          /\ \/ ours'.ver = EmptyVector
             \/ /\ ours'.ver[Us] = IF Counted(ours, Us) + 1 > Now THEN Counted(ours, Us) + 1 ELSE Now
                /\ ours'.ver[Peer] = Counted(ours, Peer)
      BY <1>0, <2>4, <2>6, NoLongerFields
    <3>2. Shaped(ours')
      BY <3>1 DEF Shaped
    <3>3. Settled'
      BY <1>1, <1>4, <3>1 DEF Settled
    <3>4. \/ ours'.ver = EmptyVector
          \/ ours'.ver[Us] = Now /\ ours'.ver[Peer] <= Counted(ours, Peer)
      BY <1>0, <2>2, <3>1, CountedIsNat
    <3>5. Counted(theirs, Us) # Now
      BY <1>0, <2>2, CountedIsNat
    <3>6. QED
      BY <1>1, <2>2, <3>2, <3>3, <3>4, <3>5, OurStep
  <2>7. CASE ours' \in {NoItem, GlobalFile}
    BY <1>1, <1>4, <2>2, <2>7, TakeGlobal
  <2>8. QED
    BY <2>5, <2>6, <2>7
<1>5. CASE /\ ours' # ours /\ ours # NoItem /\ ~ignoring /\ ~ours.ign /\ ours.del /\ ours.ro
           /\ ours' = StillDeleted
  <2>1. Counted(theirs, Us) < Now
    BY <1>0, <1>5, CountedIsNat DEF KindInv, Clocked
  <2>2. ours' \in {[ours EXCEPT !.ro = FALSE], NoItem, GlobalFile}
    BY <1>5, StillDeletedGives
  <2>3. CASE ours' = [ours EXCEPT !.ro = FALSE]
    <3>1. /\ ours'.ver = ours.ver /\ ours'.data = ours.data /\ ours'.del = ours.del
          /\ ours'.mod = ours.mod /\ ours'.ign = ours.ign /\ ~ours'.ro
      BY <1>0, <1>5, <2>3 DEF ItemRows
    <3>2. Shaped(ours')
      BY <1>5, <3>1 DEF Shaped, KindInv, Shapes
    <3>3. Counted(ours, Us) = Now => Settled'
      <4>1. ASSUME Counted(ours, Us) = Now PROVE onDisk = Nothing
        BY <1>5, <4>1 DEF KindInv, Clocked, Settled
      <4>2. QED
        BY <1>1, <1>5, <3>1, <4>1 DEF Settled
    <3>4. Counted(theirs, Us) # Now
      BY <1>0, <2>1, CountedIsNat
    <3>5. QED
      BY <1>1, <1>5, <3>1, <3>2, <3>3, <3>4, OurStep
  <2>4. CASE ours' \in {NoItem, GlobalFile}
    BY <1>1, <1>5, <2>1, <2>4, TakeGlobal
  <2>5. QED
    BY <2>2, <2>3, <2>4
<1>6. QED
  BY <1>2, <1>3, <1>4, <1>5 DEF ScanDeletedAndIgnored

LEMMA Pulling ==
    ASSUME KindInv, KindTypes', PullReceive \/ PullSendOnly
    PROVE  KindInv'
<1>1. UNCHANGED <<ftype, ignoring, theirs, user>> /\ theirs # NoItem
  BY DEF PullReceive, PullSendOnly, ItemNeeded, NeedsIt
<1>2. CASE ignoring /\ ours' = SetIgnored(theirs)
  <2>1. Settled'
    BY <1>1, <1>2 DEF Settled
  <2>2. ours'.ver = theirs.ver /\ ours'.ign /\ ~ours'.ro
    BY <1>1, <1>2, ShapedTheirs
  <2>3. Shaped(ours')
    BY <2>2 DEF Shaped
  <2>4. QED
    BY <1>1, <2>1, <2>2, <2>3, OurStep
<1>3. CASE ~ignoring /\ ours' = theirs /\ onDisk' = theirs.data
  <2>1. Shaped(ours') /\ ~ours'.ro /\ ~ours'.ign
    BY <1>1, <1>3, ShapedTheirs
  <2>2. Settled'
    BY <1>1, <1>3, <2>1 DEF Settled, Shaped
  <2>3. QED
    BY <1>1, <1>3, <2>1, <2>2, OurStep
<1>4. CASE /\ ~ignoring /\ ours # NoItem /\ IsEquivalentOptional(theirs, ours, FALSE)
           /\ ours' = theirs /\ onDisk' = onDisk
  <2>0. ours \in ItemRows
    BY <1>4 DEF KindInv, KindTypes
  <2>1. Shaped(ours') /\ ~ours'.ro /\ ~ours'.ign /\ ours'.del = ours.del
        /\ ours'.data = ours.data /\ ours'.mod = ours.mod
    BY <1>1, <1>4, ShapedTheirs DEF IsEquivalentOptional
  <2>2. Counted(theirs, Us) = Now => Settled'
    <3>1. ASSUME Settled PROVE Settled'
      BY <1>1, <1>4, <2>1, <3>1 DEF Settled
    <3>2. QED
      BY <3>1 DEF KindInv, Clocked
  <2>3. QED
    BY <1>1, <1>4, <2>1, <2>2, OurStep
<1>5. CASE ~ignoring /\ Shortcut /\ ours' = theirs /\ onDisk' = onDisk
  <2>1. Shaped(ours') /\ ~ours'.ro /\ ~ours'.ign /\ ~ours'.del
    BY <1>1, <1>5, ShapedTheirs DEF Shortcut
  <2>2. ours # NoItem /\ ~ours.del /\ ours'.data = ours.data /\ ours'.mod = ours'.data
    BY <1>5, <2>1 DEF Shortcut, Shaped
  <2>3. Counted(theirs, Us) = Now => Settled'
    <3>1. ASSUME Settled PROVE Settled'
      BY <1>1, <1>5, <2>1, <2>2, <3>1 DEF Settled
    <3>2. QED
      BY <3>1 DEF KindInv, Clocked
  <2>4. QED
    BY <1>1, <1>5, <2>1, <2>3, OurStep
<1>6. QED
  BY <1>2, <1>3, <1>4, <1>5 DEF PullReceive, PullSendOnly

LEMMA Reverting ==
    ASSUME KindInv, KindTypes', RevertReceiveOnly \/ RevertReceiveEncrypted
    PROVE  KindInv'
<1> DEFINE plain == [ours EXCEPT !.ro = FALSE]
<1>1. UNCHANGED <<ftype, ignoring, theirs, user>> /\ ours # NoItem /\ ours.ro
  BY DEF RevertReceiveOnly, RevertReceiveEncrypted
<1>2. KindTypes /\ ours \in ItemRows /\ Shaped(ours)
  BY <1>1 DEF KindInv, KindTypes, Shapes
<1>3. Counted(theirs, Us) # Now
  BY <1>1 DEF KindInv, Clocked
<1>4. plain \in ItemRows /\ Shaped(plain) /\ ~plain.ign
  <2>1. /\ plain.data = ours.data /\ plain.mod = ours.mod /\ plain.del = ours.del
        /\ plain.ign = ours.ign /\ ~plain.ro
    BY <1>2 DEF ItemRows
  <2>2. plain \in ItemRows
    BY <1>2, RowEdits, KindsAssumption
  <2> HIDE DEF plain
  <2>3. QED
    BY <1>1, <1>2, <2>1, <2>2 DEF Shaped
<1>5. ASSUME NEW r \in ItemRows, Shaped(r), ours' = [r EXCEPT !.ver = EmptyVector]
      PROVE  KindInv'
  <2>1. /\ ours'.data = r.data /\ ours'.mod = r.mod /\ ours'.del = r.del
        /\ ours'.ign = r.ign /\ ours'.ro = r.ro /\ ours'.ver = EmptyVector
    BY <1>5 DEF ItemRows
  <2>2. Shaped(ours')
    BY <1>5, <2>1 DEF Shaped
  <2>3. QED
    BY <1>1, <1>3, <2>1, <2>2, OurStep
<1>6. ASSUME NEW r \in ItemRows, ~(r.ro /\ r.ign), NEW mod \in Contents,
             ours' = [SetDeleted(r, mod) EXCEPT !.ver = EmptyVector]
      PROVE  KindInv'
  <2>1. /\ SetDeleted(r, mod) \in ItemRows /\ SetDeleted(r, mod).del
        /\ SetDeleted(r, mod).data = Nothing
        /\ SetDeleted(r, mod).ro = r.ro /\ SetDeleted(r, mod).ign = r.ign
    BY <1>2, DeletedFields, KindsAssumption
  <2>2. Shaped(SetDeleted(r, mod))
    BY <1>6, <2>1 DEF Shaped
  <2>3. QED
    BY <1>5, <1>6, <2>1, <2>2
<1>7. CASE ~GlobalFile.ro /\ ours' = GlobalFile
  <2>1. ours' = theirs /\ theirs # NoItem
    BY <1>1, <1>7, GlobalIsARow
  <2>2. Shaped(ours')
    BY <2>1, ShapedTheirs
  <2>3. QED
    BY <1>1, <1>3, <2>1, <2>2, OurStep
<1>8. \/ ours' = [plain EXCEPT !.ver = EmptyVector]
      \/ \E mod \in Contents : \/ ours' = [SetDeleted(plain, mod) EXCEPT !.ver = EmptyVector]
                               \/ ours' = [SetDeleted(ours, mod) EXCEPT !.ver = EmptyVector]
      \/ ~GlobalFile.ro /\ ours' = GlobalFile
  BY DEF RevertReceiveOnly, RevertReceiveEncrypted
<1> HIDE DEF plain
<1>9. ~(ours.ro /\ ours.ign) /\ ~(plain.ro /\ plain.ign)
  BY <1>2, <1>4 DEF Shaped
<1>10. QED
  BY <1>2, <1>4, <1>5, <1>6, <1>7, <1>8, <1>9

\* What users do takes a second, and so does Override.
LEMMA UserSteps ==
    ASSUME KindInv, KindTypes', user' = user + 1, UNCHANGED <<ours, theirs>>
    PROVE  KindInv'
<1>1. /\ Now' = Now + 1 /\ Counted(ours, Us)' = Counted(ours, Us)
      /\ Counted(theirs, Us)' = Counted(theirs, Us)
      /\ Counted(ours, Peer)' = Counted(ours, Peer)
      /\ Counted(theirs, Peer)' = Counted(theirs, Peer)
  BY CountedIsNat DEF Now, Counted, KindInv
<1>2. Clocked'
  BY <1>1, CountedIsNat DEF KindInv, Clocked
<1>3. Shapes' /\ Alike'
  BY DEF KindInv, Shapes, Shaped, Alike
<1>4. QED
  BY <1>2, <1>3 DEF KindInv

LEMMA Overriding ==
    ASSUME KindInv, KindTypes', Override
    PROVE  KindInv'
<1>1. /\ UNCHANGED <<ftype, ignoring, onDisk, theirs>> /\ user' = user + 1
      /\ theirs # NoItem /\ KindTypes
  BY DEF Override, ItemNeeded, NeedsIt, KindInv
<1>2. /\ Now' = Now + 1 /\ Counted(theirs, Us)' = Counted(theirs, Us)
      /\ Counted(theirs, Peer)' = Counted(theirs, Peer)
  BY <1>1, CountedIsNat DEF Now, Counted
<1>3. /\ Counted(ours, Us) \in Nat /\ Counted(ours, Peer) \in Nat
      /\ Counted(theirs, Us) \in Nat /\ Counted(theirs, Peer) \in Nat /\ Now \in Nat
      /\ Counted(ours, Us) <= Now /\ Counted(theirs, Us) <= Now
      /\ Counted(ours, Peer) <= Counted(theirs, Peer)
  BY <1>1, CountedIsNat DEF KindInv, Clocked
<1>4. ASSUME ours' # NoItem, Shaped(ours'), ours'.ver[Us] > Counted(theirs, Us),
             ours'.ver[Us] <= Now + 1, ours'.ver[Peer] <= Counted(theirs, Peer),
             ours'.ver[Us] = Now + 1 => Settled'
      PROVE  KindInv'
  <2>1. Counted(ours, Us)' = ours'.ver[Us] /\ Counted(ours, Peer)' = ours'.ver[Peer]
    BY <1>4 DEF Counted
  <2>2. Clocked'
    BY <1>2, <1>3, <1>4, <2>1 DEF Clocked
  <2>3. ours'.ver # theirs.ver
    BY <1>1, <1>3, <1>4 DEF Counted
  <2>4. Alike'
    BY <1>1, <2>3 DEF Alike
  <2>5. Shapes'
    BY <1>1, <1>4 DEF Shapes, Shaped, KindInv
  <2>6. QED
    BY <2>2, <2>4, <2>5 DEF KindInv
<1>5. CASE ours = NoItem /\ \E mod \in Contents : ours' = SetDeleted(theirs, mod)
  <2>1. PICK mod \in Contents : ours' = SetDeleted(theirs, mod)
    BY <1>5
  <2>2. theirs \in ItemRows /\ ~theirs.ro /\ ~theirs.ign /\ mod \in Nat
    BY <1>1, ShapedTheirs, KindsAssumption
  <2>3. /\ ours' \in ItemRows /\ ours'.del /\ ours'.data = Nothing /\ ~ours'.ro /\ ~ours'.ign
        /\ ours'.ver[Us] = IF Counted(theirs, Us) + 1 > Now THEN Counted(theirs, Us) + 1 ELSE Now
        /\ ours'.ver[Peer] = Counted(theirs, Peer)
    BY <1>1, <2>1, <2>2, DeletedFields
  <2>4. Shaped(ours') /\ ours' # NoItem
    BY <2>3, ItemRowIsSome DEF Shaped
  <2>5. ours'.ver[Us] = Now + 1 => Counted(theirs, Us) = Now
    BY <1>3, <2>3
  <2>6. ours'.ver[Us] = Now + 1 => Settled'
    <3>1. ASSUME Counted(theirs, Us) = Now PROVE onDisk = Nothing \/ ignoring
      BY <1>5, <3>1 DEF KindInv, Clocked, Settled
    <3>2. QED
      BY <1>1, <2>3, <2>5, <3>1 DEF Settled
  <2>7. /\ ours'.ver[Us] > Counted(theirs, Us) /\ ours'.ver[Us] <= Now + 1
        /\ ours'.ver[Peer] <= Counted(theirs, Peer)
    BY <1>3, <2>3
  <2>8. QED
    BY <1>4, <2>4, <2>6, <2>7
<1>6. CASE /\ ours # NoItem /\ ~IsInvalid(ours)
           /\ ours' = [ours EXCEPT !.ver = VectorUpdate(VectorMerge(@, theirs.ver), Us, Now)]
  <2> DEFINE m == VectorMerge(ours.ver, theirs.ver)
             w == VectorUpdate(m, Us, Now)
  <2>1. ours \in ItemRows /\ theirs \in ItemRows /\ Shaped(ours)
    BY <1>1, <1>6 DEF KindInv, KindTypes, Shapes
  <2>2. /\ ours.ver \in [Counters -> Nat] /\ theirs.ver \in [Counters -> Nat]
        /\ Counted(ours, Us) = ours.ver[Us] /\ Counted(ours, Peer) = ours.ver[Peer]
        /\ Counted(theirs, Us) = theirs.ver[Us] /\ Counted(theirs, Peer) = theirs.ver[Peer]
    BY <1>1, <1>6, <2>1 DEF ItemRows, Counted
  <2>3. /\ m \in [Counters -> Nat] /\ m[Peer] = Counted(theirs, Peer)
        /\ m[Us] \in {Counted(ours, Us), Counted(theirs, Us)}
        /\ m[Us] >= Counted(theirs, Us)
    <3>1. m \in [Counters -> Nat]
      BY <1>1, <2>2, VectorsTyped, KindsAssumption
    <3>2. /\ m[Us] = IF ours.ver[Us] > theirs.ver[Us] THEN ours.ver[Us] ELSE theirs.ver[Us]
          /\ m[Peer] = IF ours.ver[Peer] > theirs.ver[Peer] THEN ours.ver[Peer] ELSE theirs.ver[Peer]
      BY <1>1, <2>2, VectorCounts
    <3> HIDE DEF m
    <3>3. QED
      BY <1>3, <2>2, <3>1, <3>2
  <2> HIDE DEF m
  <2>4. /\ w[Us] = IF m[Us] + 1 > Now THEN m[Us] + 1 ELSE Now
        /\ w[Peer] = m[Peer]
    BY <1>1, <2>3, VectorCounts
  <2>5. ours' = [ours EXCEPT !.ver = w]
    BY <1>6 DEF m
  <2> HIDE DEF w
  <2>6. /\ ours'.ver = w /\ ours'.data = ours.data /\ ours'.mod = ours.mod /\ ours'.del = ours.del
        /\ ours'.ro = ours.ro /\ ours'.ign = ours.ign /\ DOMAIN ours' = DOMAIN ours
    BY <2>1, <2>5 DEF ItemRows
  <2>7. ours' # NoItem
    <3>1. DOMAIN ours' = {"data", "mod", "del", "ver", "ro", "ign"}
      BY <2>1, <2>6 DEF ItemRows
    <3>2. QED
      BY <3>1 DEF NoItem
  <2>8. Shaped(ours')
    BY <2>1, <2>6 DEF Shaped
  <2>9. ours'.ver[Us] = Now + 1 => Settled
    <3>1. w[Us] = Now + 1 => m[Us] = Now
      BY <1>3, <2>3, <2>4
    <3>2. QED
      BY <2>3, <2>6, <3>1 DEF KindInv, Clocked
  <2>10. Settled => Settled'
    BY <1>1, <1>6, <2>6, <2>7 DEF Settled, FlagReceiveOnly
  <2>11. /\ ours'.ver[Us] > Counted(theirs, Us) /\ ours'.ver[Us] <= Now + 1
         /\ ours'.ver[Peer] <= Counted(theirs, Peer)
    BY <1>3, <2>3, <2>4, <2>6
  <2>12. QED
    BY <1>4, <2>7, <2>8, <2>9, <2>10, <2>11
<1>7. QED
  BY <1>5, <1>6 DEF Override

LEMMA PeerSteps ==
    ASSUME KindInv, KindTypes', PeerChanges \/ PeerPulls
    PROVE  KindInv'
<1>1. UNCHANGED <<ftype, ignoring, onDisk, ours, user>> /\ KindTypes
  BY DEF PeerChanges, PeerPulls, KindInv
<1>2. /\ Now' = Now /\ Counted(ours, Us)' = Counted(ours, Us)
      /\ Counted(ours, Peer)' = Counted(ours, Peer) /\ Settled' = Settled
  BY <1>1 DEF Now, Counted, Settled, FlagReceiveOnly
<1>3. CASE PeerPulls
  <2>1. theirs' = ours /\ ours # NoItem /\ ~ours.ro /\ ~ours.ign
    <3>1. /\ Announced(ours) # NoItem /\ ~Announced(ours).ro /\ ~Announced(ours).ign
          /\ theirs' = Announced(ours)
      BY <1>3 DEF PeerPulls, NeedsIt, IsInvalid
    <3>2. ours # NoItem /\ ours \in ItemRows
      BY <1>1, <3>1 DEF Announced, KindTypes
    <3>3. ~ours.ro
      <4>1. ASSUME ours.ro PROVE [ours EXCEPT !.ver = EmptyVector].ro
        BY <3>2, <4>1 DEF ItemRows
      <4>2. QED
        BY <3>1, <3>2, <4>1 DEF Announced
    <3>4. QED
      BY <3>1, <3>2, <3>3 DEF Announced
  <2>2. /\ Counted(theirs, Us)' = Counted(ours, Us)
        /\ Counted(theirs, Peer)' = Counted(ours, Peer)
    BY <2>1 DEF Counted
  <2>3. Clocked'
    BY <1>1, <1>2, <2>1, <2>2, CountedIsNat DEF KindInv, Clocked
  <2>4. Shapes'
    BY <1>1, <2>1 DEF KindInv, Shapes, Shaped
  <2>5. Alike'
    BY <1>1, <2>1 DEF Alike
  <2>6. QED
    BY <2>3, <2>4, <2>5 DEF KindInv
<1>4. CASE PeerChanges
  <2> DEFINE was == IF theirs = NoItem THEN EmptyVector ELSE theirs.ver
             w == VectorUpdate(was, Peer, 0)
  <2>1. /\ was \in [Counters -> Nat] /\ was[Us] = Counted(theirs, Us)
        /\ was[Peer] = Counted(theirs, Peer)
    <3>1. CASE theirs = NoItem
      BY <3>1, KindsAssumption DEF EmptyVector, Counted
    <3>2. CASE theirs \in ItemRows
      BY <3>2, ItemRowIsSome DEF ItemRows, Counted
    <3>3. QED
      BY <1>1, <3>1, <3>2 DEF KindTypes
  <2>2. PICK c \in Contents : theirs' = Row(c, c, FALSE, w, FALSE)
                              \/ theirs' = Row(Nothing, c, TRUE, w, FALSE)
    BY <1>4 DEF PeerChanges
  <2> HIDE DEF was
  <2>3. w[Us] = Counted(theirs, Us) /\ w[Peer] = Counted(theirs, Peer) + 1
    BY <1>1, <2>1, VectorCounts
  <2> HIDE DEF w
  <2>4. c # Nothing
    BY KindsAssumption DEF Nothing
  <2>5. /\ theirs'.ver = w /\ Shaped(theirs') /\ ~theirs'.ro /\ ~theirs'.ign
    BY <2>2, <2>4 DEF Row, Shaped
  <2>6. theirs' # NoItem
    <3>1. DOMAIN theirs' = {"data", "mod", "del", "ver", "ro", "ign"}
      BY <2>2 DEF Row
    <3>2. QED
      BY <3>1 DEF NoItem
  <2>7. /\ Counted(theirs, Us)' = Counted(theirs, Us)
        /\ Counted(theirs, Peer)' = Counted(theirs, Peer) + 1
    BY <2>3, <2>5, <2>6 DEF Counted
  <2>8. Clocked'
    BY <1>1, <1>2, <2>7, CountedIsNat DEF KindInv, Clocked
  <2>9. Shapes'
    BY <1>1, <2>5 DEF KindInv, Shapes, Shaped
  <2>10. ours # NoItem => ours.ver # w
    <3>1. Counted(ours, Peer) < w[Peer]
      BY <1>1, <2>3, CountedIsNat DEF KindInv, Clocked
    <3>2. QED
      BY <1>1, <2>3, <3>1, CountedIsNat DEF Counted
  <2>11. Alike'
    BY <1>1, <2>5, <2>10 DEF Alike
  <2>12. QED
    BY <2>8, <2>9, <2>11 DEF KindInv
<1>5. QED
  BY <1>3, <1>4

LEMMA KindSteps == KindInv /\ [KindsNext]_kindVars => KindInv'
<1> SUFFICES ASSUME KindInv, [KindsNext]_kindVars PROVE KindInv'
  OBVIOUS
<1>1. KindTypes'
  BY KindStepTypes DEF KindInv
<1>2. CASE UserChange \/ UserIgnores \/ UserRetypes
  <2>1. user' = user + 1 /\ UNCHANGED <<ours, theirs>>
    BY <1>2 DEF UserChange, UserIgnores, UserRetypes
  <2>2. QED
    BY <1>1, <2>1, UserSteps
<1>3. CASE UNCHANGED kindVars
  BY <1>1, <1>3, SameRows DEF kindVars
<1>4. QED
  BY <1>1, <1>2, <1>3, FirstHalf, SecondHalf, Pulling, Reverting, Overriding, PeerSteps
     DEF KindsNext

\* A version stands for one content, of whatever type the folder has been and
\* however often rows were flagged, dropped, reset or made from the clock: for
\* any contents and any number of changes (walkRegular, scanBatch.Update,
\* Vector.updateWithNow, sendOnlyFolder.override, receiveOnlyFolder.revert).
THEOREM VersionsAreContents == KindsSpec => []VersionMeansContent
<1>1. KindsInit => KindInv
  <2> SUFFICES ASSUME KindsInit PROVE KindInv
    OBVIOUS
  <2>1. KindTypes
    BY DEF KindsInit, KindTypes, Nothing
  <2>2. Shapes /\ Alike
    BY DEF KindsInit, Shapes, Alike
  <2>3. /\ Counted(ours, Us) = 0 /\ Counted(theirs, Us) = 0
        /\ Counted(ours, Peer) = 0 /\ Counted(theirs, Peer) = 0 /\ Now = 1
    BY DEF KindsInit, Counted, Now
  <2>4. Clocked
    BY <2>3 DEF Clocked
  <2>5. QED
    BY <2>1, <2>2, <2>4 DEF KindInv
<1>2. KindInv => VersionMeansContent
  <2> SUFFICES ASSUME KindInv, NEW m \in Means(ours), NEW n \in Means(theirs), m[1] = n[1]
               PROVE  m = n
    BY DEF VersionMeansContent
  <2>1. /\ ours # NoItem /\ ~ours.ign /\ ours.ver # EmptyVector
        /\ m = <<ours.ver, ours.data, ours.del>>
    BY DEF Means, IsInvalid
  <2>2. theirs # NoItem /\ n = <<theirs.ver, theirs.data, theirs.del>>
    BY DEF Means
  <2>3. ours.ver = theirs.ver
    BY <2>1, <2>2
  <2>4. ours.data = theirs.data /\ ours.del = theirs.del
    BY <2>1, <2>2, <2>3 DEF KindInv, Alike
  <2>5. QED
    BY <2>1, <2>2, <2>3, <2>4
<1>3. QED
  BY <1>1, <1>2, KindSteps, PTL DEF KindsSpec

-----------------------------------------------------------------------------
(* The progress emitter and what the other device makes of its messages.   *)

Elems(q) == {q[i] : i \in DOMAIN q}

Pullers == [v : TempVersions, created : Nat, avail : Seq(TempBlocks), updated : Nat]
Sents == [v : TempVersions, created : Nat, blocks : Seq(TempBlocks), updated : Nat]
DownUpdates == [type : {"forget", "append"}, v : TempVersions, blocks : Seq(TempBlocks)]
DownMsgs == {us \in Seq(DownUpdates) : Len(us) \in {1, 2}}

TempTypes ==
    /\ stamp \in Nat
    /\ puller \in Pullers \union {NoPuller}
    /\ sent \in Sents \union {NoSent}
    /\ downloads \in Sents \union {NoSent}
    /\ unsent \in DownMsgs \union {<<>>}
    /\ inFlight \in Seq(DownMsgs)
    /\ lastSeen \in [update : Nat, count : {0, 1}]
    /\ timer \in BOOLEAN /\ subscribed \in BOOLEAN /\ connected \in BOOLEAN
    /\ disabled \in BOOLEAN /\ raced \in BOOLEAN

\* What a message does to the other device's state: deviceFolderDownloadState's
\* Update, for its one or two updates.
ApplyAll(d, us) ==
    IF Len(us) = 1 THEN Apply(d, us[1]) ELSE Apply(Apply(d, us[1]), us[2])

LEMMA ElemsFacts ==
    ASSUME NEW S, NEW a \in Seq(S), NEW b \in Seq(S)
    PROVE  /\ a \o b \in Seq(S) /\ Elems(a \o b) = Elems(a) \union Elems(b)
           /\ \A m, n \in Nat : m >= 1 /\ n <= Len(a) =>
                 /\ SubSeq(a, m, n) \in Seq(S)
                 /\ Elems(SubSeq(a, m, n)) \subseteq Elems(a)
<1>1. a \o b \in Seq(S)
  OBVIOUS
<1>2. Elems(a \o b) \subseteq Elems(a) \union Elems(b)
  <2> SUFFICES ASSUME NEW i \in DOMAIN (a \o b)
               PROVE  (a \o b)[i] \in Elems(a) \union Elems(b)
    BY DEF Elems
  <2>1. CASE i <= Len(a)
    BY <2>1 DEF Elems
  <2>2. CASE ~(i <= Len(a))
    <3>1. i - Len(a) \in DOMAIN b /\ (a \o b)[i] = b[i - Len(a)]
      BY <2>2
    <3> QED BY <3>1 DEF Elems
  <2> QED BY <2>1, <2>2
<1>3. Elems(a) \subseteq Elems(a \o b)
  <2> SUFFICES ASSUME NEW i \in DOMAIN a PROVE a[i] \in Elems(a \o b)
    BY DEF Elems
  <2>1. i \in DOMAIN (a \o b) /\ (a \o b)[i] = a[i]
    OBVIOUS
  <2> QED BY <2>1 DEF Elems
<1>4. Elems(b) \subseteq Elems(a \o b)
  <2> SUFFICES ASSUME NEW i \in DOMAIN b PROVE b[i] \in Elems(a \o b)
    BY DEF Elems
  <2>1. i + Len(a) \in DOMAIN (a \o b) /\ (a \o b)[i + Len(a)] = b[i]
    OBVIOUS
  <2> QED BY <2>1 DEF Elems
<1>5. ASSUME NEW m \in Nat, NEW n \in Nat, m >= 1, n <= Len(a)
      PROVE  /\ SubSeq(a, m, n) \in Seq(S)
             /\ Elems(SubSeq(a, m, n)) \subseteq Elems(a)
  <2>1. SubSeq(a, m, n) \in Seq(S)
    BY <1>5
  <2>2. ASSUME NEW i \in DOMAIN SubSeq(a, m, n)
        PROVE  SubSeq(a, m, n)[i] \in Elems(a)
    <3>1. i + m - 1 \in DOMAIN a /\ SubSeq(a, m, n)[i] = a[i + m - 1]
      BY <1>5
    <3> QED BY <3>1 DEF Elems
  <2> QED BY <2>1, <2>2 DEF Elems
<1> QED BY <1>1, <1>2, <1>3, <1>4, <1>5

LEMMA EmptyDownloads == <<>> \in Seq(TempBlocks) /\ NoSent.blocks = <<>>
  BY DEF NoSent

\* A message leaves a state that has the type of one.
LEMMA ApplyTypes ==
    ASSUME NEW d \in Sents \union {NoSent}
    PROVE  /\ \A u \in DownUpdates : Apply(d, u) \in Sents \union {NoSent}
           /\ \A us \in DownMsgs : ApplyAll(d, us) \in Sents \union {NoSent}
<1>1. ASSUME NEW e \in Sents \union {NoSent}, NEW u \in DownUpdates
      PROVE  Apply(e, u) \in Sents \union {NoSent}
  <2>1. CASE u.type = "forget"
    BY <2>1 DEF Apply
  <2>2. CASE u.type # "forget"
    <3> DEFINE bs == IF e.v = u.v THEN e.blocks \o u.blocks ELSE u.blocks
    <3>1. bs \in Seq(TempBlocks)
      <4>1. e.blocks \in Seq(TempBlocks) /\ u.blocks \in Seq(TempBlocks)
        BY EmptyDownloads DEF Sents, NoSent, DownUpdates
      <4> QED BY <4>1
    <3>2. Apply(e, u) = [v |-> u.v, created |-> 0, blocks |-> bs, updated |-> 0]
      BY <2>2 DEF Apply, NoSent
    <3> HIDE DEF bs
    <3> QED BY <3>1, <3>2 DEF Sents, DownUpdates
  <2> QED BY <2>1, <2>2
<1>2. ASSUME NEW us \in DownMsgs PROVE ApplyAll(d, us) \in Sents \union {NoSent}
  <2>1. CASE Len(us) = 1
    <3>1. us[1] \in DownUpdates
      BY <2>1 DEF DownMsgs
    <3> QED BY <1>1, <2>1, <3>1 DEF ApplyAll
  <2>2. CASE Len(us) = 2
    <3>1. us[1] \in DownUpdates /\ us[2] \in DownUpdates
      BY <2>2 DEF DownMsgs
    <3> QED BY <1>1, <2>2, <3>1 DEF ApplyAll
  <2> QED BY <2>1, <2>2 DEF DownMsgs
<1> QED BY <1>1, <1>2

\* A state of the other device that what we have sent accounts for.
Vouched(d, s) ==
    d.v = "none" \/ (d.v = s.v /\ Elems(d.blocks) \subseteq Elems(s.blocks))

\* What the state d becomes by the updates that are computed and not sent.
Arrived(d, us) == IF us = <<>> THEN d ELSE ApplyAll(d, us)

\* ds are the states of the other device, d at first, as the messages q arrive.
Arrivals(ds, d, q) ==
    /\ ds \in Seq(Sents \union {NoSent})
    /\ Len(ds) = Len(q) + 1 /\ ds[1] = d
    /\ \A i \in 1..Len(q) : ds[i + 1] = ApplyAll(ds[i], q[i])

\* In the end the other device expects nothing that was not sent, and nothing
\* at all if it is not to be told.
Accounted ==
    ~raced => \E ds : /\ Arrivals(ds, downloads, inFlight)
                      /\ Vouched(Arrived(ds[Len(ds)], unsent), sent)
                      /\ ~subscribed => Arrived(ds[Len(ds)], unsent).v = "none"

\* What was sent, s, is of the puller p, and part of what it has.
PartOf(s, p) == s.v = p.v /\ Elems(s.blocks) \subseteq Elems(p.avail)

\* What was sent of the puller p is part of what it has.
Fits(p) ==
    p # NoPuller /\ sent # NoSent
        /\ (sent.created = p.created \/ sent.updated = p.updated)
    => PartOf(sent, p)

\* So it is for the puller that is registered, and for certain if the loop has
\* seen its last update.
SentFits ==
    /\ Fits(puller)
    /\ puller # NoPuller /\ sent # NoSent /\ lastSeen.update >= puller.updated
       => PartOf(sent, puller)

Stamped ==
    /\ puller.created <= stamp /\ puller.updated <= stamp
    /\ sent.created <= stamp /\ sent.updated <= stamp /\ lastSeen.update <= stamp

\* Where nothing was registered at the last tick nothing counts as sent, and the
\* timer stops only then. Updates wait to be sent on a connection that is there.
EmitterAt ==
    /\ lastSeen.count = 0 => sent = NoSent
    /\ ~timer => lastSeen.count = 0
    /\ subscribed => connected
    /\ unsent # <<>> => connected /\ (raced \/ subscribed)

TempInv == TempTypes /\ Stamped /\ SentFits /\ EmitterAt

\* The updates make the other device's state one that the new sent state
\* accounts for.
LEMMA UpdatesFacts ==
    ASSUME TempTypes, NEW p \in Pullers \union {NoPuller}, Fits(p),
           NEW d \in Sents \union {NoSent}, Vouched(d, sent)
    PROVE  /\ Updates(sent, p) \in DownMsgs \union {<<>>}
           /\ SentAfter(sent, p) \in Sents \union {NoSent}
           /\ Vouched(Arrived(d, Updates(sent, p)), SentAfter(sent, p))
<1>1. /\ p = NoPuller => p.avail = <<>>
      /\ p # NoPuller => p \in Pullers
      /\ sent # NoSent => sent \in Sents /\ sent.v # "none"
      /\ p # NoPuller => p.v # "none"
      /\ "none" \notin TempVersions
  BY TempAssumption DEF TempTypes, NoPuller, Pullers, Sents
<1>2. p # NoPuller =>
         SentAll(p) \in Sents /\ SentAll(p).v = p.v
         /\ SentAll(p).blocks = p.avail
  BY <1>1 DEF SentAll, Sents, Pullers
<1>3. SentAfter(sent, p) \in Sents \union {NoSent}
  BY <1>1, <1>2 DEF SentAfter
<1>4. ASSUME NEW v \in TempVersions
      PROVE  /\ ForgetUpdate(v) \in DownMsgs /\ ForgetUpdate(v) # <<>>
             /\ Arrived(d, ForgetUpdate(v)) = IF d.v = v THEN NoSent ELSE d
  <2> DEFINE u == [type |-> "forget", v |-> v, blocks |-> <<>>]
  <2>1. u \in DownUpdates /\ u.type = "forget" /\ u.v = v
    BY EmptyDownloads DEF DownUpdates
  <2>2. ForgetUpdate(v) = <<u>>
    BY DEF ForgetUpdate
  <2> HIDE DEF u
  <2>3. <<u>> \in Seq(DownUpdates) /\ Len(<<u>>) = 1 /\ <<u>>[1] = u /\ <<u>> # <<>>
    BY <2>1
  <2> QED BY <2>1, <2>2, <2>3 DEF DownMsgs, Arrived, ApplyAll, Apply
<1>5. ASSUME NEW v \in TempVersions, NEW bs \in Seq(TempBlocks)
      PROVE  /\ AppendUpdate(v, bs) \in DownMsgs /\ AppendUpdate(v, bs) # <<>>
             /\ Arrived(d, AppendUpdate(v, bs)).v = v
             /\ Arrived(d, AppendUpdate(v, bs)).blocks =
                   IF d.v = v THEN d.blocks \o bs ELSE bs
  <2> DEFINE u == [type |-> "append", v |-> v, blocks |-> bs]
  <2>1. u \in DownUpdates /\ u.type = "append" /\ u.v = v /\ u.blocks = bs
    BY DEF DownUpdates
  <2>2. AppendUpdate(v, bs) = <<u>>
    BY DEF AppendUpdate
  <2> HIDE DEF u
  <2>3. <<u>> \in Seq(DownUpdates) /\ Len(<<u>>) = 1 /\ <<u>>[1] = u /\ <<u>> # <<>>
    BY <2>1
  <2>4. Arrived(d, <<u>>) = Apply(d, u)
    BY <2>3 DEF Arrived, ApplyAll
  <2>5. /\ Apply(d, u).v = v
        /\ Apply(d, u).blocks = IF d.v = v THEN d.blocks \o bs ELSE bs
    BY <2>1 DEF Apply, NoSent
  <2>6. <<u>> \in DownMsgs
    BY <2>3 DEF DownMsgs
  <2>7. AppendUpdate(v, bs) # <<>>
    BY <2>2, <2>3
  <2> QED BY <2>2, <2>4, <2>5, <2>6, <2>7
<1>6. ASSUME NEW v \in TempVersions, NEW w \in TempVersions, NEW bs \in Seq(TempBlocks)
      PROVE  LET us == ForgetUpdate(v) \o AppendUpdate(w, bs) IN
             /\ us \in DownMsgs /\ us # <<>>
             /\ Arrived(d, us).v = w
             /\ d.v \in {v, "none"} => Arrived(d, us).blocks = bs
  <2> DEFINE u == [type |-> "forget", v |-> v, blocks |-> <<>>]
             x == [type |-> "append", v |-> w, blocks |-> bs]
  <2>1. /\ u \in DownUpdates /\ u.type = "forget" /\ u.v = v
        /\ x \in DownUpdates /\ x.type = "append" /\ x.v = w /\ x.blocks = bs
    BY EmptyDownloads DEF DownUpdates
  <2>2. ForgetUpdate(v) = <<u>> /\ AppendUpdate(w, bs) = <<x>>
    BY DEF ForgetUpdate, AppendUpdate
  <2> HIDE DEF u, x
  <2> DEFINE y == <<u>> \o <<x>>
  <2>3. /\ y \in Seq(DownUpdates) /\ Len(y) = 2 /\ y # <<>>
        /\ y[1] = u /\ y[2] = x
    BY <2>1
  <2> HIDE DEF y
  <2>4. y \in DownMsgs
    BY <2>3 DEF DownMsgs
  <2>5. Arrived(d, y) = Apply(Apply(d, u), x)
    BY <2>3 DEF Arrived, ApplyAll
  <2>6. Apply(d, u) = IF d.v = v THEN NoSent ELSE d
    BY <2>1 DEF Apply
  <2>7. ASSUME NEW e
        PROVE  /\ Apply(e, x).v = w
               /\ e.v # w => Apply(e, x).blocks = bs
    BY <2>1 DEF Apply, NoSent
  <2>8. d.v \in {v, "none"} => Apply(d, u).v = "none"
    BY <2>6 DEF NoSent
  <2>9. w # "none"
    BY <1>1
  <2>10. ForgetUpdate(v) \o AppendUpdate(w, bs) = y
    BY <2>2 DEF y
  <2> QED BY <2>3, <2>4, <2>5, <2>7, <2>8, <2>9, <2>10
<1>7. CASE sent = NoSent
  <2>1. d.v = "none"
    BY <1>7 DEF Vouched, NoSent
  <2>2. CASE p.avail = <<>>
    <3>1. Updates(sent, p) = <<>> /\ SentAfter(sent, p) = NoSent
      BY <1>7, <2>2 DEF Updates, SentAfter
    <3> QED BY <2>1, <3>1 DEF Vouched, Arrived
  <2>3. CASE p.avail # <<>>
    <3>1. /\ p # NoPuller /\ p.v \in TempVersions
          /\ p.avail \in Seq(TempBlocks)
      BY <1>1, <2>3 DEF Pullers
    <3>2. /\ Updates(sent, p) = AppendUpdate(p.v, p.avail)
          /\ SentAfter(sent, p) = SentAll(p)
      BY <1>7, <2>3, <3>1 DEF Updates, SentAfter
    <3>3. d.v # p.v
      BY <1>1, <2>1, <3>1
    <3> QED BY <1>2, <1>5, <3>1, <3>2, <3>3 DEF Vouched
  <2> QED BY <1>3, <2>2, <2>3
<1>8. CASE sent # NoSent /\ p = NoPuller
  <2>1. Updates(sent, p) = ForgetUpdate(sent.v) /\ SentAfter(sent, p) = NoSent
    BY <1>8 DEF Updates, SentAfter
  <2>2. sent.v \in TempVersions
    BY <1>1, <1>8 DEF Sents
  <2> QED BY <1>4, <2>1, <2>2 DEF Vouched, NoSent
<1>9. CASE /\ sent # NoSent /\ p # NoPuller
           /\ sent.updated = p.updated /\ sent.v = p.v
  <2>1. Updates(sent, p) = <<>> /\ SentAfter(sent, p) = sent
    BY <1>9 DEF Updates, SentAfter
  <2> QED BY <1>1, <1>9, <2>1 DEF Arrived
<1>10. CASE /\ sent # NoSent /\ p # NoPuller
            /\ ~(sent.updated = p.updated /\ sent.v = p.v)
            /\ sent.v # p.v \/ sent.created # p.created
  <2>1. /\ Updates(sent, p) = ForgetUpdate(sent.v) \o AppendUpdate(p.v, p.avail)
        /\ SentAfter(sent, p) = SentAll(p)
    BY <1>10 DEF Updates, SentAfter
  <2>2. /\ sent.v \in TempVersions /\ p.v \in TempVersions
        /\ p.avail \in Seq(TempBlocks) /\ d.v \in {sent.v, "none"}
    BY <1>1, <1>10 DEF Sents, Pullers, Vouched
  <2> QED BY <1>2, <1>6, <1>10, <2>1, <2>2 DEF Vouched
<1>11. CASE /\ sent # NoSent /\ p # NoPuller
            /\ ~(sent.updated = p.updated /\ sent.v = p.v)
            /\ sent.v = p.v /\ sent.created = p.created
  <2> DEFINE new == SubSeq(p.avail, Len(sent.blocks) + 1, Len(p.avail))
  <2>1. /\ Updates(sent, p) = IF new = <<>> THEN <<>> ELSE AppendUpdate(sent.v, new)
        /\ SentAfter(sent, p) = SentAll(p)
    BY <1>11 DEF Updates, SentAfter
  <2>2. /\ sent.v \in TempVersions /\ p.avail \in Seq(TempBlocks)
        /\ sent.blocks \in Seq(TempBlocks)
    BY <1>1, <1>11 DEF Sents, Pullers
  <2>3. /\ new \in Seq(TempBlocks) /\ Elems(new) \subseteq Elems(p.avail)
    <3>1. Len(sent.blocks) + 1 \in Nat /\ Len(p.avail) \in Nat
          /\ Len(sent.blocks) + 1 >= 1 /\ Len(p.avail) <= Len(p.avail)
      BY <2>2
    <3> QED BY <2>2, <3>1, ElemsFacts
  <2>4. Elems(sent.blocks) \subseteq Elems(p.avail)
    BY <1>11 DEF Fits, PartOf
  <2> HIDE DEF new
  <2>5. CASE new = <<>>
    BY <1>2, <1>11, <2>1, <2>4, <2>5 DEF Vouched, Arrived
  <2>6. CASE new # <<>>
    <3>1. d.v = sent.v => d.blocks \in Seq(TempBlocks)
                          /\ Elems(d.blocks) \subseteq Elems(p.avail)
      BY <1>1, <1>11, <2>4 DEF Vouched, Sents, NoSent
    <3>2. d.v = sent.v => Elems(d.blocks \o new) \subseteq Elems(p.avail)
      BY <2>3, <3>1, ElemsFacts
    <3> QED BY <1>2, <1>5, <1>11, <2>1, <2>2, <2>3, <2>6, <3>2 DEF Vouched
  <2> QED BY <1>3, <2>5, <2>6
<1> QED BY <1>7, <1>8, <1>9, <1>10, <1>11

\* A block that becomes available is added to the puller's, with a new stamp.
LEMMA NewBlock ==
    ASSUME TempTypes, NEW b \in TempBlocks, BlockReady(b)
    PROVE  /\ puller # NoPuller /\ puller \in Pullers /\ puller' \in Pullers
           /\ stamp' = stamp + 1 /\ puller'.updated = stamp'
           /\ puller'.v = puller.v /\ puller'.created = puller.created
           /\ Elems(puller.avail) \subseteq Elems(puller'.avail)
<1>1. puller \in Pullers /\ puller # NoPuller /\ stamp' = stamp + 1 /\ stamp' \in Nat
  BY DEF BlockReady, TempTypes
<1>2. puller' = [v |-> puller.v, created |-> puller.created,
                 avail |-> Append(puller.avail, b), updated |-> stamp']
  BY <1>1 DEF BlockReady, Pullers
<1>3. /\ puller.avail \in Seq(TempBlocks)
      /\ Append(puller.avail, b) \in Seq(TempBlocks)
  BY <1>1 DEF Pullers
<1>4. Elems(puller.avail) \subseteq Elems(Append(puller.avail, b))
  BY <1>3 DEF Elems
<1> QED BY <1>1, <1>2, <1>3, <1>4 DEF Pullers

\* What has a new time stamp, later than all before, fits what was sent as long
\* as it is made anew or has only become more.
LEMMA NewStampFits ==
    ASSUME TempInv, NEW q \in Pullers, q.updated = stamp + 1,
           \/ q.created = stamp + 1
           \/ /\ puller # NoPuller /\ q.created = puller.created
              /\ q.v = puller.v /\ Elems(puller.avail) \subseteq Elems(q.avail)
    PROVE  /\ Fits(q) /\ q # NoPuller /\ q.created <= stamp + 1
           /\ \A n \in Nat : n <= stamp => ~(n >= q.updated)
<1> USE DEF TempInv
<1>1. /\ puller.created \in Nat /\ sent.created \in Nat /\ sent.updated \in Nat
      /\ stamp \in Nat
  BY DEF TempTypes, Pullers, Sents, NoPuller, NoSent
<1>2. sent.updated # q.updated /\ sent.created # stamp + 1
  BY <1>1 DEF Stamped
<1>3. q # NoPuller
  BY TempAssumption DEF Pullers, NoPuller
<1>4. Fits(q)
  <2> SUFFICES ASSUME sent # NoSent, sent.created = q.created PROVE PartOf(sent, q)
    BY <1>2 DEF Fits
  <2>1. puller # NoPuller /\ q.created = puller.created /\ q.v = puller.v
        /\ Elems(puller.avail) \subseteq Elems(q.avail)
    BY <1>2
  <2>2. PartOf(sent, puller)
    BY <2>1 DEF SentFits, Fits
  <2> QED BY <2>1, <2>2 DEF PartOf
<1>5. q.created <= stamp + 1
  BY <1>1 DEF Stamped
<1>6. \A n \in Nat : n <= stamp => ~(n >= q.updated)
  BY <1>1
<1> QED BY <1>3, <1>4, <1>5, <1>6

\* Register and BlockAvailable.
LEMMA PullerSteps ==
    ASSUME TempInv,
           \/ \E v \in TempVersions : \/ Register(v, <<>>)
                                      \/ \E b \in TempBlocks : Register(v, <<b>>)
           \/ \E b \in TempBlocks : BlockAvailable(b)
    PROVE  TempInv'
<1> USE DEF TempInv
<1>1. /\ UNCHANGED <<disabled, lastSeen, sent, subscribed, unsent, connected,
                     inFlight, downloads, raced>>
      /\ stamp' = stamp + 1 /\ stamp \in Nat
  BY Zenon DEF Register, BlockAvailable, BlockReady, TempTypes
<1>2. timer' \in BOOLEAN /\ (~timer' => ~timer)
  BY Zenon DEF Register, BlockAvailable, TempTypes
<1>3. /\ puller' \in Pullers /\ puller'.updated = stamp + 1
      /\ \/ puller'.created = stamp + 1
         \/ /\ puller # NoPuller /\ puller'.created = puller.created
            /\ puller'.v = puller.v /\ Elems(puller.avail) \subseteq Elems(puller'.avail)
  <2>1. ASSUME NEW v \in TempVersions, NEW bs \in Seq(TempBlocks), Register(v, bs)
        PROVE  /\ puller' \in Pullers /\ puller'.updated = stamp + 1
               /\ puller'.created = stamp + 1
    BY <1>1, <2>1 DEF Register, Pullers
  <2>2. <<>> \in Seq(TempBlocks) /\ \A b \in TempBlocks : <<b>> \in Seq(TempBlocks)
    OBVIOUS
  <2>3. CASE \E b \in TempBlocks : BlockAvailable(b)
    BY <2>3, NewBlock DEF BlockAvailable
  <2>4. CASE \E v \in TempVersions : \/ Register(v, <<>>)
                                     \/ \E b \in TempBlocks : Register(v, <<b>>)
    BY <2>1, <2>2, <2>4
  <2> QED BY <2>3, <2>4
<1>4. /\ Fits(puller') /\ puller' # NoPuller /\ puller'.created <= stamp + 1
      /\ \A n \in Nat : n <= stamp => ~(n >= puller'.updated)
  BY <1>3, NewStampFits
<1>5. TempTypes'
  <2>1. stamp' \in Nat
    BY <1>1
  <2> QED BY <1>1, <1>2, <1>3, <2>1 DEF TempTypes
<1>6. /\ sent.created \in Nat /\ sent.updated \in Nat /\ lastSeen.update \in Nat
  BY DEF TempTypes, Sents, NoSent
<1>7. Stamped'
  BY <1>1, <1>3, <1>4, <1>6 DEF Stamped
<1>8. SentFits'
  BY <1>1, <1>4, <1>6 DEF SentFits, Fits, PartOf, Stamped
<1>9. EmitterAt'
  BY <1>1, <1>2 DEF EmitterAt
<1> QED BY <1>5, <1>7, <1>8, <1>9

\* The timer: what is computed is what the new sent state stands for. The puller
\* is read as p, which may lack what it has got meanwhile.
LEMMA TickReadsStep ==
    ASSUME TempInv, NEW p \in Pullers \union {NoPuller}, TickReads(p), Fits(p),
           stamp' \in Nat, stamp <= stamp',
           puller' \in Pullers \union {NoPuller}, Fits(puller'),
           puller'.created <= stamp', puller'.updated <= stamp',
           p = NoPuller <=> puller = NoPuller, puller' = NoPuller <=> puller = NoPuller,
           p.v = puller'.v, p.created = puller'.created, p.updated = puller'.updated,
           Elems(p.avail) \subseteq Elems(puller'.avail),
           lastSeen'.update >= puller'.updated => puller' = puller
    PROVE  TempInv'
<1> USE DEF TempInv
<1>1. UNCHANGED <<disabled, subscribed, connected, inFlight, downloads, raced>>
  BY DEF TickReads
<1>2. /\ lastSeen' = [update |-> NewestUpdate, count |-> Count]
      /\ timer' = (Count # 0) /\ unsent = <<>>
  BY DEF TickReads
<1>3. /\ puller.updated \in Nat /\ lastSeen.update \in Nat /\ stamp \in Nat
      /\ puller.updated <= stamp /\ lastSeen.update <= stamp
      /\ sent.created \in Nat /\ sent.updated \in Nat
      /\ sent.created <= stamp /\ sent.updated <= stamp
  BY DEF TempTypes, Pullers, Sents, NoPuller, NoSent, Stamped
<1>4. /\ NewestUpdate \in Nat /\ NewestUpdate <= stamp
      /\ Count \in {0, 1} /\ (Count = 0 <=> puller = NoPuller)
      /\ lastSeen' \in [update : Nat, count : {0, 1}]
      /\ lastSeen'.update = NewestUpdate /\ lastSeen'.count = Count
  <2>1. NewestUpdate \in Nat /\ NewestUpdate <= stamp
    BY <1>3 DEF NewestUpdate
  <2>2. Count \in {0, 1} /\ (Count = 0 <=> puller = NoPuller)
    BY DEF Count
  <2> QED BY <1>2, <2>1, <2>2
<1>5. \/ sent' = sent /\ unsent' = unsent /\ lastSeen' = lastSeen
      \/ sent' = NoSent /\ unsent' = unsent
      \/ sent' = SentAfter(sent, p) /\ unsent' = Updates(sent, p) /\ subscribed
  BY DEF TickReads
<1>6. /\ Updates(sent, p) \in DownMsgs \union {<<>>}
      /\ SentAfter(sent, p) \in Sents \union {NoSent}
  <2>1. NoSent \in Sents \union {NoSent} /\ Vouched(NoSent, sent)
    BY DEF Vouched, NoSent
  <2> QED BY <2>1, UpdatesFacts
<1>7. TempTypes'
  BY <1>1, <1>2, <1>4, <1>5, <1>6 DEF TempTypes
<1>8. \/ sent' = sent /\ lastSeen' = lastSeen
      \/ sent' = NoSent
      \/ sent' = sent /\ p # NoPuller /\ sent # NoSent /\ sent.updated = p.updated
      \/ sent' = SentAll(p) /\ p # NoPuller
  BY <1>5 DEF SentAfter
<1>9. Stamped'
  <2>1. sent'.created <= stamp' /\ sent'.updated <= stamp'
    <3>1. CASE sent' = sent
      BY <1>3, <3>1
    <3>2. CASE sent' = NoSent
      BY <3>2 DEF NoSent
    <3>3. CASE sent' = SentAll(p)
      BY <3>3 DEF SentAll
    <3> QED BY <1>8, <3>1, <3>2, <3>3
  <2>2. lastSeen'.update <= stamp'
    BY <1>3, <1>4
  <2> QED BY <2>1, <2>2 DEF Stamped
<1>10. SentFits'
  <2>1. CASE sent' = sent /\ lastSeen' = lastSeen
    <3>1. Fits(puller)'
      BY <2>1 DEF Fits, PartOf
    <3>2. /\ puller' # NoPuller /\ sent' # NoSent /\ lastSeen'.update >= puller'.updated
          => PartOf(sent, puller)'
      BY <2>1 DEF SentFits, PartOf
    <3> QED BY <3>1, <3>2 DEF SentFits
  <2>2. CASE sent' = NoSent
    BY <2>2 DEF SentFits, Fits
  <2>3. CASE sent' = sent /\ p # NoPuller /\ sent # NoSent /\ sent.updated = p.updated
    <3>1. PartOf(sent, p)
      BY <2>3 DEF Fits
    <3>2. PartOf(sent, puller)'
      BY <2>3, <3>1 DEF PartOf
    <3> QED BY <3>2 DEF SentFits, Fits
  <2>4. CASE sent' = SentAll(p)
    <3>1. PartOf(sent, puller)'
      BY <2>4 DEF PartOf, SentAll
    <3> QED BY <3>1 DEF SentFits, Fits
  <2> QED BY <1>8, <2>1, <2>2, <2>3, <2>4
<1>11. EmitterAt'
  <2>1. lastSeen'.count = 0 => sent' = NoSent
    BY <1>4, <1>8 DEF EmitterAt
  <2>2. ~timer' => lastSeen'.count = 0
    BY <1>2, <1>4
  <2>3. unsent' # <<>> => subscribed
    BY <1>2, <1>5
  <2> QED BY <1>1, <2>1, <2>2, <2>3 DEF EmitterAt
<1> QED BY <1>7, <1>9, <1>10, <1>11

\* What Serve reads of the puller in a tick, as p: as much as it has then.
ReadAs(p) ==
    /\ p \in Pullers \union {NoPuller} /\ TickReads(p) /\ Fits(p)
    /\ TempInv'

LEMMA TickStep ==
    ASSUME TempInv, Tick \/ \E b \in TempBlocks : TickMeanwhile(b)
    PROVE  \E p : ReadAs(p)
<1> USE DEF TempInv
<1>1. CASE Tick
  <2>1. TickReads(puller) /\ UNCHANGED <<puller, stamp>>
    BY <1>1 DEF Tick
  <2>2. /\ puller \in Pullers \union {NoPuller} /\ Fits(puller) /\ stamp \in Nat
        /\ puller.created <= stamp /\ puller.updated <= stamp
    BY DEF TempTypes, SentFits, Stamped
  <2>3. puller' \in Pullers \union {NoPuller} /\ Fits(puller')
    BY <2>1, <2>2
  <2>4. TempInv'
    BY <2>1, <2>2, <2>3, TickReadsStep
  <2> QED BY <2>1, <2>2, <2>4 DEF ReadAs
<1>2. CASE \E b \in TempBlocks : TickMeanwhile(b)
  <2>1. PICK b \in TempBlocks : TickMeanwhile(b)
    BY <1>2
  <2>2. PICK avail \in {puller.avail, puller'.avail} :
           TickReads([puller' EXCEPT !.avail = avail])
    BY <2>1 DEF TickMeanwhile
  <2> DEFINE p == [puller' EXCEPT !.avail = avail]
  <2>3. /\ puller # NoPuller /\ puller \in Pullers /\ puller' \in Pullers
        /\ stamp' = stamp + 1 /\ puller'.updated = stamp + 1
        /\ puller'.v = puller.v /\ puller'.created = puller.created
        /\ Elems(puller.avail) \subseteq Elems(puller'.avail)
    BY <2>1, NewBlock DEF TickMeanwhile
  <2>4. avail \in Seq(TempBlocks)
    BY <2>2, <2>3 DEF Pullers
  <2>5. p = [v |-> puller'.v, created |-> puller'.created, avail |-> avail,
             updated |-> puller'.updated]
    BY <2>3 DEF Pullers
  <2>6. TickReads(p)
    BY <2>2
  <2> HIDE DEF p
  <2>7. /\ p \in Pullers /\ p.v = puller'.v /\ p.created = puller'.created
        /\ p.updated = puller'.updated /\ p.avail = avail
    BY <2>3, <2>4, <2>5 DEF Pullers
  <2>8. /\ Elems(puller.avail) \subseteq Elems(p.avail)
        /\ Elems(p.avail) \subseteq Elems(puller'.avail)
    BY <2>2, <2>3, <2>7
  <2>9. Fits(p) /\ p # NoPuller
    BY <2>3, <2>7, <2>8, NewStampFits
  <2>10. /\ Fits(puller') /\ puller' # NoPuller /\ puller'.created <= stamp + 1
         /\ \A n \in Nat : n <= stamp => ~(n >= puller'.updated)
    BY <2>3, NewStampFits
  <2>11. stamp \in Nat /\ stamp' \in Nat /\ stamp <= stamp' /\ puller'.updated <= stamp'
    BY <2>3 DEF TempTypes
  <2>12. ~(lastSeen'.update >= puller'.updated)
    <3>1. NewestUpdate \in Nat /\ NewestUpdate <= stamp
      BY <2>11 DEF NewestUpdate, TempTypes, Pullers, NoPuller, Stamped
    <3>2. lastSeen'.update = NewestUpdate
      BY <2>6 DEF TickReads
    <3> QED BY <2>10, <3>1, <3>2
  <2>13. puller'.created <= stamp'
    BY <2>3, <2>10
  <2>14. TempInv'
    BY <2>3, <2>6, <2>7, <2>8, <2>9, <2>10, <2>11, <2>12, <2>13, TickReadsStep
  <2> QED BY <2>6, <2>7, <2>9, <2>14 DEF ReadAs
<1> QED BY <1>1, <1>2

LEMMA TempInvStep == TempInv /\ [TempNext]_tempVars => TempInv'
<1> SUFFICES ASSUME TempInv, [TempNext]_tempVars PROVE TempInv'
  OBVIOUS
<1> USE DEF TempInv
<1>1. CASE \/ \E v \in TempVersions : \/ Register(v, <<>>)
                                      \/ \E b \in TempBlocks : Register(v, <<b>>)
           \/ \E b \in TempBlocks : BlockAvailable(b)
  BY <1>1, PullerSteps
<1>2. CASE Tick \/ \E b \in TempBlocks : TickMeanwhile(b)
  BY <1>2, TickStep DEF ReadAs
<1>3. CASE Deregister
  <2>1. puller' = NoPuller /\ UNCHANGED <<stamp, timer, disabled, lastSeen, sent,
            subscribed, unsent, connected, inFlight, downloads, raced>>
    BY <1>3 DEF Deregister
  <2>2. TempTypes' /\ EmitterAt' /\ SentFits'
    BY <2>1 DEF TempTypes, EmitterAt, SentFits, Fits
  <2>3. Stamped'
    BY <2>1 DEF Stamped, TempTypes, NoPuller
  <2> QED BY <2>2, <2>3
<1>4. CASE SendUpdates
  <2>1. /\ unsent \in DownMsgs /\ unsent' = <<>>
        /\ inFlight' \in {inFlight, Append(inFlight, unsent)}
        /\ UNCHANGED <<puller, stamp, timer, disabled, lastSeen, sent, subscribed,
                       connected, downloads, raced>>
    BY <1>4 DEF SendUpdates, TempTypes
  <2>2. inFlight' \in Seq(DownMsgs)
    BY <2>1 DEF TempTypes
  <2>3. TempTypes'
    BY <2>1, <2>2 DEF TempTypes
  <2> QED BY <2>1, <2>3 DEF Stamped, SentFits, Fits, PartOf, EmitterAt
<1>5. CASE Disable
  <2>1. /\ puller' = NoPuller /\ sent' = NoSent /\ subscribed' = FALSE
        /\ disabled' = TRUE /\ raced' = (raced \/ unsent # <<>>)
        /\ UNCHANGED <<stamp, timer, lastSeen, unsent, connected, downloads>>
    BY <1>5 DEF Disable
  <2>2. inFlight' \in Seq(DownMsgs)
    <3>1. CASE sent # NoSent
      <4>1. sent.v \in TempVersions
        BY <3>1 DEF TempTypes, Sents
      <4>2. ForgetUpdate(sent.v) \in DownMsgs
        <5> DEFINE u == [type |-> "forget", v |-> sent.v, blocks |-> <<>>]
        <5>1. u \in DownUpdates
          BY <4>1, EmptyDownloads DEF DownUpdates
        <5>2. ForgetUpdate(sent.v) = <<u>>
          BY DEF ForgetUpdate
        <5> HIDE DEF u
        <5> QED BY <5>1, <5>2 DEF DownMsgs
      <4> QED BY <1>5, <4>2 DEF Disable, TempTypes
    <3>2. CASE sent = NoSent
      BY <1>5, <3>2 DEF Disable, TempTypes
    <3> QED BY <3>1, <3>2
  <2>3. TempTypes'
    <3>1. raced' \in BOOLEAN
      BY <2>1 DEF TempTypes
    <3> QED BY <2>1, <2>2, <3>1 DEF TempTypes
  <2>4. Stamped'
    BY <2>1 DEF Stamped, TempTypes, NoPuller, NoSent
  <2>5. SentFits'
    BY <2>1 DEF SentFits, Fits
  <2>6. EmitterAt'
    BY <2>1 DEF EmitterAt
  <2> QED BY <2>3, <2>4, <2>5, <2>6
<1>6. CASE Enable \/ TemporaryIndexSubscribe
  <2>1. UNCHANGED <<puller, stamp, timer, lastSeen, sent, unsent, connected,
                    inFlight, downloads, raced>>
    BY <1>6 DEF Enable, TemporaryIndexSubscribe
  <2>2. disabled' \in BOOLEAN /\ subscribed' \in BOOLEAN
    BY <1>6, Zenon DEF Enable, TemporaryIndexSubscribe, TempTypes
  <2>3. (subscribed' => connected) /\ (subscribed => subscribed')
    BY <1>6 DEF Enable, TemporaryIndexSubscribe, EmitterAt
  <2>4. TempTypes'
    BY <2>1, <2>2 DEF TempTypes
  <2>5. Stamped' /\ SentFits'
    BY <2>1 DEF Stamped, SentFits, Fits, PartOf
  <2> QED BY <2>1, <2>3, <2>4, <2>5 DEF EmitterAt
<1>7. CASE ReceiveUpdates
  <2>1. /\ inFlight # <<>> /\ inFlight' = Tail(inFlight)
        /\ downloads' = ApplyAll(downloads, Head(inFlight))
        /\ UNCHANGED <<puller, stamp, timer, disabled, lastSeen, sent, subscribed,
                       unsent, connected, raced>>
    BY <1>7 DEF ReceiveUpdates, ApplyAll
  <2>2. Head(inFlight) \in DownMsgs /\ Tail(inFlight) \in Seq(DownMsgs)
    BY <2>1 DEF TempTypes
  <2>3. downloads' \in Sents \union {NoSent}
    BY <2>1, <2>2, ApplyTypes DEF TempTypes
  <2>4. TempTypes'
    BY <2>1, <2>2, <2>3 DEF TempTypes
  <2> QED BY <2>1, <2>4 DEF Stamped, SentFits, Fits, PartOf, EmitterAt
<1>8. CASE Disconnect \/ Connect
  <2>1. /\ UNCHANGED <<puller, stamp, timer, disabled, lastSeen, sent, raced>>
        /\ \/ /\ connected' = FALSE /\ subscribed' = FALSE /\ inFlight' = <<>>
              /\ downloads' = NoSent /\ unsent' = <<>>
           \/ /\ connected' = TRUE
              /\ UNCHANGED <<subscribed, unsent, inFlight, downloads>>
    BY <1>8 DEF Disconnect, Connect
  <2>2. TempTypes'
    <3>1. inFlight' \in Seq(DownMsgs)
      <4>1. <<>> \in Seq(DownMsgs) /\ inFlight \in Seq(DownMsgs)
        BY DEF TempTypes
      <4>2. inFlight' \in {<<>>, inFlight}
        BY <2>1
      <4> QED BY <4>1, <4>2, Zenon
    <3>2. connected' \in BOOLEAN /\ subscribed' \in BOOLEAN
      BY <2>1 DEF TempTypes
    <3>3. unsent' \in DownMsgs \union {<<>>} /\ downloads' \in Sents \union {NoSent}
      BY <2>1 DEF TempTypes
    <3> QED BY <2>1, <3>1, <3>2, <3>3 DEF TempTypes
  <2> QED BY <2>1, <2>2 DEF Stamped, SentFits, Fits, PartOf, EmitterAt
<1>9. CASE UNCHANGED tempVars
  BY <1>9 DEF tempVars, TempTypes, Stamped, SentFits, Fits, PartOf, EmitterAt
<1> QED
  BY <1>1, <1>2, <1>3, <1>4, <1>5, <1>6, <1>7, <1>8, <1>9 DEF TempNext

\* A message that is sent is the last to arrive.
LEMMA SendArrives ==
    ASSUME NEW d, NEW q \in Seq(DownMsgs), NEW m \in DownMsgs,
           NEW ds, Arrivals(ds, d, q)
    PROVE  LET last == ApplyAll(ds[Len(ds)], m)
           IN  /\ Arrivals(Append(ds, last), d, Append(q, m))
               /\ Append(ds, last)[Len(Append(ds, last))] = last
<1> DEFINE S == Sents \union {NoSent}
           last == ApplyAll(ds[Len(ds)], m)
           es == Append(ds, last)
           r == Append(q, m)
<1>1. ds \in Seq(S) /\ Len(q) \in Nat /\ Len(ds) = Len(q) + 1 /\ ds[Len(ds)] \in S
      /\ ds[1] = d
  BY DEF Arrivals
<1>2. last \in S
  BY <1>1, ApplyTypes
<1>3. ds[Len(q) + 1] = ds[Len(ds)]
  BY <1>1
<1> HIDE DEF S
<1>4. \A i \in 1..Len(q) : ds[i + 1] = ApplyAll(ds[i], q[i])
  BY DEF Arrivals
<1>5. last = ApplyAll(ds[Len(q) + 1], m)
  BY <1>3
<1> HIDE DEF last
<1>6. /\ es \in Seq(S) /\ Len(es) = Len(q) + 2 /\ es[Len(q) + 2] = last
      /\ \A i \in 1..(Len(q) + 1) : es[i] = ds[i]
  BY <1>1, <1>2
<1>7. /\ Len(r) = Len(q) + 1 /\ r[Len(q) + 1] = m
      /\ \A i \in 1..Len(q) : r[i] = q[i]
  OBVIOUS
<1> HIDE DEF es, r
<1>8. ASSUME NEW i \in 1..Len(r) PROVE es[i + 1] = ApplyAll(es[i], r[i])
  <2>1. CASE i \in 1..Len(q)
    <3>1. es[i + 1] = ds[i + 1] /\ es[i] = ds[i] /\ r[i] = q[i]
      BY <1>1, <1>6, <1>7, <2>1
    <3> QED BY <1>4, <2>1, <3>1
  <2>2. CASE i = Len(q) + 1
    <3>1. es[i + 1] = last /\ es[i] = ds[Len(q) + 1] /\ r[i] = m
      BY <1>1, <1>6, <1>7, <2>2
    <3> QED BY <1>5, <3>1
  <2> QED BY <1>1, <1>7, <2>1, <2>2
<1>9. es[1] = d /\ Len(es) = Len(r) + 1
  BY <1>1, <1>6, <1>7
<1>10. Arrivals(es, d, r)
  BY <1>6, <1>8, <1>9 DEF Arrivals, S
<1>11. es[Len(es)] = last
  BY <1>6
<1> QED BY <1>10, <1>11 DEF es, r, last

\* The first message arrives.
LEMMA ReceiveArrives ==
    ASSUME NEW d, NEW q \in Seq(DownMsgs), q # <<>>, NEW ds, Arrivals(ds, d, q)
    PROVE  /\ Arrivals(Tail(ds), ApplyAll(d, Head(q)), Tail(q))
           /\ Tail(ds)[Len(Tail(ds))] = ds[Len(ds)]
<1> DEFINE S == Sents \union {NoSent}
<1> HIDE DEF S
<1>1. /\ ds \in Seq(S) /\ Len(ds) = Len(q) + 1 /\ ds[1] = d /\ Len(q) \in Nat
      /\ Len(q) >= 1
  BY DEF Arrivals, S
<1>2. \A i \in 1..Len(q) : ds[i + 1] = ApplyAll(ds[i], q[i])
  BY DEF Arrivals
<1>3. /\ Tail(ds) \in Seq(S) /\ Len(Tail(ds)) = Len(q)
      /\ \A i \in 1..Len(q) : Tail(ds)[i] = ds[i + 1]
  BY <1>1
<1>4. /\ Len(Tail(q)) = Len(q) - 1 /\ Head(q) = q[1]
      /\ \A i \in 1..(Len(q) - 1) : Tail(q)[i] = q[i + 1]
  BY <1>1
<1>5. Tail(ds)[1] = ApplyAll(d, Head(q))
  BY <1>1, <1>2, <1>3, <1>4
<1>6. ASSUME NEW i \in 1..Len(Tail(q))
      PROVE  Tail(ds)[i + 1] = ApplyAll(Tail(ds)[i], Tail(q)[i])
  <2>1. i \in 1..(Len(q) - 1) /\ i \in 1..Len(q) /\ i + 1 \in 1..Len(q) /\ i \in Nat
    BY <1>1, <1>4
  <2>2. Tail(ds)[i + 1] = ds[(i + 1) + 1] /\ Tail(ds)[i] = ds[i + 1]
        /\ Tail(q)[i] = q[i + 1]
    BY <1>3, <1>4, <2>1
  <2> QED BY <1>2, <2>1, <2>2
<1>7. Len(Tail(ds)) = Len(Tail(q)) + 1
  BY <1>1, <1>3, <1>4
<1>8. Tail(ds)[Len(Tail(ds))] = ds[Len(ds)]
  BY <1>1, <1>3
<1> QED BY <1>3, <1>5, <1>6, <1>7, <1>8 DEF Arrivals, S

\* The other device is accounted for after every step.
LEMMA AccountedStep ==
    TempInv /\ Accounted /\ [TempNext]_tempVars => Accounted'
<1> SUFFICES ASSUME TempInv, Accounted, [TempNext]_tempVars, ~raced'
             PROVE  \E ds : /\ Arrivals(ds, downloads', inFlight')
                            /\ Vouched(Arrived(ds[Len(ds)], unsent'), sent')
                            /\ ~subscribed' => Arrived(ds[Len(ds)], unsent').v = "none"
  BY DEF Accounted
<1> USE DEF TempInv
<1>1. ~raced /\ (Disable => unsent = <<>>)
  <2>1. CASE Disable
    <3>1. raced' = (raced \/ unsent # <<>>)
      BY <2>1 DEF Disable
    <3> QED BY <3>1, Zenon
  <2>2. CASE ~Disable
    <3>1. raced' = raced
      BY <2>2 DEF TempNext, tempVars, Register, BlockAvailable, Deregister, Tick, TickMeanwhile, TickReads,
                  SendUpdates, Enable, TemporaryIndexSubscribe, ReceiveUpdates,
                  Disconnect, Connect
    <3> QED BY <2>2, <3>1
  <2> QED BY <2>1, <2>2
<1>2. PICK ds : /\ Arrivals(ds, downloads, inFlight)
                /\ Vouched(Arrived(ds[Len(ds)], unsent), sent)
                /\ ~subscribed => Arrived(ds[Len(ds)], unsent).v = "none"
  BY <1>1 DEF Accounted
<1> DEFINE d == ds[Len(ds)]
<1>3. d \in Sents \union {NoSent}
  BY <1>2 DEF Arrivals, TempTypes
<1> HIDE DEF d
<1>4. /\ Vouched(Arrived(d, unsent), sent)
      /\ ~subscribed => Arrived(d, unsent).v = "none"
  BY <1>2 DEF d
<1>5. CASE /\ UNCHANGED <<inFlight, downloads, unsent, sent>>
           /\ subscribed => subscribed'
  BY <1>2, <1>5
<1>6. CASE Tick \/ \E b \in TempBlocks : TickMeanwhile(b)
  <2>0. PICK p : p \in Pullers \union {NoPuller} /\ TickReads(p) /\ Fits(p)
    BY <1>6, TickStep DEF ReadAs
  <2>1. UNCHANGED <<inFlight, downloads, subscribed>> /\ unsent = <<>>
    BY <2>0 DEF TickReads
  <2>2. Arrived(d, unsent) = d
    BY <2>1 DEF Arrived
  <2>3. \/ sent' = sent /\ unsent' = <<>>
        \/ sent' = NoSent /\ unsent' = <<>> /\ ~subscribed
        \/ sent' = SentAfter(sent, p) /\ unsent' = Updates(sent, p) /\ subscribed
    BY <2>0, <2>1 DEF TickReads
  <2>4. CASE sent' = SentAfter(sent, p) /\ unsent' = Updates(sent, p) /\ subscribed
    <3>1. Vouched(Arrived(d, unsent'), sent')
      BY <1>3, <1>4, <2>0, <2>2, <2>4, UpdatesFacts
    <3> QED BY <1>2, <2>1, <2>4, <3>1 DEF d
  <2>5. CASE sent' = sent /\ unsent' = <<>>
    BY <1>2, <2>1, <2>5
  <2>6. CASE sent' = NoSent /\ unsent' = <<>> /\ ~subscribed
    <3>1. Arrived(d, unsent') = d /\ d.v = "none"
      BY <1>4, <2>2, <2>6 DEF Arrived
    <3> QED BY <1>2, <2>1, <3>1 DEF d, Vouched
  <2> QED BY <2>3, <2>4, <2>5, <2>6
<1>7. CASE SendUpdates
  <2>1. /\ unsent # <<>> /\ unsent \in DownMsgs /\ inFlight \in Seq(DownMsgs)
        /\ unsent' = <<>> /\ inFlight' = Append(inFlight, unsent)
        /\ UNCHANGED <<downloads, sent, subscribed>>
    BY <1>7 DEF SendUpdates, TempTypes, EmitterAt
  <2> DEFINE e == ApplyAll(d, unsent)
  <2>2. Arrived(d, unsent) = e /\ Arrived(e, unsent') = e
    BY <2>1 DEF Arrived
  <2>3. /\ Arrivals(Append(ds, e), downloads', inFlight')
        /\ Append(ds, e)[Len(Append(ds, e))] = e
    BY <1>2, <2>1, SendArrives DEF d
  <2> HIDE DEF e
  <2> QED BY <1>4, <2>1, <2>2, <2>3
<1>8. CASE Disable
  <2>1. /\ unsent = <<>> /\ unsent' = <<>> /\ sent' = NoSent /\ downloads' = downloads
        /\ Arrived(d, unsent) = d
    BY <1>1, <1>8 DEF Disable, Arrived
  <2>2. CASE sent # NoSent /\ subscribed
    <3>1. sent.v \in TempVersions /\ inFlight \in Seq(DownMsgs)
      BY <2>2 DEF TempTypes, Sents
    <3> DEFINE u == [type |-> "forget", v |-> sent.v, blocks |-> <<>>]
    <3>2. u \in DownUpdates /\ u.type = "forget" /\ u.v = sent.v
      BY <3>1, EmptyDownloads DEF DownUpdates
    <3>3. inFlight' = Append(inFlight, <<u>>)
      BY <1>8, <2>2 DEF Disable, ForgetUpdate
    <3> HIDE DEF u
    <3>4. <<u>> \in DownMsgs /\ Len(<<u>>) = 1 /\ <<u>>[1] = u
      BY <3>2 DEF DownMsgs
    <3> DEFINE e == ApplyAll(d, <<u>>)
    <3>5. e.v = "none"
      BY <1>4, <2>1, <3>2, <3>4 DEF ApplyAll, Apply, Vouched, NoSent
    <3>6. /\ Arrivals(Append(ds, e), downloads', inFlight')
          /\ Append(ds, e)[Len(Append(ds, e))] = e
      BY <1>2, <2>1, <3>1, <3>3, <3>4, SendArrives DEF d
    <3> HIDE DEF e
    <3> QED BY <2>1, <3>5, <3>6 DEF Arrived, Vouched
  <2>3. CASE ~(sent # NoSent /\ subscribed)
    <3>1. inFlight' = inFlight
      BY <1>8, <2>3 DEF Disable
    <3>2. d.v = "none"
      BY <1>4, <2>1, <2>3 DEF Vouched, NoSent
    <3> QED BY <1>2, <2>1, <3>1, <3>2 DEF d, Arrived, Vouched
  <2> QED BY <2>2, <2>3
<1>9. CASE ReceiveUpdates
  <2>1. /\ inFlight # <<>> /\ inFlight' = Tail(inFlight)
        /\ downloads' = ApplyAll(downloads, Head(inFlight))
        /\ UNCHANGED <<sent, subscribed, unsent>>
    BY <1>9 DEF ReceiveUpdates, ApplyAll
  <2>2. inFlight \in Seq(DownMsgs)
    BY DEF TempTypes
  <2>3. /\ Arrivals(Tail(ds), downloads', inFlight')
        /\ Tail(ds)[Len(Tail(ds))] = d
    BY <1>2, <2>1, <2>2, ReceiveArrives DEF d
  <2> QED BY <1>4, <2>1, <2>3
<1>10. CASE Disconnect
  <2>1. inFlight' = <<>> /\ downloads' = NoSent /\ unsent' = <<>>
    BY <1>10 DEF Disconnect
  <2> DEFINE n == NoSent
  <2>2. n.v = "none" /\ n = downloads' /\ n \in Sents \union {NoSent}
    BY <2>1 DEF NoSent
  <2> HIDE DEF n
  <2>3. /\ <<n>> \in Seq(Sents \union {NoSent}) /\ Len(<<n>>) = 1 /\ <<n>>[1] = n
        /\ Len(inFlight') = 0
    BY <2>1, <2>2
  <2>4. Arrivals(<<n>>, downloads', inFlight')
    BY <2>2, <2>3 DEF Arrivals
  <2>5. Arrived(<<n>>[Len(<<n>>)], unsent') = n
    BY <2>1, <2>3 DEF Arrived
  <2> QED BY <2>2, <2>4, <2>5 DEF Vouched
<1>11. \/ Tick \/ \E b \in TempBlocks : TickMeanwhile(b)
       \/ SendUpdates \/ Disable \/ ReceiveUpdates \/ Disconnect
       \/ /\ UNCHANGED <<inFlight, downloads, unsent, sent>>
          /\ subscribed => subscribed'
  BY DEF TempNext, tempVars, Register, BlockAvailable, Deregister, Enable,
         TemporaryIndexSubscribe, Connect
<1> QED BY <1>5, <1>6, <1>7, <1>8, <1>9, <1>10, <1>11

LEMMA InitTemp == TempInit => TempInv /\ Accounted
<1> SUFFICES ASSUME TempInit PROVE TempInv /\ Accounted
  OBVIOUS
<1>1. TempInv
  <2>1. <<>> \in Seq(DownMsgs)
    OBVIOUS
  <2>2. TempTypes
    BY <2>1 DEF TempInit, TempTypes
  <2> QED BY <2>2 DEF TempInit, TempInv, Stamped, SentFits, Fits, EmitterAt, NoPuller, NoSent
<1>2. Accounted
  <2> DEFINE n == NoSent
  <2>1. n.v = "none" /\ n = downloads /\ n \in Sents \union {NoSent}
    BY DEF TempInit, NoSent
  <2> HIDE DEF n
  <2>2. /\ <<n>> \in Seq(Sents \union {NoSent}) /\ Len(<<n>>) = 1 /\ <<n>>[1] = n
        /\ Len(inFlight) = 0 /\ unsent = <<>>
    BY <2>1 DEF TempInit
  <2>3. Arrivals(<<n>>, downloads, inFlight)
    BY <2>1, <2>2 DEF Arrivals
  <2>4. Arrived(<<n>>[Len(<<n>>)], unsent) = n
    BY <2>2 DEF Arrived
  <2> QED BY <2>1, <2>3, <2>4 DEF Accounted, Vouched
<1> QED BY <1>1, <1>2

\* For any versions, blocks and numbers of messages under way: once the emitter
\* has nothing more to say and its messages have arrived, the other device asks
\* for blocks of a temporary file only if its puller is there and has them.
THEOREM TempBlocksAreReal == TempSpec => []TempBlocksReal
<1>1. TempInit => TempInv /\ Accounted
  BY InitTemp
<1>2. TempInv /\ Accounted /\ [TempNext]_tempVars => TempInv' /\ Accounted'
  BY TempInvStep, AccountedStep
<1>3. TempInv /\ Accounted => TempBlocksReal
  <2> SUFFICES ASSUME TempInv, Accounted, unsent = <<>>, inFlight = <<>>, ~raced,
                      ~timer \/ lastSeen = [update |-> NewestUpdate, count |-> Count],
                      NEW v \in TempVersions, NEW b \in TempBlocks, Has(v, b)
               PROVE  /\ puller.v = v
                      /\ \E i \in DOMAIN puller.avail : puller.avail[i] = b
    BY DEF TempBlocksReal
  <2> USE DEF TempInv
  <2>1. PICK ds : /\ Arrivals(ds, downloads, inFlight)
                  /\ Vouched(Arrived(ds[Len(ds)], unsent), sent)
    BY DEF Accounted
  <2>2. Len(ds) = 1 /\ ds[1] = downloads
    BY <2>1 DEF Arrivals
  <2>3. Vouched(downloads, sent)
    BY <2>1, <2>2 DEF Arrived
  <2>4. v # "none" /\ downloads.v = v /\ b \in Elems(downloads.blocks)
    BY TempAssumption DEF Has, Elems
  <2>5. sent.v = v /\ b \in Elems(sent.blocks) /\ sent # NoSent
    BY <2>3, <2>4 DEF Vouched, NoSent
  <2>6. lastSeen.count # 0 /\ timer
    BY <2>5 DEF EmitterAt
  <2>7. lastSeen.update = NewestUpdate /\ lastSeen.count = Count
    BY <2>6
  <2>8. puller # NoPuller
    BY <2>6, <2>7 DEF Count
  <2>9. lastSeen.update >= puller.updated
    BY <2>7, <2>8 DEF NewestUpdate, TempTypes, Pullers
  <2>10. PartOf(sent, puller)
    BY <2>5, <2>8, <2>9 DEF SentFits
  <2> QED BY <2>5, <2>10 DEF PartOf, Elems
<1> QED BY <1>1, <1>2, <1>3, PTL DEF TempSpec
=============================================================================
