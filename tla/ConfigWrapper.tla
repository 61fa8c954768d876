--------------------------- MODULE ConfigWrapper ---------------------------
(***************************************************************************)
(* lib/config/wrapper.go: callers queue modifications of the               *)
(* configuration, Serve applies them one after the other, verifies and     *)
(* replaces the configuration, tells the subscribers concurrently and      *)
(* waits for them, and saves the result some time later.                   *)
(*                                                                         *)
(* The configuration is a function with one field per caller, which that   *)
(* caller's modification sets.                                             *)
(***************************************************************************)
EXTENDS Integers, Sequences

CONSTANTS CfgCallers,       \* callers of Modify
          CfgSubs,          \* committers
          MaxModifications  \* maxModifications

VARIABLES wcfg,        \* w.cfg
          wsaved,      \* the configuration on disk
          wqueue,      \* w.queue
          caller,      \* caller -> what has become of its modification
          servePc, serveE, serveTo,   \* Serve and its e and to
          saveTimer,   \* saveTimerRunning
          lastSave,    \* history: the last save there was did not fail
          wsubs,       \* w.subs
          change,      \* which change w.waiter belongs to
          commit,      \* committer -> the call of CommitConfiguration in it
          view,        \* committer -> the configuration it knows of
          leaving      \* committer -> the change Unsubscribe waits for

cfgVars == <<wcfg, wsaved, wqueue, caller, servePc, serveE, serveTo, saveTimer,
             lastSave, wsubs, change, commit, view, leaving>>
saveVars == <<wsaved, lastSave>>
serveVars == <<servePc, serveE, serveTo>>
subVars == <<wsubs, commit, view, leaving>>

NoCommit == [busy |-> FALSE]
NotLeaving == -1
Gone == -2
NobodyYet == [c \in CfgCallers |-> 0]

\* waiter.Wait() returns: every committer has handled the change.
Handled == \A s \in CfgSubs : commit[s] = NoCommit

\* modifyQueued up to the wait for the result.
Modify(c) ==
    /\ caller[c] = "idle"
    /\ \/ /\ Len(wqueue) < MaxModifications
          /\ wqueue' = Append(wqueue, c)
          /\ caller' = [caller EXCEPT ![c] = "queued"]
       \/ /\ Len(wqueue) = MaxModifications
          /\ caller' = [caller EXCEPT ![c] = "refused"]
          /\ UNCHANGED wqueue
    /\ UNCHANGED <<wcfg, saveVars, serveVars, saveTimer, change, subVars>>

\* Mutant: the modification starts from the configuration on disk.
ServeTakeSaved ==
    /\ servePc = "select" /\ wqueue # <<>>
    /\ serveE' = Head(wqueue)
    /\ wqueue' = Tail(wqueue)
    /\ serveTo' = [wsaved EXCEPT ![Head(wqueue)] = 1]
    /\ servePc' = "replace"
    /\ UNCHANGED <<wcfg, saveVars, caller, saveTimer, change, subVars>>

\* Serve takes an entry and lets its function modify a copy.
ServeTake ==
    /\ servePc = "select" /\ wqueue # <<>>
    /\ serveE' = Head(wqueue)
    /\ wqueue' = Tail(wqueue)
    /\ serveTo' = [wcfg EXCEPT ![Head(wqueue)] = 1]
    /\ servePc' = "replace"
    /\ UNCHANGED <<wcfg, saveVars, caller, saveTimer, change, subVars>>

\* replaceLocked and notifyListeners, and the result for the caller. A
\* verifier may refuse the change; the timer is started either way.
ServeReplace ==
    /\ servePc = "replace"
    /\ \/ /\ wcfg' = serveTo /\ change' = change + 1
          /\ commit' = [s \in CfgSubs |->
                           IF s \in wsubs
                           THEN [busy |-> TRUE, from |-> wcfg, to |-> serveTo]
                           ELSE commit[s]]
          /\ caller' = [caller EXCEPT ![serveE] = "applied"]
       \/ /\ caller' = [caller EXCEPT ![serveE] = "rejected"]
          /\ UNCHANGED <<wcfg, change, commit>>
    /\ saveTimer' = TRUE
    /\ servePc' = "wait"
    /\ UNCHANGED <<saveVars, wqueue, serveE, serveTo, wsubs, view, leaving>>

\* Mutant: Serve goes on while subscribers are at work.
ServeNextAtOnce ==
    /\ servePc = "wait"
    /\ servePc' = "select"
    /\ UNCHANGED <<wcfg, saveVars, wqueue, caller, serveE, serveTo, saveTimer,
                   change, subVars>>

\* All subscribers have handled the change.
ServeNext ==
    /\ servePc = "wait" /\ Handled
    /\ servePc' = "select"
    /\ UNCHANGED <<wcfg, saveVars, wqueue, caller, serveE, serveTo, saveTimer,
                   change, subVars>>

\* serveSave: Save writes the configuration that is current then, or fails,
\* which is only logged. Without a path nothing is written either.
Save ==
    \/ wsaved' = wcfg /\ lastSave' = TRUE
    \/ UNCHANGED wsaved /\ lastSave' = FALSE

\* The save timer fires.
ServeSave ==
    /\ servePc = "select" /\ saveTimer
    /\ Save /\ saveTimer' = FALSE
    /\ UNCHANGED <<wcfg, wqueue, caller, serveVars, change, subVars>>

\* Serve ends, in the middle of a change too, and saves.
ServeStop ==
    /\ servePc \in {"select", "wait"}
    /\ servePc' = "stopped"
    /\ Save
    /\ UNCHANGED <<wcfg, wqueue, caller, serveE, serveTo, saveTimer, change,
                   subVars>>

\* CommitConfiguration of a subscriber returns.
CommitDone(s) ==
    /\ commit[s] # NoCommit
    /\ view' = [view EXCEPT ![s] = commit[s].to]
    /\ commit' = [commit EXCEPT ![s] = NoCommit]
    /\ UNCHANGED <<wcfg, saveVars, wqueue, caller, serveVars, saveTimer, wsubs,
                   change, leaving>>

\* Subscribe.
Subscribe(s) ==
    /\ s \notin wsubs /\ leaving[s] \in {NotLeaving, Gone}
    /\ wsubs' = wsubs \union {s}
    /\ view' = [view EXCEPT ![s] = wcfg]
    /\ leaving' = [leaving EXCEPT ![s] = NotLeaving]
    /\ UNCHANGED <<wcfg, saveVars, wqueue, caller, serveVars, saveTimer, change,
                   commit>>

\* Unsubscribe takes the committer out and picks up the waiter...
Unsubscribe(s) ==
    /\ s \in wsubs
    /\ wsubs' = wsubs \ {s}
    /\ leaving' = [leaving EXCEPT ![s] = change]
    /\ UNCHANGED <<wcfg, saveVars, wqueue, caller, serveVars, saveTimer, change,
                   commit, view>>

\* ... and returns when that change has been handled by everybody.
Unsubscribed(s) ==
    /\ leaving[s] >= 0
    /\ leaving[s] # change \/ Handled
    /\ leaving' = [leaving EXCEPT ![s] = Gone]
    /\ UNCHANGED <<wcfg, saveVars, wqueue, caller, serveVars, saveTimer, change,
                   wsubs, commit, view>>

CfgInit ==
    /\ wcfg = NobodyYet /\ wsaved = NobodyYet /\ wqueue = <<>>
    /\ caller = [c \in CfgCallers |-> "idle"]
    /\ servePc = "select" /\ serveE \in {CHOOSE c \in CfgCallers : TRUE}
    /\ serveTo = NobodyYet
    /\ saveTimer = FALSE /\ lastSave = TRUE /\ wsubs = {} /\ change = 0
    /\ commit = [s \in CfgSubs |-> NoCommit]
    /\ view = [s \in CfgSubs |-> NobodyYet]
    /\ leaving = [s \in CfgSubs |-> NotLeaving]

CfgNext ==
    \/ \E c \in CfgCallers : Modify(c)
    \/ ServeTake \/ ServeReplace \/ ServeNext \/ ServeSave \/ ServeStop
    \/ \E s \in CfgSubs : \/ CommitDone(s) \/ Subscribe(s)
                          \/ Unsubscribe(s) \/ Unsubscribed(s)

CfgSpec == CfgInit /\ [][CfgNext]_cfgVars

-----------------------------------------------------------------------------

\* A subscriber is taken from each configuration to the next without a gap,
\* from the one Subscribe returned to it on, whatever changes are queued and
\* whoever comes and goes meanwhile; and once Unsubscribe has returned no call
\* for it is under way.
CommitsChain ==
    \A s \in CfgSubs :
        commit[s] # NoCommit => commit[s].from = view[s] /\ leaving[s] # Gone

\* A modification that was reported as applied is not undone by another one.
\* It is on disk, or will be when the save timer fires, or the last save has
\* failed: then nothing repeats the save before the next modification or the
\* end of Serve.
ModificationsKept ==
    \A c \in CfgCallers :
        caller[c] = "applied" =>
            /\ wcfg[c] = 1
            /\ \/ wsaved[c] = 1
               \/ saveTimer /\ servePc # "stopped"
               \/ ~lastSave
=============================================================================
