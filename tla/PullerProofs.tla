---------------------------- MODULE PullerProofs ----------------------------
(***************************************************************************)
(* Proofs about one puller iteration, for any files, blocks, copiers and   *)
(* limits: every block of a file is in one place of the pipeline at a      *)
(* time, the two counters of sharedPullerState never fall behind the       *)
(* blocks under way, and what follows from that for the finisher.          *)
(***************************************************************************)
EXTENDS Puller, FiniteSetTheorems, TLAPS

-----------------------------------------------------------------------------
(* Where the blocks of a file are, given the records of the routines.      *)

\* Blocks of f that a copier, or the goroutine that sends f to one, has yet to
\* deal with: what copyNeeded counts.
CopyingIn(m, cp, f) ==
    {b \in BlocksOf[f] :
        \/ m.pc = "send" /\ m.f = f /\ b \in m.todo
        \/ \E c \in Copiers : /\ Busy(cp[c]) /\ cp[c].f = f
                              /\ \/ b \in cp[c].todo
                                 \/ cp[c].pc = "write" /\ b \in cp[c].b}

\* Blocks of f the puller has been sent and is not done with.
SentIn(p, rs, f) ==
    {b \in BlocksOf[f] :
        \/ p.pc = "take" /\ p.f = f /\ p.b = b
        \/ \E r \in rs : r.pc # "out" /\ r.f = f /\ r.b = b}

\* The same with those a copier is about to send: what pullNeeded counts.
PullingIn(cp, p, rs, f) ==
    {b \in BlocksOf[f] :
        \E c \in Copiers : cp[c].pc = "pull" /\ cp[c].f = f /\ b \in cp[c].b}
    \union SentIn(p, rs, f)

Copying(f) == CopyingIn(main, cop, f)
Pulling(f) == PullingIn(cop, pul, reqs, f)

\* f is under way behind the channel to the copiers.
Travels(f) ==
    \/ \E c \in Copiers : Busy(cop[c]) /\ cop[c].f = f
    \/ Busy(pul) /\ pul.f = f
    \/ \E r \in reqs : r.f = f
    \/ fin.pc = "close" /\ fin.f = f

\* Somebody is going to hand f to the finisher, or the finisher has it.
Held(f) == (main.pc = "send" /\ main.f = f) \/ Travels(f)

-----------------------------------------------------------------------------
(* The inductive invariant.                                                *)

FileStates(f) ==
    [live : BOOLEAN, err : Errors, writer : BOOLEAN, reused : SUBSET BlocksOf[f],
     copyNeeded : Nat, pullNeeded : Nat, closed : BOOLEAN,
     got : SUBSET BlocksOf[f]]

\* A shared puller state s of f is in order, with the blocks C and P on their
\* way through the copiers and the puller.
Good(f, s, C, P) ==
    /\ s \in FileStates(f)
    /\ C \subseteq BlocksOf[f] /\ P \subseteq BlocksOf[f]
    /\ C \intersect P = {}
    /\ Cardinality(C) <= s.copyNeeded /\ Cardinality(P) <= s.pullNeeded
    /\ s.err = "nil" =>
          Cardinality(C) = s.copyNeeded /\ Cardinality(P) = s.pullNeeded
    /\ s.live /\ s.err = "nil" => BlocksOf[f] \subseteq s.got \union C \union P
    /\ s.closed /\ s.err = "nil" => s.copyNeeded = 0 /\ s.pullNeeded = 0

BusyCopiers == [pc : {"block", "write", "pull", "out"}, f : Files,
                todo : SUBSET Blocks, b : SUBSET Blocks]
BusyPullers == [pc : {"take", "out"}, f : Files, b : Blocks]
PullRequests == [pc : {"open", "req", "out"}, f : Files, b : Blocks,
                 cands : 0..MaxDevices, chunk : 0..Chunks, lastError : BOOLEAN]

\* Nobody has blocks of another file than the one it works on.
RoutinesTyped ==
    /\ main \in [pc : {"loop", "closePull", "closeFinish", "doneWait", "returned"}]
                \union [pc : {"file"}, f : Files]
                \union [pc : {"send"}, f : Files, todo : SUBSET Blocks]
    /\ main.pc = "send" => main.todo \subseteq BlocksOf[main.f]
    /\ cop \in [Copiers -> [pc : {"recv", "gone"}] \union BusyCopiers]
    /\ \A c \in Copiers : Busy(cop[c]) =>
          /\ cop[c].todo \subseteq BlocksOf[cop[c].f] /\ cop[c].b \subseteq BlocksOf[cop[c].f]
          /\ cop[c].b \intersect cop[c].todo = {}
          /\ IF cop[c].pc \in {"write", "pull"} THEN \E b : cop[c].b = {b}
             ELSE cop[c].b = {}
          /\ cop[c].pc = "out" => cop[c].todo = {}
    /\ pul \in [pc : {"recv", "gone"}] \union BusyPullers
    /\ Busy(pul) => pul.b \in BlocksOf[pul.f]
    /\ reqs \subseteq PullRequests
    /\ \A r \in reqs : r.b \in BlocksOf[r.f] /\ (r.pc # "out" => r.chunk < Chunks)
    /\ fin \in [pc : {"recv", "gone"}] \union [pc : {"close", "finish"}, f : Files]
    /\ stopped \in BOOLEAN

\* No block is in two places, and no file in two copiers.
OnePlace ==
    /\ \A c, d \in Copiers : Busy(cop[c]) /\ Busy(cop[d]) /\ cop[c].f = cop[d].f => c = d
    /\ main.pc = "send" => \A c \in Copiers : Busy(cop[c]) => cop[c].f # main.f
    /\ \A c \in Copiers : Busy(cop[c]) =>
          \A b \in cop[c].todo \union cop[c].b :
              /\ ~(pul.pc = "take" /\ pul.f = cop[c].f /\ pul.b = b)
              /\ \A r \in reqs : r.pc # "out" /\ r.f = cop[c].f => r.b # b
    /\ \A r \in reqs :
          /\ r.pc # "out" /\ pul.pc = "take" => <<r.f, r.b>> # <<pul.f, pul.b>>
          /\ \A q \in reqs : r.pc # "out" /\ q.pc # "out" /\ r.f = q.f /\ r.b = q.b => r = q

\* What the job queue has still to give out is not known anywhere else.
QueueFresh ==
    /\ queued \in Seq(Files)
    /\ \A i, j \in DOMAIN queued : queued[i] = queued[j] => i = j
    /\ \A i \in DOMAIN queued :
          ~st[queued[i]].live /\ db[queued[i]] = 0 /\ queued[i] \notin errs
    /\ main.pc = "file" =>
          /\ ~st[main.f].live /\ db[main.f] = 0 /\ main.f \notin errs
          /\ \A i \in DOMAIN queued : queued[i] # main.f
    /\ main.pc = "send" =>
          st[main.f].live /\ ~st[main.f].closed /\ ~Travels(main.f)

\* A file is worked on only while it is live, and is closed once.
LiveFiles ==
    \A f \in Files :
        /\ Held(f) \/ (fin.pc = "finish" /\ fin.f = f) => st[f].live
        /\ st[f].closed => st[f].live
        /\ st[f].live /\ ~st[f].closed => db[f] = 0 /\ f \notin errs
        /\ st[f].live /\ ~st[f].closed /\ st[f].writer => Held(f)

\* The finisher is about to record or report a file once, and then nothing of it
\* is left.
ClosedFiles ==
    \A f \in Files : st[f].closed =>
        IF fin.pc = "finish" /\ fin.f = f THEN db[f] = 0 /\ f \notin errs
        ELSE /\ f \notin registry
             /\ st[f].err = "stopped" \/ (db[f] = 1 <=> f \notin errs)

Recorded ==
    /\ db \in [Files -> {0, 1}] /\ errs \subseteq Files
    /\ fin.pc = "finish" => st[fin.f].closed
    /\ \A f \in Files : st[f].live /\ db[f] = 1 => BlocksOf[f] \subseteq st[f].got

\* The stages end one after the other.
StagesEnd ==
    /\ main.pc \in {"closeFinish", "doneWait", "returned"} =>
          \A c \in Copiers : cop[c].pc = "gone"
    /\ main.pc \in {"doneWait", "returned"} => pul.pc = "gone"
    /\ pul.pc = "gone" => reqs = {}
    /\ fin.pc = "gone" => main.pc \in {"doneWait", "returned"}

PullerInv ==
    /\ RoutinesTyped /\ OnePlace /\ QueueFresh /\ LiveFiles /\ ClosedFiles
    /\ Recorded /\ StagesEnd
    /\ DOMAIN st = Files
    /\ \A f \in Files : Good(f, st[f], Copying(f), Pulling(f))

-----------------------------------------------------------------------------
(* What the locked sections of sharedPullerState make of a state in order. *)

LEMMA BlocksAreFinite ==
    ASSUME NEW f \in Files, NEW S \in SUBSET BlocksOf[f]
    PROVE  IsFiniteSet(S) /\ Cardinality(S) \in Nat
  BY PullerAssumption, FS_Subset, FS_CardinalityType

LEMMA FewerBlocks ==
    ASSUME NEW f \in Files, NEW S \in SUBSET BlocksOf[f], NEW T \in SUBSET S
    PROVE  Cardinality(T) <= Cardinality(S)
  BY BlocksAreFinite, FS_Subset

LEMMA OneBlockLess ==
    ASSUME NEW f \in Files, NEW S \in SUBSET BlocksOf[f], NEW b \in S
    PROVE  Cardinality(S \ {b}) = Cardinality(S) - 1
  BY BlocksAreFinite, FS_RemoveElement

LEMMA OneBlockMore ==
    ASSUME NEW f \in Files, NEW S \in SUBSET BlocksOf[f], NEW b \in BlocksOf[f] \ S
    PROVE  Cardinality(S \union {b}) = Cardinality(S) + 1
<1>1. Cardinality(S) \in Nat
  BY BlocksAreFinite
<1>2. QED
  BY <1>1, BlocksAreFinite, FS_AddElement

LEMMA NoBlocks ==
    ASSUME NEW f \in Files, NEW S \in SUBSET BlocksOf[f], Cardinality(S) <= 0
    PROVE  S = {}
<1>1. Cardinality(S) = 0
  BY BlocksAreFinite
<1>2. QED
  BY <1>1, BlocksAreFinite, FS_EmptySet

LEMMA FailFields ==
    ASSUME NEW f \in Files, NEW s \in FileStates(f), NEW e \in Errors
    PROVE  LET t == Fail(s, e)
           IN  /\ t \in FileStates(f) /\ t.live = s.live /\ t.writer = s.writer
               /\ t.reused = s.reused /\ t.copyNeeded = s.copyNeeded
               /\ t.pullNeeded = s.pullNeeded /\ t.closed = s.closed
               /\ t.got = s.got
               /\ e # "nil" => t.err # "nil"
               /\ s.err # "nil" => t.err = s.err
               /\ e = "nil" => t.err = s.err
  BY DEF Fail, FileStates

\* failLocked, and giving up blocks.
LEMMA GoodFail ==
    ASSUME NEW f \in Files, NEW s, NEW C, NEW P, Good(f, s, C, P),
           NEW e \in {"stopped", "failed"},
           NEW C2 \in SUBSET C, NEW P2 \in SUBSET P
    PROVE  Good(f, Fail(s, e), C2, P2)
<1>1. /\ Cardinality(C2) <= Cardinality(C) /\ Cardinality(P2) <= Cardinality(P)
      /\ Cardinality(C) \in Nat /\ Cardinality(P) \in Nat
      /\ Cardinality(C2) \in Nat /\ Cardinality(P2) \in Nat
  BY FewerBlocks, BlocksAreFinite DEF Good
<1>2. s \in FileStates(f) /\ s.copyNeeded \in Nat /\ s.pullNeeded \in Nat
  BY DEF Good, FileStates
<1>3. e \in Errors /\ e # "nil"
  BY DEF Errors
<1>4. QED
  BY <1>1, <1>2, <1>3, FailFields DEF Good

\* Giving up blocks of a file that has failed.
LEMMA GoodLess ==
    ASSUME NEW f \in Files, NEW s, NEW C, NEW P, Good(f, s, C, P), s.err # "nil",
           NEW C2 \in SUBSET C, NEW P2 \in SUBSET P
    PROVE  Good(f, s, C2, P2)
<1>1. /\ Cardinality(C2) <= Cardinality(C) /\ Cardinality(P2) <= Cardinality(P)
      /\ Cardinality(C) \in Nat /\ Cardinality(P) \in Nat
      /\ Cardinality(C2) \in Nat /\ Cardinality(P2) \in Nat
  BY FewerBlocks, BlocksAreFinite DEF Good
<1>2. s \in FileStates(f) /\ s.copyNeeded \in Nat /\ s.pullNeeded \in Nat
  BY DEF Good, FileStates
<1>3. QED
  BY <1>1, <1>2 DEF Good

\* copyDone.
LEMMA GoodCopied ==
    ASSUME NEW f \in Files, NEW s, NEW C, NEW P, Good(f, s, C, P), NEW b \in C
    PROVE  Good(f, CopyDone(s, b), C \ {b}, P)
<1>1. /\ Cardinality(C \ {b}) = Cardinality(C) - 1
      /\ Cardinality(C) \in Nat /\ Cardinality(C \ {b}) \in Nat
      /\ b \in BlocksOf[f]
  BY OneBlockLess, BlocksAreFinite DEF Good
<1>2. s.copyNeeded \in Nat /\ s.copyNeeded # 0
  BY <1>1 DEF Good, FileStates
<1>3. LET t == CopyDone(s, b)
      IN  /\ t \in FileStates(f) /\ t.copyNeeded = s.copyNeeded - 1
          /\ t.pullNeeded = s.pullNeeded /\ t.got = s.got \union {b}
          /\ t.live = s.live /\ t.err = s.err /\ t.closed = s.closed
  <2>1. CopyDone(s, b) = [s EXCEPT !.copyNeeded = s.copyNeeded - 1, !.got = s.got \union {b}]
    BY DEF CopyDone, Good, FileStates
  <2>2. s.copyNeeded - 1 \in Nat /\ s.got \union {b} \in SUBSET BlocksOf[f]
    BY <1>1, <1>2 DEF Good, FileStates
  <2>3. s \in FileStates(f)
    BY DEF Good
  <2>4. QED
    BY <2>1, <2>2, <2>3 DEF FileStates
<1>4. QED
  BY <1>1, <1>2, <1>3 DEF Good

\* pullStarted.
LEMMA GoodPullStarted ==
    ASSUME NEW f \in Files, NEW s, NEW C, NEW P, Good(f, s, C, P), NEW b \in C
    PROVE  Good(f, PullStarted(s), C \ {b}, P \union {b})
<1>1. /\ Cardinality(C \ {b}) = Cardinality(C) - 1
      /\ Cardinality(P \union {b}) = Cardinality(P) + 1
      /\ Cardinality(C) \in Nat /\ Cardinality(C \ {b}) \in Nat
      /\ Cardinality(P) \in Nat /\ Cardinality(P \union {b}) \in Nat
      /\ b \in BlocksOf[f]
  BY OneBlockLess, OneBlockMore, BlocksAreFinite DEF Good
<1>2. s.copyNeeded \in Nat /\ s.copyNeeded # 0 /\ s.pullNeeded \in Nat
  BY <1>1 DEF Good, FileStates
<1>3. LET t == PullStarted(s)
      IN  /\ t \in FileStates(f) /\ t.copyNeeded = s.copyNeeded - 1
          /\ t.pullNeeded = s.pullNeeded + 1 /\ t.got = s.got
          /\ t.live = s.live /\ t.err = s.err /\ t.closed = s.closed
  <2>1. PullStarted(s) = [s EXCEPT !.copyNeeded = s.copyNeeded - 1,
                                         !.pullNeeded = s.pullNeeded + 1]
    BY DEF PullStarted, Good, FileStates
  <2>2. s.copyNeeded - 1 \in Nat /\ s.pullNeeded + 1 \in Nat
    BY <1>1, <1>2 DEF Good, FileStates
  <2>3. s \in FileStates(f)
    BY DEF Good
  <2>4. QED
    BY <2>1, <2>2, <2>3 DEF FileStates
<1>4. QED
  BY <1>1, <1>2, <1>3 DEF Good

\* pullDone.
LEMMA GoodPullDone ==
    ASSUME NEW f \in Files, NEW s, NEW C, NEW P, Good(f, s, C, P), NEW b \in P
    PROVE  Good(f, PullDone(s, b), C, P \ {b})
<1>1. /\ Cardinality(P \ {b}) = Cardinality(P) - 1
      /\ Cardinality(P) \in Nat /\ Cardinality(P \ {b}) \in Nat
      /\ b \in BlocksOf[f]
  BY OneBlockLess, BlocksAreFinite DEF Good
<1>2. s.pullNeeded \in Nat /\ s.pullNeeded # 0
  BY <1>1 DEF Good, FileStates
<1>3. LET t == PullDone(s, b)
      IN  /\ t \in FileStates(f) /\ t.copyNeeded = s.copyNeeded
          /\ t.pullNeeded = s.pullNeeded - 1 /\ t.got = s.got \union {b}
          /\ t.live = s.live /\ t.err = s.err /\ t.closed = s.closed
  <2>1. PullDone(s, b) = [s EXCEPT !.pullNeeded = s.pullNeeded - 1, !.got = s.got \union {b}]
    BY DEF PullDone, Good, FileStates
  <2>2. s.pullNeeded - 1 \in Nat /\ s.got \union {b} \in SUBSET BlocksOf[f]
    BY <1>1, <1>2 DEF Good, FileStates
  <2>3. s \in FileStates(f)
    BY DEF Good
  <2>4. QED
    BY <2>1, <2>2, <2>3 DEF FileStates
<1>4. QED
  BY <1>1, <1>2, <1>3 DEF Good

LEMMA TempFields ==
    ASSUME NEW f \in Files, NEW s \in FileStates(f), NEW ok \in BOOLEAN
    PROVE  LET t == TempFile(s, ok)
           IN  /\ t \in FileStates(f) /\ t.live = s.live
               /\ t.reused = s.reused /\ t.copyNeeded = s.copyNeeded
               /\ t.pullNeeded = s.pullNeeded /\ t.closed = s.closed
               /\ t.got = s.got
               /\ s.err # "nil" => t.err = s.err
<1>1. CASE s.err # "nil"
  BY <1>1 DEF TempFile
<1>2. CASE s.err = "nil" /\ (s.writer \/ ok)
  BY <1>2 DEF TempFile, FileStates
<1>3. CASE s.err = "nil" /\ ~(s.writer \/ ok)
  BY <1>3, FailFields DEF TempFile, Errors
<1>4. QED
  BY <1>1, <1>2, <1>3

\* tempFile.
LEMMA GoodTemp ==
    ASSUME NEW f \in Files, NEW s, NEW C, NEW P, Good(f, s, C, P),
           NEW ok \in BOOLEAN
    PROVE  Good(f, TempFile(s, ok), C, P)
<1>1. s \in FileStates(f)
  BY DEF Good
<1>2. QED
  BY <1>1, TempFields DEF Good

\* finalClose.
LEMMA GoodClose ==
    ASSUME NEW f \in Files, NEW s, NEW C, NEW P, Good(f, s, C, P),
           NEW e \in {"nil", "failed"}, ReadyToClose(s)
    PROVE  Good(f, [Fail(s, e) EXCEPT !.closed = TRUE, !.writer = FALSE], C, P)
<1> DEFINE t == Fail(s, e)
           u == [t EXCEPT !.closed = TRUE, !.writer = FALSE]
<1>1. /\ t \in FileStates(f) /\ t.live = s.live
      /\ t.copyNeeded = s.copyNeeded /\ t.pullNeeded = s.pullNeeded
      /\ t.got = s.got /\ (t.err = "nil" => s.err = "nil")
  BY FailFields DEF Good, Errors
<1> HIDE DEF t
<1>2. /\ u \in FileStates(f) /\ u.live = t.live /\ u.err = t.err
      /\ u.copyNeeded = t.copyNeeded /\ u.pullNeeded = t.pullNeeded
      /\ u.got = t.got
  BY <1>1 DEF FileStates
<1>3. s.err = "nil" => s.copyNeeded = 0 /\ s.pullNeeded = 0
  BY DEF ReadyToClose, Good, FileStates
<1> HIDE DEF u
<1>4. Good(f, u, C, P)
  BY <1>1, <1>2, <1>3 DEF Good
<1>5. QED
  BY <1>4 DEF t, u

\* With the counters at zero everything is in the temporary file.
LEMMA GoodDone ==
    ASSUME NEW f \in Files, NEW s, NEW C, NEW P, Good(f, s, C, P),
           s.err = "nil", s.copyNeeded + s.pullNeeded = 0
    PROVE  C = {} /\ P = {} /\ (s.live => s.got = BlocksOf[f])
<1>1. s.copyNeeded = 0 /\ s.pullNeeded = 0
  BY DEF Good, FileStates
<1>2. C = {} /\ P = {}
  BY <1>1, NoBlocks DEF Good
<1>3. QED
  BY <1>2 DEF Good, FileStates

\* With a counter above zero somebody still has a block of the file.
LEMMA GoodPending ==
    ASSUME NEW f \in Files, NEW s, NEW C, NEW P, Good(f, s, C, P),
           s.err = "nil", s.copyNeeded + s.pullNeeded # 0
    PROVE  C \union P # {}
<1>1. Cardinality(C) # 0 \/ Cardinality(P) # 0
  BY DEF Good, FileStates
<1>2. QED
  BY <1>1, FS_EmptySet

-----------------------------------------------------------------------------
(* How the places of blocks change.                                        *)

LEMMA BusyRoutines ==
    /\ \A r \in BusyCopiers : Busy(r) /\ r.f \in Files
    /\ \A r \in BusyPullers : Busy(r) /\ r.f \in Files
    /\ \A r \in [pc : {"recv", "gone"}] : ~Busy(r)
  BY DEF BusyCopiers, BusyPullers, Busy

-----------------------------------------------------------------------------
(* Steps of a holder of one file that change its state.                    *)

\* A state s2 that may follow s while the file is neither closed nor recorded.
Succeeds(s, s2) ==
    /\ s2.live = s.live /\ s2.closed = s.closed
    /\ s.got \subseteq s2.got
    /\ s.err = "stopped" => s2.err = "stopped"

LEMMA StateChange ==
    ASSUME PullerInv, NEW f0 \in Files, Held(f0), NEW s, Succeeds(st[f0], s),
           st' = [st EXCEPT ![f0] = s],
           \A f \in Files : Travels(f)' <=> Travels(f),
           UNCHANGED <<main, queued, fin, db, errs, registry>>
    PROVE  /\ QueueFresh' /\ LiveFiles' /\ ClosedFiles' /\ Recorded'
           /\ DOMAIN st' = Files
<1>1. \A f \in Files : Succeeds(st[f], st'[f]) /\ (f # f0 => st'[f] = st[f])
  BY DEF PullerInv, Succeeds
<1>2. QueueFresh'
  <2>1. \A i \in DOMAIN queued : queued[i] \in Files
    BY DEF PullerInv, QueueFresh
  <2>2. main.pc \in {"file", "send"} => main.f \in Files
    BY DEF PullerInv, RoutinesTyped
  <2>3. QED
    BY <1>1, <2>1, <2>2 DEF PullerInv, QueueFresh, Succeeds
<1>3. LiveFiles'
  <2>1. \A f \in Files : Held(f)' <=> Held(f)
    BY DEF Held
  <2>2. QED
    BY <1>1, <2>1 DEF PullerInv, LiveFiles, Succeeds
<1>4. ClosedFiles'
  BY <1>1 DEF PullerInv, ClosedFiles, Succeeds
<1>5. Recorded'
  <2>1. fin.pc = "finish" => fin.f \in Files
    BY DEF PullerInv, RoutinesTyped
  <2>2. QED
    BY <1>1, <2>1 DEF PullerInv, Recorded, Succeeds
<1>6. QED
  BY <1>2, <1>3, <1>4, <1>5 DEF PullerInv

\* A copier's record, apart from whose it is.
CopierShape(n) ==
    /\ n \in BusyCopiers
    /\ n.todo \subseteq BlocksOf[n.f] /\ n.b \subseteq BlocksOf[n.f]
    /\ n.b \intersect n.todo = {}
    /\ IF n.pc \in {"write", "pull"} THEN \E b : n.b = {b} ELSE n.b = {}
    /\ n.pc = "out" => n.todo = {}

LEMMA CopierFacts ==
    ASSUME PullerInv, NEW c \in Copiers, Busy(cop[c])
    PROVE  /\ CopierShape(cop[c]) /\ cop[c].f \in Files
           /\ Held(cop[c].f) /\ st[cop[c].f].live
           /\ Copying(cop[c].f) = cop[c].todo \union
                                  (IF cop[c].pc = "write" THEN cop[c].b ELSE {})
           /\ Pulling(cop[c].f) = (IF cop[c].pc = "pull" THEN cop[c].b ELSE {})
                                  \union SentIn(pul, reqs, cop[c].f)
           /\ Good(cop[c].f, st[cop[c].f], Copying(cop[c].f), Pulling(cop[c].f))
<1>1. cop[c] \in BusyCopiers
  BY BusyRoutines DEF PullerInv, RoutinesTyped
<1>2. CopierShape(cop[c]) /\ cop[c].f \in Files
  BY <1>1, BusyRoutines DEF PullerInv, RoutinesTyped, CopierShape
<1>3. Held(cop[c].f) /\ st[cop[c].f].live
  BY <1>2 DEF PullerInv, LiveFiles, Held, Travels
<1>4. /\ \A d \in Copiers : Busy(cop[d]) /\ cop[d].f = cop[c].f => d = c
      /\ main.pc = "send" => main.f # cop[c].f
  BY DEF PullerInv, OnePlace
<1>5. /\ Copying(cop[c].f) = cop[c].todo \union
                                  (IF cop[c].pc = "write" THEN cop[c].b ELSE {})
      /\ Pulling(cop[c].f) = (IF cop[c].pc = "pull" THEN cop[c].b ELSE {})
                                  \union SentIn(pul, reqs, cop[c].f)
  <2>1. cop[c].todo \subseteq BlocksOf[cop[c].f] /\ cop[c].b \subseteq BlocksOf[cop[c].f]
    BY <1>2 DEF CopierShape
  <2>2. Copying(cop[c].f) = cop[c].todo \union
                                  (IF cop[c].pc = "write" THEN cop[c].b ELSE {})
    BY <1>4, <2>1 DEF Copying, CopyingIn
  <2>3. \A d \in Copiers : cop[d].pc = "pull" => Busy(cop[d])
    BY DEF Busy
  <2>4. Pulling(cop[c].f) = (IF cop[c].pc = "pull" THEN cop[c].b ELSE {})
                                  \union SentIn(pul, reqs, cop[c].f)
    BY <1>4, <2>1, <2>3 DEF Pulling, PullingIn
  <2>5. QED
    BY <2>2, <2>4
<1>6. QED
  BY <1>2, <1>3, <1>5 DEF PullerInv

LEMMA CopierMoves ==
    ASSUME PullerInv, NEW c \in Copiers, Busy(cop[c]),
           NEW n, CopierShape(n), n.f = cop[c].f,
           n.todo \union n.b \subseteq cop[c].todo \union cop[c].b,
           NEW s, Succeeds(st[n.f], s),
           Good(n.f, s, n.todo \union (IF n.pc = "write" THEN n.b ELSE {}),
                (IF n.pc = "pull" THEN n.b ELSE {}) \union SentIn(pul, reqs, n.f)),
           cop' = [cop EXCEPT ![c] = n], st' = [st EXCEPT ![n.f] = s],
           UNCHANGED <<main, doneWg, queued, progress, pul, reqs, fin, db, errs,
                       registry, stopped>>
    PROVE  PullerInv'
<1>1. DOMAIN cop = Copiers /\ n.f \in Files /\ Busy(n) /\ Held(n.f)
  BY CopierFacts, BusyRoutines DEF PullerInv, RoutinesTyped, CopierShape
<1>2. cop'[c] = n /\ \A d \in Copiers : d # c => cop'[d] = cop[d]
  BY <1>1
<1>3. \A d \in Copiers : Busy(cop'[d]) <=> Busy(cop[d])
  BY <1>1, <1>2
<1>4. \A d \in Copiers : Busy(cop[d]) => cop'[d].f = cop[d].f
  BY <1>2
<1>5. \A f \in Files : Travels(f)' <=> Travels(f)
  BY <1>3, <1>4 DEF Travels
<1>6. RoutinesTyped'
  <2>1. cop' \in [Copiers -> [pc : {"recv", "gone"}] \union BusyCopiers]
    BY DEF PullerInv, RoutinesTyped, CopierShape
  <2>2. \A d \in Copiers : Busy(cop[d]) => CopierShape(cop'[d])
    BY <1>2, CopierFacts
  <2>3. QED
    BY <1>3, <2>1, <2>2 DEF PullerInv, RoutinesTyped, CopierShape
<1>7. OnePlace'
  <2>1. \A d \in Copiers : Busy(cop[d]) =>
            cop'[d].todo \union cop'[d].b \subseteq cop[d].todo \union cop[d].b
    BY <1>2
  <2>2. QED
    BY <1>3, <1>4, <2>1 DEF PullerInv, OnePlace
<1>8. StagesEnd'
  BY <1>1, <1>2 DEF PullerInv, StagesEnd, Busy
<1>9. QueueFresh' /\ LiveFiles' /\ ClosedFiles' /\ Recorded' /\ DOMAIN st' = Files
  BY <1>1, <1>5, StateChange
<1>10. ASSUME NEW f \in Files PROVE Good(f, st'[f], Copying(f)', Pulling(f)')
  <2>1. CASE f = n.f
    <3>1. /\ \A d \in Copiers : Busy(cop'[d]) /\ cop'[d].f = f => d = c
          /\ main'.pc = "send" => main'.f # f
      BY <1>1, <1>2, <1>7, <2>1 DEF OnePlace
    <3>2. /\ CopyingIn(main', cop', f) =
                cop'[c].todo \union (IF cop'[c].pc = "write" THEN cop'[c].b ELSE {})
          /\ PullingIn(cop', pul', reqs', f) =
                (IF cop'[c].pc = "pull" THEN cop'[c].b ELSE {})
                \union SentIn(pul', reqs', f)
      <4>1. cop'[c].todo \subseteq BlocksOf[f] /\ cop'[c].b \subseteq BlocksOf[f]
            /\ Busy(cop'[c]) /\ f = cop'[c].f
        BY <1>1, <1>2, <2>1 DEF CopierShape
      <4>2. CopyingIn(main', cop', f) =
                cop'[c].todo \union (IF cop'[c].pc = "write" THEN cop'[c].b ELSE {})
        BY <3>1, <4>1 DEF CopyingIn
      <4>3. \A d \in Copiers : cop'[d].pc = "pull" => Busy(cop'[d])
        BY DEF Busy
      <4>4. QED
        BY <3>1, <4>1, <4>2, <4>3 DEF PullingIn
    <3>3. st'[f] = s
      BY <2>1 DEF PullerInv
    <3>4. QED
      BY <1>2, <2>1, <3>2, <3>3 DEF Copying, Pulling
  <2>2. CASE f # n.f
    <3>1. /\ CopyingIn(main, cop', f) = CopyingIn(main, cop, f)
          /\ PullingIn(cop', pul, reqs, f) = PullingIn(cop, pul, reqs, f)
      <4>1. cop[c].f # f /\ cop'[c].f # f
        BY <1>2, <2>2
      <4>2. QED
        BY <1>2, <4>1 DEF CopyingIn, PullingIn
    <3>2. st'[f] = st[f]
      BY <2>2 DEF PullerInv
    <3>3. QED
      BY <3>1, <3>2 DEF PullerInv, Copying, Pulling
  <2>3. QED
    BY <2>1, <2>2
<1>11. QED
  BY <1>6, <1>7, <1>8, <1>9, <1>10 DEF PullerInv

LEMMA RequestFacts ==
    ASSUME PullerInv, NEW r \in reqs
    PROVE  /\ r \in PullRequests /\ r.f \in Files /\ r.b \in BlocksOf[r.f]
           /\ r.pc # "out" => r.chunk < Chunks /\ r.b \in Pulling(r.f)
           /\ Held(r.f) /\ st[r.f].live
           /\ Good(r.f, st[r.f], Copying(r.f), Pulling(r.f))
<1>1. /\ r \in PullRequests /\ r.f \in Files /\ r.b \in BlocksOf[r.f]
      /\ r.pc # "out" => r.chunk < Chunks
  BY DEF PullerInv, RoutinesTyped, PullRequests
<1>2. r.pc # "out" => r.b \in Pulling(r.f)
  BY <1>1 DEF Pulling, PullingIn, SentIn
<1>3. Held(r.f) /\ st[r.f].live
  BY <1>1 DEF PullerInv, LiveFiles, Held, Travels
<1>4. QED
  BY <1>1, <1>2, <1>3 DEF PullerInv

LEMMA RequestMoves ==
    ASSUME PullerInv, NEW r \in reqs, r.pc # "out",
           NEW r2 \in PullRequests, r2.f = r.f, r2.b = r.b,
           r2.pc # "out" => r2.chunk < Chunks,
           NEW s, Succeeds(st[r.f], s),
           Good(r.f, s, Copying(r.f),
                IF r2.pc = "out" THEN Pulling(r.f) \ {r.b} ELSE Pulling(r.f)),
           RequestStep(r, r2, s)
    PROVE  PullerInv'
<1>1. /\ reqs' = (reqs \ {r}) \union {r2} /\ st' = [st EXCEPT ![r.f] = s]
      /\ UNCHANGED <<main, queued, progress, cop, pul, fin, db, errs, registry,
                     stopped>>
  BY DEF RequestStep
<1>2. /\ r.f \in Files /\ r.b \in BlocksOf[r.f] /\ Held(r.f)
  BY RequestFacts
<1>3. \A f \in Files : Travels(f)' <=> Travels(f)
  BY <1>1 DEF Travels
<1>4. RoutinesTyped'
  <2>1. reqs' \subseteq PullRequests
    BY <1>1 DEF PullerInv, RoutinesTyped
  <2>2. \A q \in reqs' : q.b \in BlocksOf[q.f] /\ (q.pc # "out" => q.chunk < Chunks)
    BY <1>1, <1>2 DEF PullerInv, RoutinesTyped
  <2>3. QED
    BY <1>1, <2>1, <2>2 DEF PullerInv, RoutinesTyped
<1>5. OnePlace'
  <2>1. \A q \in reqs' : q = r2 \/ (q \in reqs /\ q # r)
    BY <1>1
  <2>2. \A q \in reqs : q.pc # "out" /\ q.f = r.f /\ q.b = r.b => q = r
    BY DEF PullerInv, OnePlace
  <2>3. \A q \in reqs' : q = r2 \/ ~(q.pc # "out" /\ q.f = r2.f /\ q.b = r2.b)
    BY <2>1, <2>2
  <2>4. \A c \in Copiers : Busy(cop[c]) => \A b \in cop[c].todo \union cop[c].b :
          \A q \in reqs' : q.pc # "out" /\ q.f = cop[c].f => q.b # b
    BY <2>1 DEF PullerInv, OnePlace
  <2>5. \A q \in reqs' :
          /\ q.pc # "out" /\ pul.pc = "take" => <<q.f, q.b>> # <<pul.f, pul.b>>
          /\ \A t \in reqs' : q.pc # "out" /\ t.pc # "out" /\ q.f = t.f /\ q.b = t.b
                                => q = t
    BY <2>1, <2>3 DEF PullerInv, OnePlace
  <2>6. QED
    BY <1>1, <2>4, <2>5 DEF PullerInv, OnePlace
<1>6. StagesEnd'
  BY <1>1 DEF PullerInv, StagesEnd
<1>7. QueueFresh' /\ LiveFiles' /\ ClosedFiles' /\ Recorded' /\ DOMAIN st' = Files
  BY <1>1, <1>2, <1>3, StateChange
<1>8. ASSUME NEW f \in Files PROVE Good(f, st'[f], Copying(f)', Pulling(f)')
  <2>1. Copying(f)' = Copying(f)
    BY <1>1 DEF Copying
  <2>2. CASE f = r.f
    <3>1. st'[f] = s
      BY <1>1, <2>2 DEF PullerInv
    <3>2. CASE r2.pc = "out"
      <4>1. SentIn(pul, reqs', f) = SentIn(pul, reqs, f) \ {r.b}
        BY <1>1, <2>2, <3>2 DEF SentIn, PullerInv, OnePlace
      <4>2. \A c \in Copiers : cop[c].pc = "pull" /\ cop[c].f = f => r.b \notin cop[c].b
        BY <2>2 DEF PullerInv, OnePlace, Busy
      <4>3. Pulling(f)' = Pulling(f) \ {r.b}
        BY <1>1, <4>1, <4>2 DEF Pulling, PullingIn
      <4>4. QED
        BY <2>1, <2>2, <3>1, <3>2, <4>3
    <3>3. CASE r2.pc # "out"
      <4>1. SentIn(pul, reqs', f) = SentIn(pul, reqs, f)
        BY <1>1, <2>2, <3>3 DEF SentIn
      <4>2. Pulling(f)' = Pulling(f)
        BY <1>1, <4>1 DEF Pulling, PullingIn
      <4>3. QED
        BY <2>1, <2>2, <3>1, <3>3, <4>2
    <3>4. QED
      BY <3>2, <3>3
  <2>3. CASE f # r.f
    <3>1. st'[f] = st[f]
      BY <1>1, <2>3 DEF PullerInv
    <3>2. SentIn(pul, reqs', f) = SentIn(pul, reqs, f)
      BY <1>1, <2>3 DEF SentIn
    <3>3. Pulling(f)' = Pulling(f)
      BY <1>1, <3>2 DEF Pulling, PullingIn
    <3>4. QED
      BY <2>1, <3>1, <3>3 DEF PullerInv
  <2>4. QED
    BY <2>2, <2>3
<1>9. QED
  BY <1>4, <1>5, <1>6, <1>7, <1>8 DEF PullerInv

-----------------------------------------------------------------------------
(* The copiers.                                                            *)

\* A copier gives its file up, or has nothing left to do for it.
LEMMA CopierLeaves ==
    ASSUME PullerInv, NEW c \in Copiers, Busy(cop[c]),
           NEW s, Succeeds(st[cop[c].f], s),
           Good(cop[c].f, s, {}, SentIn(pul, reqs, cop[c].f)),
           CopierStep(c, "out", {}, s)
    PROVE  PullerInv'
<1> DEFINE n == [pc |-> "out", f |-> cop[c].f, todo |-> {}, b |-> {}]
<1>1. cop[c].f \in Files
  BY CopierFacts
<1>2. CopierShape(n)
  BY <1>1 DEF CopierShape, BusyCopiers
<1>3. cop' = [cop EXCEPT ![c] = n] /\ st' = [st EXCEPT ![n.f] = s]
  BY DEF CopierStep
<1>4. UNCHANGED <<main, doneWg, queued, progress, pul, reqs, fin, db, errs,
                  registry, stopped>>
  BY DEF CopierStep
<1>5. /\ n.f = cop[c].f /\ n.todo = {} /\ n.b = {} /\ n.pc = "out"
  OBVIOUS
<1> HIDE DEF n
<1>6. /\ n.todo \union (IF n.pc = "write" THEN n.b ELSE {}) = {}
      /\ (IF n.pc = "pull" THEN n.b ELSE {}) \union SentIn(pul, reqs, n.f)
            = SentIn(pul, reqs, cop[c].f)
  BY <1>5
<1>7. Good(n.f, s, n.todo \union (IF n.pc = "write" THEN n.b ELSE {}),
           (IF n.pc = "pull" THEN n.b ELSE {}) \union SentIn(pul, reqs, n.f))
  BY <1>5, <1>6
<1>8. n.todo \union n.b \subseteq cop[c].todo \union cop[c].b
  BY <1>5
<1>9. Succeeds(st[n.f], s)
  BY <1>5
<1>10. QED
  BY <1>2, <1>3, <1>4, <1>5, <1>7, <1>8, <1>9, CopierMoves

\* A copier goes on with the blocks todo.
LEMMA CopierGoesOn ==
    ASSUME PullerInv, NEW c \in Copiers, Busy(cop[c]),
           NEW todo \in SUBSET cop[c].todo,
           NEW s, Succeeds(st[cop[c].f], s),
           Good(cop[c].f, s, todo, SentIn(pul, reqs, cop[c].f)),
           CopierStep(c, "block", todo, s)
    PROVE  PullerInv'
<1> DEFINE n == [pc |-> "block", f |-> cop[c].f, todo |-> todo, b |-> {}]
<1>1. cop[c].f \in Files /\ CopierShape(cop[c])
  BY CopierFacts
<1>2. CopierShape(n)
  BY <1>1 DEF CopierShape, BusyCopiers
<1>3. cop' = [cop EXCEPT ![c] = n] /\ st' = [st EXCEPT ![n.f] = s]
  BY DEF CopierStep
<1>4. UNCHANGED <<main, doneWg, queued, progress, pul, reqs, fin, db, errs,
                  registry, stopped>>
  BY DEF CopierStep
<1>5. /\ n.f = cop[c].f /\ n.todo = todo /\ n.b = {} /\ n.pc = "block"
  OBVIOUS
<1> HIDE DEF n
<1>6. /\ n.todo \union (IF n.pc = "write" THEN n.b ELSE {}) = todo
      /\ (IF n.pc = "pull" THEN n.b ELSE {}) \union SentIn(pul, reqs, n.f)
            = SentIn(pul, reqs, cop[c].f)
  BY <1>5
<1>7. Good(n.f, s, n.todo \union (IF n.pc = "write" THEN n.b ELSE {}),
           (IF n.pc = "pull" THEN n.b ELSE {}) \union SentIn(pul, reqs, n.f))
  BY <1>5, <1>6
<1>8. n.todo \union n.b \subseteq cop[c].todo \union cop[c].b
  BY <1>5
<1>9. Succeeds(st[n.f], s)
  BY <1>5
<1>10. QED
  BY <1>2, <1>3, <1>4, <1>5, <1>7, <1>8, <1>9, CopierMoves

\* What the locked sections do to a state leaves it a successor.
LEMMA Successors ==
    ASSUME NEW f \in Files, NEW s \in FileStates(f), NEW b \in BlocksOf[f]
    PROVE  /\ Succeeds(s, s) /\ Succeeds(s, CopyDone(s, b))
           /\ Succeeds(s, PullStarted(s)) /\ Succeeds(s, PullDone(s, b))
<1>1. Succeeds(s, s)
  BY DEF Succeeds
<1>2. Succeeds(s, CopyDone(s, b))
  BY DEF Succeeds, CopyDone, FileStates
<1>3. Succeeds(s, PullStarted(s))
  BY DEF Succeeds, PullStarted, FileStates
<1>4. Succeeds(s, PullDone(s, b))
  BY DEF Succeeds, PullDone, FileStates
<1>5. QED
  BY <1>1, <1>2, <1>3, <1>4

LEMMA FailingSuccessors ==
    ASSUME NEW f \in Files, NEW s \in FileStates(f)
    PROVE  /\ \A e \in {"stopped", "failed"} : Succeeds(s, Fail(s, e))
           /\ \A ok \in BOOLEAN : Succeeds(s, TempFile(s, ok))
<1>1. ASSUME NEW e \in {"stopped", "failed"} PROVE Succeeds(s, Fail(s, e))
  BY FailFields DEF Succeeds, Errors
<1>2. ASSUME NEW ok \in BOOLEAN PROVE Succeeds(s, TempFile(s, ok))
  BY TempFields DEF Succeeds
<1>3. QED
  BY <1>1, <1>2

\* A copier takes up the block b of its file, to write it or to have it pulled.
LEMMA CopierTakesUp ==
    ASSUME PullerInv, NEW c \in Copiers, cop[c].pc = "block", NEW b \in cop[c].todo,
           NEW pc \in {"write", "pull"}, NEW s, Succeeds(st[cop[c].f], s),
           Good(cop[c].f, s, IF pc = "write" THEN cop[c].todo ELSE cop[c].todo \ {b},
                (IF pc = "pull" THEN {b} ELSE {}) \union SentIn(pul, reqs, cop[c].f)),
           cop' = [cop EXCEPT ![c].pc = pc, ![c].b = {b},
                              ![c].todo = cop[c].todo \ {b}],
           st' = [st EXCEPT ![cop[c].f] = s],
           UNCHANGED <<main, doneWg, queued, progress, pul, reqs, fin, db, errs,
                       registry, stopped>>
    PROVE  PullerInv'
<1> DEFINE n == [pc |-> pc, f |-> cop[c].f, todo |-> cop[c].todo \ {b}, b |-> {b}]
<1>1. Busy(cop[c])
  BY DEF Busy
<1>2. cop[c].f \in Files /\ CopierShape(cop[c]) /\ cop[c] \in BusyCopiers
  BY <1>1, CopierFacts DEF CopierShape
<1>3. CopierShape(n)
  BY <1>2 DEF CopierShape, BusyCopiers
<1>4. cop' = [cop EXCEPT ![c] = n]
  <2> DEFINE m == [[[cop[c] EXCEPT !.pc = pc] EXCEPT !.b = {b}]
                             EXCEPT !.todo = cop[c].todo \ {b}]
  <2>1. m = n
    <3>1. m \in BusyCopiers /\ n \in BusyCopiers
      BY <1>2, <1>3 DEF BusyCopiers, CopierShape
    <3>2. m.pc = n.pc /\ m.f = n.f /\ m.todo = n.todo /\ m.b = n.b
      BY <1>2 DEF BusyCopiers
    <3> HIDE DEF m, n
    <3>3. QED
      BY <3>1, <3>2 DEF BusyCopiers
  <2>2. cop \in [Copiers -> [pc : {"recv", "gone"}] \union BusyCopiers]
    BY DEF PullerInv, RoutinesTyped
  <2> HIDE DEF n
  <2>3. QED
    BY <2>1, <2>2
<1>5. /\ n.f = cop[c].f /\ n.todo = cop[c].todo \ {b} /\ n.b = {b} /\ n.pc = pc
  OBVIOUS
<1> HIDE DEF n
<1>6. /\ n.todo \union (IF n.pc = "write" THEN n.b ELSE {}) =
            IF pc = "write" THEN cop[c].todo ELSE cop[c].todo \ {b}
      /\ (IF n.pc = "pull" THEN n.b ELSE {}) \union SentIn(pul, reqs, n.f)
            = (IF pc = "pull" THEN {b} ELSE {}) \union SentIn(pul, reqs, cop[c].f)
  BY <1>5
<1>7. Good(n.f, s, n.todo \union (IF n.pc = "write" THEN n.b ELSE {}),
           (IF n.pc = "pull" THEN n.b ELSE {}) \union SentIn(pul, reqs, n.f))
  BY <1>5, <1>6
<1>8. n.todo \union n.b \subseteq cop[c].todo \union cop[c].b
  BY <1>5
<1>9. Succeeds(st[n.f], s) /\ st' = [st EXCEPT ![n.f] = s]
  BY <1>5
<1>10. QED
  BY <1>1, <1>3, <1>4, <1>5, <1>7, <1>8, <1>9, CopierMoves

LEMMA CopyBlockKeeps ==
    ASSUME PullerInv, NEW c \in Copiers, NEW b, CopyBlock(c, b)
    PROVE  PullerInv'
<1> DEFINE f == cop[c].f
           s == st[f]
           P == SentIn(pul, reqs, f)
<1>1. cop[c].pc = "block" /\ b \in cop[c].todo /\ Busy(cop[c])
  BY DEF CopyBlock, Busy
<1>2. /\ f \in Files /\ CopierShape(cop[c])
      /\ Good(f, s, cop[c].todo, P)
  <2>1. Copying(f) = cop[c].todo /\ Pulling(f) = P
    <3>1. /\ Copying(f) = cop[c].todo \union (IF cop[c].pc = "write" THEN cop[c].b ELSE {})
          /\ Pulling(f) = (IF cop[c].pc = "pull" THEN cop[c].b ELSE {}) \union P
      BY <1>1, CopierFacts
    <3> HIDE DEF P, f
    <3>2. QED
      BY <1>1, <3>1
  <2>2. QED
    BY <1>1, <2>1, CopierFacts
<1>3. b \in BlocksOf[f] /\ s \in FileStates(f)
  BY <1>1, <1>2 DEF CopierShape, Good
<1>4. CASE CopierStep(c, "out", {}, Fail(s, "stopped"))
  <2>1. Good(f, Fail(s, "stopped"), {}, P)
    BY <1>2, GoodFail
  <2>2. Succeeds(s, Fail(s, "stopped"))
    BY <1>2, <1>3, FailingSuccessors
  <2>3. QED
    BY <1>1, <1>4, <2>1, <2>2, CopierLeaves
<1>5. CASE CopierStep(c, "block", cop[c].todo \ {b}, CopyDone(s, b))
  <2>1. Good(f, CopyDone(s, b), cop[c].todo \ {b}, P)
    BY <1>1, <1>2, GoodCopied
  <2>2. Succeeds(s, CopyDone(s, b))
    BY <1>2, <1>3, Successors
  <2>3. QED
    BY <1>1, <1>5, <2>1, <2>2, CopierGoesOn
<1>6. ASSUME NEW ok \in BOOLEAN, TempFile(s, ok).err # "nil",
             CopierStep(c, "out", {}, TempFile(s, ok))
      PROVE  PullerInv'
  <2>1. Good(f, TempFile(s, ok), cop[c].todo, P)
    BY <1>2, GoodTemp
  <2>2. Good(f, TempFile(s, ok), {}, P)
    BY <1>2, <1>6, <2>1, GoodLess
  <2>3. Succeeds(s, TempFile(s, ok))
    BY <1>2, <1>3, FailingSuccessors
  <2>4. QED
    BY <1>1, <1>6, <2>2, <2>3, CopierLeaves
<1>7. ASSUME NEW ok \in BOOLEAN,
             cop' = [cop EXCEPT ![c].pc = "write", ![c].b = {b},
                                ![c].todo = cop[c].todo \ {b}],
             st' = [st EXCEPT ![f] = TempFile(s, ok)],
             UNCHANGED <<main, doneWg, queued, progress, pul, reqs, fin, db,
                         errs, registry, stopped>>
      PROVE  PullerInv'
  <2>1. Good(f, TempFile(s, ok), cop[c].todo, P)
    BY <1>2, GoodTemp
  <2>2. Succeeds(s, TempFile(s, ok))
    BY <1>2, <1>3, FailingSuccessors
  <2>3. Good(f, TempFile(s, ok),
             IF "write" = "write" THEN cop[c].todo ELSE cop[c].todo \ {b},
             (IF "write" = "pull" THEN {b} ELSE {}) \union P)
    BY <2>1
  <2>4. QED
    BY <1>1, <1>7, <2>2, <2>3, CopierTakesUp
<1>8. CASE s.err # "nil" /\ CopierStep(c, "out", {}, s)
  <2>1. Good(f, s, {}, P)
    BY <1>2, <1>8, GoodLess
  <2>2. Succeeds(s, s)
    BY DEF Succeeds
  <2>3. QED
    BY <1>1, <1>8, <2>1, <2>2, CopierLeaves
<1>9. CASE /\ cop' = [cop EXCEPT ![c].pc = "pull", ![c].b = {b},
                                 ![c].todo = cop[c].todo \ {b}]
           /\ st' = [st EXCEPT ![f] = PullStarted(s)]
           /\ UNCHANGED <<main, doneWg, queued, progress, pul, reqs, fin, db,
                          errs, registry, stopped>>
  <2>1. Good(f, PullStarted(s), cop[c].todo \ {b}, P \union {b})
    BY <1>1, <1>2, GoodPullStarted
  <2>2. Succeeds(s, PullStarted(s))
    BY <1>2, <1>3, Successors
  <2>3. P \union {b} = (IF "pull" = "pull" THEN {b} ELSE {}) \union P
    OBVIOUS
  <2>4. Good(f, PullStarted(s),
             IF "pull" = "write" THEN cop[c].todo ELSE cop[c].todo \ {b},
             (IF "pull" = "pull" THEN {b} ELSE {}) \union P)
    BY <2>1, <2>3
  <2>5. QED
    BY <1>1, <1>9, <2>2, <2>4, CopierTakesUp
<1>10. QED
  BY <1>4, <1>5, <1>6, <1>7, <1>8, <1>9 DEF CopyBlock

LEMMA CopyWriteKeeps ==
    ASSUME PullerInv, NEW c \in Copiers, CopyWrite(c)
    PROVE  PullerInv'
<1> DEFINE f == cop[c].f
           s == st[f]
           P == SentIn(pul, reqs, f)
<1>1. cop[c].pc = "write" /\ Busy(cop[c])
  BY DEF CopyWrite, Busy
<1>2. PICK b \in cop[c].b :
          \/ s.writer /\ CopierStep(c, "block", cop[c].todo, CopyDone(s, b))
          \/ CopierStep(c, "out", {}, Fail(s, "failed"))
  BY DEF CopyWrite
<1>3. /\ f \in Files /\ CopierShape(cop[c])
      /\ Good(f, s, cop[c].todo \union {b}, P)
  <2>1. cop[c].b = {b}
    BY <1>1, CopierFacts DEF CopierShape
  <2>2. Copying(f) = cop[c].todo \union {b} /\ Pulling(f) = P
    BY <1>1, <2>1, CopierFacts
  <2>3. QED
    BY <1>1, <2>2, CopierFacts
<1>4. b \in BlocksOf[f] /\ s \in FileStates(f) /\ b \notin cop[c].todo
  BY <1>1, <1>2, <1>3 DEF CopierShape, Good
<1>5. CASE CopierStep(c, "block", cop[c].todo, CopyDone(s, b))
  <2>1. (cop[c].todo \union {b}) \ {b} = cop[c].todo
    BY <1>4
  <2>2. Good(f, CopyDone(s, b), cop[c].todo, P)
    BY <1>3, <2>1, GoodCopied
  <2>3. Succeeds(s, CopyDone(s, b))
    BY <1>3, <1>4, Successors
  <2>4. QED
    BY <1>1, <1>5, <2>2, <2>3, CopierGoesOn
<1>6. CASE CopierStep(c, "out", {}, Fail(s, "failed"))
  <2>1. Good(f, Fail(s, "failed"), {}, P)
    BY <1>3, GoodFail
  <2>2. Succeeds(s, Fail(s, "failed"))
    BY <1>3, <1>4, FailingSuccessors
  <2>3. QED
    BY <1>1, <1>6, <2>1, <2>2, CopierLeaves
<1>7. QED
  BY <1>2, <1>5, <1>6

LEMMA CopierEndsFileKeeps ==
    ASSUME PullerInv, NEW c \in Copiers, CopierEndsFile(c)
    PROVE  PullerInv'
<1> DEFINE f == cop[c].f
           s == st[f]
           P == SentIn(pul, reqs, f)
<1>1. cop[c].pc = "block" /\ cop[c].todo = {} /\ Busy(cop[c])
  BY DEF CopierEndsFile, Busy
<1>2. f \in Files /\ Good(f, s, {}, P)
  <2>1. Copying(f) = {} /\ Pulling(f) = P
    BY <1>1, CopierFacts
  <2>2. QED
    BY <1>1, <2>1, CopierFacts
<1>3. PICK ok \in BOOLEAN :
          CopierStep(c, "out", {}, IF s.reused = BlocksOf[f] THEN TempFile(s, ok) ELSE s)
  BY DEF CopierEndsFile
<1>4. s \in FileStates(f)
  BY <1>2 DEF Good
<1>5. Good(f, TempFile(s, ok), {}, P) /\ Succeeds(s, TempFile(s, ok)) /\ Succeeds(s, s)
  BY <1>2, <1>4, GoodTemp, FailingSuccessors DEF Succeeds
<1>6. CopierStep(c, "out", {}, TempFile(s, ok)) \/ CopierStep(c, "out", {}, s)
  BY <1>3
<1>7. QED
  BY <1>1, <1>2, <1>5, <1>6, CopierLeaves

-----------------------------------------------------------------------------
(* The block requests.                                                     *)

\* A request ends: whatever it has set besides, it is at "out".
LEMMA RequestLeaves ==
    ASSUME PullerInv, NEW r \in reqs, r.pc # "out",
           NEW r2 \in PullRequests, r2.f = r.f, r2.b = r.b, r2.pc = "out",
           NEW s, Succeeds(st[r.f], s),
           Good(r.f, s, Copying(r.f), Pulling(r.f) \ {r.b}),
           RequestStep(r, r2, s)
    PROVE  PullerInv'
  BY RequestMoves

\* A request goes on with its block.
LEMMA RequestGoesOn ==
    ASSUME PullerInv, NEW r \in reqs, r.pc # "out",
           NEW r2 \in PullRequests, r2.f = r.f, r2.b = r.b, r2.pc # "out",
           r2.chunk < Chunks,
           NEW s, Succeeds(st[r.f], s), Good(r.f, s, Copying(r.f), Pulling(r.f)),
           RequestStep(r, r2, s)
    PROVE  PullerInv'
  BY RequestMoves

\* A request fails its file.
LEMMA RequestFailsFile ==
    ASSUME PullerInv, NEW r \in reqs, r.pc # "out",
           NEW r2 \in PullRequests, r2.f = r.f, r2.b = r.b, r2.pc = "out",
           NEW e \in {"stopped", "failed"},
           RequestStep(r, r2, Fail(st[r.f], e))
    PROVE  PullerInv'
<1>1. r.f \in Files /\ Good(r.f, st[r.f], Copying(r.f), Pulling(r.f))
  BY RequestFacts
<1>2. Good(r.f, Fail(st[r.f], e), Copying(r.f), Pulling(r.f) \ {r.b})
  BY <1>1, GoodFail
<1>3. st[r.f] \in FileStates(r.f)
  BY <1>1 DEF Good
<1>4. Succeeds(st[r.f], Fail(st[r.f], e))
  BY <1>1, <1>3, FailingSuccessors
<1>5. QED
  BY <1>2, <1>4, RequestLeaves

LEMMA RequestRecords ==
    ASSUME NEW r \in PullRequests
    PROVE  /\ LET q == [r EXCEPT !.pc = "out"]
              IN  q \in PullRequests /\ q.f = r.f /\ q.b = r.b /\ q.pc = "out"
           /\ r.cands > 0 =>
                LET q == [r EXCEPT !.cands = @ - 1, !.lastError = TRUE]
                IN  /\ q \in PullRequests /\ q.f = r.f /\ q.b = r.b
                    /\ q.pc = r.pc /\ q.chunk = r.chunk
           /\ r.cands > 0 =>
                LET q == [r EXCEPT !.pc = "out", !.cands = @ - 1]
                IN  q \in PullRequests /\ q.f = r.f /\ q.b = r.b /\ q.pc = "out"
           /\ r.cands > 0 /\ r.chunk < Chunks =>
                LET q == [r EXCEPT !.cands = @ - 1, !.lastError = FALSE,
                                   !.chunk = @ + 1]
                IN  /\ q \in PullRequests /\ q.f = r.f /\ q.b = r.b
                    /\ q.pc = r.pc /\ q.chunk = r.chunk + 1
<1>1. MaxDevices \in Nat /\ Chunks \in Nat
  BY PullerAssumption
<1>2. /\ r.cands \in 0..MaxDevices /\ r.chunk \in 0..Chunks
  BY DEF PullRequests
<1>3. r.cands > 0 => r.cands - 1 \in 0..MaxDevices
  BY <1>1, <1>2
<1>4. r.chunk < Chunks => r.chunk + 1 \in 0..Chunks
  BY <1>1, <1>2
<1>5. LET q == [r EXCEPT !.pc = "out"]
      IN  q \in PullRequests /\ q.f = r.f /\ q.b = r.b /\ q.pc = "out"
  BY DEF PullRequests
<1>7. ASSUME r.cands > 0
      PROVE  LET q == [r EXCEPT !.cands = @ - 1, !.lastError = TRUE]
             IN  /\ q \in PullRequests /\ q.f = r.f /\ q.b = r.b
                 /\ q.pc = r.pc /\ q.chunk = r.chunk
  BY <1>3, <1>7 DEF PullRequests
<1>8. ASSUME r.cands > 0
      PROVE  LET q == [r EXCEPT !.pc = "out", !.cands = @ - 1]
             IN  q \in PullRequests /\ q.f = r.f /\ q.b = r.b /\ q.pc = "out"
  BY <1>3, <1>8 DEF PullRequests
<1>9. ASSUME r.cands > 0, r.chunk < Chunks
      PROVE  LET q == [r EXCEPT !.cands = @ - 1, !.lastError = FALSE,
                                !.chunk = @ + 1]
             IN  /\ q \in PullRequests /\ q.f = r.f /\ q.b = r.b
                 /\ q.pc = r.pc /\ q.chunk = r.chunk + 1
  BY <1>3, <1>4, <1>9 DEF PullRequests
<1>10. QED
  BY <1>5, <1>7, <1>8, <1>9

LEMMA RequestOpensKeeps ==
    ASSUME PullerInv, NEW r \in reqs, NEW ok \in BOOLEAN, NEW n \in 0..MaxDevices,
           RequestOpens(r, ok, n)
    PROVE  PullerInv'
<1> DEFINE s == TempFile(st[r.f], ok)
           q == [r EXCEPT !.pc = "req", !.cands = n]
           o == [r EXCEPT !.pc = "out"]
<1>1. r.pc = "open" /\ RequestStep(r, IF s.err # "nil" THEN o ELSE q, s)
  BY DEF RequestOpens
<1>2. /\ r \in PullRequests /\ r.f \in Files /\ r.chunk < Chunks
      /\ Good(r.f, st[r.f], Copying(r.f), Pulling(r.f))
  BY <1>1, RequestFacts
<1>3. Good(r.f, s, Copying(r.f), Pulling(r.f))
  BY <1>2, GoodTemp
<1>4. st[r.f] \in FileStates(r.f)
  BY <1>2 DEF Good
<1>5. Succeeds(st[r.f], s)
  BY <1>2, <1>4, FailingSuccessors
<1>6. /\ q \in PullRequests /\ q.f = r.f /\ q.b = r.b /\ q.pc = "req" /\ q.chunk = r.chunk
      /\ o \in PullRequests /\ o.f = r.f /\ o.b = r.b /\ o.pc = "out"
  <2>1. o \in PullRequests /\ o.f = r.f /\ o.b = r.b /\ o.pc = "out"
    BY <1>2, RequestRecords
  <2>2. /\ q \in PullRequests /\ q.f = r.f /\ q.b = r.b /\ q.pc = "req"
        /\ q.chunk = r.chunk
    BY <1>2 DEF PullRequests
  <2>3. QED
    BY <2>1, <2>2
<1> HIDE DEF s, q, o
<1>7. CASE s.err # "nil"
  <2>1. Good(r.f, s, Copying(r.f), Pulling(r.f) \ {r.b})
    BY <1>2, <1>3, <1>7, GoodLess
  <2>2. RequestStep(r, o, s)
    BY <1>1, <1>7
  <2>3. QED
    BY <1>1, <1>5, <1>6, <2>1, <2>2, RequestLeaves
<1>8. CASE s.err = "nil"
  <2>1. RequestStep(r, q, s)
    BY <1>1, <1>8
  <2>2. q.chunk < Chunks /\ q.pc # "out" /\ r.pc # "out"
    BY <1>1, <1>2, <1>6
  <2>3. QED
    BY <1>3, <1>5, <1>6, <2>1, <2>2, RequestGoesOn
<1>9. QED
  BY <1>7, <1>8

LEMMA RequestEndsKeep ==
    ASSUME PullerInv, NEW r \in reqs, RequestGivesUp(r) \/ RequestMismatch(r)
    PROVE  PullerInv'
<1>1. r \in PullRequests /\ r.pc = "req"
  BY RequestFacts DEF RequestGivesUp, RequestMismatch
<1>2. CASE RequestGivesUp(r)
  <2> DEFINE o == [r EXCEPT !.pc = "out"]
  <2>1. o \in PullRequests /\ o.f = r.f /\ o.b = r.b /\ o.pc = "out"
    BY <1>1, RequestRecords
  <2>2. \/ RequestStep(r, o, Fail(st[r.f], "stopped"))
        \/ RequestStep(r, o, Fail(st[r.f], "failed"))
    BY <1>2 DEF RequestGivesUp
  <2> HIDE DEF o
  <2>3. QED
    BY <1>1, <2>1, <2>2, RequestFailsFile
<1>3. CASE RequestMismatch(r)
  <2> DEFINE o == [r EXCEPT !.pc = "out", !.cands = @ - 1]
  <2>1. r.cands > 0 /\ RequestStep(r, o, Fail(st[r.f], "failed"))
    BY <1>3 DEF RequestMismatch
  <2>2. o \in PullRequests /\ o.f = r.f /\ o.b = r.b /\ o.pc = "out"
    BY <1>1, <2>1, RequestRecords
  <2> HIDE DEF o
  <2>3. QED
    BY <1>1, <2>1, <2>2, RequestFailsFile
<1>4. QED
  BY <1>2, <1>3

LEMMA RequestFailsKeeps ==
    ASSUME PullerInv, NEW r \in reqs, RequestFails(r)
    PROVE  PullerInv'
<1> DEFINE q == [r EXCEPT !.cands = @ - 1, !.lastError = TRUE]
<1>1. r.pc = "req" /\ r.cands > 0 /\ RequestStep(r, q, st[r.f])
  BY DEF RequestFails
<1>2. /\ r \in PullRequests /\ r.chunk < Chunks
      /\ Good(r.f, st[r.f], Copying(r.f), Pulling(r.f))
  BY <1>1, RequestFacts
<1>3. /\ q \in PullRequests /\ q.f = r.f /\ q.b = r.b /\ q.pc = r.pc
      /\ q.chunk = r.chunk
  BY <1>1, <1>2, RequestRecords
<1>4. Succeeds(st[r.f], st[r.f])
  BY DEF Succeeds
<1> HIDE DEF q
<1>5. q.pc # "out" /\ r.pc # "out" /\ q.chunk < Chunks
  BY <1>1, <1>2, <1>3
<1>6. QED
  BY <1>1, <1>2, <1>3, <1>4, <1>5, RequestGoesOn

LEMMA RequestArrivesKeeps ==
    ASSUME PullerInv, NEW r \in reqs, RequestArrives(r)
    PROVE  PullerInv'
<1> DEFINE q == [r EXCEPT !.cands = @ - 1, !.lastError = FALSE, !.chunk = @ + 1]
           o == [q EXCEPT !.pc = "out"]
<1>1. /\ r.pc = "req" /\ r.cands > 0
      /\ \/ RequestStep(r, o, Fail(st[r.f], "failed"))
         \/ q.chunk < Chunks /\ RequestStep(r, q, st[r.f])
         \/ RequestStep(r, o, PullDone(st[r.f], r.b))
  BY DEF RequestArrives
<1>2. /\ r \in PullRequests /\ r.f \in Files /\ r.chunk < Chunks
      /\ r.b \in BlocksOf[r.f] /\ r.b \in Pulling(r.f)
      /\ Good(r.f, st[r.f], Copying(r.f), Pulling(r.f))
  BY <1>1, RequestFacts
<1>3. /\ q \in PullRequests /\ q.f = r.f /\ q.b = r.b /\ q.pc = r.pc
  BY <1>1, <1>2, RequestRecords
<1>4. /\ o \in PullRequests /\ o.f = r.f /\ o.b = r.b /\ o.pc = "out"
  <2> HIDE DEF q
  <2>1. o \in PullRequests /\ o.f = q.f /\ o.b = q.b /\ o.pc = "out"
    BY <1>3, RequestRecords
  <2>2. QED
    BY <1>3, <2>1
<1> HIDE DEF q, o
<1>5. r.pc # "out" /\ q.pc # "out"
  BY <1>1, <1>3
<1>6. CASE RequestStep(r, o, Fail(st[r.f], "failed"))
  BY <1>4, <1>5, <1>6, RequestFailsFile
<1>7. CASE q.chunk < Chunks /\ RequestStep(r, q, st[r.f])
  <2>1. Succeeds(st[r.f], st[r.f])
    BY DEF Succeeds
  <2>2. QED
    BY <1>2, <1>3, <1>5, <1>7, <2>1, RequestGoesOn
<1>8. CASE RequestStep(r, o, PullDone(st[r.f], r.b))
  <2>1. Good(r.f, PullDone(st[r.f], r.b), Copying(r.f), Pulling(r.f) \ {r.b})
    BY <1>2, GoodPullDone
  <2>2. st[r.f] \in FileStates(r.f)
    BY <1>2 DEF Good
  <2>3. Succeeds(st[r.f], PullDone(st[r.f], r.b))
    BY <1>2, <2>2, Successors
  <2>4. QED
    BY <1>4, <1>5, <1>8, <2>1, <2>3, RequestLeaves
<1>9. QED
  BY <1>1, <1>6, <1>7, <1>8

-----------------------------------------------------------------------------
(* processNeeded.                                                          *)

\* The files whose turn has not come, and the one that is looked at, are not
\* under way.
LEMMA NotUnderWay ==
    ASSUME PullerInv, NEW f \in Files, ~st[f].live
    PROVE  /\ ~Held(f) /\ ~Travels(f) /\ ~(fin.pc = "finish" /\ fin.f = f)
           /\ ~st[f].closed
  BY DEF PullerInv, LiveFiles, Held

\* The goroutine of pullerIteration takes a step that is not about a channel.
LEMMA MainMoves ==
    ASSUME PullerInv, main.pc # "send", main'.pc # "send",
           main' \in [pc : {"loop", "closePull", "closeFinish", "doneWait", "returned"}]
                     \union [pc : {"file"}, f : Files],
           UNCHANGED <<st, cop, pul, reqs, fin, registry, stopped>>,
           db' \in [Files -> {0, 1}], errs' \subseteq Files,
           \A f \in Files : st[f].live =>
               db'[f] = db[f] /\ (f \in errs' <=> f \in errs),
           QueueFresh', StagesEnd'
    PROVE  PullerInv'
<1>1. RoutinesTyped' /\ OnePlace'
  <2>1. main' \in [pc : {"loop", "closePull", "closeFinish", "doneWait", "returned"}]
                  \union [pc : {"file"}, f : Files]
                  \union [pc : {"send"}, f : Files, todo : SUBSET Blocks]
    OBVIOUS
  <2>2. RoutinesTyped'
    BY <2>1 DEF PullerInv, RoutinesTyped
  <2>3. OnePlace'
    BY DEF PullerInv, OnePlace
  <2>4. QED
    BY <2>2, <2>3
<1>2. \A f \in Files : /\ (Travels(f)' <=> Travels(f)) /\ (Held(f)' <=> Held(f))
                       /\ Copying(f)' = Copying(f) /\ Pulling(f)' = Pulling(f)
  BY DEF Held, Travels, Copying, CopyingIn, Pulling
<1>3. LiveFiles'
  BY <1>2 DEF PullerInv, LiveFiles
<1>4. ClosedFiles'
  BY DEF PullerInv, ClosedFiles, LiveFiles
<1>5. Recorded'
  BY DEF PullerInv, Recorded
<1>6. QED
  BY <1>1, <1>2, <1>3, <1>4, <1>5 DEF PullerInv

\* Nothing but the job queue and the wait group has changed.
LEMMA QueueMoves ==
    ASSUME PullerInv, QueueFresh',
           UNCHANGED <<main, st, cop, pul, reqs, fin, db, errs, registry, stopped>>
    PROVE  PullerInv'
<1>1. RoutinesTyped' /\ OnePlace' /\ StagesEnd'
  BY DEF PullerInv, RoutinesTyped, OnePlace, StagesEnd
<1>2. \A f \in Files : /\ (Travels(f)' <=> Travels(f)) /\ (Held(f)' <=> Held(f))
                       /\ Copying(f)' = Copying(f) /\ Pulling(f)' = Pulling(f)
  BY DEF Held, Travels, Copying, Pulling
<1>3. LiveFiles'
  BY <1>2 DEF PullerInv, LiveFiles
<1>4. ClosedFiles'
  BY DEF PullerInv, ClosedFiles
<1>5. Recorded'
  BY DEF PullerInv, Recorded
<1>6. QED
  BY <1>1, <1>2, <1>3, <1>4, <1>5 DEF PullerInv

LEMMA BringToFrontKeeps ==
    ASSUME PullerInv, NEW f \in Files, BringToFront(f)
    PROVE  PullerInv'
<1>1. PICK i \in 2..Len(queued) :
          /\ queued[i] = f
          /\ queued' = [j \in DOMAIN queued |->
                           IF j = 1 THEN f
                           ELSE IF j <= i THEN queued[j - 1] ELSE queued[j]]
  BY DEF BringToFront
<1>2. UNCHANGED <<main, st, cop, pul, reqs, fin, db, errs, registry, stopped>>
  BY DEF BringToFront
<1>3. queued \in Seq(Files) /\ DOMAIN queued = 1..Len(queued) /\ Len(queued) \in Nat
  BY DEF PullerInv, QueueFresh
<1>4. queued' \in Seq(Files) /\ DOMAIN queued' = DOMAIN queued
  <2>1. queued' \in [1..Len(queued) -> Files]
    BY <1>1, <1>3
  <2>2. QED
    BY <1>3, <2>1
<1>5. \A j \in DOMAIN queued' : \E k \in DOMAIN queued : queued'[j] = queued[k]
  BY <1>1, <1>3
<1>6. \A j, k \in DOMAIN queued' : queued'[j] = queued'[k] => j = k
  <2>1. \A j, k \in DOMAIN queued : queued[j] = queued[k] => j = k
    BY DEF PullerInv, QueueFresh
  <2>2. QED
    BY <1>1, <1>3, <2>1
<1>7. main.pc = "send" => (Travels(main.f)' <=> Travels(main.f))
  BY <1>2 DEF Travels
<1>8. QueueFresh'
  BY <1>2, <1>4, <1>5, <1>6, <1>7 DEF PullerInv, QueueFresh
<1>9. QED
  BY <1>2, <1>8, QueueMoves

LEMMA PopKeeps ==
    ASSUME PullerInv, Pop
    PROVE  PullerInv'
<1>1. /\ main.pc = "loop" /\ queued # <<>>
      /\ main' = [pc |-> "file", f |-> Head(queued)] /\ queued' = Tail(queued)
      /\ UNCHANGED <<st, cop, pul, reqs, fin, db, errs, registry, stopped>>
  BY DEF Pop
<1>2. queued \in Seq(Files) /\ DOMAIN queued = 1..Len(queued) /\ Len(queued) \in Nat
  BY DEF PullerInv, QueueFresh
<1>3. /\ Tail(queued) \in Seq(Files) /\ Head(queued) = queued[1] /\ 1 \in DOMAIN queued
      /\ DOMAIN Tail(queued) = 1..(Len(queued) - 1)
      /\ \A i \in DOMAIN Tail(queued) :
            Tail(queued)[i] = queued[i + 1] /\ i + 1 \in DOMAIN queued /\ i + 1 # 1
  BY <1>1, <1>2
<1>4. Head(queued) \in Files
  BY <1>2, <1>3
<1>5. QueueFresh'
  <2>1. \A i, j \in DOMAIN queued : queued[i] = queued[j] => i = j
    BY DEF PullerInv, QueueFresh
  <2>2. \A i, j \in DOMAIN Tail(queued) : Tail(queued)[i] = Tail(queued)[j] => i = j
    <3>1. \A i, j \in DOMAIN Tail(queued) : i + 1 = j + 1 => i = j
      BY <1>2, <1>3
    <3>2. QED
      BY <1>3, <2>1, <3>1
  <2>3. \A i \in DOMAIN queued :
          ~st[queued[i]].live /\ db[queued[i]] = 0 /\ queued[i] \notin errs
    BY DEF PullerInv, QueueFresh
  <2>4. \A i \in DOMAIN Tail(queued) : Tail(queued)[i] # Head(queued)
    BY <1>3, <2>1
  <2>5. main'.pc = "file" /\ main'.f = Head(queued)
    BY <1>1
  <2>6. \A i \in DOMAIN queued' :
          ~st'[queued'[i]].live /\ db'[queued'[i]] = 0 /\ queued'[i] \notin errs'
    BY <1>1, <1>3, <2>3
  <2>7. ~st'[main'.f].live /\ db'[main'.f] = 0 /\ main'.f \notin errs'
    BY <1>1, <1>3, <2>3, <2>5
  <2>8. QED
    BY <1>1, <1>3, <2>2, <2>4, <2>5, <2>6, <2>7 DEF QueueFresh
<1>6. StagesEnd'
  BY <1>1 DEF PullerInv, StagesEnd
<1>7. db \in [Files -> {0, 1}] /\ errs \subseteq Files
  BY DEF PullerInv, Recorded
<1>8. /\ main.pc # "send" /\ main'.pc # "send"
      /\ main' \in [pc : {"loop", "closePull", "closeFinish", "doneWait", "returned"}]
                   \union [pc : {"file"}, f : Files]
  BY <1>1, <1>4
<1>9. QED
  BY <1>1, <1>5, <1>6, <1>7, <1>8, MainMoves

\* The goroutine is done with the file it looked at.
LEMMA FileDoneWith ==
    ASSUME PullerInv, main.pc = "file",
           NEW pc \in {"loop", "closePull"}, main' = Idle(pc),
           UNCHANGED <<queued, st, cop, pul, reqs, fin, registry, stopped>>,
           db' = db \/ db' = [db EXCEPT ![main.f] = @ + 1],
           errs' = errs \/ errs' = errs \union {main.f}
    PROVE  PullerInv'
<1>1. main.f \in Files
  BY DEF PullerInv, RoutinesTyped
<1>2. /\ ~st[main.f].live /\ db[main.f] = 0
      /\ \A i \in DOMAIN queued : queued[i] # main.f /\ queued[i] \in Files
  BY DEF PullerInv, QueueFresh
<1>3. /\ db' \in [Files -> {0, 1}] /\ errs' \subseteq Files
      /\ \A f \in Files : f # main.f => db'[f] = db[f] /\ (f \in errs' <=> f \in errs)
  BY <1>1, <1>2 DEF PullerInv, Recorded
<1>4. main'.pc = pc /\ main' \in [pc : {"loop", "closePull", "closeFinish", "doneWait", "returned"}]
  BY DEF Idle
<1>5. QueueFresh'
  BY <1>2, <1>3, <1>4 DEF PullerInv, QueueFresh
<1>6. StagesEnd'
  BY <1>4 DEF PullerInv, StagesEnd
<1>7. main.pc # "send" /\ main'.pc # "send"
  BY <1>4
<1>8. QED
  BY <1>2, <1>3, <1>4, <1>5, <1>6, <1>7, MainMoves

\* The goroutine closes a channel.
LEMMA CloseKeeps ==
    ASSUME PullerInv, CloseCopy \/ ClosePull \/ CloseFinish
    PROVE  PullerInv'
<1>1. /\ UNCHANGED <<queued, st, cop, pul, reqs, fin, db, errs, registry, stopped>>
      /\ main.pc \in {"loop", "closePull", "closeFinish"}
      /\ main' \in [pc : {"closePull", "closeFinish", "doneWait"}]
  BY DEF CloseCopy, ClosePull, CloseFinish, Idle
<1>2. main'.pc \in {"closePull", "closeFinish", "doneWait"}
  BY <1>1
<1>3. QueueFresh'
  BY <1>1, <1>2 DEF PullerInv, QueueFresh
<1>4. StagesEnd'
  <2>1. CASE CloseCopy
    BY <1>1, <2>1 DEF PullerInv, StagesEnd, CloseCopy, Idle
  <2>2. CASE ClosePull
    BY <1>1, <2>2 DEF PullerInv, StagesEnd, ClosePull, Idle
  <2>3. CASE CloseFinish
    BY <1>1, <2>3 DEF PullerInv, StagesEnd, CloseFinish, Idle
  <2>4. QED
    BY <2>1, <2>2, <2>3
<1>5. db \in [Files -> {0, 1}] /\ errs \subseteq Files
  BY DEF PullerInv, Recorded
<1>6. /\ main.pc # "send" /\ main'.pc # "send"
      /\ main' \in [pc : {"loop", "closePull", "closeFinish", "doneWait", "returned"}]
                   \union [pc : {"file"}, f : Files]
  BY <1>1, <1>2
<1>7. QED
  BY <1>1, <1>3, <1>4, <1>5, <1>6, MainMoves

\* newSharedPullerState.
LEMMA GoodNew ==
    ASSUME NEW f \in Files, NEW todo \in SUBSET BlocksOf[f]
    PROVE  /\ Good(f, NewState(f, todo), todo, {})
           /\ NewState(f, todo).live /\ ~NewState(f, todo).closed
           /\ ~NewState(f, todo).writer
<1>1. Cardinality(todo) \in Nat /\ Cardinality({}) = 0
  BY BlocksAreFinite, FS_EmptySet
<1>2. /\ NoFile \in FileStates(f) /\ NoFile.err = "nil" /\ ~NoFile.writer
      /\ NoFile.pullNeeded = 0 /\ ~NoFile.closed
  BY DEF NoFile, FileStates, Errors
<1>3. LET s == NewState(f, todo)
      IN  /\ s \in FileStates(f) /\ s.live /\ s.err = "nil" /\ ~s.writer
          /\ s.copyNeeded = Cardinality(todo) /\ s.pullNeeded = 0
          /\ ~s.closed /\ s.got = BlocksOf[f] \ todo
  BY <1>1, <1>2 DEF NewState, FileStates
<1>4. QED
  BY <1>1, <1>2, <1>3 DEF Good

LEMMA HandleFileKeeps ==
    ASSUME PullerInv, NEW todo, HandleFile(todo)
    PROVE  PullerInv'
<1> DEFINE f0 == main.f
<1>1. /\ main.pc = "file" /\ todo \subseteq BlocksOf[f0]
      /\ main' = [pc |-> "send", f |-> f0, todo |-> todo]
      /\ st' = [st EXCEPT ![f0] = NewState(f0, todo)]
      /\ UNCHANGED <<queued, cop, pul, reqs, fin, db, errs, registry, stopped>>
  BY DEF HandleFile
<1>2. /\ f0 \in Files /\ ~st[f0].live /\ db[f0] = 0 /\ f0 \notin errs
      /\ \A i \in DOMAIN queued : queued[i] # f0 /\ queued[i] \in Files
  BY <1>1 DEF PullerInv, RoutinesTyped, QueueFresh
<1>3. ~Travels(f0) /\ ~(fin.pc = "finish" /\ fin.f = f0)
  BY <1>2, NotUnderWay
<1>4. /\ main'.pc = "send" /\ main'.f = f0 /\ main'.todo = todo
      /\ main' \in [pc : {"send"}, f : Files, todo : SUBSET Blocks]
  BY <1>1, <1>2 DEF Blocks
<1>5. /\ Good(f0, st'[f0], todo, {}) /\ st'[f0].live /\ ~st'[f0].closed
      /\ \A f \in Files : f # f0 => st'[f] = st[f]
      /\ DOMAIN st' = Files
  BY <1>1, <1>2, GoodNew DEF PullerInv
<1>6. \A f \in Files : Travels(f)' <=> Travels(f)
  BY <1>1 DEF Travels
<1>7. \A f \in Files : f # f0 => (Held(f)' <=> Held(f))
  BY <1>1, <1>4, <1>6 DEF Held
<1>8. RoutinesTyped'
  BY <1>1, <1>4 DEF PullerInv, RoutinesTyped
<1>9. OnePlace'
  <2>1. \A c \in Copiers : Busy(cop[c]) => cop[c].f # f0
    BY <1>3 DEF Travels
  <2>2. QED
    BY <1>1, <1>4, <2>1 DEF PullerInv, OnePlace
<1>10. QueueFresh'
  BY <1>1, <1>2, <1>3, <1>4, <1>5, <1>6 DEF PullerInv, QueueFresh
<1>11. LiveFiles'
  <2>1. Held(f0)'
    BY <1>4 DEF Held
  <2>2. QED
    BY <1>1, <1>2, <1>5, <1>7, <2>1 DEF PullerInv, LiveFiles
<1>12. ClosedFiles'
  BY <1>1, <1>5 DEF PullerInv, ClosedFiles
<1>13. Recorded'
  <2>1. fin.pc = "finish" => fin.f \in Files /\ fin.f # f0
    BY <1>3 DEF PullerInv, RoutinesTyped
  <2>2. QED
    BY <1>1, <1>2, <1>5, <2>1 DEF PullerInv, Recorded
<1>14. StagesEnd'
  BY <1>1, <1>4 DEF PullerInv, StagesEnd
<1>15. ASSUME NEW f \in Files PROVE Good(f, st'[f], Copying(f)', Pulling(f)')
  <2>1. Pulling(f)' = Pulling(f)
    BY <1>1 DEF Pulling
  <2>2. CASE f = f0
    <3>1. Pulling(f) = {}
      BY <1>3, <2>2 DEF Pulling, PullingIn, SentIn, Travels, Busy
    <3>2. CopyingIn(main', cop, f) = todo
      BY <1>1, <1>3, <1>4, <2>2 DEF CopyingIn, Travels
    <3>3. Copying(f)' = todo
      BY <1>1, <3>2 DEF Copying
    <3>4. QED
      BY <1>5, <2>1, <2>2, <3>1, <3>3
  <2>3. CASE f # f0
    <3>1. CopyingIn(main', cop, f) = CopyingIn(main, cop, f)
      BY <1>1, <1>4, <2>3 DEF CopyingIn
    <3>2. Copying(f)' = Copying(f)
      BY <1>1, <3>1 DEF Copying
    <3>3. QED
      BY <1>5, <2>1, <2>3, <3>2 DEF PullerInv
  <2>4. QED
    BY <2>2, <2>3
<1>16. QED
  BY <1>5, <1>8, <1>9, <1>10, <1>11, <1>12, <1>13, <1>14, <1>15 DEF PullerInv

LEMMA SendToCopierKeeps ==
    ASSUME PullerInv, NEW c \in Copiers, SendToCopier(c)
    PROVE  PullerInv'
<1> DEFINE f0 == main.f
           n == [pc |-> "block", f |-> f0, todo |-> main.todo, b |-> {}]
<1>1. /\ main.pc = "send" /\ cop[c].pc = "recv"
      /\ main' = Idle("loop") /\ cop' = [cop EXCEPT ![c] = n]
      /\ registry' = registry \union {f0}
      /\ UNCHANGED <<queued, st, pul, reqs, fin, db, errs, stopped>>
  BY DEF SendToCopier
<1>2. /\ f0 \in Files /\ main.todo \subseteq BlocksOf[f0]
      /\ st[f0].live /\ ~st[f0].closed /\ ~Travels(f0)
  BY <1>1 DEF PullerInv, RoutinesTyped, QueueFresh
<1>3. CopierShape(n) /\ n.f = f0 /\ n.todo = main.todo /\ n.b = {} /\ n.pc = "block"
  BY <1>2 DEF CopierShape, BusyCopiers, Blocks
<1>4. n \in BusyCopiers /\ Busy(n)
  BY <1>3, BusyRoutines DEF CopierShape
<1> HIDE DEF n
<1>5. main'.pc = "loop" /\ main' \in [pc : {"loop", "closePull", "closeFinish", "doneWait", "returned"}]
  BY <1>1 DEF Idle
<1>6. cop'[c] = n /\ (\A d \in Copiers : d # c => cop'[d] = cop[d]) /\ ~Busy(cop[c])
  BY <1>1 DEF PullerInv, RoutinesTyped, Busy
<1>7. \A d \in Copiers : Busy(cop'[d]) => d = c \/ (Busy(cop[d]) /\ cop'[d] = cop[d] /\ cop[d].f # f0)
  BY <1>2, <1>6 DEF Travels
<1>8. /\ \A f \in Files : f # f0 => (Travels(f)' <=> Travels(f))
      /\ \A f \in Files : f = f0 => Travels(f)'
  BY <1>1, <1>3, <1>4, <1>6 DEF Travels
<1>9. \A f \in Files : Held(f)' <=> Held(f)
  BY <1>1, <1>5, <1>8 DEF Held
<1>10. RoutinesTyped'
  <2>1. cop' \in [Copiers -> [pc : {"recv", "gone"}] \union BusyCopiers]
    BY <1>1, <1>4 DEF PullerInv, RoutinesTyped
  <2>2. \A d \in Copiers : Busy(cop'[d]) => CopierShape(cop'[d])
    BY <1>3, <1>6, <1>7, CopierFacts
  <2>3. QED
    BY <1>1, <1>5, <2>1, <2>2 DEF PullerInv, RoutinesTyped, CopierShape
<1>11. OnePlace'
  <2>1. /\ ~(pul.pc = "take" /\ pul.f = f0)
        /\ \A r \in reqs : r.f # f0
    BY <1>2 DEF Travels, Busy
  <2>2. QED
    BY <1>1, <1>3, <1>5, <1>6, <1>7, <2>1 DEF PullerInv, OnePlace
<1>12. QueueFresh'
  BY <1>1, <1>5 DEF PullerInv, QueueFresh
<1>13. LiveFiles'
  BY <1>1, <1>9 DEF PullerInv, LiveFiles
<1>14. ClosedFiles'
  BY <1>1, <1>2 DEF PullerInv, ClosedFiles
<1>15. Recorded'
  BY <1>1 DEF PullerInv, Recorded
<1>16. StagesEnd'
  BY <1>1, <1>5 DEF PullerInv, StagesEnd
<1>17. ASSUME NEW f \in Files PROVE Good(f, st'[f], Copying(f)', Pulling(f)')
  <2>1. CopyingIn(main', cop', f) = CopyingIn(main, cop, f)
    <3>1. CASE f = f0
      <4>1. CopyingIn(main, cop, f) = main.todo
        BY <1>1, <1>2, <3>1 DEF CopyingIn, Travels
      <4>2. CopyingIn(main', cop', f) = main.todo
        BY <1>2, <1>3, <1>4, <1>5, <1>6, <1>7, <3>1 DEF CopyingIn
      <4>3. QED
        BY <4>1, <4>2
    <3>2. CASE f # f0
      BY <1>3, <1>5, <1>6, <3>2 DEF CopyingIn
    <3>3. QED
      BY <3>1, <3>2
  <2>2. PullingIn(cop', pul, reqs, f) = PullingIn(cop, pul, reqs, f)
    BY <1>1, <1>3, <1>6 DEF PullingIn
  <2>3. QED
    BY <1>1, <2>1, <2>2 DEF PullerInv, Copying, Pulling
<1>18. QED
  BY <1>1, <1>10, <1>11, <1>12, <1>13, <1>14, <1>15, <1>16, <1>17 DEF PullerInv

-----------------------------------------------------------------------------
(* Steps that hand a file on and leave its state alone.                    *)

LEMMA SameFiles ==
    ASSUME PullerInv, UNCHANGED <<main, queued, st, db, errs, registry>>,
           \A f \in Files : Travels(f)' <=> Travels(f),
           fin' = fin \/ (fin.pc # "finish" /\ fin'.pc # "finish")
    PROVE  /\ QueueFresh' /\ LiveFiles' /\ ClosedFiles' /\ Recorded'
           /\ DOMAIN st' = Files
<1>1. \A f \in Files : Held(f)' <=> Held(f)
  BY DEF Held
<1>2. QueueFresh'
  <2>1. main.pc = "send" => main.f \in Files
    BY DEF PullerInv, RoutinesTyped
  <2>2. QED
    BY <2>1 DEF PullerInv, QueueFresh
<1>3. LiveFiles'
  BY <1>1 DEF PullerInv, LiveFiles
<1>4. ClosedFiles'
  BY DEF PullerInv, ClosedFiles
<1>5. Recorded'
  BY DEF PullerInv, Recorded
<1>6. QED
  BY <1>2, <1>3, <1>4, <1>5 DEF PullerInv

LEMMA PullerFacts ==
    ASSUME PullerInv, Busy(pul)
    PROVE  /\ pul \in BusyPullers /\ pul.f \in Files /\ pul.b \in BlocksOf[pul.f]
           /\ pul.pc \in {"take", "out"}
  BY BusyRoutines DEF PullerInv, RoutinesTyped, BusyPullers

LEMMA SendToPullerKeeps ==
    ASSUME PullerInv, NEW c \in Copiers, SendToPuller(c)
    PROVE  PullerInv'
<1> DEFINE n == [cop[c] EXCEPT !.pc = "block", !.b = {}]
<1>1. /\ cop[c].pc = "pull" /\ pul.pc = "recv" /\ Busy(cop[c]) /\ ~Busy(pul)
      /\ UNCHANGED <<main, queued, st, reqs, fin, db, errs, registry, stopped>>
  BY DEF SendToPuller, Busy
<1>2. CopierShape(cop[c]) /\ cop[c].f \in Files /\ cop[c] \in BusyCopiers
  BY <1>1, CopierFacts DEF CopierShape
<1>3. PICK f0 \in Files : f0 = cop[c].f
  BY <1>2
<1>4. PICK b \in cop[c].b :
          pul' = [pc |-> IF st[cop[c].f].err # "nil" THEN "out" ELSE "take",
                  f |-> cop[c].f, b |-> b]
  BY DEF SendToPuller
<1>5. cop[c].b = {b} /\ b \in BlocksOf[f0] /\ b \in Blocks /\ b \notin cop[c].todo
  BY <1>1, <1>2, <1>3, <1>4 DEF CopierShape, Blocks
<1>6. /\ n \in BusyCopiers /\ n.f = f0 /\ n.todo = cop[c].todo /\ n.b = {}
      /\ n.pc = "block"
  BY <1>2, <1>3 DEF BusyCopiers
<1>7. cop' = [cop EXCEPT ![c] = n]
  <2>1. cop' = [cop EXCEPT ![c].pc = "block", ![c].b = {}]
    BY DEF SendToPuller
  <2>2. cop \in [Copiers -> [pc : {"recv", "gone"}] \union BusyCopiers]
    BY DEF PullerInv, RoutinesTyped
  <2>3. QED
    BY <2>1, <2>2
<1> HIDE DEF n
<1>8. CopierShape(n) /\ Busy(n)
  BY <1>2, <1>3, <1>6, BusyRoutines DEF CopierShape
<1>9. /\ pul' \in BusyPullers /\ pul'.f = f0 /\ pul'.b = b /\ Busy(pul')
      /\ pul'.pc = IF st[f0].err # "nil" THEN "out" ELSE "take"
  BY <1>3, <1>4, <1>5 DEF BusyPullers, Busy
<1>10. cop'[c] = n /\ \A d \in Copiers : d # c => cop'[d] = cop[d]
  BY <1>7 DEF PullerInv, RoutinesTyped
<1>11. \A d \in Copiers : Busy(cop'[d]) <=> Busy(cop[d])
  BY <1>1, <1>8, <1>10
<1>12. \A d \in Copiers : Busy(cop[d]) =>
          /\ cop'[d].f = cop[d].f /\ cop'[d].todo = cop[d].todo
          /\ cop'[d].b \subseteq cop[d].b
  BY <1>3, <1>6, <1>10
<1>13. \A f \in Files : Travels(f)' <=> Travels(f)
  BY <1>1, <1>3, <1>9, <1>11, <1>12 DEF Travels
<1>14. RoutinesTyped'
  <2>1. cop' \in [Copiers -> [pc : {"recv", "gone"}] \union BusyCopiers]
    BY <1>6, <1>7 DEF PullerInv, RoutinesTyped
  <2>2. \A d \in Copiers : Busy(cop[d]) => CopierShape(cop'[d])
    BY <1>8, <1>10, CopierFacts
  <2>3. QED
    BY <1>1, <1>5, <1>9, <1>11, <2>1, <2>2 DEF PullerInv, RoutinesTyped, CopierShape
<1>15. OnePlace'
  <2>1. \A d \in Copiers : Busy(cop[d]) /\ cop[d].f = f0 => d = c
    BY <1>1, <1>3 DEF PullerInv, OnePlace
  <2>2. /\ \A d, e \in Copiers :
              Busy(cop'[d]) /\ Busy(cop'[e]) /\ cop'[d].f = cop'[e].f => d = e
        /\ main'.pc = "send" => \A d \in Copiers : Busy(cop'[d]) => cop'[d].f # main'.f
    BY <1>1, <1>11, <1>12 DEF PullerInv, OnePlace
  <2>3. ASSUME NEW d \in Copiers, Busy(cop'[d]), NEW x \in cop'[d].todo \union cop'[d].b
        PROVE  /\ ~(pul'.pc = "take" /\ pul'.f = cop'[d].f /\ pul'.b = x)
               /\ \A r \in reqs' : r.pc # "out" /\ r.f = cop'[d].f => r.b # x
    <3>1. Busy(cop[d]) /\ cop'[d].f = cop[d].f /\ x \in cop[d].todo \union cop[d].b
      BY <1>11, <1>12, <2>3
    <3>2. \A r \in reqs' : r.pc # "out" /\ r.f = cop'[d].f => r.b # x
      BY <1>1, <3>1 DEF PullerInv, OnePlace
    <3>3. cop[d].f = f0 => x # b
      BY <1>5, <1>6, <1>10, <2>1, <2>3, <3>1
    <3>4. QED
      BY <1>9, <3>1, <3>2, <3>3
  <2>4. \A r \in reqs' : r.pc # "out" => <<r.f, r.b>> # <<f0, b>>
    BY <1>1, <1>3, <1>4 DEF PullerInv, OnePlace
  <2>5. \A r, q \in reqs' : r.pc # "out" /\ q.pc # "out" /\ r.f = q.f /\ r.b = q.b => r = q
    BY <1>1 DEF PullerInv, OnePlace
  <2>6. QED
    BY <1>9, <2>2, <2>3, <2>4, <2>5 DEF OnePlace
<1>16. StagesEnd'
  BY <1>1, <1>9 DEF PullerInv, StagesEnd, Busy
<1>17. QueueFresh' /\ LiveFiles' /\ ClosedFiles' /\ Recorded' /\ DOMAIN st' = Files
  BY <1>1, <1>13, SameFiles
<1>18. ASSUME NEW f \in Files PROVE Good(f, st'[f], Copying(f)', Pulling(f)')
  <2>1. CopyingIn(main, cop', f) = CopyingIn(main, cop, f)
    BY <1>1, <1>6, <1>8, <1>3, <1>10 DEF CopyingIn
  <2>2. Good(f, st[f], Copying(f), Pulling(f))
    BY DEF PullerInv
  <2>3. Copying(f)' = Copying(f) /\ st'[f] = st[f]
    BY <1>1, <2>1 DEF Copying
  <2>4. CASE f # f0
    <3>1. PullingIn(cop', pul', reqs', f) = PullingIn(cop, pul, reqs, f)
      BY <1>1, <1>3, <1>6, <1>9, <1>10, <2>4 DEF PullingIn, SentIn
    <3>2. QED
      BY <2>2, <2>3, <3>1 DEF Pulling
  <2>5. CASE f = f0 /\ st[f0].err = "nil"
    <3>1. PullingIn(cop', pul', reqs', f) = PullingIn(cop, pul, reqs, f)
      <4>1. pul'.pc = "take" /\ cop[c].pc = "pull" /\ cop[c].f = f
        BY <1>1, <1>3, <1>9, <2>5
      <4>2. \A x : x \in PullingIn(cop', pul', reqs', f) <=> x \in PullingIn(cop, pul, reqs, f)
        BY <1>1, <1>5, <1>6, <1>9, <1>10, <2>5, <4>1 DEF PullingIn, SentIn
      <4>3. QED
        BY <4>2
    <3>2. QED
      BY <2>2, <2>3, <3>1 DEF Pulling
  <2>6. CASE f = f0 /\ st[f0].err # "nil"
    <3>1. PullingIn(cop', pul', reqs', f) \subseteq PullingIn(cop, pul, reqs, f)
      BY <1>1, <1>6, <1>9, <1>10, <2>6 DEF PullingIn, SentIn
    <3>2. Pulling(f)' \subseteq Pulling(f)
      BY <3>1 DEF Pulling
    <3>3. Good(f, st[f], Copying(f), Pulling(f)')
      BY <2>2, <2>6, <3>2, GoodLess
    <3>4. QED
      BY <2>3, <3>3
  <2>7. QED
    BY <2>4, <2>5, <2>6
<1>19. QED
  BY <1>14, <1>15, <1>16, <1>17, <1>18 DEF PullerInv

LEMMA PullerTakesKeeps ==
    ASSUME PullerInv, PullerTakes
    PROVE  PullerInv'
<1> DEFINE q == [pc |-> "open", f |-> pul.f, b |-> pul.b, cands |-> 0,
                 chunk |-> 0, lastError |-> FALSE]
<1>1. /\ pul.pc = "take" /\ pul' = Idle("recv") /\ reqs' = reqs \union {q}
      /\ UNCHANGED <<main, queued, st, cop, fin, db, errs, registry, stopped>>
  BY DEF PullerTakes
<1>2. Busy(pul) /\ pul.f \in Files /\ pul.b \in BlocksOf[pul.f] /\ pul.b \in Blocks
  <2>1. Busy(pul)
    BY <1>1 DEF Busy
  <2>2. QED
    BY <2>1, PullerFacts DEF Blocks
<1>3. /\ q \in PullRequests /\ q.f = pul.f /\ q.b = pul.b /\ q.pc = "open"
      /\ q.chunk < Chunks
  BY <1>2, PullerAssumption DEF PullRequests
<1> HIDE DEF q
<1>4. pul'.pc = "recv" /\ pul' \in [pc : {"recv", "gone"}] /\ ~Busy(pul')
  BY <1>1 DEF Idle, Busy
<1>5. \A f \in Files : Travels(f)' <=> Travels(f)
  BY <1>1, <1>2, <1>3, <1>4 DEF Travels
<1>6. RoutinesTyped'
  <2>1. reqs' \subseteq PullRequests
    BY <1>1, <1>3 DEF PullerInv, RoutinesTyped
  <2>2. \A r \in reqs' : r.b \in BlocksOf[r.f] /\ (r.pc # "out" => r.chunk < Chunks)
    BY <1>1, <1>2, <1>3 DEF PullerInv, RoutinesTyped
  <2>3. QED
    BY <1>1, <1>4, <2>1, <2>2 DEF PullerInv, RoutinesTyped
<1>7. OnePlace'
  <2>1. \A r \in reqs' : r = q \/ r \in reqs
    BY <1>1
  <2>2. \A r \in reqs : r.pc # "out" => ~(r.f = q.f /\ r.b = q.b)
    BY <1>1, <1>3 DEF PullerInv, OnePlace
  <2>3. \A c \in Copiers : Busy(cop[c]) => \A b \in cop[c].todo \union cop[c].b :
          \A r \in reqs' : r.pc # "out" /\ r.f = cop[c].f => r.b # b
    BY <1>1, <1>3, <2>1 DEF PullerInv, OnePlace
  <2>4. \A r, t \in reqs' : r.pc # "out" /\ t.pc # "out" /\ r.f = t.f /\ r.b = t.b => r = t
    BY <2>1, <2>2 DEF PullerInv, OnePlace
  <2>5. QED
    BY <1>1, <1>4, <2>3, <2>4 DEF PullerInv, OnePlace
<1>8. StagesEnd'
  BY <1>1, <1>4 DEF PullerInv, StagesEnd
<1>9. QueueFresh' /\ LiveFiles' /\ ClosedFiles' /\ Recorded' /\ DOMAIN st' = Files
  BY <1>1, <1>5, SameFiles
<1>10. ASSUME NEW f \in Files PROVE Good(f, st'[f], Copying(f)', Pulling(f)')
  <2>1. SentIn(pul', reqs', f) = SentIn(pul, reqs, f)
    BY <1>1, <1>3, <1>4 DEF SentIn
  <2>2. Copying(f)' = Copying(f) /\ Pulling(f)' = Pulling(f)
    BY <1>1, <2>1 DEF Copying, Pulling, PullingIn
  <2>3. QED
    BY <1>1, <2>2 DEF PullerInv
<1>11. QED
  BY <1>6, <1>7, <1>8, <1>9, <1>10 DEF PullerInv

LEMMA PullerStoppedKeeps ==
    ASSUME PullerInv, PullerStopped
    PROVE  PullerInv'
<1>1. /\ pul.pc = "take" /\ pul' = [pul EXCEPT !.pc = "out"]
      /\ st' = [st EXCEPT ![pul.f] = Fail(st[pul.f], "stopped")]
      /\ UNCHANGED <<main, queued, cop, reqs, fin, db, errs, registry, stopped>>
  BY DEF PullerStopped
<1>2. Busy(pul)
  BY <1>1 DEF Busy
<1>3. PICK f0 \in Files : f0 = pul.f
  BY <1>2, PullerFacts
<1>4. /\ pul' \in BusyPullers /\ pul'.f = f0 /\ pul'.b = pul.b /\ pul'.pc = "out"
  BY <1>1, <1>2, <1>3, PullerFacts DEF BusyPullers
<1>5. Busy(pul')
  BY <1>4, BusyRoutines
<1>6. /\ \A f \in Files : Travels(f)' <=> Travels(f)
      /\ Held(f0)
  BY <1>1, <1>2, <1>3, <1>4, <1>5 DEF Travels, Held
<1>7. RoutinesTyped'
  BY <1>1, <1>2, <1>3, <1>4, <1>5, PullerFacts DEF PullerInv, RoutinesTyped
<1>8. OnePlace'
  BY <1>1, <1>4 DEF PullerInv, OnePlace
<1>9. StagesEnd'
  BY <1>1, <1>4 DEF PullerInv, StagesEnd
<1>10. Good(f0, st[f0], Copying(f0), Pulling(f0)) /\ st[f0] \in FileStates(f0)
  BY DEF PullerInv, Good
<1>11. QueueFresh' /\ LiveFiles' /\ ClosedFiles' /\ Recorded' /\ DOMAIN st' = Files
  <2>1. Succeeds(st[f0], Fail(st[f0], "stopped"))
    BY <1>10, FailingSuccessors
  <2>2. QED
    BY <1>1, <1>3, <1>6, <2>1, StateChange
<1>12. ASSUME NEW f \in Files PROVE Good(f, st'[f], Copying(f)', Pulling(f)')
  <2>1. Copying(f)' = Copying(f)
    BY <1>1 DEF Copying
  <2>2. CASE f # f0
    <3>1. SentIn(pul', reqs', f) = SentIn(pul, reqs, f)
      BY <1>1, <1>3, <1>4, <2>2 DEF SentIn
    <3>2. Pulling(f)' = Pulling(f)
      BY <1>1, <3>1 DEF Pulling, PullingIn
    <3>3. st'[f] = st[f]
      BY <1>1, <1>3, <2>2 DEF PullerInv
    <3>4. QED
      BY <2>1, <3>2, <3>3 DEF PullerInv
  <2>3. CASE f = f0
    <3>1. SentIn(pul', reqs', f) \subseteq SentIn(pul, reqs, f)
      BY <1>1, <1>3, <1>4, <2>3 DEF SentIn
    <3>2. Pulling(f)' \subseteq Pulling(f)
      BY <1>1, <3>1 DEF Pulling, PullingIn
    <3>3. st'[f] = Fail(st[f], "stopped")
      BY <1>1, <1>3, <2>3 DEF PullerInv
    <3>4. Good(f, Fail(st[f], "stopped"), Copying(f), Pulling(f)')
      BY <1>10, <2>3, <3>2, GoodFail
    <3>5. QED
      BY <2>1, <3>3, <3>4
  <2>4. QED
    BY <2>2, <2>3
<1>13. QED
  BY <1>7, <1>8, <1>9, <1>11, <1>12 DEF PullerInv

\* A routine sees the end of its input, or the folder is stopped.
LEMMA EndsKeep ==
    ASSUME PullerInv,
           (\E c \in Copiers : CopierEnds(c)) \/ PullerEnds \/ FinisherEnds \/ Stop
    PROVE  PullerInv'
<1>1. CASE \E c \in Copiers : CopierEnds(c)
  <2>1. PICK c \in Copiers : CopierEnds(c)
    BY <1>1
  <2>2. /\ cop[c].pc = "recv" /\ cop' = [cop EXCEPT ![c] = Idle("gone")]
        /\ UNCHANGED <<main, queued, st, pul, reqs, fin, db, errs, registry, stopped>>
    BY <2>1 DEF CopierEnds
  <2>3. /\ \A d \in Copiers : d # c => cop'[d] = cop[d]
        /\ cop'[c].pc = "gone" /\ cop'[c] \in [pc : {"recv", "gone"}]
        /\ ~Busy(cop[c]) /\ ~Busy(cop'[c]) /\ cop[c].pc # "pull"
        /\ cop' \in [Copiers -> [pc : {"recv", "gone"}] \union BusyCopiers]
    BY <2>2 DEF PullerInv, RoutinesTyped, Idle, Busy
  <2>4. /\ RoutinesTyped' /\ OnePlace' /\ StagesEnd'
        /\ \A f \in Files : Travels(f)' <=> Travels(f)
    <3>1. RoutinesTyped'
      BY <2>2, <2>3 DEF PullerInv, RoutinesTyped
    <3>2. OnePlace'
      BY <2>2, <2>3 DEF PullerInv, OnePlace
    <3>3. StagesEnd'
      BY <2>2, <2>3 DEF PullerInv, StagesEnd
    <3>4. \A f \in Files : Travels(f)' <=> Travels(f)
      BY <2>2, <2>3 DEF Travels
    <3>5. QED
      BY <3>1, <3>2, <3>3, <3>4
  <2>5. QueueFresh' /\ LiveFiles' /\ ClosedFiles' /\ Recorded' /\ DOMAIN st' = Files
    BY <2>2, <2>4, SameFiles
  <2>6. \A f \in Files : Copying(f)' = Copying(f) /\ Pulling(f)' = Pulling(f)
    BY <2>2, <2>3 DEF Copying, CopyingIn, Pulling, PullingIn
  <2>7. QED
    BY <2>2, <2>4, <2>5, <2>6 DEF PullerInv
<1>2. CASE PullerEnds
  <2>1. /\ pul.pc = "recv" /\ reqs = {} /\ pul' = Idle("gone") /\ PullClosed
        /\ UNCHANGED <<main, queued, st, cop, reqs, fin, db, errs, registry, stopped>>
    BY <1>2 DEF PullerEnds
  <2>2. pul'.pc = "gone" /\ pul' \in [pc : {"recv", "gone"}] /\ ~Busy(pul) /\ ~Busy(pul')
    BY <2>1 DEF Idle, Busy
  <2>3. RoutinesTyped' /\ OnePlace'
    BY <2>1, <2>2 DEF PullerInv, RoutinesTyped, OnePlace
  <2>4. StagesEnd' /\ \A f \in Files : Travels(f)' <=> Travels(f)
    BY <2>1, <2>2 DEF PullerInv, StagesEnd, Travels
  <2>5. QueueFresh' /\ LiveFiles' /\ ClosedFiles' /\ Recorded' /\ DOMAIN st' = Files
    BY <2>1, <2>4, SameFiles
  <2>6. \A f \in Files : Copying(f)' = Copying(f) /\ Pulling(f)' = Pulling(f)
    BY <2>1, <2>2 DEF Copying, Pulling, PullingIn, SentIn
  <2>7. QED
    BY <2>1, <2>3, <2>4, <2>5, <2>6 DEF PullerInv
<1>3. CASE FinisherEnds
  <2>1. /\ fin.pc = "recv" /\ fin' = Idle("gone") /\ FinishClosed
        /\ UNCHANGED <<main, queued, st, cop, pul, reqs, db, errs, registry, stopped>>
    BY <1>3 DEF FinisherEnds
  <2>2. fin'.pc = "gone" /\ fin' \in [pc : {"recv", "gone"}]
    BY <2>1 DEF Idle
  <2>3. RoutinesTyped' /\ OnePlace'
    <3>1. RoutinesTyped'
      BY <2>1, <2>2 DEF PullerInv, RoutinesTyped
    <3>2. OnePlace'
      BY <2>1 DEF PullerInv, OnePlace
    <3>3. QED
      BY <3>1, <3>2
  <2>4. StagesEnd' /\ \A f \in Files : Travels(f)' <=> Travels(f)
    BY <2>1, <2>2 DEF PullerInv, StagesEnd, Travels, FinishClosed
  <2>5. QueueFresh' /\ LiveFiles' /\ ClosedFiles' /\ Recorded' /\ DOMAIN st' = Files
    BY <2>1, <2>2, <2>4, SameFiles
  <2>6. \A f \in Files : Copying(f)' = Copying(f) /\ Pulling(f)' = Pulling(f)
    BY <2>1 DEF Copying, Pulling
  <2>7. QED
    BY <2>1, <2>3, <2>4, <2>5, <2>6 DEF PullerInv
<1>4. CASE Stop
  <2>1. UNCHANGED <<main, queued, st, cop, pul, reqs, fin, db, errs, registry>> /\ stopped' = TRUE
    BY <1>4 DEF Stop
  <2>2. RoutinesTyped' /\ OnePlace' /\ StagesEnd'
    <3>1. RoutinesTyped'
      BY <2>1 DEF PullerInv, RoutinesTyped
    <3>2. OnePlace' /\ StagesEnd'
      BY <2>1 DEF PullerInv, OnePlace, StagesEnd
    <3>3. QED
      BY <3>1, <3>2
  <2>3. \A f \in Files : Travels(f)' <=> Travels(f)
    BY <2>1 DEF Travels
  <2>4. QueueFresh' /\ LiveFiles' /\ ClosedFiles' /\ Recorded' /\ DOMAIN st' = Files
    BY <2>1, <2>3, SameFiles
  <2>5. \A f \in Files : Copying(f)' = Copying(f) /\ Pulling(f)' = Pulling(f)
    BY <2>1 DEF Copying, Pulling
  <2>6. QED
    BY <2>1, <2>2, <2>4, <2>5 DEF PullerInv
<1>5. QED
  BY <1>1, <1>2, <1>3, <1>4

-----------------------------------------------------------------------------
(* The finisher.                                                           *)

\* Somebody hands the file f0 to the finisher.
LEMMA HandOver ==
    ASSUME PullerInv, NEW f0 \in Files, SendToFinisher(f0), Travels(f0),
           \A f \in Files : f # f0 => (Travels(f)' <=> Travels(f)),
           RoutinesTyped', OnePlace', StagesEnd',
           \A f \in Files : Copying(f)' = Copying(f) /\ Pulling(f)' = Pulling(f)
    PROVE  PullerInv'
<1>1. /\ fin.pc = "recv" /\ fin' = [pc |-> "close", f |-> f0]
      /\ UNCHANGED <<main, queued, st, db, errs, registry>>
  BY DEF SendToFinisher
<1>2. fin'.pc = "close" /\ fin'.f = f0
  BY <1>1
<1>3. \A f \in Files : Travels(f)' <=> Travels(f)
  BY <1>2 DEF Travels
<1>4. QueueFresh' /\ LiveFiles' /\ ClosedFiles' /\ Recorded' /\ DOMAIN st' = Files
  BY <1>1, <1>2, <1>3, SameFiles
<1>5. QED
  BY <1>1, <1>4 DEF PullerInv

LEMMA CopierSendsOutKeeps ==
    ASSUME PullerInv, NEW c \in Copiers, CopierSendsOut(c)
    PROVE  PullerInv'
<1>1. /\ cop[c].pc = "out" /\ SendToFinisher(cop[c].f)
      /\ cop' = [cop EXCEPT ![c] = Idle("recv")]
      /\ UNCHANGED <<main, queued, st, pul, reqs, db, errs, registry, stopped>>
  BY DEF CopierSendsOut, SendToFinisher
<1>2. Busy(cop[c])
  BY <1>1 DEF Busy
<1>3. PICK f0 \in Files : f0 = cop[c].f
  BY <1>2, CopierFacts
<1>4. cop[c].todo = {} /\ cop[c].b = {}
  BY <1>1, <1>2, CopierFacts DEF CopierShape
<1>5. fin.pc = "recv" /\ fin' \in [pc : {"close", "finish"}, f : Files] /\ fin'.pc = "close"
  BY <1>1, <1>3 DEF SendToFinisher
<1>6. /\ \A d \in Copiers : d # c => cop'[d] = cop[d]
      /\ cop'[c].pc = "recv" /\ cop'[c] \in [pc : {"recv", "gone"}] /\ ~Busy(cop'[c])
      /\ cop' \in [Copiers -> [pc : {"recv", "gone"}] \union BusyCopiers]
  BY <1>1 DEF PullerInv, RoutinesTyped, Idle, Busy
<1>7. /\ Travels(f0)
      /\ \A f \in Files : f # f0 => (Travels(f)' <=> Travels(f))
  <2>1. Travels(f0)
    BY <1>2, <1>3 DEF Travels
  <2>2. fin'.f = f0
    BY <1>1, <1>3 DEF SendToFinisher
  <2>3. \A f \in Files : f # f0 => (Travels(f)' <=> Travels(f))
    BY <1>1, <1>3, <1>5, <1>6, <2>2 DEF Travels
  <2>4. QED
    BY <2>1, <2>3
<1>8. RoutinesTyped'
  BY <1>1, <1>5, <1>6 DEF PullerInv, RoutinesTyped
<1>9. OnePlace'
  BY <1>1, <1>6 DEF PullerInv, OnePlace
<1>10. StagesEnd'
  BY <1>1, <1>5, <1>6 DEF PullerInv, StagesEnd
<1>11. ASSUME NEW f \in Files
       PROVE  Copying(f)' = Copying(f) /\ Pulling(f)' = Pulling(f)
  <2>1. CopyingIn(main, cop', f) = CopyingIn(main, cop, f)
    BY <1>1, <1>4, <1>6 DEF CopyingIn
  <2>2. PullingIn(cop', pul, reqs, f) = PullingIn(cop, pul, reqs, f)
    BY <1>1, <1>4, <1>6 DEF PullingIn
  <2>3. QED
    BY <1>1, <2>1, <2>2 DEF Copying, Pulling
<1>12. QED
  BY <1>1, <1>3, <1>7, <1>8, <1>9, <1>10, <1>11, HandOver

LEMMA PullerSendsOutKeeps ==
    ASSUME PullerInv, PullerSendsOut
    PROVE  PullerInv'
<1>1. /\ pul.pc = "out" /\ SendToFinisher(pul.f) /\ pul' = Idle("recv")
      /\ UNCHANGED <<main, queued, st, cop, reqs, db, errs, registry, stopped>>
  BY DEF PullerSendsOut, SendToFinisher
<1>2. Busy(pul)
  BY <1>1 DEF Busy
<1>3. PICK f0 \in Files : f0 = pul.f
  BY <1>2, PullerFacts
<1>4. fin.pc = "recv" /\ fin' \in [pc : {"close", "finish"}, f : Files] /\ fin'.pc = "close"
  BY <1>1, <1>3 DEF SendToFinisher
<1>5. pul'.pc = "recv" /\ pul' \in [pc : {"recv", "gone"}] /\ ~Busy(pul')
  BY <1>1 DEF Idle, Busy
<1>6. /\ Travels(f0)
      /\ \A f \in Files : f # f0 => (Travels(f)' <=> Travels(f))
  <2>1. Travels(f0)
    BY <1>2, <1>3 DEF Travels
  <2>2. fin'.f = f0
    BY <1>1, <1>3 DEF SendToFinisher
  <2>3. \A f \in Files : f # f0 => (Travels(f)' <=> Travels(f))
    BY <1>1, <1>3, <1>4, <1>5, <2>2 DEF Travels
  <2>4. QED
    BY <2>1, <2>3
<1>7. RoutinesTyped'
  BY <1>1, <1>4, <1>5 DEF PullerInv, RoutinesTyped
<1>8. OnePlace'
  BY <1>1, <1>5 DEF PullerInv, OnePlace
<1>9. StagesEnd'
  BY <1>1, <1>4, <1>5 DEF PullerInv, StagesEnd
<1>10. ASSUME NEW f \in Files
       PROVE  Copying(f)' = Copying(f) /\ Pulling(f)' = Pulling(f)
  <2>1. PullingIn(cop, pul', reqs, f) = PullingIn(cop, pul, reqs, f)
    BY <1>1, <1>5 DEF PullingIn, SentIn
  <2>2. QED
    BY <1>1, <2>1 DEF Copying, Pulling
<1>11. QED
  BY <1>1, <1>3, <1>6, <1>7, <1>8, <1>9, <1>10, HandOver

LEMMA RequestSendsOutKeeps ==
    ASSUME PullerInv, NEW r \in reqs, RequestSendsOut(r)
    PROVE  PullerInv'
<1>1. /\ r.pc = "out" /\ SendToFinisher(r.f) /\ reqs' = reqs \ {r}
      /\ UNCHANGED <<main, queued, st, cop, pul, db, errs, registry, stopped>>
  BY DEF RequestSendsOut, SendToFinisher
<1>2. PICK f0 \in Files : f0 = r.f
  BY RequestFacts
<1>3. fin.pc = "recv" /\ fin' \in [pc : {"close", "finish"}, f : Files] /\ fin'.pc = "close"
  BY <1>1, <1>2 DEF SendToFinisher
<1>4. /\ Travels(f0)
      /\ \A f \in Files : f # f0 => (Travels(f)' <=> Travels(f))
  <2>1. Travels(f0)
    BY <1>2 DEF Travels
  <2>2. fin'.f = f0
    BY <1>1, <1>2 DEF SendToFinisher
  <2>3. \A f \in Files : f # f0 => (Travels(f)' <=> Travels(f))
    BY <1>1, <1>2, <1>3, <2>2 DEF Travels
  <2>4. QED
    BY <2>1, <2>3
<1>5. RoutinesTyped'
  BY <1>1, <1>3 DEF PullerInv, RoutinesTyped
<1>6. OnePlace'
  BY <1>1 DEF PullerInv, OnePlace
<1>7. StagesEnd'
  BY <1>1, <1>3 DEF PullerInv, StagesEnd
<1>8. ASSUME NEW f \in Files
      PROVE  Copying(f)' = Copying(f) /\ Pulling(f)' = Pulling(f)
  <2>1. PullingIn(cop, pul, reqs', f) = PullingIn(cop, pul, reqs, f)
    BY <1>1 DEF PullingIn, SentIn
  <2>2. QED
    BY <1>1, <2>1 DEF Copying, Pulling
<1>9. QED
  BY <1>1, <1>2, <1>4, <1>5, <1>6, <1>7, <1>8, HandOver

\* Only the finisher has done something, and nothing about blocks.
LEMMA FinisherMoves ==
    ASSUME PullerInv,
           fin' \in [pc : {"recv", "gone"}] \union [pc : {"close", "finish"}, f : Files],
           fin'.pc # "gone", fin.pc # "gone",
           UNCHANGED <<main, cop, pul, reqs, stopped>>
    PROVE  /\ RoutinesTyped' /\ OnePlace' /\ StagesEnd'
           /\ \A f \in Files : Copying(f)' = Copying(f) /\ Pulling(f)' = Pulling(f)
<1>1. RoutinesTyped'
  BY DEF PullerInv, RoutinesTyped
<1>2. OnePlace'
  BY DEF PullerInv, OnePlace
<1>3. StagesEnd'
  BY DEF PullerInv, StagesEnd
<1>4. QED
  BY <1>1, <1>2, <1>3 DEF Copying, Pulling

LEMMA NotClosedKeeps ==
    ASSUME PullerInv, NotClosed
    PROVE  PullerInv'
<1>1. /\ fin.pc = "close" /\ fin' = Idle("recv")
      /\ ~ReadyToClose(st[fin.f]) \/ ~st[fin.f].writer
      /\ UNCHANGED <<main, queued, st, cop, pul, reqs, db, errs, registry, stopped>>
  BY DEF NotClosed
<1>2. PICK f0 \in Files : f0 = fin.f
  BY <1>1 DEF PullerInv, RoutinesTyped
<1>3. fin'.pc = "recv" /\ fin' \in [pc : {"recv", "gone"}]
  BY <1>1 DEF Idle
<1>4. /\ RoutinesTyped' /\ OnePlace' /\ StagesEnd'
      /\ \A f \in Files : Copying(f)' = Copying(f) /\ Pulling(f)' = Pulling(f)
  BY <1>1, <1>3, FinisherMoves
<1>5. \A f \in Files : Travels(f)' => Travels(f)
  BY <1>1, <1>3 DEF Travels
<1>6. \A f \in Files : f # f0 => (Travels(f)' <=> Travels(f))
  BY <1>1, <1>2, <1>3 DEF Travels
<1>7. ASSUME ~st[f0].closed, st[f0].writer
      PROVE  \A f \in Files : f = f0 => Held(f)'
  <2>1. st[f0].err = "nil" /\ st[f0].copyNeeded + st[f0].pullNeeded # 0
    <3>1. st[f0] \in FileStates(f0)
      BY DEF PullerInv, Good
    <3>2. QED
      BY <1>1, <1>2, <1>7, <3>1 DEF ReadyToClose, FileStates
  <2>2. Copying(f0) \union Pulling(f0) # {}
    BY <2>1, GoodPending DEF PullerInv
  <2>3. CASE Copying(f0) # {}
    BY <1>1, <2>3 DEF Copying, CopyingIn, Held, Travels
  <2>4. CASE Pulling(f0) # {}
    BY <1>1, <2>4 DEF Pulling, PullingIn, SentIn, Held, Travels, Busy
  <2>5. QED
    BY <2>2, <2>3, <2>4
<1>8. QueueFresh'
  <2>1. main.pc = "send" => main.f \in Files
    BY DEF PullerInv, RoutinesTyped
  <2>2. QED
    BY <1>1, <1>5, <2>1 DEF PullerInv, QueueFresh
<1>9. LiveFiles'
  <2>1. \A f \in Files : Held(f)' => Held(f)
    BY <1>1, <1>5 DEF Held
  <2>2. \A f \in Files : f # f0 => (Held(f)' <=> Held(f))
    BY <1>1, <1>6 DEF Held
  <2>3. QED
    BY <1>1, <1>3, <1>7, <2>1, <2>2 DEF PullerInv, LiveFiles
<1>10. ClosedFiles'
  BY <1>1, <1>3 DEF PullerInv, ClosedFiles
<1>11. Recorded'
  BY <1>1, <1>3 DEF PullerInv, Recorded
<1>12. QED
  BY <1>1, <1>4, <1>8, <1>9, <1>10, <1>11 DEF PullerInv

LEMMA FinalCloseKeeps ==
    ASSUME PullerInv, NEW e \in {"nil", "failed"}, FinalClose(e)
    PROVE  PullerInv'
<1> DEFINE u == [Fail(st[fin.f], e) EXCEPT !.closed = TRUE, !.writer = FALSE]
<1>1. /\ fin.pc = "close" /\ fin' = [fin EXCEPT !.pc = "finish"]
      /\ ReadyToClose(st[fin.f]) /\ st' = [st EXCEPT ![fin.f] = u]
      /\ UNCHANGED <<main, queued, cop, pul, reqs, db, errs, registry, stopped>>
  BY DEF FinalClose
<1>2. PICK f0 \in Files : f0 = fin.f
  BY <1>1 DEF PullerInv, RoutinesTyped
<1>3. fin'.pc = "finish" /\ fin'.f = f0 /\ fin' \in [pc : {"close", "finish"}, f : Files]
  <2>1. fin \in [pc : {"close", "finish"}, f : Files]
    BY <1>1 DEF PullerInv, RoutinesTyped
  <2>2. QED
    BY <1>1, <1>2, <2>1
<1>4. /\ RoutinesTyped' /\ OnePlace' /\ StagesEnd'
      /\ \A f \in Files : Copying(f)' = Copying(f) /\ Pulling(f)' = Pulling(f)
  BY <1>1, <1>3, FinisherMoves
<1>5. st[f0].live /\ ~st[f0].closed /\ db[f0] = 0 /\ f0 \notin errs
  <2>1. Travels(f0)
    BY <1>1, <1>2 DEF Travels
  <2>2. ~st[f0].closed
    BY <1>1, <1>2 DEF ReadyToClose
  <2>3. QED
    BY <2>1, <2>2 DEF PullerInv, LiveFiles, Held
<1>6. Good(f0, u, Copying(f0), Pulling(f0))
  BY <1>1, <1>2, GoodClose DEF PullerInv
<1>7. u.live /\ u.closed /\ ~u.writer
  <2>1. Fail(st[f0], e) \in FileStates(f0) /\ Fail(st[f0], e).live = st[f0].live
    BY FailFields DEF PullerInv, Good, Errors
  <2>2. QED
    BY <1>2, <1>5, <2>1 DEF FileStates
<1> HIDE DEF u
<1>8. st'[f0] = u /\ (\A f \in Files : f # f0 => st'[f] = st[f]) /\ DOMAIN st' = Files
  BY <1>1, <1>2 DEF PullerInv
<1>9. /\ \A f \in Files : f # f0 => (Travels(f)' <=> Travels(f))
      /\ Travels(f0)
  BY <1>1, <1>2, <1>3 DEF Travels
<1>10. QueueFresh'
  <2>1. main.pc = "send" => main.f \in Files /\ main.f # f0
    BY <1>9 DEF PullerInv, RoutinesTyped, QueueFresh
  <2>2. main.pc = "file" => main.f \in Files /\ main.f # f0
    BY <1>5 DEF PullerInv, RoutinesTyped, QueueFresh
  <2>3. \A i \in DOMAIN queued : queued[i] \in Files /\ queued[i] # f0
    BY <1>5 DEF PullerInv, QueueFresh
  <2>4. QED
    BY <1>1, <1>8, <1>9, <2>1, <2>2, <2>3 DEF PullerInv, QueueFresh
<1>11. LiveFiles'
  <2>1. \A f \in Files : f # f0 => (Held(f)' <=> Held(f))
    BY <1>1, <1>9 DEF Held
  <2>2. QED
    BY <1>1, <1>3, <1>7, <1>8, <2>1 DEF PullerInv, LiveFiles
<1>12. ClosedFiles'
  BY <1>1, <1>3, <1>5, <1>8 DEF PullerInv, ClosedFiles
<1>13. Recorded'
  BY <1>1, <1>3, <1>5, <1>7, <1>8 DEF PullerInv, Recorded
<1>14. \A f \in Files : Good(f, st'[f], Copying(f)', Pulling(f)')
  <2>1. ASSUME NEW f \in Files PROVE Good(f, st'[f], Copying(f), Pulling(f))
    BY <1>6, <1>8 DEF PullerInv
  <2>2. QED
    BY <1>4, <2>1
<1>15. QED
  BY <1>4, <1>8, <1>10, <1>11, <1>12, <1>13, <1>14 DEF PullerInv

\* The finisher records its file or reports it.
LEMMA FinishesKeep ==
    ASSUME PullerInv, Finish \/ FinishFails
    PROVE  PullerInv'
<1>1. /\ fin.pc = "finish" /\ fin' = Idle("recv") /\ registry' = registry \ {fin.f}
      /\ UNCHANGED <<main, queued, st, cop, pul, reqs, stopped>>
      /\ \/ /\ st[fin.f].err = "nil" /\ db' = [db EXCEPT ![fin.f] = @ + 1]
            /\ errs' = errs
         \/ /\ errs' = IF st[fin.f].err = "stopped" THEN errs ELSE errs \union {fin.f}
            /\ db' = db
  BY DEF Finish, FinishFails
<1>2. PICK f0 \in Files : f0 = fin.f
  BY <1>1 DEF PullerInv, RoutinesTyped
<1>3. fin'.pc = "recv" /\ fin' \in [pc : {"recv", "gone"}]
  BY <1>1 DEF Idle
<1>4. /\ RoutinesTyped' /\ OnePlace' /\ StagesEnd'
      /\ \A f \in Files : Copying(f)' = Copying(f) /\ Pulling(f)' = Pulling(f)
  BY <1>1, <1>3, FinisherMoves
<1>5. st[f0].closed /\ st[f0].live /\ db[f0] = 0 /\ f0 \notin errs
  BY <1>1, <1>2 DEF PullerInv, Recorded, LiveFiles, ClosedFiles
<1>6. db \in [Files -> {0, 1}] /\ errs \subseteq Files
  BY DEF PullerInv, Recorded
<1>7. /\ db' \in [Files -> {0, 1}] /\ errs' \subseteq Files
      /\ \A f \in Files : f # f0 =>
            db'[f] = db[f] /\ (f \in errs' <=> f \in errs)
                           /\ (f \in registry' <=> f \in registry)
      /\ f0 \notin registry'
      /\ st[f0].err = "stopped" \/ (db'[f0] = 1 <=> f0 \notin errs')
      /\ db'[f0] = 1 => st[f0].err = "nil"
  BY <1>1, <1>2, <1>5, <1>6
<1>8. \A f \in Files : Travels(f)' <=> Travels(f)
  BY <1>1, <1>3 DEF Travels
<1>9. \A f \in Files : Held(f)' <=> Held(f)
  BY <1>1, <1>8 DEF Held
<1>10. QueueFresh'
  <2>1. main.pc = "send" => main.f \in Files
    BY DEF PullerInv, RoutinesTyped
  <2>2. main.pc = "file" => main.f \in Files /\ main.f # f0
    BY <1>5 DEF PullerInv, RoutinesTyped, QueueFresh
  <2>3. \A i \in DOMAIN queued : queued[i] \in Files /\ queued[i] # f0
    BY <1>5 DEF PullerInv, QueueFresh
  <2>4. QED
    BY <1>1, <1>7, <1>8, <2>1, <2>2, <2>3 DEF PullerInv, QueueFresh
<1>11. LiveFiles'
  BY <1>1, <1>3, <1>5, <1>7, <1>9 DEF PullerInv, LiveFiles
<1>12. ClosedFiles'
  BY <1>1, <1>2, <1>3, <1>7 DEF PullerInv, ClosedFiles
<1>13. Recorded'
  <2>1. st[f0].err = "nil" => BlocksOf[f0] \subseteq st[f0].got
    <3>1. Good(f0, st[f0], Copying(f0), Pulling(f0))
      BY DEF PullerInv
    <3>2. st[f0].err = "nil" => st[f0].copyNeeded + st[f0].pullNeeded = 0
      BY <1>5, <3>1 DEF Good
    <3>3. QED
      BY <1>5, <3>1, <3>2, GoodDone
  <2>2. QED
    BY <1>1, <1>3, <1>7, <2>1 DEF PullerInv, Recorded
<1>14. QED
  BY <1>1, <1>4, <1>10, <1>11, <1>12, <1>13 DEF PullerInv

-----------------------------------------------------------------------------
(* The invariant, and what it is for.                                      *)

LEMMA PullerStarts ==
    ASSUME Init
    PROVE  PullerInv
<1>1. /\ main = Idle("loop") /\ pul = Idle("recv") /\ fin = Idle("recv")
      /\ reqs = {} /\ errs = {} /\ registry = {} /\ stopped = FALSE
      /\ st = [f \in Files |-> NoFile] /\ db = [f \in Files |-> 0]
      /\ cop = [c \in Copiers |-> Idle("recv")]
  BY DEF Init
<1>2. /\ main.pc = "loop" /\ main \in [pc : {"loop", "closePull", "closeFinish", "doneWait", "returned"}]
      /\ pul.pc = "recv" /\ pul \in [pc : {"recv", "gone"}] /\ ~Busy(pul)
      /\ fin.pc = "recv" /\ fin \in [pc : {"recv", "gone"}]
      /\ cop \in [Copiers -> [pc : {"recv", "gone"}] \union BusyCopiers]
      /\ \A c \in Copiers : cop[c].pc = "recv" /\ ~Busy(cop[c])
  BY <1>1 DEF Idle, Busy
<1>3. /\ DOMAIN st = Files
      /\ \A f \in Files : /\ st[f] = NoFile /\ ~st[f].live /\ ~st[f].closed
  BY <1>1 DEF NoFile
<1>4. RoutinesTyped
  BY <1>1, <1>2 DEF RoutinesTyped
<1>5. OnePlace /\ StagesEnd
  BY <1>1, <1>2 DEF OnePlace, StagesEnd
<1>6. QueueFresh
  <2>1. Cardinality(Files) \in Nat
    BY PullerAssumption, FS_CardinalityType
  <2>2. /\ queued \in [1..Cardinality(Files) -> Files]
        /\ \A i, j \in DOMAIN queued : queued[i] = queued[j] => i = j
    BY DEF Init
  <2>3. queued \in Seq(Files)
    BY <2>1, <2>2
  <2>4. QED
    BY <1>1, <1>2, <1>3, <2>2, <2>3 DEF QueueFresh
<1>7. LiveFiles
  BY <1>1, <1>2, <1>3 DEF LiveFiles, Held, Travels
<1>8. ClosedFiles
  BY <1>3 DEF ClosedFiles
<1>9. Recorded
  BY <1>1, <1>2, <1>3 DEF Recorded
<1>10. ASSUME NEW f \in Files PROVE Good(f, st[f], Copying(f), Pulling(f))
  <2>1. Copying(f) = {} /\ Pulling(f) = {}
    BY <1>1, <1>2 DEF Copying, CopyingIn, Pulling, PullingIn, SentIn
  <2>2. Cardinality({}) = 0
    BY FS_EmptySet
  <2>3. /\ NoFile \in FileStates(f) /\ NoFile.copyNeeded = 0
        /\ NoFile.pullNeeded = 0 /\ ~NoFile.live /\ ~NoFile.closed
    BY DEF NoFile, FileStates, Errors
  <2>4. Good(f, NoFile, {}, {})
    BY <2>2, <2>3 DEF Good
  <2>5. QED
    BY <1>3, <2>1, <2>4
<1>11. QED
  BY <1>3, <1>4, <1>5, <1>6, <1>7, <1>8, <1>9, <1>10 DEF PullerInv

LEMMA MainKeeps ==
    ASSUME PullerInv, MainNext
    PROVE  PullerInv'
<1>1. CASE Pop
  BY <1>1, PopKeeps
<1>2. CASE Unavailable
  BY <1>2, FileDoneWith DEF Unavailable
<1>3. CASE HandleFileFails
  BY <1>3, FileDoneWith DEF HandleFileFails
<1>4. CASE LookupFails
  BY <1>4, FileDoneWith DEF LookupFails
<1>5. ASSUME NEW renamed \in BOOLEAN, Dispatched(renamed) PROVE PullerInv'
  BY <1>5, FileDoneWith DEF Dispatched
<1>6. ASSUME NEW todo, HandleFile(todo) PROVE PullerInv'
  BY <1>6, HandleFileKeeps
<1>7. ASSUME NEW c \in Copiers, SendToCopier(c) PROVE PullerInv'
  BY <1>7, SendToCopierKeeps
<1>8. CASE CloseCopy \/ ClosePull \/ CloseFinish
  BY <1>8, CloseKeeps
<1>9. QED
  BY <1>1, <1>2, <1>3, <1>4, <1>5, <1>6, <1>7, <1>8 DEF MainNext

LEMMA PullerKeeps ==
    ASSUME PullerInv, [Next]_vars
    PROVE  PullerInv'
<1>1. CASE MainNext
  BY <1>1, MainKeeps
<1>2. CASE PullerNext
  BY <1>2, PullerTakesKeeps, PullerStoppedKeeps, PullerSendsOutKeeps, EndsKeep
     DEF PullerNext
<1>3. CASE FinisherNext
  BY <1>3, NotClosedKeeps, FinalCloseKeeps, FinishesKeep, EndsKeep DEF FinisherNext
<1>4. ASSUME NEW c \in Copiers, CopierNext(c) PROVE PullerInv'
  BY <1>4, CopyBlockKeeps, CopyWriteKeeps, SendToPullerKeeps, CopierEndsFileKeeps,
     CopierSendsOutKeeps, EndsKeep DEF CopierNext
<1>5. ASSUME NEW r \in reqs, RequestNext(r) PROVE PullerInv'
  BY <1>5, RequestOpensKeeps, RequestEndsKeep, RequestFailsKeeps,
     RequestArrivesKeeps, RequestSendsOutKeeps DEF RequestNext
<1>6. CASE Stop
  BY <1>6, EndsKeep
<1>7. ASSUME NEW f \in Files, BringToFront(f) PROVE PullerInv'
  BY <1>7, BringToFrontKeeps
<1>8. CASE UNCHANGED vars
  <2>1. UNCHANGED <<main, queued, st, cop, pul, reqs, fin, db, errs, registry, stopped>>
    BY <1>8 DEF vars
  <2>2. QueueFresh'
    BY <2>1 DEF PullerInv, QueueFresh, Travels
  <2>3. QED
    BY <2>1, <2>2, QueueMoves
<1>9. QED
  BY <1>1, <1>2, <1>3, <1>4, <1>5, <1>6, <1>7, <1>8 DEF Next, Work

LEMMA PullerAlways == Spec => []PullerInv
  BY PullerStarts, PullerKeeps, PTL DEF Spec

(***************************************************************************)
(* A file is recorded at most once in an iteration, and one that went      *)
(* through the pipeline only with every block of it in the temporary file: *)
(* finalClose does not close a file without an error while copyNeeded or   *)
(* pullNeeded is above zero, and together they count every block that is   *)
(* not there.                                                              *)
(***************************************************************************)
THEOREM RecordedIsComplete == Spec => []RecordedComplete
<1>1. PullerInv => RecordedComplete
  <2>1. SUFFICES ASSUME PullerInv, NEW f \in Files
                 PROVE  /\ db[f] <= 1
                        /\ st[f].live /\ db[f] = 1 => st[f].got = BlocksOf[f]
    BY DEF RecordedComplete
  <2>2. db[f] \in {0, 1}
    BY <2>1 DEF PullerInv, Recorded
  <2>3. st[f].got \subseteq BlocksOf[f]
    BY <2>1 DEF PullerInv, Good, FileStates
  <2>4. st[f].live /\ db[f] = 1 => BlocksOf[f] \subseteq st[f].got
    BY <2>1 DEF PullerInv, Recorded
  <2>5. db[f] <= 1
    BY <2>2
  <2>6. st[f].live /\ db[f] = 1 => st[f].got = BlocksOf[f]
    BY <2>3, <2>4
  <2>7. QED
    BY <2>5, <2>6
<1>2. QED
  BY <1>1, PullerAlways, PTL

(***************************************************************************)
(* After a file has been closed without an error no copier, request or     *)
(* waiting pullBlock has a block of it: nobody writes to a temporary file  *)
(* that performFinish renames.                                             *)
(***************************************************************************)
THEOREM ClosedIsQuiet == Spec => []NobodyWrites
<1>1. PullerInv => NobodyWrites
  <2>1. SUFFICES ASSUME PullerInv, NEW f \in Files, st[f].closed, st[f].err = "nil"
                 PROVE  /\ \A c \in Copiers : Busy(cop[c]) /\ cop[c].f = f =>
                              cop[c].pc \notin {"write", "pull"} /\ cop[c].todo = {}
                        /\ \A r \in reqs : r.f = f => r.pc = "out"
                        /\ ~(pul.pc = "take" /\ pul.f = f)
    BY DEF NobodyWrites
  <2>2. Copying(f) = {} /\ Pulling(f) = {}
    <3>1. Good(f, st[f], Copying(f), Pulling(f))
      BY <2>1 DEF PullerInv
    <3>2. st[f].copyNeeded + st[f].pullNeeded = 0
      BY <2>1, <3>1 DEF Good
    <3>3. QED
      BY <2>1, <3>1, <3>2, GoodDone
  <2>3. ASSUME NEW c \in Copiers, Busy(cop[c]), cop[c].f = f
        PROVE  cop[c].pc \notin {"write", "pull"} /\ cop[c].todo = {}
    BY <2>1, <2>2, <2>3, CopierFacts DEF CopierShape
  <2>4. ASSUME NEW r \in reqs, r.f = f PROVE r.pc = "out"
    BY <2>1, <2>2, <2>4, RequestFacts
  <2>5. ~(pul.pc = "take" /\ pul.f = f)
    <3>1. SUFFICES ASSUME pul.pc = "take", pul.f = f PROVE FALSE
      OBVIOUS
    <3>2. pul.b \in BlocksOf[f]
      BY <2>1, <3>1, PullerFacts DEF Busy
    <3>3. pul.b \in Pulling(f)
      BY <3>1, <3>2 DEF Pulling, PullingIn, SentIn
    <3>4. QED
      BY <2>2, <3>3
  <2>6. QED
    BY <2>3, <2>4, <2>5
<1>2. QED
  BY <1>1, PullerAlways, PTL

(***************************************************************************)
(* When the finisher has ended nothing that was handed over is left        *)
(* hanging: every file has been closed and then recorded or reported, and  *)
(* the progress emitter has forgotten it, or its temporary file could      *)
(* never be opened.  The stages end in order, so nobody holds a file.      *)
(***************************************************************************)
THEOREM EverythingIsSettled == Spec => []AllSettled
<1>1. PullerInv => AllSettled
  <2>1. SUFFICES ASSUME PullerInv, fin.pc = "gone", NEW f \in Files, st[f].live
                 PROVE  IF st[f].closed
                        THEN /\ f \notin registry
                             /\ st[f].err = "stopped" \/ (db[f] = 1 <=> f \notin errs)
                        ELSE ~st[f].writer
    BY DEF AllSettled
  <2>2. /\ main.pc \in {"doneWait", "returned"} /\ pul.pc = "gone" /\ reqs = {}
        /\ \A c \in Copiers : cop[c].pc = "gone"
    BY <2>1 DEF PullerInv, StagesEnd
  <2>3. ~Held(f)
    BY <2>1, <2>2 DEF Held, Travels, Busy
  <2>4. CASE st[f].closed
    BY <2>1, <2>4 DEF PullerInv, ClosedFiles
  <2>5. CASE ~st[f].closed
    BY <2>1, <2>3, <2>5 DEF PullerInv, LiveFiles
  <2>6. QED
    BY <2>4, <2>5
<1>2. QED
  BY <1>1, PullerAlways, PTL
=============================================================================
