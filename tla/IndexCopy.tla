------------------------------ MODULE IndexCopy ------------------------------
(***************************************************************************)
(* What the delta index exchange promises, without its messages, handlers  *)
(* and connections: a source with numbered rows under an index ID, and a   *)
(* copy of it that says up to which number it is complete.  The copy       *)
(* learns the source's rows in order of their numbers and never gives up   *)
(* a row below the number it has announced for the current index ID; a     *)
(* copy filed under an older index ID promises nothing.                    *)
(***************************************************************************)
EXTENDS Integers

CONSTANTS Names,   \* file names
          Hidden   \* files of the source that are never told

VARIABLES srcID, srcTop, src,    \* the source: index ID, last number, rows
          copyID, known, copy    \* the copy: whose index, up to where, rows

copyVars == <<srcID, srcTop, src, copyID, known, copy>>
NoneKnown == [n \in Names |-> 0]

\* The source numbers a change.
Change(n) ==
    /\ srcTop' \in Nat /\ srcTop' > srcTop
    /\ src' = [src EXCEPT ![n] = srcTop']
    /\ UNCHANGED <<srcID, copyID, known, copy>>

\* The source takes a row back without a number for it.
Retract(n) ==
    /\ src' = [src EXCEPT ![n] = 0]
    /\ UNCHANGED <<srcID, srcTop, copyID, known, copy>>

\* The source starts a new index, with the rows it has or from nothing.
Restart ==
    /\ srcID' = srcID + 1
    /\ src' \in {src, NoneKnown}
    /\ srcTop' \in Nat /\ \A n \in Names : src'[n] <= srcTop'
    /\ UNCHANGED <<copyID, known, copy>>

\* The copy is filed under the source's index ID, empty.
Adopt ==
    /\ copyID # srcID
    /\ copyID' = srcID /\ known' = 0 /\ copy' = NoneKnown
    /\ UNCHANGED <<srcID, srcTop, src>>

\* The copy extends what it knows: it announces a later number, for which it
\* has every row the source still has; what is new comes from that stretch.
Learn ==
    /\ copyID = srcID
    /\ known' \in Nat /\ known < known' /\ known' <= srcTop
    /\ copy' \in [Names -> Nat]
    /\ \A n \in Names :
          \/ copy'[n] = copy[n]
          \/ /\ known < copy'[n] /\ copy'[n] <= known'
             /\ src[n] # 0 => copy'[n] <= src[n]
    /\ \A n \in Names \ Hidden :
          src[n] # 0 /\ src[n] <= known' => copy'[n] = src[n]
    /\ UNCHANGED <<srcID, srcTop, src, copyID>>

\* Rows are lost only while nothing is promised about them.
Lose ==
    /\ copyID # srcID \/ known = 0
    /\ copy' = NoneKnown
    /\ UNCHANGED <<srcID, srcTop, src, copyID, known>>

\* The copy no longer says whose it is.
Disown ==
    /\ copyID' = 0 /\ known' = 0
    /\ copy' \in {copy, NoneKnown}
    /\ UNCHANGED <<srcID, srcTop, src>>

CopyInit ==
    /\ srcID = 1 /\ srcTop = 0 /\ src = NoneKnown
    /\ copyID = 0 /\ known = 0 /\ copy = NoneKnown

CopyNext ==
    \/ \E n \in Names : Change(n) \/ Retract(n)
    \/ Restart \/ Adopt \/ Learn \/ Lose \/ Disown

CopySpec == CopyInit /\ [][CopyNext]_copyVars
=============================================================================
