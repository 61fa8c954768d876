------------------------------ MODULE MCFolder ------------------------------
(***************************************************************************)
(* Small instances of the life of a folder: its runner, its entries in the *)
(* model and in an index handler registry, and with whom it is shared.     *)
(* One behaviour is one of one of them, which aspect says which.           *)
(***************************************************************************)
EXTENDS FolderRunner, FolderStates, Sharing

CONSTANTS i1, i2, d,    \* devices: two introducers and one to be introduced
          f1, f2        \* folders

VARIABLE aspect

folderVars == <<aspect, runnerVars, statesVars, sharingVars>>

MCPeers == {i1, i2, d}
MCTokens == {<<f2, i2>>}

FolderInit ==
    /\ aspect \in {"runner", "states", "sharing"}
    /\ RunnerInit /\ StatesInit /\ SharingInit
    /\ aspect # "runner" => healthy /\ ~need.item
    /\ aspect # "states" => fcfg = Absent
    /\ shFolders \in IF aspect = "sharing" THEN {{f1}, {f1, f2}} ELSE {{}}

FolderNext ==
    /\ \/ aspect = "runner" /\ RunnerNext /\ UNCHANGED <<statesVars, sharingVars>>
       \/ aspect = "states" /\ StatesNext /\ UNCHANGED <<runnerVars, sharingVars>>
       \/ aspect = "sharing" /\ SharingNext /\ UNCHANGED <<runnerVars, statesVars>>
    /\ UNCHANGED aspect

FolderSpec == FolderInit /\ [][FolderNext]_folderVars /\ RunnerFairness
=============================================================================
