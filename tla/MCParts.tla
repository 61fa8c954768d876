------------------------------- MODULE MCParts -------------------------------
(***************************************************************************)
(* Small instances of components that do not share state: one behaviour is *)
(* one of one component, which part says which; the variables of the       *)
(* others keep their initial values.                                       *)
(***************************************************************************)
EXTENDS FolderDB, FolderKinds, PullItem, TempIndex,
        WatchAggregator, ConfigWrapper, EventLog, TLC

CONSTANTS theDir, inDir, beside   \* items: a directory, one in it, one beside it

VARIABLE part

partVars == <<part, dbVars, kindVars, itemVars, tempVars, aggVars, cfgVars,
              evVars>>

\* Two versions of one device, of which one is newer, and one of another
\* device that is in conflict with both.
MCCounters == {1, 2}
MCVersions == {[i \in MCCounters |-> IF i = 1 THEN p ELSE q] :
                  <<p, q>> \in {<<1, 0>>, <<2, 0>>, <<0, 1>>}}

\* Times that make a difference: of the two in line, called new and old, either
\* may beat the third or be beaten by it. Where both beat it, they were made
\* later, not at the same time: then the hypothesis of NewestWins is weakest.
MCTimes ==
    \E new, old, other \in Versions :
        /\ Compare(new, old) = "greater" /\ other \notin {new, old}
        /\ content[other].mod = 1 <=> content[new].mod = 2 /\ content[old].mod = 2

MCInside == theDir :> "root" @@ inDir :> theDir @@ beside :> "root"
MCAggPaths == {<<"d">>, <<"d", "x">>, <<"d", "y", "z">>}
MCPulled == {<<"d", "x">>}
MCAggSettings == {<<1, 1>>, <<0, 1>>}

PartsInit ==
    /\ part \in {"db", "kinds", "item", "temp", "agg", "cfg", "ev"}
    /\ DBInit /\ KindsInit /\ ItemInit /\ TempInit /\ AggInit /\ CfgInit
    /\ EvInit
    /\ IF part = "db" THEN MCTimes
       ELSE content = [v \in Versions |-> [mod |-> 1, deleted |-> FALSE]]
    /\ IF part = "item" THEN deletable \subseteq {inDir} /\ copies[inDir] # <<>>
       ELSE deletable = {} /\ copies[inDir] = <<>>
    /\ part # "kinds" => ftype = "sendreceive"
    /\ part # "agg" => /\ probe = CHOOSE p \in AggPaths : TRUE
                       /\ aggSetting = CHOOSE s \in AggSettings : TRUE

PartsNext ==
    /\ \/ /\ part = "db" /\ DBNext
          /\ UNCHANGED <<kindVars, itemVars, tempVars, aggVars, cfgVars, evVars>>
       \/ /\ part = "kinds" /\ KindsNext
          /\ UNCHANGED <<dbVars, itemVars, tempVars, aggVars, cfgVars, evVars>>
       \/ /\ part = "item" /\ ItemNext
          /\ UNCHANGED <<dbVars, kindVars, tempVars, aggVars, cfgVars, evVars>>
       \/ /\ part = "temp" /\ TempNext
          /\ UNCHANGED <<dbVars, kindVars, itemVars, aggVars, cfgVars, evVars>>
       \/ /\ part = "agg" /\ AggNext
          /\ UNCHANGED <<dbVars, kindVars, itemVars, tempVars, cfgVars, evVars>>
       \/ /\ part = "cfg" /\ CfgNext
          /\ UNCHANGED <<dbVars, kindVars, itemVars, tempVars, aggVars, evVars>>
       \/ /\ part = "ev" /\ EvNext
          /\ UNCHANGED <<dbVars, kindVars, itemVars, tempVars, aggVars, cfgVars>>
    /\ UNCHANGED part

PartsSpec == PartsInit /\ [][PartsNext]_partVars
=============================================================================
