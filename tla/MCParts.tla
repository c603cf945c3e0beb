------------------------------ MODULE MCParts ------------------------------
(***************************************************************************)
(* The parts of toas that keep to themselves: a repair of a journal, what  *)
(* a state step sends and which commands it runs first, a model call and   *)
(* the choice of its target, a queue of operations, the file tools, the    *)
(* task tool, an episode of the experiments, the drawing and the reading of *)
(* a history in several files.                                             *)
(* They share no state, so a behaviour is a behaviour of one of them.      *)
(***************************************************************************)
EXTENDS Salvage, StatePacket, ReplayQueue, TaskCapture, FileTools, Generation,
        StateIntents, Episode, ModelTarget, EventGraph, HistoryView

CONSTANTS e1, m1, m2, ta, tb   \* an endpoint, its models, two named targets

VARIABLE part                  \* the part that runs

PartNames == {"salvage", "packet", "queue", "capture",
              "files", "generation", "intents",
              "episode", "target", "graph", "view"}

partsVars == <<part, salvageVars, packetVars, queueVars, captureVars, fileVars,
               genVars, intentVars, episodeVars, targetVars, graphVars, viewVars>>

PartsInit ==
    /\ part \in PartNames
    /\ SalvageInit /\ PacketInit /\ QueueInit /\ CaptureInit
    /\ FileInit /\ GenInit /\ IntentInit /\ EpisodeInit
    /\ TargetInit /\ GraphInit /\ ViewInit

PartsNext ==
    \/ /\ part = "salvage" /\ SalvageNext
       /\ UNCHANGED <<part, packetVars, queueVars, captureVars, fileVars, genVars,
                     intentVars, episodeVars, targetVars, graphVars, viewVars>>
    \/ /\ part = "packet" /\ PacketNext
       /\ UNCHANGED <<part, salvageVars, queueVars, captureVars, fileVars, genVars,
                     intentVars, episodeVars, targetVars, graphVars, viewVars>>
    \/ /\ part = "queue" /\ QueueNext
       /\ UNCHANGED <<part, salvageVars, packetVars, captureVars, fileVars, genVars,
                     intentVars, episodeVars, targetVars, graphVars, viewVars>>
    \/ /\ part = "capture" /\ CaptureNext
       /\ UNCHANGED <<part, salvageVars, packetVars, queueVars, fileVars, genVars,
                     intentVars, episodeVars, targetVars, graphVars, viewVars>>
    \/ /\ part = "files" /\ FileNext
       /\ UNCHANGED <<part, salvageVars, packetVars, queueVars, captureVars, genVars,
                     intentVars, episodeVars, targetVars, graphVars, viewVars>>
    \/ /\ part = "generation" /\ GenNext
       /\ UNCHANGED <<part, salvageVars, packetVars, queueVars, captureVars, fileVars,
                     intentVars, episodeVars, targetVars, graphVars, viewVars>>
    \/ /\ part = "intents" /\ IntentNext
       /\ UNCHANGED <<part, salvageVars, packetVars, queueVars, captureVars, fileVars,
                     genVars, episodeVars, targetVars, graphVars, viewVars>>
    \/ /\ part = "episode" /\ EpisodeNext
       /\ UNCHANGED <<part, salvageVars, packetVars, queueVars, captureVars, fileVars,
                     genVars, intentVars, targetVars, graphVars, viewVars>>
    \/ /\ part = "target" /\ TargetNext
       /\ UNCHANGED <<part, salvageVars, packetVars, queueVars, captureVars, fileVars,
                     genVars, intentVars, episodeVars, graphVars, viewVars>>
    \/ /\ part = "graph" /\ GraphNext
       /\ UNCHANGED <<part, salvageVars, packetVars, queueVars, captureVars, fileVars,
                     genVars, intentVars, episodeVars, targetVars, viewVars>>
    \/ /\ part = "view" /\ ViewNext
       /\ UNCHANGED <<part, salvageVars, packetVars, queueVars, captureVars, fileVars,
                     genVars, intentVars, episodeVars, targetVars, graphVars>>

PartsSpec == PartsInit /\ [][PartsNext]_partsVars

-----------------------------------------------------------------------------
\* Plans of a replay: operations that work, fail or are barred.
MCPlans == {<<"ok", "barred", "barred">>, <<"barred", "fails">>}

\* Two models with one label; a target on the base endpoint, one whose endpoint
\* the configuration does not know.
MCLabel == (m1 :> "q") @@ (m2 :> "q")
MCFileTargets == (ta :> [endpoint |-> BaseEndpoint, model |-> m2])
              @@ (tb :> [endpoint |-> Unknown, model |-> m1])
MCDefaultModel == (e1 :> NoModel)
=============================================================================
