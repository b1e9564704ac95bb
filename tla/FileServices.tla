---------------------------- MODULE FileServices ----------------------------
(* The components that move files and keep their histories, with the names that their constants
   and variables have in CloudServices. *)
EXTENDS Naturals, Sequences, FiniteSets

CONSTANTS ftFile, Link, ftContents, Block, Flags, Ahead, ftMaxEvents
VARIABLES
  source, target, phase, flag, todo, offered, item, ftStep, have, ftOpened, position,
  ftWrites, counted, dropped, lastContents, result, ftEvents, ftSent, swallowed, switched

FT == INSTANCE FileTransfer WITH
        File <- ftFile, Contents <- ftContents, MaxEvents <- ftMaxEvents, step <- ftStep,
        opened <- ftOpened, writes <- ftWrites, events <- ftEvents, sent <- ftSent

ftVars == <<source, target, phase, flag, todo, offered, item, ftStep, have, ftOpened,
            position, ftWrites, counted, dropped, lastContents, result, ftEvents, ftSent,
            swallowed, switched>>

-----------------------------------------------------------------------------
CONSTANTS Config, Type, Contents, cmUnset, MaxRetries, cmMaxEvents
VARIABLES
  file, configs, notices, cmChecks, cmWrites, history, log, cmSpent, raced, cmMissed

CM == INSTANCE ConfigMonitor WITH
        Unset <- cmUnset, MaxEvents <- cmMaxEvents, checks <- cmChecks, writes <- cmWrites,
        spent <- cmSpent, missed <- cmMissed

cmVars == <<file, configs, notices, cmChecks, cmWrites, history, log, cmSpent, raced,
            cmMissed>>

-----------------------------------------------------------------------------
CONSTANTS Upload, Dump, Asset, duFile, duWants, duMaxEvents
VARIABLES
  duClient, task, uploads, finished, duDatabase, pending, young, timer, reports, logged,
  app, duSpent, forgone

DU == INSTANCE DebugUploads WITH
        File <- duFile, Wants <- duWants, MaxEvents <- duMaxEvents, client <- duClient,
        database <- duDatabase, spent <- duSpent

(* No dump is the constant that stands for the assets, the files of a dump have numbers,
   and an upload is of files of one dump, or of the assets. *)
DUConstants ==
  /\ Asset \notin Dump /\ duFile \subseteq Nat
  /\ \A u \in Upload : duWants[u] \subseteq (Dump \union {Asset}) \X SUBSET duFile
ASSUME DUAssumption == DUConstants

duVars == <<duClient, task, uploads, finished, duDatabase, pending, young, timer, reports,
            logged, app, duSpent, forgone>>

-----------------------------------------------------------------------------
CONSTANTS adManager, Version, MaxDeploys, adMaxChanges, adMaxFaults
VARIABLES
  has, connected, distribution, adWaiting, deploys, json, adDisk, releases, latest, changes,
  adFaults, attempted, adMissed, overlapped

AD == INSTANCE AppDistribution WITH
        Manager <- adManager, MaxChanges <- adMaxChanges, MaxFaults <- adMaxFaults,
        waiting <- adWaiting, disk <- adDisk, faults <- adFaults, missed <- adMissed

adVars == <<has, connected, distribution, adWaiting, deploys, json, adDisk, releases,
            latest, changes, adFaults, attempted, adMissed, overlapped>>
=============================================================================
