------------------------- MODULE AppManagerServices -------------------------
(* The components of an AppManager around the launch of its applications, with the names that
   their constants and variables have in CloudServices. *)
EXTENDS Naturals, Sequences, FiniteSets

CONSTANTS asNone, Name, Parent, Setting, Restarting, Installed, asMaxEvents
VARIABLES
  objects, applications, asOperations, data, asDisk, asSaves, asSpent, allowed, doubled,
  stale, joined

AS == INSTANCE ApplicationSettings WITH
        None <- asNone, MaxEvents <- asMaxEvents, operations <- asOperations,
        disk <- asDisk, saves <- asSaves,
        spent <- asSpent

(* None is neither settings nor a name, and an application is not its own parent. *)
ASConstants ==
  /\ asMaxEvents \in Nat /\ asNone \notin AS!Settings /\ asNone \notin Name
  /\ IsFiniteSet(Name) /\ Installed \subseteq Name
  /\ Parent \in [Name -> Name \union {asNone}] /\ \A n \in Name : Parent[n] # n
ASSUME ASAssumption == ASConstants

asVars == <<objects, applications, asOperations, data, asDisk, asSaves, asSpent, allowed,
            doubled, stale, joined>>

-----------------------------------------------------------------------------
CONSTANTS rbApp, rbSensor, AppOf, rbInfo, rbMaxEvents
VARIABLES
  rbApps, busy, rbFlags, health, old, opening, asked, watch, rbSent, caller, rebooting,
  masked, unsound, rbSpent

RB == INSTANCE Reboots WITH
        App <- rbApp, Sensor <- rbSensor, Info <- rbInfo, MaxEvents <- rbMaxEvents,
        apps <- rbApps,
        flags <- rbFlags, sent <- rbSent, spent <- rbSpent

(* The flags a sensor is opened with are flags there are. *)
RBConstants == rbInfo \subseteq SUBSET RB!Flag
ASSUME RBAssumption == RBConstants

rbVars == <<rbApps, busy, rbFlags, health, old, opening, asked, watch, rbSent, caller,
            rebooting, masked, unsound, rbSpent>>
=============================================================================
