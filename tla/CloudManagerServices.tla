------------------------ MODULE CloudManagerServices ------------------------
(* The components of a CloudManager, with the names that their constants and variables have in
   CloudServices. *)
EXTENDS Naturals, Sequences, FiniteSets

CONSTANTS snSensor, snMaxEvents
VARIABLES
  severity, snoozed, lasting, snState, updates, snWaiting, update, snSent, thread, shown,
  snSilent, snSaved, snSubscribed, snSpent

SN == INSTANCE SensorNotifications WITH
        Sensor <- snSensor, MaxEvents <- snMaxEvents, state <- snState,
        waiting <- snWaiting, sent <- snSent, silent <- snSilent, saved <- snSaved,
        subscribed <- snSubscribed, spent <- snSpent

snVars == <<severity, snoozed, lasting, snState, updates, snWaiting, update, snSent, thread,
            shown, snSilent, snSaved, snSubscribed, snSpent>>

-----------------------------------------------------------------------------
CONSTANTS MaxEntries, lnMaxFaults
VARIABLES
  stored, delivered, queued, sending, lnFlags, lastSeen, global, lnSaved, posted, lnLost,
  lnFaults

LN == INSTANCE LogNotifications WITH
        MaxFaults <- lnMaxFaults, flags <- lnFlags, saved <- lnSaved, lost <- lnLost,
        faults <- lnFaults

lnVars == <<stored, delivered, queued, sending, lnFlags, lastSeen, global, lnSaved, posted,
            lnLost, lnFaults>>

-----------------------------------------------------------------------------
CONSTANTS rgApp, MaxSessions, rgMaxEvents
VARIABLES
  rgApps, session, sessions, subscription, rgWire, registration, rgEntry, held, rgSaves,
  rgWrites, removing, db, overtaken, orphaned, rgSpent

RG == INSTANCE AppManagerRegistry WITH
        App <- rgApp, MaxEvents <- rgMaxEvents, apps <- rgApps, wire <- rgWire,
        entry <- rgEntry, saves <- rgSaves, writes <- rgWrites, spent <- rgSpent

(* Connections have numbers. *)
RGConstants == MaxSessions \in Nat
ASSUME RGAssumption == RGConstants

rgVars == <<rgApps, session, sessions, subscription, rgWire, registration, rgEntry, held,
            rgSaves, rgWrites, removing, db, overtaken, orphaned, rgSpent>>

-----------------------------------------------------------------------------
CONSTANTS Manager, ovKey, Unset, ovStored, ovMaxEvents
VARIABLES
  ovDatabase, answers, subs, channel, known, expected, ovWaiting, pass, problems, ovSaved,
  reported, machine, ovSpent, ovSilent, departed, unsaved

OV == INSTANCE ExpectedOsVersions WITH
        Key <- ovKey, Stored <- ovStored, MaxEvents <- ovMaxEvents,
        database <- ovDatabase, waiting <- ovWaiting, saved <- ovSaved,
        spent <- ovSpent, silent <- ovSilent

(* Managers and keys are numbers in the order in which they count, and every manager has a
   range or none for each of a finite number of keys. *)
OVConstants ==
  /\ ovStored \in [Manager -> OV!Ranges] /\ Unset \notin OV!Ranges
  /\ IsFiniteSet(ovKey) /\ ovKey \subseteq Nat /\ Manager \subseteq Nat
ASSUME OVAssumption == OVConstants

ovVars == <<ovDatabase, answers, subs, channel, known, expected, ovWaiting, pass, problems,
            ovSaved, reported, machine, ovSpent, ovSilent, departed, unsaved>>
=============================================================================
