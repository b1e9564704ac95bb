------------------------- MODULE ConnectionServices -------------------------
(* The tunnels, and the components that serve secrets and keys, with the names that their
   constants and variables have in CloudServices. *)
EXTENDS Naturals, Sequences, FiniteSets

CONSTANTS Server, Tunnel, ntWants, ntMaxEvents
VARIABLES
  config, ntEntry, ntStep, published, up, ntSubscribed, ntWire, ntState, available,
  ntOpened, actor, ntEvents, failed

NT == INSTANCE NetworkTunnels WITH
        Wants <- ntWants, MaxEvents <- ntMaxEvents, entry <- ntEntry, step <- ntStep,
        subscribed <- ntSubscribed, wire <- ntWire, state <- ntState, opened <- ntOpened,
        events <- ntEvents

(* No server is the constant that stands for none, and an application knows which servers
   it takes a tunnel from. *)
NTConstants == NT!None \notin Server /\ ntWants \in [Tunnel -> SUBSET Server] /\ ntMaxEvents \in Nat
ASSUME NTAssumption == NTConstants

ntVars == <<config, ntEntry, ntStep, published, up, ntSubscribed, ntWire, ntState,
            available, ntOpened, actor, ntEvents, failed>>

-----------------------------------------------------------------------------
CONSTANT MaxCloses
VARIABLES
  tcClient, theirs, server, ours, receive, send, reply, linked, closes

TC == INSTANCE TunnelConnections WITH client <- tcClient

tcVars == <<tcClient, theirs, server, ours, receive, send, reply, linked, closes>>

-----------------------------------------------------------------------------
CONSTANTS Secret, scStored, MaxChanges, MaxResends
VARIABLES
  secrets, matches, scSubscribed, scChecks, initial, scWire, view, version, resends, scLost

SC == INSTANCE SecretChanges WITH
        Stored <- scStored, subscribed <- scSubscribed, checks <- scChecks,
        wire <- scWire, lost <- scLost

scVars == <<secrets, matches, scSubscribed, scChecks, initial, scWire, view, version,
            resends, scLost>>

-----------------------------------------------------------------------------
CONSTANTS kmServer, Slot, Key, kmAbsent, Empty, Asks, MinServers, MaxPool, Operations,
          MaxOperations, kmMaxFaults
VARIABLES
  memory, kmDisk, trying, others, tasks, generated, given, kmOperations, kmFaults

KM == INSTANCE KeyManagerServer WITH
        Server <- kmServer, Absent <- kmAbsent, MaxFaults <- kmMaxFaults, disk <- kmDisk,
        operations <- kmOperations, faults <- kmFaults

kmVars == <<memory, kmDisk, trying, others, tasks, generated, given, kmOperations, kmFaults>>
=============================================================================
