------------------------ MODULE CloudServices_proofs ------------------------
(* What the invariants of the components come to in the specification of all of them, for
   every value of the constants, as in CloudComponents_proofs. *)
EXTENDS CloudServices, AppManagerServices_proofs, CloudManagerServices_proofs,
        FileServices_proofs, TLAPS

-----------------------------------------------------------------------------
(* The steps of all together *)

(* A step of all together is one of NetworkTunnels, when that is what runs, or leaves its
   variables alone. *)
LEMMA NTFrame ==
  ASSUME [Next]_vars, component' = "NetworkTunnels"
  PROVE  component = "NetworkTunnels" /\ (NT!Next \/ UNCHANGED ntVars)
<1>1. CASE Next
  BY <1>1 DEF Next
<1>2. CASE UNCHANGED vars
  BY <1>2 DEF vars
<1> QED
  BY <1>1, <1>2

(* So the parts of its invariant hold from the first state on. *)
LEMMA NTAlways == Spec => [](component = "NetworkTunnels" => NTInv)
<1> DEFINE Inv == component = "NetworkTunnels" => NTInv
<1>1. Init => Inv
  BY NTAssumption, NTInitHolds DEF Init
<1>2. Inv /\ [Next]_vars => Inv'
  BY NTAssumption, NTFrame, NTNextHolds, NTStays
<1> QED
  BY <1>1, <1>2, PTL DEF Spec

(* A step of all together is one of TunnelConnections, when that is what runs, or leaves its
   variables alone. *)
LEMMA TCFrame ==
  ASSUME [Next]_vars, component' = "TunnelConnections"
  PROVE  component = "TunnelConnections" /\ (TC!Next \/ UNCHANGED tcVars)
<1>1. CASE Next
  BY <1>1 DEF Next
<1>2. CASE UNCHANGED vars
  BY <1>2 DEF vars
<1> QED
  BY <1>1, <1>2

(* So the parts of its invariant hold from the first state on. *)
LEMMA TCAlways == Spec => [](component = "TunnelConnections" => TCInv)
<1> DEFINE Inv == component = "TunnelConnections" => TCInv
<1>1. Init => Inv
  BY TCInitHolds DEF Init
<1>2. Inv /\ [Next]_vars => Inv'
  BY TCFrame, TCNextHolds, TCStays
<1> QED
  BY <1>1, <1>2, PTL DEF Spec

(* A step of all together is one of LogNotifications, when that is what runs, or leaves its
   variables alone. *)
LEMMA LNFrame ==
  ASSUME [Next]_vars, component' = "LogNotifications"
  PROVE  component = "LogNotifications" /\ (LN!Next \/ UNCHANGED lnVars)
<1>1. CASE Next
  BY <1>1 DEF Next
<1>2. CASE UNCHANGED vars
  BY <1>2 DEF vars
<1> QED
  BY <1>1, <1>2

(* So the parts of its invariant hold from the first state on. *)
LEMMA LNAlways == Spec => [](component = "LogNotifications" => LNInv)
<1> DEFINE Inv == component = "LogNotifications" => LNInv
<1>1. Init => Inv
  BY LNInitHolds DEF Init
<1>2. Inv /\ [Next]_vars => Inv'
  BY LNFrame, LNNextHolds, LNStays
<1> QED
  BY <1>1, <1>2, PTL DEF Spec

(* A step of all together is one of SensorNotifications, when that is what runs, or leaves its
   variables alone. *)
LEMMA SNFrame ==
  ASSUME [Next]_vars, component' = "SensorNotifications"
  PROVE  component = "SensorNotifications" /\ (SN!Next \/ UNCHANGED snVars)
<1>1. CASE Next
  BY <1>1 DEF Next
<1>2. CASE UNCHANGED vars
  BY <1>2 DEF vars
<1> QED
  BY <1>1, <1>2

(* So the parts of its invariant hold from the first state on. *)
LEMMA SNAlways == Spec => [](component = "SensorNotifications" => SNInv)
<1> DEFINE Inv == component = "SensorNotifications" => SNInv
<1>1. Init => Inv
  BY SNInitHolds DEF Init
<1>2. Inv /\ [Next]_vars => Inv'
  BY SNFrame, SNNextHolds, SNStays
<1> QED
  BY <1>1, <1>2, PTL DEF Spec

(* A step of all together is one of AppManagerRegistry, when that is what runs, or leaves its
   variables alone. *)
LEMMA RGFrame ==
  ASSUME [Next]_vars, component' = "AppManagerRegistry"
  PROVE  component = "AppManagerRegistry" /\ (RG!Next \/ UNCHANGED rgVars)
<1>1. CASE Next
  BY <1>1 DEF Next
<1>2. CASE UNCHANGED vars
  BY <1>2 DEF vars
<1> QED
  BY <1>1, <1>2

(* So the parts of its invariant hold from the first state on. *)
LEMMA RGAlways == Spec => [](component = "AppManagerRegistry" => RGInv)
<1> DEFINE Inv == component = "AppManagerRegistry" => RGInv
<1>1. Init => Inv
  BY RGAssumption, RGInitHolds DEF Init
<1>2. Inv /\ [Next]_vars => Inv'
  BY RGAssumption, RGFrame, RGNextHolds, RGStays
<1> QED
  BY <1>1, <1>2, PTL DEF Spec

(* A step of all together is one of ExpectedOsVersions, when that is what runs, or leaves its
   variables alone. *)
LEMMA OVFrame ==
  ASSUME [Next]_vars, component' = "ExpectedOsVersions"
  PROVE  component = "ExpectedOsVersions" /\ (OV!Next \/ UNCHANGED ovVars)
<1>1. CASE Next
  BY <1>1 DEF Next
<1>2. CASE UNCHANGED vars
  BY <1>2 DEF vars
<1> QED
  BY <1>1, <1>2

(* So the parts of its invariant hold from the first state on. *)
LEMMA OVAlways == Spec => [](component = "ExpectedOsVersions" => OVInv)
<1> DEFINE Inv == component = "ExpectedOsVersions" => OVInv
<1>1. Init => Inv
  BY OVAssumption, OVInitHolds DEF Init
<1>2. Inv /\ [Next]_vars => Inv'
  BY OVAssumption, OVFrame, OVNextHolds, OVStays
<1> QED
  BY <1>1, <1>2, PTL DEF Spec

(* A step of all together is one of SecretChanges, when that is what runs, or leaves its
   variables alone. *)
LEMMA SCFrame ==
  ASSUME [Next]_vars, component' = "SecretChanges"
  PROVE  component = "SecretChanges" /\ (SC!Next \/ UNCHANGED scVars)
<1>1. CASE Next
  BY <1>1 DEF Next
<1>2. CASE UNCHANGED vars
  BY <1>2 DEF vars
<1> QED
  BY <1>1, <1>2

(* So the parts of its invariant hold from the first state on. *)
LEMMA SCAlways == Spec => [](component = "SecretChanges" => SCInv)
<1> DEFINE Inv == component = "SecretChanges" => SCInv
<1>1. Init => Inv
  BY SCInitHolds DEF Init
<1>2. Inv /\ [Next]_vars => Inv'
  BY SCFrame, SCNextHolds, SCStays
<1> QED
  BY <1>1, <1>2, PTL DEF Spec

(* A step of all together is one of ConfigMonitor, when that is what runs, or leaves its
   variables alone. *)
LEMMA CMFrame ==
  ASSUME [Next]_vars, component' = "ConfigMonitor"
  PROVE  component = "ConfigMonitor" /\ (CM!Next \/ UNCHANGED cmVars)
<1>1. CASE Next
  BY <1>1 DEF Next
<1>2. CASE UNCHANGED vars
  BY <1>2 DEF vars
<1> QED
  BY <1>1, <1>2

(* So the parts of its invariant hold from the first state on. *)
LEMMA CMAlways == Spec => [](component = "ConfigMonitor" => CMInv)
<1> DEFINE Inv == component = "ConfigMonitor" => CMInv
<1>1. Init => Inv
  BY CMInitHolds DEF Init
<1>2. Inv /\ [Next]_vars => Inv'
  BY CMFrame, CMNextHolds, CMStays
<1> QED
  BY <1>1, <1>2, PTL DEF Spec

(* A step of all together is one of DebugUploads, when that is what runs, or leaves its
   variables alone. *)
LEMMA DUFrame ==
  ASSUME [Next]_vars, component' = "DebugUploads"
  PROVE  component = "DebugUploads" /\ (DU!Next \/ UNCHANGED duVars)
<1>1. CASE Next
  BY <1>1 DEF Next
<1>2. CASE UNCHANGED vars
  BY <1>2 DEF vars
<1> QED
  BY <1>1, <1>2

(* So the parts of its invariant hold from the first state on. *)
LEMMA DUAlways == Spec => [](component = "DebugUploads" => DUInv)
<1> DEFINE Inv == component = "DebugUploads" => DUInv
<1>1. Init => Inv
  BY DUAssumption, DUInitHolds DEF Init
<1>2. Inv /\ [Next]_vars => Inv'
  BY DUAssumption, DUFrame, DUNextHolds, DUStays
<1> QED
  BY <1>1, <1>2, PTL DEF Spec

(* A step of all together is one of Reboots, when that is what runs, or leaves its
   variables alone. *)
LEMMA RBFrame ==
  ASSUME [Next]_vars, component' = "Reboots"
  PROVE  component = "Reboots" /\ (RB!Next \/ UNCHANGED rbVars)
<1>1. CASE Next
  BY <1>1 DEF Next
<1>2. CASE UNCHANGED vars
  BY <1>2 DEF vars
<1> QED
  BY <1>1, <1>2

(* So the parts of its invariant hold from the first state on. *)
LEMMA RBAlways == Spec => [](component = "Reboots" => RBInv)
<1> DEFINE Inv == component = "Reboots" => RBInv
<1>1. Init => Inv
  BY RBAssumption, RBInitHolds DEF Init
<1>2. Inv /\ [Next]_vars => Inv'
  BY RBAssumption, RBFrame, RBNextHolds, RBStays
<1> QED
  BY <1>1, <1>2, PTL DEF Spec

(* A step of all together is one of ApplicationSettings, when that is what runs, or leaves its
   variables alone. *)
LEMMA ASFrame ==
  ASSUME [Next]_vars, component' = "ApplicationSettings"
  PROVE  component = "ApplicationSettings" /\ (AS!Next \/ UNCHANGED asVars)
<1>1. CASE Next
  BY <1>1 DEF Next
<1>2. CASE UNCHANGED vars
  BY <1>2 DEF vars
<1> QED
  BY <1>1, <1>2

(* So the parts of its invariant hold from the first state on. *)
LEMMA ASAlways == Spec => [](component = "ApplicationSettings" => ASInv)
<1> DEFINE Inv == component = "ApplicationSettings" => ASInv
<1>1. Init => Inv
  BY ASAssumption, ASInitHolds DEF Init
<1>2. Inv /\ [Next]_vars => Inv'
  BY ASAssumption, ASFrame, ASNextHolds, ASStays
<1> QED
  BY <1>1, <1>2, PTL DEF Spec

-----------------------------------------------------------------------------
(* NetworkTunnels and TunnelConnections, for any number of servers, tunnels, breaks and
   restarts: an open tunnel leads to a server that publishes what the configuration says,
   and a connection through it ends open at both ends or closed at both. *)
THEOREM TunnelsAreTrueHolds == Spec => []TunnelsAreTrue
<1>1. (component = "NetworkTunnels" => NTInv) /\ (component = "TunnelConnections" => TCInv)
        => TunnelsAreTrue
  BY NTHolds, TCHolds, NTAssumption DEF TunnelsAreTrue
<1> QED
  BY <1>1, NTAlways, TCAlways, PTL

(* SensorNotifications, LogNotifications, AppManagerRegistry and ExpectedOsVersions, for any
   number of sensors, log entries, applications, connections, managers, keys, failures and
   restarts: once nothing is under way Slack shows the problems there are, unless a
   post, a read or a write of an update failed or a crash cut it off, until a later message; the
   database has the applications of the AppManager, and the status of a host is that of
   what its managers expect; every entry that an alert asks for is queued, at Slack, or lost
   by a restart while its post had failed or waited. *)
THEOREM CloudManagerIsTrueHolds == Spec => []CloudManagerIsTrue
<1>1. (component = "SensorNotifications" => SNInv) =>
        (component = "SensorNotifications" => SN!SlackShowsProblems)
  BY SNHolds
<1>2. (component = "LogNotifications" => LNInv) =>
        (component = "LogNotifications" => LN!EveryEntryIsPosted)
  BY LNHolds
<1>3. (component = "AppManagerRegistry" => RGInv) =>
        (component = "AppManagerRegistry" => RG!RegistryIsTrue)
  BY RGHolds
<1>4. (component = "ExpectedOsVersions" => OVInv) =>
        (component = "ExpectedOsVersions" => OV!StatusIsRight /\ OV!ProblemsAreKept)
  BY OVAssumption, OVStatusFollows, OVProblemsFollow
<1>5. /\ component = "SensorNotifications" => SNInv
      /\ component = "LogNotifications" => LNInv
      /\ component = "AppManagerRegistry" => RGInv
      /\ component = "ExpectedOsVersions" => OVInv
      => CloudManagerIsTrue
  BY <1>1, <1>2, <1>3, <1>4 DEF CloudManagerIsTrue
<1> QED
  BY <1>5, SNAlways, LNAlways, RGAlways, OVAlways, PTL

(* SecretChanges, for any number of secrets, changes and resends: a subscriber has the
   secrets that match, as they are, once nothing is under way to it. *)
THEOREM SubscriberIsRightHolds == Spec => []SubscriberIsRight
<1>1. (component = "SecretChanges" => SCInv) => SubscriberIsRight
  BY SCHolds DEF SubscriberIsRight
<1> QED
  BY <1>1, SCAlways, PTL

(* ConfigMonitor and DebugUploads, for any number of subscriptions, dumps, files, uploads,
   restarts and crashes: once nobody checks it the history of a file ends with the file,
   unless a check could not read, report or store, or ended with its subscription, since the
   file changed last; each entry is a logged change from the one before, unless the
   comparisons of two subscriptions overlapped; and every new crash dump is logged, unless
   its report failed or came too late, and once. *)
THEOREM HistoryIsTrueHolds == Spec => []HistoryIsTrue
<1>1. (component = "ConfigMonitor" => CMInv) /\ (component = "DebugUploads" => DUInv)
        => HistoryIsTrue
  BY CMHolds, DUHolds, DUAssumption DEF HistoryIsTrue
<1> QED
  BY <1>1, CMAlways, DUAlways, PTL

(* DebugUploads: an upload that its client counts as done is in the database, whatever
   aborts, failures and crashes came between. *)
THEOREM SuccessIsTrueHolds ==
  Spec => [](component = "DebugUploads" => DU!SuccessIsTrue)
<1>1. (component = "DebugUploads" => DUInv) =>
        (component = "DebugUploads" => DU!SuccessIsTrue)
  BY DUHolds, DUAssumption
<1> QED
  BY <1>1, DUAlways, PTL

(* ApplicationSettings and Reboots, for any number of applications, operations, crashes and
   sensors: no operation undoes what another one changed, what runs is in the database, and
   no application has two operations at work on it; a reboot goes through only when nothing
   prevents it, and one script runs at a time. *)
THEOREM AppManagerIsRightHolds == Spec => []AppManagerIsRight
<1>1. (component = "ApplicationSettings" => ASInv) /\ (component = "Reboots" => RBInv)
        => AppManagerIsRight
  BY ASHolds, RBHolds, ASAssumption, RBAssumption DEF AppManagerIsRight
<1> QED
  BY <1>1, ASAlways, RBAlways, PTL
=============================================================================
