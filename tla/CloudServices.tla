--------------------------- MODULE CloudServices ----------------------------
(* The components around the services, in one specification as in CloudComponents: the
   first state chooses the component, and only that one takes steps. *)
EXTENDS AppManagerServices, CloudManagerServices, FileServices, ConnectionServices

VARIABLE component
Components == {"FileTransfer", "NetworkTunnels", "TunnelConnections", "SensorNotifications",
               "LogNotifications", "AppManagerRegistry", "ExpectedOsVersions",
               "ApplicationSettings", "ConfigMonitor", "DebugUploads", "Reboots",
               "SecretChanges", "AppDistribution", "KeyManagerServer"}

-----------------------------------------------------------------------------
Init ==
  /\ component \in Components
  /\ FT!Init /\ NT!Init /\ TC!Init /\ SN!Init /\ LN!Init
  /\ RG!Init /\ OV!Init /\ AS!Init /\ CM!Init /\ DU!Init
  /\ RB!Init /\ SC!Init /\ AD!Init /\ KM!Init

Next ==
  \/ /\ component = "FileTransfer" /\ FT!Next
     /\ UNCHANGED <<component, ntVars, tcVars, snVars, lnVars, rgVars, ovVars, asVars,
                    cmVars, duVars, rbVars, scVars, adVars, kmVars>>
  \/ /\ component = "NetworkTunnels" /\ NT!Next
     /\ UNCHANGED <<component, ftVars, tcVars, snVars, lnVars, rgVars, ovVars, asVars,
                    cmVars, duVars, rbVars, scVars, adVars, kmVars>>
  \/ /\ component = "TunnelConnections" /\ TC!Next
     /\ UNCHANGED <<component, ftVars, ntVars, snVars, lnVars, rgVars, ovVars, asVars,
                    cmVars, duVars, rbVars, scVars, adVars, kmVars>>
  \/ /\ component = "SensorNotifications" /\ SN!Next
     /\ UNCHANGED <<component, ftVars, ntVars, tcVars, lnVars, rgVars, ovVars, asVars,
                    cmVars, duVars, rbVars, scVars, adVars, kmVars>>
  \/ /\ component = "LogNotifications" /\ LN!Next
     /\ UNCHANGED <<component, ftVars, ntVars, tcVars, snVars, rgVars, ovVars, asVars,
                    cmVars, duVars, rbVars, scVars, adVars, kmVars>>
  \/ /\ component = "AppManagerRegistry" /\ RG!Next
     /\ UNCHANGED <<component, ftVars, ntVars, tcVars, snVars, lnVars, ovVars, asVars,
                    cmVars, duVars, rbVars, scVars, adVars, kmVars>>
  \/ /\ component = "ExpectedOsVersions" /\ OV!Next
     /\ UNCHANGED <<component, ftVars, ntVars, tcVars, snVars, lnVars, rgVars, asVars,
                    cmVars, duVars, rbVars, scVars, adVars, kmVars>>
  \/ /\ component = "ApplicationSettings" /\ AS!Next
     /\ UNCHANGED <<component, ftVars, ntVars, tcVars, snVars, lnVars, rgVars, ovVars,
                    cmVars, duVars, rbVars, scVars, adVars, kmVars>>
  \/ /\ component = "ConfigMonitor" /\ CM!Next
     /\ UNCHANGED <<component, ftVars, ntVars, tcVars, snVars, lnVars, rgVars, ovVars,
                    asVars, duVars, rbVars, scVars, adVars, kmVars>>
  \/ /\ component = "DebugUploads" /\ DU!Next
     /\ UNCHANGED <<component, ftVars, ntVars, tcVars, snVars, lnVars, rgVars, ovVars,
                    asVars, cmVars, rbVars, scVars, adVars, kmVars>>
  \/ /\ component = "Reboots" /\ RB!Next
     /\ UNCHANGED <<component, ftVars, ntVars, tcVars, snVars, lnVars, rgVars, ovVars,
                    asVars, cmVars, duVars, scVars, adVars, kmVars>>
  \/ /\ component = "SecretChanges" /\ SC!Next
     /\ UNCHANGED <<component, ftVars, ntVars, tcVars, snVars, lnVars, rgVars, ovVars,
                    asVars, cmVars, duVars, rbVars, adVars, kmVars>>
  \/ /\ component = "AppDistribution" /\ AD!Next
     /\ UNCHANGED <<component, ftVars, ntVars, tcVars, snVars, lnVars, rgVars, ovVars,
                    asVars, cmVars, duVars, rbVars, scVars, kmVars>>
  \/ /\ component = "KeyManagerServer" /\ KM!Next
     /\ UNCHANGED <<component, ftVars, ntVars, tcVars, snVars, lnVars, rgVars, ovVars,
                    asVars, cmVars, duVars, rbVars, scVars, adVars>>

vars == <<component, ftVars, ntVars, tcVars, snVars, lnVars, rgVars, ovVars, asVars, cmVars,
          duVars, rbVars, scVars, adVars, kmVars>>

(* Safety only: no fairness is assumed here. *)
Spec == Init /\ [][Next]_vars

-----------------------------------------------------------------------------
(* Every variable of every component has its type. *)
TypesOK ==
  /\ component = "FileTransfer" => FT!TypeOK
  /\ component = "NetworkTunnels" => NT!TypeOK
  /\ component = "TunnelConnections" => TC!TypeOK
  /\ component = "SensorNotifications" => SN!TypeOK
  /\ component = "LogNotifications" => LN!TypeOK
  /\ component = "AppManagerRegistry" => RG!TypeOK
  /\ component = "ExpectedOsVersions" => OV!TypeOK
  /\ component = "ApplicationSettings" => AS!TypeOK
  /\ component = "ConfigMonitor" => CM!TypeOK
  /\ component = "DebugUploads" => DU!TypeOK
  /\ component = "Reboots" => RB!TypeOK
  /\ component = "SecretChanges" => SC!TypeOK
  /\ component = "AppDistribution" => AD!TypeOK
  /\ component = "KeyManagerServer" => KM!TypeOK

(* FileTransfer, DebugUploads and AppDistribution: a file that counts as transferred is
   what the sender had, an upload to the DebugManager that succeeded is in its database,
   and a version with the right tags is deployed, or was tried as it is; what counts as
   deployed is among the releases, the latest no older. *)
FilesArriveWhole ==
  /\ component = "FileTransfer" => FT!ReceivedIsWhole
  /\ component = "DebugUploads" => DU!SuccessIsTrue
  /\ component = "AppDistribution" => AD!NothingForgotten /\ AD!DeployedIsReleased

(* NetworkTunnels and TunnelConnections: a tunnel that is open leads where the
   configuration says, and a connection through it is open at both ends or closed at
   both. *)
TunnelsAreTrue ==
  /\ component = "NetworkTunnels" => NT!TunnelsLead
  /\ component = "TunnelConnections" => TC!BothOrNeither

(* SensorNotifications, LogNotifications, AppManagerRegistry and ExpectedOsVersions: Slack
   shows the problems of the sensors, unless a step of an update failed, and every log
   entry that an alert asks for, unless it is known to be lost; the CloudManager's
   applications are those of the AppManager, and the status of a host is the one that the
   managers' databases give. *)
CloudManagerIsTrue ==
  /\ component = "SensorNotifications" => SN!SlackShowsProblems
  /\ component = "LogNotifications" => LN!EveryEntryIsPosted
  /\ component = "AppManagerRegistry" => RG!RegistryIsTrue
  /\ component = "ExpectedOsVersions" => OV!StatusIsRight /\ OV!ProblemsAreKept

(* ApplicationSettings and Reboots: what an operation changed stays, in memory and on
   disk, and operations on one application take turns; the host is rebooted when nothing
   prevents it, and by one script at a time. *)
AppManagerIsRight ==
  /\ component = "ApplicationSettings" =>
       AS!ChangesAreKept /\ AS!SavedIsWhatRuns /\ AS!OneAtATime
  /\ component = "Reboots" => RB!RebootsAreAllowed /\ RB!OneScript

(* ConfigMonitor: the history of a file ends with the file, unless a check of its last
   change failed, and its entries are logged changes, unless two checks overlapped.
   DebugUploads: every new crash dump is logged, unless its report failed or came too
   late, and once. *)
HistoryIsTrue ==
  /\ component = "ConfigMonitor" => CM!HistoryIsCurrent /\ CM!HistoryIsLogged
  /\ component = "DebugUploads" => DU!EveryDumpIsLogged /\ DU!LoggedOnce

(* SecretChanges: a subscriber has the secrets that match, as they are. *)
SubscriberIsRight == component = "SecretChanges" => SC!SubscriberIsRight

(* KeyManagerServer: the key managers have the same key for an identifier. *)
KeyServersAgree ==
  component = "KeyManagerServer" => KM!ServersAgree
=============================================================================
