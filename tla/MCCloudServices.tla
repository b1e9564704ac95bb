-------------------------- MODULE MCCloudServices --------------------------
(* Values for the components of CloudServices. *)
EXTENDS CloudServices, TLC

CONSTANTS parent, child, k1, k2

(* FileTransfer: three contents of one or two blocks, for two files. *)
SmallContents == {<<1, 1, 1>>, <<1, 1, 2, 2>>, <<2, 2>>}

(* NetworkTunnels: two tunnels, the first to any of two servers, the second to the second
   one only. *)
AnyOrSecond == [t \in {1, 2} |-> IF t = 1 THEN {1, 2} ELSE {2}]

(* ExpectedOsVersions: two CloudManagers, of which the first expects a version. *)
FirstExpects == [m \in {1, 2} |-> [k \in {1} |-> IF m = 1 THEN "fits" ELSE Unset]]

(* ApplicationSettings: a root application and its child. *)
ParentOf == (parent :> asNone) @@ (child :> parent)

(* ConfigMonitor: both subscriptions of the file parse it alike. *)
AsJson == [c \in {1, 2} |-> "json"]

(* DebugUploads: an upload of both files of a dump, and one of a file of it, of another
   dump, or of an asset. *)
TwoUploads == <<{<<1, {1, 2}>>}, {<<1, {1}>>, <<2, {1}>>, <<0, {1}>>}>>

(* Reboots: both sensors are those of one application; what prevents a reboot. *)
OneApp == [s \in {1, 2} |-> 1]
SensorInfo == {{}, {"outdated"}, {"problem", "outdated"}}

(* KeyManagerServer: any of the two key managers is asked for keys; every operation is
   started at the first one. *)
AskBoth == [x \in {1, 2} |-> {1, 2}]
AtFirst == {"RequestKey", "PreCreateKeys", "RemovePreCreatedKeys", "RemoveVerifiedHosts",
            "CopyKey", "ForceWriteDatabase"} \X {1}

(* One state of ConfigMonitor, and of the components that do not run, where they may
   start in several. *)
MCInit ==
  /\ component \in Components
  /\ FT!Init /\ NT!Init /\ TC!Init /\ SN!Init /\ LN!Init
  /\ RG!Init /\ OV!Init /\ AS!Init /\ CM!Init /\ DU!Init
  /\ RB!Init /\ SC!Init /\ AD!Init /\ KM!Init
  /\ file = "a" /\ configs = <<"watching", "none">>
  /\ component # "AppDistribution" => ~distribution.destinations
  /\ component # "FileTransfer" =>
       source = [f \in {1, 2} |-> <<1, 1, 1>>] /\ flag = "resume"

MCSpec == MCInit /\ [][Next]_vars
=============================================================================
