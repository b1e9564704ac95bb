-------------------------- MODULE AppDistribution --------------------------
(***************************************************************************)
(* An AppDistributionManager that deploys the versions with the right tags *)
(* from its version managers to a directory with a list of releases. What  *)
(* has been deployed is saved, what has been tried is not.                 *)
(***************************************************************************)
EXTENDS Naturals, Sequences, FiniteSets, SequencesExt, FiniteSetsExt

CONSTANTS
  Manager,     \* the version managers, numbered
  Version,     \* numbers, a later version has the larger one
  MaxDeploys,  \* the deploys mp_DistributeSequencer lets run at a time, 8 in the code
  MaxChanges,  \* bounds what users and version managers change
  MaxFaults    \* bounds failures, restarts and lost connections

VARIABLES
  has,         \* has[m][v]: what version manager m has of v
  connected,   \* mp_VersionManagers
  distribution,\* the CDistribution, with a number that tells it from earlier ones
  waiting,     \* the deploys that wait for the sequencer
  deploys,     \* those that have it
  json, disk,  \* the state database, and what is on disk
  releases,    \* Releases.json
  latest,      \* Latest.json
  changes, faults,
  attempted,   \* what has been deployed, or begun to be
  missed,      \* versions the code marks as tried without having tried them
  overlapped   \* versions whose deploy wrote the list of releases beside another one

vars == <<has, connected, distribution, waiting, deploys, json, disk, releases, latest,
          changes, faults, attempted, missed, overlapped>>
files == <<releases, latest>>

None == [there |-> FALSE, tagged |-> FALSE, retry |-> 0]
Nothing == [v \in Version |-> None]
Absent == [exists |-> FALSE, destinations |-> FALSE, deployed |-> Nothing,
           tried |-> Nothing, running |-> {}, number |-> 0]
Kept(d) == [exists |-> d.exists, destinations |-> d.destinations, deployed |-> d.deployed]
Count == changes < MaxChanges /\ changes' = changes + 1
Spend == faults < MaxFaults /\ faults' = faults + 1

Init ==
  /\ has = [m \in Manager |-> Nothing] /\ connected = Manager
  /\ \E to \in BOOLEAN :
       distribution = [Absent EXCEPT !.exists = TRUE, !.destinations = to]
  /\ waiting = <<>> /\ deploys = {}
  /\ json = Kept(distribution) /\ disk = json
  /\ releases = {} /\ latest = 0
  /\ changes = 0 /\ faults = 0
  /\ attempted = {} /\ missed = {} /\ overlapped = {}

-----------------------------------------------------------------------------
(* m_VersionsByTime: a version is there once for each manager that has it. *)
VersionsByTime == SetToSortSeq(Version \X Manager,
  LAMBDA p, q : p[1] < q[1] \/ (p[1] = q[1] /\ p[2] < q[2]))
Offered(hs, ms, p) == IF p[2] \in ms THEN hs[p[2]][p[1]] ELSE None

Deploy(v, info, n) == [v |-> v, info |-> info, number |-> n, step |-> "start", read |-> {}]

IsDeployed(d, v, info) == d.deployed[v].there /\ d.deployed[v].retry = info.retry

(* fp_AutoUpdate_Update for one version of one manager: what has been deployed or tried
   is left alone, and so is what has nowhere to go or runs already. *)
Consider(a, v, info) ==
  LET d == a.distribution
      tried == [a EXCEPT !.distribution.tried[v] = info]
  IN CASE ~info.tagged \/ IsDeployed(d, v, info) \/ d.tried[v] = info -> a
       [] OTHER ->
            IF ~d.destinations \/ v \in d.running
            THEN [tried EXCEPT !.passed = @ \cup {v}]
            ELSE [tried EXCEPT !.distribution.running = @ \cup {v},
                               !.waiting = Append(@, Deploy(v, info, d.number)),
                               !.begun = @ \cup {<<v, info>>}]
(* Versions passed over that are not looked at again: those whose deploy is under way,
   and those that have nowhere to go. *)
Forgotten(d, passed, ts) == {v \in passed : ~d.destinations \/ \E t \in ts : t.v = v}

(* fp_AutoUpdate_Update, when the distribution is d and the managers ms offer hs. *)
AutoUpdate(d, hs, ms, ds) ==
  LET a == [distribution |-> d, waiting |-> waiting, passed |-> {}, begun |-> {}]
      z == IF d.exists
           THEN FoldLeft(LAMBDA b, p : Consider(b, p[1], Offered(hs, ms, p)), a, VersionsByTime)
           ELSE a
  IN /\ distribution' = z.distribution /\ waiting' = z.waiting
     /\ attempted' = attempted \cup z.begun
     /\ missed' = missed \cup Forgotten(d, z.passed, ds \cup ToSet(z.waiting))

-----------------------------------------------------------------------------
(* m_fOnNewVersions: a version manager has a new version or changes one. *)
NewVersion(m, v) ==
  /\ Count
  /\ LET old == has[m][v] IN \E info \in
       IF old.there THEN {[old EXCEPT !.retry = @ + 1], [old EXCEPT !.tagged = ~@]}
                    ELSE {[None EXCEPT !.there = TRUE, !.tagged = t] : t \in BOOLEAN} :
       has' = [has EXCEPT ![m][v] = info]
  /\ IF m \in connected
     THEN AutoUpdate(distribution, has', connected, deploys)
     ELSE UNCHANGED <<distribution, waiting, attempted, missed>>
  /\ UNCHANGED <<connected, deploys, json, disk, files, faults, overlapped>>
(* fp_VersionManagerRemoved *)
VersionManagerRemoved(m) ==
  /\ m \in connected /\ Spend
  /\ connected' = connected \ {m}
  /\ UNCHANGED <<has, distribution, waiting, deploys, json, disk, files, changes, attempted,
                 missed, overlapped>>
(* fp_VersionManagerAdded, with the versions of the first notification *)
VersionManagerAdded(m) ==
  /\ m \notin connected
  /\ connected' = connected \cup {m}
  /\ AutoUpdate(distribution, has, connected', deploys)
  /\ UNCHANGED <<has, deploys, json, disk, files, changes, faults, overlapped>>

(* fp_SaveState, for d or without it *)
SaveState(d) == json' = Kept(d)

(* fp_CommandLine_DistributionAdd *)
DistributionAdd ==
  /\ Count /\ ~distribution.exists
  /\ LET d == [Absent EXCEPT !.exists = TRUE, !.destinations = TRUE,
                             !.number = distribution.number + 1]
     IN SaveState(d) /\ AutoUpdate(d, has, connected, deploys)
  /\ UNCHANGED <<has, connected, deploys, disk, files, faults, overlapped>>
(* fp_CommandLine_DistributionChangeSettings *)
DistributionChangeSettings ==
  /\ Count /\ distribution.exists /\ ~distribution.destinations
  /\ LET d == [distribution EXCEPT !.destinations = TRUE]
     IN SaveState(d) /\ AutoUpdate(d, has, connected, deploys)
  /\ UNCHANGED <<has, connected, deploys, disk, files, faults, overlapped>>
(* fp_CommandLine_DistributionRemove *)
DistributionRemove ==
  /\ Count /\ distribution.exists
  /\ distribution' = [Absent EXCEPT !.number = distribution.number]
  /\ SaveState(distribution')
  /\ attempted' = {} /\ missed' = {}
  /\ UNCHANGED <<has, connected, waiting, deploys, disk, files, faults, overlapped>>
(* f_Save of the state database, which whoever asked for it waits for *)
Save ==
  /\ disk # json /\ disk' = json
  /\ UNCHANGED <<has, connected, distribution, waiting, deploys, json, files, changes, faults,
                 attempted, missed, overlapped>>

-----------------------------------------------------------------------------
(* A deploy goes on when the distribution is there; a new one may have the address of the
   one that it began with. *)
Resumes(t) == distribution.exists
Stops(t) == ~distribution.exists \/ distribution.number # t.number
Goes(t, u) == deploys' = (deploys \ {t}) \cup {u}
InFiles(t) == t.step \in {"releases", "latest"}

Begin ==
  /\ waiting # <<>> /\ Cardinality(deploys) < MaxDeploys
  /\ waiting' = Tail(waiting)
  /\ deploys' = IF distribution.exists
                THEN deploys \cup {[Head(waiting) EXCEPT !.number = distribution.number]}
                ELSE deploys
  /\ UNCHANGED <<has, connected, distribution, json, disk, files, changes, faults, attempted,
                 missed, overlapped>>

(* fp_DownloadApplication, from any manager that has the version. *)
Downloaded(t) ==
  /\ t.step = "start" /\ Resumes(t)
  /\ \E m \in connected : has[m][t.v].there
  /\ Goes(t, [t EXCEPT !.step = "deploy"])
  /\ distribution' = [distribution EXCEPT !.running = @ \cup {t.v}]
  /\ UNCHANGED <<has, connected, waiting, json, disk, files, changes, faults, attempted,
                 missed, overlapped>>
(* A deploy that ends before it is cleaned up after leaves its entry in m_RunningDeploys. *)
DownloadFails(t) ==
  /\ t.step = "start"
  /\ \/ Stops(t) /\ UNCHANGED faults
     \/ (\A m \in connected : ~has[m][t.v].there) /\ UNCHANGED faults
     \/ Spend
  /\ deploys' = deploys \ {t}
  /\ missed' = IF distribution.number = t.number THEN missed \cup {t.v} ELSE missed
  /\ UNCHANGED <<has, connected, distribution, waiting, json, disk, files, changes,
                 attempted, overlapped>>

(* f_Deploy of CDeployDestination_FileSystem: the files are put in place and the list of
   releases is read, *)
PlaceFiles(t) ==
  /\ t.step = "deploy"
  /\ Goes(t, [t EXCEPT !.step = "releases", !.read = releases \cup {t.v}])
  /\ LET others == {u \in deploys \ {t} : InFiles(u)}
     IN overlapped' = overlapped \cup
          (IF others = {} THEN {} ELSE {t.v} \cup {u.v : u \in others})
  /\ UNCHANGED <<has, connected, distribution, waiting, json, disk, files, changes, faults,
                 attempted, missed>>
(* written with the version, *)
WriteReleases(t) ==
  /\ t.step = "releases"
  /\ releases' = t.read
  /\ Goes(t, [t EXCEPT !.step = "latest"])
  /\ UNCHANGED <<has, connected, distribution, waiting, json, disk, latest, changes, faults,
                 attempted, missed, overlapped>>
(* Mistake: the version that is deployed is the latest. *)
MistakeLatest(t) == t.v
(* and the first one of the sorted list is the latest. *)
Latest(t) == Max(t.read)
WriteLatest(t) ==
  /\ t.step = "latest"
  /\ latest' = Latest(t)
  /\ Goes(t, [t EXCEPT !.step = "done"])
  /\ UNCHANGED <<has, connected, distribution, waiting, json, disk, releases, changes, faults,
                 attempted, missed, overlapped>>
Deployed(t) ==
  /\ t.step = "done" /\ Resumes(t)
  /\ distribution' = [distribution EXCEPT !.deployed[t.v] = t.info]
  /\ SaveState(distribution')
  /\ Goes(t, [t EXCEPT !.step = "save"])
  /\ UNCHANGED <<has, connected, waiting, disk, files, changes, faults, attempted, missed,
                 overlapped>>
Saved(t) ==
  /\ t.step = "save" /\ disk = json
  /\ Goes(t, [t EXCEPT !.step = "cleanup"])
  /\ UNCHANGED <<has, connected, distribution, waiting, json, disk, files, changes, faults,
                 attempted, missed, overlapped>>
(* Something of the deploy or of the save fails, or the distribution has been removed. *)
DeployFails(t) ==
  /\ \/ t.step \in {"deploy", "releases", "latest", "done", "save"} /\ Spend
     \/ t.step = "done" /\ Stops(t) /\ UNCHANGED faults
  /\ Goes(t, [t EXCEPT !.step = "cleanup"])
  /\ UNCHANGED <<has, connected, distribution, waiting, json, disk, files, changes,
                 attempted, missed, overlapped>>

(* Mistake: the entry of the deploy is kept. *)
MistakeRunningWithout(v) == distribution.running
RunningWithout(v) == distribution.running \ {v}
(* CleanupDeploy *)
Cleanup(t) ==
  /\ t.step = "cleanup"
  /\ deploys' = deploys \ {t}
  /\ AutoUpdate([distribution EXCEPT !.running = RunningWithout(t.v)], has, connected, deploys')
  /\ UNCHANGED <<has, connected, json, disk, files, changes, faults, overlapped>>

(* fp_ReadState, after a stop at any point *)
Restart ==
  /\ Spend
  /\ json' = disk
  /\ distribution' = [Absent EXCEPT !.exists = disk.exists, !.deployed = disk.deployed,
                                    !.destinations = disk.destinations,
                                    !.number = distribution.number]
  /\ waiting' = <<>> /\ deploys' = {} /\ connected' = {}
  /\ attempted' = {} /\ missed' = {}
  /\ UNCHANGED <<has, disk, files, changes, overlapped>>

Next ==
  \/ \E m \in Manager : VersionManagerRemoved(m) \/ VersionManagerAdded(m)
  \/ \E m \in Manager, v \in Version : NewVersion(m, v)
  \/ DistributionAdd \/ DistributionChangeSettings \/ DistributionRemove \/ Save \/ Restart
  \/ Begin
  \/ \E t \in deploys :
       \/ Downloaded(t) \/ DownloadFails(t)
       \/ PlaceFiles(t) \/ WriteReleases(t) \/ WriteLatest(t)
       \/ Deployed(t) \/ Saved(t) \/ DeployFails(t) \/ Cleanup(t)

Spec == Init /\ [][Next]_vars
-----------------------------------------------------------------------------
Infos == [there : BOOLEAN, tagged : BOOLEAN, retry : 0..MaxChanges]
TypeOK ==
  /\ has \in [Manager -> [Version -> Infos]] /\ connected \subseteq Manager
  /\ distribution.running \subseteq Version
  /\ \A t \in deploys \cup ToSet(waiting) : t.v \in Version /\ t.info \in Infos
  /\ json.deployed \in [Version -> Infos] /\ disk.deployed \in [Version -> Infos]
  /\ releases \subseteq Version /\ latest \in Version \cup {0}

(* When no deploy is under way, every version with the right tags has been deployed, or
   it was tried as it is now. Left out are versions that changed while they were deployed,
   those that could not be downloaded and changed since, and those that had nowhere to go
   when they came: the code takes them for tried until it starts again. *)
NothingForgotten ==
  waiting = <<>> /\ deploys = {} /\ distribution.exists =>
    \A m \in connected, v \in Version \ missed :
      LET info == has[m][v]
      IN info.tagged => IsDeployed(distribution, v, info) \/ <<v, info>> \in attempted

(* A version that counts as deployed, also after a restart, is in the list of releases,
   and the latest release is no older. Left out are versions whose list was written while
   another deploy had read it: the code writes back what it has read. *)
DeployedIsReleased ==
  \A d \in {distribution, disk} : \A v \in Version \ overlapped :
    d.deployed[v].there => v \in releases /\ latest >= v
=============================================================================
