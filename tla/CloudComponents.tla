-------------------------- MODULE CloudComponents --------------------------
(* The components that share no state with each other, in one specification: the first
   state chooses the component, and only that one takes steps. The states are those of
   the components added up, not multiplied. A constant or a variable whose name two
   components use has the component's initials before it here. *)
EXTENDS Naturals, Sequences, FiniteSets

CONSTANT MaxFaults   \* bounds, in each component, what breaks, fails or restarts

VARIABLE component
Components == {"KnownHosts", "AppLifecycle", "UpdateEvents", "SecretFiles", "VersionSync",
               "Backup", "VersionFiles", "RebootSchedule", "DiskSpace"}

-----------------------------------------------------------------------------
CONSTANTS Host, Key, Any, Filters, Together, Trust, Operators, Removable, khMaxChanges
VARIABLES
  apps, known, khDatabase, khDisk, remote, inbox, calls, waits, hung, removed,
  durable, deaf, khChanges, khFaults

KH == INSTANCE KnownHosts WITH
        MaxChanges <- khMaxChanges, database <- khDatabase, disk <- khDisk,
        changes <- khChanges, faults <- khFaults

(* The hosts that are connected from the start are some of the hosts. *)
KHConstants == Together \subseteq Host
ASSUME KHAssumption == KHConstants

khVars == <<apps, known, khDatabase, khDisk, remote, inbox, calls, waits, hung, removed,
            durable, deaf, khChanges, khFaults>>

-----------------------------------------------------------------------------
CONSTANTS App, Depends, StopOnFailure, Encrypted, Asked
VARIABLES
  app, op, waiting, stops, todo, keyManager, asked, stuck, late, down, gaveUp, alFaults

AL == INSTANCE AppLifecycle WITH faults <- alFaults

(* No application has the name of what else may stop one. *)
ALConstants == App \cap {"operation", "dependency"} = {}
ASSUME ALAssumption == ALConstants

alVars == <<app, op, waiting, stops, todo, keyManager, asked, stuck, late, down, gaveUp,
            alFaults>>

-----------------------------------------------------------------------------
CONSTANT ueUpdateOf
VARIABLES
  last, root, database, storing, stored, sub, wire, registered, seen, saved, queue,
  deferred, sending, timer, unreported, processed, reported, dropped, excused, since,
  written, cleared, ueFaults

UE == INSTANCE UpdateEvents WITH UpdateOf <- ueUpdateOf, faults <- ueFaults

(* The events of a rollout are numbered from one. *)
UEConstants == ueUpdateOf \in Seq(UE!Updates)
ASSUME UEAssumption == UEConstants

ueVars == <<last, root, database, storing, stored, sub, wire, registered, seen, saved, queue,
            deferred, sending, timer, unreported, processed, reported, dropped, excused,
            since, written, cleared, ueFaults>>

-----------------------------------------------------------------------------
CONSTANTS Secret, sfContent, MaxFiles, sfMaxChanges
VARIABLES
  secrets, pending, writing, disk, files, uploads, reserved, postponed, removing,
  nextFile, changes, sfFaults, early, mixed, unsaved, orphans

SF == INSTANCE SecretFiles WITH
        Content <- sfContent, MaxChanges <- sfMaxChanges, faults <- sfFaults

(* The bounds of what the operators do with secrets and files. *)
SFConstants == MaxFiles \in Nat /\ sfMaxChanges \in Nat
ASSUME SFAssumption == SFConstants

sfVars == <<secrets, pending, writing, disk, files, uploads, reserved, postponed, removing,
            nextFile, changes, sfFaults, early, mixed, unsaved, orphans>>

-----------------------------------------------------------------------------
CONSTANTS Manager, Syncs, Tag, Copied, vsStored, Uploaders, Taggers, Connected, vsMaxEvents
VARIABLES
  vsVersion, vsSaved, tasks, vsQueue, vsStoring, vsSubscribed, error, number, events, news,
  newest, vsExcused, crossed

VS == INSTANCE VersionSync WITH
        Stored <- vsStored, MaxEvents <- vsMaxEvents, version <- vsVersion,
        saved <- vsSaved, queue <- vsQueue,
        storing <- vsStoring, subscribed <- vsSubscribed, excused <- vsExcused

vsVars == <<vsVersion, vsSaved, tasks, vsQueue, vsStoring, vsSubscribed, error, number,
            events, news, newest, vsExcused, crossed>>

-----------------------------------------------------------------------------
CONSTANTS bkFile, bkMaxEvents
VARIABLES
  source, bkEvents, retries, manifest, scan, session, theirs, served, sync, bkLatest, bkSaved,
  spent, astray, forgotten

BK == INSTANCE Backup WITH
        File <- bkFile, MaxEvents <- bkMaxEvents, events <- bkEvents, latest <- bkLatest,
        saved <- bkSaved

bkVars == <<source, bkEvents, retries, manifest, scan, session, theirs, served, sync,
            bkLatest, bkSaved, spent, astray, forgotten>>

-----------------------------------------------------------------------------
CONSTANTS vfUpload, vfFile, vfMaxEvents
VARIABLES
  vfFiles, exists, json, vfDatabase, listed, vfUploads, received, tagging, refresh,
  vfEvents, overwritten, adopted, vfAstray

VF == INSTANCE VersionFiles WITH
        Upload <- vfUpload, File <- vfFile, MaxEvents <- vfMaxEvents, files <- vfFiles,
        database <- vfDatabase,
        uploads <- vfUploads, events <- vfEvents, astray <- vfAstray

(* The files of a version are numbered from one. *)
VFConstants == \A f \in vfFile : f \in Nat /\ f > 0 /\ \A g \in 1 .. f : g \in vfFile
ASSUME VFAssumption == VFConstants

vfVars == <<vfFiles, exists, json, vfDatabase, listed, vfUploads, received, tagging,
            refresh, vfEvents, overwritten, adopted, vfAstray>>

-----------------------------------------------------------------------------
CONSTANTS NoValue, MinutesPerHour, HoursPerDay, DaysPerWeek, Days, LeapMonth, Configured,
          Starts, Delays, MaxYear, MaxReboots
VARIABLES
  schedule, now, phase, date, moved, earliest, scheduled, rsLast, rsStored, previous,
  reboots, faults

RS == INSTANCE RebootSchedule WITH None <- NoValue, last <- rsLast, stored <- rsStored

rsVars == <<schedule, now, phase, date, moved, earliest, scheduled, rsLast, rsStored,
            previous, reboots, faults>>

-----------------------------------------------------------------------------
CONSTANTS Client, Option, Default, Kinds, dsMaxEvents
VARIABLES
  entry, task, mounted, automatic, owner, dsWaiting, step, dsSpent, leaked, raced

DS == INSTANCE DiskSpace WITH
        None <- NoValue, MaxEvents <- dsMaxEvents, waiting <- dsWaiting, spent <- dsSpent

(* There are finitely many clients, a mount and a timer are no client, and an option is
   what an automatic mount is watched with. *)
DSConstants ==
  /\ IsFiniteSet(Client)
  /\ {DS!Mount, DS!Timer, NoValue} \cap Client = {} /\ NoValue # DS!Timer
  /\ NoValue \notin Option /\ Default \in Option /\ Kinds \in Nat
ASSUME DSAssumption == DSConstants

dsVars == <<entry, task, mounted, automatic, owner, dsWaiting, step, dsSpent, leaked, raced>>

-----------------------------------------------------------------------------
Init ==
  /\ component \in Components
  /\ KH!Init /\ AL!Init /\ UE!Init /\ SF!Init /\ VS!Init /\ BK!Init /\ VF!Init /\ RS!Init
  /\ DS!Init

Next ==
  \/ /\ component = "KnownHosts" /\ KH!Next
     /\ UNCHANGED <<component, alVars, ueVars, sfVars, vsVars, bkVars, vfVars, rsVars,
                    dsVars>>
  \/ /\ component = "AppLifecycle" /\ AL!Next
     /\ UNCHANGED <<component, khVars, ueVars, sfVars, vsVars, bkVars, vfVars, rsVars,
                    dsVars>>
  \/ /\ component = "UpdateEvents" /\ UE!Next
     /\ UNCHANGED <<component, khVars, alVars, sfVars, vsVars, bkVars, vfVars, rsVars,
                    dsVars>>
  \/ /\ component = "SecretFiles" /\ SF!Next
     /\ UNCHANGED <<component, khVars, alVars, ueVars, vsVars, bkVars, vfVars, rsVars,
                    dsVars>>
  \/ /\ component = "VersionSync" /\ VS!Next
     /\ UNCHANGED <<component, khVars, alVars, ueVars, sfVars, bkVars, vfVars, rsVars,
                    dsVars>>
  \/ /\ component = "Backup" /\ BK!Next
     /\ UNCHANGED <<component, khVars, alVars, ueVars, sfVars, vsVars, vfVars, rsVars,
                    dsVars>>
  \/ /\ component = "VersionFiles" /\ VF!Next
     /\ UNCHANGED <<component, khVars, alVars, ueVars, sfVars, vsVars, bkVars, rsVars,
                    dsVars>>
  \/ /\ component = "RebootSchedule" /\ RS!Next
     /\ UNCHANGED <<component, khVars, alVars, ueVars, sfVars, vsVars, bkVars, vfVars,
                    dsVars>>
  \/ /\ component = "DiskSpace" /\ DS!Next
     /\ UNCHANGED <<component, khVars, alVars, ueVars, sfVars, vsVars, bkVars, vfVars,
                    rsVars>>

vars == <<component, khVars, alVars, ueVars, sfVars, vsVars, bkVars, vfVars, rsVars, dsVars>>

(* The fairness of each component, for the one that runs. *)
Fairness ==
  /\ WF_khVars(component = "KnownHosts" /\ KH!Progress)
  /\ WF_alVars(component = "AppLifecycle" /\ AL!Progress)
  /\ WF_ueVars(component = "UpdateEvents" /\ UE!Progress)
  /\ WF_sfVars(component = "SecretFiles" /\ SF!Progress)
  /\ WF_vsVars(component = "VersionSync" /\ VS!Progress)
  /\ WF_bkVars(component = "Backup" /\ BK!Progress)
  /\ WF_vfVars(component = "VersionFiles" /\ VF!Progress)
  /\ WF_rsVars(component = "RebootSchedule" /\ RS!Progress)
  /\ WF_dsVars(component = "DiskSpace" /\ DS!Progress)

Spec == Init /\ [][Next]_vars /\ Fairness

-----------------------------------------------------------------------------
(* Every variable of every component has its type. *)
TypesOK ==
  /\ component = "KnownHosts" => KH!TypeOK
  /\ component = "AppLifecycle" => AL!TypeOK
  /\ component = "UpdateEvents" => UE!TypeOK
  /\ component = "SecretFiles" => SF!TypeOK
  /\ component = "VersionSync" => VS!TypeOK
  /\ component = "Backup" => BK!TypeOK
  /\ component = "VersionFiles" => VF!TypeOK
  /\ component = "RebootSchedule" => RS!TypeOK
  /\ component = "DiskSpace" => DS!TypeOK

(* KnownHosts: what an AppManager believes another one to know and to run is what
   that one knows and runs, once the changes under way have come. *)
ViewsAreTrue == component = "KnownHosts" => KH!ViewsAreTrue

(* KnownHosts: a removed host does not come back by a restart or by hearsay. *)
RemovalIsDurable == KH!RemovalIsDurable

(* KnownHosts: an update that waits for other AppManagers goes on or fails. *)
WaitsEnd == KH!WaitsEnd

(* AppLifecycle: a process is told to stop after those that depend on it stopped, and
   what a user has stopped stays down until a user starts it. *)
StopsHold == component = "AppLifecycle" => AL!DependentsStopFirst /\ AL!StoppedStaysDown

(* AppLifecycle: operations are answered, and applications run again in the end. *)
AppsComeBack == <>[](component = "AppLifecycle" => AL!AllBack)

(* UpdateEvents: the CloudManager counts no event as seen that it has not stored, and
   the number of a stored event is not given to another one. *)
EventsAreKept == component = "UpdateEvents" => UE!NoEventLost /\ UE!NumbersAreNotReused

(* UpdateEvents: the update of a stored event is reported in the end. *)
EventsAreReported == UE!EventsAreReported

(* SecretFiles: the files of secrets are there and open with the keys of the secrets, and
   the database on disk refers to no file that is gone. *)
SecretsHaveFiles == component = "SecretFiles" => SF!FilesOpen /\ SF!DiskHasItsFiles

(* SecretFiles: files nobody has any more are removed in the end. *)
FilesAreRemoved == SF!FilesAreRemoved

(* VersionSync and VersionFiles: a synchronisation that reports no error has the versions
   of its source, and a version that is listed has its files, as its upload described
   them. *)
VersionsAreTrue ==
  /\ component = "VersionSync" => VS!StatusIsTrue
  /\ component = "VersionFiles" => VF!ListedIsTrue

(* Backup: when the client says that all is done, the backup is the directory. *)
BackupIsCurrent == component = "Backup" => BK!BackupIsCurrent

(* RebootSchedule and DiskSpace: the host is rebooted when its schedule says and at most
   once a day; a path that is watched stays so, with the reporters that its options ask
   for. *)
HostMonitorIsRight ==
  /\ component = "RebootSchedule" => RS!RebootIsNext /\ RS!RebootsApart
  /\ component = "DiskSpace" => DS!PathIsHeld /\ DS!ReportersMatch

(* VersionSync: a change comes to an end at all managers. VersionFiles: a refresh from
   disk does, also beside uploads. RebootSchedule: so does every search for the next time
   to reboot. DiskSpace: and every update, also one that begins to watch a mount. Backup:
   the client has everything backed up after the last change. *)
LoopsEnd ==
  /\ VS!SyncsEnd
  /\ []<>(/\ component = "VersionFiles" => VF!NotRefreshing
          /\ component = "RebootSchedule" => RS!NotSearching
          /\ component = "DiskSpace" => DS!NotUpdating
          /\ component = "Backup" => BK!Settled)
=============================================================================
