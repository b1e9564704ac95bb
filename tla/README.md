# TLA+ models of Malterlib Cloud

Malterlib Cloud is a set of daemons that install, update, back up and watch
over applications on many hosts, and the libraries they are built from. This
directory holds TLA+ models of it, the TLC configurations that check them, and
proofs checked by TLAPS. Paths below are those of the repository. Most source
files are named `Malterlib_Cloud_...`; that prefix, and
`App_AppManager_` and the like for the files of a daemon, are left out where
the file is clear without; `AM_` stands for
`Apps/AppManager/Source/Malterlib_Cloud_App_AppManager_`.

All daemons are built from actors. An actor runs one piece of code at a time; a
`co_await` lets other code of the same actor run before it returns. So the
interleavings that matter are those of pieces of code between suspensions,
inside one actor and between the actors of different hosts, and the models
take one such piece as one step.

## Inventory

| Component | State | Operations | Talks to |
|---|---|---|---|
| AppManager, coordinated update | per application: wanted and reached stage, last installed, finished, tried and failed version; per remote AppManager: its published applications, whether its initial state came; the running updates and their registered waits; the state database | start an update, enter a stage, wait for others, record success or failure, publish, subscribe, disconnect, restart | other AppManagers (published changes), VersionManager (versions, downloads) |
| AppManager, known hosts | per key the hosts known to run it, own and as each remote reports it | learn a host, gossip it, remove it | other AppManagers |
| AppManager, launch and stop | launch state, operation in progress, waiters, dependencies, encryption | launch, stop, relaunch, wait for an operation in progress | the launched processes, KeyManager |
| AppManager, settings | the applications and their settings, in memory and in the state database | add, change settings, remove, update, save | users, launch and stop |
| AppManager, notifications | stored notifications, subscriptions with their sequencers | store, send, catch up | CloudManager, command line |
| AppManager, reboots | sensors that prevent a reboot, operations in progress, the reboot under way | watch a sensor, ask for a reboot, run the script | HostMonitor, sensor store |
| KeyManager server | keys by client host and ID with the servers that hold them, pre-created keys by size, keys being tried | request a key, pre-create, remove, synchronise, copy | other KeyManagers, clients |
| VersionManager | versions with tags and retry sequence, subscriptions, synchronisations; the files and descriptions on disk | upload, download, change tags, synchronise, notify, refresh from disk | AppManagers, other VersionManagers, AppDistributionManager |
| SecretsManager | secrets, their files and references, subscriptions | set, change, remove, upload, download, notify | clients |
| BackupManager and client | manifest and files of a backup, the client's view of a changing directory | start, transfer, commit, snapshot | each other |
| AppDistributionManager | running deploys, releases and the latest one in a directory | deploy a new version, add, change and remove a distribution | VersionManager, destinations |
| CloudManager | what AppManagers, sensors and logs report; expected versions of operating systems; messages in Slack | register, report, alert, expect | AppManagers, sensor and log stores, Slack |
| HostMonitor | watched configuration files, paths and mounts; patch status; the schedule of reboots | watch, check, report, reboot | AppManager, sensor and log stores |
| DebugManager and client | crash dumps and assets, dumps to report | upload, store, look up, notify | clients, log store |
| File transfer | the list of files, the blocks under way | offer, compare, send, write, retry | used by the daemons above |
| Network tunnels, TunnelProxyManager | publications, the tunnels clients have open, connections | publish, subscribe, open, forward, close | each other, local sockets |
| CloudAPIManager | nothing | forwards to an object store | clients |
| CloudClient, VersionInfo, TestApp | none | a call per command | the daemons |

What is hard, and what makes each right:

- **Coordinated update.** Every host decides from its own, older view of the
  others. Right when a one-at-a-time application is down on at most one host,
  when a bad release breaks at most one, when releases go out in order, when no
  host stops its application before all have the release, when keys are updated
  one after another, when no set of waits blocks itself, and when a version is
  retried exactly when it should be. Crashes, timeouts and broken connections
  come at any time.
- **Known hosts.** Gossip that converges, and removal that sticks. Right when
  what a host believes of another is true once the changes have come, and none
  is waited for that does not run the application.
- **KeyManager.** Several servers create keys at once and have to agree; a
  pre-created key is used for one client only; a key is given out only when
  enough servers hold it. Servers come, go and crash between forwarding a key and
  writing it.
- **Launch, stop and settings.** An operation in progress excludes others over
  many suspensions, dependents stop first, what a user stopped stays down, and
  what was acknowledged is in memory and on disk.
- **Notifications (updates, sensors, logs, changes).** Each is a queue with a
  number that says what has been seen, saved apart from what was done. Right when
  nothing is skipped after a restart and nothing stays in the queue.
- **VersionManager.** Synchronisation from several sources and the order of
  notifications; files, descriptions and database that are written by uploads,
  tag changes and refreshes. Right when a subscriber ends with the newest tags, a
  retry sequence never goes back, and a version that is listed is whole.
- **SecretsManager.** A file is there as long as a secret refers to it or
  somebody downloads it, over uploads that suspend.
- **BackupManager.** The committed manifest describes what was transferred,
  though files change during the transfer.
- **File transfer.** A directory that was received is the one that was offered,
  whatever an earlier, broken transfer left in it.
- **Tunnels.** Two ends close in any order and lose each other's answers.
- **CloudManager registry, expected versions, reboots, disk space,
  configuration files.** State that is read, awaited upon and written
  again, with another call, a removal or a restart between.

## Plan

Done, in the order in which the most important behaviour came first:

1. `CoordinatedUpdate`, the abstract `RollingUpdate`, and that the one implements
   the other, proved for a single release.
2. `KeyManagerServer`, with the proofs that written keys stay and that no client is
   given an empty key.
3. The AppManager around the update: `KnownHosts`, `AppLifecycle`,
   `ApplicationSettings`, `UpdateEvents`, `Reboots`.
4. The services: `VersionSync`, `VersionFiles`, `SecretFiles`, `SecretChanges`,
   `Backup`, `AppDistribution`, `FileTransfer`, `DebugUploads`.
5. CloudManager, HostMonitor and tunnels: `SensorNotifications`,
   `LogNotifications`, `AppManagerRegistry`, `ExpectedOsVersions`,
   `ConfigMonitor`, `RebootSchedule`, `DiskSpace`, `NetworkTunnels`,
   `TunnelConnections`.
6. Proofs about the components: `SecretFiles`, `DiskSpace` and `VersionFiles`
   (`CloudComponents_proofs`); `UpdateEvents`, `KnownHosts` and `AppLifecycle`
   (`CloudComponents_hosts`); `ApplicationSettings` and `Reboots`
   (`AppManagerServices_proofs`); `SensorNotifications`, `LogNotifications`,
   `AppManagerRegistry` and `ExpectedOsVersions` (`CloudManagerServices_proofs`);
   `ConfigMonitor`, `DebugUploads`, `NetworkTunnels`, `TunnelConnections` and
   `SecretChanges` (`FileServices_proofs`); and the barrier of the coordinated update.

Left, most useful first:

1. `CoordinatedUpdate` composed with `KnownHosts`, for a host that joins or is
   removed in the middle of a rollout.
2. Proofs for more of the components: `VersionSync`, `Backup`.
3. `OneKeyAtATime`, which needs an invariant about waits without faults, and what two key
   managers agree on, which needs one about the messages between them.
4. Several distributions and destinations in `AppDistribution`; append files in
   `Backup`.

## Modules

| Module | What it is |
|---|---|
| `CoordinatedUpdate` | the coordinated update |
| `RollingUpdate` | its abstract specification: instances in an order, each old, updating or new |
| `CoordinatedUpdate_proofs` | type correctness, the inductive invariant, three safety theorems; every step is a step of `RollingUpdate`, whose promise it therefore keeps; the barrier before the stop, and failures that do not count |
| `MCCoordinatedUpdate` | values of the constants `KeyOf` and `TypeOf` for TLC |
| `KeyManagerServer` | the key managers |
| `KeyManagerServer_proofs` | type correctness, and that what is written is never replaced |
| `MCKeyManagerServer` | values of the constants `Asks` and `Operations` for TLC |
| `KnownHosts`, `AppLifecycle`, `UpdateEvents`, `SecretFiles`, `VersionSync`, `VersionFiles`, `Backup`, `RebootSchedule`, `DiskSpace` | a component each, with liveness |
| `CloudComponents` | these in one specification, with the properties |
| `MCCloudComponents` | the instances of these for TLC |
| `CloudComponents_proofs` | proofs about `SecretFiles`, `DiskSpace` and `VersionFiles` |
| `CloudComponents_hosts` | proofs about `UpdateEvents` and `KnownHosts`, what hosts tell each other, and about `AppLifecycle`, what each of them runs |
| `FileTransfer`, `NetworkTunnels`, `TunnelConnections`, `SensorNotifications`, `LogNotifications`, `AppManagerRegistry`, `ExpectedOsVersions`, `ApplicationSettings`, `ConfigMonitor`, `DebugUploads`, `Reboots`, `SecretChanges`, `AppDistribution` | a component each, for safety |
| `AppManagerServices`, `CloudManagerServices`, `FileServices`, `ConnectionServices` | the instances of these, and of `KeyManagerServer` with more operations, with their constants, variables and assumptions; in four parts, so that the proofs about one have not the others in their context, which is what makes the provers slow |
| `CloudServices` | the four in one specification, with the properties |
| `MCCloudServices` | the instances of these for TLC |
| `AppManagerServices_proofs` | the inductive invariants of `ApplicationSettings` and `Reboots` |
| `CloudManagerServices_proofs` | those of `SensorNotifications`, `LogNotifications`, `AppManagerRegistry` and `ExpectedOsVersions` |
| `FileServices_proofs` | those of `ConfigMonitor`, `DebugUploads`, `NetworkTunnels`, `TunnelConnections` and `SecretChanges` |
| `CloudServices_proofs` | from these, the theorems about `CloudServices` |

Operators named "Mistake" are wrong versions of the definition after them. They
are in no specification; with one of them in the place of the right definition a
property is violated, which shows that the property notices.

Variables whose comment calls them a ghost, or that only record what the code is
known to lose, remember a history that the code knowingly or visibly mishandles.
The properties leave those histories out and hold of all others; under "Seen on
the way" is what they are.

### How `CoordinatedUpdate` corresponds to the code

State:

| Variable | Code |
|---|---|
| `app[h][a]` | the published and private update fields of `CApplication` on host `h`: `want` is `m_WantUpdateStage`, `stage` is `m_UpdateStage`, `startSeq` is `m_UpdateStartSequence`, `finished`, `failed`, `installed`, `tried` are the `m_Last...Version` fields with their info, `failStage` is `m_LastFailedInstalledVersionFailureStage` |
| `disk[h][a]` | the fields of these in the application's JSON of the state database |
| `update[h][a]` | `CUpdateApplicationState` and where its coroutine is suspended: `at` is the stage of its last event, `step` the suspension, `target` the version it goes for, `downloaded` is `m_bSetLastTried` |
| `startSequence[h]` | `mp_AppStageChangeSequence` |
| `view[h][g]`, `initialReceived[h]` | `m_AppInfos` and `m_bInitialStateReceived` of remote `g` at `h` |
| `subscribed[h]` | the remotes of which `h` holds a change subscription, that is, whose `m_fOnChange` leads to `h` |
| `inbox[h][g]` | changes published by `g` on their way to `h`, in order |
| `newest`, `retrySequence`, `offered[h]` | the VersionManagers, and what they have told `h` |
| `faults` | counts failures, restarts and disconnects, for a bound |

The stages of `EUpdateStage` are in their numeric order, with those folded
together that no other AppManager and no code of this one tells apart:
`ChangeEncryption` is in `DownloadVersion`, `PreUpdateScript` and
`UpdateApplicationFiles` are in `StopOldApp`, `PostUpdateScript` and
`StartNewApp` are in `SaveApplicationState`. A version is compared with the time
it has, and its retry sequence; an `Attempt` is the two together.

Actions:

| Action | Code |
|---|---|
| `Begin` | `fp_AutoUpdate_Update` finds a version (`fp_FindVersion`) and starts `fp_UpdateApplication`, up to its `None` event |
| `NextStage`, `EnterStage` | the next `fp_UpdateApplication_...` of `fp_UpdateApplicationRunProcess` calls `fp_OnUpdateEvent`, which publishes the wanted stage |
| `StartWait`, `PassWait`, `FailWait`, `AbortWait` | `fp_Coordination_WaitForState`: registration, an evaluation that lets the update go on or fails it, and the timers and the abort |
| `Reached`, `AllReached`, `OurAppsTurn`, `OurTurn` | the conditions of the three waits |
| `ReachStage` | the second half of `fp_OnUpdateEvent`: the stage, the success or the failure is recorded and published |
| `Download`, `Install` | the state changes of `DownloadVersion` and `SaveApplicationState` |
| `Save`, `FailSave`, `UpdateApplicationJson` | `fp_UpdateApplicationJson`, by the update or by somebody else |
| `FailWork`, `Fail` | the error path of `fp_UpdateApplication`: the `Failed` event |
| `Receive`, `Subscribe`, `Disconnect` | `AM_CoordinatedState.cpp` |
| `Restart` | the AppManager stops anywhere and reads its state (`fp_ReadState`) |
| `Release`, `RetryUpgrade`, `Offer` | new versions, a new retry sequence, and the notification of it |

Every change an AppManager makes or hears of evaluates all its waits before
anything else can run in the actor (`fp_OnAppUpdateInfoChange`), and an
evaluation that succeeds is final. The model has the evaluation as a step of its
own (`Evaluate`) and lets a host do nothing else until its waits are settled
(`Settled`), which is the same for everyone.

Where the model is more general than the code: an update may begin whenever
`FindVersion` has a version, where the code waits for a notification, the end of
another update or of a self-update to look again; the timers of a wait may fire at
any time; a `Disconnect` may come at any time. Where it sends more than the code:
a publication carries all applications of the host, not the one that changed,
which leaves the same `m_AppInfos` as no change goes unpublished.

### How `KeyManagerServer` corresponds to the code

| Variable | Code |
|---|---|
| `memory[s]` | `m_Database` of server `s`: `key[x]` and `verified[x]` are the `CClientKey` of client host and identifier `x`, `available` is `m_AvailableKeys` |
| `disk[s]` | what `m_DatabaseActor` has written last |
| `trying[s]` | `m_TryingToUseAvailableKeys` |
| `others[s]` | `m_OtherKeyManagers` |
| `tasks` | the coroutines of all servers, with their local variables, and the calls that have not been handled yet |
| `generated`, `given` | keys taken from the random source, and what clients have been answered |
| `operations`, `faults` | count what is started and what breaks, for a bound |

A task is a coroutine with everything it calls in its own actor; a call to another
server is a task there, with step `"called"`, and its result is put in `answer` of
the caller. A task is named by the calls that led to it (`id`), so that a result
finds its caller. A step of a task is what runs between two suspensions, and the
steps of different tasks of a server interleave. An entry without a key (`Empty`)
is what `f_KeysVerifiedOnServers` makes of a slot it does not know.

| Action | Code |
|---|---|
| `RequestKey`, `CreateKey`, `Finish` | `f_RequestKey`: up to its first suspension, after it, and its answer |
| `TryUseAvailableKey`, `UsedAvailableKey` | the loop of `f_TryUseAvailableKey` around `CInternal::f_UseAvailableKey` |
| `ForwardPool`, `ForwardCreateNewKeys` | a turn of the loops of `f_ForwardPreCreateKeys`, `f_ForwardRemovePreCreatedKeys` and `f_ForwardCreateNewKeys` |
| `Write`, `FailWrite`, `Report` | `f_WriteDatabase` of the database actor, then `f_ForwardVerifiedHosts` |
| `CreateNewKeys`, `KeysVerifiedOnServers`, `UseAvailableKey`, `ReleaseKey`, `PreCreateKeys`, `RemovePreCreatedKeys`, `RemoveVerifiedHosts`, `ForwardedHosts` | `CKeyManagerServerSyncImplementation` |
| `StartPreCreateKeys`, `StartRemovePreCreatedKeys`, `StartRemoveVerifiedHosts`, `CopyKey`, `ForceWriteDatabase` | the operations of the command line |
| `Connect`, `ReadDatabase`, `MergeKey`, `CollectUsedKeys`, `MergePool` | `f_SetupServerSync` finds another server, and `f_SyncFromOtherKeyManager` |
| `Disconnect`, `Restart` | the other server is removed; the server stops anywhere and reads its database |

The database actor takes the copies it is given in order and writes each whole
(its sequencer); when a copy is written makes no difference to anyone but a
restart, so the copy and the write are one step. Calls between servers are handled in any
order. When a connection breaks, calls under way or their answers are lost, the
callers get an error, and what one server was granted by the other
(`m_Subscription`) is released: this is the behaviour of the actor library, which
is outside the repository. Keys have one size, and a client asks for that size.

### How the other modules correspond to the code

Each VARIABLE has the field or the coroutine it stands for in its comment, and
each action is named after the function, or the half of a function after a
suspension, whose steps it takes; `PROJECT.json` gives the lines.

| Module | Code | State and steps |
|---|---|---|
| `KnownHosts` | `AM_CoordinatedState`, `CoordinatedUpdate`, `Remove` | `known`, `database`, `remote` are `mp_KnownRemoteApplications`, its copy in the state database and `mp_RemoteAppManagerState`. `Receive` handles each kind of published change; `Connect`, `Unsubscribe`, `RemoveTrust`, `Disconnect` are the subscription; `RemoveKnownHost` and `KnownHostRemoved` the removal at every host; `StartWait` and the evaluation inside each change are the wait that compares the known hosts; `Restart` reads `fp_ReadState` |
| `AppLifecycle` | `ApplicationManagement`, `Application`, `Dependencies`, `Launch`, `Encryption` | `op` is the operation in progress with those that wait for it (`f_SetInProgress`); `stops` are the calls of `f_Stop` from `StopBegins` over `DependentsStopped` and `ProcessStops` to `StopReturns`; `Visit` is one application of `fp_UpdateApplicationDependencies`; `Start`, `Launched`, `Exits`, `Relaunch` the process; `EncryptionOpens` and `KeyManagerConnects` the encryption storage. `stuck` and `late` are ghosts: whose stop failed, and what was launched in the middle of a stop |
| `ApplicationSettings` | `Add`, `ChangeSettings`, `Remove`, `Update`, `Settings`, `Application` | `objects` and `applications` are the `CApplication` objects and `mp_Applications`; an operation is at one of its suspensions; `data`, `saves` and `disk` are `m_StateDatabase.m_Data`, the queued `f_Save` and the file. A setting's value is the operation that gave it |
| `UpdateEvents` | `UpdateEvent`, `Database_Notification`, `Database_Cleanup` of the AppManager; `Notifications_Updates`, `Protocol` of the CloudManager | from `NewEvent` with its number, `Stored` and `SendEvent`, or `ReplayRead` to `QueuedSent` for a subscription that catches up, to `Receive`, `Process` and `ReportDeferred` |
| `Reboots` | `RebootPrevention`, `Reboot` | `opening` and `watch` are the coroutine and the entries of `fp_RebootPrevention_WatchSensor`; `caller` is an `fp_Reboot` by the schedule or by a command, with its ten seconds and its script |
| `RebootSchedule` | `HostMonitor_RebootSchedule`, `AM_HostMonitor_Reboot` | one step of the search moves the date in one field, as the loop of the code does; then the timer, the reboot and the saving of its time |
| `SecretFiles` | `SecretsManager_Protocol_FileTransfer`, `Server`, `Database`, `SecretProperties` | reference counts of files, uploads and downloads, removal of a file that nobody has, and the queue of writes of the database |
| `SecretChanges` | `SecretsManager_Protocol_Changes` | `checks` are the permission checks that a change awaits, `wire` what is sent, and the full list at first or after an error |
| `VersionSync` | `VersionManager_Sync`, `Protocol_Updates`, `Protocol_Tags`, `Database` | `tasks` are the notifications as calls between managers, with the sequencer of a version; steps up to the download, the merge of tags and retry sequence, the save, and what is told to the next manager |
| `VersionFiles` | `VersionManager_Database`, `Protocol_Upload`, `Protocol_Tags` | uploads, tag changes and `f_RefreshDatabaseFromDisk` over the files, `VersionInfo.json` and the database |
| `AppDistribution` | `AppDistributionManager_AutoUpdate`, `VersionUpdates`, `Deploy_FileSystem`, `Add`, `ChangeSettings`, `Remove`, `Database` | versions offered, those that wait for `mp_DistributeSequencer` and those that have it, `Releases.json` and `Latest.json` |
| `Backup` | `BackupManagerClient*`, `BackupManager_BackupInstance*`, `BackupSource` | the directory, the notifications about it, the client's manifest and session, the server's manifest, `Sync` and `Latest` with the hard links between them |
| `FileTransfer` | `FileTransfer_Send`, `FileTransfer_Receive`, `VersionManager_Helper` | the sender's generator, the file the receiver is at, blocks written in any order, the subscriptions that count |
| `DebugUploads` | `DebugManager_Protocol_CrashDumpUpload`, `Protocol_AssetUpload`, `Notifications`, `DebugManagerHelper` | uploads, files added one by one, and the dumps that a timer or a stop reports |
| `NetworkTunnels` | `TunnelProxyManager`, `NetworkTunnelsServer`, `NetworkTunnelsClient` | `Reload` to `Registered`: a configuration becomes a publication; `SendInitial`, `SendChange`, `Deliver`: a client learns it; `RemoveActor`: a tunnel leaves a server that stopped to publish |
| `TunnelConnections` | `NetworkTunnelsServer`, `NetworkTunnelsClient` | the entry, the socket and the two functors of one connection at each end, `NewConnection` to `Opened`, and every way to close |
| `SensorNotifications` | `CloudManager_Notifications_Sensors`, `Monitor` | readings that become problems after a time, the messages in a Slack thread, and what of them is saved; a post, a read and a write of the database may fail |
| `LogNotifications` | `CloudManager_Notifications_Logs` | `queued` and `sending` are the entries that wait and those of the message being posted, `lastSeen`, `global` and `saved` the timestamp in the actor, in its state and in the database; a post and a save may fail |
| `AppManagerRegistry` | `CloudManager_Protocol`, `Database`; `AM_ChangeNotification`, `AM_CloudManager` | `registration` is an `f_RegisterAppManager`; `held` and `writes` are its notifications before and in the database's queue; `Remove` and `RemoveData` are the two halves of `f_RemoveAppManager` |
| `ExpectedOsVersions` | `CloudManager_Protocol`, `CloudManager.cpp`, `AM_CloudManager`, `HostMonitor_Patch*` | the ranges in the managers' databases, the subscription with what is queued while its first answer is read, and the passes over versions and patches |
| `ConfigMonitor` | `HostMonitor_Config` | a check reads the file, compares with the last value of the database, logs and stores; each of the four may fail, which ends the check (`missed`) |
| `DiskSpace` | `HostMonitor_DiskSpace` | `task` is a call of `f_MonitorPath` or the end of its subscription; `owner` and `step` are the update that has the sequencer |

What all of them share: the actors' queues deliver calls of one connection in
order, but for those of `VersionSync`, which any interleaving of the calls may
order; a broken connection ends the calls under way with an error; a database
write is all or nothing. These are behaviours of the actor library and of the
database, which are outside the repository and taken from how the code uses
them (marked `external` in `PROJECT.json`).

## Runs

Run those whose cfg starts with `CU` on `MCCoordinatedUpdate`, those with `KM` on
`MCKeyManagerServer`, `components.cfg` on `MCCloudComponents` and `services.cfg` on
`MCCloudServices`: `tlc -config <cfg> <module>`.

| Run | Instance | What it shows |
|---|---|---|
| `two_hosts` | two hosts, one application each, one release, two faults | `OneAtATime`, `OneCasualty`, `TypeOK` and the inductive `RolloutInvariant` |
| `one_host_retry` | one host, two applications of a key, one release and a retry of it, two faults, timers | `RolloutInOrder`, `RollsOut` (the refinement), `FailureWasTried` |
| `two_keys` | two hosts, a one-at-a-time and an all-at-once application on each, no faults, no timers, fairness | `OneKeyAtATime`, `ReadyBeforeStop`, `RolloutCompletes` |
| `versions_overlap` | a second release | finds `OneAtATime` violated |
| `retry_after_install` | one application, a retry, one fault, fairness | finds `RetryIsTried` violated |
| `wait_timeout` | two releases and timers | finds `FailureWasTried` violated |
| `km_pool` | two servers with a client each, three requests or pre-creations | `TypeOK`, `OneSlotPerKey`, `VerifiedServersHoldKey`, `UsedKeysLeavePool`, `ServersAgree` |
| `km_faults` | requests, pre-creation and synchronisation, one fault, fairness | `WrittenKeysStay`, `TasksEnd` |
| `km_two_creators` | a client asks both servers for one identifier | finds `ServersAgree` violated |
| `km_three_servers` | three servers, one pre-created key, two requests | finds `OneSlotPerKey` violated |
| `components` | nine components one at a time, faults, fairness; 560 000 states | safety and liveness, below |
| `services` | fourteen components one at a time; 700 000 states | safety, below |

Deadlock is not checked, as the systems rest when everything is installed, answered
or has failed, or when the bound on events is reached; the liveness properties say
that they do not rest before.

In the last two the first state chooses the component, and only that one takes
steps, so the states of the components add up and are not multiplied; nothing is
said about two of these components together. A property of such a run is about one
component or a few of one subject:

| Property | About | In words |
|---|---|---|
| `TypesOK` | all | every variable has its type; in `SecretFiles` that a reference count is not negative |
| `ViewsAreTrue`, `RemovalIsDurable`, `WaitsEnd` | `KnownHosts` | what is believed of another AppManager is true once the changes have come; a removed host stays removed; a wait goes on or fails |
| `StopsHold`, `AppsComeBack` | `AppLifecycle` | dependents stop first and what a user stopped stays down; in the end operations are answered and what should run does |
| `EventsAreKept`, `EventsAreReported` | `UpdateEvents` | nothing counts as seen that is not stored, and a number is not used twice; a stored event is reported |
| `SecretsHaveFiles`, `FilesAreRemoved` | `SecretFiles` | a secret's file is there and opens with its key, on disk too; others go |
| `VersionsAreTrue` | `VersionSync`, `VersionFiles` | no error means that the source's versions are there; a listed version has the files of its upload and the description that was stored |
| `BackupIsCurrent` | `Backup` | when the client says that all is done, the backup is the directory |
| `HostMonitorIsRight` | `RebootSchedule`, `DiskSpace` | the host is rebooted at the next time of the schedule, once a day; a watched path is held, with its reporters |
| `LoopsEnd` | `VersionSync`, `VersionFiles`, `RebootSchedule`, `DiskSpace`, `Backup` | synchronisations, refreshes, searches, updates and backups come to an end again and again |
| `FilesArriveWhole` | `FileTransfer`, `DebugUploads`, `AppDistribution` | a directory that was received is whole; an upload that succeeded is in the database; a version that should be deployed is or was tried, and is among the releases |
| `TunnelsAreTrue` | `NetworkTunnels`, `TunnelConnections` | a tunnel leads to a server that publishes it; a connection is open at both ends or neither |
| `CloudManagerIsTrue` | `SensorNotifications`, `LogNotifications`, `AppManagerRegistry`, `ExpectedOsVersions` | Slack shows what it should, unless a step of an update failed; the applications are those of the AppManager; the status of a host follows the managers' databases |
| `AppManagerIsRight` | `ApplicationSettings`, `Reboots` | acknowledged changes are in memory and on disk, operations take turns; no reboot is let through that something prevents, one script at a time |
| `HistoryIsTrue` | `ConfigMonitor`, `DebugUploads` | the history of a file ends with the file, unless a check of its last change failed, and has a logged change for each step; a dump is logged, once |
| `SubscriberIsRight` | `SecretChanges` | a subscriber has the secrets that match, as they are |
| `KeyServersAgree` | `KeyManagerServer` | without a fault the servers end with the same entries, also when every operation is asked of one of them for two identifiers |

### Bounds

Of the coordinated update and the key managers:

- `MaxVersion`: 1 is one release. The order of a rollout is promised for one
  release only; two releases are what `versions_overlap` is about.
- `MaxFaults`: 2, so that a failure can be followed by a restart, or two hosts
  fail, or a connection breaks around a restart. The invariants are proved for
  any number.
- `MaxInFlight`: 1 change per subscription. A host whose subscriber has not read
  the last change waits before it publishes the next; news is still arbitrarily
  late in relation to everything the host does that it need not publish (`Download`,
  `Install`, `Save`, a restart) and to every other host. The theorems do not
  depend on the bound.
- `MaxStarts`: 1 to 4, large enough that every update of the run can have its
  `SyncStart` event, as often as faults and retries allow within the bound.
- `MaxRetry`: 1 where a retry is part of the question.
- Two hosts are enough for a turn to pass between hosts and two applications on
  one host for it to pass within a host; with two keys on two hosts (`two_keys`) the
  waits for a turn, for a barrier and for another key meet, so that a circle of waits
  would have somewhere to form.
- `MaxOperations`, `MaxFaults`, `MaxPool` of the key managers: two operations are
  what can be in each other's way, a third makes the pre-created key they compete
  for or the synchronisation after a fault; one fault at any place breaks any one
  task, and what it leaves is met by the others. `Operations` says which of them a
  run starts and where. There are as many keys as a run can use. In `services` the
  servers have two identifiers, all operations at server 1, two operations and a fault.
  Two servers are a bound that matters: `km_three_servers` shows what a third one does.

Of `components` and `services` (`MaxEvents`, `MaxChanges` and the like bound what
users and the surroundings do: changes, failures, losses, restarts; what follows
from them is not bounded):

| Module | Instance | Why it is enough |
|---|---|---|
| `KnownHosts` | three hosts, two that trust each other and a third that comes later and asks nobody; one key; host 2 may be removed; one change, one fault | a host is heard of from a third party, and a removal meets hearsay and a restart |
| `AppLifecycle` | three applications, each depending on all before it, the first encrypted; stop and start of the middle one and restart of the first | an operation in the middle has both dependents and dependencies |
| `ApplicationSettings` | parent and child, one setting that needs a stop and one that does not, three events | two operations on one application or family, and a crash |
| `UpdateEvents` | three events, of two updates; one fault | an update with a later event, and one that comes during a replay |
| `Reboots` | an application with two sensors, two callers, three events | one sensor in the other's way, two reboots at once |
| `RebootSchedule` | a calendar of 2-minute hours, 2-hour days, 3-day weeks and months of 4, 3 and 4 days with a leap day; schedules of every kind, one with a day that no month has | each field wraps around, and impossible dates and the leap day occur; the search is the same code with smaller numbers |
| `SecretFiles`, `SecretChanges` | one secret and two files, three changes; two secrets, two changes and two full lists | an upload replaces another's file while it is downloaded |
| `VersionSync`, `VersionFiles` | two managers that synchronise with each other, three events; two uploads of two files, two events | a notification comes back to where it came from; an upload in the middle of a refresh or another upload |
| `AppDistribution` | one version manager, two versions, two deploys at a time, three changes and a fault | deploys beside each other and a change during one |
| `Backup` | two files, two events of a write, deletion, move, break or restart | a move is what relates files, and two events meet in any step of a transfer |
| `FileTransfer` | two files, one of them a link, three contents of one or two blocks, three events | a resumed file is shorter, longer or different, a block is missing |
| `DebugUploads` | two uploads that share a dump, one event | files of a dump added by two, around the timer |
| `NetworkTunnels`, `TunnelConnections` | two servers and two tunnels, two events; one connection and four closes | a tunnel has to change servers; each end closes twice |
| `SensorNotifications`, `LogNotifications` | two sensors, two events; three entries, two faults | one is posted while another changes; an entry before, in and after a message |
| `AppManagerRegistry`, `ExpectedOsVersions` | two applications, two connections, two events; two managers, two events | a registration overtakes another; two managers' ranges are merged |
| `ConfigMonitor`, `DiskSpace` | two subscriptions of a file, two events; two clients and the mount, two options and two of three reporters, four events | checks of two subscriptions interleave; clients come while others go and an update runs |

### Fairness

`FairSpec` of the coordinated update has weak fairness of `Active(h)` for every host:
an AppManager that has
a registered evaluation to make, a step of an update to do, a change to receive,
a subscription to make or a version to learn does not stop for good. That is what
the actor's queue gives: whatever is in it is run. No fairness is assumed of
releases, retries, faults, timers, or of any one action, so nothing in
`RolloutCompletes` depends on a timer that comes to the rescue.

For the key managers, `FairSpec` has weak fairness of all steps of tasks together:
while there is one that can run, one of them does. No server has to find another
one, and no client to ask.

For the components of `MCCloudComponents`, weak fairness of the `Progress` of the
one that runs: what is in an actor's queue is run, calls return with a result or an
error, a database writes, a process that is told to stop stops, timers that the code
has set fire, and connections and key managers that are to come back do. No
fairness is assumed of users, faults, new versions or changes of files. As it is
fairness of all these steps together, no step is preferred to another.

## Proofs

`tlapm <module>.tla` checks each of the eight modules with theorems: those
named `..._proofs`, and `CloudComponents_hosts`.

For the coordinated update:

- `TypeCorrect`: `TypeOK` is an invariant. Inductive together with `LastStage`: no
  stage follows `Finished` or `Failed`.
- `OneAtATimeHolds`, `RolloutIsInOrder`, `OneCasualtyHolds`: for a single release
  (`MaxVersion = 1`) and any hosts, applications, keys, update types, numbers of
  faults, retries and changes under way.
- `ImplementsRollingUpdate`: for a single release, `Spec` implies `RollsOut`, that
  is, the phases of each one-at-a-time key behave like `RollingUpdate`.
- `RolloutInvariantHolds`: the inductive invariant that these rest on, which
  `two_hosts` checks too.
- `PrefixHolds`: for a single release, what `RollingUpdate` promises holds of every
  one-at-a-time key: an instance that has had its turn has every earlier one behind it,
  with the release. It follows from the steps of the abstract specification
  (`PrefixStays`) and from the steps being such.

The properties are not inductive: that only one application is down follows from
what a host knew when it took its turn, and what it knew is old. The inductive
invariant is `RolloutInvariant`, in three parts:

- `StepsInOrder`: what an update has achieved by the stage it is at, in memory and
  on disk;
- `SuccessIsTrue`: every report of success, in a memory, in a view or still under
  way, is about an application that has the release *for good* (`HasRelease`: it
  is installed in memory and on disk and no update of it can start again, not even
  after a crash). This is what makes old news harmless: the only news that grants
  a turn is news that stays true;
- `TurnsInOrder`: an application has had its turn only when every smaller one has
  the release for good.

A turn is granted when every smaller application is seen to have finished
(`TurnIsKnown`), so by `SuccessIsTrue` all of them have the release for good, and
`TurnsInOrder` holds for the one that takes it. Everything after the turn is within
one application. `OneAtATime`, `RolloutInOrder` and `OneCasualty` then follow, as of
two applications one comes first. `Order` compares hosts and names as numbers,
where the code compares strings.

`MaxVersion = 1` is needed: `versions_overlap` is a counterexample without it.

For the key managers, from `ConstantsAssumption` alone, so for any number of
servers, clients, keys, operations under way and faults:

- `TypeCorrect`: `TypeOK` is an invariant, which says among the rest that a client
  is given a key and never `Empty`;
- `DatabaseIsAppendOnly`: `WrittenKeysStay`.

The inductive invariant `IInv` adds two things to `TypeOK`. `RequestsHaveKeys`: a
request that has got past the creation of its key has a key in its entry, although
it is suspended at every forward and at the write; without this a report that
arrives first could leave the entry without a key (`Empty`), and that is what the
client would be given. `DiskIsMemory`: an entry on disk is the one in memory or is
not there yet. Every step but one only adds entries to memory (`KeysStay`) and
writes a memory as it is (`DiskStep`), which is proved action by action (`Kept`).
The exception is `Restart`, after which memory is what was on disk, and the requests
of the server are gone with it.

For the barrier of the coordinated update:

- `ReadyBeforeStopHolds`, for any number of releases, and across failures, timeouts,
  broken connections and restarts. What makes old news harmless here is not that it
  is still true but that what it implies is: `Barrier` says that whoever announces
  that it is ready to stop, or that it has finished, has *tried* a release by what its
  JSON on disk says (`ReadyIsTrue`), which nothing takes back.
- `FailureWasTriedHolds`, for a single release: an application is at a stage after
  `DownloadVersion` only in an update that has downloaded the release (`Downloads`),
  so that a failure which is recorded as one after `DownloadVersion` was one. With two
  releases the stage may be that of the update before, which `wait_timeout` finds.

For the other components, as theorems of the specifications that `components` and
`services` check on their instances; so a component's theorem holds for every value of
the constants that its named assumption allows (`SFAssumption`, `DSAssumption`,
`VFAssumption`, `UEAssumption`, `KHAssumption`, `ALAssumption`, `NTAssumption`, `DUAssumption`,
`ASAssumption`, `RBAssumption`, `RGAssumption`, `OVAssumption`: bounds are numbers, files and events are numbered from
one, the sets of clients of a path and of names of applications are finite, the hosts
connected at first are hosts, no application is its own parent or is named like another cause of a stop, and what stands for
nothing is not something; the managers whose expected versions are merged, and the keys of these
versions, are numbers in the order in which they count, and the keys are finitely many). In these modules the
names of the parts of an invariant begin with the initials of the component, and each
begins with what other components leave alone (`...Frame`, `...Stays`).

- `SecretsHaveFilesHolds` (`SecretFiles`). The file of a secret is safe from everybody
  else: a file in any of the four copies of the database (in memory, waiting to be
  written, being written, on disk) belongs to one secret (`SFOneOwner`), is of no upload
  (`SFUploadsStand`), has not been removed and is on disk with the right key, unless a
  known fault lost it (`SFFilesKept`, `SFFilesThere`, `SFKeys`); and what is to be
  removed after a write is not in what is written (`SFDueAfterWrite`).
- `PathIsHeldHolds` (`DiskSpace`): the count of a path is the number of those who watch
  it or are about to, and of the calls that failed, and a path with a count is there. It
  needs that an update waits for the path only as the mount. Its reporters are opened in
  order by one call at a time (`DSInTurn`), which is why they match its options.
- `ListedIsTrueHolds` (`VersionFiles`): what one upload or refresh has on disk, in the
  description, in the database and in the list differs from another copy only while
  somebody is under way who will write it, in the order in which the code does, or
  when one of the named histories has come in.
- `EventsAreKeptHolds` (`UpdateEvents`): a stored event that the CloudManager has not
  processed is always still to come. It is later than the number that is saved
  (`UESavedIsKept`), or in one of the queues, of the AppManager, on the wire or of the
  CloudManager, ahead of everything later (`UEInOrder`); a replay that is under
  way reads it or has it (`UEOpenIsUnderWay`). The numbers in each queue only grow.
- `ViewsAreTrueHolds` (`KnownHosts`): of the changes on their way from one host to another
  the last one that tells of an application, or of a host that is known for it, says
  what is so; and when none tells of it the other believes it already (`KHFollows`). A
  subscription begins with a change that tells of everything, so whatever was under
  way before it does no harm. The end of an earlier subscription comes to nothing
  once there is a new one (`KHEndsAreOver`), so who is subscribed is told
  (`KHLiveIsTold`).
- `StopsHoldHolds` (`AppLifecycle`). Of the calls that stop an application one holds it from
  its first step to its return, which is what `m_bPendingStop` says (`ALHolds`); the call
  that found it running is the first to begin, and lasts as long as its process does.
  The status that a call sets keeps the application from being launched in between, so
  that of the dependents of an application that is about to be told to stop each is
  down or has a call of its own under way, which the call for the application waits for.
  What a user has stopped stays down because its launch is prevented
  (`m_bPreventLaunch`), which only an operation of a user takes back.
- `TunnelsAreTrueHolds` (`NetworkTunnels`, `TunnelConnections`). Of the publications:
  what the client will have been told once everything on its way has arrived (`NTTold`)
  is what the server publishes, but for the change that it is about to send, and an
  open tunnel leads to a server of which the client has been told. Of the connections:
  for each end, each functor and the answer under way, what the other end can then be,
  so that whoever is open still has somebody who will tell it of the close.
- `CloudManagerIsTrueHolds`. Of `LogNotifications`, for a log of any length: the four
  numbers are in their order (saved, in the state, seen, delivered); each matching entry up
  to the one delivered is queued, being posted, posted, or lost to a known fault; and a
  queue that is not empty will be posted. A restart goes back to the saved number, and
  everything up to it is accounted for by a posted message. Of `SensorNotifications`: the
  problems an update is going to post are the reported and lasting ones among the sensors
  it has looked at (`SNProblemsAreReported`); unless another update has been asked for,
  a sensor that was looked at is as it was then (`SNLookedAreFresh`); as long as an update
  has found nothing resolved all that Slack shows is still reported (`SNShownStays`), and
  between two updates Slack shows just what is (`SNShownIsReported`). An update that
  ends early, because it could not read or write the database, is out of the last three
  until a later message (`silent`). Of
  `AppManagerRegistry`: what is said last of an application, on the wire, in the write behind
  the permissions or in the queue of writes, is what the AppManager has, and the row in
  the database is when nothing more is said (`RGWireIsTrue`, `RGWritesAreTrue`,
  `RGRowsAreTrue`); a removal has the entry to itself (`RGRemoveIsAlone`) and leaves
  nothing (`RGGoneIsEmpty`). Of `ExpectedOsVersions`: of the changes of a key, announced,
  queued for the first answer, being read or on their way, the last has what the
  database has, and with none the HostMonitor knows it (`OVTold`); what it expects is
  what it knows, merged (`OVExpectedIsMerged`); the status it has reported is that of what
  it expects, once no pass waits (`OVReportIsCurrent`); and the problems it remembers are
  those on disk (`OVSavedAreProblems`).
- `SubscriberIsRightHolds` (`SecretChanges`): for each secret the last change that waits for
  its permission check has what the secret is (`SCLastCheckIsTrue`); with no such
  change, what the last call under way that is about the secret says is what it is, or the
  subscriber has it (`SCToldIsTrue`), or the full list that is being checked will tell
  (`SCListIsTrue`).
- `HistoryIsTrueHolds`, of `ConfigMonitor`: unless the last entry is the file as it is
  or a check has failed (`missed`),
  somebody is going to compare the two, or has compared them since that entry was stored
  (`CMSomebodySees`); the only check of a subscription that is not to be notified
  has the file as it is (`CMLastIsFresh`); a write belongs to the check that waits for it;
  and without a race one check at a time has compared and not stored yet
  (`CMOneCompares`). Of `DebugUploads`: a file of a dump is nowhere before it is in the
  database, and then in one place: with the upload that added it, pending, in one
  report, or logged; and somebody comes for what is pending.
- `SuccessIsTrueHolds` (`DebugUploads`): the files that an upload no longer has to send are
  in the database.
- `AppManagerIsRightHolds`. Of `ApplicationSettings`: an operation that is past its wait
  has the object that it works on to itself (`ASHolderIsBusy`, `ASFamilyTakesTurns`), an
  object that is being added is nobody else's (`ASUnbornIsNew`), and what an operation is
  going to write has its own values for its keys, and for the others what the object has,
  unless it waited since it read them (`ASNewIsReady`). Every snapshot that is still to be
  written has only values that are allowed, the last one is the database
  (`ASLastSaveIsData`), and one that belongs to an operation under way has what that
  operation wrote (`ASSavesAreOf`); so a crash, after which the disk is what there is, takes
  back nothing that was acknowledged. Reading the database back gives each name one object
  (`ASReadFacts`), as the names are put in an order without repetition (`ASNamesInOrder`).
  Of `Reboots`: a sensor that was opened is watched with the flags it was opened with and
  the last reading under way to it is the last there is (`RBReadingsCome`), so that once
  nothing is under way a bad sensor has set the flags of its application (`RBFlagsAreSet`);
  and who runs a script has seen that none runs (`RBScriptIsOne`).

Some of these need that a set of numbers has a least or a greatest member. The induction
theorems of the library cannot be instantiated by the provers at hand; `LeastExists` in
`FileServices_proofs` counts instead: as many numbers are below a number as the number
says (`InitialSegment`). `OVFirstExists` and `OVLastExists` in
`CloudManagerServices_proofs` do the same for places in a queue and for finite sets.

Model-checked only:

- everything under fairness (`RolloutCompletes`, `RetryIsTried`, `TasksEnd`, `WaitsEnd`,
  `AppsComeBack`, `EventsAreReported`, `FilesAreRemoved`, `LoopsEnd`), as liveness is
  beyond the prover;
- what the key managers agree on (`OneSlotPerKey`, `VerifiedServersHoldKey`,
  `UsedKeysLeavePool`, `ServersAgree`), which is not true for every value of the
  constants: the first and the third fail with three servers (`km_three_servers`), the
  others with faults or with a client that asks two servers;
- `OneKeyAtATime`, which is true without faults only;
- what has no proof yet: `KnownHosts` (`RemovalIsDurable`), `VersionSync` (a part of `VersionsAreTrue`), `Backup` (`BackupIsCurrent`), `RebootSchedule` (a part of
  `HostMonitorIsRight`; the days of a calendar are computed by recursion), `FileTransfer`
  and `AppDistribution` (parts of `FilesArriveWhole`), and that all components together
  have their types (`TypesOK`).

## Findings

- `versions_overlap`: with a second release during the rollout of the first, two
  applications of a one-at-a-time key can be down at once. The turn treats an
  application that is `Finished` as done, whichever version it finished.
- `retry_after_install`: an update that fails after the new version was installed
  (a post-launch script that fails, say) is not retried by `--retry-upgrade`.
- `wait_timeout`: an update of an already updated application that times out in
  its first wait is recorded as a failed installation of the version.
- `km_two_creators`: two key managers that are asked for the same identifier at
  once, as the SecretsManager does, end with different keys that each counts as
  verified on both. `OneSlotPerKey`, `VerifiedServersHoldKey` and `ServersAgree`
  hold when each client asks one server (`km_pool`).
- `km_three_servers`: a pre-created key goes from each of three servers to each other one,
  and is put into the pool of whoever does not have it there, used or not. A server
  that has used it may get it again from the slower way round, and gives it to a second
  identifier. No fault is needed. `OneSlotPerKey` and `UsedKeysLeavePool` hold with
  two servers (`km_pool`).

### Seen on the way

Behaviour of the code without a statement in the repository to hold it against.
Where a model has it, the ghost variable in parentheses marks it, and the
properties are about everything else.

- **KeyManager.** A request that lost to another one for the same identifier loses
  the pre-created key it took. A server that is found after a key was forwarded and
  before the report of it has an entry without a key from then on, and refuses the
  key as a conflict. A key that comes into use during a synchronisation can be put
  back into the pool of that server.
- **Known hosts.** A key of another group or application makes the loop of
  `f_RemoveKnownHost` go on without advancing (`AM_CoordinatedState.cpp:162`), and
  the actor does not return (`hung`). A host that forgets another while that one is subscribed
  drops its change functor (`deaf`).
- **Launch and stop.** A stop of an application whose encryption is being opened finds no
  process, and succeeds while the launch goes on (`late`, `Launch.cpp:107` and
  `Application.cpp:285`): the application then runs although it counts as stopped, and is not
  launched again when it exits (TLC shows this with a dependent that is encrypted). One
  that is relaunched before a call that stops it has returned may run on while the
  applications that it depends on are stopped (`late`).
- **Settings.** Two additions of one name both insert an object (`doubled`,
  `Add.cpp:616`); an application can be added while its parent is busy (`joined`,
  623); settings read before a wait overwrite newer ones (`stale`,
  `ChangeSettings.cpp:205`). `Remove` does not look at children and looks the
  application up by name again after its wait. In `Update.cpp` the `RequiredTags` of
  line 182 hides that of 166, so `m_RequiredTags` (268) stays empty. The time
  waited is subtracted twice in `Application.cpp:188`. A failed save of an addition leaves
  the application in memory.
- **Reboots.** A sensor's flags overwrite those of another sensor of the same
  application (`masked`, `RebootPrevention.cpp:113`), and the entry of a sensor
  that is opened again without flags stays (137). `mp_bRebootScheduled` is not reset
  when saving fails or a reboot is given up.
- **Update events.** One report that fails drops the rest of a pass
  (`Notifications_Updates.cpp:125`); the first registration takes the newest event
  as seen (`since`). A write that fails at the CloudManager is the answer that ends the
  replay, and what it had still to send is then behind later numbers (`excused`); the
  attempt to prove `NoEventLost` showed it, which first left out the failed event only.
- **SecretsManager.** Of two uploads for one secret the first wins
  (`FileTransfer.cpp:372`); files of a restart in the middle stay (`orphans`);
  `fp_UpdateTags` decrements the counts of tags of other secrets
  (`Server.cpp:316`); a secret that stops matching is not reported as removed
  (`Protocol_Changes.cpp:113`).
- **VersionManager.** An early return before the sequencer (`Sync.cpp:692`) may
  forget a newer version; a full list clears the error of a newer one (589); two
  managers that synchronise with each other may wait for each other's sequencer
  (`crossed`, `Sync.cpp:728` and `Protocol_Updates.cpp:130`); saves of tags may cross
  (`Protocol_Tags.cpp:128`); a refresh may take over or overwrite a file of an upload
  (`adopted`, `overwritten`).
- **AppDistributionManager.** A version is taken as tried that was not
  (`missed`, `AutoUpdate.cpp:313`); two deploys may write the list of releases at
  once (`overlapped`, `Deploy_FileSystem.cpp:184`).
- **BackupManager.** A rename in `f_Commit` does not find its `Sync` file when it was
  already committed in the session (`astray`, `BackupSource.cpp:580`); in the initial
  phase a file that is renamed, deleted or moved back can stay pending
  (`forgotten`, `BackupInstance.cpp:544`, 940, 1016), so that the first commit never
  comes; a `Sync` file that is a hard link is written in place
  (`RSync.cpp:256`); `Append.cpp:79` and 101 construct errors that are not thrown; an
  upload whose `f_CommitFile` fails counts as finished (`BackupInstance.cpp:179`).
- **CloudManager.** Of sensors, a failed post counts as sent; a failed read of the
  database ends an update after the flags of the sensors before it were cleared
  (`Notifications_Sensors.cpp:278`, 347), so that what was resolved is never said; and a
  failed write returns before a problem that is too new is scheduled again (607 and 613,
  all `silent`). A message keeps ten attachments (`Notifications.cpp:218`). Of
  logs, entries that wait while an earlier post ends are saved as seen (`lost`), and
  entries of an unknown log are dropped. A notification may overtake the first
  one of its registration (`overtaken`), or outlive the removal of its AppManager
  (`orphaned`). The first range set for a key is not announced, and subscriptions
  are never removed (`silent`); the removal of a manager does not merge the ranges again
  (`departed`); the first pass after a restart has no ranges and forgets since
  when there was a problem; `bUpdateDatabase || co_await` leaves out the patch status
  of a pass (`HostMonitor_Patch.cpp:35`).
- **HostMonitor.** A failed `f_MonitorPath` keeps its reference, and the reporters
  are never opened again (`leaked`); calls with different options may leave a mixture
  (`raced`). Two checks of a configuration file may both compare with the same old
  value (`raced`); a check that cannot read the file or the database, report or store
  ends, and nobody tries again until the file changes or is monitored anew (`missed`,
  283, 334, 336); a change is logged before it is stored; a last entry that cannot
  be read lets the new value start at sequence 0 again (`HostMonitor_Config.cpp:283`).
- **DebugManager.** Files added after the last pass of a stop, and those of a report
  that failed, are not logged (`forgone`).
- **Tunnels.** A publication that could not register its permission stays and is not
  tried again (`failed`).

## Not modelled

- Of the coordinated update: manual updates with their own flags, dry runs, updates
  from a file and the self-update that the next run finishes (they use the same
  events; the flags change single guards); applications without auto update, which
  the waits skip; hosts of a key that change (`KnownHosts` has them, without the
  stages).
- Of the key managers: key sizes, the permission for the synchronisation interface,
  protocol versions before 0x103; the daemon's password and the encryption of the
  database (the model takes it as written whole and in order, or not at all).
- Of the lifecycle and the settings: applications without an executable, pre-stop
  steps and backups, validation, permissions, the details of version information; a
  crash of the AppManager is in `ApplicationSettings` but not in `AppLifecycle`.
- Of the VersionManager: several versions at once, filters, start dates, minimum
  versions, pretend mode, removal of versions; a download by a client is only
  `FileTransfer`.
- Of backups: append files, directories and links, several managers, earlier
  backups and their cleanup, downloads, the delay before the start, the number of
  transfers at once.
- Of file transfers: the deprecated protocol, compression, attributes, directories,
  and late writes of an aborted attempt.
- Of the CloudManager: the cleanup of its database (it depends on how times that were
  never set compare, which is outside the repository), permissions and filters,
  alerts and outdated readings of sensors, sensors and hosts that are removed, and
  which entries a message leaves out beyond ten attachments.
- Of the HostMonitor: memory and the values of sensors, parsing and
  differences of files, entries of the history that cannot be decoded, automatic
  updates of the system, seconds, local time and
  the wait of ten minutes after a reboot.
- Of the DebugManager: downloads, deletions and lists; of the tunnels: the proxy
  protocol and users that may not connect to all.
- CloudAPIManager forwards each call to OpenStack Swift and keeps nothing, CloudClient
  makes one call per command and prints the answer, VersionInfo and TestApp are
  data and a test: there is no state of theirs to model.

Hazards that the models leave aside, each of which is a good next question: the
crash between the save of the application and that of `Finished`
(`AM_UpdateEvent.cpp:326`); an update that fails twice without a stage between
(290); a retry sequence that is increased while an update runs
(`AM_UpdateProcess.cpp:211`); the order of two keys when two releases come at once
(`AM_CoordinatedUpdate.cpp:71`); the pre-created key of a request that lost to
another (`KeyManagerServer_Protocol.cpp:124`), and one that comes into use during a
synchronisation (`KeyManagerServer_ServerSync.cpp:294`).
