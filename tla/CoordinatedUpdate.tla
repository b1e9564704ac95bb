-------------------------- MODULE CoordinatedUpdate --------------------------
(***************************************************************************)
(* The coordinated application update of the AppManager.  Every host runs  *)
(* one AppManager actor; AppManagers subscribe to each other's published   *)
(* application state and drive each update through the stages of           *)
(* EUpdateStage, waiting at None, SyncStart and StopOldApp for what they   *)
(* see of the others.                                                      *)
(*                                                                         *)
(* A step of the model is what the actor does between two suspensions, so  *)
(* everything that can run between two co_awaits can run between two       *)
(* steps.                                                                  *)
(***************************************************************************)
EXTENDS Naturals, Sequences, FiniteSets

CONSTANTS
  Host,         \* host IDs of the AppManagers, numbered in their string order
  App,          \* application names of an AppManager, in their string order
  Key,          \* CRemoteApplicationWithTypeKey: group, application and type
  KeyOf,        \* the key of each application
  TypeOf,       \* EDistributedAppUpdateType of each key
  MaxVersion,   \* bound: versions released after the installed one
  MaxRetry,     \* bound: times the retry sequence of a version is increased
  MaxStarts,    \* bound: SyncStart events of one AppManager run
  MaxInFlight,  \* bound: undelivered changes on one subscription
  MaxFaults,    \* bound: failures, restarts and disconnects together
  TimersRun     \* whether the timeouts and aborts of the waits can fire

UpdateType == {"Independent", "OneAtATime", "AllAtOnce"}

ASSUME ConstantsAssumption ==
  /\ Host \subseteq Nat /\ App \subseteq Nat /\ Key \subseteq Nat
  /\ KeyOf \in [App -> Key]
  /\ TypeOf \in [Key -> UpdateType]
  /\ MaxVersion \in Nat /\ MaxRetry \in Nat /\ MaxStarts \in Nat
  /\ MaxInFlight \in Nat /\ MaxFaults \in Nat
  /\ TimersRun \in BOOLEAN

(* EUpdateStage, in its numeric order, without the stages no AppManager     *)
(* tells apart: ChangeEncryption is part of DownloadVersion here, the       *)
(* pre-update script and UpdateApplicationFiles are part of StopOldApp, the *)
(* post-update script and StartNewApp of SaveApplicationState.              *)
None == 0
SyncStart == 1
DownloadVersion == 2
Unpack == 3
StopOldApp == 4
SaveApplicationState == 5
PostLaunch == 6
Finished == 7
Failed == 8
Stage == None .. Failed

(* A version together with the retry sequence it was offered with; version  *)
(* 0 is the one installed before the first release.                         *)
Attempt == [version: 0 .. MaxVersion, retry: 0 .. MaxRetry]
Original == [version |-> 0, retry |-> 0]

(* CAppInfo, what an AppManager publishes of an application. *)
Info == [want: Stage, stage: Stage, startSeq: 0 .. MaxStarts,
         finished: Attempt, failed: Attempt]
FreshInfo == [want |-> None, stage |-> None, startSeq |-> 0,
              finished |-> Original, failed |-> Original]

(* What the application's JSON in the state database keeps of it. *)
Saved == [installed: Attempt, finished: Attempt, tried: Attempt,
          failStage: Stage]

(* CApplication: the published fields and the ones only this host reads. *)
Application == [want: Stage, stage: Stage, startSeq: 0 .. MaxStarts,
                finished: Attempt, failed: Attempt, installed: Attempt,
                tried: Attempt, failStage: Stage]

(* CUpdateApplicationState and where its coroutine is suspended:            *)
(*   announce  sending the notification that it is going to wait            *)
(*   wait      in WaitForAllToReachWantUpdateStage (SyncStart: and our turn)*)
(*   ready     resumed from that wait before StopOldApp                     *)
(*   turn      in the second wait of OneAtATime_WaitForOurTurnToUpdate      *)
(*   failing   resumed from a wait with an error                            *)
(*   notify    sending the update notification of the stage                 *)
(*   work      in the work of the stage                                     *)
(*   save      writing the application's JSON                               *)
(*   next      about to enter the next stage                                *)
Step == {"idle", "announce", "wait", "ready", "turn", "failing", "notify",
         "work", "save", "next"}
Update == [step: Step, at: Stage, target: Attempt, downloaded: BOOLEAN]
NoUpdate == [step |-> "idle", at |-> None, target |-> Original,
             downloaded |-> FALSE]

VARIABLES
  newest,           \* newest version of each key at the VersionManagers
  retrySequence,    \* retry sequence of each version of each key
  offered,          \* newest version of each key each AppManager knows of
  app,              \* the applications in the memory of each AppManager
  disk,             \* the applications in each state database
  update,           \* the running update of each application
  startSequence,    \* mp_AppStageChangeSequence
  view,             \* m_AppInfos of each remote AppManager
  initialReceived,  \* remotes whose m_bInitialStateReceived is set
  subscribed,       \* remotes that hold this AppManager's m_fOnChange
  inbox,            \* published changes under way, by receiver and sender
  faults            \* failures that have happened

vars == <<newest, retrySequence, offered, app, disk, update, startSequence, view,
          initialReceived, subscribed, inbox, faults>>

versions == <<newest, retrySequence, offered>>
links == <<view, initialReceived, subscribed>>

-----------------------------------------------------------------------------
(* Publishing. *)

Published(record) ==
  [want |-> record.want, stage |-> record.stage,
   startSeq |-> record.startSeq, finished |-> record.finished,
   failed |-> record.failed]

PublishedApps(apps) == [a \in App |-> Published(apps[a])]

(* fp_OnAppUpdateInfoChange(_pApplication) broadcasts the application to    *)
(* every subscriber.  The code sends the one application that changed; as   *)
(* no change goes unsent, sending all of them leaves the same m_AppInfos.   *)
HasRoom(h) ==
  \A g \in Host : h \in subscribed[g] => Len(inbox[g][h]) < MaxInFlight

Broadcast(h, apps) ==
  inbox' = [g \in Host |->
              IF h \in subscribed[g]
              THEN [inbox[g] EXCEPT ![h] = Append(@, PublishedApps(apps))]
              ELSE inbox[g]]

(* Change an application; publish it if the change is one others can see. *)
SetApplication(h, a, record) ==
  /\ app' = [app EXCEPT ![h][a] = record]
  /\ IF Published(record) = Published(app[h][a])
     THEN UNCHANGED inbox
     ELSE HasRoom(h) /\ Broadcast(h, app'[h])

-----------------------------------------------------------------------------
(* What an AppManager sees when it evaluates a wait. *)

(* Local applications are read directly, remote ones from m_AppInfos. *)
Seen(h, g) == IF g = h THEN app[h] ELSE view[h][g]

Peers(a) == {b \in App : KeyOf[b] = KeyOf[a]}

(* Mistake: an application that failed the version is done with it as well. *)
SameVersionOrFailed(info, target) ==
  target.version \in {info.finished.version, info.failed.version}

SameVersion(info, target) == info.finished.version = target.version

AllConnected(h) == Host \ {h} \subseteq initialReceived[h]

(* bFailed of fp_Coordination_WaitForState: an application with our key,    *)
(* ours among them, failed this attempt, or is failed and we do not ignore  *)
(* that.                                                                    *)
PeerFailed(h, a) ==
  \E g \in initialReceived[h] \union {h}, b \in Peers(a) :
    LET info == Seen(h, g)[b]
        target == update[h][a].target
    IN /\ ~SameVersion(info, target)
       /\ \/ info.failed = target
          \/ info.want = Failed /\ update[h][a].at # None

(* The condition of fp_Coordination_WaitForAllToReachWantUpdateStage. *)
AllReached(h, a, stage, disallowInProgress) ==
  \/ TypeOf[KeyOf[a]] = "Independent"
  \/ \A g \in Host, b \in Peers(a) :
       LET info == Seen(h, g)[b]
       IN \/ SameVersion(info, update[h][a].target)
          \/ /\ info.want >= stage
             /\ disallowInProgress => info.want <= SyncStart

(* CFirstApplicationUpdate: the application a host updates first is the     *)
(* last one in progress, or else the one that started first.                *)
Starting(infos) == {b \in App : infos[b].want \in SyncStart .. PostLaunch}
InProgress(infos) == {b \in Starting(infos) : infos[b].want > SyncStart}
First(infos) ==
  IF InProgress(infos) # {}
  THEN CHOOSE b \in InProgress(infos) : \A c \in InProgress(infos) : c <= b
  ELSE CHOOSE b \in Starting(infos) :
         \A c \in Starting(infos) : infos[b].startSeq <= infos[c].startSeq

FirstKeys(h, from) == {KeyOf[First(Seen(h, g))] : g \in from}

(* Mistake: a host may join in with the key it starts first while another   *)
(* key is in progress.                                                      *)
OurAppsTurnAmongStarting(h, a) ==
  LET starting == {g \in Host : Starting(Seen(h, g)) # {}}
      candidates == FirstKeys(h, starting)
  IN KeyOf[a] \in candidates /\ \A k \in candidates : KeyOf[a] <= k

(* The evaluation of fp_Coordination_WaitForOurAppsTurnToUpdate. *)
OurAppsTurn(h, a) ==
  LET running == {g \in Host : InProgress(Seen(h, g)) # {}}
      starting == {g \in Host : Starting(Seen(h, g)) # {}}
      candidates == FirstKeys(h, IF running # {} THEN running ELSE starting)
  IN KeyOf[a] \in candidates /\ \A k \in candidates : KeyOf[a] <= k

(* The second evaluation of OneAtATime_WaitForOurTurnToUpdate: no smaller   *)
(* host, and no smaller application of ours, has this version to install.   *)
Pending(info, target) == ~SameVersion(info, target) /\ info.stage # Finished

(* Mistake: the turn looks at our own applications only. *)
OurTurnOnThisHost(h, a) ==
  LET target == update[h][a].target
  IN /\ Pending(app[h][a], target)
     /\ \A b \in Peers(a) : b < a => ~Pending(app[h][b], target)

(* Mistake: the turn looks at the other hosts only. *)
OurTurnAmongHosts(h, a) ==
  LET target == update[h][a].target
  IN \A g \in Host, b \in Peers(a) : g < h => ~Pending(Seen(h, g)[b], target)

(* Mistake: the turn waits for every other host, not for the smaller ones.  *)
OurTurnAfterAllHosts(h, a) ==
  LET target == update[h][a].target
  IN \A g \in Host, b \in Peers(a) : g # h => ~Pending(Seen(h, g)[b], target)

OurTurn(h, a) ==
  LET target == update[h][a].target
  IN /\ \A g \in Host, b \in Peers(a) :
          g < h => ~Pending(Seen(h, g)[b], target)
     /\ Pending(app[h][a], target)
     /\ \A b \in Peers(a) : b < a => ~Pending(app[h][b], target)

Reached(h, a) ==
  CASE update[h][a].at = None -> AllReached(h, a, None, TRUE)
    [] update[h][a].at = SyncStart ->
         AllReached(h, a, SyncStart, FALSE) /\ OurAppsTurn(h, a)
    [] update[h][a].step = "turn" -> OurTurn(h, a)
    [] OTHER -> AllReached(h, a, StopOldApp, FALSE)

WaitIsOver(h, a) ==
  /\ ~PeerFailed(h, a)
  /\ AllConnected(h)
  /\ Reached(h, a)

(* Every change an AppManager sees or makes evaluates all its waits before  *)
(* anything else happens there, and the outcome is kept: a condition that   *)
(* holds only for a moment still ends the wait.                             *)
Waiting(h, a) == update[h][a].step \in {"wait", "turn"}
Settled(h) ==
  \A a \in App : Waiting(h, a) => ~PeerFailed(h, a) /\ ~WaitIsOver(h, a)

-----------------------------------------------------------------------------
(* The running update. *)

Idle(h, a) == update[h][a].step = "idle"

Latest(k) == [version |-> newest[k], retry |-> retrySequence[k][newest[k]]]

(* fp_FindVersion: the newest version known, unless it is the installed one or    *)
(* this attempt at it failed after the download.                            *)
FindVersion(h, a) ==
  LET own == app[h][a]
      best == offered[h][KeyOf[a]]
  IN /\ best.version > own.installed.version
     /\ ~(own.tried = best /\ own.failStage > DownloadVersion)

(* Mistake: only one-at-a-time applications wait before StopOldApp. *)
CoordinatesOneAtATime(a, stage) ==
  \/ stage = SyncStart
  \/ stage \in {None, StopOldApp} /\ TypeOf[KeyOf[a]] = "OneAtATime"

(* Whether fp_OnUpdateEvent waits for the others before the stage. *)
Coordinates(a, stage) ==
  \/ stage = SyncStart
  \/ stage \in {None, StopOldApp} /\ TypeOf[KeyOf[a]] # "Independent"

(* The first half of fp_OnUpdateEvent: publish the wanted stage.  u is the  *)
(* update about to have its event for stage u.at.                           *)
EnterStage(h, a, u) ==
  LET starts == u.at = SyncStart /\ app[h][a].want # SyncStart
      sequence == startSequence[h] + 1
  IN /\ starts => startSequence[h] < MaxStarts
     /\ SetApplication(h, a,
          [app[h][a] EXCEPT !.want = u.at,
                            !.startSeq = IF starts THEN sequence ELSE @])
     /\ startSequence' = [startSequence EXCEPT ![h] =
                            IF starts THEN sequence ELSE @]
     /\ update' = [update EXCEPT ![h][a] =
          [u EXCEPT !.step =
             IF Coordinates(a, u.at) THEN "announce" ELSE "notify"]]

(* fp_AutoUpdate_Update starts an update, up to the None event. *)
Begin(h, a) ==
  /\ Idle(h, a)
  /\ FindVersion(h, a)
  /\ EnterStage(h, a, [step |-> "next", at |-> None,
                       target |-> offered[h][KeyOf[a]], downloaded |-> FALSE])
  /\ UNCHANGED <<versions, disk, links, faults>>

(* fp_Coordination_WaitForState registers the wait and evaluates it. *)
StartWait(h, a) ==
  /\ update[h][a].step \in {"announce", "ready"}
  /\ update' = [update EXCEPT ![h][a].step =
                  IF @ = "ready" THEN "turn" ELSE "wait"]
  /\ UNCHANGED <<versions, app, disk, startSequence, links, inbox, faults>>

(* An evaluation ends the wait; OneAtATime waits twice before StopOldApp. *)
PassWait(h, a) ==
  LET u == update[h][a]
      turnNext == /\ u.step = "wait" /\ u.at = StopOldApp
                  /\ TypeOf[KeyOf[a]] = "OneAtATime"
  IN /\ Waiting(h, a)
     /\ WaitIsOver(h, a)
     /\ update' = [update EXCEPT ![h][a].step =
                     IF turnNext THEN "ready" ELSE "notify"]
     /\ UNCHANGED <<versions, app, disk, startSequence, links, inbox, faults>>

(* An evaluation ends the wait because another application has failed. *)
FailWait(h, a) ==
  /\ Waiting(h, a)
  /\ PeerFailed(h, a)
  /\ update' = [update EXCEPT ![h][a].step = "failing"]
  /\ UNCHANGED <<versions, app, disk, startSequence, links, inbox, faults>>

(* A wait times out, a remote stays away too long, or the update is         *)
(* cancelled while it waits.                                                *)
AbortWait(h, a) ==
  /\ TimersRun
  /\ Waiting(h, a)
  /\ update' = [update EXCEPT ![h][a].step = "failing"]
  /\ UNCHANGED <<versions, app, disk, startSequence, links, inbox, faults>>

(* Mistake: a failure before the download counts against the version.      *)
RecordEveryFailure(own, u) ==
  [own EXCEPT
     !.failStage = own.stage,
     !.failed = u.target,
     !.tried = IF u.downloaded THEN @ ELSE u.target]

(* What the Failed event records, depending on the stage that failed. *)
RecordFailure(own, u) ==
  [own EXCEPT
     !.failStage = own.stage,
     !.failed = IF own.stage > DownloadVersion THEN u.target ELSE @,
     !.tried = IF u.downloaded THEN @ ELSE u.target]

(* Mistake: success is published as soon as the new files are in place.     *)
StageReachedEarly(own, u) ==
  LET recorded == CASE u.at = PostLaunch -> [own EXCEPT !.finished = own.installed]
                    [] u.at = Failed -> RecordFailure(own, u)
                    [] OTHER -> own
  IN IF own.stage = u.at THEN own ELSE [recorded EXCEPT !.stage = u.at]

(* The application once the event of stage u.at is over.                    *)
StageReached(own, u) ==
  LET recorded == CASE u.at = Finished -> [own EXCEPT !.finished = own.installed]
                    [] u.at = Failed -> RecordFailure(own, u)
                    [] OTHER -> own
  IN IF own.stage = u.at THEN own ELSE [recorded EXCEPT !.stage = u.at]

(* The second half of fp_OnUpdateEvent: the stage is reached.  A Finished or *)
(* Failed event that changes nothing has nothing to save.                   *)
ReachStage(h, a) ==
  LET u == update[h][a]
  IN /\ u.step = "notify"
     /\ SetApplication(h, a, StageReached(app[h][a], u))
     /\ update' = [update EXCEPT ![h][a] =
          IF u.at \notin {Finished, Failed} THEN [u EXCEPT !.step = "work"]
          ELSE IF app[h][a].stage = u.at THEN NoUpdate
          ELSE [u EXCEPT !.step = "save"]]
     /\ UNCHANGED <<versions, disk, startSequence, links, faults>>

(* DownloadVersion: the version is here; it comes with the retry sequence   *)
(* the VersionManager has for it by now.                                    *)
Download(h, a) ==
  LET u == update[h][a]
      k == KeyOf[a]
  IN /\ u.step = "work" /\ u.at = DownloadVersion
     /\ app' = [app EXCEPT ![h][a].tried =
                  [version |-> u.target.version,
                   retry |-> retrySequence[k][u.target.version]]]
     /\ update' = [update EXCEPT ![h][a].step = "save",
                                 ![h][a].downloaded = TRUE]
     /\ UNCHANGED <<versions, disk, startSequence, links, inbox, faults>>

(* SaveApplicationState: m_fUpdateVersionInfo of the download is applied. *)
Install(h, a) ==
  /\ update[h][a].step = "work" /\ update[h][a].at = SaveApplicationState
  /\ app' = [app EXCEPT ![h][a].installed = app[h][a].tried]
  /\ update' = [update EXCEPT ![h][a].step = "save"]
  /\ UNCHANGED <<versions, disk, startSequence, links, inbox, faults>>

(* fp_UpdateApplicationJson; after the Finished and Failed events it is the *)
(* last thing the update does.                                              *)
Persisted(own) ==
  [installed |-> own.installed, finished |-> own.finished,
   tried |-> own.tried, failStage |-> own.failStage]

(* Mistake: the Finished and Failed events do not end the update. *)
SaveAndContinue(h, a) ==
  LET u == update[h][a]
  IN /\ u.step = "save"
     /\ disk' = [disk EXCEPT ![h][a] = Persisted(app[h][a])]
     /\ update' = [update EXCEPT ![h][a] = [u EXCEPT !.step = "next"]]
     /\ UNCHANGED <<versions, app, startSequence, links, inbox, faults>>

Save(h, a) ==
  LET u == update[h][a]
  IN /\ u.step = "save"
     /\ disk' = [disk EXCEPT ![h][a] = Persisted(app[h][a])]
     /\ update' = [update EXCEPT ![h][a] =
          IF u.at \in {Finished, Failed} THEN NoUpdate
          ELSE [u EXCEPT !.step = "next"]]
     /\ UNCHANGED <<versions, app, startSequence, links, inbox, faults>>

(* The JSON is also written when the versions on offer, the settings or the *)
(* registration of the application change, whatever its update is doing.    *)
UpdateApplicationJson(h, a) ==
  /\ disk[h][a] # Persisted(app[h][a])
  /\ disk' = [disk EXCEPT ![h][a] = Persisted(app[h][a])]
  /\ UNCHANGED <<versions, app, update, startSequence, links, inbox, faults>>

(* The work of a stage is done and the next stage is entered.  The work of  *)
(* the stages that is not Download or Install changes no state kept here.   *)
NextStage(h, a) ==
  LET u == update[h][a]
  IN /\ \/ u.step = "next"
        \/ u.step = "work" /\ u.at \notin {DownloadVersion, SaveApplicationState}
     /\ EnterStage(h, a, [u EXCEPT !.at = u.at + 1])
     /\ UNCHANGED <<versions, disk, links, faults>>

(* The error path of fp_UpdateApplication: the Failed event. *)
EnterFailed(h, a) ==
  /\ EnterStage(h, a, [update[h][a] EXCEPT !.at = Failed])
  /\ UNCHANGED <<versions, disk, links>>

Fail(h, a) ==
  /\ update[h][a].step = "failing"
  /\ EnterFailed(h, a)
  /\ UNCHANGED faults

(* The work of a stage fails, or f_CheckAbort after it does. *)
FailWork(h, a) ==
  /\ faults < MaxFaults
  /\ update[h][a].at \in DownloadVersion .. PostLaunch
  /\ update[h][a].step \in {"work", "save", "next"}
  /\ EnterFailed(h, a)
  /\ faults' = faults + 1

(* Writing the JSON after the Finished or Failed event fails; the update    *)
(* ends all the same.                                                       *)
FailSave(h, a) ==
  /\ faults < MaxFaults
  /\ update[h][a].step = "save" /\ update[h][a].at \in {Finished, Failed}
  /\ update' = [update EXCEPT ![h][a] = NoUpdate]
  /\ faults' = faults + 1
  /\ UNCHANGED <<versions, app, disk, startSequence, links, inbox>>

-----------------------------------------------------------------------------
(* Subscriptions between AppManagers. *)

NoApps == [a \in App |-> FreshInfo]

(* m_fOnChange of the subscription runs at h with a change from g. *)
Receive(h, g) ==
  /\ inbox[h][g] # <<>>
  /\ view' = [view EXCEPT ![h][g] = Head(inbox[h][g])]
  /\ initialReceived' = [initialReceived EXCEPT ![h] = @ \union {g}]
  /\ inbox' = [inbox EXCEPT ![h][g] = Tail(@)]
  /\ UNCHANGED <<versions, app, disk, update, startSequence, subscribed, faults>>

(* h drops what it has of g: after a broken connection (a fault), or when   *)
(* the other end is gone.  The entry it removes also held g's m_fOnChange,  *)
(* so g has to subscribe again as well.                                     *)
Disconnect(h, g) ==
  /\ h # g
  /\ \/ /\ g \in subscribed[h]
        /\ faults < MaxFaults /\ faults' = faults + 1
     \/ /\ g \notin subscribed[h]
        /\ g \in initialReceived[h] \/ inbox[h][g] # <<>>
        /\ UNCHANGED faults
  /\ view' = [view EXCEPT ![h][g] = NoApps]
  /\ initialReceived' = [initialReceived EXCEPT ![h] = @ \ {g}]
  /\ subscribed' = [subscribed EXCEPT ![h] = @ \ {g}, ![g] = @ \ {h}]
  /\ inbox' = [inbox EXCEPT ![h][g] = <<>>]
  /\ UNCHANGED <<versions, app, disk, update, startSequence>>

(* fp_NewRemoteAppManager at h, f_SubscribeToAppChanges at g and the        *)
(* initial info it sends back.                                              *)
Subscribe(h, g) ==
  /\ h # g
  /\ g \notin subscribed[h] \union initialReceived[h] /\ inbox[h][g] = <<>>
  /\ subscribed' = [subscribed EXCEPT ![h] = @ \union {g}]
  /\ inbox' = [inbox EXCEPT ![h][g] = <<PublishedApps(app[g])>>]
  /\ UNCHANGED <<versions, app, disk, update, startSequence, view,
                 initialReceived, faults>>

-----------------------------------------------------------------------------
(* Restart of an AppManager, and the versions it is offered. *)

(* fp_ReadState: an application that was last tried with something else     *)
(* than what it finished counts as failed, if its last failure came after   *)
(* the download.                                                            *)
Loaded(saved) ==
  [want |-> None, stage |-> None, startSeq |-> 0,
   finished |-> saved.finished,
   failed |-> IF /\ saved.tried # saved.finished
                 /\ saved.failStage > DownloadVersion
              THEN saved.tried ELSE Original,
   installed |-> saved.installed, tried |-> saved.tried,
   failStage |-> saved.failStage]

(* The AppManager stops, in order or not, and starts again from its state   *)
(* database.  The others notice later.                                      *)
Restart(h) ==
  /\ faults < MaxFaults
  /\ faults' = faults + 1
  /\ app' = [app EXCEPT ![h] = [a \in App |-> Loaded(disk[h][a])]]
  /\ update' = [update EXCEPT ![h] = [a \in App |-> NoUpdate]]
  /\ startSequence' = [startSequence EXCEPT ![h] = 0]
  /\ view' = [view EXCEPT ![h] = [g \in Host |-> NoApps]]
  /\ initialReceived' = [initialReceived EXCEPT ![h] = {}]
  /\ subscribed' = [g \in Host |-> IF g = h THEN {} ELSE subscribed[g] \ {h}]
  /\ inbox' = [inbox EXCEPT ![h] = [g \in Host |-> <<>>]]
  /\ offered' = [offered EXCEPT ![h] = [k \in Key |-> Original]]
  /\ UNCHANGED <<newest, retrySequence, disk>>

(* A new version of the application arrives at the VersionManagers. *)
Release(k) ==
  /\ newest[k] < MaxVersion
  /\ newest' = [newest EXCEPT ![k] = @ + 1]
  /\ UNCHANGED <<retrySequence, offered, app, disk, update, startSequence, links,
                 inbox, faults>>

(* --retry-upgrade on the newest version (m_bIncreaseRetrySequence). *)
RetryUpgrade(k) ==
  /\ newest[k] > 0
  /\ retrySequence[k][newest[k]] < MaxRetry
  /\ retrySequence' = [retrySequence EXCEPT ![k][newest[k]] = @ + 1]
  /\ UNCHANGED <<newest, offered, app, disk, update, startSequence, links,
                 inbox, faults>>

(* The subscription to the VersionManagers brings h up to date.             *)
Offer(h, k) ==
  /\ offered[h][k] # Latest(k)
  /\ offered' = [offered EXCEPT ![h][k] = Latest(k)]
  /\ UNCHANGED <<newest, retrySequence, app, disk, update, startSequence, links,
                 inbox, faults>>

-----------------------------------------------------------------------------
(* All AppManagers run the installed version and are connected. *)
Init ==
  /\ newest = [k \in Key |-> 0]
  /\ retrySequence = [k \in Key |-> [v \in 0 .. MaxVersion |-> 0]]
  /\ offered = [h \in Host |-> [k \in Key |-> Original]]
  /\ disk = [h \in Host |-> [a \in App |->
               [installed |-> Original, finished |-> Original,
                tried |-> Original, failStage |-> None]]]
  /\ app = [h \in Host |-> [a \in App |-> Loaded(disk[h][a])]]
  /\ update = [h \in Host |-> [a \in App |-> NoUpdate]]
  /\ startSequence = [h \in Host |-> 0]
  /\ view = [h \in Host |-> [g \in Host |-> NoApps]]
  /\ initialReceived = [h \in Host |-> Host \ {h}]
  /\ subscribed = [h \in Host |-> Host \ {h}]
  /\ inbox = [h \in Host |-> [g \in Host |-> <<>>]]
  /\ faults = 0

Evaluate(h, a) == PassWait(h, a) \/ FailWait(h, a)

(* What an AppManager does on its own account for an application. *)
Run(h, a) ==
  \/ Begin(h, a) \/ StartWait(h, a) \/ ReachStage(h, a) \/ Download(h, a)
  \/ Install(h, a) \/ Save(h, a) \/ NextStage(h, a) \/ Fail(h, a)
Trouble(h, a) == AbortWait(h, a) \/ FailWork(h, a) \/ FailSave(h, a)

(* What reaches an AppManager from the others and the VersionManagers. *)
Hear(h) ==
  \/ \E g \in Host : Receive(h, g) \/ Subscribe(h, g)
  \/ \E k \in Key : Offer(h, k)

Act(h) ==
  \/ \E a \in App : Run(h, a) \/ Trouble(h, a) \/ UpdateApplicationJson(h, a)
  \/ Hear(h)
  \/ \E g \in Host : Disconnect(h, g)

Next ==
  \/ \E h \in Host, a \in App : Evaluate(h, a)
  \/ \E h \in Host : Settled(h) /\ Act(h)
  \/ \E h \in Host : Restart(h)
  \/ \E k \in Key : Release(k) \/ RetryUpgrade(k)

(* An AppManager that has something to do or to hear does not stop for good: *)
(* an actor runs what is in its queue.  Nobody has to release or to fail.    *)
Active(h) ==
  \/ \E a \in App : Evaluate(h, a)
  \/ Settled(h) /\ ((\E a \in App : Run(h, a)) \/ Hear(h))
Fairness == \A h \in Host : WF_vars(Active(h))

Spec == Init /\ [][Next]_vars
FairSpec == Spec /\ Fairness

-----------------------------------------------------------------------------
(* Every variable has the type of the members it stands for. *)
TypeOK ==
  /\ newest \in [Key -> 0 .. MaxVersion]
  /\ retrySequence \in [Key -> [0 .. MaxVersion -> 0 .. MaxRetry]]
  /\ offered \in [Host -> [Key -> Attempt]]
  /\ app \in [Host -> [App -> Application]]
  /\ disk \in [Host -> [App -> Saved]]
  /\ update \in [Host -> [App -> Update]]
  /\ startSequence \in [Host -> 0 .. MaxStarts]
  /\ view \in [Host -> [Host -> [App -> Info]]]
  /\ initialReceived \in [Host -> SUBSET Host]
  /\ subscribed \in [Host -> SUBSET Host]
  /\ inbox \in [Host -> [Host -> Seq([App -> Info])]]
  /\ faults \in 0 .. MaxFaults

(* Applications of a one-at-a-time key, in the order they are to update. *)
Before(h, a, g, b) == h < g \/ (h = g /\ a < b)
SameRollout(a, b) == KeyOf[a] = KeyOf[b] /\ TypeOf[KeyOf[a]] = "OneAtATime"

(* The update has this application stopped or is replacing it. *)
Disrupted(own) == own.stage \in StopOldApp .. PostLaunch
Disrupting(h, a) == Disrupted(app[h][a])

(* "One at a time": no two applications of a OneAtATime key are stopped for *)
(* their update at the same time, whatever the two hosts know of each       *)
(* other, and across failures, restarts and reconnects                      *)
(* (fp_Coordination_OneAtATime_WaitForOurTurnToUpdate).                     *)
OneAtATime ==
  \A h, g \in Host, a, b \in App :
    /\ SameRollout(a, b) /\ <<h, a>> # <<g, b>>
    => ~(Disrupting(h, a) /\ Disrupting(g, b))

(* While a single release is rolled out, an application that is updating,   *)
(* or has been, comes after every smaller one installed the release: the    *)
(* rollout is a prefix of the host order, even after a failure.             *)
RolloutInOrder ==
  \A h, g \in Host, a, b \in App :
    /\ SameRollout(a, b) /\ Before(h, a, g, b)
    /\ Disrupting(g, b) \/ app[g][b].installed.version > 0
    => app[h][a].installed.version > 0

(* A bad release stops at the first host it breaks: at most one application *)
(* of a OneAtATime key was stopped for a release and left without it.       *)
Broken(h, a) ==
  /\ app[h][a].installed.version = 0
  /\ app[h][a].failStage \in StopOldApp .. SaveApplicationState
OneCasualty ==
  \A h, g \in Host, a, b \in App :
    /\ SameRollout(a, b) /\ Broken(h, a) /\ Broken(g, b)
    => <<h, a>> = <<g, b>>

(* No application of a coordinated key is stopped before every application  *)
(* of the key has tried to get the release: from StopOldApp on the update   *)
(* does not depend on the VersionManager (the barrier before StopOldApp).   *)
ReadyBeforeStop ==
  \A h, g \in Host, a, b \in App :
    /\ KeyOf[a] = KeyOf[b] /\ TypeOf[KeyOf[a]] # "Independent"
    /\ Disrupting(h, a)
    => app[g][b].tried.version > 0

(* The AppManagers update the applications of one key at a time: as long as *)
(* nothing fails no two keys of coordinated types are past SyncStart at     *)
(* once, on any hosts, though every host decides from its own, older view   *)
(* (fp_Coordination_WaitForOurAppsTurnToUpdate).                            *)
OneKeyAtATime ==
  \A h, g \in Host, a, b \in App :
    /\ a \in InProgress(app[h]) /\ b \in InProgress(app[g])
    => KeyOf[a] = KeyOf[b]

(* Why a single release is rolled out in order.                             *)

(* What a running update has achieved by the stage it has come to: own and  *)
(* saved are the application in memory and on disk, u its update.           *)
Past(u, stage) == u.at \in stage + 1 .. Finished
InStep(own, saved, u) ==
  /\ u.step # "idle" => u.target.version > 0
  /\ u.step \in {"announce", "wait"} => u.at \in {None, SyncStart, StopOldApp}
  /\ u.step \in {"ready", "turn"} => u.at = StopOldApp
  /\ u.step \in {"work", "next"} => u.at \notin {Finished, Failed}
  /\ u.step \in {"work", "save", "next"} => own.stage = u.at
  /\ u.step = "notify" /\ Past(u, StopOldApp) => Disrupted(own)
  /\ \/ Past(u, DownloadVersion)
     \/ u.at = DownloadVersion /\ u.step \in {"save", "next"}
     => own.tried.version > 0
  /\ \/ Past(u, SaveApplicationState)
     \/ u.at = SaveApplicationState /\ u.step \in {"save", "next"}
     => own.installed.version > 0
  /\ \/ Past(u, SaveApplicationState)
     \/ u.at = SaveApplicationState /\ u.step = "next"
     => saved.installed.version > 0
  /\ u.step # "idle" /\ u.at \in None .. StopOldApp => own.installed.version = 0
  /\ saved.installed.version > 0 => own.installed.version > 0

StepsInOrder ==
  \A h \in Host, a \in App : InStep(app[h][a], disk[h][a], update[h][a])

(* An application that has the release for good: nothing can start another  *)
(* update of it, not even a restart of its AppManager.                      *)
HasRelease(own, saved, u) ==
  /\ own.installed.version > 0
  /\ saved.installed.version > 0
  /\ ~Disrupted(own)
  /\ u.step = "idle" \/ (u.step = "save" /\ u.at = Finished)
Updated(h, a) == HasRelease(app[h][a], disk[h][a], update[h][a])

(* What is known or said of an application's success, however old, is true. *)
Succeeded(info) == info.finished.version > 0 \/ info.stage = Finished
SuccessIsTrue ==
  \A h \in Host, a \in App :
    /\ Succeeded(app[h][a]) \/ disk[h][a].finished.version > 0 => Updated(h, a)
    /\ \A g \in Host :
         /\ Succeeded(view[g][h][a]) => Updated(h, a)
         /\ \A i \in DOMAIN inbox[g][h] :
              Succeeded(inbox[g][h][i][a]) => Updated(h, a)

(* An application has had its turn from the moment its wait for it ends.    *)
HadTurn(own, saved, u) ==
  \/ u.step = "notify" /\ u.at = StopOldApp
  \/ Disrupted(own)
  \/ own.installed.version > 0 \/ saved.installed.version > 0
  \/ own.failStage \in StopOldApp .. PostLaunch
  \/ saved.failStage \in StopOldApp .. PostLaunch
TurnsInOrder ==
  \A h, g \in Host, a, b \in App :
    /\ SameRollout(a, b) /\ Before(h, a, g, b)
    /\ HadTurn(app[g][b], disk[g][b], update[g][b])
    => Updated(h, a)

(* The inductive invariant of a single release: an application has its turn *)
(* only when every smaller one has the release for good, because what it    *)
(* heard of their success stays true however late it hears it.              *)
RolloutInvariant == StepsInOrder /\ SuccessIsTrue /\ TurnsInOrder

(* How the update of a key looks from outside: an instance is updating      *)
(* while it is stopped, and new once the release is in its place.           *)
Phase(h, a) ==
  IF Disrupting(h, a) THEN "updating"
  ELSE IF app[h][a].installed.version > 0 THEN "new" ELSE "old"
InstancesOf(k) == {i \in Host \X App : KeyOf[i[2]] = k}
OrderOf(k) ==
  {p \in InstancesOf(k) \X InstancesOf(k) :
     Before(p[1][1], p[1][2], p[2][1], p[2][2])}
PhasesOf(k) == [i \in InstancesOf(k) |-> Phase(i[1], i[2])]
Rolling(k) == INSTANCE RollingUpdate
                WITH Instance <- InstancesOf(k), Order <- OrderOf(k), phase <- PhasesOf(k)

(* The release of every one-at-a-time key is a rolling update, step by step: *)
(* no failure, restart or late news makes it skip an application or take    *)
(* two at once.                                                             *)
OneAtATimeKeys == {k \in Key : TypeOf[k] = "OneAtATime"}
RollsOut ==
  /\ \A k \in OneAtATimeKeys : Rolling(k)!Init
  /\ [][\A k \in OneAtATimeKeys : Rolling(k)!Next \/ UNCHANGED PhasesOf(k)]_vars

(* Only an update that got its version counts as a failure of the version:  *)
(* one that failed before (a wait that timed out) can be started again.     *)
FailureWasTried ==
  [][\A h \in Host, a \in App :
       /\ update[h][a].step = "notify" /\ update'[h][a].step = "save"
       /\ app'[h][a].failed # app[h][a].failed
       => update[h][a].downloaded]_vars

(* Without faults and without any timeout firing every application gets     *)
(* the newest version: the waits of different hosts and keys never form a   *)
(* circle.                                                                  *)
RolloutCompletes ==
  <>[](\A h \in Host, a \in App :
         app[h][a].finished.version = newest[KeyOf[a]])

(* "AppManagers will retry upgrade if it previously failed": an application *)
(* that failed the newest version starts it again, or has got it, once its  *)
(* retry sequence is increased.                                             *)
RetryIsTried ==
  \A h \in Host, a \in App :
    LET latest == Latest(KeyOf[a])
    IN ( /\ Idle(h, a)
         /\ app[h][a].failed.version = latest.version
         /\ app[h][a].failed.retry < latest.retry
         /\ app[h][a].tried.retry < latest.retry )
       ~> \/ update[h][a].target = Latest(KeyOf[a])
          \/ SameVersion(app[h][a], Latest(KeyOf[a]))
==============================================================================
