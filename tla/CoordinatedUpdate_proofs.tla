---------------------- MODULE CoordinatedUpdate_proofs ----------------------
(***************************************************************************)
(* Proofs about the coordinated update, for any number of AppManagers,     *)
(* applications and faults: types, the inductive invariant and what it     *)
(* promises; then what the applications of a coordinated key go through    *)
(* together: a one-at-a-time key changes them as RollingUpdate allows, and *)
(* no application of a coordinated key is stopped before all of them have  *)
(* been given a version.                                                   *)
(***************************************************************************)
EXTENDS CoordinatedUpdate, TLAPS

USE DEF None, SyncStart, DownloadVersion, Unpack, StopOldApp,
        SaveApplicationState, PostLaunch, Finished, Failed, Stage

-----------------------------------------------------------------------------
(* Types. *)

LEMMA ConstantTypes ==
  /\ Original \in Attempt
  /\ FreshInfo \in Info
  /\ NoUpdate \in Update
BY ConstantsAssumption DEF Original, Attempt, FreshInfo, Info, NoUpdate, Update, Step

LEMMA PublishedType ==
  ASSUME NEW record \in Application
  PROVE  Published(record) \in Info
BY DEF Published, Application, Info

LEMMA PublishedAppsType ==
  ASSUME NEW apps \in [App -> Application]
  PROVE  PublishedApps(apps) \in [App -> Info]
BY PublishedType DEF PublishedApps

LEMMA BroadcastType ==
  ASSUME TypeOK, NEW h \in Host, NEW apps \in [App -> Application],
         Broadcast(h, apps)
  PROVE  inbox' \in [Host -> [Host -> Seq([App -> Info])]]
BY PublishedAppsType DEF TypeOK, Broadcast

LEMMA SetApplicationType ==
  ASSUME TypeOK, NEW h \in Host, NEW a \in App, NEW record \in Application,
         SetApplication(h, a, record)
  PROVE  /\ app' \in [Host -> [App -> Application]]
         /\ inbox' \in [Host -> [Host -> Seq([App -> Info])]]
<1>1. app' \in [Host -> [App -> Application]]
  BY DEF TypeOK, SetApplication
<1>2. app'[h] \in [App -> Application]
  BY <1>1
<1>3. inbox' \in [Host -> [Host -> Seq([App -> Info])]]
  BY <1>2, BroadcastType DEF TypeOK, SetApplication
<1> QED
  BY <1>1, <1>3

LEMMA EnterStageType ==
  ASSUME TypeOK, NEW h \in Host, NEW a \in App, NEW u \in Update,
         EnterStage(h, a, u)
  PROVE  /\ app' \in [Host -> [App -> Application]]
         /\ inbox' \in [Host -> [Host -> Seq([App -> Info])]]
         /\ startSequence' \in [Host -> 0 .. MaxStarts]
         /\ update' \in [Host -> [App -> Update]]
<1> DEFINE starts == u.at = SyncStart /\ app[h][a].want # SyncStart
           sequence == IF starts THEN startSequence[h] + 1 ELSE startSequence[h]
           record == [app[h][a] EXCEPT !.want = u.at,
                                       !.startSeq = IF starts THEN startSequence[h] + 1 ELSE @]
<1>1. startSequence[h] \in 0 .. MaxStarts /\ app[h][a] \in Application
  BY DEF TypeOK
<1>2. starts => startSequence[h] + 1 \in 0 .. MaxStarts
  BY <1>1, ConstantsAssumption DEF EnterStage
<1>3. record \in Application
  BY <1>1, <1>2 DEF Application, Update
<1>4. SetApplication(h, a, record)
  BY DEF EnterStage
<1>5. startSequence' \in [Host -> 0 .. MaxStarts]
  BY <1>1, <1>2 DEF EnterStage, TypeOK
<1>6. update' \in [Host -> [App -> Update]]
  BY DEF EnterStage, TypeOK, Update, Step
<1> QED
  BY <1>3, <1>4, <1>5, <1>6, SetApplicationType

(* TypeOK is inductive once it is known that no stage follows Finished and  *)
(* Failed.                                                                  *)
LastStage ==
  \A h \in Host, a \in App :
    update[h][a].step \in {"work", "next"} => update[h][a].at \notin {Finished, Failed}
TypeInv == TypeOK /\ LastStage

LEMMA EnterStageLast ==
  ASSUME TypeInv, NEW h \in Host, NEW a \in App, NEW u \in Update,
         EnterStage(h, a, u)
  PROVE  LastStage'
BY DEF TypeInv, TypeOK, LastStage, EnterStage

LEMMA LoadedType ==
  ASSUME NEW saved \in Saved
  PROVE  Loaded(saved) \in Application
BY ConstantTypes, ConstantsAssumption
   DEF Loaded, Saved, Application, Original, Attempt

LEMMA NoAppsType == NoApps \in [App -> Info]
BY ConstantTypes DEF NoApps

LEMMA InitTypeInv == Init => TypeInv
<1> SUFFICES ASSUME Init PROVE TypeInv
  OBVIOUS
<1>1. \A h \in Host, a \in App : disk[h][a] \in Saved
  BY ConstantTypes DEF Init, Saved
<1>2. disk \in [Host -> [App -> Saved]]
  BY <1>1 DEF Init
<1>3. app \in [Host -> [App -> Application]]
  BY <1>1, LoadedType DEF Init
<1>4. update \in [Host -> [App -> Update]] /\ LastStage
  BY ConstantTypes DEF Init, LastStage, NoUpdate
<1>5. /\ newest \in [Key -> 0 .. MaxVersion]
      /\ retrySequence \in [Key -> [0 .. MaxVersion -> 0 .. MaxRetry]]
      /\ startSequence \in [Host -> 0 .. MaxStarts]
      /\ faults \in 0 .. MaxFaults
  BY ConstantsAssumption DEF Init
<1>6. /\ offered \in [Host -> [Key -> Attempt]]
      /\ view \in [Host -> [Host -> [App -> Info]]]
      /\ initialReceived \in [Host -> SUBSET Host]
      /\ subscribed \in [Host -> SUBSET Host]
  BY ConstantTypes, NoAppsType DEF Init
<1>7. inbox \in [Host -> [Host -> Seq([App -> Info])]]
  BY DEF Init
<1> QED
  BY <1>2, <1>3, <1>4, <1>5, <1>6, <1>7 DEF TypeInv, TypeOK

(* The steps that enter a stage.                                            *)
LEMMA EnteringType ==
  ASSUME TypeInv, NEW h \in Host, NEW a \in App, NEW u \in Update,
         EnterStage(h, a, u),
         UNCHANGED <<versions, disk, links>>, faults' \in 0 .. MaxFaults
  PROVE  TypeInv'
<1>1. /\ app' \in [Host -> [App -> Application]]
      /\ inbox' \in [Host -> [Host -> Seq([App -> Info])]]
      /\ startSequence' \in [Host -> 0 .. MaxStarts]
      /\ update' \in [Host -> [App -> Update]]
  BY EnterStageType DEF TypeInv
<1> QED
  BY <1>1, EnterStageLast DEF TypeInv, TypeOK, versions, links

LEMMA KeyType ==
  ASSUME NEW a \in App
  PROVE  KeyOf[a] \in Key
BY ConstantsAssumption

LEMMA LatestType ==
  ASSUME TypeOK, NEW k \in Key
  PROVE  Latest(k) \in Attempt
<1>1. newest[k] \in 0 .. MaxVersion
  BY DEF TypeOK
<1>2. retrySequence[k] \in [0 .. MaxVersion -> 0 .. MaxRetry]
  BY DEF TypeOK
<1>3. retrySequence[k][newest[k]] \in 0 .. MaxRetry
  BY <1>1, <1>2
<1> QED
  BY <1>1, <1>3 DEF Latest, Attempt

LEMMA BeginType ==
  ASSUME TypeInv, NEW h \in Host, NEW a \in App, Begin(h, a)
  PROVE  TypeInv'
<1> DEFINE u == [step |-> "next", at |-> None,
                 target |-> offered[h][KeyOf[a]], downloaded |-> FALSE]
<1>1. offered[h][KeyOf[a]] \in Attempt
  BY KeyType DEF TypeInv, TypeOK
<1>2. u \in Update
  BY <1>1 DEF Update, Step
<1>3. EnterStage(h, a, u) /\ UNCHANGED <<versions, disk, links, faults>>
  BY DEF Begin
<1>4. faults' \in 0 .. MaxFaults
  BY <1>3 DEF TypeInv, TypeOK
<1> HIDE DEF u
<1> QED
  BY <1>2, <1>3, <1>4, EnteringType

LEMMA NextStageType ==
  ASSUME TypeInv, NEW h \in Host, NEW a \in App, NextStage(h, a)
  PROVE  TypeInv'
<1> DEFINE u == [update[h][a] EXCEPT !.at = @ + 1]
<1>1. update[h][a] \in Update /\ update[h][a].at \notin {Finished, Failed}
  BY DEF TypeInv, TypeOK, LastStage, NextStage
<1>2. u \in Update
  BY <1>1 DEF Update
<1>3. EnterStage(h, a, u) /\ UNCHANGED <<versions, disk, links, faults>>
  BY DEF NextStage
<1>4. faults' \in 0 .. MaxFaults
  BY <1>3 DEF TypeInv, TypeOK
<1> HIDE DEF u
<1> QED
  BY <1>2, <1>3, <1>4, EnteringType

LEMMA FailingType ==
  ASSUME TypeInv, NEW h \in Host, NEW a \in App, Fail(h, a) \/ FailWork(h, a)
  PROVE  TypeInv'
<1> DEFINE u == [update[h][a] EXCEPT !.at = Failed]
<1>1. update[h][a] \in Update
  BY DEF TypeInv, TypeOK
<1>2. u \in Update
  BY <1>1 DEF Update
<1>3. EnterStage(h, a, u) /\ UNCHANGED <<versions, disk, links>>
  BY DEF Fail, FailWork, EnterFailed
<1>4. faults' \in 0 .. MaxFaults
  BY ConstantsAssumption DEF Fail, FailWork, TypeInv, TypeOK
<1> HIDE DEF u
<1> QED
  BY <1>2, <1>3, <1>4, EnteringType

(* The other steps of an update.                                            *)
LEMMA UpdateTo ==
  ASSUME TypeInv, NEW h \in Host, NEW a \in App, NEW u \in Update,
         update' = [update EXCEPT ![h][a] = u],
         u.step \in {"work", "next"} => u.at \notin {Finished, Failed}
  PROVE  update' \in [Host -> [App -> Update]] /\ LastStage'
BY DEF TypeInv, TypeOK, LastStage

LEMMA WaitingType ==
  ASSUME TypeInv, NEW h \in Host, NEW a \in App,
         StartWait(h, a) \/ PassWait(h, a) \/ FailWait(h, a) \/ AbortWait(h, a)
  PROVE  TypeInv'
<1>1. PICK step \in Step \ {"work", "next"} :
        update' = [update EXCEPT ![h][a].step = step]
  BY DEF StartWait, PassWait, FailWait, AbortWait, Step
<1>2. update[h][a] \in Update
  BY DEF TypeInv, TypeOK
<1>3. /\ [update[h][a] EXCEPT !.step = step] \in Update
      /\ [update[h][a] EXCEPT !.step = step].step = step
  BY <1>2 DEF Update
<1>5. update' = [update EXCEPT ![h][a] = [update[h][a] EXCEPT !.step = step]]
  BY <1>1 DEF TypeInv, TypeOK
<1>6. update' \in [Host -> [App -> Update]] /\ LastStage'
  BY <1>1, <1>3, <1>5, UpdateTo
<1>4. UNCHANGED <<versions, app, disk, startSequence, links, inbox, faults>>
  BY DEF StartWait, PassWait, FailWait, AbortWait
<1> QED
  BY <1>4, <1>6 DEF TypeInv, TypeOK, versions, links

LEMMA RecordFailureType ==
  ASSUME NEW own \in Application, NEW u \in Update
  PROVE  RecordFailure(own, u) \in Application
BY DEF RecordFailure, Application, Update

LEMMA StageReachedType ==
  ASSUME NEW own \in Application, NEW u \in Update
  PROVE  StageReached(own, u) \in Application
<1> DEFINE recorded == CASE u.at = Finished -> [own EXCEPT !.finished = own.installed]
                         [] u.at = Failed -> RecordFailure(own, u)
                         [] OTHER -> own
<1>1. [own EXCEPT !.finished = own.installed] \in Application
  BY DEF Application
<1>2. recorded \in Application
  BY <1>1, RecordFailureType
<1>3. [recorded EXCEPT !.stage = u.at] \in Application
  BY <1>2 DEF Application, Update
<1> QED
  BY <1>3 DEF StageReached

LEMMA ReachStageType ==
  ASSUME TypeInv, NEW h \in Host, NEW a \in App, ReachStage(h, a)
  PROVE  TypeInv'
<1>1. update[h][a] \in Update /\ app[h][a] \in Application
  BY DEF TypeInv, TypeOK
<1>2. /\ app' \in [Host -> [App -> Application]]
      /\ inbox' \in [Host -> [Host -> Seq([App -> Info])]]
  BY <1>1, StageReachedType, SetApplicationType DEF ReachStage, TypeInv
<1>3. update' \in [Host -> [App -> Update]] /\ LastStage'
  BY <1>1, ConstantTypes DEF ReachStage, TypeInv, TypeOK, LastStage, Update, Step, NoUpdate
<1> QED
  BY <1>2, <1>3 DEF ReachStage, TypeInv, TypeOK, versions, links

LEMMA WorkType ==
  ASSUME TypeInv, NEW h \in Host, NEW a \in App, Download(h, a) \/ Install(h, a)
  PROVE  TypeInv'
<1>1. update[h][a] \in Update /\ app[h][a] \in Application
  BY DEF TypeInv, TypeOK
<1>2. retrySequence[KeyOf[a]] \in [0 .. MaxVersion -> 0 .. MaxRetry]
  BY KeyType DEF TypeInv, TypeOK
<1>3. PICK downloaded \in BOOLEAN :
        update' = [update EXCEPT ![h][a] =
                     [update[h][a] EXCEPT !.step = "save", !.downloaded = downloaded]]
  <2>1. CASE Download(h, a)
    BY <1>1, <2>1 DEF Download, TypeInv, TypeOK, Update
  <2>2. CASE Install(h, a)
    BY <1>1, <2>2 DEF Install, TypeInv, TypeOK, Update
  <2> QED
    BY <2>1, <2>2
<1>5. [update[h][a] EXCEPT !.step = "save", !.downloaded = downloaded] \in Update
  BY <1>1 DEF Update, Step
<1>6. update' \in [Host -> [App -> Update]] /\ LastStage'
  BY <1>1, <1>3, <1>5, UpdateTo DEF Update
<1>4. app' \in [Host -> [App -> Application]]
  <2>1. PICK record \in Application : app' = [app EXCEPT ![h][a] = record]
    <3>1. CASE Download(h, a)
      <4> DEFINE version == update[h][a].target.version
                 attempt == [version |-> version, retry |-> retrySequence[KeyOf[a]][version]]
      <4>1. version \in 0 .. MaxVersion
        BY <1>1 DEF Update, Attempt
      <4>2. retrySequence[KeyOf[a]][version] \in 0 .. MaxRetry
        BY <1>2, <4>1
      <4>3. attempt \in Attempt
        BY <4>1, <4>2 DEF Attempt
      <4>4. app' = [app EXCEPT ![h][a] = [app[h][a] EXCEPT !.tried = attempt]]
        BY <3>1 DEF Download, TypeInv, TypeOK
      <4>5. [app[h][a] EXCEPT !.tried = attempt] \in Application
        BY <1>1, <4>3 DEF Application
      <4> QED
        BY <4>4, <4>5
    <3>2. CASE Install(h, a)
      <4>1. app' = [app EXCEPT ![h][a] = [app[h][a] EXCEPT !.installed = app[h][a].tried]]
        BY <3>2 DEF Install, TypeInv, TypeOK
      <4>2. [app[h][a] EXCEPT !.installed = app[h][a].tried] \in Application
        BY <1>1 DEF Application
      <4> QED
        BY <4>1, <4>2
    <3> QED
      BY <3>1, <3>2
  <2> QED
    BY <2>1 DEF TypeInv, TypeOK
<1> QED
  BY <1>6, <1>4 DEF Download, Install, TypeInv, TypeOK, versions, links

LEMMA SavingType ==
  ASSUME TypeInv, NEW h \in Host, NEW a \in App, Save(h, a) \/ FailSave(h, a)
  PROVE  TypeInv'
<1>1. update[h][a] \in Update /\ app[h][a] \in Application
  BY DEF TypeInv, TypeOK
<1>2. [update[h][a] EXCEPT !.step = "next"] \in Update
  BY <1>1 DEF Update, Step
<1>3. CASE Save(h, a)
  <2> DEFINE u == IF update[h][a].at \in {Finished, Failed} THEN NoUpdate
                  ELSE [update[h][a] EXCEPT !.step = "next"]
  <2>1. update' = [update EXCEPT ![h][a] = u]
    BY <1>3 DEF Save
  <2>2. u \in Update
    BY <1>2, ConstantTypes
  <2>3. u.step \in {"work", "next"} => u.at \notin {Finished, Failed}
    BY <1>1 DEF Update, NoUpdate
  <2>4. update' \in [Host -> [App -> Update]] /\ LastStage'
    <3> HIDE DEF u
    <3> QED
      BY <2>1, <2>2, <2>3, UpdateTo
  <2>5. Persisted(app[h][a]) \in Saved
    BY <1>1 DEF Persisted, Application, Saved
  <2>6. disk' \in [Host -> [App -> Saved]]
    BY <1>3, <2>5 DEF Save, TypeInv, TypeOK
  <2> QED
    BY <1>3, <2>4, <2>6 DEF Save, TypeInv, TypeOK, versions, links
<1>4. CASE FailSave(h, a)
  <2>1. update' \in [Host -> [App -> Update]] /\ LastStage'
    BY <1>4, ConstantTypes, UpdateTo DEF FailSave, NoUpdate
  <2>2. faults' \in 0 .. MaxFaults
    BY <1>4, ConstantsAssumption DEF FailSave, TypeInv, TypeOK
  <2> QED
    BY <1>4, <2>1, <2>2 DEF FailSave, TypeInv, TypeOK, versions, links
<1> QED
  BY <1>3, <1>4

(* The steps of the links, of a host and of the versions.                   *)
LEMMA ReceiveType ==
  ASSUME TypeInv, NEW h \in Host, NEW g \in Host, Receive(h, g)
  PROVE  TypeInv'
<1>1. inbox[h][g] \in Seq([App -> Info]) /\ inbox[h][g] # <<>>
  BY DEF Receive, TypeInv, TypeOK
<1>2. Head(inbox[h][g]) \in [App -> Info] /\ Tail(inbox[h][g]) \in Seq([App -> Info])
  BY <1>1
<1>3. view' \in [Host -> [Host -> [App -> Info]]]
  BY <1>2 DEF Receive, TypeInv, TypeOK
<1>4. inbox' \in [Host -> [Host -> Seq([App -> Info])]]
  BY <1>2 DEF Receive, TypeInv, TypeOK
<1>5. initialReceived' \in [Host -> SUBSET Host]
  BY DEF Receive, TypeInv, TypeOK
<1> QED
  BY <1>3, <1>4, <1>5 DEF Receive, TypeInv, TypeOK, LastStage, versions

LEMMA DisconnectType ==
  ASSUME TypeInv, NEW h \in Host, NEW g \in Host, Disconnect(h, g)
  PROVE  TypeInv'
<1>1. view' \in [Host -> [Host -> [App -> Info]]]
  BY NoAppsType DEF Disconnect, TypeInv, TypeOK
<1>2. inbox' \in [Host -> [Host -> Seq([App -> Info])]]
  <2>1. <<>> \in Seq([App -> Info])
    OBVIOUS
  <2> QED
    BY <2>1 DEF Disconnect, TypeInv, TypeOK
<1>3. initialReceived' \in [Host -> SUBSET Host] /\ subscribed' \in [Host -> SUBSET Host]
  BY DEF Disconnect, TypeInv, TypeOK
<1>4. faults' \in 0 .. MaxFaults
  BY ConstantsAssumption DEF Disconnect, TypeInv, TypeOK
<1> QED
  BY <1>1, <1>2, <1>3, <1>4 DEF Disconnect, TypeInv, TypeOK, LastStage, versions

LEMMA SubscribeType ==
  ASSUME TypeInv, NEW h \in Host, NEW g \in Host, Subscribe(h, g)
  PROVE  TypeInv'
<1>1. PublishedApps(app[g]) \in [App -> Info]
  BY PublishedAppsType DEF TypeInv, TypeOK
<1>2. <<PublishedApps(app[g])>> \in Seq([App -> Info])
  BY <1>1
<1>3. inbox' \in [Host -> [Host -> Seq([App -> Info])]]
  BY <1>2 DEF Subscribe, TypeInv, TypeOK
<1>4. subscribed' \in [Host -> SUBSET Host]
  BY DEF Subscribe, TypeInv, TypeOK
<1> QED
  BY <1>3, <1>4 DEF Subscribe, TypeInv, TypeOK, LastStage, versions

LEMMA RestartType ==
  ASSUME TypeInv, NEW h \in Host, Restart(h)
  PROVE  TypeInv'
<1>1. [a \in App |-> Loaded(disk[h][a])] \in [App -> Application]
  BY LoadedType DEF TypeInv, TypeOK
<1>2. app' \in [Host -> [App -> Application]]
  BY <1>1 DEF Restart, TypeInv, TypeOK
<1>3. update' \in [Host -> [App -> Update]] /\ LastStage'
  BY ConstantTypes DEF Restart, TypeInv, TypeOK, LastStage, NoUpdate
<1>4. startSequence' \in [Host -> 0 .. MaxStarts]
  BY ConstantsAssumption DEF Restart, TypeInv, TypeOK
<1>5. view' \in [Host -> [Host -> [App -> Info]]]
  BY NoAppsType DEF Restart, TypeInv, TypeOK
<1>6. initialReceived' \in [Host -> SUBSET Host] /\ subscribed' \in [Host -> SUBSET Host]
  BY DEF Restart, TypeInv, TypeOK
<1>7. inbox' \in [Host -> [Host -> Seq([App -> Info])]]
  BY DEF Restart, TypeInv, TypeOK
<1>8. offered' \in [Host -> [Key -> Attempt]]
  BY ConstantTypes DEF Restart, TypeInv, TypeOK
<1>9. faults' \in 0 .. MaxFaults
  BY ConstantsAssumption DEF Restart, TypeInv, TypeOK
<1> QED
  BY <1>2, <1>3, <1>4, <1>5, <1>6, <1>7, <1>8, <1>9 DEF Restart, TypeInv, TypeOK

LEMMA VersionsType ==
  ASSUME TypeInv, NEW k \in Key,
         Release(k) \/ RetryUpgrade(k) \/ \E h \in Host : Offer(h, k)
  PROVE  TypeInv'
<1>1. CASE Release(k)
  <2>1. newest' \in [Key -> 0 .. MaxVersion]
    BY <1>1, ConstantsAssumption DEF Release, TypeInv, TypeOK
  <2> QED
    BY <1>1, <2>1 DEF Release, TypeInv, TypeOK, LastStage, links
<1>2. CASE RetryUpgrade(k)
  <2>1. newest[k] \in 0 .. MaxVersion /\ retrySequence[k] \in [0 .. MaxVersion -> 0 .. MaxRetry]
    BY DEF TypeInv, TypeOK
  <2>2. retrySequence[k][newest[k]] + 1 \in 0 .. MaxRetry
    BY <1>2, <2>1, ConstantsAssumption DEF RetryUpgrade
  <2>3. retrySequence' \in [Key -> [0 .. MaxVersion -> 0 .. MaxRetry]]
    BY <1>2, <2>2 DEF RetryUpgrade, TypeInv, TypeOK
  <2> QED
    BY <1>2, <2>3 DEF RetryUpgrade, TypeInv, TypeOK, LastStage, links
<1>3. CASE \E h \in Host : Offer(h, k)
  <2>1. offered' \in [Host -> [Key -> Attempt]]
    BY <1>3, LatestType DEF Offer, TypeInv, TypeOK
  <2> QED
    BY <1>3, <2>1 DEF Offer, TypeInv, TypeOK, LastStage, links
<1> QED
  BY <1>1, <1>2, <1>3

LEMMA RewritingType ==
  ASSUME TypeInv, NEW h \in Host, NEW a \in App, UpdateApplicationJson(h, a)
  PROVE  TypeInv'
<1>1. app[h][a] \in Application
  BY DEF TypeInv, TypeOK
<1>2. Persisted(app[h][a]) \in Saved
  BY <1>1 DEF Persisted, Application, Saved
<1>3. disk' \in [Host -> [App -> Saved]]
  BY <1>2 DEF UpdateApplicationJson, TypeInv, TypeOK
<1> QED
  BY <1>3 DEF UpdateApplicationJson, TypeInv, TypeOK, LastStage, versions, links

LEMMA NextTypeInv == TypeInv /\ [Next]_vars => TypeInv'
<1> SUFFICES ASSUME TypeInv, [Next]_vars PROVE TypeInv'
  OBVIOUS
<1>1. ASSUME NEW h \in Host, NEW a \in App,
             \/ Evaluate(h, a) \/ Run(h, a) \/ Trouble(h, a)
             \/ UpdateApplicationJson(h, a)
      PROVE  TypeInv'
  BY <1>1, WaitingType, BeginType, ReachStageType, WorkType, SavingType, RewritingType,
     NextStageType, FailingType
     DEF Evaluate, Run, Trouble
<1>2. ASSUME NEW h \in Host, Hear(h)
      PROVE  TypeInv'
  BY <1>2, ReceiveType, SubscribeType, VersionsType DEF Hear
<1>3. ASSUME NEW h \in Host, NEW g \in Host, Disconnect(h, g)
      PROVE  TypeInv'
  BY <1>3, DisconnectType
<1>4. ASSUME NEW h \in Host, Restart(h)
      PROVE  TypeInv'
  BY <1>4, RestartType
<1>5. ASSUME NEW k \in Key, Release(k) \/ RetryUpgrade(k)
      PROVE  TypeInv'
  BY <1>5, VersionsType
<1>6. CASE UNCHANGED vars
  BY <1>6 DEF vars, TypeInv, TypeOK, LastStage
<1> QED
  BY <1>1, <1>2, <1>3, <1>4, <1>5, <1>6 DEF Next, Act

(* Every variable keeps its type, through every failure, restart and        *)
(* reconnection; in particular no update goes past its last stage.          *)
THEOREM TypeCorrect == Spec => []TypeOK
<1>1. Init => TypeInv
  BY InitTypeInv
<1>2. TypeInv /\ [Next]_vars => TypeInv'
  BY NextTypeInv
<1>3. TypeInv => TypeOK
  BY DEF TypeInv
<1> QED
  BY <1>1, <1>2, <1>3, PTL DEF Spec

-----------------------------------------------------------------------------
(* The rollout of a single release. *)

Inv == TypeInv /\ RolloutInvariant

(* A step that changes one application, and tells the others or not, keeps  *)
(* the invariant if it keeps it of that application.                        *)
LEMMA OwnStep ==
  ASSUME Inv, NEW h \in Host, NEW a \in App,
         NEW own \in Application, NEW saved \in Saved, NEW u \in Update,
         app' = [app EXCEPT ![h][a] = own],
         disk' = [disk EXCEPT ![h][a] = saved],
         update' = [update EXCEPT ![h][a] = u],
         view' = view,
         inbox' = inbox \/ Broadcast(h, app'[h]),
         InStep(own, saved, u),
         Updated(h, a) => HasRelease(own, saved, u),
         Succeeded(own) \/ saved.finished.version > 0 => HasRelease(own, saved, u),
         \/ ~HadTurn(own, saved, u)
         \/ HadTurn(app[h][a], disk[h][a], update[h][a])
         \/ \A g \in Host, b \in App :
              SameRollout(b, a) /\ Before(g, b, h, a) => Updated(g, b)
  PROVE  RolloutInvariant'
<1>1. \A g \in Host, b \in App :
        IF g = h /\ b = a
        THEN app'[g][b] = own /\ disk'[g][b] = saved /\ update'[g][b] = u
        ELSE /\ app'[g][b] = app[g][b]
             /\ disk'[g][b] = disk[g][b]
             /\ update'[g][b] = update[g][b]
  BY DEF Inv, TypeInv, TypeOK
<1>2. StepsInOrder'
  BY <1>1 DEF Inv, RolloutInvariant, StepsInOrder
<1>3. \A g \in Host, b \in App : Updated(g, b) => Updated(g, b)'
  BY <1>1 DEF Updated
<1>4. \A g \in Host, b \in App :
        Succeeded(app'[g][b]) \/ disk'[g][b].finished.version > 0 => Updated(g, b)'
  BY <1>1, <1>3 DEF Inv, RolloutInvariant, SuccessIsTrue, Updated
<1>5. \A f, g \in Host, b \in App : Succeeded(view'[f][g][b]) => Updated(g, b)'
  BY <1>3 DEF Inv, RolloutInvariant, SuccessIsTrue
<1>6. ASSUME NEW f \in Host, NEW g \in Host, NEW b \in App,
             NEW i \in DOMAIN inbox'[f][g], Succeeded(inbox'[f][g][i][b])
      PROVE  Updated(g, b)'
  <2>1. CASE inbox'[f][g] = inbox[f][g]
    BY <1>3, <1>6, <2>1 DEF Inv, RolloutInvariant, SuccessIsTrue
  <2>2. CASE /\ g = h
             /\ inbox'[f][g] = Append(inbox[f][g], PublishedApps(app'[h]))
    <3>1. inbox[f][g] \in Seq([App -> Info])
      BY DEF Inv, TypeInv, TypeOK
    <3>2. PublishedApps(app'[h]) \in [App -> Info]
      BY PublishedAppsType DEF Inv, TypeInv, TypeOK
    <3>3. CASE i \in DOMAIN inbox[f][g]
      <4>1. inbox'[f][g][i] = inbox[f][g][i]
        BY <2>2, <3>1, <3>2, <3>3
      <4> QED
        BY <1>3, <1>6, <3>3, <4>1 DEF Inv, RolloutInvariant, SuccessIsTrue
    <3>4. CASE inbox'[f][g][i] = PublishedApps(app'[h])
      <4>1. inbox'[f][g][i][b] = Published(app'[g][b])
        BY <2>2, <3>4 DEF PublishedApps
      <4>2. Succeeded(app'[g][b])
        BY <1>6, <4>1 DEF Succeeded, Published
      <4> QED
        BY <1>4, <4>2
    <3> QED
      BY <2>2, <3>1, <3>2, <3>3, <3>4
  <2>3. inbox \in [Host -> [Host -> Seq([App -> Info])]]
    BY DEF Inv, TypeInv, TypeOK
  <2>4. CASE Broadcast(h, app'[h])
    <3>1. inbox'[f] = IF h \in subscribed[f]
                      THEN [inbox[f] EXCEPT ![h] = Append(inbox[f][h], PublishedApps(app'[h]))]
                      ELSE inbox[f]
      BY <2>3, <2>4 DEF Broadcast
    <3> QED
      BY <2>1, <2>2, <2>3, <3>1
  <2> QED
    BY <2>1, <2>4
<1>7. ASSUME NEW f \in Host, NEW g \in Host, NEW c \in App, NEW b \in App,
             SameRollout(c, b), Before(f, c, g, b),
             HadTurn(app[g][b], disk[g][b], update[g][b])'
      PROVE  Updated(f, c)'
  <2>1. CASE HadTurn(app[g][b], disk[g][b], update[g][b])
    BY <1>3, <1>7, <2>1 DEF Inv, RolloutInvariant, TurnsInOrder
  <2>2. CASE g = h /\ b = a /\ ~HadTurn(app[g][b], disk[g][b], update[g][b])
    BY <1>1, <1>3, <1>7, <2>2
  <2> QED
    BY <1>1, <1>7, <2>1, <2>2
<1> QED
  BY <1>2, <1>4, <1>5, <1>6, <1>7 DEF RolloutInvariant, SuccessIsTrue, TurnsInOrder

LEMMA Unchanged ==
  ASSUME TypeInv, NEW h \in Host, NEW a \in App
  PROVE  /\ app = [app EXCEPT ![h][a] = app[h][a]]
         /\ disk = [disk EXCEPT ![h][a] = disk[h][a]]
         /\ app[h][a] \in Application
         /\ disk[h][a] \in Saved
         /\ update[h][a] \in Update
BY DEF TypeInv, TypeOK

LEMMA ThisInStep ==
  ASSUME Inv, NEW h \in Host, NEW a \in App
  PROVE  /\ InStep(app[h][a], disk[h][a], update[h][a])
         /\ Succeeded(app[h][a]) \/ disk[h][a].finished.version > 0 => Updated(h, a)
BY DEF Inv, RolloutInvariant, StepsInOrder, SuccessIsTrue

(* A stage is entered with what the stages before it have achieved.         *)
LEMMA EnteringInOrder ==
  ASSUME Inv, NEW h \in Host, NEW a \in App, NEW u \in Update,
         EnterStage(h, a, u), UNCHANGED <<disk, links>>,
         ~Updated(h, a),
         u.target.version > 0,
         Past(u, StopOldApp) => Disrupted(app[h][a]),
         Past(u, DownloadVersion) => app[h][a].tried.version > 0,
         Past(u, SaveApplicationState) => /\ app[h][a].installed.version > 0
                                          /\ disk[h][a].installed.version > 0,
         u.at \in None .. StopOldApp => app[h][a].installed.version = 0
  PROVE  RolloutInvariant'
<1> DEFINE starts == u.at = SyncStart /\ app[h][a].want # SyncStart
           own == [app[h][a] EXCEPT !.want = u.at,
                                    !.startSeq = IF starts THEN startSequence[h] + 1 ELSE @]
           entered == [u EXCEPT !.step = IF Coordinates(a, u.at) THEN "announce" ELSE "notify"]
<1>1. TypeInv
  BY DEF Inv
<1>2. SetApplication(h, a, own)
  BY DEF EnterStage
<1>3. app' = [app EXCEPT ![h][a] = own]
  BY <1>2 DEF SetApplication
<1>4. inbox' = inbox \/ Broadcast(h, app'[h])
  BY <1>2 DEF SetApplication
<1>5. own \in Application
  BY <1>1, <1>3, EnterStageType DEF TypeInv, TypeOK
<1>6. update' = [update EXCEPT ![h][a] = entered]
  BY DEF EnterStage
<1>7. entered \in Update
  BY DEF Update, Step
<1>8. /\ own.stage = app[h][a].stage
      /\ own.tried = app[h][a].tried
      /\ own.installed = app[h][a].installed
      /\ own.finished = app[h][a].finished
      /\ own.failStage = app[h][a].failStage
  BY <1>1, Unchanged DEF Application
<1>9. /\ entered.at = u.at /\ entered.target = u.target
      /\ entered.step = IF Coordinates(a, u.at) THEN "announce" ELSE "notify"
  BY DEF Update
<1> HIDE DEF own, entered
<1>10. InStep(own, disk[h][a], entered)
  BY <1>8, <1>9, ThisInStep DEF InStep, Past, Disrupted, Coordinates
<1>11. ~(Succeeded(own) \/ disk[h][a].finished.version > 0)
  BY <1>8, ThisInStep DEF Succeeded
<1>12. \/ ~HadTurn(own, disk[h][a], entered)
       \/ HadTurn(app[h][a], disk[h][a], update[h][a])
       \/ \A g \in Host, b \in App :
            SameRollout(b, a) /\ Before(g, b, h, a) => Updated(g, b)
  BY <1>8, <1>9 DEF HadTurn, Disrupted, Coordinates, SameRollout
<1>13. disk' = [disk EXCEPT ![h][a] = disk[h][a]] /\ view' = view
  BY <1>1, Unchanged DEF links
<1> QED
  BY <1>1, <1>3, <1>4, <1>5, <1>6, <1>7, <1>10, <1>11, <1>12, <1>13, Unchanged, OwnStep

LEMMA BeginInOrder ==
  ASSUME Inv, MaxVersion = 1, NEW h \in Host, NEW a \in App, Begin(h, a)
  PROVE  RolloutInvariant'
<1> DEFINE u == [step |-> "next", at |-> None,
                 target |-> offered[h][KeyOf[a]], downloaded |-> FALSE]
<1>1. offered[h][KeyOf[a]] \in Attempt /\ app[h][a] \in Application
  BY KeyType DEF Inv, TypeInv, TypeOK
<1>2. /\ offered[h][KeyOf[a]].version \in 0 .. 1
      /\ app[h][a].installed.version \in 0 .. 1
  BY <1>1 DEF Attempt, Application
<1>3. offered[h][KeyOf[a]].version > app[h][a].installed.version
  BY DEF Begin, FindVersion
<1>4. ~Updated(h, a)
  BY <1>2, <1>3 DEF Updated, HasRelease
<1>5. u \in Update
  BY <1>1 DEF Update, Step
<1>6. u.target.version > 0 /\ u.at = None /\ app[h][a].installed.version = 0
  BY <1>2, <1>3
<1>7. EnterStage(h, a, u) /\ UNCHANGED <<disk, links>>
  BY DEF Begin
<1> HIDE DEF u
<1> QED
  BY <1>4, <1>5, <1>6, <1>7, EnteringInOrder DEF Past

LEMMA NextStageInOrder ==
  ASSUME Inv, NEW h \in Host, NEW a \in App, NextStage(h, a)
  PROVE  RolloutInvariant'
<1> DEFINE old == update[h][a]
           u == [old EXCEPT !.at = @ + 1]
<1>1. old \in Update /\ old.at \notin {Finished, Failed}
  BY DEF Inv, TypeInv, TypeOK, LastStage, NextStage
<1>2. old.step \in {"work", "next"}
  BY DEF NextStage
<1>3. u \in Update /\ u.at = old.at + 1 /\ u.target = old.target
  BY <1>1 DEF Update
<1>4. EnterStage(h, a, u) /\ UNCHANGED <<disk, links>>
  BY DEF NextStage
<1>5. ~Updated(h, a)
  BY <1>2 DEF Updated, HasRelease
<1>6. InStep(app[h][a], disk[h][a], old)
  BY ThisInStep
<1>7. old.at \in Stage
  BY <1>1 DEF Update
<1>8. /\ u.target.version > 0
      /\ Past(u, StopOldApp) => Disrupted(app[h][a])
  BY <1>2, <1>3, <1>6, <1>7 DEF InStep, Past, Disrupted
<1>9. Past(u, DownloadVersion) => app[h][a].tried.version > 0
  BY <1>2, <1>3, <1>6, <1>7 DEF InStep, Past, NextStage
<1>10. Past(u, SaveApplicationState) => /\ app[h][a].installed.version > 0
                                        /\ disk[h][a].installed.version > 0
  BY <1>2, <1>3, <1>6, <1>7 DEF InStep, Past, NextStage
<1>11. u.at \in None .. StopOldApp => app[h][a].installed.version = 0
  BY <1>2, <1>3, <1>6, <1>7 DEF InStep
<1> HIDE DEF u
<1> QED
  BY <1>3, <1>4, <1>5, <1>8, <1>9, <1>10, <1>11, EnteringInOrder

LEMMA FailingInOrder ==
  ASSUME Inv, NEW h \in Host, NEW a \in App, Fail(h, a) \/ FailWork(h, a)
  PROVE  RolloutInvariant'
<1> DEFINE u == [update[h][a] EXCEPT !.at = Failed]
<1>1. update[h][a] \in Update
  BY DEF Inv, TypeInv, TypeOK
<1>2. u \in Update /\ u.at = Failed /\ u.target = update[h][a].target
  BY <1>1 DEF Update
<1>3. EnterStage(h, a, u) /\ UNCHANGED <<disk, links>>
  BY DEF Fail, FailWork, EnterFailed
<1>4. update[h][a].step # "idle" /\ ~Updated(h, a)
  BY DEF Fail, FailWork, Updated, HasRelease
<1>5. u.target.version > 0
  BY <1>2, <1>4, ThisInStep DEF InStep
<1> HIDE DEF u
<1> QED
  BY <1>2, <1>3, <1>4, <1>5, EnteringInOrder DEF Past

LEMMA ReachStageInOrder ==
  ASSUME Inv, NEW h \in Host, NEW a \in App, ReachStage(h, a)
  PROVE  RolloutInvariant'
<1> DEFINE old == app[h][a]
           saved == disk[h][a]
           u == update[h][a]
           own == StageReached(old, u)
           next == IF u.at \notin {Finished, Failed} THEN [u EXCEPT !.step = "work"]
                   ELSE IF old.stage = u.at THEN NoUpdate
                   ELSE [u EXCEPT !.step = "save"]
<1>1. TypeInv
  BY DEF Inv
<1>2. old \in Application /\ saved \in Saved /\ u \in Update
  BY <1>1, Unchanged
<1>3. SetApplication(h, a, own) /\ u.step = "notify"
  BY DEF ReachStage
<1>4. app' = [app EXCEPT ![h][a] = own] /\ (inbox' = inbox \/ Broadcast(h, app'[h]))
  BY <1>3 DEF SetApplication
<1>5. update' = [update EXCEPT ![h][a] = next]
  BY DEF ReachStage
<1>6. own \in Application /\ next \in Update
  BY <1>2, StageReachedType, ConstantTypes DEF Update, Step
<1>7. /\ own.stage = u.at
      /\ own.installed = old.installed
      /\ u.at # Failed => own.tried = old.tried
      /\ own.failStage \in {old.failStage, old.stage}
      /\ own.finished = IF u.at = Finished /\ old.stage # Finished
                        THEN old.installed ELSE old.finished
  BY <1>2 DEF StageReached, RecordFailure, Application, Update
<1>8. /\ next.step = IF u.at \notin {Finished, Failed} THEN "work"
                     ELSE IF old.stage = u.at THEN "idle" ELSE "save"
      /\ next.step # "idle" => next.at = u.at /\ next.target = u.target
      /\ next.step = "idle" => next.at = None
  BY <1>2 DEF Update, NoUpdate
<1>9. InStep(old, saved, u) /\ ~Updated(h, a) /\ ~Succeeded(old)
      /\ ~(saved.finished.version > 0)
  BY <1>3, ThisInStep DEF Updated, HasRelease
<1>10. u.at \in Stage
  BY <1>2 DEF Update
<1> HIDE DEF own, next
<1>11. InStep(own, saved, next)
  BY <1>3, <1>7, <1>8, <1>9, <1>10 DEF InStep, Past, Disrupted
<1>12. Succeeded(own) \/ saved.finished.version > 0 => HasRelease(own, saved, next)
  BY <1>3, <1>7, <1>8, <1>9, <1>10 DEF InStep, Past, Disrupted, Succeeded, HasRelease
<1>13. HadTurn(own, saved, next) => HadTurn(old, saved, u)
  BY <1>3, <1>7, <1>8, <1>9, <1>10 DEF InStep, Past, Disrupted, HadTurn
<1>14. disk' = [disk EXCEPT ![h][a] = saved] /\ view' = view
  BY <1>1, Unchanged DEF ReachStage, links
<1> QED
  BY <1>2, <1>4, <1>5, <1>6, <1>9, <1>11, <1>12, <1>13, <1>14, OwnStep

(* The end of a wait gives an application its turn only at StopOldApp, and  *)
(* there only once every smaller one is known to have succeeded.            *)
LEMMA TurnIsKnown ==
  ASSUME Inv, NEW h \in Host, NEW a \in App,
         TypeOf[KeyOf[a]] = "OneAtATime",
         update[h][a].step = "turn", WaitIsOver(h, a)
  PROVE  \A g \in Host, b \in App :
           SameRollout(b, a) /\ Before(g, b, h, a) => Updated(g, b)
<1>1. update[h][a].at = StopOldApp /\ update[h][a].target.version > 0
  BY ThisInStep DEF InStep
<1>2. OurTurn(h, a)
  BY <1>1 DEF WaitIsOver, Reached
<1> SUFFICES ASSUME NEW g \in Host, NEW b \in App,
                    SameRollout(b, a), Before(g, b, h, a)
             PROVE  Updated(g, b)
  OBVIOUS
<1>3. b \in Peers(a)
  BY DEF Peers, SameRollout
<1>4. CASE g < h
  <2>1. ~Pending(Seen(h, g)[b], update[h][a].target)
    BY <1>2, <1>3, <1>4 DEF OurTurn
  <2>2. g # h
    BY <1>4, ConstantsAssumption
  <2>3. Succeeded(view[h][g][b])
    BY <1>1, <2>1, <2>2 DEF Pending, SameVersion, Seen, Succeeded
  <2> QED
    BY <2>3 DEF Inv, RolloutInvariant, SuccessIsTrue
<1>5. CASE g = h /\ b < a
  <2>1. ~Pending(app[h][b], update[h][a].target)
    BY <1>2, <1>3, <1>5 DEF OurTurn
  <2>2. Succeeded(app[h][b])
    BY <1>1, <2>1 DEF Pending, SameVersion, Succeeded
  <2> QED
    BY <1>5, <2>2, ThisInStep
<1> QED
  BY <1>4, <1>5 DEF Before

LEMMA WaitingInOrder ==
  ASSUME Inv, NEW h \in Host, NEW a \in App,
         StartWait(h, a) \/ PassWait(h, a) \/ FailWait(h, a) \/ AbortWait(h, a)
  PROVE  RolloutInvariant'
<1> DEFINE old == update[h][a]
<1>1. TypeInv /\ old \in Update
  BY DEF Inv, TypeInv, TypeOK
<1>2. PICK step \in {"wait", "turn", "ready", "notify", "failing"} :
        /\ update' = [update EXCEPT ![h][a] = [old EXCEPT !.step = step]]
        /\ step = "wait" => old.step = "announce"
        /\ step = "turn" => old.step = "ready"
        /\ step = "ready" => old.at = StopOldApp
        /\ step = "notify" =>
             /\ Waiting(h, a) /\ WaitIsOver(h, a)
             /\ TypeOf[KeyOf[a]] = "OneAtATime" /\ old.at = StopOldApp => old.step = "turn"
  BY <1>1 DEF StartWait, PassWait, FailWait, AbortWait, TypeInv, TypeOK, Waiting
<1>3. old.step \in {"announce", "ready", "wait", "turn"}
  BY DEF StartWait, PassWait, FailWait, AbortWait, Waiting
<1> DEFINE u == [old EXCEPT !.step = step]
<1>4. u \in Update /\ u.step = step /\ u.at = old.at /\ u.target = old.target
  BY <1>1 DEF Update, Step
<1>5. UNCHANGED <<app, disk, links, inbox>>
  BY DEF StartWait, PassWait, FailWait, AbortWait
<1>6. InStep(app[h][a], disk[h][a], old) /\ ~Updated(h, a)
  BY <1>3, ThisInStep DEF Updated, HasRelease
<1>7. ~(Succeeded(app[h][a]) \/ disk[h][a].finished.version > 0)
  BY <1>6, ThisInStep
<1> HIDE DEF u
<1>8. InStep(app[h][a], disk[h][a], u)
  BY <1>2, <1>3, <1>4, <1>6 DEF InStep, Past
<1>9. \/ ~HadTurn(app[h][a], disk[h][a], u)
      \/ HadTurn(app[h][a], disk[h][a], old)
      \/ \A g \in Host, b \in App :
           SameRollout(b, a) /\ Before(g, b, h, a) => Updated(g, b)
  <2>1. CASE step = "notify" /\ old.at = StopOldApp /\ TypeOf[KeyOf[a]] = "OneAtATime"
    BY <1>2, <2>1, TurnIsKnown
  <2>2. CASE TypeOf[KeyOf[a]] # "OneAtATime"
    BY <2>2 DEF SameRollout
  <2>3. CASE ~(step = "notify" /\ old.at = StopOldApp)
    BY <1>4, <2>3 DEF HadTurn
  <2> QED
    BY <2>1, <2>2, <2>3
<1>10. /\ app' = [app EXCEPT ![h][a] = app[h][a]]
       /\ disk' = [disk EXCEPT ![h][a] = disk[h][a]]
       /\ view' = view /\ inbox' = inbox
       /\ update' = [update EXCEPT ![h][a] = u]
  BY <1>1, <1>2, <1>5, Unchanged DEF links, u
<1> QED
  BY <1>1, <1>4, <1>6, <1>7, <1>8, <1>9, <1>10, Unchanged, OwnStep

LEMMA WorkInOrder ==
  ASSUME Inv, NEW h \in Host, NEW a \in App, Download(h, a) \/ Install(h, a)
  PROVE  RolloutInvariant'
<1> DEFINE old == update[h][a]
<1>1. TypeInv /\ old \in Update /\ app[h][a] \in Application /\ disk[h][a] \in Saved
  BY Unchanged DEF Inv
<1>2. InStep(app[h][a], disk[h][a], old) /\ old.step = "work" /\ ~Updated(h, a)
  BY ThisInStep DEF Download, Install, Updated, HasRelease
<1>3. ~(Succeeded(app[h][a]) \/ disk[h][a].finished.version > 0)
  BY <1>2, ThisInStep
<1>4. PICK own \in Application, u \in Update :
        /\ app' = [app EXCEPT ![h][a] = own]
        /\ update' = [update EXCEPT ![h][a] = u]
        /\ own.stage = app[h][a].stage /\ own.finished = app[h][a].finished
        /\ own.failStage = app[h][a].failStage
        /\ u.step = "save" /\ u.at = old.at /\ u.target = old.target
        /\ \/ /\ old.at = DownloadVersion
              /\ own.installed = app[h][a].installed
              /\ own.tried.version = old.target.version
           \/ /\ old.at = SaveApplicationState
              /\ own.tried = app[h][a].tried
              /\ own.installed = app[h][a].tried
  <2>1. CASE Download(h, a)
    <3> DEFINE own == app'[h][a]
               u == update'[h][a]
    <3>1. TypeInv'
      BY <1>1, <2>1, WorkType
    <3>2. own \in Application /\ u \in Update
      BY <3>1 DEF TypeInv, TypeOK
    <3>3. app' = [app EXCEPT ![h][a] = own] /\ update' = [update EXCEPT ![h][a] = u]
      BY <1>1, <2>1 DEF Download, TypeInv, TypeOK
    <3>4. /\ own.stage = app[h][a].stage /\ own.finished = app[h][a].finished
          /\ own.failStage = app[h][a].failStage
          /\ own.installed = app[h][a].installed
          /\ own.tried.version = old.target.version
      BY <1>1, <2>1 DEF Download, TypeInv, TypeOK, Application
    <3>5. /\ u.step = "save" /\ u.at = old.at /\ u.target = old.target
          /\ old.at = DownloadVersion
      BY <1>1, <2>1 DEF Download, TypeInv, TypeOK, Update
    <3> QED
      BY <3>2, <3>3, <3>4, <3>5
  <2>2. CASE Install(h, a)
    <3> DEFINE own == app'[h][a]
               u == update'[h][a]
    <3>1. TypeInv'
      BY <1>1, <2>2, WorkType
    <3>2. own \in Application /\ u \in Update
      BY <3>1 DEF TypeInv, TypeOK
    <3>3. app' = [app EXCEPT ![h][a] = own] /\ update' = [update EXCEPT ![h][a] = u]
      BY <1>1, <2>2 DEF Install, TypeInv, TypeOK
    <3>4. /\ own.stage = app[h][a].stage /\ own.finished = app[h][a].finished
          /\ own.failStage = app[h][a].failStage
          /\ own.tried = app[h][a].tried /\ own.installed = app[h][a].tried
      BY <1>1, <2>2 DEF Install, TypeInv, TypeOK, Application
    <3>5. /\ u.step = "save" /\ u.at = old.at /\ u.target = old.target
          /\ old.at = SaveApplicationState
      BY <1>1, <2>2 DEF Install, TypeInv, TypeOK, Update
    <3> QED
      BY <3>2, <3>3, <3>4, <3>5
  <2> QED
    BY <2>1, <2>2
<1>5. InStep(own, disk[h][a], u)
  BY <1>2, <1>4 DEF InStep, Past, Disrupted
<1>6. ~(Succeeded(own) \/ disk[h][a].finished.version > 0)
  BY <1>3, <1>4 DEF Succeeded
<1>7. HadTurn(own, disk[h][a], u) => HadTurn(app[h][a], disk[h][a], old)
  BY <1>2, <1>4 DEF HadTurn, Disrupted, InStep
<1>8. disk' = [disk EXCEPT ![h][a] = disk[h][a]] /\ view' = view /\ inbox' = inbox
  BY <1>1, Unchanged DEF Download, Install, links
<1> QED
  BY <1>1, <1>2, <1>4, <1>5, <1>6, <1>7, <1>8, OwnStep

LEMMA SavingInOrder ==
  ASSUME Inv, NEW h \in Host, NEW a \in App, Save(h, a) \/ FailSave(h, a)
  PROVE  RolloutInvariant'
<1> DEFINE old == update[h][a]
           own == app[h][a]
<1>1. TypeInv /\ old \in Update /\ own \in Application /\ disk[h][a] \in Saved
  BY Unchanged DEF Inv
<1>2. /\ InStep(own, disk[h][a], old) /\ old.step = "save"
      /\ Succeeded(own) \/ disk[h][a].finished.version > 0 => Updated(h, a)
  BY ThisInStep DEF Save, FailSave
<1>3. PICK saved \in Saved, u \in Update :
        /\ disk' = [disk EXCEPT ![h][a] = saved]
        /\ update' = [update EXCEPT ![h][a] = u]
        /\ saved = disk[h][a] \/ saved = Persisted(own)
        /\ u = NoUpdate \/ (/\ u = [old EXCEPT !.step = "next"]
                            /\ saved = Persisted(own)
                            /\ old.at \notin {Finished, Failed})
        /\ u = NoUpdate => old.at \in {Finished, Failed}
  <2>1. CASE Save(h, a)
    <3>1. Persisted(own) \in Saved
      BY <1>1 DEF Persisted, Application, Saved
    <3>2. [old EXCEPT !.step = "next"] \in Update
      BY <1>1 DEF Update, Step
    <3>3. [old EXCEPT !.step = "next"] # NoUpdate
      BY <1>1 DEF Update, NoUpdate
    <3> QED
      BY <2>1, <3>1, <3>2, <3>3, ConstantTypes DEF Save
  <2>2. CASE FailSave(h, a)
    <3>1. disk' = [disk EXCEPT ![h][a] = disk[h][a]]
      BY <1>1, <2>2, Unchanged DEF FailSave
    <3>2. /\ update' = [update EXCEPT ![h][a] = NoUpdate]
          /\ old.at \in {Finished, Failed}
      BY <2>2 DEF FailSave
    <3> QED
      BY <1>1, <3>1, <3>2, ConstantTypes
  <2> QED
    BY <2>1, <2>2
<1>4. /\ saved.installed = disk[h][a].installed \/ saved.installed = own.installed
      /\ saved.finished = disk[h][a].finished \/ saved.finished = own.finished
      /\ u # NoUpdate => saved.installed = own.installed
      /\ saved.failStage = disk[h][a].failStage \/ saved.failStage = own.failStage
  BY <1>3 DEF Persisted
<1>5. /\ u = NoUpdate => u.step = "idle" /\ u.at = None
      /\ u # NoUpdate => u.step = "next" /\ u.at = old.at /\ u.target = old.target
  BY <1>1, <1>3 DEF NoUpdate, Update
<1>6. InStep(own, saved, u)
  BY <1>2, <1>3, <1>4, <1>5 DEF InStep, Past, Disrupted
<1>7. Updated(h, a) => HasRelease(own, saved, u)
  BY <1>2, <1>3, <1>4, <1>5 DEF Updated, HasRelease
<1>8. Succeeded(own) \/ saved.finished.version > 0 => HasRelease(own, saved, u)
  BY <1>2, <1>4, <1>7 DEF Succeeded
<1>9. HadTurn(own, saved, u) => HadTurn(own, disk[h][a], old)
  BY <1>2, <1>4, <1>5 DEF HadTurn
<1>10. /\ app' = [app EXCEPT ![h][a] = own]
       /\ view' = view /\ inbox' = inbox
  BY <1>1, Unchanged DEF Save, FailSave, links
<1> QED
  BY <1>1, <1>3, <1>6, <1>7, <1>8, <1>9, <1>10, OwnStep

LEMMA RewritingInOrder ==
  ASSUME Inv, NEW h \in Host, NEW a \in App, UpdateApplicationJson(h, a)
  PROVE  RolloutInvariant'
<1> DEFINE own == app[h][a]
           u == update[h][a]
           saved == Persisted(own)
<1>1. TypeInv /\ own \in Application /\ u \in Update
  BY Unchanged DEF Inv
<1>2. /\ app' = [app EXCEPT ![h][a] = own]
      /\ disk' = [disk EXCEPT ![h][a] = saved]
      /\ update' = [update EXCEPT ![h][a] = u]
      /\ view' = view /\ inbox' = inbox
  BY <1>1, Unchanged DEF UpdateApplicationJson, links, TypeInv, TypeOK
<1>3. /\ saved \in Saved
      /\ saved.installed = own.installed /\ saved.finished = own.finished
      /\ saved.failStage = own.failStage
  BY <1>1 DEF Persisted, Application, Saved
<1>4. /\ InStep(own, disk[h][a], u)
      /\ Succeeded(own) \/ disk[h][a].finished.version > 0 => Updated(h, a)
  BY ThisInStep
<1>5. InStep(own, saved, u)
  BY <1>1, <1>3, <1>4 DEF InStep, Past, Disrupted
<1>6. Updated(h, a) => HasRelease(own, saved, u)
  BY <1>3 DEF Updated, HasRelease
<1>7. Succeeded(own) \/ saved.finished.version > 0 => HasRelease(own, saved, u)
  BY <1>3, <1>4, <1>6 DEF Succeeded
<1>8. HadTurn(own, saved, u) => HadTurn(own, disk[h][a], u)
  BY <1>3 DEF HadTurn
<1> HIDE DEF own, saved, u
<1> QED
  BY <1>1, <1>2, <1>3, <1>5, <1>6, <1>7, <1>8, OwnStep DEF own, saved, u

(* The steps of the links change only what an AppManager has heard.         *)
LEMMA LinkStep ==
  ASSUME Inv, UNCHANGED <<app, disk, update>>,
         \A f, g \in Host, b \in App :
           /\ Succeeded(view'[f][g][b]) => Updated(g, b)
           /\ \A i \in DOMAIN inbox'[f][g] :
                Succeeded(inbox'[f][g][i][b]) => Updated(g, b)
  PROVE  RolloutInvariant'
<1>1. \A g \in Host, b \in App : Updated(g, b)' <=> Updated(g, b)
  BY DEF Updated
<1>2. StepsInOrder' /\ TurnsInOrder'
  BY <1>1 DEF Inv, RolloutInvariant, StepsInOrder, TurnsInOrder
<1>3. SuccessIsTrue'
  BY <1>1 DEF Inv, RolloutInvariant, SuccessIsTrue
<1> QED
  BY <1>2, <1>3 DEF RolloutInvariant

LEMMA NoAppsSucceeded == \A b \in App : ~Succeeded(NoApps[b])
BY DEF Succeeded, NoApps, FreshInfo, Original

LEMMA ReceiveInOrder ==
  ASSUME Inv, NEW h \in Host, NEW g \in Host, Receive(h, g)
  PROVE  RolloutInvariant'
<1>1. inbox[h][g] \in Seq([App -> Info]) /\ inbox[h][g] # <<>>
  BY DEF Receive, Inv, TypeInv, TypeOK
<1>2. /\ 1 \in DOMAIN inbox[h][g] /\ Head(inbox[h][g]) = inbox[h][g][1]
      /\ \A i \in DOMAIN Tail(inbox[h][g]) :
           i + 1 \in DOMAIN inbox[h][g] /\ Tail(inbox[h][g])[i] = inbox[h][g][i + 1]
  BY <1>1
<1>3. \A f, e \in Host :
        /\ view'[f][e] = IF f = h /\ e = g THEN Head(inbox[h][g]) ELSE view[f][e]
        /\ inbox'[f][e] = IF f = h /\ e = g THEN Tail(inbox[h][g]) ELSE inbox[f][e]
  BY DEF Receive, Inv, TypeInv, TypeOK
<1>4. ASSUME NEW f \in Host, NEW e \in Host, NEW b \in App
      PROVE  /\ Succeeded(view'[f][e][b]) => Updated(e, b)
             /\ \A i \in DOMAIN inbox'[f][e] :
                  Succeeded(inbox'[f][e][i][b]) => Updated(e, b)
  <2>1. \A i \in DOMAIN inbox[f][e] : Succeeded(inbox[f][e][i][b]) => Updated(e, b)
    BY DEF Inv, RolloutInvariant, SuccessIsTrue
  <2>2. CASE f = h /\ e = g
    <3>1. view'[f][e] = inbox[f][e][1] /\ 1 \in DOMAIN inbox[f][e]
      BY <1>2, <1>3, <2>2
    <3>2. \A i \in DOMAIN inbox'[f][e] :
            i + 1 \in DOMAIN inbox[f][e] /\ inbox'[f][e][i] = inbox[f][e][i + 1]
      BY <1>2, <1>3, <2>2
    <3> QED
      BY <2>1, <3>1, <3>2
  <2>3. CASE ~(f = h /\ e = g)
    BY <1>3, <2>1, <2>3 DEF Inv, RolloutInvariant, SuccessIsTrue
  <2> QED
    BY <2>2, <2>3
<1> QED
  BY <1>4, LinkStep DEF Receive

LEMMA DisconnectInOrder ==
  ASSUME Inv, NEW h \in Host, NEW g \in Host, Disconnect(h, g)
  PROVE  RolloutInvariant'
<1>1. \A f, e \in Host :
        /\ view'[f][e] = IF f = h /\ e = g THEN NoApps ELSE view[f][e]
        /\ inbox'[f][e] = IF f = h /\ e = g THEN <<>> ELSE inbox[f][e]
  BY DEF Disconnect, Inv, TypeInv, TypeOK
<1>2. \A f, e \in Host, b \in App :
        /\ Succeeded(view'[f][e][b]) => Updated(e, b)
        /\ \A i \in DOMAIN inbox'[f][e] :
             Succeeded(inbox'[f][e][i][b]) => Updated(e, b)
  BY <1>1, NoAppsSucceeded DEF Inv, RolloutInvariant, SuccessIsTrue
<1> QED
  BY <1>2, LinkStep DEF Disconnect

LEMMA SubscribeInOrder ==
  ASSUME Inv, NEW h \in Host, NEW g \in Host, Subscribe(h, g)
  PROVE  RolloutInvariant'
<1>1. \A f, e \in Host :
        inbox'[f][e] = IF f = h /\ e = g THEN <<PublishedApps(app[g])>> ELSE inbox[f][e]
  BY DEF Subscribe, Inv, TypeInv, TypeOK
<1>2. \A b \in App : Succeeded(PublishedApps(app[g])[b]) => Updated(g, b)
  BY ThisInStep DEF PublishedApps, Published, Succeeded
<1>3. \A f, e \in Host, b \in App :
        /\ Succeeded(view'[f][e][b]) => Updated(e, b)
        /\ \A i \in DOMAIN inbox'[f][e] :
             Succeeded(inbox'[f][e][i][b]) => Updated(e, b)
  BY <1>1, <1>2 DEF Subscribe, Inv, RolloutInvariant, SuccessIsTrue
<1> QED
  BY <1>3, LinkStep DEF Subscribe

(* What a restart loads from the disk is no more than what was true before. *)
LEMMA RestartInOrder ==
  ASSUME Inv, NEW h \in Host, Restart(h)
  PROVE  RolloutInvariant'
<1>1. /\ disk' = disk
      /\ \A g \in Host, b \in App :
           IF g = h
           THEN app'[g][b] = Loaded(disk[g][b]) /\ update'[g][b] = NoUpdate
           ELSE app'[g][b] = app[g][b] /\ update'[g][b] = update[g][b]
  BY DEF Restart, Inv, TypeInv, TypeOK
<1>2. \A f, e \in Host :
        /\ view'[f][e] = IF f = h THEN NoApps ELSE view[f][e]
        /\ inbox'[f][e] = IF f = h THEN <<>> ELSE inbox[f][e]
  BY DEF Restart, Inv, TypeInv, TypeOK
<1>3. \A saved \in Saved :
        /\ Loaded(saved).installed = saved.installed
        /\ Loaded(saved).finished = saved.finished
        /\ Loaded(saved).failStage = saved.failStage
        /\ Loaded(saved).stage = None
  BY DEF Loaded
<1>4. disk \in [Host -> [App -> Saved]]
  BY DEF Inv, TypeInv, TypeOK
<1>5. NoUpdate.step = "idle" /\ NoUpdate.at = None
  BY DEF NoUpdate
<1>6. StepsInOrder'
  BY <1>1, <1>3, <1>4, <1>5 DEF Inv, RolloutInvariant, StepsInOrder, InStep, Past
<1>7. \A g \in Host, b \in App : Updated(g, b) => Updated(g, b)'
  BY <1>1, <1>3, <1>4, <1>5 DEF Updated, HasRelease, Disrupted
<1>8. SuccessIsTrue'
  <2>1. ASSUME NEW g \in Host, NEW b \in App,
               Succeeded(app'[g][b]) \/ disk'[g][b].finished.version > 0
        PROVE  Updated(g, b)'
    <3>1. Succeeded(app[g][b]) \/ disk[g][b].finished.version > 0 => Updated(g, b)
      BY ThisInStep
    <3>2. disk[g][b] \in Saved
      BY <1>4
    <3>3. Succeeded(app[g][b]) \/ disk[g][b].finished.version > 0
      BY <1>1, <1>3, <2>1, <3>2 DEF Succeeded
    <3> QED
      BY <1>7, <3>1, <3>3
  <2>2. \A f, g \in Host, b \in App :
          /\ Succeeded(view'[f][g][b]) => Updated(g, b)'
          /\ \A i \in DOMAIN inbox'[f][g] : Succeeded(inbox'[f][g][i][b]) => Updated(g, b)'
    BY <1>2, <1>7, NoAppsSucceeded DEF Inv, RolloutInvariant, SuccessIsTrue
  <2> QED
    BY <2>1, <2>2 DEF SuccessIsTrue
<1>9. \A g \in Host, b \in App :
        HadTurn(app'[g][b], disk'[g][b], update'[g][b])
        => HadTurn(app[g][b], disk[g][b], update[g][b])
  BY <1>1, <1>3, <1>4, <1>5 DEF HadTurn, Disrupted
<1>10. TurnsInOrder'
  BY <1>7, <1>9 DEF Inv, RolloutInvariant, TurnsInOrder
<1> QED
  BY <1>6, <1>8, <1>10 DEF RolloutInvariant

LEMMA SameInOrder ==
  ASSUME Inv, UNCHANGED <<app, disk, update, view, inbox>>
  PROVE  RolloutInvariant'
BY LinkStep DEF Inv, RolloutInvariant, SuccessIsTrue

LEMMA InitInv == Init => Inv
<1> SUFFICES ASSUME Init PROVE Inv
  OBVIOUS
<1>1. TypeInv
  BY InitTypeInv
<1>2. \A h \in Host, a \in App :
        /\ disk[h][a].installed = Original /\ disk[h][a].finished = Original
        /\ app[h][a].installed = Original /\ app[h][a].finished = Original
        /\ app[h][a].stage = None
        /\ app[h][a].failStage = None /\ disk[h][a].failStage = None
        /\ update[h][a].step = "idle" /\ update[h][a].at = None
  BY DEF Init, Loaded, NoUpdate
<1>3. \A f, g \in Host : view[f][g] = NoApps /\ inbox[f][g] = <<>>
  BY DEF Init
<1>4. StepsInOrder
  BY <1>2 DEF StepsInOrder, InStep, Past
<1>5. SuccessIsTrue
  BY <1>2, <1>3, NoAppsSucceeded DEF SuccessIsTrue, Succeeded, Original
<1>6. TurnsInOrder
  BY <1>2 DEF TurnsInOrder, HadTurn, Disrupted, Original
<1> QED
  BY <1>1, <1>4, <1>5, <1>6 DEF Inv, RolloutInvariant

LEMMA NextInv ==
  ASSUME MaxVersion = 1
  PROVE  Inv /\ [Next]_vars => Inv'
<1> SUFFICES ASSUME Inv, [Next]_vars PROVE RolloutInvariant'
  BY NextTypeInv DEF Inv
<1>1. ASSUME NEW h \in Host, NEW a \in App,
             \/ Evaluate(h, a) \/ Run(h, a) \/ Trouble(h, a)
             \/ UpdateApplicationJson(h, a)
      PROVE  RolloutInvariant'
  BY <1>1, WaitingInOrder, BeginInOrder, ReachStageInOrder, WorkInOrder, SavingInOrder,
     RewritingInOrder, NextStageInOrder, FailingInOrder
     DEF Evaluate, Run, Trouble
<1>2. ASSUME NEW h \in Host, Hear(h)
      PROVE  RolloutInvariant'
  <2>1. CASE \E k \in Key : Offer(h, k)
    BY <2>1, SameInOrder DEF Offer, links
  <2> QED
    BY <1>2, <2>1, ReceiveInOrder, SubscribeInOrder DEF Hear
<1>3. ASSUME NEW h \in Host, NEW g \in Host, Disconnect(h, g)
      PROVE  RolloutInvariant'
  BY <1>3, DisconnectInOrder
<1>4. ASSUME NEW h \in Host, Restart(h)
      PROVE  RolloutInvariant'
  BY <1>4, RestartInOrder
<1>5. ASSUME NEW k \in Key, Release(k) \/ RetryUpgrade(k)
      PROVE  RolloutInvariant'
  BY <1>5, SameInOrder DEF Release, RetryUpgrade, links
<1>6. CASE UNCHANGED vars
  BY <1>6, SameInOrder DEF vars
<1> QED
  BY <1>1, <1>2, <1>3, <1>4, <1>5, <1>6 DEF Next, Act

(* Whatever a host believes of another, or has saved or sent of itself, no  *)
(* application counts as updated or has its turn before those that precede  *)
(* it in the order have the release: what hosts decide from late news and   *)
(* after restarts rests on this.                                            *)
THEOREM RolloutInvariantHolds ==
  ASSUME MaxVersion = 1
  PROVE  Spec => []RolloutInvariant
<1>1. Init => Inv
  BY InitInv
<1>2. Inv /\ [Next]_vars => Inv'
  BY NextInv
<1>3. Inv => RolloutInvariant
  BY DEF Inv
<1> QED
  BY <1>1, <1>2, <1>3, PTL DEF Spec

(* A single release never has two applications of a one-at-a-time key down  *)
(* at once, for any number of hosts and applications, however late each     *)
(* host hears of the others and whatever fails, disconnects or restarts.    *)
THEOREM OneAtATimeHolds ==
  ASSUME MaxVersion = 1
  PROVE  Spec => []OneAtATime
<1>1. Init => Inv
  BY InitInv
<1>2. Inv /\ [Next]_vars => Inv'
  BY NextInv
<1>3. Inv => OneAtATime
  <2> SUFFICES ASSUME Inv, NEW h \in Host, NEW g \in Host, NEW a \in App, NEW b \in App,
                      SameRollout(a, b), <<h, a>> # <<g, b>>,
                      Disrupting(h, a), Disrupting(g, b)
               PROVE  FALSE
    BY DEF OneAtATime
  <2>1. Before(h, a, g, b) \/ Before(g, b, h, a)
    BY ConstantsAssumption DEF Before
  <2>2. SameRollout(b, a)
    BY DEF SameRollout
  <2>3. Updated(h, a) \/ Updated(g, b)
    BY <2>1, <2>2 DEF Inv, RolloutInvariant, TurnsInOrder, HadTurn, Disrupting
  <2> QED
    BY <2>3 DEF Updated, HasRelease, Disrupting
<1> QED
  BY <1>1, <1>2, <1>3, PTL DEF Spec

(* A release reaches the applications of a one-at-a-time key in their       *)
(* order, with no gap, whatever fails.                                      *)
THEOREM RolloutIsInOrder ==
  ASSUME MaxVersion = 1
  PROVE  Spec => []RolloutInOrder
<1>1. Init => Inv
  BY InitInv
<1>2. Inv /\ [Next]_vars => Inv'
  BY NextInv
<1>3. Inv => RolloutInOrder
  BY DEF Inv, RolloutInvariant, TurnsInOrder, RolloutInOrder, HadTurn, Updated,
         HasRelease, Disrupting
<1> QED
  BY <1>1, <1>2, <1>3, PTL DEF Spec

(* A release that fails leaves at most one application of a one-at-a-time   *)
(* key stopped and without it, also when it is tried again.                 *)
THEOREM OneCasualtyHolds ==
  ASSUME MaxVersion = 1
  PROVE  Spec => []OneCasualty
<1>1. Init => Inv
  BY InitInv
<1>2. Inv /\ [Next]_vars => Inv'
  BY NextInv
<1>3. Inv => OneCasualty
  <2> SUFFICES ASSUME Inv, NEW h \in Host, NEW g \in Host, NEW a \in App, NEW b \in App,
                      SameRollout(a, b), Broken(h, a), Broken(g, b), <<h, a>> # <<g, b>>
               PROVE  FALSE
    BY DEF OneCasualty
  <2>1. Before(h, a, g, b) \/ Before(g, b, h, a)
    BY ConstantsAssumption DEF Before
  <2>2. SameRollout(b, a)
    BY DEF SameRollout
  <2>3. \A f \in Host, c \in App :
          Broken(f, c) => HadTurn(app[f][c], disk[f][c], update[f][c])
    BY DEF Broken, HadTurn
  <2>4. Updated(h, a) \/ Updated(g, b)
    BY <2>1, <2>2, <2>3 DEF Inv, RolloutInvariant, TurnsInOrder
  <2> QED
    BY <2>4 DEF Updated, HasRelease, Broken
<1> QED
  BY <1>1, <1>2, <1>3, PTL DEF Spec

-----------------------------------------------------------------------------
(***************************************************************************)
(* CoordinatedUpdate implements RollingUpdate: the phases of the           *)
(* applications of a one-at-a-time key change one at a time, and only the  *)
(* way RollingUpdate allows.  An application goes down only when every     *)
(* smaller one is Updated (TurnsInOrder after the step); it falls back     *)
(* only if it is not Updated, and then no larger one has had its turn      *)
(* (TurnsInOrder before the step).                                         *)
(***************************************************************************)
LEMMA UpdatedIsNew ==
  ASSUME NEW h \in Host, NEW a \in App, Updated(h, a)
  PROVE  Phase(h, a) = "new"
BY DEF Updated, HasRelease, Phase, Disrupting

LEMMA NotOldHadTurn ==
  ASSUME NEW h \in Host, NEW a \in App, Phase(h, a) # "old"
  PROVE  HadTurn(app[h][a], disk[h][a], update[h][a])
BY DEF Phase, Disrupting, HadTurn

(* One application changes its phase in one of the allowed ways.            *)
PhaseStep(h, a) ==
  \/ Phase(h, a) = "old" /\ Phase(h, a)' = "updating"
  \/ Phase(h, a) = "updating" /\ Phase(h, a)' = "new"
  \/ Phase(h, a) # "old" /\ Phase(h, a)' = "old" /\ ~Updated(h, a)

LEMMA InitPhases ==
  ASSUME Init, NEW k \in OneAtATimeKeys
  PROVE  Rolling(k)!Init
<1>1. \A h \in Host, a \in App :
        app[h][a].stage = None /\ app[h][a].installed.version = 0
  BY DEF Init, Loaded, Original
<1>2. \A h \in Host, a \in App : Phase(h, a) = "old"
  BY <1>1 DEF Phase, Disrupting, Disrupted
<1>3. \A i \in InstancesOf(k) : Phase(i[1], i[2]) = "old"
  BY <1>2 DEF InstancesOf
<1> QED
  BY <1>3 DEF Rolling!Init, PhasesOf

LEMMA SamePhases ==
  ASSUME NEW k, \A i \in InstancesOf(k) : Phase(i[1], i[2])' = Phase(i[1], i[2])
  PROVE  UNCHANGED PhasesOf(k)
BY DEF PhasesOf

LEMMA OnePhaseStep ==
  ASSUME Inv, Inv', NEW k \in OneAtATimeKeys, NEW h \in Host, NEW a \in App,
         KeyOf[a] = k, PhaseStep(h, a),
         \A g \in Host, b \in App :
           KeyOf[b] = k /\ <<g, b>> # <<h, a>> => Phase(g, b)' = Phase(g, b)
  PROVE  Rolling(k)!Next
<1> DEFINE i == <<h, a>>
<1>1. i \in InstancesOf(k) /\ i[1] = h /\ i[2] = a
  BY DEF InstancesOf
<1>2. PhasesOf(k)' = [PhasesOf(k) EXCEPT ![i] = Phase(h, a)']
  <2>1. ASSUME NEW j \in InstancesOf(k), j # i
        PROVE  Phase(j[1], j[2])' = Phase(j[1], j[2])
    <3>1. j[1] \in Host /\ j[2] \in App /\ KeyOf[j[2]] = k /\ j = <<j[1], j[2]>>
      BY DEF InstancesOf
    <3> QED
      BY <2>1, <3>1
  <2> QED
    BY <1>1, <2>1 DEF PhasesOf
<1>3. PhasesOf(k)[i] = Phase(h, a)
  BY <1>1 DEF PhasesOf
<1>4. \A j \in InstancesOf(k) :
        /\ j[1] \in Host /\ j[2] \in App
        /\ SameRollout(j[2], a) /\ SameRollout(a, j[2])
        /\ PhasesOf(k)[j] = Phase(j[1], j[2])
  BY DEF InstancesOf, PhasesOf, SameRollout, OneAtATimeKeys
<1>5. CASE Phase(h, a) = "old" /\ Phase(h, a)' = "updating"
  <2>1. HadTurn(app[h][a], disk[h][a], update[h][a])'
    BY <1>5 DEF Phase, Disrupting, HadTurn
  <2>2. ASSUME NEW j \in InstancesOf(k), <<j, i>> \in OrderOf(k)
        PROVE  PhasesOf(k)[j] = "new"
    <3>1. Before(j[1], j[2], h, a)
      BY <1>1, <2>2 DEF OrderOf
    <3>2. <<j[1], j[2]>> # <<h, a>>
      BY <3>1, ConstantsAssumption DEF Before
    <3>3. Updated(j[1], j[2])'
      BY <1>4, <2>1, <3>1 DEF Inv, RolloutInvariant, TurnsInOrder
    <3>4. Phase(j[1], j[2])' = "new"
      BY <3>3 DEF Updated, HasRelease, Phase, Disrupting
    <3>5. Phase(j[1], j[2])' = Phase(j[1], j[2])
      BY <1>4, <3>2 DEF InstancesOf
    <3> QED
      BY <1>4, <3>4, <3>5
  <2>3. Rolling(k)!Start(i)
    BY <1>1, <1>2, <1>3, <1>5, <2>2 DEF Rolling!Start, Rolling!Earlier
  <2> QED
    BY <1>1, <2>3 DEF Rolling!Next
<1>6. CASE Phase(h, a) = "updating" /\ Phase(h, a)' = "new"
  <2>1. Rolling(k)!Finish(i)
    BY <1>2, <1>3, <1>6 DEF Rolling!Finish
  <2> QED
    BY <1>1, <2>1 DEF Rolling!Next
<1>7. CASE Phase(h, a) # "old" /\ Phase(h, a)' = "old" /\ ~Updated(h, a)
  <2>1. ASSUME NEW j \in InstancesOf(k), <<i, j>> \in OrderOf(k)
        PROVE  PhasesOf(k)[j] = "old"
    <3>1. Before(h, a, j[1], j[2])
      BY <1>1, <2>1 DEF OrderOf
    <3>2. ~HadTurn(app[j[1]][j[2]], disk[j[1]][j[2]], update[j[1]][j[2]])
      BY <1>4, <1>7, <3>1 DEF Inv, RolloutInvariant, TurnsInOrder
    <3> QED
      BY <1>4, <3>2, NotOldHadTurn
  <2>2. Rolling(k)!Revert(i)
    BY <1>2, <1>3, <1>7, <2>1 DEF Rolling!Revert, Rolling!Later
  <2> QED
    BY <1>1, <2>2 DEF Rolling!Next
<1> QED
  BY <1>5, <1>6, <1>7 DEF PhaseStep

(* A step that changes one application keeps the phases of all the others.  *)
LEMMA OneApplicationStep ==
  ASSUME Inv, Inv', NEW k \in OneAtATimeKeys, NEW h \in Host, NEW a \in App,
         NEW own, app' = [app EXCEPT ![h][a] = own],
         Phase(h, a)' = Phase(h, a) \/ PhaseStep(h, a)
  PROVE  Rolling(k)!Next \/ UNCHANGED PhasesOf(k)
<1>1. app \in [Host -> [App -> Application]]
  BY DEF Inv, TypeInv, TypeOK
<1>2. ASSUME NEW g \in Host, NEW b \in App, <<g, b>> # <<h, a>>
      PROVE  Phase(g, b)' = Phase(g, b)
  <2>1. app'[g][b] = app[g][b]
    BY <1>1, <1>2
  <2> QED
    BY <2>1 DEF Phase, Disrupting
<1>3. CASE Phase(h, a)' = Phase(h, a) \/ KeyOf[a] # k
  <2>1. ASSUME NEW j \in InstancesOf(k)
        PROVE  Phase(j[1], j[2])' = Phase(j[1], j[2])
    <3>1. j[1] \in Host /\ j[2] \in App /\ KeyOf[j[2]] = k
      BY DEF InstancesOf
    <3>2. CASE j[1] = h /\ j[2] = a
      BY <1>3, <3>1, <3>2
    <3>3. CASE <<j[1], j[2]>> # <<h, a>>
      BY <1>2, <3>1, <3>3
    <3> QED
      BY <3>2, <3>3
  <2> QED
    BY <2>1, SamePhases
<1>4. CASE PhaseStep(h, a) /\ KeyOf[a] = k
  BY <1>2, <1>4, OnePhaseStep
<1> QED
  BY <1>3, <1>4

(* Only the stage and the installed version show in the phase.              *)
LEMMA SamePhase ==
  ASSUME Inv, NEW h \in Host, NEW a \in App, NEW own,
         app' = [app EXCEPT ![h][a] = own],
         own.stage = app[h][a].stage, own.installed = app[h][a].installed
  PROVE  Phase(h, a)' = Phase(h, a)
<1>1. app'[h][a] = own
  BY DEF Inv, TypeInv, TypeOK
<1> QED
  BY <1>1 DEF Phase, Disrupting, Disrupted

LEMMA EnteringRolls ==
  ASSUME Inv, Inv', NEW k \in OneAtATimeKeys, NEW h \in Host, NEW a \in App,
         Begin(h, a) \/ NextStage(h, a) \/ Fail(h, a) \/ FailWork(h, a)
  PROVE  Rolling(k)!Next \/ UNCHANGED PhasesOf(k)
<1>1. PICK u : EnterStage(h, a, u)
  BY DEF Begin, NextStage, Fail, FailWork, EnterFailed
<1> DEFINE starts == u.at = SyncStart /\ app[h][a].want # SyncStart
<1> DEFINE own == [app[h][a] EXCEPT !.want = u.at,
                                    !.startSeq = IF starts THEN startSequence[h] + 1 ELSE @]
<1>2. app' = [app EXCEPT ![h][a] = own]
  BY <1>1 DEF EnterStage, SetApplication
<1>3. app[h][a] \in Application
  BY DEF Inv, TypeInv, TypeOK
<1>4. own.stage = app[h][a].stage /\ own.installed = app[h][a].installed
  BY <1>3 DEF Application
<1> HIDE DEF own
<1> QED
  BY <1>2, <1>4, SamePhase, OneApplicationStep

LEMMA WorkRolls ==
  ASSUME Inv, Inv', NEW k \in OneAtATimeKeys, NEW h \in Host, NEW a \in App,
         Download(h, a) \/ Install(h, a)
  PROVE  Rolling(k)!Next \/ UNCHANGED PhasesOf(k)
<1>1. /\ app \in [Host -> [App -> Application]]
      /\ app[h][a] \in Application /\ update[h][a] \in Update
  BY DEF Inv, TypeInv, TypeOK
<1>2. CASE Download(h, a)
  <2>1. PICK tried : app' = [app EXCEPT ![h][a].tried = tried]
    BY <1>2 DEF Download
  <2> DEFINE own == [app[h][a] EXCEPT !.tried = tried]
  <2>2. app' = [app EXCEPT ![h][a] = own]
    BY <1>1, <2>1
  <2>3. own.stage = app[h][a].stage /\ own.installed = app[h][a].installed
    BY <1>1 DEF Application
  <2> HIDE DEF own
  <2> QED
    BY <2>2, <2>3, SamePhase, OneApplicationStep
<1>3. CASE Install(h, a)
  <2> DEFINE own == [app[h][a] EXCEPT !.installed = app[h][a].tried]
  <2>1. app' = [app EXCEPT ![h][a] = own]
    BY <1>1, <1>3 DEF Install
  <2>2. own.stage = app[h][a].stage /\ app'[h][a] = own
    BY <1>1, <2>1 DEF Application
  <2>3. app[h][a].stage = SaveApplicationState
    BY <1>3, ThisInStep DEF Install, InStep
  <2>4. Phase(h, a)' = Phase(h, a)
    BY <2>2, <2>3 DEF Phase, Disrupting, Disrupted
  <2> HIDE DEF own
  <2> QED
    BY <2>1, <2>4, OneApplicationStep
<1> QED
  BY <1>2, <1>3

LEMMA ReachStageRolls ==
  ASSUME Inv, Inv', NEW k \in OneAtATimeKeys, NEW h \in Host, NEW a \in App,
         ReachStage(h, a)
  PROVE  Rolling(k)!Next \/ UNCHANGED PhasesOf(k)
<1> DEFINE u == update[h][a]
           old == app[h][a]
           own == StageReached(old, u)
<1>1. old \in Application /\ u \in Update /\ app \in [Host -> [App -> Application]]
  BY DEF Inv, TypeInv, TypeOK
<1>2. app' = [app EXCEPT ![h][a] = own]
  BY DEF ReachStage, SetApplication
<1>3. own.stage = u.at /\ own.installed = old.installed /\ u.step = "notify"
  BY <1>1 DEF ReachStage, StageReached, RecordFailure, Application, Update
<1>4. app'[h][a] = own
  BY <1>1, <1>2
<1>5. InStep(old, disk[h][a], u) /\ ~Updated(h, a)
  BY <1>3, ThisInStep DEF Updated, HasRelease
<1>6. u.at \in Stage /\ old.installed.version \in Nat
  BY <1>1, ConstantsAssumption DEF Update, Application, Attempt
<1> HIDE DEF own, u, old
<1>7. Phase(h, a) = IF Disrupted(old) THEN "updating"
                    ELSE IF old.installed.version > 0 THEN "new" ELSE "old"
  BY DEF Phase, Disrupting, old
<1>8. Phase(h, a)' = IF Disrupted(own) THEN "updating"
                     ELSE IF old.installed.version > 0 THEN "new" ELSE "old"
  BY <1>3, <1>4 DEF Phase, Disrupting
<1>9. Phase(h, a)' = Phase(h, a) \/ PhaseStep(h, a)
  <2>1. CASE Disrupted(own) /\ ~Disrupted(old)
    <3>1. u.at = StopOldApp
      BY <1>3, <1>5, <1>6, <2>1 DEF InStep, Past, Disrupted, Stage
    <3>2. old.installed.version = 0
      BY <1>3, <1>5, <3>1 DEF InStep
    <3> QED
      BY <1>7, <1>8, <2>1, <3>2 DEF PhaseStep
  <2>2. CASE ~Disrupted(own)
    BY <1>5, <1>7, <1>8, <2>2 DEF PhaseStep
  <2> QED
    BY <1>7, <1>8, <2>1, <2>2
<1> QED
  BY <1>2, <1>9, OneApplicationStep

(* A restart makes an application old that had not saved the release, and   *)
(* there is at most one such application of each key.                       *)
LEMMA RestartRolls ==
  ASSUME Inv, Inv', NEW k \in OneAtATimeKeys, NEW h \in Host, Restart(h)
  PROVE  Rolling(k)!Next \/ UNCHANGED PhasesOf(k)
<1>1. \A g \in Host, b \in App :
        app'[g][b] = IF g = h THEN Loaded(disk[g][b]) ELSE app[g][b]
  BY DEF Restart, Inv, TypeInv, TypeOK
<1>2. \A b \in App : InStep(app[h][b], disk[h][b], update[h][b])
  BY DEF Inv, RolloutInvariant, StepsInOrder
<1>3. \A g \in Host, b \in App : g # h => Phase(g, b)' = Phase(g, b)
  BY <1>1 DEF Phase, Disrupting
<1>4. ASSUME NEW b \in App
      PROVE  Phase(h, b)' = IF disk[h][b].installed.version > 0 THEN "new" ELSE "old"
  <2>1. app'[h][b] = Loaded(disk[h][b])
    BY <1>1
  <2>2. app'[h][b].stage = None /\ app'[h][b].installed = disk[h][b].installed
    BY <2>1 DEF Loaded
  <2> QED
    BY <2>2 DEF Phase, Disrupting, Disrupted
<1>5. ASSUME NEW b \in App, Phase(h, b)' # Phase(h, b)
      PROVE  ~Updated(h, b) /\ Phase(h, b) # "old" /\ PhaseStep(h, b)
  <2>1. ~Updated(h, b)
    BY <1>4, <1>5, UpdatedIsNew DEF Updated, HasRelease
  <2>2. disk[h][b].installed.version > 0 => app[h][b].installed.version > 0
    BY <1>2 DEF InStep
  <2>3. Phase(h, b) # "old"
    BY <1>4, <1>5, <2>2 DEF Phase
  <2> QED
    BY <1>4, <1>5, <2>1, <2>3 DEF Phase, PhaseStep
<1>6. CASE \A b \in App : KeyOf[b] = k => Phase(h, b)' = Phase(h, b)
  <2>1. ASSUME NEW j \in InstancesOf(k)
        PROVE  Phase(j[1], j[2])' = Phase(j[1], j[2])
    <3>1. j[1] \in Host /\ j[2] \in App /\ KeyOf[j[2]] = k
      BY DEF InstancesOf
    <3> QED
      BY <1>3, <1>6, <3>1
  <2> QED
    BY <2>1, SamePhases
<1>7. ASSUME NEW a \in App, KeyOf[a] = k, Phase(h, a)' # Phase(h, a)
      PROVE  Rolling(k)!Next
  <2>1. ASSUME NEW b \in App, KeyOf[b] = k, b # a
        PROVE  Phase(h, b)' = Phase(h, b)
    <3> SUFFICES ASSUME Phase(h, b)' # Phase(h, b) PROVE FALSE
      OBVIOUS
    <3>1. SameRollout(a, b) /\ SameRollout(b, a)
      BY <1>7, <2>1 DEF SameRollout, OneAtATimeKeys
    <3>2. Before(h, a, h, b) \/ Before(h, b, h, a)
      BY <2>1, ConstantsAssumption DEF Before
    <3>3. /\ HadTurn(app[h][a], disk[h][a], update[h][a])
          /\ HadTurn(app[h][b], disk[h][b], update[h][b])
      BY <1>5, <1>7, NotOldHadTurn
    <3>4. Updated(h, a) \/ Updated(h, b)
      BY <3>1, <3>2, <3>3 DEF Inv, RolloutInvariant, TurnsInOrder
    <3> QED
      BY <1>5, <1>7, <3>4
  <2>2. \A g \in Host, b \in App :
          KeyOf[b] = k /\ <<g, b>> # <<h, a>> => Phase(g, b)' = Phase(g, b)
    BY <1>3, <2>1
  <2>3. PhaseStep(h, a)
    BY <1>5, <1>7
  <2> QED
    BY <1>7, <2>2, <2>3, OnePhaseStep
<1> QED
  BY <1>6, <1>7

(* Everything else leaves the applications in memory alone.                 *)
LEMMA SameApps ==
  ASSUME NEW k \in OneAtATimeKeys, app' = app
  PROVE  UNCHANGED PhasesOf(k)
BY DEF PhasesOf, Phase, Disrupting

LEMMA NextRolls ==
  ASSUME Inv, Inv', Next, NEW k \in OneAtATimeKeys
  PROVE  Rolling(k)!Next \/ UNCHANGED PhasesOf(k)
<1>1. ASSUME NEW h \in Host, NEW a \in App,
             \/ Evaluate(h, a) \/ StartWait(h, a) \/ Save(h, a)
             \/ AbortWait(h, a) \/ FailSave(h, a) \/ UpdateApplicationJson(h, a)
      PROVE  UNCHANGED PhasesOf(k)
  BY <1>1, SameApps
     DEF Evaluate, PassWait, FailWait, StartWait, Save, AbortWait, FailSave,
         UpdateApplicationJson
<1>2. ASSUME NEW h \in Host, NEW a \in App, Run(h, a) \/ Trouble(h, a)
      PROVE  Rolling(k)!Next \/ UNCHANGED PhasesOf(k)
  BY <1>1, <1>2, EnteringRolls, WorkRolls, ReachStageRolls DEF Run, Trouble
<1>3. ASSUME NEW h \in Host, Hear(h) \/ \E g \in Host : Disconnect(h, g)
      PROVE  UNCHANGED PhasesOf(k)
  BY <1>3, SameApps DEF Hear, Receive, Subscribe, Offer, Disconnect
<1>4. ASSUME NEW key \in Key, Release(key) \/ RetryUpgrade(key)
      PROVE  UNCHANGED PhasesOf(k)
  BY <1>4, SameApps DEF Release, RetryUpgrade
<1> QED
  BY <1>1, <1>2, <1>3, <1>4, RestartRolls DEF Next, Act

(* The coordinated update of a single release implements RollingUpdate for  *)
(* every one-at-a-time key, with any number of AppManagers and applications.*)
THEOREM ImplementsRollingUpdate ==
  ASSUME MaxVersion = 1
  PROVE  Spec => RollsOut
<1>1. Init => Inv /\ \A k \in OneAtATimeKeys : Rolling(k)!Init
  BY InitInv, InitPhases
<1>2. Inv /\ [Next]_vars => Inv'
  BY NextInv
<1>3. Inv /\ Inv' /\ [Next]_vars
      => [\A k \in OneAtATimeKeys : Rolling(k)!Next \/ UNCHANGED PhasesOf(k)]_vars
  BY NextRolls
<1> QED
  BY <1>1, <1>2, <1>3, PTL DEF Spec, RollsOut

(* What RollingUpdate keeps by its own steps: the instances that have had their turn are the
   first ones, and all but the last of them have the release. *)
LEMMA PrefixStays ==
  ASSUME NEW k, Rolling(k)!Prefix, Rolling(k)!Next \/ UNCHANGED PhasesOf(k)
  PROVE  Rolling(k)!Prefix'
<1>1. /\ PhasesOf(k) \in [InstancesOf(k) -> {"old", "updating", "new"}]
      /\ OrderOf(k) \subseteq InstancesOf(k) \X InstancesOf(k)
  BY DEF PhasesOf, Phase, OrderOf
<1>2. CASE UNCHANGED PhasesOf(k)
  BY <1>2 DEF Rolling!Prefix
<1>3. ASSUME NEW i \in InstancesOf(k), Rolling(k)!Start(i)
      PROVE  Rolling(k)!Prefix'
  <2>1. \A j \in Rolling(k)!Later(i) : PhasesOf(k)[j] = "old"
    BY <1>3 DEF Rolling!Start, Rolling!Later, Rolling!Prefix
  <2> QED
    BY <1>1, <1>3, <2>1 DEF Rolling!Start, Rolling!Earlier, Rolling!Later, Rolling!Prefix
<1>4. ASSUME NEW i \in InstancesOf(k), Rolling(k)!Finish(i)
      PROVE  Rolling(k)!Prefix'
  BY <1>1, <1>4 DEF Rolling!Finish, Rolling!Prefix
<1>5. ASSUME NEW i \in InstancesOf(k), Rolling(k)!Revert(i)
      PROVE  Rolling(k)!Prefix'
  BY <1>1, <1>5 DEF Rolling!Revert, Rolling!Later, Rolling!Prefix
<1> QED
  BY <1>2, <1>3, <1>4, <1>5 DEF Rolling!Next

(* So the coordinated update has it of every one-at-a-time key: an instance that had its
   turn has every earlier one behind it, with the release. *)
THEOREM PrefixHolds ==
  ASSUME MaxVersion = 1
  PROVE  Spec => [](\A k \in OneAtATimeKeys : Rolling(k)!Prefix)
<1> DEFINE Prefixes == \A k \in OneAtATimeKeys : Rolling(k)!Prefix
<1>1. Init => Inv /\ Prefixes
  <2>1. ASSUME NEW k, Rolling(k)!Init
        PROVE  Rolling(k)!Prefix
    BY <2>1 DEF Rolling!Init, Rolling!Prefix, OrderOf
  <2> QED
    BY <2>1, InitInv, InitPhases
<1>2. Inv /\ [Next]_vars => Inv'
  BY NextInv
<1>3. Inv /\ Inv' /\ Prefixes /\ [Next]_vars => Prefixes'
  <2> SUFFICES ASSUME Inv, Inv', Prefixes, [Next]_vars, NEW k \in OneAtATimeKeys
               PROVE  Rolling(k)!Prefix'
    BY DEF OneAtATimeKeys
  <2>1. Rolling(k)!Next \/ UNCHANGED PhasesOf(k)
    <3>1. CASE Next
      BY <3>1, NextRolls
    <3>2. CASE UNCHANGED vars
      BY <3>2, SameApps DEF vars
    <3> QED
      BY <3>1, <3>2
  <2> QED
    BY <2>1, PrefixStays
<1> QED
  BY <1>1, <1>2, <1>3, PTL DEF Spec

-----------------------------------------------------------------------------
(* The barrier before StopOldApp, for any number of releases: no application *)
(* of a coordinated key is stopped for its update before all of them have    *)
(* been given a version. And what counts as a failure of a single release.   *)
USE DEF Stage

(* The JSON of the application names a version that it was to be updated to, *)
(* which a restart does not take back.                                       *)
Tried(h, a) == disk[h][a].tried.version > 0
AllTried(k) == \A h \in Host, a \in App : KeyOf[a] = k => Tried(h, a)

(* By its stage an update has saved what it downloaded; from the end of its  *)
(* wait before StopOldApp it needs the others to have done so.               *)
BeyondDownload(u) ==
  \/ u.at \in Unpack .. Finished
  \/ u.at = DownloadVersion /\ u.step = "next"
Replacing(own, u) ==
  \/ u.step \in {"ready", "turn"}
  \/ u.step \in {"notify", "work", "save", "next"} /\ u.at \in StopOldApp .. PostLaunch
  \/ Disrupted(own)

(* What lets others pass the barrier.                                        *)
Ready(info) == info.want \in StopOldApp .. Finished \/ info.finished.version > 0

TriedByStage(own, saved, u) ==
  /\ u.step # "idle" => u.target.version > 0
  /\ saved.tried.version > 0 => own.tried.version > 0
  /\ u.at = DownloadVersion /\ u.step = "save" => own.tried.version > 0
  /\ BeyondDownload(u) => saved.tried.version > 0
  /\ Ready(own) \/ saved.finished.version > 0 => saved.tried.version > 0

ReadyIsTrue ==
  \A g, h \in Host, a \in App :
    /\ Ready(view[g][h][a]) => Tried(h, a)
    /\ \A i \in DOMAIN inbox[g][h] : Ready(inbox[g][h][i][a]) => Tried(h, a)

ReplacedWhenReady ==
  \A h \in Host, a \in App :
    /\ TypeOf[KeyOf[a]] # "Independent"
    /\ Replacing(app[h][a], update[h][a])
    => AllTried(KeyOf[a])

Barrier ==
  /\ \A h \in Host, a \in App : TriedByStage(app[h][a], disk[h][a], update[h][a])
  /\ ReadyIsTrue
  /\ ReplacedWhenReady

(* A step that changes one application, and tells the others or not.         *)
LEMMA OwnBarrier ==
  ASSUME TypeInv, TypeInv', Barrier, NEW h \in Host, NEW a \in App,
         \A g \in Host, b \in App :
           g # h \/ b # a => /\ app'[g][b] = app[g][b]
                             /\ disk'[g][b] = disk[g][b]
                             /\ update'[g][b] = update[g][b],
         view' = view,
         inbox' = inbox \/ Broadcast(h, app'[h]),
         TriedByStage(app'[h][a], disk'[h][a], update'[h][a]),
         Tried(h, a) => disk'[h][a].tried.version > 0,
         /\ TypeOf[KeyOf[a]] # "Independent"
         /\ Replacing(app'[h][a], update'[h][a])
         => AllTried(KeyOf[a])
  PROVE  Barrier'
<1>1. \A g \in Host, b \in App : TriedByStage(app'[g][b], disk'[g][b], update'[g][b])
  BY DEF Barrier
<1>2. \A g \in Host, b \in App : Tried(g, b) => Tried(g, b)'
  BY DEF Tried
<1>3. \A g \in Host, b \in App : Ready(app'[g][b]) => Tried(g, b)'
  BY <1>1 DEF TriedByStage, Tried
<1>4. \A f, g \in Host, b \in App : Ready(view'[f][g][b]) => Tried(g, b)'
  BY <1>2 DEF Barrier, ReadyIsTrue
<1>5. ASSUME NEW f \in Host, NEW g \in Host, NEW b \in App,
             NEW i \in DOMAIN inbox'[f][g], Ready(inbox'[f][g][i][b])
      PROVE  Tried(g, b)'
  <2>3. inbox \in [Host -> [Host -> Seq([App -> Info])]]
    BY DEF TypeInv, TypeOK
  <2>1. CASE inbox'[f][g] = inbox[f][g]
    BY <1>2, <1>5, <2>1 DEF Barrier, ReadyIsTrue
  <2>2. CASE /\ g = h
             /\ inbox'[f][g] = Append(inbox[f][g], PublishedApps(app'[h]))
    <3>1. inbox[f][g] \in Seq([App -> Info])
      BY <2>3
    <3>2. PublishedApps(app'[h]) \in [App -> Info]
      BY PublishedAppsType DEF TypeInv, TypeOK
    <3>3. CASE i \in DOMAIN inbox[f][g]
      <4>1. inbox'[f][g][i] = inbox[f][g][i]
        BY <2>2, <3>1, <3>2, <3>3
      <4> QED
        BY <1>2, <1>5, <3>3, <4>1 DEF Barrier, ReadyIsTrue
    <3>4. CASE inbox'[f][g][i] = PublishedApps(app'[h])
      <4>1. inbox'[f][g][i][b] = Published(app'[g][b])
        BY <2>2, <3>4 DEF PublishedApps
      <4>2. Ready(app'[g][b])
        BY <1>5, <4>1 DEF Ready, Published
      <4> QED
        BY <1>3, <4>2
    <3> QED
      BY <2>2, <3>1, <3>2, <3>3, <3>4
  <2>4. CASE Broadcast(h, app'[h])
    <3>1. inbox'[f] = IF h \in subscribed[f]
                      THEN [inbox[f] EXCEPT ![h] = Append(inbox[f][h], PublishedApps(app'[h]))]
                      ELSE inbox[f]
      BY <2>3, <2>4 DEF Broadcast
    <3> QED
      BY <2>1, <2>2, <2>3, <3>1
  <2> QED
    BY <2>1, <2>4
<1>6. \A k : AllTried(k) => AllTried(k)'
  BY <1>2 DEF AllTried
<1>7. ASSUME NEW g \in Host, NEW b \in App, TypeOf[KeyOf[b]] # "Independent",
             Replacing(app'[g][b], update'[g][b])
      PROVE  AllTried(KeyOf[b])'
  <2>1. CASE g = h /\ b = a
    BY <1>6, <1>7, <2>1
  <2>2. CASE g # h \/ b # a
    BY <1>6, <1>7, <2>2 DEF Barrier, ReplacedWhenReady
  <2> QED
    BY <2>1, <2>2
<1> QED
  BY <1>1, <1>4, <1>5, <1>7 DEF Barrier, ReadyIsTrue, ReplacedWhenReady

(* The steps of the links change only what an AppManager has heard.          *)
LEMMA LinkBarrier ==
  ASSUME Barrier, UNCHANGED <<app, disk, update>>,
         \A f, g \in Host, b \in App :
           /\ Ready(view'[f][g][b]) => Tried(g, b)
           /\ \A i \in DOMAIN inbox'[f][g] : Ready(inbox'[f][g][i][b]) => Tried(g, b)
  PROVE  Barrier'
<1>1. /\ \A g \in Host, b \in App : Tried(g, b)' <=> Tried(g, b)
      /\ \A k : AllTried(k)' <=> AllTried(k)
  BY DEF Tried, AllTried
<1> QED
  BY <1>1 DEF Barrier, ReadyIsTrue, ReplacedWhenReady

LEMMA NoAppsReady == \A b \in App : ~Ready(NoApps[b])
BY DEF Ready, NoApps, FreshInfo, Original

LEMMA ThisBarrier ==
  ASSUME Barrier, NEW h \in Host, NEW a \in App
  PROVE  /\ TriedByStage(app[h][a], disk[h][a], update[h][a])
         /\ /\ TypeOf[KeyOf[a]] # "Independent"
            /\ Replacing(app[h][a], update[h][a])
            => AllTried(KeyOf[a])
BY DEF Barrier, ReplacedWhenReady

LEMMA EnteringBarrier ==
  ASSUME TypeInv, TypeInv', Barrier, NEW h \in Host, NEW a \in App, NEW u \in Update,
         EnterStage(h, a, u), UNCHANGED <<disk, links>>,
         u.target.version > 0,
         u.at \in Unpack .. Finished => Tried(h, a),
         /\ TypeOf[KeyOf[a]] # "Independent"
         /\ u.at \in StopOldApp + 1 .. PostLaunch
         => AllTried(KeyOf[a])
  PROVE  Barrier'
<1>1. /\ \A g \in Host, b \in App :
           g # h \/ b # a => /\ app'[g][b] = app[g][b]
                             /\ disk'[g][b] = disk[g][b]
                             /\ update'[g][b] = update[g][b]
      /\ view' = view
      /\ inbox' = inbox \/ Broadcast(h, app'[h])
      /\ disk'[h][a] = disk[h][a]
  BY DEF EnterStage, SetApplication, TypeInv, TypeOK, links
<1>2. /\ update'[h][a] = [u EXCEPT !.step = IF Coordinates(a, u.at) THEN "announce" ELSE "notify"]
      /\ app'[h][a].want = u.at
      /\ app'[h][a].stage = app[h][a].stage
      /\ app'[h][a].tried = app[h][a].tried
      /\ app'[h][a].finished = app[h][a].finished
  BY DEF EnterStage, SetApplication, TypeInv, TypeOK, Application
<1>3. /\ update'[h][a].step = IF Coordinates(a, u.at) THEN "announce" ELSE "notify"
      /\ update'[h][a].at = u.at
      /\ update'[h][a].target = u.target
  BY <1>2 DEF Update
<1>4. u.at \in Stage
  BY DEF Update
<1>5. TriedByStage(app'[h][a], disk'[h][a], update'[h][a])
  BY <1>1, <1>2, <1>3, <1>4, ThisBarrier
     DEF TriedByStage, BeyondDownload, Ready, Tried
<1>6. /\ TypeOf[KeyOf[a]] # "Independent"
      /\ Replacing(app'[h][a], update'[h][a])
      => AllTried(KeyOf[a])
  BY <1>2, <1>3, <1>4, ThisBarrier DEF Replacing, Disrupted, Coordinates
<1> QED
  BY <1>1, <1>5, <1>6, OwnBarrier DEF Tried

LEMMA BeginBarrier ==
  ASSUME TypeInv, TypeInv', Barrier, NEW h \in Host, NEW a \in App, Begin(h, a)
  PROVE  Barrier'
<1> DEFINE u == [step |-> "next", at |-> None,
                 target |-> offered[h][KeyOf[a]], downloaded |-> FALSE]
<1>1. offered[h][KeyOf[a]] \in Attempt /\ app[h][a] \in Application
  BY KeyType DEF TypeInv, TypeOK
<1>2. u \in Update /\ u.at = None
  BY <1>1 DEF Update, Step
<1>3. u.target.version > 0
  BY <1>1 DEF Begin, FindVersion, Attempt, Application
<1>4. EnterStage(h, a, u) /\ UNCHANGED <<disk, links>>
  BY DEF Begin
<1> HIDE DEF u
<1> QED
  BY <1>2, <1>3, <1>4, EnteringBarrier

LEMMA NextStageBarrier ==
  ASSUME TypeInv, TypeInv', Barrier, NEW h \in Host, NEW a \in App, NextStage(h, a)
  PROVE  Barrier'
<1> DEFINE old == update[h][a]
           u == [old EXCEPT !.at = @ + 1]
<1>1. old \in Update /\ old.at \in Stage \ {Finished, Failed} /\ old.step \in {"work", "next"}
  BY DEF TypeInv, TypeOK, LastStage, NextStage, Update
<1>2. u \in Update /\ u.at = old.at + 1 /\ u.target = old.target
  BY <1>1 DEF Update
<1>3. EnterStage(h, a, u) /\ UNCHANGED <<disk, links>>
  BY DEF NextStage
<1>4. u.target.version > 0
  BY <1>1, <1>2, ThisBarrier DEF TriedByStage
<1>5. u.at \in Unpack .. Finished => BeyondDownload(old)
  BY <1>1, <1>2 DEF BeyondDownload, NextStage
<1>6. u.at \in Unpack .. Finished => Tried(h, a)
  BY <1>5, ThisBarrier DEF TriedByStage, Tried
<1>7. u.at \in StopOldApp + 1 .. PostLaunch => Replacing(app[h][a], old)
  BY <1>1, <1>2 DEF Replacing
<1>8. /\ TypeOf[KeyOf[a]] # "Independent"
      /\ u.at \in StopOldApp + 1 .. PostLaunch
      => AllTried(KeyOf[a])
  BY <1>7, ThisBarrier
<1> HIDE DEF u
<1> QED
  BY <1>2, <1>3, <1>4, <1>6, <1>8, EnteringBarrier

LEMMA FailingBarrier ==
  ASSUME TypeInv, TypeInv', Barrier, NEW h \in Host, NEW a \in App,
         Fail(h, a) \/ FailWork(h, a)
  PROVE  Barrier'
<1> DEFINE u == [update[h][a] EXCEPT !.at = Failed]
<1>1. update[h][a] \in Update /\ update[h][a].step # "idle"
  BY DEF TypeInv, TypeOK, Fail, FailWork
<1>2. u \in Update /\ u.at = Failed /\ u.target = update[h][a].target
  BY <1>1 DEF Update
<1>3. EnterStage(h, a, u) /\ UNCHANGED <<disk, links>>
  BY DEF Fail, FailWork, EnterFailed
<1>4. u.target.version > 0
  BY <1>1, <1>2, ThisBarrier DEF TriedByStage
<1> HIDE DEF u
<1> QED
  BY <1>2, <1>3, <1>4, EnteringBarrier

LEMMA ReachStageBarrier ==
  ASSUME TypeInv, TypeInv', Barrier, NEW h \in Host, NEW a \in App, ReachStage(h, a)
  PROVE  Barrier'
<1> DEFINE old == app[h][a]
           u == update[h][a]
           own == StageReached(old, u)
<1>1. old \in Application /\ u \in Update /\ u.step = "notify"
  BY DEF TypeInv, TypeOK, ReachStage
<1>2. /\ \A g \in Host, b \in App :
           g # h \/ b # a => /\ app'[g][b] = app[g][b]
                             /\ disk'[g][b] = disk[g][b]
                             /\ update'[g][b] = update[g][b]
      /\ view' = view
      /\ inbox' = inbox \/ Broadcast(h, app'[h])
      /\ disk'[h][a] = disk[h][a]
      /\ app'[h][a] = own
      /\ update'[h][a] = IF u.at \notin {Finished, Failed} THEN [u EXCEPT !.step = "work"]
                         ELSE IF old.stage = u.at THEN NoUpdate
                         ELSE [u EXCEPT !.step = "save"]
  BY DEF ReachStage, SetApplication, TypeInv, TypeOK, links
<1>3. /\ own.want = old.want
      /\ own.stage = u.at
      /\ own.tried = old.tried \/ own.tried = u.target
      /\ own.finished = old.finished \/ u.at = Finished
  BY <1>1 DEF StageReached, RecordFailure, Application, Update
<1>4. \/ /\ update'[h][a].step \in {"work", "save"}
         /\ update'[h][a].at = u.at /\ update'[h][a].target = u.target
         /\ update'[h][a].step = "save" => u.at \in {Finished, Failed}
      \/ update'[h][a] = NoUpdate
  BY <1>1, <1>2 DEF Update
<1>5. u.at \in Stage
  BY <1>1 DEF Update
<1>6. TriedByStage(old, disk[h][a], u)
  BY ThisBarrier
<1> HIDE DEF own
<1>7. TriedByStage(app'[h][a], disk'[h][a], update'[h][a])
  BY <1>1, <1>2, <1>3, <1>4, <1>5, <1>6 DEF TriedByStage, BeyondDownload, Ready, NoUpdate
<1>8. Replacing(app'[h][a], update'[h][a]) => Replacing(old, u)
  BY <1>1, <1>2, <1>3, <1>4, <1>5 DEF Replacing, Disrupted, NoUpdate
<1> QED
  BY <1>2, <1>7, <1>8, ThisBarrier, OwnBarrier DEF Tried

(* The end of the wait before StopOldApp: whatever this host has heard of    *)
(* the others, they are ready, and have been since.                          *)
LEMMA AllAreReady ==
  ASSUME TypeInv, Barrier, NEW h \in Host, NEW a \in App,
         TypeOf[KeyOf[a]] # "Independent", update[h][a].step = "wait",
         update[h][a].at \notin {None, SyncStart},
         WaitIsOver(h, a)
  PROVE  AllTried(KeyOf[a])
<1>1. update[h][a].target.version > 0
  BY ThisBarrier DEF TriedByStage
<1>2. AllReached(h, a, StopOldApp, FALSE)
  BY DEF WaitIsOver, Reached
<1> SUFFICES ASSUME NEW g \in Host, NEW b \in App, KeyOf[b] = KeyOf[a]
             PROVE  Tried(g, b)
  BY DEF AllTried
<1> DEFINE info == Seen(h, g)[b]
<1>3. b \in Peers(a)
  BY DEF Peers
<1>4. info.want \in Stage
  <2>1. app[h] \in [App -> Application] /\ view[h][g] \in [App -> Info]
    BY DEF TypeInv, TypeOK
  <2>2. app[h][b].want \in Stage /\ view[h][g][b].want \in Stage
    BY <2>1 DEF Application, Info
  <2>3. CASE g = h
    BY <2>2, <2>3 DEF Seen
  <2>4. CASE g # h
    BY <2>2, <2>4 DEF Seen
  <2> QED
    BY <2>3, <2>4
<1>5. g \in initialReceived[h] \union {h}
  BY DEF WaitIsOver, AllConnected
<1>6. SameVersion(info, update[h][a].target) \/ info.want # Failed
  BY <1>3, <1>5 DEF WaitIsOver, PeerFailed
<1>7. SameVersion(info, update[h][a].target) \/ info.want >= StopOldApp
  BY <1>2, <1>3 DEF AllReached
<1>8. Ready(info)
  BY <1>1, <1>4, <1>6, <1>7 DEF Ready, SameVersion
<1>9. CASE g = h
  BY <1>8, <1>9, ThisBarrier DEF Seen, TriedByStage, Tried
<1>10. CASE g # h
  BY <1>8, <1>10 DEF Seen, Barrier, ReadyIsTrue
<1> QED
  BY <1>9, <1>10

LEMMA WaitingBarrier ==
  ASSUME TypeInv, TypeInv', Barrier, NEW h \in Host, NEW a \in App,
         StartWait(h, a) \/ PassWait(h, a) \/ FailWait(h, a) \/ AbortWait(h, a)
  PROVE  Barrier'
<1> DEFINE old == update[h][a]
<1>1. old \in Update /\ old.step \in {"announce", "ready", "wait", "turn"}
  BY DEF TypeInv, TypeOK, StartWait, PassWait, FailWait, AbortWait, Waiting
<1>2. PICK step \in {"wait", "turn", "ready", "notify", "failing"} :
        /\ update' = [update EXCEPT ![h][a] = [old EXCEPT !.step = step]]
        /\ step = "turn" => old.step = "ready"
        /\ step \in {"ready", "notify"} =>
             old.step = "turn" \/ (old.step = "wait" /\ WaitIsOver(h, a))
        /\ step = "ready" => old.at = StopOldApp
  BY <1>1 DEF StartWait, PassWait, FailWait, AbortWait, TypeInv, TypeOK, Waiting
<1>3. /\ UNCHANGED <<app, disk, view, inbox>>
      /\ \A g \in Host, b \in App : g # h \/ b # a => update'[g][b] = update[g][b]
      /\ update'[h][a] = [old EXCEPT !.step = step]
  BY <1>2 DEF StartWait, PassWait, FailWait, AbortWait, TypeInv, TypeOK, links
<1>4. update'[h][a].step = step /\ update'[h][a].at = old.at /\ update'[h][a].target = old.target
  BY <1>1, <1>3 DEF Update
<1>5. TriedByStage(app[h][a], disk[h][a], old)
  BY ThisBarrier
<1>6. TriedByStage(app'[h][a], disk'[h][a], update'[h][a])
  BY <1>1, <1>3, <1>4, <1>5 DEF TriedByStage, BeyondDownload
<1>7. ASSUME TypeOf[KeyOf[a]] # "Independent", Replacing(app'[h][a], update'[h][a])
      PROVE  AllTried(KeyOf[a])
  <2>1. CASE Replacing(app[h][a], old)
    BY <1>7, <2>1, ThisBarrier
  <2>2. CASE ~Replacing(app[h][a], old)
    <3>1. /\ old.step = "wait" /\ WaitIsOver(h, a)
          /\ old.at \in StopOldApp .. PostLaunch
      BY <1>1, <1>2, <1>3, <1>4, <1>7, <2>2 DEF Replacing
    <3> QED
      BY <1>7, <3>1, AllAreReady
  <2> QED
    BY <2>1, <2>2
<1> QED
  BY <1>3, <1>6, <1>7, OwnBarrier DEF Tried

LEMMA WorkBarrier ==
  ASSUME TypeInv, TypeInv', Barrier, NEW h \in Host, NEW a \in App,
         Download(h, a) \/ Install(h, a)
  PROVE  Barrier'
<1> DEFINE old == update[h][a]
<1>1. old \in Update /\ app[h][a] \in Application /\ old.step = "work"
  BY DEF TypeInv, TypeOK, Download, Install
<1>2. /\ \A g \in Host, b \in App :
           g # h \/ b # a => /\ app'[g][b] = app[g][b]
                             /\ disk'[g][b] = disk[g][b]
                             /\ update'[g][b] = update[g][b]
      /\ UNCHANGED <<view, inbox, disk>>
  BY DEF Download, Install, TypeInv, TypeOK, links
<1>3. /\ app'[h][a].want = app[h][a].want
      /\ app'[h][a].stage = app[h][a].stage
      /\ app'[h][a].finished = app[h][a].finished
      /\ update'[h][a].step = "save" /\ update'[h][a].at = old.at
      /\ update'[h][a].target = old.target
      /\ \/ old.at = DownloadVersion /\ app'[h][a].tried.version = old.target.version
         \/ old.at = SaveApplicationState /\ app'[h][a].tried = app[h][a].tried
  <2>1. CASE Download(h, a)
    <3>1. /\ app'[h][a].want = app[h][a].want
          /\ app'[h][a].stage = app[h][a].stage
          /\ app'[h][a].finished = app[h][a].finished
          /\ app'[h][a].tried.version = old.target.version
      BY <1>1, <2>1 DEF Download, TypeInv, TypeOK, Application
    <3>2. /\ update'[h][a].step = "save" /\ update'[h][a].at = old.at
          /\ update'[h][a].target = old.target
          /\ old.at = DownloadVersion
      BY <1>1, <2>1 DEF Download, TypeInv, TypeOK, Update
    <3> QED
      BY <3>1, <3>2
  <2>2. CASE Install(h, a)
    BY <1>1, <2>2 DEF Install, TypeInv, TypeOK, Application, Update
  <2> QED
    BY <2>1, <2>2
<1>4. TriedByStage(app'[h][a], disk'[h][a], update'[h][a])
  BY <1>1, <1>2, <1>3, ThisBarrier DEF TriedByStage, BeyondDownload, Ready
<1>5. Replacing(app'[h][a], update'[h][a]) => Replacing(app[h][a], old)
  BY <1>1, <1>3 DEF Replacing, Disrupted
<1> QED
  BY <1>2, <1>4, <1>5, ThisBarrier, OwnBarrier DEF Tried

LEMMA SavingBarrier ==
  ASSUME TypeInv, TypeInv', Barrier, NEW h \in Host, NEW a \in App,
         Save(h, a) \/ FailSave(h, a) \/ UpdateApplicationJson(h, a)
  PROVE  Barrier'
<1> DEFINE old == update[h][a]
           own == app[h][a]
<1>1. old \in Update /\ own \in Application /\ disk[h][a] \in Saved
  BY DEF TypeInv, TypeOK
<1>2. /\ \A g \in Host, b \in App :
           g # h \/ b # a => /\ disk'[g][b] = disk[g][b]
                             /\ update'[g][b] = update[g][b]
      /\ UNCHANGED <<app, view, inbox>>
  BY DEF Save, FailSave, UpdateApplicationJson, TypeInv, TypeOK, links
<1>3. /\ disk'[h][a] = disk[h][a] \/ disk'[h][a] = Persisted(own)
      /\ \/ update'[h][a] = old
         \/ update'[h][a] = NoUpdate
         \/ /\ update'[h][a] = [old EXCEPT !.step = "next"]
            /\ disk'[h][a] = Persisted(own)
            /\ old.step = "save"
  <2>1. CASE Save(h, a)
    BY <2>1 DEF Save, TypeInv, TypeOK
  <2>2. CASE FailSave(h, a)
    BY <2>2 DEF FailSave, TypeInv, TypeOK
  <2>3. CASE UpdateApplicationJson(h, a)
    BY <2>3 DEF UpdateApplicationJson, TypeInv, TypeOK
  <2> QED
    BY <2>1, <2>2, <2>3
<1>4. \/ update'[h][a] = old
      \/ update'[h][a] = NoUpdate
      \/ /\ update'[h][a].step = "next" /\ update'[h][a].at = old.at
         /\ update'[h][a].target = old.target
         /\ disk'[h][a] = Persisted(own)
         /\ old.step = "save"
  BY <1>1, <1>3 DEF Update
<1>5. \/ /\ disk'[h][a].tried = disk[h][a].tried
         /\ disk'[h][a].finished = disk[h][a].finished
      \/ /\ disk'[h][a].tried = own.tried
         /\ disk'[h][a].finished = own.finished
  BY <1>3 DEF Persisted
<1>6. disk'[h][a] = Persisted(own) => disk'[h][a].tried = own.tried
  BY DEF Persisted
<1>7. TriedByStage(own, disk[h][a], old)
  BY ThisBarrier
<1>8. TriedByStage(own, disk'[h][a], update'[h][a])
  BY <1>1, <1>4, <1>5, <1>6, <1>7 DEF TriedByStage, BeyondDownload, Ready, NoUpdate
<1>9. Replacing(own, update'[h][a]) => Replacing(own, old)
  BY <1>1, <1>4 DEF Replacing, NoUpdate
<1>10. Tried(h, a) => disk'[h][a].tried.version > 0
  BY <1>5, <1>7 DEF TriedByStage, Tried
<1> QED
  BY <1>2, <1>8, <1>9, <1>10, ThisBarrier, OwnBarrier

LEMMA HearingBarrier ==
  ASSUME TypeInv, Barrier, NEW h \in Host, NEW g \in Host,
         Receive(h, g) \/ Disconnect(h, g) \/ Subscribe(h, g)
  PROVE  Barrier'
<1>1. ASSUME NEW f \in Host, NEW e \in Host, NEW b \in App
      PROVE  /\ Ready(view'[f][e][b]) => Tried(e, b)
             /\ \A i \in DOMAIN inbox'[f][e] : Ready(inbox'[f][e][i][b]) => Tried(e, b)
  <2>1. /\ Ready(view[f][e][b]) => Tried(e, b)
        /\ \A i \in DOMAIN inbox[f][e] : Ready(inbox[f][e][i][b]) => Tried(e, b)
    BY DEF Barrier, ReadyIsTrue
  <2>2. CASE Receive(h, g) /\ f = h /\ e = g
    <3>1. inbox[f][e] \in Seq([App -> Info]) /\ inbox[f][e] # <<>>
      BY <2>2 DEF Receive, TypeInv, TypeOK
    <3>2. /\ 1 \in DOMAIN inbox[f][e] /\ Head(inbox[f][e]) = inbox[f][e][1]
          /\ \A i \in DOMAIN Tail(inbox[f][e]) :
               i + 1 \in DOMAIN inbox[f][e] /\ Tail(inbox[f][e])[i] = inbox[f][e][i + 1]
      BY <3>1
    <3>3. view'[f][e] = Head(inbox[f][e]) /\ inbox'[f][e] = Tail(inbox[f][e])
      BY <2>2 DEF Receive, TypeInv, TypeOK
    <3> QED
      BY <2>1, <3>2, <3>3
  <2>3. CASE Disconnect(h, g) /\ f = h /\ e = g
    BY <2>3, NoAppsReady DEF Disconnect, TypeInv, TypeOK
  <2>4. CASE Subscribe(h, g) /\ f = h /\ e = g
    <3>1. view'[f][e] = view[f][e] /\ inbox'[f][e] = <<PublishedApps(app[e])>>
      BY <2>4 DEF Subscribe, TypeInv, TypeOK
    <3>2. Ready(PublishedApps(app[e])[b]) => Ready(app[e][b])
      BY DEF PublishedApps, Published, Ready
    <3>3. Ready(app[e][b]) => Tried(e, b)
      BY ThisBarrier DEF TriedByStage, Tried
    <3> QED
      BY <2>1, <3>1, <3>2, <3>3
  <2>5. CASE ~(f = h /\ e = g)
    <3>1. CASE Receive(h, g)
      BY <2>1, <2>5, <3>1 DEF Receive, TypeInv, TypeOK
    <3>2. CASE Disconnect(h, g)
      BY <2>1, <2>5, <3>2 DEF Disconnect, TypeInv, TypeOK
    <3>3. CASE Subscribe(h, g)
      BY <2>1, <2>5, <3>3 DEF Subscribe, TypeInv, TypeOK
    <3> QED
      BY <3>1, <3>2, <3>3
  <2> QED
    BY <2>2, <2>3, <2>4, <2>5
<1> QED
  BY <1>1, LinkBarrier DEF Receive, Disconnect, Subscribe

LEMMA RestartBarrier ==
  ASSUME TypeInv, Barrier, NEW h \in Host, Restart(h)
  PROVE  Barrier'
<1>1. /\ disk' = disk
      /\ \A g \in Host, b \in App :
           IF g = h
           THEN app'[g][b] = Loaded(disk[g][b]) /\ update'[g][b] = NoUpdate
           ELSE app'[g][b] = app[g][b] /\ update'[g][b] = update[g][b]
  BY DEF Restart, TypeInv, TypeOK
<1>2. \A f, e \in Host :
        /\ view'[f][e] = IF f = h THEN NoApps ELSE view[f][e]
        /\ inbox'[f][e] = IF f = h THEN <<>> ELSE inbox[f][e]
  BY DEF Restart, TypeInv, TypeOK
<1>3. \A saved \in Saved :
        /\ Loaded(saved).want = None /\ Loaded(saved).stage = None
        /\ Loaded(saved).finished = saved.finished
        /\ Loaded(saved).tried = saved.tried
  BY DEF Loaded
<1>4. \A g \in Host, b \in App : disk[g][b] \in Saved
  BY DEF TypeInv, TypeOK
<1>5. /\ \A g \in Host, b \in App : Tried(g, b)' <=> Tried(g, b)
      /\ \A k : AllTried(k)' <=> AllTried(k)
  BY <1>1 DEF Tried, AllTried
<1>6. \A g \in Host, b \in App : TriedByStage(app[g][b], disk[g][b], update[g][b])
  BY DEF Barrier
<1>7. \A g \in Host, b \in App : TriedByStage(app'[g][b], disk'[g][b], update'[g][b])
  BY <1>1, <1>3, <1>4, <1>6 DEF TriedByStage, BeyondDownload, Ready, NoUpdate
<1>8. ReadyIsTrue'
  BY <1>2, <1>5, NoAppsReady DEF Barrier, ReadyIsTrue
<1>9. \A g \in Host, b \in App :
        Replacing(app'[g][b], update'[g][b]) => Replacing(app[g][b], update[g][b])
  BY <1>1, <1>3, <1>4 DEF Replacing, Disrupted, NoUpdate
<1>10. ReplacedWhenReady'
  BY <1>5, <1>9 DEF Barrier, ReplacedWhenReady
<1> QED
  BY <1>7, <1>8, <1>10 DEF Barrier

LEMMA SameBarrier ==
  ASSUME Barrier, UNCHANGED <<app, disk, update, view, inbox>>
  PROVE  Barrier'
BY LinkBarrier DEF Barrier, ReadyIsTrue

LEMMA InitBarrier == Init => Barrier
<1> SUFFICES ASSUME Init PROVE Barrier
  OBVIOUS
<1>1. \A h \in Host, a \in App :
        /\ disk[h][a].finished.version = 0 /\ disk[h][a].tried.version = 0
        /\ app[h][a].want = None /\ app[h][a].stage = None
        /\ app[h][a].finished.version = 0
        /\ update[h][a].step = "idle" /\ update[h][a].at = None
  BY DEF Init, Loaded, NoUpdate, Original
<1>2. \A f, g \in Host : view[f][g] = NoApps /\ inbox[f][g] = <<>>
  BY DEF Init
<1>3. \A h \in Host, a \in App : TriedByStage(app[h][a], disk[h][a], update[h][a])
  BY <1>1 DEF TriedByStage, BeyondDownload, Ready
<1>4. ReadyIsTrue
  BY <1>2, NoAppsReady DEF ReadyIsTrue
<1>5. ReplacedWhenReady
  BY <1>1 DEF ReplacedWhenReady, Replacing, Disrupted
<1> QED
  BY <1>3, <1>4, <1>5 DEF Barrier

LEMMA NextBarrier == TypeInv /\ Barrier /\ [Next]_vars => Barrier'
<1> SUFFICES ASSUME TypeInv, Barrier, [Next]_vars PROVE Barrier'
  OBVIOUS
<1> TypeInv'
  BY NextTypeInv
<1>1. ASSUME NEW h \in Host, NEW a \in App,
             \/ Evaluate(h, a) \/ Run(h, a) \/ Trouble(h, a)
             \/ UpdateApplicationJson(h, a)
      PROVE  Barrier'
  BY <1>1, WaitingBarrier, BeginBarrier, ReachStageBarrier, WorkBarrier, SavingBarrier,
     NextStageBarrier, FailingBarrier
     DEF Evaluate, Run, Trouble
<1>2. ASSUME NEW h \in Host, Hear(h)
      PROVE  Barrier'
  <2>1. CASE \E k \in Key : Offer(h, k)
    BY <2>1, SameBarrier DEF Offer, links
  <2> QED
    BY <1>2, <2>1, HearingBarrier DEF Hear
<1>3. ASSUME NEW h \in Host, NEW g \in Host, Disconnect(h, g)
      PROVE  Barrier'
  BY <1>3, HearingBarrier
<1>4. ASSUME NEW h \in Host, Restart(h)
      PROVE  Barrier'
  BY <1>4, RestartBarrier
<1>5. ASSUME NEW k \in Key, Release(k) \/ RetryUpgrade(k)
      PROVE  Barrier'
  BY <1>5, SameBarrier DEF Release, RetryUpgrade, links
<1>6. CASE UNCHANGED vars
  BY <1>6, SameBarrier DEF vars
<1> QED
  BY <1>1, <1>2, <1>3, <1>4, <1>5, <1>6 DEF Next, Act

(* No application of a coordinated key is stopped before all of them have    *)
(* downloaded: for any number of hosts, applications, keys and releases, and *)
(* across failures, timeouts, broken connections and restarts, although      *)
(* every host passes the barrier on what it has heard of the others.         *)
THEOREM ReadyBeforeStopHolds == Spec => []ReadyBeforeStop
<1>1. Init => TypeInv /\ Barrier
  BY InitTypeInv, InitBarrier
<1>2. (TypeInv /\ Barrier) /\ [Next]_vars => (TypeInv /\ Barrier)'
  BY NextTypeInv, NextBarrier
<1>3. TypeInv /\ Barrier => ReadyBeforeStop
  <2> SUFFICES ASSUME TypeInv, Barrier, NEW h \in Host, NEW g \in Host,
                      NEW a \in App, NEW b \in App,
                      KeyOf[a] = KeyOf[b], TypeOf[KeyOf[a]] # "Independent",
                      Disrupting(h, a)
               PROVE  app[g][b].tried.version > 0
    BY DEF ReadyBeforeStop
  <2>1. AllTried(KeyOf[a])
    BY ThisBarrier DEF Replacing, Disrupting
  <2>2. Tried(g, b)
    BY <2>1 DEF AllTried
  <2> QED
    BY <2>2, ThisBarrier DEF TriedByStage, Tried
<1> QED
  BY <1>1, <1>2, <1>3, PTL DEF Spec

-----------------------------------------------------------------------------
(* Failures of a single release.                                             *)

(* An application is at a stage after DownloadVersion only in an update that *)
(* has downloaded the release.                                               *)
DownloadedByStage(own, u) ==
  /\ own.stage \in Unpack .. PostLaunch => u.step # "idle" /\ u.downloaded
  /\ \/ u.at \in Unpack .. Finished
     \/ u.at = DownloadVersion /\ u.step \in {"save", "next"}
     => u.downloaded
Downloads == \A h \in Host, a \in App : DownloadedByStage(app[h][a], update[h][a])

LEMMA OwnDownload ==
  ASSUME Downloads, NEW h \in Host, NEW a \in App,
         \A g \in Host, b \in App :
           g # h \/ b # a => /\ app'[g][b] = app[g][b]
                             /\ update'[g][b] = update[g][b],
         DownloadedByStage(app'[h][a], update'[h][a])
  PROVE  Downloads'
BY DEF Downloads

LEMMA EnteringDownloads ==
  ASSUME TypeInv, Downloads, NEW h \in Host, NEW a \in App, NEW u \in Update,
         EnterStage(h, a, u),
         app[h][a].stage \in Unpack .. PostLaunch => u.downloaded,
         u.at \in Unpack .. Finished => u.downloaded
  PROVE  Downloads'
<1>1. \A g \in Host, b \in App :
        g # h \/ b # a => app'[g][b] = app[g][b] /\ update'[g][b] = update[g][b]
  BY DEF EnterStage, SetApplication, TypeInv, TypeOK
<1>2. /\ update'[h][a] = [u EXCEPT !.step = IF Coordinates(a, u.at) THEN "announce" ELSE "notify"]
      /\ app'[h][a].stage = app[h][a].stage
  BY DEF EnterStage, SetApplication, TypeInv, TypeOK, Application
<1>3. /\ update'[h][a].step \in {"announce", "notify"}
      /\ update'[h][a].at = u.at /\ update'[h][a].downloaded = u.downloaded
  BY <1>2 DEF Update
<1> QED
  BY <1>1, <1>2, <1>3, OwnDownload DEF DownloadedByStage

LEMMA BeginDownloads ==
  ASSUME TypeInv, Downloads, NEW h \in Host, NEW a \in App, Begin(h, a)
  PROVE  Downloads'
<1> DEFINE u == [step |-> "next", at |-> None,
                 target |-> offered[h][KeyOf[a]], downloaded |-> FALSE]
<1>1. u \in Update /\ u.at = None
  BY KeyType DEF TypeInv, TypeOK, Update, Step
<1>2. EnterStage(h, a, u) /\ app[h][a].stage \notin Unpack .. PostLaunch
  BY DEF Begin, Idle, Downloads, DownloadedByStage
<1> HIDE DEF u
<1> QED
  BY <1>1, <1>2, EnteringDownloads

LEMMA NextStageDownloads ==
  ASSUME TypeInv, Downloads, NEW h \in Host, NEW a \in App, NextStage(h, a)
  PROVE  Downloads'
<1> DEFINE old == update[h][a]
           u == [old EXCEPT !.at = @ + 1]
<1>1. old \in Update /\ old.at \in Stage
  BY DEF TypeInv, TypeOK, Update
<1>2. u \in Update /\ u.at = old.at + 1 /\ u.downloaded = old.downloaded
  BY <1>1 DEF TypeInv, LastStage, NextStage, Update
<1>3. EnterStage(h, a, u)
  BY DEF NextStage
<1>4. /\ app[h][a].stage \in Unpack .. PostLaunch => u.downloaded
      /\ u.at \in Unpack .. Finished => u.downloaded
  BY <1>1, <1>2 DEF Downloads, DownloadedByStage, NextStage
<1> HIDE DEF u
<1> QED
  BY <1>2, <1>3, <1>4, EnteringDownloads

LEMMA FailingDownloads ==
  ASSUME TypeInv, Downloads, NEW h \in Host, NEW a \in App,
         Fail(h, a) \/ FailWork(h, a)
  PROVE  Downloads'
<1> DEFINE u == [update[h][a] EXCEPT !.at = Failed]
<1>1. update[h][a] \in Update
  BY DEF TypeInv, TypeOK
<1>2. u \in Update /\ u.at = Failed /\ u.downloaded = update[h][a].downloaded
  BY <1>1 DEF Update
<1>3. EnterStage(h, a, u)
  BY DEF Fail, FailWork, EnterFailed
<1>4. app[h][a].stage \in Unpack .. PostLaunch => u.downloaded
  BY <1>2 DEF Downloads, DownloadedByStage
<1> HIDE DEF u
<1> QED
  BY <1>2, <1>3, <1>4, EnteringDownloads

LEMMA ReachStageDownloads ==
  ASSUME TypeInv, Downloads, NEW h \in Host, NEW a \in App, ReachStage(h, a)
  PROVE  Downloads'
<1> DEFINE old == app[h][a]
           u == update[h][a]
           own == StageReached(old, u)
<1>1. old \in Application /\ u \in Update
  BY DEF TypeInv, TypeOK
<1>2. /\ \A g \in Host, b \in App :
           g # h \/ b # a => app'[g][b] = app[g][b] /\ update'[g][b] = update[g][b]
      /\ app'[h][a] = own
      /\ update'[h][a] = IF u.at \notin {Finished, Failed} THEN [u EXCEPT !.step = "work"]
                         ELSE IF old.stage = u.at THEN NoUpdate
                         ELSE [u EXCEPT !.step = "save"]
  BY DEF ReachStage, SetApplication, TypeInv, TypeOK
<1>3. own.stage = u.at
  BY <1>1 DEF StageReached, RecordFailure, Application, Update
<1>4. \/ /\ update'[h][a].step \in {"work", "save"}
         /\ update'[h][a].at = u.at /\ update'[h][a].downloaded = u.downloaded
         /\ update'[h][a].step = "save" => u.at \in {Finished, Failed}
      \/ update'[h][a] = NoUpdate /\ u.at \in {Finished, Failed}
  BY <1>1, <1>2 DEF Update
<1>5. DownloadedByStage(old, u)
  BY DEF Downloads
<1>6. u.at \in Stage
  BY <1>1 DEF Update
<1> HIDE DEF own
<1>7. DownloadedByStage(app'[h][a], update'[h][a])
  BY <1>2, <1>3, <1>4, <1>5, <1>6 DEF DownloadedByStage, NoUpdate
<1> QED
  BY <1>2, <1>7, OwnDownload

LEMMA WaitingDownloads ==
  ASSUME TypeInv, Downloads, NEW h \in Host, NEW a \in App,
         StartWait(h, a) \/ PassWait(h, a) \/ FailWait(h, a) \/ AbortWait(h, a)
  PROVE  Downloads'
<1> DEFINE old == update[h][a]
<1>1. old \in Update /\ old.step \in {"announce", "ready", "wait", "turn"}
  BY DEF TypeInv, TypeOK, StartWait, PassWait, FailWait, AbortWait, Waiting
<1>2. PICK step \in {"wait", "turn", "ready", "notify", "failing"} :
        update' = [update EXCEPT ![h][a] = [old EXCEPT !.step = step]]
  BY <1>1 DEF StartWait, PassWait, FailWait, AbortWait, TypeInv, TypeOK, Waiting
<1>3. /\ UNCHANGED app
      /\ \A g \in Host, b \in App : g # h \/ b # a => update'[g][b] = update[g][b]
      /\ update'[h][a] = [old EXCEPT !.step = step]
  BY <1>2 DEF StartWait, PassWait, FailWait, AbortWait, TypeInv, TypeOK
<1>4. /\ update'[h][a].step = step /\ update'[h][a].at = old.at
      /\ update'[h][a].downloaded = old.downloaded
  BY <1>1, <1>3 DEF Update
<1>5. DownloadedByStage(app[h][a], old)
  BY DEF Downloads
<1>6. DownloadedByStage(app'[h][a], update'[h][a])
  BY <1>1, <1>3, <1>4, <1>5 DEF DownloadedByStage
<1> QED
  BY <1>3, <1>6, OwnDownload

LEMMA WorkDownloads ==
  ASSUME TypeInv, Downloads, NEW h \in Host, NEW a \in App,
         Download(h, a) \/ Install(h, a)
  PROVE  Downloads'
<1> DEFINE old == update[h][a]
<1>1. old \in Update /\ app[h][a] \in Application
  BY DEF TypeInv, TypeOK
<1>2. /\ \A g \in Host, b \in App :
           g # h \/ b # a => app'[g][b] = app[g][b] /\ update'[g][b] = update[g][b]
      /\ app'[h][a].stage = app[h][a].stage
  <2>1. CASE Download(h, a)
    BY <1>1, <2>1 DEF Download, TypeInv, TypeOK, Application
  <2>2. CASE Install(h, a)
    BY <1>1, <2>2 DEF Install, TypeInv, TypeOK, Application
  <2> QED
    BY <2>1, <2>2
<1>3. /\ update'[h][a].step = "save" /\ update'[h][a].at = old.at
      /\ \/ update'[h][a].downloaded
         \/ update'[h][a].downloaded = old.downloaded /\ old.at = SaveApplicationState
  <2>1. CASE Download(h, a)
    BY <1>1, <2>1 DEF Download, TypeInv, TypeOK, Update
  <2>2. CASE Install(h, a)
    BY <1>1, <2>2 DEF Install, TypeInv, TypeOK, Update
  <2> QED
    BY <2>1, <2>2
<1>4. DownloadedByStage(app[h][a], old)
  BY DEF Downloads
<1> QED
  BY <1>2, <1>3, <1>4, OwnDownload DEF DownloadedByStage

LEMMA SavingDownloads ==
  ASSUME Inv, Downloads, NEW h \in Host, NEW a \in App,
         Save(h, a) \/ FailSave(h, a) \/ UpdateApplicationJson(h, a)
  PROVE  Downloads'
<1> DEFINE old == update[h][a]
<1>1. TypeInv /\ old \in Update
  BY DEF Inv, TypeInv, TypeOK
<1>2. /\ \A g \in Host, b \in App : g # h \/ b # a => update'[g][b] = update[g][b]
      /\ UNCHANGED app
  BY <1>1 DEF Save, FailSave, UpdateApplicationJson, TypeInv, TypeOK
<1>3. \/ update'[h][a] = old
      \/ /\ update'[h][a] = NoUpdate
         /\ old.step = "save" /\ old.at \in {Finished, Failed}
      \/ update'[h][a] = [old EXCEPT !.step = "next"] /\ old.step = "save"
  <2>1. CASE Save(h, a)
    BY <1>1, <2>1 DEF Save, TypeInv, TypeOK
  <2>2. CASE FailSave(h, a)
    BY <1>1, <2>2 DEF FailSave, TypeInv, TypeOK
  <2>3. CASE UpdateApplicationJson(h, a)
    BY <2>3 DEF UpdateApplicationJson
  <2> QED
    BY <2>1, <2>2, <2>3
<1>4. \/ update'[h][a] = old
      \/ /\ update'[h][a] = NoUpdate
         /\ old.step = "save" /\ old.at \in {Finished, Failed}
      \/ /\ update'[h][a].step = "next" /\ update'[h][a].at = old.at
         /\ update'[h][a].downloaded = old.downloaded /\ old.step = "save"
  BY <1>1, <1>3 DEF Update
<1>5. DownloadedByStage(app[h][a], old)
  BY DEF Downloads
<1>6. old.step = "save" => app[h][a].stage = old.at
  BY ThisInStep DEF InStep
<1> QED
  BY <1>2, <1>4, <1>5, <1>6, OwnDownload DEF DownloadedByStage, NoUpdate

LEMMA RestartDownloads ==
  ASSUME TypeInv, Downloads, NEW h \in Host, Restart(h)
  PROVE  Downloads'
<1>1. \A g \in Host, b \in App :
        IF g = h
        THEN app'[g][b] = Loaded(disk[g][b]) /\ update'[g][b] = NoUpdate
        ELSE app'[g][b] = app[g][b] /\ update'[g][b] = update[g][b]
  BY DEF Restart, TypeInv, TypeOK
<1>2. \A g \in Host, b \in App : Loaded(disk[g][b]).stage = None
  BY DEF Loaded
<1> QED
  BY <1>1, <1>2 DEF Downloads, DownloadedByStage, NoUpdate

LEMMA SameDownloads ==
  ASSUME Downloads, UNCHANGED <<app, update>>
  PROVE  Downloads'
BY DEF Downloads

LEMMA NextDownloads == Inv /\ Downloads /\ [Next]_vars => Downloads'
<1> SUFFICES ASSUME Inv, Downloads, [Next]_vars PROVE Downloads'
  OBVIOUS
<1> TypeInv
  BY DEF Inv
<1>1. ASSUME NEW h \in Host, NEW a \in App,
             \/ Evaluate(h, a) \/ Run(h, a) \/ Trouble(h, a)
             \/ UpdateApplicationJson(h, a)
      PROVE  Downloads'
  BY <1>1, WaitingDownloads, BeginDownloads, ReachStageDownloads, WorkDownloads,
     SavingDownloads, NextStageDownloads, FailingDownloads
     DEF Evaluate, Run, Trouble
<1>2. ASSUME NEW h \in Host, Hear(h) \/ \E g \in Host : Disconnect(h, g)
      PROVE  Downloads'
  BY <1>2, SameDownloads DEF Hear, Receive, Subscribe, Offer, Disconnect
<1>3. ASSUME NEW h \in Host, Restart(h)
      PROVE  Downloads'
  BY <1>3, RestartDownloads
<1>4. ASSUME NEW k \in Key, Release(k) \/ RetryUpgrade(k)
      PROVE  Downloads'
  BY <1>4, SameDownloads DEF Release, RetryUpgrade
<1>5. CASE UNCHANGED vars
  BY <1>5, SameDownloads DEF vars
<1> QED
  BY <1>1, <1>2, <1>3, <1>4, <1>5 DEF Next, Act

(* Only the step that reaches a stage takes an update from its notification  *)
(* to saving.                                                                *)
LEMMA OnlyReachStageSaves ==
  ASSUME TypeInv, [Next]_vars, NEW h \in Host, NEW a \in App,
         update[h][a].step = "notify", update'[h][a].step = "save"
  PROVE  ReachStage(h, a)
<1>1. \A g \in Host, b \in App : update[g][b] \in Update
  BY DEF TypeInv, TypeOK
<1>2. ASSUME NEW g \in Host, NEW b \in App,
             \/ Evaluate(g, b) \/ Run(g, b) \/ Trouble(g, b) \/ UpdateApplicationJson(g, b)
      PROVE  ReachStage(h, a)
  <2>1. g = h /\ b = a
    <3>1. ASSUME g # h \/ b # a PROVE update'[h][a] = update[h][a]
      BY <1>2, <3>1
         DEF Evaluate, Run, Trouble, PassWait, FailWait, AbortWait, StartWait, Begin,
             EnterStage, ReachStage, Download, Install, Save, NextStage, Fail, FailWork,
             EnterFailed, FailSave, UpdateApplicationJson, TypeInv, TypeOK
    <3> QED
      BY <3>1
  <2>2. \/ update[h][a].step # "notify"
        \/ ReachStage(h, a)
        \/ UNCHANGED update
    BY <1>2, <2>1
       DEF Evaluate, Run, Trouble, PassWait, FailWait, AbortWait, StartWait, Begin, Idle,
           Waiting, Download, Install, Save, NextStage, Fail, FailWork, FailSave,
           UpdateApplicationJson
  <2> QED
    BY <2>2
<1>3. ASSUME NEW g \in Host, Restart(g)
      PROVE  FALSE
  BY <1>3 DEF Restart, NoUpdate, TypeInv, TypeOK
<1>4. \/ UNCHANGED update
      \/ \E g \in Host : Restart(g)
      \/ \E g \in Host, b \in App :
           Evaluate(g, b) \/ Run(g, b) \/ Trouble(g, b) \/ UpdateApplicationJson(g, b)
  BY DEF Next, Act, Hear, Receive, Subscribe, Offer, Disconnect, Release, RetryUpgrade, vars
<1> QED
  BY <1>2, <1>3, <1>4

(* While there is a single release, what fails before the release is there   *)
(* does not count against it: for any hosts and applications, whatever       *)
(* fails, times out or restarts. With a second release it does               *)
(* (wait_timeout).                                                           *)
THEOREM FailureWasTriedHolds ==
  ASSUME MaxVersion = 1
  PROVE  Spec => FailureWasTried
<1>1. Init => Inv /\ Downloads
  <2>1. Init => Downloads
    BY DEF Init, Downloads, DownloadedByStage, Loaded, NoUpdate
  <2> QED
    BY <2>1, InitInv
<1>2. (Inv /\ Downloads) /\ [Next]_vars => (Inv /\ Downloads)'
  BY NextInv, NextDownloads
<1>3. ASSUME Inv, Downloads, [Next]_vars, NEW h \in Host, NEW a \in App,
             update[h][a].step = "notify", update'[h][a].step = "save",
             app'[h][a].failed # app[h][a].failed
      PROVE  update[h][a].downloaded
  <2> DEFINE old == app[h][a]
             u == update[h][a]
  <2>1. TypeInv /\ old \in Application /\ u \in Update
    BY <1>3 DEF Inv, TypeInv, TypeOK
  <2>2. app'[h][a] = StageReached(old, u)
    BY <1>3, <2>1, OnlyReachStageSaves DEF ReachStage, SetApplication, TypeInv, TypeOK
  <2>3. u.at = Failed /\ old.stage # Failed /\ old.stage > DownloadVersion
    BY <1>3, <2>1, <2>2 DEF StageReached, RecordFailure, Application
  <2>4. old.stage # Finished
    BY <1>3, ThisInStep DEF Succeeded, Updated, HasRelease
  <2>5. old.stage \in Unpack .. PostLaunch
    BY <2>1, <2>3, <2>4 DEF Application
  <2> QED
    BY <1>3, <2>5 DEF Downloads, DownloadedByStage
<1>4. (Inv /\ Downloads) /\ [Next]_vars
      => [\A h \in Host, a \in App :
            /\ update[h][a].step = "notify" /\ update'[h][a].step = "save"
            /\ app'[h][a].failed # app[h][a].failed
            => update[h][a].downloaded]_vars
  BY <1>3
<1> QED
  BY <1>1, <1>2, <1>4, PTL DEF Spec, FailureWasTried
=============================================================================
