---------------------------- MODULE UpdateEvents ----------------------------
(***************************************************************************)
(* The events of application updates on their way from an AppManager to a  *)
(* CloudManager: the AppManager numbers and stores them, sends those a new *)
(* subscription has missed before the ones that follow, and the            *)
(* CloudManager keeps the number it has seen and reports the updates a     *)
(* second later. Either may stop at any time.                              *)
(***************************************************************************)
EXTENDS Naturals, Sequences, FiniteSets, SequencesExt

CONSTANTS
  UpdateOf,   \* UpdateOf[n]: the update (m_UpdateID) that event n tells of
  MaxFaults   \* bounds restarts, broken connections and failures

VARIABLES
  last,       \* mp_LastUpdateSequence
  root,       \* m_LastUpdateSequenceAtCleanup of the AppManager's database
  database,   \* the events in that database
  storing,    \* events that are being written, in order
  stored,     \* events that are written, and not sent yet
  sub,        \* the subscription of the CloudManager
  wire,       \* notifications on their way to the CloudManager
  registered, \* mp_AppManagers has the AppManager
  seen,       \* its m_LastSeenUpdateNotificationSequence
  saved,      \* the same in the database of the CloudManager
  queue,      \* the notifications that wait for mp_ProcessSequencer
  deferred,   \* mp_DeferredUpdates: the updates to report
  sending,    \* the updates fp_SendDeferredNotifications has still to report
  timer,      \* mp_bScheduledDeferredNotifications
  unreported, \* the update with m_bDeferred in the database of the CloudManager
  processed,  \* the events the CloudManager has stored
  reported,   \* those followed by a report of their update
  dropped,    \* those whose report was given up
  excused,    \* events overtaken by later ones, failed, or cleaned away
  since,      \* those of them it had when the CloudManager subscribed to what follows
  written,    \* the events the AppManager has stored
  cleared,    \* a user has cleared the stored events
  faults

vars == <<last, root, database, storing, stored, sub, wire, registered, seen, saved, queue,
          deferred, sending, timer, unreported, processed, reported, dropped, excused,
          since, written, cleared, faults>>
store == <<last, root, database, storing, stored, written, cleared>>
cloud == <<registered, seen, saved, queue, deferred, sending, timer, unreported>>
history == <<processed, reported, dropped, excused, since>>

Event == DOMAIN UpdateOf
Updates == {UpdateOf[n] : n \in Event}
Never == Len(UpdateOf) + 1      \* mc_Max: no event has been seen
None == "none"
EventsOf(u) == {n \in Event : UpdateOf[n] = u}

(* sub.from: _LastSeenNotification. replay: fp_SendMissedUpdateNotifications waits to
   read, has events to send, or waits for the answer to one. missed: those it has still to
   send, the oldest first. queue: what waits for m_Sequencer. *)
NoSubscription == [on |-> FALSE, finished |-> FALSE, from |-> Never,
                   replay |-> "no", missed |-> {}, queue |-> <<>>]
Notification(n, r) == [event |-> n, replayed |-> r]
Spend == faults < MaxFaults /\ faults' = faults + 1

Init ==
  /\ last = 0 /\ root = 0 /\ database = {}
  /\ storing = <<>> /\ stored = <<>> /\ written = {} /\ cleared = FALSE
  /\ sub = NoSubscription /\ wire = <<>>
  /\ registered = FALSE /\ seen = Never /\ saved = Never
  /\ queue = <<>> /\ deferred = {} /\ sending = {} /\ timer = FALSE /\ unreported = None
  /\ processed = {} /\ reported = {} /\ dropped = {} /\ excused = {}
  /\ since = {} /\ faults = 0

-----------------------------------------------------------------------------
(* fp_StoreUpdateNotification *)
NewEvent ==
  /\ last + 1 \in Event
  /\ last' = last + 1
  /\ storing' = Append(storing, last + 1)
  /\ UNCHANGED <<root, database, stored, written, cleared, sub, wire, cloud, history, faults>>

Stored ==
  /\ storing # <<>>
  /\ storing' = Tail(storing)
  /\ database' = database \cup {Head(storing)}
  /\ stored' = Append(stored, Head(storing))
  /\ written' = written \cup {Head(storing)}
  /\ UNCHANGED <<last, root, cleared, sub, wire, cloud, history, faults>>

(* An event that could not be stored is not sent. *)
StoreFails ==
  /\ storing # <<>> /\ Spend
  /\ storing' = Tail(storing)
  /\ excused' = excused \cup {Head(storing)}
  /\ UNCHANGED <<last, root, database, stored, written, cleared, sub, wire, cloud,
                 processed, reported, dropped, since>>

(* Mistake: an event does not wait for those the subscription has missed. *)
MistakeSendEvent ==
  /\ stored # <<>>
  /\ stored' = Tail(stored)
  /\ wire' = IF sub.on THEN Append(wire, Notification(Head(stored), FALSE)) ELSE wire
  /\ UNCHANGED <<last, root, database, storing, written, cleared, sub, cloud, history, faults>>
(* fp_SendUpdateNotifications: an event waits for the sequencer as long as
   m_bInitialFinished is not set, and overtakes those that still wait then. *)
SendEvent ==
  /\ stored # <<>>
  /\ stored' = Tail(stored)
  /\ IF sub.on /\ ~sub.finished
     THEN sub' = [sub EXCEPT !.queue = Append(@, Head(stored))] /\ UNCHANGED <<wire, excused>>
     ELSE /\ wire' = IF sub.on THEN Append(wire, Notification(Head(stored), FALSE)) ELSE wire
          /\ excused' = excused \cup ToSet(sub.queue)
          /\ UNCHANGED sub
  /\ UNCHANGED <<last, root, database, storing, written, cleared, cloud,
                 processed, reported, dropped, since, faults>>

(* f_RegisterAppManager, with f_SubscribeUpdateNotifications. The subscription of an
   earlier registration ends: what it still sends is not of this m_RegisterSequence.
   Events that wait for mp_ProcessSequencer stay. *)
Register ==
  /\ ~sub.on
  /\ LET known == IF registered THEN seen ELSE saved
     IN /\ seen' = known /\ saved' = known
        /\ sub' = [NoSubscription EXCEPT !.on = TRUE, !.finished = known = Never,
                     !.from = known, !.replay = IF known = Never THEN "no" ELSE "reading"]
        /\ since' = IF known = Never THEN written ELSE since
  /\ registered' = TRUE
  /\ wire' = <<>>
  /\ UNCHANGED <<store, queue, deferred, sending, timer, unreported, processed, reported,
                 dropped, excused, faults>>

(* fp_SendMissedUpdateNotifications, which sends one event after the answer to the
   one before it. *)
Missed == {n \in database : n > sub.from}
ReplayRead ==
  /\ sub.replay = "reading"
  /\ sub' = [sub EXCEPT !.replay = "sending", !.missed = Missed]
  /\ UNCHANGED <<store, wire, cloud, history, faults>>
ReplaySend ==
  /\ sub.replay = "sending"
  /\ \E n \in sub.missed :
       /\ \A m \in sub.missed : n <= m
       /\ sub' = [sub EXCEPT !.replay = "waiting", !.missed = @ \ {n}]
       /\ wire' = Append(wire, Notification(n, TRUE))
  /\ UNCHANGED <<store, cloud, history, faults>>
ReplayEnds ==
  /\ sub.replay = "sending" /\ sub.missed = {}
  /\ sub' = [sub EXCEPT !.replay = "no", !.finished = TRUE]
  /\ UNCHANGED <<store, wire, cloud, history, faults>>
(* An answer that does not come within 60 seconds ends it the same way; there is at
   most one such answer for a connection, so no budget bounds it. *)
ReplayFails ==
  /\ sub.replay = "waiting"
  /\ sub' = [sub EXCEPT !.replay = "no", !.finished = TRUE, !.missed = {}]
  /\ excused' = excused \cup sub.missed
  /\ UNCHANGED <<store, wire, cloud, processed, reported, dropped, since, faults>>

(* A live event has waited for the sequencer. *)
QueuedSent ==
  /\ sub.replay = "no" /\ sub.queue # <<>>
  /\ sub' = [sub EXCEPT !.queue = Tail(@)]
  /\ wire' = Append(wire, Notification(Head(sub.queue), FALSE))
  /\ UNCHANGED <<store, cloud, history, faults>>

-----------------------------------------------------------------------------
(* The functor of the CloudManager, and f_ProcessApplicationUpdateNotification until
   it waits for its turn. A subscription ends before its registration does. *)
Receive ==
  /\ wire # <<>>
  /\ wire' = Tail(wire)
  /\ queue' = Append(queue, Head(wire))
  /\ UNCHANGED <<store, sub, registered, seen, saved, deferred, sending, timer, unreported,
                 history, faults>>
Answered(note) == IF note.replayed /\ sub.replay = "waiting"
                  THEN sub' = [sub EXCEPT !.replay = "sending"] ELSE UNCHANGED sub

(* fp_ReportApplicationUpdateToSlack: nothing is reported of an AppManager that is not
   registered. The update is no longer deferred in the database then, if it is still
   the one in it. *)
Report(u) ==
  /\ IF registered
     THEN /\ reported' = reported \cup (processed \cap EventsOf(u))
          /\ unreported' = IF unreported = u THEN None ELSE unreported
          /\ UNCHANGED dropped
     ELSE /\ dropped' = dropped \cup (processed \cap EventsOf(u))
          /\ UNCHANGED <<reported, unreported>>

(* The sequencer is free, and the oldest notification has its turn. Deferred reports
   of other updates go first. *)
Turn == queue # <<>> /\ sending = {}
Others == deferred \ {UpdateOf[Head(queue).event]}
Flush ==
  /\ Turn
  /\ \E u \in Others :
       /\ UpdateOf[Head(queue).event] \notin deferred
       /\ deferred' = deferred \ {u}
       /\ Report(u)
  /\ UNCHANGED <<store, sub, wire, registered, seen, saved, queue, sending, timer,
                 processed, excused, since, faults>>

(* The event and its number are written in one transaction. *)
Process ==
  /\ Turn /\ (UpdateOf[Head(queue).event] \in deferred \/ deferred = {})
  /\ LET n == Head(queue).event IN
       /\ seen' = IF registered THEN n ELSE seen
       /\ saved' = IF registered THEN n ELSE saved
       /\ processed' = processed \cup {n}
       /\ reported' = reported \ {n}
       /\ unreported' = UpdateOf[n]
       /\ deferred' = deferred \cup {UpdateOf[n]}
  /\ timer' = TRUE
  /\ queue' = Tail(queue)
  /\ Answered(Head(queue))
  /\ UNCHANGED <<store, wire, registered, sending, dropped, excused, since, faults>>

(* m_LastSeenUpdateNotificationSequence is set, and the write fails. Its error is the
   answer to the notification, and ends the replay with what it has still to send. *)
WriteFails ==
  /\ Turn /\ (UpdateOf[Head(queue).event] \in deferred \/ deferred = {}) /\ Spend
  /\ seen' = IF registered THEN Head(queue).event ELSE seen
  /\ queue' = Tail(queue)
  /\ IF Head(queue).replayed /\ sub.replay = "waiting"
     THEN /\ sub' = [sub EXCEPT !.replay = "no", !.finished = TRUE, !.missed = {}]
          /\ excused' = excused \cup {Head(queue).event} \cup sub.missed
     ELSE /\ excused' = excused \cup {Head(queue).event}
          /\ UNCHANGED sub
  /\ UNCHANGED <<store, wire, registered, saved, deferred, sending, timer, unreported,
                 processed, reported, dropped, since>>

(* A second after fp_ScheduleDeferredNotifications, fp_SendDeferredNotifications takes
   what is deferred when it has its turn. *)
TimerFires ==
  /\ timer /\ sending = {}
  /\ timer' = FALSE
  /\ sending' = deferred /\ deferred' = {}
  /\ UNCHANGED <<store, sub, wire, registered, seen, saved, queue, unreported, history, faults>>
ReportDeferred ==
  /\ \E u \in sending : sending' = sending \ {u} /\ Report(u)
  /\ UNCHANGED <<store, sub, wire, registered, seen, saved, queue, deferred, timer,
                 processed, excused, since, faults>>
(* Slack does not answer, and the reports that follow are not sent either. *)
ReportFails ==
  /\ sending # {} /\ Spend
  /\ sending' = {}
  /\ dropped' = dropped \cup {n \in processed : UpdateOf[n] \in sending}
  /\ UNCHANGED <<store, sub, wire, registered, seen, saved, queue, deferred, timer,
                 unreported, processed, reported, excused, since>>

-----------------------------------------------------------------------------
(* The connection breaks: the AppManager drops the subscription at once, and the
   CloudManager the registration, with what it has seen (CAppManagerState::f_Destroy),
   now or later. *)
Disconnect ==
  /\ sub.on /\ Spend
  /\ sub' = NoSubscription
  /\ wire' = <<>>
  /\ UNCHANGED <<store, cloud, history>>
Unregister ==
  /\ ~sub.on /\ registered
  /\ registered' = FALSE
  /\ saved' = seen
  /\ UNCHANGED <<store, sub, wire, seen, queue, deferred, sending, timer, unreported,
                 history, faults>>

(* Mistake: what is deferred is read, and no timer is started for it. *)
MistakeRestartCloudManager ==
  /\ Spend
  /\ registered' = FALSE /\ seen' = Never
  /\ sub' = NoSubscription /\ wire' = <<>>
  /\ queue' = <<>> /\ sending' = {}
  /\ deferred' = {unreported} \ {None}
  /\ timer' = FALSE
  /\ UNCHANGED <<store, saved, unreported, history>>
(* The CloudManager stops, and CUpdateNotifications::f_Init reads what is deferred. *)
RestartCloudManager ==
  /\ Spend
  /\ registered' = FALSE /\ seen' = Never
  /\ sub' = NoSubscription /\ wire' = <<>>
  /\ queue' = <<>> /\ sending' = {}
  /\ deferred' = {unreported} \ {None}
  /\ timer' = (unreported # None)
  /\ UNCHANGED <<store, saved, unreported, history>>

(* The AppManager stops, and fp_SetupDatabase finds the last number. *)
RestartAppManager ==
  /\ Spend
  /\ \E n \in database \cup {root} :
       /\ \A k \in database \cup {root} : k <= n
       /\ last' = n
  /\ storing' = <<>> /\ stored' = <<>>
  /\ sub' = NoSubscription /\ wire' = <<>>
  /\ UNCHANGED <<root, database, written, cleared, cloud, history>>

(* fp_CleanupDatabase removes the oldest events, and keeps the last number. *)
MistakeCleanup ==
  /\ \E k \in database :
       /\ database' = {n \in database : n > k}
       /\ excused' = excused \cup {n \in database : n <= k}
  /\ UNCHANGED <<last, root, storing, stored, written, cleared, sub, wire, cloud,
                 processed, reported, dropped, since, faults>>
Cleanup ==
  /\ \E k \in database :
       /\ database' = {n \in database : n > k}
       /\ excused' = excused \cup {n \in database : n <= k}
  /\ root' = last
  /\ UNCHANGED <<last, storing, stored, written, cleared, sub, wire, cloud,
                 processed, reported, dropped, since, faults>>

(* fp_CommandLine_StoredUpdateNotificationClear keeps no number. *)
Clear ==
  /\ database # {} /\ Spend
  /\ database' = {}
  /\ excused' = excused \cup database
  /\ cleared' = TRUE
  /\ UNCHANGED <<last, root, storing, stored, written, sub, wire, cloud,
                 processed, reported, dropped, since>>

(* What the two do by themselves. *)
Progress ==
  \/ Stored \/ SendEvent \/ Register \/ ReplayRead \/ ReplaySend \/ ReplayEnds \/ QueuedSent
  \/ Receive \/ Flush \/ Process \/ TimerFires \/ ReportDeferred \/ Unregister

Next ==
  \/ Progress
  \/ NewEvent \/ StoreFails \/ ReplayFails \/ WriteFails \/ ReportFails
  \/ Disconnect \/ RestartCloudManager \/ RestartAppManager \/ Cleanup \/ Clear

Spec == Init /\ [][Next]_vars
FairSpec == Spec /\ WF_vars(Progress)

-----------------------------------------------------------------------------
TypeOK ==
  /\ last \in 0..Len(UpdateOf) /\ root \in 0..Len(UpdateOf)
  /\ written \subseteq Event /\ since \subseteq Event
  /\ database \subseteq Event /\ storing \in Seq(Event) /\ stored \in Seq(Event)
  /\ sub \in [on : BOOLEAN, finished : BOOLEAN, from : 0..Never,
              replay : {"no", "reading", "sending", "waiting"},
              missed : SUBSET Event, queue : Seq(Event)]
  /\ wire \in Seq([event : Event, replayed : BOOLEAN])
  /\ queue \in Seq([event : Event, replayed : BOOLEAN])
  /\ registered \in BOOLEAN /\ seen \in 0..Never /\ saved \in 0..Never
  /\ deferred \subseteq Updates /\ sending \subseteq Updates /\ timer \in BOOLEAN
  /\ unreported \in Updates \cup {None}
  /\ processed \subseteq Event /\ reported \subseteq Event /\ dropped \subseteq Event
  /\ excused \subseteq Event
  /\ cleared \in BOOLEAN

(* The CloudManager never counts an event as seen that it has not stored, from its
   first subscription on: whatever it has missed lies after the number it subscribes
   with next. Left out are the events that failed, those behind a failed one in a replay,
   those cleaned away or overtaken when a replay had just ended, and numbers that are
   used again after the stored events were cleared. *)
NoEventLost ==
  saved # Never /\ ~cleared =>
    \A n \in written \ since : n <= saved => n \in processed \cup excused

(* A number is never given to a second event: through cleanups and restarts the
   AppManager counts on from the highest one it has stored. *)
NumbersAreNotReused == cleared \/ \A n \in written : n <= last

(* After an event has been stored by the CloudManager its update is reported, also
   when the CloudManager stops in between; only reports that fail, or that come when
   the AppManager is not registered, are given up. *)
EventsAreReported ==
  []<>(processed \subseteq reported \cup dropped)
=============================================================================
