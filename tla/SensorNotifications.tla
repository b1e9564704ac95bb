-------------------------- MODULE SensorNotifications --------------------------
(***************************************************************************)
(* CloudManager's notifications about sensors (CSensorNotifications).      *)
(* Readings and changed sensor infos ask for an update, at once for an     *)
(* error and otherwise out of band after gc_MinProblemUpdateTime; the      *)
(* monitor asks every minute.  An update looks at one sensor after the     *)
(* other, which awaits a read of the database each time, then posts what   *)
(* was resolved, what was a problem only for a moment and what is a        *)
(* problem, and saves the states.  While one runs, other requests only     *)
(* leave a note that another is needed.                                    *)
(*                                                                         *)
(* Slack is one channel and keeps, of all messages, what the last one says *)
(* of the sensors that have a problem.  A post, a read or a write of the   *)
(* database may fail and the CloudManager may crash.  Alerts, the wording, *)
(* readings that become outdated, sensors and hosts that are removed and   *)
(* the limit of ten attachments, beyond which a message only counts, are   *)
(* left out.                                                               *)
(***************************************************************************)
EXTENDS Integers, FiniteSets

CONSTANTS
  Sensor,      \* the keys of mp_SensorStatuses
  MaxEvents    \* bound: readings, snoozes, failures and crashes

VARIABLES
  severity,    \* m_LastReading: 0 ok, 1 a warning, 2 an error
  snoozed,     \* m_Info says that the sensor is snoozed or paused
  lasting,     \* m_ProblemStopwatch is at gc_ProblemTemporaryTime
  state,       \* m_State: inProblem, reporting, lasted
  updates,     \* mp_bSensorsUpdating, mp_bSensorsReschedule,
               \* mp_bOutOfBandSensorsUpdateScheduled
  waiting,     \* forced updates in mp_UpdateSequencer
  update,      \* the running update's locals
  sent,        \* mp_LastSentProblemMessage: its problems, and its broadcast
  thread,      \* m_SensorProblemsSlackThread has a timestamp
  shown,       \* Slack: the problems of the last message
  silent,      \* ghost: Slack was left with a message that is not true
  saved,       \* the database: the states and the thread
  subscribed,  \* mp_bSubscribedToSensors
  spent        \* events so far

vars == <<severity, snoozed, lasting, state, updates, waiting, update, sent,
          thread, shown, silent, saved, subscribed, spent>>

sensing == <<severity, snoozed, lasting>>
slack == <<sent, thread, shown, silent>>

States == [inProblem : BOOLEAN, reporting : BOOLEAN, lasted : BOOLEAN]

Healthy == [inProblem |-> FALSE, reporting |-> FALSE, lasted |-> FALSE]

Idle == [stage |-> "idle", left |-> {}, fixed |-> {}, temporary |-> {},
         problems |-> {}, again |-> FALSE]

NothingSent == [problems |-> {}, broadcast |-> FALSE]

TypeOK ==
  /\ severity \in [Sensor -> 0 .. 2]
  /\ snoozed \in [Sensor -> BOOLEAN]
  /\ lasting \in [Sensor -> BOOLEAN]
  /\ state \in [Sensor -> States]
  /\ updates \in [updating : BOOLEAN, reschedule : BOOLEAN,
                  scheduled : BOOLEAN]
  /\ waiting \in Nat
  /\ update.stage \in {"idle", "look", "fixed", "temporary", "problems",
                       "save"}
  /\ {update.left, update.fixed, update.temporary, update.problems}
       \subseteq SUBSET Sensor
  /\ sent \in [problems : SUBSET Sensor, broadcast : BOOLEAN]
  /\ shown \subseteq Sensor
  /\ {update.again, thread, silent, subscribed} \subseteq BOOLEAN
  /\ saved \in [state : [Sensor -> States], thread : BOOLEAN]
  /\ spent \in 0 .. MaxEvents

Init ==
  /\ severity = [s \in Sensor |-> 0]
  /\ snoozed = [s \in Sensor |-> FALSE]
  /\ lasting = [s \in Sensor |-> FALSE]
  /\ state = [s \in Sensor |-> Healthy]
  /\ updates = [updating |-> FALSE, reschedule |-> FALSE, scheduled |-> FALSE]
  /\ waiting = 0
  /\ update = Idle
  /\ sent = NothingSent
  /\ thread = FALSE
  /\ shown = {}
  /\ silent = FALSE
  /\ saved = [state |-> state, thread |-> FALSE]
  /\ subscribed = FALSE
  /\ spent = 0

Spend ==
  /\ spent < MaxEvents
  /\ spent' = spent + 1

------------------------------------------------------------------------------

\* MISTAKE, for the mutants: nothing is noted while an update runs.
MistakeScheduled(u) ==
  IF u.updating THEN u ELSE [u EXCEPT !.scheduled = TRUE]

\* fp_SchedulePeriodicSensorNotificationsOutOfBand without force: the flags
\* it leaves.  While an update runs only the note is left.
Scheduled(u) ==
  IF u.updating
  THEN [u EXCEPT !.reschedule = TRUE]
  ELSE [u EXCEPT !.scheduled = TRUE]

\* fp_UpdateSensorFromReading: an error of a sensor that is not in the
\* problem state yet starts an update at once, any other changed status one
\* out of band.  Before mp_bSubscribedToSensors the reading is only kept.
Reading(s, value) ==
  /\ Spend
  /\ value # severity[s]
  /\ severity' = [severity EXCEPT ![s] = value]
  /\ LET forced == value = 2 /\ ~state[s].inProblem /\ ~updates.updating
     IN  /\ waiting' = IF subscribed /\ forced THEN waiting + 1 ELSE waiting
         /\ updates' = IF subscribed /\ ~forced THEN Scheduled(updates)
                                               ELSE updates
  /\ UNCHANGED <<snoozed, lasting, state, update, slack, saved, subscribed>>

\* The sensor's info changes: it is snoozed or paused for a time, or that
\* ends by a command.
Snooze(s) ==
  /\ Spend
  /\ snoozed' = [snoozed EXCEPT ![s] = ~snoozed[s]]
  /\ updates' = IF subscribed THEN Scheduled(updates) ELSE updates
  /\ UNCHANGED <<severity, lasting, state, waiting, update, slack, saved,
                 subscribed>>

\* Time passes: a problem has lasted gc_ProblemTemporaryTime.
Last(s) ==
  /\ state[s].inProblem
  /\ ~lasting[s]
  /\ lasting' = [lasting EXCEPT ![s] = TRUE]
  /\ UNCHANGED <<severity, snoozed, state, updates, waiting, update, slack,
                 saved, subscribed, spent>>

\* Two seconds after f_Init the statuses start to count.
StartReporting ==
  /\ ~subscribed
  /\ subscribed' = TRUE
  /\ updates' = Scheduled(updates)
  /\ UNCHANGED <<sensing, state, waiting, update, slack, saved, spent>>

\* f_UpdatePeriodicSensorNotifications without force: from the timeout of
\* the schedule, or from the monitor.
Requested(u) ==
  IF u.updating
  THEN /\ updates' = [u EXCEPT !.reschedule = TRUE]
       /\ UNCHANGED waiting
  ELSE /\ updates' = u
       /\ waiting' = waiting + 1

OutOfBand ==
  /\ updates.scheduled
  /\ Requested([updates EXCEPT !.scheduled = FALSE])
  /\ UNCHANGED <<sensing, state, update, slack, saved, subscribed, spent>>

MonitorTimer ==
  /\ subscribed
  /\ waiting = 0
  /\ Requested(updates)
  /\ UNCHANGED <<sensing, state, update, slack, saved, subscribed, spent>>

\* The update's turn in mp_UpdateSequencer.
BeginUpdate ==
  /\ waiting > 0
  /\ update.stage = "idle"
  /\ waiting' = waiting - 1
  /\ updates' = [updates EXCEPT !.updating = TRUE]
  /\ update' = [Idle EXCEPT !.stage = "look", !.left = Sensor]
  /\ UNCHANGED <<sensing, state, slack, saved, subscribed, spent>>

\* The sensor's m_State after an update has looked at it.
Looked(s) ==
  LET bad == severity[s] > 0
      was == state[s]
      lasted == IF bad THEN was.inProblem /\ lasting[s]
                ELSE IF was.inProblem THEN lasting[s] ELSE was.lasted
  IN  [inProblem |-> bad, reporting |-> bad /\ ~snoozed[s], lasted |-> lasted]

\* What the loop does with one sensor.
Look(s) ==
  /\ update.stage = "look"
  /\ s \in update.left
  /\ LET is == Looked(s)
         over == state[s].reporting /\ ~is.reporting
         With(names, holds) == IF holds THEN names \union {s} ELSE names
     IN  /\ state' = [state EXCEPT ![s] = is]
         /\ lasting' = [lasting EXCEPT ![s] =
                          @ /\ state[s].inProblem /\ is.inProblem]
         /\ update' = [update EXCEPT
              !.left = @ \ {s},
              !.fixed = With(@, over /\ is.lasted),
              !.temporary = With(@, over /\ ~is.lasted),
              !.problems = With(@, is.reporting /\ is.lasted),
              !.again = @ \/ (is.reporting /\ ~is.lasted)]
  /\ UNCHANGED <<severity, snoozed, updates, waiting, slack, saved,
                 subscribed, spent>>

\* The flags when the update's scope ends.
Ended(u) ==
  LET ended == [u EXCEPT !.updating = FALSE, !.reschedule = FALSE]
  IN  IF u.reschedule THEN Scheduled(ended) ELSE ended

\* Opening or reading the database fails, which ends the update: what it
\* has found in the sensors it has looked at is not posted.
LookFails ==
  /\ Spend
  /\ update.stage = "look"
  /\ update.left # {}
  /\ updates' = Ended(updates)
  /\ update' = Idle
  /\ silent' = TRUE
  /\ UNCHANGED <<sensing, state, waiting, sent, thread, shown, saved,
                 subscribed>>

EndLook ==
  /\ update.stage = "look"
  /\ update.left = {}
  /\ update' = [update EXCEPT !.stage = "fixed"]
  /\ UNCHANGED <<sensing, state, updates, waiting, slack, saved, subscribed,
                 spent>>

------------------------------------------------------------------------------

\* f_PostSlackMessage with the thread moved out of the global state: the
\* thread is known afterwards only when Slack took the message.
Posted ==
  \/ /\ thread' = TRUE
     /\ UNCHANGED spent
  \/ /\ Spend
     /\ thread' = FALSE

Go(stage) ==
  /\ update' = [update EXCEPT !.stage = stage]
  /\ UNCHANGED <<sensing, state, updates, waiting, saved, subscribed>>

\* What was resolved.  With a thread its message is replaced.
PostFixed ==
  /\ update.stage = "fixed"
  /\ IF update.fixed = {}
     THEN UNCHANGED <<thread, shown, spent>>
     ELSE /\ Posted
          /\ shown' = IF thread /\ thread' THEN {} ELSE shown
  /\ UNCHANGED <<sent, silent>>
  /\ Go("temporary")

\* A message of its own; whether it arrives changes nothing else.
PostTemporary ==
  /\ update.stage = "temporary"
  /\ UNCHANGED <<slack, spent>>
  /\ Go("problems")

\* What is a problem, unless the same message was the last one sent; or that
\* everything is resolved; or the thread is closed.
PostProblems ==
  /\ update.stage = "problems"
  /\ LET message == [problems |-> update.problems,
                     broadcast |-> update.fixed # {}]
         allResolved == update.problems = {} /\ update.fixed # {}
     IN  \/ /\ update.problems # {}
            /\ message # sent
            /\ sent' = message
            /\ Posted
            /\ shown' = IF thread' THEN update.problems ELSE shown
            /\ silent' = ~thread'
         \/ /\ update.problems # {}
            /\ message = sent
            /\ silent' = (silent \/ shown # update.problems)
            /\ UNCHANGED <<sent, thread, shown, spent>>
         \/ /\ allResolved
            /\ sent' = NothingSent
            /\ thread' = FALSE
            /\ \/ /\ shown' = {}
                  /\ silent' = FALSE
                  /\ UNCHANGED spent
               \/ /\ Spend
                  /\ silent' = TRUE
                  /\ UNCHANGED shown
         \/ /\ update.problems = {} /\ ~allResolved
            /\ thread' = FALSE
            /\ UNCHANGED <<sent, shown, silent, spent>>
  /\ Go("save")

\* The states and the thread are written; then, as a problem that is too new
\* asks for another update while this one still counts as running, the note
\* is honoured at the end of the scope.
Save ==
  /\ update.stage = "save"
  /\ saved' = [state |-> state, thread |-> thread]
  /\ updates' = Ended(IF update.again THEN Scheduled(updates) ELSE updates)
  /\ update' = Idle
  /\ UNCHANGED <<sensing, state, waiting, slack, subscribed, spent>>

\* The write fails, and the update ends before it asks for another one.
SaveFails ==
  /\ Spend
  /\ update.stage = "save"
  /\ updates' = Ended(updates)
  /\ update' = Idle
  /\ silent' = (silent \/ update.again)
  /\ UNCHANGED <<sensing, state, waiting, sent, thread, shown, saved,
                 subscribed>>

\* The CloudManager crashes and starts again with what was saved and the
\* readings its sensor store has.  If an update was running, or the last one
\* could not save, Slack may show what nobody remembers.
CrashAndRestart ==
  /\ Spend
  /\ state' = saved.state
  /\ lasting' = [s \in Sensor |->
                   saved.state[s].inProblem /\ saved.state[s].lasted]
  /\ thread' = saved.thread
  /\ sent' = NothingSent
  /\ silent' = (silent \/ update.stage # "idle"
                       \/ saved # [state |-> state, thread |-> thread])
  /\ updates' = [updating |-> FALSE, reschedule |-> FALSE, scheduled |-> FALSE]
  /\ waiting' = 0
  /\ update' = Idle
  /\ subscribed' = FALSE
  /\ UNCHANGED <<severity, snoozed, shown, saved>>

Next ==
  \/ \E s \in Sensor :
       \/ \E value \in 0 .. 2 : Reading(s, value)
       \/ Snooze(s) \/ Last(s) \/ Look(s)
  \/ StartReporting \/ OutOfBand \/ MonitorTimer \/ BeginUpdate \/ EndLook
  \/ PostFixed \/ PostTemporary \/ PostProblems \/ Save
  \/ LookFails \/ SaveFails \/ CrashAndRestart

Spec == Init /\ [][Next]_vars

------------------------------------------------------------------------------

Quiet ==
  /\ subscribed
  /\ update.stage = "idle"
  /\ waiting = 0
  /\ ~updates.scheduled

\* When nothing runs or is scheduled, Slack shows exactly the sensors whose
\* reading is a warning or an error and that are not snoozed: no reading or
\* snooze that arrives while an update runs is lost.  The exceptions, silent,
\* last until a later message is taken: a post that failed, which is
\* remembered as sent; a resolved message that replaced the problems when
\* they are then not sent again; an update that could not read the database,
\* which leaves what it found unsaid, or that could not write it, which does
\* not come back to a problem that was too new; and a crash within an update
\* or after one that could not save.
SlackShowsProblems ==
  Quiet /\ ~silent =>
    shown = {s \in Sensor : severity[s] > 0 /\ ~snoozed[s]}

==============================================================================
