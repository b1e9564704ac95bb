---------------------------- MODULE LogNotifications ----------------------------
(***************************************************************************)
(* CloudManager's notifications about log entries (CLogNotifications).     *)
(* The log store hands every entry since the saved timestamp to the        *)
(* subscription; those that match an alert wait in m_QueuedEntries, and    *)
(* gc_LogAggregationTime later they are posted together.  Afterwards the   *)
(* timestamp of the last entry seen is saved, from which a restarted       *)
(* CloudManager subscribes again.  Entries of the store are numbered by    *)
(* their timestamps and arrive in that order; alerts are one filter that   *)
(* every entry but the first passes.  A message that has an entry counts   *)
(* as posting it: of more than ten attachments it only counts the rest.    *)
(***************************************************************************)
EXTENDS Integers, FiniteSets

CONSTANTS
  MaxEntries,  \* bound: entries in the log store
  MaxFaults    \* bound: failed posts and writes, and crashes

VARIABLES
  stored,     \* the log store: the last entry
  delivered,  \* the subscription: the last entry handed over
  queued,     \* m_QueuedEntries
  sending,    \* fp_SendSlackNotifications: its stage and its entries
  flags,      \* mp_bSlackNotificationsScheduled,
              \* mp_bRescheduleSlackNotifications
  lastSeen,   \* mp_LastSeenTimestamp
  global,     \* mp_GlobalState.m_LastSeenLogTimestamp
  saved,      \* the same in the database
  posted,     \* Slack: the entries of all messages
  lost,       \* ghost: entries a fault is known to lose
  faults      \* faults so far

vars == <<stored, delivered, queued, sending, flags, lastSeen, global, saved,
          posted, lost, faults>>

seen == <<lastSeen, global, saved>>

Entry == 1 .. MaxEntries

Matches(e) == e > 1

Unsent == [stage |-> "idle", entries |-> {}]

Unscheduled == [scheduled |-> FALSE, reschedule |-> FALSE]

TypeOK ==
  /\ {stored, delivered, lastSeen, global, saved} \subseteq 0 .. MaxEntries
  /\ {queued, posted, lost, sending.entries} \subseteq SUBSET Entry
  /\ sending.stage \in {"idle", "post", "save"}
  /\ flags \in [scheduled : BOOLEAN, reschedule : BOOLEAN]
  /\ faults \in 0 .. MaxFaults

Init ==
  /\ stored = 0
  /\ delivered = 0
  /\ queued = {}
  /\ sending = Unsent
  /\ flags = Unscheduled
  /\ lastSeen = 0 /\ global = 0 /\ saved = 0
  /\ posted = {}
  /\ lost = {}
  /\ faults = 0

\* MISTAKE, for the mutants: an entry that arrives during a post is queued
\* but nothing is noted.
MistakeSchedule(f) ==
  IF sending.stage # "idle" THEN f ELSE [f EXCEPT !.scheduled = TRUE]

\* fp_ScheduleSlackNotification.
Schedule(f) ==
  IF sending.stage # "idle" THEN [f EXCEPT !.reschedule = TRUE]
  ELSE [f EXCEPT !.scheduled = TRUE]

\* Somebody logs.
Log ==
  /\ stored < MaxEntries
  /\ stored' = stored + 1
  /\ UNCHANGED <<delivered, queued, sending, flags, seen, posted, lost, faults>>

\* m_fOnEntry: the entry counts as seen at once, also when it waits.
OnEntry ==
  /\ delivered < stored
  /\ LET entry == delivered + 1
     IN  /\ delivered' = entry
         /\ lastSeen' = IF entry > lastSeen THEN entry ELSE lastSeen
         /\ queued' = IF Matches(entry) THEN queued \union {entry} ELSE queued
         /\ flags' = IF Matches(entry) THEN Schedule(flags) ELSE flags
  /\ UNCHANGED <<stored, sending, global, saved, posted, lost, faults>>

\* The last seen sentinel also asks for a run, so that the timestamp of
\* entries that match nothing is saved.
OnSentinel ==
  /\ delivered = stored
  /\ lastSeen # global
  /\ flags' = Schedule(flags)
  /\ UNCHANGED <<stored, delivered, queued, sending, seen, posted, lost, faults>>

\* The timeout of the schedule: the queue becomes attachments and is cleared.
Send ==
  /\ flags.scheduled
  /\ sending.stage = "idle"
  /\ flags' = [flags EXCEPT !.scheduled = FALSE]
  /\ sending' = [stage |-> "post", entries |-> queued]
  /\ queued' = {}
  /\ UNCHANGED <<stored, delivered, seen, posted, lost, faults>>

\* f_PostSlackMessage; an error of Slack is logged only.
Post ==
  /\ sending.stage = "post"
  /\ \/ /\ posted' = posted \union sending.entries
        /\ UNCHANGED <<lost, faults>>
     \/ /\ sending.entries # {}
        /\ faults < MaxFaults
        /\ faults' = faults + 1
        /\ lost' = lost \union sending.entries
        /\ UNCHANGED posted
  /\ global' = lastSeen
  /\ sending' = [sending EXCEPT !.stage = "save"]
  /\ UNCHANGED <<stored, delivered, queued, flags, lastSeen, saved>>

\* fp_SaveGlobalStateWithoutTransaction, an error of which is logged only,
\* and the end of the scope.
Save ==
  /\ sending.stage = "save"
  /\ \/ /\ saved' = global
        /\ UNCHANGED faults
     \/ /\ faults < MaxFaults
        /\ faults' = faults + 1
        /\ UNCHANGED saved
  /\ sending' = Unsent
  /\ flags' = [scheduled |-> flags.scheduled \/ flags.reschedule,
               reschedule |-> FALSE]
  /\ UNCHANGED <<stored, delivered, queued, lastSeen, global, posted, lost>>

\* f_Init after a crash: the filter's m_MinTimestamp is what was saved, and
\* an entry of that very time comes again.  Entries that were not posted and
\* are older than that never come.
CrashAndRestart ==
  /\ faults < MaxFaults
  /\ faults' = faults + 1
  /\ delivered' = IF saved = 0 THEN 0 ELSE saved - 1
  /\ queued' = {}
  /\ sending' = Unsent
  /\ flags' = Unscheduled
  /\ lastSeen' = saved
  /\ global' = saved
  /\ lost' = lost \union {e \in queued \union sending.entries : e < saved}
  /\ UNCHANGED <<stored, saved, posted>>

Next ==
  \/ Log \/ OnEntry \/ OnSentinel \/ Send \/ Post \/ Save \/ CrashAndRestart

Spec == Init /\ [][Next]_vars

\* When nothing is delivered, scheduled or sent any more, Slack has every
\* entry that matches an alert: none is forgotten in the queue while an
\* earlier one is posted, and none is skipped after a restart, also when what
\* was seen could not be saved.  The
\* exceptions, lost, are entries whose post fails, and entries that wait
\* while an earlier post ends, which saves them as seen, when the CloudManager
\* then crashes before their own post.
EveryEntryIsPosted ==
  delivered = stored /\ ~flags.scheduled /\ sending.stage = "idle" =>
    {e \in 1 .. stored : Matches(e)} \ lost \subseteq posted

==============================================================================
