-------------------- MODULE CloudManagerServices_proofs ---------------------
(* The invariants of a CloudManager's components, for every value of the constants: they hold in
   the first states and no step breaks them. *)
EXTENDS CloudManagerServices, FiniteSetTheorems, TLAPS

-----------------------------------------------------------------------------
(* LogNotifications *)

(* LogNotifications: TypeOK without the bounds. *)
LNTypes ==
  /\ stored \in Nat /\ delivered \in Nat
  /\ lastSeen \in Nat /\ global \in Nat /\ lnSaved \in Nat
  /\ queued \in SUBSET Nat /\ posted \in SUBSET Nat /\ lnLost \in SUBSET Nat
  /\ sending \in [stage : {"idle", "post", "save"}, entries : SUBSET Nat]
  /\ lnFlags \in [scheduled : BOOLEAN, reschedule : BOOLEAN]

(* A restart asks again for what was saved, so what is seen can be one ahead of what has
   come since, and never more. *)
LNSeenInOrder ==
  /\ lnSaved <= global /\ global <= lastSeen
  /\ lastSeen <= delivered + 1 /\ lastSeen <= stored /\ delivered <= stored

(* Where an entry can be that has come and matches: in the queue, in a message that is
   being posted, at Slack, or lost. *)
LNPosting == IF sending.stage = "post" THEN sending.entries ELSE {}

LNAccounted ==
  \A e \in Nat : e \in 1 .. delivered /\ LN!Matches(e) =>
    e \in queued \/ e \in LNPosting \/ e \in posted \/ e \in lnLost

(* Entries do not wait for nothing. *)
LNQueueIsScheduled ==
  queued # {} => lnFlags.scheduled \/ (sending.stage # "idle" /\ lnFlags.reschedule)

(* The parts of the invariant together. *)
LNInv == LNTypes /\ LNSeenInOrder /\ LNAccounted /\ LNQueueIsScheduled

(* Scheduling keeps the flags flags, and has a run follow: at once, or after the post that
   is under way. *)
LEMMA LNScheduleNotes ==
  ASSUME LNTypes
  PROVE  /\ LN!Schedule(lnFlags) \in [scheduled : BOOLEAN, reschedule : BOOLEAN]
         /\ LN!Schedule(lnFlags).scheduled
              \/ (sending.stage # "idle" /\ LN!Schedule(lnFlags).reschedule)
  BY DEF LNTypes, LN!Schedule

(* An entry that comes is queued if it matches; no other entry changes its place. *)
LEMMA LNOnEntryStep == LNInv /\ LN!OnEntry => LNInv'
<1> SUFFICES ASSUME LNInv, LN!OnEntry PROVE LNInv'
  OBVIOUS
<1>1. delivered' = delivered + 1 /\ stored' = stored
  BY DEF LN!OnEntry
<1>2. LNTypes'
  BY LNScheduleNotes DEF LNInv, LNTypes, LN!OnEntry
<1>3. LNSeenInOrder'
  BY DEF LNInv, LNTypes, LNSeenInOrder, LN!OnEntry
<1>4. LNAccounted'
  BY <1>1 DEF LNInv, LNTypes, LNAccounted, LNPosting, LN!OnEntry, LN!Matches
<1>5. LNQueueIsScheduled'
  BY LNScheduleNotes DEF LNInv, LNQueueIsScheduled, LN!OnEntry
<1> QED
  BY <1>2, <1>3, <1>4, <1>5 DEF LNInv

(* What is posted comes from the queue and goes to Slack or is lost; what counts as seen
   afterwards has come before. *)
LEMMA LNPostStep == LNInv /\ LN!Post => LNInv'
<1> SUFFICES ASSUME LNInv, LN!Post PROVE LNInv'
  OBVIOUS
<1>1. LNTypes'
  BY DEF LNInv, LNTypes, LN!Post
<1>2. LNSeenInOrder'
  BY DEF LNInv, LNTypes, LNSeenInOrder, LN!Post
<1>3. LNAccounted'
  BY DEF LNInv, LNTypes, LNAccounted, LNPosting, LN!Post, LN!Matches
<1>4. LNQueueIsScheduled'
  BY DEF LNInv, LNTypes, LNQueueIsScheduled, LN!Post
<1> QED
  BY <1>1, <1>2, <1>3, <1>4 DEF LNInv

(* After a crash every entry comes again that is not older than what was saved, and those
   older ones that were queued or being posted are the ones lost. *)
LEMMA LNRestartStep == LNInv /\ LN!CrashAndRestart => LNInv'
<1> SUFFICES ASSUME LNInv, LN!CrashAndRestart PROVE LNInv'
  OBVIOUS
<1>1. delivered' = IF lnSaved = 0 THEN 0 ELSE lnSaved - 1
  BY DEF LN!CrashAndRestart
<1>2. LNTypes'
  <2>1. delivered' \in Nat
    BY <1>1 DEF LNInv, LNTypes
  <2>2. {e \in queued \union sending.entries : e < lnSaved} \in SUBSET Nat
    BY DEF LNInv, LNTypes
  <2>3. lnLost' \in SUBSET Nat
    BY <2>2 DEF LNInv, LNTypes, LN!CrashAndRestart
  <2> QED
    BY <2>1, <2>3 DEF LNInv, LNTypes, LN!CrashAndRestart, LN!Unsent, LN!Unscheduled
<1>3. LNSeenInOrder'
  BY <1>1 DEF LNInv, LNTypes, LNSeenInOrder, LN!CrashAndRestart
<1>4. LNAccounted'
  <2> SUFFICES ASSUME NEW e \in Nat, e \in 1 .. delivered', LN!Matches(e)
               PROVE  e \in posted' \/ e \in lnLost'
    BY DEF LNAccounted
  <2>1. e < lnSaved /\ e \in 1 .. delivered
    BY <1>1 DEF LNInv, LNTypes, LNSeenInOrder
  <2>2. e \in queued \/ e \in sending.entries \/ e \in posted \/ e \in lnLost
    BY <2>1 DEF LNInv, LNAccounted, LNPosting
  <2> QED
    BY <2>1, <2>2 DEF LN!CrashAndRestart
<1>5. LNQueueIsScheduled'
  BY DEF LN!CrashAndRestart, LNQueueIsScheduled
<1> QED
  BY <1>2, <1>3, <1>4, <1>5 DEF LNInv

LEMMA LNInitHolds == LN!Init => LNInv
BY DEF LN!Init, LNInv, LNTypes, LNSeenInOrder, LNAccounted, LNQueueIsScheduled, LN!Unsent,
   LN!Unscheduled

LEMMA LNNextHolds == LNInv /\ LN!Next => LNInv'
<1> SUFFICES ASSUME LNInv, LN!Next PROVE LNInv'
  OBVIOUS
<1>1. CASE LN!Log
  BY <1>1 DEF LN!Log, LN!seen, LNInv, LNTypes, LNSeenInOrder, LNAccounted, LNPosting,
     LN!Matches, LNQueueIsScheduled
<1>2. CASE LN!OnEntry
  BY <1>2, LNOnEntryStep
<1>3. CASE LN!OnSentinel
  BY <1>3, LNScheduleNotes DEF LN!OnSentinel, LN!seen, LNInv, LNTypes, LNSeenInOrder,
     LNAccounted, LNPosting, LN!Matches, LNQueueIsScheduled
<1>4. CASE LN!Send
  BY <1>4 DEF LN!Send, LN!seen, LNInv, LNTypes, LNSeenInOrder, LNAccounted, LNPosting,
     LN!Matches, LNQueueIsScheduled
<1>5. CASE LN!Post
  BY <1>5, LNPostStep
<1>6. CASE LN!Save
  BY <1>6 DEF LN!Save, LN!Unsent, LNInv, LNTypes, LNSeenInOrder, LNAccounted, LNPosting,
     LN!Matches, LNQueueIsScheduled
<1>7. CASE LN!CrashAndRestart
  BY <1>7, LNRestartStep
<1> QED
  BY <1>1, <1>2, <1>3, <1>4, <1>5, <1>6, <1>7 DEF LN!Next

LEMMA LNStays == LNInv /\ UNCHANGED lnVars => LNInv'
BY DEF lnVars, LN!seen, LNInv, LNTypes, LNSeenInOrder, LNAccounted, LNPosting, LN!Matches,
   LNQueueIsScheduled

LEMMA LNHolds == LNInv => LN!EveryEntryIsPosted
BY DEF LNInv, LNTypes, LNAccounted, LNPosting, LNQueueIsScheduled, LN!EveryEntryIsPosted

-----------------------------------------------------------------------------
(* SensorNotifications *)

(* What the sensors, the requests and the running update are. *)
SNStage == {"idle", "look", "fixed", "temporary", "problems", "save"}
SNUpdate == [stage : SNStage, left : SUBSET snSensor, fixed : SUBSET snSensor,
           temporary : SUBSET snSensor, problems : SUBSET snSensor, again : BOOLEAN]
SNTypes ==
  /\ severity \in [snSensor -> 0 .. 2] /\ snoozed \in [snSensor -> BOOLEAN]
  /\ lasting \in [snSensor -> BOOLEAN] /\ snState \in [snSensor -> SN!States]
  /\ updates \in [updating : BOOLEAN, reschedule : BOOLEAN, scheduled : BOOLEAN]
  /\ snWaiting \in Nat /\ update \in SNUpdate
  /\ thread \in BOOLEAN /\ snSilent \in BOOLEAN /\ snSubscribed \in BOOLEAN
  /\ shown \subseteq snSensor /\ snSaved \in [state : [snSensor -> SN!States], thread : BOOLEAN]

(* An update runs while it says so, and past the look it has looked at every sensor. *)
SNUpdatingRuns == updates.updating <=> update.stage # "idle"
SNLookIsOver == update.stage \notin {"idle", "look"} => update.left = {}

(* Only a problem is reported, also in the database, and one that has lasted goes on
   lasting. *)
SNStatesAreSound ==
  \A s \in snSensor :
    /\ snState[s].reporting => snState[s].inProblem
    /\ snState[s].inProblem /\ snState[s].lasted => lasting[s]
    /\ snSaved.state[s].reporting => snSaved.state[s].inProblem

(* An update's problems are what is reported and has lasted, of the sensors it has looked
   at; what is too new asks for another one. *)
SNReports(s) == snState[s].reporting /\ snState[s].lasted
SNProblemsAreReported ==
  update.stage # "idle" => \A s \in snSensor :
    /\ s \in update.problems <=> s \notin update.left /\ SNReports(s)
    /\ s \notin update.left /\ snState[s].reporting /\ ~snState[s].lasted => update.again

(* What Slack shows is still reported as long as an update has found nothing resolved, and
   is what is reported when it has posted. *)
SNShownStays ==
  update.stage \in {"look", "fixed", "temporary", "problems"} /\ ~snSilent /\ update.fixed = {} =>
    \A s \in shown : SNReports(s)
SNShownIsReported ==
  update.stage \in {"idle", "save"} /\ ~snSilent => \A s \in snSensor : s \in shown <=> SNReports(s)

(* Another update is to come, or every sensor that the running one has looked at is as it
   was then; between two updates, unless one has failed, so is every sensor, and what is
   reported has lasted. *)
SNFresh(s) == snState[s].reporting <=> severity[s] > 0 /\ ~snoozed[s]
SNAsked ==
  \/ ~snSubscribed \/ snWaiting > 0 \/ updates.scheduled
  \/ updates.reschedule /\ update.stage # "idle"
SNLookedAreFresh ==
  ~SNAsked => \A s \in snSensor :
    (IF update.stage = "idle" THEN ~snSilent ELSE s \notin update.left) => SNFresh(s)
SNReportedHaveLasted ==
  ~SNAsked /\ update.stage = "idle" /\ ~snSilent =>
    \A s \in snSensor : snState[s].reporting => snState[s].lasted

SNUpdateInv == SNUpdatingRuns /\ SNLookIsOver /\ SNStatesAreSound /\ SNProblemsAreReported
SNSlackInv == SNShownStays /\ SNShownIsReported
SNAskedInv == SNLookedAreFresh /\ SNReportedHaveLasted
SNInv == SNTypes /\ SNUpdateInv /\ SNSlackInv /\ SNAskedInv

-----------------------------------------------------------------------------
LEMMA SNInitHolds ==
  ASSUME SN!Init
  PROVE  SNInv
<1>1. SN!Healthy \in SN!States /\ ~SN!Healthy.reporting /\ ~SN!Healthy.inProblem
  BY DEF SN!Healthy, SN!States
<1>2. \A s \in snSensor : snState[s] = SN!Healthy
  BY DEF SN!Init
<1>3. SN!Idle \in SNUpdate /\ SN!Idle.stage = "idle"
  BY DEF SN!Idle, SNUpdate, SNStage
<1>4. snSaved.state = snState /\ snSaved.thread = FALSE
  BY DEF SN!Init
<1>5. SNTypes
  <2>1. snState \in [snSensor -> SN!States] /\ severity \in [snSensor -> 0 .. 2]
    BY <1>1 DEF SN!Init
  <2>2. snSaved \in [state : [snSensor -> SN!States], thread : BOOLEAN]
    BY <2>1 DEF SN!Init
  <2>3. updates \in [updating : BOOLEAN, reschedule : BOOLEAN, scheduled : BOOLEAN]
    BY DEF SN!Init
  <2>4. /\ snoozed \in [snSensor -> BOOLEAN] /\ lasting \in [snSensor -> BOOLEAN]
             /\ snWaiting \in Nat
        /\ update \in SNUpdate /\ thread \in BOOLEAN /\ snSilent \in BOOLEAN
        /\ snSubscribed \in BOOLEAN /\ shown \subseteq snSensor
    BY <1>3 DEF SN!Init
  <2> QED
    BY <2>1, <2>2, <2>3, <2>4 DEF SNTypes
<1>6. SNUpdateInv
  BY <1>1, <1>2, <1>3, <1>4 DEF SN!Init, SNUpdateInv, SNUpdatingRuns, SNLookIsOver,
     SNStatesAreSound, SNProblemsAreReported
<1>7. SNSlackInv
  BY <1>1, <1>2, <1>3 DEF SN!Init, SNSlackInv, SNShownStays, SNShownIsReported, SNReports
<1>8. SNAskedInv
  BY DEF SN!Init, SNAskedInv, SNLookedAreFresh, SNReportedHaveLasted, SNAsked
<1> QED
  BY <1>5, <1>6, <1>7, <1>8 DEF SNInv

(* A step that leaves the states and the update alone, and after which another update is
   to come. *)
LEMMA SNAskedStep ==
  ASSUME SNInv, SNTypes', UNCHANGED <<lasting, snState, update, snSilent, shown, snSaved>>,
         updates'.updating = updates.updating, SNAsked'
  PROVE  SNInv'
<1>1. SNUpdateInv'
  BY DEF SNInv, SNUpdateInv, SNUpdatingRuns, SNLookIsOver, SNStatesAreSound,
     SNProblemsAreReported, SNReports
<1>2. SNSlackInv'
  BY DEF SNInv, SNSlackInv, SNShownStays, SNShownIsReported, SNReports
<1>3. SNAskedInv'
  BY DEF SNAskedInv, SNLookedAreFresh, SNReportedHaveLasted
<1> QED
  BY <1>1, <1>2, <1>3 DEF SNInv

(* What a request makes of the flags. *)
LEMMA SNScheduledFacts ==
  ASSUME NEW u \in [updating : BOOLEAN, reschedule : BOOLEAN, scheduled : BOOLEAN]
  PROVE  /\ SN!Scheduled(u) \in [updating : BOOLEAN, reschedule : BOOLEAN, scheduled : BOOLEAN]
         /\ SN!Scheduled(u).updating = u.updating
         /\ u.updating => SN!Scheduled(u).reschedule
         /\ ~u.updating => SN!Scheduled(u).scheduled
         /\ u.updating => SN!Scheduled(u).scheduled = u.scheduled
BY DEF SN!Scheduled

LEMMA SNScheduledIsAsked ==
  ASSUME SNTypes, SNUpdatingRuns, UNCHANGED update, updates' = SN!Scheduled(updates)
  PROVE  SNAsked' /\ updates'.updating = updates.updating
BY SNScheduledFacts DEF SNTypes, SNUpdatingRuns, SNAsked

LEMMA SNReadingStep ==
  ASSUME SNInv, NEW s \in snSensor, NEW value \in 0 .. 2, SN!Reading(s, value)
  PROVE  SNInv'
<1>1. /\ UNCHANGED <<lasting, snState, update, snSilent, shown, snSaved, thread, snSubscribed,
                     snoozed>>
      /\ severity' = [severity EXCEPT ![s] = value]
  BY DEF SN!Reading, SN!slack
<1>2. \/ snSubscribed /\ snWaiting' = snWaiting + 1 /\ updates' = updates
      \/ snSubscribed /\ snWaiting' = snWaiting /\ updates' = SN!Scheduled(updates)
      \/ ~snSubscribed /\ snWaiting' = snWaiting /\ updates' = updates
  BY DEF SN!Reading
<1>3. SNTypes'
  BY <1>1, <1>2, SNScheduledFacts DEF SNInv, SNTypes
<1>4. SNAsked' /\ updates'.updating = updates.updating
  <2>1. CASE snWaiting' = snWaiting + 1 /\ updates' = updates
    BY <2>1 DEF SNAsked, SNInv, SNTypes
  <2>2. CASE updates' = SN!Scheduled(updates)
    BY <1>1, <2>2, SNScheduledIsAsked DEF SNInv, SNUpdateInv
  <2>3. CASE ~snSubscribed /\ updates' = updates
    BY <1>1, <2>3 DEF SNAsked
  <2> QED
    BY <1>2, <2>1, <2>2, <2>3
<1> QED
  BY <1>1, <1>3, <1>4, SNAskedStep

LEMMA SNSnoozeStep ==
  ASSUME SNInv, NEW s \in snSensor, SN!Snooze(s)
  PROVE  SNInv'
<1>1. /\ UNCHANGED <<lasting, snState, update, snSilent, shown, snSaved, thread, snSubscribed,
                     severity,
                     snWaiting>>
      /\ snoozed' = [snoozed EXCEPT ![s] = ~snoozed[s]]
  BY DEF SN!Snooze, SN!slack
<1>2. \/ snSubscribed /\ updates' = SN!Scheduled(updates)
      \/ ~snSubscribed /\ updates' = updates
  BY DEF SN!Snooze
<1>3. SNTypes'
  BY <1>1, <1>2, SNScheduledFacts DEF SNInv, SNTypes
<1>4. SNAsked' /\ updates'.updating = updates.updating
  <2>1. CASE updates' = SN!Scheduled(updates)
    BY <1>1, <2>1, SNScheduledIsAsked DEF SNInv, SNUpdateInv
  <2>2. CASE ~snSubscribed /\ updates' = updates
    BY <1>1, <2>2 DEF SNAsked
  <2> QED
    BY <1>2, <2>1, <2>2
<1> QED
  BY <1>1, <1>3, <1>4, SNAskedStep

LEMMA SNStartReportingStep ==
  ASSUME SNInv, SN!StartReporting
  PROVE  SNInv'
<1>1. /\ UNCHANGED <<lasting, snState, update, snSilent, shown, snSaved, thread, severity, snoozed,
                     snWaiting>>
      /\ updates' = SN!Scheduled(updates) /\ snSubscribed' = TRUE
  BY DEF SN!StartReporting, SN!slack, SN!sensing
<1>2. SNTypes'
  BY <1>1, SNScheduledFacts DEF SNInv, SNTypes
<1>3. SNAsked' /\ updates'.updating = updates.updating
  BY <1>1, SNScheduledIsAsked DEF SNInv, SNUpdateInv
<1> QED
  BY <1>1, <1>2, <1>3, SNAskedStep

LEMMA SNRequestStep ==
  ASSUME SNInv, NEW u \in [updating : BOOLEAN, reschedule : BOOLEAN, scheduled : BOOLEAN],
         u.updating = updates.updating, SN!Requested(u),
         UNCHANGED <<SN!sensing, snState, update, SN!slack, snSaved, snSubscribed>>
  PROVE  SNInv'
<1>1. UNCHANGED <<lasting, snState, update, snSilent, shown, snSaved, thread, severity, snoozed,
                  snSubscribed>>
  BY DEF SN!slack, SN!sensing
<1>2. \/ u.updating /\ updates' = [u EXCEPT !.reschedule = TRUE] /\ snWaiting' = snWaiting
      \/ ~u.updating /\ updates' = u /\ snWaiting' = snWaiting + 1
  BY DEF SN!Requested
<1>3. SNTypes'
  <2>1. updates' \in [updating : BOOLEAN, reschedule : BOOLEAN, scheduled : BOOLEAN]
    <3>1. [u EXCEPT !.reschedule = TRUE]
            \in [updating : BOOLEAN, reschedule : BOOLEAN, scheduled : BOOLEAN]
      OBVIOUS
    <3> QED
      BY <1>2, <3>1, Zenon
  <2>2. snWaiting \in Nat
    BY DEF SNInv, SNTypes
  <2>3. snWaiting' \in Nat
    BY <1>2, <2>2
  <2> QED
    BY <1>1, <2>1, <2>3 DEF SNInv, SNTypes
<1>4. SNAsked' /\ updates'.updating = updates.updating
  BY <1>1, <1>2 DEF SNInv, SNTypes, SNAsked, SNUpdateInv, SNUpdatingRuns
<1> QED
  BY <1>1, <1>3, <1>4, SNAskedStep

(* The time that a problem lasts, and the beginning and the end of an update's look. *)
LEMMA SNLastStep ==
  ASSUME SNInv, NEW s \in snSensor, SN!Last(s)
  PROVE  SNInv'
<1>1. /\ UNCHANGED <<snState, update, snSilent, shown, snSaved, thread, severity, snoozed,
                     snSubscribed,
                     updates, snWaiting>>
      /\ lasting' = [lasting EXCEPT ![s] = TRUE]
  BY DEF SN!Last, SN!slack
<1>2. SNTypes'
  BY <1>1 DEF SNInv, SNTypes
<1>3. SNStatesAreSound'
  BY <1>1 DEF SNInv, SNTypes, SNUpdateInv, SNStatesAreSound
<1>4. SNUpdateInv'
  BY <1>1, <1>3 DEF SNInv, SNUpdateInv, SNUpdatingRuns, SNLookIsOver,
     SNProblemsAreReported, SNReports
<1>5. SNSlackInv'
  BY <1>1 DEF SNInv, SNSlackInv, SNShownStays, SNShownIsReported, SNReports
<1>6. SNAskedInv'
  BY <1>1 DEF SNInv, SNAskedInv, SNLookedAreFresh, SNReportedHaveLasted, SNAsked, SNFresh
<1> QED
  BY <1>2, <1>4, <1>5, <1>6 DEF SNInv

LEMMA SNBeginUpdateStep ==
  ASSUME SNInv, SN!BeginUpdate
  PROVE  SNInv'
<1>1. /\ UNCHANGED <<lasting, snState, snSilent, shown, snSaved, thread, severity, snoozed,
                     snSubscribed>>
      /\ snWaiting > 0 /\ update.stage = "idle" /\ snWaiting' = snWaiting - 1
      /\ updates' = [updates EXCEPT !.updating = TRUE]
      /\ update' = [SN!Idle EXCEPT !.stage = "look", !.left = snSensor]
  BY DEF SN!BeginUpdate, SN!slack, SN!sensing
<1>2. /\ update' \in SNUpdate /\ update'.stage = "look" /\ update'.left = snSensor
      /\ update'.fixed = {} /\ update'.problems = {}
  BY <1>1 DEF SN!Idle, SNUpdate, SNStage
<1>3. updates'.updating
  BY <1>1 DEF SNInv, SNTypes
<1>4. SNTypes'
  <2>1. updates' \in [updating : BOOLEAN, reschedule : BOOLEAN, scheduled : BOOLEAN]
    <3>1. updates \in [updating : BOOLEAN, reschedule : BOOLEAN, scheduled : BOOLEAN]
      BY DEF SNInv, SNTypes
    <3> QED
      BY <1>1, <3>1
  <2>2. snWaiting \in Nat
    BY DEF SNInv, SNTypes
  <2>3. snWaiting' \in Nat
    BY <1>1, <2>2
  <2> QED
    BY <1>1, <1>2, <2>1, <2>3 DEF SNInv, SNTypes
<1>5. SNUpdateInv'
  BY <1>1, <1>2, <1>3 DEF SNInv, SNUpdateInv, SNUpdatingRuns, SNLookIsOver, SNStatesAreSound,
     SNProblemsAreReported, SNReports
<1>6. SNSlackInv'
  BY <1>1, <1>2 DEF SNInv, SNTypes, SNSlackInv, SNShownStays, SNShownIsReported, SNReports
<1>7. SNAskedInv'
  BY <1>2 DEF SNAskedInv, SNLookedAreFresh, SNReportedHaveLasted
<1> QED
  BY <1>4, <1>5, <1>6, <1>7 DEF SNInv

(* One sensor is looked at. *)
LEMMA SNLookFacts ==
  ASSUME SNTypes, NEW s \in snSensor
  PROVE  /\ SN!Looked(s) \in SN!States
         /\ SN!Looked(s).reporting <=> severity[s] > 0 /\ ~snoozed[s]
         /\ SN!Looked(s).inProblem <=> severity[s] > 0
         /\ severity[s] > 0 => (SN!Looked(s).lasted <=> snState[s].inProblem /\ lasting[s])
         /\ ~(severity[s] > 0) /\ snState[s].inProblem => (SN!Looked(s).lasted <=> lasting[s])
<1>1. severity[s] \in 0 .. 2 /\ snoozed[s] \in BOOLEAN /\ lasting[s] \in BOOLEAN
      /\ snState[s] \in SN!States
  BY DEF SNTypes
<1> DEFINE bad == severity[s] > 0
           lasted == IF bad THEN snState[s].inProblem /\ lasting[s]
                     ELSE IF snState[s].inProblem THEN lasting[s] ELSE snState[s].lasted
<1>2. bad \in BOOLEAN /\ lasted \in BOOLEAN
  BY <1>1 DEF SN!States
<1>3. SN!Looked(s) = [inProblem |-> bad, reporting |-> bad /\ ~snoozed[s], lasted |-> lasted]
  BY DEF SN!Looked
<1>4. SN!Looked(s) \in SN!States
  BY <1>2, <1>3 DEF SN!States
<1>5. /\ SN!Looked(s).reporting <=> severity[s] > 0 /\ ~snoozed[s]
      /\ SN!Looked(s).inProblem <=> severity[s] > 0
  <2>1. SN!Looked(s).reporting = (bad /\ ~snoozed[s]) /\ SN!Looked(s).inProblem = bad
    BY <1>3
  <2> QED
    BY <2>1
<1>6. SN!Looked(s).lasted = lasted
  BY <1>3
<1>7. severity[s] > 0 => lasted = (snState[s].inProblem /\ lasting[s])
  OBVIOUS
<1>8. ~(severity[s] > 0) /\ snState[s].inProblem => lasted = lasting[s]
  OBVIOUS
<1> QED
  BY <1>4, <1>5, <1>6, <1>7, <1>8

LEMMA SNLookStep ==
  ASSUME SNInv, NEW s \in snSensor, SN!Look(s)
  PROVE  SNInv'
<1> DEFINE is == SN!Looked(s)
           over == snState[s].reporting /\ ~is.reporting
<1>1. /\ UNCHANGED <<severity, snoozed, updates, snWaiting, snSilent, shown, snSaved, thread,
                     snSubscribed>>
      /\ update.stage = "look" /\ s \in update.left
      /\ snState' = [snState EXCEPT ![s] = is]
      /\ lasting' = [lasting EXCEPT ![s] = lasting[s] /\ snState[s].inProblem /\ is.inProblem]
  BY DEF SN!Look, SN!slack
<1>2. update' = [update EXCEPT
        !.left = update.left \ {s},
        !.fixed = IF over /\ is.lasted THEN update.fixed \union {s} ELSE update.fixed,
        !.temporary = IF over /\ ~is.lasted THEN update.temporary \union {s} ELSE update.temporary,
        !.problems = IF is.reporting /\ is.lasted THEN update.problems \union {s}
                     ELSE update.problems,
        !.again = update.again \/ (is.reporting /\ ~is.lasted)]
  BY DEF SN!Look
<1>3. /\ is \in SN!States /\ snState[s] \in SN!States /\ lasting[s] \in BOOLEAN
      /\ is.reporting <=> severity[s] > 0 /\ ~snoozed[s]
      /\ is.inProblem <=> severity[s] > 0
      /\ severity[s] > 0 => (is.lasted <=> snState[s].inProblem /\ lasting[s])
      /\ ~(severity[s] > 0) /\ snState[s].inProblem => (is.lasted <=> lasting[s])
  BY SNLookFacts DEF SNInv, SNTypes
<1> HIDE DEF is
<1>4. update \in SNUpdate
  BY DEF SNInv, SNTypes
<1>5. /\ update' \in SNUpdate /\ update'.stage = "look" /\ update'.left = update.left \ {s}
  BY <1>1, <1>2, <1>4 DEF SNUpdate
<1>6. /\ update.fixed \subseteq update'.fixed
      /\ over /\ is.lasted => s \in update'.fixed
  BY <1>2, <1>4 DEF SNUpdate
<1>7. \A x \in snSensor : x \in update'.problems <=>
        x \in update.problems \/ (x = s /\ is.reporting /\ is.lasted)
  BY <1>2, <1>4 DEF SNUpdate
<1>8. /\ update.again => update'.again
      /\ is.reporting /\ ~is.lasted => update'.again
  BY <1>2, <1>4 DEF SNUpdate
<1>9. snState'[s] = is /\ \A x \in snSensor : x # s => snState'[x] = snState[x]
  BY <1>1 DEF SNInv, SNTypes
<1>10. /\ lasting'[s] <=> lasting[s] /\ snState[s].inProblem /\ is.inProblem
       /\ \A x \in snSensor : x # s => lasting'[x] = lasting[x]
  BY <1>1 DEF SNInv, SNTypes
<1>11. SNTypes'
  <2>1. (lasting[s] /\ snState[s].inProblem /\ is.inProblem) \in BOOLEAN
    OBVIOUS
  <2>2. lasting' \in [snSensor -> BOOLEAN]
    BY <1>1, <2>1 DEF SNInv, SNTypes
  <2>3. snState' \in [snSensor -> SN!States]
    BY <1>1, <1>3 DEF SNInv, SNTypes
  <2> QED
    BY <1>1, <1>5, <2>2, <2>3 DEF SNInv, SNTypes
<1>12. SNUpdatingRuns' /\ SNLookIsOver'
  BY <1>1, <1>5 DEF SNInv, SNUpdateInv, SNUpdatingRuns, SNLookIsOver
<1>13. SNStatesAreSound'
  <2> SUFFICES ASSUME NEW x \in snSensor
               PROVE  /\ snState'[x].reporting => snState'[x].inProblem
                      /\ snState'[x].inProblem /\ snState'[x].lasted => lasting'[x]
                      /\ snSaved.state[x].reporting => snSaved.state[x].inProblem
    BY <1>1 DEF SNStatesAreSound
  <2>1. CASE x = s
    BY <1>3, <1>9, <1>10, <2>1 DEF SNInv, SNUpdateInv, SNStatesAreSound
  <2>2. CASE x # s
    BY <1>9, <1>10, <2>2 DEF SNInv, SNUpdateInv, SNStatesAreSound
  <2> QED
    BY <2>1, <2>2
<1>14. SNProblemsAreReported'
  <2> SUFFICES ASSUME NEW x \in snSensor
               PROVE  /\ x \in update'.problems <=> x \notin update'.left /\ SNReports(x)'
                      /\ x \notin update'.left /\ snState'[x].reporting /\ ~snState'[x].lasted
                           => update'.again
    BY DEF SNProblemsAreReported, SNReports
  <2>1. /\ x \in update.problems <=> x \notin update.left /\ SNReports(x)
        /\ x \notin update.left /\ snState[x].reporting /\ ~snState[x].lasted => update.again
    BY <1>1 DEF SNInv, SNUpdateInv, SNProblemsAreReported
  <2>2. CASE x = s
    BY <1>1, <1>5, <1>7, <1>8, <1>9, <2>1, <2>2 DEF SNReports
  <2>3. CASE x # s
    BY <1>5, <1>7, <1>8, <1>9, <2>1, <2>3 DEF SNReports
  <2> QED
    BY <2>2, <2>3
<1>15. SNSlackInv'
  <2>1. SNShownIsReported'
    BY <1>5 DEF SNShownIsReported
  <2>2. SNShownStays'
    <3> SUFFICES ASSUME ~snSilent, update'.fixed = {}, NEW x \in shown
                 PROVE  SNReports(x)'
      BY <1>1 DEF SNShownStays
    <3>1. SNReports(x) /\ x \in snSensor
      BY <1>1, <1>6 DEF SNInv, SNSlackInv, SNShownStays, SNTypes
    <3>2. CASE x = s
      <4>1. lasting[s] /\ snState[s].inProblem /\ snState[s].reporting
        BY <3>1, <3>2 DEF SNReports, SNInv, SNUpdateInv, SNStatesAreSound
      <4>2. is.lasted
        BY <1>3, <4>1
      <4>3. ~over
        BY <1>6, <4>2
      <4> QED
        BY <1>9, <3>2, <4>1, <4>2, <4>3 DEF SNReports
    <3>3. CASE x # s
      BY <1>9, <3>1, <3>3 DEF SNReports
    <3> QED
      BY <3>2, <3>3
  <2> QED
    BY <2>1, <2>2 DEF SNSlackInv
<1>16. SNAskedInv'
  <2>1. SNAsked' <=> SNAsked
    BY <1>1, <1>5 DEF SNAsked
  <2>2. SNReportedHaveLasted'
    BY <1>5 DEF SNReportedHaveLasted
  <2>3. SNLookedAreFresh'
    <3> SUFFICES ASSUME ~SNAsked, NEW x \in snSensor, x \notin update'.left
                 PROVE  SNFresh(x)'
      BY <1>5, <2>1 DEF SNLookedAreFresh
    <3>1. CASE x = s
      BY <1>1, <1>3, <1>9, <3>1 DEF SNFresh
    <3>2. CASE x # s
      <4>1. SNFresh(x)
        BY <1>1, <1>5, <3>2 DEF SNInv, SNAskedInv, SNLookedAreFresh
      <4> QED
        BY <1>1, <1>9, <3>2, <4>1 DEF SNFresh
    <3> QED
      BY <3>1, <3>2
  <2> QED
    BY <2>2, <2>3 DEF SNAskedInv
<1> QED
  BY <1>11, <1>12, <1>13, <1>14, <1>15, <1>16 DEF SNInv, SNUpdateInv

(* The posts: the update goes from one stage to the next. *)
LEMMA SNGoesOn ==
  ASSUME SNInv, NEW from \in SNStage \ {"idle"}, NEW stage \in SNStage \ {"idle", "look"},
         update.stage = from, from = "look" => update.left = {}, SN!Go(stage),
         thread' \in BOOLEAN, snSilent' \in BOOLEAN, shown' \subseteq snSensor, SNSlackInv'
  PROVE  SNInv'
<1>1. /\ UNCHANGED <<severity, snoozed, lasting, snState, updates, snWaiting, snSaved,
                     snSubscribed>>
      /\ update' = [update EXCEPT !.stage = stage]
  BY DEF SN!Go, SN!sensing
<1>2. /\ update' \in SNUpdate /\ update'.stage = stage /\ update'.left = update.left
      /\ update'.problems = update.problems /\ update'.again = update.again
      /\ update'.fixed = update.fixed
  BY <1>1 DEF SNInv, SNTypes, SNUpdate
<1>3. SNTypes'
  BY <1>1, <1>2 DEF SNInv, SNTypes
<1>4. SNUpdateInv'
  BY <1>1, <1>2 DEF SNInv, SNUpdateInv, SNUpdatingRuns, SNLookIsOver, SNStatesAreSound,
     SNProblemsAreReported, SNReports
<1>5. SNAskedInv'
  BY <1>1, <1>2 DEF SNInv, SNAskedInv, SNLookedAreFresh, SNReportedHaveLasted, SNAsked, SNFresh
<1> QED
  BY <1>3, <1>4, <1>5 DEF SNInv

LEMMA SNPostStep ==
  ASSUME SNInv, SN!EndLook \/ SN!PostFixed \/ SN!PostTemporary
  PROVE  SNInv'
<1> USE DEF SNStage
<1>1. CASE SN!EndLook
  <2>1. SN!Go("fixed") /\ UNCHANGED <<thread, snSilent, shown>>
    BY <1>1 DEF SN!EndLook, SN!Go, SN!slack
  <2>2. update.stage = "look" /\ update.left = {}
    BY <1>1 DEF SN!EndLook
  <2>3. update'.stage = "fixed" /\ update'.fixed = update.fixed /\ snState' = snState
    BY <2>1 DEF SN!Go, SNInv, SNTypes, SNUpdate
  <2>4. SNSlackInv'
    BY <2>1, <2>2, <2>3 DEF SNInv, SNSlackInv, SNShownStays, SNShownIsReported, SNReports
  <2> QED
    BY <2>1, <2>2, <2>4, SNGoesOn DEF SNInv, SNTypes
<1>2. CASE SN!PostFixed
  <2>1. SN!Go("temporary") /\ UNCHANGED snSilent /\ update.stage = "fixed"
    BY <1>2 DEF SN!PostFixed
  <2>2. update'.stage = "temporary" /\ update'.fixed = update.fixed /\ snState' = snState
    BY <2>1 DEF SN!Go, SNInv, SNTypes, SNUpdate
  <2>3. thread' \in BOOLEAN /\ shown' \subseteq snSensor /\ (update.fixed = {} => shown' = shown)
    BY <1>2 DEF SN!PostFixed, SN!Posted, SNInv, SNTypes
  <2>4. SNSlackInv'
    BY <2>1, <2>2, <2>3 DEF SNInv, SNSlackInv, SNShownStays, SNShownIsReported, SNReports
  <2> QED
    BY <2>1, <2>3, <2>4, SNGoesOn DEF SNInv, SNTypes
<1>3. CASE SN!PostTemporary
  <2>1. SN!Go("problems") /\ UNCHANGED <<thread, snSilent, shown>> /\ update.stage = "temporary"
    BY <1>3 DEF SN!PostTemporary, SN!slack
  <2>2. update'.stage = "problems" /\ update'.fixed = update.fixed /\ snState' = snState
    BY <2>1 DEF SN!Go, SNInv, SNTypes, SNUpdate
  <2>3. SNSlackInv'
    BY <2>1, <2>2 DEF SNInv, SNSlackInv, SNShownStays, SNShownIsReported, SNReports
  <2> QED
    BY <2>1, <2>3, SNGoesOn DEF SNInv, SNTypes
<1> QED
  BY <1>1, <1>2, <1>3

LEMMA SNPostProblemsStep ==
  ASSUME SNInv, SN!PostProblems
  PROVE  SNInv'
<1>1. SN!Go("save") /\ update.stage = "problems"
  BY DEF SN!PostProblems
<1>2. update'.stage = "save" /\ snState' = snState
  BY <1>1 DEF SN!Go, SNInv, SNTypes, SNUpdate
<1>3. update.problems \subseteq snSensor /\ update.left = {}
  BY <1>1 DEF SNInv, SNTypes, SNUpdate, SNUpdateInv, SNLookIsOver
<1>4. \A s \in snSensor : s \in update.problems <=> SNReports(s)
  BY <1>1, <1>3 DEF SNInv, SNUpdateInv, SNProblemsAreReported
<1>5. /\ thread' \in BOOLEAN /\ snSilent' \in BOOLEAN /\ shown' \subseteq snSensor
      /\ ~snSilent' => shown' = update.problems
  <2>1. CASE /\ update.problems # {} /\ SN!Posted /\ snSilent' = ~thread'
             /\ shown' = IF thread' THEN update.problems ELSE shown
    BY <1>3, <2>1 DEF SN!Posted, SNInv, SNTypes
  <2>2. CASE snSilent' = (snSilent \/ shown # update.problems) /\ UNCHANGED <<thread, shown>>
    BY <2>2 DEF SNInv, SNTypes
  <2>3. CASE /\ update.problems = {} /\ thread' = FALSE
             /\ \/ shown' = {} /\ snSilent' = FALSE
                \/ snSilent' = TRUE /\ UNCHANGED shown
    BY <2>3 DEF SNInv, SNTypes
  <2>4. CASE /\ update.problems = {} /\ update.fixed = {} /\ thread' = FALSE
             /\ UNCHANGED <<shown, snSilent>>
    <3>1. ~snSilent => shown = {}
      BY <1>1, <1>4, <2>4 DEF SNInv, SNSlackInv, SNShownStays, SNTypes
    <3> QED
      BY <2>4, <3>1 DEF SNInv, SNTypes
  <2> QED
    BY <2>1, <2>2, <2>3, <2>4 DEF SN!PostProblems
<1>6. SNSlackInv'
  BY <1>2, <1>4, <1>5 DEF SNSlackInv, SNShownStays, SNShownIsReported, SNReports
<1> QED
  BY <1>1, <1>5, <1>6, SNGoesOn DEF SNStage

(* What the end of an update leaves of the flags: another one is scheduled if one was, or
   if it was noted. *)
LEMMA SNEndedFacts ==
  ASSUME NEW u \in [updating : BOOLEAN, reschedule : BOOLEAN, scheduled : BOOLEAN]
  PROVE  /\ SN!Ended(u) \in [updating : BOOLEAN, reschedule : BOOLEAN, scheduled : BOOLEAN]
         /\ ~SN!Ended(u).updating
         /\ u.reschedule \/ u.scheduled => SN!Ended(u).scheduled
<1> DEFINE ended == [u EXCEPT !.updating = FALSE, !.reschedule = FALSE]
<1>1. /\ ended \in [updating : BOOLEAN, reschedule : BOOLEAN, scheduled : BOOLEAN]
      /\ ~ended.updating /\ ended.scheduled = u.scheduled
  OBVIOUS
<1>2. SN!Ended(u) = IF u.reschedule THEN SN!Scheduled(ended) ELSE ended
  BY DEF SN!Ended
<1> HIDE DEF ended
<1> QED
  BY <1>1, <1>2, SNScheduledFacts

LEMMA SNIdle == SN!Idle \in SNUpdate /\ SN!Idle.stage = "idle"
BY DEF SN!Idle, SNUpdate, SNStage

LEMMA SNSaveStep ==
  ASSUME SNInv, SN!Save
  PROVE  SNInv'
<1> DEFINE noted == IF update.again THEN SN!Scheduled(updates) ELSE updates
<1>1. /\ UNCHANGED <<severity, snoozed, lasting, snState, snWaiting, thread, snSilent, shown,
                     snSubscribed>>
      /\ update.stage = "save" /\ update' = SN!Idle
           /\ snSaved' = [state |-> snState, thread |-> thread]
      /\ updates' = SN!Ended(noted)
  BY DEF SN!Save, SN!slack, SN!sensing
<1>2. SN!Idle \in SNUpdate /\ SN!Idle.stage = "idle"
  BY SNIdle
<1>3. updates \in [updating : BOOLEAN, reschedule : BOOLEAN, scheduled : BOOLEAN]
        /\ updates.updating
  BY <1>1 DEF SNInv, SNTypes, SNUpdateInv, SNUpdatingRuns
<1>4. /\ noted \in [updating : BOOLEAN, reschedule : BOOLEAN, scheduled : BOOLEAN]
      /\ noted.scheduled = updates.scheduled
      /\ update.again \/ updates.reschedule => noted.reschedule
  BY <1>3, SNScheduledFacts
<1> HIDE DEF noted
<1>6. /\ updates' \in [updating : BOOLEAN, reschedule : BOOLEAN, scheduled : BOOLEAN]
      /\ ~updates'.updating
      /\ noted.reschedule \/ updates.scheduled => updates'.scheduled
  BY <1>1, <1>4, SNEndedFacts
<1>7. snSaved'.state = snState
  BY <1>1
<1>8. SNTypes'
  BY <1>1, <1>2, <1>6 DEF SNInv, SNTypes
<1>9. SNUpdateInv'
  BY <1>1, <1>2, <1>6, <1>7 DEF SNInv, SNUpdateInv, SNUpdatingRuns, SNLookIsOver,
     SNStatesAreSound, SNProblemsAreReported
<1>10. SNSlackInv'
  BY <1>1, <1>2 DEF SNInv, SNSlackInv, SNShownStays, SNShownIsReported, SNReports
<1>11. SNAskedInv'
  <2>1. update.left = {}
    BY <1>1 DEF SNInv, SNUpdateInv, SNLookIsOver
  <2>2. ASSUME ~SNAsked'
        PROVE  ~SNAsked /\ ~update.again
    BY <1>1, <1>4, <1>6, <2>2 DEF SNAsked
  <2>3. ASSUME ~SNAsked'
        PROVE  \A s \in snSensor : SNFresh(s) /\ (snState[s].reporting => snState[s].lasted)
    BY <1>1, <2>1, <2>2, <2>3 DEF SNInv, SNAskedInv, SNLookedAreFresh, SNUpdateInv,
       SNProblemsAreReported
  <2> QED
    BY <1>1, <2>3 DEF SNAskedInv, SNLookedAreFresh, SNReportedHaveLasted, SNFresh
<1> QED
  BY <1>8, <1>9, <1>10, <1>11 DEF SNInv

(* An update that fails leaves the database and, of what it has found, only the states. *)
LEMMA SNFailedStep ==
  ASSUME SNInv, update.stage # "idle", update' = SN!Idle, updates' = SN!Ended(updates),
         snSilent' \in BOOLEAN,
         UNCHANGED <<SN!sensing, snState, snWaiting, thread, shown, snSaved, snSubscribed>>,
         SNSlackInv', SNAskedInv'
  PROVE  SNInv'
<1>1. UNCHANGED <<severity, snoozed, lasting, snState, snWaiting, thread, shown, snSaved,
                  snSubscribed>>
  BY DEF SN!sensing
<1>2. SN!Idle \in SNUpdate /\ SN!Idle.stage = "idle"
  BY SNIdle
<1>3. updates' \in [updating : BOOLEAN, reschedule : BOOLEAN, scheduled : BOOLEAN]
        /\ ~updates'.updating
  BY SNEndedFacts DEF SNInv, SNTypes
<1>4. SNTypes'
  BY <1>1, <1>2, <1>3 DEF SNInv, SNTypes
<1>5. SNUpdateInv'
  BY <1>1, <1>2, <1>3 DEF SNInv, SNUpdateInv, SNUpdatingRuns, SNLookIsOver, SNStatesAreSound,
     SNProblemsAreReported
<1> QED
  BY <1>4, <1>5 DEF SNInv

LEMMA SNLookFailsStep ==
  ASSUME SNInv, SN!LookFails
  PROVE  SNInv'
<1>1. /\ update.stage # "idle" /\ update' = SN!Idle /\ updates' = SN!Ended(updates)
      /\ snSilent' = TRUE
      /\ UNCHANGED <<SN!sensing, snState, snWaiting, thread, shown, snSaved, snSubscribed>>
  BY DEF SN!LookFails
<1>2. update'.stage = "idle"
  BY <1>1, SNIdle
<1>3. SNSlackInv'
  BY <1>1 DEF SNSlackInv, SNShownStays, SNShownIsReported
<1>4. SNAskedInv'
  BY <1>1, <1>2 DEF SNAskedInv, SNLookedAreFresh, SNReportedHaveLasted
<1> QED
  BY <1>1, <1>3, <1>4, SNFailedStep

LEMMA SNSaveFailsStep ==
  ASSUME SNInv, SN!SaveFails
  PROVE  SNInv'
<1>1. /\ update.stage = "save" /\ update' = SN!Idle /\ updates' = SN!Ended(updates)
      /\ snSilent' = (snSilent \/ update.again)
      /\ UNCHANGED <<SN!sensing, snState, snWaiting, thread, shown, snSaved, snSubscribed>>
  BY DEF SN!SaveFails
<1>2. UNCHANGED <<severity, snoozed>> /\ update'.stage = "idle"
  BY <1>1, SNIdle DEF SN!sensing
<1>3. snSilent' \in BOOLEAN /\ update.left = {}
  BY <1>1 DEF SNInv, SNTypes, SNUpdate, SNUpdateInv, SNLookIsOver
<1>4. SNSlackInv'
  BY <1>1, <1>2 DEF SNInv, SNSlackInv, SNShownStays, SNShownIsReported, SNReports
<1>5. SNAskedInv'
  <2>1. ~SNAsked' => ~SNAsked
    BY <1>1, <1>2, SNEndedFacts DEF SNAsked, SNInv, SNTypes
  <2>2. ASSUME ~SNAsked', ~snSilent'
        PROVE  \A s \in snSensor : SNFresh(s) /\ (snState[s].reporting => snState[s].lasted)
    BY <1>1, <1>3, <2>1, <2>2 DEF SNInv, SNAskedInv, SNLookedAreFresh, SNUpdateInv,
       SNProblemsAreReported
  <2> QED
    BY <1>1, <1>2, <2>2 DEF SNAskedInv, SNLookedAreFresh, SNReportedHaveLasted, SNFresh
<1> QED
  BY <1>1, <1>3, <1>4, <1>5, SNFailedStep

LEMMA SNCrashStep ==
  ASSUME SNInv, SN!CrashAndRestart
  PROVE  SNInv'
<1>1. /\ UNCHANGED <<severity, snoozed, shown, snSaved>>
      /\ snState' = snSaved.state /\ thread' = snSaved.thread /\ snSubscribed' = FALSE
      /\ lasting' = [s \in snSensor |-> snSaved.state[s].inProblem /\ snSaved.state[s].lasted]
      /\ snSilent' = (snSilent \/ update.stage # "idle"
                        \/ snSaved # [state |-> snState, thread |-> thread])
      /\ snWaiting' = 0 /\ update' = SN!Idle
      /\ updates' = [updating |-> FALSE, reschedule |-> FALSE, scheduled |-> FALSE]
  BY DEF SN!CrashAndRestart
<1>2. SN!Idle \in SNUpdate /\ SN!Idle.stage = "idle"
  BY SNIdle
<1>3. snSaved.state \in [snSensor -> SN!States] /\ snSaved.thread \in BOOLEAN
  BY DEF SNInv, SNTypes
<1>4. lasting' \in [snSensor -> BOOLEAN]
  BY <1>1
<1>5. SNTypes'
  BY <1>1, <1>2, <1>3, <1>4 DEF SNInv, SNTypes
<1>6. SNUpdateInv'
  BY <1>1, <1>2 DEF SNInv, SNUpdateInv, SNUpdatingRuns, SNLookIsOver, SNStatesAreSound,
     SNProblemsAreReported
<1>7. SNSlackInv'
  <2>1. snSaved = [state |-> snState, thread |-> thread] => snSaved.state = snState
    OBVIOUS
  <2>2. ~snSilent' => /\ ~snSilent /\ update.stage = "idle"
                      /\ snSaved = [state |-> snState, thread |-> thread]
    BY <1>1
  <2>3. ~snSilent' => ~snSilent /\ update.stage = "idle" /\ snState' = snState
    BY <1>1, <2>1, <2>2
  <2> QED
    BY <1>1, <1>2, <2>3 DEF SNInv, SNSlackInv, SNShownStays, SNShownIsReported, SNReports
<1>8. SNAskedInv'
  BY <1>1 DEF SNAskedInv, SNLookedAreFresh, SNReportedHaveLasted, SNAsked
<1> QED
  BY <1>5, <1>6, <1>7, <1>8 DEF SNInv

LEMMA SNNextHolds ==
  ASSUME SNInv, SN!Next
  PROVE  SNInv'
<1>1. ASSUME NEW s \in snSensor,
             (\E value \in 0 .. 2 : SN!Reading(s, value)) \/ SN!Snooze(s) \/ SN!Last(s)
               \/ SN!Look(s)
      PROVE  SNInv'
  BY <1>1, SNReadingStep, SNSnoozeStep, SNLastStep, SNLookStep
<1>2. CASE SN!OutOfBand
  <2> DEFINE u == [updates EXCEPT !.scheduled = FALSE]
  <2>1. u \in [updating : BOOLEAN, reschedule : BOOLEAN, scheduled : BOOLEAN]
        /\ u.updating = updates.updating
    BY DEF SNInv, SNTypes
  <2>2. SN!Requested(u) /\ UNCHANGED <<SN!sensing, snState, update, SN!slack, snSaved,
                                       snSubscribed>>
    BY <1>2 DEF SN!OutOfBand
  <2> QED
    BY <2>1, <2>2, SNRequestStep
<1>3. CASE SN!MonitorTimer
  <2>1. updates \in [updating : BOOLEAN, reschedule : BOOLEAN, scheduled : BOOLEAN]
    BY DEF SNInv, SNTypes
  <2>2. SN!Requested(updates) /\ UNCHANGED <<SN!sensing, snState, update, SN!slack, snSaved,
                                             snSubscribed>>
    BY <1>3 DEF SN!MonitorTimer
  <2> QED
    BY <2>1, <2>2, SNRequestStep
<1> QED
  BY <1>1, <1>2, <1>3, SNStartReportingStep, SNBeginUpdateStep, SNPostStep, SNPostProblemsStep,
     SNSaveStep, SNLookFailsStep, SNSaveFailsStep, SNCrashStep DEF SN!Next

LEMMA SNStays ==
  ASSUME SNInv, UNCHANGED snVars
  PROVE  SNInv'
<1>1. UNCHANGED <<severity, snoozed, lasting, snState, updates, snWaiting, update, thread, shown,
                  snSilent, snSaved, snSubscribed>>
  BY DEF snVars
<1> QED
  BY <1>1 DEF SNInv, SNTypes, SNUpdateInv, SNUpdatingRuns, SNLookIsOver, SNStatesAreSound,
     SNProblemsAreReported, SNReports, SNSlackInv, SNShownStays,
     SNShownIsReported, SNAskedInv, SNLookedAreFresh, SNReportedHaveLasted, SNAsked, SNFresh

LEMMA SNHolds ==
  ASSUME SNInv
  PROVE  SN!SlackShowsProblems
<1> SUFFICES ASSUME SN!Quiet, ~snSilent
             PROVE  shown = {s \in snSensor : severity[s] > 0 /\ ~snoozed[s]}
  BY DEF SN!SlackShowsProblems
<1>1. ~SNAsked /\ update.stage = "idle"
  BY DEF SN!Quiet, SNAsked
<1>2. \A s \in snSensor : s \in shown <=> SNReports(s)
  BY <1>1 DEF SNInv, SNSlackInv, SNShownIsReported
<1>3. \A s \in snSensor : SNFresh(s) /\ (snState[s].reporting => snState[s].lasted)
  BY <1>1 DEF SNInv, SNAskedInv, SNLookedAreFresh, SNReportedHaveLasted
<1> QED
  BY <1>2, <1>3 DEF SNReports, SNFresh, SNInv, SNTypes

-----------------------------------------------------------------------------
(* AppManagerRegistry *)

(* What a notification says of an application: the first one of a registration says it of
   all, and 0 of those it does not name. *)
RGInfos == UNION {[names -> RG!Info] : names \in SUBSET rgApp}
RGNotices == [session : Nat, initial : BOOLEAN, infos : RGInfos]
RGTells(n, a) == n.initial \/ a \in DOMAIN n.infos
RGSays(n, a) == IF a \in DOMAIN n.infos THEN n.infos[a] ELSE 0

(* The writes of notifications, and the others. *)
RGNoted == {"errors", "changes"}
RGKept == {"destroy", "unregister", "save"}
RGWriteTypes ==
  [kind : RGNoted, of : RGNotices] \union [kind : RGKept, of : Nat] \union [kind : {"remove"}, of : Nat]
RGSteps == {"none", "read", "destroy", "destroyed", "save", "saved", "done"}

RGTypes ==
  /\ rgApps \in [rgApp -> RG!Info] /\ session \in Nat /\ sessions \in Nat
  /\ subscription \in [session : Nat, asked : SUBSET rgApp, initialFinished : BOOLEAN,
                       deferred : Seq(RGNotices)]
  /\ rgWire \in Seq(RGNotices) /\ registration \in [RG!Session -> RGSteps]
  /\ rgEntry \in [session : Nat, updatedOnce : BOOLEAN]
  /\ held \subseteq RGNotices /\ rgSaves \subseteq [kind : RGKept, of : Nat]
  /\ rgWrites \in Seq(RGWriteTypes)
  /\ db \in [manager : BOOLEAN, rows : [rgApp -> RG!Info]]
  /\ removing \in BOOLEAN /\ orphaned \in BOOLEAN

(* Connections are numbered; what belongs to one is only there once it is registered. *)
RGSessionIsLast ==
  MaxSessions \in Nat /\ session <= sessions /\ sessions <= MaxSessions
    /\ (session # 0 => session = sessions)
RGLaterIsNone == \A s \in RG!Session : s > sessions => registration[s] = "none"
RGWireIsOfSession ==
  \A i \in DOMAIN rgWire : rgWire[i].session = session /\ session # 0
    /\ registration[session] = "done"
RGSubscriptionIsOfSession ==
  subscription.session # 0 => subscription.session = session /\ registration[session] = "done"
RGEntryIsDone ==
  rgEntry.session # 0 => rgEntry.session \in RG!Session /\ registration[rgEntry.session] = "done"

(* The first notification of a registration is the first that its element gets. *)
RGOnceIsOfEntry == rgEntry.session = 0 => ~rgEntry.updatedOnce
RGOnceIsOver == rgEntry.updatedOnce /\ session # 0 => registration[session] \in {"none", "done"}
RGLive == rgEntry.session = session /\ session # 0
RGLiveIsSubscribed == RGLive => subscription.session = session
RGLiveWaits == RGLive /\ ~subscription.initialFinished => rgWire = <<>> /\ ~rgEntry.updatedOnce
RGLiveFirst ==
  RGLive /\ subscription.initialFinished /\ ~rgEntry.updatedOnce =>
      rgWire # <<>> /\ Head(rgWire).initial
RGLiveLater ==
  RGLive => \A i \in DOMAIN rgWire : rgWire[i].initial => i = 1 /\ ~rgEntry.updatedOnce

(* What waits for the first notification has the last change of each application; what it
   does not name has not changed since the permissions were asked for. *)
RGDeferredAreLater ==
  /\ subscription.session = 0 => subscription.deferred = <<>>
  /\ \A i \in DOMAIN subscription.deferred :
       ~subscription.deferred[i].initial /\ subscription.deferred[i].session = session
RGUntold(q, a) == \A i \in DOMAIN q : ~RGTells(q[i], a)
RGIsLastOf(q, i, a) ==
  i \in DOMAIN q /\ RGTells(q[i], a) /\ \A j \in DOMAIN q : j > i => ~RGTells(q[j], a)
RGDeferredIsTrue ==
  RGLive /\ ~subscription.initialFinished => \A a \in rgApp :
    /\ \A i \in DOMAIN subscription.deferred :
         RGIsLastOf(subscription.deferred, i, a) => RGSays(subscription.deferred[i], a) = rgApps[a]
    /\ RGUntold(subscription.deferred, a) => a \in subscription.asked \/ rgApps[a] = 0

(* A first notification that awaits its write of permissions is held, once for each
   registration, and the one of this registration is behind those of others. *)
RGIsErrors(i) == i \in DOMAIN rgWrites /\ rgWrites[i].kind = "errors"
RGErrorsAreHeld ==
  \A i \in DOMAIN rgWrites : RGIsErrors(i) =>
    /\ rgWrites[i].of \in held /\ rgWrites[i].of.initial
    /\ rgWrites[i].of.session \in RG!Session /\ registration[rgWrites[i].of.session] = "done"
RGErrorsAreSingle ==
  \A i, j \in DOMAIN rgWrites :
    RGIsErrors(i) /\ RGIsErrors(j) /\ rgWrites[i].of.session = rgWrites[j].of.session => i = j
RGNoErrorsYet ==
  RGLive /\ ~rgEntry.updatedOnce =>
    \A i \in DOMAIN rgWrites : RGIsErrors(i) => rgWrites[i].of.session # session
RGOwnErrorsAreLast ==
  RGLive /\ rgEntry.updatedOnce => \A i \in DOMAIN rgWrites : RGIsErrors(i) =>
    \/ rgWrites[i].of.session = session
    \/ \E j \in DOMAIN rgWrites : j > i /\ RGIsErrors(j) /\ rgWrites[j].of.session = session

(* What is last said of an application on its way to the database is what it is. *)
RGTrusted == RGLive /\ session \notin overtaken /\ ~orphaned /\ subscription.initialFinished
RGWireIsTrue ==
  RGTrusted => \A a \in rgApp, i \in DOMAIN rgWire : RGIsLastOf(rgWire, i, a) =>
      RGSays(rgWire[i], a) = rgApps[a]
RGErrorsAreTrue ==
  RGTrusted => \A a \in rgApp : RGUntold(rgWire, a) =>
    \A i \in DOMAIN rgWrites : RGIsErrors(i) /\ rgWrites[i].of.session = session =>
      RGSays(rgWrites[i].of, a) = rgApps[a]
RGOwnErrors == \E i \in DOMAIN rgWrites : RGIsErrors(i) /\ rgWrites[i].of.session = session
RGTellsWrite(w, a) == w.kind = "changes" /\ RGTells(w.of, a)
RGUnwritten(q, a) == \A i \in DOMAIN q : ~RGTellsWrite(q[i], a)
RGIsLastWrite(q, i, a) ==
  i \in DOMAIN q /\ RGTellsWrite(q[i], a) /\ \A j \in DOMAIN q : j > i => ~RGTellsWrite(q[j], a)
RGWritesAreTrue ==
  RGTrusted /\ ~RGOwnErrors => \A a \in rgApp : RGUntold(rgWire, a) =>
    \A i \in DOMAIN rgWrites : RGIsLastWrite(rgWrites, i, a) =>
        RGSays(rgWrites[i].of, a) = rgApps[a]
RGRowsAreTrue ==
  RGTrusted /\ ~RGOwnErrors => \A a \in rgApp :
    RGUntold(rgWire, a) /\ RGUnwritten(rgWrites, a) => db.rows[a] = rgApps[a]

(* What a removal does not cross: behind it come no notifications, and whoever registers
   meanwhile is saved behind it. *)
RGIsRemove(i) == i \in DOMAIN rgWrites /\ rgWrites[i].kind = "remove"
RGSaveIsAsked ==
  /\ \A i \in DOMAIN rgWrites : rgWrites[i].kind = "save" =>
       rgWrites[i].of \in RG!Session /\ registration[rgWrites[i].of] \in {"save", "saved", "done"}
  /\ \A w \in rgSaves : w.kind = "save" =>
       w.of \in RG!Session /\ registration[w.of] \in {"save", "saved", "done"}
RGRemoveIsAlone ==
  ~orphaned => \A i \in DOMAIN rgWrites : RGIsRemove(i) =>
    /\ rgEntry.session = 0 /\ held = {}
    /\ \A s \in RG!Session : registration[s] # "saved"
    /\ \A j \in DOMAIN rgWrites : j > i => rgWrites[j].kind \notin RGNoted
    /\ \A j \in DOMAIN rgWrites : j < i /\ rgWrites[j].kind = "save" =>
         registration[rgWrites[j].of] # "save"
RGManagerIsThere ==
  ~orphaned /\ (rgEntry.session # 0 \/ \E s \in RG!Session : registration[s] = "saved") =>
      db.manager
RGGoneIsEmpty ==
  ~orphaned /\ ~db.manager =>
    db.rows = RG!NoApps /\ \A i \in DOMAIN rgWrites : rgWrites[i].kind \notin RGNoted

RGSessionInv == RGSessionIsLast /\ RGLaterIsNone /\ RGWireIsOfSession /\ RGSubscriptionIsOfSession
  /\ RGEntryIsDone
RGLiveInv == RGOnceIsOfEntry /\ RGOnceIsOver /\ RGLiveIsSubscribed /\ RGLiveWaits /\ RGLiveFirst
  /\ RGLiveLater
RGDeferredInv == RGDeferredAreLater /\ RGDeferredIsTrue
RGErrorsInv == RGErrorsAreHeld /\ RGErrorsAreSingle /\ RGNoErrorsYet /\ RGOwnErrorsAreLast
RGTruthInv == RGWireIsTrue /\ RGErrorsAreTrue /\ RGWritesAreTrue /\ RGRowsAreTrue
RGRemoveInv == RGSaveIsAsked /\ RGRemoveIsAlone /\ RGManagerIsThere /\ RGGoneIsEmpty
RGInv == RGTypes /\ RGSessionInv /\ RGLiveInv /\ RGDeferredInv /\ RGErrorsInv /\ RGTruthInv
  /\ RGRemoveInv

-----------------------------------------------------------------------------
(* Sequences: what is appended, and what is left behind the head. *)
LEMMA RGAppended ==
  ASSUME NEW S, NEW q \in Seq(S), NEW x \in S
  PROVE  /\ Append(q, x) \in Seq(S) /\ Len(q) \in Nat /\ Len(Append(q, x)) = Len(q) + 1
         /\ DOMAIN q = 1 .. Len(q) /\ DOMAIN Append(q, x) = 1 .. Len(q) + 1
         /\ \A i \in DOMAIN q : i \in DOMAIN Append(q, x) /\ Append(q, x)[i] = q[i] /\ q[i] \in S
         /\ Append(q, x)[Len(q) + 1] = x /\ Len(q) + 1 \in DOMAIN Append(q, x)
         /\ \A i \in DOMAIN Append(q, x) : i \in DOMAIN q \/ i = Len(q) + 1
         /\ \A i \in DOMAIN q : i # Len(q) + 1 /\ i < Len(q) + 1 /\ ~(i > Len(q) + 1)
OBVIOUS

LEMMA RGBehind ==
  ASSUME NEW S, NEW q \in Seq(S), q # <<>>
  PROVE  /\ Tail(q) \in Seq(S) /\ Head(q) = q[1] /\ Head(q) \in S /\ 1 \in DOMAIN q
         /\ \A i \in DOMAIN Tail(q) : i \in Nat /\ i + 1 \in DOMAIN q /\ Tail(q)[i] = q[i + 1]
         /\ \A i \in DOMAIN q : i \in Nat /\ (i = 1 \/ i > 1)
         /\ \A i \in DOMAIN q : i # 1 => i - 1 \in DOMAIN Tail(q) /\ Tail(q)[i - 1] = q[i]
OBVIOUS

LEMMA RGElementsOf ==
  ASSUME NEW S, NEW q \in Seq(S)
  PROVE  /\ \A i \in DOMAIN q : q[i] \in S /\ i \in Nat
         /\ q # <<>> => 1 \in DOMAIN q /\ Head(q) = q[1]
         /\ (\A i \in DOMAIN q : FALSE) => q = <<>>
<1>1. DOMAIN q = 1 .. Len(q) /\ Len(q) \in Nat
  OBVIOUS
<1>2. (\A i \in DOMAIN q : FALSE) => q = <<>>
  <2> SUFFICES ASSUME \A i \in DOMAIN q : FALSE
               PROVE  q = <<>>
    OBVIOUS
  <2>1. Len(q) = 0
    BY <1>1
  <2> QED
    BY <2>1
<1> QED
  BY <1>1, <1>2

LEMMA RGEmptyTells ==
  ASSUME NEW S
  PROVE  <<>> \in Seq(S) /\ \A i : i \notin DOMAIN <<>>
OBVIOUS

(* The last notification that tells of an application, when one more comes and when the
   head goes. *)
LEMMA RGLastAppended ==
  ASSUME NEW q \in Seq(RGNotices), NEW n \in RGNotices, NEW a
  PROVE  /\ RGUntold(Append(q, n), a) <=> RGUntold(q, a) /\ ~RGTells(n, a)
         /\ \A i : RGIsLastOf(Append(q, n), i, a) =>
              \/ i = Len(q) + 1 /\ Append(q, n)[i] = n /\ RGTells(n, a)
              \/ RGIsLastOf(q, i, a) /\ Append(q, n)[i] = q[i] /\ ~RGTells(n, a)
<1> DEFINE p == Append(q, n)
           l == Len(q) + 1
<1>1. /\ \A i \in DOMAIN q : i \in DOMAIN p /\ p[i] = q[i] /\ l > i
      /\ p[l] = n /\ l \in DOMAIN p /\ \A i \in DOMAIN p : i \in DOMAIN q \/ i = l
  BY RGAppended
<1> HIDE DEF p, l
<1>2. RGUntold(p, a) <=> RGUntold(q, a) /\ ~RGTells(n, a)
  BY <1>1 DEF RGUntold
<1>3. ASSUME NEW i, RGIsLastOf(p, i, a)
      PROVE  \/ i = l /\ p[i] = n /\ RGTells(n, a)
             \/ RGIsLastOf(q, i, a) /\ p[i] = q[i] /\ ~RGTells(n, a)
  <2>1. CASE i = l
    BY <1>1, <1>3, <2>1 DEF RGIsLastOf
  <2>2. CASE i \in DOMAIN q
    BY <1>1, <1>3, <2>2 DEF RGIsLastOf
  <2> QED
    BY <1>1, <1>3, <2>1, <2>2 DEF RGIsLastOf
<1> QED
  BY <1>2, <1>3 DEF p, l

LEMMA RGLastBehind ==
  ASSUME NEW q \in Seq(RGNotices), q # <<>>, NEW a
  PROVE  /\ RGUntold(Tail(q), a) => RGUntold(q, a) \/ RGIsLastOf(q, 1, a)
         /\ \A i : RGIsLastOf(Tail(q), i, a) => RGIsLastOf(q, i + 1, a) /\ Tail(q)[i] = q[i + 1]
<1> DEFINE p == Tail(q)
<1>1. /\ 1 \in DOMAIN q
      /\ \A i \in DOMAIN p : i \in Nat /\ i + 1 \in DOMAIN q /\ p[i] = q[i + 1]
      /\ \A i \in DOMAIN q : i \in Nat /\ (i = 1 \/ i > 1)
      /\ \A i \in DOMAIN q : i # 1 => i - 1 \in DOMAIN p /\ p[i - 1] = q[i]
  BY RGBehind
<1> HIDE DEF p
<1>2. RGUntold(p, a) => RGUntold(q, a) \/ RGIsLastOf(q, 1, a)
  <2> SUFFICES ASSUME RGUntold(p, a)
               PROVE  RGUntold(q, a) \/ RGIsLastOf(q, 1, a)
    OBVIOUS
  <2>1. \A j \in DOMAIN q : j # 1 => ~RGTells(q[j], a)
    BY <1>1 DEF RGUntold
  <2> QED
    BY <1>1, <2>1 DEF RGUntold, RGIsLastOf
<1>3. ASSUME NEW i, RGIsLastOf(p, i, a)
      PROVE  RGIsLastOf(q, i + 1, a) /\ p[i] = q[i + 1]
  <2>1. i \in DOMAIN p /\ RGTells(p[i], a) /\ i \in Nat /\ i + 1 \in DOMAIN q /\ p[i] = q[i + 1]
    BY <1>1, <1>3 DEF RGIsLastOf
  <2>2. ASSUME NEW j \in DOMAIN q, j > i + 1
        PROVE  ~RGTells(q[j], a)
    <3>1. j # 1 /\ j \in Nat
      BY <1>1, <2>1, <2>2
    <3>2. j - 1 \in DOMAIN p /\ p[j - 1] = q[j] /\ j - 1 > i
      BY <1>1, <2>1, <2>2, <3>1
    <3> QED
      BY <1>3, <3>2 DEF RGIsLastOf
  <2> QED
    BY <2>1, <2>2 DEF RGIsLastOf
<1> QED
  BY <1>2, <1>3 DEF p

(* The same of the writes. *)
LEMMA RGLastWriteAppended ==
  ASSUME NEW q \in Seq(RGWriteTypes), NEW w \in RGWriteTypes, NEW a
  PROVE  /\ RGUnwritten(Append(q, w), a) <=> RGUnwritten(q, a) /\ ~RGTellsWrite(w, a)
         /\ \A i : RGIsLastWrite(Append(q, w), i, a) =>
              \/ i = Len(q) + 1 /\ Append(q, w)[i] = w /\ RGTellsWrite(w, a)
              \/ RGIsLastWrite(q, i, a) /\ Append(q, w)[i] = q[i] /\ ~RGTellsWrite(w, a)
<1> DEFINE p == Append(q, w)
           l == Len(q) + 1
<1>1. /\ \A i \in DOMAIN q : i \in DOMAIN p /\ p[i] = q[i] /\ l > i
      /\ p[l] = w /\ l \in DOMAIN p /\ \A i \in DOMAIN p : i \in DOMAIN q \/ i = l
  BY RGAppended
<1> HIDE DEF p, l
<1>2. RGUnwritten(p, a) <=> RGUnwritten(q, a) /\ ~RGTellsWrite(w, a)
  BY <1>1 DEF RGUnwritten
<1>3. ASSUME NEW i, RGIsLastWrite(p, i, a)
      PROVE  \/ i = l /\ p[i] = w /\ RGTellsWrite(w, a)
             \/ RGIsLastWrite(q, i, a) /\ p[i] = q[i] /\ ~RGTellsWrite(w, a)
  <2>1. CASE i = l
    BY <1>1, <1>3, <2>1 DEF RGIsLastWrite
  <2>2. CASE i \in DOMAIN q
    BY <1>1, <1>3, <2>2 DEF RGIsLastWrite
  <2> QED
    BY <1>1, <1>3, <2>1, <2>2 DEF RGIsLastWrite
<1> QED
  BY <1>2, <1>3 DEF p, l

LEMMA RGLastWriteBehind ==
  ASSUME NEW q \in Seq(RGWriteTypes), q # <<>>, NEW a
  PROVE  /\ RGUnwritten(Tail(q), a) => RGUnwritten(q, a) \/ RGIsLastWrite(q, 1, a)
         /\ \A i : RGIsLastWrite(Tail(q), i, a) =>
              RGIsLastWrite(q, i + 1, a) /\ Tail(q)[i] = q[i + 1]
<1> DEFINE p == Tail(q)
<1>1. /\ 1 \in DOMAIN q
      /\ \A i \in DOMAIN p : i \in Nat /\ i + 1 \in DOMAIN q /\ p[i] = q[i + 1]
      /\ \A i \in DOMAIN q : i \in Nat /\ (i = 1 \/ i > 1)
      /\ \A i \in DOMAIN q : i # 1 => i - 1 \in DOMAIN p /\ p[i - 1] = q[i]
  BY RGBehind
<1> HIDE DEF p
<1>2. RGUnwritten(p, a) => RGUnwritten(q, a) \/ RGIsLastWrite(q, 1, a)
  <2> SUFFICES ASSUME RGUnwritten(p, a)
               PROVE  RGUnwritten(q, a) \/ RGIsLastWrite(q, 1, a)
    OBVIOUS
  <2>1. \A j \in DOMAIN q : j # 1 => ~RGTellsWrite(q[j], a)
    BY <1>1 DEF RGUnwritten
  <2> QED
    BY <1>1, <2>1 DEF RGUnwritten, RGIsLastWrite
<1>3. ASSUME NEW i, RGIsLastWrite(p, i, a)
      PROVE  RGIsLastWrite(q, i + 1, a) /\ p[i] = q[i + 1]
  <2>1. /\ i \in DOMAIN p /\ RGTellsWrite(p[i], a) /\ i \in Nat /\ i + 1 \in DOMAIN q
        /\ p[i] = q[i + 1]
    BY <1>1, <1>3 DEF RGIsLastWrite
  <2>2. ASSUME NEW j \in DOMAIN q, j > i + 1
        PROVE  ~RGTellsWrite(q[j], a)
    <3>1. j # 1 /\ j \in Nat
      BY <1>1, <2>1, <2>2
    <3>2. j - 1 \in DOMAIN p /\ p[j - 1] = q[j] /\ j - 1 > i
      BY <1>1, <2>1, <2>2, <3>1
    <3> QED
      BY <1>3, <3>2 DEF RGIsLastWrite
  <2> QED
    BY <2>1, <2>2 DEF RGIsLastWrite
<1> QED
  BY <1>2, <1>3 DEF p

-----------------------------------------------------------------------------
LEMMA RGInitHolds ==
  ASSUME RG!Init, RGConstants
  PROVE  RGInv
<1> USE RGEmptyTells DEF RG!Init, RG!NoEntry, RG!NoSubscription
<1>1. RGTypes
  <2>1. RG!NoApps \in [rgApp -> RG!Info] /\ registration \in [RG!Session -> RGSteps]
    BY DEF RG!NoApps, RG!Info, RGSteps
  <2>2. subscription \in [session : Nat, asked : SUBSET rgApp, initialFinished : BOOLEAN,
                          deferred : Seq(RGNotices)]
    OBVIOUS
  <2>3. rgEntry \in [session : Nat, updatedOnce : BOOLEAN]
    OBVIOUS
  <2>4. db \in [manager : BOOLEAN, rows : [rgApp -> RG!Info]]
    BY <2>1
  <2> QED
    BY <2>1, <2>2, <2>3, <2>4 DEF RGTypes
<1>2. RGSessionInv
  BY DEF RGConstants, RGSessionInv, RGSessionIsLast, RGLaterIsNone, RGWireIsOfSession,
     RGSubscriptionIsOfSession, RGEntryIsDone
<1>3. ~RGLive /\ ~rgEntry.updatedOnce /\ ~RGTrusted
  BY DEF RGLive, RGTrusted
<1>4. RGLiveInv
  BY <1>3 DEF RGLiveInv, RGOnceIsOfEntry, RGOnceIsOver, RGLiveIsSubscribed, RGLiveWaits,
     RGLiveFirst, RGLiveLater
<1>5. RGDeferredInv
  BY <1>3 DEF RGDeferredInv, RGDeferredAreLater, RGDeferredIsTrue
<1>6. RGErrorsInv
  BY <1>3 DEF RGErrorsInv, RGErrorsAreHeld, RGErrorsAreSingle, RGNoErrorsYet, RGOwnErrorsAreLast
<1>7. RGTruthInv
  BY <1>3 DEF RGTruthInv, RGWireIsTrue, RGErrorsAreTrue, RGWritesAreTrue, RGRowsAreTrue
<1>8. RGRemoveInv
  BY DEF RGRemoveInv, RGSaveIsAsked, RGRemoveIsAlone, RGManagerIsThere, RGGoneIsEmpty,
     RGIsRemove
<1> QED
  BY <1>1, <1>2, <1>4, <1>5, <1>6, <1>7, <1>8 DEF RGInv

(* What a step leaves alone, it keeps. *)
LEMMA RGLiveStays ==
  ASSUME RGLiveInv, UNCHANGED <<rgEntry, session, subscription, rgWire>>,
         rgEntry.updatedOnce /\ session # 0 =>
           (registration[session] \in {"none", "done"} => registration'[session] \in {"none", "done"})
  PROVE  RGLiveInv'
BY DEF RGLiveInv, RGOnceIsOfEntry, RGOnceIsOver, RGLiveIsSubscribed, RGLiveWaits, RGLiveFirst,
   RGLiveLater, RGLive

LEMMA RGDeferredStays ==
  ASSUME RGDeferredInv, UNCHANGED <<rgEntry, session, subscription, rgApps>>
  PROVE  RGDeferredInv'
BY DEF RGDeferredInv, RGDeferredAreLater, RGDeferredIsTrue, RGLive, RGUntold, RGIsLastOf

LEMMA RGErrorsStay ==
  ASSUME RGErrorsInv, UNCHANGED <<rgWrites, held, rgEntry, session>>,
         \A s \in RG!Session : registration[s] = "done" => registration'[s] = "done"
  PROVE  RGErrorsInv'
BY DEF RGErrorsInv, RGErrorsAreHeld, RGErrorsAreSingle, RGNoErrorsYet, RGOwnErrorsAreLast,
   RGIsErrors, RGLive

LEMMA RGTruthStays ==
  ASSUME RGTruthInv, UNCHANGED <<rgApps, session, rgEntry, subscription, rgWire, overtaken,
                                 orphaned, rgWrites>>,
         db'.rows = db.rows
  PROVE  RGTruthInv'
BY DEF RGTruthInv, RGWireIsTrue, RGErrorsAreTrue, RGWritesAreTrue, RGRowsAreTrue, RGTrusted,
   RGLive, RGUntold, RGIsLastOf, RGIsErrors, RGOwnErrors, RGTellsWrite, RGUnwritten,
   RGIsLastWrite

LEMMA RGRemoveStays ==
  ASSUME RGRemoveInv, UNCHANGED <<rgWrites, rgSaves, registration, orphaned, rgEntry, held, db>>
  PROVE  RGRemoveInv'
BY DEF RGRemoveInv, RGSaveIsAsked, RGRemoveIsAlone, RGManagerIsThere, RGGoneIsEmpty, RGIsRemove

(* Nothing is said of a registration that is not the element's, nor of what cannot be
   trusted. *)
LEMMA RGNotTrustedIsTrue ==
  ASSUME ~RGTrusted'
  PROVE  RGTruthInv'
BY DEF RGTruthInv, RGWireIsTrue, RGErrorsAreTrue, RGWritesAreTrue, RGRowsAreTrue

LEMMA RGNotLiveKeeps ==
  ASSUME ~RGLive', RGOnceIsOfEntry', RGOnceIsOver'
  PROVE  RGLiveInv' /\ RGDeferredIsTrue' /\ RGNoErrorsYet' /\ RGOwnErrorsAreLast' /\ RGTruthInv'
BY DEF RGLiveInv, RGLiveIsSubscribed, RGLiveWaits, RGLiveFirst, RGLiveLater, RGDeferredIsTrue,
   RGNoErrorsYet, RGOwnErrorsAreLast, RGTruthInv, RGWireIsTrue, RGErrorsAreTrue,
   RGWritesAreTrue, RGRowsAreTrue, RGTrusted

-----------------------------------------------------------------------------
(* What there is of a notification and of a write. *)
LEMMA RGNoticeFacts ==
  ASSUME session \in Nat, NEW initial \in BOOLEAN, NEW names \in SUBSET rgApp,
         NEW infos \in [names -> RG!Info]
  PROVE  LET n == RG!Notification(initial, infos) IN
         n \in RGNotices /\ n.session = session /\ n.initial = initial /\ n.infos = infos
<1>1. infos \in RGInfos
  BY DEF RGInfos
<1> QED
  BY <1>1 DEF RG!Notification, RGNotices

LEMMA RGNoticeIs ==
  ASSUME NEW n \in RGNotices
  PROVE  /\ n.session \in Nat /\ n.initial \in BOOLEAN /\ n.infos \in RGInfos
         /\ DOMAIN n.infos \subseteq rgApp /\ \A a \in DOMAIN n.infos : n.infos[a] \in RG!Info
<1>1. n.session \in Nat /\ n.initial \in BOOLEAN /\ n.infos \in RGInfos
  BY DEF RGNotices
<1>2. PICK names \in SUBSET rgApp : n.infos \in [names -> RG!Info]
  BY <1>1 DEF RGInfos
<1> QED
  BY <1>1, <1>2

LEMMA RGWriteIs ==
  ASSUME NEW w \in RGWriteTypes
  PROVE  /\ w.kind \in RGNoted => w.of \in RGNotices
         /\ w.kind \in RGKept \union {"remove"} => w.of \in Nat
         /\ w.kind \in RGNoted \union RGKept \union {"remove"}
BY DEF RGWriteTypes, RGNoted, RGKept

LEMMA RGWriteFacts ==
  /\ \A kind \in RGNoted, n \in RGNotices :
       RG!Write(kind, n) \in RGWriteTypes /\ RG!Write(kind, n).kind = kind
         /\ RG!Write(kind, n).of = n
  /\ \A kind \in RGKept, s \in Nat :
       /\ RG!Write(kind, s) \in RGWriteTypes /\ RG!Write(kind, s) \in [kind : RGKept, of : Nat]
       /\ RG!Write(kind, s).kind = kind /\ RG!Write(kind, s).of = s
  /\ RG!Write("remove", 0) \in RGWriteTypes /\ RG!Write("remove", 0).kind = "remove"
BY DEF RG!Write, RGWriteTypes, RGNoted, RGKept

LEMMA RGSessionsAre ==
  ASSUME RGSessionIsLast, session \in Nat, sessions \in Nat
  PROVE  /\ \A s \in RG!Session : s \in Nat /\ s # 0
         /\ session # 0 => session \in RG!Session
BY DEF RGSessionIsLast, RG!Session

-----------------------------------------------------------------------------
(* An application changes. *)
LEMMA RGChangeAppStep ==
  ASSUME RGInv, NEW a \in rgApp, NEW info \in RG!Info, RG!ChangeApp(a, info)
  PROVE  RGInv'
<1> DEFINE n == RG!Notification(FALSE, [x \in {a} |-> info])
           q == subscription.deferred
<1>1. /\ rgApps' = [rgApps EXCEPT ![a] = info]
      /\ UNCHANGED <<session, sessions, registration, rgEntry, held, rgSaves, rgWrites, removing,
                     db,
                     overtaken, orphaned>>
  BY DEF RG!ChangeApp, RG!ghosts
<1>2. RGTypes
  BY DEF RGInv
<1>3. /\ rgApps' \in [rgApp -> RG!Info] /\ rgApps'[a] = info
      /\ \A b \in rgApp : b # a => rgApps'[b] = rgApps[b]
  BY <1>1, <1>2 DEF RGTypes
<1>4. n \in RGNotices /\ n.session = session /\ n.initial = FALSE /\ n.infos = [x \in {a} |-> info]
  <2>1. [x \in {a} |-> info] \in [{a} -> RG!Info] /\ {a} \in SUBSET rgApp /\ session \in Nat
    BY <1>2 DEF RGTypes
  <2> QED
    BY <2>1, RGNoticeFacts
<1>5. \A b \in rgApp : (RGTells(n, b) <=> b = a) /\ RGSays(n, a) = info
  BY <1>4 DEF RGTells, RGSays
<1> HIDE DEF n
<1>6. RGErrorsInv' /\ RGRemoveInv'
  BY <1>1, RGErrorsStay, RGRemoveStays DEF RGInv
<1>7. CASE subscription.session = 0
  <2>1. UNCHANGED <<rgWire, subscription>>
    BY <1>7 DEF RG!ChangeApp
  <2>2. RGTypes'
    BY <1>1, <1>2, <1>3, <2>1 DEF RGTypes
  <2>3. RGSessionInv' /\ RGLiveInv'
    BY <1>1, <2>1, RGLiveStays DEF RGInv, RGSessionInv, RGSessionIsLast, RGLaterIsNone,
       RGWireIsOfSession, RGSubscriptionIsOfSession, RGEntryIsDone
  <2>4. ~RGLive'
    BY <1>1, <1>7 DEF RGInv, RGLiveInv, RGLiveIsSubscribed, RGLive
  <2>5. RGDeferredInv' /\ RGTruthInv'
    BY <1>1, <2>1, <2>3, <2>4, RGNotLiveKeeps DEF RGInv, RGLiveInv, RGDeferredInv,
       RGDeferredAreLater
  <2> QED
    BY <1>6, <2>2, <2>3, <2>5 DEF RGInv
<1>8. CASE subscription.session # 0 /\ subscription.initialFinished
  <2>1. rgWire' = Append(rgWire, n) /\ subscription' = subscription
    BY <1>8 DEF RG!ChangeApp, RG!Send, n
  <2>2. rgWire \in Seq(RGNotices)
    BY <1>2 DEF RGTypes
  <2>3. /\ rgWire' \in Seq(RGNotices) /\ \A i \in DOMAIN rgWire : i \in DOMAIN rgWire'
             /\ rgWire'[i] = rgWire[i]
        /\ \A i \in DOMAIN rgWire' : i \in DOMAIN rgWire \/ rgWire'[i] = n
    BY <1>4, <2>1, <2>2, RGAppended
  <2>4. rgWire # <<>> => rgWire' # <<>> /\ Head(rgWire') = Head(rgWire)
    BY <1>4, <2>1, <2>2
  <2>5. RGTypes'
    BY <1>1, <1>2, <1>3, <2>1, <2>3 DEF RGTypes
  <2>6. session # 0 /\ registration[session] = "done"
    BY <1>8 DEF RGInv, RGSessionInv, RGSubscriptionIsOfSession
  <2>7. RGSessionInv'
    <3>1. RGWireIsOfSession'
      BY <1>1, <1>4, <2>3, <2>6 DEF RGInv, RGSessionInv, RGWireIsOfSession
    <3> QED
      BY <1>1, <2>1, <3>1 DEF RGInv, RGSessionInv, RGSessionIsLast, RGLaterIsNone,
         RGSubscriptionIsOfSession, RGEntryIsDone
  <2>8. RGLiveInv'
    <3>1. RGLiveLater'
      BY <1>1, <1>4, <2>3 DEF RGInv, RGLiveInv, RGLiveLater, RGLive
    <3>2. RGLiveFirst'
      BY <1>1, <2>1, <2>4 DEF RGInv, RGLiveInv, RGLiveFirst, RGLive
    <3> QED
      BY <1>1, <1>8, <2>1, <3>1, <3>2 DEF RGInv, RGLiveInv, RGOnceIsOfEntry, RGOnceIsOver,
         RGLiveIsSubscribed, RGLiveWaits, RGLive
  <2>9. RGDeferredInv'
    BY <1>1, <1>8, <2>1 DEF RGInv, RGDeferredInv, RGDeferredAreLater, RGDeferredIsTrue, RGLive
  <2>10. ASSUME NEW b \in rgApp
         PROVE  /\ RGUntold(rgWire', b) <=> RGUntold(rgWire, b) /\ b # a
                /\ \A i : RGIsLastOf(rgWire', i, b) =>
                     \/ rgWire'[i] = n /\ b = a
                     \/ RGIsLastOf(rgWire, i, b) /\ rgWire'[i] = rgWire[i] /\ b # a
    <3>1. /\ RGUntold(rgWire', b) <=> RGUntold(rgWire, b) /\ ~RGTells(n, b)
          /\ \A i : RGIsLastOf(rgWire', i, b) =>
               \/ i = Len(rgWire) + 1 /\ rgWire'[i] = n /\ RGTells(n, b)
               \/ RGIsLastOf(rgWire, i, b) /\ rgWire'[i] = rgWire[i] /\ ~RGTells(n, b)
      <4>1. n \in RGNotices
        BY <1>4
      <4> QED
        BY <2>1, <2>2, <4>1, RGLastAppended, ZenonT(30)
    <3>2. RGTells(n, b) <=> b = a
      BY <1>5
    <3> QED
      BY <3>1, <3>2
  <2>11. RGTrusted' = RGTrusted
    BY <1>1, <2>1 DEF RGTrusted, RGLive
  <2>12. RGWireIsTrue'
    <3> SUFFICES ASSUME RGTrusted', NEW b \in rgApp, NEW i \in DOMAIN rgWire',
                        RGIsLastOf(rgWire', i, b)
                 PROVE  RGSays(rgWire'[i], b) = rgApps'[b]
      BY DEF RGWireIsTrue, RGIsLastOf, RGSays
    <3>1. CASE rgWire'[i] = n /\ b = a
      BY <1>3, <1>5, <3>1
    <3>2. CASE RGIsLastOf(rgWire, i, b) /\ rgWire'[i] = rgWire[i] /\ b # a
      <4>1. i \in DOMAIN rgWire
        BY <3>2 DEF RGIsLastOf
      <4>2. RGSays(rgWire[i], b) = rgApps[b]
        BY <2>11, <3>2, <4>1 DEF RGInv, RGTruthInv, RGWireIsTrue
      <4> QED
        BY <1>3, <3>2, <4>2
    <3> QED
      BY <2>10, <3>1, <3>2
  <2>13. RGErrorsAreTrue'
    BY <1>1, <1>3, <2>10, <2>11 DEF RGInv, RGTruthInv, RGErrorsAreTrue, RGIsErrors
  <2>14. RGWritesAreTrue' /\ RGRowsAreTrue'
    BY <1>1, <1>3, <2>10, <2>11 DEF RGInv, RGTruthInv, RGWritesAreTrue, RGRowsAreTrue,
       RGOwnErrors, RGIsErrors, RGUnwritten, RGIsLastWrite, RGTellsWrite
  <2> QED
    BY <1>6, <2>5, <2>7, <2>8, <2>9, <2>12, <2>13, <2>14 DEF RGInv, RGTruthInv
<1>9. CASE subscription.session # 0 /\ ~subscription.initialFinished
  <2>1. rgWire' = rgWire /\ subscription' = [subscription EXCEPT !.deferred = Append(@, n)]
    BY <1>9 DEF RG!ChangeApp, RG!Send, n
  <2>2. q \in Seq(RGNotices)
    BY <1>2 DEF RGTypes
  <2>3. /\ subscription'.session = subscription.session /\ subscription'.asked = subscription.asked
        /\ subscription'.initialFinished = FALSE /\ subscription'.deferred = Append(q, n)
        /\ subscription' \in [session : Nat, asked : SUBSET rgApp, initialFinished : BOOLEAN,
                              deferred : Seq(RGNotices)]
    <3>1. Append(q, n) \in Seq(RGNotices)
      BY <1>4, <2>2
    <3>2. subscription \in [session : Nat, asked : SUBSET rgApp, initialFinished : BOOLEAN,
                            deferred : Seq(RGNotices)]
      BY <1>2 DEF RGTypes
    <3>3. subscription' = [session |-> subscription.session, asked |-> subscription.asked,
                           initialFinished |-> subscription.initialFinished,
                           deferred |-> Append(q, n)]
      BY <2>1, <3>2
    <3>4. subscription'.initialFinished = FALSE
      BY <1>9, <3>3
    <3>5. /\ subscription.session \in Nat /\ subscription.asked \in SUBSET rgApp
          /\ subscription.initialFinished \in BOOLEAN
      BY <3>2
    <3>6. /\ subscription'.session = subscription.session
          /\ subscription'.asked = subscription.asked
          /\ subscription'.deferred = Append(q, n)
      BY <3>3
    <3> HIDE DEF q
    <3>7. subscription' \in [session : Nat, asked : SUBSET rgApp, initialFinished : BOOLEAN,
                             deferred : Seq(RGNotices)]
      BY <3>1, <3>3, <3>5
    <3> QED
      BY <3>4, <3>6, <3>7
  <2>4. RGTypes'
    BY <1>1, <1>2, <1>3, <2>1, <2>3 DEF RGTypes
  <2>5. RGSessionInv'
    BY <1>1, <2>1, <2>3 DEF RGInv, RGSessionInv, RGSessionIsLast, RGLaterIsNone,
       RGWireIsOfSession, RGSubscriptionIsOfSession, RGEntryIsDone
  <2>6. RGLiveInv'
    BY <1>1, <1>9, <2>1, <2>3 DEF RGInv, RGLiveInv, RGOnceIsOfEntry, RGOnceIsOver,
       RGLiveIsSubscribed, RGLiveWaits, RGLiveFirst, RGLiveLater, RGLive
  <2>7. RGTruthInv'
    BY <2>3, RGNotTrustedIsTrue DEF RGTrusted
  <2>8. RGDeferredAreLater'
    <3>1. \A i \in DOMAIN subscription'.deferred :
            \/ i \in DOMAIN q /\ subscription'.deferred[i] = q[i]
            \/ subscription'.deferred[i] = n
      BY <1>4, <2>2, <2>3, RGAppended
    <3> QED
      BY <1>1, <1>4, <1>9, <2>3, <3>1 DEF RGInv, RGDeferredInv, RGDeferredAreLater
  <2>9. ASSUME NEW b \in rgApp
        PROVE  /\ RGUntold(subscription'.deferred, b) <=> RGUntold(q, b) /\ b # a
               /\ \A i : RGIsLastOf(subscription'.deferred, i, b) =>
                    \/ subscription'.deferred[i] = n /\ b = a
                    \/ RGIsLastOf(q, i, b) /\ subscription'.deferred[i] = q[i] /\ b # a
    <3>1. q \in Seq(RGNotices) /\ n \in RGNotices
      BY <1>4, <2>2
    <3>2. /\ RGUntold(Append(q, n), b) <=> RGUntold(q, b) /\ ~RGTells(n, b)
          /\ \A i : RGIsLastOf(Append(q, n), i, b) =>
               \/ i = Len(q) + 1 /\ Append(q, n)[i] = n /\ RGTells(n, b)
               \/ RGIsLastOf(q, i, b) /\ Append(q, n)[i] = q[i] /\ ~RGTells(n, b)
      BY <3>1, RGLastAppended
    <3> QED
      BY <1>5, <2>3, <3>2
  <2>10. RGDeferredIsTrue'
    <3> SUFFICES ASSUME RGLive', NEW b \in rgApp
                 PROVE  /\ \A i \in DOMAIN subscription'.deferred :
                             RGIsLastOf(subscription'.deferred, i, b) =>
                               RGSays(subscription'.deferred[i], b) = rgApps'[b]
                        /\ RGUntold(subscription'.deferred, b) =>
                             b \in subscription'.asked \/ rgApps'[b] = 0
      BY DEF RGDeferredIsTrue, RGIsLastOf, RGUntold, RGSays
    <3>1. RGLive
      BY <1>1 DEF RGLive
    <3>2. ASSUME NEW i \in DOMAIN subscription'.deferred, RGIsLastOf(subscription'.deferred, i, b)
          PROVE  RGSays(subscription'.deferred[i], b) = rgApps'[b]
      <4>1. CASE subscription'.deferred[i] = n /\ b = a
        BY <1>3, <1>5, <4>1
      <4>2. CASE RGIsLastOf(q, i, b) /\ subscription'.deferred[i] = q[i] /\ b # a
        <5>1. i \in DOMAIN q
          BY <4>2 DEF RGIsLastOf
        <5>2. RGSays(q[i], b) = rgApps[b]
          BY <1>9, <3>1, <4>2, <5>1 DEF RGInv, RGDeferredInv, RGDeferredIsTrue
        <5> QED
          BY <1>3, <4>2, <5>2
      <4> QED
        BY <2>9, <3>2, <4>1, <4>2
    <3>3. ASSUME RGUntold(subscription'.deferred, b)
          PROVE  b \in subscription'.asked \/ rgApps'[b] = 0
      <4>1. RGUntold(q, b) /\ b # a
        BY <2>9, <3>3
      <4>2. b \in subscription.asked \/ rgApps[b] = 0
        BY <1>9, <3>1, <4>1 DEF RGInv, RGDeferredInv, RGDeferredIsTrue
      <4> QED
        BY <1>3, <2>3, <4>1, <4>2
    <3> QED
      BY <3>2, <3>3
  <2> QED
    BY <1>6, <2>4, <2>5, <2>6, <2>7, <2>8, <2>10 DEF RGInv, RGDeferredInv
<1> QED
  BY <1>7, <1>8, <1>9

(* The first notification, and after it what has waited for it. *)
LEMMA RGSendInitialStep ==
  ASSUME RGInv, RG!SendInitial
  PROVE  RGInv'
<1> DEFINE has == {a \in subscription.asked : rgApps[a] # 0}
           n == RG!Notification(TRUE, [a \in has |-> rgApps[a]])
           q == subscription.deferred
           p == Append(rgWire, n)
<1>1. /\ subscription.session # 0 /\ ~subscription.initialFinished /\ rgWire' = p \o q
      /\ subscription' = [subscription EXCEPT !.initialFinished = TRUE, !.deferred = <<>>]
      /\ UNCHANGED <<rgApps, session, sessions, registration, rgEntry, held, rgSaves, rgWrites,
                     removing,
                     db, overtaken, orphaned>>
  BY DEF RG!SendInitial, RG!ghosts
<1>2. RGTypes
  BY DEF RGInv
<1>3. /\ subscription'.session = subscription.session /\ subscription'.asked = subscription.asked
      /\ subscription'.initialFinished = TRUE /\ subscription'.deferred = <<>>
      /\ subscription' \in [session : Nat, asked : SUBSET rgApp, initialFinished : BOOLEAN,
                            deferred : Seq(RGNotices)]
  BY <1>1, <1>2, RGEmptyTells DEF RGTypes
<1>4. n \in RGNotices /\ n.session = session /\ n.initial = TRUE
        /\ n.infos = [a \in has |-> rgApps[a]]
  <2>1. [a \in has |-> rgApps[a]] \in [has -> RG!Info] /\ has \in SUBSET rgApp /\ session \in Nat
    BY <1>2 DEF RGTypes
  <2> QED
    BY <2>1, RGNoticeFacts
<1>5. q \in Seq(RGNotices) /\ rgWire \in Seq(RGNotices)
  BY <1>2 DEF RGTypes
<1> HIDE DEF n, q
<1>6. /\ p \in Seq(RGNotices) /\ Len(p) \in Nat /\ Len(p) = Len(rgWire) + 1
      /\ \A i \in DOMAIN p : (i \in DOMAIN rgWire /\ p[i] = rgWire[i]) \/ (i = Len(p) /\ p[i] = n)
      /\ Len(p) \in DOMAIN p /\ p[Len(p)] = n /\ DOMAIN p = 1 .. Len(p) /\ Len(rgWire) \in Nat
  BY <1>4, <1>5, RGAppended
<1>7. /\ rgWire' \in Seq(RGNotices) /\ Len(q) \in Nat /\ DOMAIN q = 1 .. Len(q)
      /\ DOMAIN rgWire' = 1 .. Len(p) + Len(q)
      /\ \A i \in 1 .. Len(p) + Len(q) : rgWire'[i] = IF i <= Len(p) THEN p[i] ELSE q[i - Len(p)]
  <2>1. rgWire' = p \o q
    BY <1>1
  <2> HIDE DEF p
  <2>2. Len(q) \in Nat /\ DOMAIN q = 1 .. Len(q)
    BY <1>5
  <2>3. rgWire' \in Seq(RGNotices)
    BY <1>5, <1>6, <2>1
  <2>4. DOMAIN rgWire' = 1 .. Len(p) + Len(q)
    <3>1. Len(rgWire') = Len(p) + Len(q)
      BY <1>5, <1>6, <2>1
    <3> QED
      BY <1>5, <1>6, <2>2, <2>3, <3>1
  <2>5. \A i \in 1 .. Len(p) + Len(q) : rgWire'[i] = IF i <= Len(p) THEN p[i] ELSE q[i - Len(p)]
    BY <1>5, <1>6, <2>1
  <2> QED
    BY <2>2, <2>3, <2>4, <2>5
<1> HIDE DEF p
<1>8. \A i \in DOMAIN rgWire' :
        \/ i \in DOMAIN rgWire /\ rgWire'[i] = rgWire[i]
        \/ i = Len(p) /\ rgWire'[i] = n
        \/ i > Len(p) /\ i - Len(p) \in DOMAIN q /\ rgWire'[i] = q[i - Len(p)]
  <2> TAKE i \in DOMAIN rgWire'
  <2>1. CASE i <= Len(p)
    BY <1>6, <1>7, <2>1
  <2>2. CASE ~(i <= Len(p))
    BY <1>6, <1>7, <2>2
  <2> QED
    BY <2>1, <2>2
<1>9. Len(p) \in DOMAIN rgWire' /\ rgWire'[Len(p)] = n
  BY <1>6, <1>7
<1>10. \A j \in DOMAIN q : j + Len(p) \in DOMAIN rgWire' /\ rgWire'[j + Len(p)] = q[j]
  BY <1>6, <1>7
<1>11. RGTypes'
  BY <1>1, <1>2, <1>3, <1>7 DEF RGTypes
<1>12. \A i \in DOMAIN q : ~q[i].initial /\ q[i].session = session
  BY DEF RGInv, RGDeferredInv, RGDeferredAreLater, q
<1>13. session # 0 /\ registration[session] = "done"
  BY <1>1 DEF RGInv, RGSessionInv, RGSubscriptionIsOfSession
<1>14. RGSessionInv'
  <2>1. RGWireIsOfSession'
    BY <1>1, <1>4, <1>8, <1>12, <1>13 DEF RGInv, RGSessionInv, RGWireIsOfSession
  <2> QED
    BY <1>1, <1>3, <2>1 DEF RGInv, RGSessionInv, RGSessionIsLast, RGLaterIsNone,
       RGSubscriptionIsOfSession, RGEntryIsDone
<1>15. RGErrorsInv' /\ RGRemoveInv'
  BY <1>1, RGErrorsStay, RGRemoveStays DEF RGInv
<1>16. RGDeferredInv'
  BY <1>1, <1>3, RGEmptyTells DEF RGInv, RGDeferredInv, RGDeferredAreLater, RGDeferredIsTrue
<1>17. RGOnceIsOfEntry' /\ RGOnceIsOver'
  BY <1>1 DEF RGInv, RGLiveInv, RGOnceIsOfEntry, RGOnceIsOver
<1>18. CASE ~RGLive
  <2>1. ~RGLive'
    BY <1>1, <1>18 DEF RGLive
  <2> QED
    BY <1>11, <1>14, <1>15, <1>16, <1>17, <2>1, RGNotLiveKeeps DEF RGInv
<1>19. CASE RGLive
  <2>1. rgWire = <<>> /\ ~rgEntry.updatedOnce
    BY <1>1, <1>19 DEF RGInv, RGLiveInv, RGLiveWaits
  <2>2. Len(p) = 1 /\ DOMAIN rgWire = {}
    BY <1>6, <2>1, RGEmptyTells
  <2>3. rgWire' # <<>> /\ Head(rgWire') = n
    BY <1>7, <1>9, <2>2, RGEmptyTells, RGElementsOf
  <2>4. \A a \in rgApp : RGTells(n, a)
    BY <1>4 DEF RGTells
  <2>5. RGLiveInv'
    <3>1. RGLiveLater'
      BY <1>1, <1>8, <1>12, <2>1, <2>2 DEF RGLiveLater
    <3>2. RGLiveIsSubscribed' /\ RGLiveWaits'
      BY <1>1, <1>3, <1>19 DEF RGInv, RGLiveInv, RGLiveIsSubscribed, RGLiveWaits, RGLive
    <3>3. RGLiveFirst'
      BY <1>4, <2>3 DEF RGLiveFirst
    <3> QED
      BY <1>17, <3>1, <3>2, <3>3 DEF RGLiveInv
  <2>6. \A a \in rgApp : ~RGUntold(rgWire', a)
    BY <1>9, <2>4 DEF RGUntold
  <2>7. RGErrorsAreTrue' /\ RGWritesAreTrue' /\ RGRowsAreTrue'
    <3>1. ASSUME NEW a \in rgApp
          PROVE  ~RGUntold(rgWire, a)'
      BY <2>6 DEF RGUntold
    <3> QED
      BY <3>1 DEF RGErrorsAreTrue, RGWritesAreTrue, RGRowsAreTrue
  <2>8. RGWireIsTrue'
    <3> SUFFICES ASSUME NEW a \in rgApp, NEW i \in DOMAIN rgWire', RGIsLastOf(rgWire', i, a)
                 PROVE  RGSays(rgWire'[i], a) = rgApps'[a]
      BY DEF RGWireIsTrue, RGIsLastOf, RGSays
    <3>1. CASE i = Len(p) /\ rgWire'[i] = n
      <4>1. \A j \in DOMAIN q : ~RGTells(q[j], a)
        <5> TAKE j \in DOMAIN q
        <5>1. j + Len(p) \in DOMAIN rgWire' /\ rgWire'[j + Len(p)] = q[j] /\ j + Len(p) > i
          BY <1>6, <1>7, <1>10, <3>1
        <5> QED
          BY <5>1 DEF RGIsLastOf
      <4>2. a \in subscription.asked \/ rgApps[a] = 0
        BY <1>1, <1>19, <4>1 DEF RGInv, RGDeferredInv, RGDeferredIsTrue, RGUntold, q
      <4>3. RGSays(n, a) = rgApps[a]
        BY <1>4, <4>2 DEF RGSays
      <4> QED
        BY <1>1, <3>1, <4>3
    <3>2. CASE i > Len(p) /\ i - Len(p) \in DOMAIN q /\ rgWire'[i] = q[i - Len(p)]
      <4>1. RGIsLastOf(q, i - Len(p), a)
        <5>1. ASSUME NEW j \in DOMAIN q, j > i - Len(p)
              PROVE  ~RGTells(q[j], a)
          <6>1. j + Len(p) \in DOMAIN rgWire' /\ rgWire'[j + Len(p)] = q[j] /\ j + Len(p) > i
            BY <1>6, <1>7, <1>10, <5>1
          <6> QED
            BY <6>1 DEF RGIsLastOf
        <5> QED
          BY <3>2, <5>1 DEF RGIsLastOf
      <4>2. RGSays(q[i - Len(p)], a) = rgApps[a]
        BY <1>1, <1>19, <3>2, <4>1 DEF RGInv, RGDeferredInv, RGDeferredIsTrue, q
      <4> QED
        BY <1>1, <3>2, <4>2
    <3>3. i \notin DOMAIN rgWire
      BY <2>2
    <3> QED
      BY <1>8, <3>1, <3>2, <3>3
  <2> QED
    BY <1>11, <1>14, <1>15, <1>16, <2>5, <2>7, <2>8 DEF RGInv, RGTruthInv
<1> QED
  BY <1>18, <1>19

(* A connection is made and breaks: nothing of the old one is left. *)
LEMMA RGConnectStep ==
  ASSUME RGInv, RG!Connect
  PROVE  RGInv'
<1>1. /\ session = 0 /\ sessions < MaxSessions /\ session' = sessions + 1
           /\ sessions' = sessions + 1
      /\ UNCHANGED <<rgApps, subscription, rgWire, registration, rgEntry, held, rgSaves, rgWrites,
                     removing,
                     db, overtaken, orphaned>>
  BY DEF RG!Connect, RG!ghosts
<1>2. RGTypes /\ sessions \in Nat /\ MaxSessions \in Nat
  BY DEF RGInv, RGTypes, RGSessionInv, RGSessionIsLast
<1>3. RGTypes'
  BY <1>1, <1>2 DEF RGTypes
<1>4. session' \in RG!Session /\ session' > sessions /\ session' # 0
  BY <1>1, <1>2 DEF RG!Session
<1>5. registration[session'] = "none"
  BY <1>4 DEF RGInv, RGSessionInv, RGLaterIsNone
<1>6. RGSessionInv'
  <2>1. RGSessionIsLast'
    BY <1>1, <1>2 DEF RGSessionIsLast
  <2>2. RGLaterIsNone'
    <3> SUFFICES ASSUME NEW s \in RG!Session, s > sessions'
                 PROVE  registration'[s] = "none"
      BY DEF RGLaterIsNone, RG!Session
    <3>1. s > sessions
      BY <1>1, <1>2, RGSessionsAre DEF RG!Session
    <3> QED
      BY <1>1, <3>1 DEF RGInv, RGSessionInv, RGLaterIsNone
  <2>3. RGWireIsOfSession'
    BY <1>1 DEF RGInv, RGSessionInv, RGWireIsOfSession
  <2>4. RGSubscriptionIsOfSession'
    BY <1>1 DEF RGInv, RGSessionInv, RGSubscriptionIsOfSession
  <2>5. RGEntryIsDone'
    BY <1>1 DEF RGInv, RGSessionInv, RGEntryIsDone, RG!Session
  <2> QED
    BY <2>1, <2>2, <2>3, <2>4, <2>5 DEF RGSessionInv
<1>7. ~RGLive'
  BY <1>1, <1>4, <1>5 DEF RGLive, RGInv, RGSessionInv, RGEntryIsDone
<1>8. RGOnceIsOfEntry' /\ RGOnceIsOver'
  BY <1>1, <1>5 DEF RGInv, RGLiveInv, RGOnceIsOfEntry, RGOnceIsOver
<1>9. RGDeferredAreLater'
  <2>1. subscription.deferred = <<>>
    BY <1>1 DEF RGInv, RGSessionInv, RGSubscriptionIsOfSession, RGDeferredInv,
       RGDeferredAreLater
  <2> QED
    BY <1>1, <2>1, RGEmptyTells DEF RGDeferredAreLater
<1>10. RGErrorsAreHeld' /\ RGErrorsAreSingle'
  BY <1>1 DEF RGInv, RGErrorsInv, RGErrorsAreHeld, RGErrorsAreSingle, RGIsErrors, RG!Session
<1>11. RGRemoveInv'
  BY <1>1, RGRemoveStays DEF RGInv
<1> QED
  BY <1>3, <1>6, <1>7, <1>8, <1>9, <1>10, <1>11, RGNotLiveKeeps DEF RGInv, RGDeferredInv,
     RGErrorsInv

LEMMA RGDisconnectStep ==
  ASSUME RGInv, RG!Disconnect
  PROVE  RGInv'
<1>1. /\ session' = 0 /\ subscription' = RG!NoSubscription /\ rgWire' = <<>>
      /\ UNCHANGED <<rgApps, sessions, registration, rgEntry, held, rgSaves, rgWrites, removing,
                     db, overtaken, orphaned>>
  BY DEF RG!Disconnect, RG!ghosts
<1>2. RGTypes
  BY DEF RGInv
<1>3. /\ RG!NoSubscription \in [session : Nat, asked : SUBSET rgApp, initialFinished : BOOLEAN,
                             deferred : Seq(RGNotices)]
      /\ RG!NoSubscription.session = 0 /\ RG!NoSubscription.deferred = <<>>
  BY RGEmptyTells DEF RG!NoSubscription
<1>4. rgWire' \in Seq(RGNotices) /\ \A i : i \notin DOMAIN rgWire'
  BY <1>1, RGEmptyTells
<1>5. RGTypes'
  BY <1>1, <1>2, <1>3, <1>4 DEF RGTypes
<1>6. RGSessionInv'
  <2>1. RGSessionIsLast'
    BY <1>1, <1>2 DEF RGInv, RGSessionInv, RGSessionIsLast, RGTypes
  <2>2. RGLaterIsNone' /\ RGEntryIsDone'
    BY <1>1 DEF RGInv, RGSessionInv, RGLaterIsNone, RGEntryIsDone, RG!Session
  <2>3. RGWireIsOfSession'
    BY <1>4 DEF RGWireIsOfSession
  <2>4. RGSubscriptionIsOfSession'
    BY <1>1, <1>3 DEF RGSubscriptionIsOfSession
  <2> QED
    BY <2>1, <2>2, <2>3, <2>4 DEF RGSessionInv
<1>7. ~RGLive' /\ RGOnceIsOver'
  BY <1>1 DEF RGLive, RGOnceIsOver
<1>8. RGOnceIsOfEntry'
  BY <1>1 DEF RGInv, RGLiveInv, RGOnceIsOfEntry
<1>9. RGDeferredAreLater'
  BY <1>1, <1>3, RGEmptyTells DEF RGDeferredAreLater
<1>10. RGErrorsAreHeld' /\ RGErrorsAreSingle'
  BY <1>1 DEF RGInv, RGErrorsInv, RGErrorsAreHeld, RGErrorsAreSingle, RGIsErrors, RG!Session
<1>11. RGRemoveInv'
  BY <1>1, RGRemoveStays DEF RGInv
<1> QED
  BY <1>5, <1>6, <1>7, <1>8, <1>9, <1>10, <1>11, RGNotLiveKeeps DEF RGInv, RGDeferredInv,
     RGErrorsInv

(* A registration takes its next step, before it is saved. *)
LEMMA RGRegistrationMoves ==
  ASSUME RGInv, NEW s \in RG!Session, NEW stage \in {"read", "destroy", "destroyed", "save"},
         registration[s] \in {"none", "read", "destroy", "destroyed"},
         registration[s] = "none" => s = session,
         registration' = [registration EXCEPT ![s] = stage],
         UNCHANGED <<rgApps, session, sessions, rgWire, subscription, held, rgWrites, removing, db,
                     overtaken, orphaned>>,
         \/ rgEntry' = rgEntry /\ registration[s] # "none"
         \/ rgEntry' = RG!NoEntry,
         NEW w \in [kind : RGKept, of : Nat], rgSaves' \subseteq rgSaves \union {w},
         w.kind = "save" => w.of = s /\ stage = "save"
  PROVE  RGInv'
<1>1. RGTypes
  BY DEF RGInv
<1>2. /\ registration' \in [RG!Session -> RGSteps] /\ registration'[s] = stage
      /\ \A t \in RG!Session : t # s => registration'[t] = registration[t]
      /\ \A t \in RG!Session : registration'[t] = "done" <=> registration[t] = "done"
      /\ \A t \in RG!Session : registration'[t] = "saved" <=> registration[t] = "saved"
      /\ \A t \in RG!Session : registration'[t] = "none" => registration[t] = "none"
  BY <1>1 DEF RGTypes, RGSteps
<1>3. /\ RG!NoEntry \in [session : Nat, updatedOnce : BOOLEAN] /\ RG!NoEntry.session = 0
      /\ RG!NoEntry.updatedOnce = FALSE
  BY DEF RG!NoEntry
<1>4. RGTypes'
  <2>1. rgEntry' \in [session : Nat, updatedOnce : BOOLEAN]
    BY <1>1, <1>3 DEF RGTypes
  <2>2. rgSaves' \subseteq [kind : RGKept, of : Nat]
    BY <1>1 DEF RGTypes
  <2> QED
    BY <1>1, <1>2, <2>1, <2>2 DEF RGTypes
<1>5. session # 0 => session \in RG!Session
  BY <1>1, RGSessionsAre DEF RGInv, RGSessionInv, RGTypes
<1>6. RGSessionInv'
  <2>1. RGSessionIsLast'
    BY DEF RGInv, RGSessionInv, RGSessionIsLast
  <2>2. RGLaterIsNone'
    <3> SUFFICES ASSUME NEW t \in RG!Session, t > sessions
                 PROVE  registration'[t] = "none"
      BY DEF RGLaterIsNone, RG!Session
    <3>1. registration[t] = "none"
      BY DEF RGInv, RGSessionInv, RGLaterIsNone
    <3>2. t # s
      BY <3>1, <1>1 DEF RGInv, RGSessionInv, RGSessionIsLast, RGTypes, RG!Session
    <3> QED
      BY <1>2, <3>1, <3>2
  <2>3. RGWireIsOfSession' /\ RGSubscriptionIsOfSession'
    BY <1>1, <1>2, <1>5 DEF RGInv, RGSessionInv, RGWireIsOfSession, RGSubscriptionIsOfSession,
       RGTypes
  <2>4. RGEntryIsDone'
    BY <1>2, <1>3 DEF RGInv, RGSessionInv, RGEntryIsDone, RG!Session
  <2> QED
    BY <2>1, <2>2, <2>3, <2>4 DEF RGSessionInv
<1>7. RGOnceIsOfEntry' /\ RGOnceIsOver'
  <2>1. CASE rgEntry' = RG!NoEntry
    BY <1>3, <2>1 DEF RGOnceIsOfEntry, RGOnceIsOver
  <2>2. CASE rgEntry' = rgEntry /\ registration[s] # "none"
    <3>1. RGOnceIsOfEntry'
      BY <2>2 DEF RGInv, RGLiveInv, RGOnceIsOfEntry
    <3>2. ASSUME rgEntry.updatedOnce, session # 0
          PROVE  registration'[session] \in {"none", "done"}
      <4>1. registration[session] \in {"none", "done"}
        BY <3>2 DEF RGInv, RGLiveInv, RGOnceIsOver
      <4>2. session # s
        BY <2>2, <4>1
      <4> QED
        BY <1>2, <1>5, <3>2, <4>1, <4>2
    <3> QED
      BY <2>2, <3>1, <3>2 DEF RGOnceIsOver
  <2> QED
    BY <2>1, <2>2
<1>8. RGLiveInv' /\ RGDeferredIsTrue' /\ RGNoErrorsYet' /\ RGOwnErrorsAreLast' /\ RGTruthInv'
  <2>1. CASE rgEntry' = RG!NoEntry
    <3>1. ~RGLive'
      BY <1>3, <2>1 DEF RGLive
    <3> QED
      BY <1>7, <3>1, RGNotLiveKeeps
  <2>2. CASE rgEntry' = rgEntry
    <3>1. RGLiveInv'
      BY <1>7, <2>2 DEF RGInv, RGLiveInv, RGLiveIsSubscribed, RGLiveWaits, RGLiveFirst,
         RGLiveLater, RGLive
    <3>2. RGDeferredInv' /\ RGTruthInv'
      BY <2>2, RGDeferredStays, RGTruthStays DEF RGInv
    <3>3. RGErrorsInv'
      BY <1>2, <2>2, RGErrorsStay DEF RGInv
    <3> QED
      BY <3>1, <3>2, <3>3 DEF RGDeferredInv, RGErrorsInv
  <2> QED
    BY <2>1, <2>2
<1>9. RGDeferredAreLater'
  BY DEF RGInv, RGDeferredInv, RGDeferredAreLater
<1>10. RGErrorsAreHeld' /\ RGErrorsAreSingle'
  BY <1>2 DEF RGInv, RGErrorsInv, RGErrorsAreHeld, RGErrorsAreSingle, RGIsErrors, RG!Session
<1>11. RGRemoveInv'
  <2>1. RGSaveIsAsked'
    <3>1. ASSUME NEW i \in DOMAIN rgWrites, rgWrites[i].kind = "save"
          PROVE  rgWrites[i].of \in RG!Session
            /\ registration'[rgWrites[i].of] \in {"save", "saved", "done"}
      BY <1>2, <3>1 DEF RGInv, RGRemoveInv, RGSaveIsAsked
    <3>2. ASSUME NEW v \in rgSaves', v.kind = "save"
          PROVE  v.of \in RG!Session /\ registration'[v.of] \in {"save", "saved", "done"}
      <4>1. CASE v \in rgSaves
        BY <1>2, <3>2, <4>1 DEF RGInv, RGRemoveInv, RGSaveIsAsked
      <4>2. CASE v = w
        BY <1>2, <3>2, <4>2
      <4> QED
        BY <4>1, <4>2
    <3> QED
      BY <3>1, <3>2 DEF RGSaveIsAsked, RG!Session
  <2>2. RGRemoveIsAlone'
    <3> SUFFICES ASSUME ~orphaned, NEW i \in DOMAIN rgWrites, RGIsRemove(i)
                 PROVE  /\ rgEntry'.session = 0 /\ held = {}
                        /\ \A t \in RG!Session : registration'[t] # "saved"
                        /\ \A j \in DOMAIN rgWrites : j > i => rgWrites[j].kind \notin RGNoted
                        /\ \A j \in DOMAIN rgWrites : j < i /\ rgWrites[j].kind = "save" =>
                             registration'[rgWrites[j].of] # "save"
      BY DEF RGRemoveIsAlone, RGIsRemove, RG!Session
    <3>1. /\ rgEntry.session = 0 /\ held = {}
          /\ \A t \in RG!Session : registration[t] # "saved"
          /\ \A j \in DOMAIN rgWrites : j > i => rgWrites[j].kind \notin RGNoted
          /\ \A j \in DOMAIN rgWrites : j < i /\ rgWrites[j].kind = "save" =>
               registration[rgWrites[j].of] # "save"
      BY DEF RGInv, RGRemoveInv, RGRemoveIsAlone
    <3>2. ASSUME NEW j \in DOMAIN rgWrites, j < i, rgWrites[j].kind = "save"
          PROVE  registration'[rgWrites[j].of] # "save"
      <4>1. rgWrites[j].of \in RG!Session
              /\ registration[rgWrites[j].of] \in {"save", "saved", "done"}
        BY <3>2 DEF RGInv, RGRemoveInv, RGSaveIsAsked
      <4>2. registration[rgWrites[j].of] # "save"
        BY <3>1, <3>2
      <4> QED
        BY <1>2, <4>1, <4>2
    <3> QED
      BY <1>2, <1>3, <3>1, <3>2
  <2>3. RGManagerIsThere'
    BY <1>2, <1>3 DEF RGInv, RGRemoveInv, RGManagerIsThere, RG!Session
  <2>4. RGGoneIsEmpty'
    BY DEF RGInv, RGRemoveInv, RGGoneIsEmpty
  <2> QED
    BY <2>1, <2>2, <2>3, <2>4 DEF RGRemoveInv
<1> QED
  BY <1>4, <1>6, <1>8, <1>9, <1>10, <1>11 DEF RGInv, RGDeferredInv, RGErrorsInv

LEMMA RGRegisterStep ==
  ASSUME RGInv, RG!Register
  PROVE  RGInv'
<1>1. /\ session # 0 /\ registration[session] = "none"
      /\ UNCHANGED <<rgApps, session, sessions, rgWire, subscription, held, rgWrites, removing, db,
                     overtaken, orphaned>>
  BY DEF RG!Register, RG!appManager, RG!ghosts
<1>2. session \in RG!Session /\ session \in Nat
  BY <1>1, RGSessionsAre DEF RGInv, RGSessionInv, RGTypes
<1> DEFINE w == RG!Write("destroy", session)
<1>3. w \in [kind : RGKept, of : Nat] /\ w.kind = "destroy"
  BY <1>2, RGWriteFacts DEF RGKept
<1> HIDE DEF w
<1>4. \/ /\ rgEntry' = RG!NoEntry /\ rgSaves' = rgSaves \union {w}
         /\ registration' = [registration EXCEPT ![session] = "destroy"]
      \/ /\ rgEntry' = RG!NoEntry /\ rgSaves' = rgSaves
         /\ registration' = [registration EXCEPT ![session] = "read"]
  BY DEF RG!Register, RG!SetStage, w
<1>5. rgSaves' \subseteq rgSaves \union {w} /\ rgEntry' = RG!NoEntry
  BY <1>4
<1>6. PICK stage \in {"read", "destroy", "destroyed", "save"} :
        registration' = [registration EXCEPT ![session] = stage]
  BY <1>4
<1> QED
  BY <1>1, <1>2, <1>3, <1>5, <1>6, RGRegistrationMoves

LEMMA RGDestroyTimesOutStep ==
  ASSUME RGInv, NEW s \in RG!Session, RG!DestroyTimesOut(s)
  PROVE  RGInv'
<1>1. /\ registration[s] = "destroy" /\ registration' = [registration EXCEPT ![s] = "destroyed"]
      /\ UNCHANGED <<rgApps, session, sessions, rgWire, subscription, rgEntry, held, rgSaves,
                     rgWrites,
                     removing, db, overtaken, orphaned>>
  BY DEF RG!DestroyTimesOut, RG!appManager, RG!ghosts, RG!SetStage
<1>2. /\ "destroyed" \in {"read", "destroy", "destroyed", "save"}
      /\ registration[s] \in {"none", "read", "destroy", "destroyed"} /\ registration[s] # "none"
  BY <1>1
<1>3. RG!Write("destroy", 0) \in [kind : RGKept, of : Nat] /\ RG!Write("destroy", 0).kind # "save"
  BY RGWriteFacts DEF RGKept
<1> QED
  BY <1>1, <1>2, <1>3, RGRegistrationMoves

LEMMA RGSaveRegistrationStep ==
  ASSUME RGInv, NEW s \in RG!Session, RG!SaveRegistration(s)
  PROVE  RGInv'
<1>1. /\ registration[s] \in {"read", "destroyed"}
      /\ registration' = [registration EXCEPT ![s] = "save"]
      /\ rgSaves' = rgSaves \union {RG!Write("save", s)}
      /\ UNCHANGED <<rgApps, session, sessions, rgWire, subscription, rgEntry, held, rgWrites,
                     removing, db, overtaken, orphaned>>
  BY DEF RG!SaveRegistration, RG!appManager, RG!ghosts, RG!SetStage
<1>2. s \in Nat
  BY RGSessionsAre DEF RGInv, RGSessionInv, RGTypes
<1>3. /\ RG!Write("save", s) \in [kind : RGKept, of : Nat] /\ RG!Write("save", s).of = s
  BY <1>2, RGWriteFacts DEF RGKept
<1>4. /\ "save" \in {"read", "destroy", "destroyed", "save"}
      /\ registration[s] \in {"none", "read", "destroy", "destroyed"} /\ registration[s] # "none"
  BY <1>1
<1> QED
  BY <1>1, <1>3, <1>4, RGRegistrationMoves

-----------------------------------------------------------------------------
(* A write of another kind than a notification's errors is queued. *)
LEMMA RGAppendedIs ==
  ASSUME RGTypes, NEW w \in RGWriteTypes, rgWrites' = Append(rgWrites, w)
  PROVE  /\ rgWrites' \in Seq(RGWriteTypes)
         /\ \A i \in DOMAIN rgWrites : i \in DOMAIN rgWrites' /\ rgWrites'[i] = rgWrites[i]
         /\ Len(rgWrites) + 1 \in DOMAIN rgWrites' /\ rgWrites'[Len(rgWrites) + 1] = w
         /\ \A i \in DOMAIN rgWrites' : i \in DOMAIN rgWrites \/ i = Len(rgWrites) + 1
         /\ \A i \in DOMAIN rgWrites : i # Len(rgWrites) + 1 /\ ~(i > Len(rgWrites) + 1)
<1>1. rgWrites \in Seq(RGWriteTypes)
  BY DEF RGTypes
<1> QED
  BY <1>1, RGAppended

LEMMA RGOtherAppended ==
  ASSUME RGInv, NEW w \in RGWriteTypes, w.kind # "errors", rgWrites' = Append(rgWrites, w),
         UNCHANGED <<registration, held, rgEntry, session>>
  PROVE  RGErrorsInv' /\ (\A i : RGIsErrors(i)' <=> RGIsErrors(i)) /\ (RGOwnErrors' <=> RGOwnErrors)
<1>1. /\ \A i \in DOMAIN rgWrites : i \in DOMAIN rgWrites' /\ rgWrites'[i] = rgWrites[i]
      /\ rgWrites'[Len(rgWrites) + 1] = w
      /\ \A i \in DOMAIN rgWrites' : i \in DOMAIN rgWrites \/ i = Len(rgWrites) + 1
  BY RGAppendedIs DEF RGInv
<1>2. \A i : (i \in DOMAIN rgWrites' /\ rgWrites'[i].kind = "errors") <=> RGIsErrors(i)
  BY <1>1 DEF RGIsErrors
<1>3. \A i : RGIsErrors(i) => i \in DOMAIN rgWrites /\ i \in DOMAIN rgWrites'
        /\ rgWrites'[i] = rgWrites[i]
  BY <1>1 DEF RGIsErrors
<1>4. \A i : RGIsErrors(i)' <=> RGIsErrors(i)
  BY <1>2 DEF RGIsErrors
<1>5. RGOwnErrors' <=> RGOwnErrors
  BY <1>2, <1>3 DEF RGOwnErrors, RGIsErrors
<1>6. RGErrorsAreHeld'
  BY <1>2, <1>3 DEF RGInv, RGErrorsInv, RGErrorsAreHeld, RGIsErrors, RG!Session
<1>7. RGErrorsAreSingle'
  BY <1>2, <1>3 DEF RGInv, RGErrorsInv, RGErrorsAreSingle, RGIsErrors
<1>8. RGNoErrorsYet'
  BY <1>2, <1>3 DEF RGInv, RGErrorsInv, RGNoErrorsYet, RGIsErrors, RGLive
<1>9. RGOwnErrorsAreLast'
  <2> SUFFICES ASSUME RGLive, rgEntry.updatedOnce, NEW i \in DOMAIN rgWrites', RGIsErrors(i)
               PROVE  \/ rgWrites'[i].of.session = session
                      \/ \E j \in DOMAIN rgWrites' :
                           j > i /\ RGIsErrors(j) /\ rgWrites'[j].of.session = session
    BY <1>2 DEF RGOwnErrorsAreLast, RGLive, RGIsErrors
  <2> QED
    BY <1>3 DEF RGInv, RGErrorsInv, RGOwnErrorsAreLast
<1> QED
  BY <1>4, <1>5, <1>6, <1>7, <1>8, <1>9 DEF RGErrorsInv

(* The stores have seen the host: its write is queued. *)
LEMMA RGSeenHostsStep ==
  ASSUME RGInv, NEW w \in rgSaves, RG!SeenHosts(w)
  PROVE  RGInv'
<1>1. /\ rgSaves' = rgSaves \ {w} /\ rgWrites' = Append(rgWrites, w)
      /\ UNCHANGED <<rgApps, session, sessions, rgWire, subscription, registration, rgEntry, held,
                     removing, db, overtaken, orphaned>>
  BY DEF RG!SeenHosts, RG!appManager, RG!ghosts
<1>2. RGTypes
  BY DEF RGInv
<1>3. w \in [kind : RGKept, of : Nat]
  BY <1>2 DEF RGTypes
<1>4. w \in RGWriteTypes /\ w.kind \in RGKept
  BY <1>3 DEF RGWriteTypes
<1>5. w.kind \notin RGNoted /\ w.kind # "errors" /\ w.kind # "changes" /\ w.kind # "remove"
  BY <1>4 DEF RGKept, RGNoted
<1>6. /\ rgWrites' \in Seq(RGWriteTypes)
      /\ \A i \in DOMAIN rgWrites : i \in DOMAIN rgWrites' /\ rgWrites'[i] = rgWrites[i]
      /\ rgWrites'[Len(rgWrites) + 1] = w
      /\ \A i \in DOMAIN rgWrites' : i \in DOMAIN rgWrites \/ i = Len(rgWrites) + 1
      /\ \A i \in DOMAIN rgWrites : i # Len(rgWrites) + 1 /\ ~(i > Len(rgWrites) + 1)
  BY <1>1, <1>2, <1>4, RGAppendedIs
<1>7. RGTypes'
  BY <1>1, <1>2, <1>6 DEF RGTypes
<1>8. RGSessionInv' /\ RGLiveInv' /\ RGDeferredInv'
  BY <1>1, RGLiveStays, RGDeferredStays DEF RGInv, RGSessionInv, RGSessionIsLast, RGLaterIsNone,
     RGWireIsOfSession, RGSubscriptionIsOfSession, RGEntryIsDone, RG!Session
<1>9. RGErrorsInv' /\ (\A i : RGIsErrors(i)' <=> RGIsErrors(i)) /\ (RGOwnErrors' <=> RGOwnErrors)
  BY <1>1, <1>4, <1>5, RGOtherAppended
<1>10. RGTruthInv'
  <2>1. RGWireIsTrue'
    BY <1>1 DEF RGInv, RGTruthInv, RGWireIsTrue, RGTrusted, RGLive, RGIsLastOf
  <2>2. RGErrorsAreTrue'
    <3> SUFFICES ASSUME RGTrusted, NEW a \in rgApp, RGUntold(rgWire, a), NEW i \in DOMAIN rgWrites',
                        RGIsErrors(i), rgWrites'[i].of.session = session
                 PROVE  RGSays(rgWrites'[i].of, a) = rgApps[a]
      BY <1>1, <1>9 DEF RGErrorsAreTrue, RGTrusted, RGLive, RGUntold
    <3>1. i \in DOMAIN rgWrites /\ rgWrites'[i] = rgWrites[i]
      BY <1>6 DEF RGIsErrors
    <3> QED
      BY <3>1 DEF RGInv, RGTruthInv, RGErrorsAreTrue
  <2>3. ASSUME NEW a \in rgApp
        PROVE  /\ RGUnwritten(rgWrites', a) <=> RGUnwritten(rgWrites, a)
               /\ \A i : RGIsLastWrite(rgWrites', i, a) =>
                    RGIsLastWrite(rgWrites, i, a) /\ rgWrites'[i] = rgWrites[i]
    <3>1. rgWrites \in Seq(RGWriteTypes) /\ ~RGTellsWrite(w, a)
      BY <1>2, <1>5 DEF RGTypes, RGTellsWrite
    <3> QED
      BY <1>1, <1>4, <3>1, RGLastWriteAppended
  <2>4. RGWritesAreTrue'
    <3> SUFFICES ASSUME RGTrusted, ~RGOwnErrors, NEW a \in rgApp, RGUntold(rgWire, a),
                        NEW i \in DOMAIN rgWrites', RGIsLastWrite(rgWrites', i, a)
                 PROVE  RGSays(rgWrites'[i].of, a) = rgApps[a]
      BY <1>1, <1>9 DEF RGWritesAreTrue, RGTrusted, RGLive, RGUntold, RGIsLastWrite
    <3>1. RGIsLastWrite(rgWrites, i, a) /\ rgWrites'[i] = rgWrites[i] /\ i \in DOMAIN rgWrites
      BY <2>3 DEF RGIsLastWrite
    <3> QED
      BY <3>1 DEF RGInv, RGTruthInv, RGWritesAreTrue
  <2>5. RGRowsAreTrue'
    <3> SUFFICES ASSUME RGTrusted, ~RGOwnErrors, NEW a \in rgApp, RGUntold(rgWire, a),
                        RGUnwritten(rgWrites', a)
                 PROVE  db.rows[a] = rgApps[a]
      BY <1>1, <1>9 DEF RGRowsAreTrue, RGTrusted, RGLive, RGUntold, RGUnwritten
    <3> QED
      BY <2>3 DEF RGInv, RGTruthInv, RGRowsAreTrue
  <2> QED
    BY <2>1, <2>2, <2>4, <2>5 DEF RGTruthInv
<1>11. RGRemoveInv'
  <2>1. RGSaveIsAsked'
    <3>1. w.kind = "save" => w.of \in RG!Session /\ registration[w.of] \in {"save", "saved", "done"}
      BY DEF RGInv, RGRemoveInv, RGSaveIsAsked
    <3> QED
      BY <1>1, <1>6, <3>1 DEF RGInv, RGRemoveInv, RGSaveIsAsked, RG!Session
  <2>2. RGRemoveIsAlone'
    <3> SUFFICES ASSUME ~orphaned, NEW i \in DOMAIN rgWrites', rgWrites'[i].kind = "remove"
                 PROVE  /\ rgEntry.session = 0 /\ held = {}
                        /\ \A t \in RG!Session : registration[t] # "saved"
                        /\ \A j \in DOMAIN rgWrites' : j > i => rgWrites'[j].kind \notin RGNoted
                        /\ \A j \in DOMAIN rgWrites' : j < i /\ rgWrites'[j].kind = "save" =>
                             registration[rgWrites'[j].of] # "save"
      BY <1>1 DEF RGRemoveIsAlone, RGIsRemove, RG!Session
    <3>1. i \in DOMAIN rgWrites /\ RGIsRemove(i)
      BY <1>5, <1>6 DEF RGIsRemove
    <3>2. /\ rgEntry.session = 0 /\ held = {}
          /\ \A t \in RG!Session : registration[t] # "saved"
          /\ \A j \in DOMAIN rgWrites : j > i => rgWrites[j].kind \notin RGNoted
          /\ \A j \in DOMAIN rgWrites : j < i /\ rgWrites[j].kind = "save" =>
               registration[rgWrites[j].of] # "save"
      BY <3>1 DEF RGInv, RGRemoveInv, RGRemoveIsAlone
    <3>3. ASSUME NEW j \in DOMAIN rgWrites', j > i
          PROVE  rgWrites'[j].kind \notin RGNoted
      BY <1>5, <1>6, <3>2, <3>3
    <3>4. ASSUME NEW j \in DOMAIN rgWrites', j < i, rgWrites'[j].kind = "save"
          PROVE  registration[rgWrites'[j].of] # "save"
      <4>1. j # Len(rgWrites) + 1
        <5>1. rgWrites \in Seq(RGWriteTypes)
          BY <1>2 DEF RGTypes
        <5>2. i <= Len(rgWrites) /\ Len(rgWrites) \in Nat /\ i \in Nat
          BY <3>1, <5>1
        <5> QED
          BY <3>4, <5>2
      <4> QED
        BY <1>6, <3>2, <3>4, <4>1
    <3> QED
      BY <3>2, <3>3, <3>4
  <2>3. RGManagerIsThere'
    BY <1>1 DEF RGInv, RGRemoveInv, RGManagerIsThere, RG!Session
  <2>4. RGGoneIsEmpty'
    BY <1>1, <1>5, <1>6 DEF RGInv, RGRemoveInv, RGGoneIsEmpty
  <2> QED
    BY <2>1, <2>2, <2>3, <2>4 DEF RGRemoveInv
<1> QED
  BY <1>7, <1>8, <1>9, <1>10, <1>11 DEF RGInv

(* The registration is saved, and its connection, if it still stands, is subscribed to. *)
LEMMA RGSubscribeChangesStep ==
  ASSUME RGInv, NEW s \in RG!Session, RG!SubscribeChanges(s)
  PROVE  RGInv'
<1> DEFINE asks == {a \in rgApp : rgApps[a] # 0}
           new == [RG!NoSubscription EXCEPT !.session = s, !.asked = asks]
<1>1. /\ registration[s] = "saved" /\ registration' = [registration EXCEPT ![s] = "done"]
      /\ rgEntry' = [rgEntry EXCEPT !.session = s]
      /\ subscription' = IF s = session THEN new ELSE subscription
      /\ UNCHANGED <<rgApps, session, sessions, rgWire, held, rgSaves, rgWrites, removing, db,
                     overtaken,
                     orphaned>>
  BY DEF RG!SubscribeChanges, RG!SetStage, RG!ghosts
<1>2. RGTypes
  BY DEF RGInv
<1>3. s \in Nat /\ s # 0
  BY <1>2, RGSessionsAre DEF RGInv, RGSessionInv, RGTypes
<1>4. /\ registration' \in [RG!Session -> RGSteps] /\ registration'[s] = "done"
      /\ \A t \in RG!Session : t # s => registration'[t] = registration[t]
      /\ \A t \in RG!Session : registration[t] = "done" => registration'[t] = "done"
      /\ \A t \in RG!Session : registration'[t] = "none" => registration[t] = "none"
      /\ \A t \in RG!Session : registration'[t] = "saved" => registration[t] = "saved"
  BY <1>1, <1>2 DEF RGTypes, RGSteps
<1>5. /\ rgEntry' \in [session : Nat, updatedOnce : BOOLEAN] /\ rgEntry'.session = s
      /\ rgEntry'.updatedOnce = rgEntry.updatedOnce
  BY <1>1, <1>2, <1>3 DEF RGTypes
<1>6. /\ new \in [session : Nat, asked : SUBSET rgApp, initialFinished : BOOLEAN,
                  deferred : Seq(RGNotices)]
      /\ new.session = s /\ new.asked = asks /\ new.initialFinished = FALSE /\ new.deferred = <<>>
  BY <1>3, RGEmptyTells DEF RG!NoSubscription
<1> HIDE DEF new
<1>7. RGTypes'
  <2>1. subscription' \in [session : Nat, asked : SUBSET rgApp, initialFinished : BOOLEAN,
                           deferred : Seq(RGNotices)]
    BY <1>1, <1>2, <1>6 DEF RGTypes
  <2> QED
    BY <1>1, <1>2, <1>4, <1>5, <2>1 DEF RGTypes
<1>8. session # 0 => session \in RG!Session
  BY <1>2, RGSessionsAre DEF RGInv, RGSessionInv, RGTypes
<1>9. RGSessionInv'
  <2>1. RGLaterIsNone'
    <3> SUFFICES ASSUME NEW t \in RG!Session, t > sessions
                 PROVE  registration'[t] = "none"
      BY <1>1 DEF RGLaterIsNone, RG!Session
    <3>1. registration[t] = "none" /\ t # s
      BY <1>1 DEF RGInv, RGSessionInv, RGLaterIsNone
    <3> QED
      BY <1>4, <3>1
  <2>2. RGWireIsOfSession'
    BY <1>1, <1>4, <1>8 DEF RGInv, RGSessionInv, RGWireIsOfSession
  <2>3. RGSubscriptionIsOfSession'
    BY <1>1, <1>4, <1>6, <1>8 DEF RGInv, RGSessionInv, RGSubscriptionIsOfSession
  <2>4. RGEntryIsDone'
    BY <1>4, <1>5 DEF RGEntryIsDone, RG!Session
  <2>5. RGSessionIsLast'
    BY <1>1 DEF RGInv, RGSessionInv, RGSessionIsLast
  <2> QED
    BY <2>1, <2>2, <2>3, <2>4, <2>5 DEF RGSessionInv
<1>10. RGOnceIsOfEntry' /\ RGOnceIsOver'
  BY <1>1, <1>3, <1>4, <1>5, <1>8 DEF RGInv, RGLiveInv, RGOnceIsOfEntry, RGOnceIsOver
<1>11. RGErrorsAreHeld' /\ RGErrorsAreSingle'
  BY <1>1, <1>4 DEF RGInv, RGErrorsInv, RGErrorsAreHeld, RGErrorsAreSingle, RGIsErrors,
     RG!Session
<1>12. RGDeferredAreLater'
  BY <1>1, <1>3, <1>6, RGEmptyTells DEF RGInv, RGDeferredInv, RGDeferredAreLater
<1>13. RGLiveInv' /\ RGDeferredIsTrue' /\ RGNoErrorsYet' /\ RGOwnErrorsAreLast' /\ RGTruthInv'
  <2>1. CASE s # session
    <3>1. ~RGLive'
      BY <1>1, <1>5, <2>1 DEF RGLive
    <3> QED
      BY <1>10, <3>1, RGNotLiveKeeps
  <2>2. CASE s = session
    <3>1. ~rgEntry.updatedOnce
      BY <1>1, <1>3, <2>2 DEF RGInv, RGLiveInv, RGOnceIsOver
    <3>2. rgWire = <<>>
      <4>1. rgWire \in Seq(RGNotices)
        BY <1>2 DEF RGTypes
      <4>2. \A i \in DOMAIN rgWire : FALSE
        BY <1>1, <2>2 DEF RGInv, RGSessionInv, RGWireIsOfSession
      <4> QED
        BY <4>1, <4>2, RGElementsOf
    <3>3. subscription' = new
      BY <1>1, <2>2
    <3>4. RGLiveInv'
      BY <1>1, <1>5, <1>6, <1>10, <2>2, <3>1, <3>2, <3>3, RGEmptyTells DEF RGLiveInv,
         RGLiveIsSubscribed, RGLiveWaits, RGLiveFirst, RGLiveLater, RGLive
    <3>5. RGDeferredIsTrue'
      BY <1>1, <1>6, <3>3, RGEmptyTells DEF RGDeferredIsTrue, RGUntold
    <3>6. RGNoErrorsYet'
      BY <1>1, <2>2 DEF RGInv, RGErrorsInv, RGErrorsAreHeld, RGNoErrorsYet, RGIsErrors
    <3>7. RGOwnErrorsAreLast'
      BY <1>5, <3>1 DEF RGOwnErrorsAreLast
    <3>8. RGTruthInv'
      BY <1>6, <3>3, RGNotTrustedIsTrue DEF RGTrusted
    <3> QED
      BY <3>4, <3>5, <3>6, <3>7, <3>8
  <2> QED
    BY <2>1, <2>2
<1>14. RGRemoveInv'
  <2>1. RGSaveIsAsked'
    BY <1>1, <1>4 DEF RGInv, RGRemoveInv, RGSaveIsAsked, RG!Session
  <2>2. RGRemoveIsAlone'
    BY <1>1 DEF RGInv, RGRemoveInv, RGRemoveIsAlone, RGIsRemove
  <2>3. RGManagerIsThere'
    BY <1>1 DEF RGInv, RGRemoveInv, RGManagerIsThere
  <2>4. RGGoneIsEmpty'
    BY <1>1 DEF RGInv, RGRemoveInv, RGGoneIsEmpty
  <2> QED
    BY <2>1, <2>2, <2>3, <2>4 DEF RGRemoveInv
<1> QED
  BY <1>7, <1>9, <1>11, <1>12, <1>13, <1>14 DEF RGInv, RGDeferredInv, RGErrorsInv

(* The element goes. *)
LEMMA RGEntryGoes ==
  ASSUME RGInv, rgEntry' = RG!NoEntry,
         UNCHANGED <<rgApps, session, sessions, rgWire, registration, held, rgWrites, db, overtaken,
                     orphaned>>,
         removing' \in BOOLEAN,
         subscription' = subscription \/ subscription' = RG!NoSubscription,
         NEW w \in [kind : RGKept, of : Nat], w.kind # "save", rgSaves' \subseteq rgSaves \union {w}
  PROVE  RGInv'
<1>1. RGTypes
  BY DEF RGInv
<1>2. /\ rgEntry' \in [session : Nat, updatedOnce : BOOLEAN] /\ rgEntry'.session = 0
      /\ rgEntry'.updatedOnce = FALSE
  BY DEF RG!NoEntry
<1>3. /\ RG!NoSubscription \in [session : Nat, asked : SUBSET rgApp, initialFinished : BOOLEAN,
                             deferred : Seq(RGNotices)]
      /\ RG!NoSubscription.session = 0 /\ RG!NoSubscription.deferred = <<>>
  BY RGEmptyTells DEF RG!NoSubscription
<1>4. RGTypes'
  <2>1. subscription' \in [session : Nat, asked : SUBSET rgApp, initialFinished : BOOLEAN,
                           deferred : Seq(RGNotices)]
    BY <1>1, <1>3 DEF RGTypes
  <2>2. rgSaves' \subseteq [kind : RGKept, of : Nat]
    BY <1>1 DEF RGTypes
  <2> QED
    BY <1>1, <1>2, <2>1, <2>2 DEF RGTypes
<1>5. RGSessionInv'
  BY <1>2, <1>3 DEF RGInv, RGSessionInv, RGSessionIsLast, RGLaterIsNone, RGWireIsOfSession,
     RGSubscriptionIsOfSession, RGEntryIsDone, RG!Session
<1>6. ~RGLive' /\ RGOnceIsOfEntry' /\ RGOnceIsOver'
  BY <1>2 DEF RGLive, RGOnceIsOfEntry, RGOnceIsOver
<1>7. RGDeferredAreLater'
  BY <1>3, RGEmptyTells DEF RGInv, RGDeferredInv, RGDeferredAreLater
<1>8. RGErrorsAreHeld' /\ RGErrorsAreSingle'
  BY DEF RGInv, RGErrorsInv, RGErrorsAreHeld, RGErrorsAreSingle, RGIsErrors, RG!Session
<1>9. RGRemoveInv'
  <2>1. RGSaveIsAsked'
    BY DEF RGInv, RGRemoveInv, RGSaveIsAsked, RG!Session
  <2>2. RGRemoveIsAlone'
    BY <1>2 DEF RGInv, RGRemoveInv, RGRemoveIsAlone, RGIsRemove, RG!Session
  <2>3. RGManagerIsThere'
    BY <1>2 DEF RGInv, RGRemoveInv, RGManagerIsThere, RG!Session
  <2>4. RGGoneIsEmpty'
    BY DEF RGInv, RGRemoveInv, RGGoneIsEmpty
  <2> QED
    BY <2>1, <2>2, <2>3, <2>4 DEF RGRemoveInv
<1> QED
  BY <1>4, <1>5, <1>6, <1>7, <1>8, <1>9, RGNotLiveKeeps DEF RGInv, RGDeferredInv, RGErrorsInv

LEMMA RGUnregisterStep ==
  ASSUME RGInv, RG!Unregister
  PROVE  RGInv'
<1>1. /\ rgEntry' = RG!NoEntry
           /\ rgSaves' = rgSaves \union {RG!Write("unregister", rgEntry.session)}
      /\ UNCHANGED <<rgApps, session, sessions, subscription, rgWire, registration, held, rgWrites,
                     removing, db, overtaken, orphaned>>
  BY DEF RG!Unregister, RG!appManager, RG!ghosts
<1>2. rgEntry.session \in Nat /\ removing' \in BOOLEAN
  BY <1>1 DEF RGInv, RGTypes
<1>3. /\ RG!Write("unregister", rgEntry.session) \in [kind : RGKept, of : Nat]
      /\ RG!Write("unregister", rgEntry.session).kind # "save"
  BY <1>2, RGWriteFacts DEF RGKept
<1> QED
  BY <1>1, <1>2, <1>3, RGEntryGoes

LEMMA RGRemoveStep ==
  ASSUME RGInv, RG!Remove
  PROVE  RGInv'
<1>1. /\ rgEntry' = RG!NoEntry /\ removing' = TRUE /\ rgSaves' = rgSaves
      /\ subscription' = subscription \/ subscription' = RG!NoSubscription
      /\ UNCHANGED <<rgApps, session, sessions, rgWire, registration, held, rgWrites, db, overtaken,
                     orphaned>>
  BY DEF RG!Remove, RG!ghosts
<1>2. RG!Write("destroy", 0) \in [kind : RGKept, of : Nat] /\ RG!Write("destroy", 0).kind # "save"
  BY RGWriteFacts DEF RGKept
<1> QED
  BY <1>1, <1>2, RGEntryGoes

(* The removal of the data is queued; what it may cross is noted. *)
LEMMA RGRemoveDataStep ==
  ASSUME RGInv, RG!RemoveData
  PROVE  RGInv'
<1> DEFINE w == RG!Write("remove", 0)
<1>1. /\ rgWrites' = Append(rgWrites, w) /\ removing' = FALSE
      /\ orphaned' = (orphaned \/ held # {} \/ rgEntry # RG!NoEntry
                        \/ \E s \in RG!Session : registration[s] \notin {"none", "done"})
      /\ UNCHANGED <<rgApps, session, sessions, subscription, rgWire, registration, rgEntry, held,
                     rgSaves,
                     db, overtaken>>
  BY DEF RG!RemoveData, RG!appManager
<1>2. RGTypes
  BY DEF RGInv
<1>3. w \in RGWriteTypes /\ w.kind = "remove"
  BY RGWriteFacts
<1>4. w.kind \notin RGNoted /\ w.kind # "errors" /\ w.kind # "save"
  BY <1>3 DEF RGNoted
<1> HIDE DEF w
<1>5. /\ rgWrites' \in Seq(RGWriteTypes)
      /\ \A i \in DOMAIN rgWrites : i \in DOMAIN rgWrites' /\ rgWrites'[i] = rgWrites[i]
      /\ rgWrites'[Len(rgWrites) + 1] = w
      /\ \A i \in DOMAIN rgWrites' : i \in DOMAIN rgWrites \/ i = Len(rgWrites) + 1
      /\ \A i \in DOMAIN rgWrites : i # Len(rgWrites) + 1 /\ ~(i > Len(rgWrites) + 1)
  BY <1>1, <1>2, <1>3, RGAppendedIs
<1>6. RGTypes'
  BY <1>1, <1>2, <1>5 DEF RGTypes
<1>7. RGSessionInv' /\ RGLiveInv' /\ RGDeferredInv'
  BY <1>1, RGLiveStays, RGDeferredStays DEF RGInv, RGSessionInv, RGSessionIsLast, RGLaterIsNone,
     RGWireIsOfSession, RGSubscriptionIsOfSession, RGEntryIsDone, RG!Session
<1>8. RGErrorsInv'
  BY <1>1, <1>3, <1>4, RGOtherAppended
<1>9. RGSaveIsAsked'
  BY <1>1, <1>4, <1>5 DEF RGInv, RGRemoveInv, RGSaveIsAsked, RG!Session
<1>10. CASE orphaned'
  <2>1. RGTruthInv'
    BY <1>10, RGNotTrustedIsTrue DEF RGTrusted
  <2>2. RGRemoveInv'
    BY <1>9, <1>10 DEF RGRemoveInv, RGRemoveIsAlone, RGManagerIsThere, RGGoneIsEmpty
  <2> QED
    BY <1>6, <1>7, <1>8, <2>1, <2>2 DEF RGInv
<1>11. CASE ~orphaned'
  <2>1. /\ ~orphaned /\ held = {} /\ rgEntry = RG!NoEntry
        /\ \A s \in RG!Session : registration[s] \in {"none", "done"}
    BY <1>1, <1>11
  <2>2. rgEntry.session = 0
    BY <2>1 DEF RG!NoEntry
  <2>3. RGTruthInv'
    BY <1>1, <2>2, RGNotTrustedIsTrue DEF RGTrusted, RGLive
  <2>4. RGRemoveIsAlone'
    <3> SUFFICES ASSUME NEW i \in DOMAIN rgWrites', rgWrites'[i].kind = "remove"
                 PROVE  /\ rgEntry.session = 0 /\ held = {}
                        /\ \A t \in RG!Session : registration[t] # "saved"
                        /\ \A j \in DOMAIN rgWrites' : j > i => rgWrites'[j].kind \notin RGNoted
                        /\ \A j \in DOMAIN rgWrites' : j < i /\ rgWrites'[j].kind = "save" =>
                             registration[rgWrites'[j].of] # "save"
      BY <1>1 DEF RGRemoveIsAlone, RGIsRemove, RG!Session
    <3>1. ASSUME NEW j \in DOMAIN rgWrites', j > i
          PROVE  rgWrites'[j].kind \notin RGNoted
      <4>1. CASE j = Len(rgWrites) + 1
        BY <1>4, <1>5, <4>1
      <4>2. CASE j \in DOMAIN rgWrites
        <5>1. i \in DOMAIN rgWrites
          <6>1. rgWrites \in Seq(RGWriteTypes)
            BY <1>2 DEF RGTypes
          <6>2. ~(j > Len(rgWrites) + 1)
            BY <1>5, <4>2
          <6>3. i # Len(rgWrites) + 1
            BY <3>1, <6>2
          <6> QED
            BY <1>5, <6>3
        <5>2. RGIsRemove(i)
          BY <1>5, <5>1 DEF RGIsRemove
        <5>3. rgWrites[j].kind \notin RGNoted
          BY <2>1, <3>1, <4>2, <5>1, <5>2 DEF RGInv, RGRemoveInv, RGRemoveIsAlone
        <5> QED
          BY <1>5, <4>2, <5>3
      <4> QED
        BY <1>5, <4>1, <4>2
    <3>2. ASSUME NEW j \in DOMAIN rgWrites', rgWrites'[j].kind = "save"
          PROVE  registration[rgWrites'[j].of] # "save"
      <4>1. j \in DOMAIN rgWrites /\ rgWrites'[j] = rgWrites[j]
        BY <1>4, <1>5, <3>2
      <4>2. rgWrites[j].of \in RG!Session
        BY <3>2, <4>1 DEF RGInv, RGRemoveInv, RGSaveIsAsked
      <4> QED
        BY <2>1, <4>1, <4>2
    <3> QED
      BY <2>1, <2>2, <3>1, <3>2
  <2>5. RGManagerIsThere'
    BY <1>1, <2>1, <2>2 DEF RGManagerIsThere, RG!Session
  <2>6. RGGoneIsEmpty'
    BY <1>1, <1>4, <1>5, <2>1 DEF RGInv, RGRemoveInv, RGGoneIsEmpty
  <2> QED
    BY <1>6, <1>7, <1>8, <1>9, <2>3, <2>4, <2>5, <2>6 DEF RGInv, RGRemoveInv
<1> QED
  BY <1>10, <1>11

(* A notification comes. *)
LEMMA RGNotificationComes ==
  ASSUME RGInv, RG!OnNotification
  PROVE  /\ RGTypes' /\ RGSessionInv' /\ RGLiveInv' /\ RGDeferredInv'
         /\ RGErrorsInv' /\ RGTruthInv'
<1> DEFINE n == Head(rgWire)
<1>1. /\ rgWire # <<>> /\ rgWire' = Tail(rgWire)
      /\ UNCHANGED <<rgApps, session, sessions, subscription, registration, rgSaves, removing, db,
                     orphaned>>
  BY DEF RG!OnNotification, RG!appManager
<1>2. \/ /\ n.session # rgEntry.session
         /\ UNCHANGED <<rgEntry, held, rgWrites, overtaken>>
      \/ /\ n.session = rgEntry.session /\ ~rgEntry.updatedOnce
         /\ rgEntry' = [rgEntry EXCEPT !.updatedOnce = TRUE] /\ held' = held \union {n}
         /\ rgWrites' = Append(rgWrites, RG!Write("errors", n)) /\ overtaken' = overtaken
      \/ /\ n.session = rgEntry.session /\ rgEntry.updatedOnce
         /\ rgWrites' = Append(rgWrites, RG!Write("changes", n))
         /\ overtaken' = IF \E h \in held : h.session = n.session
                         THEN overtaken \union {n.session} ELSE overtaken
         /\ UNCHANGED <<rgEntry, held>>
  BY DEF RG!OnNotification
<1>3. RGTypes /\ rgWire \in Seq(RGNotices)
  BY DEF RGInv, RGTypes
<1>4. /\ rgWire' \in Seq(RGNotices) /\ n = rgWire[1] /\ n \in RGNotices /\ 1 \in DOMAIN rgWire
      /\ \A i \in DOMAIN rgWire' : i \in Nat /\ i + 1 \in DOMAIN rgWire
           /\ rgWire'[i] = rgWire[i + 1]
  BY <1>1, <1>3, RGBehind
<1>5. n.session = session /\ session # 0 /\ registration[session] = "done"
  BY <1>4 DEF RGInv, RGSessionInv, RGWireIsOfSession
<1>6. session \in RG!Session
  BY <1>3, <1>5, RGSessionsAre DEF RGInv, RGSessionInv, RGTypes
<1>7. ASSUME NEW a \in rgApp
      PROVE  /\ RGUntold(rgWire', a) => RGUntold(rgWire, a) \/ RGIsLastOf(rgWire, 1, a)
             /\ \A i : RGIsLastOf(rgWire', i, a) =>
                  RGIsLastOf(rgWire, i + 1, a) /\ rgWire'[i] = rgWire[i + 1]
  BY <1>1, <1>3, RGLastBehind
<1> HIDE DEF n
<1>8. /\ RG!Write("errors", n) \in RGWriteTypes /\ RG!Write("errors", n).kind = "errors"
      /\ RG!Write("errors", n).of = n
      /\ RG!Write("changes", n) \in RGWriteTypes /\ RG!Write("changes", n).kind = "changes"
      /\ RG!Write("changes", n).of = n
  BY <1>4, RGWriteFacts DEF RGNoted
<1>9. rgEntry'.session = rgEntry.session /\ rgEntry' \in [session : Nat, updatedOnce : BOOLEAN]
  BY <1>2, <1>3 DEF RGTypes
<1>10. RGTypes'
  <2>1. held' \subseteq RGNotices
    BY <1>2, <1>3, <1>4 DEF RGTypes
  <2>2. rgWrites' \in Seq(RGWriteTypes)
    BY <1>2, <1>3, <1>8, RGAppendedIs DEF RGTypes
  <2> QED
    BY <1>1, <1>3, <1>4, <1>9, <2>1, <2>2 DEF RGTypes
<1>11. RGSessionInv'
  <2>1. RGWireIsOfSession'
    BY <1>1, <1>4, <1>5 DEF RGWireIsOfSession, RGInv, RGSessionInv
  <2> QED
    BY <1>1, <1>9, <2>1 DEF RGInv, RGSessionInv, RGSessionIsLast, RGLaterIsNone,
       RGSubscriptionIsOfSession, RGEntryIsDone, RG!Session
<1>12. RGDeferredInv'
  BY <1>1, <1>9 DEF RGInv, RGDeferredInv, RGDeferredAreLater, RGDeferredIsTrue, RGLive,
     RGUntold, RGIsLastOf
<1>13. (RGLive' <=> RGLive) /\ (RGLive <=> n.session = rgEntry.session)
  BY <1>1, <1>5, <1>9 DEF RGLive
<1>14. RGWireIsTrue'
  <2> SUFFICES ASSUME RGTrusted', NEW a \in rgApp, NEW i \in DOMAIN rgWire',
                      RGIsLastOf(rgWire', i, a)
               PROVE  RGSays(rgWire'[i], a) = rgApps[a]
    BY <1>1 DEF RGWireIsTrue, RGIsLastOf, RGSays
  <2>1. session \notin overtaken
    BY <1>1, <1>2 DEF RGTrusted
  <2>2. RGTrusted
    BY <1>1, <1>13, <2>1 DEF RGTrusted
  <2>3. RGIsLastOf(rgWire, i + 1, a) /\ rgWire'[i] = rgWire[i + 1] /\ i + 1 \in DOMAIN rgWire
    BY <1>7 DEF RGIsLastOf
  <2> QED
    BY <2>2, <2>3 DEF RGInv, RGTruthInv, RGWireIsTrue
<1>15. CASE n.session # rgEntry.session
  <2>1. UNCHANGED <<rgEntry, held, rgWrites, overtaken>> /\ ~RGLive'
    BY <1>2, <1>13, <1>15
  <2>2. RGOnceIsOfEntry' /\ RGOnceIsOver'
    BY <1>1, <2>1 DEF RGInv, RGLiveInv, RGOnceIsOfEntry, RGOnceIsOver
  <2>3. RGErrorsInv'
    BY <1>1, <2>1, RGErrorsStay DEF RGInv
  <2> QED
    BY <1>10, <1>11, <1>12, <2>1, <2>2, <2>3, RGNotLiveKeeps
<1>16. CASE n.session = rgEntry.session /\ ~rgEntry.updatedOnce
  <2>1. /\ rgEntry' = [rgEntry EXCEPT !.updatedOnce = TRUE] /\ held' = held \union {n}
        /\ rgWrites' = Append(rgWrites, RG!Write("errors", n)) /\ overtaken' = overtaken
    BY <1>2, <1>16
  <2>2. rgEntry'.updatedOnce = TRUE
    BY <1>3, <2>1 DEF RGTypes
  <2>3. RGLive /\ RGLive'
    BY <1>13, <1>16
  <2>4. subscription.initialFinished
    BY <1>1, <2>3 DEF RGInv, RGLiveInv, RGLiveWaits
  <2>5. n.initial
    BY <1>1, <1>3, <1>4, <1>16, <2>3, <2>4, RGElementsOf DEF RGInv, RGLiveInv, RGLiveFirst
  <2>6. RGLiveInv'
    <3>1. \A i \in DOMAIN rgWire' : ~rgWire'[i].initial
      <4> TAKE i \in DOMAIN rgWire'
      <4>1. i \in Nat /\ i + 1 \in DOMAIN rgWire /\ rgWire'[i] = rgWire[i + 1]
              /\ i \in 1 .. Len(rgWire')
        BY <1>4
      <4>2. i + 1 # 1
        BY <4>1
      <4> QED
        BY <2>3, <4>1, <4>2 DEF RGInv, RGLiveInv, RGLiveLater
    <3>2. RGOnceIsOfEntry' /\ RGOnceIsOver'
      BY <1>1, <1>5, <1>9, <1>16 DEF RGOnceIsOfEntry, RGOnceIsOver
    <3>3. RGLiveIsSubscribed' /\ RGLiveWaits' /\ RGLiveFirst' /\ RGLiveLater'
      BY <1>1, <2>2, <2>3, <2>4, <3>1 DEF RGInv, RGLiveInv, RGLiveIsSubscribed, RGLiveWaits,
         RGLiveFirst, RGLiveLater
    <3> QED
      BY <3>2, <3>3 DEF RGLiveInv
  <2>7. /\ \A i \in DOMAIN rgWrites : i \in DOMAIN rgWrites' /\ rgWrites'[i] = rgWrites[i]
        /\ rgWrites'[Len(rgWrites) + 1] = RG!Write("errors", n)
             /\ Len(rgWrites) + 1 \in DOMAIN rgWrites'
        /\ \A i \in DOMAIN rgWrites' : i \in DOMAIN rgWrites \/ i = Len(rgWrites) + 1
        /\ \A i \in DOMAIN rgWrites : i # Len(rgWrites) + 1 /\ ~(i > Len(rgWrites) + 1)
    BY <1>3, <1>8, <2>1, RGAppendedIs
  <2>8. \A i \in DOMAIN rgWrites : RGIsErrors(i) => rgWrites[i].of.session # session
    BY <1>16, <2>3 DEF RGInv, RGErrorsInv, RGNoErrorsYet
  <2>9. RGErrorsInv'
    <3>1. RGErrorsAreHeld'
      <4> SUFFICES ASSUME NEW i \in DOMAIN rgWrites', rgWrites'[i].kind = "errors"
                   PROVE  /\ rgWrites'[i].of \in held' /\ rgWrites'[i].of.initial
                          /\ rgWrites'[i].of.session \in RG!Session
                          /\ registration[rgWrites'[i].of.session] = "done"
        BY <1>1 DEF RGErrorsAreHeld, RGIsErrors, RG!Session
      <4>1. CASE i = Len(rgWrites) + 1
        BY <1>5, <1>6, <1>8, <2>1, <2>5, <2>7, <4>1
      <4>2. CASE i \in DOMAIN rgWrites
        <5>1. RGIsErrors(i) /\ rgWrites'[i] = rgWrites[i]
          BY <2>7, <4>2 DEF RGIsErrors
        <5> QED
          BY <2>1, <4>2, <5>1 DEF RGInv, RGErrorsInv, RGErrorsAreHeld
      <4> QED
        BY <2>7, <4>1, <4>2
    <3>2. RGErrorsAreSingle'
      <4> SUFFICES ASSUME NEW i \in DOMAIN rgWrites', NEW j \in DOMAIN rgWrites',
                          rgWrites'[i].kind = "errors", rgWrites'[j].kind = "errors",
                          rgWrites'[i].of.session = rgWrites'[j].of.session
                   PROVE  i = j
        BY DEF RGErrorsAreSingle, RGIsErrors
      <4>1. CASE i \in DOMAIN rgWrites /\ j \in DOMAIN rgWrites
        BY <2>7, <4>1 DEF RGInv, RGErrorsInv, RGErrorsAreSingle, RGIsErrors
      <4>2. CASE i \in DOMAIN rgWrites /\ j = Len(rgWrites) + 1
        BY <1>5, <1>8, <2>7, <2>8, <4>2 DEF RGIsErrors
      <4>3. CASE j \in DOMAIN rgWrites /\ i = Len(rgWrites) + 1
        BY <1>5, <1>8, <2>7, <2>8, <4>3 DEF RGIsErrors
      <4> QED
        BY <2>7, <4>1, <4>2, <4>3
    <3>3. RGNoErrorsYet'
      BY <2>2 DEF RGNoErrorsYet
    <3>4. RGOwnErrorsAreLast'
      <4> SUFFICES ASSUME NEW i \in DOMAIN rgWrites', rgWrites'[i].kind = "errors"
                   PROVE  \/ rgWrites'[i].of.session = session
                          \/ \E j \in DOMAIN rgWrites' : j > i /\ rgWrites'[j].kind = "errors"
                               /\ rgWrites'[j].of.session = session
        BY <1>1 DEF RGOwnErrorsAreLast, RGIsErrors
      <4>1. CASE i = Len(rgWrites) + 1
        BY <1>5, <1>8, <2>7, <4>1
      <4>2. CASE i \in DOMAIN rgWrites
        <5>1. Len(rgWrites) + 1 > i
          BY <1>3, <4>2 DEF RGTypes
        <5> QED
          BY <1>5, <1>8, <2>7, <5>1
      <4> QED
        BY <2>7, <4>1, <4>2
    <3> QED
      BY <3>1, <3>2, <3>3, <3>4 DEF RGErrorsInv
  <2>10. RGOwnErrors'
    BY <1>1, <1>5, <1>8, <2>7 DEF RGOwnErrors, RGIsErrors
  <2>11. RGWritesAreTrue' /\ RGRowsAreTrue'
    BY <2>10 DEF RGWritesAreTrue, RGRowsAreTrue
  <2>12. RGErrorsAreTrue'
    <3> SUFFICES ASSUME RGTrusted', NEW a \in rgApp, RGUntold(rgWire', a),
                        NEW i \in DOMAIN rgWrites',
                        rgWrites'[i].kind = "errors", rgWrites'[i].of.session = session
                 PROVE  RGSays(rgWrites'[i].of, a) = rgApps[a]
      BY <1>1 DEF RGErrorsAreTrue, RGIsErrors, RGUntold
    <3>1. RGTrusted
      BY <1>1, <1>13, <2>1 DEF RGTrusted
    <3>2. rgWrites'[i].of = n
      BY <1>8, <2>7, <2>8 DEF RGIsErrors
    <3>3. RGTells(rgWire[1], a)
      BY <1>4, <2>5 DEF RGTells
    <3>4. RGIsLastOf(rgWire, 1, a)
      BY <1>4, <1>7, <3>3 DEF RGUntold
    <3>5. RGSays(rgWire[1], a) = rgApps[a]
      BY <1>4, <3>1, <3>4 DEF RGInv, RGTruthInv, RGWireIsTrue
    <3> QED
      BY <1>4, <3>2, <3>5
  <2> QED
    BY <1>10, <1>11, <1>12, <1>14, <2>6, <2>9, <2>11, <2>12 DEF RGTruthInv
<1>17. CASE n.session = rgEntry.session /\ rgEntry.updatedOnce
  <2>1. /\ rgWrites' = Append(rgWrites, RG!Write("changes", n)) /\ UNCHANGED <<rgEntry, held>>
        /\ overtaken' = IF \E h \in held : h.session = n.session
                        THEN overtaken \union {n.session} ELSE overtaken
    BY <1>2, <1>17
  <2>2. RGLive /\ RGLive'
    BY <1>13, <1>17
  <2>3. subscription.initialFinished
    BY <1>1, <2>2 DEF RGInv, RGLiveInv, RGLiveWaits
  <2>4. \A i \in DOMAIN rgWire : ~rgWire[i].initial
    BY <1>17, <2>2 DEF RGInv, RGLiveInv, RGLiveLater
  <2>5. RGLiveInv'
    <3>1. \A i \in DOMAIN rgWire' : ~rgWire'[i].initial
      BY <1>4, <2>4
    <3>2. RGOnceIsOfEntry' /\ RGOnceIsOver'
      BY <1>1, <2>1 DEF RGInv, RGLiveInv, RGOnceIsOfEntry, RGOnceIsOver
    <3>3. RGLiveIsSubscribed' /\ RGLiveWaits' /\ RGLiveFirst' /\ RGLiveLater'
      BY <1>1, <1>17, <2>1, <2>2, <2>3, <3>1 DEF RGInv, RGLiveInv, RGLiveIsSubscribed,
         RGLiveWaits, RGLiveFirst, RGLiveLater
    <3> QED
      BY <3>2, <3>3 DEF RGLiveInv
  <2>6. RGErrorsInv' /\ (\A i : RGIsErrors(i)' <=> RGIsErrors(i)) /\ (RGOwnErrors' <=> RGOwnErrors)
    BY <1>1, <1>8, <2>1, RGOtherAppended
  <2>7. CASE \E h \in held : h.session = n.session
    <3>1. ~RGTrusted'
      BY <1>1, <1>5, <2>1, <2>7 DEF RGTrusted
    <3> QED
      BY <1>10, <1>11, <1>12, <2>5, <2>6, <3>1, RGNotTrustedIsTrue
  <2>8. CASE ~\E h \in held : h.session = n.session
    <3>1. ~RGOwnErrors
      BY <1>5, <2>8 DEF RGInv, RGErrorsInv, RGErrorsAreHeld, RGOwnErrors, RGIsErrors
    <3>2. RGTrusted' <=> RGTrusted
      BY <1>1, <1>13, <2>1, <2>8 DEF RGTrusted
    <3>3. /\ \A i \in DOMAIN rgWrites : rgWrites'[i] = rgWrites[i]
          /\ \A i : RGIsErrors(i) => i \in DOMAIN rgWrites
      BY <1>3, <1>8, <2>1, RGAppendedIs DEF RGIsErrors
    <3>4. RGErrorsAreTrue'
      <4>1. \A i : RGIsErrors(i)' => rgWrites'[i].of.session # session
        BY <2>6, <3>1, <3>3 DEF RGOwnErrors
      <4> QED
        BY <1>1, <4>1 DEF RGErrorsAreTrue
    <3>5. ASSUME NEW a \in rgApp
          PROVE  /\ RGUnwritten(rgWrites', a) <=> RGUnwritten(rgWrites, a) /\ ~RGTells(n, a)
                 /\ \A i : RGIsLastWrite(rgWrites', i, a) =>
                      \/ rgWrites'[i].of = n /\ RGTells(n, a)
                      \/ RGIsLastWrite(rgWrites, i, a) /\ rgWrites'[i] = rgWrites[i]
                           /\ ~RGTells(n, a)
      <4>1. rgWrites \in Seq(RGWriteTypes)
              /\ (RGTellsWrite(RG!Write("changes", n), a) <=> RGTells(n, a))
        BY <1>3, <1>8 DEF RGTypes, RGTellsWrite
      <4>2. rgWrites' = Append(rgWrites, RG!Write("changes", n))
              /\ RG!Write("changes", n) \in RGWriteTypes
        BY <1>8, <2>1
      <4>3. /\ RGUnwritten(rgWrites', a) <=> RGUnwritten(rgWrites, a)
                 /\ ~RGTellsWrite(RG!Write("changes", n), a)
            /\ \A i : RGIsLastWrite(rgWrites', i, a) =>
                 \/ /\ i = Len(rgWrites) + 1 /\ rgWrites'[i] = RG!Write("changes", n)
                    /\ RGTellsWrite(RG!Write("changes", n), a)
                 \/ /\ RGIsLastWrite(rgWrites, i, a) /\ rgWrites'[i] = rgWrites[i]
                    /\ ~RGTellsWrite(RG!Write("changes", n), a)
        BY <4>1, <4>2, RGLastWriteAppended
      <4>4. RG!Write("changes", n).of = n
        BY <1>8
      <4> QED
        BY <4>1, <4>3, <4>4
    <3>6. ASSUME NEW a \in rgApp, RGUntold(rgWire', a)
          PROVE  \/ RGUntold(rgWire, a) /\ ~RGTells(n, a)
                 \/ RGIsLastOf(rgWire, 1, a) /\ RGTells(n, a)
      BY <1>4, <1>7, <3>6 DEF RGUntold, RGIsLastOf
    <3>7. ASSUME RGTrusted, NEW a \in rgApp, RGIsLastOf(rgWire, 1, a)
          PROVE  RGSays(n, a) = rgApps[a]
      BY <1>4, <3>7 DEF RGInv, RGTruthInv, RGWireIsTrue
    <3>8. RGWritesAreTrue'
      <4> SUFFICES ASSUME RGTrusted', NEW a \in rgApp, RGUntold(rgWire', a),
                          NEW i \in DOMAIN rgWrites', RGIsLastWrite(rgWrites', i, a)
                   PROVE  RGSays(rgWrites'[i].of, a) = rgApps[a]
        BY <1>1 DEF RGWritesAreTrue, RGUntold, RGIsLastWrite
      <4>1. CASE rgWrites'[i].of = n /\ RGTells(n, a)
        BY <3>2, <3>6, <3>7, <4>1
      <4>2. CASE RGIsLastWrite(rgWrites, i, a) /\ rgWrites'[i] = rgWrites[i] /\ ~RGTells(n, a)
        <5>1. RGUntold(rgWire, a) /\ i \in DOMAIN rgWrites
          BY <3>6, <4>2 DEF RGIsLastWrite
        <5> QED
          BY <3>1, <3>2, <4>2, <5>1 DEF RGInv, RGTruthInv, RGWritesAreTrue
      <4> QED
        BY <3>5, <4>1, <4>2
    <3>9. RGRowsAreTrue'
      <4> SUFFICES ASSUME RGTrusted', NEW a \in rgApp, RGUntold(rgWire', a),
                          RGUnwritten(rgWrites', a)
                   PROVE  db.rows[a] = rgApps[a]
        BY <1>1 DEF RGRowsAreTrue, RGUntold, RGUnwritten
      <4>1. RGUnwritten(rgWrites, a) /\ ~RGTells(n, a)
        BY <3>5
      <4>2. RGUntold(rgWire, a)
        BY <3>6, <4>1
      <4> QED
        BY <3>1, <3>2, <4>1, <4>2 DEF RGInv, RGTruthInv, RGRowsAreTrue
    <3> QED
      BY <1>10, <1>11, <1>12, <1>14, <2>5, <2>6, <3>4, <3>8, <3>9 DEF RGTruthInv
  <2> QED
    BY <2>7, <2>8
<1> QED
  BY <1>15, <1>16, <1>17

(* What a notification queues does not come behind a removal. *)
LEMMA RGOnNotificationStep ==
  ASSUME RGInv, RG!OnNotification
  PROVE  RGInv'
<1> DEFINE n == Head(rgWire)
<1>1. /\ rgWire # <<>>
      /\ UNCHANGED <<session, sessions, registration, rgSaves, db, orphaned>>
  BY DEF RG!OnNotification, RG!appManager
<1>2. \/ UNCHANGED <<rgEntry, held, rgWrites>>
      \/ /\ n.session = rgEntry.session
         /\ rgEntry' = [rgEntry EXCEPT !.updatedOnce = TRUE]
         /\ rgWrites' = Append(rgWrites, RG!Write("errors", n))
      \/ /\ n.session = rgEntry.session /\ rgEntry' = rgEntry
         /\ rgWrites' = Append(rgWrites, RG!Write("changes", n))
  BY DEF RG!OnNotification
<1>3. RGTypes /\ n \in RGNotices /\ n.session = session /\ session # 0
  <2>1. rgWire \in Seq(RGNotices)
    BY DEF RGInv, RGTypes
  <2>2. n = rgWire[1] /\ n \in RGNotices /\ 1 \in DOMAIN rgWire
    BY <1>1, <2>1, RGBehind
  <2> QED
    BY <2>2 DEF RGInv, RGSessionInv, RGWireIsOfSession
<1> HIDE DEF n
<1>4. RGRemoveInv'
  <2>1. CASE UNCHANGED <<rgEntry, held, rgWrites>>
    BY <1>1, <2>1, RGRemoveStays DEF RGInv
  <2>2. CASE n.session = rgEntry.session /\ rgEntry'.session = rgEntry.session
             /\ \E kind \in RGNoted : rgWrites' = Append(rgWrites, RG!Write(kind, n))
    <3>1. PICK kind \in RGNoted : rgWrites' = Append(rgWrites, RG!Write(kind, n))
      BY <2>2
    <3>2. RG!Write(kind, n) \in RGWriteTypes /\ RG!Write(kind, n).kind \in {"errors", "changes"}
      BY <1>3, RGWriteFacts DEF RGNoted
    <3>3. /\ \A i \in DOMAIN rgWrites : i \in DOMAIN rgWrites' /\ rgWrites'[i] = rgWrites[i]
          /\ \A i \in DOMAIN rgWrites' : i \in DOMAIN rgWrites \/ rgWrites'[i] = RG!Write(kind, n)
      BY <1>3, <3>1, <3>2, RGAppendedIs
    <3>4. ~orphaned => \A i \in DOMAIN rgWrites : ~RGIsRemove(i)
      BY <1>3, <2>2 DEF RGInv, RGRemoveInv, RGRemoveIsAlone
    <3>5. ~orphaned => db.manager
      BY <1>3, <2>2 DEF RGInv, RGRemoveInv, RGManagerIsThere
    <3>6. RGSaveIsAsked'
      BY <1>1, <3>2, <3>3 DEF RGInv, RGRemoveInv, RGSaveIsAsked, RG!Session
    <3>7. RGRemoveIsAlone'
      <4>1. ~orphaned => \A i \in DOMAIN rgWrites' : rgWrites'[i].kind # "remove"
        BY <3>2, <3>3, <3>4 DEF RGIsRemove
      <4> QED
        BY <1>1, <4>1 DEF RGRemoveIsAlone, RGIsRemove
    <3>8. RGManagerIsThere' /\ RGGoneIsEmpty'
      BY <1>1, <3>5 DEF RGManagerIsThere, RGGoneIsEmpty
    <3> QED
      BY <3>6, <3>7, <3>8 DEF RGRemoveInv
  <2>3. rgEntry'.session = rgEntry.session
    BY <1>2, <1>3 DEF RGTypes
  <2> QED
    BY <1>2, <2>1, <2>2, <2>3 DEF RGNoted
<1> QED
  BY <1>4, RGNotificationComes DEF RGInv

-----------------------------------------------------------------------------
(* The head of the queue is written: what is left. *)
LEMMA RGBehindIs ==
  ASSUME RGTypes, rgWrites # <<>>, rgWrites' = Tail(rgWrites)
  PROVE  /\ rgWrites' \in Seq(RGWriteTypes) /\ 1 \in DOMAIN rgWrites /\ Head(rgWrites) = rgWrites[1]
         /\ Head(rgWrites) \in RGWriteTypes
         /\ \A i \in DOMAIN rgWrites' :
              i \in Nat /\ i + 1 \in DOMAIN rgWrites /\ rgWrites'[i] = rgWrites[i + 1]
         /\ \A i \in DOMAIN rgWrites : i \in Nat /\ (i = 1 \/ i > 1)
         /\ \A i \in DOMAIN rgWrites :
              i # 1 => i - 1 \in DOMAIN rgWrites' /\ rgWrites'[i - 1] = rgWrites[i]
<1>1. rgWrites \in Seq(RGWriteTypes)
  BY DEF RGTypes
<1> QED
  BY <1>1, RGBehind

LEMMA RGErrorsBehind ==
  ASSUME RGInv, rgWrites # <<>>, rgWrites' = Tail(rgWrites), UNCHANGED <<held, rgEntry, session>>,
         Head(rgWrites).kind # "errors",
         \A s \in RG!Session : registration[s] = "done" => registration'[s] = "done"
  PROVE  /\ RGErrorsInv' /\ (RGOwnErrors' <=> RGOwnErrors)
         /\ \A i \in DOMAIN rgWrites' : rgWrites'[i].kind = "errors" =>
              i + 1 \in DOMAIN rgWrites /\ RGIsErrors(i + 1) /\ rgWrites'[i] = rgWrites[i + 1]
<1>1. /\ 1 \in DOMAIN rgWrites /\ Head(rgWrites) = rgWrites[1]
      /\ \A i \in DOMAIN rgWrites' :
           i \in Nat /\ i + 1 \in DOMAIN rgWrites /\ rgWrites'[i] = rgWrites[i + 1]
      /\ \A i \in DOMAIN rgWrites : i \in Nat /\ (i = 1 \/ i > 1)
      /\ \A i \in DOMAIN rgWrites :
           i # 1 => i - 1 \in DOMAIN rgWrites' /\ rgWrites'[i - 1] = rgWrites[i]
  BY RGBehindIs DEF RGInv
<1>2. \A i \in DOMAIN rgWrites' : rgWrites'[i].kind = "errors" =>
        i \in Nat /\ i + 1 \in DOMAIN rgWrites /\ RGIsErrors(i + 1)
          /\ rgWrites'[i] = rgWrites[i + 1]
  BY <1>1 DEF RGIsErrors
<1>3. \A i \in DOMAIN rgWrites : RGIsErrors(i) =>
        i \in Nat /\ i - 1 \in DOMAIN rgWrites' /\ rgWrites'[i - 1] = rgWrites[i]
  BY <1>1 DEF RGIsErrors
<1>4. RGOwnErrors' <=> RGOwnErrors
  <2>1. ASSUME NEW i \in DOMAIN rgWrites', rgWrites'[i].kind = "errors",
               rgWrites'[i].of.session = session
        PROVE  RGOwnErrors
    BY <1>2, <2>1 DEF RGOwnErrors
  <2>2. ASSUME NEW i \in DOMAIN rgWrites, RGIsErrors(i), rgWrites[i].of.session = session
        PROVE  \E j \in DOMAIN rgWrites' : rgWrites'[j].kind = "errors"
          /\ rgWrites'[j].of.session = session
    <3>1. i - 1 \in DOMAIN rgWrites' /\ rgWrites'[i - 1] = rgWrites[i]
            /\ rgWrites[i].kind = "errors"
      BY <1>3, <2>2 DEF RGIsErrors
    <3> QED
      BY <2>2, <3>1
  <2> QED
    BY <2>1, <2>2 DEF RGOwnErrors, RGIsErrors
<1>5. RGErrorsAreHeld'
  <2> SUFFICES ASSUME NEW i \in DOMAIN rgWrites', rgWrites'[i].kind = "errors"
               PROVE  /\ rgWrites'[i].of \in held /\ rgWrites'[i].of.initial
                      /\ rgWrites'[i].of.session \in RG!Session
                      /\ registration'[rgWrites'[i].of.session] = "done"
    BY DEF RGErrorsAreHeld, RGIsErrors, RG!Session
  <2>1. i + 1 \in DOMAIN rgWrites /\ RGIsErrors(i + 1) /\ rgWrites'[i] = rgWrites[i + 1]
    BY <1>2
  <2> QED
    BY <2>1 DEF RGInv, RGErrorsInv, RGErrorsAreHeld
<1>6. RGErrorsAreSingle'
  <2> SUFFICES ASSUME NEW i \in DOMAIN rgWrites', NEW j \in DOMAIN rgWrites',
                      rgWrites'[i].kind = "errors", rgWrites'[j].kind = "errors",
                      rgWrites'[i].of.session = rgWrites'[j].of.session
               PROVE  i = j
    BY DEF RGErrorsAreSingle, RGIsErrors
  <2>1. i + 1 = j + 1
    BY <1>2 DEF RGInv, RGErrorsInv, RGErrorsAreSingle
  <2>2. i \in Nat /\ j \in Nat
    BY <1>1
  <2> QED
    BY <2>1, <2>2
<1>7. RGNoErrorsYet'
  <2> SUFFICES ASSUME RGLive, ~rgEntry.updatedOnce, NEW i \in DOMAIN rgWrites',
                      rgWrites'[i].kind = "errors"
               PROVE  rgWrites'[i].of.session # session
    BY DEF RGNoErrorsYet, RGIsErrors, RGLive
  <2> QED
    BY <1>2 DEF RGInv, RGErrorsInv, RGNoErrorsYet
<1>8. RGOwnErrorsAreLast'
  <2> SUFFICES ASSUME RGLive, rgEntry.updatedOnce, NEW i \in DOMAIN rgWrites',
                      rgWrites'[i].kind = "errors",
                      rgWrites'[i].of.session # session
               PROVE  \E j \in DOMAIN rgWrites' :
                        j > i /\ rgWrites'[j].kind = "errors" /\ rgWrites'[j].of.session = session
    BY DEF RGOwnErrorsAreLast, RGIsErrors, RGLive
  <2>1. i \in Nat /\ i + 1 \in DOMAIN rgWrites /\ RGIsErrors(i + 1)
          /\ rgWrites'[i] = rgWrites[i + 1]
    BY <1>2
  <2>2. PICK j \in DOMAIN rgWrites : j > i + 1 /\ RGIsErrors(j) /\ rgWrites[j].of.session = session
    BY <2>1 DEF RGInv, RGErrorsInv, RGOwnErrorsAreLast
  <2>3. /\ j \in Nat /\ j - 1 \in DOMAIN rgWrites' /\ rgWrites'[j - 1] = rgWrites[j]
        /\ rgWrites[j].kind = "errors"
    BY <1>3, <2>2 DEF RGIsErrors
  <2>4. j - 1 > i
    BY <2>1, <2>2, <2>3
  <2> QED
    BY <2>2, <2>3, <2>4
<1> QED
  BY <1>2, <1>4, <1>5, <1>6, <1>7, <1>8 DEF RGErrorsInv

(* A write that is no notification's errors leaves what is last said as it was. *)
LEMMA RGTruthBehind ==
  ASSUME RGInv, rgWrites # <<>>, rgWrites' = Tail(rgWrites), Head(rgWrites).kind # "errors",
         UNCHANGED <<rgApps, session, rgEntry, subscription, rgWire, held, overtaken, orphaned>>,
         \A s \in RG!Session : registration[s] = "done" => registration'[s] = "done",
         \A a \in rgApp : db'.rows[a] =
           IF RGTellsWrite(Head(rgWrites), a) THEN RGSays(Head(rgWrites).of, a) ELSE db.rows[a]
  PROVE  RGTruthInv'
<1>1. /\ (RGOwnErrors' <=> RGOwnErrors)
      /\ \A i \in DOMAIN rgWrites' : rgWrites'[i].kind = "errors" =>
           i + 1 \in DOMAIN rgWrites /\ RGIsErrors(i + 1) /\ rgWrites'[i] = rgWrites[i + 1]
  BY RGErrorsBehind
<1>2. RGTrusted' <=> RGTrusted
  BY DEF RGTrusted, RGLive
<1>3. rgWrites \in Seq(RGWriteTypes) /\ Head(rgWrites) = rgWrites[1]
  BY RGBehindIs DEF RGInv, RGTypes
<1>4. ASSUME NEW a \in rgApp
      PROVE  /\ RGUnwritten(rgWrites', a) => RGUnwritten(rgWrites, a)
                  \/ RGIsLastWrite(rgWrites, 1, a)
             /\ \A i : RGIsLastWrite(rgWrites', i, a) =>
                  RGIsLastWrite(rgWrites, i + 1, a) /\ rgWrites'[i] = rgWrites[i + 1]
  BY <1>3, RGLastWriteBehind
<1>5. RGWireIsTrue'
  BY <1>2 DEF RGInv, RGTruthInv, RGWireIsTrue, RGIsLastOf
<1>6. RGErrorsAreTrue'
  <2> SUFFICES ASSUME RGTrusted, NEW a \in rgApp, RGUntold(rgWire, a), NEW i \in DOMAIN rgWrites',
                      rgWrites'[i].kind = "errors", rgWrites'[i].of.session = session
               PROVE  RGSays(rgWrites'[i].of, a) = rgApps[a]
    BY <1>2 DEF RGErrorsAreTrue, RGIsErrors, RGUntold
  <2> QED
    BY <1>1 DEF RGInv, RGTruthInv, RGErrorsAreTrue
<1>7. RGWritesAreTrue'
  <2> SUFFICES ASSUME RGTrusted, ~RGOwnErrors, NEW a \in rgApp, RGUntold(rgWire, a),
                      NEW i \in DOMAIN rgWrites', RGIsLastWrite(rgWrites', i, a)
               PROVE  RGSays(rgWrites'[i].of, a) = rgApps[a]
    BY <1>1, <1>2 DEF RGWritesAreTrue, RGUntold, RGIsLastWrite
  <2>1. RGIsLastWrite(rgWrites, i + 1, a) /\ rgWrites'[i] = rgWrites[i + 1]
          /\ i + 1 \in DOMAIN rgWrites
    BY <1>4 DEF RGIsLastWrite
  <2> QED
    BY <2>1 DEF RGInv, RGTruthInv, RGWritesAreTrue
<1>8. RGRowsAreTrue'
  <2> SUFFICES ASSUME RGTrusted, ~RGOwnErrors, NEW a \in rgApp, RGUntold(rgWire, a),
                      RGUnwritten(rgWrites', a)
               PROVE  db'.rows[a] = rgApps[a]
    BY <1>1, <1>2 DEF RGRowsAreTrue, RGUntold, RGUnwritten
  <2>1. CASE RGTellsWrite(Head(rgWrites), a)
    <3>1. RGIsLastWrite(rgWrites, 1, a)
      BY <1>3, <1>4, <2>1 DEF RGUnwritten, RGIsLastWrite
    <3>2. RGSays(rgWrites[1].of, a) = rgApps[a]
      BY <3>1 DEF RGInv, RGTruthInv, RGWritesAreTrue, RGIsLastWrite
    <3> QED
      BY <1>3, <2>1, <3>2
  <2>2. CASE ~RGTellsWrite(Head(rgWrites), a)
    <3>1. RGUnwritten(rgWrites, a)
      BY <1>3, <1>4, <2>2 DEF RGIsLastWrite
    <3>2. db.rows[a] = rgApps[a]
      BY <3>1 DEF RGInv, RGTruthInv, RGRowsAreTrue
    <3> QED
      BY <2>2, <3>2
  <2> QED
    BY <2>1, <2>2
<1> QED
  BY <1>5, <1>6, <1>7, <1>8 DEF RGTruthInv

(* What is left does not cross a removal either. *)
LEMMA RGRemoveBehind ==
  ASSUME RGInv, rgWrites # <<>>, rgWrites' = Tail(rgWrites), UNCHANGED <<held, rgEntry, orphaned,
                                                                         rgSaves>>,
         \A s \in RG!Session :
           \/ registration'[s] = registration[s]
           \/ /\ registration'[s] = "destroyed" /\ registration[s] = "destroy"
           \/ /\ registration'[s] = "saved" /\ registration[s] = "save"
              /\ Head(rgWrites).kind = "save" /\ Head(rgWrites).of = s
  PROVE  RGSaveIsAsked' /\ RGRemoveIsAlone'
<1>1. /\ 1 \in DOMAIN rgWrites /\ Head(rgWrites) = rgWrites[1]
      /\ \A i \in DOMAIN rgWrites' :
           i \in Nat /\ i + 1 \in DOMAIN rgWrites /\ rgWrites'[i] = rgWrites[i + 1]
  BY RGBehindIs DEF RGInv
<1>2. RGSaveIsAsked'
  <2>1. ASSUME NEW s \in RG!Session, registration[s] \in {"save", "saved", "done"}
        PROVE  registration'[s] \in {"save", "saved", "done"}
    BY <2>1
  <2> QED
    BY <1>1, <2>1 DEF RGInv, RGRemoveInv, RGSaveIsAsked, RG!Session
<1>3. RGRemoveIsAlone'
  <2> SUFFICES ASSUME ~orphaned, NEW i \in DOMAIN rgWrites', rgWrites'[i].kind = "remove"
               PROVE  /\ rgEntry.session = 0 /\ held = {}
                      /\ \A t \in RG!Session : registration'[t] # "saved"
                      /\ \A j \in DOMAIN rgWrites' : j > i => rgWrites'[j].kind \notin RGNoted
                      /\ \A j \in DOMAIN rgWrites' : j < i /\ rgWrites'[j].kind = "save" =>
                           registration'[rgWrites'[j].of] # "save"
    BY DEF RGRemoveIsAlone, RGIsRemove, RG!Session
  <2>1. i \in Nat /\ i + 1 \in DOMAIN rgWrites /\ RGIsRemove(i + 1)
    BY <1>1 DEF RGIsRemove
  <2>2. /\ rgEntry.session = 0 /\ held = {}
        /\ \A t \in RG!Session : registration[t] # "saved"
        /\ \A j \in DOMAIN rgWrites : j > i + 1 => rgWrites[j].kind \notin RGNoted
        /\ \A j \in DOMAIN rgWrites : j < i + 1 /\ rgWrites[j].kind = "save" =>
             registration[rgWrites[j].of] # "save"
    BY <2>1 DEF RGInv, RGRemoveInv, RGRemoveIsAlone
  <2>3. ASSUME NEW t \in RG!Session
        PROVE  registration'[t] # "saved"
    <3>1. ASSUME registration[t] = "save", rgWrites[1].kind = "save", rgWrites[1].of = t
          PROVE  FALSE
      <4>1. 1 < i + 1
        <5>1. i # 0
          BY <1>1, <2>1, <3>1 DEF RGIsRemove
        <5> QED
          BY <2>1, <5>1
      <4> QED
        BY <1>1, <2>2, <3>1, <4>1
    <3> QED
      BY <1>1, <2>2, <3>1
  <2>4. ASSUME NEW j \in DOMAIN rgWrites', j > i
        PROVE  rgWrites'[j].kind \notin RGNoted
    <3>1. j \in Nat /\ j + 1 \in DOMAIN rgWrites /\ rgWrites'[j] = rgWrites[j + 1] /\ j + 1 > i + 1
      BY <1>1, <2>1, <2>4
    <3> QED
      BY <2>2, <3>1
  <2>5. ASSUME NEW j \in DOMAIN rgWrites', j < i, rgWrites'[j].kind = "save"
        PROVE  registration'[rgWrites'[j].of] # "save"
    <3>1. j \in Nat /\ j + 1 \in DOMAIN rgWrites /\ rgWrites'[j] = rgWrites[j + 1] /\ j + 1 < i + 1
      BY <1>1, <2>1, <2>5
    <3>2. rgWrites[j + 1].of \in RG!Session
      BY <2>5, <3>1 DEF RGInv, RGRemoveInv, RGSaveIsAsked
    <3>3. registration[rgWrites[j + 1].of] # "save"
      BY <2>2, <2>5, <3>1
    <3> QED
      BY <3>1, <3>2, <3>3
  <2> QED
    BY <2>2, <2>3, <2>4, <2>5
<1> QED
  BY <1>2, <1>3

(* What the writes leave alone. *)
LEMMA RGWrittenKeeps ==
  ASSUME RGInv, UNCHANGED <<rgApps, session, sessions, subscription, rgWire, rgEntry>>,
         registration' \in [RG!Session -> RGSteps],
         \A s \in RG!Session : \/ registration'[s] = registration[s]
                               \/ registration[s] \in {"destroy", "save"}
                                    /\ registration'[s] # "none"
  PROVE  RGSessionInv' /\ RGLiveInv' /\ RGDeferredInv'
<1>1. session # 0 => session \in RG!Session
  BY RGSessionsAre DEF RGInv, RGSessionInv, RGTypes
<1>2. \A s \in RG!Session : registration[s] \in {"none", "done"} =>
          registration'[s] = registration[s]
  OBVIOUS
<1>3. RGSessionInv'
  BY <1>1, <1>2 DEF RGInv, RGSessionInv, RGSessionIsLast, RGLaterIsNone, RGWireIsOfSession,
     RGSubscriptionIsOfSession, RGEntryIsDone, RG!Session
<1>4. RGLiveInv'
  BY <1>1, <1>2, RGLiveStays DEF RGInv
<1> QED
  BY <1>3, <1>4, RGDeferredStays DEF RGInv

(* A write of the AppManager, which may take its registration on. *)
LEMMA RGManagerWritten ==
  ASSUME RGInv, rgWrites # <<>>, rgWrites' = Tail(rgWrites), Head(rgWrites).kind \in RGKept,
         db' = [db EXCEPT !.manager = TRUE],
         UNCHANGED <<rgApps, session, sessions, subscription, rgWire, rgEntry, held, rgSaves,
                     removing,
                     overtaken, orphaned>>,
         registration' \in [RG!Session -> RGSteps],
         \A s \in RG!Session :
           \/ registration'[s] = registration[s]
           \/ /\ registration'[s] = "destroyed" /\ registration[s] = "destroy"
           \/ /\ registration'[s] = "saved" /\ registration[s] = "save"
              /\ Head(rgWrites).kind = "save" /\ Head(rgWrites).of = s
  PROVE  RGInv'
<1>1. RGTypes
  BY DEF RGInv
<1>2. /\ db' \in [manager : BOOLEAN, rows : [rgApp -> RG!Info]] /\ db'.manager = TRUE
      /\ db'.rows = db.rows
  BY <1>1 DEF RGTypes
<1>3. rgWrites' \in Seq(RGWriteTypes)
  BY <1>1, RGBehindIs
<1>4. RGTypes'
  BY <1>1, <1>2, <1>3 DEF RGTypes
<1>5. Head(rgWrites).kind # "errors" /\ \A a \in rgApp : ~RGTellsWrite(Head(rgWrites), a)
  BY DEF RGKept, RGTellsWrite
<1>6. /\ \A s \in RG!Session : registration[s] = "done" => registration'[s] = "done"
      /\ \A s \in RG!Session : \/ registration'[s] = registration[s]
                               \/ registration[s] \in {"destroy", "save"}
                                    /\ registration'[s] # "none"
  <2> SUFFICES ASSUME NEW s \in RG!Session
               PROVE  /\ registration[s] = "done" => registration'[s] = "done"
                      /\ \/ registration'[s] = registration[s]
                         \/ registration[s] \in {"destroy", "save"} /\ registration'[s] # "none"
    OBVIOUS
  <2> QED
    OBVIOUS
<1>7. RGSessionInv' /\ RGLiveInv' /\ RGDeferredInv'
  BY <1>6, RGWrittenKeeps
<1>8. RGErrorsInv'
  BY <1>5, <1>6, RGErrorsBehind
<1>9. RGTruthInv'
  <2>1. \A a \in rgApp : db'.rows[a] =
          IF RGTellsWrite(Head(rgWrites), a) THEN RGSays(Head(rgWrites).of, a) ELSE db.rows[a]
    BY <1>2, <1>5
  <2> QED
    BY <1>5, <1>6, <2>1, RGTruthBehind
<1>10. RGSaveIsAsked' /\ RGRemoveIsAlone'
  BY RGRemoveBehind
<1>11. RGManagerIsThere' /\ RGGoneIsEmpty'
  BY <1>2 DEF RGManagerIsThere, RGGoneIsEmpty
<1> QED
  BY <1>4, <1>7, <1>8, <1>9, <1>10, <1>11 DEF RGInv, RGRemoveInv

(* The changes of a notification. *)
LEMMA RGChangesWritten ==
  ASSUME RGInv, rgWrites # <<>>, rgWrites' = Tail(rgWrites), Head(rgWrites).kind = "changes",
         db' = [db EXCEPT !.rows = RG!Rows(@, Head(rgWrites).of)],
         UNCHANGED <<rgApps, session, sessions, subscription, rgWire, registration, rgEntry, held,
                     rgSaves,
                     removing, overtaken, orphaned>>
  PROVE  RGInv'
<1> DEFINE n == Head(rgWrites).of
<1>1. RGTypes
  BY DEF RGInv
<1>2. /\ rgWrites' \in Seq(RGWriteTypes) /\ Head(rgWrites) = rgWrites[1]
           /\ Head(rgWrites) \in RGWriteTypes
      /\ 1 \in DOMAIN rgWrites
      /\ \A i \in DOMAIN rgWrites' : i + 1 \in DOMAIN rgWrites /\ rgWrites'[i] = rgWrites[i + 1]
  BY <1>1, RGBehindIs
<1>3. n \in RGNotices
  BY <1>2, RGWriteIs DEF RGNoted
<1>4. db'.manager = db.manager /\ db'.rows = RG!Rows(db.rows, n)
        /\ db' = [db EXCEPT !.rows = RG!Rows(@, n)]
  BY <1>1 DEF RGTypes
<1>5. db.rows \in [rgApp -> RG!Info] /\ db.manager \in BOOLEAN
  BY <1>1 DEF RGTypes
<1> HIDE DEF n
<1>6. /\ n.initial \in BOOLEAN /\ \A a \in DOMAIN n.infos : n.infos[a] \in RG!Info
  BY <1>3, RGNoticeIs
<1>7. RG!Rows(db.rows, n) \in [rgApp -> RG!Info]
  BY <1>5, <1>6 DEF RG!Rows, RG!Info
<1>8. \A a \in rgApp : RG!Rows(db.rows, n)[a] = IF RGTells(n, a) THEN RGSays(n, a) ELSE db.rows[a]
  BY DEF RG!Rows, RGTells, RGSays
<1>9. db' \in [manager : BOOLEAN, rows : [rgApp -> RG!Info]]
  BY <1>1, <1>4, <1>7 DEF RGTypes
<1>10. RGTypes'
  BY <1>1, <1>2, <1>9 DEF RGTypes
<1>11. registration \in [RG!Session -> RGSteps]
  BY <1>1 DEF RGTypes
<1>12. RGSessionInv' /\ RGLiveInv' /\ RGDeferredInv'
  BY <1>11, RGWrittenKeeps
<1>13. RGErrorsInv'
  BY RGErrorsBehind
<1>14. RGTruthInv'
  <2>1. \A a \in rgApp : db'.rows[a] =
          IF RGTellsWrite(Head(rgWrites), a) THEN RGSays(Head(rgWrites).of, a) ELSE db.rows[a]
    BY <1>4, <1>8 DEF RGTellsWrite, n
  <2>2. Head(rgWrites).kind # "errors"
    OBVIOUS
  <2> QED
    BY <2>1, <2>2, RGTruthBehind
<1>15. RGSaveIsAsked' /\ RGRemoveIsAlone'
  BY RGRemoveBehind
<1>16. RGManagerIsThere'
  BY <1>4 DEF RGInv, RGRemoveInv, RGManagerIsThere, RG!Session
<1>17. RGGoneIsEmpty'
  <2>1. Head(rgWrites).kind \in RGNoted
    BY DEF RGNoted
  <2> QED
    BY <1>2, <1>4, <2>1 DEF RGInv, RGRemoveInv, RGGoneIsEmpty
<1> QED
  BY <1>10, <1>12, <1>13, <1>14, <1>15, <1>16, <1>17 DEF RGInv, RGRemoveInv

(* The removal of the data. *)
LEMMA RGRemovalWritten ==
  ASSUME RGInv, rgWrites # <<>>, rgWrites' = Tail(rgWrites), Head(rgWrites).kind = "remove",
         db' = IF db.manager THEN [manager |-> FALSE, rows |-> RG!NoApps] ELSE db,
         UNCHANGED <<rgApps, session, sessions, subscription, rgWire, registration, rgEntry, held,
                     rgSaves,
                     removing, overtaken, orphaned>>
  PROVE  RGInv'
<1>1. RGTypes
  BY DEF RGInv
<1>2. /\ rgWrites' \in Seq(RGWriteTypes) /\ Head(rgWrites) = rgWrites[1] /\ 1 \in DOMAIN rgWrites
      /\ \A i \in DOMAIN rgWrites' :
           i \in Nat /\ i + 1 \in DOMAIN rgWrites /\ rgWrites'[i] = rgWrites[i + 1]
      /\ \A i \in DOMAIN rgWrites' : i + 1 > 1
  <2>1. /\ rgWrites' \in Seq(RGWriteTypes) /\ Head(rgWrites) = rgWrites[1] /\ 1 \in DOMAIN rgWrites
        /\ \A i \in DOMAIN rgWrites' :
             i \in Nat /\ i + 1 \in DOMAIN rgWrites /\ rgWrites'[i] = rgWrites[i + 1]
    BY <1>1, RGBehindIs
  <2>2. \A i \in 1 .. Len(rgWrites') : i + 1 > 1
    OBVIOUS
  <2>3. DOMAIN rgWrites' = 1 .. Len(rgWrites')
    BY <2>1
  <2> QED
    BY <2>1, <2>2, <2>3
<1>3. RG!NoApps \in [rgApp -> RG!Info]
  BY DEF RG!NoApps, RG!Info
<1>4. db' \in [manager : BOOLEAN, rows : [rgApp -> RG!Info]]
  BY <1>1, <1>3 DEF RGTypes
<1>5. RGTypes'
  BY <1>1, <1>2, <1>4 DEF RGTypes
<1>6. registration \in [RG!Session -> RGSteps]
  BY <1>1 DEF RGTypes
<1>7. RGSessionInv' /\ RGLiveInv' /\ RGDeferredInv'
  BY <1>6, RGWrittenKeeps
<1>8. RGErrorsInv'
  BY RGErrorsBehind
<1>9. RGIsRemove(1)
  BY <1>2 DEF RGIsRemove
<1>10. ~orphaned => /\ rgEntry.session = 0 /\ \A s \in RG!Session : registration[s] # "saved"
                    /\ \A j \in DOMAIN rgWrites : j > 1 => rgWrites[j].kind \notin RGNoted
  BY <1>2, <1>9 DEF RGInv, RGRemoveInv, RGRemoveIsAlone
<1>11. RGTruthInv'
  BY <1>10, RGNotTrustedIsTrue DEF RGTrusted, RGLive
<1>12. RGSaveIsAsked' /\ RGRemoveIsAlone'
  BY RGRemoveBehind
<1>13. RGManagerIsThere'
  BY <1>10 DEF RGManagerIsThere, RG!Session
<1>14. RGGoneIsEmpty'
  <2> SUFFICES ASSUME ~orphaned, ~db'.manager
               PROVE  db'.rows = RG!NoApps
                 /\ \A i \in DOMAIN rgWrites' : rgWrites'[i].kind \notin RGNoted
    BY DEF RGGoneIsEmpty, RG!NoApps
  <2>1. db'.rows = RG!NoApps
    <3>1. CASE db.manager
      BY <3>1
    <3>2. CASE ~db.manager
      BY <3>2 DEF RGInv, RGRemoveInv, RGGoneIsEmpty
    <3> QED
      BY <3>1, <3>2
  <2> QED
    BY <1>2, <1>10, <2>1
<1> QED
  BY <1>5, <1>7, <1>8, <1>11, <1>12, <1>13, <1>14 DEF RGInv, RGRemoveInv

(* The errors of a first notification: its changes are queued. *)
LEMMA RGErrorsWritten ==
  ASSUME RGInv, rgWrites # <<>>, Head(rgWrites).kind = "errors",
         rgWrites' = Append(Tail(rgWrites), RG!Write("changes", Head(rgWrites).of)),
         db' = IF Head(rgWrites).of.session = rgEntry.session THEN [db EXCEPT !.manager = TRUE] ELSE db,
         held' = held \ {Head(rgWrites).of},
         UNCHANGED <<rgApps, session, sessions, subscription, rgWire, registration, rgEntry,
                     rgSaves,
                     removing, overtaken, orphaned>>
  PROVE  RGInv'
<1> DEFINE n == Head(rgWrites).of
           p == Tail(rgWrites)
           w == RG!Write("changes", n)
           l == Len(p) + 1
<1>1. RGTypes /\ rgWrites \in Seq(RGWriteTypes)
  BY DEF RGInv, RGTypes
<1>2. /\ p \in Seq(RGWriteTypes) /\ Head(rgWrites) = rgWrites[1] /\ 1 \in DOMAIN rgWrites
      /\ Head(rgWrites) \in RGWriteTypes
      /\ \A i \in DOMAIN p : i \in Nat /\ i + 1 \in DOMAIN rgWrites /\ p[i] = rgWrites[i + 1]
      /\ \A i \in DOMAIN rgWrites : i \in Nat /\ (i = 1 \/ i > 1)
      /\ \A i \in DOMAIN rgWrites : i # 1 => i - 1 \in DOMAIN p /\ p[i - 1] = rgWrites[i]
  BY <1>1, RGBehind
<1>3. n \in RGNotices /\ RGIsErrors(1) /\ rgWrites[1].of = n
  BY <1>2, RGWriteIs DEF RGNoted, RGIsErrors
<1>4. w \in RGWriteTypes /\ w.kind = "changes" /\ w.of = n
  BY <1>3, RGWriteFacts DEF RGNoted
<1>5. rgWrites' = Append(p, w) /\ held' = held \ {n}
  OBVIOUS
<1> HIDE DEF p, n, w
<1>6. /\ rgWrites' \in Seq(RGWriteTypes) /\ l \in DOMAIN rgWrites' /\ rgWrites'[l] = w
      /\ \A i \in DOMAIN p : i \in DOMAIN rgWrites' /\ rgWrites'[i] = p[i]
      /\ \A i \in DOMAIN rgWrites' : i \in DOMAIN p \/ i = l
  <2>1. p \in Seq(RGWriteTypes) /\ w \in RGWriteTypes /\ rgWrites' = Append(p, w) /\ l = Len(p) + 1
    BY <1>2, <1>4, <1>5
  <2> HIDE DEF l
  <2>2. /\ Append(p, w) \in Seq(RGWriteTypes) /\ Append(p, w)[Len(p) + 1] = w
        /\ Len(p) + 1 \in DOMAIN Append(p, w)
        /\ \A i \in DOMAIN p : i \in DOMAIN Append(p, w) /\ Append(p, w)[i] = p[i]
        /\ \A i \in DOMAIN Append(p, w) : i \in DOMAIN p \/ i = Len(p) + 1
    <3>1. ASSUME NEW S, NEW q \in Seq(S), NEW x \in S
          PROVE  /\ Append(q, x) \in Seq(S) /\ Append(q, x)[Len(q) + 1] = x
                 /\ Len(q) + 1 \in DOMAIN Append(q, x)
                 /\ \A i \in DOMAIN q : i \in DOMAIN Append(q, x) /\ Append(q, x)[i] = q[i]
                 /\ \A i \in DOMAIN Append(q, x) : i \in DOMAIN q \/ i = Len(q) + 1
      BY RGAppended
    <3>2. p \in Seq(RGWriteTypes) /\ w \in RGWriteTypes
      BY <2>1
    <3> QED
      BY <3>1, <3>2
  <2> QED
    BY <2>1, <2>2
<1> HIDE DEF l
<1>7. \A i \in DOMAIN rgWrites' :
        \/ rgWrites'[i] = w
        \/ i \in Nat /\ i + 1 \in DOMAIN rgWrites /\ i + 1 # 1 /\ rgWrites'[i] = rgWrites[i + 1]
  <2> TAKE i \in DOMAIN rgWrites'
  <2>1. CASE i \in DOMAIN p
    <3>1. i \in 1 .. Len(p)
      BY <1>2, <2>1
    <3> QED
      BY <1>2, <1>6, <2>1, <3>1
  <2> QED
    BY <1>6, <2>1
<1>8. \A i \in DOMAIN rgWrites : i = 1
        \/ (i - 1 \in DOMAIN rgWrites' /\ rgWrites'[i - 1] = rgWrites[i])
  BY <1>2, <1>6
<1>9. /\ db' \in [manager : BOOLEAN, rows : [rgApp -> RG!Info]] /\ db'.rows = db.rows
      /\ db.manager => db'.manager
  BY <1>1 DEF RGTypes
<1>10. RGTypes'
  <2>1. held' \subseteq RGNotices
    BY <1>1, <1>5 DEF RGTypes
  <2> QED
    BY <1>1, <1>6, <1>9, <2>1 DEF RGTypes
<1>11. registration \in [RG!Session -> RGSteps]
  BY <1>1 DEF RGTypes
<1>12. RGSessionInv' /\ RGLiveInv' /\ RGDeferredInv'
  BY <1>11, RGWrittenKeeps
<1>13. \A i \in DOMAIN rgWrites' : rgWrites'[i].kind = "errors" =>
         /\ i \in Nat /\ i + 1 \in DOMAIN rgWrites /\ i + 1 # 1 /\ RGIsErrors(i + 1)
         /\ rgWrites'[i] = rgWrites[i + 1]
  BY <1>4, <1>7 DEF RGIsErrors
<1>14. \A i \in DOMAIN rgWrites : i # 1 /\ RGIsErrors(i) => rgWrites[i].of.session # n.session
  BY <1>2, <1>3 DEF RGInv, RGErrorsInv, RGErrorsAreSingle
<1>15. n \in held /\ n.initial
  BY <1>2, <1>3 DEF RGInv, RGErrorsInv, RGErrorsAreHeld
<1>16. RGErrorsInv'
  <2>1. RGErrorsAreHeld'
    <3> SUFFICES ASSUME NEW i \in DOMAIN rgWrites', rgWrites'[i].kind = "errors"
                 PROVE  /\ rgWrites'[i].of \in held' /\ rgWrites'[i].of.initial
                        /\ rgWrites'[i].of.session \in RG!Session
                        /\ registration[rgWrites'[i].of.session] = "done"
      BY DEF RGErrorsAreHeld, RGIsErrors, RG!Session
    <3>1. i + 1 \in DOMAIN rgWrites /\ RGIsErrors(i + 1) /\ rgWrites'[i] = rgWrites[i + 1]
            /\ i + 1 # 1
      BY <1>13
    <3>2. rgWrites[i + 1].of # n
      BY <1>14, <3>1
    <3> QED
      BY <1>5, <3>1, <3>2 DEF RGInv, RGErrorsInv, RGErrorsAreHeld
  <2>2. RGErrorsAreSingle'
    <3> SUFFICES ASSUME NEW i \in DOMAIN rgWrites', NEW j \in DOMAIN rgWrites',
                        rgWrites'[i].kind = "errors", rgWrites'[j].kind = "errors",
                        rgWrites'[i].of.session = rgWrites'[j].of.session
                 PROVE  i = j
      BY DEF RGErrorsAreSingle, RGIsErrors
    <3>1. i \in Nat /\ j \in Nat /\ i + 1 = j + 1
      BY <1>13 DEF RGInv, RGErrorsInv, RGErrorsAreSingle
    <3> QED
      BY <3>1
  <2>3. RGNoErrorsYet'
    <3> SUFFICES ASSUME RGLive, ~rgEntry.updatedOnce, NEW i \in DOMAIN rgWrites',
                        rgWrites'[i].kind = "errors"
                 PROVE  rgWrites'[i].of.session # session
      BY DEF RGNoErrorsYet, RGIsErrors, RGLive
    <3> QED
      BY <1>13 DEF RGInv, RGErrorsInv, RGNoErrorsYet
  <2>4. RGOwnErrorsAreLast'
    <3> SUFFICES ASSUME RGLive, rgEntry.updatedOnce, NEW i \in DOMAIN rgWrites',
                        rgWrites'[i].kind = "errors", rgWrites'[i].of.session # session
                 PROVE  \E j \in DOMAIN rgWrites' :
                          j > i /\ rgWrites'[j].kind = "errors" /\ rgWrites'[j].of.session = session
      BY DEF RGOwnErrorsAreLast, RGIsErrors, RGLive
    <3>1. i \in Nat /\ i + 1 \in DOMAIN rgWrites /\ RGIsErrors(i + 1)
            /\ rgWrites'[i] = rgWrites[i + 1]
      BY <1>13
    <3>2. PICK j \in DOMAIN rgWrites : j > i + 1 /\ RGIsErrors(j)
            /\ rgWrites[j].of.session = session
      BY <3>1 DEF RGInv, RGErrorsInv, RGOwnErrorsAreLast
    <3>3. j \in Nat /\ j # 1 /\ j - 1 > i
      BY <1>2, <1>13, <3>1, <3>2
    <3>4. j - 1 \in DOMAIN rgWrites' /\ rgWrites'[j - 1] = rgWrites[j]
            /\ rgWrites[j].kind = "errors"
      BY <1>8, <3>2, <3>3 DEF RGIsErrors
    <3> QED
      BY <3>2, <3>3, <3>4
  <2> QED
    BY <2>1, <2>2, <2>3, <2>4 DEF RGErrorsInv
<1>17. RGTruthInv'
  <2> SUFFICES ASSUME RGTrusted
               PROVE  RGTruthInv'
    <3>1. RGTrusted' <=> RGTrusted
      BY DEF RGTrusted, RGLive
    <3> QED
      BY <3>1, RGNotTrustedIsTrue
  <2>1. RGWireIsTrue'
    BY DEF RGInv, RGTruthInv, RGWireIsTrue, RGIsLastOf, RGTrusted, RGLive
  <2>2. RGErrorsAreTrue'
    <3> SUFFICES ASSUME NEW a \in rgApp, RGUntold(rgWire, a), NEW i \in DOMAIN rgWrites',
                        rgWrites'[i].kind = "errors", rgWrites'[i].of.session = session
                 PROVE  RGSays(rgWrites'[i].of, a) = rgApps[a]
      BY DEF RGErrorsAreTrue, RGIsErrors, RGUntold
    <3> QED
      BY <1>13 DEF RGInv, RGTruthInv, RGErrorsAreTrue
  <2>3. CASE ~rgEntry.updatedOnce
    <3>1. rgWire # <<>> /\ Head(rgWire).initial
      BY <2>3 DEF RGInv, RGLiveInv, RGLiveFirst, RGTrusted
    <3>2. 1 \in DOMAIN rgWire /\ Head(rgWire) = rgWire[1]
      BY <1>1, <3>1, RGElementsOf DEF RGTypes
    <3>3. \A a \in rgApp : ~RGUntold(rgWire, a)
      BY <3>1, <3>2 DEF RGUntold, RGTells
    <3>4. RGWritesAreTrue' /\ RGRowsAreTrue'
      BY <3>3 DEF RGWritesAreTrue, RGRowsAreTrue, RGUntold
    <3> QED
      BY <2>1, <2>2, <3>4 DEF RGTruthInv
  <2>4. CASE rgEntry.updatedOnce /\ n.session # session
    <3>1. PICK j \in DOMAIN rgWrites : j > 1 /\ RGIsErrors(j) /\ rgWrites[j].of.session = session
      BY <1>2, <1>3, <2>4 DEF RGInv, RGErrorsInv, RGOwnErrorsAreLast, RGTrusted
    <3>2. j # 1
      BY <1>2, <3>1
    <3>3. j - 1 \in DOMAIN rgWrites' /\ rgWrites'[j - 1] = rgWrites[j]
            /\ rgWrites[j].kind = "errors"
      BY <1>8, <3>1, <3>2 DEF RGIsErrors
    <3>4. RGOwnErrors'
      BY <3>1, <3>3 DEF RGOwnErrors, RGIsErrors
    <3>5. RGWritesAreTrue' /\ RGRowsAreTrue'
      BY <3>4 DEF RGWritesAreTrue, RGRowsAreTrue
    <3> QED
      BY <2>1, <2>2, <3>5 DEF RGTruthInv
  <2>5. CASE n.session = session
    <3>1. \A a \in rgApp : RGTells(n, a)
      BY <1>15 DEF RGTells
    <3>2. ASSUME NEW a \in rgApp
          PROVE  /\ ~RGUnwritten(rgWrites', a)
                 /\ \A i : RGIsLastWrite(rgWrites', i, a) => rgWrites'[i].of = n
      <4>1. RGTellsWrite(w, a)
        BY <1>4, <3>1 DEF RGTellsWrite
      <4>2. rgWrites' = Append(p, w) /\ p \in Seq(RGWriteTypes)
        BY <1>2, <1>5
      <4>3. /\ RGUnwritten(rgWrites', a) <=> RGUnwritten(p, a) /\ ~RGTellsWrite(w, a)
            /\ \A i : RGIsLastWrite(rgWrites', i, a) =>
                 \/ i = Len(p) + 1 /\ rgWrites'[i] = w /\ RGTellsWrite(w, a)
                 \/ RGIsLastWrite(p, i, a) /\ rgWrites'[i] = p[i] /\ ~RGTellsWrite(w, a)
        <5>1. w \in RGWriteTypes
          BY <1>4
        <5>2. ASSUME NEW q \in Seq(RGWriteTypes), NEW x \in RGWriteTypes
              PROVE  /\ RGUnwritten(Append(q, x), a) <=> RGUnwritten(q, a) /\ ~RGTellsWrite(x, a)
                     /\ \A i : RGIsLastWrite(Append(q, x), i, a) =>
                          \/ i = Len(q) + 1 /\ Append(q, x)[i] = x /\ RGTellsWrite(x, a)
                          \/ RGIsLastWrite(q, i, a) /\ Append(q, x)[i] = q[i] /\ ~RGTellsWrite(x, a)
          BY RGLastWriteAppended
        <5>3. RGUnwritten(Append(p, w), a) <=> RGUnwritten(p, a) /\ ~RGTellsWrite(w, a)
          BY <4>2, <5>1, <5>2
        <5>4. \A i : RGIsLastWrite(Append(p, w), i, a) =>
                \/ i = Len(p) + 1 /\ Append(p, w)[i] = w /\ RGTellsWrite(w, a)
                \/ RGIsLastWrite(p, i, a) /\ Append(p, w)[i] = p[i] /\ ~RGTellsWrite(w, a)
          BY <4>2, <5>1, <5>2
        <5> QED
          BY <4>2, <5>3, <5>4
      <4> QED
        BY <1>4, <4>1, <4>3
    <3>3. ASSUME NEW a \in rgApp, RGUntold(rgWire, a)
          PROVE  RGSays(n, a) = rgApps[a]
      BY <1>2, <1>3, <2>5, <3>3 DEF RGInv, RGTruthInv, RGErrorsAreTrue
    <3>4. RGWritesAreTrue'
      <4> SUFFICES ASSUME NEW a \in rgApp, RGUntold(rgWire, a), NEW i \in DOMAIN rgWrites',
                          RGIsLastWrite(rgWrites', i, a)
                   PROVE  RGSays(rgWrites'[i].of, a) = rgApps[a]
        BY DEF RGWritesAreTrue, RGUntold, RGIsLastWrite
      <4> QED
        BY <3>2, <3>3
    <3>5. RGRowsAreTrue'
      <4>1. \A a \in rgApp : ~RGUnwritten(rgWrites, a)'
        BY <3>2 DEF RGUnwritten
      <4> QED
        BY <4>1 DEF RGRowsAreTrue
    <3> QED
      BY <2>1, <2>2, <3>4, <3>5 DEF RGTruthInv
  <2> QED
    BY <2>3, <2>4, <2>5
<1>18. RGRemoveInv'
  <2>1. ~orphaned => \A i \in DOMAIN rgWrites : rgWrites[i].kind # "remove"
    BY <1>15 DEF RGInv, RGRemoveInv, RGRemoveIsAlone, RGIsRemove
  <2>2. ~orphaned => db.manager
    <3>1. rgWrites[1].kind \in RGNoted
      BY <1>2 DEF RGNoted
    <3> QED
      BY <1>2, <3>1 DEF RGInv, RGRemoveInv, RGGoneIsEmpty
  <2>3. RGSaveIsAsked'
    BY <1>4, <1>7 DEF RGInv, RGRemoveInv, RGSaveIsAsked, RG!Session
  <2>4. RGRemoveIsAlone'
    <3>1. ~orphaned => \A i \in DOMAIN rgWrites' : rgWrites'[i].kind # "remove"
      BY <1>4, <1>7, <2>1
    <3> QED
      BY <3>1 DEF RGRemoveIsAlone, RGIsRemove
  <2>5. RGManagerIsThere' /\ RGGoneIsEmpty'
    BY <1>9, <2>2 DEF RGManagerIsThere, RGGoneIsEmpty
  <2> QED
    BY <2>3, <2>4, <2>5 DEF RGRemoveInv
<1> QED
  BY <1>10, <1>12, <1>16, <1>17, <1>18 DEF RGInv

LEMMA RGDoWriteStep ==
  ASSUME RGInv, RG!DoWrite
  PROVE  RGInv'
<1> DEFINE w == Head(rgWrites)
           next == [destroy |-> "destroyed", save |-> "saved"]
<1>1. /\ rgWrites # <<>>
      /\ UNCHANGED <<rgApps, session, sessions, subscription, rgWire, rgEntry, rgSaves, removing,
                     overtaken,
                     orphaned>>
  BY DEF RG!DoWrite, RG!appManager, RG!ghosts
<1>2. DOMAIN next = {"destroy", "save"} /\ next["destroy"] = "destroyed" /\ next["save"] = "saved"
  OBVIOUS
<1>3. \/ /\ w.kind = "unregister" /\ db' = [db EXCEPT !.manager = TRUE]
           /\ rgWrites' = Tail(rgWrites)
         /\ UNCHANGED <<held, registration>>
      \/ /\ w.kind \in {"destroy", "save"} /\ db' = [db EXCEPT !.manager = TRUE]
         /\ registration' = [s \in RG!Session |->
              IF s = w.of /\ registration[s] = w.kind THEN next[w.kind] ELSE registration[s]]
         /\ rgWrites' = Tail(rgWrites) /\ held' = held
      \/ /\ w.kind = "errors"
         /\ db' = IF w.of.session = rgEntry.session THEN [db EXCEPT !.manager = TRUE] ELSE db
         /\ held' = held \ {w.of}
         /\ rgWrites' = Append(Tail(rgWrites), RG!Write("changes", w.of))
         /\ registration' = registration
      \/ /\ w.kind = "changes" /\ db' = [db EXCEPT !.rows = RG!Rows(@, w.of)]
         /\ rgWrites' = Tail(rgWrites) /\ UNCHANGED <<held, registration>>
      \/ /\ w.kind = "remove"
         /\ db' = IF db.manager THEN [manager |-> FALSE, rows |-> RG!NoApps] ELSE db
         /\ rgWrites' = Tail(rgWrites) /\ UNCHANGED <<held, registration>>
  BY <1>2 DEF RG!DoWrite
<1>4. registration \in [RG!Session -> RGSteps]
  BY DEF RGInv, RGTypes
<1>5. CASE /\ w.kind = "unregister" /\ db' = [db EXCEPT !.manager = TRUE]
                /\ rgWrites' = Tail(rgWrites)
           /\ UNCHANGED <<held, registration>>
  <2>1. w.kind \in RGKept
    BY <1>5 DEF RGKept
  <2> QED
    BY <1>1, <1>4, <1>5, <2>1, RGManagerWritten
<1>6. CASE /\ w.kind \in {"destroy", "save"} /\ db' = [db EXCEPT !.manager = TRUE]
           /\ registration' = [s \in RG!Session |->
                IF s = w.of /\ registration[s] = w.kind THEN next[w.kind] ELSE registration[s]]
           /\ rgWrites' = Tail(rgWrites) /\ held' = held
  <2>1. w.kind \in RGKept
    BY <1>6 DEF RGKept
  <2>2. next[w.kind] = IF w.kind = "destroy" THEN "destroyed" ELSE "saved"
    BY <1>2, <1>6
  <2> HIDE DEF next
  <2>3. ASSUME NEW s \in RG!Session
        PROVE  \/ registration'[s] = registration[s]
               \/ /\ registration'[s] = "destroyed" /\ registration[s] = "destroy"
               \/ /\ registration'[s] = "saved" /\ registration[s] = "save"
                  /\ w.kind = "save" /\ w.of = s
    BY <1>6, <2>2
  <2>4. registration' \in [RG!Session -> RGSteps]
    BY <1>4, <1>6, <2>2 DEF RGSteps
  <2> QED
    BY <1>1, <1>6, <2>1, <2>3, <2>4, RGManagerWritten
<1>7. CASE /\ w.kind = "errors"
           /\ db' = IF w.of.session = rgEntry.session THEN [db EXCEPT !.manager = TRUE] ELSE db
           /\ held' = held \ {w.of}
           /\ rgWrites' = Append(Tail(rgWrites), RG!Write("changes", w.of))
           /\ registration' = registration
  BY <1>1, <1>7, RGErrorsWritten
<1>8. CASE /\ w.kind = "changes" /\ db' = [db EXCEPT !.rows = RG!Rows(@, w.of)]
           /\ rgWrites' = Tail(rgWrites) /\ UNCHANGED <<held, registration>>
  BY <1>1, <1>8, RGChangesWritten
<1>9. CASE /\ w.kind = "remove"
           /\ db' = IF db.manager THEN [manager |-> FALSE, rows |-> RG!NoApps] ELSE db
           /\ rgWrites' = Tail(rgWrites) /\ UNCHANGED <<held, registration>>
  BY <1>1, <1>9, RGRemovalWritten
<1> QED
  BY <1>3, <1>5, <1>6, <1>7, <1>8, <1>9

-----------------------------------------------------------------------------
LEMMA RGNextHolds ==
  ASSUME RGInv, RG!Next
  PROVE  RGInv'
<1>1. ASSUME NEW a \in rgApp, NEW info \in RG!Info, RG!ChangeApp(a, info)
      PROVE  RGInv'
  BY <1>1, RGChangeAppStep
<1>2. ASSUME NEW s \in RG!Session,
             RG!DestroyTimesOut(s) \/ RG!SaveRegistration(s) \/ RG!SubscribeChanges(s)
      PROVE  RGInv'
  BY <1>2, RGDestroyTimesOutStep, RGSaveRegistrationStep, RGSubscribeChangesStep
<1>3. ASSUME NEW w \in rgSaves, RG!SeenHosts(w)
      PROVE  RGInv'
  BY <1>3, RGSeenHostsStep
<1>4. CASE RG!SendInitial \/ RG!Connect \/ RG!Disconnect \/ RG!Register \/ RG!Unregister
  BY <1>4, RGSendInitialStep, RGConnectStep, RGDisconnectStep, RGRegisterStep, RGUnregisterStep
<1>5. CASE RG!OnNotification \/ RG!Remove \/ RG!RemoveData \/ RG!DoWrite
  BY <1>5, RGOnNotificationStep, RGRemoveStep, RGRemoveDataStep, RGDoWriteStep
<1> QED
  BY <1>1, <1>2, <1>3, <1>4, <1>5 DEF RG!Next

LEMMA RGStays ==
  ASSUME RGInv, UNCHANGED rgVars
  PROVE  RGInv'
<1>1. UNCHANGED <<rgApps, session, sessions, subscription, rgWire, registration, rgEntry, held,
                  rgSaves,
                  rgWrites, removing, db, overtaken, orphaned>>
  BY DEF rgVars
<1>2. RGTypes' /\ RGSessionInv'
  BY <1>1 DEF RGInv, RGTypes, RGSessionInv, RGSessionIsLast, RGLaterIsNone, RGWireIsOfSession,
     RGSubscriptionIsOfSession, RGEntryIsDone, RG!Session
<1>3. RGLiveInv' /\ RGDeferredInv' /\ RGErrorsInv' /\ RGTruthInv' /\ RGRemoveInv'
  BY <1>1, RGLiveStays, RGDeferredStays, RGErrorsStay, RGTruthStays, RGRemoveStays DEF RGInv
<1> QED
  BY <1>2, <1>3 DEF RGInv

LEMMA RGHolds ==
  ASSUME RGInv
  PROVE  RG!RegistryIsTrue
<1> SUFFICES ASSUME RG!Quiet
             PROVE  /\ (rgEntry # RG!NoEntry /\ rgEntry.session = session
                          /\ rgEntry.session \notin overtaken /\ ~orphaned) => db.rows = rgApps
                    /\ (~db.manager /\ ~orphaned) => db.rows = RG!NoApps
  BY DEF RG!RegistryIsTrue
<1>1. RGTypes
  BY DEF RGInv
<1>2. ASSUME rgEntry # RG!NoEntry, rgEntry.session = session, rgEntry.session \notin overtaken,
             ~orphaned
      PROVE  db.rows = rgApps
  <2>1. rgEntry.session # 0
    <3>1. rgEntry.session = 0 => rgEntry = RG!NoEntry
      <4> SUFFICES ASSUME rgEntry.session = 0
                   PROVE  rgEntry = RG!NoEntry
        OBVIOUS
      <4>1. rgEntry.updatedOnce = FALSE
        BY <1>1 DEF RGInv, RGLiveInv, RGOnceIsOfEntry, RGTypes
      <4> QED
        BY <1>1, <4>1 DEF RGTypes, RG!NoEntry
    <3> QED
      BY <1>2, <3>1
  <2>2. RGLive
    BY <1>2, <2>1 DEF RGLive
  <2>3. subscription.initialFinished
    BY <1>2, <2>1, <2>2 DEF RG!Quiet, RGInv, RGLiveInv, RGLiveIsSubscribed
  <2>4. RGTrusted
    BY <1>2, <2>2, <2>3 DEF RGTrusted
  <2>5. rgWire = <<>> /\ rgWrites = <<>>
    BY DEF RG!Quiet
  <2>6. ~RGOwnErrors
    BY <2>5, RGEmptyTells DEF RGOwnErrors
  <2>7. ASSUME NEW a \in rgApp
        PROVE  db.rows[a] = rgApps[a]
    <3>1. RGUntold(rgWire, a) /\ RGUnwritten(rgWrites, a)
      BY <2>5, RGEmptyTells DEF RGUntold, RGUnwritten
    <3> QED
      BY <2>4, <2>6, <3>1 DEF RGInv, RGTruthInv, RGRowsAreTrue
  <2>8. db.rows \in [rgApp -> RG!Info] /\ rgApps \in [rgApp -> RG!Info]
    BY <1>1 DEF RGTypes
  <2> QED
    BY <2>7, <2>8
<1>3. ~db.manager /\ ~orphaned => db.rows = RG!NoApps
  BY DEF RGInv, RGRemoveInv, RGGoneIsEmpty
<1> QED
  BY <1>2, <1>3

-----------------------------------------------------------------------------
(* ExpectedOsVersions *)

(* What the managers and the AppManager have. *)
OVGiven == OV!VersionRange \union {Unset}
OVAnswer == [key : ovKey, range : OVGiven, changed : BOOLEAN]
OVSubscription ==
  [step : {"none", "reading", "read", "live"}, ranges : OV!Ranges, queued : Seq(OV!Change)]
OVPass == [step : {"none", "status", "patches", "save"}, range : OVGiven]
OVManagerTypes ==
  /\ ovDatabase \in [Manager -> OV!Ranges] /\ answers \in [Manager -> Seq(OVAnswer)]
  /\ subs \in [Manager -> OVSubscription] /\ channel \in [Manager -> Seq(Seq(OV!Change))]
  /\ known \in [Manager -> OV!Ranges \union {Unset}] /\ ovSilent \in [Manager -> SUBSET ovKey]
OVHostTypes ==
  /\ expected \in OV!Ranges /\ ovWaiting \in Nat /\ pass \in OVPass
  /\ problems \subseteq OV!Sensor /\ ovSaved \subseteq OV!Sensor
  /\ reported \in [OV!Sensor -> {"none", "info", "ok", "warning"}]
  /\ machine \in BOOLEAN /\ departed \in BOOLEAN /\ unsaved \in BOOLEAN

(* What a subscription begins with: nothing is under way to the AppManager before the first
   answer, and nothing is queued after it. *)
OVBegun(m) ==
  /\ known[m] = Unset <=> subs[m].step = "none"
  /\ subs[m].step = "none" => channel[m] = <<>>
  /\ subs[m].step \in {"reading", "read"} => channel[m] = <<>> /\ known[m] = OV!NoRanges

(* The last change of a key that a manager has yet to announce, that is queued, or that is
   under way says what the database has, and when there is none, so does what was read or
   is known. *)
OVUntold(q, k) == \A i \in DOMAIN q : q[i].key # k
OVIsLast(q, i, k) == i \in DOMAIN q /\ q[i].key = k /\ \A j \in DOMAIN q : j > i => q[j].key # k
OVUnchanged(q, k) == \A i \in DOMAIN q : q[i].changed => q[i].key # k
OVIsLastChange(q, i, k) ==
  i \in DOMAIN q /\ q[i].changed /\ q[i].key = k
  /\ \A j \in DOMAIN q : j > i /\ q[j].changed => q[j].key # k
OVUntoldBatches(c, k) == \A i \in DOMAIN c : OVUntold(c[i], k)
OVIsLastBatch(c, i, k) ==
  i \in DOMAIN c /\ ~OVUntold(c[i], k) /\ \A j \in DOMAIN c : j > i => OVUntold(c[j], k)
OVAnswersAreTrue(m, k) ==
  \A i \in DOMAIN answers[m] :
    OVIsLastChange(answers[m], i, k) => answers[m][i].range = ovDatabase[m][k]
OVQueuedIsTrue(m, k) ==
  subs[m].step \in {"reading", "read"} /\ OVUnchanged(answers[m], k) =>
    \A i \in DOMAIN subs[m].queued :
      OVIsLast(subs[m].queued, i, k) => subs[m].queued[i].range = ovDatabase[m][k]
OVReadIsTrue(m, k) ==
  subs[m].step = "read" /\ OVUnchanged(answers[m], k) /\ OVUntold(subs[m].queued, k) =>
    subs[m].ranges[k] = ovDatabase[m][k]
OVChannelIsTrue(m, k) ==
  subs[m].step = "live" /\ OVUnchanged(answers[m], k) =>
    \A i \in DOMAIN channel[m] : OVIsLastBatch(channel[m], i, k) =>
      \A j \in DOMAIN channel[m][i] :
        channel[m][i][j].key = k => channel[m][i][j].range = ovDatabase[m][k]
OVKnownIsTrue(m, k) ==
  subs[m].step = "live" /\ OVUnchanged(answers[m], k) /\ OVUntoldBatches(channel[m], k) =>
    known[m][k] = ovDatabase[m][k]
OVTold(m, k) ==
  OVAnswersAreTrue(m, k) /\ OVQueuedIsTrue(m, k) /\ OVReadIsTrue(m, k) /\ OVChannelIsTrue(m, k)
    /\ OVKnownIsTrue(m, k)
OVManagerInv(m) == OVBegun(m) /\ \A k \in ovKey : k \notin ovSilent[m] => OVTold(m, k)

(* The HostMonitor reports what it expects, once no pass waits, and remembers what it
   reported. *)
OVExpectedIsMerged == ~departed => expected = OV!Merged(known)
OVPassIsCurrent == ovWaiting = 0 /\ pass.step = "status" => pass.range = OV!Lookup(expected)
OVReportIsCurrent ==
  ovWaiting = 0 /\ pass.step # "status" => reported["version"] = OV!Status(OV!Lookup(expected))
OVSavedAreProblems == pass.step # "save" /\ ~unsaved => problems = ovSaved
OVProblemsAreReported ==
  \A s \in OV!Sensor : reported[s] # "none" => (s \in problems <=> reported[s] = "warning")
OVHostInv == OVPassIsCurrent /\ OVReportIsCurrent /\ OVSavedAreProblems /\ OVProblemsAreReported
OVInv == OVManagerTypes /\ OVHostTypes /\ (\A m \in Manager : OVManagerInv(m))
  /\ OVExpectedIsMerged /\ OVHostInv

-----------------------------------------------------------------------------
(* Sequences *)

(* A set of positions in a sequence that is not empty has a last one. *)
LEMMA OVLastExists ==
  ASSUME NEW n \in Nat, NEW S \in SUBSET (1 .. n), S # {}
  PROVE  OV!Max(S) \in S /\ \A y \in S : y <= OV!Max(S)
<1>1. PICK T : T = {x \in 0 .. n : \E y \in S : x < y}
  OBVIOUS
<1>2. IsFiniteSet(T)
  <2>1. IsFiniteSet(0 .. n) /\ T \in SUBSET (0 .. n)
    BY <1>1, FS_Interval
  <2> QED
    BY <2>1, FS_Subset
<1>3. PICK m : m \in Nat /\ m = Cardinality(T)
  BY <1>2, FS_CardinalityType
<1>4. \A x \in T : 0 .. x \subseteq T
  BY <1>1
<1>5. \A x \in T : x < m
  <2> SUFFICES ASSUME NEW x \in T PROVE x < m
    OBVIOUS
  <2>1. x \in Nat /\ x \in Int /\ 0 .. x \in SUBSET T
    BY <1>1, <1>4
  <2>2. Cardinality(0 .. x) = x + 1
    <3>1. Cardinality(0 .. x) = IF 0 > x THEN 0 ELSE x - 0 + 1
      BY <2>1, FS_Interval
    <3> QED
      BY <2>1, <3>1
  <2>3. Cardinality(0 .. x) <= Cardinality(T)
    BY <1>2, <2>1, FS_Subset
  <2> QED
    BY <1>3, <2>1, <2>2, <2>3
<1>6. T \in SUBSET (0 .. m - 1)
  BY <1>1, <1>3, <1>5
<1>7. m - 1 \in Int /\ IsFiniteSet(0 .. m - 1) /\ Cardinality(0 .. m - 1) = m
  <2>1. m - 1 \in Int /\ (0 > m - 1 <=> m = 0)
    BY <1>3
  <2>2. IsFiniteSet(0 .. m - 1)
          /\ Cardinality(0 .. m - 1) = IF 0 > m - 1 THEN 0 ELSE (m - 1) - 0 + 1
    BY <2>1, FS_Interval
  <2> QED
    BY <1>3, <2>1, <2>2
<1>8. T = 0 .. m - 1
  BY <1>3, <1>6, <1>7, FS_Subset
<1>9. m \notin T /\ \A x \in T : x \in 0 .. n /\ \E y \in S : x < y
  <2>1. m \notin 0 .. m - 1
    BY <1>3
  <2> QED
    BY <1>1, <1>8, <2>1
<1>10. \A y \in S : y <= m
  <2> SUFFICES ASSUME NEW y \in S, m < y PROVE FALSE
    BY <1>3
  <2>1. m \in 0 .. n
    BY <1>3
  <2>2. m \in T
    BY <1>1, <2>1
  <2> QED
    BY <1>9, <2>2
<1>11. PICK k : k \in S
  OBVIOUS
<1>12. m \in S
  <2>1. m - 1 \in 0 .. m - 1
    BY <1>3, <1>10, <1>11
  <2>2. PICK y \in S : m - 1 < y
    BY <1>8, <1>9, <2>1
  <2>3. y = m
    BY <1>3, <1>10, <2>2
  <2> QED
    BY <2>2, <2>3
<1>13. \E x \in S : \A y \in S : x >= y
  BY <1>3, <1>10, <1>12
<1> QED
  BY <1>13 DEF OV!Max

(* The last position of a sequence with a property. *)
LEMMA OVLastOf ==
  ASSUME NEW q, NEW n \in Nat, DOMAIN q = 1 .. n, NEW S \in SUBSET DOMAIN q, S # {}
  PROVE  \E i \in S : i = OV!Max(S) /\ \A j \in S : ~(j > i)
<1>1. OV!Max(S) \in S /\ \A y \in S : y <= OV!Max(S)
  BY OVLastExists
<1> QED
  BY <1>1

(* Changes that are applied: of the changes of a key the last one counts. *)
LEMMA OVAppliedFacts ==
  ASSUME NEW r \in OV!Ranges, NEW q \in Seq(OV!Change), NEW k \in ovKey
  PROVE  /\ OV!Applied(r, q) \in OV!Ranges
         /\ OVUntold(q, k) => OV!Applied(r, q)[k] = r[k]
         /\ ~OVUntold(q, k) => \E i \in DOMAIN q : OVIsLast(q, i, k)
              /\ OV!Applied(r, q)[k] = q[i].range
<1>1. PICK n \in Nat : DOMAIN q = 1 .. n /\ \A i \in DOMAIN q : q[i] \in OV!Change
  <2>1. Len(q) \in Nat /\ DOMAIN q = 1 .. Len(q) /\ \A i \in DOMAIN q : q[i] \in OV!Change
    OBVIOUS
  <2> QED
    BY <2>1
<1>2. PICK Of : Of = [x \in ovKey |-> {i \in DOMAIN q : q[i].key = x}]
  OBVIOUS
<1>3. \A x \in ovKey : OV!Applied(r, q)[x] = IF Of[x] = {} THEN r[x] ELSE q[OV!Max(Of[x])].range
  BY <1>2 DEF OV!Applied
<1>4. \A x \in ovKey : Of[x] # {} => \E i \in Of[x] : i = OV!Max(Of[x]) /\ \A j \in Of[x] : ~(j > i)
  <2> SUFFICES ASSUME NEW x \in ovKey, Of[x] # {}
               PROVE  \E i \in Of[x] : i = OV!Max(Of[x]) /\ \A j \in Of[x] : ~(j > i)
    OBVIOUS
  <2>1. Of[x] \in SUBSET DOMAIN q
    BY <1>2
  <2> QED
    BY <1>1, <2>1, OVLastOf
<1>5. \A x \in ovKey : r[x] \in OV!VersionRange \union {Unset}
  BY DEF OV!Ranges
<1>6. \A x \in ovKey : OV!Applied(r, q)[x] \in OV!VersionRange \union {Unset}
  <2> SUFFICES ASSUME NEW x \in ovKey PROVE OV!Applied(r, q)[x] \in OV!VersionRange \union {Unset}
    OBVIOUS
  <2>1. CASE Of[x] = {}
    BY <1>3, <1>5, <2>1
  <2>2. CASE Of[x] # {}
    <3>1. PICK i \in Of[x] : i = OV!Max(Of[x])
      BY <1>4, <2>2
    <3>2. i \in DOMAIN q
      BY <1>2, <3>1
    <3>3. q[i].range \in OV!VersionRange \union {Unset}
      BY <1>1, <3>2 DEF OV!Change
    <3> QED
      BY <1>3, <2>2, <3>1, <3>3
  <2> QED
    BY <2>1, <2>2
<1>7. OV!Applied(r, q) \in OV!Ranges
  BY <1>6 DEF OV!Applied, OV!Ranges
<1>8. OVUntold(q, k) => Of[k] = {}
  BY <1>2 DEF OVUntold
<1>9. ASSUME ~OVUntold(q, k)
      PROVE  \E i \in DOMAIN q : OVIsLast(q, i, k) /\ OV!Applied(r, q)[k] = q[i].range
  <2>1. Of[k] # {}
    BY <1>2, <1>9 DEF OVUntold
  <2>2. PICK i \in Of[k] : i = OV!Max(Of[k]) /\ \A j \in Of[k] : ~(j > i)
    BY <1>4, <2>1
  <2>3. OVIsLast(q, i, k)
    BY <1>2, <2>2 DEF OVIsLast
  <2>4. OV!Applied(r, q)[k] = q[i].range
    BY <1>3, <2>1, <2>2
  <2> QED
    BY <1>2, <2>3, <2>4
<1> QED
  BY <1>3, <1>7, <1>8, <1>9

(* Cardinality in ExpectedOsVersions is that of the library. *)
LEMMA OVSameCount == \A S : OV!Cardinality(S) = Cardinality(S)
BY DEF OV!Cardinality, Cardinality

(* The first answer lists the keys that have a range. *)
LEMMA OVAsChangesFacts ==
  ASSUME OVConstants, NEW r \in OV!Ranges
  PROVE  /\ OV!AsChanges(r) \in Seq(OV!Change)
         /\ \A i \in DOMAIN OV!AsChanges(r) : OV!AsChanges(r)[i].range = r[OV!AsChanges(r)[i].key]
         /\ \A k \in ovKey : OVUntold(OV!AsChanges(r), k) => r[k] = Unset
<1> DEFINE Keys == {x \in ovKey : r[x] # Unset}
           C(k) == [key |-> k, range |-> r[k]]
           S == {C(k) : k \in Keys}
           len == Cardinality(S)
           q == OV!SetToSeq(S)
<1>1. IsFiniteSet(S)
  <2>1. IsFiniteSet(Keys)
    BY FS_Subset DEF OVConstants
  <2>2. PICK f : f = [k \in Keys |-> C(k)]
    OBVIOUS
  <2>3. f \in Surjection(Keys, S)
    BY <2>2 DEF Surjection
  <2> HIDE DEF Keys, S
  <2> QED
    BY <2>1, <2>3, FS_Surjection
<1>2. len \in Nat /\ ExistsBijection(1 .. len, S)
  BY <1>1, FS_CardinalityType
<1>3. PICK g \in Injection(1 .. len, S) : TRUE
  BY <1>2 DEF ExistsBijection, Bijection
<1>4. q \in Injection(1 .. len, S)
  <2>1. q = CHOOSE f \in [1 .. len -> S] : \A i, j \in DOMAIN f : f[i] = f[j] => i = j
    BY OVSameCount DEF OV!SetToSeq, OV!IsInjective
  <2>2. g \in [1 .. len -> S] /\ \A i, j \in DOMAIN g : g[i] = g[j] => i = j
    BY <1>3 DEF Injection, IsInjective
  <2> HIDE DEF q
  <2>3. q \in [1 .. len -> S] /\ \A i, j \in DOMAIN q : q[i] = q[j] => i = j
    BY ZenonT(60), <2>1, <2>2
  <2> QED
    BY <2>3 DEF Injection, IsInjective
<1>5. IsFiniteSet(1 .. len) /\ Cardinality(1 .. len) = len
  BY <1>2, FS_Interval
<1> HIDE DEF q
<1>6. q \in Surjection(1 .. len, S)
  BY <1>1, <1>4, <1>5, FS_Injection
<1>7. q \in [1 .. len -> S] /\ \A x \in S : \E i \in 1 .. len : q[i] = x
  BY <1>6 DEF Surjection
<1>8. \A x \in S : x \in OV!Change /\ x.range = r[x.key]
  BY DEF OV!Change, OV!Ranges
<1>9. q \in Seq(OV!Change) /\ \A i \in DOMAIN q : q[i].range = r[q[i].key]
  <2>1. S \in SUBSET OV!Change
    BY <1>8
  <2> HIDE DEF S
  <2>2. DOMAIN q = 1 .. len /\ \A i \in 1 .. len : q[i] \in S
    BY <1>7
  <2>3. q \in [1 .. len -> OV!Change]
    BY <1>7, <2>1
  <2>4. q \in Seq(OV!Change)
    BY <1>2, <2>3
  <2> QED
    BY <1>8, <2>2, <2>4
<1>10. ASSUME NEW k \in ovKey, r[k] # Unset PROVE ~OVUntold(q, k)
  <2>1. C(k) \in S /\ C(k).key = k
    BY <1>10
  <2>2. PICK i \in 1 .. len : q[i] = C(k)
    BY <1>7, <2>1
  <2> QED
    BY <1>7, <2>1, <2>2 DEF OVUntold
<1>11. OV!AsChanges(r) = q
  BY DEF OV!AsChanges, q
<1> QED
  BY <1>9, <1>10, <1>11

-----------------------------------------------------------------------------
(* The managers *)

(* What a manager is made of. *)
LEMMA OVTypesAt ==
  ASSUME OVManagerTypes, NEW m \in Manager
  PROVE  /\ ovDatabase[m] \in OV!Ranges /\ answers[m] \in Seq(OVAnswer)
              /\ subs[m] \in OVSubscription
         /\ channel[m] \in Seq(Seq(OV!Change)) /\ known[m] \in OV!Ranges \union {Unset}
              /\ ovSilent[m] \in SUBSET ovKey
BY DEF OVManagerTypes

(* A manager that a step leaves alone. *)
LEMMA OVKept ==
  ASSUME NEW n \in Manager, OVManagerInv(n), ovDatabase'[n] = ovDatabase[n],
         answers'[n] = answers[n],
         subs'[n] = subs[n], channel'[n] = channel[n], known'[n] = known[n],
         ovSilent'[n] = ovSilent[n]
  PROVE  OVManagerInv(n)'
<1>1. OVBegun(n)'
  BY DEF OVManagerInv, OVBegun
<1>2. ASSUME NEW k \in ovKey, k \notin ovSilent'[n] PROVE OVTold(n, k)'
  <2>1. OVTold(n, k)
    BY <1>2 DEF OVManagerInv
  <2> QED
    BY <2>1 DEF OVTold, OVAnswersAreTrue, OVQueuedIsTrue, OVReadIsTrue, OVChannelIsTrue,
       OVKnownIsTrue
<1> QED
  BY <1>1, <1>2 DEF OVManagerInv

LEMMA OVStepOfOne ==
  ASSUME NEW m \in Manager, \A n \in Manager : OVManagerInv(n), OVManagerInv(m)',
         \A n \in Manager \ {m} :
           /\ ovDatabase'[n] = ovDatabase[n] /\ answers'[n] = answers[n] /\ subs'[n] = subs[n]
           /\ channel'[n] = channel[n] /\ known'[n] = known[n] /\ ovSilent'[n] = ovSilent[n]
  PROVE  \A n \in Manager : OVManagerInv(n)'
<1> SUFFICES ASSUME NEW n \in Manager PROVE OVManagerInv(n)'
  OBVIOUS
<1>1. CASE n = m
  BY <1>1
<1>2. CASE n # m
  BY <1>2, OVKept
<1> QED
  BY <1>1, <1>2

(* A new answer at the end. *)
OVAnswerAdded(q, a, k, r) ==
  /\ r \in Seq(OVAnswer)
  /\ OVUnchanged(r, k) => OVUnchanged(q, k) /\ ~(a.changed /\ a.key = k)
  /\ OVUnchanged(q, k) /\ ~(a.changed /\ a.key = k) => OVUnchanged(r, k)
  /\ a.changed /\ a.key = k => \A i : OVIsLastChange(r, i, k) => r[i] = a
  /\ ~(a.changed /\ a.key = k) =>
       \A i : OVIsLastChange(r, i, k) => OVIsLastChange(q, i, k) /\ r[i] = q[i]

LEMMA OVAppendAnswer ==
  ASSUME NEW q \in Seq(OVAnswer), NEW a \in OVAnswer, NEW k \in ovKey, NEW r, r = Append(q, a)
  PROVE  OVAnswerAdded(q, a, k, r)
<1>1. /\ r \in Seq(OVAnswer) /\ Len(q) \in Nat /\ Len(r) = Len(q) + 1
      /\ DOMAIN q = 1 .. Len(q) /\ DOMAIN r = 1 .. Len(q) + 1
      /\ r[Len(q) + 1] = a /\ \A i \in DOMAIN q : i \in DOMAIN r /\ r[i] = q[i]
  OBVIOUS
<1>2. \A i \in DOMAIN r : i = Len(q) + 1 \/ (i \in DOMAIN q /\ Len(q) + 1 > i)
  BY <1>1
<1>3. Len(q) + 1 \in DOMAIN r
  BY <1>1
<1>4. OVUnchanged(r, k) => OVUnchanged(q, k) /\ ~(a.changed /\ a.key = k)
  BY <1>1, <1>3 DEF OVUnchanged
<1>5. OVUnchanged(q, k) /\ ~(a.changed /\ a.key = k) => OVUnchanged(r, k)
  BY <1>1, <1>2 DEF OVUnchanged
<1>6. ASSUME a.changed, a.key = k, NEW i, OVIsLastChange(r, i, k) PROVE r[i] = a
  BY <1>1, <1>2, <1>3, <1>6 DEF OVIsLastChange
<1>7. ASSUME ~(a.changed /\ a.key = k), NEW i, OVIsLastChange(r, i, k)
      PROVE  OVIsLastChange(q, i, k) /\ r[i] = q[i]
  <2>1. i \in DOMAIN r /\ r[i].changed /\ r[i].key = k
        /\ \A j \in DOMAIN r : j > i /\ r[j].changed => r[j].key # k
    BY <1>7 DEF OVIsLastChange
  <2>2. i \in DOMAIN q
    BY <1>1, <1>2, <1>7, <2>1
  <2> QED
    BY <1>1, <2>1, <2>2 DEF OVIsLastChange
<1> QED
  BY <1>1, <1>4, <1>5, <1>6, <1>7 DEF OVAnswerAdded

LEMMA OVSetExpectedStep ==
  ASSUME OVManagerTypes, \A n \in Manager : OVManagerInv(n),
         NEW m \in Manager, NEW k \in ovKey, NEW range \in OVGiven, OV!SetExpected(m, k, range)
  PROVE  OVManagerTypes' /\ (\A n \in Manager : OVManagerInv(n)')
<1> DEFINE a == [key |-> k, range |-> range, changed |-> OV!Changed(ovDatabase[m][k], range)]
<1>1. /\ ovDatabase' = [ovDatabase EXCEPT ![m][k] = range]
      /\ answers' = [answers EXCEPT ![m] = Append(@, a)]
      /\ ovSilent' = [ovSilent EXCEPT ![m] = IF OV!Changed(ovDatabase[m][k], range) THEN @ \ {k}
                                         ELSE IF ovDatabase[m][k] # range THEN @ \union {k} ELSE @]
      /\ subs' = subs /\ channel' = channel /\ known' = known
  BY DEF OV!SetExpected
<1>2. /\ ovDatabase[m] \in OV!Ranges /\ answers[m] \in Seq(OVAnswer) /\ ovSilent[m] \in SUBSET ovKey
  BY OVTypesAt
<1>3. a \in OVAnswer /\ a.key = k /\ a.range = range
        /\ a.changed = OV!Changed(ovDatabase[m][k], range)
  BY DEF OVAnswer, OV!Changed
<1> HIDE DEF a
<1>4. answers'[m] = Append(answers[m], a)
  BY <1>1 DEF OVManagerTypes
<1>5. answers'[m] \in Seq(OVAnswer)
  BY <1>2, <1>3, <1>4
<1>6. ovDatabase'[m] = [ovDatabase[m] EXCEPT ![k] = range]
  BY <1>1 DEF OVManagerTypes
<1>7. ovDatabase'[m] \in OV!Ranges /\ ovDatabase'[m][k] = range
        /\ \A x \in ovKey \ {k} : ovDatabase'[m][x] = ovDatabase[m][x]
  BY <1>2, <1>6 DEF OV!Ranges, OVGiven
<1>8. /\ ovSilent'[m] \in SUBSET ovKey
           /\ \A x \in ovKey \ {k} : x \in ovSilent'[m] <=> x \in ovSilent[m]
      /\ ~a.changed /\ k \notin ovSilent'[m] => k \notin ovSilent[m] /\ ovDatabase[m][k] = range
  BY <1>1, <1>2, <1>3 DEF OVManagerTypes
<1>9. \A n \in Manager \ {m} :
        /\ ovDatabase'[n] = ovDatabase[n] /\ answers'[n] = answers[n] /\ subs'[n] = subs[n]
        /\ channel'[n] = channel[n] /\ known'[n] = known[n] /\ ovSilent'[n] = ovSilent[n]
  BY <1>1 DEF OVManagerTypes
<1>10. OVManagerTypes'
  <2>1. ovDatabase' \in [Manager -> OV!Ranges]
    BY <1>1, <1>7 DEF OVManagerTypes
  <2>2. answers' \in [Manager -> Seq(OVAnswer)]
    BY <1>1, <1>5 DEF OVManagerTypes
  <2>3. ovSilent' \in [Manager -> SUBSET ovKey]
    BY <1>1, <1>8 DEF OVManagerTypes
  <2> QED
    BY <1>1, <2>1, <2>2, <2>3 DEF OVManagerTypes
<1>11. OVBegun(m)'
  BY <1>1 DEF OVManagerInv, OVBegun
<1>12. ASSUME NEW x \in ovKey, x \notin ovSilent'[m] PROVE OVTold(m, x)'
  <2>1. /\ OVUnchanged(answers'[m], x) => OVUnchanged(answers[m], x) /\ ~(a.changed /\ a.key = x)
        /\ a.changed /\ a.key = x => \A i : OVIsLastChange(answers'[m], i, x) => answers'[m][i] = a
        /\ ~(a.changed /\ a.key = x) =>
             \A i : OVIsLastChange(answers'[m], i, x) =>
                      OVIsLastChange(answers[m], i, x) /\ answers'[m][i] = answers[m][i]
    <3>1. OVAnswerAdded(answers[m], a, x, answers'[m])
      BY <1>2, <1>3, <1>4, OVAppendAnswer
    <3> QED
      BY <3>1 DEF OVAnswerAdded
  <2>2. CASE a.changed /\ a.key = x
    <3>1. ~OVUnchanged(answers'[m], x)
      BY <2>1, <2>2
    <3>2. OVAnswersAreTrue(m, x)'
      BY <1>3, <1>7, <2>1, <2>2 DEF OVAnswersAreTrue
    <3> QED
      BY <3>1, <3>2 DEF OVTold, OVQueuedIsTrue, OVReadIsTrue, OVChannelIsTrue, OVKnownIsTrue
  <2>3. CASE ~(a.changed /\ a.key = x)
    <3>1. x \notin ovSilent[m] /\ ovDatabase'[m][x] = ovDatabase[m][x]
      <4>1. CASE x = k
        BY <1>3, <1>7, <1>8, <1>12, <2>3, <4>1
      <4>2. CASE x # k
        BY <1>7, <1>8, <1>12, <4>2
      <4> QED
        BY <4>1, <4>2
    <3>2. OVTold(m, x)
      BY <3>1 DEF OVManagerInv
    <3>3. OVAnswersAreTrue(m, x)'
      BY <2>1, <2>3, <3>1, <3>2 DEF OVTold, OVAnswersAreTrue, OVIsLastChange
    <3>4. OVQueuedIsTrue(m, x)' /\ OVReadIsTrue(m, x)'
      BY <1>1, <2>1, <3>1, <3>2 DEF OVTold, OVQueuedIsTrue, OVReadIsTrue
    <3>5. OVChannelIsTrue(m, x)' /\ OVKnownIsTrue(m, x)'
      BY <1>1, <2>1, <3>1, <3>2 DEF OVTold, OVChannelIsTrue, OVKnownIsTrue
    <3> QED
      BY <3>3, <3>4, <3>5 DEF OVTold
  <2> QED
    BY <2>2, <2>3
<1>13. OVManagerInv(m)'
  BY <1>11, <1>12 DEF OVManagerInv
<1> QED
  BY <1>9, <1>10, <1>13, OVStepOfOne

(* A new change at the end of a queue, a new batch at the end of a channel. *)
OVChangeAdded(q, c, k, r) ==
  /\ r \in Seq(OV!Change)
  /\ c.key = k => ~OVUntold(r, k) /\ \A i : OVIsLast(r, i, k) => r[i] = c
  /\ c.key # k => /\ OVUntold(r, k) => OVUntold(q, k)
                  /\ \A i : OVIsLast(r, i, k) => OVIsLast(q, i, k) /\ r[i] = q[i]

LEMMA OVAppendChange ==
  ASSUME NEW q \in Seq(OV!Change), NEW c \in OV!Change, NEW k \in ovKey, NEW r, r = Append(q, c)
  PROVE  OVChangeAdded(q, c, k, r)
<1>1. /\ r \in Seq(OV!Change) /\ Len(q) \in Nat
      /\ DOMAIN q = 1 .. Len(q) /\ DOMAIN r = 1 .. Len(q) + 1
      /\ r[Len(q) + 1] = c /\ \A i \in DOMAIN q : i \in DOMAIN r /\ r[i] = q[i]
  OBVIOUS
<1>2. \A i \in DOMAIN r : i = Len(q) + 1 \/ (i \in DOMAIN q /\ Len(q) + 1 > i)
  BY <1>1
<1>3. Len(q) + 1 \in DOMAIN r
  BY <1>1
<1>4. c.key = k => ~OVUntold(r, k)
  BY <1>1, <1>3 DEF OVUntold
<1>5. ASSUME c.key = k, NEW i, OVIsLast(r, i, k) PROVE r[i] = c
  BY <1>1, <1>2, <1>3, <1>5 DEF OVIsLast
<1>6. OVUntold(r, k) => OVUntold(q, k)
  BY <1>1 DEF OVUntold
<1>7. ASSUME c.key # k, NEW i, OVIsLast(r, i, k) PROVE OVIsLast(q, i, k) /\ r[i] = q[i]
  <2>1. i \in DOMAIN r /\ r[i].key = k /\ \A j \in DOMAIN r : j > i => r[j].key # k
    BY <1>7 DEF OVIsLast
  <2>2. i \in DOMAIN q
    BY <1>1, <1>2, <1>7, <2>1
  <2> QED
    BY <1>1, <2>1, <2>2 DEF OVIsLast
<1> QED
  BY <1>1, <1>4, <1>5, <1>6, <1>7 DEF OVChangeAdded

OVBatchAdded(c, b, k, r) ==
  /\ r \in Seq(Seq(OV!Change))
  /\ ~OVUntold(b, k) => ~OVUntoldBatches(r, k) /\ \A i : OVIsLastBatch(r, i, k) => r[i] = b
  /\ OVUntold(b, k) => /\ OVUntoldBatches(r, k) => OVUntoldBatches(c, k)
                       /\ \A i : OVIsLastBatch(r, i, k) => OVIsLastBatch(c, i, k) /\ r[i] = c[i]

LEMMA OVAppendBatch ==
  ASSUME NEW c \in Seq(Seq(OV!Change)), NEW b \in Seq(OV!Change), NEW k \in ovKey, NEW r,
         r = Append(c, b)
  PROVE  OVBatchAdded(c, b, k, r)
<1>1. /\ r \in Seq(Seq(OV!Change)) /\ Len(c) \in Nat
      /\ DOMAIN c = 1 .. Len(c) /\ DOMAIN r = 1 .. Len(c) + 1
      /\ r[Len(c) + 1] = b /\ \A i \in DOMAIN c : i \in DOMAIN r /\ r[i] = c[i]
  OBVIOUS
<1>2. \A i \in DOMAIN r : i = Len(c) + 1 \/ (i \in DOMAIN c /\ Len(c) + 1 > i)
  BY <1>1
<1>3. Len(c) + 1 \in DOMAIN r
  BY <1>1
<1>4. ~OVUntold(b, k) => ~OVUntoldBatches(r, k)
  BY <1>1, <1>3 DEF OVUntoldBatches
<1>5. ASSUME ~OVUntold(b, k), NEW i, OVIsLastBatch(r, i, k) PROVE r[i] = b
  BY <1>1, <1>2, <1>3, <1>5 DEF OVIsLastBatch
<1>6. OVUntoldBatches(r, k) => OVUntoldBatches(c, k)
  BY <1>1 DEF OVUntoldBatches
<1>7. ASSUME OVUntold(b, k), NEW i, OVIsLastBatch(r, i, k)
      PROVE OVIsLastBatch(c, i, k) /\ r[i] = c[i]
  <2>1. i \in DOMAIN r /\ ~OVUntold(r[i], k) /\ \A j \in DOMAIN r : j > i => OVUntold(r[j], k)
    BY <1>7 DEF OVIsLastBatch
  <2>2. i \in DOMAIN c
    BY <1>1, <1>2, <1>7, <2>1
  <2> QED
    BY <1>1, <2>1, <2>2 DEF OVIsLastBatch
<1> QED
  BY <1>1, <1>4, <1>5, <1>6, <1>7 DEF OVBatchAdded

(* The first answer is heard of. *)
OVAnswerHeard(q, k, r) ==
  /\ r \in Seq(OVAnswer) /\ q[1] \in OVAnswer /\ Head(q) = q[1]
  /\ OVUnchanged(r, k) /\ q[1].changed /\ q[1].key = k => OVIsLastChange(q, 1, k)
  /\ OVUnchanged(r, k) /\ ~(q[1].changed /\ q[1].key = k) => OVUnchanged(q, k)
  /\ \A i : OVIsLastChange(r, i, k) => OVIsLastChange(q, i + 1, k) /\ r[i] = q[i + 1]

LEMMA OVTailAnswers ==
  ASSUME NEW q \in Seq(OVAnswer), q # <<>>, NEW k \in ovKey, NEW r, r = Tail(q)
  PROVE  OVAnswerHeard(q, k, r)
<1>1. /\ r \in Seq(OVAnswer) /\ q[1] \in OVAnswer /\ Head(q) = q[1] /\ Len(q) \in Nat \ {0}
      /\ DOMAIN q = 1 .. Len(q) /\ DOMAIN r = 1 .. Len(q) - 1
      /\ \A i \in DOMAIN r : r[i] = q[i + 1]
  OBVIOUS
<1>2. \A j \in DOMAIN q : j = 1 \/ (j - 1 \in DOMAIN r /\ r[j - 1] = q[j])
  <2>1. ASSUME NEW j \in DOMAIN q, j # 1 PROVE j - 1 \in DOMAIN r /\ r[j - 1] = q[j]
    <3>1. j - 1 \in DOMAIN r /\ (j - 1) + 1 = j
      BY <1>1, <2>1
    <3>2. r[j - 1] = q[(j - 1) + 1]
      BY <1>1, <3>1
    <3> QED
      BY <3>1, <3>2
  <2> QED
    BY <2>1
<1>3. \A i \in DOMAIN r : i + 1 \in DOMAIN q
  BY <1>1
<1>4. 1 \in DOMAIN q
  BY <1>1
<1>5. ASSUME OVUnchanged(r, k), NEW j \in DOMAIN q, j # 1, q[j].changed PROVE q[j].key # k
  BY <1>2, <1>5 DEF OVUnchanged
<1>6. OVUnchanged(r, k) /\ q[1].changed /\ q[1].key = k => OVIsLastChange(q, 1, k)
  BY <1>4, <1>5 DEF OVIsLastChange
<1>7. OVUnchanged(r, k) /\ ~(q[1].changed /\ q[1].key = k) => OVUnchanged(q, k)
  BY <1>5 DEF OVUnchanged
<1>8. ASSUME NEW i, OVIsLastChange(r, i, k) PROVE OVIsLastChange(q, i + 1, k) /\ r[i] = q[i + 1]
  <2>1. i \in DOMAIN r /\ r[i].changed /\ r[i].key = k
        /\ \A j \in DOMAIN r : j > i /\ r[j].changed => r[j].key # k
    BY <1>8 DEF OVIsLastChange
  <2>2. i + 1 \in DOMAIN q /\ r[i] = q[i + 1]
    BY <1>1, <1>3, <2>1
  <2>3. ASSUME NEW j \in DOMAIN q, j > i + 1, q[j].changed PROVE q[j].key # k
    <3>1. j # 1 /\ j - 1 > i
      BY <1>1, <2>1, <2>3
    <3>2. j - 1 \in DOMAIN r /\ r[j - 1] = q[j]
      BY <1>2, <3>1
    <3> QED
      BY <2>1, <2>3, <3>1, <3>2
  <2> QED
    BY <2>1, <2>2, <2>3 DEF OVIsLastChange
<1> QED
  BY <1>1, <1>6, <1>7, <1>8 DEF OVAnswerHeard

LEMMA OVAnnounceStep ==
  ASSUME OVManagerTypes, \A n \in Manager : OVManagerInv(n), NEW m \in Manager, OV!Announce(m)
  PROVE  OVManagerTypes' /\ (\A n \in Manager : OVManagerInv(n)')
<1> DEFINE a == answers[m][1]
           change == [key |-> a.key, range |-> a.range]
<1>1. /\ ovDatabase[m] \in OV!Ranges /\ answers[m] \in Seq(OVAnswer) /\ subs[m] \in OVSubscription
      /\ channel[m] \in Seq(Seq(OV!Change)) /\ known[m] \in OV!Ranges \union {Unset}
           /\ ovSilent[m] \in SUBSET ovKey
  BY OVTypesAt
<1>2. /\ answers[m] # <<>> /\ answers' = [answers EXCEPT ![m] = Tail(@)]
      /\ ovDatabase' = ovDatabase /\ known' = known /\ ovSilent' = ovSilent
  BY DEF OV!Announce
<1>3. Head(answers[m]) = a /\ a \in OVAnswer
  BY <1>1, <1>2
<1>4. /\ channel' = IF a.changed /\ subs[m].step = "live"
                    THEN [channel EXCEPT ![m] = Append(@, <<change>>)] ELSE channel
      /\ subs' = IF a.changed /\ subs[m].step \in {"reading", "read"}
                 THEN [subs EXCEPT ![m].queued = Append(@, change)] ELSE subs
  BY <1>3 DEF OV!Announce
<1>5. change \in OV!Change /\ change.key = a.key /\ change.range = a.range
  BY <1>3 DEF OVAnswer, OV!Change, OVGiven
<1>6. a.changed \in BOOLEAN
  BY <1>3 DEF OVAnswer
<1> HIDE DEF a, change
<1>7. answers'[m] = Tail(answers[m]) /\ answers'[m] \in Seq(OVAnswer)
  BY <1>1, <1>2 DEF OVManagerTypes
<1>8. <<change>> \in Seq(OV!Change) /\ \A k \in ovKey : OVUntold(<<change>>, k) <=> a.key # k
  BY <1>5 DEF OVUntold
<1>9. a.changed /\ subs[m].step = "live" =>
        channel'[m] = Append(channel[m], <<change>>) /\ channel'[m] \in Seq(Seq(OV!Change))
  BY <1>1, <1>4, <1>8 DEF OVManagerTypes
<1>10. ~(a.changed /\ subs[m].step = "live") => channel' = channel
  BY <1>4
<1>11. subs'[m].step = subs[m].step /\ subs'[m].ranges = subs[m].ranges
  BY <1>1, <1>4 DEF OVManagerTypes, OVSubscription
<1>12. a.changed /\ subs[m].step \in {"reading", "read"} =>
         /\ subs'[m].queued = Append(subs[m].queued, change) /\ subs[m].queued \in Seq(OV!Change)
         /\ subs'[m] \in OVSubscription
  <2> SUFFICES ASSUME a.changed, subs[m].step \in {"reading", "read"}
               PROVE  /\ subs'[m].queued = Append(subs[m].queued, change)
                           /\ subs[m].queued \in Seq(OV!Change)
                      /\ subs'[m] \in OVSubscription
    OBVIOUS
  <2>1. subs'[m] = [subs[m] EXCEPT !.queued = Append(@, change)]
    BY <1>4 DEF OVManagerTypes
  <2>2. subs[m].queued \in Seq(OV!Change) /\ Append(subs[m].queued, change) \in Seq(OV!Change)
    BY <1>1, <1>5 DEF OVSubscription
  <2> QED
    BY <1>1, <2>1, <2>2 DEF OVSubscription
<1>13. ~(a.changed /\ subs[m].step \in {"reading", "read"}) => subs' = subs
  BY <1>4
<1>14. \A n \in Manager \ {m} :
         /\ ovDatabase'[n] = ovDatabase[n] /\ answers'[n] = answers[n] /\ subs'[n] = subs[n]
         /\ channel'[n] = channel[n] /\ known'[n] = known[n] /\ ovSilent'[n] = ovSilent[n]
  BY <1>2, <1>4 DEF OVManagerTypes
<1>15. OVManagerTypes'
  <2>1. answers' \in [Manager -> Seq(OVAnswer)]
    BY <1>2, <1>7 DEF OVManagerTypes
  <2>2. channel' \in [Manager -> Seq(Seq(OV!Change))]
    BY <1>4, <1>9 DEF OVManagerTypes
  <2>3. subs' \in [Manager -> OVSubscription]
    BY <1>4, <1>12 DEF OVManagerTypes
  <2> QED
    BY <1>2, <2>1, <2>2, <2>3 DEF OVManagerTypes
<1>16. OVBegun(m)'
  BY <1>2, <1>10, <1>11 DEF OVManagerInv, OVBegun
<1>17. ASSUME NEW k \in ovKey, k \notin ovSilent'[m] PROVE OVTold(m, k)'
  <2>1. OVTold(m, k) /\ ovDatabase'[m] = ovDatabase[m] /\ known'[m] = known[m]
    BY <1>2, <1>17 DEF OVManagerInv
  <2>2. /\ OVUnchanged(answers'[m], k) /\ a.changed /\ a.key = k => OVIsLastChange(answers[m], 1, k)
        /\ OVUnchanged(answers'[m], k) /\ ~(a.changed /\ a.key = k) => OVUnchanged(answers[m], k)
        /\ \A i : OVIsLastChange(answers'[m], i, k) =>
                    OVIsLastChange(answers[m], i + 1, k) /\ answers'[m][i] = answers[m][i + 1]
    <3>1. OVAnswerHeard(answers[m], k, answers'[m])
      BY <1>1, <1>2, <1>7, OVTailAnswers
    <3> QED
      BY <3>1 DEF OVAnswerHeard, a
  <2>3. OVAnswersAreTrue(m, k)'
    <3>1. \A i : OVIsLastChange(answers[m], i, k) => answers[m][i].range = ovDatabase[m][k]
      BY <2>1 DEF OVTold, OVAnswersAreTrue, OVIsLastChange
    <3> QED
      BY <2>1, <2>2, <3>1 DEF OVAnswersAreTrue
  <2>4. OVUnchanged(answers'[m], k) /\ a.changed /\ a.key = k => change.range = ovDatabase[m][k]
    <3>1. OVIsLastChange(answers[m], 1, k) => answers[m][1].range = ovDatabase[m][k]
      BY <2>1 DEF OVTold, OVAnswersAreTrue, OVIsLastChange
    <3> QED
      BY <1>5, <2>2, <3>1 DEF a
  <2>5. CASE subs[m].step \in {"reading", "read"} /\ a.changed
    <3>1. /\ change.key = k => ~OVUntold(subs'[m].queued, k)
               /\ \A i : OVIsLast(subs'[m].queued, i, k) => subs'[m].queued[i] = change
          /\ change.key # k => /\ OVUntold(subs'[m].queued, k) => OVUntold(subs[m].queued, k)
                               /\ \A i : OVIsLast(subs'[m].queued, i, k) =>
                                    OVIsLast(subs[m].queued, i, k)
                                                                  /\ subs'[m].queued[i] = subs[m].queued[i]
      <4>1. OVChangeAdded(subs[m].queued, change, k, subs'[m].queued)
        BY <1>5, <1>12, <2>5, OVAppendChange
      <4> QED
        BY <4>1 DEF OVChangeAdded
    <3>2. CASE a.key = k
      <4>1. OVQueuedIsTrue(m, k)'
        BY <1>5, <2>1, <2>4, <2>5, <3>1, <3>2 DEF OVQueuedIsTrue
      <4>2. OVReadIsTrue(m, k)'
        BY <1>5, <3>1, <3>2 DEF OVReadIsTrue
      <4> QED
        BY <1>11, <2>3, <2>5, <4>1, <4>2 DEF OVTold, OVChannelIsTrue, OVKnownIsTrue
    <3>3. CASE a.key # k
      <4>1. OVUnchanged(answers'[m], k) => OVUnchanged(answers[m], k)
        BY <2>2, <3>3
      <4>2. OVQueuedIsTrue(m, k)'
        <5>1. OVUnchanged(answers'[m], k) =>
                \A i : OVIsLast(subs[m].queued, i, k) => subs[m].queued[i].range = ovDatabase[m][k]
          BY <2>1, <2>5, <4>1 DEF OVTold, OVQueuedIsTrue, OVIsLast
        <5> QED
          BY <1>5, <2>1, <3>1, <3>3, <5>1 DEF OVQueuedIsTrue
      <4>3. OVReadIsTrue(m, k)'
        BY <1>5, <1>11, <2>1, <3>1, <3>3, <4>1 DEF OVTold, OVReadIsTrue
      <4> QED
        BY <1>11, <2>3, <2>5, <4>2, <4>3 DEF OVTold, OVChannelIsTrue, OVKnownIsTrue
    <3> QED
      BY <3>2, <3>3
  <2>6. CASE subs[m].step = "live" /\ a.changed
    <3>1. /\ ~OVUntold(<<change>>, k) => ~OVUntoldBatches(channel'[m], k)
                                       /\ \A i : OVIsLastBatch(channel'[m], i, k) =>
                                            channel'[m][i] = <<change>>
          /\ OVUntold(<<change>>, k) => /\ OVUntoldBatches(channel'[m], k) =>
                                             OVUntoldBatches(channel[m], k)
                                        /\ \A i : OVIsLastBatch(channel'[m], i, k) =>
                                             OVIsLastBatch(channel[m], i, k)
                                                                            /\ channel'[m][i] = channel[m][i]
      <4>1. OVBatchAdded(channel[m], <<change>>, k, channel'[m])
        BY <1>1, <1>8, <1>9, <2>6, OVAppendBatch
      <4> QED
        BY <4>1 DEF OVBatchAdded
    <3>2. CASE a.key = k
      <4>1. \A j \in DOMAIN <<change>> : <<change>>[j] = change
        OBVIOUS
      <4>2. ~OVUntoldBatches(channel'[m], k) /\ \A i : OVIsLastBatch(channel'[m], i, k) =>
                channel'[m][i] = <<change>>
        BY <1>8, <3>1, <3>2
      <4>3. OVChannelIsTrue(m, k)'
        BY <2>1, <2>4, <2>6, <3>2, <4>1, <4>2 DEF OVChannelIsTrue
      <4>4. OVKnownIsTrue(m, k)'
        BY <4>2 DEF OVKnownIsTrue
      <4> QED
        BY <1>11, <2>3, <2>6, <4>3, <4>4 DEF OVTold, OVQueuedIsTrue, OVReadIsTrue
    <3>3. CASE a.key # k
      <4>1. OVUnchanged(answers'[m], k) => OVUnchanged(answers[m], k)
        BY <2>2, <3>3
      <4>2. /\ OVUntoldBatches(channel'[m], k) => OVUntoldBatches(channel[m], k)
            /\ \A i : OVIsLastBatch(channel'[m], i, k) =>
                 OVIsLastBatch(channel[m], i, k) /\ channel'[m][i] = channel[m][i]
        BY <1>8, <3>1, <3>3
      <4>3. OVChannelIsTrue(m, k)'
        <5>1. OVUnchanged(answers'[m], k) =>
                \A i : OVIsLastBatch(channel[m], i, k) =>
                  \A j \in DOMAIN channel[m][i] : channel[m][i][j].key = k =>
                      channel[m][i][j].range = ovDatabase[m][k]
          BY <2>1, <2>6, <4>1 DEF OVTold, OVChannelIsTrue, OVIsLastBatch
        <5> QED
          BY <2>1, <4>2, <5>1 DEF OVChannelIsTrue
      <4>4. OVKnownIsTrue(m, k)'
        BY <2>1, <2>6, <4>1, <4>2 DEF OVTold, OVKnownIsTrue
      <4> QED
        BY <1>11, <2>3, <2>6, <4>3, <4>4 DEF OVTold, OVQueuedIsTrue, OVReadIsTrue
    <3> QED
      BY <3>2, <3>3
  <2>7. CASE subs[m].step = "none"
    BY <1>11, <2>3, <2>7 DEF OVTold, OVQueuedIsTrue, OVReadIsTrue, OVChannelIsTrue,
       OVKnownIsTrue
  <2>8. CASE ~a.changed
    <3>1. OVUnchanged(answers'[m], k) => OVUnchanged(answers[m], k)
      BY <2>2, <2>8
    <3>2. subs' = subs /\ channel' = channel
      BY <1>10, <1>13, <2>8
    <3> QED
      BY <2>1, <2>3, <3>1, <3>2 DEF OVTold, OVQueuedIsTrue, OVReadIsTrue, OVChannelIsTrue,
         OVKnownIsTrue
  <2>9. subs[m].step \in {"none", "reading", "read", "live"}
    BY <1>1 DEF OVSubscription
  <2> QED
    BY <1>6, <2>5, <2>6, <2>7, <2>8, <2>9
<1>18. OVManagerInv(m)'
  BY <1>16, <1>17 DEF OVManagerInv
<1> QED
  BY <1>14, <1>15, <1>18, OVStepOfOne

LEMMA OVSubscribeStep ==
  ASSUME OVConstants, OVManagerTypes, \A n \in Manager : OVManagerInv(n), NEW m \in Manager,
         OV!Subscribe(m)
  PROVE  OVManagerTypes' /\ (\A n \in Manager : OVManagerInv(n)')
<1>1. /\ known[m] = Unset /\ known' = [known EXCEPT ![m] = OV!NoRanges]
      /\ subs' = [subs EXCEPT ![m] = [OV!NoSub EXCEPT !.step = "reading"]]
      /\ ovDatabase' = ovDatabase /\ answers' = answers /\ channel' = channel
           /\ ovSilent' = ovSilent
  BY DEF OV!Subscribe
<1>2. OV!NoRanges \in OV!Ranges
  BY DEF OV!NoRanges, OV!Ranges
<1>3. known'[m] = OV!NoRanges
  BY <1>1 DEF OVManagerTypes
<1>4. /\ subs'[m].step = "reading" /\ subs'[m].queued = <<>> /\ subs'[m] \in OVSubscription
  <2>1. subs'[m] = [OV!NoSub EXCEPT !.step = "reading"]
    BY <1>1 DEF OVManagerTypes
  <2>2. <<>> \in Seq(OV!Change)
    OBVIOUS
  <2> QED
    BY <1>2, <2>1, <2>2 DEF OV!NoSub, OVSubscription
<1>5. \A n \in Manager \ {m} :
        /\ ovDatabase'[n] = ovDatabase[n] /\ answers'[n] = answers[n] /\ subs'[n] = subs[n]
        /\ channel'[n] = channel[n] /\ known'[n] = known[n] /\ ovSilent'[n] = ovSilent[n]
  BY <1>1 DEF OVManagerTypes
<1>6. OVManagerTypes'
  <2>1. subs' \in [Manager -> OVSubscription]
    BY <1>1, <1>4 DEF OVManagerTypes
  <2>2. known' \in [Manager -> OV!Ranges \union {Unset}]
    BY <1>1, <1>2 DEF OVManagerTypes
  <2> QED
    BY <1>1, <2>1, <2>2 DEF OVManagerTypes
<1>7. channel[m] = <<>>
  BY <1>1 DEF OVManagerInv, OVBegun
<1>8. OV!NoRanges # Unset
  BY <1>2 DEF OVConstants
<1>9. OVBegun(m)'
  BY <1>1, <1>3, <1>4, <1>7, <1>8 DEF OVBegun
<1>10. ASSUME NEW k \in ovKey, k \notin ovSilent'[m] PROVE OVTold(m, k)'
  <2>1. OVAnswersAreTrue(m, k)'
    BY <1>1, <1>10 DEF OVManagerInv, OVTold, OVAnswersAreTrue
  <2>2. OVQueuedIsTrue(m, k)'
    BY <1>4 DEF OVQueuedIsTrue
  <2> QED
    BY <1>4, <2>1, <2>2 DEF OVTold, OVReadIsTrue, OVChannelIsTrue, OVKnownIsTrue
<1>11. OVManagerInv(m)'
  BY <1>9, <1>10 DEF OVManagerInv
<1> QED
  BY <1>5, <1>6, <1>11, OVStepOfOne

LEMMA OVReadDatabaseStep ==
  ASSUME OVManagerTypes, \A n \in Manager : OVManagerInv(n), NEW m \in Manager, OV!ReadDatabase(m)
  PROVE  OVManagerTypes' /\ (\A n \in Manager : OVManagerInv(n)')
<1>1. /\ subs[m].step = "reading"
      /\ subs' = [subs EXCEPT ![m].step = "read", ![m].ranges = ovDatabase[m]]
      /\ ovSilent' = [ovSilent EXCEPT ![m] = @ \intersect OV!Pending(m)]
      /\ ovDatabase' = ovDatabase /\ answers' = answers /\ channel' = channel /\ known' = known
  BY DEF OV!ReadDatabase
<1>2. /\ ovDatabase[m] \in OV!Ranges /\ answers[m] \in Seq(OVAnswer) /\ subs[m] \in OVSubscription
      /\ ovSilent[m] \in SUBSET ovKey
  BY OVTypesAt
<1>3. /\ subs'[m].step = "read" /\ subs'[m].ranges = ovDatabase[m]
           /\ subs'[m].queued = subs[m].queued
      /\ subs'[m] \in OVSubscription
  <2>1. subs'[m] = [[subs[m] EXCEPT !.step = "read"] EXCEPT !.ranges = ovDatabase[m]]
    BY <1>1 DEF OVManagerTypes
  <2> QED
    BY <1>2, <2>1 DEF OVSubscription
<1>4. ovSilent'[m] = ovSilent[m] \intersect OV!Pending(m)
  BY <1>1 DEF OVManagerTypes
<1>5. \A n \in Manager \ {m} :
        /\ ovDatabase'[n] = ovDatabase[n] /\ answers'[n] = answers[n] /\ subs'[n] = subs[n]
        /\ channel'[n] = channel[n] /\ known'[n] = known[n] /\ ovSilent'[n] = ovSilent[n]
  BY <1>1 DEF OVManagerTypes
<1>6. OVManagerTypes'
  <2>1. subs' \in [Manager -> OVSubscription]
    BY <1>1, <1>3 DEF OVManagerTypes
  <2>2. ovSilent' \in [Manager -> SUBSET ovKey]
    BY <1>1, <1>2, <1>4 DEF OVManagerTypes
  <2> QED
    BY <1>1, <2>1, <2>2 DEF OVManagerTypes
<1>7. OVBegun(m)'
  BY <1>1, <1>3 DEF OVManagerInv, OVBegun
<1>8. ASSUME NEW k \in ovKey, k \notin ovSilent'[m] PROVE OVTold(m, k)'
  <2>1. OVReadIsTrue(m, k)' /\ OVChannelIsTrue(m, k)' /\ OVKnownIsTrue(m, k)'
    BY <1>1, <1>3 DEF OVReadIsTrue, OVChannelIsTrue, OVKnownIsTrue
  <2>2. CASE k \notin ovSilent[m]
    <3>1. OVTold(m, k)
      BY <2>2 DEF OVManagerInv
    <3>2. OVAnswersAreTrue(m, k)' /\ OVQueuedIsTrue(m, k)'
      BY <1>1, <1>3, <3>1 DEF OVTold, OVAnswersAreTrue, OVQueuedIsTrue
    <3> QED
      BY <2>1, <3>2 DEF OVTold
  <2>3. CASE k \in ovSilent[m]
    <3>1. k \notin OV!Pending(m)
      BY <1>4, <1>8, <2>3
    <3>2. /\ \A i \in DOMAIN answers[m] : answers[m][i].key # k
          /\ \A i \in DOMAIN subs[m].queued : subs[m].queued[i].key # k
      BY <3>1 DEF OV!Pending
    <3>3. OVAnswersAreTrue(m, k)'
      BY <1>1, <3>2 DEF OVAnswersAreTrue, OVIsLastChange
    <3>4. OVQueuedIsTrue(m, k)'
      BY <1>3, <3>2 DEF OVQueuedIsTrue, OVIsLast
    <3> QED
      BY <2>1, <3>3, <3>4 DEF OVTold
  <2> QED
    BY <2>2, <2>3
<1>9. OVManagerInv(m)'
  BY <1>7, <1>8 DEF OVManagerInv
<1> QED
  BY <1>5, <1>6, <1>9, OVStepOfOne

LEMMA OVFirstAnswerStep ==
  ASSUME OVConstants, OVManagerTypes, \A n \in Manager : OVManagerInv(n), NEW m \in Manager,
         OV!FirstAnswer(m)
  PROVE  OVManagerTypes' /\ (\A n \in Manager : OVManagerInv(n)')
<1> DEFINE all == OV!Applied(subs[m].ranges, subs[m].queued)
           batch == OV!AsChanges(all)
<1>1. /\ subs[m].step = "read"
      /\ channel' = [channel EXCEPT ![m] = Append(@, batch)]
      /\ subs' = [subs EXCEPT ![m] = [OV!NoSub EXCEPT !.step = "live"]]
      /\ ovDatabase' = ovDatabase /\ answers' = answers /\ ovSilent' = ovSilent /\ known' = known
  BY DEF OV!FirstAnswer
<1>2. /\ subs[m] \in OVSubscription /\ channel[m] \in Seq(Seq(OV!Change))
           /\ ovDatabase[m] \in OV!Ranges
  BY OVTypesAt
<1>3. subs[m].ranges \in OV!Ranges /\ subs[m].queued \in Seq(OV!Change)
  BY <1>2 DEF OVSubscription
<1>4. \A k \in ovKey :
        /\ all \in OV!Ranges
        /\ OVUntold(subs[m].queued, k) => all[k] = subs[m].ranges[k]
        /\ ~OVUntold(subs[m].queued, k) => \E i \in DOMAIN subs[m].queued :
             OVIsLast(subs[m].queued, i, k) /\ all[k] = subs[m].queued[i].range
  BY <1>3, OVAppliedFacts
<1>5. all \in OV!Ranges
  <2>1. CASE ovKey = {}
    BY <2>1 DEF OV!Applied, OV!Ranges
  <2>2. CASE ovKey # {}
    BY <1>4, <2>2
  <2> QED
    BY <2>1, <2>2
<1> HIDE DEF all
<1>6. /\ batch \in Seq(OV!Change)
      /\ \A i \in DOMAIN batch : batch[i].range = all[batch[i].key]
      /\ \A k \in ovKey : OVUntold(batch, k) => all[k] = Unset
  BY <1>5, OVAsChangesFacts
<1> HIDE DEF batch
<1>7. channel[m] = <<>> /\ known[m] = OV!NoRanges
  BY <1>1 DEF OVManagerInv, OVBegun
<1>8. channel'[m] = <<batch>>
  <2>1. channel'[m] = Append(channel[m], batch)
    BY <1>1 DEF OVManagerTypes
  <2> QED
    BY <1>7, <2>1
<1>9. channel'[m] \in Seq(Seq(OV!Change)) /\ DOMAIN channel'[m] = {1} /\ channel'[m][1] = batch
  BY <1>6, <1>8
<1>10. subs'[m].step = "live" /\ subs'[m] \in OVSubscription
  <2>1. subs'[m] = [OV!NoSub EXCEPT !.step = "live"]
    BY <1>1 DEF OVManagerTypes
  <2>2. <<>> \in Seq(OV!Change) /\ OV!NoRanges \in OV!Ranges
    BY DEF OV!NoRanges, OV!Ranges
  <2> QED
    BY <2>1, <2>2 DEF OV!NoSub, OVSubscription
<1>11. \A n \in Manager \ {m} :
        /\ ovDatabase'[n] = ovDatabase[n] /\ answers'[n] = answers[n] /\ subs'[n] = subs[n]
        /\ channel'[n] = channel[n] /\ known'[n] = known[n] /\ ovSilent'[n] = ovSilent[n]
  BY <1>1 DEF OVManagerTypes
<1>12. OVManagerTypes'
  <2>1. subs' \in [Manager -> OVSubscription]
    BY <1>1, <1>10 DEF OVManagerTypes
  <2>2. channel' \in [Manager -> Seq(Seq(OV!Change))]
    BY <1>1, <1>9 DEF OVManagerTypes
  <2> QED
    BY <1>1, <2>1, <2>2 DEF OVManagerTypes
<1>13. OVBegun(m)'
  BY <1>1, <1>10 DEF OVManagerInv, OVBegun
<1>14. ASSUME NEW k \in ovKey, k \notin ovSilent'[m] PROVE OVTold(m, k)'
  <2>1. OVTold(m, k)
    BY <1>1, <1>14 DEF OVManagerInv
  <2>2. OVUnchanged(answers[m], k) => all[k] = ovDatabase[m][k]
    <3>1. OVUnchanged(answers[m], k) /\ OVUntold(subs[m].queued, k) =>
              subs[m].ranges[k] = ovDatabase[m][k]
      BY <1>1, <2>1 DEF OVTold, OVReadIsTrue
    <3>2. OVUnchanged(answers[m], k) => \A i \in DOMAIN subs[m].queued :
            OVIsLast(subs[m].queued, i, k) => subs[m].queued[i].range = ovDatabase[m][k]
      BY <1>1, <2>1 DEF OVTold, OVQueuedIsTrue
    <3> QED
      BY <1>4, <3>1, <3>2
  <2>3. OVAnswersAreTrue(m, k)'
    BY <1>1, <2>1 DEF OVTold, OVAnswersAreTrue
  <2>4. OVQueuedIsTrue(m, k)' /\ OVReadIsTrue(m, k)'
    BY <1>10 DEF OVQueuedIsTrue, OVReadIsTrue
  <2>5. OVChannelIsTrue(m, k)'
    <3>1. \A j \in DOMAIN batch : batch[j].key = k => batch[j].range = all[k]
      BY <1>6
    <3> QED
      BY <1>1, <1>9, <2>2, <3>1 DEF OVChannelIsTrue, OVIsLastBatch
  <2>6. OVKnownIsTrue(m, k)'
    <3>1. OVUntoldBatches(channel'[m], k) => all[k] = Unset
      BY <1>6, <1>9 DEF OVUntoldBatches
    <3>2. known'[m][k] = Unset
      BY <1>1, <1>7 DEF OV!NoRanges
    <3> QED
      BY <1>1, <2>2, <3>1, <3>2 DEF OVKnownIsTrue
  <2> QED
    BY <2>3, <2>4, <2>5, <2>6 DEF OVTold
<1>15. OVManagerInv(m)'
  BY <1>13, <1>14 DEF OVManagerInv
<1> QED
  BY <1>11, <1>12, <1>15, OVStepOfOne

(* A manager whose connection is gone. *)
LEMMA OVGone ==
  ASSUME NEW m \in Manager, OVManagerInv(m), ovDatabase'[m] = ovDatabase[m],
         ovSilent'[m] = ovSilent[m],
         answers'[m] \in {answers[m], <<>>}, subs'[m] = OV!NoSub, channel'[m] = <<>>,
         known'[m] = Unset
  PROVE  OVManagerInv(m)'
<1>1. OVBegun(m)'
  BY DEF OVBegun, OV!NoSub
<1>2. ASSUME NEW k \in ovKey, k \notin ovSilent'[m] PROVE OVTold(m, k)'
  <2>1. OVAnswersAreTrue(m, k)
    BY <1>2 DEF OVManagerInv, OVTold
  <2>2. OVAnswersAreTrue(m, k)'
    <3>1. CASE answers'[m] = answers[m]
      BY <2>1, <3>1 DEF OVAnswersAreTrue
    <3>2. CASE answers'[m] = <<>>
      BY <3>2 DEF OVAnswersAreTrue
    <3> QED
      BY <3>1, <3>2
  <2> QED
    BY <2>2 DEF OVTold, OVQueuedIsTrue, OVReadIsTrue, OVChannelIsTrue, OVKnownIsTrue, OV!NoSub
<1> QED
  BY <1>1, <1>2 DEF OVManagerInv

LEMMA OVDisconnectStep ==
  ASSUME OVManagerTypes, \A n \in Manager : OVManagerInv(n), NEW m \in Manager, OV!Disconnect(m)
  PROVE  OVManagerTypes' /\ (\A n \in Manager : OVManagerInv(n)')
<1>1. /\ known' = [known EXCEPT ![m] = Unset] /\ subs' = [subs EXCEPT ![m] = OV!NoSub]
      /\ channel' = [channel EXCEPT ![m] = <<>>]
      /\ answers' \in {answers, [answers EXCEPT ![m] = <<>>]}
      /\ ovDatabase' = ovDatabase /\ ovSilent' = ovSilent
  BY DEF OV!Disconnect
<1>2. OV!NoSub \in OVSubscription
  <2>1. <<>> \in Seq(OV!Change) /\ OV!NoRanges \in OV!Ranges
    BY DEF OV!NoRanges, OV!Ranges
  <2> QED
    BY <2>1 DEF OV!NoSub, OVSubscription
<1>3. <<>> \in Seq(OVAnswer) /\ <<>> \in Seq(Seq(OV!Change))
  OBVIOUS
<1>4. OVManagerTypes'
  BY <1>1, <1>2, <1>3 DEF OVManagerTypes
<1>5. \A n \in Manager \ {m} :
        /\ ovDatabase'[n] = ovDatabase[n] /\ answers'[n] = answers[n] /\ subs'[n] = subs[n]
        /\ channel'[n] = channel[n] /\ known'[n] = known[n] /\ ovSilent'[n] = ovSilent[n]
  BY <1>1 DEF OVManagerTypes
<1>6. /\ ovDatabase'[m] = ovDatabase[m] /\ ovSilent'[m] = ovSilent[m]
           /\ answers'[m] \in {answers[m], <<>>}
      /\ subs'[m] = OV!NoSub /\ channel'[m] = <<>> /\ known'[m] = Unset
  BY <1>1 DEF OVManagerTypes
<1>7. OVManagerInv(m)'
  BY <1>6, OVGone
<1> QED
  BY <1>4, <1>5, <1>7, OVStepOfOne

LEMMA OVRestartManagers ==
  ASSUME OVManagerTypes, \A n \in Manager : OVManagerInv(n), OV!Restart
  PROVE  OVManagerTypes' /\ (\A n \in Manager : OVManagerInv(n)')
<1>1. /\ known' = [m \in Manager |-> Unset] /\ subs' = [m \in Manager |-> OV!NoSub]
      /\ channel' = [m \in Manager |-> <<>>]
      /\ answers' = answers /\ ovDatabase' = ovDatabase /\ ovSilent' = ovSilent
  BY DEF OV!Restart
<1>2. OV!NoSub \in OVSubscription
  <2>1. <<>> \in Seq(OV!Change) /\ OV!NoRanges \in OV!Ranges
    BY DEF OV!NoRanges, OV!Ranges
  <2> QED
    BY <2>1 DEF OV!NoSub, OVSubscription
<1>3. <<>> \in Seq(Seq(OV!Change))
  OBVIOUS
<1>4. OVManagerTypes'
  BY <1>1, <1>2, <1>3 DEF OVManagerTypes
<1>5. ASSUME NEW m \in Manager PROVE OVManagerInv(m)'
  BY <1>1, OVGone
<1> QED
  BY <1>4, <1>5

LEMMA OVVersionRangeChangedStep ==
  ASSUME OVConstants, OVManagerTypes, \A n \in Manager : OVManagerInv(n), NEW m \in Manager,
         OV!VersionRangeChanged(m)
  PROVE  OVManagerTypes' /\ (\A n \in Manager : OVManagerInv(n)')
<1> DEFINE b == channel[m][1]
<1>1. /\ channel[m] # <<>> /\ channel' = [channel EXCEPT ![m] = Tail(@)]
      /\ known' = [known EXCEPT ![m] = OV!Applied(@, Head(channel[m]))]
      /\ ovDatabase' = ovDatabase /\ answers' = answers /\ subs' = subs /\ ovSilent' = ovSilent
  BY DEF OV!VersionRangeChanged
<1>2. /\ subs[m] \in OVSubscription /\ channel[m] \in Seq(Seq(OV!Change))
           /\ known[m] \in OV!Ranges \union {Unset}
  BY OVTypesAt
<1>3. subs[m].step = "live" /\ known[m] \in OV!Ranges
  BY <1>1, <1>2 DEF OVManagerInv, OVBegun, OVSubscription
<1>4. /\ Head(channel[m]) = b /\ b \in Seq(OV!Change) /\ channel'[m] = Tail(channel[m])
      /\ channel'[m] \in Seq(Seq(OV!Change))
  BY <1>1, <1>2 DEF OVManagerTypes
<1>5. /\ Len(channel[m]) \in Nat \ {0} /\ DOMAIN channel[m] = 1 .. Len(channel[m])
      /\ DOMAIN channel'[m] = 1 .. Len(channel[m]) - 1
      /\ \A i \in DOMAIN channel'[m] : channel'[m][i] = channel[m][i + 1]
  <2>1. ASSUME NEW S, NEW q \in Seq(S), q # <<>>, NEW r, r = Tail(q)
        PROVE  /\ Len(q) \in Nat \ {0} /\ DOMAIN q = 1 .. Len(q) /\ DOMAIN r = 1 .. Len(q) - 1
               /\ \A i \in DOMAIN r : r[i] = q[i + 1]
    BY <2>1
  <2> DEFINE Changes == Seq(OV!Change)
  <2>2. channel[m] \in Seq(Changes)
    BY <1>2
  <2> HIDE DEF Changes
  <2> QED
    BY <1>1, <1>4, <2>1, <2>2
<1> HIDE DEF b
<1>6. \A k \in ovKey :
        /\ OV!Applied(known[m], b) \in OV!Ranges
        /\ OVUntold(b, k) => OV!Applied(known[m], b)[k] = known[m][k]
        /\ ~OVUntold(b, k) => \E i \in DOMAIN b : OVIsLast(b, i, k)
             /\ OV!Applied(known[m], b)[k] = b[i].range
  BY <1>3, <1>4, OVAppliedFacts
<1>7. OV!Applied(known[m], b) \in OV!Ranges
  <2>1. CASE ovKey = {}
    BY <2>1 DEF OV!Applied, OV!Ranges
  <2>2. CASE ovKey # {}
    BY <1>6, <2>2
  <2> QED
    BY <2>1, <2>2
<1>8. known'[m] = OV!Applied(known[m], b)
  BY <1>1, <1>4 DEF OVManagerTypes
<1>9. \A n \in Manager \ {m} :
        /\ ovDatabase'[n] = ovDatabase[n] /\ answers'[n] = answers[n] /\ subs'[n] = subs[n]
        /\ channel'[n] = channel[n] /\ known'[n] = known[n] /\ ovSilent'[n] = ovSilent[n]
  BY <1>1 DEF OVManagerTypes
<1>10. OVManagerTypes'
  <2>1. channel' \in [Manager -> Seq(Seq(OV!Change))]
    BY <1>1, <1>4 DEF OVManagerTypes
  <2>2. known' \in [Manager -> OV!Ranges \union {Unset}]
    BY <1>1, <1>4, <1>7 DEF OVManagerTypes
  <2> QED
    BY <1>1, <2>1, <2>2 DEF OVManagerTypes
<1>11. OVBegun(m)'
  BY <1>1, <1>3, <1>7, <1>8 DEF OVBegun, OVConstants
<1>12. ASSUME NEW k \in ovKey, k \notin ovSilent'[m] PROVE OVTold(m, k)'
  <2>1. OVTold(m, k)
    BY <1>1, <1>12 DEF OVManagerInv
  <2>2. OVAnswersAreTrue(m, k)' /\ OVQueuedIsTrue(m, k)' /\ OVReadIsTrue(m, k)'
    BY <1>1, <2>1 DEF OVTold, OVAnswersAreTrue, OVQueuedIsTrue, OVReadIsTrue
  <2>3. \A i \in DOMAIN channel'[m] : i + 1 \in DOMAIN channel[m]
    BY <1>5
  <2>4. ASSUME NEW j \in DOMAIN channel[m], j # 1
        PROVE  j - 1 \in DOMAIN channel'[m] /\ channel'[m][j - 1] = channel[m][j]
    <3>1. j - 1 \in DOMAIN channel'[m] /\ (j - 1) + 1 = j
      BY <1>5, <2>4
    <3> QED
      BY <1>5, <3>1
  <2>5. ASSUME NEW i, OVIsLastBatch(channel'[m], i, k)
        PROVE  OVIsLastBatch(channel[m], i + 1, k) /\ channel'[m][i] = channel[m][i + 1]
    <3>1. i \in DOMAIN channel'[m] /\ ~OVUntold(channel'[m][i], k)
          /\ \A j \in DOMAIN channel'[m] : j > i => OVUntold(channel'[m][j], k)
      BY <2>5 DEF OVIsLastBatch
    <3>2. i + 1 \in DOMAIN channel[m] /\ channel'[m][i] = channel[m][i + 1]
      BY <1>5, <2>3, <3>1
    <3>3. ASSUME NEW j \in DOMAIN channel[m], j > i + 1 PROVE OVUntold(channel[m][j], k)
      <4>1. j # 1 /\ j - 1 > i
        BY <1>5, <3>1, <3>3
      <4> QED
        BY <2>4, <3>1, <4>1
    <3> QED
      BY <3>1, <3>2, <3>3 DEF OVIsLastBatch
  <2>6. OVChannelIsTrue(m, k)'
    <3>1. OVUnchanged(answers[m], k) =>
            \A i : OVIsLastBatch(channel[m], i, k) =>
              \A j \in DOMAIN channel[m][i] : channel[m][i][j].key = k =>
                  channel[m][i][j].range = ovDatabase[m][k]
      BY <1>3, <2>1 DEF OVTold, OVChannelIsTrue, OVIsLastBatch
    <3> QED
      BY <1>1, <2>5, <3>1 DEF OVChannelIsTrue
  <2>7. ASSUME OVUnchanged(answers[m], k), OVUntoldBatches(channel'[m], k)
        PROVE  known'[m][k] = ovDatabase[m][k]
    <3>1. ASSUME NEW j \in DOMAIN channel[m], j # 1 PROVE OVUntold(channel[m][j], k)
      BY <2>4, <2>7, <3>1 DEF OVUntoldBatches
    <3>2. 1 \in DOMAIN channel[m]
      BY <1>5
    <3>3. CASE OVUntold(b, k)
      <4>1. OVUntoldBatches(channel[m], k)
        BY <3>1, <3>3 DEF OVUntoldBatches, b
      <4>2. known[m][k] = ovDatabase[m][k]
        BY <1>3, <2>1, <2>7, <4>1 DEF OVTold, OVKnownIsTrue
      <4> QED
        BY <1>6, <1>8, <3>3, <4>2
    <3>4. CASE ~OVUntold(b, k)
      <4>1. OVIsLastBatch(channel[m], 1, k)
        BY <1>5, <3>1, <3>2, <3>4 DEF OVIsLastBatch, b
      <4>2. \A j \in DOMAIN b : b[j].key = k => b[j].range = ovDatabase[m][k]
        BY <1>3, <2>1, <2>7, <3>2, <4>1 DEF OVTold, OVChannelIsTrue, b
      <4>3. PICK i \in DOMAIN b : OVIsLast(b, i, k) /\ OV!Applied(known[m], b)[k] = b[i].range
        BY <1>6, <3>4
      <4> QED
        BY <1>8, <4>2, <4>3 DEF OVIsLast
    <3> QED
      BY <3>3, <3>4
  <2>8. OVKnownIsTrue(m, k)'
    BY <1>1, <2>7 DEF OVKnownIsTrue
  <2> QED
    BY <2>2, <2>6, <2>8 DEF OVTold
<1>13. OVManagerInv(m)'
  BY <1>11, <1>12 DEF OVManagerInv
<1> QED
  BY <1>9, <1>10, <1>13, OVStepOfOne

(* A step of the HostMonitor leaves the managers alone. *)
LEMMA OVHostSteps ==
  ASSUME OVManagerTypes, \A n \in Manager : OVManagerInv(n),
         UNCHANGED <<ovDatabase, answers, subs, channel, known, ovSilent>>
  PROVE  OVManagerTypes' /\ (\A n \in Manager : OVManagerInv(n)')
    /\ OV!Merged(known') = OV!Merged(known)
<1>1. OVManagerTypes'
  BY DEF OVManagerTypes
<1>2. \A n \in Manager : OVManagerInv(n)'
  BY OVKept
<1> QED
  BY <1>1, <1>2

-----------------------------------------------------------------------------
(* What is expected is what all managers have told, together. *)

(* A set of numbers has a least one. *)
LEMMA OVFirstExists ==
  ASSUME NEW S \in SUBSET Nat, S # {}
  PROVE  OV!Min(S) \in S
<1>1. PICK k : k \in S
  OBVIOUS
<1>2. PICK L : L = {x \in 1 .. k + 1 : \A y \in S : x <= y + 1}
  OBVIOUS
<1>3. 1 \in L /\ L \in SUBSET (1 .. k + 1)
  BY <1>1, <1>2
<1>4. OV!Max(L) \in L /\ \A y \in L : y <= OV!Max(L)
  <2>1. k + 1 \in Nat /\ L # {}
    BY <1>1, <1>3
  <2> QED
    BY <1>3, <2>1, OVLastExists
<1>5. PICK m : m = OV!Max(L)
  OBVIOUS
<1>6. m \in 1 .. k + 1 /\ \A y \in S : m <= y + 1
  BY <1>2, <1>4, <1>5
<1>7. m + 1 \notin L
  BY <1>4, <1>5, <1>6
<1>8. m - 1 \in S
  <2>1. CASE m = k + 1
    BY <1>1, <2>1
  <2>2. CASE m # k + 1
    <3>1. m + 1 \in 1 .. k + 1
      BY <1>1, <1>6, <2>2
    <3>2. PICK y \in S : ~(m + 1 <= y + 1)
      BY <1>2, <1>7, <3>1
    <3>3. y = m - 1
      BY <1>6, <3>2
    <3> QED
      BY <3>2, <3>3
  <2> QED
    BY <2>1, <2>2
<1>9. \A y \in S : m - 1 <= y
  BY <1>6
<1>10. \E x \in S : \A y \in S : x =< y
  BY <1>8, <1>9
<1> QED
  BY <1>10 DEF OV!Min

LEMMA OVNothingTold ==
  ASSUME NEW all, all = [m \in Manager |-> Unset]
  PROVE  OV!Merged(all) = OV!NoRanges
<1> SUFFICES ASSUME NEW k \in ovKey PROVE OV!Merged(all)[k] = Unset
  BY DEF OV!Merged, OV!NoRanges
<1>1. {m \in Manager : all[m] # Unset /\ all[m][k] # Unset} = {}
  OBVIOUS
<1> QED
  BY <1>1 DEF OV!Merged

(* A manager that has told nothing adds nothing. *)
LEMMA OVSilentAddsNothing ==
  ASSUME OVConstants, NEW all \in [Manager -> OV!Ranges \union {Unset}], NEW m \in Manager,
         NEW new, new = [all EXCEPT ![m] = new[m]],
         all[m] \in {Unset, OV!NoRanges}, new[m] \in {Unset, OV!NoRanges}
  PROVE  OV!Merged(new) = OV!Merged(all)
<1> DEFINE Having(a, k) == {n \in Manager : a[n] # Unset /\ a[n][k] # Unset}
<1>1. \A n \in Manager \ {m} : new[n] = all[n]
  OBVIOUS
<1>2. \A k \in ovKey : m \notin Having(all, k) /\ m \notin Having(new, k)
  BY DEF OV!NoRanges
<1>3. ASSUME NEW k \in ovKey PROVE OV!Merged(new)[k] = OV!Merged(all)[k]
  <2>1. Having(new, k) = Having(all, k)
    BY <1>1, <1>2
  <2>2. /\ OV!Merged(all)[k] = IF Having(all, k) = {} THEN Unset ELSE all[OV!Min(Having(all, k))][k]
        /\ OV!Merged(new)[k] = IF Having(new, k) = {} THEN Unset ELSE new[OV!Min(Having(new, k))][k]
    BY DEF OV!Merged
  <2>3. Having(all, k) \in SUBSET (Manager \ {m}) /\ Having(all, k) \in SUBSET Nat
    BY <1>2 DEF OVConstants
  <2> HIDE DEF Having
  <2>4. Having(all, k) # {} => OV!Min(Having(all, k)) \in Manager \ {m}
    BY <2>3, OVFirstExists
  <2> QED
    BY <1>1, <2>1, <2>2, <2>4
<1> QED
  BY <1>3 DEF OV!Merged

LEMMA OVExpectedFollows ==
  ASSUME OVConstants, OVManagerTypes, \A n \in Manager : OVManagerInv(n), OVExpectedIsMerged,
         OV!Next
  PROVE  OVExpectedIsMerged'
<1>1. CASE expected' = expected /\ departed' = departed /\ known' = known
  BY <1>1 DEF OVExpectedIsMerged
<1>2. ASSUME NEW m \in Manager, OV!Subscribe(m) PROVE OVExpectedIsMerged'
  <2>1. /\ known[m] = Unset /\ known' = [known EXCEPT ![m] = OV!NoRanges]
        /\ expected' = expected /\ departed' = departed
    BY <1>2 DEF OV!Subscribe, OV!HostVars
  <2>2. known'[m] = OV!NoRanges /\ known \in [Manager -> OV!Ranges \union {Unset}]
    BY <2>1 DEF OVManagerTypes
  <2>3. OV!Merged(known') = OV!Merged(known)
    BY <2>1, <2>2, OVSilentAddsNothing
  <2> QED
    BY <2>1, <2>3 DEF OVExpectedIsMerged
<1>3. ASSUME NEW m \in Manager, OV!Disconnect(m) PROVE OVExpectedIsMerged'
  <2>1. /\ known' = [known EXCEPT ![m] = Unset] /\ expected' = expected
        /\ departed' = (departed \/ known[m] # OV!NoRanges)
    BY <1>3 DEF OV!Disconnect
  <2>2. known'[m] = Unset /\ known \in [Manager -> OV!Ranges \union {Unset}]
    BY <2>1 DEF OVManagerTypes
  <2>3. known[m] = OV!NoRanges => OV!Merged(known') = OV!Merged(known)
    BY <2>1, <2>2, OVSilentAddsNothing
  <2> QED
    BY <2>1, <2>3 DEF OVExpectedIsMerged
<1>4. ASSUME NEW m \in Manager, OV!VersionRangeChanged(m) PROVE OVExpectedIsMerged'
  BY <1>4 DEF OV!VersionRangeChanged, OVExpectedIsMerged
<1>5. CASE OV!Restart
  <2>1. expected' = OV!NoRanges /\ OV!Merged(known') = OV!NoRanges
    BY <1>5, OVNothingTold DEF OV!Restart
  <2> QED
    BY <2>1 DEF OVExpectedIsMerged
<1>6. ASSUME NEW m \in Manager, NEW k \in ovKey, NEW range \in OVGiven, OV!SetExpected(m, k, range)
      PROVE OVExpectedIsMerged'
  BY <1>1, <1>6 DEF OV!SetExpected, OV!HostVars
<1>7. ASSUME NEW m \in Manager, OV!Announce(m) \/ OV!ReadDatabase(m) \/ OV!FirstAnswer(m)
      PROVE OVExpectedIsMerged'
  BY <1>1, <1>7 DEF OV!Announce, OV!ReadDatabase, OV!FirstAnswer, OV!HostVars
<1>8. CASE OV!Periodic \/ OV!StartPass \/ OV!ReportVersion \/ OV!ReportPatches \/ OV!SaveProblems
           \/ OV!SaveFails \/ OV!MachineChanges
  BY <1>1, <1>8 DEF OV!Periodic, OV!StartPass, OV!ReportVersion, OV!ReportPatches,
     OV!SaveProblems, OV!SaveFails, OV!MachineChanges, OV!CloudVars
<1> QED
  BY <1>2, <1>3, <1>4, <1>5, <1>6, <1>7, <1>8 DEF OV!Next, OVGiven

LEMMA OVManagersFollow ==
  ASSUME OVConstants, OVManagerTypes, \A n \in Manager : OVManagerInv(n), OV!Next
  PROVE  OVManagerTypes' /\ (\A n \in Manager : OVManagerInv(n)')
<1>1. ASSUME NEW m \in Manager, NEW k \in ovKey, NEW range \in OVGiven, OV!SetExpected(m, k, range)
      PROVE  OVManagerTypes' /\ (\A n \in Manager : OVManagerInv(n)')
  BY <1>1, OVSetExpectedStep
<1>2. ASSUME NEW m \in Manager,
             OV!Announce(m) \/ OV!Subscribe(m) \/ OV!ReadDatabase(m) \/ OV!FirstAnswer(m)
               \/ OV!Disconnect(m) \/ OV!VersionRangeChanged(m)
      PROVE  OVManagerTypes' /\ (\A n \in Manager : OVManagerInv(n)')
  BY <1>2, OVAnnounceStep, OVSubscribeStep, OVReadDatabaseStep, OVFirstAnswerStep,
     OVDisconnectStep, OVVersionRangeChangedStep
<1>3. CASE OV!Periodic \/ OV!StartPass \/ OV!ReportVersion \/ OV!ReportPatches \/ OV!SaveProblems
           \/ OV!SaveFails \/ OV!MachineChanges
  <2>1. UNCHANGED <<ovDatabase, answers, subs, channel, known, ovSilent>>
    BY <1>3 DEF OV!Periodic, OV!StartPass, OV!ReportVersion, OV!ReportPatches, OV!SaveProblems,
       OV!SaveFails, OV!MachineChanges, OV!CloudVars
  <2> QED
    BY <2>1, OVHostSteps
<1>4. CASE OV!Restart
  BY <1>4, OVRestartManagers
<1> QED
  BY <1>1, <1>2, <1>3, <1>4 DEF OV!Next, OVGiven

-----------------------------------------------------------------------------
(* The HostMonitor *)

LEMMA OVStatusTypes == \A range : OV!Status(range) \in {"warning", "ok", "info"}
BY DEF OV!Status

LEMMA OVLookupTypes ==
  ASSUME OVConstants, NEW r \in OV!Ranges
  PROVE  OV!Lookup(r) \in OVGiven
<1> DEFINE Of == {k \in ovKey : r[k] # Unset}
<1>1. OV!Lookup(r) = IF Of = {} THEN Unset ELSE r[OV!Min(Of)]
  BY DEF OV!Lookup
<1>2. Of \in SUBSET Nat /\ Of \in SUBSET ovKey
  BY DEF OVConstants
<1> HIDE DEF Of
<1>3. Of # {} => OV!Min(Of) \in ovKey
  BY <1>2, OVFirstExists
<1> QED
  BY <1>1, <1>3 DEF OV!Ranges, OVGiven

LEMMA OVMergedTypes ==
  ASSUME OVConstants, NEW all \in [Manager -> OV!Ranges \union {Unset}]
  PROVE  OV!Merged(all) \in OV!Ranges
<1> SUFFICES ASSUME NEW k \in ovKey PROVE OV!Merged(all)[k] \in OV!VersionRange \union {Unset}
  BY DEF OV!Merged, OV!Ranges
<1> DEFINE Having == {m \in Manager : all[m] # Unset /\ all[m][k] # Unset}
<1>1. OV!Merged(all)[k] = IF Having = {} THEN Unset ELSE all[OV!Min(Having)][k]
  BY DEF OV!Merged
<1>2. Having \in SUBSET Nat /\ \A m \in Having : m \in Manager /\ all[m] \in OV!Ranges
  BY DEF OVConstants
<1> HIDE DEF Having
<1>3. Having # {} => OV!Min(Having) \in Having
  BY <1>2, OVFirstExists
<1> QED
  BY <1>1, <1>2, <1>3 DEF OV!Ranges

(* A status is reported together with its problem. *)
LEMMA OVReported ==
  ASSUME OVHostTypes, OVProblemsAreReported, NEW s \in OV!Sensor, NEW problem \in BOOLEAN,
         OV!SetProblem(s, problem), NEW status, reported' = [reported EXCEPT ![s] = status],
         status \in {"info", "ok", "warning"}, problem <=> status = "warning"
  PROVE  /\ problems' \in SUBSET OV!Sensor /\ OVProblemsAreReported'
         /\ reported' \in [OV!Sensor -> {"none", "info", "ok", "warning"}]
         /\ pass' \in OVPass /\ pass'.step # "status"
         /\ (pass'.step # "save" => problems' = problems)
<1>1. problems' = IF problem THEN problems \union {s} ELSE problems \ {s}
  BY DEF OV!SetProblem
<1>2. pass' = [step |-> IF problems' # problems THEN "save"
                        ELSE IF s = "version" THEN "patches" ELSE "none",
               range |-> Unset]
  BY DEF OV!SetProblem
<1>3. pass' \in OVPass /\ pass'.step # "status" /\ (pass'.step # "save" => problems' = problems)
  BY <1>2 DEF OVPass, OVGiven
<1>4. problems \in SUBSET OV!Sensor /\ reported \in [OV!Sensor -> {"none", "info", "ok", "warning"}]
  BY DEF OVHostTypes
<1>5. problems' \in SUBSET OV!Sensor
  BY <1>1, <1>4
<1>6. reported'[s] = status /\ \A t \in OV!Sensor \ {s} : reported'[t] = reported[t]
  BY <1>4
<1>7. s \in problems' <=> problem
  BY <1>1
<1>8. \A t \in OV!Sensor \ {s} : t \in problems' <=> t \in problems
  BY <1>1
<1>9. ASSUME NEW t \in OV!Sensor, reported'[t] # "none"
      PROVE t \in problems' <=> reported'[t] = "warning"
  <2>1. CASE t = s
    BY <1>6, <1>7, <2>1
  <2>2. CASE t # s
    BY <1>6, <1>8, <1>9, <2>2 DEF OVProblemsAreReported
  <2> QED
    BY <2>1, <2>2
<1>10. reported' \in [OV!Sensor -> {"none", "info", "ok", "warning"}]
  BY <1>4
<1> QED
  BY <1>3, <1>5, <1>9, <1>10 DEF OVProblemsAreReported

LEMMA OVReportVersionStep ==
  ASSUME OVConstants, OVHostTypes, OVHostInv, OV!ReportVersion
  PROVE  OVHostTypes' /\ OVHostInv'
<1>1. /\ pass.step = "status" /\ reported' = [reported EXCEPT !["version"] = OV!Status(pass.range)]
      /\ OV!SetProblem("version", pass.range = "misfits")
      /\ expected' = expected /\ ovWaiting' = ovWaiting /\ ovSaved' = ovSaved /\ unsaved' = unsaved
      /\ departed' = departed /\ machine' = machine
  BY DEF OV!ReportVersion, OV!CloudVars
<1>2. "version" \in OV!Sensor /\ OV!Status(pass.range) \in {"info", "ok", "warning"}
      /\ (pass.range = "misfits" <=> OV!Status(pass.range) = "warning")
  BY DEF OV!Sensor, OV!Status
<1>3. /\ problems' \in SUBSET OV!Sensor /\ OVProblemsAreReported'
      /\ reported' \in [OV!Sensor -> {"none", "info", "ok", "warning"}]
      /\ pass' \in OVPass /\ pass'.step # "status"
      /\ (pass'.step # "save" => problems' = problems)
  <2>1. (pass.range = "misfits") \in BOOLEAN /\ OVProblemsAreReported
    BY DEF OVHostInv
  <2> QED
    BY <1>1, <1>2, <2>1, OVReported
<1>4. OVHostTypes'
  BY <1>1, <1>3 DEF OVHostTypes
<1>5. OVPassIsCurrent'
  BY <1>3 DEF OVPassIsCurrent
<1>6. reported'["version"] = OV!Status(pass.range)
  BY <1>1, <1>2 DEF OVHostTypes
<1>7. OVReportIsCurrent'
  BY <1>1, <1>6 DEF OVHostInv, OVPassIsCurrent, OVReportIsCurrent
<1>8. OVSavedAreProblems'
  BY <1>1, <1>3 DEF OVHostInv, OVSavedAreProblems
<1> QED
  BY <1>3, <1>4, <1>5, <1>7, <1>8 DEF OVHostInv

LEMMA OVReportPatchesStep ==
  ASSUME OVConstants, OVHostTypes, OVHostInv, OV!ReportPatches
  PROVE  OVHostTypes' /\ OVHostInv'
<1>1. /\ pass.step = "patches"
           /\ reported' = [reported EXCEPT !["patches"] = IF machine THEN "warning" ELSE "ok"]
      /\ OV!SetProblem("patches", machine)
      /\ expected' = expected /\ ovWaiting' = ovWaiting /\ ovSaved' = ovSaved /\ unsaved' = unsaved
      /\ departed' = departed
  BY DEF OV!ReportPatches, OV!CloudVars
<1>2. "patches" \in OV!Sensor
  BY DEF OV!Sensor
<1>3. /\ problems' \in SUBSET OV!Sensor /\ OVProblemsAreReported'
      /\ reported' \in [OV!Sensor -> {"none", "info", "ok", "warning"}]
      /\ pass' \in OVPass /\ pass'.step # "status"
      /\ (pass'.step # "save" => problems' = problems)
  <2>1. OVProblemsAreReported
    BY DEF OVHostInv
  <2>2. PICK status : status = IF machine THEN "warning" ELSE "ok"
    OBVIOUS
  <2>3. status \in {"info", "ok", "warning"} /\ (machine <=> status = "warning")
    BY <2>2
  <2>4. machine \in BOOLEAN
    BY DEF OVHostTypes
  <2> QED
    BY <1>1, <1>2, <2>1, <2>2, <2>3, <2>4, OVReported
<1>4. OVHostTypes'
  BY <1>1, <1>3 DEF OVHostTypes, OV!ReportPatches
<1>5. OVPassIsCurrent'
  BY <1>3 DEF OVPassIsCurrent
<1>6. reported'["version"] = reported["version"]
  BY <1>1 DEF OVHostTypes, OV!Sensor
<1>7. OVReportIsCurrent'
  BY <1>1, <1>6 DEF OVHostInv, OVReportIsCurrent
<1>8. OVSavedAreProblems'
  BY <1>1, <1>3 DEF OVHostInv, OVSavedAreProblems
<1> QED
  BY <1>3, <1>4, <1>5, <1>7, <1>8 DEF OVHostInv

LEMMA OVStartPassStep ==
  ASSUME OVConstants, OVHostTypes, OVHostInv, OV!StartPass
  PROVE  OVHostTypes' /\ OVHostInv'
<1>1. /\ pass.step = "none" /\ ovWaiting > 0 /\ ovWaiting' = ovWaiting - 1
      /\ pass' = [step |-> "status", range |-> OV!Lookup(expected)]
      /\ UNCHANGED <<expected, problems, ovSaved, reported, unsaved, departed, machine>>
  BY DEF OV!StartPass, OV!CloudVars
<1>2. OV!Lookup(expected) \in OVGiven
  BY OVLookupTypes DEF OVHostTypes
<1>3. pass' \in OVPass /\ pass'.step = "status" /\ pass'.range = OV!Lookup(expected)
  BY <1>1, <1>2 DEF OVPass
<1>4. OVHostTypes'
  BY <1>1, <1>3 DEF OVHostTypes
<1>5. OVPassIsCurrent' /\ OVReportIsCurrent'
  BY <1>1, <1>3 DEF OVPassIsCurrent, OVReportIsCurrent
<1>6. OVSavedAreProblems' /\ OVProblemsAreReported'
  BY <1>1, <1>3 DEF OVHostInv, OVSavedAreProblems, OVProblemsAreReported
<1> QED
  BY <1>4, <1>5, <1>6 DEF OVHostInv

LEMMA OVHostFollows ==
  ASSUME OVConstants, OVManagerTypes, OVManagerTypes', OVHostTypes, OVHostInv, OV!Next
  PROVE  OVHostTypes' /\ OVHostInv'
<1>1. CASE UNCHANGED <<expected, ovWaiting, pass, problems, ovSaved, reported, unsaved>>
           /\ departed' \in BOOLEAN /\ machine' \in BOOLEAN
  <2>1. OVHostTypes'
    BY <1>1 DEF OVHostTypes
  <2>2. OVHostInv'
    BY <1>1 DEF OVHostInv, OVPassIsCurrent, OVReportIsCurrent, OVSavedAreProblems,
       OVProblemsAreReported
  <2> QED
    BY <2>1, <2>2
<1>2. ASSUME NEW m \in Manager, NEW k \in ovKey, NEW range \in OVGiven, OV!SetExpected(m, k, range)
      PROVE  OVHostTypes' /\ OVHostInv'
  BY <1>1, <1>2 DEF OV!SetExpected, OV!HostVars, OVHostTypes
<1>3. ASSUME NEW m \in Manager,
             OV!Announce(m) \/ OV!Subscribe(m) \/ OV!ReadDatabase(m) \/ OV!FirstAnswer(m)
      PROVE  OVHostTypes' /\ OVHostInv'
  BY <1>1, <1>3 DEF OV!Announce, OV!Subscribe, OV!ReadDatabase, OV!FirstAnswer, OV!HostVars,
     OVHostTypes
<1>4. ASSUME NEW m \in Manager, OV!Disconnect(m) PROVE OVHostTypes' /\ OVHostInv'
  <2>1. departed' \in BOOLEAN
    BY <1>4 DEF OV!Disconnect, OVHostTypes
  <2> QED
    BY <1>1, <1>4, <2>1 DEF OV!Disconnect, OVHostTypes
<1>5. CASE OV!MachineChanges
  BY <1>1, <1>5 DEF OV!MachineChanges, OVHostTypes
<1>6. ASSUME NEW m \in Manager, OV!VersionRangeChanged(m) PROVE OVHostTypes' /\ OVHostInv'
  <2>1. /\ expected' = OV!Merged(known') /\ ovWaiting' = ovWaiting + 1 /\ departed' = FALSE
        /\ UNCHANGED <<pass, problems, ovSaved, reported, machine, unsaved>>
    BY <1>6 DEF OV!VersionRangeChanged
  <2>2. expected' \in OV!Ranges
    <3>1. known' \in [Manager -> OV!Ranges \union {Unset}]
      BY DEF OVManagerTypes
    <3>2. \A all \in [Manager -> OV!Ranges \union {Unset}] : OV!Merged(all) \in OV!Ranges
      BY OVMergedTypes
    <3> QED
      BY <2>1, <3>1, <3>2
  <2>3. OVHostTypes'
    <3>1. ovWaiting' \in Nat
      BY <2>1 DEF OVHostTypes
    <3> QED
      BY <2>1, <2>2, <3>1 DEF OVHostTypes
  <2>4. ovWaiting' # 0
    BY <2>1 DEF OVHostTypes
  <2>5. OVPassIsCurrent' /\ OVReportIsCurrent'
    BY <2>4 DEF OVPassIsCurrent, OVReportIsCurrent
  <2>6. OVSavedAreProblems' /\ OVProblemsAreReported'
    BY <2>1 DEF OVHostInv, OVSavedAreProblems, OVProblemsAreReported
  <2> QED
    BY <2>3, <2>5, <2>6 DEF OVHostInv
<1>7. CASE OV!Periodic
  <2>1. ovWaiting' = 1 /\ UNCHANGED <<expected, departed, pass, problems, ovSaved, reported,
                                      machine, unsaved>>
    BY <1>7 DEF OV!Periodic, OV!CloudVars
  <2>2. OVHostTypes'
    BY <2>1 DEF OVHostTypes
  <2>3. OVPassIsCurrent' /\ OVReportIsCurrent'
    BY <2>1 DEF OVPassIsCurrent, OVReportIsCurrent
  <2>4. OVSavedAreProblems' /\ OVProblemsAreReported'
    BY <2>1 DEF OVHostInv, OVSavedAreProblems, OVProblemsAreReported
  <2> QED
    BY <2>2, <2>3, <2>4 DEF OVHostInv
<1>8. CASE OV!SaveProblems \/ OV!SaveFails
  <2>1. /\ pass.step = "save" /\ pass' = OV!NoPass
        /\ UNCHANGED <<expected, ovWaiting, departed, problems, reported, machine>>
    BY <1>8 DEF OV!SaveProblems, OV!SaveFails, OV!CloudVars
  <2>2. (ovSaved' = problems /\ unsaved' = FALSE) \/ (ovSaved' = ovSaved /\ unsaved' = TRUE)
    BY <1>8 DEF OV!SaveProblems, OV!SaveFails
  <2>3. pass' \in OVPass /\ pass'.step = "none"
    BY <2>1 DEF OV!NoPass, OVPass, OVGiven
  <2>4. OVHostTypes'
    BY <2>1, <2>2, <2>3 DEF OVHostTypes
  <2>5. OVPassIsCurrent' /\ OVReportIsCurrent'
    BY <2>1, <2>3 DEF OVHostInv, OVPassIsCurrent, OVReportIsCurrent
  <2>6. OVSavedAreProblems' /\ OVProblemsAreReported'
    BY <2>1, <2>2 DEF OVHostInv, OVSavedAreProblems, OVProblemsAreReported
  <2> QED
    BY <2>4, <2>5, <2>6 DEF OVHostInv
<1>9. CASE OV!Restart
  <2>1. /\ expected' = OV!NoRanges /\ departed' = FALSE /\ unsaved' = FALSE /\ ovWaiting' = 1
             /\ pass' = OV!NoPass
        /\ problems' = ovSaved /\ ovSaved' = ovSaved /\ machine' = machine
        /\ reported' = [s \in OV!Sensor |-> "none"]
    BY <1>9 DEF OV!Restart
  <2>2. pass' \in OVPass /\ expected' \in OV!Ranges
    BY <2>1 DEF OV!NoPass, OVPass, OVGiven, OV!NoRanges, OV!Ranges
  <2>3. OVHostTypes'
    BY <2>1, <2>2 DEF OVHostTypes
  <2>4. OVPassIsCurrent' /\ OVReportIsCurrent' /\ OVSavedAreProblems' /\ OVProblemsAreReported'
    BY <2>1 DEF OVPassIsCurrent, OVReportIsCurrent, OVSavedAreProblems, OVProblemsAreReported
  <2> QED
    BY <2>3, <2>4 DEF OVHostInv
<1> QED
  BY <1>2, <1>3, <1>4, <1>5, <1>6, <1>7, <1>8, <1>9, OVReportVersionStep, OVReportPatchesStep,
     OVStartPassStep DEF OV!Next, OVGiven

LEMMA OVInitHolds == OVConstants /\ OV!Init => OVInv
<1> SUFFICES ASSUME OVConstants, OV!Init PROVE OVInv
  OBVIOUS
<1>1. OV!NoSub \in OVSubscription /\ OV!NoRanges \in OV!Ranges /\ OV!NoPass \in OVPass
  <2>1. <<>> \in Seq(OV!Change) /\ OV!NoRanges \in OV!Ranges
    BY DEF OV!NoRanges, OV!Ranges
  <2> QED
    BY <2>1 DEF OV!NoSub, OV!NoPass, OVSubscription, OVPass, OVGiven
<1>2. OVManagerTypes
  <2>1. <<>> \in Seq(OVAnswer) /\ <<>> \in Seq(Seq(OV!Change))
    OBVIOUS
  <2> QED
    BY <1>1, <2>1 DEF OV!Init, OVManagerTypes, OVConstants
<1>3. OVHostTypes
  BY <1>1 DEF OV!Init, OVHostTypes
<1>4. ASSUME NEW m \in Manager PROVE OVManagerInv(m)
  BY DEF OV!Init, OVManagerInv, OVBegun, OVTold, OVAnswersAreTrue, OVQueuedIsTrue, OVReadIsTrue,
     OVChannelIsTrue, OVKnownIsTrue, OV!NoSub, OVIsLastChange
<1>5. OVExpectedIsMerged
  <2>1. OV!Merged(known) = OV!NoRanges
    BY OVNothingTold DEF OV!Init
  <2> QED
    BY <2>1 DEF OV!Init, OVExpectedIsMerged
<1>6. OVHostInv
  BY DEF OV!Init, OVHostInv, OVPassIsCurrent, OVReportIsCurrent, OVSavedAreProblems,
     OVProblemsAreReported, OV!NoPass
<1> QED
  BY <1>2, <1>3, <1>4, <1>5, <1>6 DEF OVInv

LEMMA OVNextHolds == OVConstants /\ OVInv /\ OV!Next => OVInv'
<1> SUFFICES ASSUME OVConstants, OVInv, OV!Next PROVE OVInv'
  OBVIOUS
<1>1. OVManagerTypes /\ OVHostTypes /\ (\A m \in Manager : OVManagerInv(m)) /\ OVExpectedIsMerged
        /\ OVHostInv
  BY DEF OVInv
<1>2. OVManagerTypes' /\ (\A n \in Manager : OVManagerInv(n)')
  BY <1>1, OVManagersFollow
<1>3. OVExpectedIsMerged'
  BY <1>1, OVExpectedFollows
<1>4. OVHostTypes' /\ OVHostInv'
  BY <1>1, <1>2, OVHostFollows
<1> QED
  BY <1>2, <1>3, <1>4 DEF OVInv

LEMMA OVStays == OVInv /\ UNCHANGED ovVars => OVInv'
<1> SUFFICES ASSUME OVInv, UNCHANGED ovVars PROVE OVInv'
  OBVIOUS
<1>1. /\ ovDatabase' = ovDatabase /\ answers' = answers /\ subs' = subs /\ channel' = channel
           /\ known' = known
      /\ ovSilent' = ovSilent /\ expected' = expected /\ ovWaiting' = ovWaiting /\ pass' = pass
           /\ problems' = problems
      /\ ovSaved' = ovSaved /\ reported' = reported /\ machine' = machine /\ departed' = departed
           /\ unsaved' = unsaved
  BY DEF ovVars
<1>2. OVManagerTypes /\ OVHostTypes /\ (\A m \in Manager : OVManagerInv(m)) /\ OVExpectedIsMerged
        /\ OVHostInv
  BY DEF OVInv
<1>3. OVManagerTypes' /\ (\A n \in Manager : OVManagerInv(n)')
  BY <1>1, <1>2, OVHostSteps
<1>4. OVHostTypes' /\ OVExpectedIsMerged'
  BY <1>1, <1>2 DEF OVHostTypes, OVExpectedIsMerged
<1>5. OVHostInv'
  BY <1>1, <1>2 DEF OVHostInv, OVPassIsCurrent, OVReportIsCurrent, OVSavedAreProblems,
     OVProblemsAreReported
<1> QED
  BY <1>3, <1>4, <1>5 DEF OVInv

(* What the invariant says of a manager that has told everything. *)
LEMMA OVStatusFollows == OVConstants /\ OVInv => OV!StatusIsRight
<1> SUFFICES ASSUME OVInv, OV!Idle, ~departed, OVConstants,
                    \A m \in OV!Connected : /\ subs[m].step = "live" /\ channel[m] = <<>>
                                            /\ answers[m] = <<>> /\ ovSilent[m] = {}
             PROVE  reported["version"] =
                      OV!Status(OV!Lookup(OV!Merged([m \in Manager |-> IF m \in OV!Connected THEN ovDatabase[m] ELSE Unset])))
  BY DEF OV!StatusIsRight
<1>1. reported["version"] = OV!Status(OV!Lookup(OV!Merged(known)))
  BY DEF OVInv, OVHostInv, OVReportIsCurrent, OVExpectedIsMerged, OV!Idle
<1>2. ASSUME NEW m \in OV!Connected PROVE known[m] = ovDatabase[m]
  <2>1. m \in Manager /\ known[m] \in OV!Ranges /\ ovDatabase[m] \in OV!Ranges
    BY <1>2 DEF OV!Connected, OVInv, OVManagerTypes
  <2>2. ASSUME NEW k \in ovKey PROVE known[m][k] = ovDatabase[m][k]
    <3>1. OVKnownIsTrue(m, k)
      BY <1>2, <2>1 DEF OVInv, OVManagerInv, OVTold
    <3>2. OVUnchanged(answers[m], k) /\ OVUntoldBatches(channel[m], k)
      BY <1>2 DEF OVUnchanged, OVUntoldBatches
    <3> QED
      BY <1>2, <3>1, <3>2 DEF OVKnownIsTrue
  <2> QED
    BY <2>1, <2>2 DEF OV!Ranges
<1>3. \A m \in Manager : known[m] = IF m \in OV!Connected THEN ovDatabase[m] ELSE Unset
  BY <1>2 DEF OV!Connected
<1>4. known = [m \in Manager |-> IF m \in OV!Connected THEN ovDatabase[m] ELSE Unset]
  BY <1>3 DEF OVInv, OVManagerTypes
<1> QED
  BY <1>1, <1>4

LEMMA OVProblemsFollow == OVInv => OV!ProblemsAreKept
BY DEF OVInv, OVHostInv, OVSavedAreProblems, OVProblemsAreReported, OV!ProblemsAreKept, OV!Idle
=============================================================================
