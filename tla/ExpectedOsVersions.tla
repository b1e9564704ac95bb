------------------------- MODULE ExpectedOsVersions -------------------------
(* What CloudManagers expect of the operating systems of hosts, on its way to the status
   that the HostMonitor of one AppManager reports: the database of each manager, the
   subscription with what is queued while its first answer is read, the ranges of all
   managers together, and the HostMonitor's passes over versions and patches, which keep
   in the database since when there has been a problem. *)
EXTENDS Naturals, Sequences, SequencesExt, FiniteSetsExt

CONSTANTS Manager,    \* numbers of the CloudManagers, in the order of mp_CloudManagers
          Key,        \* version keys that fit this host, the most specific one lowest
          Unset,      \* no range
          Stored,     \* the databases at first
          MaxEvents   \* bound: changes, broken connections, restarts, failed writes

VARIABLES database,   \* CloudManager -> key -> range
          answers,    \* CloudManager -> writes it has not heard of: key, range, bChanged
          subs,       \* CloudManager -> the subscription of the AppManager, or NoSub
          channel,    \* CloudManager -> what the change functor is called with, in order
          known,      \* CloudManager -> m_ExpecteOsVersions, or Unset when not connected
          expected,   \* the HostMonitor's m_ExpectedOsVersions
          waiting,    \* passes that wait for the sequencer
          pass,       \* the pass that runs, or NoPass
          problems,   \* m_PatchDatabaseState: what there is a problem with
          saved,      \* the same in the database
          reported,   \* the last reading of each status sensor since the AppManager started
          machine,    \* whether security patches or a reboot are needed
          spent,      \* how many of MaxEvents have happened
          silent,     \* CloudManager -> keys stored without telling a subscriber
          departed,   \* a manager went after it had said something
          unsaved     \* a write of problems has failed

vars == <<database, answers, subs, channel, known, expected, waiting, pass, problems, saved,
          reported, machine, spent, silent, departed, unsaved>>

VersionRange == {"fits", "misfits"}          \* whether the host's version is in the range
Ranges == [Key -> VersionRange \union {Unset}]
NoRanges == [k \in Key |-> Unset]
NoSub == [step |-> "none", ranges |-> NoRanges, queued |-> <<>>]
NoPass == [step |-> "none", range |-> Unset]
Sensor == {"version", "patches"}
Change == [key : Key, range : VersionRange \union {Unset}]

TypeOK ==
  /\ database \in [Manager -> Ranges]
  /\ \A m \in Manager :
       /\ subs[m].step \in {"none", "reading", "read", "live"} /\ subs[m].ranges \in Ranges
       /\ subs[m].queued \in Seq(Change) /\ silent[m] \subseteq Key
       /\ known[m] = Unset \/ known[m] \in Ranges
  /\ expected \in Ranges /\ waiting \in 0..(MaxEvents + 8)
  /\ pass \in [step : {"none", "status", "patches", "save"}, range : VersionRange \union {Unset}]
  /\ problems \subseteq Sensor /\ saved \subseteq Sensor
  /\ reported \in [Sensor -> {"none", "info", "ok", "warning"}]
  /\ machine \in BOOLEAN /\ spent \in 0..MaxEvents /\ departed \in BOOLEAN /\ unsaved \in BOOLEAN

Init ==
  /\ database = Stored
  /\ answers = [m \in Manager |-> <<>>]
  /\ subs = [m \in Manager |-> NoSub]
  /\ channel = [m \in Manager |-> <<>>]
  /\ known = [m \in Manager |-> Unset]
  /\ expected = NoRanges
  /\ waiting = 1 /\ pass = NoPass
  /\ problems = {} /\ saved = {} /\ reported = [s \in Sensor |-> "none"]
  /\ machine = FALSE
  /\ spent = 0
  /\ silent = [m \in Manager |-> {}] /\ departed = FALSE /\ unsaved = FALSE

Event == /\ spent < MaxEvents
         /\ spent' = spent + 1

HostVars == <<expected, waiting, pass, problems, saved, reported, machine, departed, unsaved>>

-----------------------------------------------------------------------------
(* The CloudManager *)

(* f_SetExpectedOsVersions writes.  It counts as a change when an entry is deleted or
   replaced by another range, not when there was none before. *)
Changed(old, range) == old # Unset /\ old # range

SetExpected(m, k, range) ==
  /\ Event
  /\ database' = [database EXCEPT ![m][k] = range]
  /\ answers' = [answers EXCEPT ![m] =
                   Append(@, [key |-> k, range |-> range, changed |-> Changed(database[m][k], range)])]
  /\ silent' = [silent EXCEPT ![m] = IF Changed(database[m][k], range) THEN @ \ {k}
                                     ELSE IF database[m][k] # range THEN @ \union {k} ELSE @]
  /\ UNCHANGED <<subs, channel, known, HostVars>>

MistakeAnnounce(m) ==
  LET a == Head(answers[m]) IN
  /\ answers[m] # <<>>
  /\ answers' = [answers EXCEPT ![m] = Tail(@)]
  /\ channel' = IF a.changed /\ subs[m].step = "live"
                THEN [channel EXCEPT ![m] = Append(@, <<[key |-> a.key, range |-> a.range]>>)]
                ELSE channel
  /\ UNCHANGED <<database, subs, known, spent, silent, HostVars>>

(* It has heard of its write, and tells the subscriptions: those that have yet to get
   their first answer later. *)
Announce(m) ==
  LET a == Head(answers[m])
      change == [key |-> a.key, range |-> a.range]
  IN
  /\ answers[m] # <<>>
  /\ answers' = [answers EXCEPT ![m] = Tail(@)]
  /\ channel' = IF a.changed /\ subs[m].step = "live"
                THEN [channel EXCEPT ![m] = Append(@, <<change>>)] ELSE channel
  /\ subs' = IF a.changed /\ subs[m].step \in {"reading", "read"}
             THEN [subs EXCEPT ![m].queued = Append(@, change)] ELSE subs
  /\ UNCHANGED <<database, known, spent, silent, HostVars>>

(* f_SubscribeExpectedOsVersions: the subscription is there before the database is read. *)
Subscribe(m) ==
  /\ known[m] = Unset
  /\ known' = [known EXCEPT ![m] = NoRanges]
  /\ subs' = [subs EXCEPT ![m] = [NoSub EXCEPT !.step = "reading"]]
  /\ UNCHANGED <<database, answers, channel, spent, silent, HostVars>>

Pending(m) == {answers[m][i].key : i \in DOMAIN answers[m]}
                \union {subs[m].queued[i].key : i \in DOMAIN subs[m].queued}

ReadDatabase(m) ==
  /\ subs[m].step = "reading"
  /\ subs' = [subs EXCEPT ![m].step = "read", ![m].ranges = database[m]]
  /\ silent' = [silent EXCEPT ![m] = @ \intersect Pending(m)]
  /\ UNCHANGED <<database, answers, channel, known, spent, HostVars>>

(* f_ApplyChanges, one after the other: the last change of a key decides. *)
Applied(ranges, changes) ==
  [k \in Key |-> LET of == {i \in DOMAIN changes : changes[i].key = k} IN
                 IF of = {} THEN ranges[k] ELSE changes[Max(of)].range]
AsChanges(ranges) == SetToSeq({[key |-> k, range |-> ranges[k]] : k \in {x \in Key : ranges[x] # Unset}})

(* What was read, with the changes queued meanwhile; from now on changes go to the functor. *)
FirstAnswer(m) ==
  /\ subs[m].step = "read"
  /\ channel' = [channel EXCEPT ![m] =
                   Append(@, AsChanges(Applied(subs[m].ranges, subs[m].queued)))]
  /\ subs' = [subs EXCEPT ![m] = [NoSub EXCEPT !.step = "live"]]
  /\ UNCHANGED <<database, answers, known, spent, silent, HostVars>>

(* The connection breaks, with the CloudManager's process or without it. *)
Disconnect(m) ==
  /\ Event
  /\ known[m] # Unset
  /\ departed' = (departed \/ known[m] # NoRanges)
  /\ known' = [known EXCEPT ![m] = Unset]
  /\ subs' = [subs EXCEPT ![m] = NoSub]
  /\ channel' = [channel EXCEPT ![m] = <<>>]
  /\ answers' \in {answers, [answers EXCEPT ![m] = <<>>]}
  /\ UNCHANGED <<database, silent, expected, waiting, pass, problems, saved, reported, machine, unsaved>>

-----------------------------------------------------------------------------
(* The AppManager *)

(* All managers' ranges together: the first manager that has one for a key decides. *)
Merged(all) ==
  [k \in Key |-> LET having == {m \in Manager : all[m] # Unset /\ all[m][k] # Unset} IN
                 IF having = {} THEN Unset ELSE all[Min(having)][k]]

(* The change functor, and f_SetExpectedOsVersions of the HostMonitor with its pass. *)
VersionRangeChanged(m) ==
  /\ channel[m] # <<>>
  /\ channel' = [channel EXCEPT ![m] = Tail(@)]
  /\ known' = [known EXCEPT ![m] = Applied(@, Head(channel[m]))]
  /\ expected' = Merged(known')
  /\ waiting' = waiting + 1
  /\ departed' = FALSE
  /\ UNCHANGED <<database, answers, subs, pass, problems, saved, reported, machine, spent, silent, unsaved>>

-----------------------------------------------------------------------------
(* The HostMonitor: f_PeriodicUpdate_Patch *)

CloudVars == <<database, answers, subs, channel, known, spent, silent, departed>>

(* It is time for the next pass. *)
Periodic ==
  /\ waiting = 0 /\ pass.step = "none"
  /\ waiting' = 1
  /\ UNCHANGED <<CloudVars, expected, pass, problems, saved, reported, machine, unsaved>>

(* The range of the most specific key. *)
Lookup(ranges) == LET set == {k \in Key : ranges[k] # Unset} IN
                  IF set = {} THEN Unset ELSE ranges[Min(set)]

(* The next pass has the sequencer; the range is copied once the host's version is known. *)
StartPass ==
  /\ pass.step = "none" /\ waiting > 0
  /\ waiting' = waiting - 1
  /\ pass' = [step |-> "status", range |-> Lookup(expected)]
  /\ UNCHANGED <<CloudVars, expected, problems, saved, reported, machine, unsaved>>

Status(range) == CASE range = "misfits" -> "warning" [] range = "fits" -> "ok" [] OTHER -> "info"

MistakeSetProblem(s, problem) ==
  /\ problems' = IF problem THEN problems \union {s} ELSE problems \ {s}
  /\ pass' = [step |-> IF s = "version" THEN "patches"
                       ELSE IF problems' # problems THEN "save" ELSE "none",
              range |-> Unset]

(* A status is reported, and its problem starts or ends; whether it does is what the
   database has to know. *)
SetProblem(s, problem) ==
  /\ problems' = IF problem THEN problems \union {s} ELSE problems \ {s}
  /\ pass' = [step |-> IF problems' # problems THEN "save"
                       ELSE IF s = "version" THEN "patches" ELSE "none",
              range |-> Unset]

(* f_PeriodicUpdate_Patch_ExpectedOsVersion.  The patches wait for another pass when this
   one has something to save. *)
ReportVersion ==
  /\ pass.step = "status"
  /\ reported' = [reported EXCEPT !["version"] = Status(pass.range)]
  /\ SetProblem("version", pass.range = "misfits")
  /\ UNCHANGED <<CloudVars, expected, waiting, saved, machine, unsaved>>

(* f_PeriodicUpdate_Patch_PatchStatus. *)
ReportPatches ==
  /\ pass.step = "patches"
  /\ reported' = [reported EXCEPT !["patches"] = IF machine THEN "warning" ELSE "ok"]
  /\ SetProblem("patches", machine)
  /\ UNCHANGED <<CloudVars, expected, waiting, saved, machine, unsaved>>

SaveProblems ==
  /\ pass.step = "save"
  /\ saved' = problems
  /\ unsaved' = FALSE
  /\ pass' = NoPass
  /\ UNCHANGED <<CloudVars, expected, waiting, problems, reported, machine>>

(* The write fails, which is only logged. *)
SaveFails ==
  /\ Event
  /\ pass.step = "save"
  /\ unsaved' = TRUE
  /\ pass' = NoPass
  /\ UNCHANGED <<database, answers, subs, channel, known, silent, departed, expected, waiting,
                 problems, saved, reported, machine>>

(* Patches come out, or are installed. *)
MachineChanges ==
  /\ Event
  /\ machine' = ~machine
  /\ UNCHANGED <<database, answers, subs, channel, known, silent, departed, expected, waiting,
                 pass, problems, saved, reported, unsaved>>

(* The AppManager restarts, and reads its problems from the database. *)
Restart ==
  /\ Event
  /\ known' = [m \in Manager |-> Unset] /\ subs' = [m \in Manager |-> NoSub]
  /\ channel' = [m \in Manager |-> <<>>]
  /\ expected' = NoRanges /\ departed' = FALSE /\ unsaved' = FALSE
  /\ waiting' = 1 /\ pass' = NoPass
  /\ problems' = saved /\ reported' = [s \in Sensor |-> "none"]
  /\ UNCHANGED <<database, answers, silent, saved, machine>>

Next ==
  \/ \E m \in Manager :
       \/ \E k \in Key, range \in VersionRange \union {Unset} : SetExpected(m, k, range)
       \/ Announce(m) \/ Subscribe(m) \/ ReadDatabase(m) \/ FirstAnswer(m)
       \/ Disconnect(m) \/ VersionRangeChanged(m)
  \/ Periodic \/ StartPass \/ ReportVersion \/ ReportPatches
  \/ SaveProblems \/ SaveFails \/ MachineChanges \/ Restart

Spec == Init /\ [][Next]_vars

-----------------------------------------------------------------------------
Connected == {m \in Manager : known[m] # Unset}
Idle == waiting = 0 /\ pass.step = "none"

(* When every connected manager has told what it had to tell and no pass is under way, the
   status of the host is the one that the databases of the connected managers give: no
   change is lost or applied in the wrong order around the first answer of a
   subscription. *)
StatusIsRight ==
  (/\ Idle /\ ~departed /\ Connected # {}
   /\ \A m \in Connected : /\ subs[m].step = "live" /\ channel[m] = <<>>
                           /\ answers[m] = <<>> /\ silent[m] = {})
  => reported["version"] =
       Status(Lookup(Merged([m \in Manager |-> IF m \in Connected THEN database[m] ELSE Unset])))

(* Between two passes the problems that are remembered are those that were reported last,
   and a restart would not forget or invent any. *)
ProblemsAreKept ==
  Idle /\ ~unsaved => /\ problems = saved
                      /\ \A s \in Sensor : reported[s] # "none" =>
                           (s \in problems <=> reported[s] = "warning")
=============================================================================
