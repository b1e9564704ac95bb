------------------------------- MODULE DiskSpace -------------------------------
(* The disk space of a path that the HostMonitor watches: the count of those that watch
   it, the reporters of its sensors, and the updates, which take turns and also begin to
   watch the path when it is mounted. Paths share nothing but the turns. *)
EXTENDS Naturals, FiniteSets

CONSTANTS Client,     \* callers of f_MonitorPath
          Option,     \* options they may ask for; automatic mounts have Default
          Default, None,
          Kinds,      \* bound: reporters of a path, of which the code has three
          MaxEvents   \* bound: calls, unsubscriptions, failures, mounts and timers

Mount == "mount"
Timer == "timer"
Watcher == Client \union {Mount}

VARIABLES entry,      \* the path's CMonitoredPath in m_MonitoredPaths
          task,       \* watcher -> its f_MonitorPath or the end of its subscription
          mounted,    \* the path is a mount of the machine
          automatic,  \* m_AutomaticMounts has it: "no", "added", or "held" with a subscription
          owner,      \* whose update has m_UpdatePeriodicDiskSpaceSequencer
          waiting,    \* who waits for it
          step,       \* where the update is
          spent,
          leaked,     \* calls of f_MonitorPath that failed and keep their reference
          raced       \* two calls with different options opened reporters together

vars == <<entry, task, mounted, automatic, owner, waiting, step, spent, leaked, raced>>

Reporters == [1..Kinds -> Option \union {None}]
NoReporters == [k \in 1..Kinds |-> None]
NoEntry == [there |-> FALSE, refs |-> 0, option |-> None, reporters |-> NoReporters]
NoTask == [stage |-> "none", option |-> Default, kind |-> 1]
Stages == {"none", "opening", "update", "held", "destroying"}

TypeOK ==
  /\ entry \in [there : BOOLEAN, refs : 0..(2 * MaxEvents + 3),
                option : Option \union {None}, reporters : Reporters]
  /\ task \in [Watcher -> [stage : Stages, option : Option, kind : 1..Kinds]]
  /\ mounted \in BOOLEAN /\ automatic \in {"no", "added", "held"}
  /\ owner \in Client \union {Timer, None} /\ waiting \subseteq Client \union {Timer}
  /\ step \in {"idle", "mounts", "adding", "removing", "measure", "report"}
  /\ spent \in 0..MaxEvents /\ leaked \in Nat /\ raced \in BOOLEAN

Init ==
  /\ entry = NoEntry /\ task = [w \in Watcher |-> NoTask]
  /\ mounted \in BOOLEAN /\ automatic = "no"
  /\ owner = None /\ waiting = {} /\ step = "idle"
  /\ spent = 0 /\ leaked = 0 /\ raced = FALSE

Event == /\ spent < MaxEvents
         /\ spent' = spent + 1

Stage(w, s) == [task EXCEPT ![w].stage = s]
KeepUpdate == UNCHANGED <<mounted, automatic, owner, waiting, step>>

-----------------------------------------------------------------------------
(* f_MonitorPath, whose caller is a client or an update; a mount's does not update, as
   the update that adds it holds the sequencer. *)
MistakeAfterReporters(w) == "update"
AfterReporters(w) == IF w = Mount THEN "held" ELSE "update"

(* The first to watch a path opens its reporters, also when it was watched before and its
   end has not finished. *)
MistakeOpens(e, o) == e.option # o
Opens(e, o) == e.refs = 0 \/ e.option # o

Opening == \E w \in Watcher : task[w].stage = "opening"

MonitorPath(w, o) ==
  LET opens == Opens(entry, o)
  IN /\ entry' = [entry EXCEPT !.there = TRUE, !.refs = @ + 1,
                               !.option = IF opens THEN o ELSE @]
     /\ task' = [task EXCEPT ![w] = [stage |-> IF opens THEN "opening" ELSE AfterReporters(w),
                                     option |-> o, kind |-> 1]]
     /\ raced' = (raced \/ (opens /\ Opening))

Monitor(c) ==
  /\ task[c].stage = "none" /\ Event
  /\ \E o \in Option : MonitorPath(c, o)
  /\ UNCHANGED leaked /\ KeepUpdate

(* What comes after a reporter: the next one, or what follows the last. *)
NextReporter(w) ==
  IF task[w].kind < Kinds THEN [task[w] EXCEPT !.kind = @ + 1]
  ELSE [task[w] EXCEPT !.stage = AfterReporters(w), !.kind = 1]

(* A reporter is opened, and replaces one that is there. *)
Opened(w) ==
  /\ task[w].stage = "opening" /\ entry.there
  /\ entry' = [entry EXCEPT !.reporters[task[w].kind] = task[w].option]
  /\ task' = [task EXCEPT ![w] = NextReporter(w)]
  /\ UNCHANGED <<spent, leaked, raced>> /\ KeepUpdate

(* The sensor store fails, and the reference that the call has taken stays. *)
OpenFails(w) ==
  /\ task[w].stage = "opening" /\ Event
  /\ task' = [task EXCEPT ![w] = NoTask]
  /\ leaked' = leaked + 1
  /\ UNCHANGED <<entry, raced>> /\ KeepUpdate

(* The end of the subscription; CMonitoredPath::f_Destroy takes the reporters out before
   it waits for them. *)
Destroyed(e) == [e EXCEPT !.reporters = NoReporters]

Release(w) ==
  /\ entry' = LET left == [entry EXCEPT !.refs = @ - 1]
              IN IF left.refs = 0 THEN Destroyed(left) ELSE left
  /\ task' = IF entry.refs = 1 THEN Stage(w, "destroying") ELSE [task EXCEPT ![w] = NoTask]
  /\ raced' = (raced /\ entry.refs > 1)

Unsubscribe(c) ==
  /\ task[c].stage = "held" /\ entry.there /\ Event
  /\ Release(c)
  /\ UNCHANGED leaked /\ KeepUpdate

(* The path can be watched again, or be gone, by the time its reporters are destroyed. *)
MistakeMayRemove(e) == e.there
MayRemove(e) == e.there /\ e.refs = 0

ReportersGone(w) ==
  /\ task[w].stage = "destroying"
  /\ entry' = IF MayRemove(entry) THEN NoEntry ELSE entry
  /\ task' = [task EXCEPT ![w] = NoTask]
  /\ UNCHANGED <<spent, leaked, raced>> /\ KeepUpdate

-----------------------------------------------------------------------------
(* f_PeriodicUpdate_Diskspace: with _bCanSkip from the timer, and by a client's call. *)
TimerUpdates ==
  /\ Timer \notin waiting \union {owner} /\ Event
  /\ waiting' = waiting \union {Timer}
  /\ UNCHANGED <<entry, task, mounted, automatic, owner, step, leaked, raced>>

SkipUpdate ==
  /\ Timer \in waiting /\ (owner # None \/ waiting # {Timer})
  /\ waiting' = waiting \ {Timer}
  /\ UNCHANGED <<entry, task, mounted, automatic, owner, step, spent, leaked, raced>>

AskToUpdate(c) ==
  /\ task[c].stage = "update" /\ c \notin waiting \union {owner}
  /\ waiting' = waiting \union {c}
  /\ UNCHANGED <<entry, task, mounted, automatic, owner, step, spent, leaked, raced>>

BeginUpdate(u) ==
  /\ u \in waiting /\ owner = None
  /\ waiting' = waiting \ {u} /\ owner' = u /\ step' = "mounts"
  /\ UNCHANGED <<entry, task, mounted, automatic, spent, leaked, raced>>

(* f_PeriodicUpdate_Diskspace_UpdateMounts, which fs_GetMounts tells the mounts. *)
AddMount ==
  /\ step = "mounts" /\ mounted /\ automatic = "no" /\ task[Mount].stage = "none"
  /\ automatic' = "added" /\ step' = "adding"
  /\ MonitorPath(Mount, Default)
  /\ UNCHANGED <<mounted, owner, waiting, spent, leaked>>

(* It has its subscription, or it failed and is not tried again. *)
MountAdded ==
  /\ step = "adding" /\ task[Mount].stage \in {"held", "none"}
  /\ automatic' = IF task[Mount].stage = "held" THEN "held" ELSE "added"
  /\ step' = "measure"
  /\ UNCHANGED <<entry, task, mounted, owner, waiting, spent, leaked, raced>>

RemoveMount ==
  /\ step = "mounts" /\ ~mounted /\ automatic # "no"
  /\ IF automatic = "held" THEN Release(Mount) ELSE UNCHANGED <<entry, task, raced>>
  /\ step' = "removing"
  /\ UNCHANGED <<mounted, automatic, owner, waiting, spent, leaked>>

MountRemoved ==
  /\ step = "removing" /\ task[Mount].stage = "none"
  /\ automatic' = "no" /\ step' = "measure"
  /\ UNCHANGED <<entry, task, mounted, owner, waiting, spent, leaked, raced>>

MountsAreKnown ==
  /\ step = "mounts" /\ mounted = (automatic # "no")
  /\ step' = "measure"
  /\ UNCHANGED <<entry, task, mounted, automatic, owner, waiting, spent, leaked, raced>>

(* The space is read by another actor; by then the path may be gone. *)
Measure ==
  /\ step = "measure" /\ step' = "report"
  /\ UNCHANGED <<entry, task, mounted, automatic, owner, waiting, spent, leaked, raced>>

EndUpdate(fails) ==
  /\ owner' = None /\ step' = "idle"
  /\ IF owner = Timer THEN UNCHANGED <<task, leaked>>
     ELSE /\ task' = IF fails THEN [task EXCEPT ![owner] = NoTask] ELSE Stage(owner, "held")
          /\ leaked' = IF fails THEN leaked + 1 ELSE leaked
  /\ UNCHANGED <<entry, mounted, automatic, waiting, raced>>

Reported == step = "report" /\ EndUpdate(FALSE) /\ UNCHANGED spent

(* Reading the space takes more than a minute, or a report fails. *)
UpdateFails == step = "report" /\ Event /\ EndUpdate(TRUE)

(* The machine, external. *)
MountOrUnmount ==
  /\ Event /\ mounted' = ~mounted
  /\ UNCHANGED <<entry, task, automatic, owner, waiting, step, leaked, raced>>

Next ==
  \/ \E c \in Client : Monitor(c) \/ Unsubscribe(c) \/ AskToUpdate(c)
  \/ \E w \in Watcher : Opened(w) \/ OpenFails(w) \/ ReportersGone(w)
  \/ \E u \in Client \union {Timer} : BeginUpdate(u)
  \/ TimerUpdates \/ SkipUpdate
  \/ AddMount \/ MountAdded \/ RemoveMount \/ MountRemoved \/ MountsAreKnown
  \/ Measure \/ Reported \/ UpdateFails
  \/ MountOrUnmount

(* Calls of the sensor store and of the blocking actor return. *)
Progress ==
  \/ \E w \in Watcher : Opened(w) \/ ReportersGone(w)
  \/ AddMount \/ MountAdded \/ RemoveMount \/ MountRemoved \/ MountsAreKnown
  \/ Measure \/ Reported

Spec == Init /\ [][Next]_vars /\ WF_vars(Progress)

-----------------------------------------------------------------------------
(* Whoever watches the path, or is about to, has it in m_MonitoredPaths, and its count is
   theirs and that of the calls that failed; nobody's end takes it from another. *)
Holders == {w \in Watcher : task[w].stage \in {"opening", "update", "held"}}
PathIsHeld ==
  /\ entry.refs = Cardinality(Holders) + leaked
  /\ entry.refs > 0 => entry.there

(* A path that is watched, when no call is under way, has all its reporters, with the
   options asked for last, unless a call for it failed or two opened them together. *)
ReportersMatch ==
  entry.refs > 0 /\ ~Opening /\ leaked = 0 /\ ~raced =>
    entry.reporters = [k \in 1..Kinds |-> entry.option]

(* Updates come to an end, also those that begin to watch a mount. *)
NotUpdating == owner = None
UpdatesEnd == []<>NotUpdating
=============================================================================
