--------------------------- MODULE ConfigMonitor ---------------------------
(* The HostMonitor's history of one configuration file.  Each application that has the
   file monitored has a subscription of its own; every subscription checks the file when
   it starts and when it is told of a change, one check at a time, and a check that finds
   a value other than the last one in the database logs the change and stores the value.
   The checks of two subscriptions are not ordered.  A check that cannot read the file or
   the database, report or store ends, and nobody tries again.  An entry of the database
   that cannot be decoded is left out. *)
EXTENDS Naturals, Sequences, SequencesExt

CONSTANTS Config,      \* the subscriptions an application may have
          Type,        \* Type[c]: how c wants the file parsed
          Contents,    \* what the file can hold
          Unset,       \* what a field of a value that was not read holds
          MaxRetries,  \* how often a check reads again after an error: 50
          MaxEvents    \* bound: changes of the file and of the subscriptions, faults

VARIABLES file,      \* the contents on disk, Unset when there is no file
          configs,   \* subscription -> "none", "watching" (told of changes) or "live"
          notices,   \* subscriptions with a notification on its way
          checks,    \* subscription -> its checks, the first of which runs
          writes,    \* the writes the database has been asked for, in order
          history,   \* the values stored, by their sequence
          log,       \* the changes logged: pairs of values
          spent,     \* how many of MaxEvents have happened
          raced,     \* a check has compared with the database while another one was to write
          missed     \* a check has failed, or its subscription ended before it

vars == <<file, configs, notices, checks, writes, history, log, spent, raced, missed>>

Missing == [exists |-> FALSE, type |-> Unset, data |-> Unset, rest |-> Unset]
ValuesOf(c) == [exists : {TRUE}, type : {Type[c]}, data : Contents,
                rest : Contents \union {Unset}]
Value == {Missing} \union UNION {ValuesOf(c) : c \in Config}

(* A check of f_ConfigFile_Changed, at the value it has read and the entry it compares
   with; old is the length of the history then. *)
Waiting == [stage |-> "read", value |-> Missing, tries |-> 0, old |-> 0, before |-> Missing]
Stages == {"read", "reading", "compare", "log", "logged", "writing"}
Check == [stage : Stages, value : Value, tries : 0..MaxRetries, old : Nat, before : Value]

TypeOK ==
  /\ file \in Contents \union {Unset}
  /\ configs \in [Config -> {"none", "watching", "live"}]
  /\ notices \subseteq Config
  /\ \A c \in Config : checks[c] \in Seq(Check)
  /\ writes \in Seq([config : SUBSET Config, value : Value, at : Nat])
  /\ history \in Seq(Value)
  /\ log \subseteq Value \X Value
  /\ spent \in 0..MaxEvents /\ raced \in BOOLEAN /\ missed \in BOOLEAN

(* Some applications have just asked for the file. *)
Init ==
  /\ file \in Contents \union {Unset}
  /\ configs \in [Config -> {"none", "watching"}]
  /\ notices = {}
  /\ checks = [c \in Config |-> <<>>]
  /\ writes = <<>> /\ history = <<>> /\ log = {}
  /\ spent = 0 /\ raced = FALSE /\ missed = FALSE

Event == /\ spent < MaxEvents
         /\ spent' = spent + 1

(* Another check has compared with the database and its write has yet to happen. *)
Overlaps(c) == \/ writes # <<>>
               \/ \E d \in Config \ {c} : /\ checks[d] # <<>>
                                          /\ Head(checks[d]).stage \in {"log", "logged"}

-----------------------------------------------------------------------------
(* The file changes, appears or goes; whoever watches its directory is told. *)
Change ==
  /\ Event
  /\ file' \in (Contents \union {Unset}) \ {file}
  /\ notices' = notices \union {c \in Config : configs[c] # "none"}
  /\ missed' = (missed /\ writes # <<>>)
  /\ UNCHANGED <<configs, checks, writes, history, log, raced>>

(* f_MonitorConfigs: the directory is watched first. *)
Watch(c) ==
  /\ Event
  /\ configs[c] = "none"
  /\ configs' = [configs EXCEPT ![c] = "watching"]
  /\ UNCHANGED <<file, notices, checks, writes, history, log, raced, missed>>

(* Then the subscription exists, and checks the file at once. *)
Monitor(c) ==
  /\ configs[c] = "watching"
  /\ configs' = [configs EXCEPT ![c] = "live"]
  /\ checks' = [checks EXCEPT ![c] = <<Waiting>>]
  /\ missed' = (missed /\ writes # <<>>)
  /\ UNCHANGED <<file, notices, writes, history, log, spent, raced>>

MistakeNotified(c) ==
  /\ c \in notices
  /\ notices' = notices \ {c}
  /\ checks' = IF configs[c] = "live" /\ checks[c] = <<>>
              THEN [checks EXCEPT ![c] = Append(@, Waiting)] ELSE checks
  /\ UNCHANGED <<file, configs, writes, history, log, spent, raced, missed>>

(* A notification is for a subscription that exists, or it fails the prerequisites. *)
Notified(c) ==
  /\ c \in notices
  /\ notices' = notices \ {c}
  /\ checks' = IF configs[c] = "live" THEN [checks EXCEPT ![c] = Append(@, Waiting)]
                                      ELSE checks
  /\ UNCHANGED <<file, configs, writes, history, log, spent, raced, missed>>

(* The subscription is destroyed: its checks stop at the next point where they would
   resume; a write that the database has been asked for happens. *)
Unmonitor(c) ==
  /\ Event
  /\ configs[c] = "live"
  /\ configs' = [configs EXCEPT ![c] = "none"]
  /\ notices' = notices \ {c}
  /\ checks' = [checks EXCEPT ![c] = <<>>]
  /\ writes' = [i \in DOMAIN writes |-> [writes[i] EXCEPT !.config = @ \ {c}]]
  /\ missed' = (missed \/ c \in notices \/ checks[c] # <<>>)
  /\ UNCHANGED <<file, history, log, raced>>

-----------------------------------------------------------------------------
(* The check that runs. *)
Running(c, stage) == checks[c] # <<>> /\ Head(checks[c]).stage = stage
Continue(c, check) == checks' = [checks EXCEPT ![c] = <<check>> \o Tail(@)]
Ended(c) == checks' = [checks EXCEPT ![c] = Tail(@)]

(* The contents are read, unless there is no file. *)
ReadContents(c) ==
  /\ Running(c, "read")
  /\ Continue(c, IF file = Unset
                 THEN [Head(checks[c]) EXCEPT !.stage = "compare", !.value = Missing]
                 ELSE [Head(checks[c]) EXCEPT !.stage = "reading",
                         !.value = [exists |-> TRUE, type |-> Type[c], data |-> file,
                                    rest |-> Unset]])
  /\ UNCHANGED <<file, configs, notices, writes, history, log, spent, raced, missed>>

(* The size, the attributes, the owner and the group are read after them. *)
ReadRest(c) ==
  /\ Running(c, "reading")
  /\ file # Unset
  /\ Continue(c, [Head(checks[c]) EXCEPT !.stage = "compare", !.value.rest = file])
  /\ UNCHANGED <<file, configs, notices, writes, history, log, spent, raced, missed>>

(* The file is gone in the middle, or cannot be read: again after 0.1 s, MaxRetries times. *)
ReadFails(c) ==
  /\ \/ Running(c, "reading") /\ file = Unset /\ UNCHANGED spent
     \/ (Running(c, "read") /\ file # Unset) /\ Event
  /\ LET check == Head(checks[c]) IN
       IF check.tries < MaxRetries
       THEN /\ Continue(c, [check EXCEPT !.stage = "read", !.tries = @ + 1])
            /\ UNCHANGED missed
       ELSE /\ Ended(c)
            /\ missed' = TRUE
  /\ UNCHANGED <<file, configs, notices, writes, history, log, raced>>

(* f_ConfigFile_ValueChanged: nothing is done when the last entry has the same value. *)
MistakeSame(check) == history # <<>> /\ Last(history).data = check.value.data
Same(check) == history # <<>> /\ Last(history) = check.value

ReadOld(c) ==
  /\ Running(c, "compare")
  /\ LET check == Head(checks[c]) IN
       IF Same(check)
       THEN Ended(c)
       ELSE Continue(c, IF history = <<>>
                        THEN [check EXCEPT !.stage = "logged", !.old = 0]
                        ELSE [check EXCEPT !.stage = "log", !.old = Len(history),
                                           !.before = Last(history)])
  /\ raced' = (raced \/ Overlaps(c))
  /\ UNCHANGED <<file, configs, notices, writes, history, log, spent, missed>>

(* Opening or reading the database fails. *)
ReadOldFails(c) ==
  /\ Event
  /\ Running(c, "compare")
  /\ Ended(c)
  /\ missed' = TRUE
  /\ UNCHANGED <<file, configs, notices, writes, history, log, raced>>

(* f_ConfigFile_LogChanges: the change is reported before it is stored. *)
LogChanges(c) ==
  /\ Running(c, "log")
  /\ log' = log \union {<<Head(checks[c]).before, Head(checks[c]).value>>}
  /\ Continue(c, [Head(checks[c]) EXCEPT !.stage = "logged"])
  /\ UNCHANGED <<file, configs, notices, writes, history, spent, raced, missed>>

(* The reporter cannot be opened, or its report fails, whether or not the entry was
   taken. *)
LogChangesFails(c) ==
  /\ Event
  /\ Running(c, "log")
  /\ log' \in {log, log \union {<<Head(checks[c]).before, Head(checks[c]).value>>}}
  /\ Ended(c)
  /\ missed' = TRUE
  /\ UNCHANGED <<file, configs, notices, writes, history, raced>>

MistakeAskToWrite(c) ==
  /\ Running(c, "logged") \/ Running(c, "log")
  /\ LET check == Head(checks[c]) IN
       /\ Continue(c, [check EXCEPT !.stage = "writing"])
       /\ writes' = Append(writes, [config |-> {c}, value |-> check.value, at |-> check.old + 1])
  /\ UNCHANGED <<file, configs, notices, history, log, spent, raced, missed>>

AskToWrite(c) ==
  /\ Running(c, "logged")
  /\ LET check == Head(checks[c]) IN
       /\ Continue(c, [check EXCEPT !.stage = "writing"])
       /\ writes' = Append(writes, [config |-> {c}, value |-> check.value, at |-> check.old + 1])
  /\ UNCHANGED <<file, configs, notices, history, log, spent, raced, missed>>

(* The entry after the one that was read is stored, over another one if there is one. *)
Stored(h, w) == IF w.at \in DOMAIN h THEN [h EXCEPT ![w.at] = w.value] ELSE Append(h, w.value)

(* The first write ends, and the check that asked for it. *)
WriteEnds ==
  /\ writes # <<>>
  /\ writes' = Tail(writes)
  /\ checks' = [c \in Config |-> IF c \in Head(writes).config THEN Tail(checks[c]) ELSE checks[c]]
  /\ UNCHANGED <<file, configs, notices, log, raced>>

Write ==
  /\ WriteEnds
  /\ history' = Stored(history, Head(writes))
  /\ UNCHANGED <<spent, missed>>

WriteFails ==
  /\ Event
  /\ WriteEnds
  /\ missed' = TRUE
  /\ UNCHANGED history

(* The AppManager restarts: only the database and the logs remain. *)
Restart ==
  /\ Event
  /\ configs' = [c \in Config |-> "none"]
  /\ notices' = {}
  /\ checks' = [c \in Config |-> <<>>]
  /\ writes' = <<>>
  /\ UNCHANGED <<file, history, log, raced, missed>>

Next ==
  \/ Change \/ Write \/ WriteFails \/ Restart
  \/ \E c \in Config :
       \/ Watch(c) \/ Monitor(c) \/ Notified(c) \/ Unmonitor(c)
       \/ ReadContents(c) \/ ReadRest(c) \/ ReadFails(c) \/ ReadOld(c)
       \/ LogChanges(c) \/ AskToWrite(c) \/ ReadOldFails(c) \/ LogChangesFails(c)

Spec == Init /\ [][Next]_vars

-----------------------------------------------------------------------------
(* f_GetConfigFileContents of the latest version, and what it would have to be. *)
Latest == Last(history)
Current == IF file = Unset THEN {Missing}
           ELSE {[exists |-> TRUE, type |-> Type[c], data |-> file, rest |-> file] : c \in Config}

Quiet == /\ \E c \in Config : configs[c] = "live"
         /\ \A c \in Config : checks[c] = <<>>
         /\ notices = {} /\ writes = <<>>

(* Once nothing is on its way and the file is monitored, the last entry is the file as
   it is, contents and attributes: no change is missed or stored out of order, whenever
   the file changed.  The exception, missed, lasts until the file changes again or is
   monitored anew: a check that could not read the file or the database, report the
   change or store the value, or that ended with its subscription. *)
HistoryIsCurrent == Quiet /\ ~missed => history # <<>> /\ Latest \in Current

(* Each entry is a change from the one before, and that change has been logged. *)
HistoryIsLogged == ~raced =>
  \A n \in 2..Len(history) : /\ history[n] # history[n - 1]
                             /\ <<history[n - 1], history[n]>> \in log
=============================================================================
