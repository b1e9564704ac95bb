-------------------------------- MODULE Reboots --------------------------------
(* Reboots of the host by the AppManager and what prevents them: operations on an
   application, and sensors of an application whose flags ask for it. *)
EXTENDS Naturals, Sequences, FiniteSets

CONSTANTS App, Sensor,
          AppOf,        \* AppOf[s]: the application that reports sensor s
          Info,         \* combinations of a sensor's prevent-reboot flags that are tried
          MaxEvents     \* bound: openings, readings, timers, operations, failures, removals

Caller == {"schedule", "command"}

VARIABLES apps,      \* mp_Applications
          busy,      \* applications with an operation in progress
          flags,     \* applications whose m_PreventRebootSensorFlags are not empty
          health,    \* sensor -> its last reading in the store
          old,       \* sensors whose last reading is outdated
          opening,   \* sensor -> the coroutine of fp_RebootPrevention_WatchSensor
          asked,     \* sensor -> the flags with which it was last opened
          watch,     \* mp_SensorRebootPreventionWatch
          sent,      \* sensor -> readings under way from the store to the subscription
          caller,    \* caller -> where its fp_Reboot is; "over" with any result but a reboot
          rebooting, \* mp_bRebooting
          masked,    \* applications whose flags are those of a sensor beside a prevented one
          unsound,   \* callers that were let through although something prevented it
          spent

vars == <<apps, busy, flags, health, old, opening, asked, watch, sent, caller, rebooting,
          masked, unsound, spent>>

Flag == {"problem", "outdated"}
Reading == {"none", "good", "bad"}
NoWatch == [there |-> FALSE, info |-> {}, reading |-> "none", subscribed |-> FALSE]

TypeOK ==
  /\ apps \subseteq App /\ busy \subseteq App /\ flags \subseteq App
  /\ health \in [Sensor -> {"good", "bad"}] /\ old \subseteq Sensor
  /\ opening \in [Sensor -> {"none", "closing", "opening", "subscribing"}]
  /\ asked \in [Sensor -> SUBSET Flag]
  /\ watch \in [Sensor -> [there : BOOLEAN, info : SUBSET Flag, reading : Reading,
                           subscribed : BOOLEAN]]
  /\ \A s \in Sensor : Len(sent[s]) <= MaxEvents + 1
  /\ caller \in [Caller -> {"none", "asking", "waiting", "cleared", "script", "rebooting",
                            "over"}]
  /\ rebooting \in BOOLEAN
  /\ masked \subseteq App /\ unsound \subseteq Caller /\ spent \in 0..MaxEvents

Init ==
  /\ apps = App /\ busy = {} /\ flags = {}
  /\ health = [s \in Sensor |-> "good"] /\ old = {}
  /\ opening = [s \in Sensor |-> "none"] /\ asked = [s \in Sensor |-> {}]
  /\ watch = [s \in Sensor |-> NoWatch] /\ sent = [s \in Sensor |-> <<>>]
  /\ caller = [c \in Caller |-> "none"] /\ rebooting = FALSE
  /\ masked = {} /\ unsound = {} /\ spent = 0

Event == /\ spent < MaxEvents
         /\ spent' = spent + 1

Running == ~\E c \in Caller : caller[c] = "rebooting"
KeepReboot == UNCHANGED <<caller, rebooting, unsound>>

-----------------------------------------------------------------------------
(* fp_RebootPrevention_UpdateApplicationFlags: what sensor s with watch w prevents. *)
MistakePrevented(s, w) ==
  /\ "problem" \in w.info
  /\ w.reading = "bad" /\ ~("outdated" \in w.info)

Prevented(s, w) ==
  /\ "problem" \in w.info
  /\ w.reading = "bad" \/ ("outdated" \in w.info /\ s \in old)

Others(s) == {z \in Sensor \ {s} : AppOf[z] = AppOf[s]}

(* The flags of the application become those of this sensor, also when another sensor
   of the application prevents the reboot. *)
UpdateApplicationFlags(s, w) ==
  LET a == AppOf[s]
      prevented == Prevented(s, w)
      hides == ~prevented /\ \E z \in Others(s) : watch[z].there /\ Prevented(z, watch[z])
  IN IF a \in apps /\ w.reading # "none"
     THEN /\ flags' = IF prevented THEN flags \union {a} ELSE flags \ {a}
          /\ masked' = IF hides THEN masked \union {a} ELSE masked \ {a}
     ELSE UNCHANGED <<flags, masked>>

(* The sensor's reporter is opened, by the application or from the store at the start;
   an earlier subscription is destroyed first. *)
WatchSensor(s) ==
  /\ opening[s] = "none" /\ AppOf[s] \in apps /\ Event    \* one opening at a time
  /\ \E info \in Info : asked' = [asked EXCEPT ![s] = info]
  /\ opening' = [opening EXCEPT ![s] = IF watch[s].subscribed THEN "closing" ELSE "opening"]
  /\ watch' = [watch EXCEPT ![s].subscribed = FALSE]
  /\ UNCHANGED <<apps, busy, flags, health, old, sent, masked>> /\ KeepReboot

Closed(s) ==
  /\ opening[s] = "closing"
  /\ opening' = [opening EXCEPT ![s] = "opening"]
  /\ sent' = [sent EXCEPT ![s] = <<>>]
  /\ UNCHANGED <<apps, busy, flags, health, old, asked, watch, masked, spent>> /\ KeepReboot

(* Watch.m_SensorInfo = _SensorInfo, which also adds the entry; the last reading stays. *)
MistakeWatched(w, info) == IF w.there THEN w ELSE [w EXCEPT !.there = TRUE, !.info = info]

Watched(w, info) == [w EXCEPT !.there = TRUE, !.info = info]

Subscribe(s) ==
  /\ opening[s] = "opening"
  /\ IF asked[s] = {}
     THEN opening' = [opening EXCEPT ![s] = "none"] /\ UNCHANGED <<watch, sent>>
     ELSE /\ watch' = [watch EXCEPT ![s] = Watched(@, asked[s])]
          /\ opening' = [opening EXCEPT ![s] = "subscribing"]
          /\ sent' = [sent EXCEPT ![s] = Append(@, health[s])]
  /\ UNCHANGED <<apps, busy, flags, health, old, asked, masked, spent>> /\ KeepReboot

Subscribed(s) ==
  /\ opening[s] = "subscribing"
  /\ opening' = [opening EXCEPT ![s] = "none"]
  /\ watch' = [watch EXCEPT ![s].subscribed = watch[s].there]
  /\ sent' = IF watch[s].there THEN sent ELSE [sent EXCEPT ![s] = <<>>]
  /\ UNCHANGED <<apps, busy, flags, health, old, asked, masked, spent>> /\ KeepReboot

(* The sensor store, as the subscription needs it: each reading goes to who subscribes. *)
Listening(s) == opening[s] = "subscribing" \/ watch[s].subscribed

NewReading(s) ==
  /\ Event
  /\ \E r \in {"good", "bad"} \ {health[s]} :
       /\ health' = [health EXCEPT ![s] = r]
       /\ sent' = IF Listening(s) THEN [sent EXCEPT ![s] = Append(@, r)] ELSE sent
  /\ old' = old \ {s}
  /\ UNCHANGED <<apps, busy, flags, opening, asked, watch, masked>> /\ KeepReboot

NoReading(s) ==
  /\ s \notin old /\ Event
  /\ old' = old \union {s}
  /\ UNCHANGED <<apps, busy, flags, health, opening, asked, watch, sent, masked>> /\ KeepReboot

(* The functor of the subscription. *)
Receive(s) ==
  /\ sent[s] # <<>>
  /\ sent' = [sent EXCEPT ![s] = Tail(@)]
  /\ LET w == [watch[s] EXCEPT !.reading = Head(sent[s])]
     IN IF watch[s].there
        THEN watch' = [watch EXCEPT ![s] = w] /\ UpdateApplicationFlags(s, w)
        ELSE UNCHANGED <<watch, flags, masked>>
  /\ UNCHANGED <<apps, busy, health, old, opening, asked, spent>> /\ KeepReboot

(* fp_RebootPrevention_UpdateApplications, each minute: the sensors in their order, of
   which the last one of an application decides. *)
Deciding(a) ==
  LET read == {s \in Sensor : AppOf[s] = a /\ watch[s].there /\ watch[s].reading # "none"}
  IN {s \in read : \A z \in read : z <= s}

UpdateApplications ==
  /\ Event
  /\ LET decided == {a \in apps : Deciding(a) # {}}
         set == {a \in decided : \A s \in Deciding(a) : Prevented(s, watch[s])}
         hides == {a \in decided \ set : \E z \in Sensor :
                     AppOf[z] = a /\ watch[z].there /\ watch[z].reading # "none"
                       /\ Prevented(z, watch[z])}
     IN /\ flags' = (flags \ decided) \union set
        /\ masked' = (masked \ decided) \union hides
  /\ UNCHANGED <<apps, busy, health, old, opening, asked, watch, sent>> /\ KeepReboot

(* The application is removed, and fp_RebootPrevention_RemoveApplication. *)
RemoveApplication(a) ==
  /\ a \in apps \ busy /\ Event
  /\ apps' = apps \ {a}
  /\ flags' = flags \ {a} /\ masked' = masked \ {a}
  /\ watch' = [s \in Sensor |-> IF AppOf[s] = a THEN NoWatch ELSE watch[s]]
  /\ sent' = [s \in Sensor |-> IF AppOf[s] = a /\ watch[s].subscribed THEN <<>> ELSE sent[s]]
  /\ UNCHANGED <<busy, health, old, opening, asked>> /\ KeepReboot

(* An operation in progress, external to this module. *)
BeginOperation(a) ==
  /\ a \in apps \ busy /\ Event
  /\ busy' = busy \union {a}
  /\ UNCHANGED <<apps, flags, health, old, opening, asked, watch, sent, masked>> /\ KeepReboot

EndOperation(a) ==
  /\ a \in busy
  /\ busy' = busy \ {a}
  /\ UNCHANGED <<apps, flags, health, old, opening, asked, watch, sent, masked, spent>>
  /\ KeepReboot

-----------------------------------------------------------------------------
(* fp_CheckAndLogPreventedReboot *)
MistakePreventReboot == \E a \in apps : a \in flags

PreventReboot == \E a \in apps : a \in busy \/ a \in flags

(* What a reader of the sensors expects: the sensor was opened and is watched, every
   reading has come, and by them it prevents the reboot. *)
Problem(s) ==
  /\ AppOf[s] \in apps /\ opening[s] = "none" /\ sent[s] = <<>>
  /\ "problem" \in asked[s] /\ health[s] = "bad"
ShouldPrevent ==
  \/ apps \intersect busy # {}
  \/ \E s \in Sensor : Problem(s) /\ AppOf[s] \notin masked

KeepSensors == UNCHANGED <<apps, busy, flags, health, old, opening, asked, watch, sent, masked>>

(* fp_Reboot: one turn of its loop. *)
Reboot(c) ==
  /\ caller[c] = "none"
  /\ caller' = [caller EXCEPT ![c] = "asking"]
  /\ UNCHANGED <<rebooting, unsound, spent>> /\ KeepSensors

AlreadyRebooting(c) ==
  /\ caller[c] \in {"asking", "cleared"} /\ rebooting
  /\ caller' = [caller EXCEPT ![c] = "over"]
  /\ UNCHANGED <<rebooting, unsound, spent>> /\ KeepSensors

(* Ten minutes have passed. *)
GiveUp(c) ==
  /\ caller[c] = "asking" /\ ~rebooting /\ Event
  /\ caller' = [caller EXCEPT ![c] = "over"]
  /\ UNCHANGED <<rebooting, unsound>> /\ KeepSensors

Check(c) ==
  /\ caller[c] = "asking" /\ ~rebooting
  /\ caller' = [caller EXCEPT ![c] = IF ~PreventReboot THEN "cleared"
                                     ELSE IF c = "command" THEN "over" ELSE "waiting"]
  /\ unsound' = IF ~PreventReboot /\ ShouldPrevent THEN unsound \union {c} ELSE unsound
  /\ UNCHANGED <<rebooting, spent>> /\ KeepSensors

TenSeconds(c) ==
  /\ caller[c] = "waiting"
  /\ caller' = [caller EXCEPT ![c] = "asking"]
  /\ UNCHANGED <<rebooting, unsound, spent>> /\ KeepSensors

MistakeMayRunScript(c) == caller[c] = "cleared"

MayRunScript(c) == caller[c] = "cleared" /\ ~rebooting

RunScript(c) ==
  /\ MayRunScript(c)
  /\ rebooting' = TRUE
  /\ caller' = [caller EXCEPT ![c] = "script"]
  /\ UNCHANGED <<unsound, spent>> /\ KeepSensors

ScriptRan(c) ==
  /\ caller[c] = "script"
  /\ caller' = [caller EXCEPT ![c] = "rebooting"]
  /\ UNCHANGED <<rebooting, unsound, spent>> /\ KeepSensors

(* Another reboot may be asked for. *)
ScriptFailed(c) ==
  /\ caller[c] = "script" /\ Event
  /\ rebooting' = FALSE
  /\ caller' = [caller EXCEPT ![c] = "over"]
  /\ UNCHANGED unsound /\ KeepSensors

Next ==
  /\ Running
  /\ \/ \E s \in Sensor : \/ WatchSensor(s) \/ Closed(s) \/ Subscribe(s) \/ Subscribed(s)
                          \/ NewReading(s) \/ NoReading(s) \/ Receive(s)
     \/ UpdateApplications
     \/ \E a \in App : RemoveApplication(a) \/ BeginOperation(a) \/ EndOperation(a)
     \/ \E c \in Caller : \/ Reboot(c) \/ AlreadyRebooting(c) \/ GiveUp(c) \/ Check(c)
                          \/ TenSeconds(c) \/ RunScript(c) \/ ScriptRan(c) \/ ScriptFailed(c)

Spec == Init /\ [][Next]_vars

-----------------------------------------------------------------------------
(* A reboot is let through only when no operation is in progress and no sensor, by the
   readings that have come, asks to prevent it, except the sensors of applications whose
   flags another sensor of theirs has replaced. *)
RebootsAreAllowed == unsound = {}

(* The reboot script never runs twice at once, whoever asks for it. *)
OneScript == Cardinality({c \in Caller : caller[c] \in {"script", "rebooting"}}) <= 1
=============================================================================
