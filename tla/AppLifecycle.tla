---------------------------- MODULE AppLifecycle ----------------------------
(***************************************************************************)
(* How an AppManager launches, stops and relaunches its applications, with *)
(* the operations of users, the dependencies between applications and the  *)
(* key manager that opens their encryption.                                *)
(*                                                                         *)
(* The actor runs a handler until it waits. What a handler calls without   *)
(* waiting (fp_UpdateApplicationDependencies, the f_Stop of a dependent)   *)
(* are steps of their own here, that nothing else comes between (Settled). *)
(***************************************************************************)
EXTENDS Naturals, FiniteSets

CONSTANTS
  App,            \* the applications
  Depends,        \* <<b, a>>: b has a among its dependencies
  StopOnFailure,  \* the applications with m_bStopOnDependencyFailure
  Encrypted,      \* the applications with an encryption storage
  Asked,          \* the operations users ask for: <<kind, application>>
  MaxFaults       \* bounds exits, failures and lost key managers

VARIABLES
  app,        \* app[a]: the flags, the process and the launch of a
  op,         \* op[a]: the operation in progress of a
  waiting,    \* operations that wait for the one in progress
  stops,      \* the calls of f_Stop that have not returned
  todo,       \* the applications fp_UpdateApplicationDependencies has still to visit
  keyManager, \* a key manager is connected
  asked,      \* the operations that have been asked for
  stuck,      \* applications a stop of which has failed
  late,       \* applications that were launched, or went on launching, while a call was
              \* stopping them
  down,       \* applications whose last operation was a stop that succeeded
  gaveUp,     \* applications whose last operation was answered with an error
  faults

vars == <<app, op, waiting, stops, todo, keyManager, asked, stuck, late, down, gaveUp, faults>>
answers == <<down, gaveUp>>

DependenciesOf(a) == {d \in App : <<a, d>> \in Depends}
Dependents(a) == {d \in App : <<d, a>> \in Depends}

-----------------------------------------------------------------------------
(* process: m_ProcessLaunch is empty, runs or has exited. launch: m_bLaunching, and
   what the launch waits for. ok: the severity of the launch status is None. *)
Application ==
  [process : {"none", "up", "exited"},
   launch : {"no", "opening", "starting"},
   stopped : BOOLEAN, autoStart : BOOLEAN, pendingStop : BOOLEAN,
   prevented : BOOLEAN, delay : BOOLEAN, ok : BOOLEAN, open : BOOLEAN]

Kind == {"start", "stop", "restart"}
(* A call of f_Stop is made by an operation of the application, because a
   dependency has failed, or by the stop of a dependency. *)
Cause == {"operation", "dependency"} \cup App
Result == {"stopped", "dependents failed", "process failed", "wait failed"}
Stop == [app : App, cause : Cause, was : BOOLEAN, auto : BOOLEAN, result : Result,
         step : {"begin", "queued", "woken", "dependents", "process", "last"}]

Settled == todo = {} /\ \A s \in stops : s.step \notin {"begin", "last"}

Init ==
  /\ app = [a \in App |-> [process |-> "none", launch |-> "no", stopped |-> FALSE,
                           autoStart |-> FALSE, pendingStop |-> FALSE, prevented |-> FALSE,
                           delay |-> FALSE, ok |-> FALSE, open |-> FALSE]]
  /\ op = [a \in App |-> "none"]
  /\ waiting = {} /\ stops = {} /\ asked = {}
  /\ todo = App
  /\ keyManager = TRUE
  /\ stuck = {} /\ late = {} /\ down = {} /\ gaveUp = {}
  /\ faults = 0

-----------------------------------------------------------------------------
(* f_DependenciesSatisfied *)
Satisfied(a) ==
  /\ ~app[a].prevented /\ ~app[a].delay
  /\ a \in Encrypted => app[a].open \/ keyManager
  /\ \A d \in DependenciesOf(a) : app[d].ok
IsLaunched(a) == app[a].launch # "no" \/ app[a].process # "none"

(* What fp_LaunchAppInternal does until it waits. *)
Launching(a, was) ==
  [was EXCEPT !.stopped = FALSE, !.ok = FALSE,
              !.launch = IF a \in Encrypted /\ ~was.open THEN "opening" ELSE "starting",
              !.process = IF a \in Encrypted /\ ~was.open THEN "none" ELSE "up"]

(* A launch while calls that stop the application have not returned. *)
NotesLaunch(a) == late' = IF \E s \in stops' : s.app = a THEN late \cup {a} ELSE late

(* The subscription of f_SetInProgress ends. *)
Ended(a) == op' = [op EXCEPT ![a] = "none"]
Answer(a, kind, success) ==
  /\ gaveUp' = IF kind = "auto" THEN gaveUp ELSE IF success THEN gaveUp \ {a} ELSE gaveUp \cup {a}
  /\ down' = IF kind = "stop" /\ success THEN down \cup {a} ELSE down

(* The first steps of f_Stop. *)
Stopping(was, prevent) ==
  [was EXCEPT !.stopped = TRUE, !.prevented = was.prevented \/ prevent]
NewStop(a, cause, auto) ==
  [app |-> a, cause |-> cause, was |-> app[a].stopped, auto |-> auto,
   result |-> "stopped", step |-> "begin"]
Goes(s, step) == (stops \ {s}) \cup {[s EXCEPT !.step = step]}
Ends(s, result) == (stops \ {s}) \cup {[s EXCEPT !.step = "last", !.result = result]}

-----------------------------------------------------------------------------
(* fp_UpdateApplicationDependencies comes to an application (fp_AutoStartApp). *)
Visit(a) ==
  /\ \A s \in stops : s.step # "begin"
  /\ a \in todo
  /\ UNCHANGED <<waiting, keyManager, asked, stuck, answers, faults>>
  /\ IF (app[a].stopped /\ ~app[a].autoStart) \/ op[a] # "none"
     THEN /\ todo' = todo \ {a}
          /\ UNCHANGED <<app, op, stops, late>>
     ELSE \/ /\ Satisfied(a) /\ ~IsLaunched(a)
             /\ op' = [op EXCEPT ![a] = "auto"]
             /\ app' = [app EXCEPT ![a] = Launching(a, @)]
             /\ todo' = App
             /\ UNCHANGED stops
             /\ NotesLaunch(a)
          \/ /\ Satisfied(a) /\ IsLaunched(a)
             /\ todo' = todo \ {a}
             /\ UNCHANGED <<app, op, stops, late>>
          \/ /\ ~Satisfied(a) /\ (~IsLaunched(a) \/ app[a].stopped)
             /\ app' = [app EXCEPT ![a].ok = FALSE]
             /\ todo' = todo \ {a}
             /\ UNCHANGED <<op, stops, late>>
          \/ /\ ~Satisfied(a) /\ IsLaunched(a) /\ ~app[a].stopped
             /\ todo' = todo \ {a}
             /\ UNCHANGED <<op, late>>
             /\ IF a \in StopOnFailure
                THEN /\ stops' = stops \cup {NewStop(a, "dependency", TRUE)}
                     /\ app' = [app EXCEPT ![a] = Stopping(@, FALSE)]
                ELSE UNCHANGED <<stops, app>>

-----------------------------------------------------------------------------
Ask(kind, a) ==
  /\ Settled
  /\ <<kind, a>> \in Asked \ asked
  /\ asked' = asked \cup {<<kind, a>>}
  /\ waiting' = waiting \cup {<<kind, a>>}
  /\ UNCHANGED <<app, op, stops, todo, keyManager, stuck, late, answers, faults>>

(* fp_SetInProgressWithWait gives up after two minutes. *)
WaitTimesOut(kind, a) ==
  /\ Settled
  /\ <<kind, a>> \in waiting /\ op[a] # "none"
  /\ waiting' = waiting \ {<<kind, a>>}
  /\ UNCHANGED <<app, op, stops, todo, keyManager, asked, stuck, late, answers, faults>>

-----------------------------------------------------------------------------
(* f_Stop waits while another call stops the application, then stops the dependents. Of
   calls that are made one after the other the first one begins, which alone may have found
   the application not stopped yet. *)
StopBegins(s) ==
  /\ \/ s.step = "begin" /\ (s.was => \A x \in stops : x.app = s.app /\ x.step = "begin" => x.was)
     \/ s.step = "woken" /\ Settled
  /\ UNCHANGED <<op, waiting, keyManager, asked, stuck, late, answers, faults>>
  /\ LET a == s.app
     IN IF app[a].pendingStop
        THEN /\ stops' = Goes(s, "queued")
             /\ UNCHANGED <<app, todo>>
        ELSE /\ stops' = Goes(s, "dependents") \cup {NewStop(d, a, TRUE) : d \in Dependents(a)}
             /\ app' = [x \in App |->
                  IF x = a THEN [app[x] EXCEPT !.pendingStop = TRUE, !.ok = FALSE]
                  ELSE IF x \in Dependents(a) THEN Stopping(app[x], FALSE) ELSE app[x]]
             /\ todo' = App

(* The dependents have stopped. When one of them has not, f_Stop fails; when there
   is no process, or the application counted as stopped already, it succeeds. *)
Through(s) ==
  IF s.result # "stopped" \/ app[s.app].process = "none" \/ s.was
  THEN Goes(s, "last") ELSE Goes(s, "process")
(* Mistake: the stops of the dependents are not waited for. *)
MistakeDependentsStopped(s) ==
  /\ Settled
  /\ s.step = "dependents"
  /\ stops' = Through(s)
  /\ UNCHANGED <<app, op, waiting, todo, keyManager, asked, stuck, late, answers, faults>>
DependentsStopped(s) ==
  /\ Settled
  /\ s.step = "dependents" /\ \A x \in stops : x.cause # s.app
  /\ stops' = Through(s)
  /\ UNCHANGED <<app, op, waiting, todo, keyManager, asked, stuck, late, answers, faults>>

(* What ends a launch answers the operation that waits for it. *)
LaunchAnswered(a, success) ==
  IF app[a].launch # "no" THEN Ended(a) /\ Answer(a, op[a], success)
  ELSE UNCHANGED <<op, answers>>

(* The process stops (f_PreStop, f_StopProcess, f_Clear). The status says so before
   m_bAutoStart is set. *)
ProcessStops(s) ==
  /\ Settled
  /\ s.step = "process"
  /\ stops' = Goes(s, "last")
  /\ app' = [app EXCEPT ![s.app] = [@ EXCEPT !.process = "none", !.launch = "no", !.ok = FALSE]]
  /\ todo' = App
  /\ LaunchAnswered(s.app, FALSE)
  /\ UNCHANGED <<waiting, keyManager, asked, stuck, late, faults>>

StopFails(s) ==
  /\ Settled
  /\ s.step = "process" /\ faults < MaxFaults
  /\ faults' = faults + 1
  /\ stops' = Ends(s, "process failed")
  /\ app' = [app EXCEPT ![s.app].ok = FALSE]
  /\ todo' = App
  /\ UNCHANGED <<op, waiting, keyManager, asked, stuck, late, answers>>

(* f_Stop returns to its caller and to the calls that wait for it: these fail when
   the dependents have failed, and go on also when the process has. *)
Waiter(s, x) == x.app = s.app /\ x.step = "queued" /\ s.result # "wait failed"
AfterReturn(s) ==
  {CASE Waiter(s, x) /\ s.result = "dependents failed" ->
          [x EXCEPT !.step = "last", !.result = "wait failed"]
     [] Waiter(s, x) /\ s.result # "dependents failed" -> [x EXCEPT !.step = "woken"]
     [] x.app = s.cause /\ x.step = "dependents" /\ s.result # "stopped" ->
          [x EXCEPT !.result = "dependents failed"]
     [] OTHER -> x : x \in stops \ {s}}

(* fp_ClearPreventLaunch and what fp_LaunchApp answers at once, if it does. *)
TryLaunch(a, was, kind) ==
  LET clear == [was EXCEPT !.prevented = FALSE, !.delay = FALSE]
      can == /\ was.process = "none"
             /\ a \in Encrypted => was.open \/ keyManager
             /\ \A d \in DependenciesOf(a) : app[d].ok
  IN /\ app' = [app EXCEPT ![a] = IF can THEN Launching(a, clear)
                                  ELSE [clear EXCEPT !.ok = @ /\ was.process # "none"]]
     /\ op' = [op EXCEPT ![a] = IF can THEN kind ELSE "none"]
     /\ todo' = App
     /\ down' = down \ {a}
     /\ gaveUp' = IF can THEN gaveUp ELSE gaveUp \cup {a}
     /\ IF can THEN NotesLaunch(a) ELSE UNCHANGED late

StopReturns(s) ==
  /\ todo = {} /\ \A x \in stops : x.step # "begin"
  /\ s.step = "last"
  /\ stops' = AfterReturn(s)
  /\ stuck' = IF s.result = "stopped" THEN stuck ELSE stuck \cup {s.app}
  /\ UNCHANGED <<waiting, keyManager, asked, faults>>
  /\ LET a == s.app
         now == CASE s.result = "wait failed" -> app[a]
                  [] s.result = "dependents failed" -> [app[a] EXCEPT !.pendingStop = FALSE]
                  [] OTHER -> [app[a] EXCEPT !.pendingStop = FALSE, !.autoStart = s.auto]
     IN IF s.cause = "operation" /\ op[a] = "restart" /\ s.result = "stopped"
        THEN TryLaunch(a, now, "restart")
        ELSE /\ app' = [app EXCEPT ![a] = now]
             /\ IF s.cause = "operation"
                THEN Ended(a) /\ Answer(a, op[a], s.result = "stopped") /\ todo' = App
                ELSE UNCHANGED <<op, answers, todo>>
             /\ UNCHANGED late

Start(a) ==
  /\ Settled
  /\ <<"start", a>> \in waiting /\ op[a] = "none"
  /\ waiting' = waiting \ {<<"start", a>>}
  /\ UNCHANGED <<stops, keyManager, asked, stuck, faults>>
  /\ IF app[a].process # "none"
     THEN todo' = App /\ UNCHANGED <<app, op, late, answers>>
     ELSE TryLaunch(a, app[a], "start")

(* Mistake: the launch is not prevented. *)
MistakeStopApp(a) ==
  /\ Settled
  /\ <<"stop", a>> \in waiting /\ op[a] = "none"
  /\ waiting' = waiting \ {<<"stop", a>>}
  /\ UNCHANGED <<keyManager, asked, stuck, late, answers, faults>>
  /\ IF app[a].stopped
     THEN todo' = App /\ UNCHANGED <<app, op, stops>>
     ELSE /\ op' = [op EXCEPT ![a] = "stop"]
          /\ stops' = stops \cup {NewStop(a, "operation", FALSE)}
          /\ app' = [app EXCEPT ![a] = Stopping(@, FALSE)]
          /\ UNCHANGED todo
StopApp(a) ==
  /\ Settled
  /\ <<"stop", a>> \in waiting /\ op[a] = "none"
  /\ waiting' = waiting \ {<<"stop", a>>}
  /\ UNCHANGED <<keyManager, asked, stuck, late, answers, faults>>
  /\ IF app[a].stopped
     THEN todo' = App /\ UNCHANGED <<app, op, stops>>
     ELSE /\ op' = [op EXCEPT ![a] = "stop"]
          /\ stops' = stops \cup {NewStop(a, "operation", FALSE)}
          /\ app' = [app EXCEPT ![a] = Stopping(@, TRUE)]
          /\ UNCHANGED todo

Restart(a) ==
  /\ Settled
  /\ <<"restart", a>> \in waiting /\ op[a] = "none"
  /\ waiting' = waiting \ {<<"restart", a>>}
  /\ op' = [op EXCEPT ![a] = "restart"]
  /\ stops' = stops \cup {NewStop(a, "operation", FALSE)}
  /\ app' = [app EXCEPT ![a] = Stopping(@, FALSE)]
  /\ down' = down \ {a}
  /\ UNCHANGED <<todo, keyManager, asked, stuck, late, gaveUp, faults>>

-----------------------------------------------------------------------------
(* fp_ChangeEncryption has opened the encryption of an application. The launch goes
   on whatever has happened meanwhile. *)
EncryptionOpens(a) ==
  /\ Settled
  /\ app[a].launch = "opening"
  /\ app' = [app EXCEPT ![a] = [@ EXCEPT !.open = TRUE, !.launch = "starting", !.process = "up"]]
  /\ late' = IF app[a].stopped THEN late \cup {a} ELSE late
  /\ todo' = App
  /\ UNCHANGED <<op, waiting, stops, keyManager, asked, stuck, answers, faults>>

(* fp_ScheduleRelaunchApp, the status of a failure and the end of the launch. Once
   the application counts as stopped its process is left to f_Stop. *)
Failed(was) ==
  [was EXCEPT !.launch = "no", !.ok = FALSE,
              !.process = IF was.stopped /\ was.process # "none" THEN "exited" ELSE "none",
              !.delay = @ \/ ~was.stopped]
EncryptionFails(a) ==
  /\ Settled
  /\ app[a].launch = "opening" /\ (~keyManager \/ faults < MaxFaults)
  /\ faults' = IF keyManager THEN faults + 1 ELSE faults
  /\ app' = [app EXCEPT ![a] = Failed(@)]
  /\ todo' = App
  /\ LaunchAnswered(a, FALSE)
  /\ UNCHANGED <<waiting, stops, keyManager, asked, stuck, late>>

(* The process is launched and, in a distributed application, has registered and
   says that it has started, or that it cannot. *)
Launched(a) ==
  /\ Settled
  /\ app[a].launch = "starting" /\ app[a].process = "up"
  /\ \/ /\ app' = [app EXCEPT ![a] = [@ EXCEPT !.launch = "no", !.ok = TRUE]]
        /\ LaunchAnswered(a, TRUE)
        /\ late' = IF app[a].pendingStop THEN late \cup {a} ELSE late
        /\ UNCHANGED faults
     \/ /\ faults < MaxFaults /\ faults' = faults + 1
        /\ app' = [app EXCEPT ![a] = [@ EXCEPT !.launch = "no", !.ok = FALSE]]
        /\ LaunchAnswered(a, FALSE)
        /\ UNCHANGED late
  /\ todo' = App
  /\ UNCHANGED <<waiting, stops, keyManager, asked, stuck>>

(* The process exits, or cannot be launched. *)
Exits(a) ==
  /\ Settled
  /\ app[a].process = "up" /\ faults < MaxFaults
  /\ faults' = faults + 1
  /\ app' = [app EXCEPT ![a] = Failed(@)]
  /\ todo' = App
  /\ LaunchAnswered(a, FALSE)
  /\ UNCHANGED <<waiting, stops, keyManager, asked, stuck, late>>

(* The timer of fp_ScheduleRelaunchApp. *)
MistakeRelaunch(a) ==
  /\ Settled
  /\ app[a].delay
  /\ app' = [app EXCEPT ![a].delay = FALSE]
  /\ UNCHANGED <<todo, op, waiting, stops, keyManager, asked, stuck, late, answers, faults>>
Relaunch(a) ==
  /\ Settled
  /\ app[a].delay
  /\ app' = [app EXCEPT ![a].delay = FALSE]
  /\ todo' = App
  /\ UNCHANGED <<op, waiting, stops, keyManager, asked, stuck, late, answers, faults>>

(* fp_KeyManagersUpdated *)
KeyManagerLost ==
  /\ Settled
  /\ keyManager /\ faults < MaxFaults
  /\ faults' = faults + 1
  /\ keyManager' = FALSE
  /\ todo' = App
  /\ UNCHANGED <<app, op, waiting, stops, asked, stuck, late, answers>>
KeyManagerConnects ==
  /\ Settled
  /\ ~keyManager
  /\ keyManager' = TRUE
  /\ todo' = App
  /\ UNCHANGED <<app, op, waiting, stops, asked, stuck, late, answers, faults>>

(* What happens by itself; a key manager comes back. *)
Progress ==
  \/ \E a \in App : \/ Visit(a) \/ Start(a) \/ StopApp(a) \/ Restart(a)
                     \/ EncryptionOpens(a) \/ Launched(a) \/ Relaunch(a)
  \/ \E s \in stops : StopBegins(s) \/ DependentsStopped(s) \/ ProcessStops(s) \/ StopReturns(s)
  \/ KeyManagerConnects

Next ==
  \/ Progress
  \/ \E r \in Asked : Ask(r[1], r[2]) \/ WaitTimesOut(r[1], r[2])
  \/ \E s \in stops : StopFails(s)
  \/ \E a \in App : EncryptionFails(a) \/ Exits(a)
  \/ KeyManagerLost

Spec == Init /\ [][Next]_vars
FairSpec == Spec /\ WF_vars(Progress)

-----------------------------------------------------------------------------
TypeOK ==
  /\ app \in [App -> Application]
  /\ op \in [App -> {"none", "auto"} \cup Kind]
  /\ waiting \subseteq Asked /\ asked \subseteq Asked
  /\ stops \subseteq Stop
  /\ todo \subseteq App
  /\ {stuck, late, down, gaveUp} \subseteq SUBSET App

(* The process of an application is told to stop when those that depend on it have
   stopped, and none of them is launched again before it has: f_Stop waits for them,
   and the status keeps fp_AutoStartApp and the users from launching them. Left out
   are dependents that have failed to stop, and applications that were launched in the
   middle of their stop, or whose encryption was being opened when it came. *)
DependentsStopFirst ==
  \A s \in stops : s.step = "process" /\ s.app \notin late =>
    \A d \in Dependents(s.app) \ (stuck \cup late) : app[d].process # "up"

(* An application a user has stopped stays down until a user starts it, whatever
   its dependencies, timers and key managers do. *)
StoppedStaysDown == \A a \in down : app[a].process = "none"

(* Nothing is asked any more, and every application runs whose dependencies do,
   unless it was stopped by a user, or failed to stop, or its last operation was
   answered with an error. *)
AllBack ==
  /\ waiting = {} /\ stops = {} /\ \A a \in App : op[a] = "none"
  /\ \A a \in App \ StopOnFailure :
       \/ app[a].process = "up" \/ a \in down \cup stuck \cup gaveUp
       \/ \E d \in DependenciesOf(a) : ~app[d].ok

(* Once nothing fails any more, every operation is answered, and an application
   runs again when what it depends on does. *)
AppsComeBack == <>[]AllBack
=============================================================================
