--------------------------- MODULE AppManagerRegistry ---------------------------
(***************************************************************************)
(* How CloudManager keeps the applications of one AppManager.  The         *)
(* AppManager registers at each connection; CloudManager saves it,         *)
(* subscribes to its change notifications and gets first all applications, *)
(* then each change.  A notification is processed by a write to the        *)
(* database; the first one of a registration awaits another write before   *)
(* it, which records whether permissions are missing.  Writes are done one *)
(* after the other; one that saves the AppManager is queued only after the *)
(* sensor and log stores have seen its host.  Connections break, the       *)
(* AppManager registers again, and an operator may remove it.              *)
(*                                                                         *)
(* A registration is named by its connection, which stands for its         *)
(* m_RegisterSequence.  Missing permissions, the hosts of sensors and      *)
(* logs, errors, the active flag and the monitor are left out.             *)
(***************************************************************************)
EXTENDS Integers, Sequences

CONSTANTS
  App,          \* the names of applications
  MaxSessions,  \* bound: connections
  MaxEvents     \* bound: changes of applications, removals and timeouts

VARIABLES
  apps,          \* the AppManager: the info of each application, 0 for none
  session,       \* the connection; 0 between two connections
  sessions,      \* connections so far
  subscription,  \* the AppManager: the subscription of the connection
  wire,          \* notifications on their way
  registration,  \* f_RegisterAppManager of each connection
  entry,         \* the AppManager's element of mp_AppManagers
  held,          \* notifications that await fp_ReportFiltered
  saves,         \* fp_SaveAppManagerData that await the stores
  writes,        \* the database actor's queue
  removing,      \* an f_RemoveAppManager is between its two halves
  db,            \* the database: the AppManager and its applications
  overtaken,     \* ghost: registrations whose first notification was overtaken
  orphaned,      \* ghost: a removal left a notification behind, or removed
                 \* the data of a registration made meanwhile
  spent          \* events so far

vars == <<apps, session, sessions, subscription, wire, registration, entry,
          held, saves, writes, removing, db, overtaken, orphaned, spent>>

appManager == <<apps, session, sessions, subscription>>
ghosts == <<overtaken, orphaned>>

Session == 1 .. MaxSessions

Info == 0 .. 2

NoApps == [a \in App |-> 0]

\* A notification of a registration: all applications, or one of them.
Notification(initial, infos) ==
  [session |-> session, initial |-> initial, infos |-> infos]

NoEntry == [session |-> 0, updatedOnce |-> FALSE]

NoSubscription == [session |-> 0, asked |-> {}, initialFinished |-> FALSE,
                   deferred |-> <<>>]

TypeOK ==
  /\ apps \in [App -> Info]
  /\ session \in 0 .. MaxSessions /\ sessions \in 0 .. MaxSessions
  /\ subscription.initialFinished \in BOOLEAN
  /\ registration \in [Session -> {"none", "read", "destroy", "destroyed",
                                   "save", "saved", "done"}]
  /\ entry.session \in 0 .. MaxSessions
  /\ entry.updatedOnce \in BOOLEAN
  /\ \A w \in saves : w.kind \in {"destroy", "unregister", "save"}
  /\ \A i \in DOMAIN writes :
       writes[i].kind \in {"destroy", "unregister", "save", "errors",
                           "changes", "remove"}
  /\ removing \in BOOLEAN
  /\ db.manager \in BOOLEAN /\ db.rows \in [App -> Info]
  /\ overtaken \subseteq Session /\ orphaned \in BOOLEAN
  /\ spent \in 0 .. MaxEvents

Init ==
  /\ apps = NoApps
  /\ session = 0 /\ sessions = 0
  /\ subscription = NoSubscription
  /\ wire = <<>>
  /\ registration = [s \in Session |-> "none"]
  /\ entry = NoEntry
  /\ held = {}
  /\ saves = {}
  /\ writes = <<>>
  /\ removing = FALSE
  /\ db = [manager |-> FALSE, rows |-> NoApps]
  /\ overtaken = {}
  /\ orphaned = FALSE
  /\ spent = 0

Spend ==
  /\ spent < MaxEvents
  /\ spent' = spent + 1

------------------------------------------------------------------------------
\* The AppManager.

\* fp_ChangeNotifications_SendChanges: before the first notification a
\* change waits in m_OnInitialFinished.
Send(n) ==
  IF subscription.initialFinished
  THEN wire' = Append(wire, n) /\ UNCHANGED subscription
  ELSE /\ subscription' = [subscription EXCEPT !.deferred = Append(@, n)]
       /\ UNCHANGED wire

\* An application is added, changed or removed.
ChangeApp(a, info) ==
  /\ Spend
  /\ info # apps[a]
  /\ apps' = [apps EXCEPT ![a] = info]
  /\ IF subscription.session = 0
     THEN UNCHANGED <<wire, subscription>>
     ELSE Send(Notification(FALSE, [x \in {a} |-> info]))
  /\ UNCHANGED <<session, sessions, registration, entry, held, saves,
                 writes, removing, db, ghosts>>

\* fp_ChangeNotifications_SendInitial, when the permissions are known: of the
\* applications they were asked for, those that still exist are sent.
SendInitial ==
  /\ subscription.session # 0
  /\ ~subscription.initialFinished
  /\ LET known == {a \in subscription.asked : apps[a] # 0}
     IN  wire' = Append(wire, Notification(TRUE, [a \in known |-> apps[a]]))
                   \o subscription.deferred
  /\ subscription' = [subscription EXCEPT !.initialFinished = TRUE,
                                          !.deferred = <<>>]
  /\ UNCHANGED <<apps, session, sessions, registration, entry, held, saves,
                 writes, removing, db, ghosts, spent>>

\* A connection is made, and breaks: what was on the wire is lost.
Connect ==
  /\ session = 0
  /\ sessions < MaxSessions
  /\ session' = sessions + 1
  /\ sessions' = sessions + 1
  /\ UNCHANGED <<apps, subscription, wire, registration, entry, held, saves,
                 writes, removing, db, ghosts, spent>>

Disconnect ==
  /\ session # 0
  /\ session' = 0
  /\ subscription' = NoSubscription
  /\ wire' = <<>>
  /\ UNCHANGED <<apps, sessions, registration, entry, held, saves, writes,
                 removing, db, ghosts, spent>>

------------------------------------------------------------------------------
\* CloudManager.

Write(kind, of) == [kind |-> kind, of |-> of]

SetStage(s, stage) == registration' = [registration EXCEPT ![s] = stage]

\* f_RegisterAppManager: an old registration is removed and destroyed, which
\* saves it as no longer active; without one the saved data is read.
Register ==
  /\ session # 0
  /\ registration[session] = "none"
  /\ IF entry # NoEntry
     THEN /\ entry' = NoEntry
          /\ saves' = saves \union {Write("destroy", session)}
          /\ SetStage(session, "destroy")
     ELSE /\ SetStage(session, "read")
          /\ UNCHANGED <<entry, saves>>
  /\ UNCHANGED <<appManager, wire, held, writes, removing, db, ghosts, spent>>

\* The destruction takes longer than 30 seconds.
DestroyTimesOut(s) ==
  /\ Spend
  /\ registration[s] = "destroy"
  /\ SetStage(s, "destroyed")
  /\ UNCHANGED <<appManager, wire, entry, held, saves, writes, removing, db,
                 ghosts>>

SaveRegistration(s) ==
  /\ registration[s] \in {"read", "destroyed"}
  /\ SetStage(s, "save")
  /\ saves' = saves \union {Write("save", s)}
  /\ UNCHANGED <<appManager, wire, entry, held, writes, removing, db, ghosts,
                 spent>>

\* fp_SaveAppManagerData: the sensor and log stores are done.
SeenHosts(w) ==
  /\ w \in saves
  /\ saves' = saves \ {w}
  /\ writes' = Append(writes, w)
  /\ UNCHANGED <<appManager, wire, registration, entry, held, removing, db,
                 ghosts, spent>>

\* Once saved, the AppManager is an element of mp_AppManagers and is
\* subscribed to, if its connection still stands.
SubscribeChanges(s) ==
  /\ registration[s] = "saved"
  /\ SetStage(s, "done")
  /\ entry' = [entry EXCEPT !.session = s]
  /\ subscription' = IF s = session
                     THEN [NoSubscription EXCEPT
                             !.session = s,
                             !.asked = {a \in App : apps[a] # 0}]
                     ELSE subscription
  /\ UNCHANGED <<apps, session, sessions, wire, held, saves, writes, removing,
                 db, ghosts, spent>>

\* The subscription that f_RegisterAppManager returned is destroyed, as its
\* connection is gone.
Unregister ==
  /\ entry.session \notin {0, session}
  /\ registration[entry.session] = "done"
  /\ entry' = NoEntry
  /\ saves' = saves \union {Write("unregister", entry.session)}
  /\ UNCHANGED <<appManager, wire, registration, held, writes, removing, db,
                 ghosts, spent>>

\* m_fOnNotification: the first notification of a registration awaits the
\* write of fp_ReportFiltered; any other goes straight to
\* fp_ProcessApplicationChanges.
OnNotification ==
  /\ wire # <<>>
  /\ wire' = Tail(wire)
  /\ LET n == Head(wire)
     IN  \/ /\ n.session # entry.session
            /\ UNCHANGED <<entry, held, writes, overtaken>>
         \/ /\ n.session = entry.session
            /\ ~entry.updatedOnce
            /\ entry' = [entry EXCEPT !.updatedOnce = TRUE]
            /\ held' = held \union {n}
            /\ writes' = Append(writes, Write("errors", n))
            /\ UNCHANGED overtaken
         \/ /\ n.session = entry.session
            /\ entry.updatedOnce
            /\ writes' = Append(writes, Write("changes", n))
            /\ overtaken' = IF \E h \in held : h.session = n.session
                            THEN overtaken \union {n.session} ELSE overtaken
            /\ UNCHANGED <<entry, held>>
  /\ UNCHANGED <<appManager, registration, saves, removing, db, orphaned,
                 spent>>

\* f_RemoveAppManager: the element goes, its subscriptions are destroyed, and
\* then the data is removed.  Without an element there is nothing to await.
Remove ==
  /\ Spend
  /\ entry # NoEntry
  /\ ~removing
  /\ removing' = TRUE
  /\ entry' = NoEntry
  /\ subscription' = IF subscription.session = entry.session
                     THEN NoSubscription ELSE subscription
  /\ UNCHANGED <<apps, session, sessions, wire, registration, held, saves,
                 writes, db, ghosts>>

RemoveData ==
  /\ \/ removing /\ UNCHANGED spent
     \/ ~removing /\ entry = NoEntry /\ Spend
  /\ removing' = FALSE
  /\ writes' = Append(writes, Write("remove", 0))
  /\ orphaned' = (orphaned \/ held # {} \/ entry # NoEntry
                     \/ \E s \in Session : registration[s] \notin {"none", "done"})
  /\ UNCHANGED <<appManager, wire, registration, entry, held, saves, db,
                 overtaken>>

\* MISTAKE, for the mutants: the first notification only adds and changes.
MistakeRows(rows, n) ==
  [a \in App |-> IF a \in DOMAIN n.infos THEN n.infos[a] ELSE rows[a]]

\* fp_ProcessApplicationChanges: the first notification deletes what it does
\* not have.
Rows(rows, n) ==
  [a \in App |-> IF a \in DOMAIN n.infos THEN n.infos[a]
                 ELSE IF n.initial THEN 0 ELSE rows[a]]

\* The database actor does the next write, and what awaited it goes on: a
\* registration with its next step, a first notification with its changes.
DoWrite ==
  /\ writes # <<>>
  /\ LET w == Head(writes)
         next == [destroy |-> "destroyed", save |-> "saved"]
     IN  \/ /\ w.kind = "unregister"
            /\ db' = [db EXCEPT !.manager = TRUE]
            /\ writes' = Tail(writes)
            /\ UNCHANGED <<held, registration>>
         \/ /\ w.kind \in DOMAIN next
            /\ db' = [db EXCEPT !.manager = TRUE]
            /\ registration' = [s \in Session |->
                 IF s = w.of /\ registration[s] = w.kind
                 THEN next[w.kind] ELSE registration[s]]
            /\ writes' = Tail(writes)
            /\ UNCHANGED held
         \/ /\ w.kind = "errors"
            /\ db' = IF w.of.session = entry.session
                     THEN [db EXCEPT !.manager = TRUE] ELSE db
            /\ held' = held \ {w.of}
            /\ writes' = Append(Tail(writes), Write("changes", w.of))
            /\ UNCHANGED registration
         \/ /\ w.kind = "changes"
            /\ db' = [db EXCEPT !.rows = Rows(@, w.of)]
            /\ writes' = Tail(writes)
            /\ UNCHANGED <<held, registration>>
         \/ /\ w.kind = "remove"
            /\ db' = IF db.manager THEN [manager |-> FALSE, rows |-> NoApps]
                                   ELSE db
            /\ writes' = Tail(writes)
            /\ UNCHANGED <<held, registration>>
  /\ UNCHANGED <<appManager, wire, entry, saves, removing, ghosts, spent>>

Next ==
  \/ \E a \in App, info \in Info : ChangeApp(a, info)
  \/ \E s \in Session :
       DestroyTimesOut(s) \/ SaveRegistration(s) \/ SubscribeChanges(s)
  \/ \E w \in saves : SeenHosts(w)
  \/ SendInitial \/ Connect \/ Disconnect \/ Register \/ Unregister
  \/ OnNotification \/ Remove \/ RemoveData \/ DoWrite

Spec == Init /\ [][Next]_vars

------------------------------------------------------------------------------

Quiet ==
  /\ wire = <<>> /\ saves = {} /\ writes = <<>> /\ held = {}
  /\ ~removing
  /\ subscription.session = 0 \/ subscription.initialFinished

\* When nothing is on its way, CloudManager's applications of a registered
\* AppManager are exactly those the AppManager has, whatever changed while
\* it registered or between two connections; and a removed AppManager has
\* none.  The exceptions are a registration whose first notification was
\* overtaken by a later one, and a removal that crosses a notification or a
\* new registration.
RegistryIsTrue ==
  Quiet =>
    /\ (entry # NoEntry /\ entry.session = session
          /\ entry.session \notin overtaken /\ ~orphaned) => db.rows = apps
    /\ (~db.manager /\ ~orphaned) => db.rows = NoApps

==============================================================================
