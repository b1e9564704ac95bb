----------------------------- MODULE KnownHosts -----------------------------
(***************************************************************************)
(* The hosts each AppManager knows to run an application, what it believes *)
(* the others to know, and the updates that wait until all of them are     *)
(* connected and agree.                                                    *)
(*                                                                         *)
(* A key is an update group with an application of the version managers    *)
(* (CRemoteApplicationKey); a host has at most one application of a key.   *)
(***************************************************************************)
EXTENDS Naturals, Sequences, FiniteSets

CONSTANTS
  Host,         \* the AppManagers
  Key,          \* the keys of their applications
  Any,          \* the filter that matches every key
  Filters,      \* the filters an operator removes known hosts with
  Together,     \* the hosts that are connected, and agree, from the start
  Trust,        \* <<h, g>>: h trusts g to be an AppManager, and asks it for its changes
  Operators,    \* the hosts an operator works at
  Removable,    \* the hosts an operator may remove
  MaxChanges,   \* bounds changes of applications, new waits and removals
  MaxFaults     \* bounds broken connections, removed trust and restarts

VARIABLES
  apps,      \* apps[h]: the keys of the applications of h
  known,     \* known[h][k]: mp_KnownRemoteApplications
  database,  \* database[h][k]: KnownRemoteApplications of the state database
  disk,      \* disk[h][k]: the same, as it was when a save was last waited for
  remote,    \* remote[h][g]: what h keeps about g
  inbox,     \* inbox[h][g]: changes of g on their way to h, in order
  calls,     \* ends of subscriptions, and removals of hosts, on their way
  waits,     \* waits[h]: the keys with an update that waits for the others
  hung,      \* hosts whose actor never returns from a call
  removed,   \* hosts an operator has removed
  durable,   \* durable[h]: the removed hosts for which h has answered the removal
  deaf,      \* <<h, g>>: g has forgotten h while h was subscribed to g
  changes, faults

vars == <<apps, known, database, disk, remote, inbox, calls, waits, hung,
          removed, durable, deaf, changes, faults>>
history == <<removed, durable, deaf>>

-----------------------------------------------------------------------------
NoHosts == [k \in Key |-> {}]
Plus(sets, more) == [k \in Key |-> sets[k] \cup more[k]]
Just(k, h) == [NoHosts EXCEPT ![k] = {h}]

(* An entry of mp_RemoteAppManagerState that nothing is in. *)
NoRemote == [actor |-> FALSE, listener |-> FALSE,
             initial |-> FALSE, apps |-> {}, known |-> NoHosts]

(* A change functor is called with changes of applications, with applications
   that are removed and with known hosts. *)
Change == [initial : BOOLEAN, update : SUBSET Key, remove : SUBSET Key,
           known : [Key -> SUBSET Host]]
UpdateOf(ks) == [initial |-> FALSE, update |-> ks, remove |-> {}, known |-> NoHosts]
RemoveOf(k) == [initial |-> FALSE, update |-> {}, remove |-> {k}, known |-> NoHosts]
AddKnown(sets) == [initial |-> FALSE, update |-> {}, remove |-> {}, known |-> sets]

Running == Host \ hung

Init ==
  /\ apps = [h \in Host |-> Key]
  /\ LET old(h) == IF h \in Together THEN [k \in Key |-> Together]
                   ELSE [k \in Key |-> {h}]
     IN /\ known = [h \in Host |-> old(h)]
        /\ database = [h \in Host |-> [k \in Key |-> old(h)[k] \ {h}]]
        /\ disk = database
        /\ remote = [h \in Host |-> [g \in Host |->
             IF {h, g} \subseteq Together /\ h # g
             THEN [actor |-> TRUE, listener |-> TRUE,
                   initial |-> TRUE, apps |-> apps[g], known |-> old(g)]
             ELSE NoRemote]]
  /\ inbox = [h \in Host |-> [g \in Host |-> <<>>]]
  /\ calls = {}
  /\ waits = [h \in Host |-> {}]
  /\ hung = {} /\ removed = {} /\ deaf = {}
  /\ durable = [h \in Host |-> {}]
  /\ changes = 0 /\ faults = 0

-----------------------------------------------------------------------------
(* The remotes with a change functor at h are told. *)
Tell(box, rem, h, messages) ==
  [g \in Host |-> IF rem[h][g].listener
                  THEN [box[g] EXCEPT ![h] = @ \o messages] ELSE box[g]]

(* fp_NewRemoteKnownApplication, for the hosts in fresh: they are told to the
   remotes and put in the database. *)
NewKnown(h, fresh) ==
  /\ known' = [known EXCEPT ![h] = Plus(@, fresh)]
  /\ database' = [database EXCEPT ![h] = Plus(@, fresh)]
  /\ UNCHANGED disk
Fresh(h, ks, x) == [k \in Key |-> IF k \in ks /\ x \notin known[h][k] THEN {x} ELSE {}]
News(fresh) == IF fresh = NoHosts THEN <<>> ELSE <<AddKnown(fresh)>>

(* Two remotes that disagree fail a wait; one that is missing keeps it waiting. *)
Views(h, k) ==
  {g \in Host : remote[h][g].initial /\ remote[h][g].known[k] # {}}
Disagrees(h, k) == \E g \in Views(h, k) : remote[h][g].known[k] # known[h][k]
AllConnected(h, k) == Views(h, k) \cup {h} = known[h][k]
GoesOn(h, k) == Disagrees(h, k) \/ AllConnected(h, k)

(* Mistake: the waits hear only of their own host's updates. *)
MistakeEvaluate(h) == UNCHANGED waits
(* fp_OnAppUpdateInfoChange: every wait is evaluated again. *)
Evaluate(h) == waits' = [waits EXCEPT ![h] = {k \in @ : ~GoesOn(h, k)'}]

-----------------------------------------------------------------------------
(* An application is added or changes: it is published, and with it the host as
   one that runs it. Only a change evaluates the waits. *)
AppChanged(h, k) ==
  /\ h \in Running /\ changes < MaxChanges
  /\ apps' = [apps EXCEPT ![h] = @ \cup {k}]
  /\ LET fresh == Fresh(h, {k}, h)
     IN /\ NewKnown(h, fresh)
        /\ inbox' = Tell(inbox, remote, h,
             IF k \in apps[h] THEN <<UpdateOf({k})>> \o News(fresh)
             ELSE News(fresh) \o <<UpdateOf({k})>>)
  /\ changes' = changes + 1
  /\ UNCHANGED <<remote, calls, hung, history, faults>>
  /\ IF k \in apps[h] THEN Evaluate(h) ELSE UNCHANGED waits

AppRemoved(h, k) ==
  /\ h \in Running /\ changes < MaxChanges /\ k \in apps[h]
  /\ apps' = [apps EXCEPT ![h] = @ \ {k}]
  /\ inbox' = Tell(inbox, remote, h, <<RemoveOf(k)>>)
  /\ changes' = changes + 1
  /\ UNCHANGED <<known, database, disk, remote, calls, waits, hung, history, faults>>

(* An update of the application starts to wait for the others. *)
StartWait(h, k) ==
  /\ h \in Running /\ k \in apps[h] \ waits[h] /\ changes < MaxChanges
  /\ waits' = [waits EXCEPT ![h] = IF GoesOn(h, k) THEN @ ELSE @ \cup {k}]
  /\ changes' = changes + 1
  /\ UNCHANGED <<apps, known, database, disk, remote, inbox, calls, hung, history, faults>>

(* The callback of fp_NewRemoteAppManager. It makes an entry when there is none
   any more. *)
Receive(h, g) ==
  /\ h \in Running /\ inbox[h][g] # <<>>
  /\ LET c == Head(inbox[h][g])
         old == IF c.initial
                THEN [remote[h][g] EXCEPT !.initial = TRUE, !.apps = {}, !.known = NoHosts]
                ELSE remote[h][g]
         rem == [remote EXCEPT ![h][g] =
                   [old EXCEPT !.apps = (@ \cup c.update) \ c.remove,
                               !.known = Plus(@, c.known)]]
         fresh == Fresh(h, c.update, g)
     IN /\ remote' = rem
        /\ NewKnown(h, fresh)
        /\ inbox' = Tell([inbox EXCEPT ![h][g] = Tail(@)], rem, h, News(fresh))
  /\ Evaluate(h)
  /\ UNCHANGED <<apps, calls, hung, history, changes, faults>>

(* The trust manager has an actor of g for h, which subscribes to its changes
   (f_SubscribeToAppChanges). The end of an earlier subscription that comes later
   has an older sequence, and does nothing. *)
Ends(h, g) == [call |-> "unsubscribe", from |-> h, at |-> g]
(* Mistake: the sequence of the subscription is not compared. *)
MistakeConnect(h, g) ==
  /\ {h, g} \subseteq Running /\ <<h, g>> \in Trust /\ ~remote[h][g].actor
  /\ remote' = [remote EXCEPT ![h][g].actor = TRUE, ![h][g].initial = FALSE,
                              ![g][h].listener = TRUE]
  /\ inbox' = [inbox EXCEPT ![h][g] = Append(@,
       [initial |-> TRUE, update |-> apps[g], remove |-> {}, known |-> known[g]])]
  /\ deaf' = deaf \ {<<h, g>>}
  /\ UNCHANGED <<apps, known, database, disk, calls, waits, hung, removed, durable, changes, faults>>
Connect(h, g) ==
  /\ {h, g} \subseteq Running /\ <<h, g>> \in Trust /\ ~remote[h][g].actor
  /\ remote' = [remote EXCEPT ![h][g].actor = TRUE, ![h][g].initial = FALSE,
                              ![g][h].listener = TRUE]
  /\ inbox' = [inbox EXCEPT ![h][g] = Append(@,
       [initial |-> TRUE, update |-> apps[g], remove |-> {}, known |-> known[g]])]
  /\ calls' = calls \ {Ends(h, g)}
  /\ deaf' = deaf \ {<<h, g>>}
  /\ UNCHANGED <<apps, known, database, disk, waits, hung, removed, durable, changes, faults>>

Unsubscribe(h, g) ==
  /\ g \in Running /\ Ends(h, g) \in calls
  /\ calls' = calls \ {Ends(h, g)}
  /\ remote' = [remote EXCEPT ![g][h].listener = FALSE]
  /\ UNCHANGED <<apps, known, database, disk, inbox, waits, hung, history, changes, faults>>

(* The trust manager takes the actor of g from h alone: the whole entry goes,
   with the functor that tells g of changes. *)
RemoveTrust(h, g) ==
  /\ h \in Running /\ remote[h][g].actor /\ faults < MaxFaults
  /\ remote' = [remote EXCEPT ![h][g] = NoRemote]
  /\ calls' = calls \cup {Ends(h, g)}
  /\ deaf' = IF remote[h][g].listener THEN deaf \cup {<<g, h>>} ELSE deaf
  /\ faults' = faults + 1
  /\ UNCHANGED <<apps, known, database, disk, inbox, waits, hung, removed, durable, changes>>

(* The connection breaks, and what is under way is lost. *)
Between(h, g) == {<<h, g>>, <<g, h>>}
Disconnect(h, g) ==
  /\ remote[h][g].actor /\ faults < MaxFaults
  /\ remote' = [remote EXCEPT ![h][g] = NoRemote, ![g][h] = NoRemote]
  /\ inbox' = [inbox EXCEPT ![h][g] = <<>>, ![g][h] = <<>>]
  /\ calls' = {c \in calls : <<c.from, c.at>> \notin Between(h, g)}
  /\ deaf' = deaf \ Between(h, g)
  /\ faults' = faults + 1
  /\ UNCHANGED <<apps, known, database, disk, waits, hung, removed, durable, changes>>

(* fp_CommandLine_RemoveKnownHost: the others are called, and h itself. *)
RemoveKnownHost(h, x, f) ==
  /\ h \in Running /\ x \in Removable \ removed /\ changes < MaxChanges
  /\ changes' = changes + 1
  /\ removed' = removed \cup {x}
  /\ calls' = calls \cup {[call |-> "remove", from |-> h, at |-> g, host |-> x, filter |-> f] :
                            g \in {h} \cup {y \in Host : remote[h][y].actor}}
  /\ UNCHANGED <<apps, known, database, disk, remote, inbox, waits, hung, durable, deaf,
                 faults>>

(* f_RemoveKnownHost. The loop over a map never gets past a key that the filter
   does not match. *)
Matches(f, k) == f \in {Any, k}
Without(sets, x, f) == [k \in Key |-> IF Matches(f, k) THEN sets[k] \ {x} ELSE sets[k]]
(* Saved(h) is what the database of h holds when its save has been waited for. *)
MistakeSaved(h) == disk[h]
Saved(h) == IF database' = database THEN disk[h] ELSE database'[h]
KnownHostRemoved(c) ==
  /\ c.at \in Running /\ c.call = "remove"
  /\ calls' = calls \ {c}
  /\ LET h == c.at
         maps == {known[h]} \cup {remote[h][g].known : g \in Host}
     IN IF \E m \in maps, k \in Key : m[k] # {} /\ ~Matches(c.filter, k)
        THEN /\ hung' = hung \cup {h}
             /\ UNCHANGED <<known, database, disk, remote, durable>>
        ELSE /\ known' = [known EXCEPT ![h] = Without(@, c.host, c.filter)]
             /\ database' = [database EXCEPT ![h] = Without(@, c.host, c.filter)]
             /\ disk' = [disk EXCEPT ![h] = Saved(h)]
             /\ remote' = [remote EXCEPT ![h] = [g \in Host |->
                             [remote[h][g] EXCEPT !.known = Without(@, c.host, c.filter)]]]
             /\ durable' = [durable EXCEPT ![h] =
                              IF c.filter = Any THEN @ \cup ({c.host} \cap removed) ELSE @]
             /\ UNCHANGED hung
  /\ UNCHANGED <<apps, inbox, waits, removed, deaf, changes, faults>>

(* The AppManager stops and reads its state. Nobody waits for fp_SaveStateDatabase
   when a host becomes known, so any part of what was not waited for may be there.
   It is itself a host of its applications. Its connections break. *)
Restart(h) ==
  /\ faults < MaxFaults
  /\ \E read \in [Key -> SUBSET Host] :
       /\ \A k \in Key : /\ disk[h][k] \cap database[h][k] \subseteq read[k]
                        /\ read[k] \subseteq disk[h][k] \cup database[h][k]
       /\ known' = [known EXCEPT ![h] =
                      [k \in Key |-> read[k] \cup IF k \in apps[h] THEN {h} ELSE {}]]
       /\ database' = [database EXCEPT ![h] = read]
       /\ disk' = [disk EXCEPT ![h] = read]
  /\ remote' = [x \in Host |-> [y \in Host |-> IF h \in {x, y} THEN NoRemote ELSE remote[x][y]]]
  /\ inbox' = [x \in Host |-> [y \in Host |-> IF h \in {x, y} THEN <<>> ELSE inbox[x][y]]]
  /\ calls' = {c \in calls : h \notin {c.from, c.at}}
  /\ waits' = [waits EXCEPT ![h] = {}]
  /\ hung' = hung \ {h}
  /\ deaf' = {d \in deaf : h \notin {d[1], d[2]}}
  /\ faults' = faults + 1
  /\ UNCHANGED <<apps, removed, durable, changes>>

Next ==
  \/ \E h \in Host, k \in Key : AppChanged(h, k) \/ AppRemoved(h, k) \/ StartWait(h, k)
  \/ \E h, g \in Host : \/ Receive(h, g) \/ Connect(h, g) \/ Unsubscribe(h, g)
                        \/ RemoveTrust(h, g) \/ Disconnect(h, g)
  \/ \E h \in Operators, x \in Host, f \in Filters : RemoveKnownHost(h, x, f)
  \/ \E c \in calls : KnownHostRemoved(c)
  \/ \E h \in Host : Restart(h)

(* What the code does by itself, once it can: it connects, and handles what comes. *)
Progress == \E h, g \in Host : Receive(h, g) \/ Connect(h, g) \/ Unsubscribe(h, g)

Spec == Init /\ [][Next]_vars
FairSpec == Spec /\ WF_vars(Progress)

-----------------------------------------------------------------------------
TypeOK ==
  /\ apps \in [Host -> SUBSET Key]
  /\ known \in [Host -> [Key -> SUBSET Host]]
  /\ database \in [Host -> [Key -> SUBSET Host]]
  /\ disk \in [Host -> [Key -> SUBSET Host]]
  /\ remote \in [Host -> [Host ->
       [actor : BOOLEAN, listener : BOOLEAN, initial : BOOLEAN,
        apps : SUBSET Key, known : [Key -> SUBSET Host]]]]
  /\ inbox \in [Host -> [Host -> Seq(Change)]]
  /\ waits \in [Host -> SUBSET Key]
  /\ hung \subseteq Host /\ removed \subseteq Host
  /\ durable \in [Host -> SUBSET Host]
  /\ deaf \subseteq Host \X Host

(* What a host believes another one to know and to run is what that one knows
   and runs, once the changes under way have come: nothing is lost or applied out
   of order across new subscriptions, connections and restarts. Hosts an operator
   removes are left out, and so are AppManagers whose functor the other one has
   thrown away. *)
ViewsAreTrue ==
  \A h, g \in Host :
    /\ remote[h][g].actor /\ remote[h][g].initial /\ inbox[h][g] = <<>> /\ <<h, g>> \notin deaf
    => /\ remote[h][g].apps = apps[g]
       /\ \A k \in Key : remote[h][g].known[k] \ removed = known[g][k] \ removed

(* Once an AppManager has answered that a host is removed, it knows the host
   again only when it has heard from the host itself: neither a restart nor what
   others say brings it back. *)
RemovalIsDurable ==
  [][\A h \in Host : \A x \in durable[h] \cap durable'[h] : \A k \in Key :
       x \in known'[h][k] \ known[h][k]
       => x = h \/ \E c \in {inbox[h][x]} : c # <<>> /\ k \in Head(c).update]_vars

(* An update that waits for the others goes on or fails, also without its timers:
   the hosts that are missing connect, and those that have seen different hosts
   fail it. Not so when a host is removed, as nothing is evaluated then, nor when
   a connected AppManager knows of the application without running it. *)
WaitsEnd ==
  []<>\A h \in Host, k \in Key :
        k \notin waits[h] \/ removed # {} \/ \E g \in Host : k \notin apps[g]
=============================================================================
