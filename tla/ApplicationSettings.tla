------------------------ MODULE ApplicationSettings ------------------------
(* Adding, changing, updating and removing the applications of one
   AppManager, and the state database their settings are kept in.

   Every operation runs in the AppManager's actor, gives it up at each wait
   and holds the application "in progress" meanwhile.
   fp_UpdateApplicationJson copies the settings into the state database; f_Save writes it to
   disk, one save after the other.  A setting's value is the number of the operation that
   gave it.

   Left out: what the settings mean and their validation, permissions,
   encryption failures other than as a failed step, backups, and launching,
   which AppLifecycle models. *)
EXTENDS Naturals, Sequences, FiniteSets, SequencesExt

CONSTANTS
    Name,        \* names of applications
    Parent,      \* m_ParentApplication of each name, or None
    None,        \* no parent, no settings
    Setting,     \* settings, each with a bit of EApplicationSetting
    Restarting,  \* EApplicationSetting_NeedUpdateSettings
    Installed,   \* names of the applications there are at first
    MaxEvents    \* operations and crashes in a behaviour

VARIABLES
    objects,       \* the application objects that exist or existed
    applications,  \* mp_Applications: the object of each name, 0 for none
    operations,    \* the operations under way, by number
    data,          \* "Applications" of m_StateDatabase.m_Data
    disk,          \* the same on disk
    saves,         \* snapshots f_Save has not written, with their operation
    spent,         \* operations and crashes so far
    allowed,       \* values each setting may have after what was acknowledged
    doubled,       \* names two additions inserted an object for
    stale,         \* settings overwritten from values read before a wait
    joined         \* objects added while their parent or a child was busy

vars == <<objects, applications, operations, data, disk, saves, spent, allowed, doubled, stale, joined>>

Settings == [Setting -> 0 .. MaxEvents]

EventMayHappen == spent < MaxEvents

This == spent + 1

(* The keys f_FromInterfaceSettings finds in a request. *)
RequestedKeys == SUBSET Setting \ {{}}

(* f_ApplySettings: the named keys of one set of settings over another. *)
ApplySettings(keys, from, settings) ==
    [k \in Setting |-> IF k \in keys THEN from[k] ELSE settings[k]]

(* f_ChangedSettings. *)
ChangedSettings(old, new) == {k \in Setting : old[k] # new[k]}

Children(o) == {c \in DOMAIN objects : objects[c].parent = o}

(* f_IsInProgress: the application, its parent or a child is busy. *)
InProgress(o) ==
    \E f \in {o, objects[o].parent} \union Children(o) : f # 0 /\ objects[f].busy # 0

(* f_Delete: the object leaves its parent and its children. *)
DeletedIn(objs, o) ==
    [p \in DOMAIN objs |->
        IF p = o THEN [objs[p] EXCEPT !.deleted = TRUE, !.parent = 0]
        ELSE IF objs[p].parent = o THEN [objs[p] EXCEPT !.parent = 0] ELSE objs[p]]

(* The release of the subscription f_SetInProgress returns. *)
ReleasedIn(objs, n) ==
    [p \in DOMAIN objs |-> IF objs[p].busy = n THEN [objs[p] EXCEPT !.busy = 0] ELSE objs[p]]

MistakeUpdateJson(objs, o, n) ==
    /\ data' = [data EXCEPT ![objs[o].name] = objs[o].settings]
    /\ saves' = Append(saves, [operation |-> n, data |-> data'])

(* fp_UpdateApplicationJson: the settings of an object that is not deleted
   go into the database, and the database to disk. *)
UpdateJson(objs, o, n) ==
    IF objs[o].deleted
    THEN UNCHANGED <<data, saves>>
    ELSE /\ data' = [data EXCEPT ![objs[o].name] = objs[o].settings]
         /\ saves' = Append(saves, [operation |-> n, data |-> data'])

Uncertain(name, keys, value) ==
    [allowed EXCEPT ![name] =
        [k \in Setting |-> IF k \in keys THEN @[k] \union {value} ELSE @[k]]]

SavedValue(settings, k) == IF settings = None THEN None ELSE settings[k]

(* What the caller may rely on once an operation has succeeded: its values,
   or those of saves that come after. *)
Acknowledged(op, n, later) ==
    LET after(k) == {SavedValue(later[i].data[op.name], k) : i \in DOMAIN later} IN
    [allowed EXCEPT ![op.name] =
        [k \in Setting |->
            IF op.kind = "remove" THEN {None} \union after(k)
            ELSE IF k \in op.keys THEN {n} \union after(k) ELSE @[k]]]

EndedIn(ops, n) == [m \in DOMAIN ops \ {n} |-> ops[m]]

AtStep(n, step) == [operations EXCEPT ![n].step = step]

Started(kind, name, o, keys, new, step) ==
    [m \in DOMAIN operations \union {This} |->
        IF m = This
        THEN [kind |-> kind, name |-> name, object |-> o, keys |-> keys, new |-> new,
              waited |-> step = "wait", step |-> step]
        ELSE operations[m]]

Ghosts == <<allowed, doubled, stale, joined>>

(* fp_ReadState and fp_InitApplications: the objects of what is on disk. *)
SavedNames(db) == SetToSeq({n \in Name : db[n] # None})

ObjectOf(db, name) ==
    IF db[name] = None THEN 0
    ELSE CHOOSE i \in DOMAIN SavedNames(db) : SavedNames(db)[i] = name

ReadState(db) ==
    [i \in DOMAIN SavedNames(db) |->
        LET name == SavedNames(db)[i] IN
        [name |-> name, settings |-> db[name], deleted |-> FALSE, busy |-> 0,
         parent |-> IF Parent[name] = None THEN 0 ELSE ObjectOf(db, Parent[name])]]

Init ==
    /\ disk = [n \in Name |-> IF n \in Installed THEN [k \in Setting |-> 0] ELSE None]
    /\ data = disk /\ objects = ReadState(disk) /\ applications = [n \in Name |-> ObjectOf(disk, n)]
    /\ operations = <<>> /\ saves = <<>> /\ spent = 0
    /\ allowed = [n \in Name |-> [k \in Setting |-> {IF n \in Installed THEN 0 ELSE None}]]
    /\ doubled = {} /\ stale = {} /\ joined = {}

-----------------------------------------------------------------------------
(* fp_AddApplication *)

(* The checks, the parent's link and the first check of the name. *)
Add(name) ==
    /\ EventMayHappen /\ spent' = This
    /\ Parent[name] # None =>
           applications[Parent[name]] # 0 /\ ~objects[applications[Parent[name]]].deleted
    /\ data[name] = None
    /\ objects' = Append(objects,
           [name |-> name, settings |-> [k \in Setting |-> This], deleted |-> FALSE, busy |-> 0,
            parent |-> IF Parent[name] = None THEN 0 ELSE applications[Parent[name]]])
    /\ operations' = Started("add", name, Len(objects) + 1, Setting,
                             [k \in Setting |-> This], "fetch")
    /\ UNCHANGED <<applications, data, disk, saves, Ghosts>>

(* The encryption is set up and the version found, downloaded or read. *)
AddFetched(n) ==
    /\ operations[n].step = "fetch" /\ operations' = AtStep(n, "unpack")
    /\ UNCHANGED <<objects, applications, data, disk, saves, spent, Ghosts>>

(* The files are unpacked, the name is checked again; the clean-up of the
   download is waited for. *)
AddUnpacked(n) ==
    /\ operations[n].step = "unpack" /\ data[operations[n].name] = None
    /\ operations' = AtStep(n, "insert")
    /\ UNCHANGED <<objects, applications, data, disk, saves, spent, Ghosts>>

(* A step fails, or the name was taken meanwhile: the object is deleted. *)
AddFails(n) ==
    /\ operations[n].step \in {"fetch", "unpack"}
    /\ objects' = DeletedIn(objects, operations[n].object)
    /\ operations' = EndedIn(operations, n)
    /\ UNCHANGED <<applications, data, disk, saves, spent, Ghosts>>

(* fp_OnApplicationAdded: a root application adopts the children that are
   there. *)
AdoptedIn(objs, o) ==
    [c \in DOMAIN objs |->
        IF Parent[objs[c].name] = objs[o].name /\ Parent[objs[o].name] = None
           /\ applications[objs[c].name] = c
        THEN [objs[c] EXCEPT !.parent = o] ELSE objs[c]]

(* The object is inserted in progress and saved. *)
AddInserted(n) ==
    LET name == operations[n].name  o == operations[n].object
        busy == [objects EXCEPT ![o].busy = n]
    IN
    /\ operations[n].step = "insert"
    /\ applications' = [applications EXCEPT ![name] = o]
    /\ objects' = AdoptedIn(busy, o)
    /\ UpdateJson(objects', o, n)
    /\ operations' = AtStep(n, "save")
    /\ allowed' = Uncertain(name, Setting, n)
    /\ doubled' = IF applications[name] # 0 THEN doubled \union {name} ELSE doubled
    /\ joined' = IF \E f \in {objects[o].parent} \union {c \in DOMAIN objects : objects'[c].parent = o} :
                        f # 0 /\ objects[f].busy # 0
                 THEN joined \union {o} ELSE joined
    /\ UNCHANGED <<disk, spent, stale>>

-----------------------------------------------------------------------------
(* fp_ChangeApplicationSettings, f_Remove and fp_UpdateApplication *)

MistakeMayProceed(o) == ~objects[o].deleted

MayProceed(o) == ~InProgress(o) /\ ~objects[o].deleted

(* fp_SetInProgressWithWait: the application is in progress for this
   operation at once, or the operation waits for the one that has it. *)
Begins(kind, name, keys, new, step) ==
    LET o == applications[name] IN
    /\ EventMayHappen /\ spent' = This /\ o # 0
    /\ operations' = Started(kind, name, o, keys, new, IF MayProceed(o) THEN step ELSE "wait")
    /\ objects' = IF MayProceed(o) THEN [objects EXCEPT ![o].busy = This] ELSE objects
    /\ UNCHANGED <<applications, data, disk, saves, Ghosts>>

(* The new settings, and what they change, are computed from those the
   application has now, before any wait. *)
ChangeSettings(name, keys) ==
    LET o == applications[name]
        new == ApplySettings(keys, [k \in Setting |-> This], objects[o].settings)
        changed == ChangedSettings(objects[o].settings, new)
    IN
    /\ o # 0 /\ changed # {}
    /\ Begins("change", name, changed, new, "stop")

Remove_(name) == Begins("remove", name, {}, <<>>, "stop")

Update(name, keys) == Begins("update", name, keys, <<>>, "download")

(* It ends when the wait is too long or the application was deleted. *)
WaitEnds(n) ==
    /\ operations[n].step = "wait" /\ operations' = EndedIn(operations, n)
    /\ UNCHANGED <<objects, applications, data, disk, saves, spent, Ghosts>>

(* The wait is over and the application still there. *)
Proceeds(n) ==
    LET o == operations[n].object IN
    /\ operations[n].step = "wait" /\ MayProceed(o)
    /\ objects' = [objects EXCEPT ![o].busy = n]
    /\ operations' = AtStep(n, IF operations[n].kind = "update" THEN "download" ELSE "stop")
    /\ UNCHANGED <<applications, data, disk, saves, spent, Ghosts>>

(* The update's new settings: the version's over the application's. *)
UpdateDownloaded(n) ==
    LET op == operations[n] IN
    /\ op.step = "download"
    /\ operations' = [operations EXCEPT ![n].step = "stop",
           ![n].new = ApplySettings(op.keys, [k \in Setting |-> n], objects[op.object].settings)]
    /\ UpdateJson(objects, op.object, 0)
    /\ UNCHANGED <<objects, applications, disk, spent, Ghosts>>

(* The settings are replaced and saved: at once when no restart is needed,
   after the application has stopped otherwise. *)
ApplyNewSettings(n) ==
    LET op == operations[n]  o == op.object
        lost == {k \in Setting \ op.keys : objects[o].settings[k] # op.new[k]}
    IN
    /\ op.step = "stop" /\ op.kind # "remove" /\ ~objects[o].deleted
    /\ objects' = [objects EXCEPT ![o].settings = op.new]
    /\ UpdateJson(objects', o, n)
    /\ operations' = AtStep(n, "save")
    /\ allowed' = Uncertain(op.name, op.keys, n)
    /\ stale' = IF op.kind = "change" /\ op.waited THEN stale \union ({op.name} \X lost) ELSE stale
    /\ UNCHANGED <<applications, disk, spent, doubled, joined>>

MistakeRemoveStopped(n) ==
    LET op == operations[n]  o == applications[op.name] IN
    /\ op.step = "stop" /\ op.kind = "remove" /\ o # 0
    /\ objects' = DeletedIn(objects, o)
    /\ applications' = [applications EXCEPT ![op.name] = 0]
    /\ data' = data
    /\ saves' = Append(saves, [operation |-> n, data |-> data'])
    /\ operations' = AtStep(n, "save")
    /\ allowed' = Uncertain(op.name, Setting, None)
    /\ UNCHANGED <<disk, spent, doubled, stale, joined>>

(* The application has stopped, or failed to: the name's object is deleted. *)
RemoveStopped(n) ==
    LET op == operations[n]  o == applications[op.name] IN
    /\ op.step = "stop" /\ op.kind = "remove" /\ o # 0
    /\ objects' = DeletedIn(objects, o)
    /\ applications' = [applications EXCEPT ![op.name] = 0]
    /\ data' = [data EXCEPT ![op.name] = None]
    /\ saves' = Append(saves, [operation |-> n, data |-> data'])
    /\ operations' = AtStep(n, "save")
    /\ allowed' = Uncertain(op.name, Setting, None)
    /\ UNCHANGED <<disk, spent, doubled, stale, joined>>

(* A step between taking the turn and the save fails, or the application
   is found gone. *)
StepFails(n) ==
    /\ operations[n].step \in {"download", "stop"}
    /\ operations[n].kind = "remove" => applications[operations[n].name] = 0
    /\ operations[n].kind = "change" => operations[n].keys \intersect Restarting # {}
    /\ objects' = ReleasedIn(objects, n)
    /\ operations' = EndedIn(operations, n)
    /\ UNCHANGED <<applications, data, disk, saves, spent, Ghosts>>

(* The launch after an addition, a change or an update, or its failure;
   only then is the application's turn over. *)
Finishes(n) ==
    /\ operations[n].step = "finish"
    /\ objects' = ReleasedIn(objects, n)
    /\ operations' = EndedIn(operations, n)
    /\ UNCHANGED <<applications, data, disk, saves, spent, Ghosts>>

-----------------------------------------------------------------------------
(* The state database *)

(* The application registers itself while it runs, with or without an
   operation in progress, and its object is saved. *)
Registers(o) ==
    /\ EventMayHappen /\ spent' = This
    /\ \A n \in DOMAIN operations : operations[n].kind = "add" => operations[n].object # o \/ operations[n].step \in {"save", "finish"}
    /\ UpdateJson(objects, o, 0)
    /\ UNCHANGED <<objects, applications, operations, disk, Ghosts>>

SaveFinishes ==
    LET save == Head(saves)  n == save.operation IN
    /\ saves # <<>> /\ saves' = Tail(saves) /\ disk' = save.data
    /\ IF n \in DOMAIN operations
       THEN /\ operations' = AtStep(n, "finish")
            /\ allowed' = Acknowledged(operations[n], n, saves')
            /\ stale' = stale \ ({operations[n].name} \X operations[n].keys)
       ELSE UNCHANGED <<operations, allowed, stale>>
    /\ UNCHANGED <<objects, applications, data, spent, doubled, joined>>

SaveFails ==
    LET n == Head(saves).operation IN
    /\ EventMayHappen /\ spent' = This
    /\ saves # <<>> /\ saves' = Tail(saves)
    /\ operations' = IF n \in DOMAIN operations THEN AtStep(n, "finish") ELSE operations
    /\ UNCHANGED <<objects, applications, data, disk, Ghosts>>

(* The AppManager dies and starts again. *)
Restart ==
    /\ EventMayHappen /\ spent' = This
    /\ objects' = ReadState(disk) /\ applications' = [n \in Name |-> ObjectOf(disk, n)]
    /\ operations' = <<>> /\ data' = disk /\ saves' = <<>>
    /\ UNCHANGED <<disk, Ghosts>>

-----------------------------------------------------------------------------
Adding == \/ \E name \in Name : Add(name)
          \/ \E n \in DOMAIN operations : AddFetched(n) \/ AddUnpacked(n) \/ AddFails(n) \/ AddInserted(n)

Changing ==
    \/ \E name \in Name, keys \in RequestedKeys : ChangeSettings(name, keys) \/ Update(name, keys)
    \/ \E name \in Name : Remove_(name)
    \/ \E n \in DOMAIN operations :
           WaitEnds(n) \/ Proceeds(n) \/ UpdateDownloaded(n) \/ ApplyNewSettings(n)
           \/ RemoveStopped(n) \/ StepFails(n) \/ Finishes(n)

Saving == SaveFinishes \/ SaveFails \/ Restart \/ \E o \in DOMAIN objects : Registers(o)

Next == Adding \/ Changing \/ Saving

Spec == Init /\ [][Next]_vars

-----------------------------------------------------------------------------
TypeOK ==
    /\ \A o \in DOMAIN objects :
           /\ objects[o].name \in Name /\ objects[o].settings \in Settings
           /\ objects[o].deleted \in BOOLEAN /\ objects[o].busy \in 0 .. MaxEvents
           /\ objects[o].parent \in 0 .. Len(objects)
    /\ applications \in [Name -> 0 .. Len(objects)]
    /\ DOMAIN operations \subseteq 1 .. MaxEvents
    /\ \A n \in DOMAIN operations :
           /\ operations[n].kind \in {"add", "change", "remove", "update"}
           /\ operations[n].step \in {"fetch", "unpack", "insert", "wait", "download", "stop", "save", "finish"}
           /\ operations[n].object \in DOMAIN objects
    /\ data \in [Name -> Settings \union {None}] /\ disk \in [Name -> Settings \union {None}]
    /\ spent \in 0 .. MaxEvents /\ doubled \subseteq Name

Value(name, k) ==
    IF applications[name] = 0 THEN None ELSE objects[applications[name]].settings[k]

(* A setting that a change, an update, an addition or a removal reported as
   successful is the one in effect, after any number of restarts, until
   another operation on that setting: no other operation undoes it and a
   removed application stays removed.  Not so when the settings were read
   before a wait, or when two additions of one name passed the check. *)
ChangesAreKept ==
    \A name \in Name \ doubled : \A k \in Setting :
        <<name, k>> \notin stale => Value(name, k) \in allowed[name][k]

(* What the state database holds of a name is what the application with
   that name has, and nothing when there is none. *)
SavedIsWhatRuns ==
    \A name \in Name \ doubled :
        data[name] = IF applications[name] = 0 THEN None ELSE objects[applications[name]].settings

(* No two operations work on an application and its parent at once, and an
   operation that works on an application holds it. *)
OneAtATime ==
    /\ \A o \in DOMAIN objects \ joined :
           objects[o].busy # 0 /\ objects[o].parent \notin joined \union {0}
               => objects[objects[o].parent].busy = 0
    /\ \A n \in DOMAIN operations :
           operations[n].step \in {"download", "stop", "save", "finish"}
               => objects[operations[n].object].busy = n
=============================================================================
