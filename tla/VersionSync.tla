---------------------------- MODULE VersionSync ----------------------------
(***************************************************************************)
(* VersionManagers that copy a version, its tags and its retry sequence    *)
(* from each other. A notification of a version is a call that returns     *)
(* when the subscriber has stored the version and has told its own         *)
(* subscribers, so the calls of one change form a tree over the managers.  *)
(* The sequencer of the version lets a manager handle one at a time.       *)
(***************************************************************************)
EXTENDS Naturals, Sequences, FiniteSets, SequencesExt

CONSTANTS
  Manager,     \* the version managers
  Syncs,       \* <<l, s>>: s is among the SyncHosts of a sync source of l
  Tag,         \* the tags of versions
  Copied,      \* those that are copied (m_CopyTagMappings)
  Stored,      \* the managers that have the version from the start
  Uploaders,   \* the managers it is uploaded to
  Taggers,     \* the managers at which tags are changed
  Connected,   \* the subscriptions at the start
  MaxEvents    \* bounds uploads, changes, connections, failures and restarts

VARIABLES
  version,    \* version[m]: the version in mp_Applications of m
  saved,      \* the same in the database
  tasks,      \* the coroutines of all managers, and the calls on their way
  queue,      \* queue[m]: the tasks that have, or wait for, the sequencer
  storing,    \* storing[m]: CSyncVersionState
  subscribed, \* <<l, s>>: s has a subscription of l
  error,      \* <<l, s>>: l reports an error of s (m_HostErrors)
  number,     \* the last origin ID
  events,
  news,       \* news[m]: counts what the version of m has been
  newest,     \* newest[p]: the newest news of s that l has had, for p = <<l, s>>
  excused,    \* <<l, s>>: l was told of changes of s, or applied them, out of order, or
              \* cleared an error that is newer than the full list it was cleared for
  crossed     \* something was sent while another change was under way

vars == <<version, saved, tasks, queue, storing, subscribed, error, number, events, news,
          newest, excused, crossed>>

Unknown == [exists |-> FALSE, tags |-> {}, retry |-> 0]
Nothing == [origin |-> 0, tags |-> {}, retry |-> 0]

(* A task is named by the calls that led to it, so its first number is the origin ID.
   waited: the manager that called it waits for it. *)
Origin(t) == t.id[1]
Caller(t) == Front(t.id)
Holds(t) == queue[t.at] # <<>> /\ Head(queue[t.at]) = t.id
Free == [m \in Manager |-> <<>>]

Init ==
  /\ version = [m \in Manager |-> [Unknown EXCEPT !.exists = m \in Stored]] /\ saved = version
  /\ tasks = {} /\ queue = Free /\ storing = [m \in Manager |-> Nothing]
  /\ subscribed = Connected /\ error = Syncs \ Connected
  /\ number = 0 /\ events = 0
  /\ news = [m \in Manager |-> 0]
  /\ newest = [p \in Syncs |-> 0] /\ excused = {} /\ crossed = FALSE

Count == events < MaxEvents /\ events' = events + 1

-----------------------------------------------------------------------------
Task(id, m, from, kind, step, info, n) ==
  [id |-> id, at |-> m, from |-> from, kind |-> kind, step |-> step, info |-> info,
   news |-> n, full |-> "no", waited |-> FALSE]
Goes(t, step) == tasks' = (tasks \ {t}) \cup {[t EXCEPT !.step = step]}

Change(m, kind, info) ==
  /\ Count
  /\ version' = [version EXCEPT ![m] = info]
  /\ number' = number + 1
  /\ news' = [news EXCEPT ![m] = @ + 1]
  /\ tasks' = tasks \cup {Task(<<number'>>, m, m, kind, "save", info, news'[m])}
  /\ crossed' = (crossed \/ tasks # {})
  /\ UNCHANGED <<saved, queue, storing, subscribed, error, newest, excused>>
(* f_UploadVersion, when the files have been received *)
Upload(m) ==
  m \in Uploaders /\ ~version[m].exists /\ Change(m, "upload", [Unknown EXCEPT !.exists = TRUE])
(* f_ChangeTags, of one tag, or with m_bIncreaseRetrySequence *)
ChangeTags(m) ==
  /\ m \in Taggers /\ version[m].exists
  /\ \/ \E tag \in Tag : Change(m, "change", [version[m] EXCEPT
          !.tags = IF tag \in @ THEN @ \ {tag} ELSE @ \cup {tag}])
     \/ Change(m, "change", [version[m] EXCEPT !.retry = @ + 1])

(* fp_SaveVersionInfo and fp_SaveVersionToDatabase. fp_SyncUpdateLocalTags saves the
   version as it is, the others what they have made of it. *)
Saves(t) ==
  /\ t.step = "save"
  /\ saved' = [saved EXCEPT ![t.at] = IF t.kind = "sync" THEN version[t.at] ELSE t.info]
  /\ Goes(t, "tell")
  /\ UNCHANGED <<version, queue, storing, subscribed, error, number, events, news, newest,
                 excused, crossed>>

Call(t, l, info, full) ==
  [Task(Append(t.id, l), l, t.at, "sync", "called", info,
        IF t.kind = "change" THEN t.news ELSE news[t.at])
   EXCEPT !.full = full, !.waited = TRUE]
Waits(t) == [t EXCEPT !.step = "wait", !.info = Unknown, !.news = 0]
Subscribers(m) == {l \in Manager : <<l, m>> \in subscribed}
(* fp_NewVersion, of the version as it is, or in f_ChangeTags as it was. Each call is made
   when the permission has been checked, so the calls of different tasks are in any order. *)
Tell(t) ==
  /\ t.step = "tell"
  /\ LET info == IF t.kind = "change" THEN t.info ELSE version[t.at]
     IN tasks' = (tasks \ {t}) \cup {Waits(t)}
                   \cup {Call(t, l, info, "no") : l \in Subscribers(t.at)}
  /\ UNCHANGED <<version, saved, queue, storing, subscribed, error, number, events, news,
                 newest, excused, crossed>>

(* Mistake: a download that fails keeps the sequencer. *)
MistakeReleases(t) ==
  IF Holds(t) /\ t.step # "download"
  THEN /\ queue' = [queue EXCEPT ![t.at] = Tail(@)]
       /\ storing' = [storing EXCEPT ![t.at] = Nothing]
  ELSE UNCHANGED <<queue, storing>>
Releases(t) ==
  IF Holds(t)
  THEN /\ queue' = [queue EXCEPT ![t.at] = Tail(@)]
       /\ storing' = [storing EXCEPT ![t.at] = Nothing]
  ELSE UNCHANGED <<queue, storing>>
(* A full resend that went well clears the error of the host, which may be newer. *)
Ends(t, told) ==
  /\ tasks' = tasks \ {t} /\ Releases(t)
  /\ error' = IF t.full # "no" THEN error \ {<<t.at, t.from>>} ELSE error
  /\ excused' = excused \cup told \cup (IF t.full = "late" THEN {<<t.at, t.from>>} ELSE {})
Raised(ts, ps) ==
  {[t EXCEPT !.full = IF @ = "yes" /\ <<t.at, t.from>> \in ps THEN "late" ELSE @] : t \in ts}
Answered(t) == ~\E u \in tasks : u.waited /\ Caller(u) = t.id
Return(t) ==
  /\ t.step = "wait" /\ Answered(t)
  /\ Ends(t, {})
  /\ UNCHANGED <<version, saved, subscribed, number, events, news, newest, crossed>>

-----------------------------------------------------------------------------
(* Mistake: tags are added, and never taken away. *)
MistakeMerged(tags, t) == tags \cup (t.info.tags \cap Copied)
(* What a synchronisation makes of the tags: those it owns are those of the source. *)
Merged(tags, t) == (tags \ Copied) \cup (t.info.tags \cap Copied)
(* Nothing to do: compared with the version, or with what is being stored as long as
   there is none. *)
Known(t) ==
  LET now == IF version[t.at].exists THEN version[t.at] ELSE storing[t.at]
  IN /\ version[t.at].exists \/ storing[t.at].origin # 0
     /\ now.tags = Merged(now.tags, t) /\ t.info.retry <= now.retry
Hear(t) ==
  newest' = [newest EXCEPT ![<<t.at, t.from>>] = IF t.news > @ THEN t.news ELSE @]
OutOfOrder(t) == IF t.news < newest[<<t.at, t.from>>] THEN {<<t.at, t.from>>} ELSE {}

(* fp_SyncProcessVersion, up to the sequencer. The notifications that wait there are
   older, and are applied after it. *)
Behind(t) == {u \in tasks : u.at = t.at /\ u.step = "queue"}
ReturnsAtOnce(t) ==
  /\ t.step = "called" /\ t.info.exists
  /\ Known(t) \/ storing[t.at].origin = Origin(t)
  /\ Hear(t) /\ Ends(t, OutOfOrder(t) \cup {<<u.at, u.from>> : u \in Behind(t)})
  /\ UNCHANGED <<version, saved, subscribed, number, events, news, crossed>>
Enqueue(t) ==
  /\ t.step = "called" /\ t.info.exists
  /\ ~Known(t) /\ storing[t.at].origin # Origin(t)
  /\ queue' = [queue EXCEPT ![t.at] = Append(@, t.id)]
  /\ Hear(t) /\ Goes(t, "queue") /\ excused' = excused \cup OutOfOrder(t)
  /\ UNCHANGED <<version, saved, storing, subscribed, error, number, events, news, crossed>>
(* A full list that has no version. *)
NothingNew(t) ==
  /\ t.step = "called" /\ ~t.info.exists
  /\ Hear(t) /\ Ends(t, OutOfOrder(t))
  /\ UNCHANGED <<version, saved, subscribed, number, events, news, crossed>>

Max2(a, b) == IF a > b THEN a ELSE b
(* fp_SyncUpdateLocalTags *)
UpdateLocalTags(t) ==
  /\ t.step = "queue" /\ Holds(t) /\ version[t.at].exists
  /\ LET old == version[t.at]
         new == [old EXCEPT !.tags = Merged(@, t), !.retry = Max2(@, t.info.retry)]
     IN IF new = old
        THEN Ends(t, {}) /\ UNCHANGED <<version, news>>
        ELSE /\ version' = [version EXCEPT ![t.at] = new]
             /\ news' = [news EXCEPT ![t.at] = @ + 1]
             /\ storing' = [storing EXCEPT ![t.at] =
                              [origin |-> Origin(t), tags |-> new.tags, retry |-> new.retry]]
             /\ Goes(t, "save")
             /\ UNCHANGED <<queue, error, excused>>
  /\ UNCHANGED <<saved, subscribed, number, events, newest, crossed>>
(* fp_SyncDownloadAndStoreVersion *)
StartDownload(t) ==
  /\ t.step = "queue" /\ Holds(t) /\ ~version[t.at].exists
  /\ storing' = [storing EXCEPT ![t.at] =
                   [origin |-> Origin(t), tags |-> t.info.tags \cap Copied, retry |-> 0]]
  /\ Goes(t, "download")
  /\ UNCHANGED <<version, saved, queue, subscribed, error, number, events, news, newest,
                 excused, crossed>>
Downloaded(t) ==
  /\ t.step = "download"
  /\ <<t.at, t.from>> \in subscribed
  /\ LET new == [t.info EXCEPT !.tags = @ \cap Copied]
     IN /\ version' = [version EXCEPT ![t.at] = new]
        /\ tasks' = (tasks \ {t}) \cup
                      {[t EXCEPT !.kind = "download", !.step = "save", !.info = new]}
  /\ news' = [news EXCEPT ![t.at] = @ + 1]
  /\ UNCHANGED <<saved, queue, storing, subscribed, error, number, events, newest, excused,
                 crossed>>
(* A download or a save that fails is reported as an error of the host. *)
Fails(t) ==
  /\ tasks' = Raised(tasks \ {t}, {<<t.at, t.from>>}) /\ Releases(t)
  /\ error' = error \cup {<<t.at, t.from>>}
  /\ UNCHANGED <<version, saved, subscribed, number, news, newest, excused, crossed>>
SyncFails(t) ==
  t.kind \in {"sync", "download"} /\ t.step \in {"download", "save"} /\ Count /\ Fails(t)
NotConnected(t) ==
  t.step = "download" /\ <<t.at, t.from>> \notin subscribed /\ Fails(t) /\ UNCHANGED events

-----------------------------------------------------------------------------
(* fp_SyncOnVersionManagerAdded, and fp_UpdateSubscriptionsForChangedPermissions: the
   versions are sent, as they are when the permissions have been checked. *)
Initial(l, s) ==
  /\ Count
  /\ number' = number + 1
  /\ tasks' = tasks \cup {Task(<<number'>>, s, l, "initial", "check", Unknown, 0)}
  /\ crossed' = (crossed \/ tasks # {})
  /\ UNCHANGED <<version, saved, queue, storing, error, news, newest, excused>>
Connect(l, s) ==
  /\ <<l, s>> \in Syncs \ subscribed /\ subscribed' = subscribed \cup {<<l, s>>}
  /\ Initial(l, s)
PermissionsChange(l, s) ==
  <<l, s>> \in subscribed /\ Initial(l, s) /\ UNCHANGED subscribed
SendInitial(t) ==
  /\ t.step = "check"
  /\ tasks' = (tasks \ {t}) \cup {Waits(t)} \cup
       {Call(t, l, version[t.at], "yes") : l \in {t.from} \cap Subscribers(t.at)}
  /\ UNCHANGED <<version, saved, queue, storing, subscribed, error, number, events, news,
                 newest, excused, crossed>>

(* fp_SyncOnVersionManagerRemoved. Calls on their way are lost, and nobody waits for
   what they have started. *)
Lost(ps) ==
  {[t EXCEPT !.waited = @ /\ <<t.at, t.from>> \notin ps] :
     t \in Raised({u \in tasks : ~(u.step = "called" /\ <<u.at, u.from>> \in ps)}, ps)}
Disconnect(l, s) ==
  /\ <<l, s>> \in subscribed /\ Count
  /\ subscribed' = subscribed \ {<<l, s>>}
  /\ error' = error \cup {<<l, s>>}
  /\ tasks' = Lost({<<l, s>>})
  /\ UNCHANGED <<version, saved, queue, storing, number, news, newest, excused, crossed>>
Restart(m) ==
  /\ Count
  /\ LET p == {q \in Syncs : m \in {q[1], q[2]}}
     IN /\ subscribed' = subscribed \ p
        /\ error' = error \cup p
        /\ tasks' = {t \in Lost(p) : t.at # m}
  /\ version' = [version EXCEPT ![m] = saved[m]]
  /\ news' = [news EXCEPT ![m] = @ + 1]
  /\ queue' = [queue EXCEPT ![m] = <<>>] /\ storing' = [storing EXCEPT ![m] = Nothing]
  /\ UNCHANGED <<saved, number, newest, excused, crossed>>

Progress ==
  \E t \in tasks :
    \/ Saves(t) \/ Tell(t) \/ Return(t) \/ SendInitial(t)
    \/ ReturnsAtOnce(t) \/ Enqueue(t) \/ NothingNew(t)
    \/ UpdateLocalTags(t) \/ StartDownload(t) \/ Downloaded(t) \/ NotConnected(t)
Next ==
  \/ Progress
  \/ \E m \in Manager : Upload(m) \/ ChangeTags(m) \/ Restart(m)
  \/ \E p \in Syncs :
       Connect(p[1], p[2]) \/ PermissionsChange(p[1], p[2]) \/ Disconnect(p[1], p[2])
  \/ \E t \in tasks : SyncFails(t)

Spec == Init /\ [][Next]_vars
FairSpec == Spec /\ WF_vars(Progress)
-----------------------------------------------------------------------------
Versions == [exists : BOOLEAN, tags : SUBSET Tag, retry : 0..MaxEvents]
TypeOK ==
  /\ version \in [Manager -> Versions] /\ saved \in [Manager -> Versions]
  /\ \A t \in tasks : t.at \in Manager /\ t.from \in Manager /\ t.info \in Versions
  /\ \A m \in Manager : ToSet(queue[m]) \subseteq {t.id : t \in {u \in tasks : u.at = m}}
  /\ storing \in [Manager -> [origin : 0..MaxEvents, tags : SUBSET Tag, retry : 0..MaxEvents]]
  /\ subscribed \subseteq Syncs /\ error \subseteq Syncs

(* A synchronisation that reports no error has what its source has: when nothing is under
   way the version is there, with the tags that are copied and no older retry sequence.
   Left out are the pairs that were told of changes in another order, as each waits for
   a permission check of its own, where a notification with what the manager had already
   came while an older one was still queued, and where a full list cleared the error of
   something that failed after it was sent. *)
StatusIsTrue ==
  tasks = {} =>
    \A p \in Syncs : {p, <<p[2], p[1]>>} \cap (error \cup excused) = {} =>
      LET local == version[p[1]]
          source == version[p[2]]
      IN source.exists =>
           /\ local.exists /\ local.tags \cap Copied = source.tags \cap Copied
           /\ local.retry >= source.retry

(* A change comes to an end, also between managers that synchronise from each other:
   its origin is recognised, nobody keeps the sequencer of a version, and whoever waits
   for a host that is gone goes on. Not so when two changes or full lists are under way at
   once: each may hold its manager's sequencer and wait for the other's. *)
SyncsEnd == []<>(tasks = {} \/ crossed)
=============================================================================
