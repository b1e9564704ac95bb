----------------------------- MODULE DebugUploads -----------------------------
(* Uploads to the DebugManager of crash dumps and of assets, from the client's helper to
   the debug database, and the log entry about each new crash dump, which waits until
   nothing has been added to the dump for five minutes. *)
EXTENDS Naturals, FiniteSets, FiniteSetsExt

CONSTANTS Upload,     \* uploads, each of which happens once
          Dump,       \* identifiers of crash dumps
          Asset,      \* stands for the assets, about which there are no log entries
          File,       \* numbers of the files an upload may have, as they sort
          Wants,      \* Wants[u]: dumps or assets, with files, that upload u may be of
          MaxEvents   \* bound: aborts, failures, stops and crashes

VARIABLES client,     \* upload -> what the client knows of it
          task,       \* upload -> the DebugManager's coroutine: where it is and its files left
          uploads,    \* mp_Uploads
          finished,   \* upload -> pFinishedPromise: "none", "ok" or "failed"
          database,   \* the debug database: files of dumps and assets
          pending,    \* mp_PendingNotifications: dump -> its files
          young,      \* dumps to which a file was added in the last five minutes
          timer,      \* mp_PendingNotificationsTimeout is there
          reports,    \* log entries under way to the reporter
          logged,     \* file -> how often it has been logged
          app,        \* "runs", "stopping" or "flushed"
          spent,      \* how many of MaxEvents have happened
          forgone     \* files whose log entry failed, came too late or went with the process

vars == <<client, task, uploads, finished, database, pending, young, timer, reports, logged,
          app, spent, forgone>>

Stored == (Dump \union {Asset}) \X File
NoTask == [stage |-> "none", ok |-> FALSE, of |-> Asset, files |-> {}, left |-> {}]
Stages == {"none", "asked", "receiving", "received", "adding", "added", "registering", "done"}
Report == [files : SUBSET Stored, forced : BOOLEAN]

TypeOK ==
  /\ client \in [Upload -> {"none", "sending", "ok", "failed"}]
  /\ task \in [Upload -> [stage : Stages, ok : BOOLEAN, of : Dump \union {Asset},
                          files : SUBSET File, left : SUBSET File]]
  /\ uploads \subseteq Upload
  /\ finished \in [Upload -> {"none", "ok", "failed"}]
  /\ database \subseteq Stored
  /\ pending \in [Dump -> SUBSET File] /\ young \subseteq Dump /\ timer \in BOOLEAN
  /\ reports \subseteq Report
  /\ logged \in [Stored -> 0..3]
  /\ app \in {"runs", "stopping", "flushed"} /\ spent \in 0..MaxEvents
  /\ forgone \subseteq Stored

Init ==
  /\ client = [u \in Upload |-> "none"]
  /\ task = [u \in Upload |-> NoTask]
  /\ uploads = {}
  /\ finished = [u \in Upload |-> "none"]
  /\ database = {}
  /\ pending = [d \in Dump |-> {}] /\ young = {} /\ timer = FALSE
  /\ reports = {} /\ logged = [f \in Stored |-> 0]
  /\ app = "runs" /\ spent = 0 /\ forgone = {}

Event == /\ spent < MaxEvents
         /\ spent' = spent + 1

NotifyVars == <<pending, young, timer, reports, logged>>
At(u, stage) == task[u].stage = stage
Moves(u, stage) == task' = [task EXCEPT ![u].stage = stage]

-----------------------------------------------------------------------------
(* The client: CDebugManagerHelper *)

Ask(u, of, files) ==
  /\ client[u] = "none"
  /\ client' = [client EXCEPT ![u] = "sending"]
  /\ task' = [task EXCEPT ![u] = [stage |-> "asked", ok |-> FALSE, of |-> of,
                                      files |-> files, left |-> files]]
  /\ UNCHANGED <<uploads, finished, database, NotifyVars, app, spent, forgone>>

(* The files are sent and f_Finish has an answer. *)
ClientFinishes(u) ==
  /\ client[u] = "sending" /\ finished[u] # "none"
  /\ client' = [client EXCEPT ![u] = finished[u]]
  /\ UNCHANGED <<task, uploads, finished, database, NotifyVars, app, spent, forgone>>

(* The helper is told to abort, its request times out or the connection breaks: the
   functor m_fFinish is destroyed, and with it the upload if it is still there. *)
ClientAborts(u) ==
  /\ Event
  /\ client[u] = "sending"
  /\ client' = [client EXCEPT ![u] = "failed"]
  /\ uploads' = uploads \ {u}
  /\ UNCHANGED <<task, finished, database, NotifyVars, app, forgone>>

-----------------------------------------------------------------------------
(* The DebugManager: f_CrashDump_Upload and f_Asset_Upload *)

Start(u) ==
  /\ At(u, "asked")
  /\ Moves(u, "receiving")
  /\ uploads' = uploads \union {u}
  /\ UNCHANGED <<client, finished, database, NotifyVars, app, spent, forgone>>

(* The transfer ends.  It fails once the receiver is destroyed or the client has gone. *)
ReceiveEnds(u) ==
  /\ At(u, "receiving")
  /\ u \in uploads /\ client[u] = "sending"
  /\ task' = [task EXCEPT ![u].stage = "received", ![u].ok = TRUE]
  /\ UNCHANGED <<client, uploads, finished, database, NotifyVars, app, spent, forgone>>

ReceiveFails(u) ==
  /\ At(u, "receiving")
  /\ \/ (u \notin uploads \/ client[u] = "failed") /\ UNCHANGED spent
     \/ Event
  /\ Moves(u, "received")
  /\ UNCHANGED <<client, uploads, finished, database, NotifyVars, app, forgone>>

MistakeReceived(u) ==
  /\ At(u, "received")
  /\ uploads' = uploads \ {u}
  /\ IF u \in uploads /\ task[u].ok
     THEN /\ Moves(u, "adding")
          /\ finished' = [finished EXCEPT ![u] = "ok"]
     ELSE /\ Moves(u, "done")
          /\ finished' = [finished EXCEPT ![u] = "failed"]
  /\ UNCHANGED <<client, database, NotifyVars, app, spent, forgone>>

(* The coroutine goes on after the transfer: from here the upload can no longer be
   aborted. *)
Received(u) ==
  /\ At(u, "received")
  /\ uploads' = uploads \ {u}
  /\ IF u \in uploads /\ task[u].ok
     THEN /\ Moves(u, "adding")
          /\ UNCHANGED finished
     ELSE /\ Moves(u, "done")
          /\ finished' = [finished EXCEPT ![u] = "failed"]
  /\ UNCHANGED <<client, database, NotifyVars, app, spent, forgone>>

NextFile(u) == Min(task[u].left)
Has(u) == <<task[u].of, NextFile(u)>>

MistakeAddCrashDump(u) ==
  /\ At(u, "adding") /\ task[u].left # {} /\ task[u].of # Asset
  /\ database' = database \union {Has(u)}
  /\ Moves(u, "added")
  /\ UNCHANGED <<client, uploads, finished, NotifyVars, app, spent, forgone>>

(* The next file is added to the database, which says whether it is new. *)
AddCrashDump(u) ==
  /\ At(u, "adding") /\ task[u].left # {} /\ task[u].of # Asset
  /\ database' = database \union {Has(u)}
  /\ IF Has(u) \in database
     THEN task' = [task EXCEPT ![u].left = @ \ {NextFile(u)}]
     ELSE Moves(u, "added")
  /\ UNCHANGED <<client, uploads, finished, NotifyVars, app, spent, forgone>>

AddAsset(u) ==
  /\ At(u, "adding") /\ task[u].left # {} /\ task[u].of = Asset
  /\ database' = database \union {Has(u)}
  /\ task' = [task EXCEPT ![u].left = @ \ {NextFile(u)}]
  /\ UNCHANGED <<client, uploads, finished, NotifyVars, app, spent, forgone>>

(* The files cannot be listed or added; those before stay. *)
AddFails(u) ==
  /\ Event
  /\ At(u, "adding")
  /\ Moves(u, "done")
  /\ finished' = [finished EXCEPT ![u] = "failed"]
  /\ UNCHANGED <<client, uploads, database, NotifyVars, app, forgone>>

AllAdded(u) ==
  /\ At(u, "adding") /\ task[u].left = {}
  /\ Moves(u, "done")
  /\ finished' = [finished EXCEPT ![u] = "ok"]
  /\ UNCHANGED <<client, uploads, database, NotifyVars, app, spent, forgone>>

-----------------------------------------------------------------------------
(* Notifications *)

(* fp_Notify_CrashDumpAdded; the timer is registered when there is none, and more than
   one coroutine may be doing that.  After the last pass nobody comes for the file. *)
CrashDumpAdded(u) ==
  /\ At(u, "added")
  /\ pending' = [pending EXCEPT ![task[u].of] = @ \union {NextFile(u)}]
  /\ young' = young \union {task[u].of}
  /\ task' = [task EXCEPT ![u].stage = IF timer THEN "adding" ELSE "registering",
                          ![u].left = @ \ {NextFile(u)}]
  /\ forgone' = IF app = "flushed" THEN forgone \union {Has(u)} ELSE forgone
  /\ UNCHANGED <<client, uploads, finished, database, timer, reports, logged, app, spent>>

TimerRegistered(u) ==
  /\ At(u, "registering")
  /\ Moves(u, "adding")
  /\ timer' = TRUE
  /\ UNCHANGED <<client, uploads, finished, database, pending, young, reports, logged, app,
                 spent, forgone>>

FiveMinutes(d) ==
  /\ d \in young
  /\ young' = young \ {d}
  /\ UNCHANGED <<client, task, uploads, finished, database, pending, timer, reports, logged,
                 app, spent, forgone>>

MistakeProcess(force) ==
  LET due == {d \in Dump : pending[d] # {} /\ (force \/ d \notin young)}
      files == UNION {{<<d, f>> : f \in pending[d]} : d \in due}
  IN
  /\ pending' = [d \in Dump |-> IF d \in due THEN {} ELSE pending[d]]
  /\ timer' = (timer /\ due = {})
  /\ reports' = IF due = {} THEN reports ELSE reports \union {[files |-> files, forced |-> force]}

(* fp_Notify_Process: what is due is taken out before it is reported, and the timer goes
   with the last of it. *)
Process(force) ==
  LET due == {d \in Dump : pending[d] # {} /\ (force \/ d \notin young)}
      files == UNION {{<<d, f>> : f \in pending[d]} : d \in due}
  IN
  /\ pending' = [d \in Dump |-> IF d \in due THEN {} ELSE pending[d]]
  /\ timer' = (timer /\ \E d \in Dump : pending'[d] # {})
  /\ reports' = IF due = {} THEN reports ELSE reports \union {[files |-> files, forced |-> force]}

EveryMinute ==
  /\ timer
  /\ Process(FALSE)
  /\ UNCHANGED <<client, task, uploads, finished, database, young, logged, app, spent, forgone>>

Reported(r) ==
  /\ reports' = reports \ {r}
  /\ logged' = [f \in Stored |-> IF f \in r.files THEN logged[f] + 1 ELSE logged[f]]
  /\ UNCHANGED <<client, task, uploads, finished, database, pending, young, timer, app, spent, forgone>>

(* The reporter cannot be opened or fails: the entries are gone. *)
ReportFails(r) ==
  /\ Event
  /\ reports' = reports \ {r}
  /\ forgone' = forgone \union r.files
  /\ UNCHANGED <<client, task, uploads, finished, database, pending, young, timer, logged, app>>

-----------------------------------------------------------------------------
(* The application stops: fp_DestroyAll aborts the uploads, *)
Stop ==
  /\ Event
  /\ app = "runs"
  /\ app' = "stopping"
  /\ timer' = FALSE
  /\ uploads' = {}
  /\ UNCHANGED <<client, task, finished, database, pending, young, reports, logged, forgone>>

(* then reports everything that is pending, *)
Flush ==
  /\ app = "stopping"
  /\ app' = "flushed"
  /\ Process(TRUE)
  /\ UNCHANGED <<client, task, uploads, finished, database, young, logged, spent, forgone>>

(* The process has ended and starts again: only the database is left, and the log. *)
Restarts(lost) ==
  /\ client' = [u \in Upload |-> IF client[u] = "sending" THEN "failed" ELSE client[u]]
  /\ task' = [u \in Upload |-> IF At(u, "none") THEN NoTask
                            ELSE [task[u] EXCEPT !.stage = "done"]]
  /\ uploads' = {}
  /\ pending' = [d \in Dump |-> {}] /\ young' = {} /\ timer' = FALSE /\ reports' = {}
  /\ app' = "runs"
  /\ forgone' = forgone \union lost
  /\ UNCHANGED <<finished, database, logged>>

(* and waits for that report.  Files of coroutines that were not through are not logged. *)
Exit ==
  /\ app = "flushed"
  /\ \A r \in reports : ~r.forced
  /\ Restarts({Has(u) : u \in {v \in Upload : At(v, "added")}} \union UNION {r.files : r \in reports})
  /\ UNCHANGED spent

Crash ==
  /\ Event
  /\ Restarts({f \in database : logged[f] = 0})

Next ==
  \/ \E u \in Upload :
       \/ \E w \in Wants[u] : Ask(u, w[1], w[2])
       \/ ClientFinishes(u) \/ ClientAborts(u)
       \/ Start(u) \/ ReceiveEnds(u) \/ ReceiveFails(u) \/ Received(u)
       \/ AddCrashDump(u) \/ AddAsset(u) \/ AddFails(u) \/ AllAdded(u)
       \/ CrashDumpAdded(u) \/ TimerRegistered(u)
  \/ \E d \in Dump : FiveMinutes(d)
  \/ \E r \in reports : Reported(r) \/ ReportFails(r)
  \/ EveryMinute \/ Stop \/ Flush \/ Exit \/ Crash

Spec == Init /\ [][Next]_vars

-----------------------------------------------------------------------------
(* A file of a crash dump that is in the database has been logged, or somebody is going to
   log it: the upload that has just added it, a timer that comes for what is pending, the
   last pass of an application that stops, or a report under way. *)
EveryDumpIsLogged ==
  \A f \in database \ forgone : f[1] # Asset =>
    \/ logged[f] > 0
    \/ \E u \in Upload : At(u, "added") /\ Has(u) = f
    \/ \E r \in reports : f \in r.files
    \/ /\ f[2] \in pending[f[1]]
       /\ app = "stopping" \/ timer \/ \E u \in Upload : At(u, "registering")

(* No file is logged twice, however often it is uploaded. *)
LoggedOnce == \A f \in Stored : logged[f] <= 1

(* The client is told that an upload succeeded only when the database has all of it. *)
SuccessIsTrue ==
  \A u \in Upload : client[u] = "ok" => {task[u].of} \X task[u].files \subseteq database
=============================================================================
