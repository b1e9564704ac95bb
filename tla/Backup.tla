------------------------------- MODULE Backup -------------------------------
(***************************************************************************)
(* A backup client that keeps a backup manager's copy of a directory up to *)
(* date: notifications of changes, the manifest, the files that are sent,  *)
(* the first commit of a session and the commits after it. Contents are    *)
(* numbers, which stand for a digest with the time of the write.           *)
(***************************************************************************)
EXTENDS Integers, Sequences, FiniteSets, SequencesExt

CONSTANTS
  File,        \* numbers from 1
  MaxEvents    \* bounds what users do to the directory, lost connections and restarts

VARIABLES
  source,      \* the directory: the content of each file, 0 when there is none
  events,      \* notifications of the operating system
  retries,     \* files whose content did not match (fp_HashMismatch)
  manifest,    \* m_Manifest of the client
  scan,        \* the notification f_OnFileChanged works on
  session,     \* CBackupManagerClient_Instance
  theirs,      \* m_Manifest of the server's instance
  served,      \* its m_bInitialBackupFinished
  sync,        \* its files: a content, 0 for none, -g for a hard link to Latest/g
  latest,      \* Latest
  saved,       \* mp_CurrentManifest, which is saved to Manifest.bin
  spent,       \* how many of these events there were
  astray,      \* files of a commit that did not find its file in Sync
  forgotten    \* files that stay in mp_InitialBackupPending though nothing is done for them

vars == <<source, events, retries, manifest, scan, session, theirs, served, sync, latest, saved,
          spent, astray, forgotten>>
client == <<events, retries, manifest, scan>>
server == <<theirs, served, sync, latest, saved>>
ghosts == <<astray, forgotten>>

Nothing == [f \in File |-> 0]
Torn == MaxEvents + 2   \* a file that is partly written
NoDigest == MaxEvents + 3   \* an entry of a manifest with the digest of nothing
(* An entry with the digest of an earlier content and the time of another: what it is, and
   what it says of the content *)
Outdated(digest) == NoDigest + (digest % NoDigest)
Digest(entry) == IF entry > NoDigest THEN entry - NoDigest ELSE entry
Idle == [kind |-> "none", f |-> 0, from |-> 0, was |-> 0]
NoSession == [stage |-> "none", backed |-> Nothing, buffered |-> <<>>, ops |-> <<>>,
              pending |-> {}, added |-> {}, active |-> FALSE, finished |-> FALSE,
              committed |-> FALSE, quiescent |-> FALSE]
Spend == spent < MaxEvents /\ spent' = spent + 1

Init ==
  /\ source = [f \in File |-> IF f = 1 THEN 1 ELSE 0]
  /\ manifest = source /\ latest \in {Nothing, source} /\ saved = latest
  /\ events = <<>> /\ retries = {} /\ scan = Idle
  /\ session = NoSession /\ theirs = Nothing /\ served = FALSE /\ sync = Nothing
  /\ spent = 0 /\ astray = {} /\ forgotten = {}

-----------------------------------------------------------------------------
(* What users do, and what the operating system tells of it. *)
Change(now, event) ==
  /\ Spend
  /\ source' = now /\ events' = Append(events, event)
  /\ UNCHANGED <<retries, manifest, scan, session, server, ghosts>>
Modified(f) == [Idle EXCEPT !.kind = "modified", !.f = f]
Write(f) == Change([source EXCEPT ![f] = spent + 2], Modified(f))
Delete(f) == source[f] # 0 /\ Change([source EXCEPT ![f] = 0], Modified(f))
Move(f, g) ==
  /\ f # g /\ source[f] # 0
  /\ Change([source EXCEPT ![g] = source[f], ![f] = 0],
            [kind |-> "renamed", f |-> g, from |-> f, was |-> 0])

-----------------------------------------------------------------------------
(* The operations of a session, in the order of their locks: "set", "remove" and
   "rename" change the manifest, "upload" sends a file. *)
Op(kind, f, from, content) ==
  [kind |-> kind, f |-> f, from |-> from, content |-> content, step |-> "queued", read |-> 0]
FilesOf(o) == {o.f, o.from}
(* fp_SequenceMultipleSyncs: an operation waits for the earlier ones on its files. *)
IsFirst(i, k) == \A j \in 1..(k - 1) : FilesOf(i.ops[j]) \cap FilesOf(i.ops[k]) \cap File = {}
Done(i, k) == [i EXCEPT !.ops = RemoveAt(@, k)]

(* mp_nPendingManifestChanges and mp_PendingFiles *)
IsChange(o) == o.kind # "upload"
PendingChanges(i) == \E o \in ToSet(i.ops) : IsChange(o)
PendingFiles(i) == \E o \in ToSet(i.ops) : ~IsChange(o) /\ o.step # "queued"

CheckQuiescent(i) ==
  LET quiet == ~i.active /\ ~PendingChanges(i) /\ i.pending = {} /\ ~PendingFiles(i)
               /\ i.stage = "started" /\ i.committed
  IN [i EXCEPT !.quiescent = @ \/ quiet]
CheckInitialBackupFinished(i) ==
  LET done == ~i.active /\ ~PendingChanges(i) /\ i.pending = {} /\ i.stage = "started"
  IN [i EXCEPT !.finished = @ \/ done]
NewPendingFile(i, f) ==
  LET new == ~i.finished /\ f \notin i.added
  IN [i EXCEPT !.quiescent = FALSE, !.added = IF new THEN @ \cup {f} ELSE @,
               !.pending = IF new THEN @ \cup {f} ELSE @]
(* Mistake: a finished file stays pending. *)
MistakeFileFinished(i, f) == CheckQuiescent(i)
FileFinished(i, f) ==
  LET q == CheckQuiescent(i)
  IN IF f \in q.pending THEN CheckInitialBackupFinished([q EXCEPT !.pending = @ \ {f}]) ELSE q
(* The clean up of fp_ProcessManifestChange *)
ChangeDone(i) ==
  IF PendingChanges(i) THEN i ELSE CheckInitialBackupFinished(CheckQuiescent(i))
(* fp_ProcessManifestChange, up to its locks *)
ProcessManifestChange(i, o) == [i EXCEPT !.ops = Append(@, o), !.quiescent = FALSE]
(* f_ManifestChanged *)
ManifestChanged(i, o) ==
  CASE i.stage = "none" -> i
    [] i.stage = "sync" -> [i EXCEPT !.buffered = Append(@, o)]
    [] OTHER -> ProcessManifestChange(i, o)
(* f_MarkActive when the client is done *)
MarkInactive(i) ==
  IF i.active THEN CheckQuiescent(CheckInitialBackupFinished([i EXCEPT !.active = FALSE])) ELSE i

-----------------------------------------------------------------------------
(* f_OnFileChanged: f_UpdateManifest reads a file and puts what it is into the manifest. *)
StartScan(n) ==
  /\ scan = Idle
  /\ scan' = [n EXCEPT !.was = manifest[n.f]]
  /\ manifest' = [manifest EXCEPT ![n.f] = source[n.f]]
  /\ session' = [session EXCEPT !.active = session.stage # "none"]
  /\ UNCHANGED <<source, server, spent, ghosts>>
OnFileChanged ==
  /\ events # <<>> /\ events' = Tail(events) /\ UNCHANGED retries
  /\ StartScan(Head(events))
HashMismatch(f) ==
  /\ f \in retries /\ retries' = retries \ {f} /\ UNCHANGED events
  /\ StartScan(Modified(f))

(* What is sent of a file that was one thing in the manifest and is another now *)
Updates(f, was, now) ==
  IF now # 0 THEN <<Op("set", f, 0, now)>>
  ELSE IF was # 0 THEN <<Op("remove", f, 0, 0)>> ELSE <<>>
SendChanges ==
  LET to == scan.f
      from == scan.from
      renamed == scan.kind = "renamed"
      now == IF renamed THEN source[from] ELSE 0
      send == CASE ~renamed -> Updates(to, scan.was, manifest[to])
                [] renamed /\ now = 0 /\ manifest[from] # 0 /\ scan.was = 0 /\ manifest[to] # 0 ->
                     <<Op("rename", to, from, manifest[to])>>
                [] OTHER -> Updates(from, manifest[from], now)
                              \o Updates(to, scan.was, manifest[to])
  IN /\ scan # Idle /\ scan' = Idle
     /\ manifest' = IF renamed THEN [manifest EXCEPT ![from] = now] ELSE manifest
     /\ session' = MarkInactive(FoldLeft(ManifestChanged, session, send))
     /\ UNCHANGED <<source, events, retries, server, spent, ghosts>>

-----------------------------------------------------------------------------
(* A backup manager is found: f_InitBackup, and the manifest is sent. *)
Connect ==
  /\ session.stage = "none"
  /\ session' = [NoSession EXCEPT !.stage = "sync", !.backed = manifest]
  /\ theirs' = manifest /\ served' = FALSE
  /\ astray' = {} /\ forgotten' = {}
  /\ UNCHANGED <<source, client, sync, latest, saved, spent>>

Content(file) == IF file < 0 THEN latest[-file] ELSE file
(* y, when other files take the places of gs in Latest *)
Unlinked(y, gs) == [f \in File |-> IF -y[f] \in gs THEN latest[-y[f]] ELSE y[f]]
(* f_StartBackup: files that are in Latest as they should be are linked, and the others
   are sent. *)
Linked(f) == IF sync[f] = 0 /\ theirs[f] # 0 /\ latest[f] = theirs[f] THEN -f ELSE sync[f]
NotUpToDate == {f \in File : theirs[f] # 0 /\ Content(Linked(f)) # theirs[f]}
StartBackup ==
  /\ session.stage = "sync"
  /\ sync' = [f \in File |-> Linked(f)]
  /\ LET old(f) == IF sync[f] = 0 THEN latest[f] ELSE Content(sync[f])
         send(i, f) == [NewPendingFile(i, f) EXCEPT
                          !.ops = Append(@, Op("upload", f, 0, i.backed[f])),
                          !.backed[f] = Outdated(old(f))]
         sent == FoldLeft(send, session, SetToSeq(NotUpToDate))
         z == FoldLeft(ProcessManifestChange, [sent EXCEPT !.buffered = <<>>], session.buffered)
     IN session' = CheckQuiescent(CheckInitialBackupFinished([z EXCEPT !.stage = "started"]))
  /\ UNCHANGED <<source, client, theirs, served, latest, saved, spent, ghosts>>

-----------------------------------------------------------------------------
(* fSyncFile: the operation goes on as an upload. *)
SyncFile(i, k, content) ==
  LET o == i.ops[k]
  IN ChangeDone(NewPendingFile(
       [i EXCEPT !.ops[k] = [o EXCEPT !.kind = "upload", !.step = "begin", !.content = content,
                                      !.from = 0]], o.f))
Ignored(i, k) == ChangeDone(Done(i, k))
Queued(k, kind) ==
  /\ session.stage = "started" /\ IsFirst(session, k)
  /\ session.ops[k].step = "queued" /\ session.ops[k].kind = kind

Set(i, k) ==
  LET o == i.ops[k]
  IN IF i.backed[o.f] = o.content THEN Ignored(i, k) ELSE SyncFile(i, k, o.content)
RunSet(k) ==
  /\ Queued(k, "set")
  /\ session' = Set(session, k)
  /\ UNCHANGED <<source, client, server, spent, ghosts>>

(* What f_Commit of CBackupSource asks of a file that is replaced, renamed or deleted; a
   session is known there after its first commit. *)
CanCommit(f) == session.committed /\ saved[f] # 0 /\ latest[f] # 0
(* f_ManifestChange of the server *)
RunRemove(k) ==
  /\ Queued(k, "remove")
  /\ LET f == session.ops[k].f
         known == session.backed[f] # 0
         removed == known /\ theirs[f] # 0 /\ (served => CanCommit(f))
         i == NewPendingFile(session, f)
     IN /\ theirs' = IF known THEN [theirs EXCEPT ![f] = 0] ELSE theirs
        /\ sync' = IF known /\ theirs[f] # 0
                    THEN [Unlinked(sync, IF removed /\ served THEN {f} ELSE {}) EXCEPT ![f] = 0]
                    ELSE sync
        /\ latest' = IF removed /\ served THEN [latest EXCEPT ![f] = 0] ELSE latest
        /\ saved' = IF removed /\ served THEN [saved EXCEPT ![f] = 0] ELSE saved
        /\ session' = CASE ~known -> Ignored(session, k)
                        [] known /\ ~removed -> Ignored(i, k)
                        [] OTHER -> Ignored([FileFinished(i, f) EXCEPT !.backed[f] = 0], k)
        /\ forgotten' = IF known THEN forgotten \ {f} ELSE forgotten \cup (session.pending \cap {f})
  /\ UNCHANGED <<source, client, served, spent, astray>>

RunRename(k) ==
  /\ Queued(k, "rename")
  /\ LET o == session.ops[k]
         f == o.from
         g == o.f
         known == session.backed[f] # 0
         there == known /\ theirs[f] # 0
         moved == IF sync[f] = 0 THEN sync[g] ELSE sync[f]
         renamed == there /\ (served => CanCommit(f) /\ moved # 0)
         digest == Digest(session.backed[f])
         same == digest = o.content
         i == NewPendingFile(session, g)
         ok == [FileFinished(i, f) EXCEPT !.backed[f] = 0,
                                      !.backed[g] = IF same THEN digest ELSE Outdated(digest)]
         keep == served /\ renamed
     IN /\ theirs' = IF there THEN [theirs EXCEPT ![g] = digest, ![f] = 0] ELSE theirs
        /\ sync' = IF ~there THEN sync
                   ELSE [Unlinked(sync, IF keep THEN {f, g} ELSE {}) EXCEPT
                           ![g] = IF keep THEN 0 ELSE moved, ![f] = 0]
        /\ latest' = IF keep THEN [latest EXCEPT ![g] = Content(moved), ![f] = 0]
                     ELSE latest
        /\ saved' = IF keep THEN [saved EXCEPT ![g] = digest, ![f] = 0] ELSE saved
        /\ session' = CASE ~known -> Set(session, k)
                        [] known /\ ~renamed -> Ignored(i, k)
                        [] renamed /\ same -> Ignored(ok, k)
                        [] OTHER -> SyncFile(ok, k, o.content)
        /\ astray' = IF there /\ served /\ CanCommit(f) /\ sync[f] = 0 THEN astray \cup {f, g} ELSE astray
        /\ forgotten' = CASE ~known -> forgotten \cup (session.pending \cap {f})
                          [] renamed /\ same -> (forgotten \ {f}) \cup (ok.pending \cap {g})
                          [] OTHER -> forgotten \ {f}
  /\ UNCHANGED <<source, client, served, spent>>

-----------------------------------------------------------------------------
(* A file is written where it is: through a hard link, Latest is written too. *)
WriteSync(f, content) ==
  IF sync[f] < 0
  THEN latest' = [latest EXCEPT ![-sync[f]] = content] /\ UNCHANGED sync
  ELSE sync' = [sync EXCEPT ![f] = content] /\ UNCHANGED latest

(* fp_RSyncFile and f_StartRSync: when the file is gone there is another try. *)
OpenFails(k) ==
  /\ session.stage = "started" /\ IsFirst(session, k)
  /\ LET o == session.ops[k] IN
       /\ o.kind = "upload" /\ o.step \in {"queued", "begin"} /\ source[o.f] = 0
       /\ retries' = retries \cup {o.f}
  /\ session' = Done(session, k)
  /\ UNCHANGED <<source, events, manifest, scan, server, spent, ghosts>>
RSyncFile(k) ==
  /\ session.stage = "started" /\ IsFirst(session, k)
  /\ LET o == session.ops[k] IN
       /\ o.kind = "upload" /\ o.step \in {"queued", "begin"} /\ source[o.f] # 0
       /\ session' = [session EXCEPT !.ops[k].step = "send", !.ops[k].read = source[o.f]]
       /\ WriteSync(o.f, IF Content(sync[o.f]) = source[o.f] THEN source[o.f] ELSE Torn)
  /\ UNCHANGED <<source, client, theirs, served, saved, spent, ghosts>>

(* What can be received of a file that changes while it is read *)
Received(o) ==
  IF source[o.f] = o.read THEN {o.read} ELSE ({o.read, source[o.f], Torn} \ {0})
(* Mistake: what was received is not compared. *)
MistakeMatches(o, content) == TRUE
(* The server compares what it received with the manifest. *)
Matches(o, content) == content = o.content
Receive(k) ==
  /\ session.ops[k].step = "send"
  /\ LET o == session.ops[k] IN
     \E content \in Received(o) :
       /\ WriteSync(o.f, content)
       /\ IF Matches(o, content)
          THEN session' = [session EXCEPT !.ops[k].step = "commit"] /\ UNCHANGED retries
          ELSE session' = Done(session, k) /\ retries' = retries \cup {o.f}
  /\ UNCHANGED <<source, events, manifest, scan, theirs, served, saved, spent, ghosts>>

(* f_CommitFile and f_Commit. The client takes a file whose commit fails for finished. *)
CommitFile(k) ==
  /\ session.ops[k].step = "commit"
  /\ LET o == session.ops[k]
         f == o.f
         fits == IF theirs[f] # 0 THEN CanCommit(f)
                 ELSE session.committed /\ saved[f] = 0 /\ latest[f] = 0
         keep == served /\ fits /\ sync[f] # 0
         linked == sync[f] = -f
     IN /\ theirs' = [theirs EXCEPT ![f] = o.content]
        /\ saved' = IF keep THEN [saved EXCEPT ![f] = o.content] ELSE saved
        /\ latest' = IF keep THEN [latest EXCEPT ![f] = Content(sync[f])] ELSE latest
        /\ sync' = IF keep /\ ~linked THEN [Unlinked(sync, {f}) EXCEPT ![f] = 0] ELSE sync
        /\ astray' = IF served /\ fits /\ sync[f] = 0 THEN astray \cup {f} ELSE astray
        /\ session' = FileFinished([Done(session, k) EXCEPT !.backed[f] = o.content], f)
        /\ forgotten' = forgotten \ {f}
  /\ UNCHANGED <<source, client, served, spent>>

(* f_InitialBackupFinished waits for the files that are being written. *)
InitialBackupFinished ==
  /\ session.finished /\ ~served
  /\ \A o \in ToSet(session.ops) : o.step = "send" => theirs[o.f] = 0
(* f_InitialCommit moves what is in the manifest to Latest, file by file, and deletes the rest. A file
   that is not there fails it: the client is not told that the session is committed. *)
InitialCommit ==
  /\ InitialBackupFinished
  /\ served' = TRUE /\ saved' = theirs
  /\ LET there == {f \in File : theirs[f] # 0}
         missing == {f \in there : sync[f] = 0}
         moved == {f \in there : \A g \in missing : f < g}
         deleted == IF missing = {} THEN File \ there ELSE {}
         stay == {f \in moved : sync[f] = -f}
         y == Unlinked(sync, (moved \ stay) \cup deleted)
     IN /\ latest' = [f \in File |-> CASE f \in moved -> Content(sync[f])
                                      [] f \in deleted -> 0
                                      [] OTHER -> latest[f]]
        /\ sync' = [f \in File |-> IF f \in moved \ stay THEN 0 ELSE y[f]]
        /\ session' = IF missing = {} THEN CheckQuiescent([session EXCEPT !.committed = TRUE])
                      ELSE session
  /\ UNCHANGED <<source, client, theirs, spent, ghosts>>

-----------------------------------------------------------------------------
(* The connection is lost: a new session of the same client has the same Sync directory. *)
Disconnect ==
  /\ session.stage # "none" /\ Spend
  /\ session' = NoSession
  /\ UNCHANGED <<source, client, server, ghosts>>
(* f_RunBackup, with a new backup key *)
ClientRestarts ==
  /\ Spend
  /\ session' = NoSession /\ manifest' = source
  /\ events' = <<>> /\ retries' = {} /\ scan' = Idle
  /\ sync' = Nothing
  /\ UNCHANGED <<source, theirs, served, latest, saved, ghosts>>

Progress ==
  \/ OnFileChanged \/ SendChanges \/ Connect \/ StartBackup \/ InitialCommit
  \/ \E f \in File : HashMismatch(f)
  \/ \E k \in DOMAIN session.ops :
       RunSet(k) \/ RunRemove(k) \/ RunRename(k) \/ OpenFails(k) \/ RSyncFile(k) \/ Receive(k)
         \/ CommitFile(k)
Next ==
  \/ Progress \/ Disconnect \/ ClientRestarts
  \/ \E f \in File : Write(f) \/ Delete(f)
  \/ \E f, g \in File : Move(f, g)

Spec == Init /\ [][Next]_vars /\ WF_vars(Progress)
-----------------------------------------------------------------------------
TypeOK ==
  /\ source \in [File -> 0..(MaxEvents + 1)] /\ manifest \in [File -> 0..(MaxEvents + 1)]
  /\ retries \subseteq File /\ session.pending \subseteq session.added /\ session.added \subseteq File
  /\ latest \in [File -> 0..Torn] /\ saved \in [File -> 0..NoDigest]

(* When the client tells that nothing is left to do and no notification is on its way, the
   backup is the directory: Latest has its contents and the manifest says so. *)
BackupIsCurrent ==
  session.quiescent /\ events = <<>> /\ retries = {} /\ scan = Idle =>
    \A f \in File \ astray : latest[f] = source[f] /\ saved[f] = source[f]

(* The first commit has failed, or files it waits for are forgotten. *)
Stuck == (session.finished /\ served /\ ~session.committed) \/ forgotten # {}
Settled == session.quiescent \/ Stuck

(* The client gets there again and again. *)
BackupSettles == []<>Settled
=============================================================================
