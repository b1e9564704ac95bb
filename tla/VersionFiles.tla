--------------------------- MODULE VersionFiles ---------------------------
(* One version in a VersionManager: its files, the description beside them, its entry
   in the database, and the version that is listed and sent. Uploads write all four one
   after the other, changes of tags three of them; a refresh rebuilds entry and list
   from the disk, a restart the list from the entry. Up to eight uploads run at once.
   FileTransfer models how one directory is received. *)
EXTENDS Naturals, FiniteSets

CONSTANTS
  Upload,      \* uploads of the version
  File,        \* 1 .. n, the files of a version, in the order in which they are received
  MaxEvents    \* bounds tag changes, refreshes, restarts and failures together

NoInfo == <<>>          \* no description, entry or version
Adopted == 0            \* the upload of a version that has no description
Info == (Upload \cup {Adopted}) \X (0 .. MaxEvents)   \* which upload, how often tagged

VARIABLES
  files,       \* the upload each file is of, 0 when it is not there
  exists,      \* whether there is a directory
  json,        \* the description
  database,
  listed,      \* mp_Applications
  uploads,     \* f_UploadVersion and fFinishUpload: where each is
  received,    \* files an upload has received
  tagging,     \* f_ChangeTags: where it is, and what it saves
  refresh,     \* f_RefreshDatabaseFromDisk: where it is, and what it has found
  events,
  overwritten, \* an upload deleted the files of the listed version, or wrote beside another
  adopted,     \* a refresh has listed files that are not whole
  astray       \* saves of two changes crossed, failed, or were cut off, since a refresh

vars == <<files, exists, json, database, listed, uploads, received, tagging, refresh, events,
          overwritten, adopted, astray>>

UploadSteps == {"none", "held", "check", "receive", "received", "register", "store", "done"}

TypeOK ==
  /\ files \in [File -> Upload \cup {0}]
  /\ exists \in BOOLEAN
  /\ {json, database, listed} \subseteq Info \cup {NoInfo}
  /\ uploads \in [Upload -> [step : UploadSteps, force : BOOLEAN]]
  /\ received \in [Upload -> 0 .. Cardinality(File)]
  /\ tagging.step \in {"none", "json", "database"}
  /\ refresh.step \in {"none", "wait", "commit", "apply"}
  /\ events \in 0 .. MaxEvents
  /\ {overwritten, adopted, astray} \subseteq BOOLEAN

NoTagging == [step |-> "none", info |-> NoInfo]
NoRefresh == [step |-> "none", info |-> NoInfo]

Init ==
  /\ files = [f \in File |-> 0] /\ exists = FALSE
  /\ json = NoInfo /\ database = NoInfo /\ listed = NoInfo
  /\ uploads = [u \in Upload |-> [step |-> "none", force |-> FALSE]]
  /\ received = [u \in Upload |-> 0]
  /\ tagging = NoTagging /\ refresh = NoRefresh
  /\ events = 0
  /\ overwritten = FALSE /\ adopted = FALSE /\ astray = FALSE

-----------------------------------------------------------------------------
Step(u, step) == uploads' = [uploads EXCEPT ![u].step = step]

Happens == events < MaxEvents /\ events' = events + 1

Whole(u) == u \in Upload /\ \A f \in File : files[f] = u

(* Mistake: the subscription that counts an upload outlives it. *)
MistakeInProgress == {u \in Upload : uploads[u].step \notin {"none", "held"}}

(* mp_nInProgressUploads. *)
InProgress == {u \in Upload : uploads[u].step \notin {"none", "held", "done"}}

(* A tag change saves while an upload or a refresh does. *)
Crosses ==
  /\ tagging.step # "none"
  /\ \/ refresh.step \in {"commit", "apply"}
     \/ \E u \in Upload : uploads[u].step \in {"register", "store"}

-----------------------------------------------------------------------------
(* f_UploadVersion: an upload that comes during a refresh waits for it. *)
StartUpload(u, force) ==
  /\ uploads[u].step = "none"
  /\ uploads' = [uploads EXCEPT ![u] =
       [step |-> IF refresh.step = "none" THEN "check" ELSE "held", force |-> force]]
  /\ UNCHANGED <<files, exists, json, database, listed, received, tagging, refresh, events,
                 overwritten, adopted, astray>>

AfterRefresh(u) ==
  /\ uploads[u].step = "held" /\ refresh.step = "none"
  /\ Step(u, "check")
  /\ UNCHANGED <<files, exists, json, database, listed, received, tagging, refresh, events,
                 overwritten, adopted, astray>>

(* The receiver deletes the directory, or refuses one that is there. The description
   and the version that is listed stay. *)
CheckDirectory(u) ==
  LET force == uploads[u].force
      beside == \E v \in Upload \ {u} :
                   uploads[v].step \in {"receive", "received", "register"}
  IN /\ uploads[u].step = "check"
     /\ IF exists /\ ~force
          THEN /\ Step(u, "done")
               /\ UNCHANGED <<files, exists, overwritten>>
          ELSE /\ Step(u, "receive")
               /\ files' = [f \in File |-> 0]
               /\ exists' = FALSE
               /\ overwritten' = (overwritten \/ beside \/ listed # NoInfo)
     /\ UNCHANGED <<json, database, listed, received, tagging, refresh, events, adopted, astray>>

ReceiveFile(u) ==
  LET f == received[u] + 1
  IN /\ uploads[u].step = "receive" /\ f \in File
     /\ files' = [files EXCEPT ![f] = u]
     /\ exists' = TRUE
     /\ received' = [received EXCEPT ![u] = f]
     /\ Step(u, IF f + 1 \in File THEN "receive" ELSE "received")
     /\ UNCHANGED <<json, database, listed, tagging, refresh, events, overwritten, adopted, astray>>

(* The transfer breaks or is aborted, or the description cannot be written. What has
   been received stays. *)
FailUpload(u) ==
  /\ uploads[u].step \in {"check", "receive", "received"}
  /\ Happens
  /\ Step(u, "done")
  /\ UNCHANGED <<files, exists, json, database, listed, received, tagging, refresh, overwritten,
                 adopted, astray>>

(* Mistake: what has been received is described although the transfer broke. *)
MistakeReceivedAll(u) == uploads[u].step \in {"receive", "received"}
ReceivedAll(u) == uploads[u].step = "received"

(* fp_SaveVersionInfo of an upload. *)
SaveInfo(u) ==
  /\ ReceivedAll(u)
  /\ json' = <<u, 0>>
  /\ Step(u, "register")
  /\ astray' = (astray \/ tagging.step # "none"
                  \/ \E v \in Upload \ {u} : uploads[v].step \in {"register", "store"})
  /\ UNCHANGED <<files, exists, database, listed, received, tagging, refresh, events, overwritten,
                 adopted>>

(* The version is listed. Another upload may be writing into the directory by now. *)
Register(u) ==
  /\ uploads[u].step = "register"
  /\ listed' = <<u, 0>>
  /\ overwritten' = (\/ \E v \in Upload \ {u} : uploads[v].step \in {"receive", "received"}
                     \/ overwritten /\ ~Whole(u))
  /\ adopted' = FALSE
  /\ Step(u, "store")
  /\ UNCHANGED <<files, exists, json, database, received, tagging, refresh, events, astray>>

(* fp_SaveVersionToDatabase; an error is only logged. *)
Store(u) ==
  /\ uploads[u].step = "store"
  /\ Step(u, "done")
  /\ \/ /\ database' = <<u, 0>>
        /\ UNCHANGED <<events, astray>>
     \/ /\ Happens
        /\ astray' = TRUE
        /\ UNCHANGED database
  /\ UNCHANGED <<files, exists, json, listed, received, tagging, refresh, overwritten, adopted>>

-----------------------------------------------------------------------------
(* f_ChangeTags: the list first, then the description and the database. *)
ChangeTags ==
  LET info == <<listed[1], listed[2] + 1>>
  IN /\ tagging.step = "none" /\ listed # NoInfo
     /\ Happens
     /\ listed' = info
     /\ tagging' = [step |-> "json", info |-> info]
     /\ astray' = (astray \/ refresh.step \in {"commit", "apply"}
                     \/ \E u \in Upload : uploads[u].step \in {"register", "store"})
     /\ UNCHANGED <<files, exists, json, database, uploads, received, refresh, overwritten, adopted>>

SaveTagsInfo ==
  /\ tagging.step = "json"
  /\ json' = tagging.info
  /\ tagging' = [tagging EXCEPT !.step = "database"]
  /\ UNCHANGED <<files, exists, database, listed, uploads, received, refresh, events, overwritten,
                 adopted, astray>>

(* The write transaction of a refresh is waited for. *)
StoreTags ==
  /\ tagging.step = "database" /\ refresh.step # "commit"
  /\ database' = tagging.info
  /\ tagging' = NoTagging
  /\ UNCHANGED <<files, exists, json, listed, uploads, received, refresh, events, overwritten,
                 adopted, astray>>

FailTags ==
  /\ tagging.step # "none"
  /\ Happens
  /\ tagging' = NoTagging
  /\ astray' = TRUE
  /\ UNCHANGED <<files, exists, json, database, listed, uploads, received, refresh, overwritten,
                 adopted>>

-----------------------------------------------------------------------------
StartRefresh ==
  /\ refresh.step = "none"
  /\ Happens
  /\ refresh' = [NoRefresh EXCEPT !.step = "wait"]
  /\ UNCHANGED <<files, exists, json, database, listed, uploads, received, tagging, overwritten,
                 adopted, astray>>

(* Mistake: a refresh does not wait for uploads. *)
MistakeMayScan == refresh.step = "wait"
MayScan == refresh.step = "wait" /\ InProgress = {}

(* The disk is read: a directory is a version, with its description if there is one. *)
Scan ==
  LET info == IF ~exists THEN NoInfo ELSE IF json = NoInfo THEN <<Adopted, 0>> ELSE json
  IN /\ MayScan
     /\ refresh' = [step |-> "commit", info |-> info]
     /\ astray' = (astray \/ tagging.step # "none")
     /\ UNCHANGED <<files, exists, json, database, listed, uploads, received, tagging, events,
                    overwritten, adopted>>

CommitRefresh ==
  /\ refresh.step = "commit"
  /\ database' = refresh.info
  /\ refresh' = [refresh EXCEPT !.step = "apply"]
  /\ UNCHANGED <<files, exists, json, listed, uploads, received, tagging, events, overwritten,
                 adopted, astray>>

ApplyRefresh ==
  LET info == refresh.info
  IN /\ refresh.step = "apply"
     /\ listed' = info
     /\ refresh' = NoRefresh
     /\ adopted' = (info # NoInfo /\ ~Whole(info[1]))
     /\ astray' = (astray /\ (tagging.step # "none" \/ json # info \/ database # info))
     /\ UNCHANGED <<files, exists, json, database, uploads, received, tagging, events, overwritten>>

(* The list comes from the database, or from the disk when that has nothing. *)
Restart ==
  /\ Happens
  /\ listed' = database
  /\ uploads' = [u \in Upload |->
       IF uploads[u].step = "none" THEN uploads[u] ELSE [uploads[u] EXCEPT !.step = "done"]]
  /\ tagging' = NoTagging
  /\ refresh' = IF database = NoInfo THEN [NoRefresh EXCEPT !.step = "wait"] ELSE NoRefresh
  /\ astray' = (\/ astray \/ tagging.step # "none"
                \/ \E u \in Upload : uploads[u].step \in {"register", "store"}
                \/ refresh.step = "apply")
  /\ UNCHANGED <<files, exists, json, database, received, overwritten, adopted>>

Next ==
  \/ \E u \in Upload :
       \/ \E force \in BOOLEAN : StartUpload(u, force)
       \/ AfterRefresh(u) \/ CheckDirectory(u) \/ ReceiveFile(u) \/ FailUpload(u)
       \/ SaveInfo(u) \/ Register(u) \/ Store(u)
  \/ ChangeTags \/ SaveTagsInfo \/ StoreTags \/ FailTags
  \/ StartRefresh \/ Scan \/ CommitRefresh \/ ApplyRefresh \/ Restart

Spec == Init /\ [][Next]_vars

(* Transfers go on or break; nothing else waits for anybody outside. *)
Progress ==
  \/ \E u \in Upload :
       AfterRefresh(u) \/ CheckDirectory(u) \/ ReceiveFile(u) \/ SaveInfo(u) \/ Register(u)
         \/ Store(u)
  \/ SaveTagsInfo \/ StoreTags \/ Scan \/ CommitRefresh \/ ApplyRefresh

FairSpec == Spec /\ WF_vars(Progress)

-----------------------------------------------------------------------------
(* A version that is listed has all the files of the upload it is listed for, and when
   nothing is under way its description and its entry in the database say the same as
   the list, whichever uploads, tag changes, refreshes, failures and restarts came
   before: a refresh waits for uploads and uploads for a refresh. Not covered by the
   code: an upload that overwrites the version, or writes beside another one, a refresh
   that finds files that an upload left, and saves that cross, fail or are cut off. *)
ListedIsTrue ==
  ~astray =>
    /\ listed # NoInfo /\ ~overwritten /\ ~adopted => Whole(listed[1])
    /\ InProgress = {} /\ tagging.step = "none" /\ refresh.step \in {"none", "wait"} =>
         listed = database /\ (listed # NoInfo /\ listed[1] # Adopted => json = listed)

(* A refresh ends: no upload that comes later keeps it waiting. *)
NotRefreshing == refresh.step = "none"

RefreshEnds == []<>NotRefreshing
=============================================================================
