---------------------------- MODULE SecretFiles ----------------------------
(***************************************************************************)
(* The files of the secrets of a SecretsManager: uploads and downloads,    *)
(* changes of the secrets meanwhile, the removal of files nothing refers   *)
(* to, and the database that is written behind all this. The daemon may    *)
(* stop at any time.                                                       *)
(***************************************************************************)
EXTENDS Naturals, FiniteSets

CONSTANTS
  Secret,     \* the IDs of secrets
  Content,    \* what files may hold
  MaxFiles,   \* bounds uploads
  MaxChanges, \* bounds changes of secrets, and downloads
  MaxFaults   \* bounds failed uploads and writes, and restarts

VARIABLES
  secrets,    \* mp_Database.m_Secrets
  pending,    \* mp_pPendingWrite, with the files to remove when it is written
  writing,    \* the same for the write under way
  disk,       \* the database on disk
  files,      \* the files on disk, with the key that opens each
  uploads,    \* mp_Uploads
  reserved,   \* m_RefCount of each file in mp_ReservedFiles
  postponed,  \* the files with m_fPendingDelete
  removing,   \* the files that wait for mp_FileSequencer to be removed
  nextFile, changes, faults,
  early,      \* files an upload replaced, removed before its database is written
  mixed,      \* secrets created again under an upload that then went through
  unsaved,    \* files in databases that could not be written
  orphans     \* files that a restart has left behind

vars == <<secrets, pending, writing, disk, files, uploads, reserved, postponed, removing,
          nextFile, changes, faults, early, mixed, unsaved, orphans>>
database == <<pending, writing, disk>>
history == <<early, mixed, unsaved, orphans>>

File == 1..MaxFiles
NoFile == 0
NoKey == 0                 \* keys are numbered by the file of the upload that made them
Absent == [exists |-> FALSE, value |-> "unset", file |-> NoFile, key |-> NoKey]
Idle == [on |-> FALSE, content |-> [s \in Secret |-> Absent], then |-> {}]
FilesOf(db) == {db[s].file : s \in Secret} \ {NoFile}
Exists(f) == \E x \in files : x.file = f
Count == changes < MaxChanges /\ changes' = changes + 1
Spend == faults < MaxFaults /\ faults' = faults + 1

Init ==
  /\ secrets = [s \in Secret |-> Absent]
  /\ pending = Idle /\ writing = Idle /\ disk = secrets
  /\ files = {} /\ uploads = {}
  /\ reserved = [f \in File |-> 0]
  /\ postponed = {} /\ removing = {}
  /\ nextFile = 1 /\ changes = 0 /\ faults = 0
  /\ early = {} /\ mixed = {} /\ unsaved = {} /\ orphans = {}

-----------------------------------------------------------------------------
(* fp_WriteDatabase: the copy that waits to be written is replaced, and the files in
   gone are removed after the write that has it. *)
Write(db, gone) ==
  /\ pending' = [on |-> TRUE, content |-> db, then |-> pending.then \cup gone]
  /\ UNCHANGED <<writing, disk>>

(* Mistake: a file is removed while somebody downloads it. *)
MistakeRemove(gone) == removing' = removing \cup gone /\ UNCHANGED postponed
(* fp_RemoveUnreferencedFile: a file that is downloaded is removed afterwards. *)
Remove(gone) ==
  /\ postponed' = postponed \cup {f \in gone : reserved[f] > 0}
  /\ removing' = removing \cup {f \in gone : reserved[f] = 0}

(* f_SetSecretProperties, with or without the secret itself. A file goes with the
   secret it was, once the database is written. *)
SetSecret(s, text) ==
  /\ Count
  /\ LET old == secrets[s]
         new == [exists |-> TRUE, value |-> IF text THEN "text" ELSE old.value,
                 file |-> IF text THEN NoFile ELSE old.file, key |-> old.key]
     IN /\ secrets' = [secrets EXCEPT ![s] = new]
        /\ Write(secrets', {old.file} \ {new.file, NoFile})
  /\ UNCHANGED <<files, uploads, reserved, postponed, removing, nextFile, faults, history>>

(* The uploads of a secret that is removed go on. *)
Outlived(s) == {[u EXCEPT !.same = FALSE] : u \in {v \in uploads : v.secret = s}}

(* Mistake: the file is removed before the database is written. *)
MistakeRemoveSecret(s) ==
  /\ Count /\ secrets[s].exists
  /\ secrets' = [secrets EXCEPT ![s] = Absent]
  /\ Write(secrets', {}) /\ Remove({secrets[s].file} \ {NoFile})
  /\ uploads' = {u \in uploads : u.secret # s} \cup Outlived(s)
  /\ UNCHANGED <<files, reserved, nextFile, faults, history>>
RemoveSecret(s) ==
  /\ Count /\ secrets[s].exists
  /\ secrets' = [secrets EXCEPT ![s] = Absent]
  /\ Write(secrets', {secrets[s].file} \ {NoFile})
  /\ uploads' = {u \in uploads : u.secret # s} \cup Outlived(s)
  /\ UNCHANGED <<files, reserved, postponed, removing, nextFile, faults, history>>

(* Mistake: each upload makes a key for its secret. *)
MistakeKeyFor(s) == nextFile
(* A secret keeps the key of its first upload. *)
KeyFor(s) == IF secrets[s].key = NoKey THEN nextFile ELSE secrets[s].key

(* f_UploadFile: the new file is written under a name of its own. *)
Upload(s, c) ==
  /\ secrets[s].exists /\ nextFile \in File
  /\ nextFile' = nextFile + 1
  /\ secrets' = [secrets EXCEPT ![s].key = KeyFor(s)]
  /\ uploads' = uploads \cup {[file |-> nextFile, secret |-> s, key |-> KeyFor(s),
                               saved |-> secrets[s].value, content |-> c, same |-> TRUE]}
  /\ files' = files \cup {[file |-> nextFile, key |-> KeyFor(s)]}
  /\ UNCHANGED <<database, reserved, postponed, removing, changes, faults, history>>

(* The sync is through, and nobody has changed the secret meanwhile. The file it had
   is removed without waiting for the database. *)
UploadCompletes(u) ==
  /\ uploads' = uploads \ {u}
  /\ LET old == secrets[u.secret] IN
       /\ old.exists /\ old.value = u.saved
       /\ secrets' = [secrets EXCEPT ![u.secret].value = u.content,
                                     ![u.secret].file = u.file]
       /\ Write(secrets', {})
       /\ Remove({old.file} \ {NoFile})
       /\ early' = early \cup ({old.file} \ {NoFile})
       /\ mixed' = IF u.same THEN mixed ELSE mixed \cup {u.secret}
  /\ UNCHANGED <<files, reserved, nextFile, changes, faults, unsaved, orphans>>

(* The first upload to complete wins; the others, and those of a secret that was
   changed or removed, remove what they have written. *)
UploadRefused(u) ==
  /\ ~secrets[u.secret].exists \/ secrets[u.secret].value # u.saved
  /\ uploads' = uploads \ {u}
  /\ removing' = removing \cup {u.file}
  /\ UNCHANGED <<secrets, database, files, reserved, postponed, nextFile, changes, faults,
                 history>>
(* The sync fails, or the client goes away. *)
UploadFails(u) ==
  /\ Spend
  /\ uploads' = uploads \ {u}
  /\ removing' = removing \cup {u.file}
  /\ UNCHANGED <<secrets, database, files, reserved, postponed, nextFile, changes, history>>

(* f_DownloadFile reserves the file. *)
Download(s) ==
  /\ Count /\ secrets[s].file # NoFile
  /\ reserved' = [reserved EXCEPT ![secrets[s].file] = @ + 1]
  /\ UNCHANGED <<secrets, database, files, uploads, postponed, removing, nextFile, faults,
                 history>>
(* Mistake: what was postponed is forgotten. *)
MistakeDownloadEnds(f) ==
  /\ reserved[f] > 0
  /\ reserved' = [reserved EXCEPT ![f] = @ - 1]
  /\ postponed' = IF reserved[f] = 1 THEN postponed \ {f} ELSE postponed
  /\ UNCHANGED <<secrets, database, files, uploads, removing, nextFile, changes, faults, history>>
(* Mistake: the end of a download releases the file as often as it is called. *)
MistakeRelease(f) ==
  /\ Count
  /\ reserved' = [reserved EXCEPT ![f] = @ - 1]
  /\ UNCHANGED <<secrets, database, files, uploads, postponed, removing, nextFile, faults,
                 history>>
(* The last download of a file that ends removes it, if that was postponed. *)
DownloadEnds(f) ==
  /\ reserved[f] > 0
  /\ reserved' = [reserved EXCEPT ![f] = @ - 1]
  /\ LET due == IF reserved[f] = 1 THEN postponed \cap {f} ELSE {}
     IN removing' = removing \cup due /\ postponed' = postponed \ due
  /\ UNCHANGED <<secrets, database, files, uploads, nextFile, changes, faults, history>>

RemoveFile(f) ==
  /\ f \in removing
  /\ removing' = removing \ {f}
  /\ files' = {x \in files : x.file # f}
  /\ UNCHANGED <<secrets, database, uploads, reserved, postponed, nextFile, changes, faults,
                 history>>

-----------------------------------------------------------------------------
(* CSecretsManagerServerDatabase::f_WriteDatabase: one write at a time. The database
   is replaced by a file that has been written beside it. *)
WriteBegins ==
  /\ pending.on /\ ~writing.on
  /\ writing' = pending /\ pending' = Idle
  /\ UNCHANGED <<secrets, disk, files, uploads, reserved, postponed, removing, nextFile,
                 changes, faults, history>>
WriteEnds ==
  /\ writing.on
  /\ disk' = writing.content
  /\ writing' = Idle
  /\ Remove(writing.then)
  /\ UNCHANGED <<secrets, pending, files, uploads, reserved, nextFile, changes, faults, history>>
(* fp_WriteDatabase logs the error and returns as if it had written, and the files
   that the database on disk still has are removed. *)
WriteFails ==
  /\ writing.on /\ Spend
  /\ writing' = Idle
  /\ Remove(writing.then)
  /\ unsaved' = unsaved \cup writing.then
  /\ UNCHANGED <<secrets, pending, disk, files, uploads, reserved, nextFile, changes, early,
                 mixed, orphans>>

(* The daemon stops, and f_Init reads the database. Files nothing refers to stay. *)
Restart ==
  /\ Spend
  /\ secrets' = disk
  /\ pending' = Idle /\ writing' = Idle
  /\ uploads' = {} /\ removing' = {} /\ postponed' = {}
  /\ reserved' = [f \in File |-> 0]
  /\ orphans' = {x.file : x \in files}
  /\ UNCHANGED <<disk, files, nextFile, changes, early, mixed, unsaved>>

(* Transfers end, files are removed, and the database is written. *)
Progress ==
  \/ \E u \in uploads : UploadCompletes(u) \/ UploadRefused(u)
  \/ \E f \in File : DownloadEnds(f) \/ RemoveFile(f)
  \/ WriteBegins \/ WriteEnds

Next ==
  \/ Progress
  \/ \E s \in Secret, text \in BOOLEAN : SetSecret(s, text)
  \/ \E s \in Secret : RemoveSecret(s) \/ Download(s) \/ \E c \in Content : Upload(s, c)
  \/ \E u \in uploads : UploadFails(u)
  \/ WriteFails \/ Restart

Spec == Init /\ [][Next]_vars
FairSpec == Spec /\ WF_vars(Progress)

-----------------------------------------------------------------------------
Value == {"unset", "text"} \cup Content
Properties == [exists : BOOLEAN, value : Value, file : File \cup {NoFile},
               key : File \cup {NoKey}]
TypeOK ==
  /\ secrets \in [Secret -> Properties] /\ disk \in [Secret -> Properties]
  /\ \A w \in {pending, writing} :
       w \in [on : BOOLEAN, content : [Secret -> Properties], then : SUBSET File]
  /\ files \subseteq [file : File, key : File]
  /\ uploads \subseteq [file : File, secret : Secret, key : File, saved : Value,
                        content : Content, same : BOOLEAN]
  /\ reserved \in [File -> 0..MaxChanges]
  /\ postponed \subseteq File /\ removing \subseteq File
  /\ nextFile \in 1..MaxFiles + 1

(* The file of a secret is there, and opens with the key of the secret, whatever
   uploads, changes and removals came in between, also after a restart; and a file
   that is downloaded stays until the download ends. Left out are the files lost to
   a restart before the database was written (an upload removes the old file first) or
   when it could not be written, and a secret that was removed and created again
   while it was uploaded. *)
FilesOpen ==
  /\ \A s \in Secret : secrets[s].file \notin {NoFile} \cup early \cup unsaved =>
       \E x \in files : x.file = secrets[s].file /\ (s \in mixed \/ x.key = secrets[s].key)
  /\ \A f \in File \ (early \cup unsaved) : reserved[f] > 0 => Exists(f)

(* The database on disk never refers to a file that is gone, so a restart finds all
   of them; with the same exceptions. *)
DiskHasItsFiles ==
  \A f \in FilesOf(disk) \ (early \cup unsaved) : Exists(f)

(* A file that no secret has and that is not uploaded or downloaded is removed in the
   end, if there is no restart before. *)
FilesAreRemoved ==
  []<>\A f \in File : Exists(f) => f \in FilesOf(secrets) \cup orphans
=============================================================================
