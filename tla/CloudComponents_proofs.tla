---------------------------- MODULE CloudComponents_proofs ----------------------------
(* What the invariants of the components come to in the specification of all of them, for
   every value of the constants. The lemmas of a component have its initials before their
   names; its invariant is the conjunction of the parts that are defined before them. *)
EXTENDS CloudComponents, FiniteSetTheorems, TLAPS

-----------------------------------------------------------------------------
(* SecretFiles *)

SFLost == early \cup unsaved
SFGone == removing \cup postponed
SFDue == pending.then \cup writing.then
SFRefs == [s \in Secret |-> {secrets[s].file, disk[s].file, pending.content[s].file,
                           writing.content[s].file} \ {SF!NoFile}]
SFDatabase == [Secret -> SF!Properties]
SFTypesOfDatabases ==
  /\ secrets \in SFDatabase /\ disk \in SFDatabase
  /\ pending \in [on : BOOLEAN, content : SFDatabase, then : SUBSET SF!File]
  /\ writing \in [on : BOOLEAN, content : SFDatabase, then : SUBSET SF!File]
SFTypesOfFiles ==
  /\ files \subseteq [file : SF!File, key : SF!File]
  /\ uploads \subseteq [file : SF!File, secret : Secret, key : SF!File, saved : SF!Value,
                        content : sfContent, same : BOOLEAN]
  /\ postponed \subseteq SF!File /\ removing \subseteq SF!File
SFTypesOfCounts ==
  /\ nextFile \in 1..MaxFiles + 1
  /\ reserved \in [SF!File -> 0..sfMaxChanges]
  /\ changes \in 0..sfMaxChanges /\ \A f \in SF!File : reserved[f] <= changes
SFEmpty ==
  /\ ~pending.on => pending = SF!Idle
  /\ ~writing.on => writing = SF!Idle
SFTypes == SFTypesOfDatabases /\ SFTypesOfFiles /\ SFTypesOfCounts /\ SFEmpty
SFNames ==
  /\ \A s \in Secret : \A f \in SFRefs[s] : f < nextFile
  /\ \A x \in files : x.file < nextFile
  /\ \A u \in uploads : u.file < nextFile
  /\ \A f \in SFGone \cup SFDue : f < nextFile
  /\ \A f \in SF!File : reserved[f] > 0 => f < nextFile
SFOneOwner ==
  \A s, t \in Secret : \A f \in SFRefs[s] : f \in SFRefs[t] => s = t
SFUploadsWritten ==
  \A u \in uploads : [file |-> u.file, key |-> u.key] \in files
SFUploadsKept ==
  \A u \in uploads : u.file \notin SFGone \cup SFDue
SFUploadsUnread ==
  \A u \in uploads : reserved[u.file] = 0
SFUploadsUnowned ==
  \A u \in uploads : \A s \in Secret : u.file \notin SFRefs[s]
SFUploadsKeyed ==
  \A u \in uploads : u.same => u.key = secrets[u.secret].key
SFUploadsApart ==
  \A u, v \in uploads : u.file = v.file => u = v
SFUploadsStand == SFUploadsWritten /\ SFUploadsKept /\ SFUploadsUnread /\ SFUploadsUnowned /\ SFUploadsKeyed /\ SFUploadsApart
SFFilesKept ==
  \A s \in Secret : \A f \in SFRefs[s] \ SFLost : f \notin SFGone
SFFilesThere ==
  \A s \in Secret : \A f \in SFRefs[s] \ SFLost : \E x \in files : x.file = f
SFKeysFit(db) ==
  \A s \in Secret :
    db[s].file \notin {SF!NoFile} \cup SFLost /\ s \notin mixed =>
      [file |-> db[s].file, key |-> db[s].key] \in files
SFKeys == SFKeysFit(secrets) /\ SFKeysFit(disk) /\ SFKeysFit(pending.content) /\ SFKeysFit(writing.content)
SFDueAfterWrite ==
  \A s \in Secret :
    /\ secrets[s].file \in SFDue => secrets[s].file \in SFLost
    /\ pending.content[s].file \in SFDue => pending.content[s].file \in SFLost
    /\ writing.content[s].file \in writing.then => writing.content[s].file \in SFLost
SFDownloadsStand ==
  \A f \in SF!File : reserved[f] > 0 /\ f \notin SFLost => f \notin removing /\ \E x \in files : x.file = f
SFInv == SFTypes /\ SFNames /\ SFOneOwner /\ SFUploadsStand /\ SFFilesKept /\ SFFilesThere /\ SFKeys /\ SFDueAfterWrite /\ SFDownloadsStand

LEMMA SFTyped ==
  ASSUME SFConstants, SFTypes
  PROVE  /\ SFRefs \in [Secret -> SUBSET SF!File] /\ SFDue \subseteq SF!File /\ SFGone \subseteq SF!File
         /\ writing.then \subseteq SFDue
         /\ \A x \in files : x.file \in SF!File
         /\ \A u \in uploads : u.file \in SF!File /\ u.secret \in Secret
         /\ nextFile \in Nat /\ \A g \in SF!File : g \in Nat
BY DEF SFTypes, SFTypesOfDatabases, SFTypesOfFiles, SFTypesOfCounts, SFDatabase, SF!Properties,
   SF!File, SF!NoFile, SF!NoKey, SFRefs, SFDue, SFGone

LEMMA SFSetSecretStep ==
  ASSUME SFConstants, SFInv, NEW s \in Secret, NEW text \in BOOLEAN, SF!SetSecret(s, text)
  PROVE SFInv'
<1> USE DEF SFInv, SFTypes, SFUploadsStand, SFConstants, SF!database, SF!history
<1>1. /\ SFRefs \in [Secret -> SUBSET SF!File] /\ SFDue \subseteq SF!File /\ SFGone \subseteq SF!File /\ writing.then \subseteq SFDue
      /\ nextFile \in Nat /\ \A g \in SF!File : g \in Nat
  BY SFTyped
<1>2. SFTypesOfDatabases'
  BY DEF SF!SetSecret, SF!Write, SF!Count, SFTypesOfDatabases, SFDatabase, SF!Properties,
     SF!Value, SF!File, SF!NoFile, SF!NoKey, SF!Idle, SF!Absent, SFTypesOfFiles
<1>3. SFTypesOfFiles'
  BY DEF SF!SetSecret, SF!Write, SF!Count, SFTypesOfDatabases, SFDatabase, SF!Properties,
     SF!Value, SF!File, SF!NoFile, SF!NoKey, SFTypesOfFiles, SFTypesOfCounts
<1>4. SFTypesOfCounts'
  BY DEF SF!SetSecret, SF!Write, SF!Count, SFTypesOfDatabases, SFDatabase, SF!Properties,
     SF!NoFile, SFTypesOfCounts, SF!File
<1>5. SFEmpty'
  BY DEF SF!SetSecret, SF!Write, SF!Count, SFEmpty, SFTypesOfDatabases
<1>6. \A t \in Secret : SFRefs'[t] \subseteq SFRefs[t]
  BY DEF SF!SetSecret, SF!Write, SF!Count, SFTypesOfDatabases, SFDatabase, SF!Properties,
     SF!Value, SF!File, SF!NoFile, SF!NoKey, SFRefs, SF!Idle, SF!Absent, SFTypesOfFiles
<1>7. SFDue' \subseteq SFDue \cup SFRefs[s]
  BY DEF SF!SetSecret, SF!Write, SF!Count, SFTypesOfDatabases, SFDatabase, SF!Properties,
     SF!Value, SF!File, SF!NoFile, SF!NoKey, SFRefs, SF!Idle, SFDue
<1>8. SFGone' = SFGone
  BY DEF SF!SetSecret, SF!Write, SF!Count, SFTypesOfDatabases, SFDatabase, SF!Properties,
     SF!Value, SF!File, SF!NoFile, SF!NoKey, SFRefs, SF!Idle, SFGone
<1>9. SFRefs' \in [Secret -> SUBSET SF!File]
  BY <1>2 DEF SFTypesOfDatabases, SFDatabase, SF!Properties, SF!Value, SF!File, SF!NoFile,
     SF!NoKey, SFRefs
<1>10. SFDue' \subseteq SF!File
  BY <1>2 DEF SFTypesOfDatabases, SFDue
<1>11. SFGone' \subseteq SF!File /\ nextFile' \in Nat
  BY <1>3, <1>4 DEF SFTypesOfFiles, SFTypesOfCounts, SFGone
<1>12. SFNames'
  BY <1>1, <1>6, <1>7, <1>8, <1>9, <1>10, <1>11 DEF SF!SetSecret, SF!Write, SF!Count, SFNames,
     SFTypesOfFiles
<1>13. SFOneOwner'
  BY <1>6 DEF SFOneOwner, SFUploadsUnowned
<1>14. SFUploadsWritten'
  BY <1>1 DEF SF!SetSecret, SF!Write, SF!Count, SFUploadsWritten, SFUploadsKept, SFGone,
     SFTypesOfFiles
<1>15. SFUploadsKept'
  BY <1>1, <1>6, <1>7, <1>8, <1>9, <1>10, <1>11 DEF SF!SetSecret, SF!Write, SF!Count,
     SFUploadsKept, SFUploadsApart, SFUploadsUnowned, SFNames, SFTypesOfFiles
<1>16. SFUploadsUnread'
  BY <1>1, <1>6, <1>7, <1>8, <1>9, <1>10, <1>11 DEF SF!SetSecret, SF!Write, SF!Count,
     SFUploadsUnread, SFTypesOfCounts, SFTypesOfFiles, SFUploadsUnowned, SFNames,
     SFTypesOfDatabases, SFDatabase, SF!Properties, SFRefs
<1>17. SFUploadsUnowned'
  BY <1>1, <1>6, <1>7, <1>8, <1>9, <1>10, <1>11 DEF SF!SetSecret, SF!Write, SF!Count,
     SFUploadsUnowned, SFNames, SFUploadsApart, SFTypesOfFiles
<1>18. SFUploadsKeyed'
  BY <1>1, <1>6, <1>7, <1>8, <1>9, <1>10, <1>11 DEF SF!SetSecret, SF!Write, SF!Count,
     SFUploadsKeyed, SFTypesOfFiles, SFTypesOfDatabases, SFDatabase, SF!Properties
<1>19. SFUploadsApart'
  BY <1>1, <1>6, <1>7, <1>8, <1>9, <1>10, <1>11 DEF SF!SetSecret, SF!Write, SF!Count,
     SFUploadsApart, SFNames, SFTypesOfFiles
<1>20. SFFilesKept'
  BY <1>1, <1>6, <1>7, <1>8, <1>9, <1>10, <1>11 DEF SF!SetSecret, SF!Write, SF!Count,
     SFFilesKept, SFLost, SFUploadsUnowned, SFUploadsKept
<1>21. SFFilesThere'
  BY <1>1, <1>6, <1>7, <1>8, <1>9, <1>10, <1>11 DEF SF!SetSecret, SF!Write, SF!Count,
     SFFilesThere, SFFilesKept, SFGone, SFLost, SFUploadsWritten, SFTypesOfFiles
<1>22. SFKeys'
  BY <1>1, <1>6, <1>7, <1>8, <1>9, <1>10, <1>11 DEF SF!SetSecret, SF!Write, SF!Count,
     SFTypesOfDatabases, SFDatabase, SF!Properties, SF!Value, SF!File, SF!NoFile, SF!NoKey,
     SFKeys, SFKeysFit, SFFilesKept, SFGone, SFLost, SFRefs, SF!Idle, SF!Absent
<1>23. SFDueAfterWrite'
  BY <1>1, <1>6, <1>7, <1>8, <1>9, <1>10, <1>11 DEF SF!SetSecret, SF!Write, SF!Count,
     SFTypesOfDatabases, SFDatabase, SF!Properties, SF!Value, SF!File, SF!NoFile, SF!NoKey,
     SFDueAfterWrite, SFDue, SFLost, SFRefs, SFOneOwner, SFUploadsKept, SF!Idle, SF!Absent
<1>24. SFDownloadsStand'
  BY <1>1, <1>6, <1>7, <1>8, <1>9, <1>10, <1>11 DEF SF!SetSecret, SF!Write, SF!Count,
     SFDownloadsStand, SFFilesThere, SFFilesKept, SFGone, SFLost, SFUploadsUnread
<1> QED
  BY <1>2, <1>3, <1>4, <1>5, <1>12, <1>13, <1>14, <1>15, <1>16, <1>17, <1>18, <1>19, <1>20,
     <1>21, <1>22, <1>23, <1>24

LEMMA SFRemoveSecretStep ==
  ASSUME SFConstants, SFInv, NEW s \in Secret, SF!RemoveSecret(s)
  PROVE SFInv'
<1> USE DEF SFInv, SFTypes, SFUploadsStand, SFConstants, SF!database, SF!history
<1>1. /\ SFRefs \in [Secret -> SUBSET SF!File] /\ SFDue \subseteq SF!File /\ SFGone \subseteq SF!File /\ writing.then \subseteq SFDue
      /\ nextFile \in Nat /\ \A g \in SF!File : g \in Nat
  BY SFTyped
<1>2. SFTypesOfDatabases'
  BY DEF SF!RemoveSecret, SF!Write, SF!Count, SF!Absent, SFTypesOfDatabases, SFDatabase,
     SF!Properties, SF!Value, SF!File, SF!NoFile, SF!NoKey, SF!Idle, SFTypesOfFiles
<1>3. SFTypesOfFiles'
  <2>1. uploads' \subseteq [file : SF!File, secret : Secret, key : SF!File, saved : SF!Value,
                        content : sfContent, same : BOOLEAN]
    <3> SUFFICES ASSUME NEW v \in uploads'
                 PROVE  v \in [file : SF!File, secret : Secret, key : SF!File, saved : SF!Value,
                              content : sfContent, same : BOOLEAN]
      OBVIOUS
    <3>1. CASE v \in uploads
      BY <3>1 DEF SFTypesOfFiles
    <3>2. CASE v \notin uploads
      <4>1. PICK w \in uploads : v = [w EXCEPT !.same = FALSE]
        BY <3>2 DEF SF!RemoveSecret, SF!Outlived
      <4> QED
        BY <4>1 DEF SFTypesOfFiles
    <3> QED
      BY <3>1, <3>2
  <2>2. UNCHANGED <<files, postponed, removing>>
    BY DEF SF!RemoveSecret
  <2> QED
    BY <2>1, <2>2 DEF SFTypesOfFiles
<1>4. SFTypesOfCounts'
  <2>1. UNCHANGED <<nextFile, reserved>> /\ changes < sfMaxChanges /\ changes' = changes + 1
    BY DEF SF!RemoveSecret, SF!Count
  <2> QED
    BY <2>1 DEF SFTypesOfCounts, SF!File
<1>5. SFEmpty'
  BY DEF SF!RemoveSecret, SF!Write, SF!Count, SF!Absent, SFEmpty, SFTypesOfDatabases
<1>6. \A t \in Secret : SFRefs'[t] \subseteq SFRefs[t]
  BY DEF SF!RemoveSecret, SF!Write, SF!Count, SF!Absent, SFTypesOfDatabases, SFDatabase,
     SF!Properties, SF!Value, SF!File, SF!NoFile, SF!NoKey, SFRefs, SF!Idle, SFTypesOfFiles
<1>7. SFDue' \subseteq SFDue \cup SFRefs[s]
  BY DEF SF!RemoveSecret, SF!Write, SF!Count, SF!Absent, SFTypesOfDatabases, SFDatabase,
     SF!Properties, SF!Value, SF!File, SF!NoFile, SF!NoKey, SFRefs, SF!Idle, SFDue
<1>8. SFGone' = SFGone
  BY DEF SF!RemoveSecret, SF!Write, SF!Count, SF!Absent, SFTypesOfDatabases, SFDatabase,
     SF!Properties, SF!Value, SF!File, SF!NoFile, SF!NoKey, SFRefs, SF!Idle, SFGone
<1>9. SFRefs' \in [Secret -> SUBSET SF!File]
  BY <1>2 DEF SFTypesOfDatabases, SFDatabase, SF!Properties, SF!Value, SF!File, SF!NoFile,
     SF!NoKey, SFRefs
<1>10. SFDue' \subseteq SF!File
  BY <1>2 DEF SFTypesOfDatabases, SFDue
<1>11. SFGone' \subseteq SF!File /\ nextFile' \in Nat
  BY <1>3, <1>4 DEF SFTypesOfFiles, SFTypesOfCounts, SFGone
<1>12. \A v \in uploads' : \E u \in uploads :
        /\ v.file = u.file /\ v.key = u.key /\ v.secret = u.secret
        /\ v.same => u.same /\ u.secret # s
  BY DEF SF!RemoveSecret, SF!Write, SF!Count, SF!Absent, SF!Outlived, SFTypesOfFiles
<1>13. SFNames'
  BY <1>1, <1>6, <1>7, <1>8, <1>9, <1>10, <1>11, <1>12 DEF SF!RemoveSecret, SF!Write, SF!Count,
     SF!Absent, SFNames, SFTypesOfFiles
<1>14. SFOneOwner'
  BY <1>6 DEF SFOneOwner, SFUploadsUnowned
<1>15. SFUploadsWritten'
  <2>1. files' = files
    BY DEF SF!RemoveSecret
  <2> QED
    BY <2>1, <1>12 DEF SFUploadsWritten
<1>16. SFUploadsKept'
  BY <1>1, <1>6, <1>7, <1>8, <1>9, <1>10, <1>11, <1>12 DEF SF!RemoveSecret, SF!Write, SF!Count,
     SF!Absent, SFUploadsKept, SFUploadsApart, SFUploadsUnowned, SFNames, SFTypesOfFiles
<1>17. SFUploadsUnread'
  BY <1>1, <1>6, <1>7, <1>8, <1>9, <1>10, <1>11, <1>12 DEF SF!RemoveSecret, SF!Write, SF!Count,
     SF!Absent, SFUploadsUnread, SFTypesOfCounts, SFTypesOfFiles, SFUploadsUnowned, SFNames,
     SFTypesOfDatabases, SFDatabase, SF!Properties, SFRefs
<1>18. SFUploadsUnowned'
  BY <1>1, <1>6, <1>7, <1>8, <1>9, <1>10, <1>11, <1>12 DEF SF!RemoveSecret, SF!Write, SF!Count,
     SF!Absent, SFUploadsUnowned, SFNames, SFUploadsApart, SFTypesOfFiles
<1>19. SFUploadsKeyed'
  BY <1>1, <1>6, <1>7, <1>8, <1>9, <1>10, <1>11, <1>12 DEF SF!RemoveSecret, SF!Write, SF!Count,
     SF!Absent, SFUploadsKeyed, SFTypesOfFiles, SFTypesOfDatabases, SFDatabase, SF!Properties
<1>20. SFUploadsApart'
  <2> DEFINE Outlives(w) == [w EXCEPT !.same = FALSE]
  <2>1. \A v \in uploads' : \/ v \in uploads /\ v.secret # s
                            \/ \E w \in uploads : v = Outlives(w) /\ w.secret = s
    BY DEF SF!RemoveSecret, SF!Outlived
  <2>2. \A w \in uploads : Outlives(w).file = w.file
    BY DEF SFTypesOfFiles
  <2> HIDE DEF Outlives
  <2> QED
    BY <2>1, <2>2 DEF SFUploadsApart
<1>21. SFFilesKept'
  BY <1>1, <1>6, <1>7, <1>8, <1>9, <1>10, <1>11, <1>12 DEF SF!RemoveSecret, SF!Write, SF!Count,
     SF!Absent, SFFilesKept, SFLost, SFUploadsUnowned, SFUploadsKept
<1>22. SFFilesThere'
  BY <1>1, <1>6, <1>7, <1>8, <1>9, <1>10, <1>11, <1>12 DEF SF!RemoveSecret, SF!Write, SF!Count,
     SF!Absent, SFFilesThere, SFFilesKept, SFGone, SFLost, SFUploadsWritten, SFTypesOfFiles
<1>23. SFKeys'
  BY <1>1, <1>6, <1>7, <1>8, <1>9, <1>10, <1>11, <1>12 DEF SF!RemoveSecret, SF!Write, SF!Count,
     SF!Absent, SFTypesOfDatabases, SFDatabase, SF!Properties, SF!Value, SF!File, SF!NoFile,
     SF!NoKey, SFKeys, SFKeysFit, SFFilesKept, SFGone, SFLost, SFRefs, SF!Idle
<1>24. SFDueAfterWrite'
  BY <1>1, <1>6, <1>7, <1>8, <1>9, <1>10, <1>11, <1>12 DEF SF!RemoveSecret, SF!Write, SF!Count,
     SF!Absent, SFTypesOfDatabases, SFDatabase, SF!Properties, SF!Value, SF!File, SF!NoFile,
     SF!NoKey, SFDueAfterWrite, SFDue, SFLost, SFRefs, SFOneOwner, SFUploadsKept, SF!Idle
<1>25. SFDownloadsStand'
  BY <1>1, <1>6, <1>7, <1>8, <1>9, <1>10, <1>11, <1>12 DEF SF!RemoveSecret, SF!Write, SF!Count,
     SF!Absent, SFDownloadsStand, SFFilesThere, SFFilesKept, SFGone, SFLost, SFUploadsUnread
<1> QED
  BY <1>2, <1>3, <1>4, <1>5, <1>13, <1>14, <1>15, <1>16, <1>17, <1>18, <1>19, <1>20, <1>21,
     <1>22, <1>23, <1>24, <1>25

LEMMA SFUploadStep ==
  ASSUME SFConstants, SFInv, NEW s \in Secret, NEW c \in sfContent, SF!Upload(s, c)
  PROVE SFInv'
<1> USE DEF SFInv, SFTypes, SFUploadsStand, SFConstants, SF!database, SF!history
<1>1. /\ SFRefs \in [Secret -> SUBSET SF!File] /\ SFDue \subseteq SF!File /\ SFGone \subseteq SF!File /\ writing.then \subseteq SFDue
      /\ nextFile \in Nat /\ \A g \in SF!File : g \in Nat
  BY SFTyped
<1>2. SF!KeyFor(s) \in SF!File /\ (secrets[s].key # SF!NoKey => SF!KeyFor(s) = secrets[s].key)
  BY DEF SF!Upload, SF!KeyFor, SFTypesOfDatabases, SFDatabase, SF!Properties, SF!Value, SF!File,
     SF!NoFile, SF!NoKey
<1>3. SFTypesOfDatabases'
  BY <1>2 DEF SF!Upload, SFTypesOfDatabases, SFDatabase, SF!Properties, SF!Value, SF!File,
     SF!NoFile, SF!NoKey, SF!Idle, SF!Absent, SFTypesOfFiles
<1>4. SFTypesOfFiles'
  <2>1. /\ nextFile \in SF!File /\ UNCHANGED <<postponed, removing>>
        /\ files' = files \cup {[file |-> nextFile, key |-> SF!KeyFor(s)]}
    BY DEF SF!Upload
  <2>2. uploads' = uploads \cup {[file |-> nextFile, secret |-> s, key |-> SF!KeyFor(s),
                                 saved |-> secrets[s].value, content |-> c, same |-> TRUE]}
    BY DEF SF!Upload
  <2>3. secrets[s].value \in SF!Value
    BY DEF SFTypesOfDatabases, SFDatabase, SF!Properties
  <2>4. files' \subseteq [file : SF!File, key : SF!File]
    BY <2>1, <1>2 DEF SFTypesOfFiles
  <2>5. [file |-> nextFile, secret |-> s, key |-> SF!KeyFor(s), saved |-> secrets[s].value,
         content |-> c, same |-> TRUE]
          \in [file : SF!File, secret : Secret, key : SF!File, saved : SF!Value, content : sfContent,
              same : BOOLEAN]
    BY <2>1, <2>3, <1>2
  <2>6. uploads' \subseteq [file : SF!File, secret : Secret, key : SF!File, saved : SF!Value,
                        content : sfContent, same : BOOLEAN]
    BY <2>2, <2>5 DEF SFTypesOfFiles
  <2> QED
    BY <2>1, <2>4, <2>6 DEF SFTypesOfFiles
<1>5. SFTypesOfCounts'
  BY DEF SF!Upload, SFTypesOfDatabases, SFDatabase, SF!Properties, SF!NoFile, SFTypesOfCounts,
     SF!File
<1>6. SFEmpty'
  BY DEF SF!Upload, SFEmpty, SFTypesOfDatabases
<1>7. \A t \in Secret : SFRefs'[t] \subseteq SFRefs[t]
  BY DEF SF!Upload, SFTypesOfDatabases, SFDatabase, SF!Properties, SF!Value, SF!File, SF!NoFile,
     SF!NoKey, SFRefs, SF!Idle, SF!Absent, SFTypesOfFiles
<1>8. SFDue' \subseteq SFDue
  BY DEF SF!Upload, SFTypesOfDatabases, SFDatabase, SF!Properties, SF!Value, SF!File, SF!NoFile,
     SF!NoKey, SFRefs, SF!Idle, SFDue
<1>9. SFGone' = SFGone
  BY DEF SF!Upload, SFTypesOfDatabases, SFDatabase, SF!Properties, SF!Value, SF!File, SF!NoFile,
     SF!NoKey, SFRefs, SF!Idle, SFGone
<1>10. SFRefs' \in [Secret -> SUBSET SF!File]
  BY <1>3 DEF SFTypesOfDatabases, SFDatabase, SF!Properties, SF!Value, SF!File, SF!NoFile,
     SF!NoKey, SFRefs
<1>11. SFDue' \subseteq SF!File
  BY <1>3 DEF SFTypesOfDatabases, SFDue
<1>12. SFGone' \subseteq SF!File /\ nextFile' \in Nat
  BY <1>4, <1>5 DEF SFTypesOfFiles, SFTypesOfCounts, SFGone
<1>13. SFNames'
  BY <1>1, <1>7, <1>8, <1>9, <1>10, <1>11, <1>12 DEF SF!Upload, SFNames, SFTypesOfFiles
<1>14. SFOneOwner'
  BY <1>7 DEF SFOneOwner, SFUploadsUnowned
<1>15. SFUploadsWritten'
  <2>1. \A v \in uploads' : v \in uploads \/ (v.file = nextFile /\ v.key = SF!KeyFor(s))
    BY DEF SF!Upload
  <2>2. files \subseteq files' /\ [file |-> nextFile, key |-> SF!KeyFor(s)] \in files'
    BY DEF SF!Upload
  <2> QED
    BY <2>1, <2>2 DEF SFUploadsWritten
<1>16. SFUploadsKept'
  BY <1>1, <1>7, <1>8, <1>9, <1>10, <1>11, <1>12 DEF SF!Upload, SFUploadsKept, SFUploadsApart,
     SFUploadsUnowned, SFNames, SFTypesOfFiles
<1>17. SFUploadsUnread'
  BY <1>1, <1>7, <1>8, <1>9, <1>10, <1>11, <1>12 DEF SF!Upload, SFUploadsUnread,
     SFTypesOfCounts, SFTypesOfFiles, SFUploadsUnowned, SFNames, SFTypesOfDatabases, SFDatabase,
     SF!Properties, SFRefs
<1>18. SFUploadsUnowned'
  BY <1>1, <1>7, <1>8, <1>9, <1>10, <1>11, <1>12 DEF SF!Upload, SFUploadsUnowned, SFNames,
     SFUploadsApart, SFTypesOfFiles
<1>19. SFUploadsKeyed'
  <2>1. \A v \in uploads' : v \in uploads \/ (v.secret = s /\ v.key = SF!KeyFor(s))
    BY DEF SF!Upload
  <2>2. secrets' = [secrets EXCEPT ![s].key = SF!KeyFor(s)]
    BY DEF SF!Upload
  <2>3. \A v \in uploads : v.secret \in Secret /\ v.key # SF!NoKey
    BY DEF SFTypesOfFiles, SF!File, SF!NoKey
  <2>4. \A t \in Secret : secrets'[t].key = IF t = s THEN SF!KeyFor(s) ELSE secrets[t].key
    BY <2>2 DEF SFTypesOfDatabases, SFDatabase, SF!Properties
  <2>5. \A v \in uploads : v.same => v.key = secrets'[v.secret].key
    BY <2>3, <2>4, <1>2 DEF SFUploadsKeyed
  <2> QED
    BY <2>1, <2>4, <2>5 DEF SFUploadsKeyed
<1>20. SFUploadsApart'
  <2>1. \A v, w \in uploads' : v \in uploads \/ w \in uploads \/ v = w
    BY DEF SF!Upload
  <2>2. \A v \in uploads' : v \in uploads \/ v.file = nextFile
    BY DEF SF!Upload
  <2>3. \A v \in uploads : v.file # nextFile
    BY <1>1 DEF SFNames, SFTypesOfFiles
  <2> QED
    BY <2>1, <2>2, <2>3 DEF SFUploadsApart
<1>21. SFFilesKept'
  BY <1>1, <1>7, <1>8, <1>9, <1>10, <1>11, <1>12 DEF SF!Upload, SFFilesKept, SFLost,
     SFUploadsUnowned, SFUploadsKept
<1>22. SFFilesThere'
  BY <1>1, <1>7, <1>8, <1>9, <1>10, <1>11, <1>12 DEF SF!Upload, SFFilesThere, SFFilesKept,
     SFGone, SFLost, SFUploadsWritten, SFTypesOfFiles
<1>23. SFKeys'
  <2>1. files \subseteq files' /\ SFLost' = SFLost /\ UNCHANGED <<disk, pending, writing, mixed>>
    BY DEF SF!Upload, SFLost
  <2>2. secrets' = [secrets EXCEPT ![s].key = SF!KeyFor(s)]
    BY DEF SF!Upload
  <2>3. \A t \in Secret : /\ secrets'[t].file = secrets[t].file
                          /\ secrets'[t].key = IF t = s THEN SF!KeyFor(s) ELSE secrets[t].key
    BY <2>2 DEF SFTypesOfDatabases, SFDatabase, SF!Properties
  <2>4. \A x \in files : x.key # SF!NoKey
    BY DEF SFTypesOfFiles, SF!File, SF!NoKey
  <2>5. \A t \in Secret : secrets[t].file \notin {SF!NoFile} \cup SFLost /\ t \notin mixed =>
                            secrets[t].key # SF!NoKey
    <3> SUFFICES ASSUME NEW t \in Secret, secrets[t].file \notin {SF!NoFile} \cup SFLost,
                        t \notin mixed
                 PROVE  secrets[t].key # SF!NoKey
      OBVIOUS
    <3>1. [file |-> secrets[t].file, key |-> secrets[t].key] \in files
      BY DEF SFKeys, SFKeysFit
    <3> QED
      BY <2>4, <3>1
  <2>6. SFKeysFit(secrets)'
    BY <2>1, <2>3, <2>5, <1>2 DEF SFKeys, SFKeysFit
  <2>7. SFKeysFit(disk)' /\ SFKeysFit(pending.content)' /\ SFKeysFit(writing.content)'
    BY <2>1 DEF SFKeys, SFKeysFit
  <2> QED
    BY <2>6, <2>7 DEF SFKeys
<1>24. SFDueAfterWrite'
  BY <1>1, <1>7, <1>8, <1>9, <1>10, <1>11, <1>12 DEF SF!Upload, SFTypesOfDatabases, SFDatabase,
     SF!Properties, SF!Value, SF!File, SF!NoFile, SF!NoKey, SFDueAfterWrite, SFDue, SFLost,
     SFRefs, SFOneOwner, SFUploadsKept, SF!Idle, SF!Absent
<1>25. SFDownloadsStand'
  BY <1>1, <1>7, <1>8, <1>9, <1>10, <1>11, <1>12 DEF SF!Upload, SFDownloadsStand, SFFilesThere,
     SFFilesKept, SFGone, SFLost, SFUploadsUnread
<1> QED
  BY <1>3, <1>4, <1>5, <1>6, <1>13, <1>14, <1>15, <1>16, <1>17, <1>18, <1>19, <1>20, <1>21,
     <1>22, <1>23, <1>24, <1>25

LEMMA SFUploadCompletesStep ==
  ASSUME SFConstants, SFInv, NEW u \in uploads, SF!UploadCompletes(u)
  PROVE SFInv'
<1> USE DEF SFInv, SFTypes, SFUploadsStand, SFConstants, SF!database, SF!history
<1>1. /\ SFRefs \in [Secret -> SUBSET SF!File] /\ SFDue \subseteq SF!File /\ SFGone \subseteq SF!File /\ writing.then \subseteq SFDue
      /\ nextFile \in Nat /\ \A g \in SF!File : g \in Nat
  BY SFTyped
<1>2. SFTypesOfDatabases'
  BY DEF SF!UploadCompletes, SF!Write, SF!Remove, SFTypesOfDatabases, SFDatabase, SF!Properties,
     SF!Value, SF!File, SF!NoFile, SF!NoKey, SF!Idle, SF!Absent, SFTypesOfFiles
<1>3. SFTypesOfFiles'
  BY DEF SF!UploadCompletes, SF!Write, SF!Remove, SFTypesOfDatabases, SFDatabase, SF!Properties,
     SF!Value, SF!File, SF!NoFile, SF!NoKey, SFTypesOfFiles, SFTypesOfCounts
<1>4. SFTypesOfCounts'
  BY DEF SF!UploadCompletes, SF!Write, SF!Remove, SFTypesOfDatabases, SFDatabase, SF!Properties,
     SF!NoFile, SFTypesOfCounts, SF!File
<1>5. SFEmpty'
  BY DEF SF!UploadCompletes, SF!Write, SF!Remove, SFEmpty, SFTypesOfDatabases
<1>6. /\ \A t \in Secret \ {u.secret} : SFRefs'[t] \subseteq SFRefs[t]
      /\ SFRefs'[u.secret] \subseteq SFRefs[u.secret] \cup {u.file}
  BY DEF SF!UploadCompletes, SF!Write, SF!Remove, SFTypesOfDatabases, SFDatabase, SF!Properties,
     SF!Value, SF!File, SF!NoFile, SF!NoKey, SFRefs, SF!Idle, SF!Absent, SFTypesOfFiles
<1>7. SFDue' \subseteq SFDue
  BY DEF SF!UploadCompletes, SF!Write, SF!Remove, SFTypesOfDatabases, SFDatabase, SF!Properties,
     SF!Value, SF!File, SF!NoFile, SF!NoKey, SFRefs, SF!Idle, SFDue
<1>8. SFGone' \subseteq SFGone \cup (SFRefs[u.secret] \cap SFLost')
  <2>1. {secrets[u.secret].file} \ {SF!NoFile} \subseteq SFRefs[u.secret]
    BY DEF SFRefs, SFTypesOfFiles
  <2>2. SFGone' \subseteq SFGone \cup ({secrets[u.secret].file} \ {SF!NoFile})
    BY DEF SF!UploadCompletes, SF!Remove, SFGone
  <2>3. {secrets[u.secret].file} \ {SF!NoFile} \subseteq SFLost'
    BY DEF SF!UploadCompletes, SFLost
  <2> QED
    BY <2>1, <2>2, <2>3
<1>9. SFRefs' \in [Secret -> SUBSET SF!File]
  BY <1>2 DEF SFTypesOfDatabases, SFDatabase, SF!Properties, SF!Value, SF!File, SF!NoFile,
     SF!NoKey, SFRefs
<1>10. SFDue' \subseteq SF!File
  BY <1>2 DEF SFTypesOfDatabases, SFDue
<1>11. SFGone' \subseteq SF!File /\ nextFile' \in Nat
  BY <1>3, <1>4 DEF SFTypesOfFiles, SFTypesOfCounts, SFGone
<1>12. SFNames'
  BY <1>1, <1>6, <1>7, <1>8, <1>9, <1>10, <1>11 DEF SF!UploadCompletes, SF!Write, SF!Remove,
     SFNames, SFTypesOfFiles
<1>13. SFOneOwner'
  BY <1>6 DEF SFOneOwner, SFUploadsUnowned
<1>14. SFUploadsWritten'
  BY <1>1 DEF SF!UploadCompletes, SF!Write, SF!Remove, SFUploadsWritten, SFUploadsKept, SFGone,
     SFTypesOfFiles
<1>15. SFUploadsKept'
  BY <1>1, <1>6, <1>7, <1>8, <1>9, <1>10, <1>11 DEF SF!UploadCompletes, SF!Write, SF!Remove,
     SFUploadsKept, SFUploadsApart, SFUploadsUnowned, SFNames, SFTypesOfFiles
<1>16. SFUploadsUnread'
  BY <1>1, <1>6, <1>7, <1>8, <1>9, <1>10, <1>11 DEF SF!UploadCompletes, SF!Write, SF!Remove,
     SFUploadsUnread, SFTypesOfCounts, SFTypesOfFiles, SFUploadsUnowned, SFNames,
     SFTypesOfDatabases, SFDatabase, SF!Properties, SFRefs
<1>17. SFUploadsUnowned'
  BY <1>1, <1>6, <1>7, <1>8, <1>9, <1>10, <1>11 DEF SF!UploadCompletes, SF!Write, SF!Remove,
     SFUploadsUnowned, SFNames, SFUploadsApart, SFTypesOfFiles
<1>18. SFUploadsKeyed'
  BY <1>1, <1>6, <1>7, <1>8, <1>9, <1>10, <1>11 DEF SF!UploadCompletes, SF!Write, SF!Remove,
     SFUploadsKeyed, SFTypesOfFiles, SFTypesOfDatabases, SFDatabase, SF!Properties
<1>19. SFUploadsApart'
  BY <1>1, <1>6, <1>7, <1>8, <1>9, <1>10, <1>11 DEF SF!UploadCompletes, SF!Write, SF!Remove,
     SFUploadsApart, SFNames, SFTypesOfFiles
<1>20. SFFilesKept'
  BY <1>1, <1>6, <1>7, <1>8, <1>9, <1>10, <1>11 DEF SF!UploadCompletes, SF!Write, SF!Remove,
     SFFilesKept, SFLost, SFUploadsUnowned, SFUploadsKept
<1>21. SFFilesThere'
  <2>1. files' = files /\ SFLost \subseteq SFLost'
    BY DEF SF!UploadCompletes, SFLost
  <2>2. [file |-> u.file, key |-> u.key] \in files
    BY DEF SFUploadsWritten
  <2> QED
    BY <1>6, <1>9, <2>1, <2>2 DEF SFFilesThere
<1>22. SFKeys'
  <2>1. /\ files' = files /\ SFLost \subseteq SFLost' /\ mixed \subseteq mixed'
        /\ UNCHANGED <<disk, writing>> /\ pending'.content = secrets'
    BY DEF SF!UploadCompletes, SFLost, SF!Write
  <2>2. secrets' = [secrets EXCEPT ![u.secret].value = u.content, ![u.secret].file = u.file]
    BY DEF SF!UploadCompletes
  <2>3. \A t \in Secret : /\ secrets'[t].file = IF t = u.secret THEN u.file ELSE secrets[t].file
                          /\ secrets'[t].key = secrets[t].key
    BY <2>2 DEF SFTypesOfDatabases, SFDatabase, SF!Properties
  <2>4. u.same \/ u.secret \in mixed'
    BY DEF SF!UploadCompletes
  <2>5. /\ [file |-> u.file, key |-> u.key] \in files
        /\ u.same => u.key = secrets[u.secret].key
    BY DEF SFUploadsWritten, SFUploadsKeyed
  <2>6. SFKeysFit(secrets)'
    BY <2>1, <2>3, <2>4, <2>5 DEF SFKeys, SFKeysFit
  <2>7. SFKeysFit(pending.content)'
    BY <2>6, <2>1 DEF SFKeysFit
  <2>8. SFKeysFit(disk)' /\ SFKeysFit(writing.content)'
    BY <2>1 DEF SFKeys, SFKeysFit
  <2> QED
    BY <2>6, <2>7, <2>8 DEF SFKeys
<1>23. SFDueAfterWrite'
  BY <1>1, <1>6, <1>7, <1>8, <1>9, <1>10, <1>11 DEF SF!UploadCompletes, SF!Write, SF!Remove,
     SFTypesOfDatabases, SFDatabase, SF!Properties, SF!Value, SF!File, SF!NoFile, SF!NoKey,
     SFDueAfterWrite, SFDue, SFLost, SFRefs, SFOneOwner, SFUploadsKept, SF!Idle, SF!Absent
<1>24. SFDownloadsStand'
  BY <1>1, <1>6, <1>7, <1>8, <1>9, <1>10, <1>11 DEF SF!UploadCompletes, SF!Write, SF!Remove,
     SFDownloadsStand, SFFilesThere, SFFilesKept, SFGone, SFLost, SFUploadsUnread
<1> QED
  BY <1>2, <1>3, <1>4, <1>5, <1>12, <1>13, <1>14, <1>15, <1>16, <1>17, <1>18, <1>19, <1>20,
     <1>21, <1>22, <1>23, <1>24

LEMMA SFUploadRefusedStep ==
  ASSUME SFConstants, SFInv, NEW u \in uploads, SF!UploadRefused(u)
  PROVE SFInv'
<1> USE DEF SFInv, SFTypes, SFUploadsStand, SFConstants, SF!database, SF!history
<1>1. /\ SFRefs \in [Secret -> SUBSET SF!File] /\ SFDue \subseteq SF!File /\ SFGone \subseteq SF!File /\ writing.then \subseteq SFDue
      /\ nextFile \in Nat /\ \A g \in SF!File : g \in Nat
  BY SFTyped
<1>2. SFTypesOfDatabases'
  BY DEF SF!UploadRefused, SFTypesOfDatabases, SFDatabase, SF!Properties, SF!Value, SF!File,
     SF!NoFile, SF!NoKey, SF!Idle, SF!Absent, SFTypesOfFiles
<1>3. SFTypesOfFiles'
  BY DEF SF!UploadRefused, SFTypesOfDatabases, SFDatabase, SF!Properties, SF!Value, SF!File,
     SF!NoFile, SF!NoKey, SFTypesOfFiles, SFTypesOfCounts
<1>4. SFTypesOfCounts'
  BY DEF SF!UploadRefused, SFTypesOfDatabases, SFDatabase, SF!Properties, SF!NoFile,
     SFTypesOfCounts, SF!File
<1>5. SFEmpty'
  BY DEF SF!UploadRefused, SFEmpty, SFTypesOfDatabases
<1>6. \A t \in Secret : SFRefs'[t] \subseteq SFRefs[t]
  BY DEF SF!UploadRefused, SFTypesOfDatabases, SFDatabase, SF!Properties, SF!Value, SF!File,
     SF!NoFile, SF!NoKey, SFRefs, SF!Idle, SF!Absent, SFTypesOfFiles
<1>7. SFDue' \subseteq SFDue
  BY DEF SF!UploadRefused, SFTypesOfDatabases, SFDatabase, SF!Properties, SF!Value, SF!File,
     SF!NoFile, SF!NoKey, SFRefs, SF!Idle, SFDue
<1>8. SFGone' = SFGone \cup {u.file}
  BY DEF SF!UploadRefused, SFTypesOfDatabases, SFDatabase, SF!Properties, SF!Value, SF!File,
     SF!NoFile, SF!NoKey, SFRefs, SF!Idle, SFGone
<1>9. SFRefs' \in [Secret -> SUBSET SF!File]
  BY <1>2 DEF SFTypesOfDatabases, SFDatabase, SF!Properties, SF!Value, SF!File, SF!NoFile,
     SF!NoKey, SFRefs
<1>10. SFDue' \subseteq SF!File
  BY <1>2 DEF SFTypesOfDatabases, SFDue
<1>11. SFGone' \subseteq SF!File /\ nextFile' \in Nat
  BY <1>3, <1>4 DEF SFTypesOfFiles, SFTypesOfCounts, SFGone
<1>12. SFNames'
  BY <1>1, <1>6, <1>7, <1>8, <1>9, <1>10, <1>11 DEF SF!UploadRefused, SFNames, SFTypesOfFiles
<1>13. SFOneOwner'
  BY <1>6 DEF SFOneOwner, SFUploadsUnowned
<1>14. SFUploadsWritten'
  BY <1>1 DEF SF!UploadRefused, SFUploadsWritten, SFUploadsKept, SFGone, SFTypesOfFiles
<1>15. SFUploadsKept'
  BY <1>1, <1>6, <1>7, <1>8, <1>9, <1>10, <1>11 DEF SF!UploadRefused, SFUploadsKept,
     SFUploadsApart, SFUploadsUnowned, SFNames, SFTypesOfFiles
<1>16. SFUploadsUnread'
  BY <1>1, <1>6, <1>7, <1>8, <1>9, <1>10, <1>11 DEF SF!UploadRefused, SFUploadsUnread,
     SFTypesOfCounts, SFTypesOfFiles, SFUploadsUnowned, SFNames, SFTypesOfDatabases, SFDatabase,
     SF!Properties, SFRefs
<1>17. SFUploadsUnowned'
  BY <1>1, <1>6, <1>7, <1>8, <1>9, <1>10, <1>11 DEF SF!UploadRefused, SFUploadsUnowned,
     SFNames, SFUploadsApart, SFTypesOfFiles
<1>18. SFUploadsKeyed'
  BY <1>1, <1>6, <1>7, <1>8, <1>9, <1>10, <1>11 DEF SF!UploadRefused, SFUploadsKeyed,
     SFTypesOfFiles, SFTypesOfDatabases, SFDatabase, SF!Properties
<1>19. SFUploadsApart'
  BY <1>1, <1>6, <1>7, <1>8, <1>9, <1>10, <1>11 DEF SF!UploadRefused, SFUploadsApart, SFNames,
     SFTypesOfFiles
<1>20. SFFilesKept'
  BY <1>1, <1>6, <1>7, <1>8, <1>9, <1>10, <1>11 DEF SF!UploadRefused, SFFilesKept, SFLost,
     SFUploadsUnowned, SFUploadsKept
<1>21. SFFilesThere'
  BY <1>1, <1>6, <1>7, <1>8, <1>9, <1>10, <1>11 DEF SF!UploadRefused, SFFilesThere,
     SFFilesKept, SFGone, SFLost, SFUploadsWritten, SFTypesOfFiles
<1>22. SFKeys'
  BY <1>1, <1>6, <1>7, <1>8, <1>9, <1>10, <1>11 DEF SF!UploadRefused, SFTypesOfDatabases,
     SFDatabase, SF!Properties, SF!Value, SF!File, SF!NoFile, SF!NoKey, SFKeys, SFKeysFit,
     SFFilesKept, SFGone, SFLost, SFRefs, SF!Idle, SF!Absent
<1>23. SFDueAfterWrite'
  BY <1>1, <1>6, <1>7, <1>8, <1>9, <1>10, <1>11 DEF SF!UploadRefused, SFTypesOfDatabases,
     SFDatabase, SF!Properties, SF!Value, SF!File, SF!NoFile, SF!NoKey, SFDueAfterWrite, SFDue,
     SFLost, SFRefs, SFOneOwner, SFUploadsKept, SF!Idle, SF!Absent
<1>24. SFDownloadsStand'
  BY <1>1, <1>6, <1>7, <1>8, <1>9, <1>10, <1>11 DEF SF!UploadRefused, SFDownloadsStand,
     SFFilesThere, SFFilesKept, SFGone, SFLost, SFUploadsUnread
<1> QED
  BY <1>2, <1>3, <1>4, <1>5, <1>12, <1>13, <1>14, <1>15, <1>16, <1>17, <1>18, <1>19, <1>20,
     <1>21, <1>22, <1>23, <1>24

LEMMA SFUploadFailsStep ==
  ASSUME SFConstants, SFInv, NEW u \in uploads, SF!UploadFails(u)
  PROVE SFInv'
<1> USE DEF SFInv, SFTypes, SFUploadsStand, SFConstants, SF!database, SF!history
<1>1. /\ SFRefs \in [Secret -> SUBSET SF!File] /\ SFDue \subseteq SF!File /\ SFGone \subseteq SF!File /\ writing.then \subseteq SFDue
      /\ nextFile \in Nat /\ \A g \in SF!File : g \in Nat
  BY SFTyped
<1>2. SFTypesOfDatabases'
  BY DEF SF!UploadFails, SF!Spend, SFTypesOfDatabases, SFDatabase, SF!Properties, SF!Value,
     SF!File, SF!NoFile, SF!NoKey, SF!Idle, SF!Absent, SFTypesOfFiles
<1>3. SFTypesOfFiles'
  BY DEF SF!UploadFails, SF!Spend, SFTypesOfDatabases, SFDatabase, SF!Properties, SF!Value,
     SF!File, SF!NoFile, SF!NoKey, SFTypesOfFiles, SFTypesOfCounts
<1>4. SFTypesOfCounts'
  BY DEF SF!UploadFails, SF!Spend, SFTypesOfDatabases, SFDatabase, SF!Properties, SF!NoFile,
     SFTypesOfCounts, SF!File
<1>5. SFEmpty'
  BY DEF SF!UploadFails, SF!Spend, SFEmpty, SFTypesOfDatabases
<1>6. \A t \in Secret : SFRefs'[t] \subseteq SFRefs[t]
  BY DEF SF!UploadFails, SF!Spend, SFTypesOfDatabases, SFDatabase, SF!Properties, SF!Value,
     SF!File, SF!NoFile, SF!NoKey, SFRefs, SF!Idle, SF!Absent, SFTypesOfFiles
<1>7. SFDue' \subseteq SFDue
  BY DEF SF!UploadFails, SF!Spend, SFTypesOfDatabases, SFDatabase, SF!Properties, SF!Value,
     SF!File, SF!NoFile, SF!NoKey, SFRefs, SF!Idle, SFDue
<1>8. SFGone' = SFGone \cup {u.file}
  BY DEF SF!UploadFails, SF!Spend, SFTypesOfDatabases, SFDatabase, SF!Properties, SF!Value,
     SF!File, SF!NoFile, SF!NoKey, SFRefs, SF!Idle, SFGone
<1>9. SFRefs' \in [Secret -> SUBSET SF!File]
  BY <1>2 DEF SFTypesOfDatabases, SFDatabase, SF!Properties, SF!Value, SF!File, SF!NoFile,
     SF!NoKey, SFRefs
<1>10. SFDue' \subseteq SF!File
  BY <1>2 DEF SFTypesOfDatabases, SFDue
<1>11. SFGone' \subseteq SF!File /\ nextFile' \in Nat
  BY <1>3, <1>4 DEF SFTypesOfFiles, SFTypesOfCounts, SFGone
<1>12. SFNames'
  BY <1>1, <1>6, <1>7, <1>8, <1>9, <1>10, <1>11 DEF SF!UploadFails, SF!Spend, SFNames,
     SFTypesOfFiles
<1>13. SFOneOwner'
  BY <1>6 DEF SFOneOwner, SFUploadsUnowned
<1>14. SFUploadsWritten'
  BY <1>1 DEF SF!UploadFails, SF!Spend, SFUploadsWritten, SFUploadsKept, SFGone, SFTypesOfFiles
<1>15. SFUploadsKept'
  BY <1>1, <1>6, <1>7, <1>8, <1>9, <1>10, <1>11 DEF SF!UploadFails, SF!Spend, SFUploadsKept,
     SFUploadsApart, SFUploadsUnowned, SFNames, SFTypesOfFiles
<1>16. SFUploadsUnread'
  BY <1>1, <1>6, <1>7, <1>8, <1>9, <1>10, <1>11 DEF SF!UploadFails, SF!Spend, SFUploadsUnread,
     SFTypesOfCounts, SFTypesOfFiles, SFUploadsUnowned, SFNames, SFTypesOfDatabases, SFDatabase,
     SF!Properties, SFRefs
<1>17. SFUploadsUnowned'
  BY <1>1, <1>6, <1>7, <1>8, <1>9, <1>10, <1>11 DEF SF!UploadFails, SF!Spend, SFUploadsUnowned,
     SFNames, SFUploadsApart, SFTypesOfFiles
<1>18. SFUploadsKeyed'
  BY <1>1, <1>6, <1>7, <1>8, <1>9, <1>10, <1>11 DEF SF!UploadFails, SF!Spend, SFUploadsKeyed,
     SFTypesOfFiles, SFTypesOfDatabases, SFDatabase, SF!Properties
<1>19. SFUploadsApart'
  BY <1>1, <1>6, <1>7, <1>8, <1>9, <1>10, <1>11 DEF SF!UploadFails, SF!Spend, SFUploadsApart,
     SFNames, SFTypesOfFiles
<1>20. SFFilesKept'
  BY <1>1, <1>6, <1>7, <1>8, <1>9, <1>10, <1>11 DEF SF!UploadFails, SF!Spend, SFFilesKept,
     SFLost, SFUploadsUnowned, SFUploadsKept
<1>21. SFFilesThere'
  BY <1>1, <1>6, <1>7, <1>8, <1>9, <1>10, <1>11 DEF SF!UploadFails, SF!Spend, SFFilesThere,
     SFFilesKept, SFGone, SFLost, SFUploadsWritten, SFTypesOfFiles
<1>22. SFKeys'
  BY <1>1, <1>6, <1>7, <1>8, <1>9, <1>10, <1>11 DEF SF!UploadFails, SF!Spend,
     SFTypesOfDatabases, SFDatabase, SF!Properties, SF!Value, SF!File, SF!NoFile, SF!NoKey,
     SFKeys, SFKeysFit, SFFilesKept, SFGone, SFLost, SFRefs, SF!Idle, SF!Absent
<1>23. SFDueAfterWrite'
  BY <1>1, <1>6, <1>7, <1>8, <1>9, <1>10, <1>11 DEF SF!UploadFails, SF!Spend,
     SFTypesOfDatabases, SFDatabase, SF!Properties, SF!Value, SF!File, SF!NoFile, SF!NoKey,
     SFDueAfterWrite, SFDue, SFLost, SFRefs, SFOneOwner, SFUploadsKept, SF!Idle, SF!Absent
<1>24. SFDownloadsStand'
  BY <1>1, <1>6, <1>7, <1>8, <1>9, <1>10, <1>11 DEF SF!UploadFails, SF!Spend, SFDownloadsStand,
     SFFilesThere, SFFilesKept, SFGone, SFLost, SFUploadsUnread
<1> QED
  BY <1>2, <1>3, <1>4, <1>5, <1>12, <1>13, <1>14, <1>15, <1>16, <1>17, <1>18, <1>19, <1>20,
     <1>21, <1>22, <1>23, <1>24

LEMMA SFDownloadStep ==
  ASSUME SFConstants, SFInv, NEW s \in Secret, SF!Download(s)
  PROVE SFInv'
<1> USE DEF SFInv, SFTypes, SFUploadsStand, SFConstants, SF!database, SF!history
<1>1. /\ SFRefs \in [Secret -> SUBSET SF!File] /\ SFDue \subseteq SF!File /\ SFGone \subseteq SF!File /\ writing.then \subseteq SFDue
      /\ nextFile \in Nat /\ \A g \in SF!File : g \in Nat
  BY SFTyped
<1>2. secrets[s].file \in SFRefs[s] /\ secrets[s].file \in SF!File
  BY DEF SF!Download, SFRefs, SFTypesOfDatabases, SFDatabase, SF!Properties, SF!Value, SF!File,
     SF!NoFile, SF!NoKey
<1>3. SFTypesOfDatabases'
  BY DEF SF!Download, SF!Count, SFTypesOfDatabases, SFDatabase, SF!Properties, SF!Value,
     SF!File, SF!NoFile, SF!NoKey, SF!Idle, SF!Absent, SFTypesOfFiles
<1>4. SFTypesOfFiles'
  BY DEF SF!Download, SF!Count, SFTypesOfDatabases, SFDatabase, SF!Properties, SF!Value,
     SF!File, SF!NoFile, SF!NoKey, SFTypesOfFiles, SFTypesOfCounts
<1>5. SFTypesOfCounts'
  BY DEF SF!Download, SF!Count, SFTypesOfDatabases, SFDatabase, SF!Properties, SF!NoFile,
     SFTypesOfCounts, SF!File
<1>6. SFEmpty'
  BY DEF SF!Download, SF!Count, SFEmpty, SFTypesOfDatabases
<1>7. \A t \in Secret : SFRefs'[t] \subseteq SFRefs[t]
  BY DEF SF!Download, SF!Count, SFTypesOfDatabases, SFDatabase, SF!Properties, SF!Value,
     SF!File, SF!NoFile, SF!NoKey, SFRefs, SF!Idle, SF!Absent, SFTypesOfFiles
<1>8. SFDue' \subseteq SFDue
  BY DEF SF!Download, SF!Count, SFTypesOfDatabases, SFDatabase, SF!Properties, SF!Value,
     SF!File, SF!NoFile, SF!NoKey, SFRefs, SF!Idle, SFDue
<1>9. SFGone' = SFGone
  BY DEF SF!Download, SF!Count, SFTypesOfDatabases, SFDatabase, SF!Properties, SF!Value,
     SF!File, SF!NoFile, SF!NoKey, SFRefs, SF!Idle, SFGone
<1>10. SFRefs' \in [Secret -> SUBSET SF!File]
  BY <1>3 DEF SFTypesOfDatabases, SFDatabase, SF!Properties, SF!Value, SF!File, SF!NoFile,
     SF!NoKey, SFRefs
<1>11. SFDue' \subseteq SF!File
  BY <1>3 DEF SFTypesOfDatabases, SFDue
<1>12. SFGone' \subseteq SF!File /\ nextFile' \in Nat
  BY <1>4, <1>5 DEF SFTypesOfFiles, SFTypesOfCounts, SFGone
<1>13. SFNames'
  BY <1>1, <1>7, <1>8, <1>9, <1>10, <1>11, <1>12, <1>2 DEF SF!Download, SF!Count, SFNames,
     SFTypesOfFiles, SFTypesOfCounts
<1>14. SFOneOwner'
  BY <1>7 DEF SFOneOwner, SFUploadsUnowned
<1>15. SFUploadsWritten'
  BY <1>1 DEF SF!Download, SF!Count, SFUploadsWritten, SFUploadsKept, SFGone, SFTypesOfFiles
<1>16. SFUploadsKept'
  BY <1>1, <1>7, <1>8, <1>9, <1>10, <1>11, <1>12 DEF SF!Download, SF!Count, SFUploadsKept,
     SFUploadsApart, SFUploadsUnowned, SFNames, SFTypesOfFiles
<1>17. SFUploadsUnread'
  BY <1>1, <1>7, <1>8, <1>9, <1>10, <1>11, <1>12 DEF SF!Download, SF!Count, SFUploadsUnread,
     SFTypesOfCounts, SFTypesOfFiles, SFUploadsUnowned, SFNames, SFTypesOfDatabases, SFDatabase,
     SF!Properties, SFRefs
<1>18. SFUploadsUnowned'
  BY <1>1, <1>7, <1>8, <1>9, <1>10, <1>11, <1>12 DEF SF!Download, SF!Count, SFUploadsUnowned,
     SFNames, SFUploadsApart, SFTypesOfFiles
<1>19. SFUploadsKeyed'
  BY <1>1, <1>7, <1>8, <1>9, <1>10, <1>11, <1>12 DEF SF!Download, SF!Count, SFUploadsKeyed,
     SFTypesOfFiles, SFTypesOfDatabases, SFDatabase, SF!Properties
<1>20. SFUploadsApart'
  BY <1>1, <1>7, <1>8, <1>9, <1>10, <1>11, <1>12 DEF SF!Download, SF!Count, SFUploadsApart,
     SFNames, SFTypesOfFiles
<1>21. SFFilesKept'
  BY <1>1, <1>7, <1>8, <1>9, <1>10, <1>11, <1>12 DEF SF!Download, SF!Count, SFFilesKept, SFLost,
     SFUploadsUnowned, SFUploadsKept
<1>22. SFFilesThere'
  BY <1>1, <1>7, <1>8, <1>9, <1>10, <1>11, <1>12 DEF SF!Download, SF!Count, SFFilesThere,
     SFFilesKept, SFGone, SFLost, SFUploadsWritten, SFTypesOfFiles
<1>23. SFKeys'
  BY <1>1, <1>7, <1>8, <1>9, <1>10, <1>11, <1>12 DEF SF!Download, SF!Count, SFTypesOfDatabases,
     SFDatabase, SF!Properties, SF!Value, SF!File, SF!NoFile, SF!NoKey, SFKeys, SFKeysFit,
     SFFilesKept, SFGone, SFLost, SFRefs, SF!Idle, SF!Absent
<1>24. SFDueAfterWrite'
  BY <1>1, <1>7, <1>8, <1>9, <1>10, <1>11, <1>12 DEF SF!Download, SF!Count, SFTypesOfDatabases,
     SFDatabase, SF!Properties, SF!Value, SF!File, SF!NoFile, SF!NoKey, SFDueAfterWrite, SFDue,
     SFLost, SFRefs, SFOneOwner, SFUploadsKept, SF!Idle, SF!Absent
<1>25. SFDownloadsStand'
  BY <1>1, <1>7, <1>8, <1>9, <1>10, <1>11, <1>12, <1>2 DEF SF!Download, SF!Count,
     SFDownloadsStand, SFFilesThere, SFFilesKept, SFGone, SFLost, SFUploadsUnread,
     SFTypesOfCounts
<1> QED
  BY <1>3, <1>4, <1>5, <1>6, <1>13, <1>14, <1>15, <1>16, <1>17, <1>18, <1>19, <1>20, <1>21,
     <1>22, <1>23, <1>24, <1>25

LEMMA SFDownloadEndsStep ==
  ASSUME SFConstants, SFInv, NEW f \in SF!File, SF!DownloadEnds(f)
  PROVE SFInv'
<1> USE DEF SFInv, SFTypes, SFUploadsStand, SFConstants, SF!database, SF!history
<1>1. /\ SFRefs \in [Secret -> SUBSET SF!File] /\ SFDue \subseteq SF!File /\ SFGone \subseteq SF!File /\ writing.then \subseteq SFDue
      /\ nextFile \in Nat /\ \A g \in SF!File : g \in Nat
  BY SFTyped
<1>2. SFTypesOfDatabases'
  BY DEF SF!DownloadEnds, SFTypesOfDatabases, SFDatabase, SF!Properties, SF!Value, SF!File,
     SF!NoFile, SF!NoKey, SF!Idle, SF!Absent, SFTypesOfFiles
<1>3. SFTypesOfFiles'
  BY DEF SF!DownloadEnds, SFTypesOfDatabases, SFDatabase, SF!Properties, SF!Value, SF!File,
     SF!NoFile, SF!NoKey, SFTypesOfFiles, SFTypesOfCounts
<1>4. SFTypesOfCounts'
  BY DEF SF!DownloadEnds, SFTypesOfDatabases, SFDatabase, SF!Properties, SF!NoFile,
     SFTypesOfCounts, SF!File
<1>5. SFEmpty'
  BY DEF SF!DownloadEnds, SFEmpty, SFTypesOfDatabases
<1>6. \A t \in Secret : SFRefs'[t] \subseteq SFRefs[t]
  BY DEF SF!DownloadEnds, SFTypesOfDatabases, SFDatabase, SF!Properties, SF!Value, SF!File,
     SF!NoFile, SF!NoKey, SFRefs, SF!Idle, SF!Absent, SFTypesOfFiles
<1>7. SFDue' \subseteq SFDue
  BY DEF SF!DownloadEnds, SFTypesOfDatabases, SFDatabase, SF!Properties, SF!Value, SF!File,
     SF!NoFile, SF!NoKey, SFRefs, SF!Idle, SFDue
<1>8. SFGone' \subseteq SFGone
  BY DEF SF!DownloadEnds, SFTypesOfDatabases, SFDatabase, SF!Properties, SF!Value, SF!File,
     SF!NoFile, SF!NoKey, SFRefs, SF!Idle, SFGone
<1>9. SFRefs' \in [Secret -> SUBSET SF!File]
  BY <1>2 DEF SFTypesOfDatabases, SFDatabase, SF!Properties, SF!Value, SF!File, SF!NoFile,
     SF!NoKey, SFRefs
<1>10. SFDue' \subseteq SF!File
  BY <1>2 DEF SFTypesOfDatabases, SFDue
<1>11. SFGone' \subseteq SF!File /\ nextFile' \in Nat
  BY <1>3, <1>4 DEF SFTypesOfFiles, SFTypesOfCounts, SFGone
<1>12. SFNames'
  BY <1>1, <1>6, <1>7, <1>8, <1>9, <1>10, <1>11 DEF SF!DownloadEnds, SFNames, SFTypesOfFiles
<1>13. SFOneOwner'
  BY <1>6 DEF SFOneOwner, SFUploadsUnowned
<1>14. SFUploadsWritten'
  BY <1>1 DEF SF!DownloadEnds, SFUploadsWritten, SFUploadsKept, SFGone, SFTypesOfFiles
<1>15. SFUploadsKept'
  BY <1>1, <1>6, <1>7, <1>8, <1>9, <1>10, <1>11 DEF SF!DownloadEnds, SFUploadsKept,
     SFUploadsApart, SFUploadsUnowned, SFNames, SFTypesOfFiles
<1>16. SFUploadsUnread'
  BY <1>1, <1>6, <1>7, <1>8, <1>9, <1>10, <1>11 DEF SF!DownloadEnds, SFUploadsUnread,
     SFTypesOfCounts, SFTypesOfFiles, SFUploadsUnowned, SFNames, SFTypesOfDatabases, SFDatabase,
     SF!Properties, SFRefs
<1>17. SFUploadsUnowned'
  BY <1>1, <1>6, <1>7, <1>8, <1>9, <1>10, <1>11 DEF SF!DownloadEnds, SFUploadsUnowned, SFNames,
     SFUploadsApart, SFTypesOfFiles
<1>18. SFUploadsKeyed'
  BY <1>1, <1>6, <1>7, <1>8, <1>9, <1>10, <1>11 DEF SF!DownloadEnds, SFUploadsKeyed,
     SFTypesOfFiles, SFTypesOfDatabases, SFDatabase, SF!Properties
<1>19. SFUploadsApart'
  BY <1>1, <1>6, <1>7, <1>8, <1>9, <1>10, <1>11 DEF SF!DownloadEnds, SFUploadsApart, SFNames,
     SFTypesOfFiles
<1>20. SFFilesKept'
  BY <1>1, <1>6, <1>7, <1>8, <1>9, <1>10, <1>11 DEF SF!DownloadEnds, SFFilesKept, SFLost,
     SFUploadsUnowned, SFUploadsKept
<1>21. SFFilesThere'
  BY <1>1, <1>6, <1>7, <1>8, <1>9, <1>10, <1>11 DEF SF!DownloadEnds, SFFilesThere, SFFilesKept,
     SFGone, SFLost, SFUploadsWritten, SFTypesOfFiles
<1>22. SFKeys'
  BY <1>1, <1>6, <1>7, <1>8, <1>9, <1>10, <1>11 DEF SF!DownloadEnds, SFTypesOfDatabases,
     SFDatabase, SF!Properties, SF!Value, SF!File, SF!NoFile, SF!NoKey, SFKeys, SFKeysFit,
     SFFilesKept, SFGone, SFLost, SFRefs, SF!Idle, SF!Absent
<1>23. SFDueAfterWrite'
  BY <1>1, <1>6, <1>7, <1>8, <1>9, <1>10, <1>11 DEF SF!DownloadEnds, SFTypesOfDatabases,
     SFDatabase, SF!Properties, SF!Value, SF!File, SF!NoFile, SF!NoKey, SFDueAfterWrite, SFDue,
     SFLost, SFRefs, SFOneOwner, SFUploadsKept, SF!Idle, SF!Absent
<1>24. SFDownloadsStand'
  BY <1>1, <1>6, <1>7, <1>8, <1>9, <1>10, <1>11 DEF SF!DownloadEnds, SFDownloadsStand,
     SFFilesThere, SFFilesKept, SFGone, SFLost, SFUploadsUnread, SFTypesOfCounts
<1> QED
  BY <1>2, <1>3, <1>4, <1>5, <1>12, <1>13, <1>14, <1>15, <1>16, <1>17, <1>18, <1>19, <1>20,
     <1>21, <1>22, <1>23, <1>24

LEMMA SFRemoveFileStep ==
  ASSUME SFConstants, SFInv, NEW f \in SF!File, SF!RemoveFile(f)
  PROVE SFInv'
<1> USE DEF SFInv, SFTypes, SFUploadsStand, SFConstants, SF!database, SF!history
<1>1. /\ SFRefs \in [Secret -> SUBSET SF!File] /\ SFDue \subseteq SF!File /\ SFGone \subseteq SF!File /\ writing.then \subseteq SFDue
      /\ nextFile \in Nat /\ \A g \in SF!File : g \in Nat
  BY SFTyped
<1>2. SFTypesOfDatabases'
  BY DEF SF!RemoveFile, SFTypesOfDatabases, SFDatabase, SF!Properties, SF!Value, SF!File,
     SF!NoFile, SF!NoKey, SF!Idle, SF!Absent, SFTypesOfFiles
<1>3. SFTypesOfFiles'
  BY DEF SF!RemoveFile, SFTypesOfDatabases, SFDatabase, SF!Properties, SF!Value, SF!File,
     SF!NoFile, SF!NoKey, SFTypesOfFiles, SFTypesOfCounts
<1>4. SFTypesOfCounts'
  BY DEF SF!RemoveFile, SFTypesOfDatabases, SFDatabase, SF!Properties, SF!NoFile,
     SFTypesOfCounts, SF!File
<1>5. SFEmpty'
  BY DEF SF!RemoveFile, SFEmpty, SFTypesOfDatabases
<1>6. \A t \in Secret : SFRefs'[t] \subseteq SFRefs[t]
  BY DEF SF!RemoveFile, SFTypesOfDatabases, SFDatabase, SF!Properties, SF!Value, SF!File,
     SF!NoFile, SF!NoKey, SFRefs, SF!Idle, SF!Absent, SFTypesOfFiles
<1>7. SFDue' \subseteq SFDue
  BY DEF SF!RemoveFile, SFTypesOfDatabases, SFDatabase, SF!Properties, SF!Value, SF!File,
     SF!NoFile, SF!NoKey, SFRefs, SF!Idle, SFDue
<1>8. SFGone' \subseteq SFGone
  BY DEF SF!RemoveFile, SFTypesOfDatabases, SFDatabase, SF!Properties, SF!Value, SF!File,
     SF!NoFile, SF!NoKey, SFRefs, SF!Idle, SFGone
<1>9. SFRefs' \in [Secret -> SUBSET SF!File]
  BY <1>2 DEF SFTypesOfDatabases, SFDatabase, SF!Properties, SF!Value, SF!File, SF!NoFile,
     SF!NoKey, SFRefs
<1>10. SFDue' \subseteq SF!File
  BY <1>2 DEF SFTypesOfDatabases, SFDue
<1>11. SFGone' \subseteq SF!File /\ nextFile' \in Nat
  BY <1>3, <1>4 DEF SFTypesOfFiles, SFTypesOfCounts, SFGone
<1>12. SFNames'
  BY <1>1, <1>6, <1>7, <1>8, <1>9, <1>10, <1>11 DEF SF!RemoveFile, SFNames, SFTypesOfFiles
<1>13. SFOneOwner'
  BY <1>6 DEF SFOneOwner, SFUploadsUnowned
<1>14. SFUploadsWritten'
  BY <1>1 DEF SF!RemoveFile, SFUploadsWritten, SFUploadsKept, SFGone, SFTypesOfFiles
<1>15. SFUploadsKept'
  BY <1>1, <1>6, <1>7, <1>8, <1>9, <1>10, <1>11 DEF SF!RemoveFile, SFUploadsKept,
     SFUploadsApart, SFUploadsUnowned, SFNames, SFTypesOfFiles
<1>16. SFUploadsUnread'
  BY <1>1, <1>6, <1>7, <1>8, <1>9, <1>10, <1>11 DEF SF!RemoveFile, SFUploadsUnread,
     SFTypesOfCounts, SFTypesOfFiles, SFUploadsUnowned, SFNames, SFTypesOfDatabases, SFDatabase,
     SF!Properties, SFRefs
<1>17. SFUploadsUnowned'
  BY <1>1, <1>6, <1>7, <1>8, <1>9, <1>10, <1>11 DEF SF!RemoveFile, SFUploadsUnowned, SFNames,
     SFUploadsApart, SFTypesOfFiles
<1>18. SFUploadsKeyed'
  BY <1>1, <1>6, <1>7, <1>8, <1>9, <1>10, <1>11 DEF SF!RemoveFile, SFUploadsKeyed,
     SFTypesOfFiles, SFTypesOfDatabases, SFDatabase, SF!Properties
<1>19. SFUploadsApart'
  BY <1>1, <1>6, <1>7, <1>8, <1>9, <1>10, <1>11 DEF SF!RemoveFile, SFUploadsApart, SFNames,
     SFTypesOfFiles
<1>20. SFFilesKept'
  BY <1>1, <1>6, <1>7, <1>8, <1>9, <1>10, <1>11 DEF SF!RemoveFile, SFFilesKept, SFLost,
     SFUploadsUnowned, SFUploadsKept
<1>21. SFFilesThere'
  BY <1>1, <1>6, <1>7, <1>8, <1>9, <1>10, <1>11 DEF SF!RemoveFile, SFFilesThere, SFFilesKept,
     SFGone, SFLost, SFUploadsWritten, SFTypesOfFiles
<1>22. SFKeys'
  BY <1>1, <1>6, <1>7, <1>8, <1>9, <1>10, <1>11 DEF SF!RemoveFile, SFTypesOfDatabases,
     SFDatabase, SF!Properties, SF!Value, SF!File, SF!NoFile, SF!NoKey, SFKeys, SFKeysFit,
     SFFilesKept, SFGone, SFLost, SFRefs, SF!Idle, SF!Absent
<1>23. SFDueAfterWrite'
  BY <1>1, <1>6, <1>7, <1>8, <1>9, <1>10, <1>11 DEF SF!RemoveFile, SFTypesOfDatabases,
     SFDatabase, SF!Properties, SF!Value, SF!File, SF!NoFile, SF!NoKey, SFDueAfterWrite, SFDue,
     SFLost, SFRefs, SFOneOwner, SFUploadsKept, SF!Idle, SF!Absent
<1>24. SFDownloadsStand'
  BY <1>1, <1>6, <1>7, <1>8, <1>9, <1>10, <1>11 DEF SF!RemoveFile, SFDownloadsStand,
     SFFilesThere, SFFilesKept, SFGone, SFLost, SFUploadsUnread
<1> QED
  BY <1>2, <1>3, <1>4, <1>5, <1>12, <1>13, <1>14, <1>15, <1>16, <1>17, <1>18, <1>19, <1>20,
     <1>21, <1>22, <1>23, <1>24

LEMMA SFWriteBeginsStep ==
  ASSUME SFConstants, SFInv, SF!WriteBegins
  PROVE SFInv'
<1> USE DEF SFInv, SFTypes, SFUploadsStand, SFConstants, SF!database, SF!history
<1>1. /\ SFRefs \in [Secret -> SUBSET SF!File] /\ SFDue \subseteq SF!File /\ SFGone \subseteq SF!File /\ writing.then \subseteq SFDue
      /\ nextFile \in Nat /\ \A g \in SF!File : g \in Nat
  BY SFTyped
<1>2. SFTypesOfDatabases'
  BY DEF SF!WriteBegins, SFTypesOfDatabases, SFDatabase, SF!Properties, SF!Value, SF!File,
     SF!NoFile, SF!NoKey, SF!Idle, SF!Absent, SFTypesOfFiles
<1>3. SFTypesOfFiles'
  BY DEF SF!WriteBegins, SFTypesOfDatabases, SFDatabase, SF!Properties, SF!Value, SF!File,
     SF!NoFile, SF!NoKey, SFTypesOfFiles, SFTypesOfCounts
<1>4. SFTypesOfCounts'
  BY DEF SF!WriteBegins, SFTypesOfDatabases, SFDatabase, SF!Properties, SF!NoFile,
     SFTypesOfCounts, SF!File
<1>5. SFEmpty'
  BY DEF SF!WriteBegins, SFEmpty, SFTypesOfDatabases
<1>6. \A t \in Secret : SFRefs'[t] \subseteq SFRefs[t]
  BY DEF SF!WriteBegins, SFTypesOfDatabases, SFDatabase, SF!Properties, SF!Value, SF!File,
     SF!NoFile, SF!NoKey, SFRefs, SF!Idle, SF!Absent, SFTypesOfFiles
<1>7. SFDue' \subseteq SFDue
  BY DEF SF!WriteBegins, SFTypesOfDatabases, SFDatabase, SF!Properties, SF!Value, SF!File,
     SF!NoFile, SF!NoKey, SFRefs, SF!Idle, SFDue
<1>8. SFGone' = SFGone
  BY DEF SF!WriteBegins, SFTypesOfDatabases, SFDatabase, SF!Properties, SF!Value, SF!File,
     SF!NoFile, SF!NoKey, SFRefs, SF!Idle, SFGone
<1>9. SFRefs' \in [Secret -> SUBSET SF!File]
  BY <1>2 DEF SFTypesOfDatabases, SFDatabase, SF!Properties, SF!Value, SF!File, SF!NoFile,
     SF!NoKey, SFRefs
<1>10. SFDue' \subseteq SF!File
  BY <1>2 DEF SFTypesOfDatabases, SFDue
<1>11. SFGone' \subseteq SF!File /\ nextFile' \in Nat
  BY <1>3, <1>4 DEF SFTypesOfFiles, SFTypesOfCounts, SFGone
<1>12. SFNames'
  BY <1>1, <1>6, <1>7, <1>8, <1>9, <1>10, <1>11 DEF SF!WriteBegins, SFNames, SFTypesOfFiles
<1>13. SFOneOwner'
  BY <1>6 DEF SFOneOwner, SFUploadsUnowned
<1>14. SFUploadsWritten'
  BY <1>1 DEF SF!WriteBegins, SFUploadsWritten, SFUploadsKept, SFGone, SFTypesOfFiles
<1>15. SFUploadsKept'
  BY <1>1, <1>6, <1>7, <1>8, <1>9, <1>10, <1>11 DEF SF!WriteBegins, SFUploadsKept,
     SFUploadsApart, SFUploadsUnowned, SFNames, SFTypesOfFiles
<1>16. SFUploadsUnread'
  BY <1>1, <1>6, <1>7, <1>8, <1>9, <1>10, <1>11 DEF SF!WriteBegins, SFUploadsUnread,
     SFTypesOfCounts, SFTypesOfFiles, SFUploadsUnowned, SFNames, SFTypesOfDatabases, SFDatabase,
     SF!Properties, SFRefs
<1>17. SFUploadsUnowned'
  BY <1>1, <1>6, <1>7, <1>8, <1>9, <1>10, <1>11 DEF SF!WriteBegins, SFUploadsUnowned, SFNames,
     SFUploadsApart, SFTypesOfFiles
<1>18. SFUploadsKeyed'
  BY <1>1, <1>6, <1>7, <1>8, <1>9, <1>10, <1>11 DEF SF!WriteBegins, SFUploadsKeyed,
     SFTypesOfFiles, SFTypesOfDatabases, SFDatabase, SF!Properties
<1>19. SFUploadsApart'
  BY <1>1, <1>6, <1>7, <1>8, <1>9, <1>10, <1>11 DEF SF!WriteBegins, SFUploadsApart, SFNames,
     SFTypesOfFiles
<1>20. SFFilesKept'
  BY <1>1, <1>6, <1>7, <1>8, <1>9, <1>10, <1>11 DEF SF!WriteBegins, SFFilesKept, SFLost,
     SFUploadsUnowned, SFUploadsKept
<1>21. SFFilesThere'
  BY <1>1, <1>6, <1>7, <1>8, <1>9, <1>10, <1>11 DEF SF!WriteBegins, SFFilesThere, SFFilesKept,
     SFGone, SFLost, SFUploadsWritten, SFTypesOfFiles
<1>22. SFKeys'
  BY <1>1, <1>6, <1>7, <1>8, <1>9, <1>10, <1>11 DEF SF!WriteBegins, SFTypesOfDatabases,
     SFDatabase, SF!Properties, SF!Value, SF!File, SF!NoFile, SF!NoKey, SFKeys, SFKeysFit,
     SFFilesKept, SFGone, SFLost, SFRefs, SF!Idle, SF!Absent
<1>23. SFDueAfterWrite'
  BY <1>1, <1>6, <1>7, <1>8, <1>9, <1>10, <1>11 DEF SF!WriteBegins, SFTypesOfDatabases,
     SFDatabase, SF!Properties, SF!Value, SF!File, SF!NoFile, SF!NoKey, SFDueAfterWrite, SFDue,
     SFLost, SFRefs, SFOneOwner, SFUploadsKept, SF!Idle, SF!Absent
<1>24. SFDownloadsStand'
  BY <1>1, <1>6, <1>7, <1>8, <1>9, <1>10, <1>11 DEF SF!WriteBegins, SFDownloadsStand,
     SFFilesThere, SFFilesKept, SFGone, SFLost, SFUploadsUnread
<1> QED
  BY <1>2, <1>3, <1>4, <1>5, <1>12, <1>13, <1>14, <1>15, <1>16, <1>17, <1>18, <1>19, <1>20,
     <1>21, <1>22, <1>23, <1>24

LEMMA SFWriteEndsStep ==
  ASSUME SFConstants, SFInv, SF!WriteEnds
  PROVE SFInv'
<1> USE DEF SFInv, SFTypes, SFUploadsStand, SFConstants, SF!database, SF!history
<1>1. /\ SFRefs \in [Secret -> SUBSET SF!File] /\ SFDue \subseteq SF!File /\ SFGone \subseteq SF!File /\ writing.then \subseteq SFDue
      /\ nextFile \in Nat /\ \A g \in SF!File : g \in Nat
  BY SFTyped
<1>2. \A t \in Secret : SFRefs'[t] \cap writing.then \subseteq SFLost
  <2>1. UNCHANGED <<secrets, pending>> /\ disk' = writing.content /\ writing' = SF!Idle
    BY DEF SF!WriteEnds
  <2>2. \A t \in Secret : SF!Idle.content[t].file = SF!NoFile
    BY DEF SF!Idle, SF!Absent
  <2>3. \A t \in Secret : SFRefs'[t] \subseteq {secrets[t].file, pending.content[t].file,
                                             writing.content[t].file} \ {SF!NoFile}
    BY <2>1, <2>2 DEF SFRefs
  <2> QED
    BY <2>3 DEF SFDueAfterWrite, SFDue
<1>3. SFTypesOfDatabases'
  BY DEF SF!WriteEnds, SF!Remove, SFTypesOfDatabases, SFDatabase, SF!Properties, SF!Value,
     SF!File, SF!NoFile, SF!NoKey, SF!Idle, SF!Absent, SFTypesOfFiles
<1>4. SFTypesOfFiles'
  BY DEF SF!WriteEnds, SF!Remove, SFTypesOfDatabases, SFDatabase, SF!Properties, SF!Value,
     SF!File, SF!NoFile, SF!NoKey, SFTypesOfFiles, SFTypesOfCounts
<1>5. SFTypesOfCounts'
  BY DEF SF!WriteEnds, SF!Remove, SFTypesOfDatabases, SFDatabase, SF!Properties, SF!NoFile,
     SFTypesOfCounts, SF!File
<1>6. SFEmpty'
  BY DEF SF!WriteEnds, SF!Remove, SFEmpty, SFTypesOfDatabases
<1>7. \A t \in Secret : SFRefs'[t] \subseteq SFRefs[t]
  BY DEF SF!WriteEnds, SF!Remove, SFTypesOfDatabases, SFDatabase, SF!Properties, SF!Value,
     SF!File, SF!NoFile, SF!NoKey, SFRefs, SF!Idle, SF!Absent, SFTypesOfFiles
<1>8. SFDue' \subseteq SFDue
  BY DEF SF!WriteEnds, SF!Remove, SFTypesOfDatabases, SFDatabase, SF!Properties, SF!Value,
     SF!File, SF!NoFile, SF!NoKey, SFRefs, SF!Idle, SFDue
<1>9. SFGone' \subseteq SFGone \cup writing.then
  BY DEF SF!WriteEnds, SF!Remove, SFTypesOfDatabases, SFDatabase, SF!Properties, SF!Value,
     SF!File, SF!NoFile, SF!NoKey, SFRefs, SF!Idle, SFGone
<1>10. SFRefs' \in [Secret -> SUBSET SF!File]
  BY <1>3 DEF SFTypesOfDatabases, SFDatabase, SF!Properties, SF!Value, SF!File, SF!NoFile,
     SF!NoKey, SFRefs
<1>11. SFDue' \subseteq SF!File
  BY <1>3 DEF SFTypesOfDatabases, SFDue
<1>12. SFGone' \subseteq SF!File /\ nextFile' \in Nat
  BY <1>4, <1>5 DEF SFTypesOfFiles, SFTypesOfCounts, SFGone
<1>13. SFNames'
  BY <1>1, <1>7, <1>8, <1>9, <1>10, <1>11, <1>12 DEF SF!WriteEnds, SF!Remove, SFNames,
     SFTypesOfFiles
<1>14. SFOneOwner'
  BY <1>7 DEF SFOneOwner, SFUploadsUnowned
<1>15. SFUploadsWritten'
  BY <1>1 DEF SF!WriteEnds, SF!Remove, SFUploadsWritten, SFUploadsKept, SFGone, SFTypesOfFiles
<1>16. SFUploadsKept'
  BY <1>1, <1>7, <1>8, <1>9, <1>10, <1>11, <1>12 DEF SF!WriteEnds, SF!Remove, SFUploadsKept,
     SFUploadsApart, SFUploadsUnowned, SFNames, SFTypesOfFiles
<1>17. SFUploadsUnread'
  BY <1>1, <1>7, <1>8, <1>9, <1>10, <1>11, <1>12 DEF SF!WriteEnds, SF!Remove, SFUploadsUnread,
     SFTypesOfCounts, SFTypesOfFiles, SFUploadsUnowned, SFNames, SFTypesOfDatabases, SFDatabase,
     SF!Properties, SFRefs
<1>18. SFUploadsUnowned'
  BY <1>1, <1>7, <1>8, <1>9, <1>10, <1>11, <1>12 DEF SF!WriteEnds, SF!Remove, SFUploadsUnowned,
     SFNames, SFUploadsApart, SFTypesOfFiles
<1>19. SFUploadsKeyed'
  BY <1>1, <1>7, <1>8, <1>9, <1>10, <1>11, <1>12 DEF SF!WriteEnds, SF!Remove, SFUploadsKeyed,
     SFTypesOfFiles, SFTypesOfDatabases, SFDatabase, SF!Properties
<1>20. SFUploadsApart'
  BY <1>1, <1>7, <1>8, <1>9, <1>10, <1>11, <1>12 DEF SF!WriteEnds, SF!Remove, SFUploadsApart,
     SFNames, SFTypesOfFiles
<1>21. SFFilesKept'
  BY <1>1, <1>7, <1>8, <1>9, <1>10, <1>11, <1>12, <1>2 DEF SF!WriteEnds, SF!Remove, SFFilesKept,
     SFLost, SFUploadsUnowned, SFUploadsKept
<1>22. SFFilesThere'
  BY <1>1, <1>7, <1>8, <1>9, <1>10, <1>11, <1>12 DEF SF!WriteEnds, SF!Remove, SFFilesThere,
     SFFilesKept, SFGone, SFLost, SFUploadsWritten, SFTypesOfFiles
<1>23. SFKeys'
  BY <1>1, <1>7, <1>8, <1>9, <1>10, <1>11, <1>12 DEF SF!WriteEnds, SF!Remove,
     SFTypesOfDatabases, SFDatabase, SF!Properties, SF!Value, SF!File, SF!NoFile, SF!NoKey,
     SFKeys, SFKeysFit, SFFilesKept, SFGone, SFLost, SFRefs, SF!Idle, SF!Absent
<1>24. SFDueAfterWrite'
  BY <1>1, <1>7, <1>8, <1>9, <1>10, <1>11, <1>12 DEF SF!WriteEnds, SF!Remove,
     SFTypesOfDatabases, SFDatabase, SF!Properties, SF!Value, SF!File, SF!NoFile, SF!NoKey,
     SFDueAfterWrite, SFDue, SFLost, SFRefs, SFOneOwner, SFUploadsKept, SF!Idle, SF!Absent
<1>25. SFDownloadsStand'
  BY <1>1, <1>7, <1>8, <1>9, <1>10, <1>11, <1>12 DEF SF!WriteEnds, SF!Remove, SFDownloadsStand,
     SFFilesThere, SFFilesKept, SFGone, SFLost, SFUploadsUnread
<1> QED
  BY <1>3, <1>4, <1>5, <1>6, <1>13, <1>14, <1>15, <1>16, <1>17, <1>18, <1>19, <1>20, <1>21,
     <1>22, <1>23, <1>24, <1>25

LEMMA SFWriteFailsStep ==
  ASSUME SFConstants, SFInv, SF!WriteFails
  PROVE SFInv'
<1> USE DEF SFInv, SFTypes, SFUploadsStand, SFConstants, SF!database, SF!history
<1>1. /\ SFRefs \in [Secret -> SUBSET SF!File] /\ SFDue \subseteq SF!File /\ SFGone \subseteq SF!File /\ writing.then \subseteq SFDue
      /\ nextFile \in Nat /\ \A g \in SF!File : g \in Nat
  BY SFTyped
<1>2. SFTypesOfDatabases'
  BY DEF SF!WriteFails, SF!Remove, SF!Spend, SFTypesOfDatabases, SFDatabase, SF!Properties,
     SF!Value, SF!File, SF!NoFile, SF!NoKey, SF!Idle, SF!Absent, SFTypesOfFiles
<1>3. SFTypesOfFiles'
  BY DEF SF!WriteFails, SF!Remove, SF!Spend, SFTypesOfDatabases, SFDatabase, SF!Properties,
     SF!Value, SF!File, SF!NoFile, SF!NoKey, SFTypesOfFiles, SFTypesOfCounts
<1>4. SFTypesOfCounts'
  BY DEF SF!WriteFails, SF!Remove, SF!Spend, SFTypesOfDatabases, SFDatabase, SF!Properties,
     SF!NoFile, SFTypesOfCounts, SF!File
<1>5. SFEmpty'
  BY DEF SF!WriteFails, SF!Remove, SF!Spend, SFEmpty, SFTypesOfDatabases
<1>6. \A t \in Secret : SFRefs'[t] \subseteq SFRefs[t]
  BY DEF SF!WriteFails, SF!Remove, SF!Spend, SFTypesOfDatabases, SFDatabase, SF!Properties,
     SF!Value, SF!File, SF!NoFile, SF!NoKey, SFRefs, SF!Idle, SF!Absent, SFTypesOfFiles
<1>7. SFDue' \subseteq SFDue
  BY DEF SF!WriteFails, SF!Remove, SF!Spend, SFTypesOfDatabases, SFDatabase, SF!Properties,
     SF!Value, SF!File, SF!NoFile, SF!NoKey, SFRefs, SF!Idle, SFDue
<1>8. SFGone' \subseteq SFGone \cup writing.then
  BY DEF SF!WriteFails, SF!Remove, SF!Spend, SFTypesOfDatabases, SFDatabase, SF!Properties,
     SF!Value, SF!File, SF!NoFile, SF!NoKey, SFRefs, SF!Idle, SFGone
<1>9. SFRefs' \in [Secret -> SUBSET SF!File]
  BY <1>2 DEF SFTypesOfDatabases, SFDatabase, SF!Properties, SF!Value, SF!File, SF!NoFile,
     SF!NoKey, SFRefs
<1>10. SFDue' \subseteq SF!File
  BY <1>2 DEF SFTypesOfDatabases, SFDue
<1>11. SFGone' \subseteq SF!File /\ nextFile' \in Nat
  BY <1>3, <1>4 DEF SFTypesOfFiles, SFTypesOfCounts, SFGone
<1>12. SFNames'
  BY <1>1, <1>6, <1>7, <1>8, <1>9, <1>10, <1>11 DEF SF!WriteFails, SF!Remove, SF!Spend,
     SFNames, SFTypesOfFiles
<1>13. SFOneOwner'
  BY <1>6 DEF SFOneOwner, SFUploadsUnowned
<1>14. SFUploadsWritten'
  BY <1>1 DEF SF!WriteFails, SF!Remove, SF!Spend, SFUploadsWritten, SFUploadsKept, SFGone,
     SFTypesOfFiles
<1>15. SFUploadsKept'
  BY <1>1, <1>6, <1>7, <1>8, <1>9, <1>10, <1>11 DEF SF!WriteFails, SF!Remove, SF!Spend,
     SFUploadsKept, SFUploadsApart, SFUploadsUnowned, SFNames, SFTypesOfFiles
<1>16. SFUploadsUnread'
  BY <1>1, <1>6, <1>7, <1>8, <1>9, <1>10, <1>11 DEF SF!WriteFails, SF!Remove, SF!Spend,
     SFUploadsUnread, SFTypesOfCounts, SFTypesOfFiles, SFUploadsUnowned, SFNames,
     SFTypesOfDatabases, SFDatabase, SF!Properties, SFRefs
<1>17. SFUploadsUnowned'
  BY <1>1, <1>6, <1>7, <1>8, <1>9, <1>10, <1>11 DEF SF!WriteFails, SF!Remove, SF!Spend,
     SFUploadsUnowned, SFNames, SFUploadsApart, SFTypesOfFiles
<1>18. SFUploadsKeyed'
  BY <1>1, <1>6, <1>7, <1>8, <1>9, <1>10, <1>11 DEF SF!WriteFails, SF!Remove, SF!Spend,
     SFUploadsKeyed, SFTypesOfFiles, SFTypesOfDatabases, SFDatabase, SF!Properties
<1>19. SFUploadsApart'
  BY <1>1, <1>6, <1>7, <1>8, <1>9, <1>10, <1>11 DEF SF!WriteFails, SF!Remove, SF!Spend,
     SFUploadsApart, SFNames, SFTypesOfFiles
<1>20. SFFilesKept'
  BY <1>1, <1>6, <1>7, <1>8, <1>9, <1>10, <1>11 DEF SF!WriteFails, SF!Remove, SF!Spend,
     SFFilesKept, SFLost, SFUploadsUnowned, SFUploadsKept
<1>21. SFFilesThere'
  BY <1>1, <1>6, <1>7, <1>8, <1>9, <1>10, <1>11 DEF SF!WriteFails, SF!Remove, SF!Spend,
     SFFilesThere, SFFilesKept, SFGone, SFLost, SFUploadsWritten, SFTypesOfFiles
<1>22. SFKeys'
  BY <1>1, <1>6, <1>7, <1>8, <1>9, <1>10, <1>11 DEF SF!WriteFails, SF!Remove, SF!Spend,
     SFTypesOfDatabases, SFDatabase, SF!Properties, SF!Value, SF!File, SF!NoFile, SF!NoKey,
     SFKeys, SFKeysFit, SFFilesKept, SFGone, SFLost, SFRefs, SF!Idle, SF!Absent
<1>23. SFDueAfterWrite'
  BY <1>1, <1>6, <1>7, <1>8, <1>9, <1>10, <1>11 DEF SF!WriteFails, SF!Remove, SF!Spend,
     SFTypesOfDatabases, SFDatabase, SF!Properties, SF!Value, SF!File, SF!NoFile, SF!NoKey,
     SFDueAfterWrite, SFDue, SFLost, SFRefs, SFOneOwner, SFUploadsKept, SF!Idle, SF!Absent
<1>24. SFDownloadsStand'
  BY <1>1, <1>6, <1>7, <1>8, <1>9, <1>10, <1>11 DEF SF!WriteFails, SF!Remove, SF!Spend,
     SFDownloadsStand, SFFilesThere, SFFilesKept, SFGone, SFLost, SFUploadsUnread
<1> QED
  BY <1>2, <1>3, <1>4, <1>5, <1>12, <1>13, <1>14, <1>15, <1>16, <1>17, <1>18, <1>19, <1>20,
     <1>21, <1>22, <1>23, <1>24

LEMMA SFRestartStep ==
  ASSUME SFConstants, SFInv, SF!Restart
  PROVE SFInv'
<1> USE DEF SFInv, SFTypes, SFUploadsStand, SFConstants, SF!database, SF!history
<1>1. /\ SFRefs \in [Secret -> SUBSET SF!File] /\ SFDue \subseteq SF!File /\ SFGone \subseteq SF!File /\ writing.then \subseteq SFDue
      /\ nextFile \in Nat /\ \A g \in SF!File : g \in Nat
  BY SFTyped
<1>2. SFTypesOfDatabases'
  BY DEF SF!Restart, SF!Spend, SFTypesOfDatabases, SFDatabase, SF!Properties, SF!Value, SF!File,
     SF!NoFile, SF!NoKey, SF!Idle, SF!Absent, SFTypesOfFiles
<1>3. SFTypesOfFiles'
  BY DEF SF!Restart, SF!Spend, SFTypesOfDatabases, SFDatabase, SF!Properties, SF!Value, SF!File,
     SF!NoFile, SF!NoKey, SFTypesOfFiles, SFTypesOfCounts
<1>4. SFTypesOfCounts'
  BY DEF SF!Restart, SF!Spend, SFTypesOfDatabases, SFDatabase, SF!Properties, SF!NoFile,
     SFTypesOfCounts, SF!File
<1>5. SFEmpty'
  BY DEF SF!Restart, SF!Spend, SFEmpty, SFTypesOfDatabases
<1>6. \A t \in Secret : SFRefs'[t] \subseteq SFRefs[t]
  BY DEF SF!Restart, SF!Spend, SFTypesOfDatabases, SFDatabase, SF!Properties, SF!Value, SF!File,
     SF!NoFile, SF!NoKey, SFRefs, SF!Idle, SF!Absent, SFTypesOfFiles
<1>7. SFDue' = {}
  BY DEF SF!Restart, SF!Spend, SFTypesOfDatabases, SFDatabase, SF!Properties, SF!Value, SF!File,
     SF!NoFile, SF!NoKey, SFRefs, SF!Idle, SFDue
<1>8. SFGone' = {}
  BY DEF SF!Restart, SF!Spend, SFTypesOfDatabases, SFDatabase, SF!Properties, SF!Value, SF!File,
     SF!NoFile, SF!NoKey, SFRefs, SF!Idle, SFGone
<1>9. SFRefs' \in [Secret -> SUBSET SF!File]
  BY <1>2 DEF SFTypesOfDatabases, SFDatabase, SF!Properties, SF!Value, SF!File, SF!NoFile,
     SF!NoKey, SFRefs
<1>10. SFDue' \subseteq SF!File
  BY <1>2 DEF SFTypesOfDatabases, SFDue
<1>11. SFGone' \subseteq SF!File /\ nextFile' \in Nat
  BY <1>3, <1>4 DEF SFTypesOfFiles, SFTypesOfCounts, SFGone
<1>12. SFNames'
  BY <1>1, <1>6, <1>7, <1>8, <1>9, <1>10, <1>11 DEF SF!Restart, SF!Spend, SFNames,
     SFTypesOfFiles
<1>13. SFOneOwner'
  BY <1>6 DEF SFOneOwner, SFUploadsUnowned
<1>14. SFUploadsWritten'
  BY <1>1 DEF SF!Restart, SF!Spend, SFUploadsWritten, SFUploadsKept, SFGone, SFTypesOfFiles
<1>15. SFUploadsKept'
  BY <1>1, <1>6, <1>7, <1>8, <1>9, <1>10, <1>11 DEF SF!Restart, SF!Spend, SFUploadsKept,
     SFUploadsApart, SFUploadsUnowned, SFNames, SFTypesOfFiles
<1>16. SFUploadsUnread'
  BY <1>1, <1>6, <1>7, <1>8, <1>9, <1>10, <1>11 DEF SF!Restart, SF!Spend, SFUploadsUnread,
     SFTypesOfCounts, SFTypesOfFiles, SFUploadsUnowned, SFNames, SFTypesOfDatabases, SFDatabase,
     SF!Properties, SFRefs
<1>17. SFUploadsUnowned'
  BY <1>1, <1>6, <1>7, <1>8, <1>9, <1>10, <1>11 DEF SF!Restart, SF!Spend, SFUploadsUnowned,
     SFNames, SFUploadsApart, SFTypesOfFiles
<1>18. SFUploadsKeyed'
  BY <1>1, <1>6, <1>7, <1>8, <1>9, <1>10, <1>11 DEF SF!Restart, SF!Spend, SFUploadsKeyed,
     SFTypesOfFiles, SFTypesOfDatabases, SFDatabase, SF!Properties
<1>19. SFUploadsApart'
  BY <1>1, <1>6, <1>7, <1>8, <1>9, <1>10, <1>11 DEF SF!Restart, SF!Spend, SFUploadsApart,
     SFNames, SFTypesOfFiles
<1>20. SFFilesKept'
  BY <1>1, <1>6, <1>7, <1>8, <1>9, <1>10, <1>11 DEF SF!Restart, SF!Spend, SFFilesKept, SFLost,
     SFUploadsUnowned, SFUploadsKept
<1>21. SFFilesThere'
  BY <1>1, <1>6, <1>7, <1>8, <1>9, <1>10, <1>11 DEF SF!Restart, SF!Spend, SFFilesThere,
     SFFilesKept, SFGone, SFLost, SFUploadsWritten, SFTypesOfFiles
<1>22. SFKeys'
  BY <1>1, <1>6, <1>7, <1>8, <1>9, <1>10, <1>11 DEF SF!Restart, SF!Spend, SFTypesOfDatabases,
     SFDatabase, SF!Properties, SF!Value, SF!File, SF!NoFile, SF!NoKey, SFKeys, SFKeysFit,
     SFFilesKept, SFGone, SFLost, SFRefs, SF!Idle, SF!Absent
<1>23. SFDueAfterWrite'
  BY <1>1, <1>6, <1>7, <1>8, <1>9, <1>10, <1>11 DEF SF!Restart, SF!Spend, SFTypesOfDatabases,
     SFDatabase, SF!Properties, SF!Value, SF!File, SF!NoFile, SF!NoKey, SFDueAfterWrite, SFDue,
     SFLost, SFRefs, SFOneOwner, SFUploadsKept, SF!Idle, SF!Absent
<1>24. SFDownloadsStand'
  BY <1>1, <1>6, <1>7, <1>8, <1>9, <1>10, <1>11 DEF SF!Restart, SF!Spend, SFDownloadsStand,
     SFFilesThere, SFFilesKept, SFGone, SFLost, SFUploadsUnread
<1> QED
  BY <1>2, <1>3, <1>4, <1>5, <1>12, <1>13, <1>14, <1>15, <1>16, <1>17, <1>18, <1>19, <1>20,
     <1>21, <1>22, <1>23, <1>24
LEMMA SFInitHolds ==
  ASSUME SFConstants, SF!Init
  PROVE  SFInv
<1> USE DEF SF!Init, SFConstants, SF!Idle, SF!Absent, SF!NoFile, SF!NoKey, SF!File
<1>1. SFTypesOfDatabases /\ SFTypesOfFiles /\ SFTypesOfCounts /\ SFEmpty
  BY DEF SFTypesOfDatabases, SFTypesOfFiles, SFTypesOfCounts, SFEmpty, SFDatabase,
     SF!Properties, SF!Value
<1>2. SFRefs = [t \in Secret |-> {}] /\ SFDue = {} /\ SFGone = {}
  BY DEF SFRefs, SFDue, SFGone
<1>3. SFNames /\ SFOneOwner /\ SFUploadsStand /\ SFFilesKept /\ SFFilesThere /\ SFDownloadsStand
  BY <1>2 DEF SFNames, SFOneOwner, SFUploadsStand, SFUploadsWritten, SFUploadsKept,
     SFUploadsUnread, SFUploadsUnowned, SFUploadsKeyed, SFUploadsApart, SFFilesKept,
     SFFilesThere, SFDownloadsStand
<1>4. SFKeys /\ SFDueAfterWrite
  BY <1>2 DEF SFKeys, SFKeysFit, SFDueAfterWrite
<1> QED
  BY <1>1, <1>3, <1>4 DEF SFInv, SFTypes

LEMMA SFNextHolds ==
  ASSUME SFConstants, SFInv, SF!Next
  PROVE  SFInv'
BY SFSetSecretStep, SFRemoveSecretStep, SFUploadStep, SFUploadCompletesStep,
   SFUploadRefusedStep, SFUploadFailsStep, SFDownloadStep, SFDownloadEndsStep, SFRemoveFileStep,
   SFWriteBeginsStep, SFWriteEndsStep, SFWriteFailsStep, SFRestartStep DEF SF!Next, SF!Progress

LEMMA SFStays ==
  ASSUME SFInv, UNCHANGED sfVars
  PROVE  SFInv'
BY DEF sfVars, SF!database, SF!history, SFInv, SFTypes, SFTypesOfDatabases, SFTypesOfFiles,
   SFTypesOfCounts, SFEmpty, SFNames, SFOneOwner, SFUploadsStand, SFUploadsWritten,
   SFUploadsKept, SFUploadsUnread, SFUploadsUnowned, SFUploadsKeyed, SFUploadsApart,
   SFFilesKept, SFFilesThere, SFDownloadsStand, SFKeys, SFKeysFit, SFDueAfterWrite, SFRefs,
   SFDue, SFGone, SFLost

LEMMA SFHolds ==
  ASSUME SFInv
  PROVE  SF!FilesOpen /\ SF!DiskHasItsFiles
<1>1. \A t \in Secret : secrets[t].file \notin {SF!NoFile} \cup early \cup unsaved =>
        \E x \in files : x.file = secrets[t].file /\ (t \in mixed \/ x.key = secrets[t].key)
  <2> SUFFICES ASSUME NEW t \in Secret, secrets[t].file \notin {SF!NoFile} \cup early \cup unsaved
               PROVE  \E x \in files : x.file = secrets[t].file /\ (t \in mixed \/ x.key = secrets[t].key)
    OBVIOUS
  <2>1. secrets[t].file \in SFRefs[t] \ SFLost
    BY DEF SFRefs, SFLost
  <2>2. CASE t \in mixed
    BY <2>1, <2>2 DEF SFInv, SFFilesThere
  <2>3. CASE t \notin mixed
    BY <2>3 DEF SFInv, SFKeys, SFKeysFit, SFLost
  <2> QED
    BY <2>2, <2>3
<1>2. \A f \in SF!File \ (early \cup unsaved) : reserved[f] > 0 =>
        \E x \in files : x.file = f
  BY DEF SFInv, SFDownloadsStand, SFLost
<1>3. SF!DiskHasItsFiles
  BY DEF SF!DiskHasItsFiles, SF!FilesOf, SFInv, SFFilesThere, SFRefs, SFLost, SF!Exists
<1>4. SF!FilesOpen
  BY <1>1, <1>2 DEF SF!FilesOpen, SF!Exists
<1> QED
  BY <1>3, <1>4

(* A step of all together is one of SecretFiles, when that is what runs, or leaves its
   variables alone. *)
LEMMA SFFrame ==
  ASSUME [Next]_vars, component' = "SecretFiles"
  PROVE  component = "SecretFiles" /\ (SF!Next \/ UNCHANGED sfVars)
<1>1. CASE Next
  BY <1>1 DEF Next
<1>2. CASE UNCHANGED vars
  BY <1>2 DEF vars
<1> QED
  BY <1>1, <1>2

(* So the parts of its invariant hold from the first state on. *)
LEMMA SFAlways == Spec => [](component = "SecretFiles" => SFInv)
<1> DEFINE Inv == component = "SecretFiles" => SFInv
<1>1. Init => Inv
  BY SFAssumption, SFInitHolds DEF Init
<1>2. Inv /\ [Next]_vars => Inv'
  BY SFAssumption, SFFrame, SFNextHolds, SFStays
<1> QED
  BY <1>1, <1>2, PTL DEF Spec


-----------------------------------------------------------------------------
(* DiskSpace *)

(* TypeOK without the bounds. *)
DSEntries == [there : BOOLEAN, refs : Nat, option : Option \union {NoValue}, reporters : DS!Reporters]
DSTasks == [DS!Watcher -> [stage : DS!Stages, option : Option, kind : Nat]]

DSTypes ==
  /\ entry \in DSEntries /\ task \in DSTasks
  /\ automatic \in {"no", "added", "held"}
  /\ owner \in Client \union {DS!Timer, NoValue}
  /\ dsWaiting \in SUBSET (Client \union {DS!Timer})
  /\ step \in {"idle", "mounts", "adding", "removing", "measure", "report"}
  /\ leaked \in Nat

(* Whoever has the sequencer or waits for it is a client whose call is there, so that the
   end of an update ends the call it belongs to. *)
DSUpdatersWatch ==
  /\ step = "idle" <=> owner = NoValue
  /\ owner \notin dsWaiting
  /\ \A c \in Client : c = owner \/ c \in dsWaiting => task[c].stage = "update"

(* The mount's subscription is kept while the list of mounts has it, until it is taken
   out. *)
DSMountIsHeld == automatic = "held" /\ step # "removing" => task[DS!Mount].stage = "held"

DSBase == DSTypes /\ DS!PathIsHeld /\ DSUpdatersWatch /\ DSMountIsHeld

-----------------------------------------------------------------------------
(* Cardinality in DiskSpace is that of the library. *)
LEMMA DSSameCount == \A S : DS!Cardinality(S) = Cardinality(S)
BY DEF DS!Cardinality, Cardinality

(* Those who hold the path are some of finitely many. *)
LEMMA DSHoldersFinite == ASSUME DSConstants PROVE IsFiniteSet(DS!Holders)
<1>1. IsFiniteSet(DS!Watcher)
  BY FS_AddElement DEF DSConstants, DS!Watcher
<1> QED
  BY <1>1, FS_Subset DEF DS!Holders

(* A step after which everybody but w holds the path as before: w decides whether one
   more holds it, or one fewer, or as many. *)
LEMMA DSOneTaskChanges ==
  ASSUME DSConstants, NEW w \in DS!Watcher,
         \A v \in DS!Watcher : v # w => (v \in DS!Holders' <=> v \in DS!Holders)
  PROVE  /\ Cardinality(DS!Holders) \in Nat /\ Cardinality(DS!Holders)' \in Nat
         /\ Cardinality(DS!Holders)' = Cardinality(DS!Holders)
                                    - (IF w \in DS!Holders THEN 1 ELSE 0)
                                    + (IF w \in DS!Holders' THEN 1 ELSE 0)
<1>1. IsFiniteSet(DS!Holders)
  BY DSHoldersFinite
<1>2. Cardinality(DS!Holders) \in Nat
  BY <1>1, FS_CardinalityType
<1>3. DS!Holders' = IF w \in DS!Holders' THEN DS!Holders \union {w} ELSE DS!Holders \ {w}
  BY DEF DS!Holders
<1>4. CASE w \in DS!Holders'
  <2>1. /\ IsFiniteSet(DS!Holders \union {w})
        /\ Cardinality(DS!Holders \union {w}) = IF w \in DS!Holders THEN Cardinality(DS!Holders)
                                            ELSE Cardinality(DS!Holders) + 1
    BY <1>1, FS_AddElement
  <2>2. Cardinality(DS!Holders)' = Cardinality(DS!Holders \union {w})
    BY <1>3, <1>4
  <2> QED
    BY <1>2, <1>4, <2>1, <2>2
<1>5. CASE w \notin DS!Holders'
  <2>1. /\ IsFiniteSet(DS!Holders \ {w})
        /\ Cardinality(DS!Holders \ {w}) = IF w \in DS!Holders THEN Cardinality(DS!Holders) - 1
                                       ELSE Cardinality(DS!Holders)
    BY <1>1, FS_RemoveElement
  <2>2. Cardinality(DS!Holders)' = Cardinality(DS!Holders \ {w})
    BY <1>3, <1>5
  <2>3. Cardinality(DS!Holders \ {w}) \in Nat
    BY <2>1, FS_CardinalityType
  <2> QED
    BY <1>2, <1>5, <2>1, <2>2, <2>3
<1> QED
  BY <1>4, <1>5

(* A step that leaves the tasks and the entry alone leaves the count right. *)
LEMMA DSNothingChanges ==
  ASSUME DS!PathIsHeld, UNCHANGED <<entry, task, leaked>>
  PROVE  DS!PathIsHeld'
  BY DSSameCount DEF DS!Holders, DS!PathIsHeld

(* The entry that f_MonitorPath counts in, and the task that counts with it. *)
LEMMA DSMonitorPathStep ==
  ASSUME DSConstants, DSTypes, DS!PathIsHeld, NEW w \in DS!Watcher, NEW o \in Option,
         w \notin DS!Holders, DS!MonitorPath(w, o), UNCHANGED leaked
  PROVE  /\ DS!PathIsHeld'
         /\ entry' \in DSEntries /\ task' \in DSTasks
         /\ \A v \in DS!Watcher : v # w => task'[v] = task[v]
<1>1. entry' = [entry EXCEPT !.there = TRUE, !.refs = @ + 1,
                             !.option = IF DS!Opens(entry, o) THEN o ELSE @]
  BY DEF DS!MonitorPath
<1>2. /\ entry' \in DSEntries
      /\ entry'.there /\ entry'.refs = entry.refs + 1
  <2>1. entry' = [there |-> TRUE, refs |-> entry.refs + 1,
                  option |-> IF DS!Opens(entry, o) THEN o ELSE entry.option,
                  reporters |-> entry.reporters]
    BY <1>1 DEF DSTypes, DSEntries
  <2> QED
    BY <2>1 DEF DSTypes, DSEntries
<1>3. \E s \in {"opening", "update", "held"} :
        task' = [task EXCEPT ![w] = [stage |-> s, option |-> o, kind |-> 1]]
  BY DEF DS!MonitorPath, DS!AfterReporters
<1>4. task' \in DSTasks /\ \A v \in DS!Watcher : v # w => task'[v] = task[v]
  BY <1>3 DEF DSTypes, DSTasks, DS!Stages
<1>5. w \in DS!Holders' /\ \A v \in DS!Watcher : v # w => (v \in DS!Holders' <=> v \in DS!Holders)
  BY <1>3 DEF DSTypes, DSTasks, DS!Holders
<1>6. Cardinality(DS!Holders) \in Nat /\ Cardinality(DS!Holders)' = Cardinality(DS!Holders) + 1
  BY <1>5, DSOneTaskChanges
<1> QED
  BY DSSameCount, <1>2, <1>4, <1>6 DEF DS!PathIsHeld, DSTypes

(* A holder that releases the path is counted out, and the entry stays while others are
   counted. *)
LEMMA DSReleaseStep ==
  ASSUME DSConstants, DSTypes, DS!PathIsHeld, NEW w \in DS!Holders, DS!Release(w), UNCHANGED leaked
  PROVE  /\ DS!PathIsHeld'
         /\ entry' \in DSEntries /\ task' \in DSTasks
         /\ \A v \in DS!Watcher : v # w => task'[v] = task[v]
<1>1. w \in DS!Watcher
  BY DEF DS!Holders
<1>2. \/ task' = [task EXCEPT ![w].stage = "destroying"]
      \/ task' = [task EXCEPT ![w] = DS!NoTask]
  BY DEF DS!Release, DS!Stage
<1>3. task' \in DSTasks /\ \A v \in DS!Watcher : v # w => task'[v] = task[v]
  BY <1>1, <1>2 DEF DSTypes, DSTasks, DS!Stages, DS!NoTask, DSConstants
<1>4. w \notin DS!Holders' /\ \A v \in DS!Watcher : v # w => (v \in DS!Holders' <=> v \in DS!Holders)
  BY <1>1, <1>2 DEF DSTypes, DSTasks, DS!Holders, DS!NoTask
<1>5. /\ Cardinality(DS!Holders) \in Nat /\ Cardinality(DS!Holders)' \in Nat
      /\ Cardinality(DS!Holders)' = Cardinality(DS!Holders) - 1
  BY <1>1, <1>4, DSOneTaskChanges
<1>6. entry.refs >= 1
  BY DSSameCount, <1>5 DEF DS!PathIsHeld, DSTypes
<1>7. entry' = [entry EXCEPT !.refs = @ - 1]
      \/ entry' = [entry EXCEPT !.refs = @ - 1, !.reporters = DS!NoReporters]
  BY DEF DS!Release, DS!Destroyed
<1>8. /\ entry' \in DSEntries
      /\ entry'.there = entry.there /\ entry'.refs = entry.refs - 1
  <2>1. \E r \in DS!Reporters :
          entry' = [there |-> entry.there, refs |-> entry.refs - 1, option |-> entry.option,
                    reporters |-> r]
    BY <1>7 DEF DS!NoReporters, DS!Reporters, DSTypes, DSEntries
  <2> QED
    BY <1>6, <2>1 DEF DSTypes, DSEntries
<1> QED
  BY DSSameCount, <1>3, <1>5, <1>8 DEF DS!PathIsHeld, DSTypes

-----------------------------------------------------------------------------
(* A step that moves one watcher between the stages that count leaves the count right. *)
LEMMA DSStillHolds ==
  ASSUME DSConstants, DS!PathIsHeld, NEW w \in DS!Watcher,
         \A v \in DS!Watcher : v # w => (v \in DS!Holders' <=> v \in DS!Holders),
         w \in DS!Holders' <=> w \in DS!Holders,
         entry'.refs = entry.refs, entry'.there = entry.there, leaked' = leaked
  PROVE  DS!PathIsHeld'
  BY DSSameCount, DSOneTaskChanges DEF DS!PathIsHeld

(* A call that fails is no holder any more, and its reference is one of those left. *)
LEMMA DSCallFails ==
  ASSUME DSConstants, DSTypes, DS!PathIsHeld, NEW w \in DS!Holders,
         task' = [task EXCEPT ![w] = DS!NoTask], leaked' = leaked + 1, UNCHANGED entry
  PROVE  DS!PathIsHeld' /\ task' \in DSTasks /\ \A v \in DS!Watcher : v # w => task'[v] = task[v]
<1>1. w \in DS!Watcher
  BY DEF DS!Holders
<1>2. w \notin DS!Holders' /\ \A v \in DS!Watcher : v # w => (v \in DS!Holders' <=> v \in DS!Holders)
  BY <1>1 DEF DSTypes, DSTasks, DS!Holders, DS!NoTask
<1>3. Cardinality(DS!Holders) \in Nat /\ Cardinality(DS!Holders)' = Cardinality(DS!Holders) - 1
  BY <1>1, <1>2, DSOneTaskChanges
<1>4. DS!PathIsHeld'
  BY DSSameCount, <1>3 DEF DS!PathIsHeld, DSTypes
<1> QED
  BY <1>1, <1>4 DEF DSTypes, DSTasks, DS!NoTask, DS!Stages, DSConstants

(* The calls of a client, from its first reference to its last. *)
LEMMA DSMonitorStep ==
  ASSUME DSConstants, DSBase, NEW c \in Client, DS!Monitor(c) PROVE DSBase'
<1>1. c \in DS!Watcher /\ c \notin DS!Holders /\ c # DS!Mount
  BY DEF DS!Monitor, DS!Holders, DS!Watcher, DSConstants
<1>2. PICK o \in Option : DS!MonitorPath(c, o)
  BY DEF DS!Monitor
<1>3. /\ DS!PathIsHeld' /\ entry' \in DSEntries /\ task' \in DSTasks
      /\ \A v \in DS!Watcher : v # c => task'[v] = task[v]
  BY <1>1, <1>2, DSMonitorPathStep DEF DSBase, DS!Monitor
<1> QED
  BY <1>1, <1>3 DEF DSBase, DSTypes, DSUpdatersWatch, DSMountIsHeld, DS!Monitor, DS!KeepUpdate,
     DS!Watcher

LEMMA DSUnsubscribeStep ==
  ASSUME DSConstants, DSBase, NEW c \in Client, DS!Unsubscribe(c) PROVE DSBase'
<1>1. c \in DS!Holders /\ c # DS!Mount
  BY DEF DS!Unsubscribe, DS!Holders, DS!Watcher, DSConstants
<1>2. /\ DS!PathIsHeld' /\ entry' \in DSEntries /\ task' \in DSTasks
      /\ \A v \in DS!Watcher : v # c => task'[v] = task[v]
  BY <1>1, DSReleaseStep DEF DSBase, DS!Unsubscribe
<1> QED
  BY <1>1, <1>2 DEF DSBase, DSTypes, DSUpdatersWatch, DSMountIsHeld, DS!Unsubscribe,
     DS!KeepUpdate, DS!Watcher

(* The reporters of a call are opened; the call goes on, or it fails. *)
LEMMA DSOpenedStep ==
  ASSUME DSConstants, DSBase, NEW w \in DS!Watcher, DS!Opened(w) PROVE DSBase'
<1>1. /\ entry' = [there |-> entry.there, refs |-> entry.refs, option |-> entry.option,
                   reporters |-> [entry.reporters EXCEPT ![task[w].kind] = task[w].option]]
      /\ UNCHANGED leaked
  BY DEF DS!Opened, DSBase, DSTypes, DSEntries
<1>2. /\ task' = [task EXCEPT ![w] = DS!NextReporter(w)]
      /\ DS!NextReporter(w) \in [stage : DS!Stages, option : Option, kind : Nat]
      /\ DS!NextReporter(w).stage \in {"opening", "held", "update"}
  <2>1. task' = [task EXCEPT ![w] = DS!NextReporter(w)]
    BY DEF DS!Opened
  <2>2. task[w] \in [stage : DS!Stages, option : Option, kind : Nat] /\ task[w].stage = "opening"
    BY DEF DS!Opened, DSBase, DSTypes, DSTasks
  <2>3. DS!AfterReporters(w) \in {"held", "update"}
    BY DEF DS!AfterReporters
  <2>4. CASE task[w].kind < Kinds
    BY <2>1, <2>2, <2>4 DEF DS!NextReporter
  <2>5. CASE ~(task[w].kind < Kinds)
    BY <2>1, <2>2, <2>3, <2>5 DEF DS!NextReporter, DS!Stages
  <2> QED
    BY <2>4, <2>5
<1>3. /\ task' \in DSTasks /\ \A v \in DS!Watcher : v # w => task'[v] = task[v]
      /\ task'[w].stage \in {"opening", "update", "held"}
  BY <1>2 DEF DS!Opened, DSBase, DSTypes, DSTasks, DS!Stages
<1>4. entry' \in DSEntries /\ entry'.refs = entry.refs /\ entry'.there = entry.there
  BY <1>1 DEF DSBase, DSTypes, DSEntries, DSTasks, DS!Reporters
<1>5. DS!PathIsHeld'
  BY <1>1, <1>3, <1>4, DSStillHolds DEF DS!Opened, DS!Holders, DSBase
<1> QED
  BY <1>3, <1>4, <1>5 DEF DSBase, DSTypes, DSUpdatersWatch, DSMountIsHeld, DS!Opened,
     DS!KeepUpdate, DS!Watcher
LEMMA DSOpenFailsStep ==
  ASSUME DSConstants, DSBase, NEW w \in DS!Watcher, DS!OpenFails(w) PROVE DSBase'
<1>1. w \in DS!Holders
  BY DEF DS!OpenFails, DS!Holders
<1>2. DS!PathIsHeld' /\ task' \in DSTasks /\ \A v \in DS!Watcher : v # w => task'[v] = task[v]
  BY <1>1, DSCallFails DEF DSBase, DS!OpenFails
<1> QED
  BY <1>2 DEF DSBase, DSTypes, DSUpdatersWatch, DSMountIsHeld, DS!OpenFails, DS!KeepUpdate,
     DS!Watcher

(* The entry that ReportersGone removes is nobody's. *)
LEMMA DSReportersGoneStep ==
  ASSUME DSConstants, DSBase, NEW w \in DS!Watcher, DS!ReportersGone(w) PROVE DSBase'
<1>1. task' \in DSTasks /\ \A v \in DS!Watcher : v # w => task'[v] = task[v]
  BY DEF DS!ReportersGone, DSBase, DSTypes, DSTasks, DS!NoTask, DS!Stages, DSConstants
<1>2. w \notin DS!Holders /\ w \notin DS!Holders'
      /\ \A v \in DS!Watcher : v # w => (v \in DS!Holders' <=> v \in DS!Holders)
  BY DEF DS!ReportersGone, DS!Holders, DS!NoTask, DSBase, DSTypes, DSTasks
<1>3. /\ entry' \in DSEntries /\ entry'.refs = entry.refs /\ leaked' = leaked
      /\ entry'.refs > 0 => entry' = entry
  BY DEF DS!ReportersGone, DS!MayRemove, DS!NoEntry, DS!NoReporters, DS!Reporters, DSEntries,
     DSBase, DSTypes
<1>4. DS!PathIsHeld'
  BY DSSameCount, <1>2, <1>3, DSOneTaskChanges DEF DSBase, DS!PathIsHeld
<1> QED
  BY <1>1, <1>3, <1>4 DEF DSBase, DSTypes, DSUpdatersWatch, DSMountIsHeld, DS!ReportersGone,
     DS!KeepUpdate, DS!Watcher

(* The update that begins to watch the mount, or stops to. *)
LEMMA DSAddMountStep ==
  ASSUME DSConstants, DSBase, DS!AddMount PROVE DSBase'
<1>1. DS!Mount \in DS!Watcher /\ DS!Mount \notin DS!Holders /\ Default \in Option
  BY DEF DS!AddMount, DS!Holders, DS!Watcher, DSConstants
<1>2. /\ DS!PathIsHeld' /\ entry' \in DSEntries /\ task' \in DSTasks
      /\ \A v \in DS!Watcher : v # DS!Mount => task'[v] = task[v]
  BY <1>1, DSMonitorPathStep DEF DSBase, DS!AddMount
<1> QED
  BY <1>1, <1>2 DEF DSBase, DSTypes, DSUpdatersWatch, DSMountIsHeld, DS!AddMount, DS!Watcher,
     DSConstants

LEMMA DSRemoveMountStep ==
  ASSUME DSConstants, DSBase, DS!RemoveMount PROVE DSBase'
<1>1. CASE automatic = "held"
  <2>1. DS!Mount \in DS!Holders
    BY <1>1 DEF DS!RemoveMount, DSBase, DSMountIsHeld, DS!Holders, DS!Watcher
  <2>2. /\ DS!PathIsHeld' /\ entry' \in DSEntries /\ task' \in DSTasks
        /\ \A v \in DS!Watcher : v # DS!Mount => task'[v] = task[v]
    BY <1>1, <2>1, DSReleaseStep DEF DSBase, DS!RemoveMount
  <2> QED
    BY <2>2 DEF DSBase, DSTypes, DSUpdatersWatch, DSMountIsHeld, DS!RemoveMount, DS!Watcher,
       DSConstants
<1>2. CASE automatic # "held"
  <2>1. UNCHANGED <<entry, task, leaked>>
    BY <1>2 DEF DS!RemoveMount
  <2>2. DS!PathIsHeld'
    BY <2>1, DSNothingChanges DEF DSBase
  <2> QED
    <3>1. DSTypes'
      BY <1>2, <2>1 DEF DSBase, DSTypes, DS!RemoveMount
    <3>2. DSUpdatersWatch'
      BY <1>2, <2>1 DEF DSBase, DSTypes, DSUpdatersWatch, DS!RemoveMount, DSConstants
    <3>3. DSMountIsHeld'
      BY <1>2, <2>1 DEF DSBase, DSMountIsHeld, DS!RemoveMount
    <3> QED
      BY <2>2, <3>1, <3>2, <3>3 DEF DSBase
<1> QED
  BY <1>1, <1>2

(* The end of an update is the end of the call that it belongs to, if it belongs to one. *)
LEMMA DSEndUpdateStep ==
  ASSUME DSConstants, DSBase, NEW fails \in BOOLEAN, step = "report", DS!EndUpdate(fails) PROVE DSBase'
<1>1. owner # NoValue
  BY DEF DSBase, DSUpdatersWatch
<1>2. CASE owner = DS!Timer
  <2>1. UNCHANGED <<entry, task, leaked>>
    BY <1>2 DEF DS!EndUpdate
  <2>2. DS!PathIsHeld'
    BY <2>1, DSNothingChanges DEF DSBase
  <2> QED
    <3>1. DSTypes'
      BY <1>2, <2>1 DEF DSBase, DSTypes, DS!EndUpdate
    <3>2. DSUpdatersWatch'
      BY <1>2, <2>1 DEF DSBase, DSTypes, DSUpdatersWatch, DS!EndUpdate, DSConstants
    <3>3. DSMountIsHeld'
      BY <1>2, <2>1 DEF DSBase, DSMountIsHeld, DS!EndUpdate
    <3> QED
      BY <2>2, <3>1, <3>2, <3>3 DEF DSBase
<1>3. CASE owner # DS!Timer
  <2> SUFFICES ASSUME NEW c \in Client, c = owner PROVE DSBase'
    BY <1>1, <1>3 DEF DSBase, DSTypes
  <2>1. c \in DS!Watcher /\ c \in DS!Holders /\ c # DS!Mount /\ task[c].stage = "update"
    BY DEF DSBase, DSUpdatersWatch, DS!Holders, DS!Watcher, DSConstants
  <2>2. DS!PathIsHeld' /\ task' \in DSTasks /\ \A v \in DS!Watcher : v # c => task'[v] = task[v]
    <3>1. CASE fails
      BY <1>3, <2>1, <3>1, DSCallFails DEF DSBase, DS!EndUpdate
    <3>2. CASE ~fails
      <4>1. task' = [task EXCEPT ![c].stage = "held"] /\ entry' = entry /\ leaked' = leaked
        BY <1>3, <3>2 DEF DS!EndUpdate, DS!Stage
      <4>2. task' \in DSTasks /\ \A v \in DS!Watcher : v # c => task'[v] = task[v]
        BY <2>1, <4>1 DEF DSBase, DSTypes, DSTasks, DS!Stages
      <4>3. c \in DS!Holders' /\ \A v \in DS!Watcher : v # c => (v \in DS!Holders' <=> v \in DS!Holders)
        BY <2>1, <4>1 DEF DSBase, DSTypes, DSTasks, DS!Holders
      <4> QED
        BY <2>1, <4>1, <4>2, <4>3, DSStillHolds DEF DSBase
    <3> QED
      BY <3>1, <3>2
  <2>3. leaked' \in Nat
    BY DEF DSBase, DSTypes, DS!EndUpdate
  <2> QED
    <3>1. DSTypes'
      BY <2>2, <2>3 DEF DSBase, DSTypes, DS!EndUpdate
    <3>2. DSUpdatersWatch'
      BY <2>1, <2>2 DEF DSBase, DSTypes, DSUpdatersWatch, DS!EndUpdate, DSConstants, DS!Watcher
    <3>3. DSMountIsHeld'
      BY <2>1, <2>2 DEF DSBase, DSMountIsHeld, DS!EndUpdate, DS!Watcher
    <3> QED
      BY <2>2, <3>1, <3>2, <3>3 DEF DSBase
<1> QED
  BY <1>2, <1>3
(* The parts of the invariant together. *)
LEMMA DSBaseInit ==
  ASSUME DSConstants, DS!Init
  PROVE  DSBase
<1>1. DS!Holders = {}
  BY DEF DS!Init, DS!Holders, DS!NoTask, DS!Watcher
<1>2. DS!PathIsHeld
  BY DSSameCount, <1>1, FS_EmptySet DEF DS!Init, DS!PathIsHeld, DS!NoEntry
<1>3. DSTypes
  BY DEF DS!Init, DSTypes, DSEntries, DSTasks, DS!NoEntry, DS!NoReporters, DS!Reporters,
     DS!NoTask, DS!Stages, DSConstants
<1> QED
  BY <1>2, <1>3 DEF DSBase, DS!Init, DSUpdatersWatch, DSMountIsHeld, DSConstants

LEMMA DSBaseNext ==
  ASSUME DSConstants, DSBase, DS!Next
  PROVE  DSBase'
<1>1. ASSUME NEW c \in Client, DS!Monitor(c) \/ DS!Unsubscribe(c) PROVE DSBase'
  BY <1>1, DSMonitorStep, DSUnsubscribeStep
<1>2. ASSUME NEW w \in DS!Watcher, DS!Opened(w) \/ DS!OpenFails(w) \/ DS!ReportersGone(w) PROVE DSBase'
  BY <1>2, DSOpenedStep, DSOpenFailsStep, DSReportersGoneStep
<1>3. CASE DS!AddMount
  BY <1>3, DSAddMountStep
<1>4. CASE DS!RemoveMount
  BY <1>4, DSRemoveMountStep
<1>5. CASE DS!Reported \/ DS!UpdateFails
  BY <1>5, DSEndUpdateStep DEF DS!Reported, DS!UpdateFails
<1>6. ASSUME UNCHANGED <<entry, task, leaked>>,
             \/ \E c \in Client : DS!AskToUpdate(c)
             \/ \E u \in Client \union {DS!Timer} : DS!BeginUpdate(u)
             \/ DS!TimerUpdates \/ DS!SkipUpdate \/ DS!MountAdded \/ DS!MountRemoved \/ DS!MountsAreKnown
             \/ DS!Measure \/ DS!MountOrUnmount \/ UNCHANGED dsVars
      PROVE  DSBase'
  <2>1. DS!PathIsHeld'
    BY <1>6, DSNothingChanges DEF DSBase
  <2>2. DSTypes'
    BY <1>6 DEF DSBase, DSTypes, DS!AskToUpdate, DS!BeginUpdate, DS!TimerUpdates, DS!SkipUpdate,
       DS!MountAdded, DS!MountRemoved, DS!MountsAreKnown, DS!Measure, DS!MountOrUnmount, dsVars
  <2>3. DSUpdatersWatch'
    BY <1>6 DEF DSConstants, DSBase, DSTypes, DSUpdatersWatch, DS!AskToUpdate, DS!BeginUpdate,
       DS!TimerUpdates, DS!SkipUpdate, DS!MountAdded, DS!MountRemoved, DS!MountsAreKnown,
       DS!Measure, DS!MountOrUnmount, dsVars
  <2>4. DSMountIsHeld'
    BY <1>6 DEF DSBase, DSUpdatersWatch, DSMountIsHeld, DS!AskToUpdate, DS!BeginUpdate,
       DS!TimerUpdates, DS!SkipUpdate, DS!MountAdded, DS!MountRemoved, DS!MountsAreKnown,
       DS!Measure, DS!MountOrUnmount, dsVars
  <2> QED
    BY <2>1, <2>2, <2>3, <2>4 DEF DSBase
<1>7. (\/ \E c \in Client : DS!AskToUpdate(c)
       \/ \E u \in Client \union {DS!Timer} : DS!BeginUpdate(u)
       \/ DS!TimerUpdates \/ DS!SkipUpdate \/ DS!MountAdded \/ DS!MountRemoved \/ DS!MountsAreKnown
       \/ DS!Measure \/ DS!MountOrUnmount \/ UNCHANGED dsVars)
      => UNCHANGED <<entry, task, leaked>>
  BY DEF DS!AskToUpdate, DS!BeginUpdate, DS!TimerUpdates, DS!SkipUpdate, DS!MountAdded,
     DS!MountRemoved, DS!MountsAreKnown, DS!Measure, DS!MountOrUnmount, dsVars
<1> QED
  BY <1>1, <1>2, <1>3, <1>4, <1>5, <1>6, <1>7 DEF DS!Next

LEMMA DSBaseStays ==
  ASSUME DSBase, UNCHANGED dsVars
  PROVE  DSBase'
BY DSSameCount DEF dsVars, DSBase, DSTypes, DS!PathIsHeld, DSUpdatersWatch, DSMountIsHeld,
   DS!Holders


-----------------------------------------------------------------------------
(* Unless a call for the path failed or two opened its reporters together: one call at most
   opens them, and has opened the first ones with the options asked for last; when none
   does, all of a watched path are open with these. *)
DSOneOpens ==
  \A v, w \in DS!Watcher : task[v].stage = "opening" /\ task[w].stage = "opening" => v = w
DSOpensInOrder ==
  \A w \in DS!Watcher : task[w].stage = "opening" =>
    /\ task[w].option = entry.option
    /\ \A k \in 1..Kinds : k < task[w].kind => entry.reporters[k] = entry.option
DSAllOpen == entry.refs > 0 /\ ~DS!Opening => \A k \in 1..Kinds : entry.reporters[k] = entry.option
DSInTurn == leaked = 0 /\ ~raced => DSOneOpens /\ DSOpensInOrder /\ DSAllOpen

(* Nobody has the path when it is counted by none. *)
LEMMA DSNobodyHolds ==
  ASSUME DSConstants, DSBase, entry.refs = 0
  PROVE  DS!Holders = {} /\ ~DS!Opening
<1>1. IsFiniteSet(DS!Holders)
  BY DSHoldersFinite
<1>2. Cardinality(DS!Holders) \in Nat
  BY <1>1, FS_CardinalityType
<1>3. Cardinality(DS!Holders) = 0
  BY <1>2, DSSameCount DEF DSBase, DS!PathIsHeld, DSTypes
<1>4. DS!Holders = {}
  BY <1>1, <1>3, FS_EmptySet
<1> QED
  BY <1>4 DEF DS!Holders, DS!Opening

(* A step that neither begins nor ends to open reporters and leaves them alone. *)
LEMMA DSInTurnStays ==
  ASSUME DSBase, DSInTurn, leaked' = leaked, raced' = raced,
         entry'.option = entry.option, entry'.reporters = entry.reporters,
         entry'.refs > 0 => entry.refs > 0,
         \A w \in DS!Watcher : \/ task'[w] = task[w]
                            \/ (task[w].stage # "opening" /\ task'[w].stage # "opening")
  PROVE  DSInTurn'
<1> SUFFICES ASSUME leaked = 0, ~raced PROVE DSOneOpens' /\ DSOpensInOrder' /\ DSAllOpen'
  BY DEF DSInTurn
<1>1. DSOneOpens /\ DSOpensInOrder /\ DSAllOpen
  BY DEF DSInTurn
<1>2. DSOneOpens'
  BY <1>1 DEF DSOneOpens
<1>3. DSOpensInOrder'
  BY <1>1 DEF DSOpensInOrder
<1>4. DS!Opening' <=> DS!Opening
  BY DEF DS!Opening
<1>5. DSAllOpen'
  BY <1>1, <1>4 DEF DSAllOpen
<1> QED
  BY <1>2, <1>3, <1>5

(* A path of which nobody has any reporters open. *)
LEMMA DSInTurnEmpty ==
  ASSUME DS!Holders' = {}, entry'.refs = 0
  PROVE  DSInTurn'
<1>1. \A w \in DS!Watcher : task'[w].stage # "opening"
  BY DEF DS!Holders
<1>2. ~(entry'.refs > 0)
  OBVIOUS
<1> QED
  BY <1>1, <1>2 DEF DSInTurn, DSOneOpens, DSOpensInOrder, DSAllOpen

(* A call opens the reporters, or finds them as it wants them. *)
LEMMA DSMonitorPathInTurn ==
  ASSUME DSConstants, DSBase, DSInTurn, raced \in BOOLEAN, NEW w \in DS!Watcher, NEW o \in Option,
         w \notin DS!Holders, DS!MonitorPath(w, o), UNCHANGED leaked
  PROVE  DSInTurn' /\ raced' \in BOOLEAN
<1>1. task[w].stage # "opening"
  BY DEF DS!Holders
<1>2. task \in DSTasks /\ entry \in DSEntries
  BY DEF DSBase, DSTypes
<1>3. raced' = (raced \/ (DS!Opens(entry, o) /\ DS!Opening))
  BY DEF DS!MonitorPath
<1>4. CASE DS!Opens(entry, o)
  <2>1. task' = [task EXCEPT ![w] = [stage |-> "opening", option |-> o, kind |-> 1]]
    BY <1>4 DEF DS!MonitorPath
  <2>2. entry' = [entry EXCEPT !.there = TRUE, !.refs = @ + 1, !.option = o]
    BY <1>4 DEF DS!MonitorPath
  <2>3. CASE ~DS!Opening
    <3>1. \A v \in DS!Watcher : task'[v].stage = "opening" <=> v = w
      BY <1>2, <2>1, <2>3 DEF DS!Opening, DSTasks
    <3>2. task'[w].option = o /\ task'[w].kind = 1 /\ entry'.option = o
      BY <1>2, <2>1, <2>2 DEF DSTasks, DSEntries
    <3>3. DS!Opening'
      BY <3>1 DEF DS!Opening
    <3>4. \A k \in 1..Kinds : ~(k < 1)
      BY DEF DSConstants
    <3>5. DSOpensInOrder'
      BY <3>1, <3>2, <3>4 DEF DSOpensInOrder
    <3> QED
      BY <1>3, <3>1, <3>3, <3>5 DEF DSInTurn, DSOneOpens, DSAllOpen
  <2>4. CASE DS!Opening
    BY <1>3, <1>4, <2>4 DEF DSInTurn
  <2> QED
    BY <1>3, <2>3, <2>4 DEF DS!Opening
<1>5. CASE ~DS!Opens(entry, o)
  <2>1. entry.refs # 0 /\ entry.refs \in Nat
    BY <1>2, <1>5 DEF DS!Opens, DSEntries
  <2>2. entry' = [entry EXCEPT !.there = TRUE, !.refs = @ + 1, !.option = @]
    BY <1>5 DEF DS!MonitorPath
  <2>3. entry'.option = entry.option /\ entry'.reporters = entry.reporters /\ entry.refs > 0
    BY <1>2, <2>1, <2>2 DEF DSEntries
  <2>4. /\ \A v \in DS!Watcher : v # w => task'[v] = task[v]
        /\ task'[w].stage # "opening"
    BY <1>2, <1>5 DEF DS!MonitorPath, DS!AfterReporters, DSTasks
  <2>5. raced' = raced
    BY <1>3, <1>5
  <2> QED
    BY <1>1, <2>3, <2>4, <2>5, DSInTurnStays
<1> QED
  BY <1>4, <1>5

(* The end of a subscription: others have the path as it is, or nobody has it. *)
LEMMA DSReleaseInTurn ==
  ASSUME DSConstants, DSBase, DSInTurn, raced \in BOOLEAN, NEW w \in DS!Watcher, task[w].stage = "held",
         DS!Release(w), UNCHANGED leaked, DSBase'
  PROVE  DSInTurn' /\ raced' \in BOOLEAN
<1>1. task \in DSTasks /\ entry \in DSEntries /\ entry.refs \in Nat
  BY DEF DSBase, DSTypes, DSEntries
<1>2. w \in DS!Holders /\ Cardinality(DS!Holders) # 0
  <2>1. w \in DS!Holders
    BY DEF DS!Holders
  <2> QED
    BY <2>1, DSHoldersFinite, FS_EmptySet
<1>3. entry.refs > 0
  <2>1. Cardinality(DS!Holders) \in Nat
    BY DSHoldersFinite, FS_CardinalityType
  <2> QED
    BY <1>1, <1>2, <2>1, DSSameCount DEF DSBase, DS!PathIsHeld, DSTypes
<1>4. raced' = (raced /\ entry.refs > 1)
  BY DEF DS!Release
<1>5. CASE entry.refs = 1
  <2>1. [entry EXCEPT !.refs = @ - 1].refs = 0
    BY <1>1, <1>5 DEF DSEntries
  <2>2. entry' = DS!Destroyed([entry EXCEPT !.refs = @ - 1])
    BY <2>1 DEF DS!Release
  <2>3. entry'.refs = 0
    BY <1>1, <2>1, <2>2 DEF DS!Destroyed, DSEntries
  <2>4. Cardinality(DS!Holders') = 0
    <3>1. IsFiniteSet(DS!Watcher)
      BY FS_AddElement DEF DSConstants, DS!Watcher
    <3>2. IsFiniteSet(DS!Holders')
      BY <3>1, FS_Subset DEF DS!Holders
    <3>3. Cardinality(DS!Holders') \in Nat
      BY <3>2, FS_CardinalityType
    <3>4. entry'.refs = Cardinality(DS!Holders') + leaked'
      BY DSSameCount DEF DSBase, DS!PathIsHeld
    <3> QED
      BY <2>3, <3>3, <3>4 DEF DSBase, DSTypes
  <2>5. DS!Holders' = {}
    <3>1. IsFiniteSet(DS!Watcher)
      BY FS_AddElement DEF DSConstants, DS!Watcher
    <3>2. IsFiniteSet(DS!Holders')
      BY <3>1, FS_Subset DEF DS!Holders
    <3> QED
      BY <2>4, <3>2, FS_EmptySet
  <2> QED
    BY <1>4, <2>3, <2>5, DSInTurnEmpty
<1>6. CASE entry.refs # 1
  <2>1. [entry EXCEPT !.refs = @ - 1].refs # 0
    BY <1>1, <1>3, <1>6 DEF DSEntries
  <2>2. entry' = [entry EXCEPT !.refs = @ - 1]
    BY <2>1 DEF DS!Release
  <2>3. task' = [task EXCEPT ![w] = DS!NoTask]
    BY <1>6 DEF DS!Release
  <2>4. entry'.option = entry.option /\ entry'.reporters = entry.reporters
    BY <1>1, <2>2 DEF DSEntries
  <2>5. /\ \A v \in DS!Watcher : v # w => task'[v] = task[v]
        /\ task'[w].stage # "opening"
    BY <1>1, <2>3 DEF DSTasks, DS!NoTask
  <2>6. raced' = raced
    BY <1>1, <1>3, <1>4, <1>6
  <2> QED
    BY <1>3, <2>4, <2>5, <2>6, DSInTurnStays
<1> QED
  BY <1>5, <1>6

(* The reporters are opened one after the other by the call whose turn it is. *)
LEMMA DSOpenedInTurn ==
  ASSUME DSConstants, DSBase, DSInTurn, NEW w \in DS!Watcher, DS!Opened(w)
  PROVE  DSInTurn'
<1> SUFFICES ASSUME leaked = 0, ~raced PROVE DSOneOpens' /\ DSOpensInOrder' /\ DSAllOpen'
  BY DEF DSInTurn, DS!Opened
<1>1. DSOneOpens /\ DSOpensInOrder
  BY DEF DSInTurn
<1>2. task \in DSTasks /\ entry \in DSEntries /\ task[w].kind \in Nat
  BY DEF DSBase, DSTypes, DSTasks
<1>3. task' = [task EXCEPT ![w] = DS!NextReporter(w)]
  BY DEF DS!Opened
<1>4. entry' = [there |-> entry.there, refs |-> entry.refs, option |-> entry.option,
                reporters |-> [entry.reporters EXCEPT ![task[w].kind] = task[w].option]]
  BY DEF DS!Opened, DSBase, DSTypes, DSEntries
<1>5. task[w].stage = "opening" /\ task[w].option = entry.option
  BY <1>1 DEF DS!Opened, DSOpensInOrder
<1>6. \A k \in 1..Kinds : k < task[w].kind \/ k = task[w].kind =>
        entry'.reporters[k] = entry.option
  BY <1>1, <1>2, <1>4, <1>5 DEF DSOpensInOrder, DSEntries, DS!Reporters
<1>7. \A v \in DS!Watcher : v # w => task'[v] = task[v] /\ task'[v].stage # "opening"
  BY <1>1, <1>2, <1>3, <1>5 DEF DSOneOpens, DSTasks
<1>8. task'[w] = DS!NextReporter(w) /\ entry'.option = entry.option
  BY <1>2, <1>3, <1>4 DEF DSTasks
<1>9. DSOneOpens'
  BY <1>7 DEF DSOneOpens
<1>10. CASE task[w].kind < Kinds
  <2>1. /\ DS!NextReporter(w).stage = "opening" /\ DS!NextReporter(w).option = entry.option
        /\ DS!NextReporter(w).kind = task[w].kind + 1
    BY <1>2, <1>5, <1>10 DEF DS!NextReporter, DSTasks
  <2>2. \A k \in 1..Kinds : k < task[w].kind + 1 => k < task[w].kind \/ k = task[w].kind
    BY <1>2 DEF DSConstants
  <2>3. DSOpensInOrder'
    BY <1>6, <1>7, <1>8, <2>1, <2>2 DEF DSOpensInOrder
  <2>4. DS!Opening'
    BY <1>8, <2>1 DEF DS!Opening
  <2> QED
    BY <1>9, <2>3, <2>4 DEF DSAllOpen
<1>11. CASE ~(task[w].kind < Kinds)
  <2>1. DS!NextReporter(w).stage # "opening"
    BY <1>2, <1>11 DEF DS!NextReporter, DSTasks, DS!AfterReporters
  <2>2. \A k \in 1..Kinds : k < task[w].kind \/ k = task[w].kind
    BY <1>2, <1>11 DEF DSConstants
  <2>3. \A k \in 1..Kinds : entry'.reporters[k] = entry'.option
    BY <1>6, <1>8, <2>2
  <2>4. DSOpensInOrder'
    BY <1>7, <1>8, <2>1 DEF DSOpensInOrder
  <2> QED
    BY <1>9, <2>3, <2>4 DEF DSAllOpen
<1> QED
  BY <1>10, <1>11

DSInv == DSBase /\ DSInTurn /\ raced \in BOOLEAN

LEMMA DSInitHolds ==
  ASSUME DSConstants, DS!Init
  PROVE  DSInv
<1>1. \A w \in DS!Watcher : task[w].stage # "opening"
  BY DEF DS!Init, DS!NoTask
<1>2. ~(entry.refs > 0)
  BY DEF DS!Init, DS!NoEntry
<1> QED
  BY <1>1, <1>2, DSBaseInit DEF DSInv, DSInTurn, DSOneOpens, DSOpensInOrder, DSAllOpen, DS!Init

LEMMA DSNextHolds ==
  ASSUME DSConstants, DSInv, DS!Next
  PROVE  DSInv'
<1> USE DEF DSInv
<1>1. DSBase' /\ task \in DSTasks /\ entry \in DSEntries
  BY DSBaseNext DEF DSBase, DSTypes
<1>2. ASSUME NEW c \in Client, DS!Monitor(c) PROVE DSInv'
  <2>1. c \in DS!Watcher /\ c \notin DS!Holders
    BY <1>2 DEF DS!Monitor, DS!Holders, DS!Watcher
  <2> QED
    BY <1>1, <1>2, <2>1, DSMonitorPathInTurn DEF DS!Monitor
<1>3. ASSUME NEW c \in Client, DS!Unsubscribe(c) PROVE DSInv'
  BY <1>1, <1>3, DSReleaseInTurn DEF DS!Unsubscribe, DS!Watcher
<1>4. ASSUME NEW w \in DS!Watcher, DS!Opened(w) PROVE DSInv'
  BY <1>1, <1>4, DSOpenedInTurn DEF DS!Opened
<1>5. ASSUME NEW w \in DS!Watcher, DS!OpenFails(w) PROVE DSInv'
  BY <1>1, <1>5 DEF DS!OpenFails, DSInTurn, DSBase, DSTypes
<1>6. ASSUME NEW w \in DS!Watcher, DS!ReportersGone(w) PROVE DSInv'
  <2>1. task' = [task EXCEPT ![w] = DS!NoTask] /\ leaked' = leaked /\ raced' = raced
    BY <1>6 DEF DS!ReportersGone
  <2>2. /\ task[w].stage # "opening" /\ task'[w].stage # "opening"
        /\ \A v \in DS!Watcher : v # w => task'[v] = task[v]
    BY <1>1, <1>6, <2>1 DEF DS!ReportersGone, DS!NoTask, DSTasks
  <2>3. CASE entry' = entry
    BY <1>1, <2>1, <2>2, <2>3, DSInTurnStays
  <2>4. CASE entry' # entry
    <3>1. entry.refs = 0 /\ entry'.refs = 0
      BY <1>6, <2>4 DEF DS!ReportersGone, DS!MayRemove, DS!NoEntry
    <3>2. DS!Holders' = {}
      BY <1>1, <3>1, <2>1, <2>2, DSNobodyHolds DEF DS!Holders, DS!NoTask, DSTasks
    <3> QED
      BY <1>1, <2>1, <3>1, <3>2, DSInTurnEmpty
  <2> QED
    BY <2>3, <2>4
<1>7. CASE DS!AddMount
  <2>1. DS!Mount \in DS!Watcher /\ DS!Mount \notin DS!Holders /\ Default \in Option
    BY <1>7 DEF DS!AddMount, DS!Holders, DS!Watcher, DSConstants
  <2> QED
    BY <1>1, <1>7, <2>1, DSMonitorPathInTurn DEF DS!AddMount
<1>8. CASE DS!RemoveMount
  <2>1. CASE automatic = "held"
    <3>1. task[DS!Mount].stage = "held" /\ DS!Mount \in DS!Watcher
      BY <1>8, <2>1 DEF DS!RemoveMount, DSBase, DSMountIsHeld, DS!Watcher
    <3> QED
      BY <1>1, <1>8, <2>1, <3>1, DSReleaseInTurn DEF DS!RemoveMount
  <2>2. CASE automatic # "held"
    BY <1>1, <1>8, <2>2, DSInTurnStays DEF DS!RemoveMount
  <2> QED
    BY <2>1, <2>2
<1>9. ASSUME NEW fails \in BOOLEAN, step = "report", DS!EndUpdate(fails) PROVE DSInv'
  <2>1. entry' = entry /\ raced' = raced
    BY <1>9 DEF DS!EndUpdate
  <2>2. CASE owner = DS!Timer
    BY <1>1, <1>9, <2>1, <2>2, DSInTurnStays DEF DS!EndUpdate
  <2>3. CASE owner # DS!Timer
    <3>1. owner \in Client /\ owner \in DS!Watcher /\ task[owner].stage = "update"
      BY <1>9, <2>3 DEF DSBase, DSTypes, DSUpdatersWatch, DS!Watcher
    <3>2. /\ \A v \in DS!Watcher : v # owner => task'[v] = task[v]
          /\ task'[owner].stage # "opening"
      BY <1>1, <1>9, <2>3, <3>1 DEF DS!EndUpdate, DS!Stage, DSTasks, DS!NoTask
    <3>3. CASE fails
      BY <1>1, <1>9, <2>1, <2>3, <3>3 DEF DS!EndUpdate, DSInTurn, DSBase, DSTypes
    <3>4. CASE ~fails
      BY <1>1, <1>9, <2>1, <2>3, <3>1, <3>2, <3>4, DSInTurnStays DEF DS!EndUpdate
    <3> QED
      BY <3>3, <3>4
  <2> QED
    BY <2>2, <2>3
<1>10. CASE DS!Reported \/ DS!UpdateFails
  BY <1>9, <1>10 DEF DS!Reported, DS!UpdateFails
<1>11. CASE \/ \E c \in Client : DS!AskToUpdate(c)
            \/ \E u \in Client \union {DS!Timer} : DS!BeginUpdate(u)
            \/ DS!TimerUpdates \/ DS!SkipUpdate \/ DS!MountAdded \/ DS!MountRemoved \/ DS!MountsAreKnown
            \/ DS!Measure \/ DS!MountOrUnmount
  <2>1. UNCHANGED <<entry, task, leaked, raced>>
    BY <1>11 DEF DS!AskToUpdate, DS!BeginUpdate, DS!TimerUpdates, DS!SkipUpdate, DS!MountAdded,
       DS!MountRemoved, DS!MountsAreKnown, DS!Measure, DS!MountOrUnmount
  <2> QED
    BY <1>1, <2>1, DSInTurnStays
<1> QED
  BY <1>2, <1>3, <1>4, <1>5, <1>6, <1>7, <1>8, <1>10, <1>11 DEF DS!Next

LEMMA DSStays ==
  ASSUME DSInv, UNCHANGED dsVars
  PROVE  DSInv'
<1>1. DSBase'
  BY DSBaseStays DEF DSInv
<1>2. DSInTurn'
  BY DEF dsVars, DSInv, DSInTurn, DSOneOpens, DSOpensInOrder, DSAllOpen, DS!Opening
<1> QED
  BY <1>1, <1>2 DEF DSInv, dsVars

LEMMA DSHolds ==
  ASSUME DSInv
  PROVE  DS!PathIsHeld /\ DS!ReportersMatch
<1>1. ASSUME entry.refs > 0, ~DS!Opening, leaked = 0, ~raced
      PROVE  entry.reporters = [k \in 1..Kinds |-> entry.option]
  <2>1. \A k \in 1..Kinds : entry.reporters[k] = entry.option
    BY <1>1 DEF DSInv, DSInTurn, DSAllOpen
  <2>2. entry.reporters \in DS!Reporters
    BY DEF DSInv, DSBase, DSTypes, DSEntries
  <2> QED
    BY <2>1, <2>2 DEF DS!Reporters
<1> QED
  BY <1>1 DEF DSInv, DSBase, DS!ReportersMatch

(* A step of all together is one of DiskSpace, when that is what runs, or leaves its
   variables alone. *)
LEMMA DSFrame ==
  ASSUME [Next]_vars, component' = "DiskSpace"
  PROVE  component = "DiskSpace" /\ (DS!Next \/ UNCHANGED dsVars)
<1>1. CASE Next
  BY <1>1 DEF Next
<1>2. CASE UNCHANGED vars
  BY <1>2 DEF vars
<1> QED
  BY <1>1, <1>2

(* So the parts of its invariant hold from the first state on. *)
LEMMA DSAlways == Spec => [](component = "DiskSpace" => DSInv)
<1> DEFINE Inv == component = "DiskSpace" => DSInv
<1>1. Init => Inv
  BY DSAssumption, DSInitHolds DEF Init
<1>2. Inv /\ [Next]_vars => Inv'
  BY DSAssumption, DSFrame, DSNextHolds, DSStays
<1> QED
  BY <1>1, <1>2, PTL DEF Spec


-----------------------------------------------------------------------------
(* VersionFiles *)

(* What is saved is of an upload, or is of none, as often tagged as may be. *)
VFSaves == ((vfUpload \cup {VF!Adopted}) \X Nat) \cup {VF!NoInfo}
VFTypes ==
  /\ vfFiles \in [vfFile -> vfUpload \cup {0}] /\ exists \in BOOLEAN
  /\ json \in VFSaves /\ vfDatabase \in VFSaves /\ listed \in VFSaves
  /\ vfUploads \in [vfUpload -> [step : VF!UploadSteps, force : BOOLEAN]]
  /\ received \in [vfUpload -> Nat]
  /\ tagging \in [step : {"none", "json", "database"}, info : VFSaves]
  /\ refresh \in [step : {"none", "wait", "commit", "apply"}, info : VFSaves]
  /\ overwritten \in BOOLEAN /\ adopted \in BOOLEAN /\ vfAstray \in BOOLEAN

VFAt(u) == vfUploads[u].step
VFNotBegun == \A u \in vfUpload : VFAt(u) \in {"none", "held", "check"} => received[u] = 0

(* Between its scan and its end a refresh has no upload beside it. *)
VFRefreshIsAlone == refresh.step \in {"commit", "apply"} => VF!InProgress = {}

(* Who writes files below a version that is listed has overwritten it. *)
VFWritersAreCounted ==
  \A u \in vfUpload : VFAt(u) \in {"receive", "received"} /\ listed # VF!NoInfo => overwritten

(* One upload writes, and what it has received is there. *)
VFOneWrites ==
  ~vfAstray /\ ~overwritten =>
    \A u, v \in vfUpload :
      VFAt(u) \in {"receive", "received", "register"}
        /\ VFAt(v) \in {"receive", "received", "register"} => u = v
VFFilesArrive ==
  ~vfAstray /\ ~overwritten =>
    \A u \in vfUpload :
      /\ VFAt(u) = "receive" => \A f \in vfFile : f <= received[u] => vfFiles[f] = u
      /\ VFAt(u) \in {"received", "register"} => VF!Whole(u)

(* One change saves at a time, and each save is of what is listed or is to be. *)
VFOneSaves ==
  ~vfAstray =>
    \A u \in vfUpload : VFAt(u) \in {"register", "store"} =>
      /\ tagging.step = "none"
      /\ \A v \in vfUpload : VFAt(v) \in {"register", "store"} => v = u
VFUploadSaves ==
  ~vfAstray =>
    \A u \in vfUpload :
      /\ VFAt(u) \in {"register", "store"} => json = <<u, 0>>
      /\ VFAt(u) = "store" => listed = <<u, 0>>
VFTagsSave ==
  ~vfAstray /\ tagging.step # "none" =>
    /\ tagging.info = listed
    /\ tagging.step = "database" => json = listed
VFRefreshSaves ==
  ~vfAstray /\ refresh.step \in {"commit", "apply"} =>
    /\ tagging.step = "none"
    /\ refresh.info \in {VF!NoInfo, <<VF!Adopted, 0>>, json}
    /\ refresh.step = "apply" => vfDatabase = refresh.info

(* What is listed is whole, and is saved when nobody saves. *)
VFListedIsWhole ==
  ~vfAstray /\ listed # VF!NoInfo /\ ~overwritten /\ ~adopted => VF!Whole(listed[1])
VFIdle ==
  /\ tagging.step = "none" /\ refresh.step # "apply"
  /\ \A u \in vfUpload : VFAt(u) \notin {"register", "store"}
VFListedIsSaved ==
  ~vfAstray /\ VFIdle =>
    listed = vfDatabase /\ (listed # VF!NoInfo /\ listed[1] # VF!Adopted => json = listed)

VFInv ==
  /\ VFTypes /\ VFNotBegun /\ VFRefreshIsAlone /\ VFWritersAreCounted /\ VFOneWrites /\ VFFilesArrive
  /\ VFOneSaves /\ VFUploadSaves /\ VFTagsSave /\ VFRefreshSaves /\ VFListedIsWhole /\ VFListedIsSaved

(* An upload begins, or waits for the refresh. *)
LEMMA VFStartUploadStep ==
  ASSUME VFConstants, VFInv, NEW u \in vfUpload, NEW force \in BOOLEAN, VF!StartUpload(u, force)
  PROVE  VFInv'
<1> USE DEF VFInv, VFTypes, VFSaves, VF!UploadSteps, VF!NoInfo, VFAt, VF!Step
<1>1. VFTypes'
  BY DEF VF!StartUpload
<1>2. VFNotBegun'
  BY <1>1 DEF VFNotBegun, VF!StartUpload
<1>3. VFRefreshIsAlone'
  BY <1>1 DEF VFRefreshIsAlone, VF!InProgress, VF!StartUpload
<1>4. VFWritersAreCounted'
  BY <1>1 DEF VFWritersAreCounted, VF!StartUpload
<1>5. VFOneWrites'
  BY <1>1 DEF VFOneWrites, VFOneSaves, VF!StartUpload
<1>6. VFFilesArrive'
  BY <1>1 DEF VFFilesArrive, VFNotBegun, VFOneWrites, VFOneSaves, VF!Whole, VF!StartUpload
<1>7. VFOneSaves'
  BY <1>1 DEF VFOneSaves, VF!StartUpload
<1>8. VFUploadSaves'
  BY <1>1 DEF VFUploadSaves, VFOneSaves, VF!StartUpload
<1>9. VFListedIsSaved'
  BY <1>1 DEF VFListedIsSaved, VFUploadSaves, VFOneSaves, VFTagsSave, VFRefreshSaves, VFIdle,
     VF!StartUpload
<1>10. VFTagsSave' /\ VFRefreshSaves' /\ VFListedIsWhole'
  BY DEF VFTagsSave, VFRefreshSaves, VFListedIsWhole, VF!Whole, VF!StartUpload
<1> QED
  BY <1>1, <1>2, <1>3, <1>4, <1>5, <1>6, <1>7, <1>8, <1>9, <1>10

LEMMA VFAfterRefreshStep ==
  ASSUME VFConstants, VFInv, NEW u \in vfUpload, VF!AfterRefresh(u)
  PROVE  VFInv'
<1> USE DEF VFInv, VFTypes, VFSaves, VF!UploadSteps, VF!NoInfo, VFAt, VF!Step
<1>1. VFTypes'
  BY DEF VF!AfterRefresh
<1>2. VFNotBegun'
  BY <1>1 DEF VFNotBegun, VF!AfterRefresh
<1>3. VFRefreshIsAlone'
  BY <1>1 DEF VFRefreshIsAlone, VF!InProgress, VF!AfterRefresh
<1>4. VFWritersAreCounted'
  BY <1>1 DEF VFWritersAreCounted, VF!AfterRefresh
<1>5. VFOneWrites'
  BY <1>1 DEF VFOneWrites, VFOneSaves, VF!AfterRefresh
<1>6. VFFilesArrive'
  BY <1>1 DEF VFFilesArrive, VFNotBegun, VFOneWrites, VFOneSaves, VF!Whole, VF!AfterRefresh
<1>7. VFOneSaves'
  BY <1>1 DEF VFOneSaves, VF!AfterRefresh
<1>8. VFUploadSaves'
  BY <1>1 DEF VFUploadSaves, VFOneSaves, VF!AfterRefresh
<1>9. VFListedIsSaved'
  BY <1>1 DEF VFListedIsSaved, VFUploadSaves, VFOneSaves, VFTagsSave, VFRefreshSaves, VFIdle,
     VF!AfterRefresh
<1>10. VFTagsSave' /\ VFRefreshSaves' /\ VFListedIsWhole'
  BY DEF VFTagsSave, VFRefreshSaves, VFListedIsWhole, VF!Whole, VF!AfterRefresh
<1> QED
  BY <1>1, <1>2, <1>3, <1>4, <1>5, <1>6, <1>7, <1>8, <1>9, <1>10

(* The directory is cleared for an upload: from here on it counts as one that writes. *)
LEMMA VFCheckDirectoryStep ==
  ASSUME VFConstants, VFInv, NEW u \in vfUpload, VF!CheckDirectory(u)
  PROVE  VFInv'
<1> USE DEF VFInv, VFTypes, VFSaves, VF!UploadSteps, VF!NoInfo, VFAt, VF!Step
<1>1. VFTypes'
  <2>1. PICK s \in {"receive", "done"} : vfUploads' = [vfUploads EXCEPT ![u].step = s]
    BY DEF VF!CheckDirectory
  <2>2. vfUploads' \in [vfUpload -> [step : VF!UploadSteps, force : BOOLEAN]]
    BY <2>1
  <2>3. vfFiles' \in [vfFile -> vfUpload \cup {0}]
    BY DEF VF!CheckDirectory
  <2>4. exists' \in BOOLEAN /\ overwritten' \in BOOLEAN
    BY DEF VF!CheckDirectory
  <2> QED
    BY <2>2, <2>3, <2>4 DEF VF!CheckDirectory
<1>2. VFNotBegun'
  BY <1>1 DEF VFNotBegun, VF!CheckDirectory
<1>3. VFRefreshIsAlone'
  BY <1>1 DEF VFRefreshIsAlone, VF!InProgress, VF!CheckDirectory
<1>4. VFWritersAreCounted'
  BY <1>1 DEF VFWritersAreCounted, VF!CheckDirectory
<1>5. VFOneWrites'
  BY <1>1 DEF VFOneWrites, VFOneSaves, VF!CheckDirectory
<1>6. VFFilesArrive'
  <2>1. CASE exists /\ ~vfUploads[u].force
    BY <1>1, <2>1 DEF VF!CheckDirectory, VFFilesArrive, VF!Whole
  <2>2. CASE ~(exists /\ ~vfUploads[u].force)
    <3>1. /\ vfUploads' = [vfUploads EXCEPT ![u].step = "receive"] /\ received[u] = 0
          /\ UNCHANGED <<received, vfAstray>>
      BY <2>2 DEF VF!CheckDirectory, VFNotBegun
    <3>2. ASSUME ~overwritten', NEW v \in vfUpload \ {u}
          PROVE  VFAt(v) \notin {"receive", "received", "register"}
      BY <2>2, <3>2 DEF VF!CheckDirectory
    <3> QED
      BY <1>1, <3>1, <3>2 DEF VFFilesArrive, VFConstants
  <2> QED
    BY <2>1, <2>2
<1>7. VFOneSaves'
  <2>1. PICK s \in {"receive", "done"} : vfUploads' = [vfUploads EXCEPT ![u].step = s]
    BY DEF VF!CheckDirectory
  <2> QED
    BY <1>1, <2>1 DEF VF!CheckDirectory, VFOneSaves
<1>8. VFUploadSaves'
  BY <1>1 DEF VFUploadSaves, VFOneSaves, VF!CheckDirectory
<1>9. VFListedIsWhole'
  BY <1>1 DEF VFListedIsWhole, VFFilesArrive, VFWritersAreCounted, VFListedIsSaved, VF!Whole,
     VFIdle, VF!CheckDirectory, VFConstants
<1>10. VFListedIsSaved'
  BY <1>1 DEF VFListedIsSaved, VFUploadSaves, VFOneSaves, VFTagsSave, VFRefreshSaves, VFIdle,
     VF!CheckDirectory
<1>11. VFTagsSave' /\ VFRefreshSaves'
  BY DEF VFTagsSave, VFRefreshSaves, VF!CheckDirectory
<1> QED
  BY <1>1, <1>2, <1>3, <1>4, <1>5, <1>6, <1>7, <1>8, <1>9, <1>10, <1>11

(* The last file makes the version whole, if no other upload writes. *)
LEMMA VFReceiveFileStep ==
  ASSUME VFConstants, VFInv, NEW u \in vfUpload, VF!ReceiveFile(u)
  PROVE  VFInv'
<1> USE DEF VFInv, VFTypes, VFSaves, VF!UploadSteps, VF!NoInfo, VFAt, VF!Step
<1>1. VFTypes'
  <2>1. vfFiles' \in [vfFile -> vfUpload \cup {0}] /\ received' \in [vfUpload -> Nat]
    BY DEF VF!ReceiveFile
  <2>2. vfUploads' \in [vfUpload -> [step : VF!UploadSteps, force : BOOLEAN]]
    <3>1. PICK s \in {"receive", "received"} : vfUploads' = [vfUploads EXCEPT ![u].step = s]
      BY DEF VF!ReceiveFile
    <3> QED
      BY <3>1
  <2> QED
    BY <2>1, <2>2 DEF VF!ReceiveFile
<1>2. VFNotBegun'
  BY <1>1 DEF VFNotBegun, VF!ReceiveFile
<1>3. VFRefreshIsAlone'
  BY <1>1 DEF VFRefreshIsAlone, VF!InProgress, VF!ReceiveFile
<1>4. VFWritersAreCounted'
  BY <1>1 DEF VFWritersAreCounted, VF!ReceiveFile
<1>5. VFOneWrites'
  BY <1>1 DEF VFOneWrites, VFOneSaves, VF!ReceiveFile
<1>6. VFFilesArrive'
  <2>1. ASSUME received[u] + 1 + 1 \notin vfFile, NEW f \in vfFile PROVE f <= received[u] + 1
    BY <2>1 DEF VFConstants
  <2>2. received[u] + 1 \in vfFile /\ vfFiles' = [vfFiles EXCEPT ![received[u] + 1] = u]
          /\ received' = [received EXCEPT ![u] = received[u] + 1]
          /\ vfUploads' = [vfUploads EXCEPT ![u].step =
                          IF received[u] + 1 + 1 \in vfFile THEN "receive" ELSE "received"]
          /\ VFAt(u) = "receive" /\ UNCHANGED <<vfAstray, overwritten>>
    BY DEF VF!ReceiveFile
  <2>3. \A f \in vfFile : f \in Nat
    BY DEF VFConstants
  <2> HIDE DEF VFTypes
  <2>4. ASSUME ~vfAstray, ~overwritten, NEW f \in vfFile, f <= received[u] + 1
        PROVE  vfFiles'[f] = u
    BY <1>1, <2>2, <2>3, <2>4 DEF VFFilesArrive, VFTypes
  <2> QED
    BY <1>1, <2>1, <2>2, <2>3, <2>4 DEF VFFilesArrive, VFOneWrites, VF!Whole, VFTypes
<1>7. VFOneSaves'
  BY <1>1 DEF VFOneSaves, VF!ReceiveFile
<1>8. VFUploadSaves'
  BY <1>1 DEF VFUploadSaves, VFOneSaves, VF!ReceiveFile
<1>9. VFListedIsWhole'
  BY <1>1 DEF VFListedIsWhole, VFFilesArrive, VFWritersAreCounted, VFListedIsSaved, VF!Whole,
     VFIdle, VF!ReceiveFile, VFConstants
<1>10. VFListedIsSaved'
  BY <1>1 DEF VFListedIsSaved, VFUploadSaves, VFOneSaves, VFTagsSave, VFRefreshSaves, VFIdle,
     VF!ReceiveFile
<1>11. VFTagsSave' /\ VFRefreshSaves'
  BY DEF VFTagsSave, VFRefreshSaves, VF!ReceiveFile
<1> QED
  BY <1>1, <1>2, <1>3, <1>4, <1>5, <1>6, <1>7, <1>8, <1>9, <1>10, <1>11

LEMMA VFFailUploadStep ==
  ASSUME VFConstants, VFInv, NEW u \in vfUpload, VF!FailUpload(u)
  PROVE  VFInv'
<1> USE DEF VFInv, VFTypes, VFSaves, VF!UploadSteps, VF!NoInfo, VFAt, VF!Step
<1>1. VFTypes'
  <2>1. vfUploads' = [vfUploads EXCEPT ![u].step = "done"]
    BY DEF VF!FailUpload
  <2> QED
    BY <2>1 DEF VF!FailUpload
<1>2. VFNotBegun'
  BY <1>1 DEF VFNotBegun, VF!Happens, VF!FailUpload
<1>3. VFRefreshIsAlone'
  BY <1>1 DEF VFRefreshIsAlone, VF!InProgress, VF!Happens, VF!FailUpload
<1>4. VFWritersAreCounted'
  BY <1>1 DEF VFWritersAreCounted, VF!Happens, VF!FailUpload
<1>5. VFOneWrites'
  BY <1>1 DEF VFOneWrites, VFOneSaves, VF!Happens, VF!FailUpload
<1>6. VFFilesArrive'
  BY <1>1 DEF VFFilesArrive, VFNotBegun, VFOneWrites, VFOneSaves, VF!Whole, VF!Happens,
     VF!FailUpload
<1>7. VFOneSaves'
  BY <1>1 DEF VFOneSaves, VF!Happens, VF!FailUpload
<1>8. VFUploadSaves'
  BY <1>1 DEF VFUploadSaves, VFOneSaves, VF!Happens, VF!FailUpload
<1>9. VFListedIsSaved'
  BY <1>1 DEF VFListedIsSaved, VFUploadSaves, VFOneSaves, VFTagsSave, VFRefreshSaves, VFIdle,
     VF!Happens, VF!FailUpload
<1>10. VFTagsSave' /\ VFRefreshSaves' /\ VFListedIsWhole'
  BY DEF VFTagsSave, VFRefreshSaves, VFListedIsWhole, VF!Whole, VF!FailUpload
<1> QED
  BY <1>1, <1>2, <1>3, <1>4, <1>5, <1>6, <1>7, <1>8, <1>9, <1>10

(* The description is saved: with that of a tag change or of another upload it crosses. *)
LEMMA VFSaveInfoStep ==
  ASSUME VFConstants, VFInv, NEW u \in vfUpload, VF!SaveInfo(u)
  PROVE  VFInv'
<1> USE DEF VFInv, VFTypes, VFSaves, VF!UploadSteps, VF!NoInfo, VFAt, VF!Step
<1>1. VFTypes'
  BY DEF VF!SaveInfo, VF!ReceivedAll
<1>2. VFNotBegun'
  BY <1>1 DEF VFNotBegun, VF!SaveInfo, VF!ReceivedAll
<1>3. VFRefreshIsAlone'
  BY <1>1 DEF VFRefreshIsAlone, VF!InProgress, VF!SaveInfo, VF!ReceivedAll
<1>4. VFWritersAreCounted'
  BY <1>1 DEF VFWritersAreCounted, VFRefreshIsAlone, VF!InProgress, VF!SaveInfo, VF!ReceivedAll
<1>5. VFOneWrites'
  BY <1>1 DEF VFOneWrites, VFOneSaves, VFRefreshIsAlone, VF!InProgress, VF!SaveInfo,
     VF!ReceivedAll
<1>6. VFFilesArrive'
  BY <1>1 DEF VFFilesArrive, VFNotBegun, VFOneWrites, VFOneSaves, VFRefreshIsAlone,
     VF!InProgress, VF!Whole, VF!SaveInfo, VF!ReceivedAll
<1>7. VFOneSaves'
  <2> SUFFICES ASSUME ~vfAstray' PROVE VFOneSaves'
    BY DEF VFOneSaves
  <2>1. /\ ~vfAstray /\ tagging.step = "none"
        /\ \A v \in vfUpload \ {u} : VFAt(v) \notin {"register", "store"}
    BY DEF VF!SaveInfo
  <2> QED
    BY <1>1, <2>1 DEF VF!SaveInfo, VFOneSaves
<1>8. VFUploadSaves'
  BY <1>1 DEF VFUploadSaves, VFOneSaves, VFRefreshIsAlone, VF!InProgress, VF!SaveInfo,
     VF!ReceivedAll
<1>9. VFTagsSave'
  BY <1>1 DEF VFTagsSave, VFOneSaves, VFRefreshSaves, VF!SaveInfo, VF!ReceivedAll
<1>10. VFRefreshSaves'
  BY <1>1 DEF VFRefreshSaves, VFRefreshIsAlone, VF!InProgress, VF!SaveInfo, VF!ReceivedAll
<1>11. VFListedIsWhole'
  BY <1>1 DEF VFListedIsWhole, VFFilesArrive, VFWritersAreCounted, VFListedIsSaved, VF!Whole,
     VFIdle, VF!SaveInfo, VF!ReceivedAll
<1>12. VFListedIsSaved'
  BY <1>1 DEF VFListedIsSaved, VFUploadSaves, VFOneSaves, VFTagsSave, VFRefreshSaves,
     VFRefreshIsAlone, VF!InProgress, VFIdle, VF!SaveInfo, VF!ReceivedAll
<1> QED
  BY <1>1, <1>2, <1>3, <1>4, <1>5, <1>6, <1>7, <1>8, <1>9, <1>10, <1>11, <1>12

(* The version is listed. Nobody else writes, or what is listed counts as overwritten. *)
LEMMA VFRegisterStep ==
  ASSUME VFConstants, VFInv, NEW u \in vfUpload, VF!Register(u)
  PROVE  VFInv'
<1>1. overwritten' =
        (\/ \E v \in vfUpload \ {u} : vfUploads[v].step \in {"receive", "received"}
         \/ overwritten /\ ~VF!Whole(u))
  BY DEF VF!Register
<1> USE DEF VFInv, VFTypes, VFSaves, VF!UploadSteps, VF!NoInfo, VFAt, VF!Step
<1>2. VFTypes'
  BY DEF VF!Whole, VF!Register
<1>3. VFNotBegun'
  BY <1>2 DEF VFNotBegun, VF!Whole, VF!Register
<1>4. VFRefreshIsAlone'
  BY <1>2 DEF VFRefreshIsAlone, VF!InProgress, VF!Whole, VF!Register
<1>5. VFWritersAreCounted'
  BY <1>2 DEF VFWritersAreCounted, VF!Whole, VF!Register
<1>6. VFOneWrites'
  BY <1>2 DEF VFOneWrites, VFOneSaves, VF!Whole, VF!Register
<1>7. VFFilesArrive'
  BY <1>2 DEF VFFilesArrive, VFNotBegun, VFOneWrites, VFOneSaves, VF!Whole, VF!Register
<1>8. VFOneSaves'
  BY <1>2 DEF VFOneSaves, VF!Whole, VF!Register
<1>9. VFUploadSaves'
  BY <1>2 DEF VFUploadSaves, VFOneSaves, VF!Whole, VF!Register
<1>10. VFTagsSave'
  BY <1>2 DEF VFTagsSave, VFOneSaves, VFRefreshSaves, VF!Whole, VF!Register
<1>11. VFListedIsWhole'
  <2> SUFFICES ASSUME ~vfAstray', ~overwritten' PROVE VF!Whole(u)'
    BY DEF VFListedIsWhole, VF!Register
  <2>2. ~overwritten \/ VF!Whole(u)
    BY <1>1
  <2>3. VF!Whole(u)
    BY <2>2 DEF VF!Register, VFFilesArrive
  <2> QED
    BY <2>3 DEF VF!Register, VF!Whole
<1>12. VFListedIsSaved'
  BY <1>2 DEF VFListedIsSaved, VFUploadSaves, VFOneSaves, VFTagsSave, VFRefreshSaves, VF!Whole,
     VFIdle, VF!Register
<1>13. VFRefreshSaves'
  BY DEF VFRefreshSaves, VF!Whole, VF!Register
<1> QED
  BY <1>2, <1>3, <1>4, <1>5, <1>6, <1>7, <1>8, <1>9, <1>10, <1>11, <1>12, <1>13

LEMMA VFStoreStep ==
  ASSUME VFConstants, VFInv, NEW u \in vfUpload, VF!Store(u)
  PROVE  VFInv'
<1>1. \/ vfDatabase' = <<u, 0>> /\ vfAstray' = vfAstray
      \/ vfDatabase' = vfDatabase /\ vfAstray' = TRUE
  BY DEF VF!Store
<1> USE DEF VFInv, VFTypes, VFSaves, VF!UploadSteps, VF!NoInfo, VFAt, VF!Step
<1>2. VFTypes'
  <2>1. vfUploads' = [vfUploads EXCEPT ![u].step = "done"]
    BY DEF VF!Store
  <2>2. vfDatabase' \in VFSaves
    BY <1>1
  <2>3. vfAstray' \in BOOLEAN
    BY <1>1
  <2> QED
    BY <2>1, <2>2, <2>3 DEF VF!Store
<1>3. VFNotBegun'
  BY <1>2 DEF VFNotBegun, VF!Happens, VF!Store
<1>4. VFRefreshIsAlone'
  BY <1>2 DEF VFRefreshIsAlone, VF!InProgress, VF!Happens, VF!Store
<1>5. VFWritersAreCounted'
  BY <1>2 DEF VFWritersAreCounted, VF!Happens, VF!Store
<1>6. VFOneWrites'
  BY <1>2 DEF VFOneWrites, VFOneSaves, VF!Happens, VF!Store
<1>7. VFFilesArrive'
  BY <1>2 DEF VFFilesArrive, VFNotBegun, VFOneWrites, VFOneSaves, VF!Whole, VF!Happens, VF!Store
<1>8. VFOneSaves'
  BY <1>2 DEF VFOneSaves, VF!Happens, VF!Store
<1>9. VFUploadSaves'
  BY <1>2 DEF VFUploadSaves, VFOneSaves, VF!Happens, VF!Store
<1>10. VFTagsSave'
  BY <1>2 DEF VFTagsSave, VFOneSaves, VFRefreshSaves, VF!Happens, VF!Store
<1>11. VFRefreshSaves'
  <2>1. refresh.step \notin {"commit", "apply"}
    BY DEF VFRefreshIsAlone, VF!InProgress, VF!Store
  <2> QED
    BY <2>1 DEF VFRefreshSaves, VF!Store
<1>12. VFListedIsWhole'
  BY <1>2 DEF VFListedIsWhole, VFFilesArrive, VFWritersAreCounted, VFListedIsSaved, VF!Whole,
     VFIdle, VF!Happens, VF!Store
<1>13. VFListedIsSaved'
  BY <1>2 DEF VFListedIsSaved, VFUploadSaves, VFOneSaves, VFTagsSave, VFRefreshSaves, VFIdle,
     VF!Happens, VF!Store
<1> QED
  BY <1>2, <1>3, <1>4, <1>5, <1>6, <1>7, <1>8, <1>9, <1>10, <1>11, <1>12, <1>13

(* A change of tags: what is listed is ahead of what is saved until it is stored. *)
LEMMA VFChangeTagsStep ==
  ASSUME VFConstants, VFInv, VF!ChangeTags
  PROVE  VFInv'
<1> USE DEF VFInv, VFTypes, VFSaves, VF!UploadSteps, VF!NoInfo, VFAt, VF!Step
<1>1. VFTypes'
  BY DEF VF!Happens, VF!ChangeTags
<1>2. VFWritersAreCounted'
  BY <1>1 DEF VFWritersAreCounted, VF!Happens, VF!ChangeTags
<1>3. VFOneWrites'
  BY <1>1 DEF VFOneWrites, VFOneSaves, VF!Happens, VF!ChangeTags
<1>4. VFFilesArrive'
  BY <1>1 DEF VFFilesArrive, VFNotBegun, VFOneWrites, VFOneSaves, VF!Whole, VF!Happens,
     VF!ChangeTags
<1>5. VFOneSaves'
  BY <1>1 DEF VFOneSaves, VF!Happens, VF!ChangeTags
<1>6. VFUploadSaves'
  BY <1>1 DEF VFUploadSaves, VFOneSaves, VF!Happens, VF!ChangeTags
<1>7. VFTagsSave'
  BY <1>1 DEF VFTagsSave, VFOneSaves, VFRefreshSaves, VF!Happens, VF!ChangeTags
<1>8. VFRefreshSaves'
  BY <1>1 DEF VFRefreshSaves, VF!Happens, VF!ChangeTags
<1>9. VFListedIsWhole'
  BY <1>1 DEF VFListedIsWhole, VFFilesArrive, VFWritersAreCounted, VFListedIsSaved, VF!Whole,
     VFIdle, VF!Happens, VF!ChangeTags
<1>10. VFListedIsSaved'
  BY <1>1 DEF VFListedIsSaved, VFUploadSaves, VFOneSaves, VFTagsSave, VFRefreshSaves, VFIdle,
     VF!Happens, VF!ChangeTags
<1>11. VFNotBegun' /\ VFRefreshIsAlone'
  BY DEF VFNotBegun, VFRefreshIsAlone, VF!InProgress, VF!ChangeTags
<1> QED
  BY <1>1, <1>2, <1>3, <1>4, <1>5, <1>6, <1>7, <1>8, <1>9, <1>10, <1>11

LEMMA VFSaveTagsInfoStep ==
  ASSUME VFConstants, VFInv, VF!SaveTagsInfo
  PROVE  VFInv'
<1> USE DEF VFInv, VFTypes, VFSaves, VF!UploadSteps, VF!NoInfo, VFAt, VF!Step
<1>1. VFTypes'
  BY DEF VF!SaveTagsInfo
<1>2. VFOneSaves'
  BY <1>1 DEF VFOneSaves, VF!SaveTagsInfo
<1>3. VFUploadSaves'
  BY <1>1 DEF VFUploadSaves, VFOneSaves, VF!SaveTagsInfo
<1>4. VFTagsSave'
  BY <1>1 DEF VFTagsSave, VFOneSaves, VFRefreshSaves, VF!SaveTagsInfo
<1>5. VFRefreshSaves'
  BY <1>1 DEF VFRefreshSaves, VF!SaveTagsInfo
<1>6. VFListedIsSaved'
  BY <1>1 DEF VFListedIsSaved, VFUploadSaves, VFOneSaves, VFTagsSave, VFRefreshSaves, VFIdle,
     VF!SaveTagsInfo
<1>7. VFNotBegun' /\ VFRefreshIsAlone' /\ VFWritersAreCounted' /\ VFOneWrites' /\ VFFilesArrive' /\ VFListedIsWhole'
  BY DEF VFNotBegun, VFRefreshIsAlone, VFWritersAreCounted, VFOneWrites, VFFilesArrive,
     VFListedIsWhole, VF!InProgress, VF!Whole, VF!SaveTagsInfo
<1> QED
  BY <1>1, <1>2, <1>3, <1>4, <1>5, <1>6, <1>7

LEMMA VFStoreTagsStep ==
  ASSUME VFConstants, VFInv, VF!StoreTags
  PROVE  VFInv'
<1> USE DEF VFInv, VFTypes, VFSaves, VF!UploadSteps, VF!NoInfo, VFAt, VF!Step
<1>1. VFTypes'
  BY DEF VF!StoreTags, VF!NoTagging
<1>2. VFOneSaves'
  BY <1>1 DEF VFOneSaves, VF!StoreTags, VF!NoTagging
<1>3. VFTagsSave'
  BY <1>1 DEF VFTagsSave, VFOneSaves, VFRefreshSaves, VF!StoreTags, VF!NoTagging
<1>4. VFRefreshSaves'
  BY <1>1 DEF VFRefreshSaves, VF!StoreTags, VF!NoTagging
<1>5. VFListedIsSaved'
  BY <1>1 DEF VFListedIsSaved, VFUploadSaves, VFOneSaves, VFTagsSave, VFRefreshSaves, VFIdle,
     VF!StoreTags, VF!NoTagging
<1>6. VFNotBegun' /\ VFRefreshIsAlone' /\ VFWritersAreCounted' /\ VFOneWrites' /\ VFFilesArrive' /\ VFUploadSaves' /\ VFListedIsWhole'
  BY DEF VFNotBegun, VFRefreshIsAlone, VFWritersAreCounted, VFOneWrites, VFFilesArrive,
     VFUploadSaves, VFListedIsWhole, VF!InProgress, VF!Whole, VF!StoreTags
<1> QED
  BY <1>1, <1>2, <1>3, <1>4, <1>5, <1>6

LEMMA VFFailTagsStep ==
  ASSUME VFConstants, VFInv, VF!FailTags
  PROVE  VFInv'
<1> USE DEF VFInv, VFTypes, VFSaves, VF!UploadSteps, VF!NoInfo, VFAt, VF!Step
<1>1. VFTypes'
  BY DEF VF!Happens, VF!FailTags, VF!NoTagging
<1>2. VFOneWrites'
  BY <1>1 DEF VFOneWrites, VFOneSaves, VF!Happens, VF!FailTags, VF!NoTagging
<1>3. VFFilesArrive'
  BY <1>1 DEF VFFilesArrive, VFNotBegun, VFOneWrites, VFOneSaves, VF!Whole, VF!Happens,
     VF!FailTags, VF!NoTagging
<1>4. VFOneSaves'
  BY <1>1 DEF VFOneSaves, VF!Happens, VF!FailTags, VF!NoTagging
<1>5. VFUploadSaves'
  BY <1>1 DEF VFUploadSaves, VFOneSaves, VF!Happens, VF!FailTags, VF!NoTagging
<1>6. VFTagsSave'
  BY <1>1 DEF VFTagsSave, VFOneSaves, VFRefreshSaves, VF!Happens, VF!FailTags, VF!NoTagging
<1>7. VFRefreshSaves'
  BY <1>1 DEF VFRefreshSaves, VF!Happens, VF!FailTags, VF!NoTagging
<1>8. VFListedIsWhole'
  BY <1>1 DEF VFListedIsWhole, VFFilesArrive, VFWritersAreCounted, VFListedIsSaved, VF!Whole,
     VFIdle, VF!Happens, VF!FailTags, VF!NoTagging
<1>9. VFListedIsSaved'
  BY <1>1 DEF VFListedIsSaved, VFUploadSaves, VFOneSaves, VFTagsSave, VFRefreshSaves, VFIdle,
     VF!Happens, VF!FailTags, VF!NoTagging
<1>10. VFNotBegun' /\ VFRefreshIsAlone' /\ VFWritersAreCounted'
  BY DEF VFNotBegun, VFRefreshIsAlone, VFWritersAreCounted, VF!InProgress, VF!FailTags
<1> QED
  BY <1>1, <1>2, <1>3, <1>4, <1>5, <1>6, <1>7, <1>8, <1>9, <1>10

(* A refresh: its scan sees no upload, and none begins before it is over. *)
LEMMA VFStartRefreshStep ==
  ASSUME VFConstants, VFInv, VF!StartRefresh
  PROVE  VFInv'
<1> USE DEF VFInv, VFTypes, VFSaves, VF!UploadSteps, VF!NoInfo, VFAt, VF!Step
<1>1. VFTypes'
  BY DEF VF!Happens, VF!StartRefresh, VF!NoRefresh
<1>2. VFRefreshIsAlone'
  BY <1>1 DEF VFRefreshIsAlone, VF!InProgress, VF!Happens, VF!StartRefresh, VF!NoRefresh
<1>3. VFRefreshSaves'
  BY <1>1 DEF VFRefreshSaves, VF!Happens, VF!StartRefresh, VF!NoRefresh
<1>4. VFListedIsSaved'
  BY <1>1 DEF VFListedIsSaved, VFUploadSaves, VFOneSaves, VFTagsSave, VFRefreshSaves, VFIdle,
     VF!Happens, VF!StartRefresh, VF!NoRefresh
<1>5. VFNotBegun' /\ VFWritersAreCounted' /\ VFOneWrites' /\ VFFilesArrive' /\ VFOneSaves' /\ VFUploadSaves' /\ VFTagsSave' /\ VFListedIsWhole'
  BY DEF VFNotBegun, VFWritersAreCounted, VFOneWrites, VFFilesArrive, VFOneSaves, VFUploadSaves,
     VFTagsSave, VFListedIsWhole, VF!Whole, VF!StartRefresh
<1> QED
  BY <1>1, <1>2, <1>3, <1>4, <1>5

LEMMA VFScanStep ==
  ASSUME VFConstants, VFInv, VF!Scan
  PROVE  VFInv'
<1> USE DEF VFInv, VFTypes, VFSaves, VF!UploadSteps, VF!NoInfo, VFAt, VF!Step
<1>1. VFTypes'
  BY DEF VF!InProgress, VF!Scan, VF!MayScan
<1>2. VFRefreshIsAlone'
  BY <1>1 DEF VFRefreshIsAlone, VF!InProgress, VF!Scan, VF!MayScan
<1>3. VFOneWrites'
  BY <1>1 DEF VFOneWrites, VFOneSaves, VF!InProgress, VF!Scan, VF!MayScan
<1>4. VFFilesArrive'
  BY <1>1 DEF VFFilesArrive, VFNotBegun, VFOneWrites, VFOneSaves, VF!InProgress, VF!Whole,
     VF!Scan, VF!MayScan
<1>5. VFOneSaves'
  BY <1>1 DEF VFOneSaves, VF!InProgress, VF!Scan, VF!MayScan
<1>6. VFUploadSaves'
  BY <1>1 DEF VFUploadSaves, VFOneSaves, VF!InProgress, VF!Scan, VF!MayScan
<1>7. VFTagsSave'
  BY <1>1 DEF VFTagsSave, VFOneSaves, VFRefreshSaves, VF!InProgress, VF!Scan, VF!MayScan
<1>8. VFRefreshSaves'
  BY <1>1 DEF VFRefreshSaves, VF!InProgress, VF!Scan, VF!MayScan
<1>9. VFListedIsWhole'
  BY <1>1 DEF VFListedIsWhole, VFFilesArrive, VFWritersAreCounted, VFListedIsSaved,
     VF!InProgress, VF!Whole, VFIdle, VF!Scan, VF!MayScan
<1>10. VFListedIsSaved'
  BY <1>1 DEF VFListedIsSaved, VFUploadSaves, VFOneSaves, VFTagsSave, VFRefreshSaves,
     VF!InProgress, VFIdle, VF!Scan, VF!MayScan
<1>11. VFNotBegun' /\ VFWritersAreCounted'
  BY DEF VFNotBegun, VFWritersAreCounted, VF!Scan
<1> QED
  BY <1>1, <1>2, <1>3, <1>4, <1>5, <1>6, <1>7, <1>8, <1>9, <1>10, <1>11

LEMMA VFCommitRefreshStep ==
  ASSUME VFConstants, VFInv, VF!CommitRefresh
  PROVE  VFInv'
<1> USE DEF VFInv, VFTypes, VFSaves, VF!UploadSteps, VF!NoInfo, VFAt, VF!Step
<1>1. VFTypes'
  BY DEF VF!CommitRefresh
<1>2. VFRefreshIsAlone'
  BY <1>1 DEF VFRefreshIsAlone, VF!InProgress, VF!CommitRefresh
<1>3. VFRefreshSaves'
  BY <1>1 DEF VFRefreshSaves, VF!CommitRefresh
<1>4. VFListedIsSaved'
  BY <1>1 DEF VFListedIsSaved, VFUploadSaves, VFOneSaves, VFTagsSave, VFRefreshSaves, VFIdle,
     VF!CommitRefresh
<1>5. VFNotBegun' /\ VFWritersAreCounted' /\ VFOneWrites' /\ VFFilesArrive' /\ VFOneSaves' /\ VFUploadSaves' /\ VFTagsSave' /\ VFListedIsWhole'
  BY DEF VFNotBegun, VFWritersAreCounted, VFOneWrites, VFFilesArrive, VFOneSaves, VFUploadSaves,
     VFTagsSave, VFListedIsWhole, VF!Whole, VF!CommitRefresh
<1> QED
  BY <1>1, <1>2, <1>3, <1>4, <1>5

(* After a refresh all is as the disk was when it was scanned. *)
LEMMA VFApplyRefreshStep ==
  ASSUME VFConstants, VFInv, VF!ApplyRefresh
  PROVE  VFInv'
<1> USE DEF VFInv, VFTypes, VFSaves, VF!UploadSteps, VF!NoInfo, VFAt, VF!Step
<1>1. VFTypes'
  BY DEF VF!Whole, VF!ApplyRefresh, VF!NoRefresh
<1>2. VFRefreshIsAlone'
  BY <1>1 DEF VFRefreshIsAlone, VF!InProgress, VF!Whole, VF!ApplyRefresh, VF!NoRefresh
<1>3. VFWritersAreCounted'
  BY <1>1 DEF VFWritersAreCounted, VFRefreshIsAlone, VF!InProgress, VF!Whole, VF!ApplyRefresh,
     VF!NoRefresh
<1>4. VFOneWrites'
  BY <1>1 DEF VFOneWrites, VFOneSaves, VFRefreshIsAlone, VF!InProgress, VF!Whole,
     VF!ApplyRefresh, VF!NoRefresh
<1>5. VFFilesArrive'
  BY <1>1 DEF VFFilesArrive, VFNotBegun, VFOneWrites, VFOneSaves, VFRefreshIsAlone,
     VF!InProgress, VF!Whole, VF!ApplyRefresh, VF!NoRefresh
<1>6. VFOneSaves'
  BY <1>1 DEF VFOneSaves, VFRefreshIsAlone, VF!InProgress, VF!Whole, VF!ApplyRefresh,
     VF!NoRefresh
<1>7. VFUploadSaves'
  BY <1>1 DEF VFUploadSaves, VFOneSaves, VFRefreshIsAlone, VF!InProgress, VF!Whole,
     VF!ApplyRefresh, VF!NoRefresh
<1>8. VFTagsSave'
  BY <1>1 DEF VFTagsSave, VFOneSaves, VFRefreshSaves, VF!Whole, VF!ApplyRefresh, VF!NoRefresh
<1>9. VFRefreshSaves'
  BY <1>1 DEF VFRefreshSaves, VFRefreshIsAlone, VF!InProgress, VF!Whole, VF!ApplyRefresh,
     VF!NoRefresh
<1>10. VFListedIsWhole'
  BY <1>1 DEF VFListedIsWhole, VFFilesArrive, VFWritersAreCounted, VFListedIsSaved, VF!Whole,
     VFIdle, VF!ApplyRefresh, VF!NoRefresh
<1>11. VFListedIsSaved'
  BY <1>1 DEF VFListedIsSaved, VFUploadSaves, VFOneSaves, VFTagsSave, VFRefreshSaves,
     VFRefreshIsAlone, VF!InProgress, VF!Whole, VFIdle, VF!ApplyRefresh, VF!NoRefresh
<1>12. VFNotBegun'
  BY DEF VFNotBegun, VF!Whole, VF!ApplyRefresh
<1> QED
  BY <1>1, <1>2, <1>3, <1>4, <1>5, <1>6, <1>7, <1>8, <1>9, <1>10, <1>11, <1>12

(* A restart with nothing half saved lists what is stored, which is what was listed. *)
LEMMA VFRestartStep ==
  ASSUME VFConstants, VFInv, VF!Restart
  PROVE  VFInv'
<1>1. vfAstray' =
        (\/ vfAstray \/ tagging.step # "none"
         \/ \E v \in vfUpload : vfUploads[v].step \in {"register", "store"}
         \/ refresh.step = "apply")
  BY DEF VF!Restart
<1> USE DEF VFInv, VFTypes, VFSaves, VF!UploadSteps, VF!NoInfo, VFAt, VF!Step
<1>2. VFTypes'
  BY DEF VF!Happens, VF!Restart, VF!NoTagging, VF!NoRefresh
<1>3. VFNotBegun'
  BY <1>2 DEF VFNotBegun, VF!Happens, VF!Restart, VF!NoTagging, VF!NoRefresh
<1>4. VFRefreshIsAlone'
  BY <1>2 DEF VFRefreshIsAlone, VF!InProgress, VF!Happens, VF!Restart, VF!NoTagging,
     VF!NoRefresh
<1>5. VFWritersAreCounted'
  BY <1>2 DEF VFWritersAreCounted, VFRefreshIsAlone, VF!InProgress, VF!Happens, VF!Restart,
     VF!NoTagging, VF!NoRefresh
<1>6. VFOneWrites'
  BY <1>2 DEF VFOneWrites, VFOneSaves, VFRefreshIsAlone, VF!InProgress, VF!Happens, VF!Restart,
     VF!NoTagging, VF!NoRefresh
<1>7. VFFilesArrive'
  BY <1>2 DEF VFFilesArrive, VFNotBegun, VFOneWrites, VFOneSaves, VFRefreshIsAlone,
     VF!InProgress, VF!Whole, VF!Happens, VF!Restart, VF!NoTagging, VF!NoRefresh
<1>8. VFOneSaves'
  BY <1>2 DEF VFOneSaves, VFRefreshIsAlone, VF!InProgress, VF!Happens, VF!Restart, VF!NoTagging,
     VF!NoRefresh
<1>9. VFUploadSaves'
  BY <1>2 DEF VFUploadSaves, VFOneSaves, VFRefreshIsAlone, VF!InProgress, VF!Happens,
     VF!Restart, VF!NoTagging, VF!NoRefresh
<1>10. VFTagsSave'
  BY <1>2 DEF VFTagsSave, VFOneSaves, VFRefreshSaves, VF!Happens, VF!Restart, VF!NoTagging,
     VF!NoRefresh
<1>11. VFRefreshSaves'
  BY <1>2 DEF VFRefreshSaves, VFRefreshIsAlone, VF!InProgress, VF!Happens, VF!Restart,
     VF!NoTagging, VF!NoRefresh
<1>12. VFListedIsWhole'
  <2> SUFFICES ASSUME ~vfAstray' PROVE VFListedIsWhole'
    BY DEF VFListedIsWhole
  <2>2. ~vfAstray /\ VFIdle
    BY <1>1 DEF VFIdle
  <2>3. listed' = listed
    BY <2>2 DEF VF!Restart, VFListedIsSaved
  <2> QED
    BY <2>2, <2>3 DEF VF!Restart, VFListedIsWhole, VF!Whole
<1>13. VFListedIsSaved'
  BY <1>2 DEF VFListedIsSaved, VFUploadSaves, VFOneSaves, VFTagsSave, VFRefreshSaves,
     VFRefreshIsAlone, VF!InProgress, VFIdle, VF!Happens, VF!Restart, VF!NoTagging, VF!NoRefresh
<1> QED
  BY <1>2, <1>3, <1>4, <1>5, <1>6, <1>7, <1>8, <1>9, <1>10, <1>11, <1>12, <1>13

LEMMA VFInitHolds == VFConstants /\ VF!Init => VFInv
<1> SUFFICES ASSUME VF!Init PROVE VFInv
  OBVIOUS
<1> USE DEF VF!Init, VF!NoTagging, VF!NoRefresh, VF!NoInfo, VFAt
<1>1. VFTypes
  BY DEF VFTypes, VFSaves, VF!UploadSteps
<1>2. VFNotBegun /\ VFRefreshIsAlone /\ VFWritersAreCounted
  BY DEF VFNotBegun, VFRefreshIsAlone, VFWritersAreCounted
<1>3. VFOneWrites /\ VFFilesArrive /\ VFListedIsWhole
  BY DEF VFOneWrites, VFFilesArrive, VFListedIsWhole
<1>4. VFOneSaves /\ VFUploadSaves /\ VFTagsSave /\ VFRefreshSaves
  BY DEF VFOneSaves, VFUploadSaves, VFTagsSave, VFRefreshSaves
<1>5. VFListedIsSaved
  BY DEF VFListedIsSaved
<1> QED
  BY <1>1, <1>2, <1>3, <1>4, <1>5 DEF VFInv

LEMMA VFNextHolds ==
  ASSUME VFConstants, VFInv, VF!Next
  PROVE  VFInv'
<1>1. ASSUME NEW u \in vfUpload, NEW force \in BOOLEAN, VF!StartUpload(u, force) PROVE VFInv'
  BY <1>1, VFStartUploadStep
<1>2. ASSUME NEW u \in vfUpload,
             VF!AfterRefresh(u) \/ VF!CheckDirectory(u) \/ VF!ReceiveFile(u) \/ VF!FailUpload(u)
      PROVE  VFInv'
  BY <1>2, VFAfterRefreshStep, VFCheckDirectoryStep, VFReceiveFileStep, VFFailUploadStep
<1>3. ASSUME NEW u \in vfUpload, VF!SaveInfo(u) \/ VF!Register(u) \/ VF!Store(u)
      PROVE  VFInv'
  BY <1>3, VFSaveInfoStep, VFRegisterStep, VFStoreStep
<1>4. CASE VF!ChangeTags \/ VF!SaveTagsInfo \/ VF!StoreTags \/ VF!FailTags
  BY <1>4, VFChangeTagsStep, VFSaveTagsInfoStep, VFStoreTagsStep, VFFailTagsStep
<1>5. CASE VF!StartRefresh \/ VF!Scan \/ VF!CommitRefresh \/ VF!ApplyRefresh \/ VF!Restart
  BY <1>5, VFStartRefreshStep, VFScanStep, VFCommitRefreshStep, VFApplyRefreshStep,
     VFRestartStep
<1> QED
  BY <1>1, <1>2, <1>3, <1>4, <1>5 DEF VF!Next

LEMMA VFStays == VFInv /\ UNCHANGED vfVars => VFInv'
BY DEF VFInv, vfVars, VFTypes, VFAt, VFNotBegun, VFRefreshIsAlone, VF!InProgress,
   VFWritersAreCounted, VFOneWrites, VFFilesArrive, VF!Whole, VFOneSaves, VFUploadSaves,
   VFTagsSave, VFRefreshSaves, VFListedIsWhole, VFIdle, VFListedIsSaved

LEMMA VFHolds == VFInv => VF!ListedIsTrue
<1> SUFFICES ASSUME VFInv PROVE VF!ListedIsTrue
  OBVIOUS
<1>1. VF!InProgress = {} => \A u \in vfUpload : VFAt(u) \notin {"register", "store"}
  BY DEF VF!InProgress, VFAt
<1> QED
  BY <1>1 DEF VFInv, VF!ListedIsTrue, VFListedIsWhole, VFListedIsSaved, VFIdle

(* A step of all together is one of VersionFiles, when that is what runs, or leaves its
   variables alone. *)
LEMMA VFFrame ==
  ASSUME [Next]_vars, component' = "VersionFiles"
  PROVE  component = "VersionFiles" /\ (VF!Next \/ UNCHANGED vfVars)
<1>1. CASE Next
  BY <1>1 DEF Next
<1>2. CASE UNCHANGED vars
  BY <1>2 DEF vars
<1> QED
  BY <1>1, <1>2

(* So the parts of its invariant hold from the first state on. *)
LEMMA VFAlways == Spec => [](component = "VersionFiles" => VFInv)
<1> DEFINE Inv == component = "VersionFiles" => VFInv
<1>1. Init => Inv
  BY VFAssumption, VFInitHolds DEF Init
<1>2. Inv /\ [Next]_vars => Inv'
  BY VFAssumption, VFFrame, VFNextHolds, VFStays
<1> QED
  BY <1>1, <1>2, PTL DEF Spec

-----------------------------------------------------------------------------
(* SecretFiles, for any number of secrets, files, changes, failed writes and restarts: a
   secret with a file has that file on disk, encrypted with the key of the secret, and the
   database on disk refers to no file that was removed. *)
THEOREM SecretsHaveFilesHolds == Spec => []SecretsHaveFiles
<1>1. (component = "SecretFiles" => SFInv) => SecretsHaveFiles
  BY SFHolds DEF SecretsHaveFiles
<1> QED
  BY <1>1, SFAlways, PTL

(* DiskSpace, for any finite set of clients and any number of calls, failures and mounts:
   the count of the path is that of those that watch it and of the calls that failed, while
   it is not zero the path is monitored, and its reporters are those that the options ask
   for, unless a call failed or two opened them together. *)
THEOREM PathIsHeldHolds ==
  Spec => [](component = "DiskSpace" => DS!PathIsHeld /\ DS!ReportersMatch)
<1>1. (component = "DiskSpace" => DSInv) =>
        (component = "DiskSpace" => DS!PathIsHeld /\ DS!ReportersMatch)
  BY DSHolds
<1> QED
  BY <1>1, DSAlways, PTL

(* VersionFiles, for any number of files, uploads, tag changes, refreshes, failures and
   restarts: a version that is listed has all the files of the upload it is listed for,
   and when nothing is under way its description and its entry in the database say the
   same as the list, with the exceptions that ListedIsTrue names. *)
THEOREM ListedIsTrueHolds == Spec => [](component = "VersionFiles" => VF!ListedIsTrue)
<1>1. (component = "VersionFiles" => VFInv) => (component = "VersionFiles" => VF!ListedIsTrue)
  BY VFHolds
<1> QED
  BY <1>1, VFAlways, PTL
======================================================================================
