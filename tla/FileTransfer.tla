--------------------------- MODULE FileTransfer ---------------------------
(* One directory sent to another: CFileTransferSend::f_SendFiles at one end,
   CFileTransferReceive::f_ReceiveFiles at the other. The sender lists its files and
   offers them one by one through an asynchronous generator; for each one the
   receiver says how much of it it has, with a digest, and is sent the rest, which it
   writes in blocks in any order. A transfer that broke is tried again into the same
   directory. The source may be replaced all the while.

   A digest is the contents it was taken of. A file is a sequence of units, of which
   Block make a gc_IdealIoSize; the unit 0 is a hole that nothing was written to. *)
EXTENDS Naturals, Sequences, FiniteSets

CONSTANTS
  File,        \* 1 .. n, in the order in which they are found
  Link,        \* those that are symbolic links
  Contents,    \* what a file can hold
  Block,
  Flags,       \* how transfers are started
  Ahead,       \* how many files the receiver's iterator asks for in advance
  MaxEvents    \* bounds transfers, changes of the source and breaks together

Gone == <<>>   \* a file that is not there, which is none of Contents
NoFile == [file |-> 0, size |-> 0, link |-> <<>>]

VARIABLES
  source,      \* what the sender has
  target,      \* what the receiver has
  phase,       \* of the receiver
  flag,        \* its flags
  todo,        \* the sender's generator: files still to offer
  offered,     \* offered, not taken by the receiver
  item,        \* the file the receiver is at
  step,        \* what it does with it
  have,        \* pResumeFileInfo: the start of the file that is there
  opened,      \* what the data generator reads
  position,    \* FilePosition
  writes,      \* blocks on their way to the disk
  counted,     \* m_nTransfers: functors and subscriptions that the receiver holds
  dropped,     \* those it has dropped
  lastContents,\* LastSubscriptions
  result,      \* m_Promise of the sender
  events,
  sent,        \* what was opened of each file in this transfer
  swallowed,   \* the sender's generator ended early as a file was not there
  switched     \* a file was replaced between two looks at it

vars == <<source, target, phase, flag, todo, offered, item, step, have, opened, position,
          writes, counted, dropped, lastContents, result, events, sent, swallowed, switched>>

TypeOK ==
  /\ source \in [File -> Contents \cup {Gone}]
  /\ \A f \in File : \A i \in 1 .. Len(target[f]) : target[f][i] \in Nat
  /\ phase \in {"idle", "receiving", "done", "failed"}
  /\ flag \in Flags
  /\ \A i \in 1 .. Len(todo) : todo[i] \in File
  /\ Len(offered) <= Ahead
  /\ item.file \in File \cup {0}
  /\ step \in {"next", "ask", "open", "data"}
  /\ counted \in SUBSET ({"file", "contents"} \X File)
  /\ dropped \subseteq counted
  /\ lastContents \in SUBSET ({"contents"} \X File)
  /\ result \in {"none", "ok", "error", "aborted"}
  /\ events \in 0 .. MaxEvents

Init ==
  /\ source \in [File -> Contents]
  /\ target = [f \in File |-> Gone]
  /\ phase = "idle" /\ flag \in Flags
  /\ todo = <<>> /\ offered = <<>> /\ item = NoFile /\ step = "next"
  /\ have = <<>> /\ opened = <<>> /\ position = 0 /\ writes = {}
  /\ counted = {} /\ dropped = {} /\ lastContents = {} /\ result = "none"
  /\ events = 0
  /\ sent = [f \in File |-> Gone] /\ swallowed = FALSE /\ switched = FALSE

-----------------------------------------------------------------------------
Smaller(a, b) == IF a < b THEN a ELSE b
AlignedDown(length) == (length \div Block) * Block

SetResult(r) == result' = IF result = "none" THEN r ELSE result

(* A file with a block written to it, and with its length set. *)
Written(file, block) ==
  LET end == block.at + Len(block.data)
  IN [i \in 1 .. (IF end > Len(file) THEN end ELSE Len(file)) |->
        IF i > block.at /\ i <= end THEN block.data[i - block.at]
        ELSE IF i <= Len(file) THEN file[i] ELSE 0]

WithLength(file, length) ==
  [i \in 1 .. length |-> IF i <= Len(file) THEN file[i] ELSE 0]

(* A transfer that ends leaves some of the blocks on their way unwritten. *)
PartlyWritten(file, blocks) ==
  LET All[some \in SUBSET blocks] ==
        IF some = {} THEN file
        ELSE LET b == CHOOSE b \in some : TRUE IN Written(All[some \ {b}], b)
  IN {All[some] : some \in SUBSET blocks}

(* The receiver's coroutine ends: what it holds is dropped, and the sender that has no
   result yet has been aborted. *)
FailTransfer ==
  /\ phase' = "failed"
  /\ IF writes = {} THEN target' = target
     ELSE \E kept \in PartlyWritten(target[item.file], writes) :
            target' = [target EXCEPT ![item.file] = kept]
  /\ todo' = <<>> /\ offered' = <<>> /\ item' = NoFile /\ step' = "next"
  /\ have' = <<>> /\ opened' = <<>> /\ position' = 0 /\ writes' = {}
  /\ counted' = {} /\ dropped' = {} /\ lastContents' = {}

-----------------------------------------------------------------------------
(* f_DetermineWhatToSend: the list of what is there. *)
FilesToSend ==
  SelectSeq([i \in 1 .. Cardinality(File) |-> i], LAMBDA f : source[f] # Gone)

(* The owner of both ends starts a transfer. The sender lists what is there, and the
   receiver deletes what it has when it is told to. *)
StartTransfer(how) ==
  /\ phase # "receiving"
  /\ events < MaxEvents
  /\ FilesToSend # <<>>
  /\ events' = events + 1
  /\ flag' = how
  /\ phase' = "receiving" /\ result' = "none"
  /\ todo' = FilesToSend
  /\ target' = IF how = "deleteExisting" THEN [f \in File |-> Gone] ELSE target
  /\ sent' = [f \in File |-> Gone] /\ swallowed' = FALSE /\ switched' = FALSE
  /\ counted' = {} /\ dropped' = {}
  /\ UNCHANGED <<source, offered, item, step, have, opened, position, writes, lastContents>>

(* f_SendFile, asked for in advance by the receiver's iterator. When it fails the
   generator ends as if there were no more files. *)
OfferFile ==
  LET f == Head(todo)
  IN /\ phase = "receiving" /\ todo # <<>> /\ Len(offered) < Ahead
     /\ IF source[f] = Gone
          THEN /\ SetResult("error")
               /\ todo' = <<>> /\ swallowed' = TRUE
               /\ UNCHANGED <<offered, counted>>
          ELSE /\ todo' = Tail(todo)
               /\ offered' = Append(offered,
                    [file |-> f, size |-> Len(source[f]),
                     link |-> IF f \in Link THEN source[f] ELSE <<>>])
               /\ counted' = counted \cup {<<"file", f>>}
               /\ UNCHANGED <<result, swallowed>>
     /\ UNCHANGED <<source, target, phase, flag, item, step, have, opened, position, writes,
                    dropped, lastContents, events, sent, switched>>

(* How much of the file of this size is there. *)
ResumeFrom(file, size) ==
  IF flag = "ignoreExisting" THEN 0
  ELSE IF Len(file) = size THEN size
  ELSE AlignedDown(Smaller(Len(file), size))

(* ++iFile: the file before is dropped. A link is made; of a file it is found out
   how much is there. *)
NextFile ==
  LET next == Head(offered)
      f == next.file
      open == IF flag = "ignoreExisting" THEN <<>> ELSE target[f]
  IN /\ phase = "receiving" /\ step = "next" /\ offered # <<>>
     /\ offered' = Tail(offered)
     /\ item' = next
     /\ dropped' = dropped \cup (counted \cap {<<"file", item.file>>})
     /\ IF f \in Link
          THEN /\ target' = [target EXCEPT ![f] = next.link]
               /\ sent' = [sent EXCEPT ![f] = next.link]
               /\ step' = "next"
               /\ UNCHANGED have
          ELSE /\ target' = [target EXCEPT ![f] = open]
               /\ have' = SubSeq(open, 1, ResumeFrom(open, next.size))
               /\ step' = "ask"
               /\ UNCHANGED sent
     /\ UNCHANGED <<source, phase, flag, todo, opened, position, writes, counted, lastContents,
                    result, events, swallowed, switched>>

(* Where the sender starts: where the receiver says when the digests agree. *)
MistakeStart(file, size) ==   \* the digests are not compared
  LET from == Len(have)
  IN IF from = 0 \/ size < from THEN 0
     ELSE IF from = size THEN from ELSE AlignedDown(from)

Start(file, size) ==
  LET from == Len(have)
  IN IF from = 0 \/ size < from \/ Len(file) < from \/ SubSeq(file, 1, from) # have THEN 0
     ELSE IF from = size THEN from ELSE AlignedDown(from)

(* f_SendFileContents: the file is read when there is a digest to compare. *)
GetContents ==
  LET f == item.file
  IN /\ phase = "receiving" /\ step = "ask"
     /\ IF source[f] = Gone /\ have # <<>> /\ item.size >= Len(have)
          THEN /\ SetResult("error")
               /\ FailTransfer
          ELSE /\ position' = Start(source[f], item.size)
               /\ step' = "open"
               /\ counted' = counted \cup {<<"contents", f>>}
               /\ UNCHANGED <<result, phase, target, todo, offered, item, have, opened, writes,
                              dropped, lastContents>>
     /\ UNCHANGED <<source, flag, events, sent, swallowed, switched>>

(* The data generator opens the file when the first block is asked for: it may be
   another one than the size was taken of, or the digest. *)
OpenFile ==
  LET f == item.file
  IN /\ phase = "receiving" /\ step = "open"
     /\ IF source[f] = Gone
          THEN /\ SetResult("error")
               /\ FailTransfer
               /\ UNCHANGED sent
          ELSE /\ opened' = source[f]
               /\ sent' = [sent EXCEPT ![f] = source[f]]
               /\ step' = "data"
               /\ UNCHANGED <<result, phase, target, todo, offered, item, have, position, writes,
                              counted, dropped, lastContents>>
     /\ UNCHANGED <<source, flag, events, swallowed, switched>>

(* The generator delivers what the file has up to the size it was asked for. *)
End == Smaller(item.size, Len(opened))

NextData ==
  LET to == Smaller(AlignedDown(position) + Block, End)
  IN /\ phase = "receiving" /\ step = "data" /\ position < End
     /\ writes' = writes \cup {[at |-> position, data |-> SubSeq(opened, position + 1, to)]}
     /\ position' = to
     /\ UNCHANGED <<source, target, phase, flag, todo, offered, item, step, have, opened, counted,
                    dropped, lastContents, result, events, sent, swallowed, switched>>

(* One of the blocking actors writes its block. *)
WriteBlock(block) ==
  /\ phase = "receiving" /\ block \in writes
  /\ target' = [target EXCEPT ![item.file] = Written(@, block)]
  /\ writes' = writes \ {block}
  /\ UNCHANGED <<source, phase, flag, todo, offered, item, step, have, opened, position, counted,
                 dropped, lastContents, result, events, sent, swallowed, switched>>

(* All is written: the file gets its length, and the contents before this one's are
   let go of. *)
FinishFile ==
  LET f == item.file
  IN /\ phase = "receiving" /\ step = "data" /\ position >= End /\ writes = {}
     /\ IF position # item.size
          THEN /\ SetResult("aborted")
               /\ FailTransfer
          ELSE /\ target' = [target EXCEPT ![f] = WithLength(@, position)]
               /\ step' = "next"
               /\ dropped' = dropped \cup lastContents
               /\ lastContents' = {<<"contents", f>>}
               /\ have' = <<>> /\ opened' = <<>> /\ position' = 0
               /\ UNCHANGED <<result, phase, todo, offered, item, writes, counted>>
     /\ UNCHANGED <<source, flag, events, sent, swallowed, switched>>

(* The sender handles what the receiver has dropped. *)
Release(held) ==
  /\ held \in dropped
  /\ counted' = counted \ {held}
  /\ dropped' = dropped \ {held}
  /\ IF counted' = {} THEN SetResult("ok") ELSE UNCHANGED result
  /\ UNCHANGED <<source, target, phase, flag, todo, offered, item, step, have, opened, position,
                 writes, lastContents, events, sent, swallowed, switched>>

FinishTransfer ==
  /\ phase = "receiving" /\ step = "next" /\ offered = <<>> /\ todo = <<>>
  /\ phase' = "done"
  /\ dropped' = counted
  /\ lastContents' = {}
  /\ item' = NoFile
  /\ UNCHANGED <<source, target, flag, todo, offered, step, have, opened, position, writes,
                 counted, result, events, sent, swallowed, switched>>

-----------------------------------------------------------------------------
(* The owner of a sender that has a result destroys it, whatever the receiver is at:
   m_nTransfers is zero between two files when all that was offered is released. *)
DestroySender ==
  /\ phase = "receiving" /\ result # "none"
  /\ FailTransfer
  /\ UNCHANGED <<source, flag, result, events, sent, swallowed, switched>>

(* The connection breaks, a deadline passes, or either end is told to stop. *)
Break ==
  /\ phase = "receiving"
  /\ events < MaxEvents
  /\ events' = events + 1
  /\ SetResult("aborted")
  /\ FailTransfer
  /\ UNCHANGED <<source, flag, sent, swallowed, switched>>

(* Somebody replaces a file of the source, or removes it. *)
Change(f, contents) ==
  /\ events < MaxEvents
  /\ contents # source[f]
  /\ events' = events + 1
  /\ source' = [source EXCEPT ![f] = contents]
  /\ switched' = (switched \/ (item.file = f /\ step \in {"ask", "open"})
                    \/ \E i \in 1 .. Len(offered) : offered[i].file = f)
  /\ UNCHANGED <<target, phase, flag, todo, offered, item, step, have, opened, position, writes,
                 counted, dropped, lastContents, result, sent, swallowed>>

Next ==
  \/ \E how \in Flags : StartTransfer(how)
  \/ OfferFile \/ NextFile \/ GetContents \/ OpenFile \/ NextData \/ FinishFile
  \/ \E block \in writes : WriteBlock(block)
  \/ \E held \in dropped : Release(held)
  \/ FinishTransfer \/ DestroySender \/ Break
  \/ \E f \in File, contents \in Contents \cup {Gone} : Change(f, contents)

Spec == Init /\ [][Next]_vars

-----------------------------------------------------------------------------
(* A directory that has been received has every file of the sender's list as the sender
   opened it, whatever broken transfers before left there: holes where blocks were not
   written, the start of an older file, or more than there should be. This needs the
   digest of what is kept, the alignment, the wait for all blocks and the length that
   is set at the end. Two cases are not covered by the code: a file that is missing
   when it is offered ends the list without an error, and a file that is replaced
   between two looks at it is received as a mixture. *)
ReceivedIsWhole ==
  phase = "done" /\ ~swallowed /\ ~switched =>
    \A f \in File : sent[f] # Gone => target[f] = sent[f]
=============================================================================
