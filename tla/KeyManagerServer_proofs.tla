----------------------- MODULE KeyManagerServer_proofs -----------------------
(* What holds of any number of key managers, clients, keys and operations.  *)
EXTENDS KeyManagerServer, TLAPS

-----------------------------------------------------------------------------
(* The tasks that the operators of KeyManagerServer build. *)

LEMMA DatabaseType ==
  /\ NoKeys \in [Slot -> Entry]
  /\ NoHosts \in [Slot -> SUBSET Server]
  /\ EmptyDatabase \in Database
  /\ NoAnswer \in [Server -> Answer]
BY DEF NoKeys, NoHosts, EmptyDatabase, Database, NoAnswer, Answer, Entry

LEMMA NewTaskType ==
  ASSUME NEW id \in Seq(CallID), NEW at \in Server, NEW by \in Server,
         NEW kind \in Kind, NEW step \in Step
  PROVE  NewTask(id, at, by, kind, step) \in Task
BY DatabaseType DEF NewTask, Task

LEMMA CallType ==
  ASSUME NEW c \in Task, NEW t \in Server, NEW kind \in Kind, faults \in Nat
  PROVE  /\ Call(c, t, kind) \in Task
         /\ Call(c, t, kind).kind = kind
<1> DEFINE call == <<kind, t, faults, c.try>>
<1>1. call \in CallID
  <2>1. c.try \in Key \cup {Absent, NoSlot}
    BY DEF Task
  <2> QED BY <2>1 DEF CallID
<1>2. Append(c.id, call) \in Seq(CallID)
  BY <1>1 DEF Task
<1>3. "called" \in Step /\ c.at \in Server
  BY DEF Step, Task
<1> QED BY <1>2, <1>3, NewTaskType DEF Call, NewTask

LEMMA ToWriteType ==
  ASSUME NEW c \in Task
  PROVE  /\ ToWrite(c) \in Task
         /\ ToWrite(c).kind = c.kind /\ ToWrite(c).at = c.at /\ ToWrite(c).slot = c.slot
         /\ ToWrite(c).step \in {"write", "report"}
BY DEF ToWrite, Task, Step

LEMMA ToForwardKeysType ==
  ASSUME NEW c \in Task, others \in [Server -> SUBSET Server]
  PROVE  /\ ToForwardKeys(c) \in Task
         /\ ToForwardKeys(c).kind = c.kind /\ ToForwardKeys(c).at = c.at
         /\ ToForwardKeys(c).slot = c.slot
         /\ ToForwardKeys(c).step \in {"forwardKeys", "write", "report"}
<1>1. CASE c.create = NoKeys
  BY <1>1, ToWriteType DEF ToForwardKeys
<1>2. CASE c.create # NoKeys
  BY <1>2 DEF ToForwardKeys, Task, Step
<1> QED BY <1>1, <1>2

LEMMA ToForwardPoolType ==
  ASSUME NEW c \in Task, others \in [Server -> SUBSET Server]
  PROVE  /\ ToForwardPool(c) \in Task
         /\ ToForwardPool(c).kind = c.kind
<1>1. CASE c.pool = {}
  BY <1>1, ToForwardKeysType DEF ToForwardPool
<1>2. CASE c.pool # {}
  BY <1>2 DEF ToForwardPool, Task, Step
<1> QED BY <1>1, <1>2

-----------------------------------------------------------------------------
(* The inductive invariant.  The coroutine of a client's request that got   *)
(* past the creation of the key has a key in its entry, so that what the    *)
(* client is given is one; and what is written is what memory holds, until  *)
(* something is added to it.                                                *)

RequestTask(m, c) ==
  c.kind = "RequestKey" =>
    /\ c.slot \in Slot
    /\ c.step \in {"try", "using", "create", "forwardKeys", "write", "report"}
    /\ c.step \in {"forwardKeys", "write", "report"} => m[c.at].key[c.slot] \in Key

RequestsHaveKeys == \A c \in tasks : RequestTask(memory, c)

DiskIsMemory ==
  \A s \in Server, x \in Slot : disk[s].key[x] \in {Absent, memory[s].key[x]}

IInv == TypeOK /\ RequestsHaveKeys /\ DiskIsMemory

(* What every step does, apart from a restart. *)
KeysStay ==
  \A s \in Server, x \in Slot :
    memory[s].key[x] # Absent => memory'[s].key[x] = memory[s].key[x]

DiskStep == \A s \in Server : disk'[s] \in {disk[s], memory[s]}

Kept == TypeOK' /\ RequestsHaveKeys' /\ KeysStay /\ DiskStep

(* A task after a step is one from before it that still is where it was, or *)
(* is no request, or is as a request must be.                               *)
Same(p, d) == d.kind = p.kind /\ d.at = p.at /\ d.slot = p.slot /\ d.step = p.step

Fits(d) ==
  /\ d \in Task
  /\ (\E p \in tasks : Same(p, d)) \/ RequestTask(memory', d)

LEMMA TasksFit ==
  ASSUME IInv, KeysStay, \A d \in tasks' : Fits(d)
  PROVE  tasks' \subseteq Task /\ RequestsHaveKeys'
<1>1. tasks' \subseteq Task
  BY DEF Fits
<1>2. ASSUME NEW d \in tasks'
      PROVE  RequestTask(memory', d)
  <2>1. CASE RequestTask(memory', d)
    BY <2>1
  <2>2. CASE \E p \in tasks : Same(p, d)
    <3>1. PICK p \in tasks : Same(p, d)
      BY <2>2
    <3>2. RequestTask(memory, p) /\ p.at \in Server
      BY DEF IInv, RequestsHaveKeys, TypeOK, Task
    <3>3. Absent \notin Key
      BY ConstantsAssumption
    <3> QED BY <3>1, <3>2, <3>3 DEF RequestTask, Same, KeysStay
  <2> QED BY <2>1, <2>2 DEF Fits
<1> QED BY <1>1, <1>2 DEF RequestsHaveKeys

LEMMA OldFits ==
  ASSUME IInv, NEW d \in tasks
  PROVE  Fits(d)
BY DEF IInv, TypeOK, Fits, Same

LEMMA OtherFits ==
  ASSUME NEW d \in Task, d.kind # "RequestKey"
  PROVE  Fits(d)
BY DEF Fits, RequestTask

LEMMA ReturnFits ==
  ASSUME IInv, NEW c \in tasks, NEW result \in {"ok", "refused", "failed"}
  PROVE  \A d \in Return(c, result) : Fits(d)
<1> SUFFICES ASSUME NEW p \in tasks
             PROVE  Fits([p EXCEPT !.answer[c.at] = result])
  BY OldFits DEF Return
<1> DEFINE d == [p EXCEPT !.answer[c.at] = result]
<1>1. p \in Task /\ c \in Task
  BY DEF IInv, TypeOK
<1>2. d \in Task /\ Same(p, d)
  BY <1>1 DEF Task, Answer, Same
<1> QED BY <1>2 DEF Fits

(* A step of one server that leaves the keys it has. *)
LEMMA ServerKeepsKeys ==
  ASSUME IInv, NEW s \in Server,
         memory' = [memory EXCEPT ![s] = memory'[s]],
         memory'[s] \in Database,
         \A x \in Slot : memory[s].key[x] # Absent => memory'[s].key[x] = memory[s].key[x]
  PROVE  memory' \in [Server -> Database] /\ KeysStay
<1>1. memory \in [Server -> Database]
  BY DEF IInv, TypeOK
<1>2. memory' \in [Server -> Database]
  BY <1>1
<1>3. \A t \in Server : t # s => memory'[t] = memory[t]
  BY <1>1
<1> QED BY <1>2, <1>3 DEF KeysStay

LEMMA UnchangedMemory ==
  ASSUME UNCHANGED <<memory, disk>>
  PROVE  KeysStay /\ DiskStep
BY DEF KeysStay, DiskStep

-----------------------------------------------------------------------------
(* The steps of the coroutines of all kinds. *)

LEMMA ForwardPoolStep ==
  ASSUME IInv, NEW c \in tasks, ForwardPool(c)
  PROVE  Kept
<1>1. c \in Task /\ c.kind # "RequestKey" /\ KeysStay /\ DiskStep
  BY UnchangedMemory DEF ForwardPool, IInv, TypeOK, RequestsHaveKeys, RequestTask
<1>2. ASSUME NEW t \in Server,
             tasks' = CallNext(c, t,
               [Call(c, t, IF c.kind = "Sync" THEN "PreCreateKeys" ELSE c.kind)
                  EXCEPT !.pool = c.pool])
      PROVE  \A d \in tasks' : Fits(d)
  <2> DEFINE kind == IF c.kind = "Sync" THEN "PreCreateKeys" ELSE c.kind
             rest == [c EXCEPT !.todo = @ \ {t}, !.answer = [NoAnswer EXCEPT ![t] = "waiting"]]
             call == [Call(c, t, kind) EXCEPT !.pool = c.pool]
  <2>1. kind \in Kind /\ kind # "RequestKey" /\ c.pool \in SUBSET Key
    BY <1>1 DEF Task, Kind
  <2>2. Call(c, t, kind) \in Task /\ Call(c, t, kind).kind = kind
    BY <1>1, <2>1, CallType DEF IInv, TypeOK
  <2>3. call \in Task /\ call.kind = kind
    BY <2>1, <2>2 DEF Task
  <2>4. [NoAnswer EXCEPT ![t] = "waiting"] \in [Server -> Answer]
    BY DatabaseType DEF Answer
  <2>5. rest \in Task /\ rest.kind = c.kind
    BY <1>1, <2>4 DEF Task
  <2> HIDE DEF kind, rest, call
  <2>6. Fits(rest)
    BY <1>1, <2>5, OtherFits
  <2>7. Fits(call)
    BY <2>1, <2>3, OtherFits
  <2> QED BY <1>2, <2>6, <2>7, OldFits DEF CallNext, rest, call, kind
<1>3. ASSUME tasks' = Replace(c, ToForwardKeys([c EXCEPT !.answer = NoAnswer]))
      PROVE  \A d \in tasks' : Fits(d)
  <2> DEFINE e == [c EXCEPT !.answer = NoAnswer]
  <2>1. e \in Task /\ e.kind = c.kind
    BY <1>1, DatabaseType DEF Task
  <2>2. ToForwardKeys(e) \in Task /\ ToForwardKeys(e).kind = c.kind
    BY <2>1, ToForwardKeysType DEF IInv, TypeOK
  <2> QED BY <1>1, <1>3, <2>2, OtherFits, OldFits DEF Replace
<1>4. NextHosts(c) \subseteq Server
  BY <1>1 DEF IInv, TypeOK, Task, NextHosts
<1>5. \A d \in tasks' : Fits(d)
  BY <1>2, <1>3, <1>4 DEF ForwardPool
<1> QED BY <1>1, <1>5, TasksFit DEF Kept, IInv, TypeOK, ForwardPool

LEMMA ForwardCreateNewKeysStep ==
  ASSUME IInv, NEW c \in tasks, ForwardCreateNewKeys(c)
  PROVE  Kept
<1> DEFINE verifier == Answered(c, "ok")
           fresh == [x \in Slot |->
             IF c.create[x] = Absent THEN {} ELSE verifier \ memory[c.at].verified[x]]
           d == [c EXCEPT !.answer = NoAnswer,
                          !.news = [x \in Slot |-> @[x] \cup fresh[x]],
                          !.changed = @ \/ fresh # NoHosts]
<1>1. /\ c \in Task /\ c.at \in Server /\ RequestTask(memory, c) /\ c.step = "forwardKeys"
      /\ memory \in [Server -> Database]
  BY DEF ForwardCreateNewKeys, IInv, TypeOK, RequestsHaveKeys, Task
<1>2. fresh \in [Slot -> SUBSET Server]
  BY <1>1 DEF Answered, Database
<1>3. memory' = [memory EXCEPT ![c.at].verified = [x \in Slot |-> @[x] \cup fresh[x]]]
  BY DEF ForwardCreateNewKeys
<1>4. memory'[c.at] = [memory[c.at] EXCEPT !.verified = [x \in Slot |-> @[x] \cup fresh[x]]]
  BY <1>1, <1>3
<1>5. memory' \in [Server -> Database] /\ KeysStay /\ DiskStep
  <2>1. memory[c.at] \in Database
    BY <1>1
  <2>2. memory'[c.at] \in Database /\ memory'[c.at].key = memory[c.at].key
    BY <1>2, <1>4, <2>1 DEF Database
  <2>3. memory' = [memory EXCEPT ![c.at] = memory'[c.at]]
    BY <1>1, <1>3
  <2>4. DiskStep
    BY DEF DiskStep, ForwardCreateNewKeys
  <2> QED BY <1>1, <2>2, <2>3, <2>4, ServerKeepsKeys
<1>6. d \in Task /\ Same(c, d)
  BY <1>1, <1>2, DatabaseType DEF Task, Same
<1> HIDE DEF verifier, fresh, d
<1>7. ASSUME NEW t \in Server,
             tasks' = (tasks \ {c}) \cup
               {[d EXCEPT !.todo = @ \ {t}, !.answer[t] = "waiting"],
                [Call(c, t, "CreateNewKeys") EXCEPT !.create = c.create]}
      PROVE  \A e \in tasks' : Fits(e)
  <2> DEFINE rest == [d EXCEPT !.todo = @ \ {t}, !.answer[t] = "waiting"]
             call == [Call(c, t, "CreateNewKeys") EXCEPT !.create = c.create]
  <2>1. rest \in Task /\ Same(c, rest)
    BY <1>6 DEF Task, Same, Answer
  <2>2. Call(c, t, "CreateNewKeys") \in Task /\ Call(c, t, "CreateNewKeys").kind = "CreateNewKeys"
    BY <1>1, CallType DEF IInv, TypeOK, Kind
  <2>3. call \in Task /\ call.kind = "CreateNewKeys"
    BY <1>1, <2>2 DEF Task
  <2> HIDE DEF rest, call
  <2>4. Fits(rest)
    BY <2>1 DEF Fits
  <2>5. Fits(call)
    BY <2>3, OtherFits
  <2> QED BY <1>7, <2>4, <2>5, OldFits DEF rest, call
<1>8. ASSUME tasks' = Replace(c, ToWrite(d))
      PROVE  \A e \in tasks' : Fits(e)
  <2>1. /\ ToWrite(d) \in Task
        /\ ToWrite(d).kind = c.kind /\ ToWrite(d).at = c.at /\ ToWrite(d).slot = c.slot
        /\ ToWrite(d).step \in {"write", "report"}
    BY <1>6, ToWriteType DEF Same
  <2>2. RequestTask(memory', ToWrite(d))
    BY <1>1, <1>5, <2>1, ConstantsAssumption DEF RequestTask, KeysStay
  <2>3. Fits(ToWrite(d))
    BY <2>1, <2>2 DEF Fits
  <2> QED BY <1>8, <2>3, OldFits DEF Replace
<1>9. NextHosts(c) \subseteq Server
  BY <1>1 DEF IInv, TypeOK, NextHosts
<1>10. \A e \in tasks' : Fits(e)
  BY <1>7, <1>8, <1>9 DEF ForwardCreateNewKeys, verifier, fresh, d
<1> QED BY <1>5, <1>10, TasksFit DEF Kept, IInv, TypeOK, ForwardCreateNewKeys

LEMMA ReportFits ==
  ASSUME IInv, KeysStay, NEW c \in tasks, c.step = "write"
  PROVE  \A e \in Report(c) : Fits(e)
<1> DEFINE called == IF c.news = NoHosts THEN {} ELSE others[c.at]
           rest == [c EXCEPT !.step = "report",
                      !.answer = [t \in Server |-> IF t \in called THEN "waiting" ELSE "none"]]
           call(t) == [Call(c, t, "KeysVerifiedOnServers") EXCEPT !.news = c.news]
<1>1. c \in Task /\ c.at \in Server /\ RequestTask(memory, c)
  BY DEF IInv, TypeOK, RequestsHaveKeys, Task
<1>2. called \subseteq Server
  BY <1>1 DEF IInv, TypeOK
<1>3. Fits(rest)
  <2>1. /\ rest \in Task /\ rest.step = "report"
        /\ rest.kind = c.kind /\ rest.at = c.at /\ rest.slot = c.slot
    BY <1>1 DEF Task, Answer, Step
  <2> HIDE DEF rest
  <2>2. RequestTask(memory', rest)
    BY <1>1, <2>1, ConstantsAssumption DEF RequestTask, KeysStay
  <2> QED BY <2>1, <2>2 DEF Fits
<1>4. ASSUME NEW t \in called
      PROVE  Fits(call(t))
  <2>1. /\ Call(c, t, "KeysVerifiedOnServers") \in Task
        /\ Call(c, t, "KeysVerifiedOnServers").kind = "KeysVerifiedOnServers"
    BY <1>1, <1>2, <1>4, CallType DEF IInv, TypeOK, Kind
  <2>2. call(t) \in Task /\ call(t).kind = "KeysVerifiedOnServers"
    BY <1>1, <2>1 DEF Task
  <2> HIDE DEF call
  <2> QED BY <2>2, OtherFits
<1>5. CASE called = {} /\ c.kind # "RequestKey"
  BY <1>5, ReturnFits DEF Report
<1>6. CASE ~(called = {} /\ c.kind # "RequestKey")
  <2>1. Report(c) = (tasks \ {c}) \cup {rest} \cup {call(t) : t \in called}
    BY <1>6 DEF Report
  <2> HIDE DEF rest, call, called
  <2> QED BY <1>3, <1>4, <2>1, OldFits
<1> QED BY <1>5, <1>6

LEMMA WriteStep ==
  ASSUME IInv, NEW c \in tasks, Write(c)
  PROVE  Kept
<1>1. c.at \in Server /\ KeysStay
  BY DEF Write, KeysStay, IInv, TypeOK, Task
<1>2. disk' \in [Server -> Database] /\ DiskStep
  BY <1>1 DEF Write, IInv, TypeOK, DiskStep
<1>3. \A e \in tasks' : Fits(e)
  BY <1>1, ReportFits DEF Write
<1> QED BY <1>1, <1>2, <1>3, TasksFit DEF Kept, IInv, TypeOK, Write

LEMMA FailWriteStep ==
  ASSUME IInv, NEW c \in tasks, FailWrite(c)
  PROVE  Kept
<1>1. KeysStay /\ DiskStep
  BY UnchangedMemory DEF FailWrite
<1>2. \A e \in tasks' : Fits(e)
  BY ReturnFits DEF FailWrite
<1> QED BY <1>1, <1>2, TasksFit DEF Kept, IInv, TypeOK, FailWrite

LEMMA FinishStep ==
  ASSUME IInv, NEW c \in tasks, Finish(c)
  PROVE  Kept
<1>1. KeysStay /\ DiskStep
  BY UnchangedMemory DEF Finish
<1>2. \A e \in tasks' : Fits(e)
  <2>1. (IF Failed(c) THEN "failed" ELSE "ok") \in {"ok", "refused", "failed"}
    OBVIOUS
  <2> QED BY <2>1, ReturnFits DEF Finish
<1>3. given' \subseteq Server \X Slot \X Key
  <2>1. given \subseteq Server \X Slot \X Key /\ c.at \in Server /\ RequestTask(memory, c)
    BY DEF IInv, TypeOK, Task, RequestsHaveKeys
  <2>2. CASE c.kind = "RequestKey"
    <3>1. <<c.at, c.slot, memory[c.at].key[c.slot]>> \in Server \X Slot \X Key
      BY <2>1, <2>2 DEF RequestTask, Finish
    <3> QED BY <2>1, <3>1 DEF Finish
  <2> QED BY <2>1, <2>2 DEF Finish
<1> QED BY <1>1, <1>2, <1>3, TasksFit DEF Kept, IInv, TypeOK, Finish

-----------------------------------------------------------------------------
(* A request and the pre-created keys. *)

LEMMA RootType ==
  ASSUME NEW s \in Server, NEW kind \in Kind, NEW step \in Step
  PROVE  /\ Root(s, kind, step) \in Task
         /\ Root(s, kind, step).kind = kind /\ Root(s, kind, step).at = s
         /\ Root(s, kind, step).step = step
<1> DEFINE unused == {n \in 0 .. MaxOperations :
                        \A c \in tasks : c.id[1] # <<kind, s, n, NoSlot>>}
           first == CHOOSE n \in 0 .. MaxOperations : n \in unused \/ unused = {}
<1>1. \E n \in 0 .. MaxOperations : n \in unused \/ unused = {}
  <2>0. unused \subseteq 0 .. MaxOperations /\ 0 \in 0 .. MaxOperations
    BY ConstantsAssumption
  <2> HIDE DEF unused
  <2>1. CASE unused = {}
    BY <2>0, <2>1
  <2>2. CASE unused # {}
    BY <2>0, <2>2
  <2> QED BY <2>1, <2>2
<1>2. first \in 0 .. MaxOperations
  <2> HIDE DEF unused
  <2> QED BY <1>1
<1>3. first \in Nat
  BY <1>2, ConstantsAssumption
<1> HIDE DEF first
<1>4. <<<<kind, s, first, NoSlot>>>> \in Seq(CallID)
  BY <1>3 DEF CallID
<1>5. Root(s, kind, step) = NewTask(<<<<kind, s, first, NoSlot>>>>, s, s, kind, step)
  BY DEF Root, first
<1>6. NewTask(<<<<kind, s, first, NoSlot>>>>, s, s, kind, step) \in Task
  BY <1>4, NewTaskType
<1> QED BY <1>5, <1>6 DEF NewTask

LEMMA RequestKeyStep ==
  ASSUME IInv, NEW s \in Server, NEW x \in Slot, RequestKey(s, x)
  PROVE  Kept
<1>1. KeysStay /\ DiskStep
  BY UnchangedMemory DEF RequestKey
<1> DEFINE root == Root(s, "RequestKey", "try")
           new == [root EXCEPT !.slot = x]
<1>2. root \in Task /\ root.kind = "RequestKey" /\ root.step = "try"
  BY RootType DEF Kind, Step
<1>3. new \in Task /\ new.slot = x /\ new.step = "try"
  <2> HIDE DEF root
  <2> QED BY <1>2 DEF Task
<1>4. Fits(new)
  <2> HIDE DEF new
  <2> QED BY <1>3 DEF Fits, RequestTask
<1>5. \A e \in tasks' : Fits(e)
  <2> HIDE DEF root
  <2>1. tasks' = tasks \/ tasks' = tasks \cup {new}
    BY DEF RequestKey, root
  <2> HIDE DEF new
  <2> QED BY <1>4, <2>1, OldFits
<1>6. given' \subseteq Server \X Slot \X Key /\ operations' \in Nat
  BY DEF RequestKey, Start, IInv, TypeOK
<1> QED BY <1>1, <1>5, <1>6, TasksFit DEF Kept, IInv, TypeOK, RequestKey

LEMMA TryUseAvailableKeyStep ==
  ASSUME IInv, NEW c \in tasks, TryUseAvailableKey(c)
  PROVE  Kept
<1>1. KeysStay /\ DiskStep
  BY UnchangedMemory DEF TryUseAvailableKey
<1>2. c \in Task /\ c.at \in Server /\ RequestTask(memory, c) /\ c.step = "try"
  BY DEF TryUseAvailableKey, IInv, TypeOK, RequestsHaveKeys, Task
<1>3. Candidates(c) \subseteq Key
  BY <1>2 DEF Candidates, IInv, TypeOK, Database
<1>4. ASSUME tasks' = Replace(c, [c EXCEPT !.step = "create", !.try = Absent])
      PROVE  \A e \in tasks' : Fits(e)
  <2> DEFINE d == [c EXCEPT !.step = "create", !.try = Absent]
  <2>1. /\ d \in Task /\ d.step = "create"
        /\ d.kind = c.kind /\ d.slot = c.slot
    BY <1>2 DEF Task, Step
  <2> HIDE DEF d
  <2>2. Fits(d)
    BY <1>2, <2>1 DEF Fits, RequestTask
  <2> QED BY <1>4, <2>2, OldFits DEF Replace, d
<1>5. ASSUME NEW k \in Candidates(c),
             LET d == [c EXCEPT !.step = "using", !.try = k, !.tried = @ \cup {k},
                         !.answer = [t \in Server |->
                           IF t \in others[c.at] THEN "waiting" ELSE "none"]]
             IN tasks' = (tasks \ {c}) \cup {d} \cup
                  {[Call(d, t, "UseAvailableKey") EXCEPT !.try = k] : t \in others[c.at]}
      PROVE  \A e \in tasks' : Fits(e)
  <2> DEFINE d == [c EXCEPT !.step = "using", !.try = k, !.tried = @ \cup {k},
                     !.answer = [t \in Server |->
                       IF t \in others[c.at] THEN "waiting" ELSE "none"]]
             call(t) == [Call(d, t, "UseAvailableKey") EXCEPT !.try = k]
  <2>1. k \in Key /\ others[c.at] \subseteq Server
    BY <1>2, <1>3, <1>5 DEF IInv, TypeOK
  <2>2. d \in Task /\ d.step = "using" /\ d.kind = c.kind /\ d.slot = c.slot
    BY <1>2, <2>1 DEF Task, Step, Answer
  <2> HIDE DEF d
  <2>3. Fits(d)
    BY <1>2, <2>2 DEF Fits, RequestTask
  <2>4. ASSUME NEW t \in others[c.at]
        PROVE  Fits(call(t))
    <3>1. /\ Call(d, t, "UseAvailableKey") \in Task
          /\ Call(d, t, "UseAvailableKey").kind = "UseAvailableKey"
      BY <2>1, <2>2, <2>4, CallType DEF IInv, TypeOK, Kind
    <3>2. call(t) \in Task /\ call(t).kind = "UseAvailableKey"
      BY <2>1, <3>1 DEF Task
    <3> HIDE DEF call
    <3> QED BY <3>2, OtherFits
  <2>5. tasks' = (tasks \ {c}) \cup {d} \cup {call(t) : t \in others[c.at]}
    BY <1>5 DEF d
  <2> HIDE DEF call
  <2> QED BY <2>3, <2>4, <2>5, OldFits
<1>6. \A e \in tasks' : Fits(e)
  BY <1>4, <1>5, ReturnFits DEF TryUseAvailableKey
<1>7. trying' \in [Server -> [Key -> Server \cup {Nobody}]]
  <2>1. \/ UNCHANGED trying
        \/ \E k \in Candidates(c) : trying' = [trying EXCEPT ![c.at][k] = c.at]
    BY DEF TryUseAvailableKey
  <2>2. trying \in [Server -> [Key -> Server \cup {Nobody}]]
    BY DEF IInv, TypeOK
  <2>3. ASSUME NEW k \in Candidates(c), trying' = [trying EXCEPT ![c.at][k] = c.at]
        PROVE  trying' \in [Server -> [Key -> Server \cup {Nobody}]]
    BY <1>2, <2>2, <2>3
  <2> QED BY <2>1, <2>2, <2>3
<1> QED BY <1>1, <1>6, <1>7, TasksFit DEF Kept, IInv, TypeOK, TryUseAvailableKey

LEMMA UsedAvailableKeyStep ==
  ASSUME IInv, NEW c \in tasks, UsedAvailableKey(c)
  PROVE  Kept
<1> DEFINE k == c.try
           agreed == Answered(c, "ok")
           call(t) == [Call(c, t, "ReleaseKey") EXCEPT !.try = k, !.wanted = FALSE]
           released == {call(t) : t \in agreed}
<1>1. /\ c \in Task /\ c.at \in Server /\ RequestTask(memory, c) /\ c.step = "using"
      /\ memory \in [Server -> Database] /\ memory[c.at] \in Database
  BY DEF UsedAvailableKey, IInv, TypeOK, RequestsHaveKeys, Task
<1>2. memory' \in [Server -> Database] /\ KeysStay /\ DiskStep
  <2>1. DiskStep
    BY DEF DiskStep, UsedAvailableKey
  <2>2. CASE UNCHANGED memory
    BY <1>1, <2>1, <2>2, UnchangedMemory DEF UsedAvailableKey
  <2>3. CASE memory' = [memory EXCEPT ![c.at].available = @ \ {k}]
    <3>1. memory'[c.at] = [memory[c.at] EXCEPT !.available = @ \ {k}]
      BY <1>1, <2>3
    <3>2. memory'[c.at] \in Database /\ memory'[c.at].key = memory[c.at].key
      BY <1>1, <3>1 DEF Database
    <3>3. memory' = [memory EXCEPT ![c.at] = memory'[c.at]]
      BY <1>1, <2>3
    <3> QED BY <1>1, <2>1, <3>2, <3>3, ServerKeepsKeys
  <2> QED BY <2>2, <2>3 DEF UsedAvailableKey
<1>3. trying' \in [Server -> [Key -> Server \cup {Nobody}]]
  BY <1>1 DEF UsedAvailableKey, IInv, TypeOK
<1>4. ASSUME NEW e \in released
      PROVE  Fits(e)
  <2>1. PICK t \in agreed : e = call(t)
    BY <1>4
  <2>2. Call(c, t, "ReleaseKey") \in Task /\ Call(c, t, "ReleaseKey").kind = "ReleaseKey"
    BY <1>1, CallType DEF IInv, TypeOK, Kind, Answered
  <2>3. call(t) \in Task /\ call(t).kind = "ReleaseKey"
    BY <1>1, <2>2 DEF Task
  <2> QED BY <2>1, <2>3, OtherFits
<1>5. ASSUME NEW next \in {"try", "create"}
      PROVE  Fits([c EXCEPT !.step = next, !.answer = NoAnswer])
  <2> DEFINE d == [c EXCEPT !.step = next, !.answer = NoAnswer]
  <2>1. d \in Task /\ d.step = next /\ d.kind = c.kind /\ d.slot = c.slot
    BY <1>1, DatabaseType DEF Task, Step
  <2> HIDE DEF d
  <2>2. Fits(d)
    BY <1>1, <2>1 DEF Fits, RequestTask
  <2> QED BY <2>2 DEF d
<1> HIDE DEF released
<1>6. \A e \in tasks' : Fits(e)
  <2>1. CASE tasks' = Return(c, "failed") \cup released
    BY <1>4, <2>1, ReturnFits
  <2>2. ASSUME NEW next \in {"try", "create"},
               tasks' = (tasks \ {c}) \cup released \cup
                          {[c EXCEPT !.step = next, !.answer = NoAnswer]}
        PROVE  \A e \in tasks' : Fits(e)
    BY <1>4, <1>5, <2>2, OldFits
  <2> QED BY <2>1, <2>2 DEF UsedAvailableKey, released
<1> QED BY <1>2, <1>3, <1>6, TasksFit DEF Kept, IInv, TypeOK, UsedAvailableKey

LEMMA StoreKeyStep ==
  ASSUME IInv, NEW c \in tasks, c.step = "create", NEW k \in Key,
         memory[c.at].key[c.slot] = Absent, StoreKey(c, k)
  PROVE  memory' \in [Server -> Database] /\ KeysStay /\ \A e \in tasks' : Fits(e)
<1> DEFINE x == c.slot
           d == [c EXCEPT !.create[x] = k, !.news[x] = {c.at}, !.try = Absent, !.changed = TRUE]
<1>1. /\ c \in Task /\ c.at \in Server /\ RequestTask(memory, c)
      /\ memory \in [Server -> Database] /\ memory[c.at] \in Database
  BY DEF IInv, TypeOK, RequestsHaveKeys, Task
<1>2. memory'[c.at] = [memory[c.at] EXCEPT !.key[x] = k, !.verified[x] = {c.at}]
  BY <1>1 DEF StoreKey
<1>3. memory' \in [Server -> Database] /\ KeysStay
  <2>1. memory'[c.at] \in Database
    <3>1. [memory[c.at].key EXCEPT ![x] = k] \in [Slot -> Entry]
      BY <1>1 DEF Database, Entry
    <3>2. [memory[c.at].verified EXCEPT ![x] = {c.at}] \in [Slot -> SUBSET Server]
      BY <1>1 DEF Database
    <3> QED BY <1>1, <1>2, <3>1, <3>2 DEF Database
  <2>2. \A y \in Slot : y # x => memory'[c.at].key[y] = memory[c.at].key[y]
    BY <1>1, <1>2 DEF Database
  <2>3. memory' = [memory EXCEPT ![c.at] = memory'[c.at]]
    BY <1>1 DEF StoreKey
  <2> QED BY <1>1, <2>1, <2>2, <2>3, ServerKeepsKeys
<1>4. d \in Task /\ d.kind = c.kind /\ d.at = c.at /\ d.slot = x
  BY <1>1 DEF Task, Entry
<1> HIDE DEF d
<1>5. /\ ToForwardKeys(d) \in Task
      /\ ToForwardKeys(d).kind = c.kind /\ ToForwardKeys(d).at = c.at
      /\ ToForwardKeys(d).slot = x
      /\ ToForwardKeys(d).step \in {"forwardKeys", "write", "report"}
  BY <1>4, ToForwardKeysType DEF IInv, TypeOK
<1>6. RequestTask(memory', ToForwardKeys(d))
  <2>1. x \in Slot => memory'[c.at].key[x] = k
    BY <1>1, <1>2 DEF Database
  <2> QED BY <1>1, <1>5, <2>1 DEF RequestTask
<1>7. Fits(ToForwardKeys(d))
  BY <1>5, <1>6 DEF Fits
<1> QED BY <1>3, <1>7, OldFits DEF StoreKey, Replace, d

LEMMA CreateKeyStep ==
  ASSUME IInv, NEW c \in tasks, CreateKey(c)
  PROVE  Kept
<1>1. DiskStep /\ c \in Task /\ generated \subseteq Key
  BY DEF DiskStep, CreateKey, IInv, TypeOK
<1>2. CASE UNCHANGED <<memory, generated>> /\ tasks' = Return(c, "failed")
  <2>1. KeysStay
    BY <1>2 DEF KeysStay
  <2>2. \A e \in tasks' : Fits(e)
    BY <1>2, ReturnFits
  <2> QED BY <1>1, <1>2, <2>1, <2>2, TasksFit DEF Kept, IInv, TypeOK, CreateKey
<1>3. CASE /\ memory[c.at].key[c.slot] = Absent
           /\ c.try # Absent /\ StoreKey(c, c.try) /\ UNCHANGED generated
  <2>1. c.try \in Key
    BY <1>1, <1>3 DEF Task
  <2>2. memory' \in [Server -> Database] /\ KeysStay /\ \A e \in tasks' : Fits(e)
    BY <1>3, <2>1, StoreKeyStep DEF CreateKey
  <2> QED BY <1>1, <1>3, <2>2, TasksFit DEF Kept, IInv, TypeOK, CreateKey
<1>4. CASE memory[c.at].key[c.slot] = Absent /\ GenerateKey(c)
  <2>1. NewKey \in Key
    BY <1>1, <1>4 DEF NewKey, GenerateKey
  <2>2. memory' \in [Server -> Database] /\ KeysStay /\ \A e \in tasks' : Fits(e)
    BY <1>4, <2>1, StoreKeyStep DEF CreateKey, GenerateKey
  <2>3. generated' \subseteq Key
    BY <1>1, <1>4, <2>1 DEF GenerateKey
  <2> QED BY <1>1, <2>2, <2>3, TasksFit DEF Kept, IInv, TypeOK, CreateKey
<1> QED BY <1>2, <1>3, <1>4 DEF CreateKey

-----------------------------------------------------------------------------
(* The calls of another server. *)

LEMMA CreateNewKeysStep ==
  ASSUME IInv, NEW c \in tasks, CreateNewKeys(c)
  PROVE  Kept
<1> DEFINE key == memory[c.at].key
           asked == {x \in Slot : c.create[x] # Absent}
           conflict == {x \in asked : key[x] \notin {Absent, c.create[x]}}
           made == {x \in asked : key[x] = Absent /\ \A y \in conflict : x < y}
           d == [c EXCEPT !.create = [x \in Slot |-> IF x \in made THEN @[x] ELSE Absent],
                          !.news = [x \in Slot |-> IF x \in made THEN {c.at} ELSE {}],
                          !.changed = made # {}]
<1>1. /\ c \in Task /\ c.at \in Server /\ c.kind = "CreateNewKeys"
      /\ memory \in [Server -> Database] /\ memory[c.at] \in Database
  BY DEF CreateNewKeys, IInv, TypeOK, Task
<1>2. made \subseteq Slot /\ \A x \in made : key[x] = Absent
  OBVIOUS
<1>3. \A e \in tasks' : Fits(e)
  <2> HIDE DEF made
  <2>1. d \in Task /\ d.kind = c.kind
    BY <1>1, <1>2 DEF Task, Entry
  <2> HIDE DEF d
  <2>2. ToForwardKeys(d) \in Task /\ ToForwardKeys(d).kind = "CreateNewKeys"
    BY <1>1, <2>1, ToForwardKeysType DEF IInv, TypeOK
  <2>3. Fits(ToForwardKeys(d))
    BY <2>2, OtherFits
  <2>4. \/ tasks' = Return(c, "failed") \/ tasks' = Return(c, "ok")
        \/ tasks' = Replace(c, ToForwardKeys(d))
    BY DEF CreateNewKeys, made, d
  <2> QED BY <2>3, <2>4, ReturnFits, OldFits DEF Replace
<1>4. memory' = [memory EXCEPT
        ![c.at].key = [x \in Slot |-> IF x \in made THEN c.create[x] ELSE @[x]],
        ![c.at].verified = [x \in Slot |-> IF x \in made THEN {c.at} ELSE @[x]],
        ![c.at].available = @ \ {c.create[x] : x \in made}]
  BY DEF CreateNewKeys
<1> HIDE DEF made
<1>5. memory'[c.at] = [memory[c.at] EXCEPT
        !.key = [x \in Slot |-> IF x \in made THEN c.create[x] ELSE @[x]],
        !.verified = [x \in Slot |-> IF x \in made THEN {c.at} ELSE @[x]],
        !.available = @ \ {c.create[x] : x \in made}]
  BY <1>1, <1>4
<1>6. memory'[c.at] \in Database
  <2>1. c.create \in [Slot -> Entry]
    BY <1>1 DEF Task
  <2>2. [x \in Slot |-> IF x \in made THEN c.create[x] ELSE memory[c.at].key[x]]
          \in [Slot -> Entry]
    BY <1>1, <2>1 DEF Database
  <2>3. [x \in Slot |-> IF x \in made THEN {c.at} ELSE memory[c.at].verified[x]]
          \in [Slot -> SUBSET Server]
    BY <1>1 DEF Database
  <2> QED BY <1>1, <1>5, <2>2, <2>3 DEF Database
<1>7. \A x \in Slot : key[x] # Absent => memory'[c.at].key[x] = key[x]
  BY <1>1, <1>2, <1>5 DEF Database
<1>8. memory' = [memory EXCEPT ![c.at] = memory'[c.at]]
  BY <1>1, <1>4
<1>9. memory' \in [Server -> Database] /\ KeysStay /\ DiskStep
  BY <1>1, <1>6, <1>7, <1>8, ServerKeepsKeys DEF DiskStep, CreateNewKeys
<1> QED BY <1>3, <1>9, TasksFit DEF Kept, IInv, TypeOK, CreateNewKeys

LEMMA KeysVerifiedOnServersStep ==
  ASSUME IInv, NEW c \in tasks, KeysVerifiedOnServers(c)
  PROVE  Kept
<1> DEFINE known == memory[c.at].verified
           fresh == [x \in Slot |-> c.news[x] \ known[x]]
           d == [c EXCEPT !.news = fresh, !.changed = TRUE]
<1>1. /\ c \in Task /\ c.at \in Server /\ c.kind = "KeysVerifiedOnServers"
      /\ memory \in [Server -> Database] /\ memory[c.at] \in Database
  BY DEF KeysVerifiedOnServers, IInv, TypeOK, Task
<1>2. fresh \in [Slot -> SUBSET Server]
  BY <1>1 DEF Task
<1>3. \A e \in tasks' : Fits(e)
  <2>1. d \in Task /\ d.kind = c.kind
    BY <1>1, <1>2 DEF Task
  <2>2. tasks' = Return(c, "ok") \/ tasks' = Replace(c, ToWrite(d))
    BY DEF KeysVerifiedOnServers
  <2> HIDE DEF d
  <2>3. ToWrite(d) \in Task /\ ToWrite(d).kind = "KeysVerifiedOnServers"
    BY <1>1, <2>1, ToWriteType
  <2>4. Fits(ToWrite(d))
    BY <2>3, OtherFits
  <2> QED BY <2>2, <2>4, ReturnFits, OldFits DEF Replace
<1>4. memory' = [memory EXCEPT
        ![c.at].key = [x \in Slot |->
           IF c.news[x] # {} /\ @[x] = Absent THEN Empty ELSE @[x]],
        ![c.at].verified = [x \in Slot |-> @[x] \cup fresh[x]]]
  BY DEF KeysVerifiedOnServers
<1> HIDE DEF fresh
<1>5. memory'[c.at] = [memory[c.at] EXCEPT
        !.key = [x \in Slot |-> IF c.news[x] # {} /\ @[x] = Absent THEN Empty ELSE @[x]],
        !.verified = [x \in Slot |-> @[x] \cup fresh[x]]]
  BY <1>1, <1>4
<1>6. memory'[c.at] \in Database
  <2>1. [x \in Slot |-> IF c.news[x] # {} /\ memory[c.at].key[x] = Absent
                          THEN Empty ELSE memory[c.at].key[x]] \in [Slot -> Entry]
    BY <1>1 DEF Database, Entry
  <2>2. [x \in Slot |-> memory[c.at].verified[x] \cup fresh[x]] \in [Slot -> SUBSET Server]
    BY <1>1, <1>2 DEF Database
  <2> QED BY <1>1, <1>5, <2>1, <2>2 DEF Database
<1>7. \A x \in Slot : memory[c.at].key[x] # Absent =>
                        memory'[c.at].key[x] = memory[c.at].key[x]
  BY <1>1, <1>5 DEF Database
<1>8. memory' = [memory EXCEPT ![c.at] = memory'[c.at]]
  BY <1>1, <1>4
<1>9. memory' \in [Server -> Database] /\ KeysStay /\ DiskStep
  BY <1>1, <1>6, <1>7, <1>8, ServerKeepsKeys DEF DiskStep, KeysVerifiedOnServers
<1> QED BY <1>3, <1>9, TasksFit DEF Kept, IInv, TypeOK, KeysVerifiedOnServers

LEMMA UseAvailableKeyStep ==
  ASSUME IInv, NEW c \in tasks, UseAvailableKey(c)
  PROVE  Kept
<1>1. KeysStay /\ DiskStep
  BY UnchangedMemory DEF UseAvailableKey
<1>2. \A e \in tasks' : Fits(e)
  <2>1. tasks' = Return(c, "ok") \/ tasks' = Return(c, "refused")
    BY DEF UseAvailableKey
  <2> QED BY <2>1, ReturnFits
<1>3. trying' \in [Server -> [Key -> Server \cup {Nobody}]]
  <2>1. c.by \in Server
    BY DEF IInv, TypeOK, Task
  <2> QED BY <2>1 DEF UseAvailableKey, IInv, TypeOK
<1> QED BY <1>1, <1>2, <1>3, TasksFit DEF Kept, IInv, TypeOK, UseAvailableKey

LEMMA ReleaseKeyStep ==
  ASSUME IInv, NEW c \in tasks, ReleaseKey(c)
  PROVE  Kept
<1>1. KeysStay /\ DiskStep
  BY UnchangedMemory DEF ReleaseKey
<1>2. \A e \in tasks' : Fits(e)
  BY OldFits DEF ReleaseKey
<1>3. trying' \in [Server -> [Key -> Server \cup {Nobody}]]
  BY DEF ReleaseKey, IInv, TypeOK
<1> QED BY <1>1, <1>2, <1>3, TasksFit DEF Kept, IInv, TypeOK, ReleaseKey

(* A server gets another pool and forwards what is new in it. *)
LEMMA PoolStep ==
  ASSUME IInv, NEW s \in Server, NEW pool \in SUBSET Key,
         memory' = [memory EXCEPT ![s].available = pool], UNCHANGED disk
  PROVE  memory' \in [Server -> Database] /\ KeysStay /\ DiskStep
<1>1. memory \in [Server -> Database] /\ memory[s] \in Database
  BY DEF IInv, TypeOK
<1>2. memory'[s] = [memory[s] EXCEPT !.available = pool]
  BY <1>1
<1>3. memory'[s] \in Database /\ memory'[s].key = memory[s].key
  BY <1>1, <1>2 DEF Database
<1>4. memory' = [memory EXCEPT ![s] = memory'[s]]
  BY <1>1
<1> QED BY <1>3, <1>4, ServerKeepsKeys DEF DiskStep

LEMMA ForwardFits ==
  ASSUME IInv, NEW c \in Task, c.kind # "RequestKey", NEW pool \in SUBSET Key
  PROVE  Fits(ToForwardPool([c EXCEPT !.pool = pool, !.changed = TRUE]))
<1> DEFINE d == [c EXCEPT !.pool = pool, !.changed = TRUE]
<1>1. d \in Task /\ d.kind = c.kind
  BY DEF Task
<1> HIDE DEF d
<1>2. ToForwardPool(d) \in Task /\ ToForwardPool(d).kind = c.kind
  BY <1>1, ToForwardPoolType DEF IInv, TypeOK
<1>3. Fits(ToForwardPool(d))
  BY <1>2, OtherFits
<1> QED BY <1>3 DEF d

LEMMA PreCreateKeysStep ==
  ASSUME IInv, NEW c \in tasks, PreCreateKeys(c)
  PROVE  Kept
<1> DEFINE new == c.pool \ memory[c.at].available
<1>1. /\ c \in Task /\ c.at \in Server /\ c.kind = "PreCreateKeys"
      /\ new \in SUBSET Key /\ memory[c.at].available \cup new \in SUBSET Key
  BY DEF PreCreateKeys, IInv, TypeOK, Task, Database
<1>2. memory' = [memory EXCEPT ![c.at].available = memory[c.at].available \cup new]
  BY <1>1 DEF PreCreateKeys, IInv, TypeOK
<1>3. memory' \in [Server -> Database] /\ KeysStay /\ DiskStep
  BY <1>1, <1>2, PoolStep DEF PreCreateKeys
<1>4. Fits(ToForwardPool([c EXCEPT !.pool = new, !.changed = TRUE]))
  BY <1>1, ForwardFits
<1>5. \A e \in tasks' : Fits(e)
  BY <1>4, ReturnFits, OldFits DEF PreCreateKeys, Replace
<1> QED BY <1>3, <1>5, TasksFit DEF Kept, IInv, TypeOK, PreCreateKeys

LEMMA RemovePreCreatedKeysStep ==
  ASSUME IInv, NEW c \in tasks, RemovePreCreatedKeys(c)
  PROVE  Kept
<1> DEFINE gone == c.pool \cap memory[c.at].available
<1>1. /\ c \in Task /\ c.at \in Server /\ c.kind = "RemovePreCreatedKeys"
      /\ gone \in SUBSET Key /\ memory[c.at].available \ gone \in SUBSET Key
  BY DEF RemovePreCreatedKeys, IInv, TypeOK, Task, Database
<1>2. memory' = [memory EXCEPT ![c.at].available = memory[c.at].available \ gone]
  BY <1>1 DEF RemovePreCreatedKeys, IInv, TypeOK
<1>3. memory' \in [Server -> Database] /\ KeysStay /\ DiskStep
  BY <1>1, <1>2, PoolStep DEF RemovePreCreatedKeys
<1>4. Fits(ToForwardPool([c EXCEPT !.pool = gone, !.changed = TRUE]))
  BY <1>1, ForwardFits
<1>5. \A e \in tasks' : Fits(e)
  BY <1>4, ReturnFits, OldFits DEF RemovePreCreatedKeys, Replace
<1> QED BY <1>3, <1>5, TasksFit DEF Kept, IInv, TypeOK, RemovePreCreatedKeys

LEMMA RemoveVerifiedHostsStep ==
  ASSUME IInv, NEW c \in tasks, RemoveVerifiedHosts(c)
  PROVE  Kept
<1> DEFINE asked == others[c.at] \ (c.checked \cup {c.at})
           checked == c.checked \cup {c.at}
           d == [c EXCEPT !.checked = checked, !.step = "forwardHosts",
                   !.answer = [t \in Server |-> IF t \in asked THEN "waiting" ELSE "none"]]
           call(t) == [Call(c, t, "RemoveVerifiedHosts") EXCEPT
                         !.hosts = c.hosts, !.checked = checked]
<1>1. KeysStay /\ DiskStep
  BY UnchangedMemory DEF RemoveVerifiedHosts
<1>2. /\ c \in Task /\ c.at \in Server /\ c.kind = "RemoveVerifiedHosts"
      /\ asked \subseteq Server /\ checked \in SUBSET Server
  BY DEF RemoveVerifiedHosts, IInv, TypeOK, Task
<1>3. \/ tasks' = Return(c, "failed") \/ tasks' = Return(c, "refused")
      \/ tasks' = (tasks \ {c}) \cup {d} \cup {call(t) : t \in asked}
  BY DEF RemoveVerifiedHosts
<1> HIDE DEF asked, checked
<1>4. Fits(d)
  <2>1. d \in Task /\ d.kind = c.kind
    BY <1>2 DEF Task, Step, Answer
  <2> HIDE DEF d
  <2> QED BY <1>2, <2>1, OtherFits
<1>5. ASSUME NEW t \in asked
      PROVE  Fits(call(t))
  <2>1. /\ Call(c, t, "RemoveVerifiedHosts") \in Task
        /\ Call(c, t, "RemoveVerifiedHosts").kind = "RemoveVerifiedHosts"
    BY <1>2, <1>5, CallType DEF IInv, TypeOK, Kind
  <2>2. call(t) \in Task /\ call(t).kind = "RemoveVerifiedHosts"
    BY <1>2, <2>1 DEF Task
  <2> HIDE DEF call
  <2> QED BY <2>2, OtherFits
<1> HIDE DEF d, call
<1>6. \A e \in tasks' : Fits(e)
  BY <1>3, <1>4, <1>5, ReturnFits, OldFits
<1> QED BY <1>1, <1>6, TasksFit DEF Kept, IInv, TypeOK, RemoveVerifiedHosts

LEMMA ForwardedHostsStep ==
  ASSUME IInv, NEW c \in tasks, ForwardedHosts(c)
  PROVE  Kept
<1> DEFINE left == [x \in Slot |-> memory[c.at].verified[x] \ c.hosts]
           d == [c EXCEPT !.changed = TRUE, !.answer = NoAnswer]
<1>1. /\ c \in Task /\ c.at \in Server /\ c.kind # "RequestKey"
      /\ memory \in [Server -> Database] /\ memory[c.at] \in Database
  BY DEF ForwardedHosts, IInv, TypeOK, Task, RequestsHaveKeys, RequestTask
<1>2. left \in [Slot -> SUBSET Server]
  BY <1>1 DEF Database
<1>3. UNCHANGED memory \/ memory' = [memory EXCEPT ![c.at].verified = left]
  BY DEF ForwardedHosts
<1>4. memory' \in [Server -> Database] /\ KeysStay /\ DiskStep
  <2> HIDE DEF left
  <2>1. DiskStep
    BY DEF DiskStep, ForwardedHosts
  <2>2. CASE UNCHANGED memory
    BY <1>1, <2>1, <2>2 DEF KeysStay
  <2>3. CASE memory' = [memory EXCEPT ![c.at].verified = left]
    <3>1. memory'[c.at] = [memory[c.at] EXCEPT !.verified = left]
      BY <1>1, <2>3
    <3>2. memory'[c.at] \in Database /\ memory'[c.at].key = memory[c.at].key
      BY <1>1, <1>2, <3>1 DEF Database
    <3>3. memory' = [memory EXCEPT ![c.at] = memory'[c.at]]
      BY <1>1, <2>3
    <3> QED BY <1>1, <2>1, <3>2, <3>3, ServerKeepsKeys
  <2> QED BY <1>3, <2>2, <2>3
<1>5. Fits(ToWrite(d))
  <2>1. d \in Task /\ d.kind = c.kind
    BY <1>1, DatabaseType DEF Task
  <2> HIDE DEF d
  <2>2. ToWrite(d) \in Task /\ ToWrite(d).kind = c.kind
    BY <2>1, ToWriteType
  <2> QED BY <1>1, <2>2, OtherFits
<1>6. \A e \in tasks' : Fits(e)
  <2>1. \/ tasks' = Return(c, "failed") \/ tasks' = Return(c, "refused")
        \/ tasks' = Replace(c, ToWrite(d))
    BY DEF ForwardedHosts
  <2> HIDE DEF d
  <2> QED BY <1>5, <2>1, ReturnFits, OldFits DEF Replace
<1> QED BY <1>4, <1>6, TasksFit DEF Kept, IInv, TypeOK, ForwardedHosts

-----------------------------------------------------------------------------
(* The operator, and the synchronisation. *)

LEMMA StartPreCreateKeysStep ==
  ASSUME IInv, NEW s \in Server, StartPreCreateKeys(s)
  PROVE  Kept
<1> DEFINE lacking == MaxPool - Cardinality(memory[s].available)
           new == NewKeys(lacking)
           root == Root(s, "PreCreateKeys", "called")
<1>1. new \in SUBSET Key
  <2>1. \E some \in SUBSET (Key \ generated) : Cardinality(some) = lacking
    BY DEF StartPreCreateKeys
  <2> HIDE DEF lacking
  <2>2. new \in SUBSET (Key \ generated)
    BY <2>1 DEF NewKeys
  <2> QED BY <2>2
<1>2. root \in Task /\ root.kind = "PreCreateKeys"
  BY RootType DEF Kind, Step
<1>3. /\ memory' = [memory EXCEPT ![s].available = @ \cup new]
      /\ generated' = generated \cup new
      /\ tasks' = tasks \cup {ToForwardPool([root EXCEPT !.pool = new, !.changed = TRUE])}
  BY DEF StartPreCreateKeys
<1> HIDE DEF new, root
<1>4. memory' \in [Server -> Database] /\ KeysStay /\ DiskStep
  <2>1. memory[s].available \cup new \in SUBSET Key
    BY <1>1 DEF IInv, TypeOK, Database
  <2>2. memory' = [memory EXCEPT ![s].available = memory[s].available \cup new]
    BY <1>3
  <2> QED BY <2>1, <2>2, PoolStep DEF StartPreCreateKeys
<1>5. Fits(ToForwardPool([root EXCEPT !.pool = new, !.changed = TRUE]))
  BY <1>1, <1>2, ForwardFits
<1>6. \A e \in tasks' : Fits(e)
  BY <1>3, <1>5, OldFits
<1> QED BY <1>1, <1>3, <1>4, <1>6, TasksFit DEF Kept, IInv, TypeOK, StartPreCreateKeys, Start

LEMMA StartRemovePreCreatedKeysStep ==
  ASSUME IInv, NEW s \in Server, StartRemovePreCreatedKeys(s)
  PROVE  Kept
<1> DEFINE root == Root(s, "RemovePreCreatedKeys", "called")
<1>1. memory[s].available \in SUBSET Key /\ {} \in SUBSET Key
  BY DEF IInv, TypeOK, Database
<1>2. root \in Task /\ root.kind = "RemovePreCreatedKeys"
  BY RootType DEF Kind, Step
<1>3. memory' \in [Server -> Database] /\ KeysStay /\ DiskStep
  BY <1>1, PoolStep DEF StartRemovePreCreatedKeys
<1>4. tasks' = tasks \cup
        {ToForwardPool([root EXCEPT !.pool = memory[s].available, !.changed = TRUE])}
  BY DEF StartRemovePreCreatedKeys
<1> HIDE DEF root
<1>5. Fits(ToForwardPool([root EXCEPT !.pool = memory[s].available, !.changed = TRUE]))
  BY <1>1, <1>2, ForwardFits
<1>6. \A e \in tasks' : Fits(e)
  BY <1>4, <1>5, OldFits
<1> QED BY <1>3, <1>6, TasksFit DEF Kept, IInv, TypeOK, StartRemovePreCreatedKeys, Start

LEMMA StartRemoveVerifiedHostsStep ==
  ASSUME IInv, NEW s \in Server, StartRemoveVerifiedHosts(s)
  PROVE  Kept
<1> DEFINE root == Root(s, "RemoveVerifiedHosts", "called")
<1>1. KeysStay /\ DiskStep
  BY UnchangedMemory DEF StartRemoveVerifiedHosts
<1>2. root \in Task /\ root.kind = "RemoveVerifiedHosts"
  BY RootType DEF Kind, Step
<1>3. PICK t \in Server : tasks' = tasks \cup {[root EXCEPT !.hosts = {t}]}
  BY DEF StartRemoveVerifiedHosts
<1> HIDE DEF root
<1>4. [root EXCEPT !.hosts = {t}] \in Task /\ [root EXCEPT !.hosts = {t}].kind # "RequestKey"
  BY <1>2 DEF Task
<1>5. Fits([root EXCEPT !.hosts = {t}])
  BY <1>4, OtherFits
<1>6. \A e \in tasks' : Fits(e)
  BY <1>3, <1>5, OldFits
<1> QED BY <1>1, <1>6, TasksFit DEF Kept, IInv, TypeOK, StartRemoveVerifiedHosts, Start

LEMMA CopyKeyStep ==
  ASSUME IInv, NEW s \in Server, CopyKey(s)
  PROVE  Kept
<1> DEFINE root == Root(s, "CreateNewKeys", "called")
<1>1. KeysStay /\ DiskStep
  BY UnchangedMemory DEF CopyKey
<1>2. root \in Task /\ root.kind = "CreateNewKeys"
  BY RootType DEF Kind, Step
<1>3. PICK x \in Slot, y \in Slot :
        tasks' = tasks \cup {[root EXCEPT !.create[y] = memory[s].key[x]]}
  BY DEF CopyKey
<1>4. memory[s].key[x] \in Entry
  BY DEF IInv, TypeOK, Database
<1> DEFINE d == [root EXCEPT !.create[y] = memory[s].key[x]]
<1> HIDE DEF root
<1>5. d \in Task /\ d.kind # "RequestKey"
  BY <1>2, <1>4 DEF Task
<1> HIDE DEF d
<1>6. Fits(d)
  BY <1>5, OtherFits
<1>7. \A e \in tasks' : Fits(e)
  BY <1>3, <1>6, OldFits DEF d
<1> QED BY <1>1, <1>7, TasksFit DEF Kept, IInv, TypeOK, CopyKey, Start

LEMMA ForceWriteDatabaseStep ==
  ASSUME IInv, NEW s \in Server, ForceWriteDatabase(s)
  PROVE  Kept
<1>1. KeysStay
  BY DEF KeysStay, ForceWriteDatabase
<1>2. disk' \in [Server -> Database] /\ DiskStep
  BY DEF DiskStep, ForceWriteDatabase, IInv, TypeOK
<1>3. \A e \in tasks' : Fits(e)
  BY OldFits DEF ForceWriteDatabase
<1> QED BY <1>1, <1>2, <1>3, TasksFit DEF Kept, IInv, TypeOK, ForceWriteDatabase, Start

LEMMA ConnectStep ==
  ASSUME IInv, NEW s \in Server, NEW t \in Server, Connect(s, t)
  PROVE  Kept
<1> DEFINE id == <<<<"Sync", s, faults, NoSlot>>, <<"Sync", t, faults, NoSlot>>>>
           new == NewTask(id, s, t, "Sync", "read")
<1>1. KeysStay /\ DiskStep
  BY UnchangedMemory DEF Connect
<1>2. id \in Seq(CallID)
  BY DEF IInv, TypeOK, CallID, Kind
<1>3. tasks' = tasks \cup {new}
  BY DEF Connect
<1> HIDE DEF id
<1>4. new \in Task /\ new.kind = "Sync"
  <2>1. new \in Task
    BY <1>2, NewTaskType DEF Kind, Step
  <2> QED BY <2>1 DEF NewTask
<1> HIDE DEF new
<1>5. \A e \in tasks' : Fits(e)
  BY <1>3, <1>4, OtherFits, OldFits
<1>6. others' \in [Server -> SUBSET Server]
  BY DEF Connect, IInv, TypeOK
<1>7. /\ UNCHANGED <<memory, disk, trying, generated, given, faults>>
      /\ operations' = operations + 1
  BY DEF Connect, Start
<1> QED BY <1>1, <1>5, <1>6, <1>7, TasksFit DEF Kept, IInv, TypeOK

LEMMA ReadDatabaseStep ==
  ASSUME IInv, NEW c \in tasks, ReadDatabase(c)
  PROVE  Kept
<1> DEFINE d == [c EXCEPT !.read = memory[c.by], !.step = "merge"]
<1>1. KeysStay /\ DiskStep
  BY UnchangedMemory DEF ReadDatabase
<1>2. c \in Task /\ c.kind # "RequestKey" /\ memory[c.by] \in Database
  BY DEF ReadDatabase, IInv, TypeOK, Task, RequestsHaveKeys, RequestTask
<1>3. d \in Task /\ d.kind # "RequestKey"
  BY <1>2 DEF Task, Step
<1>4. tasks' = Replace(c, d)
  BY DEF ReadDatabase
<1> HIDE DEF d
<1>5. \A e \in tasks' : Fits(e)
  BY <1>3, <1>4, OtherFits, OldFits DEF Replace
<1> QED BY <1>1, <1>5, TasksFit DEF Kept, IInv, TypeOK, ReadDatabase

LEMMA MergeKeyStep ==
  ASSUME IInv, NEW c \in tasks, MergeKey(c)
  PROVE  Kept
<1>1. /\ c \in Task /\ c.at \in Server /\ c.kind # "RequestKey" /\ c.read \in Database
      /\ memory \in [Server -> Database] /\ memory[c.at] \in Database
  BY DEF MergeKey, IInv, TypeOK, Task, RequestsHaveKeys, RequestTask
<1> DEFINE theirs(x) == c.read.key[x]
           mine(x) == memory[c.at].key[x]
           verified(x) == c.read.verified[x] \cup {c.at}
           fresh(x) == CASE mine(x) = Absent -> verified(x)
                         [] mine(x) = theirs(x) -> verified(x) \ memory[c.at].verified[x]
                         [] OTHER -> {}
           d(x) == [c EXCEPT !.read.key[x] = Absent,
                             !.news[x] = @ \cup fresh(x),
                             !.changed = @ \/ fresh(x) # {},
                             !.create[x] = IF mine(x) = Absent THEN theirs(x) ELSE @]
<1>2. PICK x \in Slot :
        /\ memory' = [memory EXCEPT
             ![c.at].key[x] = IF mine(x) = Absent THEN theirs(x) ELSE @,
             ![c.at].verified[x] = @ \cup fresh(x)]
        /\ tasks' = Replace(c, d(x))
  BY DEF MergeKey
<1>3. fresh(x) \in SUBSET Server /\ theirs(x) \in Entry /\ mine(x) \in Entry
  BY <1>1 DEF Database
<1> HIDE DEF fresh
<1>4. memory'[c.at] = [memory[c.at] EXCEPT
        !.key[x] = IF mine(x) = Absent THEN theirs(x) ELSE @,
        !.verified[x] = @ \cup fresh(x)]
  BY <1>1, <1>2
<1>5. memory'[c.at] \in Database
  <2>1. [memory[c.at].key EXCEPT ![x] = IF mine(x) = Absent THEN theirs(x) ELSE @]
          \in [Slot -> Entry]
    BY <1>1, <1>3 DEF Database
  <2>2. [memory[c.at].verified EXCEPT ![x] = @ \cup fresh(x)] \in [Slot -> SUBSET Server]
    BY <1>1, <1>3 DEF Database
  <2> QED BY <1>1, <1>4, <2>1, <2>2 DEF Database
<1>6. \A y \in Slot : memory[c.at].key[y] # Absent =>
                        memory'[c.at].key[y] = memory[c.at].key[y]
  BY <1>1, <1>4 DEF Database
<1>7. memory' = [memory EXCEPT ![c.at] = memory'[c.at]]
  BY <1>1, <1>2
<1>8. memory' \in [Server -> Database] /\ KeysStay /\ DiskStep
  BY <1>1, <1>5, <1>6, <1>7, ServerKeepsKeys DEF DiskStep, MergeKey
<1>9. d(x) \in Task /\ d(x).kind = c.kind
  <2> DEFINE read == [c.read EXCEPT !.key[x] = Absent]
             news == [c.news EXCEPT ![x] = @ \cup fresh(x)]
             create == [c.create EXCEPT ![x] = IF mine(x) = Absent THEN theirs(x) ELSE @]
             changed == c.changed \/ fresh(x) # {}
  <2>1. read \in Database
    <3>1. [c.read.key EXCEPT ![x] = Absent] \in [Slot -> Entry]
      BY <1>1 DEF Database, Entry
    <3> QED BY <1>1, <3>1 DEF Database
  <2>2. news \in [Slot -> SUBSET Server]
    BY <1>1, <1>3 DEF Task
  <2>3. create \in [Slot -> Entry]
    BY <1>1, <1>3 DEF Task
  <2>4. changed \in BOOLEAN
    OBVIOUS
  <2>5. d(x) = [c EXCEPT !.read = read, !.news = news, !.changed = changed, !.create = create]
    BY <1>1 DEF Task
  <2> HIDE DEF read, news, create, changed, d
  <2> QED BY <1>1, <2>1, <2>2, <2>3, <2>4, <2>5 DEF Task
<1> HIDE DEF d
<1>10. \A e \in tasks' : Fits(e)
  BY <1>1, <1>2, <1>9, OtherFits, OldFits DEF Replace
<1> QED BY <1>8, <1>10, TasksFit DEF Kept, IInv, TypeOK, MergeKey

LEMMA CollectUsedKeysStep ==
  ASSUME IInv, NEW c \in tasks, CollectUsedKeys(c)
  PROVE  Kept
<1> DEFINE d == [c EXCEPT !.read.key = memory[c.at].key, !.step = "pool"]
<1>1. KeysStay /\ DiskStep
  BY UnchangedMemory DEF CollectUsedKeys
<1>2. /\ c \in Task /\ c.kind # "RequestKey" /\ c.read \in Database
      /\ memory[c.at] \in Database
  BY DEF CollectUsedKeys, IInv, TypeOK, Task, RequestsHaveKeys, RequestTask
<1>3. [c.read EXCEPT !.key = memory[c.at].key] \in Database
  BY <1>2 DEF Database
<1>4. d \in Task /\ d.kind # "RequestKey"
  BY <1>2, <1>3 DEF Task, Step
<1>5. tasks' = Replace(c, d)
  BY DEF CollectUsedKeys
<1> HIDE DEF d
<1>6. \A e \in tasks' : Fits(e)
  BY <1>4, <1>5, OtherFits, OldFits DEF Replace
<1> QED BY <1>1, <1>6, TasksFit DEF Kept, IInv, TypeOK, CollectUsedKeys

LEMMA MergePoolStep ==
  ASSUME IInv, NEW c \in tasks, MergePool(c)
  PROVE  Kept
<1> DEFINE mine == memory[c.at].available
           theirs == c.read.available
           UsedFor(k) == {x \in Slot : c.read.key[x] = k}
           unused == {k \in mine \cup theirs : UsedFor(k) = {}}
           remind == [x \in Slot |->
             IF c.read.key[x] \in mine \cup theirs /\ \A y \in UsedFor(c.read.key[x]) : y <= x
               THEN c.read.key[x] ELSE c.create[x]]
           pool == IF theirs = {} THEN {} ELSE mine \ theirs
           changed == c.changed \/ unused # mine
           d == [c EXCEPT !.read = EmptyDatabase, !.pool = pool, !.create = remind,
                          !.changed = changed]
<1>1. /\ c \in Task /\ c.at \in Server /\ c.kind # "RequestKey" /\ c.read \in Database
      /\ c.create \in [Slot -> Entry]
      /\ memory \in [Server -> Database] /\ memory[c.at] \in Database
  BY DEF MergePool, IInv, TypeOK, Task, RequestsHaveKeys, RequestTask
<1>2. mine \in SUBSET Key /\ theirs \in SUBSET Key
  BY <1>1 DEF Database
<1>3. unused \in SUBSET Key /\ pool \in SUBSET Key
  BY <1>2
<1>4. remind \in [Slot -> Entry]
  <2> DEFINE reminded(x) == c.read.key[x] \in mine \cup theirs /\
                              \A y \in UsedFor(c.read.key[x]) : y <= x
  <2>1. c.read.key \in [Slot -> Entry]
    BY <1>1 DEF Database
  <2>2. remind = [x \in Slot |-> IF reminded(x) THEN c.read.key[x] ELSE c.create[x]]
    OBVIOUS
  <2> HIDE DEF reminded, remind
  <2> QED BY <1>1, <2>1, <2>2
<1>5. changed \in BOOLEAN
  OBVIOUS
<1>6. memory' = [memory EXCEPT ![c.at].available = unused] /\ tasks' = Replace(c, ToForwardPool(d))
  BY DEF MergePool
<1> HIDE DEF unused, remind, pool, changed
<1>7. memory' \in [Server -> Database] /\ KeysStay /\ DiskStep
  BY <1>1, <1>3, <1>6, PoolStep DEF MergePool
<1>8. d \in Task /\ d.kind = c.kind
  BY <1>1, <1>3, <1>4, <1>5, DatabaseType DEF Task
<1> HIDE DEF d
<1>9. Fits(ToForwardPool(d))
  <2>1. ToForwardPool(d) \in Task /\ ToForwardPool(d).kind = c.kind
    BY <1>8, ToForwardPoolType DEF IInv, TypeOK
  <2> QED BY <1>1, <2>1, OtherFits
<1>10. \A e \in tasks' : Fits(e)
  BY <1>6, <1>9, OldFits DEF Replace
<1> QED BY <1>7, <1>10, TasksFit DEF Kept, IInv, TypeOK, MergePool

-----------------------------------------------------------------------------
(* Faults. *)

LEMMA DisconnectStep ==
  ASSUME IInv, NEW s \in Server, NEW t \in Server, Disconnect(s, t)
  PROVE  Kept
<1>1. KeysStay /\ DiskStep
  BY UnchangedMemory DEF Disconnect
<1>2. ASSUME NEW c \in tasks
      PROVE  Fits([c EXCEPT !.wanted = @ /\ ~Between(c, s, t),
                            !.answer = [h \in Server |->
                               IF @[h] = "waiting" /\ {c.at, h} = {s, t}
                                 THEN "failed" ELSE @[h]]])
  <2> DEFINE answer == [h \in Server |-> IF c.answer[h] = "waiting" /\ {c.at, h} = {s, t}
                                           THEN "failed" ELSE c.answer[h]]
             wanted == c.wanted /\ ~Between(c, s, t)
             d == [c EXCEPT !.wanted = wanted, !.answer = answer]
  <2>1. c \in Task
    BY DEF IInv, TypeOK
  <2>2. answer \in [Server -> Answer] /\ wanted \in BOOLEAN
    BY <2>1 DEF Task, Answer
  <2>3. d = [c EXCEPT !.wanted = @ /\ ~Between(c, s, t),
                      !.answer = [h \in Server |->
                         IF @[h] = "waiting" /\ {c.at, h} = {s, t} THEN "failed" ELSE @[h]]]
    BY <2>1 DEF Task
  <2> HIDE DEF answer, wanted
  <2>4. d \in Task /\ Same(c, d)
    BY <2>1, <2>2 DEF Task, Same
  <2> HIDE DEF d
  <2>5. Fits(d)
    BY <2>4 DEF Fits
  <2> QED BY <2>3, <2>5
<1>3. \A e \in tasks' : Fits(e)
  BY <1>2 DEF Disconnect, CutOff
<1>4. trying' \in [Server -> [Key -> Server \cup {Nobody}]]
  <2>1. trying \in [Server -> [Key -> Server \cup {Nobody}]]
    BY DEF IInv, TypeOK
  <2>2. /\ Forget(s, t) \in [Key -> Server \cup {Nobody}]
        /\ Forget(t, s) \in [Key -> Server \cup {Nobody}]
    BY <2>1 DEF Forget
  <2> QED BY <2>1, <2>2 DEF Disconnect
<1>5. others' \in [Server -> SUBSET Server] /\ faults' \in Nat
  BY DEF Disconnect, IInv, TypeOK
<1> QED BY <1>1, <1>3, <1>4, <1>5, TasksFit DEF Kept, IInv, TypeOK, Disconnect

(* A restart alone forgets keys: those that were not written.  The requests *)
(* of the server are gone, and no other server has been changed.            *)
LEMMA RestartStep ==
  ASSUME IInv, NEW s \in Server, Restart(s)
  PROVE  IInv' /\ UNCHANGED disk
<1> DEFINE hosts == [x \in Slot |-> IF disk[s].key[x] = Absent
                                      THEN {} ELSE disk[s].verified[x] \cup {s}]
           survivor(c) == [c EXCEPT !.wanted = @ /\ c.by # s,
                                    !.answer[s] = IF @ = "waiting" THEN "failed" ELSE @]
<1>1. /\ memory \in [Server -> Database] /\ disk \in [Server -> Database]
      /\ disk[s] \in Database
  BY DEF IInv, TypeOK
<1>2. memory' = [memory EXCEPT ![s] = [disk[s] EXCEPT !.verified = hosts]] /\ disk' = disk
  BY DEF Restart
<1>3. [disk[s] EXCEPT !.verified = hosts] \in Database
  <2>1. hosts \in [Slot -> SUBSET Server]
    BY <1>1 DEF Database
  <2> HIDE DEF hosts
  <2> QED BY <1>1, <2>1 DEF Database
<1>4. memory' \in [Server -> Database] /\ \A t \in Server : t # s => memory'[t] = memory[t]
  <2> HIDE DEF hosts
  <2> QED BY <1>1, <1>2, <1>3
<1>5. memory'[s].key = disk[s].key
  BY <1>1, <1>2 DEF Database
<1>6. ASSUME NEW c \in tasks, c.at # s
      PROVE  survivor(c) \in Task /\ RequestTask(memory', survivor(c))
  <2> DEFINE answer == [c.answer EXCEPT ![s] = IF @ = "waiting" THEN "failed" ELSE @]
             wanted == c.wanted /\ c.by # s
             d == [c EXCEPT !.wanted = wanted, !.answer = answer]
  <2>1. c \in Task /\ c.at \in Server /\ RequestTask(memory, c)
    BY DEF IInv, TypeOK, Task, RequestsHaveKeys
  <2>2. answer \in [Server -> Answer] /\ wanted \in BOOLEAN
    BY <2>1 DEF Task, Answer
  <2>3. d = survivor(c)
    BY <2>1 DEF Task
  <2> HIDE DEF answer, wanted, survivor
  <2>4. d \in Task /\ Same(c, d)
    BY <2>1, <2>2 DEF Task, Same
  <2> HIDE DEF d
  <2>5. RequestTask(memory', d)
    BY <1>4, <1>6, <2>1, <2>4 DEF RequestTask, Same
  <2> QED BY <2>3, <2>4, <2>5
<1>7. \A e \in tasks' : \E c \in tasks : c.at # s /\ e = survivor(c)
  BY DEF Restart
<1> HIDE DEF survivor
<1>8. tasks' \subseteq Task /\ RequestsHaveKeys'
  BY <1>6, <1>7 DEF RequestsHaveKeys
<1>9. trying' \in [Server -> [Key -> Server \cup {Nobody}]]
  <2>1. trying \in [Server -> [Key -> Server \cup {Nobody}]]
    BY DEF IInv, TypeOK
  <2>2. \A t \in Server : Forget(t, s) \in [Key -> Server \cup {Nobody}]
    BY <2>1 DEF Forget
  <2>3. trying' = [t \in Server |-> IF t = s THEN [k \in Key |-> Nobody] ELSE Forget(t, s)]
    BY DEF Restart
  <2> QED BY <2>2, <2>3
<1>10. others' \in [Server -> SUBSET Server] /\ faults' \in Nat
  <2>1. /\ others' = [t \in Server |-> IF t = s THEN {} ELSE others[t] \ {s}]
        /\ faults' = faults + 1
    BY DEF Restart
  <2>2. others \in [Server -> SUBSET Server] /\ faults \in Nat
    BY DEF IInv, TypeOK
  <2> QED BY <2>1, <2>2
<1>11. UNCHANGED <<generated, given, operations>>
  BY DEF Restart
<1>12. TypeOK'
  BY <1>1, <1>2, <1>4, <1>8, <1>9, <1>10, <1>11 DEF IInv, TypeOK
<1>13. DiskIsMemory'
  BY <1>2, <1>4, <1>5 DEF IInv, DiskIsMemory
<1> QED BY <1>2, <1>8, <1>12, <1>13 DEF IInv

-----------------------------------------------------------------------------
LEMMA KeptInvariant ==
  ASSUME IInv, Kept
  PROVE  IInv'
<1>1. ASSUME NEW s \in Server, NEW x \in Slot
      PROVE  disk'[s].key[x] \in {Absent, memory'[s].key[x]}
  <2>1. disk'[s] = disk[s] \/ disk'[s] = memory[s]
    BY DEF Kept, DiskStep
  <2>2. disk[s].key[x] \in {Absent, memory[s].key[x]}
    BY DEF IInv, DiskIsMemory
  <2>3. memory[s].key[x] # Absent => memory'[s].key[x] = memory[s].key[x]
    BY DEF Kept, KeysStay
  <2> QED BY <2>1, <2>2, <2>3
<1> QED BY <1>1 DEF IInv, DiskIsMemory, Kept

LEMMA StepKept ==
  ASSUME IInv, [Next]_vars
  PROVE  Kept \/ (IInv' /\ UNCHANGED disk)
<1>1. ASSUME NEW c \in tasks, ServerStep(c)
      PROVE  Kept
  BY <1>1, ForwardPoolStep, ForwardCreateNewKeysStep, WriteStep, FinishStep,
     TryUseAvailableKeyStep, UsedAvailableKeyStep, CreateKeyStep,
     CreateNewKeysStep, KeysVerifiedOnServersStep, UseAvailableKeyStep,
     ReleaseKeyStep, PreCreateKeysStep, RemovePreCreatedKeysStep,
     RemoveVerifiedHostsStep, ForwardedHostsStep, ReadDatabaseStep,
     MergeKeyStep, CollectUsedKeysStep, MergePoolStep DEF ServerStep
<1>2. ASSUME NEW s \in Server, Operation(s)
      PROVE  Kept
  BY <1>2, RequestKeyStep, StartPreCreateKeysStep, StartRemovePreCreatedKeysStep,
     StartRemoveVerifiedHostsStep, CopyKeyStep, ForceWriteDatabaseStep DEF Operation
<1>3. CASE \E s, t \in Server : Connect(s, t)
  BY <1>3, ConnectStep
<1>4. CASE Fault
  BY <1>4, FailWriteStep, DisconnectStep, RestartStep DEF Fault
<1>5. CASE UNCHANGED vars
  BY <1>5 DEF vars, IInv, TypeOK, RequestsHaveKeys, RequestTask, DiskIsMemory
<1> QED BY <1>1, <1>2, <1>3, <1>4, <1>5 DEF Next

LEMMA Invariant ==
  Spec => []IInv
<1>1. Init => IInv
  <2> SUFFICES ASSUME Init
               PROVE  IInv
    OBVIOUS
  <2>1. memory \in [Server -> Database] /\ disk \in [Server -> Database]
    BY DatabaseType DEF Init
  <2>2. TypeOK
    BY <2>1 DEF Init, TypeOK
  <2>3. RequestsHaveKeys /\ DiskIsMemory
    BY DEF Init, RequestsHaveKeys, DiskIsMemory
  <2> QED BY <2>2, <2>3 DEF IInv
<1>2. IInv /\ [Next]_vars => IInv'
  BY StepKept, KeptInvariant
<1> QED BY <1>1, <1>2, PTL DEF Spec

(* Every state of the key managers is well typed; in particular, what a     *)
(* client is given is a key (f_RequestKey).                                 *)
THEOREM TypeCorrect ==
  Spec => []TypeOK
<1>1. IInv => TypeOK
  BY DEF IInv
<1> QED BY <1>1, Invariant, PTL

(* Once it is written to its database a server never has another key for an *)
(* identifier, however many key managers create, forward, read and crash.   *)
THEOREM DatabaseIsAppendOnly ==
  Spec => WrittenKeysStay
<1>1. ASSUME IInv, [Next]_vars
      PROVE  [\A s \in Server, x \in Slot :
                disk[s].key[x] # Absent => disk'[s].key[x] = disk[s].key[x]]_vars
  <2>1. ASSUME DiskStep, NEW s \in Server, NEW x \in Slot, disk[s].key[x] # Absent
        PROVE  disk'[s].key[x] = disk[s].key[x]
    <3>1. disk'[s] = disk[s] \/ disk'[s] = memory[s]
      BY <2>1 DEF DiskStep
    <3>2. disk[s].key[x] \in {Absent, memory[s].key[x]}
      BY <1>1 DEF IInv, DiskIsMemory
    <3> QED BY <2>1, <3>1, <3>2
  <2>2. CASE UNCHANGED disk
    BY <2>2
  <2>3. CASE Kept
    BY <2>1, <2>3 DEF Kept
  <2> QED BY <1>1, <2>2, <2>3, StepKept
<1> QED BY <1>1, Invariant, PTL DEF Spec, WrittenKeysStay
=============================================================================
