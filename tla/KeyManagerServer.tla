-------------------------- MODULE KeyManagerServer --------------------------
(***************************************************************************)
(* The key managers.  A client asks any of them for the key of one of its  *)
(* identifiers; the key is made on the first request and forwarded to the  *)
(* other key managers, which all keep it.  Keys can be created in advance  *)
(* (a pool shared by the servers), and a key manager that finds another    *)
(* one reads its database.                                                 *)
(*                                                                         *)
(* Every server is one actor.  A coroutine of it, be it of a client's      *)
(* request, of a call from another server or of a synchronisation, is a    *)
(* task; a step of a task is what runs between two suspensions.            *)
(***************************************************************************)
EXTENDS Naturals, Sequences, FiniteSets

CONSTANTS
  Server,         \* host IDs of the key managers, numbered in their order
  Slot,           \* client host and key identifier (CHostKeyID), in their order
  Key,            \* key contents, all of one size
  Absent,         \* there is no entry for a slot
  Empty,          \* an entry without a key: a CClientKey as constructed
  Asks,           \* the servers that the client of a slot asks for its key
  MinServers,     \* m_CreateNewKeyMinServers
  MaxPool,        \* bound: keys the operator asks to have in advance
  Operations,     \* <<operation, server>>: what may be started, and where
  MaxOperations,  \* bound: operations started
  MaxFaults       \* bound: restarts, broken connections, failed writes

ASSUME ConstantsAssumption ==
  /\ Server \subseteq Nat \ {0} /\ Slot \subseteq Nat \ {0}
  /\ IsFiniteSet(Server)
  /\ Absent \notin Key /\ Empty \notin Key /\ Absent # Empty
  /\ Asks \in [Slot -> SUBSET Server]
  /\ Operations \subseteq STRING \X Server
  /\ MinServers \in Nat /\ MaxPool \in Nat
  /\ MaxOperations \in Nat /\ MaxFaults \in Nat

Nobody == 0
NoSlot == 0
Entry == Key \cup {Absent, Empty}

(* ICKeyManagerServerDatabase::CDatabase, with the entries of m_Clients in  *)
(* key and verified, and m_AvailableKeys.                                   *)
Database == [key: [Slot -> Entry],
             verified: [Slot -> SUBSET Server],
             available: SUBSET Key]

NoKeys == [x \in Slot |-> Absent]
NoHosts == [x \in Slot |-> {}]
EmptyDatabase == [key |-> NoKeys, verified |-> NoHosts, available |-> {}]

(* What a task waits for from each server. *)
Answer == {"none", "waiting", "ok", "refused", "failed"}
NoAnswer == [s \in Server |-> "none"]

Kind == {"RequestKey", "CreateNewKeys", "KeysVerifiedOnServers",
         "UseAvailableKey", "ReleaseKey", "PreCreateKeys",
         "RemovePreCreatedKeys", "RemoveVerifiedHosts", "Sync"}

Step == {"called", "try", "using", "create", "read", "merge", "pool",
         "forwardPool", "forwardKeys", "forwardHosts", "write", "report"}

(* One of the calls that led to a task: what is called, where, a number     *)
(* that tells calls apart, and the key that is tried.                       *)
CallID == Kind \X Server \X Nat \X (Key \cup {Absent, NoSlot})

Task == [id: Seq(CallID),
         wanted: BOOLEAN,     \* whether the caller can still be answered
         at: Server,          \* where it runs
         by: Server,          \* who called; the other server of a Sync
         kind: Kind,
         step: Step,          \* where it is suspended
         slot: Slot \cup {NoSlot},    \* RequestKey: what is asked for
         try: Key \cup {Absent},      \* the pre-created key to use
         tried: SUBSET Key,           \* TriedAvailableKeys
         pool: SUBSET Key,            \* pre-created keys to forward
         create: [Slot -> Entry],     \* keys to forward
         news: [Slot -> SUBSET Server],  \* ForwardVerified, ReportVerified
         hosts: SUBSET Server,        \* RemoveVerifiedHosts: _HostIDs
         checked: SUBSET Server,      \* and _CheckedServers
         todo: SUBSET Server,         \* servers still to forward to
         answer: [Server -> Answer],
         changed: BOOLEAN,            \* bDatabaseChanged
         read: Database]              \* Sync: what the other one has

VARIABLES
  memory,     \* m_Database
  disk,       \* what m_DatabaseActor has written
  trying,     \* m_TryingToUseAvailableKeys
  others,     \* m_OtherKeyManagers
  tasks,      \* the coroutines, and the calls on their way
  generated,  \* keys that have been generated
  given,      \* <<server, slot, key>> answered to clients
  operations, \* operations started
  faults      \* faults so far

vars == <<memory, disk, trying, others, tasks, generated, given, operations, faults>>

Init ==
  /\ memory = [s \in Server |-> EmptyDatabase]
  /\ disk = memory
  /\ trying = [s \in Server |-> [k \in Key |-> Nobody]]
  /\ others = [s \in Server |-> Server \ {s}]
  /\ tasks = {}
  /\ generated = {}
  /\ given = {}
  /\ operations = 0
  /\ faults = 0

-----------------------------------------------------------------------------
(* Tasks and the calls between them. *)

NewTask(id, at, by, kind, step) ==
  [id |-> id, wanted |-> TRUE, at |-> at, by |-> by, kind |-> kind, step |-> step,
   slot |-> NoSlot, try |-> Absent, tried |-> {}, pool |-> {},
   create |-> NoKeys, news |-> NoHosts, hosts |-> {}, checked |-> {},
   todo |-> {}, answer |-> NoAnswer, changed |-> FALSE, read |-> EmptyDatabase]

Replace(c, d) == (tasks \ {c}) \cup {d}

Waits(c) == \E t \in Server : c.answer[t] = "waiting"
Failed(c) == \E t \in Server : c.answer[t] = "failed"
Answered(c, result) == {t \in Server : c.answer[t] = result}

(* f_CallActor: a call by task c that t has yet to handle. *)
Call(c, t, kind) ==
  NewTask(Append(c.id, <<kind, t, faults, c.try>>), t, c.at, kind, "called")

IsCallOf(c, p) == c.id # <<>> /\ p.id = SubSeq(c.id, 1, Len(c.id) - 1)

(* c is done, and the task that called it is given the result. *)
Return(c, result) ==
  {IF c.wanted /\ IsCallOf(c, p)
     THEN [p EXCEPT !.answer[c.at] = result] ELSE p : p \in tasks \ {c}}

(* Operations are started by clients and by the operator, and by a server   *)
(* that finds another one again.                                            *)
Start(operation, s) ==
  /\ <<operation, s>> \in Operations
  /\ operations < MaxOperations
  /\ operations' = operations + 1

Root(s, kind, step) ==
  LET unused == {n \in 0 .. MaxOperations :
                   \A c \in tasks : c.id[1] # <<kind, s, n, NoSlot>>}
      first == CHOOSE n \in 0 .. MaxOperations : n \in unused \/ unused = {}
  IN NewTask(<<<<kind, s, first, NoSlot>>>>, s, s, kind, step)

(* Mistake: what was verified while the keys were forwarded is not reported.*)
MistakeToWrite(c) ==
  [c EXCEPT !.step = IF c.changed THEN "write" ELSE "report", !.todo = {}, !.news = NoHosts]

(* The end of a coroutine is the same for all of them: forward pre-created  *)
(* keys to the others one by one, forward keys of clients one by one, write *)
(* the database, and report to all what is new.                             *)
ToWrite(c) == [c EXCEPT !.step = IF c.changed THEN "write" ELSE "report", !.todo = {}]

ToForwardKeys(c) ==
  IF c.create = NoKeys THEN ToWrite(c)
  ELSE [c EXCEPT !.step = "forwardKeys", !.todo = others[c.at]]

ToForwardPool(c) ==
  IF c.pool = {} THEN ToForwardKeys(c)
  ELSE [c EXCEPT !.step = "forwardPool", !.todo = others[c.at]]

(* Mistake: the servers are looked up again after every call. *)
MistakeNextHosts(c) == others[c.at] \ {c.by}

(* The next one to forward to: collected before the first call, and still   *)
(* connected; not the one the news came from.                               *)
NextHosts(c) == (c.todo \cap others[c.at]) \ (IF c.kind = "Sync" THEN {} ELSE {c.by})

CallNext(c, t, call) ==
  (tasks \ {c}) \cup
    {[c EXCEPT !.todo = @ \ {t}, !.answer = [NoAnswer EXCEPT ![t] = "waiting"]], call}

(* f_ForwardPreCreateKeys, f_ForwardRemovePreCreatedKeys: one step of the   *)
(* loop.  A failed call is logged and skipped.                              *)
ForwardPool(c) ==
  /\ c.step = "forwardPool" /\ ~Waits(c)
  /\ \/ \E t \in NextHosts(c) :
          tasks' = CallNext(c, t,
            [Call(c, t, IF c.kind = "Sync" THEN "PreCreateKeys" ELSE c.kind)
               EXCEPT !.pool = c.pool])
     \/ /\ NextHosts(c) = {}
        /\ tasks' = Replace(c, ToForwardKeys([c EXCEPT !.answer = NoAnswer]))
  /\ UNCHANGED <<memory, disk, trying, others, generated, given, operations, faults>>

(* f_ForwardCreateNewKeys: one step of the loop.  A server that answered    *)
(* has verified the keys; one that failed is skipped.                       *)
ForwardCreateNewKeys(c) ==
  LET verifier == Answered(c, "ok")
      fresh == [x \in Slot |->
                  IF c.create[x] = Absent THEN {} ELSE verifier \ memory[c.at].verified[x]]
      d == [c EXCEPT !.answer = NoAnswer,
                     !.news = [x \in Slot |-> @[x] \cup fresh[x]],
                     !.changed = @ \/ fresh # NoHosts]
  IN /\ c.step = "forwardKeys" /\ ~Waits(c)
     /\ memory' = [memory EXCEPT ![c.at].verified = [x \in Slot |-> @[x] \cup fresh[x]]]
     /\ \/ \E t \in NextHosts(c) :
             tasks' = (tasks \ {c}) \cup
               {[d EXCEPT !.todo = @ \ {t}, !.answer[t] = "waiting"],
                [Call(c, t, "CreateNewKeys") EXCEPT !.create = c.create]}
        \/ /\ NextHosts(c) = {}
           /\ tasks' = Replace(c, ToWrite(d))
     /\ UNCHANGED <<disk, trying, others, generated, given, operations, faults>>

(* f_WriteDatabase, and f_ForwardVerifiedHosts: the news, if any, are sent  *)
(* to all other servers at once.                                            *)
Report(c) ==
  LET called == IF c.news = NoHosts THEN {} ELSE others[c.at]
  IN IF called = {} /\ c.kind # "RequestKey" THEN Return(c, "ok")
     ELSE
     (tasks \ {c})
     \cup {[c EXCEPT !.step = "report",
              !.answer = [t \in Server |-> IF t \in called THEN "waiting" ELSE "none"]]}
     \cup {[Call(c, t, "KeysVerifiedOnServers") EXCEPT !.news = c.news] : t \in called}

Write(c) ==
  /\ c.step = "write"
  /\ disk' = [disk EXCEPT ![c.at] = memory[c.at]]
  /\ tasks' = Report(c)
  /\ UNCHANGED <<memory, trying, others, generated, given, operations, faults>>

FailWrite(c) ==
  /\ c.step = "write"
  /\ faults < MaxFaults
  /\ faults' = faults + 1
  /\ tasks' = Return(c, "failed")
  /\ UNCHANGED <<memory, disk, trying, others, generated, given, operations>>

(* The coroutine returns when everyone has answered.  The client is given   *)
(* the key that the server has by now, when enough servers have verified it.*)
Finish(c) ==
  LET key == memory[c.at].key[c.slot]
      enough == Cardinality(memory[c.at].verified[c.slot]) >= MinServers
  IN /\ c.step = "report" /\ ~Waits(c)
     /\ tasks' = Return(c, IF Failed(c) THEN "failed" ELSE "ok")
     /\ given' = IF c.kind = "RequestKey" /\ ~Failed(c) /\ enough
                   THEN given \cup {<<c.at, c.slot, key>>} ELSE given
     /\ UNCHANGED <<memory, disk, trying, others, generated, operations, faults>>

-----------------------------------------------------------------------------
(* f_RequestKey and f_TryUseAvailableKey. *)

(* A client asks s for the key of slot x.  An entry is answered as it is,   *)
(* or refused when it has no key or too few servers have verified it.       *)
RequestKey(s, x) ==
  LET known == memory[s].key[x]
      answered == known \in Key /\ Cardinality(memory[s].verified[x]) >= MinServers
  IN /\ s \in Asks[x]
     /\ Start("RequestKey", s)
     /\ tasks' = IF known # Absent THEN tasks
                 ELSE tasks \cup {[Root(s, "RequestKey", "try") EXCEPT !.slot = x]}
     /\ given' = IF answered THEN given \cup {<<s, x, known>>} ELSE given
     /\ UNCHANGED <<memory, disk, trying, others, generated, faults>>

Candidates(c) ==
  {k \in memory[c.at].available : trying[c.at][k] = Nobody} \ c.tried

(* The head of the loop: take a pre-created key that nobody tries to use    *)
(* and ask all others at once (CInternal::f_UseAvailableKey), or fail as    *)
(* there are too few of them, or go on without.                             *)
TryUseAvailableKey(c) ==
  /\ c.step = "try"
  /\ IF Candidates(c) = {}
       THEN /\ tasks' = Replace(c, [c EXCEPT !.step = "create", !.try = Absent])
            /\ UNCHANGED trying
       ELSE IF Cardinality(others[c.at]) + 1 < MinServers
       THEN /\ tasks' = Return(c, "failed")
            /\ UNCHANGED trying
       ELSE \E k \in Candidates(c) :
              LET d == [c EXCEPT !.step = "using", !.try = k, !.tried = @ \cup {k},
                          !.answer = [t \in Server |->
                            IF t \in others[c.at] THEN "waiting" ELSE "none"]]
              IN /\ trying' = [trying EXCEPT ![c.at][k] = c.at]
                 /\ tasks' = (tasks \ {c}) \cup {d} \cup
                      {[Call(d, t, "UseAvailableKey") EXCEPT !.try = k] : t \in others[c.at]}
  /\ UNCHANGED <<memory, disk, others, generated, given, operations, faults>>

(* The answers to f_UseAvailableKey, after which the key is used if it is   *)
(* still there, and the servers that agreed are told that this is over.     *)
UsedAvailableKey(c) ==
  LET k == c.try
      agreed == Answered(c, "ok")
      mine == IF trying[c.at][k] = c.at
                THEN [trying EXCEPT ![c.at][k] = Nobody] ELSE trying
      released == {[Call(c, t, "ReleaseKey") EXCEPT !.try = k, !.wanted = FALSE] : t \in agreed}
      rest == (tasks \ {c}) \cup released
  IN /\ c.step = "using" /\ ~Waits(c)
     /\ trying' = mine
     /\ \/ /\ Answered(c, "refused") # {} \/
                /\ Cardinality(agreed) + 1 >= MinServers
                /\ k \notin memory[c.at].available
           /\ tasks' = rest \cup {[c EXCEPT !.step = "try", !.answer = NoAnswer]}
           /\ UNCHANGED memory
        \/ /\ Answered(c, "refused") = {}
           /\ Cardinality(agreed) + 1 < MinServers
           /\ tasks' = Return(c, "failed") \cup released
           /\ UNCHANGED memory
        \/ /\ Answered(c, "refused") = {}
           /\ Cardinality(agreed) + 1 >= MinServers
           /\ k \in memory[c.at].available
           /\ memory' = [memory EXCEPT ![c.at].available = @ \ {k}]
           /\ tasks' = rest \cup {[c EXCEPT !.step = "create", !.answer = NoAnswer]}
     /\ UNCHANGED <<disk, others, generated, given, operations, faults>>

(* Mistake: the new key is never filled in. *)
MistakeNewKey == Empty

(* High-entropy data: a key that was never there before.  Which one it is   *)
(* makes no difference, so they are taken in an order.                      *)
NewKeys(n) == CHOOSE new \in SUBSET (Key \ generated) : Cardinality(new) = n
NewKey == CHOOSE k \in Key : k \notin generated

(* Mistake: the other servers count before they have the key. *)
MistakeStoreKey(c, k) ==
  LET x == c.slot
  IN /\ memory' = [memory EXCEPT ![c.at].key[x] = k,
                                 ![c.at].verified[x] = {c.at} \cup others[c.at]]
     /\ tasks' = Replace(c, ToForwardKeys(
          [c EXCEPT !.create[x] = k, !.news[x] = {c.at}, !.try = Absent, !.changed = TRUE]))

(* KeyStore gets the key, which is then forwarded. *)
StoreKey(c, k) ==
  LET x == c.slot
  IN /\ memory' = [memory EXCEPT ![c.at].key[x] = k, ![c.at].verified[x] = {c.at}]
     /\ tasks' = Replace(c, ToForwardKeys(
          [c EXCEPT !.create[x] = k, !.news[x] = {c.at}, !.try = Absent, !.changed = TRUE]))

GenerateKey(c) ==
  /\ Key # generated
  /\ StoreKey(c, NewKey)
  /\ generated' = generated \cup {NewKey}

(* Mistake: the key is stored whatever happened while it was suspended. *)
MistakeCreateKey(c) ==
  /\ c.step = "create"
  /\ \/ c.try # Absent /\ StoreKey(c, c.try) /\ UNCHANGED generated
     \/ c.try = Absent /\ GenerateKey(c)
  /\ UNCHANGED <<disk, trying, others, given, operations, faults>>

(* The pre-created key or a new one is stored, unless another request made  *)
(* the entry while this one was suspended; a pre-created key is lost then.  *)
CreateKey(c) ==
  LET known == memory[c.at].key[c.slot] # Absent
  IN /\ c.step = "create"
     /\ \/ /\ known
           /\ tasks' = Return(c, "failed")
           /\ UNCHANGED <<memory, generated>>
        \/ ~known /\ c.try # Absent /\ StoreKey(c, c.try) /\ UNCHANGED generated
        \/ ~known /\ c.try = Absent /\ GenerateKey(c)
     /\ UNCHANGED <<disk, trying, others, given, operations, faults>>

-----------------------------------------------------------------------------
(* What a server does when another one calls it. *)

(* Mistake: a key that has come into use stays in the pool. *)
MistakeCreateNewKeys(c) ==
  LET key == memory[c.at].key
      made == {x \in Slot : c.create[x] # Absent /\ key[x] = Absent}
      d == [c EXCEPT !.news = [x \in Slot |-> IF x \in made THEN {c.at} ELSE {}],
                     !.changed = TRUE]
  IN /\ c.kind = "CreateNewKeys" /\ c.step = "called"
     /\ memory' = [memory EXCEPT
          ![c.at].key = [x \in Slot |-> IF x \in made THEN c.create[x] ELSE @[x]],
          ![c.at].verified = [x \in Slot |-> IF x \in made THEN {c.at} ELSE @[x]]]
     /\ tasks' = IF made = {} THEN Return(c, "ok") ELSE Replace(c, ToForwardKeys(d))
     /\ UNCHANGED <<disk, trying, others, generated, given, operations, faults>>

(* Entries before the first one that conflicts are kept in memory even when *)
(* the call fails.                                                          *)
CreateNewKeys(c) ==
  LET key == memory[c.at].key
      asked == {x \in Slot : c.create[x] # Absent}
      conflict == {x \in asked : key[x] \notin {Absent, c.create[x]}}
      made == {x \in asked : key[x] = Absent /\ \A y \in conflict : x < y}
      d == [c EXCEPT !.create = [x \in Slot |-> IF x \in made THEN @[x] ELSE Absent],
                     !.news = [x \in Slot |-> IF x \in made THEN {c.at} ELSE {}],
                     !.changed = made # {}]
  IN /\ c.kind = "CreateNewKeys" /\ c.step = "called"
     /\ memory' = [memory EXCEPT
          ![c.at].key = [x \in Slot |-> IF x \in made THEN c.create[x] ELSE @[x]],
          ![c.at].verified = [x \in Slot |-> IF x \in made THEN {c.at} ELSE @[x]],
          ![c.at].available = @ \ {c.create[x] : x \in made}]
     /\ tasks' = IF conflict # {} THEN Return(c, "failed")
                 ELSE IF made = {} THEN Return(c, "ok")
                 ELSE Replace(c, ToForwardKeys(d))
     /\ UNCHANGED <<disk, trying, others, generated, given, operations, faults>>

(* An entry that is not there is made, without a key. *)
KeysVerifiedOnServers(c) ==
  LET known == memory[c.at].verified
      fresh == [x \in Slot |-> c.news[x] \ known[x]]
  IN /\ c.kind = "KeysVerifiedOnServers" /\ c.step = "called"
     /\ memory' = [memory EXCEPT
          ![c.at].key = [x \in Slot |->
             IF c.news[x] # {} /\ @[x] = Absent THEN Empty ELSE @[x]],
          ![c.at].verified = [x \in Slot |-> @[x] \cup fresh[x]]]
     /\ tasks' = IF fresh = NoHosts THEN Return(c, "ok")
                 ELSE Replace(c, ToWrite([c EXCEPT !.news = fresh, !.changed = TRUE]))
     /\ UNCHANGED <<disk, trying, others, generated, given, operations, faults>>

(* Mistake: the key may be used by whoever asks while it is there. *)
MistakeUseAvailableKey(c) ==
  LET canUse == c.try \in memory[c.at].available
  IN /\ c.kind = "UseAvailableKey" /\ c.step = "called"
     /\ trying' = IF canUse THEN [trying EXCEPT ![c.at][c.try] = c.by] ELSE trying
     /\ tasks' = Return(c, IF canUse THEN "ok" ELSE "refused")
     /\ UNCHANGED <<memory, disk, others, generated, given, operations, faults>>

(* Of two servers that try to use a key the one with the smaller host ID    *)
(* may, as far as this server is concerned.                                 *)
UseAvailableKey(c) ==
  LET holder == trying[c.at][c.try]
      canUse == /\ c.try \in memory[c.at].available
                /\ holder = Nobody \/ c.by < holder
  IN /\ c.kind = "UseAvailableKey" /\ c.step = "called"
     /\ trying' = IF canUse THEN [trying EXCEPT ![c.at][c.try] = c.by] ELSE trying
     /\ tasks' = Return(c, IF canUse THEN "ok" ELSE "refused")
     /\ UNCHANGED <<memory, disk, others, generated, given, operations, faults>>

(* The destruction of m_Subscription of a CUseAvailableKeyResult. *)
ReleaseKey(c) ==
  /\ c.kind = "ReleaseKey" /\ c.step = "called"
  /\ trying' = IF trying[c.at][c.try] = c.by
                 THEN [trying EXCEPT ![c.at][c.try] = Nobody] ELSE trying
  /\ tasks' = tasks \ {c}
  /\ UNCHANGED <<memory, disk, others, generated, given, operations, faults>>

PreCreateKeys(c) ==
  LET new == c.pool \ memory[c.at].available
  IN /\ c.kind = "PreCreateKeys" /\ c.step = "called"
     /\ memory' = [memory EXCEPT ![c.at].available = @ \cup new]
     /\ tasks' = IF new = {} THEN Return(c, "ok")
                 ELSE Replace(c, ToForwardPool([c EXCEPT !.pool = new, !.changed = TRUE]))
     /\ UNCHANGED <<disk, trying, others, generated, given, operations, faults>>

RemovePreCreatedKeys(c) ==
  LET gone == c.pool \cap memory[c.at].available
  IN /\ c.kind = "RemovePreCreatedKeys" /\ c.step = "called"
     /\ memory' = [memory EXCEPT ![c.at].available = @ \ gone]
     /\ tasks' = IF gone = {} THEN Return(c, "ok")
                 ELSE Replace(c, ToForwardPool([c EXCEPT !.pool = gone, !.changed = TRUE]))
     /\ UNCHANGED <<disk, trying, others, generated, given, operations, faults>>

(* f_RemoveVerifiedHosts: a server that is asked to remove itself refuses,  *)
(* one that has been asked already has nothing to do, any other first asks  *)
(* the rest.  The answer is "ok" when something was removed.                *)
RemoveVerifiedHosts(c) ==
  LET asked == others[c.at] \ (c.checked \cup {c.at})
      checked == c.checked \cup {c.at}
      d == [c EXCEPT !.checked = checked, !.step = "forwardHosts",
              !.answer = [t \in Server |-> IF t \in asked THEN "waiting" ELSE "none"]]
  IN /\ c.kind = "RemoveVerifiedHosts" /\ c.step = "called"
     /\ tasks' = IF c.at \in c.hosts THEN Return(c, "failed")
                 ELSE IF c.at \in c.checked THEN Return(c, "refused")
                 ELSE (tasks \ {c}) \cup {d} \cup
                      {[Call(c, t, "RemoveVerifiedHosts") EXCEPT
                          !.hosts = c.hosts, !.checked = checked] : t \in asked}
     /\ UNCHANGED <<memory, disk, trying, others, generated, given, operations, faults>>

ForwardedHosts(c) ==
  LET verified == memory[c.at].verified
      left == [x \in Slot |-> verified[x] \ c.hosts]
      removed == left # verified \/ Answered(c, "ok") # {}
  IN /\ c.step = "forwardHosts" /\ ~Waits(c)
     /\ \/ /\ Failed(c)
           /\ tasks' = Return(c, "failed")
           /\ UNCHANGED memory
        \/ /\ ~Failed(c)
           /\ memory' = [memory EXCEPT ![c.at].verified = left]
           /\ tasks' = IF removed
                THEN Replace(c, ToWrite([c EXCEPT !.changed = TRUE, !.answer = NoAnswer]))
                ELSE Return(c, "refused")
     /\ UNCHANGED <<disk, trying, others, generated, given, operations, faults>>

-----------------------------------------------------------------------------
(* Operations of the operator, which are coroutines of the server too. *)

StartPreCreateKeys(s) ==
  LET lacking == MaxPool - Cardinality(memory[s].available)
      new == NewKeys(lacking)
  IN /\ Start("PreCreateKeys", s)
     /\ Cardinality(memory[s].available) < MaxPool
     /\ \E some \in SUBSET (Key \ generated) : Cardinality(some) = lacking
     /\ generated' = generated \cup new
     /\ memory' = [memory EXCEPT ![s].available = @ \cup new]
     /\ tasks' = tasks \cup
          {ToForwardPool([Root(s, "PreCreateKeys", "called") EXCEPT
                            !.pool = new, !.changed = TRUE])}
     /\ UNCHANGED <<disk, trying, others, given, faults>>

StartRemovePreCreatedKeys(s) ==
  /\ Start("RemovePreCreatedKeys", s)
  /\ memory[s].available # {}
  /\ memory' = [memory EXCEPT ![s].available = {}]
  /\ tasks' = tasks \cup
       {ToForwardPool([Root(s, "RemovePreCreatedKeys", "called") EXCEPT
                         !.pool = memory[s].available, !.changed = TRUE])}
  /\ UNCHANGED <<disk, trying, others, generated, given, faults>>

StartRemoveVerifiedHosts(s) ==
  /\ Start("RemoveVerifiedHosts", s)
  /\ \E t \in Server :
       tasks' = tasks \cup {[Root(s, "RemoveVerifiedHosts", "called") EXCEPT !.hosts = {t}]}
  /\ UNCHANGED <<memory, disk, trying, others, generated, given, faults>>

(* f_CopyKey is a call of the server's own f_CreateNewKeys. *)
CopyKey(s) ==
  /\ Start("CopyKey", s)
  /\ \E x, y \in Slot :
       /\ memory[s].key[x] # Absent
       /\ tasks' = tasks \cup {[Root(s, "CreateNewKeys", "called") EXCEPT
                                  !.create[y] = memory[s].key[x]]}
  /\ UNCHANGED <<memory, disk, trying, others, generated, given, faults>>

ForceWriteDatabase(s) ==
  /\ Start("ForceWriteDatabase", s)
  /\ disk' = [disk EXCEPT ![s] = memory[s]]
  /\ UNCHANGED <<memory, trying, others, tasks, generated, given, faults>>

-----------------------------------------------------------------------------
(* f_SyncFromOtherKeyManager: what a server does that finds another one. *)

Connect(s, t) ==
  /\ Start("Connect", s)
  /\ t \notin others[s] /\ s # t
  /\ others' = [others EXCEPT ![s] = @ \cup {t}]
  /\ tasks' = tasks \cup
       {NewTask(<<<<"Sync", s, faults, NoSlot>>, <<"Sync", t, faults, NoSlot>>>>,
                s, t, "Sync", "read")}
  /\ UNCHANGED <<memory, disk, trying, generated, given, faults>>

(* f_ReadDatabase: the other one answers with a snapshot. *)
ReadDatabase(c) ==
  /\ c.step = "read"
  /\ tasks' = Replace(c, [c EXCEPT !.read = memory[c.by], !.step = "merge"])
  /\ UNCHANGED <<memory, disk, trying, others, generated, given, operations, faults>>

(* The entries of the snapshot come one by one.  One that is here with      *)
(* another key is logged and left alone.                                    *)
MergeKey(c) ==
  /\ c.step = "merge"
  /\ \E x \in Slot :
       LET theirs == c.read.key[x]
           mine == memory[c.at].key[x]
           verified == c.read.verified[x] \cup {c.at}
           fresh == CASE mine = Absent -> verified
                      [] mine = theirs -> verified \ memory[c.at].verified[x]
                      [] OTHER -> {}
           d == [c EXCEPT !.read.key[x] = Absent,
                          !.news[x] = @ \cup fresh,
                          !.changed = @ \/ fresh # {},
                          !.create[x] = IF mine = Absent THEN theirs ELSE @]
       IN /\ theirs # Absent
          /\ memory' = [memory EXCEPT ![c.at].key[x] = IF mine = Absent THEN theirs ELSE @,
                                      ![c.at].verified[x] = @ \cup fresh]
          /\ tasks' = Replace(c, d)
  /\ UNCHANGED <<disk, trying, others, generated, given, operations, faults>>

(* After the last entry the keys in use are collected (UsedKeys), and then  *)
(* the other's pre-created keys are awaited.                                *)
CollectUsedKeys(c) ==
  /\ c.step = "merge"
  /\ c.read.key = NoKeys
  /\ tasks' = Replace(c, [c EXCEPT !.read.key = memory[c.at].key, !.step = "pool"])
  /\ UNCHANGED <<memory, disk, trying, others, generated, given, operations, faults>>

(* The pool becomes what either has and is not among the UsedKeys; the used *)
(* ones are sent as keys to create, to make the others remove them.  What   *)
(* the other one lacks is sent to all, if it has any.                       *)
MergePool(c) ==
  LET mine == memory[c.at].available
      theirs == c.read.available
      UsedFor(k) == {x \in Slot : c.read.key[x] = k}
      unused == {k \in mine \cup theirs : UsedFor(k) = {}}
      remind == [x \in Slot |->
        IF c.read.key[x] \in mine \cup theirs /\ \A y \in UsedFor(c.read.key[x]) : y <= x
          THEN c.read.key[x] ELSE c.create[x]]
  IN /\ c.step = "pool"
     /\ memory' = [memory EXCEPT ![c.at].available = unused]
     /\ tasks' = Replace(c, ToForwardPool([c EXCEPT
          !.read = EmptyDatabase,
          !.pool = IF theirs = {} THEN {} ELSE mine \ theirs,
          !.create = remind,
          !.changed = @ \/ unused # mine]))
     /\ UNCHANGED <<disk, trying, others, generated, given, operations, faults>>

-----------------------------------------------------------------------------
(* Faults.  A call between s and t is lost before it is handled, or its     *)
(* answer is; a synchronisation of one with the other ends; what one was    *)
(* granted by the other is released.                                        *)

Between(c, s, t) == {c.at, c.by} = {s, t}

CutOff(ts, s, t) ==
  {[c EXCEPT !.wanted = @ /\ ~Between(c, s, t),
             !.answer = [h \in Server |->
                IF @[h] = "waiting" /\ {c.at, h} = {s, t} THEN "failed" ELSE @[h]]] :
     c \in {d \in ts : Between(d, s, t) => d.step # "called" /\ d.kind # "Sync"}}

Forget(s, t) == [k \in Key |-> IF trying[s][k] = t THEN Nobody ELSE trying[s][k]]

Disconnect(s, t) ==
  /\ faults < MaxFaults
  /\ faults' = faults + 1
  /\ s # t /\ (t \in others[s] \/ s \in others[t])
  /\ others' = [others EXCEPT ![s] = @ \ {t}, ![t] = @ \ {s}]
  /\ trying' = [trying EXCEPT ![s] = Forget(s, t), ![t] = Forget(t, s)]
  /\ tasks' = CutOff(tasks, s, t)
  /\ UNCHANGED <<memory, disk, generated, given, operations>>

(* The server stops anywhere and starts with its database, in which it      *)
(* enters itself for every key (CInternal::f_ReadDatabase).                 *)
Restart(s) ==
  LET hosts == [x \in Slot |-> IF disk[s].key[x] = Absent
                                 THEN {} ELSE disk[s].verified[x] \cup {s}]
      left == {c \in tasks : c.at # s}
  IN /\ faults < MaxFaults
     /\ faults' = faults + 1
     /\ memory' = [memory EXCEPT ![s] = [disk[s] EXCEPT !.verified = hosts]]
     /\ others' = [t \in Server |-> IF t = s THEN {} ELSE others[t] \ {s}]
     /\ trying' = [t \in Server |-> IF t = s THEN [k \in Key |-> Nobody] ELSE Forget(t, s)]
     /\ tasks' = {[c EXCEPT !.wanted = @ /\ c.by # s,
                            !.answer[s] = IF @ = "waiting" THEN "failed" ELSE @] :
                    c \in {d \in left : d.by = s => d.step # "called" /\ d.kind # "Sync"}}
     /\ UNCHANGED <<disk, generated, given, operations>>

-----------------------------------------------------------------------------
ServerStep(c) ==
  \/ ForwardPool(c) \/ ForwardCreateNewKeys(c) \/ Write(c) \/ Finish(c)
  \/ TryUseAvailableKey(c) \/ UsedAvailableKey(c) \/ CreateKey(c)
  \/ CreateNewKeys(c) \/ KeysVerifiedOnServers(c)
  \/ UseAvailableKey(c) \/ ReleaseKey(c)
  \/ PreCreateKeys(c) \/ RemovePreCreatedKeys(c)
  \/ RemoveVerifiedHosts(c) \/ ForwardedHosts(c)
  \/ ReadDatabase(c) \/ MergeKey(c) \/ CollectUsedKeys(c) \/ MergePool(c)

Operation(s) ==
  \/ \E x \in Slot : RequestKey(s, x)
  \/ StartPreCreateKeys(s) \/ StartRemovePreCreatedKeys(s)
  \/ StartRemoveVerifiedHosts(s) \/ CopyKey(s) \/ ForceWriteDatabase(s)

Fault ==
  \/ \E c \in tasks : FailWrite(c)
  \/ \E s, t \in Server : Disconnect(s, t)
  \/ \E s \in Server : Restart(s)

Next ==
  \/ \E c \in tasks : ServerStep(c)
  \/ \E s \in Server : Operation(s)
  \/ \E s, t \in Server : Connect(s, t)
  \/ Fault

Spec == Init /\ [][Next]_vars

(* An actor runs what is in its queue. *)
FairSpec == Spec /\ WF_vars(\E c \in tasks : ServerStep(c))

-----------------------------------------------------------------------------
(* Every variable keeps its type; what clients are given is a key, not the  *)
(* empty one of an entry without a key.                                     *)
TypeOK ==
  /\ memory \in [Server -> Database]
  /\ disk \in [Server -> Database]
  /\ trying \in [Server -> [Key -> Server \cup {Nobody}]]
  /\ others \in [Server -> SUBSET Server]
  /\ tasks \subseteq Task
  /\ generated \subseteq Key
  /\ given \subseteq Server \X Slot \X Key
  /\ operations \in Nat /\ faults \in Nat

(* The entry of a slot that has been written to a database stays as it is, *)
(* whatever requests, calls, synchronisations and crashes come: clients     *)
(* encrypt with the key they are given.                                     *)
WrittenKeysStay ==
  [][\A s \in Server, x \in Slot :
       disk[s].key[x] # Absent => disk'[s].key[x] = disk[s].key[x]]_vars

(* A pre-created key is given to one client for one identifier only, though *)
(* several servers try to use it at once (f_UseAvailableKey).               *)
OneSlotPerKey ==
  \A s, t \in Server, x, y \in Slot :
    memory[s].key[x] \in Key /\ memory[s].key[x] = memory[t].key[y] => x = y

(* A key that is in use at a server is not available there any more         *)
(* (f_CreateNewKeys, and "Force remote to remove from available keys").     *)
UsedKeysLeavePool ==
  \A s \in Server, x \in Slot : memory[s].key[x] \notin memory[s].available

(* A key is verified on a server only when that server has this key: the    *)
(* number of them decides whether a client is given it.                     *)
VerifiedServersHoldKey ==
  \A s \in Server, x \in Slot : \A t \in memory[s].verified[x] :
    memory[t].key[x] = memory[s].key[x]

(* Without faults all servers have the same entries and know the same       *)
(* servers to have verified them, once nothing is under way: every forward  *)
(* and every report has reached everyone.                                   *)
ServersAgree ==
  tasks = {} /\ faults = 0 =>
    \A s, t \in Server : /\ memory[s].key = memory[t].key
                         /\ memory[s].verified = memory[t].verified

(* Every request, call and synchronisation comes to an end: no servers wait *)
(* for each other, and the search for a pre-created key ends.               *)
TasksEnd == []<>(tasks = {})
=============================================================================
