------------------------ MODULE FileServices_proofs -------------------------
(* The invariants of the managers' databases, histories, subscribers and tunnels, for every value
   of the constants: they hold in the first states and no step breaks them. *)
EXTENDS FileServices, ConnectionServices, FiniteSetTheorems, TLAPS

-----------------------------------------------------------------------------
(* Numbers *)

(* A finite set of numbers that has all those below its members leaves out a first one. *)
LEMMA InitialSegment ==
  ASSUME NEW T \in SUBSET Nat, IsFiniteSet(T), \A x \in T : 0 .. x \subseteq T
  PROVE  \E m \in Nat : m \notin T /\ (m = 0 \/ m - 1 \in T)
<1>1. PICK m : m \in Nat /\ m = Cardinality(T)
  BY FS_CardinalityType
<1>2. m - 1 \in Int /\ (0 > m - 1 <=> m = 0)
  BY <1>1
<1>3. IsFiniteSet(0 .. m - 1) /\ Cardinality(0 .. m - 1) = m
  <2>1. IsFiniteSet(0 .. m - 1) /\ Cardinality(0 .. m - 1) = IF 0 > m - 1 THEN 0 ELSE (m - 1) - 0 + 1
    BY <1>2, FS_Interval
  <2> QED
    BY <1>1, <1>2, <2>1
<1>4. ASSUME NEW x \in T PROVE x \in 0 .. m - 1
  <2>1. 0 .. x \in SUBSET T /\ x \in Int /\ x >= 0
    OBVIOUS
  <2>2. Cardinality(0 .. x) = x + 1
    <3>1. Cardinality(0 .. x) = IF 0 > x THEN 0 ELSE x - 0 + 1
      BY <2>1, FS_Interval
    <3> QED
      BY <2>1, <3>1
  <2>3. Cardinality(0 .. x) <= Cardinality(T)
    BY <2>1, FS_Subset
  <2> QED
    BY <1>1, <2>1, <2>2, <2>3
<1>5. T \in SUBSET (0 .. m - 1)
  BY <1>4
<1>6. T = 0 .. m - 1
  BY <1>1, <1>3, <1>5, FS_Subset
<1>7. m \notin 0 .. m - 1 /\ (m = 0 \/ m - 1 \in 0 .. m - 1)
  BY <1>1
<1>8. m \notin T /\ (m = 0 \/ m - 1 \in T)
  BY <1>6, <1>7
<1> QED
  BY <1>1, <1>8

(* A set of numbers has a least one: what an argument by the least counterexample needs. *)
LEMMA LeastExists ==
  ASSUME NEW S \in SUBSET Nat, S # {}
  PROVE  \E x \in S : \A y \in S : x <= y
<1>1. PICK k : k \in S
  OBVIOUS
<1>2. PICK T : T = {x \in 0 .. k : \A y \in S : x < y}
  OBVIOUS
<1>3. T \in SUBSET Nat /\ \A x \in T : 0 .. x \subseteq T
  BY <1>1, <1>2
<1>4. IsFiniteSet(T)
  <2>1. IsFiniteSet(0 .. k) /\ T \in SUBSET (0 .. k)
    BY <1>1, <1>2, FS_Interval
  <2> QED
    BY <2>1, FS_Subset
<1>5. PICK m \in Nat : m \notin T /\ (m = 0 \/ m - 1 \in T)
  BY <1>3, <1>4, InitialSegment
<1>6. \A y \in S : m <= y
  BY <1>2, <1>5
<1>7. \E y \in S : ~(m < y)
  BY <1>1, <1>2, <1>5, <1>6
<1> QED
  BY <1>6, <1>7

-----------------------------------------------------------------------------
(* ConfigMonitor *)

(* What the subscriptions, their checks and the database are made of. *)
CMRead == Contents \union {cmUnset}
CMValues == [exists : BOOLEAN, type : {cmUnset} \union {Type[c] : c \in Config}, data : CMRead, rest : CMRead]
CMCheckMade == [stage : CM!Stages, value : CMValues, tries : Nat, old : Nat, before : CMValues]
CMWriteMade == [config : SUBSET Config, value : CMValues, at : Nat]
CMTypes ==
  /\ file \in CMRead
  /\ configs \in [Config -> {"none", "watching", "live"}]
  /\ notices \in SUBSET Config
  /\ cmChecks \in [Config -> Seq(CMCheckMade)]
  /\ cmWrites \in Seq(CMWriteMade)
  /\ history \in Seq(CMValues)
  /\ raced \in BOOLEAN /\ cmMissed \in BOOLEAN

CMFirst(c) == cmChecks[c][1]

(* A subscription that does not exist has no checks, and only the first one has begun. *)
CMOnlyLiveCheck == \A c \in Config : configs[c] # "live" => cmChecks[c] = <<>>
CMOthersWait == \A c \in Config : \A i \in 2 .. Len(cmChecks[c]) : cmChecks[c][i].stage = "read"

(* The only check of a subscription that is not to be notified has the file as it is. *)
CMBegun(c, check) ==
  /\ check.stage = "reading" =>
       /\ file # cmUnset
       /\ check.value = [exists |-> TRUE, type |-> Type[c], data |-> file, rest |-> cmUnset]
  /\ check.stage \in {"compare", "log", "logged", "writing"} => check.value \in CM!Current
CMLastIsFresh ==
  \A c \in Config : c \notin notices /\ Len(cmChecks[c]) = 1 => CMBegun(c, CMFirst(c))

(* A write is that of the check which waits for it, unless its subscription is gone. *)
CMWritesAreOfChecks ==
  \A i \in 1 .. Len(cmWrites) : \A c \in cmWrites[i].config :
    /\ Len(cmChecks[c]) > 0 /\ CMFirst(c).stage = "writing"
    /\ CMFirst(c).value = cmWrites[i].value /\ CMFirst(c).old + 1 = cmWrites[i].at
CMWritersAreApart ==
  /\ \A i \in 1 .. Len(cmWrites) : \A c, d \in cmWrites[i].config : c = d
  /\ \A i, j \in 1 .. Len(cmWrites) : \A c \in cmWrites[i].config : c \in cmWrites[j].config => i = j
CMWritersAreThere == ~cmMissed => \A i \in 1 .. Len(cmWrites) : cmWrites[i].config # {}
CMWritesFollow == \A i \in 1 .. Len(cmWrites) : cmWrites[i].at >= 1

(* Unless the last entry is the file as it is, somebody is going to compare the two, or
   has compared them since the last entry was stored. *)
CMWillSee(c) ==
  \/ c \in notices
  \/ Len(cmChecks[c]) > 1
  \/ Len(cmChecks[c]) = 1 /\ (CMFirst(c).stage \in {"read", "reading", "compare"}
                              \/ CMFirst(c).old + 1 >= Len(history))
CMIsCurrent == Len(history) > 0 /\ history[Len(history)] \in CM!Current
CMSomebodySees ==
  ~cmMissed /\ ~CMIsCurrent =>
    \A c \in Config : configs[c] = "live" => \E d \in Config : configs[d] = "live" /\ CMWillSee(d)

(* Without a race, one check at a time has compared with the last entry and not stored its
   value yet; its value differs from that entry, which is the last one still. *)
CMCompared(c) == Len(cmChecks[c]) > 0 /\ CMFirst(c).stage \in {"log", "logged"}
CMOneCompares ==
  ~raced => /\ \A c, d \in Config : CMCompared(c) /\ CMCompared(d) => c = d
            /\ \A c \in Config : CMCompared(c) => Len(cmWrites) = 0
            /\ Len(cmWrites) <= 1
CMDiffers(value) == Len(history) = 0 \/ history[Len(history)] # value
CMIsLogged(value) == Len(history) = 0 \/ <<history[Len(history)], value>> \in log
CMComparedIsLast ==
  ~raced => \A c \in Config : CMCompared(c) =>
    /\ CMFirst(c).old = Len(history)
    /\ CMDiffers(CMFirst(c).value)
    /\ CMFirst(c).stage = "log" => Len(history) > 0 /\ CMFirst(c).before = history[Len(history)]
    /\ CMFirst(c).stage = "logged" => CMIsLogged(CMFirst(c).value)
CMWrittenIsNext ==
  ~raced => \A i \in 1 .. Len(cmWrites) :
    cmWrites[i].at = Len(history) + 1 /\ CMDiffers(cmWrites[i].value) /\ CMIsLogged(cmWrites[i].value)
CMEntriesAreLogged ==
  ~raced => \A n \in 2 .. Len(history) : /\ history[n] # history[n - 1]
                                         /\ <<history[n - 1], history[n]>> \in log

CMFresh == CMOnlyLiveCheck /\ CMOthersWait /\ CMLastIsFresh
CMWriters == CMWritesAreOfChecks /\ CMWritersAreApart /\ CMWritersAreThere /\ CMWritesFollow
CMUnraced == CMOneCompares /\ CMComparedIsLast /\ CMWrittenIsNext /\ CMEntriesAreLogged
CMInv == CMTypes /\ CMFresh /\ CMWriters /\ CMSomebodySees /\ CMUnraced

LEMMA CMWaitingIsACheck == CM!Waiting \in CMCheckMade /\ CM!Waiting.stage = "read"
BY DEF CM!Waiting, CM!Missing, CMCheckMade, CMValues, CMRead, CM!Stages

LEMMA CMWritersExist ==
  ASSUME CMTypes
  PROVE  \A i \in 1 .. Len(cmWrites) :
           cmWrites[i] \in CMWriteMade /\ cmWrites[i].config \subseteq Config /\ cmWrites[i].at \in Nat
<1> SUFFICES ASSUME NEW i \in 1 .. Len(cmWrites)
             PROVE  cmWrites[i] \in CMWriteMade /\ cmWrites[i].config \subseteq Config /\ cmWrites[i].at \in Nat
  OBVIOUS
<1>1. cmWrites[i] \in CMWriteMade
  BY DEF CMTypes
<1> QED
  BY <1>1 DEF CMWriteMade

LEMMA CMFirstOf ==
  ASSUME CMTypes, NEW c \in Config, cmChecks[c] # <<>>
  PROVE  /\ Len(cmChecks[c]) \in Nat /\ Len(cmChecks[c]) > 0
         /\ Head(cmChecks[c]) = CMFirst(c) /\ CMFirst(c) \in CMCheckMade
<1>1. cmChecks[c] \in Seq(CMCheckMade)
  BY DEF CMTypes
<1>2. Len(cmChecks[c]) \in Nat /\ Len(cmChecks[c]) > 0
  BY <1>1
<1>3. Head(cmChecks[c]) = cmChecks[c][1] /\ cmChecks[c][1] \in CMCheckMade
  BY <1>1, <1>2
<1> QED
  BY <1>2, <1>3 DEF CMFirst

LEMMA CMItRuns ==
  ASSUME CMTypes, NEW c \in Config, NEW stage, CM!Running(c, stage)
  PROVE  /\ cmChecks[c] # <<>> /\ Len(cmChecks[c]) \in Nat /\ Len(cmChecks[c]) > 0
         /\ Head(cmChecks[c]) = CMFirst(c) /\ CMFirst(c) \in CMCheckMade /\ CMFirst(c).stage = stage
BY CMFirstOf DEF CM!Running

LEMMA CMPutBefore ==
  ASSUME NEW S, NEW r \in S, NEW t \in Seq(S)
  PROVE  /\ <<r>> \o t \in Seq(S) /\ Len(<<r>> \o t) = Len(t) + 1
         /\ (<<r>> \o t)[1] = r
         /\ \A i \in 2 .. Len(t) + 1 : (<<r>> \o t)[i] = t[i - 1]
OBVIOUS

LEMMA CMItContinues ==
  ASSUME CMTypes, NEW c \in Config, cmChecks[c] # <<>>, NEW r \in CMCheckMade, CM!Continue(c, r)
  PROVE  /\ cmChecks' \in [Config -> Seq(CMCheckMade)]
         /\ Len(cmChecks'[c]) = Len(cmChecks[c]) /\ cmChecks'[c][1] = r
         /\ \A i \in 2 .. Len(cmChecks[c]) : cmChecks'[c][i] = cmChecks[c][i]
         /\ \A d \in Config \ {c} : cmChecks'[d] = cmChecks[d]
<1>1. cmChecks[c] \in Seq(CMCheckMade) /\ cmChecks \in [Config -> Seq(CMCheckMade)]
  BY DEF CMTypes
<1>2. PICK t : t = Tail(cmChecks[c])
  OBVIOUS
<1>3. t \in Seq(CMCheckMade) /\ Len(t) = Len(cmChecks[c]) - 1
      /\ \A i \in 1 .. Len(t) : t[i] = cmChecks[c][i + 1]
  BY <1>1, <1>2
<1>4. PICK s : s = <<r>> \o t
  OBVIOUS
<1>5. s \in Seq(CMCheckMade) /\ Len(s) = Len(t) + 1 /\ s[1] = r
      /\ \A i \in 2 .. Len(t) + 1 : s[i] = t[i - 1]
  BY <1>3, <1>4, CMPutBefore
<1>6. Len(cmChecks[c]) \in Nat /\ Len(s) = Len(cmChecks[c]) /\ \A i \in 2 .. Len(s) : s[i] = cmChecks[c][i]
  <2>1. Len(cmChecks[c]) \in Nat /\ Len(s) = Len(cmChecks[c])
    BY <1>1, <1>3, <1>5
  <2>2. ASSUME NEW i \in 2 .. Len(s) PROVE s[i] = cmChecks[c][i]
    <3>1. i - 1 \in 1 .. Len(t) /\ (i - 1) + 1 = i
      BY <1>3, <2>1
    <3> QED
      BY <1>3, <1>5, <3>1
  <2> QED
    BY <2>1, <2>2
<1>7. cmChecks' = [cmChecks EXCEPT ![c] = s]
  BY <1>2, <1>4 DEF CM!Continue
<1> QED
  BY <1>1, <1>5, <1>6, <1>7

LEMMA CMItEnds ==
  ASSUME CMTypes, NEW c \in Config, cmChecks[c] # <<>>
  PROVE  /\ Tail(cmChecks[c]) \in Seq(CMCheckMade)
         /\ Len(Tail(cmChecks[c])) = Len(cmChecks[c]) - 1
         /\ \A i \in 1 .. Len(cmChecks[c]) - 1 : Tail(cmChecks[c])[i] = cmChecks[c][i + 1]
<1>1. cmChecks[c] \in Seq(CMCheckMade) /\ Len(cmChecks[c]) \in Nat
  BY DEF CMTypes
<1> QED
  BY <1>1

(* The first check goes on. *)
LEMMA CMGoesOn ==
  ASSUME CMInv, NEW c \in Config, cmChecks[c] # <<>>, NEW r \in CMCheckMade, CM!Continue(c, r),
         UNCHANGED <<file, configs, notices, history, cmMissed>>,
         c \notin notices /\ Len(cmChecks[c]) = 1 => CMBegun(c, r),
         \/ r.stage \in {"read", "reading", "compare"}
         \/ r.old = Len(history)
         \/ r.old = CMFirst(c).old /\ CMFirst(c).stage \notin {"read", "reading", "compare"}
  PROVE  /\ CMFresh' /\ CMSomebodySees'
         /\ cmChecks' \in [Config -> Seq(CMCheckMade)]
         /\ CMFirst(c)' = r /\ \A d \in Config \ {c} : CMFirst(d)' = CMFirst(d)
         /\ \A d \in Config : Len(cmChecks'[d]) = Len(cmChecks[d]) /\ Len(cmChecks[d]) \in Nat
<1> USE DEF CMInv, CMFresh
<1>1. /\ cmChecks' \in [Config -> Seq(CMCheckMade)]
      /\ Len(cmChecks'[c]) = Len(cmChecks[c]) /\ cmChecks'[c][1] = r
      /\ \A i \in 2 .. Len(cmChecks[c]) : cmChecks'[c][i] = cmChecks[c][i]
      /\ \A d \in Config \ {c} : cmChecks'[d] = cmChecks[d]
  BY CMItContinues
<1>2. /\ CMFirst(c)' = r /\ \A d \in Config \ {c} : CMFirst(d)' = CMFirst(d)
      /\ \A d \in Config : Len(cmChecks'[d]) = Len(cmChecks[d]) /\ Len(cmChecks[d]) \in Nat
  <2>1. \A d \in Config : cmChecks[d] \in Seq(CMCheckMade)
    BY DEF CMTypes
  <2>2. \A d \in Config : Len(cmChecks'[d]) = Len(cmChecks[d])
    BY <1>1
  <2> QED
    BY <1>1, <2>1, <2>2 DEF CMFirst
<1>3. CMOnlyLiveCheck'
  <2>1. configs[c] = "live"
    BY DEF CMOnlyLiveCheck
  <2> QED
    BY <1>1, <2>1 DEF CMOnlyLiveCheck
<1>4. CMOthersWait'
  BY <1>1 DEF CMOthersWait
<1>5. \A d, check : CMBegun(d, check)' <=> CMBegun(d, check)
  BY DEF CMBegun, CM!Current
<1>6. CMLastIsFresh'
  BY <1>2, <1>5 DEF CMLastIsFresh
<1>7. \A d \in Config : CMWillSee(d) => CMWillSee(d)'
  <2>1. \A d \in Config \ {c} : CMWillSee(d) => CMWillSee(d)'
    BY <1>2 DEF CMWillSee
  <2>2. Len(history) \in Nat
    BY DEF CMTypes
  <2>3. CMWillSee(c) => CMWillSee(c)'
    BY <1>2, <2>2 DEF CMWillSee
  <2> QED
    BY <2>1, <2>3
<1>8. CMIsCurrent' <=> CMIsCurrent
  BY DEF CMIsCurrent, CM!Current
<1>9. CMSomebodySees'
  BY <1>7, <1>8 DEF CMSomebodySees
<1> QED
  BY <1>1, <1>2, <1>3, <1>4, <1>6, <1>9

(* The same, and nothing is asked of the database. *)
LEMMA CMAdvances ==
  ASSUME CMInv, NEW c \in Config, cmChecks[c] # <<>>, NEW r \in CMCheckMade, CM!Continue(c, r),
         UNCHANGED <<file, configs, notices, cmWrites, history, cmMissed>>,
         raced' \in BOOLEAN,
         CMFirst(c).stage # "writing",
         c \notin notices /\ Len(cmChecks[c]) = 1 => CMBegun(c, r),
         \/ r.stage \in {"read", "reading", "compare"}
         \/ r.old = Len(history)
         \/ r.old = CMFirst(c).old /\ CMFirst(c).stage \notin {"read", "reading", "compare"}
  PROVE  CMTypes' /\ CMFresh' /\ CMWriters' /\ CMSomebodySees'
<1> USE DEF CMInv, CMWriters
<1>1. /\ CMFresh' /\ CMSomebodySees'
      /\ cmChecks' \in [Config -> Seq(CMCheckMade)]
      /\ CMFirst(c)' = r /\ \A d \in Config \ {c} : CMFirst(d)' = CMFirst(d)
      /\ \A d \in Config : Len(cmChecks'[d]) = Len(cmChecks[d]) /\ Len(cmChecks[d]) \in Nat
  BY CMGoesOn
<1>2. CMTypes'
  BY <1>1 DEF CMTypes
<1>3. CMWritesAreOfChecks'
  <2>1. \A i \in 1 .. Len(cmWrites) : c \notin cmWrites[i].config
    BY DEF CMWritesAreOfChecks
  <2>2. \A i \in 1 .. Len(cmWrites) : cmWrites[i].config \subseteq Config
    BY CMWritersExist
  <2> QED
    BY SMTT(30), <1>1, <2>1, <2>2 DEF CMWritesAreOfChecks
<1>4. CMWritersAreApart' /\ CMWritersAreThere' /\ CMWritesFollow'
  BY DEF CMWritersAreApart, CMWritersAreThere, CMWritesFollow
<1> HIDE DEF CMInv, CMWriters
<1> QED
  BY <1>1, <1>2, <1>3, <1>4 DEF CMWriters

(* The checks that have compared are the same, or fewer. *)
LEMMA CMSameWrites ==
  ASSUME CMInv, UNCHANGED <<history, raced>>, log \subseteq log', Len(cmWrites') = Len(cmWrites),
         \A i \in 1 .. Len(cmWrites) : cmWrites'[i].at = cmWrites[i].at /\ cmWrites'[i].value = cmWrites[i].value,
         \A d \in Config : CMCompared(d)' => CMCompared(d) /\ CMFirst(d)' = CMFirst(d)
  PROVE  CMUnraced'
<1> USE DEF CMInv, CMUnraced
<1>1. CMOneCompares'
  BY DEF CMOneCompares
<1>2. \A value : (CMDiffers(value)' <=> CMDiffers(value)) /\ (CMIsLogged(value) => CMIsLogged(value)')
  BY DEF CMDiffers, CMIsLogged
<1>3. CMComparedIsLast'
  BY <1>2 DEF CMComparedIsLast
<1>4. CMWrittenIsNext'
  BY <1>2 DEF CMWrittenIsNext
<1>5. CMEntriesAreLogged'
  BY DEF CMEntriesAreLogged
<1> QED
  BY <1>1, <1>3, <1>4, <1>5

LEMMA CMSameRace ==
  ASSUME CMInv, UNCHANGED <<cmWrites, history, log, raced>>,
         \A d \in Config : CMCompared(d)' => CMCompared(d) /\ CMFirst(d)' = CMFirst(d)
  PROVE  CMUnraced'
<1>1. Len(cmWrites') = Len(cmWrites)
  OBVIOUS
<1>2. \A i \in 1 .. Len(cmWrites) : cmWrites'[i].at = cmWrites[i].at /\ cmWrites'[i].value = cmWrites[i].value
  OBVIOUS
<1>3. log \subseteq log'
  OBVIOUS
<1> QED
  BY <1>1, <1>2, <1>3, CMSameWrites

(* A check that waited becomes the first one, and has read nothing. *)
LEMMA CMNextOne ==
  ASSUME CMTypes, CMOthersWait, NEW c \in Config, cmChecks[c] # <<>>,
         cmChecks'[c] = Tail(cmChecks[c])
  PROVE  /\ Len(cmChecks'[c]) = Len(cmChecks[c]) - 1 /\ Len(cmChecks[c]) \in Nat /\ Len(cmChecks[c]) > 0
         /\ cmChecks'[c] \in Seq(CMCheckMade)
         /\ Len(cmChecks'[c]) > 0 => CMFirst(c)'.stage = "read"
         /\ \A i \in 2 .. Len(cmChecks'[c]) : cmChecks'[c][i].stage = "read"
         /\ Len(cmChecks[c]) # 1 =>
              Len(cmChecks'[c]) > 1 \/ (Len(cmChecks'[c]) = 1 /\ CMFirst(c)'.stage = "read")
<1>1. /\ cmChecks'[c] \in Seq(CMCheckMade) /\ Len(cmChecks'[c]) = Len(cmChecks[c]) - 1
      /\ \A i \in 1 .. Len(cmChecks[c]) - 1 : cmChecks'[c][i] = cmChecks[c][i + 1]
  BY CMItEnds
<1>2. Len(cmChecks[c]) \in Nat /\ Len(cmChecks[c]) > 0
  BY CMFirstOf
<1>3. ASSUME NEW i \in 1 .. Len(cmChecks'[c]) PROVE cmChecks'[c][i].stage = "read"
  <2>1. cmChecks'[c][i] = cmChecks[c][i + 1] /\ i + 1 \in 2 .. Len(cmChecks[c])
    BY <1>1, <1>2
  <2> QED
    BY <2>1 DEF CMOthersWait
<1> QED
  <2>0. PICK m, n : m = Len(cmChecks'[c]) /\ n = Len(cmChecks[c])
    OBVIOUS
  <2>4. n \in Nat /\ n > 0 /\ m = n - 1 /\ m \in Nat
    BY <1>1, <1>2, <2>0
  <2>5. m > 0 => 1 \in 1 .. m
    BY <2>4
  <2>6. 1 \in 1 .. m => cmChecks'[c][1].stage = "read"
    BY <1>3, <2>0
  <2>1. m > 0 => CMFirst(c)'.stage = "read"
    BY <2>5, <2>6 DEF CMFirst
  <2>7. n # 1 => m > 1 \/ m = 1
    BY <2>4
  <2>2. \A i \in 2 .. Len(cmChecks'[c]) : cmChecks'[c][i].stage = "read"
    BY <1>3
  <2>3. Len(cmChecks[c]) # 1 =>
          Len(cmChecks'[c]) > 1 \/ (Len(cmChecks'[c]) = 1 /\ CMFirst(c)'.stage = "read")
    BY <2>0, <2>1, <2>7
  <2> QED
    BY <1>1, <1>2, <2>0, <2>1, <2>2, <2>3

LEMMA CMEnds ==
  ASSUME CMInv, NEW c \in Config, cmChecks[c] # <<>>, CM!Ended(c), CMFirst(c).stage # "writing",
         UNCHANGED <<file, configs, notices, cmWrites, history>>, cmMissed' \in BOOLEAN,
         raced' \in BOOLEAN,
         \/ cmMissed'
         \/ /\ cmMissed' = cmMissed /\ CMFirst(c).stage = "compare"
            /\ Len(history) > 0 /\ CMFirst(c).value = history[Len(history)]
  PROVE  /\ CMTypes' /\ CMFresh' /\ CMWriters' /\ CMSomebodySees'
         /\ \A d \in Config : CMCompared(d)' => CMCompared(d) /\ CMFirst(d)' = CMFirst(d)
<1> USE DEF CMInv, CMFresh, CMWriters
<1>1. /\ cmChecks' = [cmChecks EXCEPT ![c] = Tail(cmChecks[c])] /\ cmChecks \in [Config -> Seq(CMCheckMade)]
      /\ cmChecks'[c] = Tail(cmChecks[c]) /\ \A d \in Config \ {c} : cmChecks'[d] = cmChecks[d]
  BY DEF CM!Ended, CMTypes
<1>2. /\ Len(cmChecks'[c]) = Len(cmChecks[c]) - 1 /\ Len(cmChecks[c]) \in Nat /\ Len(cmChecks[c]) > 0
      /\ cmChecks'[c] \in Seq(CMCheckMade)
      /\ Len(cmChecks'[c]) > 0 => CMFirst(c)'.stage = "read"
      /\ \A i \in 2 .. Len(cmChecks'[c]) : cmChecks'[c][i].stage = "read"
      /\ Len(cmChecks[c]) # 1 =>
           Len(cmChecks'[c]) > 1 \/ (Len(cmChecks'[c]) = 1 /\ CMFirst(c)'.stage = "read")
  BY <1>1, CMNextOne
<1>3. \A d \in Config \ {c} : CMFirst(d)' = CMFirst(d)
  BY <1>1 DEF CMFirst
<1>4. CMTypes'
  BY <1>1, <1>2 DEF CMTypes
<1>5. CMOnlyLiveCheck'
  <2>1. configs[c] = "live"
    BY DEF CMOnlyLiveCheck
  <2> QED
    BY <1>1, <2>1 DEF CMOnlyLiveCheck
<1>6. CMOthersWait'
  BY <1>1, <1>2 DEF CMOthersWait
<1>7. \A d, check : CMBegun(d, check)' <=> CMBegun(d, check)
  BY DEF CMBegun, CM!Current
<1>8. CMLastIsFresh'
  <2>1. \A d \in Config \ {c} : d \notin notices' /\ Len(cmChecks'[d]) = 1 => CMBegun(d, CMFirst(d))'
    BY <1>1, <1>3, <1>7 DEF CMLastIsFresh
  <2>2. Len(cmChecks'[c]) > 0 => CMBegun(c, CMFirst(c))'
    BY <1>2 DEF CMBegun
  <2> QED
    BY <2>1, <2>2 DEF CMLastIsFresh
<1>9. CMWritesAreOfChecks'
  <2>1. \A i \in 1 .. Len(cmWrites) : c \notin cmWrites[i].config
    BY DEF CMWritesAreOfChecks
  <2>2. \A i \in 1 .. Len(cmWrites) : cmWrites[i].config \subseteq Config
    BY CMWritersExist
  <2> QED
    BY <1>1, <1>3, <2>1, <2>2 DEF CMWritesAreOfChecks
<1>10. CMWritersAreApart' /\ CMWritersAreThere' /\ CMWritesFollow'
  BY DEF CMWritersAreApart, CMWritersAreThere, CMWritesFollow, CMTypes
<1>11. \A d \in Config \ {c} : CMWillSee(d) => CMWillSee(d)'
  BY <1>1, <1>3 DEF CMWillSee
<1>12. CMIsCurrent' <=> CMIsCurrent
  BY DEF CMIsCurrent, CM!Current
<1>13. ASSUME ~cmMissed', ~CMIsCurrent, CMWillSee(c) PROVE CMWillSee(c)'
  <2>1. CMFirst(c).stage = "compare" /\ Len(history) > 0 /\ CMFirst(c).value = history[Len(history)]
    BY <1>13
  <2>2. c \in notices \/ Len(cmChecks[c]) # 1
    <3> SUFFICES ASSUME c \notin notices, Len(cmChecks[c]) = 1 PROVE FALSE
      OBVIOUS
    <3>1. CMFirst(c).value \in CM!Current
      BY <2>1 DEF CMLastIsFresh, CMBegun
    <3> QED
      BY <1>13, <2>1, <3>1 DEF CMIsCurrent
  <2> QED
    BY <1>2, <2>2 DEF CMWillSee
<1>14. CMSomebodySees'
  BY <1>11, <1>12, <1>13 DEF CMSomebodySees
<1>15. \A d \in Config : CMCompared(d)' => CMCompared(d) /\ CMFirst(d)' = CMFirst(d)
  BY <1>1, <1>2, <1>3 DEF CMCompared
<1> QED
  BY <1>4, <1>5, <1>6, <1>8, <1>9, <1>10, <1>14, <1>15

LEMMA CMReadContentsStep ==
  ASSUME CMInv, NEW c \in Config, CM!ReadContents(c)
  PROVE  CMInv'
<1> USE DEF CMInv
<1>1. /\ cmChecks[c] # <<>> /\ Head(cmChecks[c]) = CMFirst(c) /\ CMFirst(c) \in CMCheckMade
      /\ CMFirst(c).stage = "read"
  BY CMItRuns DEF CM!ReadContents
<1>2. UNCHANGED <<file, configs, notices, cmWrites, history, log, raced, cmMissed>> /\ raced \in BOOLEAN
  BY DEF CM!ReadContents, CMTypes
<1>3. PICK r : /\ r = (IF file = cmUnset
                       THEN [CMFirst(c) EXCEPT !.stage = "compare", !.value = CM!Missing]
                       ELSE [CMFirst(c) EXCEPT !.stage = "reading",
                               !.value = [exists |-> TRUE, type |-> Type[c], data |-> file,
                                          rest |-> cmUnset]])
  OBVIOUS
<1>4. CM!Continue(c, r)
  BY <1>1, <1>3 DEF CM!ReadContents
<1>5. r \in CMCheckMade /\ r.stage \in {"compare", "reading"} /\ CMBegun(c, r)
  <2>1. CASE file = cmUnset
    <3>1. r = [CMFirst(c) EXCEPT !.stage = "compare", !.value = CM!Missing]
      BY <1>3, <2>1
    <3>2. r \in CMCheckMade /\ r.stage = "compare" /\ r.value = CM!Missing
      BY <1>1, <3>1 DEF CMCheckMade, CM!Stages, CMValues, CMRead, CM!Missing
    <3> QED
      BY <2>1, <3>2 DEF CMBegun, CM!Current
  <2>2. CASE file # cmUnset
    <3>1. PICK v : v = [exists |-> TRUE, type |-> Type[c], data |-> file, rest |-> cmUnset]
      OBVIOUS
    <3>2. v \in CMValues
      BY <2>2, <3>1 DEF CMValues, CMRead, CMTypes
    <3>3. r = [CMFirst(c) EXCEPT !.stage = "reading", !.value = v]
      BY <1>3, <2>2, <3>1
    <3>4. r \in CMCheckMade /\ r.stage = "reading" /\ r.value = v
      BY <1>1, <3>2, <3>3 DEF CMCheckMade, CM!Stages
    <3> QED
      BY <2>2, <3>1, <3>4 DEF CMBegun
  <2> QED
    BY <2>1, <2>2
<1>6. CMTypes' /\ CMFresh' /\ CMWriters' /\ CMSomebodySees'
  BY <1>1, <1>2, <1>4, <1>5, CMAdvances
<1>7. \A d \in Config : CMCompared(d)' => CMCompared(d) /\ CMFirst(d)' = CMFirst(d)
  BY <1>1, <1>4, <1>5, CMItContinues DEF CMCompared, CMFirst
<1> QED
  BY <1>2, <1>6, <1>7, CMSameRace

LEMMA CMReadRestStep ==
  ASSUME CMInv, NEW c \in Config, CM!ReadRest(c)
  PROVE  CMInv'
<1> USE DEF CMInv
<1>1. /\ cmChecks[c] # <<>> /\ Head(cmChecks[c]) = CMFirst(c) /\ CMFirst(c) \in CMCheckMade
      /\ CMFirst(c).stage = "reading" /\ file # cmUnset
  BY CMItRuns DEF CM!ReadRest
<1>2. UNCHANGED <<file, configs, notices, cmWrites, history, log, raced, cmMissed>> /\ raced \in BOOLEAN
  BY DEF CM!ReadRest, CMTypes
<1>3. PICK r : r = [CMFirst(c) EXCEPT !.stage = "compare", !.value.rest = file]
  OBVIOUS
<1>4. CM!Continue(c, r)
  BY <1>1, <1>3 DEF CM!ReadRest
<1>5. PICK v : v = [CMFirst(c).value EXCEPT !.rest = file]
  OBVIOUS
<1>6. CMFirst(c).value \in CMValues
  BY <1>1 DEF CMCheckMade
<1>7. v \in CMValues
  BY <1>5, <1>6 DEF CMValues, CMTypes
<1>8. r = [CMFirst(c) EXCEPT !.stage = "compare", !.value = v]
  BY <1>1, <1>3, <1>5 DEF CMCheckMade
<1>9. r \in CMCheckMade /\ r.stage = "compare" /\ r.value = v
  BY <1>1, <1>7, <1>8 DEF CMCheckMade, CM!Stages
<1>10. ASSUME c \notin notices, Len(cmChecks[c]) = 1 PROVE CMBegun(c, r)
  <2>1. CMFirst(c).value = [exists |-> TRUE, type |-> Type[c], data |-> file, rest |-> cmUnset]
    BY <1>1, <1>10 DEF CMFresh, CMLastIsFresh, CMBegun
  <2>2. PICK w : w = CMFirst(c).value
    OBVIOUS
  <2>3. w \in CMValues /\ v = [w EXCEPT !.rest = file]
        /\ w = [exists |-> TRUE, type |-> Type[c], data |-> file, rest |-> cmUnset]
    BY <1>5, <1>6, <2>1, <2>2
  <2>4. w.exists = TRUE /\ w.type = Type[c] /\ w.data = file
    BY <2>3
  <2>5. v.exists = TRUE /\ v.type = Type[c] /\ v.data = file /\ v.rest = file
    BY <2>3, <2>4 DEF CMValues
  <2>6. v = [exists |-> TRUE, type |-> Type[c], data |-> file, rest |-> file]
    BY <1>7, <2>5 DEF CMValues
  <2> QED
    BY <1>1, <1>9, <2>6 DEF CMBegun, CM!Current
<1>11. CMTypes' /\ CMFresh' /\ CMWriters' /\ CMSomebodySees'
  BY <1>1, <1>2, <1>4, <1>9, <1>10, CMAdvances
<1>12. \A d \in Config : CMCompared(d)' => CMCompared(d) /\ CMFirst(d)' = CMFirst(d)
  BY <1>1, <1>4, <1>9, CMItContinues DEF CMCompared, CMFirst
<1> QED
  BY <1>2, <1>11, <1>12, CMSameRace

LEMMA CMReadFailsStep ==
  ASSUME CMInv, NEW c \in Config, CM!ReadFails(c)
  PROVE  CMInv'
<1> USE DEF CMInv
<1>1. /\ cmChecks[c] # <<>> /\ Head(cmChecks[c]) = CMFirst(c) /\ CMFirst(c) \in CMCheckMade
      /\ CMFirst(c).stage \in {"read", "reading"}
  BY CMItRuns DEF CM!ReadFails
<1>2. UNCHANGED <<file, configs, notices, cmWrites, history, log, raced>> /\ raced \in BOOLEAN
  BY DEF CM!ReadFails, CMTypes
<1>3. CASE CMFirst(c).tries < MaxRetries
  <2>1. PICK r : r = [CMFirst(c) EXCEPT !.stage = "read", !.tries = @ + 1]
    OBVIOUS
  <2>2. CM!Continue(c, r) /\ UNCHANGED cmMissed
    BY <1>1, <1>3, <2>1 DEF CM!ReadFails
  <2>3. r \in CMCheckMade /\ r.stage = "read"
    <3>1. PICK t : t = CMFirst(c).tries + 1
      OBVIOUS
    <3>2. t \in Nat
      BY <1>1, <3>1 DEF CMCheckMade
    <3>3. r = [CMFirst(c) EXCEPT !.stage = "read", !.tries = t]
      BY <1>1, <2>1, <3>1 DEF CMCheckMade
    <3> QED
      BY <1>1, <3>2, <3>3 DEF CMCheckMade, CM!Stages
  <2>4. CMBegun(c, r)
    BY <2>3 DEF CMBegun
  <2>5. CMTypes' /\ CMFresh' /\ CMWriters' /\ CMSomebodySees'
    BY <1>1, <1>2, <2>2, <2>3, <2>4, CMAdvances
  <2>6. \A d \in Config : CMCompared(d)' => CMCompared(d) /\ CMFirst(d)' = CMFirst(d)
    BY <1>1, <2>2, <2>3, CMItContinues DEF CMCompared, CMFirst
  <2> QED
    BY <1>2, <2>5, <2>6, CMSameRace
<1>4. CASE ~(CMFirst(c).tries < MaxRetries)
  <2>1. CM!Ended(c) /\ cmMissed'
    BY <1>1, <1>4 DEF CM!ReadFails
  <2>2. cmMissed' \in BOOLEAN
    BY <1>1, <1>4 DEF CM!ReadFails
  <2>3. /\ CMTypes' /\ CMFresh' /\ CMWriters' /\ CMSomebodySees'
        /\ \A d \in Config : CMCompared(d)' => CMCompared(d) /\ CMFirst(d)' = CMFirst(d)
    BY <1>1, <1>2, <2>1, <2>2, CMEnds
  <2> QED
    BY <1>2, <2>3, CMSameRace
<1> QED
  BY <1>3, <1>4

LEMMA CMReadOldStep ==
  ASSUME CMInv, NEW c \in Config, CM!ReadOld(c)
  PROVE  CMInv'
<1> USE DEF CMInv
<1>1. /\ cmChecks[c] # <<>> /\ Head(cmChecks[c]) = CMFirst(c) /\ CMFirst(c) \in CMCheckMade
      /\ CMFirst(c).stage = "compare"
  BY CMItRuns DEF CM!ReadOld
<1>2. UNCHANGED <<file, configs, notices, cmWrites, history, log, cmMissed>> /\ cmMissed \in BOOLEAN
  BY DEF CM!ReadOld, CMTypes
<1>3. raced' = (raced \/ CM!Overlaps(c)) /\ raced \in BOOLEAN /\ raced' \in BOOLEAN
  BY DEF CM!ReadOld, CMTypes
<1>4. history \in Seq(CMValues) /\ Len(history) \in Nat /\ (history # <<>> <=> Len(history) > 0)
  BY DEF CMTypes
<1>5. CM!Last(history) = history[Len(history)]
  BY DEF CM!Last
<1>6. CASE CM!Same(CMFirst(c))
  <2>1. CM!Ended(c)
    BY <1>1, <1>6 DEF CM!ReadOld
  <2>2. Len(history) > 0 /\ CMFirst(c).value = history[Len(history)]
    BY <1>4, <1>5, <1>6 DEF CM!Same
  <2>3. /\ CMTypes' /\ CMFresh' /\ CMWriters' /\ CMSomebodySees'
        /\ \A d \in Config : CMCompared(d)' => CMCompared(d) /\ CMFirst(d)' = CMFirst(d)
    BY <1>1, <1>2, <1>3, <2>1, <2>2, CMEnds
  <2>4. CASE raced' = raced
    BY <1>2, <2>3, <2>4, CMSameRace
  <2>5. CASE raced'
    BY <2>3, <2>5 DEF CMUnraced, CMOneCompares, CMComparedIsLast, CMWrittenIsNext,
       CMEntriesAreLogged
  <2> QED
    BY <1>3, <2>4, <2>5
<1>7. CASE ~CM!Same(CMFirst(c))
  <2>1. PICK r : r = (IF history = <<>>
                      THEN [CMFirst(c) EXCEPT !.stage = "logged", !.old = 0]
                      ELSE [CMFirst(c) EXCEPT !.stage = "log", !.old = Len(history),
                                            !.before = CM!Last(history)])
    OBVIOUS
  <2>2. CM!Continue(c, r)
    BY <1>1, <1>7, <2>1 DEF CM!ReadOld
  <2>3. /\ r \in CMCheckMade /\ r.old = Len(history) /\ r.value = CMFirst(c).value
        /\ r.stage = "logged" => Len(history) = 0
        /\ r.stage \in {"log", "logged"}
        /\ r.stage = "log" => Len(history) > 0 /\ r.before = history[Len(history)]
    <3>1. CASE history = <<>>
      <4>1. r = [CMFirst(c) EXCEPT !.stage = "logged", !.old = 0]
        BY <2>1, <3>1
      <4> QED
        BY <1>1, <1>4, <3>1, <4>1 DEF CMCheckMade, CM!Stages
    <3>2. CASE history # <<>>
      <4>1. r = [CMFirst(c) EXCEPT !.stage = "log", !.old = Len(history),
                                 !.before = history[Len(history)]]
        BY <1>5, <2>1, <3>2
      <4>2. history[Len(history)] \in CMValues
        BY <1>4, <3>2
      <4> QED
        BY <1>1, <1>4, <3>2, <4>1, <4>2 DEF CMCheckMade, CM!Stages
    <3> QED
      BY <3>1, <3>2
  <2>4. ASSUME c \notin notices, Len(cmChecks[c]) = 1 PROVE CMBegun(c, r)
    <3>1. CMFirst(c).value \in CM!Current
      BY <1>1, <2>4 DEF CMFresh, CMLastIsFresh, CMBegun
    <3> QED
      BY <2>3, <3>1 DEF CMBegun
  <2>5. CMTypes' /\ CMFresh' /\ CMWriters' /\ CMSomebodySees'
    BY <1>1, <1>2, <1>3, <2>2, <2>3, <2>4, CMAdvances
  <2>6. /\ Len(cmChecks'[c]) > 0 /\ CMFirst(c)' = r
        /\ \A d \in Config \ {c} : CMCompared(d)' => CMCompared(d) /\ CMFirst(d)' = CMFirst(d)
    BY <1>1, <2>2, <2>3, CMItContinues, CMFirstOf DEF CMCompared, CMFirst
  <2>7. ASSUME ~raced'
        PROVE  ~raced /\ Len(cmWrites) = 0 /\ \A d \in Config \ {c} : ~CMCompared(d)
    <3>1. ~raced /\ ~CM!Overlaps(c)
      BY <1>3, <2>7
    <3>2. cmWrites = <<>>
      BY <3>1 DEF CM!Overlaps
    <3>3. ASSUME NEW d \in Config \ {c}, CMCompared(d) PROVE FALSE
      <4>1. cmChecks[d] \in Seq(CMCheckMade)
        BY DEF CMTypes
      <4>2. cmChecks[d] # <<>> /\ Head(cmChecks[d]) = CMFirst(d)
        BY <3>3, <4>1, CMFirstOf DEF CMCompared
      <4> QED
        BY <3>1, <3>3, <4>2 DEF CM!Overlaps, CMCompared
    <3> QED
      BY <3>1, <3>2, <3>3
  <2>8. CMOneCompares'
    BY <1>2, <2>6, <2>7 DEF CMOneCompares
  <2>9. CMDiffers(CMFirst(c).value)
    BY <1>4, <1>5, <1>7 DEF CM!Same, CMDiffers
  <2>10. CMComparedIsLast'
    <3>1. ASSUME ~raced', NEW d \in Config, CMCompared(d)'
          PROVE  d = c
      BY <2>6, <2>7, <3>1
    <3>2. CMFirst(c)'.old = Len(history)' /\ CMDiffers(CMFirst(c).value)'
      BY <1>2, <2>3, <2>6, <2>9 DEF CMDiffers
    <3>3. CMFirst(c)'.stage = "log" => Len(history)' > 0 /\ CMFirst(c)'.before = history'[Len(history)']
      BY <1>2, <2>3, <2>6
    <3>4. CMFirst(c)'.stage = "logged" => CMIsLogged(CMFirst(c).value)'
      BY <1>2, <2>3, <2>6 DEF CMIsLogged
    <3> QED
      BY <3>1, <3>2, <3>3, <3>4 DEF CMComparedIsLast
  <2>11. CMWrittenIsNext'
    BY <1>2, <2>7 DEF CMWrittenIsNext
  <2>12. CMEntriesAreLogged'
    BY <1>2, <2>7 DEF CMEntriesAreLogged, CMUnraced
  <2> QED
    BY <2>5, <2>8, <2>10, <2>11, <2>12 DEF CMUnraced
<1> QED
  BY <1>6, <1>7

LEMMA CMLogChangesStep ==
  ASSUME CMInv, NEW c \in Config, CM!LogChanges(c)
  PROVE  CMInv'
<1> USE DEF CMInv
<1>1. /\ cmChecks[c] # <<>> /\ Head(cmChecks[c]) = CMFirst(c) /\ CMFirst(c) \in CMCheckMade
      /\ CMFirst(c).stage = "log"
  BY CMItRuns DEF CM!LogChanges
<1>2. UNCHANGED <<file, configs, notices, cmWrites, history, cmMissed, raced>> /\ raced \in BOOLEAN
  BY DEF CM!LogChanges, CMTypes
<1>3. log' = log \union {<<CMFirst(c).before, CMFirst(c).value>>}
  BY <1>1 DEF CM!LogChanges
<1>4. PICK r : r = [CMFirst(c) EXCEPT !.stage = "logged"]
  OBVIOUS
<1>5. CM!Continue(c, r)
  BY <1>1, <1>4 DEF CM!LogChanges
<1>6. r \in CMCheckMade /\ r.stage = "logged" /\ r.value = CMFirst(c).value /\ r.old = CMFirst(c).old
  BY <1>1, <1>4 DEF CMCheckMade, CM!Stages
<1>7. ASSUME c \notin notices, Len(cmChecks[c]) = 1 PROVE CMBegun(c, r)
  <2>1. CMFirst(c).value \in CM!Current
    BY <1>1, <1>7 DEF CMFresh, CMLastIsFresh, CMBegun
  <2> QED
    BY <1>6, <2>1 DEF CMBegun
<1>8. CMTypes' /\ CMFresh' /\ CMWriters' /\ CMSomebodySees'
  BY <1>1, <1>2, <1>5, <1>6, <1>7, CMAdvances
<1>9. /\ Len(cmChecks'[c]) > 0 /\ CMFirst(c)' = r /\ Len(cmChecks[c]) > 0
      /\ \A d \in Config \ {c} : CMCompared(d)' <=> CMCompared(d)
      /\ \A d \in Config \ {c} : CMFirst(d)' = CMFirst(d)
  BY <1>1, <1>5, <1>6, CMItContinues, CMFirstOf DEF CMCompared, CMFirst
<1>10. CMCompared(c)
  BY <1>1, <1>9 DEF CMCompared
<1>11. CMOneCompares'
  BY <1>2, <1>9, <1>10 DEF CMOneCompares, CMUnraced
<1>12. ASSUME ~raced' PROVE /\ \A d \in Config \ {c} : ~CMCompared(d)
                            /\ Len(cmWrites) = 0 /\ CMFirst(c).old = Len(history)
                            /\ CMDiffers(CMFirst(c).value) /\ Len(history) > 0
                            /\ CMFirst(c).before = history[Len(history)]
  BY <1>1, <1>2, <1>10, <1>12 DEF CMOneCompares, CMComparedIsLast, CMUnraced
<1>13. CMComparedIsLast'
  <2>1. ASSUME ~raced', NEW d \in Config, CMCompared(d)' PROVE d = c
    BY <1>9, <1>12, <2>1
  <2>2. ASSUME ~raced' PROVE /\ CMFirst(c)'.old = Len(history)' /\ CMDiffers(CMFirst(c).value)'
                             /\ CMFirst(c)'.stage # "log" /\ CMIsLogged(CMFirst(c).value)'
    BY <1>2, <1>3, <1>6, <1>9, <1>12, <2>2 DEF CMDiffers, CMIsLogged
  <2> QED
    BY <2>1, <2>2 DEF CMComparedIsLast
<1>14. CMWrittenIsNext'
  BY <1>2, <1>12 DEF CMWrittenIsNext
<1>15. CMEntriesAreLogged'
  BY <1>2, <1>3 DEF CMEntriesAreLogged, CMUnraced
<1> QED
  BY <1>8, <1>11, <1>13, <1>14, <1>15 DEF CMUnraced

(* A check that fails ends, and the change it saw is missed. *)
LEMMA CMReadOldFailsStep ==
  ASSUME CMInv, NEW c \in Config, CM!ReadOldFails(c)
  PROVE  CMInv'
<1> USE DEF CMInv
<1>1. cmChecks[c] # <<>> /\ CMFirst(c).stage = "compare"
  BY CMItRuns DEF CM!ReadOldFails
<1>2. /\ UNCHANGED <<file, configs, notices, cmWrites, history, log, raced>> /\ raced \in BOOLEAN
      /\ CM!Ended(c) /\ cmMissed' = TRUE
  BY DEF CM!ReadOldFails, CMTypes
<1>3. /\ CMTypes' /\ CMFresh' /\ CMWriters' /\ CMSomebodySees'
      /\ \A d \in Config : CMCompared(d)' => CMCompared(d) /\ CMFirst(d)' = CMFirst(d)
  BY <1>1, <1>2, CMEnds
<1> QED
  BY <1>2, <1>3, CMSameRace

LEMMA CMLogChangesFailsStep ==
  ASSUME CMInv, NEW c \in Config, CM!LogChangesFails(c)
  PROVE  CMInv'
<1> USE DEF CMInv
<1>1. cmChecks[c] # <<>> /\ CMFirst(c).stage = "log"
  BY CMItRuns DEF CM!LogChangesFails
<1>2. /\ UNCHANGED <<file, configs, notices, cmWrites, history, raced>> /\ raced \in BOOLEAN
      /\ CM!Ended(c) /\ cmMissed' = TRUE
  BY DEF CM!LogChangesFails, CMTypes
<1>3. log \subseteq log'
  BY DEF CM!LogChangesFails
<1>4. /\ CMTypes' /\ CMFresh' /\ CMWriters' /\ CMSomebodySees'
      /\ \A d \in Config : CMCompared(d)' => CMCompared(d) /\ CMFirst(d)' = CMFirst(d)
  BY <1>1, <1>2, CMEnds
<1>5. /\ Len(cmWrites') = Len(cmWrites)
      /\ \A i \in 1 .. Len(cmWrites) : cmWrites'[i].at = cmWrites[i].at /\ cmWrites'[i].value = cmWrites[i].value
  BY <1>2
<1> QED
  BY <1>2, <1>3, <1>4, <1>5, CMSameWrites

LEMMA CMAskToWriteStep ==
  ASSUME CMInv, NEW c \in Config, CM!AskToWrite(c)
  PROVE  CMInv'
<1> USE DEF CMInv, CMWriters
<1>1. /\ cmChecks[c] # <<>> /\ Head(cmChecks[c]) = CMFirst(c) /\ CMFirst(c) \in CMCheckMade
      /\ CMFirst(c).stage = "logged"
  BY CMItRuns DEF CM!AskToWrite
<1>2. UNCHANGED <<file, configs, notices, history, log, raced, cmMissed>> /\ raced \in BOOLEAN
  BY DEF CM!AskToWrite, CMTypes
<1>3. PICK r, w : /\ r = [CMFirst(c) EXCEPT !.stage = "writing"]
                  /\ w = [config |-> {c}, value |-> CMFirst(c).value, at |-> CMFirst(c).old + 1]
  OBVIOUS
<1>4. CM!Continue(c, r) /\ cmWrites' = Append(cmWrites, w)
  BY <1>1, <1>3 DEF CM!AskToWrite
<1>5. r \in CMCheckMade /\ r.stage = "writing" /\ r.value = CMFirst(c).value /\ r.old = CMFirst(c).old
  BY <1>1, <1>3 DEF CMCheckMade, CM!Stages
<1>6. w \in CMWriteMade /\ w.config = {c} /\ w.value = r.value /\ w.at = r.old + 1 /\ w.at >= 1
  <2>1. CMFirst(c).old \in Nat /\ CMFirst(c).value \in CMValues
    BY <1>1 DEF CMCheckMade
  <2> QED
    BY <1>3, <1>5, <2>1 DEF CMWriteMade
<1>7. ASSUME c \notin notices, Len(cmChecks[c]) = 1 PROVE CMBegun(c, r)
  <2>1. CMFirst(c).value \in CM!Current
    BY <1>1, <1>7 DEF CMFresh, CMLastIsFresh, CMBegun
  <2> QED
    BY <1>5, <2>1 DEF CMBegun
<1>8. /\ CMFresh' /\ CMSomebodySees'
      /\ cmChecks' \in [Config -> Seq(CMCheckMade)]
      /\ CMFirst(c)' = r /\ \A d \in Config \ {c} : CMFirst(d)' = CMFirst(d)
      /\ \A d \in Config : Len(cmChecks'[d]) = Len(cmChecks[d]) /\ Len(cmChecks[d]) \in Nat
  BY <1>1, <1>2, <1>4, <1>5, <1>7, CMGoesOn
<1>9. /\ cmWrites \in Seq(CMWriteMade) /\ cmWrites' \in Seq(CMWriteMade)
      /\ Len(cmWrites) \in Nat /\ Len(cmWrites') = Len(cmWrites) + 1
      /\ \A i \in 1 .. Len(cmWrites) : cmWrites'[i] = cmWrites[i]
      /\ cmWrites'[Len(cmWrites) + 1] = w
  BY <1>4, <1>6 DEF CMTypes
<1>10. \A i \in 1 .. Len(cmWrites') : i \in 1 .. Len(cmWrites) \/ (i = Len(cmWrites) + 1 /\ cmWrites'[i] = w)
  BY <1>9
<1>11. CMTypes'
  BY <1>2, <1>8, <1>9 DEF CMTypes
<1>12. \A i \in 1 .. Len(cmWrites) : c \notin cmWrites[i].config
  BY <1>1 DEF CMWritesAreOfChecks
<1>13. \A i \in 1 .. Len(cmWrites) : cmWrites[i].config \subseteq Config
  BY CMWritersExist
<1>14. cmChecks[c] \in Seq(CMCheckMade) /\ Len(cmChecks[c]) > 0
  BY <1>1, CMFirstOf DEF CMTypes
<1>15. CMWritesAreOfChecks'
  <2> SUFFICES ASSUME NEW i \in 1 .. Len(cmWrites'), NEW d \in cmWrites'[i].config
               PROVE  /\ Len(cmChecks'[d]) > 0 /\ CMFirst(d)'.stage = "writing"
                      /\ CMFirst(d)'.value = cmWrites'[i].value /\ CMFirst(d)'.old + 1 = cmWrites'[i].at
    BY DEF CMWritesAreOfChecks
  <2>1. CASE i \in 1 .. Len(cmWrites)
    <3>1. cmWrites'[i] = cmWrites[i] /\ d \in Config \ {c}
      BY <1>9, <1>12, <1>13, <2>1
    <3> QED
      BY <1>8, <2>1, <3>1 DEF CMWritesAreOfChecks
  <2>2. CASE cmWrites'[i] = w
    BY <1>5, <1>6, <1>8, <1>14, <2>2
  <2> QED
    BY <1>10, <2>1, <2>2
<1>16. CMWritersAreApart'
  <2>1. ASSUME NEW i \in 1 .. Len(cmWrites'), NEW d \in cmWrites'[i].config, NEW e \in cmWrites'[i].config
        PROVE  d = e
    BY <1>6, <1>9, <1>10, <2>1 DEF CMWritersAreApart
  <2>2. ASSUME NEW i \in 1 .. Len(cmWrites'), NEW j \in 1 .. Len(cmWrites'),
               NEW d \in cmWrites'[i].config, d \in cmWrites'[j].config
        PROVE  i = j
    BY <1>6, <1>9, <1>10, <1>12, <2>2 DEF CMWritersAreApart
  <2> QED
    BY <2>1, <2>2 DEF CMWritersAreApart
<1>17. CMWritersAreThere'
  BY <1>2, <1>6, <1>9, <1>10 DEF CMWritersAreThere
<1>18. CMWritesFollow'
  BY <1>6, <1>9, <1>10 DEF CMWritesFollow
<1>19. CMCompared(c) /\ ~CMCompared(c)' /\ \A d \in Config : CMCompared(d)' => CMCompared(d) /\ CMFirst(d)' = CMFirst(d)
  BY <1>1, <1>5, <1>8, <1>14 DEF CMCompared
<1>20. ASSUME ~raced PROVE /\ Len(cmWrites) = 0 /\ \A d \in Config : ~CMCompared(d)'
                           /\ CMFirst(c).old = Len(history) /\ CMDiffers(CMFirst(c).value)
                           /\ CMIsLogged(CMFirst(c).value)
  <2>1. \A d \in Config : CMCompared(d) => d = c
    BY <1>19, <1>20 DEF CMUnraced, CMOneCompares
  <2>2. Len(cmWrites) = 0
    BY <1>19, <1>20 DEF CMUnraced, CMOneCompares
  <2>3. /\ CMFirst(c).old = Len(history) /\ CMDiffers(CMFirst(c).value)
        /\ CMIsLogged(CMFirst(c).value)
    BY <1>1, <1>19, <1>20 DEF CMUnraced, CMComparedIsLast
  <2> QED
    BY <1>19, <2>1, <2>2, <2>3
<1>21. CMOneCompares' /\ CMComparedIsLast'
  BY <1>2, <1>9, <1>20 DEF CMOneCompares, CMComparedIsLast
<1>22. CMWrittenIsNext'
  <2> SUFFICES ASSUME ~raced', NEW i \in 1 .. Len(cmWrites')
               PROVE  /\ cmWrites'[i].at = Len(history') + 1 /\ CMDiffers(cmWrites[i].value)'
                      /\ CMIsLogged(cmWrites[i].value)'
    BY DEF CMWrittenIsNext
  <2>1. cmWrites'[i] = w
    BY <1>2, <1>9, <1>10, <1>20
  <2> QED
    BY <1>2, <1>5, <1>6, <1>20, <2>1 DEF CMDiffers, CMIsLogged
<1>23. CMEntriesAreLogged'
  BY <1>2 DEF CMEntriesAreLogged, CMUnraced
<1> QED
  BY <1>8, <1>11, <1>15, <1>16, <1>17, <1>18, <1>21, <1>22, <1>23 DEF CMUnraced

(* What the database does with a write: the entry is the last one, or the last one stays. *)
LEMMA CMStoredAt ==
  ASSUME CMTypes, NEW w \in CMWriteMade, w.at >= 1, history' = CM!Stored(history, w)
  PROVE  /\ history' \in Seq(CMValues) /\ Len(history') \in Nat
         /\ w.at > Len(history) =>
              /\ Len(history') = Len(history) + 1 /\ history'[Len(history) + 1] = w.value
              /\ \A n \in 1 .. Len(history) : history'[n] = history[n]
         /\ w.at <= Len(history) => Len(history') = Len(history)
         /\ w.at = Len(history) => history'[Len(history)] = w.value
         /\ w.at < Len(history) => history'[Len(history)] = history[Len(history)]
<1>1. history \in Seq(CMValues) /\ Len(history) \in Nat /\ w.at \in Nat /\ w.value \in CMValues
  BY DEF CMTypes, CMWriteMade
<1>2. DOMAIN history = 1 .. Len(history)
  BY <1>1
<1>3. CASE w.at \in DOMAIN history
  <2>1. history' = [history EXCEPT ![w.at] = w.value]
    BY <1>3 DEF CM!Stored
  <2>2. history' \in Seq(CMValues) /\ Len(history') = Len(history)
    BY <1>1, <1>2, <1>3, <2>1
  <2>3. \A n \in 1 .. Len(history) : history'[n] = IF n = w.at THEN w.value ELSE history[n]
    BY <1>1, <1>2, <1>3, <2>1
  <2>4. w.at <= Len(history) /\ Len(history) \in 1 .. Len(history)
    BY <1>1, <1>2, <1>3
  <2> QED
    BY <1>1, <2>2, <2>3, <2>4
<1>4. CASE w.at \notin DOMAIN history
  <2>1. history' = Append(history, w.value)
    BY <1>4 DEF CM!Stored
  <2>2. w.at > Len(history)
    BY <1>1, <1>2, <1>4
  <2>3. /\ history' \in Seq(CMValues) /\ Len(history') = Len(history) + 1
        /\ history'[Len(history) + 1] = w.value
        /\ \A n \in 1 .. Len(history) : history'[n] = history[n]
    BY <1>1, <2>1
  <2> QED
    BY <1>1, <2>2, <2>3
<1> QED
  BY <1>3, <1>4

(* A write ends, well or not, and with it the check that asked for it. *)
LEMMA CMWriteEnds ==
  ASSUME CMInv, CM!WriteEnds, NEW w, w = cmWrites[1]
  PROVE  /\ w \in CMWriteMade /\ w.config \subseteq Config /\ w.at >= 1 /\ w.at \in Nat
         /\ Head(cmWrites) = w /\ Len(cmWrites) \in Nat /\ Len(cmWrites) > 0
         /\ cmWrites' \in Seq(CMWriteMade) /\ Len(cmWrites') = Len(cmWrites) - 1
         /\ \A i \in 1 .. Len(cmWrites') : i + 1 \in 1 .. Len(cmWrites) /\ cmWrites'[i] = cmWrites[i + 1]
         /\ \A c \in Config \ w.config : cmChecks'[c] = cmChecks[c] /\ CMFirst(c)' = CMFirst(c)
         /\ \A c \in w.config : /\ Len(cmChecks[c]) > 0 /\ CMFirst(c).stage = "writing"
                                /\ CMFirst(c).value = w.value /\ CMFirst(c).old + 1 = w.at
         /\ \A c \in w.config :
              /\ configs[c] = "live"
              /\ Len(cmChecks'[c]) = Len(cmChecks[c]) - 1 /\ Len(cmChecks[c]) \in Nat
              /\ Len(cmChecks'[c]) > 0 => CMFirst(c)'.stage = "read"
              /\ Len(cmChecks[c]) # 1 =>
                   Len(cmChecks'[c]) > 1 \/ (Len(cmChecks'[c]) = 1 /\ CMFirst(c)'.stage = "read")
         /\ cmChecks' \in [Config -> Seq(CMCheckMade)]
         /\ CMFresh' /\ CMWritesAreOfChecks' /\ CMWritersAreApart' /\ CMWritesFollow'
<1> USE DEF CMInv, CMWriters, CMFresh
<1>1. /\ cmWrites # <<>> /\ cmWrites' = Tail(cmWrites)
      /\ UNCHANGED <<file, configs, notices, log, raced>>
  BY DEF CM!WriteEnds
<1>2. /\ cmWrites \in Seq(CMWriteMade) /\ Len(cmWrites) \in Nat /\ Len(cmWrites) > 0
      /\ Head(cmWrites) = cmWrites[1]
  BY <1>1 DEF CMTypes
<1>3. /\ cmWrites' \in Seq(CMWriteMade) /\ Len(cmWrites') = Len(cmWrites) - 1
      /\ \A i \in 1 .. Len(cmWrites) - 1 : cmWrites'[i] = cmWrites[i + 1]
  BY <1>1, <1>2
<1>4. w = cmWrites[1]
  OBVIOUS
<1>5. w \in CMWriteMade /\ w.config \subseteq Config /\ w.at >= 1 /\ w.at \in Nat
  BY <1>2, <1>4, CMWritersExist DEF CMWritesFollow
<1>7. cmChecks' = [c \in Config |-> IF c \in w.config THEN Tail(cmChecks[c]) ELSE cmChecks[c]]
  BY <1>2, <1>4 DEF CM!WriteEnds
<1>8. /\ \A c \in Config \ w.config : cmChecks'[c] = cmChecks[c] /\ CMFirst(c)' = CMFirst(c)
      /\ \A c \in w.config : cmChecks'[c] = Tail(cmChecks[c])
  BY <1>5, <1>7 DEF CMFirst
<1>9. \A c \in w.config : /\ Len(cmChecks[c]) > 0 /\ CMFirst(c).stage = "writing"
                          /\ CMFirst(c).value = w.value /\ CMFirst(c).old + 1 = w.at
  BY <1>2, <1>4 DEF CMWritesAreOfChecks
<1>10. ASSUME NEW c \in w.config
       PROVE  /\ configs[c] = "live"
              /\ Len(cmChecks'[c]) = Len(cmChecks[c]) - 1 /\ Len(cmChecks[c]) \in Nat
              /\ cmChecks'[c] \in Seq(CMCheckMade)
              /\ Len(cmChecks'[c]) > 0 => CMFirst(c)'.stage = "read"
              /\ \A i \in 2 .. Len(cmChecks'[c]) : cmChecks'[c][i].stage = "read"
              /\ Len(cmChecks[c]) # 1 =>
                   Len(cmChecks'[c]) > 1 \/ (Len(cmChecks'[c]) = 1 /\ CMFirst(c)'.stage = "read")
  <2>1. c \in Config
    BY <1>5
  <2>2. cmChecks[c] # <<>>
    BY <1>9
  <2>3. cmChecks'[c] = Tail(cmChecks[c])
    BY <1>8
  <2>4. configs[c] = "live"
    BY <2>1, <2>2 DEF CMOnlyLiveCheck
  <2> QED
    BY <2>1, <2>2, <2>3, <2>4, CMNextOne
<1>12. cmChecks \in [Config -> Seq(CMCheckMade)]
  BY DEF CMTypes
<1>13. cmChecks' \in [Config -> Seq(CMCheckMade)]
  <2>1. \A c \in Config : cmChecks'[c] \in Seq(CMCheckMade)
    BY <1>8, <1>10, <1>12
  <2> QED
    BY <1>7, <2>1
<1>15. CMOnlyLiveCheck' /\ CMOthersWait'
  BY <1>1, <1>8, <1>10 DEF CMOnlyLiveCheck, CMOthersWait
<1>16. CMLastIsFresh'
  <2>1. \A d, check : CMBegun(d, check)' <=> CMBegun(d, check)
    BY <1>1 DEF CMBegun, CM!Current
  <2>2. \A d \in Config \ w.config : d \notin notices' /\ Len(cmChecks'[d]) = 1 => CMBegun(d, CMFirst(d))'
    BY <1>1, <1>8, <2>1 DEF CMLastIsFresh
  <2>3. \A d \in w.config : Len(cmChecks'[d]) = 1 => CMBegun(d, CMFirst(d))'
    <3>1. \A d \in w.config : Len(cmChecks'[d]) = 1 => CMFirst(d)'.stage = "read"
      BY <1>10
    <3> QED
      BY <3>1 DEF CMBegun
  <2> QED
    BY <2>2, <2>3 DEF CMLastIsFresh
<1>17. \A i \in 1 .. Len(cmWrites') : i + 1 \in 1 .. Len(cmWrites) /\ cmWrites'[i] = cmWrites[i + 1]
  BY <1>2, <1>3
<1>18. ASSUME NEW i \in 1 .. Len(cmWrites'), NEW c \in cmWrites'[i].config PROVE c \in Config \ w.config
  <2>1. i + 1 \in 1 .. Len(cmWrites) /\ c \in cmWrites[i + 1].config /\ i + 1 # 1 /\ 1 \in 1 .. Len(cmWrites)
    BY <1>2, <1>3, <1>17
  <2>2. c \in Config
    BY <2>1, CMWritersExist
  <2>3. c \notin cmWrites[1].config
    BY <2>1 DEF CMWritersAreApart
  <2> QED
    BY <1>4, <2>2, <2>3
<1>19. CMWritesAreOfChecks'
  <2> SUFFICES ASSUME NEW i \in 1 .. Len(cmWrites'), NEW c \in cmWrites'[i].config
               PROVE  /\ Len(cmChecks'[c]) > 0 /\ CMFirst(c)'.stage = "writing"
                      /\ CMFirst(c)'.value = cmWrites'[i].value /\ CMFirst(c)'.old + 1 = cmWrites'[i].at
    BY DEF CMWritesAreOfChecks
  <2>1. c \in Config \ w.config
    BY <1>18
  <2>2. i + 1 \in 1 .. Len(cmWrites) /\ cmWrites'[i] = cmWrites[i + 1]
    BY <1>17
  <2> QED
    BY <1>8, <2>1, <2>2 DEF CMWritesAreOfChecks
<1>20. CMWritersAreApart'
  <2>1. ASSUME NEW i \in 1 .. Len(cmWrites'), NEW c \in cmWrites'[i].config, NEW d \in cmWrites'[i].config
        PROVE  c = d
    BY <1>17, <2>1 DEF CMWritersAreApart
  <2>2. ASSUME NEW i \in 1 .. Len(cmWrites'), NEW j \in 1 .. Len(cmWrites'),
               NEW c \in cmWrites'[i].config, c \in cmWrites'[j].config
        PROVE  i = j
    <3>1. i + 1 = j + 1
      BY <1>17, <2>2 DEF CMWritersAreApart
    <3> QED
      BY <1>3, <3>1
  <2> QED
    BY <2>1, <2>2 DEF CMWritersAreApart
<1>21. CMWritesFollow'
  BY <1>17 DEF CMWritesFollow
<1>22. \A c \in w.config :
         /\ configs[c] = "live"
         /\ Len(cmChecks'[c]) = Len(cmChecks[c]) - 1 /\ Len(cmChecks[c]) \in Nat
         /\ Len(cmChecks'[c]) > 0 => CMFirst(c)'.stage = "read"
         /\ Len(cmChecks[c]) # 1 =>
              Len(cmChecks'[c]) > 1 \/ (Len(cmChecks'[c]) = 1 /\ CMFirst(c)'.stage = "read")
  BY <1>10
<1> HIDE DEF CMInv, CMWriters
<1> QED
  BY <1>2, <1>3, <1>4, <1>5, <1>8, <1>9, <1>13, <1>15, <1>16, <1>17, <1>19, <1>20, <1>21, <1>22

LEMMA CMWriteStep ==
  ASSUME CMInv, CM!Write
  PROVE  CMInv'
<1> USE DEF CMInv, CMWriters, CMFresh
<1>1. CM!WriteEnds /\ UNCHANGED <<file, configs, notices, log, raced, cmMissed>>
  BY DEF CM!Write, CM!WriteEnds
<1>2. PICK w : w = cmWrites[1]
  OBVIOUS
<1>3. /\ w \in CMWriteMade /\ w.config \subseteq Config /\ w.at >= 1 /\ w.at \in Nat
      /\ Head(cmWrites) = w /\ Len(cmWrites) \in Nat /\ Len(cmWrites) > 0
      /\ cmWrites' \in Seq(CMWriteMade) /\ Len(cmWrites') = Len(cmWrites) - 1
  BY <1>1, <1>2, CMWriteEnds
<1>4. w = cmWrites[1] /\ 1 \in 1 .. Len(cmWrites)
  BY <1>2, <1>3
<1>5. w \in CMWriteMade /\ w.config \subseteq Config /\ w.at >= 1 /\ w.at \in Nat
  BY <1>3
<1>6. history' = CM!Stored(history, w)
  BY <1>3 DEF CM!Write
<1>8. \A c \in Config \ w.config : cmChecks'[c] = cmChecks[c] /\ CMFirst(c)' = CMFirst(c)
  BY <1>1, <1>2, CMWriteEnds
<1>9. \A c \in w.config : /\ Len(cmChecks[c]) > 0 /\ CMFirst(c).stage = "writing"
                          /\ CMFirst(c).value = w.value /\ CMFirst(c).old + 1 = w.at
  BY <1>1, <1>2, CMWriteEnds
<1>10. \A c \in w.config :
         /\ configs[c] = "live"
         /\ Len(cmChecks'[c]) = Len(cmChecks[c]) - 1 /\ Len(cmChecks[c]) \in Nat
         /\ Len(cmChecks'[c]) > 0 => CMFirst(c)'.stage = "read"
         /\ Len(cmChecks[c]) # 1 =>
              Len(cmChecks'[c]) > 1 \/ (Len(cmChecks'[c]) = 1 /\ CMFirst(c)'.stage = "read")
  BY <1>1, <1>2, CMWriteEnds
<1>11. /\ history' \in Seq(CMValues) /\ Len(history') \in Nat
       /\ w.at > Len(history) =>
            /\ Len(history') = Len(history) + 1 /\ history'[Len(history) + 1] = w.value
            /\ \A n \in 1 .. Len(history) : history'[n] = history[n]
       /\ w.at <= Len(history) => Len(history') = Len(history)
       /\ w.at = Len(history) => history'[Len(history)] = w.value
       /\ w.at < Len(history) => history'[Len(history)] = history[Len(history)]
  BY <1>5, <1>6, CMStoredAt
<1>12. Len(history) \in Nat
  BY DEF CMTypes
<1>13. /\ cmChecks' \in [Config -> Seq(CMCheckMade)]
       /\ CMFresh' /\ CMWritesAreOfChecks' /\ CMWritersAreApart' /\ CMWritesFollow'
  BY <1>1, <1>2, CMWriteEnds
<1>14. CMTypes'
  BY <1>1, <1>3, <1>11, <1>13 DEF CMTypes
<1>17. \A i \in 1 .. Len(cmWrites') : i + 1 \in 1 .. Len(cmWrites) /\ cmWrites'[i] = cmWrites[i + 1]
  BY <1>1, <1>2, CMWriteEnds
<1>21. CMWritersAreThere'
  BY <1>1, <1>17 DEF CMWritersAreThere
<1>22. CMSomebodySees'
  <2> SUFFICES ASSUME ~cmMissed', ~CMIsCurrent', NEW c \in Config, configs'[c] = "live"
               PROVE  \E d \in Config : configs'[d] = "live" /\ CMWillSee(d)'
    BY DEF CMSomebodySees
  <2>1. CASE w.at < Len(history)
    <3>1. ~CMIsCurrent
      <4>1. Len(history') = Len(history) /\ history'[Len(history)] = history[Len(history)]
        BY <1>5, <1>11, <1>12, <2>1
      <4> QED
        BY <1>1, <4>1 DEF CMIsCurrent, CM!Current
    <3>2. PICK d \in Config : configs[d] = "live" /\ CMWillSee(d)
      BY <1>1, <3>1 DEF CMSomebodySees
    <3>3. CASE d \notin w.config
      <4>1. CMWillSee(d)'
        <5>1. Len(history') = Len(history)
          BY <1>5, <1>11, <1>12, <2>1
        <5>2. notices' = notices /\ cmChecks'[d] = cmChecks[d] /\ CMFirst(d)' = CMFirst(d)
          BY <1>1, <1>8, <3>3
        <5> QED
          BY <3>2, <5>1, <5>2 DEF CMWillSee
      <4> QED
        BY <1>1, <3>2, <4>1
    <3>4. CASE d \in w.config
      <4>1. d \in notices \/ Len(cmChecks[d]) # 1
        <5> SUFFICES ASSUME d \notin notices, Len(cmChecks[d]) = 1 PROVE FALSE
          OBVIOUS
        <5>1. CMFirst(d).stage = "writing" /\ CMFirst(d).old + 1 = w.at
          BY <1>9, <3>4
        <5>2. CMFirst(d).stage \in {"read", "reading", "compare"} \/ w.at >= Len(history)
          BY <3>2, <5>1 DEF CMWillSee
        <5> QED
          BY <1>5, <1>12, <2>1, <5>1, <5>2
      <4>2. CMWillSee(d)'
        BY <1>1, <1>10, <3>4, <4>1 DEF CMWillSee
      <4> QED
        BY <1>1, <3>2, <4>2
    <3> QED
      BY <3>3, <3>4
  <2>2. CASE w.at >= Len(history)
    <3>1. Len(history') > 0 /\ history'[Len(history')] = w.value
      <4>1. CASE w.at = Len(history)
        BY <1>5, <1>11, <1>12, <4>1
      <4>2. CASE w.at > Len(history)
        BY <1>5, <1>11, <1>12, <4>2
      <4> QED
        BY <1>5, <1>12, <2>2, <4>1, <4>2
    <3>2. w.value \notin CM!Current
      BY <1>1, <3>1 DEF CMIsCurrent, CM!Current
    <3>3. PICK d : d \in w.config
      BY <1>1, <1>4 DEF CMWritersAreThere
    <3>4. d \in Config /\ CMFirst(d).stage = "writing" /\ CMFirst(d).value = w.value
      BY <1>5, <1>9, <3>3
    <3>5. d \in notices \/ Len(cmChecks[d]) # 1
      BY <3>2, <3>4 DEF CMLastIsFresh, CMBegun
    <3>6. CMWillSee(d)'
      BY <1>1, <1>10, <3>3, <3>5 DEF CMWillSee
    <3>7. configs'[d] = "live"
      BY <1>1, <1>10, <3>3
    <3> QED
      BY <3>4, <3>6, <3>7
  <2> QED
    BY <1>5, <1>12, <2>1, <2>2
<1>23. \A c \in Config : CMCompared(c)' => CMCompared(c)
  BY <1>8, <1>10 DEF CMCompared
<1>24. ASSUME ~raced PROVE /\ Len(cmWrites') = 0 /\ \A c \in Config : ~CMCompared(c)'
                           /\ w.at = Len(history) + 1 /\ CMDiffers(w.value) /\ CMIsLogged(w.value)
  <2>1. Len(cmWrites) <= 1 /\ \A c \in Config : CMCompared(c) => Len(cmWrites) = 0
    BY <1>24 DEF CMUnraced, CMOneCompares
  <2>2. w.at = Len(history) + 1 /\ CMDiffers(w.value) /\ CMIsLogged(w.value)
    BY <1>4, <1>24 DEF CMUnraced, CMWrittenIsNext
  <2> QED
    BY <1>3, <1>23, <2>1, <2>2
<1>25. CMOneCompares' /\ CMComparedIsLast'
  <2>1. ~raced' => Len(cmWrites') = 0 /\ \A c \in Config : ~CMCompared(c)'
    BY <1>1, <1>24
  <2>2. CMOneCompares'
    BY <2>1 DEF CMOneCompares
  <2>3. CMComparedIsLast'
    BY <2>1 DEF CMComparedIsLast
  <2> QED
    BY <2>2, <2>3
<1>26. CMWrittenIsNext'
  <2>1. ~raced' => Len(cmWrites') = 0
    BY <1>1, <1>24
  <2> QED
    BY <2>1 DEF CMWrittenIsNext
<1>27. CMEntriesAreLogged'
  <2> SUFFICES ASSUME ~raced', NEW n \in 2 .. Len(history')
               PROVE  history'[n] # history'[n - 1] /\ <<history'[n - 1], history'[n]>> \in log'
    BY DEF CMEntriesAreLogged
  <2>1. /\ w.at = Len(history) + 1 /\ CMDiffers(w.value) /\ CMIsLogged(w.value)
        /\ \A k \in 2 .. Len(history) : /\ history[k] # history[k - 1]
                                        /\ <<history[k - 1], history[k]>> \in log
    BY <1>1, <1>24 DEF CMUnraced, CMEntriesAreLogged
  <2>2. /\ Len(history') = Len(history) + 1 /\ history'[Len(history) + 1] = w.value
        /\ \A k \in 1 .. Len(history) : history'[k] = history[k]
    BY <1>11, <1>12, <2>1
  <2>3. CASE n \in 2 .. Len(history)
    <3>1. n - 1 \in 1 .. Len(history) /\ n \in 1 .. Len(history)
      BY <1>12, <2>3
    <3>2. history'[n] = history[n] /\ history'[n - 1] = history[n - 1]
      BY <2>2, <3>1
    <3>3. history[n] # history[n - 1] /\ <<history[n - 1], history[n]>> \in log
      BY <2>1, <2>3
    <3>4. log' = log
      BY <1>1
    <3> QED
      BY <3>2, <3>3, <3>4
  <2>4. CASE n = Len(history) + 1
    <3>1. n - 1 = Len(history) /\ Len(history) > 0 /\ Len(history) \in 1 .. Len(history)
      BY <1>12, <2>4
    <3>2. history'[n] = w.value /\ history'[n - 1] = history[Len(history)]
      BY <2>2, <2>4, <3>1
    <3>3. /\ w.value # history[Len(history)]
          /\ <<history[Len(history)], w.value>> \in log
      BY <2>1, <3>1 DEF CMDiffers, CMIsLogged
    <3>4. log' = log
      BY <1>1
    <3> QED
      BY <3>2, <3>3, <3>4
  <2> QED
    BY <1>12, <2>2, <2>3, <2>4
<1> QED
  BY <1>13, <1>14, <1>21, <1>22, <1>25, <1>26, <1>27 DEF CMUnraced

LEMMA CMWriteFailsStep ==
  ASSUME CMInv, CM!WriteFails
  PROVE  CMInv'
<1> USE DEF CMInv, CMWriters, CMFresh
<1>1. /\ CM!WriteEnds /\ cmMissed' = TRUE
      /\ UNCHANGED <<file, configs, notices, history, log, raced>>
  BY DEF CM!WriteFails, CM!WriteEnds
<1>2. PICK w : w = cmWrites[1]
  OBVIOUS
<1>3. /\ w.config \subseteq Config /\ cmWrites' \in Seq(CMWriteMade)
      /\ Len(cmWrites) \in Nat /\ Len(cmWrites) > 0 /\ Len(cmWrites') = Len(cmWrites) - 1
      /\ cmChecks' \in [Config -> Seq(CMCheckMade)]
      /\ CMFresh' /\ CMWritesAreOfChecks' /\ CMWritersAreApart' /\ CMWritesFollow'
  BY <1>1, <1>2, CMWriteEnds
<1>4. /\ \A c \in Config \ w.config : cmChecks'[c] = cmChecks[c] /\ CMFirst(c)' = CMFirst(c)
      /\ \A c \in w.config : Len(cmChecks'[c]) > 0 => CMFirst(c)'.stage = "read"
  BY <1>1, <1>2, CMWriteEnds
<1>5. CMTypes'
  BY <1>1, <1>3 DEF CMTypes
<1>6. CMWritersAreThere' /\ CMSomebodySees'
  BY <1>1 DEF CMWritersAreThere, CMSomebodySees
<1>7. \A c \in Config : CMCompared(c)' => CMCompared(c)
  BY <1>3, <1>4 DEF CMCompared
<1>8. ~raced' => Len(cmWrites') = 0 /\ \A c \in Config : ~CMCompared(c)'
  BY <1>1, <1>3, <1>7 DEF CMUnraced, CMOneCompares
<1>9. CMOneCompares' /\ CMComparedIsLast' /\ CMWrittenIsNext'
  BY <1>8 DEF CMOneCompares, CMComparedIsLast, CMWrittenIsNext
<1>10. CMEntriesAreLogged'
  BY <1>1 DEF CMEntriesAreLogged, CMUnraced
<1> QED
  BY <1>3, <1>5, <1>6, <1>9, <1>10 DEF CMUnraced

(* The rest leaves the history alone, and the checks that have compared. *)
LEMMA CMChangeStep ==
  ASSUME CMInv, CM!Change
  PROVE  CMInv'
<1> USE DEF CMInv, CMWriters, CMFresh
<1>1. /\ file' \in CMRead /\ notices' = notices \union {c \in Config : configs[c] # "none"}
      /\ cmMissed' = (cmMissed /\ cmWrites # <<>>)
      /\ UNCHANGED <<configs, cmChecks, cmWrites, history, log, raced>>
  BY DEF CM!Change, CMRead
<1>2. cmMissed \in BOOLEAN /\ cmMissed' \in BOOLEAN
  BY <1>1 DEF CMTypes
<1>3. CMTypes'
  BY <1>1, <1>2 DEF CMTypes
<1>4. \A c : CMFirst(c)' = CMFirst(c)
  BY <1>1 DEF CMFirst
<1>5. CMOnlyLiveCheck' /\ CMOthersWait'
  BY <1>1 DEF CMOnlyLiveCheck, CMOthersWait
<1>6. CMLastIsFresh'
  <2> SUFFICES ASSUME NEW c \in Config, c \notin notices', Len(cmChecks[c]) = 1
               PROVE  CMBegun(c, CMFirst(c))'
    BY <1>1 DEF CMLastIsFresh
  <2>1. configs[c] # "live"
    BY <1>1
  <2>2. cmChecks[c] = <<>>
    BY <2>1 DEF CMOnlyLiveCheck
  <2> QED
    BY <2>2
<1>7. CMWritesAreOfChecks' /\ CMWritersAreApart' /\ CMWritesFollow'
  BY <1>1, <1>4 DEF CMWritesAreOfChecks, CMWritersAreApart, CMWritesFollow
<1>8. CMWritersAreThere'
  <2>1. CASE cmMissed
    <3>1. ~cmMissed' => cmWrites = <<>>
      BY <1>1, <2>1
    <3>2. ~cmMissed' => Len(cmWrites) = 0
      BY <3>1
    <3> QED
      BY <1>1, <3>2 DEF CMWritersAreThere
  <2>2. CASE ~cmMissed
    BY <1>1, <2>2 DEF CMWritersAreThere
  <2> QED
    BY <2>1, <2>2
<1>9. \A c \in Config : configs'[c] = "live" => CMWillSee(c)'
  BY <1>1 DEF CMWillSee
<1>10. CMSomebodySees'
  BY <1>9 DEF CMSomebodySees
<1>11. \A d \in Config : CMCompared(d)' => CMCompared(d) /\ CMFirst(d)' = CMFirst(d)
  BY <1>1, <1>4 DEF CMCompared
<1> QED
  BY <1>1, <1>3, <1>5, <1>6, <1>7, <1>8, <1>10, <1>11, CMSameRace

LEMMA CMWatchStep ==
  ASSUME CMInv, NEW c \in Config, CM!Watch(c)
  PROVE  CMInv'
<1> USE DEF CMInv, CMWriters, CMFresh
<1>1. /\ configs[c] = "none" /\ configs' = [configs EXCEPT ![c] = "watching"]
      /\ UNCHANGED <<file, notices, cmChecks, cmWrites, history, log, raced, cmMissed>>
  BY DEF CM!Watch
<1>2. CMTypes'
  BY <1>1 DEF CMTypes
<1>3. \A d \in Config : (configs'[d] = "live" <=> configs[d] = "live")
  BY <1>1 DEF CMTypes
<1>4. \A d : CMFirst(d)' = CMFirst(d)
  BY <1>1 DEF CMFirst
<1>5. CMOnlyLiveCheck' /\ CMOthersWait'
  BY <1>1, <1>3 DEF CMOnlyLiveCheck, CMOthersWait
<1>6. CMLastIsFresh'
  BY <1>1, <1>4 DEF CMLastIsFresh, CMBegun, CM!Current
<1>7. CMWritesAreOfChecks' /\ CMWritersAreApart' /\ CMWritesFollow' /\ CMWritersAreThere'
  BY <1>1, <1>4 DEF CMWritesAreOfChecks, CMWritersAreApart, CMWritesFollow, CMWritersAreThere
<1>8. \A d \in Config : CMWillSee(d) => CMWillSee(d)'
  BY <1>1, <1>4 DEF CMWillSee
<1>9. CMIsCurrent' <=> CMIsCurrent
  BY <1>1 DEF CMIsCurrent, CM!Current
<1>10. CMSomebodySees'
  BY <1>1, <1>3, <1>8, <1>9 DEF CMSomebodySees
<1>11. \A d \in Config : CMCompared(d)' => CMCompared(d) /\ CMFirst(d)' = CMFirst(d)
  BY <1>1, <1>4 DEF CMCompared
<1> QED
  BY <1>1, <1>2, <1>5, <1>6, <1>7, <1>10, <1>11, CMSameRace

(* A subscription that begins checks the file. *)
LEMMA CMMonitorStep ==
  ASSUME CMInv, NEW c \in Config, CM!Monitor(c)
  PROVE  CMInv'
<1> USE DEF CMInv, CMWriters, CMFresh
<1>1. /\ configs[c] = "watching" /\ configs' = [configs EXCEPT ![c] = "live"]
      /\ cmChecks' = [cmChecks EXCEPT ![c] = <<CM!Waiting>>]
      /\ cmMissed' = (cmMissed /\ cmWrites # <<>>)
      /\ UNCHANGED <<file, notices, cmWrites, history, log, raced>>
  BY DEF CM!Monitor
<1>2. cmMissed \in BOOLEAN /\ cmMissed' \in BOOLEAN
  BY <1>1 DEF CMTypes
<1>3. PICK s : s = <<CM!Waiting>>
  OBVIOUS
<1>4. s \in Seq(CMCheckMade) /\ Len(s) = 1 /\ s[1].stage = "read"
  BY <1>3, CMWaitingIsACheck
<1>5. /\ cmChecks'[c] = s /\ \A d \in Config \ {c} : cmChecks'[d] = cmChecks[d] /\ CMFirst(d)' = CMFirst(d)
      /\ cmChecks' \in [Config -> Seq(CMCheckMade)] /\ CMFirst(c)'.stage = "read"
      /\ configs'[c] = "live" /\ \A d \in Config \ {c} : configs'[d] = configs[d]
  <2>1. cmChecks' = [cmChecks EXCEPT ![c] = s] /\ cmChecks \in [Config -> Seq(CMCheckMade)]
    BY <1>1, <1>3 DEF CMTypes
  <2>2. configs \in [Config -> {"none", "watching", "live"}]
    BY DEF CMTypes
  <2> QED
    BY <1>1, <1>4, <2>1, <2>2 DEF CMFirst
<1>6. CMTypes'
  BY <1>1, <1>2, <1>5 DEF CMTypes
<1>7. CMOnlyLiveCheck' /\ CMOthersWait'
  BY <1>4, <1>5 DEF CMOnlyLiveCheck, CMOthersWait
<1>8. CMLastIsFresh'
  <2>1. \A d, check : CMBegun(d, check)' <=> CMBegun(d, check)
    BY <1>1 DEF CMBegun, CM!Current
  <2>2. CMBegun(c, CMFirst(c))'
    BY <1>5 DEF CMBegun
  <2> QED
    BY <1>1, <1>5, <2>1, <2>2 DEF CMLastIsFresh
<1>9. cmChecks[c] = <<>>
  BY <1>1 DEF CMOnlyLiveCheck
<1>10. CMWritesAreOfChecks'
  <2>1. Len(cmChecks[c]) = 0
    BY <1>9
  <2>2. \A i \in 1 .. Len(cmWrites) : c \notin cmWrites[i].config /\ cmWrites[i].config \subseteq Config
    BY <2>1, CMWritersExist DEF CMWritesAreOfChecks
  <2> QED
    BY <1>1, <1>5, <2>2 DEF CMWritesAreOfChecks
<1>11. CMWritersAreApart' /\ CMWritesFollow'
  BY <1>1 DEF CMWritersAreApart, CMWritesFollow
<1>12. CMWritersAreThere'
  <2>1. CASE cmMissed
    <3>1. ~cmMissed' => cmWrites = <<>>
      BY <1>1, <2>1
    <3>2. ~cmMissed' => Len(cmWrites) = 0
      BY <3>1
    <3> QED
      BY <1>1, <3>2 DEF CMWritersAreThere
  <2>2. CASE ~cmMissed
    BY <1>1, <2>2 DEF CMWritersAreThere
  <2> QED
    BY <2>1, <2>2
<1>13. CMWillSee(c)'
  BY <1>4, <1>5 DEF CMWillSee
<1>14. CMSomebodySees'
  BY <1>5, <1>13 DEF CMSomebodySees
<1>15. \A d \in Config : CMCompared(d)' => CMCompared(d) /\ CMFirst(d)' = CMFirst(d)
  BY <1>5 DEF CMCompared
<1> QED
  BY <1>1, <1>6, <1>7, <1>8, <1>10, <1>11, <1>12, <1>14, <1>15, CMSameRace

LEMMA CMNotifiedStep ==
  ASSUME CMInv, NEW c \in Config, CM!Notified(c)
  PROVE  CMInv'
<1> USE DEF CMInv, CMWriters, CMFresh
<1>1. /\ c \in notices /\ notices' = notices \ {c}
      /\ UNCHANGED <<file, configs, cmWrites, history, log, raced, cmMissed>>
  BY DEF CM!Notified
<1>2. \A d, check : CMBegun(d, check)' <=> CMBegun(d, check)
  BY <1>1 DEF CMBegun, CM!Current
<1>3. CMIsCurrent' <=> CMIsCurrent
  BY <1>1 DEF CMIsCurrent, CM!Current
<1>4. CMWritersAreApart' /\ CMWritesFollow' /\ CMWritersAreThere'
  BY <1>1 DEF CMWritersAreApart, CMWritesFollow, CMWritersAreThere
<1>5. CASE configs[c] # "live"
  <2>1. cmChecks' = cmChecks /\ \A d : CMFirst(d)' = CMFirst(d)
    BY <1>5 DEF CM!Notified, CMFirst
  <2>2. CMTypes'
    BY <1>1, <2>1 DEF CMTypes
  <2>3. CMOnlyLiveCheck' /\ CMOthersWait'
    BY <1>1, <2>1 DEF CMOnlyLiveCheck, CMOthersWait
  <2>4. Len(cmChecks[c]) = 0
    BY <1>5 DEF CMOnlyLiveCheck
  <2>5. CMLastIsFresh'
    BY <1>1, <1>2, <2>1, <2>4 DEF CMLastIsFresh
  <2>6. CMWritesAreOfChecks'
    BY <1>1, <2>1 DEF CMWritesAreOfChecks
  <2>7. \A d \in Config : configs[d] = "live" /\ CMWillSee(d) => CMWillSee(d)'
    BY <1>1, <1>5, <2>1 DEF CMWillSee
  <2>8. CMSomebodySees'
    BY <1>1, <1>3, <2>7 DEF CMSomebodySees
  <2>9. \A d \in Config : CMCompared(d)' => CMCompared(d) /\ CMFirst(d)' = CMFirst(d)
    BY <2>1 DEF CMCompared
  <2> QED
    BY <1>1, <1>4, <2>2, <2>3, <2>5, <2>6, <2>8, <2>9, CMSameRace
<1>6. CASE configs[c] = "live"
  <2>1. PICK s : s = Append(cmChecks[c], CM!Waiting)
    OBVIOUS
  <2>2. cmChecks[c] \in Seq(CMCheckMade) /\ Len(cmChecks[c]) \in Nat
    BY DEF CMTypes
  <2>3. /\ s \in Seq(CMCheckMade) /\ Len(s) = Len(cmChecks[c]) + 1
        /\ \A i \in 1 .. Len(cmChecks[c]) : s[i] = cmChecks[c][i]
        /\ s[Len(cmChecks[c]) + 1] = CM!Waiting
    BY <2>1, <2>2, CMWaitingIsACheck
  <2>4. cmChecks' = [cmChecks EXCEPT ![c] = s] /\ cmChecks \in [Config -> Seq(CMCheckMade)]
    BY <1>6, <2>1 DEF CM!Notified, CMTypes
  <2>5. /\ cmChecks'[c] = s /\ \A d \in Config \ {c} : cmChecks'[d] = cmChecks[d] /\ CMFirst(d)' = CMFirst(d)
        /\ cmChecks' \in [Config -> Seq(CMCheckMade)]
    BY <2>3, <2>4 DEF CMFirst
  <2>6. Len(cmChecks[c]) > 0 => CMFirst(c)' = CMFirst(c)
    BY <2>2, <2>3, <2>5 DEF CMFirst
  <2>7. Len(cmChecks[c]) = 0 => CMFirst(c)'.stage = "read" /\ Len(cmChecks'[c]) = 1
    BY <2>2, <2>3, <2>5, CMWaitingIsACheck DEF CMFirst
  <2>8. CMTypes'
    BY <1>1, <2>5 DEF CMTypes
  <2>9. CMOnlyLiveCheck'
    BY <1>1, <1>6, <2>5 DEF CMOnlyLiveCheck
  <2>10. CMOthersWait'
    <3>1. ASSUME NEW i \in 2 .. Len(cmChecks'[c]) PROVE cmChecks'[c][i].stage = "read"
      <4>1. i \in 2 .. Len(cmChecks[c]) \/ i = Len(cmChecks[c]) + 1
        BY <2>2, <2>3, <2>5
      <4> QED
        BY <2>2, <2>3, <2>5, <4>1, CMWaitingIsACheck DEF CMOthersWait
    <3> QED
      BY <2>5, <3>1 DEF CMOthersWait
  <2>11. CMLastIsFresh'
    <3>1. Len(cmChecks'[c]) = 1 => CMBegun(c, CMFirst(c))'
      <4>1. PICK n, m : n = Len(cmChecks[c]) /\ m = Len(cmChecks'[c])
        OBVIOUS
      <4>2. n \in Nat /\ m = n + 1
        BY <2>2, <2>3, <2>5, <4>1
      <4>3. m = 1 => n = 0
        BY <4>2
      <4> QED
        BY <2>7, <4>1, <4>3 DEF CMBegun
    <3>2. \A d \in Config \ {c} : d \notin notices' /\ Len(cmChecks'[d]) = 1 => CMBegun(d, CMFirst(d))'
      BY <1>1, <1>2, <2>5 DEF CMLastIsFresh
    <3> SUFFICES ASSUME NEW d \in Config, d \notin notices', Len(cmChecks'[d]) = 1
                 PROVE  CMBegun(d, CMFirst(d))'
      BY DEF CMLastIsFresh
    <3>3. CASE d = c
      BY <3>1, <3>3
    <3>4. CASE d # c
      BY <3>2, <3>4
    <3> QED
      BY <3>3, <3>4
  <2>12. CMWritesAreOfChecks'
    <3>1. \A i \in 1 .. Len(cmWrites) : cmWrites[i].config \subseteq Config
      BY CMWritersExist
    <3>2. Len(cmChecks[c]) > 0 => Len(cmChecks'[c]) > 0 /\ CMFirst(c)' = CMFirst(c)
      BY <2>2, <2>3, <2>5, <2>6
    <3>3. \A d \in Config : Len(cmChecks[d]) > 0 => Len(cmChecks'[d]) > 0 /\ CMFirst(d)' = CMFirst(d)
      BY <2>5, <3>2
    <3>4. ASSUME NEW i \in 1 .. Len(cmWrites), NEW d \in cmWrites[i].config
          PROVE  /\ Len(cmChecks[d]) > 0 /\ CMFirst(d).stage = "writing"
                 /\ CMFirst(d).value = cmWrites[i].value /\ CMFirst(d).old + 1 = cmWrites[i].at
      BY DEF CMWritesAreOfChecks
    <3> HIDE DEF CMInv, CMWriters, CMFresh
    <3> QED
      BY <1>1, <3>1, <3>3, <3>4 DEF CMWritesAreOfChecks
  <2>13. CMWillSee(c)'
    <3>1. CASE Len(cmChecks[c]) = 0
      BY <2>7, <3>1 DEF CMWillSee
    <3>2. CASE Len(cmChecks[c]) > 0
      <4>1. Len(cmChecks'[c]) > 1
        BY <2>2, <2>3, <2>5, <3>2
      <4> QED
        BY <4>1 DEF CMWillSee
    <3> QED
      BY <2>2, <3>1, <3>2
  <2>14. CMSomebodySees'
    BY <1>1, <1>6, <2>13 DEF CMSomebodySees
  <2>15. \A d \in Config : CMCompared(d)' => CMCompared(d) /\ CMFirst(d)' = CMFirst(d)
    <3>1. CMCompared(c)' => Len(cmChecks[c]) > 0
      BY <2>2, <2>7 DEF CMCompared
    <3> QED
      BY <2>5, <2>6, <3>1 DEF CMCompared
  <2> QED
    BY <1>1, <1>4, <2>8, <2>9, <2>10, <2>11, <2>12, <2>14, <2>15, CMSameRace
<1> QED
  BY <1>5, <1>6

(* The checks of a subscription that is destroyed are over; a write of its stays. *)
LEMMA CMUnmonitorStep ==
  ASSUME CMInv, NEW c \in Config, CM!Unmonitor(c)
  PROVE  CMInv'
<1> USE DEF CMInv, CMWriters, CMFresh
<1>1. /\ configs[c] = "live" /\ configs' = [configs EXCEPT ![c] = "none"]
      /\ notices' = notices \ {c} /\ cmChecks' = [cmChecks EXCEPT ![c] = <<>>]
      /\ cmWrites' = [i \in DOMAIN cmWrites |-> [cmWrites[i] EXCEPT !.config = @ \ {c}]]
      /\ cmMissed' = (cmMissed \/ c \in notices \/ cmChecks[c] # <<>>)
      /\ UNCHANGED <<file, history, log, raced>>
  BY DEF CM!Unmonitor
<1>2. cmMissed \in BOOLEAN /\ cmMissed' \in BOOLEAN
  BY <1>1 DEF CMTypes
<1>3. /\ cmChecks'[c] = <<>> /\ Len(cmChecks'[c]) = 0
      /\ \A d \in Config \ {c} : cmChecks'[d] = cmChecks[d] /\ CMFirst(d)' = CMFirst(d)
      /\ cmChecks' \in [Config -> Seq(CMCheckMade)]
  <2>1. cmChecks \in [Config -> Seq(CMCheckMade)] /\ <<>> \in Seq(CMCheckMade)
    BY DEF CMTypes
  <2> QED
    BY <1>1, <2>1 DEF CMFirst
<1>4. /\ \A d \in Config \ {c} : configs'[d] = configs[d]
      /\ configs'[c] = "none" /\ configs' \in [Config -> {"none", "watching", "live"}]
  BY <1>1 DEF CMTypes
<1>5. cmWrites \in Seq(CMWriteMade) /\ Len(cmWrites) \in Nat /\ DOMAIN cmWrites = 1 .. Len(cmWrites)
  BY DEF CMTypes
<1>6. ASSUME NEW i \in 1 .. Len(cmWrites)
      PROVE  /\ cmWrites'[i] \in CMWriteMade /\ cmWrites'[i].config = cmWrites[i].config \ {c}
             /\ cmWrites'[i].at = cmWrites[i].at /\ cmWrites'[i].value = cmWrites[i].value
  <2>1. PICK w : w = cmWrites[i]
    OBVIOUS
  <2>2. w \in CMWriteMade
    BY <2>1, CMWritersExist
  <2>3. cmWrites'[i] = [w EXCEPT !.config = w.config \ {c}]
    BY <1>1, <1>5, <2>1
  <2> QED
    BY <2>1, <2>2, <2>3 DEF CMWriteMade
<1>7. /\ cmWrites' \in Seq(CMWriteMade) /\ Len(cmWrites') = Len(cmWrites)
  <2>1. cmWrites' = [i \in 1 .. Len(cmWrites) |-> cmWrites'[i]]
    BY <1>1, <1>5
  <2>2. cmWrites' \in [1 .. Len(cmWrites) -> CMWriteMade]
    BY <1>6, <2>1
  <2> QED
    BY <1>5, <2>2
<1>8. CMTypes'
  BY <1>1, <1>2, <1>3, <1>4, <1>7 DEF CMTypes
<1>9. CMOnlyLiveCheck' /\ CMOthersWait'
  <2>1. CMOnlyLiveCheck'
    BY <1>3, <1>4 DEF CMOnlyLiveCheck
  <2>2. \A d \in Config \ {c} : \A i \in 2 .. Len(cmChecks'[d]) : cmChecks'[d][i].stage = "read"
    BY <1>3 DEF CMOthersWait
  <2>3. 2 .. Len(cmChecks'[c]) = {}
    BY <1>3
  <2> QED
    BY <2>1, <2>2, <2>3 DEF CMOthersWait
<1>10. CMLastIsFresh'
  <2>1. \A d, check : CMBegun(d, check)' <=> CMBegun(d, check)
    BY <1>1 DEF CMBegun, CM!Current
  <2> QED
    BY <1>1, <1>3, <2>1 DEF CMLastIsFresh
<1>11. CMWritesAreOfChecks'
  <2> SUFFICES ASSUME NEW i \in 1 .. Len(cmWrites), NEW d \in cmWrites'[i].config
               PROVE  /\ Len(cmChecks'[d]) > 0 /\ CMFirst(d)'.stage = "writing"
                      /\ CMFirst(d)'.value = cmWrites'[i].value /\ CMFirst(d)'.old + 1 = cmWrites'[i].at
    BY <1>7 DEF CMWritesAreOfChecks
  <2>1. d \in cmWrites[i].config /\ d \in Config \ {c}
    BY <1>6, CMWritersExist
  <2> QED
    BY <1>3, <1>6, <2>1 DEF CMWritesAreOfChecks
<1>12. CMWritersAreApart'
  BY <1>6, <1>7 DEF CMWritersAreApart
<1>13. CMWritesFollow'
  BY <1>6, <1>7 DEF CMWritesFollow
<1>14. ~cmMissed' => ~cmMissed /\ c \notin notices /\ Len(cmChecks[c]) = 0
  BY <1>1
<1>15. CMWritersAreThere'
  <2> SUFFICES ASSUME ~cmMissed', NEW i \in 1 .. Len(cmWrites) PROVE cmWrites'[i].config # {}
    BY <1>7 DEF CMWritersAreThere
  <2>1. c \notin cmWrites[i].config
    BY <1>14 DEF CMWritesAreOfChecks
  <2>2. cmWrites[i].config # {}
    BY <1>14 DEF CMWritersAreThere
  <2> QED
    BY <1>6, <2>1, <2>2
<1>16. CMSomebodySees'
  <2> SUFFICES ASSUME ~cmMissed', ~CMIsCurrent', NEW d \in Config, configs'[d] = "live"
               PROVE  \E e \in Config : configs'[e] = "live" /\ CMWillSee(e)'
    BY DEF CMSomebodySees
  <2>1. ~CMIsCurrent /\ configs[d] = "live"
    BY <1>1, <1>4 DEF CMIsCurrent, CM!Current
  <2>2. PICK e \in Config : configs[e] = "live" /\ CMWillSee(e)
    BY <1>14, <2>1 DEF CMSomebodySees
  <2>3. e # c
    <3>1. c \notin notices /\ Len(cmChecks[c]) = 0
      BY <1>14
    <3>2. ~CMWillSee(c)
      BY <3>1 DEF CMWillSee
    <3> QED
      BY <2>2, <3>2
  <2>4. CMWillSee(e)'
    BY <1>1, <1>3, <2>2, <2>3 DEF CMWillSee
  <2> QED
    BY <1>4, <2>2, <2>3, <2>4
<1>17. \A d \in Config : CMCompared(d)' => CMCompared(d) /\ CMFirst(d)' = CMFirst(d)
  BY <1>3 DEF CMCompared
<1>18. CMUnraced'
  BY <1>1, <1>6, <1>7, <1>17, CMSameWrites
<1> QED
  BY <1>8, <1>9, <1>10, <1>11, <1>12, <1>13, <1>15, <1>16, <1>18

LEMMA CMRestartStep ==
  ASSUME CMInv, CM!Restart
  PROVE  CMInv'
<1> USE DEF CMInv, CMWriters, CMFresh
<1>1. /\ configs' = [c \in Config |-> "none"] /\ notices' = {}
      /\ cmChecks' = [c \in Config |-> <<>>] /\ cmWrites' = <<>>
      /\ UNCHANGED <<file, history, log, raced, cmMissed>>
  BY DEF CM!Restart
<1>2. Len(cmWrites') = 0 /\ \A c \in Config : Len(cmChecks'[c]) = 0
  BY <1>1
<1>3. CMTypes'
  BY <1>1 DEF CMTypes
<1>4. CMOnlyLiveCheck' /\ CMOthersWait' /\ CMLastIsFresh'
  BY <1>1, <1>2 DEF CMOnlyLiveCheck, CMOthersWait, CMLastIsFresh
<1>5. CMWritesAreOfChecks' /\ CMWritersAreApart' /\ CMWritersAreThere' /\ CMWritesFollow'
  BY <1>2 DEF CMWritesAreOfChecks, CMWritersAreApart, CMWritersAreThere, CMWritesFollow
<1>6. CMSomebodySees'
  BY <1>1 DEF CMSomebodySees
<1>7. CMOneCompares' /\ CMComparedIsLast' /\ CMWrittenIsNext'
  BY <1>2 DEF CMOneCompares, CMComparedIsLast, CMWrittenIsNext, CMCompared
<1>8. CMEntriesAreLogged'
  BY <1>1 DEF CMEntriesAreLogged, CMUnraced
<1> QED
  BY <1>3, <1>4, <1>5, <1>6, <1>7, <1>8 DEF CMUnraced

LEMMA CMInitHolds ==
  ASSUME CM!Init
  PROVE  CMInv
<1>1. /\ file \in CMRead /\ configs \in [Config -> {"none", "watching"}] /\ notices = {}
      /\ cmChecks = [c \in Config |-> <<>>] /\ cmWrites = <<>> /\ history = <<>> /\ log = {}
      /\ raced = FALSE /\ cmMissed = FALSE
  BY DEF CM!Init, CMRead
<1>2. Len(cmWrites) = 0 /\ Len(history) = 0 /\ \A c \in Config : Len(cmChecks[c]) = 0
  BY <1>1
<1>3. CMTypes
  <2>1. configs \in [Config -> {"none", "watching", "live"}] /\ cmChecks \in [Config -> Seq(CMCheckMade)]
    BY <1>1
  <2>2. \A S : <<>> \in Seq(S)
    OBVIOUS
  <2>3. cmWrites \in Seq(CMWriteMade) /\ history \in Seq(CMValues)
    BY <1>1, <2>2
  <2>4. raced \in BOOLEAN /\ cmMissed \in BOOLEAN
    BY <1>1
  <2> QED
    BY <1>1, <2>1, <2>3, <2>4 DEF CMTypes
<1>4. CMOnlyLiveCheck /\ CMOthersWait /\ CMLastIsFresh
  BY <1>1, <1>2 DEF CMOnlyLiveCheck, CMOthersWait, CMLastIsFresh
<1>5. CMWritesAreOfChecks /\ CMWritersAreApart /\ CMWritersAreThere /\ CMWritesFollow
  BY <1>2 DEF CMWritesAreOfChecks, CMWritersAreApart, CMWritersAreThere, CMWritesFollow
<1>6. CMSomebodySees
  BY <1>1 DEF CMSomebodySees
<1>7. CMOneCompares /\ CMComparedIsLast /\ CMWrittenIsNext /\ CMEntriesAreLogged
  BY <1>2 DEF CMOneCompares, CMComparedIsLast, CMWrittenIsNext, CMCompared, CMEntriesAreLogged
<1> QED
  BY <1>3, <1>4, <1>5, <1>6, <1>7 DEF CMInv, CMFresh, CMWriters, CMUnraced

LEMMA CMNextHolds ==
  ASSUME CMInv, CM!Next
  PROVE  CMInv'
BY CMChangeStep, CMWriteStep, CMRestartStep, CMWatchStep, CMMonitorStep, CMNotifiedStep,
   CMUnmonitorStep, CMReadContentsStep, CMReadRestStep, CMReadFailsStep, CMReadOldStep,
   CMLogChangesStep, CMAskToWriteStep, CMReadOldFailsStep, CMLogChangesFailsStep,
   CMWriteFailsStep DEF CM!Next

LEMMA CMStays ==
  ASSUME CMInv, UNCHANGED cmVars
  PROVE  CMInv'
<1>1. UNCHANGED <<file, configs, notices, cmChecks, cmWrites, history, log, raced, cmMissed>>
  BY DEF cmVars
<1>2. \A c : CMFirst(c)' = CMFirst(c)
  BY <1>1 DEF CMFirst
<1>3. CMTypes'
  BY <1>1 DEF CMTypes, CMInv
<1>4. CMFresh'
  BY <1>1, <1>2 DEF CMOnlyLiveCheck, CMOthersWait, CMLastIsFresh, CMFresh, CMInv, CMBegun,
     CM!Current
<1>5. CMWriters'
  BY <1>1, <1>2 DEF CMWritesAreOfChecks, CMWritersAreApart, CMWritersAreThere, CMWritesFollow,
     CMWriters, CMInv
<1>6. \A c \in Config : CMWillSee(c) => CMWillSee(c)'
  BY <1>1, <1>2 DEF CMWillSee
<1>7. CMIsCurrent' <=> CMIsCurrent
  BY <1>1 DEF CMIsCurrent, CM!Current
<1>8. CMSomebodySees'
  BY <1>1, <1>6, <1>7 DEF CMSomebodySees, CMInv
<1>9. \A d \in Config : CMCompared(d)' => CMCompared(d) /\ CMFirst(d)' = CMFirst(d)
  BY <1>1, <1>2 DEF CMCompared
<1>10. CMUnraced'
  BY <1>1, <1>9, CMSameRace
<1> QED
  BY <1>3, <1>4, <1>5, <1>8, <1>10 DEF CMInv

LEMMA CMHolds ==
  ASSUME CMInv
  PROVE  CM!HistoryIsCurrent /\ CM!HistoryIsLogged
<1>1. history \in Seq(CMValues) /\ Len(history) \in Nat
  BY DEF CMInv, CMTypes
<1>2. CM!Last(history) = history[Len(history)]
  BY DEF CM!Last
<1>3. CM!HistoryIsCurrent
  <2> SUFFICES ASSUME CM!Quiet, ~cmMissed PROVE history # <<>> /\ CM!Latest \in CM!Current
    BY DEF CM!HistoryIsCurrent
  <2>1. PICK c \in Config : configs[c] = "live"
    BY DEF CM!Quiet
  <2>2. \A d \in Config : ~CMWillSee(d)
    <3>1. notices = {} /\ \A d \in Config : Len(cmChecks[d]) = 0
      BY DEF CM!Quiet
    <3> QED
      BY <3>1 DEF CMWillSee
  <2>3. CMIsCurrent
    BY <2>1, <2>2 DEF CMInv, CMSomebodySees
  <2> QED
    BY <1>1, <1>2, <2>3 DEF CMIsCurrent, CM!Latest
<1>4. CM!HistoryIsLogged
  BY <1>1 DEF CMInv, CMUnraced, CMEntriesAreLogged, CM!HistoryIsLogged
<1> QED
  BY <1>3, <1>4

-----------------------------------------------------------------------------
(* DebugUploads *)

DUTypes ==
  /\ duClient \in [Upload -> {"none", "sending", "ok", "failed"}]
  /\ task \in [Upload -> [stage : DU!Stages, ok : BOOLEAN, of : Dump \union {Asset},
                          files : SUBSET duFile, left : SUBSET duFile]]
  /\ finished \in [Upload -> {"none", "ok", "failed"}]
  /\ duDatabase \in SUBSET DU!Stored

DUTypesOfNotes ==
  /\ pending \in [Dump -> SUBSET duFile]
  /\ timer \in BOOLEAN
  /\ reports \in SUBSET DU!Report
  /\ logged \in [DU!Stored -> Nat]
  /\ app \in {"runs", "stopping", "flushed"}

(* The client knows of an upload what its coroutine says at its end, and the files that are
   no longer left are in the database. *)
DUAgrees(u) ==
  /\ duClient[u] = "none" <=> task[u].stage = "none"
  /\ duClient[u] = "ok" => finished[u] = "ok"
  /\ finished[u] # "none" => task[u].stage = "done"
  /\ finished[u] = "ok" => \A n \in task[u].files : <<task[u].of, n>> \in duDatabase
  /\ task[u].stage \in {"asked", "receiving", "received"} => task[u].left = task[u].files
  /\ task[u].stage \in {"adding", "added", "registering"} =>
       \A n \in task[u].files : n \in task[u].left \/ <<task[u].of, n>> \in duDatabase
  /\ task[u].stage = "added" => task[u].of # Asset /\ DU!Has(u) \in duDatabase

DUUploadsAgree == \A u \in Upload : DUAgrees(u)

DUAwaited(f) == f[1] \in Dump /\ f[2] \in pending[f[1]]
DUInReports(f) == \E r \in reports : f \in r.files
DUJustAdded(f) == \E u \in Upload : DU!At(u, "added") /\ DU!Has(u) = f

(* A file is nowhere before it is in the database, and then in one place: with the upload
   that has added it, pending, in one report, or logged. *)
DUNewAreNowhere ==
  \A f \in DU!Stored \ duDatabase : logged[f] = 0 /\ ~DUAwaited(f) /\ ~DUInReports(f)
DULoggedAreGone ==
  \A f \in DU!Stored : logged[f] = 0 \/ (logged[f] = 1 /\ ~DUAwaited(f) /\ ~DUInReports(f) /\ ~DUJustAdded(f))
DUAwaitedAreOnlyThere ==
  \A f \in DU!Stored : DUAwaited(f) => ~DUInReports(f) /\ ~DUJustAdded(f)
DUReportsAreApart ==
  \A f \in DU!Stored : \A r \in reports : f \in r.files =>
     ~DUJustAdded(f) /\ \A q \in reports : f \in q.files => q = r
DUAddersAreApart ==
  \A u, v \in Upload : DU!At(u, "added") /\ DU!At(v, "added") /\ DU!Has(u) = DU!Has(v) => u = v

(* What is pending after the last pass stays. *)
DUFlushedAreForgone == app = "flushed" => \A f \in DU!Stored : DUAwaited(f) => f \in forgone

(* Somebody comes for what is pending. *)
DUComes == app = "stopping" \/ timer \/ \E u \in Upload : DU!At(u, "registering")
DUEveryoneIsServed ==
  \A f \in duDatabase \ forgone : f[1] # Asset =>
    logged[f] > 0 \/ DUJustAdded(f) \/ DUInReports(f) \/ (DUAwaited(f) /\ DUComes)

DUNotes == DUNewAreNowhere /\ DULoggedAreGone /\ DUAwaitedAreOnlyThere /\ DUReportsAreApart /\ DUAddersAreApart
         /\ DUFlushedAreForgone /\ DUEveryoneIsServed

DUInv == DUTypes /\ DUTypesOfNotes /\ DUUploadsAgree /\ DUNotes

LEMMA DULeastFile ==
  ASSUME DUConstants, NEW S \in SUBSET duFile, S # {}
  PROVE  DU!Min(S) \in S
<1>1. S \in SUBSET Nat
  BY DEF DUConstants
<1>2. \E x \in S : \A y \in S : x <= y
  BY <1>1, LeastExists
<1> QED
  BY <1>2 DEF DU!Min

LEMMA DUHasIsStored ==
  ASSUME DUConstants, DUTypes, NEW u \in Upload, task[u].left # {}
  PROVE  DU!Has(u) \in DU!Stored /\ DU!NextFile(u) \in task[u].left /\ DU!Has(u) = <<task[u].of, DU!NextFile(u)>>
<1>1. task[u].left \in SUBSET duFile /\ task[u].of \in Dump \union {Asset}
  BY DEF DUTypes
<1>2. DU!NextFile(u) \in task[u].left
  BY <1>1, DULeastFile DEF DU!NextFile
<1> QED
  BY <1>1, <1>2 DEF DU!Has, DU!Stored

(* A step of one upload: its stage and the files left. *)
DUSteps(u, stage, left, ok) ==
  /\ task' \in [Upload -> [stage : DU!Stages, ok : BOOLEAN, of : Dump \union {Asset},
                           files : SUBSET duFile, left : SUBSET duFile]]
  /\ \A v \in Upload \ {u} : task'[v] = task[v]
  /\ task'[u].stage = stage /\ task'[u].left = left /\ task'[u].ok = ok
  /\ task'[u].of = task[u].of /\ task'[u].files = task[u].files

LEMMA DUMovesStep ==
  ASSUME DUTypes, NEW u \in Upload, NEW s \in DU!Stages, DU!Moves(u, s)
  PROVE  DUSteps(u, s, task[u].left, task[u].ok)
BY DEF DUTypes, DU!Moves, DUSteps

LEMMA DUOthersAgree ==
  ASSUME NEW v \in Upload, DUAgrees(v), duDatabase \subseteq duDatabase',
         duClient'[v] = duClient[v], finished'[v] = finished[v], task'[v] = task[v]
  PROVE  DUAgrees(v)'
BY DEF DUAgrees, DU!Has, DU!NextFile

(* The steps that leave the notifications alone. *)
LEMMA DUUntouched ==
  ASSUME DUInv, UNCHANGED <<pending, reports, logged, forgone, app>>, timer' \in BOOLEAN,
         timer => timer', duDatabase \subseteq duDatabase', duDatabase' \in SUBSET DU!Stored,
         \A f \in duDatabase' \ duDatabase : f[1] = Asset,
         \A u \in Upload : task'[u].stage = "added" <=> task[u].stage = "added",
         \A u \in Upload : task[u].stage = "added" => task'[u] = task[u],
         \A u \in Upload : task[u].stage = "registering" => task'[u].stage = "registering" \/ timer'
  PROVE  DUTypesOfNotes' /\ DUNotes'
<1> USE DEF DUInv, DUNotes
<1>1. \A f \in DU!Stored : DUAwaited(f)' = DUAwaited(f) /\ DUInReports(f)' = DUInReports(f)
  BY DEF DUAwaited, DUInReports
<1>2. \A u \in Upload : DU!At(u, "added")' = DU!At(u, "added") /\ (DU!At(u, "added") => DU!Has(u)' = DU!Has(u))
  BY DEF DU!At, DU!Has, DU!NextFile
<1>3. \A f : DUJustAdded(f)' <=> DUJustAdded(f)
  BY <1>2 DEF DUJustAdded
<1>4. DUTypesOfNotes'
  BY DEF DUTypesOfNotes
<1>5. DUNewAreNowhere'
  BY <1>1 DEF DUNewAreNowhere
<1>6. DULoggedAreGone'
  BY <1>1, <1>3 DEF DULoggedAreGone
<1>7. DUAwaitedAreOnlyThere'
  BY <1>1, <1>3 DEF DUAwaitedAreOnlyThere
<1>8. DUReportsAreApart'
  BY <1>3 DEF DUReportsAreApart
<1>9. DUAddersAreApart'
  BY <1>2 DEF DUAddersAreApart
<1>10. DUFlushedAreForgone'
  BY <1>1 DEF DUFlushedAreForgone
<1>11. DUComes => DUComes'
  BY DEF DUComes, DU!At
<1>12. DUEveryoneIsServed'
  <2> SUFFICES ASSUME NEW f \in duDatabase', f \notin forgone, f[1] # Asset
               PROVE  logged[f] > 0 \/ DUJustAdded(f)' \/ DUInReports(f)' \/ (DUAwaited(f)' /\ DUComes')
    BY DEF DUEveryoneIsServed
  <2>1. f \in duDatabase /\ f \in DU!Stored
    BY DEF DUTypes
  <2>2. logged[f] > 0 \/ DUJustAdded(f) \/ DUInReports(f) \/ (DUAwaited(f) /\ DUComes)
    BY <2>1 DEF DUEveryoneIsServed
  <2> QED
    BY <1>1, <1>3, <1>11, <2>1, <2>2
<1> QED
  BY <1>4, <1>5, <1>6, <1>7, <1>8, <1>9, <1>10, <1>12

LEMMA DUAskStep ==
  ASSUME DUConstants, DUInv, NEW u \in Upload, NEW w \in duWants[u], DU!Ask(u, w[1], w[2])
  PROVE  DUInv'
<1> USE DEF DUInv
<1>1. w[1] \in Dump \union {Asset} /\ w[2] \in SUBSET duFile
  BY DEF DUConstants
<1>2. PICK t : t = [stage |-> "asked", ok |-> FALSE, of |-> w[1], files |-> w[2], left |-> w[2]]
  OBVIOUS
<1>3. t \in [stage : DU!Stages, ok : BOOLEAN, of : Dump \union {Asset}, files : SUBSET duFile, left : SUBSET duFile]
  BY <1>1, <1>2 DEF DU!Stages
<1>4. /\ task' = [task EXCEPT ![u] = t] /\ duClient' = [duClient EXCEPT ![u] = "sending"]
      /\ duClient[u] = "none" /\ finished' = finished /\ duDatabase' = duDatabase
      /\ UNCHANGED <<pending, reports, logged, forgone, app, timer>>
  BY <1>2 DEF DU!Ask, DU!NotifyVars
<1>5. task[u].stage = "none" /\ finished[u] = "none"
  <2>1. DUAgrees(u)
    BY DEF DUUploadsAgree
  <2>2. task[u].stage = "none" /\ task[u].stage # "done"
    BY <1>4, <2>1 DEF DUAgrees
  <2> QED
    BY <2>1, <2>2 DEF DUAgrees
<1>6. DUTypes'
  BY <1>3, <1>4 DEF DUTypes
<1>7. task'[u] = t /\ duClient'[u] = "sending" /\ \A v \in Upload \ {u} : task'[v] = task[v] /\ duClient'[v] = duClient[v]
  BY <1>4 DEF DUTypes
<1>8. t.stage = "asked" /\ t.left = t.files
  BY <1>2
<1>9. DUAgrees(u)'
  BY <1>4, <1>5, <1>7, <1>8 DEF DUAgrees
<1>10. DUUploadsAgree'
  BY <1>4, <1>7, <1>9, DUOthersAgree DEF DUUploadsAgree
<1>11. DUTypesOfNotes' /\ DUNotes'
  BY <1>4, <1>5, <1>7, <1>8, <1>6, DUUntouched DEF DUTypesOfNotes, DUTypes
<1> QED
  BY <1>6, <1>10, <1>11

LEMMA DUClientStep ==
  ASSUME DUConstants, DUInv, NEW u \in Upload, DU!ClientFinishes(u) \/ DU!ClientAborts(u)
  PROVE  DUInv'
<1> USE DEF DUInv
<1>1. PICK c \in {"ok", "failed"} : duClient' = [duClient EXCEPT ![u] = c] /\ (c = "ok" => finished[u] = "ok")
  BY DEF DUTypes, DU!ClientFinishes, DU!ClientAborts
<1>2. /\ duClient[u] = "sending" /\ task' = task /\ finished' = finished /\ duDatabase' = duDatabase
      /\ UNCHANGED <<pending, reports, logged, forgone, app, timer>>
  BY DEF DU!ClientFinishes, DU!ClientAborts, DU!NotifyVars
<1>3. DUTypes'
  BY <1>1, <1>2 DEF DUTypes
<1>4. duClient'[u] = c /\ \A v \in Upload \ {u} : duClient'[v] = duClient[v]
  BY <1>1 DEF DUTypes
<1>5. DUAgrees(u)'
  BY <1>1, <1>2, <1>4 DEF DUUploadsAgree, DUAgrees, DU!Has, DU!NextFile
<1>6. DUUploadsAgree'
  BY <1>2, <1>4, <1>5, DUOthersAgree DEF DUUploadsAgree
<1>7. DUTypesOfNotes' /\ DUNotes'
  BY <1>2, <1>3, DUUntouched DEF DUTypesOfNotes, DUTypes
<1> QED
  BY <1>3, <1>6, <1>7

(* The steps of a coroutine on its way to and from the database. *)
LEMMA DUCoroutineStep ==
  ASSUME DUConstants, DUInv, NEW u \in Upload,
         DU!Start(u) \/ DU!ReceiveEnds(u) \/ DU!ReceiveFails(u) \/ DU!Received(u) \/ DU!AddFails(u) \/ DU!AllAdded(u)
  PROVE  DUInv'
<1> USE DEF DUInv
<1>1. PICK s \in DU!Stages, o \in BOOLEAN, e \in {"none", "ok", "failed"} :
        /\ DUSteps(u, s, task[u].left, o)
        /\ finished' \in [Upload -> {"none", "ok", "failed"}] /\ finished'[u] = e
        /\ \A v \in Upload \ {u} : finished'[v] = finished[v]
        /\ task[u].stage \in {"asked", "receiving", "received", "adding"}
        /\ s \in {"receiving", "received", "adding", "done"}
        /\ s \in {"receiving", "received"} =>
             task[u].stage \in {"asked", "receiving"} /\ e = finished[u]
        /\ s = "adding" => task[u].stage = "received" /\ e = finished[u]
        /\ s = "done" /\ e = "ok" => task[u].stage = "adding" /\ task[u].left = {}
        /\ s = "done" => e # "none"
  <2>1. task[u].ok \in BOOLEAN /\ finished[u] \in {"none", "ok", "failed"}
    BY DEF DUTypes
  <2>2. CASE DU!Start(u)
    <3>1. DU!Moves(u, "receiving") /\ finished' = finished /\ task[u].stage = "asked"
      BY <2>2 DEF DU!Start, DU!At
    <3>2. DUSteps(u, "receiving", task[u].left, task[u].ok)
      BY <3>1, DUMovesStep DEF DU!Stages
    <3> QED
      BY <2>1, <3>1, <3>2 DEF DUTypes, DU!Stages
  <2>3. CASE DU!ReceiveEnds(u)
    <3>1. finished' = finished /\ task[u].stage = "receiving"
      BY <2>3 DEF DU!ReceiveEnds, DU!At
    <3>2. DUSteps(u, "received", task[u].left, TRUE)
      BY <2>3 DEF DU!ReceiveEnds, DUTypes, DUSteps, DU!Stages
    <3> QED
      BY <2>1, <3>1, <3>2 DEF DUTypes, DU!Stages
  <2>4. CASE DU!ReceiveFails(u)
    <3>1. DU!Moves(u, "received") /\ finished' = finished /\ task[u].stage = "receiving"
      BY <2>4 DEF DU!ReceiveFails, DU!At
    <3>2. DUSteps(u, "received", task[u].left, task[u].ok)
      BY <3>1, DUMovesStep DEF DU!Stages
    <3> QED
      BY <2>1, <3>1, <3>2 DEF DUTypes, DU!Stages
  <2>5. CASE DU!Received(u)
    <3>1. task[u].stage = "received"
      BY <2>5 DEF DU!Received, DU!At
    <3>2. CASE DU!Moves(u, "adding") /\ finished' = finished
      <4>1. DUSteps(u, "adding", task[u].left, task[u].ok)
        BY <3>2, DUMovesStep DEF DU!Stages
      <4> QED
        BY <2>1, <3>1, <3>2, <4>1 DEF DUTypes, DU!Stages
    <3>3. CASE DU!Moves(u, "done") /\ finished' = [finished EXCEPT ![u] = "failed"]
      <4>1. DUSteps(u, "done", task[u].left, task[u].ok)
        BY <3>3, DUMovesStep DEF DU!Stages
      <4> QED
        BY <2>1, <3>1, <3>3, <4>1 DEF DUTypes, DU!Stages
    <3> QED
      BY <2>5, <3>2, <3>3 DEF DU!Received
  <2>6. CASE DU!AddFails(u)
    <3>1. /\ DU!Moves(u, "done") /\ finished' = [finished EXCEPT ![u] = "failed"]
          /\ task[u].stage = "adding"
      BY <2>6 DEF DU!AddFails, DU!At
    <3>2. DUSteps(u, "done", task[u].left, task[u].ok)
      BY <3>1, DUMovesStep DEF DU!Stages
    <3> QED
      BY <2>1, <3>1, <3>2 DEF DUTypes, DU!Stages
  <2>7. CASE DU!AllAdded(u)
    <3>1. /\ DU!Moves(u, "done") /\ finished' = [finished EXCEPT ![u] = "ok"]
          /\ task[u].stage = "adding" /\ task[u].left = {}
      BY <2>7 DEF DU!AllAdded, DU!At
    <3>2. DUSteps(u, "done", task[u].left, task[u].ok)
      BY <3>1, DUMovesStep DEF DU!Stages
    <3> QED
      BY <2>1, <3>1, <3>2 DEF DUTypes, DU!Stages
  <2> QED
    BY <2>2, <2>3, <2>4, <2>5, <2>6, <2>7
<1>2. /\ duClient' = duClient /\ duDatabase' = duDatabase
      /\ UNCHANGED <<pending, reports, logged, forgone, app, timer>>
  BY DEF DU!Start, DU!ReceiveEnds, DU!ReceiveFails, DU!Received, DU!AddFails, DU!AllAdded,
     DU!NotifyVars
<1>3. DUTypes'
  BY <1>1, <1>2 DEF DUTypes, DUSteps
<1>4. /\ task'[u].stage = s /\ task'[u].left = task[u].left /\ task'[u].of = task[u].of
      /\ task'[u].files = task[u].files /\ \A v \in Upload \ {u} : task'[v] = task[v]
  BY <1>1 DEF DUSteps
<1>5. DUAgrees(u)'
  <2>1. DUAgrees(u)
    BY DEF DUUploadsAgree
  <2>2. duClient[u] # "none" /\ duClient[u] # "ok" /\ finished[u] = "none"
    BY <1>1, <2>1 DEF DUAgrees, DUTypes
  <2>3. s = "adding" => task[u].left = task[u].files
    BY <1>1, <2>1 DEF DUAgrees
  <2>4. s \in {"receiving", "received"} => task[u].left = task[u].files
    BY <1>1, <2>1 DEF DUAgrees
  <2>5. e = "ok" => \A n \in task[u].files : <<task[u].of, n>> \in duDatabase
    BY <1>1, <2>1, <2>2 DEF DUAgrees
  <2>6. e # "none" => s = "done"
    BY <1>1, <2>2
  <2> QED
    BY <1>1, <1>2, <1>4, <2>2, <2>3, <2>4, <2>5, <2>6 DEF DUAgrees
<1>6. DUUploadsAgree'
  BY <1>1, <1>2, <1>4, <1>5, DUOthersAgree DEF DUUploadsAgree
<1>7. DUTypesOfNotes' /\ DUNotes'
  BY <1>1, <1>2, <1>3, <1>4, DUUntouched DEF DUTypesOfNotes, DUTypes
<1> QED
  BY <1>3, <1>6, <1>7

(* A file that is left is added, and is an asset or not new. *)
LEMMA DUOldFileStep ==
  ASSUME DUConstants, DUInv, NEW u \in Upload, task[u].stage = "adding", task[u].left # {},
         duDatabase' = duDatabase \union {DU!Has(u)}, task[u].of = Asset \/ DU!Has(u) \in duDatabase,
         task' = [task EXCEPT ![u].left = @ \ {DU!NextFile(u)}],
         UNCHANGED <<duClient, finished, DU!NotifyVars, app, forgone>>
  PROVE  DUInv'
<1> USE DEF DUInv
<1>1. DU!Has(u) \in DU!Stored /\ DU!NextFile(u) \in task[u].left /\ DU!Has(u) = <<task[u].of, DU!NextFile(u)>>
  BY DUHasIsStored
<1>2. PICK left \in SUBSET duFile : left = task[u].left \ {DU!NextFile(u)}
  BY DEF DUTypes
<1>3. /\ task' \in [Upload -> [stage : DU!Stages, ok : BOOLEAN, of : Dump \union {Asset},
                               files : SUBSET duFile, left : SUBSET duFile]]
      /\ \A v \in Upload \ {u} : task'[v] = task[v]
      /\ task'[u].stage = "adding" /\ task'[u].left = left
      /\ task'[u].of = task[u].of /\ task'[u].files = task[u].files
  BY <1>2 DEF DUTypes
<1>4. /\ duClient' = duClient /\ finished' = finished
      /\ UNCHANGED <<pending, reports, logged, forgone, app, timer>>
  BY DEF DU!NotifyVars
<1>5. DUTypes'
  BY <1>1, <1>3, <1>4 DEF DUTypes
<1>6. DUAgrees(u)'
  <2>1. DUAgrees(u)
    BY DEF DUUploadsAgree
  <2>2. duClient[u] # "none" /\ duClient[u] # "ok" /\ finished[u] = "none"
    BY <2>1 DEF DUAgrees, DUTypes
  <2>3. \A n \in task[u].files : n \in left \/ <<task[u].of, n>> \in duDatabase'
    BY <1>1, <1>2, <2>1 DEF DUAgrees
  <2> QED
    BY <1>3, <1>4, <2>2, <2>3 DEF DUAgrees
<1>7. DUUploadsAgree'
  BY <1>3, <1>4, <1>6, DUOthersAgree DEF DUUploadsAgree
<1>8. \A f \in duDatabase' \ duDatabase : f[1] = Asset
  BY <1>1
<1>9. DUTypesOfNotes' /\ DUNotes'
  BY <1>3, <1>4, <1>5, <1>8, DUUntouched DEF DUTypesOfNotes, DUTypes
<1> QED
  BY <1>5, <1>7, <1>9

LEMMA DUAddAssetStep ==
  ASSUME DUConstants, DUInv, NEW u \in Upload, DU!AddAsset(u)
  PROVE  DUInv'
BY DUOldFileStep DEF DU!AddAsset, DU!At

LEMMA DUAddCrashDumpStep ==
  ASSUME DUConstants, DUInv, NEW u \in Upload, DU!AddCrashDump(u)
  PROVE  DUInv'
<1>1. CASE DU!Has(u) \in duDatabase
  BY <1>1, DUOldFileStep DEF DU!AddCrashDump, DU!At
<1>2. CASE DU!Has(u) \notin duDatabase
  <2> USE DEF DUInv, DUNotes
  <2>1. /\ task[u].stage = "adding" /\ task[u].left # {} /\ task[u].of # Asset
        /\ DU!Moves(u, "added") /\ duClient' = duClient /\ finished' = finished
        /\ UNCHANGED <<pending, reports, logged, forgone, app, timer>>
    BY <1>2 DEF DU!AddCrashDump, DU!At, DU!NotifyVars
  <2>2. DU!Has(u) \in DU!Stored
    BY <2>1, DUHasIsStored
  <2>3. PICK x : x = DU!Has(u) /\ x \in DU!Stored /\ x \notin duDatabase /\ duDatabase' = duDatabase \union {x}
    BY <1>2, <2>2 DEF DU!AddCrashDump
  <2>4. DUSteps(u, "added", task[u].left, task[u].ok)
    BY <2>1, DUMovesStep DEF DU!Stages
  <2>5. /\ task' \in [Upload -> [stage : DU!Stages, ok : BOOLEAN, of : Dump \union {Asset},
                                 files : SUBSET duFile, left : SUBSET duFile]]
        /\ \A v \in Upload \ {u} : task'[v] = task[v]
        /\ task'[u].stage = "added" /\ task'[u].left = task[u].left
        /\ task'[u].of = task[u].of /\ task'[u].files = task[u].files
    BY <2>4 DEF DUSteps
  <2>6. DUTypes'
    BY <2>1, <2>3, <2>5 DEF DUTypes
  <2>7. DU!Has(u)' = x
    BY <2>3, <2>5 DEF DU!Has, DU!NextFile
  <2>8. DUAgrees(u)'
    <3>1. DUAgrees(u)
      BY DEF DUUploadsAgree
    <3>2. duClient[u] # "none" /\ duClient[u] # "ok" /\ finished[u] = "none"
      BY <2>1, <3>1 DEF DUAgrees, DUTypes
    <3>3. \A n \in task[u].files : n \in task[u].left \/ <<task[u].of, n>> \in duDatabase'
      BY <2>1, <2>3, <3>1 DEF DUAgrees
    <3> QED
      BY <2>1, <2>3, <2>5, <2>7, <3>2, <3>3 DEF DUAgrees
  <2>9. DUUploadsAgree'
    BY <2>1, <2>3, <2>5, <2>8, DUOthersAgree DEF DUUploadsAgree
  <2>10. DUTypesOfNotes'
    BY <2>1 DEF DUTypesOfNotes
  <2>11. \A f \in DU!Stored : DUAwaited(f)' = DUAwaited(f) /\ DUInReports(f)' = DUInReports(f)
    BY <2>1 DEF DUAwaited, DUInReports
  <2>12. \A v \in Upload : DU!At(v, "added") => v # u /\ DU!At(v, "added")' /\ DU!Has(v)' = DU!Has(v) /\ DU!Has(v) # x
    BY <2>1, <2>3, <2>5 DEF DU!At, DU!Has, DU!NextFile, DUUploadsAgree, DUAgrees
  <2>13. \A v \in Upload : DU!At(v, "added")' => v = u \/ (DU!At(v, "added") /\ DU!Has(v)' = DU!Has(v) /\ DU!Has(v) # x)
    BY <2>5, <2>12 DEF DU!At
  <2>14. \A f : DUJustAdded(f)' <=> DUJustAdded(f) \/ f = x
    <3>1. DU!At(u, "added")'
      BY <2>5 DEF DU!At
    <3> QED
      BY <2>7, <2>12, <2>13, <3>1 DEF DUJustAdded
  <2>15. logged[x] = 0 /\ ~DUAwaited(x) /\ ~DUInReports(x)
    BY <2>3 DEF DUNewAreNowhere
  <2>16. DUNewAreNowhere'
    BY <2>1, <2>3, <2>11 DEF DUNewAreNowhere
  <2>17. DULoggedAreGone'
    BY <2>1, <2>11, <2>14, <2>15 DEF DULoggedAreGone
  <2>18. DUAwaitedAreOnlyThere'
    BY <2>11, <2>14, <2>15 DEF DUAwaitedAreOnlyThere
  <2>19. DUReportsAreApart'
    BY <2>1, <2>14, <2>15 DEF DUReportsAreApart, DUInReports
  <2>20. DUAddersAreApart'
    BY <2>7, <2>13 DEF DUAddersAreApart
  <2>21. DUFlushedAreForgone'
    BY <2>1, <2>11 DEF DUFlushedAreForgone
  <2>22. DUComes => DUComes'
    BY <2>1, <2>5 DEF DUComes, DU!At
  <2>23. DUEveryoneIsServed'
    BY <2>1, <2>3, <2>11, <2>14, <2>22 DEF DUEveryoneIsServed, DUTypes
  <2> QED
    BY <2>6, <2>9, <2>10, <2>16, <2>17, <2>18, <2>19, <2>20, <2>21, <2>23
<1> QED
  BY <1>1, <1>2

LEMMA DUCrashDumpAddedStep ==
  ASSUME DUConstants, DUInv, NEW u \in Upload, DU!CrashDumpAdded(u)
  PROVE  DUInv'
<1> USE DEF DUInv, DUNotes
<1>1. /\ task[u].stage = "added" /\ duClient' = duClient /\ finished' = finished /\ duDatabase' = duDatabase
      /\ UNCHANGED <<timer, reports, logged, app>>
  BY DEF DU!CrashDumpAdded, DU!At
<1>2. task[u].of # Asset /\ DU!Has(u) \in duDatabase /\ DUAgrees(u)
  BY <1>1 DEF DUUploadsAgree, DUAgrees
<1>3. PICK d, n : d = task[u].of /\ n = DU!NextFile(u) /\ DU!Has(u) = <<d, n>>
  BY DEF DU!Has
<1>4. d \in Dump /\ n \in duFile /\ <<d, n>> \in DU!Stored /\ <<d, n>> \in duDatabase
  BY <1>2, <1>3 DEF DUTypes, DU!Stored
<1>5. PICK left \in SUBSET duFile, s \in {"adding", "registering"} :
        /\ left = task[u].left \ {n} /\ s = IF timer THEN "adding" ELSE "registering"
  BY <1>3 DEF DUTypes
<1>6. task' = [task EXCEPT ![u].stage = s, ![u].left = left]
  BY <1>3, <1>5 DEF DU!CrashDumpAdded
<1>7. /\ task' \in [Upload -> [stage : DU!Stages, ok : BOOLEAN, of : Dump \union {Asset},
                               files : SUBSET duFile, left : SUBSET duFile]]
      /\ \A v \in Upload \ {u} : task'[v] = task[v]
      /\ task'[u].stage = s /\ task'[u].left = left
      /\ task'[u].of = task[u].of /\ task'[u].files = task[u].files
  <2>1. PICK t : t = [task[u] EXCEPT !.stage = s, !.left = left]
    OBVIOUS
  <2>2. task[u] \in [stage : DU!Stages, ok : BOOLEAN, of : Dump \union {Asset},
                    files : SUBSET duFile, left : SUBSET duFile]
    BY DEF DUTypes
  <2>3. s \in DU!Stages
    BY <1>5 DEF DU!Stages
  <2>4. /\ t \in [stage : DU!Stages, ok : BOOLEAN, of : Dump \union {Asset},
                  files : SUBSET duFile, left : SUBSET duFile]
        /\ t.stage = s /\ t.left = left /\ t.of = task[u].of /\ t.files = task[u].files
    BY <1>5, <2>1, <2>2, <2>3
  <2>5. task' = [task EXCEPT ![u] = t]
    BY <1>6, <2>1 DEF DUTypes
  <2> QED
    BY <2>4, <2>5 DEF DUTypes
<1>8. PICK p : p = pending[d] \union {n}
  OBVIOUS
<1>9. pending' = [pending EXCEPT ![d] = p] /\ p \in SUBSET duFile
  <2>1. pending' = [pending EXCEPT ![d] = pending[d] \union {n}]
    BY <1>3 DEF DU!CrashDumpAdded
  <2>2. pending[d] \in SUBSET duFile
    BY <1>4 DEF DUTypesOfNotes
  <2> QED
    BY <1>4, <1>8, <2>1, <2>2
<1>10. \A f \in DU!Stored : DUAwaited(f)' <=> DUAwaited(f) \/ f = <<d, n>>
  BY <1>4, <1>8, <1>9 DEF DUAwaited, DU!Stored, DUTypesOfNotes
<1>11. forgone \subseteq forgone' /\ (app = "flushed" => <<d, n>> \in forgone')
  BY <1>3 DEF DU!CrashDumpAdded
<1>12. DUTypes' /\ DUTypesOfNotes'
  BY <1>1, <1>4, <1>7, <1>9 DEF DUTypes, DUTypesOfNotes
<1>13. DUAgrees(u)'
  <2>1. duClient[u] # "none" /\ duClient[u] # "ok" /\ finished[u] = "none"
    BY <1>1, <1>2 DEF DUAgrees, DUTypes
  <2>2. \A m \in task[u].files : m \in left \/ <<task[u].of, m>> \in duDatabase
    BY <1>1, <1>2, <1>3, <1>4, <1>5 DEF DUAgrees
  <2> QED
    BY <1>1, <1>5, <1>7, <2>1, <2>2 DEF DUAgrees
<1>14. DUUploadsAgree'
  BY <1>1, <1>7, <1>13, DUOthersAgree DEF DUUploadsAgree
<1>15. \A v \in Upload : DU!At(v, "added")' <=> v # u /\ DU!At(v, "added")
  BY <1>5, <1>7 DEF DU!At
<1>16. \A v \in Upload : DU!At(v, "added")' => DU!Has(v)' = DU!Has(v) /\ DU!Has(v) # <<d, n>>
  BY <1>1, <1>3, <1>7, <1>15 DEF DU!At, DU!Has, DU!NextFile, DUAddersAreApart
<1>17. \A f : DUJustAdded(f)' <=> DUJustAdded(f) /\ f # <<d, n>>
  BY <1>3, <1>15, <1>16 DEF DUJustAdded
<1>18. DUJustAdded(<<d, n>>)
  BY <1>1, <1>3 DEF DUJustAdded, DU!At
<1>19. logged[<<d, n>>] = 0 /\ ~DUInReports(<<d, n>>)
  BY <1>4, <1>18 DEF DULoggedAreGone, DUReportsAreApart, DUInReports
<1>20. \A f \in DU!Stored : DUInReports(f)' <=> DUInReports(f)
  BY <1>1 DEF DUInReports
<1>21. DUNewAreNowhere'
  BY <1>1, <1>4, <1>10, <1>20 DEF DUNewAreNowhere
<1>22. DULoggedAreGone'
  BY <1>1, <1>10, <1>17, <1>19, <1>20 DEF DULoggedAreGone
<1>23. DUAwaitedAreOnlyThere'
  BY <1>10, <1>17, <1>19, <1>20 DEF DUAwaitedAreOnlyThere
<1>24. DUReportsAreApart'
  BY <1>1, <1>17 DEF DUReportsAreApart
<1>25. DUAddersAreApart'
  BY <1>15, <1>16 DEF DUAddersAreApart
<1>26. DUFlushedAreForgone'
  BY <1>1, <1>10, <1>11 DEF DUFlushedAreForgone
<1>27. DUComes'
  BY <1>1, <1>5, <1>7 DEF DUComes, DU!At, DUTypesOfNotes
<1>28. DUEveryoneIsServed'
  BY <1>1, <1>10, <1>11, <1>17, <1>20, <1>27 DEF DUEveryoneIsServed, DUTypes
<1> QED
  BY <1>12, <1>14, <1>21, <1>22, <1>23, <1>24, <1>25, <1>26, <1>28

LEMMA DUTimerRegisteredStep ==
  ASSUME DUConstants, DUInv, NEW u \in Upload, DU!TimerRegistered(u)
  PROVE  DUInv'
<1> USE DEF DUInv
<1>1. /\ task[u].stage = "registering" /\ DU!Moves(u, "adding") /\ timer' = TRUE
      /\ UNCHANGED <<duClient, finished, duDatabase, pending, reports, logged, app, forgone>>
  BY DEF DU!TimerRegistered, DU!At
<1>2. DUSteps(u, "adding", task[u].left, task[u].ok)
  BY <1>1, DUMovesStep DEF DU!Stages
<1>3. DUTypes'
  BY <1>1, <1>2 DEF DUTypes, DUSteps
<1>4. /\ task'[u].stage = "adding" /\ task'[u].left = task[u].left /\ task'[u].of = task[u].of
      /\ task'[u].files = task[u].files /\ \A v \in Upload \ {u} : task'[v] = task[v]
  BY <1>2 DEF DUSteps
<1>5. DUAgrees(u)'
  BY <1>1, <1>4 DEF DUAgrees, DUUploadsAgree, DU!Has, DU!NextFile
<1>6. DUUploadsAgree'
  BY <1>1, <1>4, <1>5, DUOthersAgree DEF DUUploadsAgree
<1>7. DUTypesOfNotes' /\ DUNotes'
  BY <1>1, <1>3, <1>4, DUUntouched DEF DUTypesOfNotes, DUTypes
<1> QED
  BY <1>3, <1>6, <1>7

(* The steps that leave the uploads and the database alone. *)
LEMMA DUUploadsStay ==
  ASSUME DUInv, UNCHANGED <<duClient, task, finished, duDatabase>>
  PROVE  /\ DUTypes' /\ DUUploadsAgree'
         /\ \A f : DUJustAdded(f)' <=> DUJustAdded(f)
         /\ DUAddersAreApart'
<1> USE DEF DUInv, DUNotes
<1>1. \A u \in Upload : DU!Has(u)' = DU!Has(u) /\ DU!At(u, "added")' = DU!At(u, "added")
  BY DEF DU!Has, DU!NextFile, DU!At
<1> QED
  BY <1>1, DUOthersAgree DEF DUTypes, DUUploadsAgree, DUJustAdded, DUAddersAreApart

LEMMA DUFiveMinutesStep ==
  ASSUME DUInv, NEW d \in Dump, DU!FiveMinutes(d)
  PROVE  DUInv'
<1>1. UNCHANGED <<duClient, task, finished, duDatabase, pending, timer, reports, logged, app, forgone>>
  BY DEF DU!FiveMinutes
<1>2. DUTypes' /\ DUUploadsAgree'
  BY <1>1, DUUploadsStay
<1>3. DUTypesOfNotes' /\ DUNotes'
  BY <1>1, <1>2, DUUntouched DEF DUInv, DUTypesOfNotes, DUTypes
<1> QED
  BY <1>2, <1>3 DEF DUInv

LEMMA DUProcessStep ==
  ASSUME DUConstants, DUInv, NEW force \in BOOLEAN, DU!Process(force),
         UNCHANGED <<duClient, task, finished, duDatabase, logged, forgone>>,
         \/ ~force /\ timer /\ app' = app
         \/ force /\ app = "stopping" /\ app' = "flushed"
  PROVE  DUInv'
<1> USE DEF DUInv, DUNotes
<1>1. PICK due : due = {d \in Dump : pending[d] # {} /\ (force \/ d \notin young)}
  OBVIOUS
<1>2. PICK files : files = UNION {{<<d, f>> : f \in pending[d]} : d \in due}
  OBVIOUS
<1>3. PICK r : r = [files |-> files, forced |-> force]
  OBVIOUS
<1>4. /\ pending' = [d \in Dump |-> IF d \in due THEN {} ELSE pending[d]]
      /\ timer' = (timer /\ \E d \in Dump : pending'[d] # {})
      /\ reports' = IF due = {} THEN reports ELSE reports \union {r}
  BY <1>1, <1>2, <1>3 DEF DU!Process
<1>5. due \subseteq Dump
  BY <1>1
<1>6. \A f \in files : f \in DU!Stored
  BY <1>2, <1>5 DEF DU!Stored, DUTypesOfNotes
<1>7. \A f \in DU!Stored : f \in files <=> DUAwaited(f) /\ f[1] \in due
  BY <1>2, <1>5 DEF DUAwaited, DU!Stored
<1>8. r \in DU!Report /\ r.files = files
  BY <1>3, <1>6 DEF DU!Report
<1>9. \A f \in DU!Stored : DUAwaited(f)' <=> DUAwaited(f) /\ f[1] \notin due
  BY <1>4 DEF DUAwaited, DU!Stored
<1>10. files # {} => due # {}
  BY <1>2
<1>11. \A f \in DU!Stored : DUInReports(f)' <=> DUInReports(f) \/ f \in files
  BY <1>4, <1>8, <1>10 DEF DUInReports
<1>12. \A f : DUJustAdded(f)' <=> DUJustAdded(f)
  BY DUUploadsStay
<1>13. DUTypes' /\ DUUploadsAgree' /\ DUAddersAreApart'
  BY DUUploadsStay
<1>14. DUTypesOfNotes'
  BY <1>4, <1>5, <1>8 DEF DUTypesOfNotes
<1>15. \A f \in DU!Stored : f \in files => logged[f] = 0 /\ ~DUInReports(f) /\ ~DUJustAdded(f)
  BY <1>7 DEF DUAwaitedAreOnlyThere, DULoggedAreGone
<1>16. DUNewAreNowhere'
  BY <1>7, <1>9, <1>11 DEF DUNewAreNowhere
<1>17. DULoggedAreGone'
  BY <1>9, <1>11, <1>12, <1>15 DEF DULoggedAreGone
<1>18. DUAwaitedAreOnlyThere'
  BY <1>7, <1>9, <1>11, <1>12 DEF DUAwaitedAreOnlyThere
<1>19. DUReportsAreApart'
  <2> SUFFICES ASSUME NEW f \in DU!Stored, NEW p \in reports', f \in p.files
               PROVE  ~DUJustAdded(f)' /\ \A q \in reports' : f \in q.files => q = p
    BY DEF DUReportsAreApart
  <2>1. \A q \in reports' : q \in reports \/ q = r
    BY <1>4
  <2>2. CASE f \in files
    BY <1>8, <1>12, <1>15, <2>1, <2>2 DEF DUInReports
  <2>3. CASE f \notin files
    BY <1>8, <1>12, <2>1, <2>3 DEF DUReportsAreApart
  <2> QED
    BY <2>2, <2>3
<1>20. DUFlushedAreForgone'
  <2>1. CASE ~force
    BY <1>9, <2>1 DEF DUFlushedAreForgone
  <2>2. CASE force
    BY <1>1, <1>9, <2>2 DEF DUAwaited, DUFlushedAreForgone
  <2> QED
    BY <2>1, <2>2
<1>21. \A f \in DU!Stored : DUAwaited(f)' => DUComes'
  <2> SUFFICES ASSUME NEW f \in DU!Stored, DUAwaited(f)' PROVE DUComes'
    OBVIOUS
  <2>1. ~force
    BY <1>1, <1>9 DEF DUAwaited
  <2>2. timer'
    BY <1>4, <2>1 DEF DUAwaited
  <2> QED
    BY <2>2 DEF DUComes
<1>22. DUEveryoneIsServed'
  <2> SUFFICES ASSUME NEW f \in duDatabase, f \notin forgone, f[1] # Asset
               PROVE  logged[f] > 0 \/ DUJustAdded(f)' \/ DUInReports(f)' \/ (DUAwaited(f)' /\ DUComes')
    BY DEF DUEveryoneIsServed
  <2>1. f \in DU!Stored /\ (logged[f] > 0 \/ DUJustAdded(f) \/ DUInReports(f) \/ DUAwaited(f))
    BY DEF DUEveryoneIsServed, DUTypes
  <2>2. DUAwaited(f) => DUAwaited(f)' \/ f \in files
    BY <1>7, <1>9, <2>1
  <2> QED
    BY <1>11, <1>12, <1>21, <2>1, <2>2
<1> QED
  BY <1>13, <1>14, <1>16, <1>17, <1>18, <1>19, <1>20, <1>22

LEMMA DUReportedStep ==
  ASSUME DUConstants, DUInv, NEW r \in reports, DU!Reported(r)
  PROVE  DUInv'
<1> USE DEF DUInv, DUNotes
<1>1. /\ reports' = reports \ {r}
      /\ logged' = [f \in DU!Stored |-> IF f \in r.files THEN logged[f] + 1 ELSE logged[f]]
      /\ UNCHANGED <<duClient, task, finished, duDatabase, pending, timer, app, forgone>>
  BY DEF DU!Reported
<1>2. \A f : DUJustAdded(f)' <=> DUJustAdded(f)
  BY <1>1, DUUploadsStay
<1>3. DUTypes' /\ DUUploadsAgree' /\ DUAddersAreApart'
  BY <1>1, DUUploadsStay
<1>4. DUTypesOfNotes'
  BY <1>1 DEF DUTypesOfNotes
<1>5. \A f \in DU!Stored : DUAwaited(f)' <=> DUAwaited(f)
  BY <1>1 DEF DUAwaited
<1>6. \A f \in DU!Stored : DUInReports(f)' => DUInReports(f) /\ f \notin r.files
  BY <1>1 DEF DUInReports, DUReportsAreApart
<1>7. \A f \in DU!Stored : DUInReports(f) => DUInReports(f)' \/ f \in r.files
  BY <1>1 DEF DUInReports
<1>8. \A f \in DU!Stored : f \in r.files => DUInReports(f)
  BY DEF DUInReports
<1>9. \A f \in DU!Stored : f \in r.files => logged[f] = 0 /\ ~DUAwaited(f) /\ ~DUJustAdded(f) /\ f \in duDatabase
  BY <1>8 DEF DULoggedAreGone, DUAwaitedAreOnlyThere, DUReportsAreApart, DUNewAreNowhere
<1>10. \A f \in DU!Stored : logged'[f] = IF f \in r.files THEN 1 ELSE logged[f]
  BY <1>1, <1>9
<1>11. DUNewAreNowhere'
  BY <1>1, <1>5, <1>6, <1>9, <1>10 DEF DUNewAreNowhere
<1>12. DULoggedAreGone'
  BY <1>2, <1>5, <1>6, <1>9, <1>10 DEF DULoggedAreGone
<1>13. DUAwaitedAreOnlyThere'
  BY <1>2, <1>5, <1>6 DEF DUAwaitedAreOnlyThere
<1>14. DUReportsAreApart'
  BY <1>1, <1>2 DEF DUReportsAreApart
<1>15. DUFlushedAreForgone'
  BY <1>1, <1>5 DEF DUFlushedAreForgone
<1>16. DUComes' = DUComes
  BY <1>1 DEF DUComes, DU!At
<1>17. DUEveryoneIsServed'
  <2> SUFFICES ASSUME NEW f \in duDatabase, f \notin forgone, f[1] # Asset
               PROVE  logged'[f] > 0 \/ DUJustAdded(f)' \/ DUInReports(f)' \/ (DUAwaited(f)' /\ DUComes')
    BY <1>1 DEF DUEveryoneIsServed
  <2>1. f \in DU!Stored /\ (logged[f] > 0 \/ DUJustAdded(f) \/ DUInReports(f) \/ (DUAwaited(f) /\ DUComes))
    BY DEF DUEveryoneIsServed, DUTypes
  <2> QED
    BY <1>2, <1>5, <1>7, <1>10, <1>16, <2>1
<1> QED
  BY <1>3, <1>4, <1>11, <1>12, <1>13, <1>14, <1>15, <1>17

LEMMA DUReportFailsStep ==
  ASSUME DUConstants, DUInv, NEW r \in reports, DU!ReportFails(r)
  PROVE  DUInv'
<1> USE DEF DUInv, DUNotes
<1>1. /\ reports' = reports \ {r} /\ forgone' = forgone \union r.files
      /\ UNCHANGED <<duClient, task, finished, duDatabase, pending, timer, logged, app>>
  BY DEF DU!ReportFails
<1>2. \A f : DUJustAdded(f)' <=> DUJustAdded(f)
  BY <1>1, DUUploadsStay
<1>3. DUTypes' /\ DUUploadsAgree' /\ DUAddersAreApart'
  BY <1>1, DUUploadsStay
<1>4. DUTypesOfNotes'
  BY <1>1 DEF DUTypesOfNotes
<1>5. \A f \in DU!Stored : DUAwaited(f)' <=> DUAwaited(f)
  BY <1>1 DEF DUAwaited
<1>6. \A f \in DU!Stored : DUInReports(f)' => DUInReports(f)
  BY <1>1 DEF DUInReports
<1>7. \A f \in DU!Stored : DUInReports(f) => DUInReports(f)' \/ f \in r.files
  BY <1>1 DEF DUInReports
<1>8. DUNewAreNowhere'
  BY <1>1, <1>5, <1>6 DEF DUNewAreNowhere
<1>9. DULoggedAreGone'
  BY <1>1, <1>2, <1>5, <1>6 DEF DULoggedAreGone
<1>10. DUAwaitedAreOnlyThere'
  BY <1>2, <1>5, <1>6 DEF DUAwaitedAreOnlyThere
<1>11. DUReportsAreApart'
  BY <1>1, <1>2 DEF DUReportsAreApart
<1>12. DUFlushedAreForgone'
  BY <1>1, <1>5 DEF DUFlushedAreForgone
<1>13. DUComes' = DUComes
  BY <1>1 DEF DUComes, DU!At
<1>14. DUEveryoneIsServed'
  <2> SUFFICES ASSUME NEW f \in duDatabase, f \notin forgone', f[1] # Asset
               PROVE  logged[f] > 0 \/ DUJustAdded(f)' \/ DUInReports(f)' \/ (DUAwaited(f)' /\ DUComes')
    BY <1>1 DEF DUEveryoneIsServed
  <2>1. f \in DU!Stored /\ f \notin r.files /\ (logged[f] > 0 \/ DUJustAdded(f) \/ DUInReports(f) \/ (DUAwaited(f) /\ DUComes))
    BY <1>1 DEF DUEveryoneIsServed, DUTypes
  <2> QED
    BY <1>2, <1>5, <1>7, <1>13, <2>1
<1> QED
  BY <1>3, <1>4, <1>8, <1>9, <1>10, <1>11, <1>12, <1>14

LEMMA DUStopStep ==
  ASSUME DUConstants, DUInv, DU!Stop
  PROVE  DUInv'
<1> USE DEF DUInv, DUNotes
<1>1. /\ app' = "stopping" /\ timer' = FALSE
      /\ UNCHANGED <<duClient, task, finished, duDatabase, pending, reports, logged, forgone>>
  BY DEF DU!Stop
<1>2. \A f : DUJustAdded(f)' <=> DUJustAdded(f)
  BY <1>1, DUUploadsStay
<1>3. DUTypes' /\ DUUploadsAgree' /\ DUAddersAreApart'
  BY <1>1, DUUploadsStay
<1>4. DUTypesOfNotes'
  BY <1>1 DEF DUTypesOfNotes
<1>5. \A f \in DU!Stored : (DUAwaited(f)' <=> DUAwaited(f)) /\ (DUInReports(f)' <=> DUInReports(f))
  BY <1>1 DEF DUAwaited, DUInReports
<1>6. DUComes'
  BY <1>1 DEF DUComes
<1>7. DUNewAreNowhere' /\ DULoggedAreGone' /\ DUAwaitedAreOnlyThere'
  BY <1>1, <1>2, <1>5 DEF DUNewAreNowhere, DULoggedAreGone, DUAwaitedAreOnlyThere
<1>8. DUReportsAreApart'
  BY <1>1, <1>2 DEF DUReportsAreApart
<1>9. DUFlushedAreForgone'
  BY <1>1 DEF DUFlushedAreForgone
<1>10. DUEveryoneIsServed'
  <2> SUFFICES ASSUME NEW f \in duDatabase, f \notin forgone, f[1] # Asset
               PROVE  logged[f] > 0 \/ DUJustAdded(f)' \/ DUInReports(f)' \/ (DUAwaited(f)' /\ DUComes')
    BY <1>1 DEF DUEveryoneIsServed
  <2>1. f \in DU!Stored /\ (logged[f] > 0 \/ DUJustAdded(f) \/ DUInReports(f) \/ DUAwaited(f))
    BY DEF DUEveryoneIsServed, DUTypes
  <2> QED
    BY <1>2, <1>5, <1>6, <2>1
<1> QED
  BY <1>3, <1>4, <1>7, <1>8, <1>9, <1>10

(* The process starts again: what was not logged is forgone. *)
LEMMA DURestartsStep ==
  ASSUME DUConstants, DUInv, NEW lost, DU!Restarts(lost),
         \A f \in duDatabase \ forgone : f[1] # Asset => logged[f] > 0 \/ f \in lost
  PROVE  DUInv'
<1> USE DEF DUInv, DUNotes
<1>1. /\ duClient' = [u \in Upload |-> IF duClient[u] = "sending" THEN "failed" ELSE duClient[u]]
      /\ pending' = [d \in Dump |-> {}] /\ timer' = FALSE /\ reports' = {}
      /\ app' = "runs" /\ forgone' = forgone \union lost
      /\ UNCHANGED <<finished, duDatabase, logged>>
  BY DEF DU!Restarts
<1>2. \A u \in Upload :
        /\ task'[u] \in [stage : DU!Stages, ok : BOOLEAN, of : Dump \union {Asset},
                         files : SUBSET duFile, left : SUBSET duFile]
        /\ task[u].stage = "none" => task'[u].stage = "none"
        /\ task[u].stage # "none" =>
             task'[u].stage = "done" /\ task'[u].of = task[u].of /\ task'[u].files = task[u].files
  <2> SUFFICES ASSUME NEW u \in Upload
               PROVE
        /\ task'[u] \in [stage : DU!Stages, ok : BOOLEAN, of : Dump \union {Asset},
                         files : SUBSET duFile, left : SUBSET duFile]
        /\ task[u].stage = "none" => task'[u].stage = "none"
        /\ task[u].stage # "none" =>
             task'[u].stage = "done" /\ task'[u].of = task[u].of /\ task'[u].files = task[u].files
    OBVIOUS
  <2>1. PICK t : t = task[u]
    OBVIOUS
  <2>2. t \in [stage : DU!Stages, ok : BOOLEAN, of : Dump \union {Asset},
               files : SUBSET duFile, left : SUBSET duFile]
    BY <2>1 DEF DUTypes
  <2>3. task'[u] = IF t.stage = "none" THEN DU!NoTask ELSE [t EXCEPT !.stage = "done"]
    BY <2>1 DEF DU!Restarts, DU!At
  <2>4. "none" \in DU!Stages /\ "done" \in DU!Stages
    BY DEF DU!Stages
  <2>5. CASE t.stage = "none"
    <3>1. task'[u] = DU!NoTask
      BY <2>3, <2>5
    <3>2. DU!NoTask \in [stage : DU!Stages, ok : BOOLEAN, of : Dump \union {Asset},
                      files : SUBSET duFile, left : SUBSET duFile]
      BY <2>4 DEF DU!NoTask
    <3>3. DU!NoTask.stage = "none"
      BY DEF DU!NoTask
    <3> QED
      BY <2>1, <2>5, <3>1, <3>2, <3>3
  <2>6. CASE t.stage # "none"
    BY <2>1, <2>2, <2>3, <2>4, <2>6
  <2> QED
    BY <2>5, <2>6
<1>3. DUTypes'
  <2>1. duClient' \in [Upload -> {"none", "sending", "ok", "failed"}]
    BY <1>1 DEF DUTypes
  <2>2. DOMAIN task' = Upload /\ task' = [u \in Upload |-> task'[u]]
    BY DEF DU!Restarts
  <2> QED
    BY <1>1, <1>2, <2>1, <2>2 DEF DUTypes
<1>4. DUUploadsAgree'
  <2> SUFFICES ASSUME NEW u \in Upload PROVE DUAgrees(u)'
    BY DEF DUUploadsAgree
  <2>1. DUAgrees(u) /\ duClient'[u] = IF duClient[u] = "sending" THEN "failed" ELSE duClient[u]
    BY <1>1 DEF DUUploadsAgree
  <2>2. CASE task[u].stage = "none"
    <3>1. duClient[u] = "none" /\ duClient'[u] = "none" /\ finished[u] = "none" /\ task'[u].stage = "none"
      BY <1>2, <2>1, <2>2 DEF DUAgrees, DUTypes
    <3> QED
      BY <1>1, <3>1 DEF DUAgrees
  <2>3. CASE task[u].stage # "none"
    <3>1. /\ duClient'[u] # "none" /\ task'[u].stage = "done" /\ task'[u].of = task[u].of
          /\ task'[u].files = task[u].files
      BY <1>2, <2>1, <2>3 DEF DUAgrees
    <3>2. duClient'[u] = "ok" => finished[u] = "ok"
      BY <2>1 DEF DUAgrees
    <3>3. finished[u] = "ok" => \A n \in task[u].files : <<task[u].of, n>> \in duDatabase
      BY <2>1 DEF DUAgrees
    <3> QED
      BY <1>1, <3>1, <3>2, <3>3 DEF DUAgrees
  <2> QED
    BY <2>2, <2>3
<1>5. \A u \in Upload : ~DU!At(u, "added")'
  BY <1>2 DEF DU!At
<1>6. DUTypesOfNotes'
  BY <1>1 DEF DUTypesOfNotes
<1>7. \A f : ~DUJustAdded(f)' /\ ~DUInReports(f)' /\ ~DUAwaited(f)'
  BY <1>1, <1>5 DEF DUJustAdded, DUInReports, DUAwaited
<1>8. DUNewAreNowhere' /\ DULoggedAreGone' /\ DUAwaitedAreOnlyThere'
  BY <1>1, <1>7 DEF DUNewAreNowhere, DULoggedAreGone, DUAwaitedAreOnlyThere
<1>9. DUReportsAreApart' /\ DUAddersAreApart' /\ DUFlushedAreForgone'
  BY <1>1, <1>5 DEF DUReportsAreApart, DUAddersAreApart, DUFlushedAreForgone
<1>10. DUEveryoneIsServed'
  BY <1>1 DEF DUEveryoneIsServed
<1> QED
  BY <1>3, <1>4, <1>6, <1>8, <1>9, <1>10

LEMMA DUExitStep ==
  ASSUME DUConstants, DUInv, DU!Exit
  PROVE  DUInv'
<1> USE DEF DUInv, DUNotes
<1>1. PICK lost : /\ lost = {DU!Has(u) : u \in {v \in Upload : DU!At(v, "added")}}
                              \union UNION {r.files : r \in reports}
                  /\ DU!Restarts(lost)
  BY DEF DU!Exit
<1>2. app = "flushed"
  BY DEF DU!Exit
<1>3. \A f : DUJustAdded(f) \/ DUInReports(f) => f \in lost
  BY <1>1 DEF DUJustAdded, DUInReports
<1>4. ASSUME NEW f \in duDatabase, f \notin forgone, f[1] # Asset
      PROVE  logged[f] > 0 \/ f \in lost
  <2>1. ~DUAwaited(f)
    BY <1>2, <1>4 DEF DUFlushedAreForgone, DUTypes
  <2> QED
    BY <1>3, <1>4, <2>1 DEF DUEveryoneIsServed
<1> QED
  BY <1>1, <1>4, DURestartsStep

LEMMA DUCrashStep ==
  ASSUME DUConstants, DUInv, DU!Crash
  PROVE  DUInv'
<1> USE DEF DUInv, DUNotes
<1>1. PICK lost : lost = {f \in duDatabase : logged[f] = 0} /\ DU!Restarts(lost)
  BY DEF DU!Crash
<1>2. \A f \in duDatabase : logged[f] > 0 \/ f \in lost
  BY <1>1 DEF DUTypesOfNotes, DUTypes
<1> QED
  BY <1>1, <1>2, DURestartsStep

LEMMA DUInitHolds ==
  ASSUME DUConstants, DU!Init
  PROVE  DUInv
<1>1. DU!NoTask \in [stage : DU!Stages, ok : BOOLEAN, of : Dump \union {Asset},
                  files : SUBSET duFile, left : SUBSET duFile] /\ DU!NoTask.stage = "none"
  BY DEF DU!NoTask, DU!Stages
<1>2. DUTypes /\ DUTypesOfNotes
  BY <1>1 DEF DU!Init, DUTypes, DUTypesOfNotes
<1>3. \A u \in Upload : task[u].stage = "none" /\ duClient[u] = "none" /\ finished[u] = "none"
  BY <1>1 DEF DU!Init
<1>4. DUUploadsAgree
  BY <1>3 DEF DUUploadsAgree, DUAgrees
<1>5. \A f : ~DUJustAdded(f) /\ ~DUInReports(f) /\ ~DUAwaited(f)
  BY <1>3 DEF DU!Init, DUJustAdded, DUInReports, DUAwaited, DU!At
<1>6. DUNewAreNowhere /\ DULoggedAreGone /\ DUAwaitedAreOnlyThere
  BY <1>5 DEF DU!Init, DUNewAreNowhere, DULoggedAreGone, DUAwaitedAreOnlyThere
<1>7. DUReportsAreApart /\ DUAddersAreApart /\ DUFlushedAreForgone /\ DUEveryoneIsServed
  BY <1>3 DEF DU!Init, DUReportsAreApart, DUAddersAreApart, DUFlushedAreForgone,
     DUEveryoneIsServed, DU!At
<1> QED
  BY <1>2, <1>4, <1>6, <1>7 DEF DUInv, DUNotes

LEMMA DUEveryMinuteStep ==
  ASSUME DUConstants, DUInv, DU!EveryMinute
  PROVE  DUInv'
<1>1. DU!Process(FALSE) /\ timer /\ UNCHANGED <<duClient, task, finished, duDatabase, logged, forgone, app>>
  BY DEF DU!EveryMinute
<1> QED
  BY <1>1, DUProcessStep

LEMMA DUFlushStep ==
  ASSUME DUConstants, DUInv, DU!Flush
  PROVE  DUInv'
<1>1. /\ DU!Process(TRUE) /\ app = "stopping" /\ app' = "flushed"
      /\ UNCHANGED <<duClient, task, finished, duDatabase, logged, forgone>>
  BY DEF DU!Flush
<1> QED
  BY <1>1, DUProcessStep

LEMMA DUNextHolds ==
  ASSUME DUConstants, DUInv, DU!Next
  PROVE  DUInv'
<1>1. CASE \E u \in Upload : \E w \in duWants[u] : DU!Ask(u, w[1], w[2])
  BY <1>1, DUAskStep
<1>2. CASE \E u \in Upload : DU!ClientFinishes(u) \/ DU!ClientAborts(u)
  BY <1>2, DUClientStep
<1>3. CASE \E u \in Upload :
             DU!Start(u) \/ DU!ReceiveEnds(u) \/ DU!ReceiveFails(u) \/ DU!Received(u) \/ DU!AddFails(u) \/ DU!AllAdded(u)
  BY <1>3, DUCoroutineStep
<1>4. CASE \E u \in Upload : DU!AddCrashDump(u)
  BY <1>4, DUAddCrashDumpStep
<1>5. CASE \E u \in Upload : DU!AddAsset(u)
  BY <1>5, DUAddAssetStep
<1>6. CASE \E u \in Upload : DU!CrashDumpAdded(u)
  BY <1>6, DUCrashDumpAddedStep
<1>7. CASE \E u \in Upload : DU!TimerRegistered(u)
  BY <1>7, DUTimerRegisteredStep
<1>8. CASE \E d \in Dump : DU!FiveMinutes(d)
  BY <1>8, DUFiveMinutesStep
<1>9. CASE \E r \in reports : DU!Reported(r)
  BY <1>9, DUReportedStep
<1>10. CASE \E r \in reports : DU!ReportFails(r)
  BY <1>10, DUReportFailsStep
<1>11. CASE DU!EveryMinute
  BY <1>11, DUEveryMinuteStep
<1>12. CASE DU!Stop
  BY <1>12, DUStopStep
<1>13. CASE DU!Flush
  BY <1>13, DUFlushStep
<1>14. CASE DU!Exit
  BY <1>14, DUExitStep
<1>15. CASE DU!Crash
  BY <1>15, DUCrashStep
<1> QED
  BY <1>1, <1>2, <1>3, <1>4, <1>5, <1>6, <1>7, <1>8, <1>9, <1>10, <1>11, <1>12, <1>13, <1>14,
     <1>15 DEF DU!Next

LEMMA DUStays ==
  ASSUME DUInv, UNCHANGED duVars
  PROVE  DUInv'
<1>1. UNCHANGED <<duClient, task, finished, duDatabase, pending, timer, reports, logged, app, forgone>>
  BY DEF duVars
<1>2. DUTypes' /\ DUUploadsAgree'
  BY <1>1, DUUploadsStay
<1>3. DUTypesOfNotes' /\ DUNotes'
  BY <1>1, <1>2, DUUntouched DEF DUInv, DUTypesOfNotes, DUTypes
<1> QED
  BY <1>2, <1>3 DEF DUInv

LEMMA DUHolds ==
  ASSUME DUInv
  PROVE  DU!EveryDumpIsLogged /\ DU!LoggedOnce /\ DU!SuccessIsTrue
<1> USE DEF DUInv, DUNotes
<1>1. DU!LoggedOnce
  BY DEF DU!LoggedOnce, DULoggedAreGone, DUTypesOfNotes
<1>2. DU!SuccessIsTrue
  <2> SUFFICES ASSUME NEW u \in Upload, duClient[u] = "ok"
               PROVE  {task[u].of} \X task[u].files \subseteq duDatabase
    BY DEF DU!SuccessIsTrue
  <2>1. \A n \in task[u].files : <<task[u].of, n>> \in duDatabase
    BY DEF DUUploadsAgree, DUAgrees
  <2> QED
    BY <2>1
<1>3. DU!EveryDumpIsLogged
  BY DEF DU!EveryDumpIsLogged, DUEveryoneIsServed, DUJustAdded, DUInReports, DUAwaited, DUComes
<1> QED
  BY <1>1, <1>2, <1>3

-----------------------------------------------------------------------------
(* NetworkTunnels *)

(* What the state of the servers is made of. *)
NTTypesOfServers ==
  /\ config \in [Server -> NT!Host \cup {NT!None}]
  /\ ntEntry \in [Server -> [host : NT!Host \cup {NT!None}, held : BOOLEAN]]
  /\ ntStep \in [Server -> NT!Steps]
  /\ published \in [Server -> NT!Host \cup {NT!None}]
  /\ failed \in SUBSET Server

NTTypesOfLinks ==
  /\ up \in [Server -> BOOLEAN]
  /\ ntSubscribed \in [Server -> {"none", "checking", "yes"}]
  /\ ntWire \in [Server -> Seq(NT!Changes)]

NTTypesOfClient ==
  /\ ntState \in [Server -> {"none", "with", "without"}]
  /\ available \in SUBSET Server
  /\ ntOpened \in SUBSET Tunnel
  /\ actor \in [Tunnel -> Server \cup {NT!None}]

NTCounted == ntEvents \in 0 .. ntMaxEvents

(* A server that is through with its configuration publishes what it says, and one that is
   not is on its way there. *)
NTFollows(wanted, there, kept, at) ==
  /\ at = "idle" => there = wanted /\ kept.host = wanted /\ (kept.held <=> wanted # NT!None)
  /\ at # "idle" => ~kept.held
  /\ at \in {"unregister", "query remove", "sent remove"} /\ wanted = NT!None => kept.host = NT!None
  /\ at \in {"query remove", "sent remove"} => there = NT!None
  /\ at = "publish" => there = NT!None /\ wanted # NT!None
  /\ at \in {"register", "query add", "sent add"} => there = wanted /\ wanted # NT!None
NTServersFollow ==
  \A s \in Server \ failed : NTFollows(config[s], published[s], ntEntry[s], ntStep[s])

(* A publication that failed leaves its tunnel, which nothing removes. *)
NTFailedStays ==
  \A s \in failed : published[s] # NT!None /\ ~ntEntry[s].held /\ ntStep[s] \in {"idle", "publish"}

NTLinksAgree ==
  \A s \in Server :
    /\ ntSubscribed[s] = "none" <=> ~up[s]
    /\ ~up[s] => ntWire[s] = <<>>
    /\ up[s] => ntState[s] # "none"

(* What the client has been told of a server, or will be. *)
NTMeans(change) == IF change \in {"add", "initial with"} THEN "with" ELSE "without"
NTTold == [s \in Server |-> IF ntWire[s] = <<>> THEN ntState[s] ELSE NTMeans(ntWire[s][Len(ntWire[s])])]

(* A client that is subscribed has been told of what is published, but for the change that
   the server is about to send. *)
NTToldIsTrue ==
  \A s \in Server : ntSubscribed[s] = "yes" =>
    /\ NTTold[s] = "with" => published[s] # NT!None \/ ntStep[s] = "query remove"
    /\ NTTold[s] # "with" => \/ published[s] = NT!None \/ s \in failed
                           \/ ntStep[s] \in {"register", "query add"}

NTAvailableAgree == \A s \in Server : s \in available <=> ntState[s] = "with"

(* An open tunnel leads to a server that is available, when there is one. *)
NTActorsLead ==
  \A t \in Tunnel :
    IF t \in ntOpened
      THEN IF actor[t] = NT!None THEN available \cap ntWants[t] = {}
           ELSE actor[t] \in available \cap ntWants[t]
      ELSE actor[t] = NT!None

NTInv == NTTypesOfServers /\ NTTypesOfLinks /\ NTTypesOfClient /\ NTCounted /\ NTServersFollow /\ NTFailedStays /\ NTLinksAgree /\ NTToldIsTrue
        /\ NTAvailableAgree /\ NTActorsLead


LEMMA NTToldAppended ==
  ASSUME NTTypesOfLinks, NEW s \in Server, NEW change \in NT!Changes, ntState' = ntState,
         ntWire' = [ntWire EXCEPT ![s] = Append(@, change)]
  PROVE  /\ ntWire' \in [Server -> Seq(NT!Changes)]
         /\ NTTold' = [NTTold EXCEPT ![s] = NTMeans(change)]
<1>1. ntWire \in [Server -> Seq(NT!Changes)]
  BY DEF NTTypesOfLinks
<1>2. ntWire[s] \in Seq(NT!Changes)
  BY <1>1
<1>3. PICK w : w = Append(ntWire[s], change)
  OBVIOUS
<1>4. w \in Seq(NT!Changes) /\ w # <<>> /\ w[Len(w)] = change
  BY <1>2, <1>3
<1>5. ntWire' = [ntWire EXCEPT ![s] = w]
  BY <1>3
<1>6. ntWire' \in [Server -> Seq(NT!Changes)]
  BY <1>1, <1>4, <1>5
<1>7. \A q \in Server : NTTold'[q] = IF q = s THEN NTMeans(change) ELSE NTTold[q]
  BY <1>1, <1>4, <1>5 DEF NTTold
<1> QED
  BY <1>6, <1>7 DEF NTTold

LEMMA NTToldDelivered ==
  ASSUME NTTypesOfLinks, NTTypesOfClient, NEW s \in Server, ntWire[s] # <<>>,
         ntWire' = [ntWire EXCEPT ![s] = Tail(@)],
         ntState' = [ntState EXCEPT ![s] = NTMeans(Head(ntWire[s]))]
  PROVE  ntWire' \in [Server -> Seq(NT!Changes)] /\ NTTold' = NTTold
<1>1. ntWire \in [Server -> Seq(NT!Changes)] /\ ntWire[s] \in Seq(NT!Changes)
  BY DEF NTTypesOfLinks
<1>2. PICK w : w = Tail(ntWire[s])
  OBVIOUS
<1>3. /\ w \in Seq(NT!Changes)
      /\ w = <<>> => Head(ntWire[s]) = ntWire[s][Len(ntWire[s])]
      /\ w # <<>> => w[Len(w)] = ntWire[s][Len(ntWire[s])]
  <2>1. Len(ntWire[s]) \in Nat /\ Len(ntWire[s]) > 0
    BY <1>1
  <2>2. w \in Seq(NT!Changes) /\ Len(w) = Len(ntWire[s]) - 1
    BY <1>1, <1>2, <2>1
  <2>3. w = <<>> => Len(ntWire[s]) = 1
    BY <2>1, <2>2
  <2>4. Head(ntWire[s]) = ntWire[s][1]
    BY <1>1, <2>1
  <2>5. \A i \in 1..Len(w) : w[i] = ntWire[s][i + 1]
    BY <1>1, <1>2, <2>1
  <2>6. w # <<>> => Len(w) \in 1..Len(w) /\ Len(w) + 1 = Len(ntWire[s])
    BY <2>1, <2>2
  <2> QED
    BY <2>2, <2>3, <2>4, <2>5, <2>6
<1>4. ntWire' = [ntWire EXCEPT ![s] = w]
  BY <1>2
<1>5. ntWire' \in [Server -> Seq(NT!Changes)]
  BY <1>1, <1>3, <1>4
<1>6. \A q \in Server : ntState'[q] = IF q = s THEN NTMeans(Head(ntWire[s])) ELSE ntState[q]
  BY DEF NTTypesOfClient
<1>7. \A q \in Server : NTTold'[q] = NTTold[q]
  BY <1>1, <1>3, <1>4, <1>6 DEF NTTold
<1> QED
  BY <1>5, <1>7 DEF NTTold

LEMMA NTReloadStep ==
  ASSUME NTConstants, NTInv, NEW s \in Server, NEW host \in NT!Host \cup {NT!None}, NT!Reload(s, host)
  PROVE  NTInv'
<1> USE DEF NTInv, NTConstants, NT!None, NT!Host, NTFollows, NT!clientVars, NT!linkVars
<1>1. NTTold' = NTTold
  BY DEF NT!Reload, NTTold
<1>2. config' = [config EXCEPT ![s] = host] /\ ntStep[s] = "idle" /\ host # config[s]
  BY DEF NT!Reload
<1>3. host = ntEntry[s].host => UNCHANGED <<ntStep, ntEntry>>
  BY DEF NT!Reload
<1>4. host # ntEntry[s].host => \E e \in [host : NT!Host \cup {NT!None}, held : BOOLEAN], w \in NT!Steps :
        /\ ntEntry' = [ntEntry EXCEPT ![s] = e] /\ ntStep' = [ntStep EXCEPT ![s] = w]
        /\ ~e.held /\ (host = NT!None => e.host = NT!None)
        /\ w = IF ntEntry[s].held THEN "unregister" ELSE IF host = NT!None THEN "idle" ELSE "publish"
  <2> SUFFICES ASSUME host # ntEntry[s].host
               PROVE  \E e \in [host : NT!Host \cup {NT!None}, held : BOOLEAN], w \in NT!Steps :
        /\ ntEntry' = [ntEntry EXCEPT ![s] = e] /\ ntStep' = [ntStep EXCEPT ![s] = w]
        /\ ~e.held /\ (host = NT!None => e.host = NT!None)
        /\ w = IF ntEntry[s].held THEN "unregister" ELSE IF host = NT!None THEN "idle" ELSE "publish"
    OBVIOUS
  <2> DEFINE w == IF ntEntry[s].held THEN "unregister" ELSE IF host = NT!None THEN "idle" ELSE "publish"
             e == IF host = NT!None THEN [host |-> NT!None, held |-> FALSE] ELSE [ntEntry[s] EXCEPT !.held = FALSE]
  <2>1. w \in NT!Steps
    BY DEF NT!Steps
  <2>2. e \in [host : NT!Host \cup {NT!None}, held : BOOLEAN] /\ ~e.held /\ (host = NT!None => e.host = NT!None)
    <3>1. CASE host = NT!None
      BY <3>1
    <3>2. CASE host # NT!None
      <4>1. ntEntry[s] \in [host : NT!Host \cup {NT!None}, held : BOOLEAN]
        BY DEF NTTypesOfServers
      <4> QED
        BY <3>2, <4>1
    <3> QED
      BY <3>1, <3>2
  <2>3. ntEntry' = [ntEntry EXCEPT ![s] = e] /\ ntStep' = [ntStep EXCEPT ![s] = w]
    BY DEF NT!Reload, NT!To
  <2> QED
    BY <2>1, <2>2, <2>3
<1>5. NTTypesOfServers'
  <2>1. config' \in [Server -> NT!Host \cup {NT!None}] /\ UNCHANGED <<published, failed>>
    BY <1>2 DEF NT!Reload, NTTypesOfServers
  <2>2. CASE host = ntEntry[s].host
    BY <1>3, <2>1, <2>2 DEF NTTypesOfServers
  <2>3. CASE host # ntEntry[s].host
    BY <1>4, <2>1, <2>3 DEF NTTypesOfServers
  <2> QED
    BY <2>2, <2>3
<1>6. NTTypesOfLinks'
  BY DEF NT!Reload, NT!Happens, NT!To, NTTypesOfLinks, NT!Changes
<1>7. NTTypesOfClient'
  BY DEF NT!Reload, NT!Happens, NT!To, NTTypesOfClient, NT!First, NT!Without, NT!With
<1>8. NTCounted'
  BY DEF NT!Reload, NT!Happens, NT!To, NTCounted
<1>9. NTServersFollow'
  <2> HIDE DEF NTFollows
  <2>1. UNCHANGED <<published, failed>>
    BY DEF NT!Reload
  <2>2. CASE host = ntEntry[s].host
    <3>1. s \notin failed => FALSE
      BY <1>2, <2>2 DEF NTServersFollow, NTFollows
    <3> QED
      BY <1>2, <1>3, <2>1, <2>2, <3>1 DEF NTTypesOfServers, NTServersFollow
  <2>3. CASE host # ntEntry[s].host
    <3>1. PICK e \in [host : NT!Host \cup {NT!None}, held : BOOLEAN], w \in NT!Steps :
            /\ ntEntry' = [ntEntry EXCEPT ![s] = e] /\ ntStep' = [ntStep EXCEPT ![s] = w]
            /\ ~e.held /\ (host = NT!None => e.host = NT!None)
            /\ w = IF ntEntry[s].held THEN "unregister" ELSE IF host = NT!None THEN "idle" ELSE "publish"
      BY <1>4, <2>3
    <3>2. s \notin failed => NTFollows(host, published[s], e, w)
      <4>1. s \notin failed => published[s] = config[s] /\ ntEntry[s].host = config[s]
                              /\ (ntEntry[s].held <=> config[s] # NT!None)
        BY <1>2 DEF NTServersFollow, NTFollows
      <4> QED
        BY <3>1, <4>1 DEF NTFollows
    <3>3. /\ config'[s] = host /\ ntEntry'[s] = e /\ ntStep'[s] = w
          /\ \A q \in Server \ {s} : config'[q] = config[q] /\ ntEntry'[q] = ntEntry[q] /\ ntStep'[q] = ntStep[q]
      BY <1>2, <3>1 DEF NTTypesOfServers
    <3> QED
      BY <2>1, <3>2, <3>3 DEF NTServersFollow
  <2> QED
    BY <2>2, <2>3
<1>10. NTFailedStays'
  <2>1. UNCHANGED <<published, failed>>
    BY DEF NT!Reload
  <2>2. CASE host = ntEntry[s].host
    BY <1>2, <1>3, <2>1, <2>2 DEF NTTypesOfServers, NTServersFollow, NTFailedStays
  <2>3. CASE host # ntEntry[s].host
    BY <1>2, <1>4, <2>1, <2>3 DEF NTTypesOfServers, NTServersFollow, NTFailedStays
  <2> QED
    BY <2>2, <2>3
<1>11. NTLinksAgree'
  BY DEF NT!Reload, NT!Happens, NT!To, NTLinksAgree, NTTypesOfLinks, NTTypesOfClient
<1>12. NTToldIsTrue'
  <2>1. UNCHANGED <<published, failed, ntSubscribed>>
    BY DEF NT!Reload, NT!linkVars
  <2>2. \A q \in Server : q # s => ntStep'[q] = ntStep[q]
    BY <1>3, <1>4 DEF NTTypesOfServers
  <2> QED
    BY <1>2, <1>1, <2>1, <2>2 DEF NTToldIsTrue
<1>13. NTAvailableAgree'
  BY DEF NT!Reload, NT!Happens, NT!To, NTAvailableAgree, NTTypesOfClient
<1>14. NTActorsLead'
  BY DEF NT!Reload, NT!Happens, NT!To, NTActorsLead, NTTypesOfClient, NTAvailableAgree,
     NT!First, NT!With, NT!Without
<1> QED
  BY <1>5, <1>6, <1>7, <1>8, <1>9, <1>10, <1>11, <1>12, <1>13, <1>14

LEMMA NTUnpublishStep ==
  ASSUME NTConstants, NTInv, NEW s \in Server, NT!Unpublish(s)
  PROVE  NTInv'
<1> USE DEF NTInv, NTConstants, NT!None, NT!Host, NTFollows, NT!clientVars, NT!linkVars
<1>1. NTTold' = NTTold
  BY DEF NT!Unpublish, NTTold
<1>2. NTTypesOfServers'
  BY DEF NT!Unpublish, NT!To, NTTypesOfServers, NT!Steps
<1>3. NTTypesOfLinks'
  BY DEF NT!Unpublish, NT!To, NTTypesOfLinks, NT!Changes
<1>4. NTTypesOfClient'
  BY DEF NT!Unpublish, NT!To, NTTypesOfClient, NT!First, NT!Without, NT!With
<1>5. NTCounted'
  BY DEF NT!Unpublish, NT!To, NTCounted
<1>6. NTServersFollow'
  BY ZenonT(60) DEF NT!Unpublish, NT!To, NTServersFollow, NTTypesOfServers, NTFailedStays
<1>7. NTFailedStays'
  BY DEF NT!Unpublish, NT!To, NTFailedStays, NTTypesOfServers, NTServersFollow
<1>8. NTLinksAgree'
  BY DEF NT!Unpublish, NT!To, NTLinksAgree, NTTypesOfLinks, NTTypesOfClient
<1>9. NTToldIsTrue'
  BY <1>1 DEF NT!Unpublish, NT!To, NTToldIsTrue, NTTypesOfServers, NTServersFollow,
     NTFailedStays
<1>10. NTAvailableAgree'
  BY DEF NT!Unpublish, NT!To, NTAvailableAgree, NTTypesOfClient
<1>11. NTActorsLead'
  BY DEF NT!Unpublish, NT!To, NTActorsLead, NTTypesOfClient, NTAvailableAgree, NT!First,
     NT!With, NT!Without
<1> QED
  BY <1>2, <1>3, <1>4, <1>5, <1>6, <1>7, <1>8, <1>9, <1>10, <1>11

LEMMA NTPublishStep ==
  ASSUME NTConstants, NTInv, NEW s \in Server, NT!Publish(s)
  PROVE  NTInv'
<1> USE DEF NTInv, NTConstants, NT!None, NT!Host, NTFollows, NT!clientVars, NT!linkVars
<1>1. NTTold' = NTTold
  BY DEF NT!Publish, NTTold
<1>2. NTTypesOfServers'
  BY DEF NT!Publish, NT!To, NTTypesOfServers, NT!Steps
<1>3. NTTypesOfLinks'
  BY DEF NT!Publish, NT!To, NTTypesOfLinks, NT!Changes
<1>4. NTTypesOfClient'
  BY DEF NT!Publish, NT!To, NTTypesOfClient, NT!First, NT!Without, NT!With
<1>5. NTCounted'
  BY DEF NT!Publish, NT!To, NTCounted
<1>6. NTServersFollow'
  BY DEF NT!Publish, NT!To, NTServersFollow, NTTypesOfServers, NTFailedStays
<1>7. NTFailedStays'
  BY DEF NT!Publish, NT!To, NTFailedStays, NTTypesOfServers, NTServersFollow
<1>8. NTLinksAgree'
  BY DEF NT!Publish, NT!To, NTLinksAgree, NTTypesOfLinks, NTTypesOfClient
<1>9. NTToldIsTrue'
  BY <1>1 DEF NT!Publish, NT!To, NTToldIsTrue, NTTypesOfServers, NTServersFollow, NTFailedStays
<1>10. NTAvailableAgree'
  BY DEF NT!Publish, NT!To, NTAvailableAgree, NTTypesOfClient
<1>11. NTActorsLead'
  BY DEF NT!Publish, NT!To, NTActorsLead, NTTypesOfClient, NTAvailableAgree, NT!First, NT!With,
     NT!Without
<1> QED
  BY <1>2, <1>3, <1>4, <1>5, <1>6, <1>7, <1>8, <1>9, <1>10, <1>11

LEMMA NTRegisteredStep ==
  ASSUME NTConstants, NTInv, NEW s \in Server, NT!Registered(s)
  PROVE  NTInv'
<1> USE DEF NTInv, NTConstants, NT!None, NT!Host, NTFollows, NT!clientVars, NT!linkVars
<1>1. NTTold' = NTTold
  BY DEF NT!Registered, NTTold
<1>2. ntStep[s] = "register" /\ UNCHANGED <<config, published, ntSubscribed>>
  BY DEF NT!Registered, NT!linkVars
<1>3. \/ /\ ntStep' = [ntStep EXCEPT ![s] = "query add"] /\ ntSubscribed[s] # "none"
         /\ UNCHANGED <<ntEntry, failed>>
      \/ /\ ntStep' = [ntStep EXCEPT ![s] = "idle"] /\ ntSubscribed[s] = "none" /\ UNCHANGED failed
         /\ ntEntry' = [ntEntry EXCEPT ![s] = [host |-> config[s], held |-> TRUE]]
      \/ /\ ntStep' = [ntStep EXCEPT ![s] = "idle"] /\ failed = {} /\ failed' = {s}
         /\ UNCHANGED ntEntry
  BY DEF NT!Registered, NT!To
<1>4. s \notin failed => published[s] # NT!None /\ ~ntEntry[s].held
  BY <1>2 DEF NTServersFollow
<1>5. NTTypesOfServers'
  <2>1. [host |-> config[s], held |-> TRUE] \in [host : NT!Host \cup {NT!None}, held : BOOLEAN]
    BY DEF NTTypesOfServers
  <2>2. {"idle", "query add", "publish"} \subseteq NT!Steps
    BY DEF NT!Steps
  <2>3. ntStep' \in [Server -> NT!Steps]
    BY <1>3, <2>2 DEF NTTypesOfServers
  <2>4. ntEntry' \in [Server -> [host : NT!Host \cup {NT!None}, held : BOOLEAN]]
    <3>1. UNCHANGED ntEntry \/ ntEntry' = [ntEntry EXCEPT ![s] = [host |-> config[s], held |-> TRUE]]
      BY <1>3
    <3> QED
      BY ZenonT(60), <2>1, <3>1 DEF NTTypesOfServers
  <2>5. failed' \in SUBSET Server
    BY <1>3 DEF NTTypesOfServers
  <2> QED
    BY <1>2, <2>3, <2>4, <2>5 DEF NTTypesOfServers
<1>6. NTTypesOfLinks'
  BY DEF NT!Registered, NT!To, NTTypesOfLinks, NT!Changes
<1>7. NTTypesOfClient'
  BY DEF NT!Registered, NT!To, NTTypesOfClient, NT!First, NT!Without, NT!With
<1>8. NTCounted'
  BY DEF NT!Registered, NT!To, NTCounted
<1>9. NTServersFollow'
  <2>1. CASE /\ ntStep' = [ntStep EXCEPT ![s] = "query add"] /\ ntSubscribed[s] # "none"
             /\ UNCHANGED <<ntEntry, failed>>
    BY <1>2, <2>1 DEF NTTypesOfServers, NTServersFollow, NTFailedStays
  <2>2. CASE /\ ntStep' = [ntStep EXCEPT ![s] = "idle"] /\ ntSubscribed[s] = "none" /\ UNCHANGED failed
             /\ ntEntry' = [ntEntry EXCEPT ![s] = [host |-> config[s], held |-> TRUE]]
    BY ZenonT(60), <1>2, <2>2 DEF NTTypesOfServers, NTServersFollow, NTFailedStays
  <2>3. CASE /\ ntStep' = [ntStep EXCEPT ![s] = "idle"] /\ failed = {} /\ failed' = {s}
             /\ UNCHANGED ntEntry
    BY <1>2, <1>4, <2>3 DEF NTTypesOfServers, NTServersFollow, NTFailedStays
  <2> QED
    BY <1>3, <2>1, <2>2, <2>3
<1>10. NTFailedStays'
  <2>1. CASE /\ ntStep' = [ntStep EXCEPT ![s] = "query add"] /\ ntSubscribed[s] # "none"
             /\ UNCHANGED <<ntEntry, failed>>
    BY <1>2, <2>1 DEF NTTypesOfServers, NTServersFollow, NTFailedStays
  <2>2. CASE /\ ntStep' = [ntStep EXCEPT ![s] = "idle"] /\ ntSubscribed[s] = "none" /\ UNCHANGED failed
             /\ ntEntry' = [ntEntry EXCEPT ![s] = [host |-> config[s], held |-> TRUE]]
    BY <1>2, <2>2 DEF NTTypesOfServers, NTServersFollow, NTFailedStays
  <2>3. CASE /\ ntStep' = [ntStep EXCEPT ![s] = "idle"] /\ failed = {} /\ failed' = {s}
             /\ UNCHANGED ntEntry
    BY <1>2, <1>4, <2>3 DEF NTTypesOfServers, NTFailedStays
  <2> QED
    BY <1>3, <2>1, <2>2, <2>3
<1>11. NTLinksAgree'
  BY DEF NT!Registered, NT!To, NTLinksAgree, NTTypesOfLinks, NTTypesOfClient
<1>12. NTToldIsTrue'
  <2>1. CASE /\ ntStep' = [ntStep EXCEPT ![s] = "query add"] /\ ntSubscribed[s] # "none"
             /\ UNCHANGED <<ntEntry, failed>>
    BY <1>2, <2>1, <1>1 DEF NTTypesOfServers, NTServersFollow, NTFailedStays, NTToldIsTrue
  <2>2. CASE /\ ntStep' = [ntStep EXCEPT ![s] = "idle"] /\ ntSubscribed[s] = "none" /\ UNCHANGED failed
             /\ ntEntry' = [ntEntry EXCEPT ![s] = [host |-> config[s], held |-> TRUE]]
    BY <1>2, <2>2, <1>1 DEF NTTypesOfServers, NTServersFollow, NTFailedStays, NTToldIsTrue
  <2>3. CASE /\ ntStep' = [ntStep EXCEPT ![s] = "idle"] /\ failed = {} /\ failed' = {s}
             /\ UNCHANGED ntEntry
    BY <1>2, <1>4, <2>3, <1>1 DEF NTTypesOfServers, NTServersFollow, NTFailedStays, NTToldIsTrue
  <2> QED
    BY <1>3, <2>1, <2>2, <2>3
<1>13. NTAvailableAgree'
  BY DEF NT!Registered, NT!To, NTAvailableAgree, NTTypesOfClient
<1>14. NTActorsLead'
  BY DEF NT!Registered, NT!To, NTActorsLead, NTTypesOfClient, NTAvailableAgree, NT!First,
     NT!With, NT!Without
<1> QED
  BY <1>5, <1>6, <1>7, <1>8, <1>9, <1>10, <1>11, <1>12, <1>13, <1>14

LEMMA NTRefusedStep ==
  ASSUME NTConstants, NTInv, NEW s \in Server, NT!Refused(s)
  PROVE  NTInv'
<1> USE DEF NTInv, NTConstants, NT!None, NT!Host, NTFollows, NT!clientVars, NT!linkVars
<1>1. NTTold' = NTTold
  BY DEF NT!Refused, NTTold
<1>2. NTTypesOfServers'
  BY DEF NT!Refused, NT!To, NTTypesOfServers, NT!Steps
<1>3. NTTypesOfLinks'
  BY DEF NT!Refused, NT!To, NTTypesOfLinks, NT!Changes
<1>4. NTTypesOfClient'
  BY DEF NT!Refused, NT!To, NTTypesOfClient, NT!First, NT!Without, NT!With
<1>5. NTCounted'
  BY DEF NT!Refused, NT!To, NTCounted
<1>6. NTServersFollow'
  BY DEF NT!Refused, NT!To, NTServersFollow, NTTypesOfServers, NTFailedStays
<1>7. NTFailedStays'
  BY DEF NT!Refused, NT!To, NTFailedStays, NTTypesOfServers, NTServersFollow
<1>8. NTLinksAgree'
  BY DEF NT!Refused, NT!To, NTLinksAgree, NTTypesOfLinks, NTTypesOfClient
<1>9. NTToldIsTrue'
  BY <1>1 DEF NT!Refused, NT!To, NTToldIsTrue, NTTypesOfServers, NTServersFollow, NTFailedStays
<1>10. NTAvailableAgree'
  BY DEF NT!Refused, NT!To, NTAvailableAgree, NTTypesOfClient
<1>11. NTActorsLead'
  BY DEF NT!Refused, NT!To, NTActorsLead, NTTypesOfClient, NTAvailableAgree, NT!First, NT!With,
     NT!Without
<1> QED
  BY <1>2, <1>3, <1>4, <1>5, <1>6, <1>7, <1>8, <1>9, <1>10, <1>11

LEMMA NTSendChangeStep ==
  ASSUME NTConstants, NTInv, NEW s \in Server, NT!SendChange(s)
  PROVE  NTInv'
<1> USE DEF NTInv, NTConstants, NT!None, NT!Host, NTFollows, NT!clientVars, NT!linkVars
<1>1. /\ UNCHANGED <<config, published, ntSubscribed, failed, ntState>>
      /\ \E change \in {"add", "remove"} :
           /\ ntStep[s] = IF change = "add" THEN "query add" ELSE "query remove"
           /\ ntStep' = [ntStep EXCEPT ![s] = IF change = "add" THEN "sent add" ELSE "sent remove"]
           /\ \/ ntSubscribed[s] = "none" /\ ntWire' = ntWire
              \/ ntSubscribed[s] # "none" /\ ntWire' = [ntWire EXCEPT ![s] = Append(@, change)]
  BY DEF NT!SendChange, NT!To, NT!clientVars
<1>2. /\ ntWire' \in [Server -> Seq(NT!Changes)]
      /\ \A q \in Server : NTTold'[q] =
           IF q # s \/ ntSubscribed[s] = "none" THEN NTTold[q]
           ELSE IF ntStep[s] = "query add" THEN "with" ELSE "without"
  <2>1. CASE ntSubscribed[s] = "none"
    BY <1>1, <2>1 DEF NTTypesOfLinks, NTTold
  <2>2. CASE ntSubscribed[s] # "none"
    <3>1. PICK change \in {"add", "remove"} :
            /\ ntStep[s] = IF change = "add" THEN "query add" ELSE "query remove"
            /\ ntWire' = [ntWire EXCEPT ![s] = Append(@, change)]
      BY <1>1, <2>2
    <3>2. change \in NT!Changes /\ ntState' = ntState
      BY <1>1 DEF NT!Changes
    <3>3. ntWire' \in [Server -> Seq(NT!Changes)] /\ NTTold' = [NTTold EXCEPT ![s] = NTMeans(change)]
      BY <3>1, <3>2, NTToldAppended
    <3> QED
      BY <2>2, <3>1, <3>3 DEF NTTold, NTMeans
  <2> QED
    BY <2>1, <2>2
<1>3. NTTypesOfServers'
  BY DEF NT!SendChange, NT!To, NTTypesOfServers, NT!Steps
<1>4. NTTypesOfLinks'
  BY <1>1, <1>2 DEF NTTypesOfLinks, NT!SendChange
<1>5. NTTypesOfClient'
  BY DEF NT!SendChange, NT!To, NTTypesOfClient, NT!First, NT!Without, NT!With
<1>6. NTCounted'
  BY DEF NT!SendChange, NT!To, NTCounted
<1>7. NTServersFollow'
  BY DEF NT!SendChange, NT!To, NTServersFollow, NTTypesOfServers, NTFailedStays
<1>8. NTFailedStays'
  BY DEF NT!SendChange, NT!To, NTFailedStays, NTTypesOfServers, NTServersFollow
<1>9. NTLinksAgree'
  BY DEF NT!SendChange, NT!To, NTLinksAgree, NTTypesOfLinks, NTTypesOfClient
<1>10. NTToldIsTrue'
  <2>1. /\ UNCHANGED <<published, ntSubscribed, failed>> /\ ntStep[s] \in {"query add", "query remove"}
        /\ \A q \in Server \ {s} : ntStep'[q] = ntStep[q] /\ NTTold'[q] = NTTold[q]
    BY <1>1, <1>2 DEF NTTypesOfServers
  <2>2. IF ntStep[s] = "query add" THEN published[s] # NT!None ELSE published[s] = NT!None
    BY <2>1 DEF NTServersFollow, NTFailedStays
  <2>3. ntSubscribed[s] = "yes" => NTTold'[s] = IF ntStep[s] = "query add" THEN "with" ELSE "without"
    BY <1>2
  <2> QED
    BY <2>1, <2>2, <2>3 DEF NTToldIsTrue
<1>11. NTAvailableAgree'
  BY DEF NT!SendChange, NT!To, NTAvailableAgree, NTTypesOfClient
<1>12. NTActorsLead'
  BY DEF NT!SendChange, NT!To, NTActorsLead, NTTypesOfClient, NTAvailableAgree, NT!First,
     NT!With, NT!Without
<1> QED
  BY <1>3, <1>4, <1>5, <1>6, <1>7, <1>8, <1>9, <1>10, <1>11, <1>12

LEMMA NTChangeSentStep ==
  ASSUME NTConstants, NTInv, NEW s \in Server, NT!ChangeSent(s)
  PROVE  NTInv'
<1> USE DEF NTInv, NTConstants, NT!None, NT!Host, NTFollows, NT!clientVars, NT!linkVars
<1>1. NTTold' = NTTold
  BY DEF NT!ChangeSent, NTTold
<1>2. UNCHANGED <<config, published, ntSubscribed, failed>>
  BY DEF NT!ChangeSent, NT!linkVars
<1>3. \/ /\ ntStep' = [ntStep EXCEPT ![s] = "idle"] /\ ntStep[s] = "sent add"
         /\ ntEntry' = [ntEntry EXCEPT ![s] = [host |-> config[s], held |-> TRUE]]
      \/ /\ ntStep' = [ntStep EXCEPT ![s] = "idle"] /\ ntStep[s] = "sent remove" /\ config[s] = NT!None
         /\ UNCHANGED ntEntry
      \/ /\ ntStep' = [ntStep EXCEPT ![s] = "publish"] /\ ntStep[s] = "sent remove" /\ config[s] # NT!None
         /\ UNCHANGED ntEntry
  BY DEF NT!ChangeSent, NT!To
<1>4. NTTypesOfServers'
  <2>1. [host |-> config[s], held |-> TRUE] \in [host : NT!Host \cup {NT!None}, held : BOOLEAN]
    BY DEF NTTypesOfServers
  <2>2. {"idle", "query add", "publish"} \subseteq NT!Steps
    BY DEF NT!Steps
  <2>3. ntStep' \in [Server -> NT!Steps]
    BY <1>3, <2>2 DEF NTTypesOfServers
  <2>4. ntEntry' \in [Server -> [host : NT!Host \cup {NT!None}, held : BOOLEAN]]
    BY ZenonT(60), <1>3, <2>1 DEF NTTypesOfServers
  <2>5. failed' \in SUBSET Server
    BY <1>2 DEF NTTypesOfServers
  <2> QED
    BY <1>2, <2>3, <2>4, <2>5 DEF NTTypesOfServers
<1>5. NTTypesOfLinks'
  BY DEF NT!ChangeSent, NT!To, NTTypesOfLinks, NT!Changes
<1>6. NTTypesOfClient'
  BY DEF NT!ChangeSent, NT!To, NTTypesOfClient, NT!First, NT!Without, NT!With
<1>7. NTCounted'
  BY DEF NT!ChangeSent, NT!To, NTCounted
<1>8. NTServersFollow'
  <2>1. CASE /\ ntStep' = [ntStep EXCEPT ![s] = "idle"] /\ ntStep[s] = "sent add"
             /\ ntEntry' = [ntEntry EXCEPT ![s] = [host |-> config[s], held |-> TRUE]]
    BY ZenonT(60), <1>2, <2>1 DEF NTTypesOfServers, NTServersFollow, NTFailedStays
  <2>2. CASE /\ ntStep' = [ntStep EXCEPT ![s] = "idle"] /\ ntStep[s] = "sent remove" /\ config[s] = NT!None
             /\ UNCHANGED ntEntry
    BY <1>2, <2>2 DEF NTTypesOfServers, NTServersFollow, NTFailedStays
  <2>3. CASE /\ ntStep' = [ntStep EXCEPT ![s] = "publish"] /\ ntStep[s] = "sent remove" /\ config[s] # NT!None
             /\ UNCHANGED ntEntry
    BY <1>2, <2>3 DEF NTTypesOfServers, NTServersFollow, NTFailedStays
  <2> QED
    BY <1>3, <2>1, <2>2, <2>3
<1>9. NTFailedStays'
  <2>1. CASE /\ ntStep' = [ntStep EXCEPT ![s] = "idle"] /\ ntStep[s] = "sent add"
             /\ ntEntry' = [ntEntry EXCEPT ![s] = [host |-> config[s], held |-> TRUE]]
    BY <1>2, <2>1 DEF NTTypesOfServers, NTServersFollow, NTFailedStays
  <2>2. CASE /\ ntStep' = [ntStep EXCEPT ![s] = "idle"] /\ ntStep[s] = "sent remove" /\ config[s] = NT!None
             /\ UNCHANGED ntEntry
    BY <1>2, <2>2 DEF NTTypesOfServers, NTServersFollow, NTFailedStays
  <2>3. CASE /\ ntStep' = [ntStep EXCEPT ![s] = "publish"] /\ ntStep[s] = "sent remove" /\ config[s] # NT!None
             /\ UNCHANGED ntEntry
    BY <1>2, <2>3 DEF NTTypesOfServers, NTServersFollow, NTFailedStays
  <2> QED
    BY <1>3, <2>1, <2>2, <2>3
<1>10. NTLinksAgree'
  BY DEF NT!ChangeSent, NT!To, NTLinksAgree, NTTypesOfLinks, NTTypesOfClient
<1>11. NTToldIsTrue'
  <2>1. CASE /\ ntStep' = [ntStep EXCEPT ![s] = "idle"] /\ ntStep[s] = "sent add"
             /\ ntEntry' = [ntEntry EXCEPT ![s] = [host |-> config[s], held |-> TRUE]]
    BY <1>2, <2>1, <1>1 DEF NTTypesOfServers, NTServersFollow, NTFailedStays, NTToldIsTrue
  <2>2. CASE /\ ntStep' = [ntStep EXCEPT ![s] = "idle"] /\ ntStep[s] = "sent remove" /\ config[s] = NT!None
             /\ UNCHANGED ntEntry
    BY <1>2, <2>2, <1>1 DEF NTTypesOfServers, NTServersFollow, NTFailedStays, NTToldIsTrue
  <2>3. CASE /\ ntStep' = [ntStep EXCEPT ![s] = "publish"] /\ ntStep[s] = "sent remove" /\ config[s] # NT!None
             /\ UNCHANGED ntEntry
    BY <1>2, <2>3, <1>1 DEF NTTypesOfServers, NTServersFollow, NTFailedStays, NTToldIsTrue
  <2> QED
    BY <1>3, <2>1, <2>2, <2>3
<1>12. NTAvailableAgree'
  BY DEF NT!ChangeSent, NT!To, NTAvailableAgree, NTTypesOfClient
<1>13. NTActorsLead'
  BY DEF NT!ChangeSent, NT!To, NTActorsLead, NTTypesOfClient, NTAvailableAgree, NT!First,
     NT!With, NT!Without
<1> QED
  BY <1>4, <1>5, <1>6, <1>7, <1>8, <1>9, <1>10, <1>11, <1>12, <1>13

LEMMA NTConnectStep ==
  ASSUME NTConstants, NTInv, NEW s \in Server, NT!Connect(s)
  PROVE  NTInv'
<1> USE DEF NTInv, NTConstants, NT!None, NT!Host, NTFollows, NT!clientVars, NT!linkVars
<1>1. \A q \in Server \ {s} : NTTold'[q] = NTTold[q]
  BY DEF NT!Connect, NTTold, NTTypesOfLinks, NTTypesOfClient, NT!clientVars, NT!linkVars
<1>2. NTTypesOfServers'
  BY DEF NT!Connect, NTTypesOfServers, NT!Steps
<1>3. NTTypesOfLinks'
  BY DEF NT!Connect, NTTypesOfLinks, NT!Changes
<1>4. NTTypesOfClient'
  BY DEF NT!Connect, NTTypesOfClient, NT!First, NT!Without, NT!With
<1>5. NTCounted'
  BY DEF NT!Connect, NTCounted
<1>6. NTServersFollow'
  BY DEF NT!Connect, NTServersFollow, NTTypesOfServers, NTFailedStays
<1>7. NTFailedStays'
  BY DEF NT!Connect, NTFailedStays, NTTypesOfServers, NTServersFollow
<1>8. NTLinksAgree'
  BY DEF NT!Connect, NTLinksAgree, NTTypesOfLinks, NTTypesOfClient
<1>9. NTToldIsTrue'
  BY <1>1 DEF NT!Connect, NTTypesOfServers, NTTypesOfLinks, NTLinksAgree, NTToldIsTrue
<1>10. NTAvailableAgree'
  BY DEF NT!Connect, NTAvailableAgree, NTTypesOfClient
<1>11. NTActorsLead'
  BY DEF NT!Connect, NTActorsLead, NTTypesOfClient, NTAvailableAgree, NT!First, NT!With,
     NT!Without
<1> QED
  BY <1>2, <1>3, <1>4, <1>5, <1>6, <1>7, <1>8, <1>9, <1>10, <1>11

LEMMA NTSendInitialStep ==
  ASSUME NTConstants, NTInv, NEW s \in Server, NT!SendInitial(s)
  PROVE  NTInv'
<1> USE DEF NTInv, NTConstants, NT!None, NT!Host, NTFollows, NT!clientVars, NT!linkVars
<1>1. /\ ntWire' \in [Server -> Seq(NT!Changes)]
      /\ \A q \in Server : NTTold'[q] = IF q # s THEN NTTold[q]
                                      ELSE IF published[s] = NT!None THEN "without" ELSE "with"
  <2>1. PICK change \in NT!Changes :
          /\ change = IF published[s] = NT!None THEN "initial without" ELSE "initial with"
          /\ ntWire' = [ntWire EXCEPT ![s] = Append(@, change)]
    BY DEF NT!SendInitial, NT!Changes
  <2>2. ntState' = ntState
    BY DEF NT!SendInitial
  <2>3. ntWire' \in [Server -> Seq(NT!Changes)] /\ NTTold' = [NTTold EXCEPT ![s] = NTMeans(change)]
    BY <2>1, <2>2, NTToldAppended
  <2> QED
    BY <2>1, <2>3 DEF NTTold, NTMeans
<1>2. NTTypesOfServers'
  BY DEF NT!SendInitial, NTTypesOfServers, NT!Steps
<1>3. NTTypesOfLinks'
  BY <1>1 DEF NTTypesOfLinks, NT!SendInitial
<1>4. NTTypesOfClient'
  BY DEF NT!SendInitial, NTTypesOfClient, NT!First, NT!Without, NT!With
<1>5. NTCounted'
  BY DEF NT!SendInitial, NTCounted
<1>6. NTServersFollow'
  BY DEF NT!SendInitial, NTServersFollow, NTTypesOfServers, NTFailedStays
<1>7. NTFailedStays'
  BY DEF NT!SendInitial, NTFailedStays, NTTypesOfServers, NTServersFollow
<1>8. NTLinksAgree'
  BY DEF NT!SendInitial, NTLinksAgree, NTTypesOfLinks, NTTypesOfClient
<1>9. NTToldIsTrue'
  BY ZenonT(60), <1>1 DEF NT!SendInitial, NTTypesOfServers, NTTypesOfLinks, NTServersFollow, NTFailedStays,
     NTToldIsTrue
<1>10. NTAvailableAgree'
  BY DEF NT!SendInitial, NTAvailableAgree, NTTypesOfClient
<1>11. NTActorsLead'
  BY DEF NT!SendInitial, NTActorsLead, NTTypesOfClient, NTAvailableAgree, NT!First, NT!With,
     NT!Without
<1> QED
  BY <1>2, <1>3, <1>4, <1>5, <1>6, <1>7, <1>8, <1>9, <1>10, <1>11

LEMMA NTDisconnectStep ==
  ASSUME NTConstants, NTInv, NEW s \in Server, NT!Disconnect(s)
  PROVE  NTInv'
<1> USE DEF NTInv, NTConstants, NT!None, NT!Host, NTFollows, NT!clientVars, NT!linkVars
<1>1. ntWire' \in [Server -> Seq(NT!Changes)] /\ \A q \in Server \ {s} : ntWire'[q] = ntWire[q]
  <2>1. <<>> \in Seq(NT!Changes) /\ ntWire \in [Server -> Seq(NT!Changes)]
    BY DEF NTTypesOfLinks
  <2>2. ntWire' = [ntWire EXCEPT ![s] = <<>>]
    BY DEF NT!Disconnect
  <2> QED
    BY <2>1, <2>2
<1>2. \A q \in Server \ {s} : NTTold'[q] = NTTold[q]
  BY <1>1 DEF NT!Disconnect, NT!Happens, NTTold, NTTypesOfLinks, NTTypesOfClient, NT!clientVars,
     NT!linkVars
<1>3. NTTypesOfServers'
  BY DEF NT!Disconnect, NT!Happens, NTTypesOfServers, NT!Steps
<1>4. NTTypesOfLinks'
  BY <1>1 DEF NTTypesOfLinks, NT!Disconnect
<1>5. NTTypesOfClient'
  BY DEF NT!Disconnect, NT!Happens, NTTypesOfClient, NT!First, NT!Without, NT!With
<1>6. NTCounted'
  BY DEF NT!Disconnect, NT!Happens, NTCounted
<1>7. NTServersFollow'
  BY DEF NT!Disconnect, NT!Happens, NTServersFollow, NTTypesOfServers, NTFailedStays
<1>8. NTFailedStays'
  BY DEF NT!Disconnect, NT!Happens, NTFailedStays, NTTypesOfServers, NTServersFollow
<1>9. NTLinksAgree'
  BY DEF NT!Disconnect, NT!Happens, NTLinksAgree, NTTypesOfLinks, NTTypesOfClient
<1>10. NTToldIsTrue'
  BY <1>2 DEF NT!Disconnect, NT!Happens, NTTypesOfServers, NTTypesOfLinks, NTLinksAgree,
     NTToldIsTrue
<1>11. NTAvailableAgree'
  BY DEF NT!Disconnect, NT!Happens, NTAvailableAgree, NTTypesOfClient
<1>12. NTActorsLead'
  BY DEF NT!Disconnect, NT!Happens, NTActorsLead, NTTypesOfClient, NTAvailableAgree, NT!First,
     NT!With, NT!Without
<1> QED
  BY <1>3, <1>4, <1>5, <1>6, <1>7, <1>8, <1>9, <1>10, <1>11, <1>12

LEMMA NTRestartStep ==
  ASSUME NTConstants, NTInv, NEW s \in Server, NT!Restart(s)
  PROVE  NTInv'
<1> USE DEF NTInv, NTConstants, NT!None, NT!Host, NTFollows, NT!clientVars, NT!linkVars
<1>1. ntWire' \in [Server -> Seq(NT!Changes)] /\ \A q \in Server \ {s} : ntWire'[q] = ntWire[q]
  <2>1. <<>> \in Seq(NT!Changes) /\ ntWire \in [Server -> Seq(NT!Changes)]
    BY DEF NTTypesOfLinks
  <2>2. ntWire' = [ntWire EXCEPT ![s] = <<>>]
    BY DEF NT!Restart
  <2> QED
    BY <2>1, <2>2
<1>2. \A q \in Server \ {s} : NTTold'[q] = NTTold[q]
  BY <1>1 DEF NT!Restart, NT!Happens, NT!To, NTTold, NTTypesOfLinks, NTTypesOfClient,
     NT!clientVars, NT!linkVars
<1>3. NTTypesOfServers'
  BY DEF NT!Restart, NT!Happens, NT!To, NTTypesOfServers, NT!Steps
<1>4. NTTypesOfLinks'
  BY <1>1 DEF NTTypesOfLinks, NT!Restart
<1>5. NTTypesOfClient'
  BY DEF NT!Restart, NT!Happens, NT!To, NTTypesOfClient, NT!First, NT!Without, NT!With
<1>6. NTCounted'
  BY DEF NT!Restart, NT!Happens, NT!To, NTCounted
<1>7. NTServersFollow'
  BY DEF NT!Restart, NT!Happens, NT!To, NTServersFollow, NTTypesOfServers, NTFailedStays
<1>8. NTFailedStays'
  BY DEF NT!Restart, NT!Happens, NT!To, NTFailedStays, NTTypesOfServers, NTServersFollow
<1>9. NTLinksAgree'
  BY DEF NT!Restart, NT!Happens, NT!To, NTLinksAgree, NTTypesOfLinks, NTTypesOfClient
<1>10. NTToldIsTrue'
  BY <1>2 DEF NT!Restart, NT!Happens, NT!To, NTTypesOfServers, NTTypesOfLinks, NTLinksAgree,
     NTToldIsTrue
<1>11. NTAvailableAgree'
  BY DEF NT!Restart, NT!Happens, NT!To, NTAvailableAgree, NTTypesOfClient
<1>12. NTActorsLead'
  BY DEF NT!Restart, NT!Happens, NT!To, NTActorsLead, NTTypesOfClient, NTAvailableAgree,
     NT!First, NT!With, NT!Without
<1> QED
  BY <1>3, <1>4, <1>5, <1>6, <1>7, <1>8, <1>9, <1>10, <1>11, <1>12

LEMMA NTDeliverStep ==
  ASSUME NTConstants, NTInv, NEW s \in Server, NT!Deliver(s)
  PROVE  NTInv'
<1> USE DEF NTInv, NTConstants, NT!None, NT!Host, NTFollows, NT!clientVars, NT!linkVars
<1>1. /\ ntWire[s] # <<>> /\ ntWire' = [ntWire EXCEPT ![s] = Tail(@)]
      /\ Head(ntWire[s]) \in NT!Changes
  <2>1. ntWire[s] \in Seq(NT!Changes) /\ ntWire[s] # <<>> /\ ntWire' = [ntWire EXCEPT ![s] = Tail(@)]
    BY DEF NT!Deliver, NTTypesOfLinks
  <2>2. Len(ntWire[s]) \in Nat /\ Len(ntWire[s]) > 0
    BY <2>1
  <2>3. Head(ntWire[s]) = ntWire[s][1] /\ ntWire[s][1] \in NT!Changes
    BY <2>1, <2>2
  <2> QED
    BY <2>1, <2>3
<1>2. \/ /\ Head(ntWire[s]) = "add"
         /\ available' = available \cup {s} /\ actor' = NT!With(s, actor)
         /\ ntState' = [ntState EXCEPT ![s] = "with"]
      \/ /\ Head(ntWire[s]) = "initial with"
         /\ available' = available \cup {s}
         /\ actor' = NT!With(s, IF ntState[s] = "with" THEN NT!Without(s, actor) ELSE actor)
         /\ ntState' = [ntState EXCEPT ![s] = "with"]
      \/ /\ Head(ntWire[s]) \in {"remove", "initial without"}
         /\ available' = available \ {s}
         /\ \/ actor' = NT!Without(s, actor)
            \/ ntState[s] # "with" /\ actor' = actor
         /\ ntState' = [ntState EXCEPT ![s] = "without"]
  BY <1>1 DEF NT!Deliver
<1>3. ntWire' \in [Server -> Seq(NT!Changes)] /\ NTTold' = NTTold
  <2>1. ntState' = [ntState EXCEPT ![s] = NTMeans(Head(ntWire[s]))]
    BY <1>2 DEF NTMeans
  <2> QED
    BY <1>1, <2>1, NTToldDelivered
<1>4. \A servers \in SUBSET Server, q \in Tunnel :
        IF servers \cap ntWants[q] = {} THEN NT!First(q, servers) = NT!None
        ELSE NT!First(q, servers) \in servers \cap ntWants[q]
  BY DEF NT!First
<1>5. /\ \A q \in Tunnel : NT!Without(s, actor)[q] = IF actor[q] = s THEN NT!First(q, available \ {s}) ELSE actor[q]
      /\ NT!Without(s, actor) \in [Tunnel -> Server \cup {NT!None}]
  BY <1>4 DEF NT!Without, NTTypesOfClient
<1>6. \A actors \in [Tunnel -> Server \cup {NT!None}] :
        /\ NT!With(s, actors) \in [Tunnel -> Server \cup {NT!None}]
        /\ \A q \in Tunnel : NT!With(s, actors)[q] = IF q \in ntOpened /\ s \in ntWants[q] THEN s ELSE actors[q]
  BY DEF NT!With
<1>7. actor \in [Tunnel -> Server \cup {NT!None}] /\ available \in SUBSET Server /\ ntOpened' = ntOpened
  BY DEF NTTypesOfClient, NT!Deliver
<1>8. /\ actor' \in [Tunnel -> Server \cup {NT!None}]
      /\ \/ /\ available' = available \cup {s}
            /\ \A q \in Tunnel : IF q \in ntOpened /\ s \in ntWants[q] THEN actor'[q] = s
                                 ELSE actor'[q] = actor[q] \/ actor[q] = s
         \/ /\ available' = available \ {s}
            /\ \A q \in Tunnel : actor'[q] = IF actor[q] = s THEN NT!First(q, available \ {s}) ELSE actor[q]
         \/ s \notin available /\ UNCHANGED <<available, actor>>
  <2>1. CASE Head(ntWire[s]) = "add"
    <3>1. available' = available \cup {s} /\ actor' = NT!With(s, actor)
      BY <1>2, <2>1
    <3> QED
      BY <1>6, <1>7, <3>1
  <2>2. CASE Head(ntWire[s]) = "initial with"
    <3>1. available' = available \cup {s} /\ (actor' = NT!With(s, actor) \/ actor' = NT!With(s, NT!Without(s, actor)))
      BY <1>2, <2>2
    <3>2. CASE actor' = NT!With(s, actor)
      BY <1>6, <1>7, <3>1, <3>2
    <3>3. CASE actor' = NT!With(s, NT!Without(s, actor))
      BY <1>5, <1>6, <1>7, <3>1, <3>3
    <3> QED
      BY <3>1, <3>2, <3>3
  <2>3. CASE Head(ntWire[s]) \in {"remove", "initial without"}
    <3>1. available' = available \ {s}
      BY <1>2, <2>3
    <3>2. CASE actor' = NT!Without(s, actor)
      BY <1>5, <3>1, <3>2
    <3>3. CASE ntState[s] # "with" /\ actor' = actor
      <4>1. s \notin available
        BY <3>3 DEF NTAvailableAgree
      <4> QED
        BY <1>7, <3>1, <3>3, <4>1
    <3> QED
      BY <1>2, <2>3, <3>2, <3>3
  <2> QED
    BY <1>2, <2>1, <2>2, <2>3
<1>9. NTTypesOfServers'
  BY DEF NT!Deliver, NTTypesOfServers, NT!Steps
<1>10. NTTypesOfLinks'
  BY <1>3 DEF NTTypesOfLinks, NT!Deliver
<1>11. NTTypesOfClient'
  <2>1. ntState' \in [Server -> {"none", "with", "without"}]
    BY <1>2 DEF NTTypesOfClient
  <2>2. available' \in SUBSET Server
    BY <1>7, <1>8
  <2> QED
    BY <1>7, <1>8, <2>1, <2>2 DEF NTTypesOfClient
<1>12. NTCounted'
  BY DEF NT!Deliver, NTCounted
<1>13. NTServersFollow'
  BY DEF NT!Deliver, NTServersFollow, NTTypesOfServers, NTFailedStays
<1>14. NTFailedStays'
  BY DEF NT!Deliver, NTFailedStays, NTTypesOfServers, NTServersFollow
<1>15. NTLinksAgree'
  BY ZenonT(60) DEF NT!Deliver, NTLinksAgree, NTTypesOfLinks, NTTypesOfClient
<1>16. NTToldIsTrue'
  BY <1>3 DEF NT!Deliver, NTToldIsTrue
<1>17. NTAvailableAgree'
  <2>1. UNCHANGED ntOpened
    BY DEF NT!Deliver
  <2>2. CASE Head(ntWire[s]) = "add"
    <3>1. available' = available \cup {s} /\ ntState' = [ntState EXCEPT ![s] = "with"]
      BY <1>2, <2>2
    <3> QED
      BY <2>1, <3>1 DEF NTTypesOfClient, NTAvailableAgree
  <2>3. CASE Head(ntWire[s]) = "initial with"
    <3>1. available' = available \cup {s} /\ ntState' = [ntState EXCEPT ![s] = "with"]
      BY <1>2, <2>3
    <3> QED
      BY <2>1, <3>1 DEF NTTypesOfClient, NTAvailableAgree
  <2>4. CASE Head(ntWire[s]) \in {"remove", "initial without"}
    <3>1. available' = available \ {s} /\ ntState' = [ntState EXCEPT ![s] = "without"]
      BY <1>2, <2>4
    <3> QED
      BY <2>1, <3>1 DEF NTTypesOfClient, NTAvailableAgree
  <2> QED
    BY <1>2, <2>2, <2>3, <2>4
<1>18. NTActorsLead'
  <2> SUFFICES ASSUME NEW q \in Tunnel
               PROVE  IF q \in ntOpened
                        THEN IF actor'[q] = NT!None THEN available' \cap ntWants[q] = {}
                             ELSE actor'[q] \in available' \cap ntWants[q]
                        ELSE actor'[q] = NT!None
    BY <1>7 DEF NTActorsLead
  <2>1. IF q \in ntOpened
          THEN IF actor[q] = NT!None THEN available \cap ntWants[q] = {}
               ELSE actor[q] \in available \cap ntWants[q]
          ELSE actor[q] = NT!None
    BY DEF NTActorsLead
  <2>2. /\ NT!First(q, available \ {s}) = NT!None => (available \ {s}) \cap ntWants[q] = {}
        /\ NT!First(q, available \ {s}) # NT!None =>
             NT!First(q, available \ {s}) \in (available \ {s}) \cap ntWants[q]
    BY <1>4, <1>7
  <2>3. s # NT!None /\ ntWants[q] \subseteq Server
    OBVIOUS
  <2> QED
    BY <1>8, <2>1, <2>2, <2>3
<1> QED
  BY <1>9, <1>10, <1>11, <1>12, <1>13, <1>14, <1>15, <1>16, <1>17, <1>18

LEMMA NTRemoveActorStep ==
  ASSUME NTConstants, NTInv, NEW s \in Server, NT!RemoveActor(s)
  PROVE  NTInv'
<1> USE DEF NTInv, NTConstants, NT!None, NT!Host, NTFollows, NT!clientVars, NT!linkVars
<1>1. \A q \in Server \ {s} : NTTold'[q] = NTTold[q]
  BY DEF NT!RemoveActor, NTTold, NTTypesOfLinks, NTTypesOfClient, NT!clientVars, NT!linkVars
<1>2. NTTypesOfServers'
  BY DEF NT!RemoveActor, NTTypesOfServers, NT!Steps
<1>3. NTTypesOfLinks'
  BY DEF NT!RemoveActor, NTTypesOfLinks, NT!Changes
<1>4. NTTypesOfClient'
  BY DEF NT!RemoveActor, NTTypesOfClient, NT!First, NT!Without, NT!With
<1>5. NTCounted'
  BY DEF NT!RemoveActor, NTCounted
<1>6. NTServersFollow'
  BY DEF NT!RemoveActor, NTServersFollow, NTTypesOfServers, NTFailedStays
<1>7. NTFailedStays'
  BY DEF NT!RemoveActor, NTFailedStays, NTTypesOfServers, NTServersFollow
<1>8. NTLinksAgree'
  BY DEF NT!RemoveActor, NTLinksAgree, NTTypesOfLinks, NTTypesOfClient
<1>9. NTToldIsTrue'
  BY <1>1 DEF NT!RemoveActor, NTTypesOfServers, NTTypesOfLinks, NTLinksAgree, NTToldIsTrue
<1>10. NTAvailableAgree'
  BY DEF NT!RemoveActor, NTAvailableAgree, NTTypesOfClient
<1>11. NTActorsLead'
  BY DEF NT!RemoveActor, NTActorsLead, NTTypesOfClient, NTAvailableAgree, NT!First, NT!With,
     NT!Without
<1> QED
  BY <1>2, <1>3, <1>4, <1>5, <1>6, <1>7, <1>8, <1>9, <1>10, <1>11

LEMMA NTOpenTunnelStep ==
  ASSUME NTConstants, NTInv, NEW t \in Tunnel, NT!OpenTunnel(t)
  PROVE  NTInv'
<1> USE DEF NTInv, NTConstants, NT!None, NT!Host, NTFollows, NT!clientVars, NT!linkVars
<1>1. NTTold' = NTTold
  BY DEF NT!OpenTunnel, NTTold
<1>2. NTTypesOfServers'
  BY DEF NT!OpenTunnel, NTTypesOfServers, NT!Steps
<1>3. NTTypesOfLinks'
  BY DEF NT!OpenTunnel, NTTypesOfLinks, NT!Changes
<1>4. NTTypesOfClient'
  BY DEF NT!OpenTunnel, NTTypesOfClient, NT!First, NT!Without, NT!With
<1>5. NTCounted'
  BY DEF NT!OpenTunnel, NTCounted
<1>6. NTServersFollow'
  BY DEF NT!OpenTunnel, NTServersFollow, NTTypesOfServers, NTFailedStays
<1>7. NTFailedStays'
  BY DEF NT!OpenTunnel, NTFailedStays, NTTypesOfServers, NTServersFollow
<1>8. NTLinksAgree'
  BY DEF NT!OpenTunnel, NTLinksAgree, NTTypesOfLinks, NTTypesOfClient
<1>9. NTToldIsTrue'
  BY <1>1 DEF NT!OpenTunnel, NTToldIsTrue, NTTypesOfServers, NTServersFollow, NTFailedStays
<1>10. NTAvailableAgree'
  BY DEF NT!OpenTunnel, NTAvailableAgree, NTTypesOfClient
<1>11. NTActorsLead'
  BY DEF NT!OpenTunnel, NTActorsLead, NTTypesOfClient, NTAvailableAgree, NT!First, NT!With,
     NT!Without
<1> QED
  BY <1>2, <1>3, <1>4, <1>5, <1>6, <1>7, <1>8, <1>9, <1>10, <1>11

LEMMA NTCloseTunnelStep ==
  ASSUME NTConstants, NTInv, NEW t \in Tunnel, NT!CloseTunnel(t)
  PROVE  NTInv'
<1> USE DEF NTInv, NTConstants, NT!None, NT!Host, NTFollows, NT!clientVars, NT!linkVars
<1>1. NTTold' = NTTold
  BY DEF NT!CloseTunnel, NTTold
<1>2. NTTypesOfServers'
  BY DEF NT!CloseTunnel, NT!Happens, NTTypesOfServers, NT!Steps
<1>3. NTTypesOfLinks'
  BY DEF NT!CloseTunnel, NT!Happens, NTTypesOfLinks, NT!Changes
<1>4. NTTypesOfClient'
  BY DEF NT!CloseTunnel, NT!Happens, NTTypesOfClient, NT!First, NT!Without, NT!With
<1>5. NTCounted'
  BY DEF NT!CloseTunnel, NT!Happens, NTCounted
<1>6. NTServersFollow'
  BY DEF NT!CloseTunnel, NT!Happens, NTServersFollow, NTTypesOfServers, NTFailedStays
<1>7. NTFailedStays'
  BY DEF NT!CloseTunnel, NT!Happens, NTFailedStays, NTTypesOfServers, NTServersFollow
<1>8. NTLinksAgree'
  BY DEF NT!CloseTunnel, NT!Happens, NTLinksAgree, NTTypesOfLinks, NTTypesOfClient
<1>9. NTToldIsTrue'
  BY <1>1 DEF NT!CloseTunnel, NT!Happens, NTToldIsTrue, NTTypesOfServers, NTServersFollow,
     NTFailedStays
<1>10. NTAvailableAgree'
  BY DEF NT!CloseTunnel, NT!Happens, NTAvailableAgree, NTTypesOfClient
<1>11. NTActorsLead'
  BY DEF NT!CloseTunnel, NT!Happens, NTActorsLead, NTTypesOfClient, NTAvailableAgree, NT!First,
     NT!With, NT!Without
<1> QED
  BY <1>2, <1>3, <1>4, <1>5, <1>6, <1>7, <1>8, <1>9, <1>10, <1>11

LEMMA NTInitHolds ==
  ASSUME NTConstants, NT!Init
  PROVE  NTInv
<1> USE DEF NT!Init, NTConstants, NT!None, NT!Host
<1>1. <<>> \in Seq(NT!Changes)
  OBVIOUS
<1>2. NTTypesOfServers /\ NTTypesOfLinks /\ NTTypesOfClient /\ NTCounted
  BY <1>1 DEF NTTypesOfServers, NTTypesOfLinks, NTTypesOfClient, NTCounted, NT!Steps
<1> QED
  BY <1>2 DEF NTInv, NTServersFollow, NTFollows, NTFailedStays, NTLinksAgree, NTToldIsTrue,
     NTAvailableAgree, NTActorsLead

LEMMA NTNextHolds ==
  ASSUME NTConstants, NTInv, NT!Next
  PROVE  NTInv'
BY NTReloadStep, NTUnpublishStep, NTPublishStep, NTRegisteredStep, NTRefusedStep,
   NTSendChangeStep, NTChangeSentStep, NTConnectStep, NTSendInitialStep, NTDisconnectStep,
   NTRestartStep, NTDeliverStep, NTRemoveActorStep, NTOpenTunnelStep, NTCloseTunnelStep DEF
   NT!Next

LEMMA NTStays ==
  ASSUME NTInv, UNCHANGED ntVars
  PROVE  NTInv'
BY DEF ntVars, NTInv, NTTypesOfServers, NTTypesOfLinks, NTTypesOfClient, NTCounted,
   NTServersFollow, NTFailedStays, NTLinksAgree, NTToldIsTrue, NTTold, NTMeans,
   NTAvailableAgree, NTActorsLead

LEMMA NTHolds ==
  ASSUME NTConstants, NTInv
  PROVE  NT!TunnelsLead
<1> SUFFICES ASSUME \A s \in Server : NT!Quiet(s)
             PROVE  /\ \A s \in Server \ failed : published[s] = config[s]
                    /\ \A t \in ntOpened :
                         IF actor[t] = NT!None
                           THEN \A s \in ntWants[t] \ failed : ~up[s] \/ published[s] = NT!None
                           ELSE up[actor[t]] /\ published[actor[t]] # NT!None /\ actor[t] \in ntWants[t]
  BY DEF NT!TunnelsLead
<1> USE DEF NTInv, NTConstants, NT!None
<1>1. \A s \in Server : /\ ntStep[s] = "idle" /\ NTTold[s] = ntState[s] /\ ntSubscribed[s] \in {"none", "yes"}
                        /\ ~up[s] => ntState[s] = "none"
  BY DEF NT!Quiet, NTTold, NTTypesOfLinks
<1>2. \A s \in Server \ failed : published[s] = config[s]
  BY <1>1 DEF NTServersFollow, NTFollows
<1>3. \A s \in available : up[s] /\ published[s] # NT!None
  BY <1>1 DEF NTAvailableAgree, NTLinksAgree, NTToldIsTrue, NTTypesOfClient
<1>4. \A s \in Server \ (available \cup failed) : ~up[s] \/ published[s] = NT!None
  BY <1>1 DEF NTAvailableAgree, NTLinksAgree, NTToldIsTrue
<1>5. \A t \in ntOpened : t \in Tunnel /\ ntWants[t] \subseteq Server
  BY DEF NTTypesOfClient
<1> QED
  BY <1>2, <1>3, <1>4, <1>5 DEF NTActorsLead

-----------------------------------------------------------------------------
(* TunnelConnections *)

(* TunnelConnections: TypeOK without the bound on what closes. *)
TCTypes ==
  /\ tcClient \in {"none", "opening", "accepting", "open", "over"}
  /\ theirs \in TC!Entry
  /\ server \in {"none", "called", "accepting", "open", "over"}
  /\ ours \in TC!Entry
  /\ receive \in {"none", "held", "dropped", "gone"}
  /\ send \in {"none", "sent", "held", "dropped", "gone"}
  /\ reply \in {"none", "ok", "error"}
  /\ linked \in BOOLEAN

(* An end has its entry from when it begins until it is closed, and the entry has what the
   end has got so far. *)
TCClientEnd ==
  /\ tcClient = "none" => theirs = TC!NoEntry /\ reply = "none"
  /\ theirs.there => tcClient \in {"opening", "accepting", "open"}
  /\ tcClient = "open" => theirs.there
  /\ theirs.send <=> theirs.there /\ tcClient \in {"accepting", "open"}
  /\ theirs.socket <=> theirs.there /\ tcClient = "open"

TCServerEnd ==
  /\ server = "none" <=> tcClient = "none"
  /\ ours.there => server \in {"accepting", "open"}
  /\ server = "open" => ours.there
  /\ ours.send <=> ours.there
  /\ ours.socket <=> server = "open"

(* The functor that the server holds: it is dropped with the server's entry, and the
   client closes when it is. *)
TCReceiveFunctor ==
  /\ receive = "none" <=> tcClient = "none"
  /\ receive = "held" => server = "called" \/ ours.there
  /\ receive = "gone" => ~theirs.there

(* The functor that the client holds, which the server makes when it accepts. *)
TCSendFunctor ==
  /\ server \in {"none", "called", "accepting"} => send = "none"
  /\ server = "open" => send # "none"
  /\ theirs.send => send # "none"
  /\ send = "sent" <=> reply = "ok"
  /\ send = "held" => theirs.send
  /\ send = "gone" => ~ours.there

(* The client waits until the server has answered or the connection is broken. *)
TCWaiting ==
  /\ reply # "none" => tcClient = "opening"
  /\ linked /\ server \in {"called", "accepting"} => tcClient = "opening" /\ reply = "none"

(* The parts of the invariant together: each end knows of the connection what it says, and
   no step of either, nor a break of the link, makes it wrong. *)
TCInv == TCTypes /\ TCClientEnd /\ TCServerEnd /\ TCReceiveFunctor /\ TCSendFunctor /\ TCWaiting

LEMMA TCInitHolds == TC!Init => TCInv
BY DEF TC!Init, TCInv, TCTypes, TCClientEnd, TCServerEnd, TCReceiveFunctor, TCSendFunctor,
   TCWaiting, TC!Entry, TC!NoEntry

LEMMA TCNextHolds == TCInv /\ TC!Next => TCInv'
<1> SUFFICES ASSUME TCInv, TC!Next PROVE TCInv'
  OBVIOUS
<1> USE DEF TCInv, TCTypes, TCClientEnd, TCServerEnd, TCReceiveFunctor, TCSendFunctor, TCWaiting, TC!Entry,
            TC!NoEntry
<1>1. CASE TC!NewConnection
  BY <1>1 DEF TC!NewConnection
<1>2. CASE TC!ConnectFails
  BY <1>2 DEF TC!ConnectFails, TC!Answer
<1>3. CASE TC!Connected
  BY <1>3 DEF TC!Connected
<1>4. CASE TC!ServerAccepts
  BY <1>4 DEF TC!ServerAccepts, TC!Answer
<1>5. CASE TC!ServerAcceptFails
  BY <1>5 DEF TC!ServerAcceptFails, TC!ServerCloses, TC!Answer
<1>6. CASE TC!Opened
  BY <1>6 DEF TC!Opened
<1>7. CASE TC!OpenFailed
  BY <1>7 DEF TC!OpenFailed, TC!ClientCloses
<1>8. CASE TC!ClientAccepts
  BY <1>8 DEF TC!ClientAccepts
<1>9. CASE TC!ClientAcceptFails
  BY <1>9 DEF TC!ClientAcceptFails, TC!ClientCloses
<1>10. CASE TC!ClientPeerCloses
  BY <1>10 DEF TC!ClientPeerCloses, TC!ClientCloses
<1>11. CASE TC!ServerPeerCloses
  BY <1>11 DEF TC!ServerPeerCloses, TC!ServerCloses
<1>12. CASE TC!ReceiveDropped
  BY <1>12 DEF TC!ReceiveDropped, TC!ClientCloses
<1>13. CASE TC!SendDropped
  BY <1>13 DEF TC!SendDropped, TC!ServerCloses
<1>14. CASE TC!Break
  BY <1>14 DEF TC!Break
<1> QED
  BY <1>1, <1>2, <1>3, <1>4, <1>5, <1>6, <1>7, <1>8, <1>9, <1>10, <1>11, <1>12, <1>13, <1>14 DEF
     TC!Next

LEMMA TCStays == TCInv /\ UNCHANGED tcVars => TCInv'
BY DEF tcVars, TCInv, TCTypes, TCClientEnd, TCServerEnd, TCReceiveFunctor, TCSendFunctor,
   TCWaiting, TC!Entry

LEMMA TCHolds == TCInv => TC!BothOrNeither
BY DEF TCInv, TCTypes, TCClientEnd, TCServerEnd, TCReceiveFunctor, TCSendFunctor, TCWaiting,
   TC!Entry, TC!NoEntry, TC!BothOrNeither, TC!Settled

-----------------------------------------------------------------------------
(* SecretChanges *)

(* Whether a call of m_fOnChanges says anything about a secret, and what. *)
SCTells(m, s) == m.full \/ s \in DOMAIN m.changed
SCSays(m, s) == IF s \in DOMAIN m.changed THEN m.changed[s] ELSE SC!None
SCValues == [Secret -> Nat]
SCCalls == [full : BOOLEAN, changed : UNION {[S -> Nat] : S \in SUBSET Secret}]
SCNoneTells(w, s, first) == \A i \in first .. Len(w) : ~SCTells(w[i], s)

(* What the subscriber makes of a secret when the calls under way have arrived: what the
   last one that is about it says, or what it believes now. *)
SCWillBe(w, x, s, v) ==
  /\ SCNoneTells(w, s, 1) => x[s] = v
  /\ \A i \in 1 .. Len(w) : SCTells(w[i], s) /\ SCNoneTells(w, s, i + 1) => SCSays(w[i], s) = v

SCTypesOfSecrets ==
  /\ secrets \in SCValues
  /\ version \in Nat
  /\ scSubscribed \in BOOLEAN
  /\ view \in SCValues

SCTypesOfCalls == scWire \in Seq(SCCalls)

SCTypesOfChecks ==
  /\ initial \in [on : BOOLEAN, allowed : SUBSET Secret]
  /\ scChecks \subseteq [secret : Secret, version : Nat, at : Nat]

(* Nothing is sent before the subscription. *)
SCUnsubscribed == ~scSubscribed => scChecks = {} /\ scLost = {} /\ ~initial.on

(* The changes are in the order of their versions, and no two of them are one. *)
SCChecksAreOrdered ==
  \A c \in scChecks :
    /\ c.at <= version
    /\ \A d \in scChecks : d.secret = c.secret /\ d.at = c.at => d = c

SCChecking(s) == \E c \in scChecks : c.secret = s

(* The last change of a secret that waits for its permissions has what the secret is. *)
SCLastCheckIsTrue ==
  \A c \in scChecks :
    c.secret \notin scLost /\ (\A d \in scChecks : d.secret = c.secret => d.at <= c.at) =>
      c.version = SC!Visible(c.secret)

(* With no such change the subscriber has, or will have, the secret as it is ... *)
SCToldIsTrue ==
  scSubscribed /\ ~initial.on =>
    \A s \in Secret \ scLost : ~SCChecking(s) => SCWillBe(scWire, view, s, SC!Visible(s))

(* ... or the full list that is checked will tell. *)
SCListIsTrue ==
  initial.on => \A s \in SC!Matching \ scLost : ~SCChecking(s) => s \in initial.allowed

SCInv == SCTypesOfSecrets /\ SCTypesOfCalls /\ SCTypesOfChecks /\ SCUnsubscribed /\ SCChecksAreOrdered
        /\ SCLastCheckIsTrue /\ SCToldIsTrue /\ SCListIsTrue

LEMMA SCToldLast ==
  ASSUME NEW w \in Seq(SCCalls), NEW m \in SCCalls, NEW x, NEW s, NEW v, NEW q,
         q = Append(w, m), SCTells(m, s), SCSays(m, s) = v
  PROVE  SCWillBe(q, x, s, v)
<1>1. Len(w) \in Nat /\ Len(q) = Len(w) + 1 /\ q[Len(w) + 1] = m
  OBVIOUS
<1>2. \A i \in 1 .. Len(w) : ~SCNoneTells(q, s, i + 1)
  <2> SUFFICES ASSUME NEW i \in 1 .. Len(w) PROVE ~SCNoneTells(q, s, i + 1)
    OBVIOUS
  <2>1. Len(w) + 1 \in i + 1 .. Len(q)
    BY <1>1
  <2> QED
    BY <1>1, <2>1 DEF SCNoneTells
<1>3. ~SCNoneTells(q, s, 1)
  <2>1. Len(w) + 1 \in 1 .. Len(q)
    BY <1>1
  <2> QED
    BY <1>1, <2>1 DEF SCNoneTells
<1>4. \A i \in 1 .. Len(q) : i \in 1 .. Len(w) \/ i = Len(w) + 1
  BY <1>1
<1> QED
  BY <1>1, <1>2, <1>3, <1>4 DEF SCWillBe

LEMMA SCToldOfOthers ==
  ASSUME NEW w \in Seq(SCCalls), NEW m \in SCCalls, NEW x, NEW s, NEW v, NEW q,
         q = Append(w, m), ~SCTells(m, s), SCWillBe(w, x, s, v)
  PROVE  SCWillBe(q, x, s, v)
<1>1. Len(w) \in Nat /\ Len(q) = Len(w) + 1 /\ q[Len(w) + 1] = m
  OBVIOUS
<1>2. \A i \in 1 .. Len(w) : q[i] = w[i] /\ i \in 1 .. Len(q)
  BY <1>1
<1>3. \A i \in 1 .. Len(q) : i \in 1 .. Len(w) \/ i = Len(w) + 1
  BY <1>1
<1>4. SCNoneTells(q, s, 1) => SCNoneTells(w, s, 1)
  BY <1>2 DEF SCNoneTells
<1>5. \A i \in 1 .. Len(w) : SCNoneTells(q, s, i + 1) => SCNoneTells(w, s, i + 1)
  <2> SUFFICES ASSUME NEW i \in 1 .. Len(w), SCNoneTells(q, s, i + 1), NEW j \in i + 1 .. Len(w)
               PROVE  ~SCTells(w[j], s)
    BY DEF SCNoneTells
  <2>1. j \in 1 .. Len(w) /\ j \in i + 1 .. Len(q)
    BY <1>1
  <2> QED
    BY <1>2, <2>1 DEF SCNoneTells
<1>6. ASSUME NEW i \in 1 .. Len(q), SCTells(q[i], s), SCNoneTells(q, s, i + 1)
      PROVE  SCSays(q[i], s) = v
  <2>1. i \in 1 .. Len(w)
    BY <1>1, <1>3, <1>6
  <2> QED
    BY <1>2, <1>5, <1>6, <2>1 DEF SCWillBe
<1> QED
  BY <1>4, <1>6 DEF SCWillBe

LEMMA SCDelivered ==
  ASSUME NEW w \in Seq(SCCalls), w # <<>>, NEW x, NEW y, NEW s, NEW v, NEW q,
         q = Tail(w), SCWillBe(w, x, s, v),
         y[s] = IF SCTells(w[1], s) THEN SCSays(w[1], s) ELSE x[s]
  PROVE  SCWillBe(q, y, s, v)
<1>1. Len(w) \in Nat /\ Len(w) > 0 /\ Len(q) = Len(w) - 1 /\ Len(q) \in Nat
  OBVIOUS
<1>2. \A i \in 1 .. Len(q) : q[i] = w[i + 1] /\ i + 1 \in 1 .. Len(w)
  BY <1>1
<1>3. \A i \in 2 .. Len(w) : i - 1 \in 1 .. Len(q) /\ (i - 1) + 1 = i
  BY <1>1
<1>4. \A i \in 2 .. Len(w) : w[i] = q[i - 1]
  <2> SUFFICES ASSUME NEW i \in 2 .. Len(w) PROVE w[i] = q[i - 1]
    OBVIOUS
  <2>1. i - 1 \in 1 .. Len(q) /\ (i - 1) + 1 = i
    BY <1>3
  <2>2. q[i - 1] = w[(i - 1) + 1]
    BY <1>2, <2>1
  <2> QED
    BY <2>1, <2>2
<1>5. SCNoneTells(q, s, 1) => SCNoneTells(w, s, 2)
  BY <1>3, <1>4 DEF SCNoneTells
<1>6. \A i \in 1 .. Len(q) : SCNoneTells(q, s, i + 1) => SCNoneTells(w, s, (i + 1) + 1)
  <2> SUFFICES ASSUME NEW i \in 1 .. Len(q), SCNoneTells(q, s, i + 1),
                      NEW j \in (i + 1) + 1 .. Len(w)
               PROVE  ~SCTells(w[j], s)
    BY DEF SCNoneTells
  <2>1. j \in 2 .. Len(w) /\ j - 1 \in i + 1 .. Len(q)
    BY <1>1
  <2> QED
    BY <1>4, <2>1 DEF SCNoneTells
<1>7. ASSUME NEW i \in 1 .. Len(q), SCTells(q[i], s), SCNoneTells(q, s, i + 1)
      PROVE  SCSays(q[i], s) = v
  BY <1>2, <1>6, <1>7 DEF SCWillBe
<1>8. ASSUME SCNoneTells(q, s, 1)
      PROVE  y[s] = v
  <2>1. SCNoneTells(w, s, 2)
    BY <1>5, <1>8
  <2>2. CASE SCTells(w[1], s)
    <3>1. 1 \in 1 .. Len(w) /\ 1 + 1 = 2
      BY <1>1
    <3> QED
      BY <2>1, <2>2, <3>1 DEF SCWillBe
  <2>3. CASE ~SCTells(w[1], s)
    <3>1. \A i \in 1 .. Len(w) : i = 1 \/ i \in 2 .. Len(w)
      BY <1>1
    <3>2. SCNoneTells(w, s, 1)
      BY <2>1, <2>3, <3>1 DEF SCNoneTells
    <3> QED
      BY <2>3, <3>2 DEF SCWillBe
  <2> QED
    BY <2>2, <2>3
<1> QED
  BY <1>7, <1>8 DEF SCWillBe

LEMMA SCInitHolds == SC!Init => SCInv
<1> SUFFICES ASSUME SC!Init PROVE SCInv
  OBVIOUS
<1>1. secrets \in SCValues /\ view \in SCValues /\ initial \in [on : BOOLEAN, allowed : SUBSET Secret]
  BY DEF SC!Init, SCValues, SC!None, SC!NoInitial
<1>2. ~scSubscribed /\ ~initial.on /\ scChecks = {} /\ scLost = {} /\ scWire \in Seq(SCCalls) /\ version \in Nat
  BY DEF SC!Init, SC!NoInitial
<1> QED
  BY <1>1, <1>2 DEF SC!Init, SCInv, SCTypesOfSecrets, SCTypesOfCalls, SCTypesOfChecks,
     SCUnsubscribed, SCChecksAreOrdered, SCLastCheckIsTrue, SCToldIsTrue, SCListIsTrue,
     SCValues, SC!None, SC!NoInitial

(* What a change leaves as it is, and the check that it makes. *)
SCChanged(s, v, match) ==
  /\ version' = version + 1
  /\ secrets' \in SCValues
  /\ \A q \in Secret : q # s => secrets'[q] = secrets[q] /\ (q \in matches' <=> q \in matches)
  /\ s \in matches' <=> match
  /\ secrets'[s] = v
  /\ SC!Updated(s, v, match)
  /\ UNCHANGED <<scSubscribed, initial, scWire, view>>

LEMMA SCChangedStep ==
  ASSUME SCInv, NEW s \in Secret, NEW v \in Nat, NEW match \in BOOLEAN, SCChanged(s, v, match),
         v = SC!None \/ v = version', s \in matches /\ ~match => v # SC!None
  PROVE  SCInv'
<1> USE DEF SCInv
<1>1. \A q \in Secret \ {s} : SC!Visible(q)' = SC!Visible(q) /\ (q \in SC!Matching' <=> q \in SC!Matching)
  BY DEF SCChanged, SC!Visible, SC!Matching
<1>2. \A q \in Secret \ {s} : q \in scLost' <=> q \in scLost
  BY DEF SCChanged, SC!Updated
<1>3. \A c \in scChecks' : c \in scChecks \/ c = [secret |-> s, version |-> v, at |-> version']
  BY DEF SCChanged, SC!Updated
<1>4. /\ version \in Nat /\ version' \in Nat /\ version' = version + 1
      /\ secrets' \in SCValues /\ scWire' = scWire /\ view' = view /\ initial' = initial
      /\ scSubscribed' = scSubscribed
  BY DEF SCChanged, SCTypesOfSecrets
<1>5. SCTypesOfSecrets' /\ SCTypesOfCalls'
  BY <1>4 DEF SCTypesOfSecrets, SCTypesOfCalls
<1>6. SCTypesOfChecks'
  BY <1>3, <1>4 DEF SCTypesOfChecks
<1>7. SCUnsubscribed'
  BY <1>4 DEF SCUnsubscribed, SCChanged, SC!Updated
<1>8. \A c \in scChecks : c.at \in Nat /\ c.at <= version /\ c.at < version' /\ c.secret \in Secret
  BY <1>4 DEF SCTypesOfChecks, SCChecksAreOrdered
<1>9. SCChecksAreOrdered'
  <2>1. \A c \in scChecks' : c.at <= version'
    BY <1>3, <1>4, <1>8
  <2>2. ASSUME NEW c \in scChecks', NEW d \in scChecks', d.secret = c.secret, d.at = c.at
        PROVE  d = c
    BY <1>3, <1>8, <1>4, <2>2 DEF SCChecksAreOrdered
  <2> QED
    BY <2>1, <2>2 DEF SCChecksAreOrdered
<1>10. scSubscribed /\ match =>
         /\ scChecks' = scChecks \cup {[secret |-> s, version |-> v, at |-> version']}
         /\ s \notin scLost'
  BY DEF SCChanged, SC!Updated
<1>11. ~(scSubscribed /\ match) => scChecks' = scChecks
  BY DEF SCChanged, SC!Updated
<1>12. scSubscribed /\ match => SC!Visible(s)' = v
  BY DEF SCChanged, SC!Visible, SC!Matching
<1>13. ~match => s \notin SC!Matching' /\ SC!Visible(s)' = SC!None
  BY DEF SCChanged, SC!Visible, SC!Matching
<1>14. scSubscribed /\ ~match /\ s \notin scLost' => s \notin matches /\ s \notin scLost
  BY DEF SCChanged, SC!Updated
<1>15. scSubscribed /\ ~match /\ s \notin scLost' => SC!Visible(s)' = SC!Visible(s)
  BY <1>13, <1>14 DEF SC!Visible, SC!Matching
<1>16. ~scSubscribed => scChecks = {} /\ scChecks' = {} /\ ~initial.on
  BY <1>11 DEF SCUnsubscribed
<1>17. \A q \in Secret \ {s} : SCChecking(q)' <=> SCChecking(q)
  BY <1>3, <1>10, <1>11 DEF SCChecking
<1>18. scSubscribed /\ match => \E d \in scChecks' : d.secret = s /\ d.at = version'
  <2>1. PICK d : d = [secret |-> s, version |-> v, at |-> version']
    OBVIOUS
  <2>2. d.secret = s /\ d.at = version'
    BY <2>1
  <2> QED
    BY <1>10, <2>1, <2>2
<1>19. scSubscribed /\ match => SCChecking(s)'
  BY <1>18 DEF SCChecking
<1>20. ~(scSubscribed /\ match) => (SCChecking(s)' <=> SCChecking(s))
  BY <1>11 DEF SCChecking
<1>21. SCLastCheckIsTrue'
  <2> SUFFICES ASSUME NEW c \in scChecks', c.secret \notin scLost',
                      \A d \in scChecks' : d.secret = c.secret => d.at <= c.at
               PROVE  c.version = SC!Visible(c.secret)'
    BY DEF SCLastCheckIsTrue
  <2>1. scChecks \subseteq scChecks' /\ scSubscribed
    BY <1>10, <1>11, <1>16
  <2>2. CASE c \in scChecks
    <3>1. c.secret \in Secret
      BY <1>8, <2>2
    <3>2. c.secret = s => ~match
      <4> SUFFICES ASSUME c.secret = s, match PROVE FALSE
        OBVIOUS
      <4>1. PICK d \in scChecks' : d.secret = s /\ d.at = version'
        BY <1>18, <2>1
      <4>2. d.at <= c.at
        BY <4>1
      <4> QED
        BY <1>4, <1>8, <2>2, <4>1, <4>2
    <3>3. c.secret \notin scLost /\ SC!Visible(c.secret)' = SC!Visible(c.secret)
      BY <1>1, <1>2, <1>14, <1>15, <2>1, <3>1, <3>2
    <3>4. \A d \in scChecks : d.secret = c.secret => d.at <= c.at
      BY <2>1
    <3> QED
      BY <2>2, <3>3, <3>4 DEF SCLastCheckIsTrue
  <2>3. CASE c \notin scChecks
    <3>1. c = [secret |-> s, version |-> v, at |-> version'] /\ match
      BY <1>3, <1>11, <2>3
    <3> QED
      BY <1>12, <2>1, <3>1
  <2> QED
    BY <2>2, <2>3
<1>22. SCToldIsTrue'
  <2> SUFFICES ASSUME scSubscribed, ~initial.on, NEW q \in Secret, q \notin scLost', ~SCChecking(q)'
               PROVE  SCWillBe(scWire, view, q, SC!Visible(q)')
    BY <1>4 DEF SCToldIsTrue
  <2>1. q \notin scLost /\ ~SCChecking(q) /\ SC!Visible(q)' = SC!Visible(q)
    BY <1>1, <1>2, <1>14, <1>15, <1>17, <1>19, <1>20
  <2> QED
    BY <2>1 DEF SCToldIsTrue
<1>23. SCListIsTrue'
  <2> SUFFICES ASSUME initial.on, NEW q \in SC!Matching', q \notin scLost', ~SCChecking(q)'
               PROVE  q \in initial.allowed
    BY <1>4 DEF SCListIsTrue
  <2>1. scSubscribed /\ q \in Secret
    BY <1>16 DEF SC!Matching
  <2>2. q # s
    BY <1>13, <1>19, <2>1
  <2>3. q \in SC!Matching /\ q \notin scLost /\ ~SCChecking(q)
    BY <1>1, <1>2, <1>17, <2>1, <2>2
  <2> QED
    BY <2>3 DEF SCListIsTrue
<1> QED
  BY <1>5, <1>6, <1>7, <1>9, <1>21, <1>22, <1>23

LEMMA SCSetSecretStep ==
  ASSUME SCInv, NEW s \in Secret, NEW match \in BOOLEAN, SC!SetSecret(s, match)
  PROVE  SCInv'
<1>1. version \in Nat /\ version' = version + 1 /\ version' \in Nat /\ version' # SC!None
  BY DEF SCInv, SCTypesOfSecrets, SC!SetSecret, SC!None
<1>2. secrets \in SCValues /\ secrets' = [secrets EXCEPT ![s] = version']
  BY DEF SCInv, SCTypesOfSecrets, SC!SetSecret
<1>3. secrets' \in SCValues /\ secrets'[s] = version' /\ \A q \in Secret : q # s => secrets'[q] = secrets[q]
  BY <1>1, <1>2 DEF SCValues
<1>4. SCChanged(s, version', match)
  BY <1>1, <1>3 DEF SCChanged, SC!SetSecret
<1> QED
  BY <1>1, <1>4, SCChangedStep

LEMMA SCRemoveSecretStep ==
  ASSUME SCInv, NEW s \in Secret, SC!RemoveSecret(s)
  PROVE  SCInv'
<1>1. version \in Nat /\ version' = version + 1 /\ SC!None \in Nat
  BY DEF SCInv, SCTypesOfSecrets, SC!RemoveSecret, SC!None
<1>2. secrets \in SCValues /\ secrets' = [secrets EXCEPT ![s] = SC!None]
  BY DEF SCInv, SCTypesOfSecrets, SC!RemoveSecret
<1>3. secrets' \in SCValues /\ secrets'[s] = SC!None /\ \A q \in Secret : q # s => secrets'[q] = secrets[q]
  BY <1>1, <1>2 DEF SCValues
<1>4. PICK match \in BOOLEAN : match <=> s \in matches
  OBVIOUS
<1>5. SC!Updated(s, SC!None, match)
  BY <1>4 DEF SC!RemoveSecret, SC!Updated
<1>6. SCChanged(s, SC!None, match)
  BY <1>1, <1>3, <1>4, <1>5 DEF SCChanged, SC!RemoveSecret
<1> QED
  BY <1>1, <1>4, <1>6, SCChangedStep

LEMMA SCCheckedStep ==
  ASSUME SCInv, NEW c \in scChecks, SC!Checked(c)
  PROVE  SCInv'
<1> USE DEF SCInv
<1>1. /\ c.secret \in Secret /\ c.version \in Nat /\ c.at \in Nat
      /\ \A d \in scChecks : d.at \in Nat /\ d.secret \in Secret
  BY DEF SCTypesOfChecks
<1>2. PICK m : m = [full |-> FALSE, changed |-> [s \in {c.secret} |-> c.version]]
  OBVIOUS
<1>3. /\ m \in SCCalls /\ SCTells(m, c.secret) /\ SCSays(m, c.secret) = c.version
      /\ \A s : s # c.secret => ~SCTells(m, s)
  <2>1. {c.secret} \in SUBSET Secret /\ m.changed \in [{c.secret} -> Nat]
    BY <1>1, <1>2
  <2>2. m.changed \in UNION {[S -> Nat] : S \in SUBSET Secret}
    BY <2>1
  <2>3. m.full = FALSE /\ DOMAIN m.changed = {c.secret} /\ m.changed[c.secret] = c.version
    BY <1>2
  <2>4. m \in SCCalls
    BY <1>2, <2>2 DEF SCCalls
  <2> QED
    BY <2>3, <2>4 DEF SCTells, SCSays
<1>4. /\ scChecks' = scChecks \ {c} /\ scWire' = Append(scWire, m) /\ scSubscribed' = scSubscribed
      /\ initial' = initial /\ view' = view /\ secrets' = secrets /\ matches' = matches
      /\ version' = version
  BY <1>2 DEF SC!Checked
<1>5. scLost \subseteq scLost' /\ (\A q : q # c.secret /\ q \in scLost' => q \in scLost)
  BY DEF SC!Checked
<1>6. c.secret \notin scLost' =>
        /\ \A d \in scChecks : d.secret = c.secret => c.at <= d.at
        /\ ~initial.on \/ c.version = SC!None \/ c.secret \in initial.allowed
  <2> SUFFICES ASSUME c.secret \notin scLost'
               PROVE  /\ ~\E d \in scChecks : d.secret = c.secret /\ d.at < c.at
                      /\ ~initial.on \/ c.version = SC!None \/ c.secret \in initial.allowed
    BY <1>1
  <2> QED
    BY DEF SC!Checked
<1>7. \A s : SC!Visible(s)' = SC!Visible(s)
  BY <1>4 DEF SC!Visible, SC!Matching
<1>8. SC!Matching' = SC!Matching
  BY <1>4 DEF SC!Matching
<1>9. scWire \in Seq(SCCalls) /\ scWire' \in Seq(SCCalls)
  BY <1>3, <1>4 DEF SCTypesOfCalls
<1>10. scSubscribed
  BY DEF SCUnsubscribed
<1>11. SCTypesOfSecrets' /\ SCTypesOfCalls' /\ SCTypesOfChecks' /\ SCUnsubscribed' /\ SCChecksAreOrdered'
  BY <1>4, <1>9, <1>10 DEF SCTypesOfSecrets, SCTypesOfCalls, SCTypesOfChecks, SCUnsubscribed,
     SCChecksAreOrdered
<1>12. SCLastCheckIsTrue'
  <2> SUFFICES ASSUME NEW d \in scChecks', d.secret \notin scLost',
                      \A e \in scChecks' : e.secret = d.secret => e.at <= d.at
               PROVE  d.version = SC!Visible(d.secret)
    BY <1>7 DEF SCLastCheckIsTrue
  <2>1. d \in scChecks /\ d.secret \notin scLost
    BY <1>4, <1>5
  <2>2. \A e \in scChecks : e.secret = d.secret => e.at <= d.at
    BY <1>4, <1>6, <2>1
  <2> QED
    BY <2>1, <2>2 DEF SCLastCheckIsTrue
<1>13. \A q \in Secret \ {c.secret} : SCChecking(q)' <=> SCChecking(q)
  BY <1>4 DEF SCChecking
<1>14. c.secret \notin scLost' /\ ~SCChecking(c.secret)' => c.version = SC!Visible(c.secret)
  <2> SUFFICES ASSUME c.secret \notin scLost', ~SCChecking(c.secret)' PROVE c.version = SC!Visible(c.secret)
    OBVIOUS
  <2>1. \A d \in scChecks : d.secret = c.secret => d = c
    BY <1>4 DEF SCChecking
  <2>2. \A d \in scChecks : d.secret = c.secret => d.at <= c.at
    BY <1>1, <2>1
  <2> QED
    BY <1>5, <2>2 DEF SCLastCheckIsTrue
<1>15. SCToldIsTrue'
  <2> SUFFICES ASSUME ~initial.on, NEW q \in Secret, q \notin scLost', ~SCChecking(q)'
               PROVE  SCWillBe(scWire', view, q, SC!Visible(q))
    BY <1>4, <1>7 DEF SCToldIsTrue
  <2>1. CASE q = c.secret
    BY <1>3, <1>4, <1>9, <1>14, <2>1, SCToldLast
  <2>2. CASE q # c.secret
    <3>1. SCWillBe(scWire, view, q, SC!Visible(q))
      BY <1>5, <1>10, <1>13, <2>2 DEF SCToldIsTrue
    <3> QED
      BY <1>3, <1>4, <1>9, <2>2, <3>1, SCToldOfOthers
  <2> QED
    BY <2>1, <2>2
<1>16. SCListIsTrue'
  <2> SUFFICES ASSUME initial.on, NEW q \in SC!Matching, q \notin scLost', ~SCChecking(q)'
               PROVE  q \in initial.allowed
    BY <1>4, <1>8 DEF SCListIsTrue
  <2>1. CASE q = c.secret
    <3>1. SC!Visible(q) = secrets[q] /\ secrets[q] # SC!None
      BY DEF SC!Visible, SC!Matching
    <3> QED
      BY <1>6, <1>14, <2>1, <3>1
  <2>2. CASE q # c.secret
    BY <1>5, <1>13, <2>2 DEF SCListIsTrue, SC!Matching
  <2> QED
    BY <2>1, <2>2
<1> QED
  BY <1>11, <1>12, <1>15, <1>16

LEMMA SCSendInitialStep ==
  ASSUME SCInv, SC!SendInitial
  PROVE  SCInv'
<1> USE DEF SCInv
<1>1. /\ scChecks' = scChecks /\ scWire' = scWire /\ scSubscribed' = TRUE /\ scLost' = scLost
      /\ initial' = [on |-> TRUE, allowed |-> SC!Matching] /\ view' = view
      /\ secrets' = secrets /\ matches' = matches /\ version' = version
  BY DEF SC!SendInitial
<1>2. SC!Matching' = SC!Matching /\ SC!Matching \subseteq Secret /\ \A s : SC!Visible(s)' = SC!Visible(s)
  BY <1>1 DEF SC!Visible, SC!Matching
<1>3. SCTypesOfSecrets' /\ SCTypesOfCalls' /\ SCTypesOfChecks' /\ SCUnsubscribed' /\ SCChecksAreOrdered'
  BY <1>1, <1>2 DEF SCTypesOfSecrets, SCTypesOfCalls, SCTypesOfChecks, SCUnsubscribed,
     SCChecksAreOrdered
<1>4. SCLastCheckIsTrue'
  BY <1>1, <1>2 DEF SCLastCheckIsTrue
<1>5. SCToldIsTrue' /\ SCListIsTrue'
  BY <1>1, <1>2 DEF SCToldIsTrue, SCListIsTrue
<1> QED
  BY <1>3, <1>4, <1>5

LEMMA SCInitialSentStep ==
  ASSUME SCInv, SC!InitialSent
  PROVE  SCInv'
<1> USE DEF SCInv
<1>1. PICK m : m = [full |-> TRUE, changed |-> SC!Listed]
  OBVIOUS
<1>2. /\ initial.on /\ scWire' = Append(scWire, m) /\ initial' = SC!NoInitial /\ ~initial'.on
      /\ scChecks' = scChecks /\ scSubscribed' = scSubscribed /\ scLost' = scLost /\ view' = view
      /\ secrets' = secrets /\ matches' = matches /\ version' = version
  BY <1>1 DEF SC!InitialSent, SC!NoInitial
<1>3. SC!Matching \subseteq Secret /\ \A s : SC!Visible(s)' = SC!Visible(s)
  BY <1>2 DEF SC!Visible, SC!Matching
<1>4. DOMAIN SC!Listed = initial.allowed \cap SC!Matching /\ \A s \in DOMAIN SC!Listed : SC!Listed[s] = secrets[s]
  BY DEF SC!Listed
<1>5. m \in SCCalls
  <2>1. DOMAIN SC!Listed \in SUBSET Secret /\ \A s \in DOMAIN SC!Listed : secrets[s] \in Nat
    BY <1>3, <1>4 DEF SCTypesOfSecrets, SCValues
  <2>2. SC!Listed \in [DOMAIN SC!Listed -> Nat]
    BY <1>4, <2>1 DEF SC!Listed
  <2>3. SC!Listed \in UNION {[S -> Nat] : S \in SUBSET Secret}
    BY <2>1, <2>2
  <2> QED
    BY <1>1, <2>3 DEF SCCalls
<1>6. \A s : SCTells(m, s) /\ SCSays(m, s) = IF s \in DOMAIN SC!Listed THEN SC!Listed[s] ELSE SC!None
  BY <1>1 DEF SCTells, SCSays
<1>7. scWire \in Seq(SCCalls) /\ scWire' \in Seq(SCCalls)
  BY <1>2, <1>5 DEF SCTypesOfCalls
<1>8. SCTypesOfSecrets' /\ SCTypesOfCalls' /\ SCTypesOfChecks' /\ SCUnsubscribed' /\ SCChecksAreOrdered'
  BY <1>2, <1>7 DEF SCTypesOfSecrets, SCTypesOfCalls, SCTypesOfChecks, SCUnsubscribed,
     SCChecksAreOrdered, SC!NoInitial
<1>9. SCLastCheckIsTrue'
  BY <1>2, <1>3 DEF SCLastCheckIsTrue
<1>10. SCListIsTrue'
  BY <1>2 DEF SCListIsTrue
<1>11. SCToldIsTrue'
  <2> SUFFICES ASSUME NEW q \in Secret, q \notin scLost, ~SCChecking(q)
               PROVE  SCWillBe(scWire', view, q, SC!Visible(q))
    BY <1>2, <1>3 DEF SCToldIsTrue, SCChecking
  <2>1. q \in SC!Matching => q \in initial.allowed
    BY <1>2 DEF SCListIsTrue
  <2>2. SCSays(m, q) = SC!Visible(q)
    BY <1>4, <1>6, <2>1 DEF SC!Visible
  <2> QED
    BY <1>2, <1>5, <1>6, <1>7, <2>2, SCToldLast
<1> QED
  BY <1>8, <1>9, <1>10, <1>11

LEMMA SCReceiveStep ==
  ASSUME SCInv, SC!Receive
  PROVE  SCInv'
<1> USE DEF SCInv
<1>1. /\ scWire # <<>> /\ scWire' = Tail(scWire) /\ initial' = initial
      /\ scChecks' = scChecks /\ scSubscribed' = scSubscribed /\ scLost' = scLost
      /\ secrets' = secrets /\ matches' = matches /\ version' = version
  BY DEF SC!Receive
<1>2. scWire \in Seq(SCCalls) /\ Len(scWire) \in Nat /\ Len(scWire) > 0 /\ scWire' \in Seq(SCCalls)
  BY <1>1 DEF SCTypesOfCalls
<1>3. Head(scWire) = scWire[1] /\ scWire[1] \in SCCalls
  BY <1>2
<1>4. PICK m \in SCCalls : m = scWire[1] /\ m = Head(scWire)
  BY <1>3
<1>5. PICK S \in SUBSET Secret : m.changed \in [S -> Nat]
  BY DEF SCCalls
<1>6. view' = [s \in Secret |-> IF s \in DOMAIN m.changed THEN m.changed[s]
                                ELSE IF m.full THEN SC!None ELSE view[s]]
  BY <1>4 DEF SC!Receive
<1>7. \A s \in Secret : view'[s] = IF SCTells(m, s) THEN SCSays(m, s) ELSE view[s]
  BY <1>6 DEF SCTells, SCSays
<1>8. view' \in SCValues
  BY <1>5, <1>6 DEF SCValues, SCTypesOfSecrets, SC!None
<1>9. \A s : SC!Visible(s)' = SC!Visible(s)
  BY <1>1 DEF SC!Visible, SC!Matching
<1>10. SCTypesOfSecrets' /\ SCTypesOfCalls' /\ SCTypesOfChecks' /\ SCUnsubscribed' /\ SCChecksAreOrdered'
  BY <1>1, <1>2, <1>8 DEF SCTypesOfSecrets, SCTypesOfCalls, SCTypesOfChecks, SCUnsubscribed,
     SCChecksAreOrdered
<1>11. SCLastCheckIsTrue'
  BY <1>1, <1>9 DEF SCLastCheckIsTrue
<1>12. SCListIsTrue'
  BY <1>1 DEF SCListIsTrue, SC!Matching, SCChecking
<1>13. SCToldIsTrue'
  <2> SUFFICES ASSUME scSubscribed, ~initial.on, NEW q \in Secret, q \notin scLost, ~SCChecking(q)
               PROVE  SCWillBe(scWire', view', q, SC!Visible(q))
    BY <1>1, <1>9 DEF SCToldIsTrue, SCChecking
  <2>1. SCWillBe(scWire, view, q, SC!Visible(q))
    BY DEF SCToldIsTrue
  <2>2. view'[q] = IF SCTells(scWire[1], q) THEN SCSays(scWire[1], q) ELSE view[q]
    BY <1>4, <1>7
  <2> QED
    BY <1>1, <1>2, <2>1, <2>2, SCDelivered
<1> QED
  BY <1>10, <1>11, <1>12, <1>13

LEMMA SCNextHolds ==
  ASSUME SCInv, SC!Next
  PROVE  SCInv'
<1>1. CASE \E s \in Secret : SC!RemoveSecret(s)
  BY <1>1, SCRemoveSecretStep
<1>2. CASE \E s \in Secret : \E match \in BOOLEAN : SC!SetSecret(s, match)
  BY <1>2, SCSetSecretStep
<1>3. CASE \E c \in scChecks : SC!Checked(c)
  BY <1>3, SCCheckedStep
<1>4. CASE SC!SendInitial
  BY <1>4, SCSendInitialStep
<1>5. CASE SC!InitialSent
  BY <1>5, SCInitialSentStep
<1>6. CASE SC!Receive
  BY <1>6, SCReceiveStep
<1> QED
  BY <1>1, <1>2, <1>3, <1>4, <1>5, <1>6 DEF SC!Next

LEMMA SCStays ==
  ASSUME SCInv, UNCHANGED scVars
  PROVE  SCInv'
<1>1. \A s : SC!Visible(s)' = SC!Visible(s)
  BY DEF scVars, SC!Visible, SC!Matching
<1>2. \A s : SCChecking(s)' = SCChecking(s)
  BY DEF scVars, SCChecking
<1> QED
  BY <1>1, <1>2 DEF scVars, SCInv, SCTypesOfSecrets, SCTypesOfCalls, SCTypesOfChecks,
     SCUnsubscribed, SCChecksAreOrdered, SCLastCheckIsTrue, SCToldIsTrue, SCListIsTrue,
     SC!Matching

LEMMA SCHolds ==
  ASSUME SCInv
  PROVE  SC!SubscriberIsRight
<1> SUFFICES ASSUME scSubscribed, scChecks = {}, ~initial.on, scWire = <<>>, NEW s \in Secret, s \notin scLost
             PROVE  view[s] = SC!Visible(s)
  BY DEF SC!SubscriberIsRight
<1>1. SCWillBe(<<>>, view, s, SC!Visible(s))
  BY DEF SCInv, SCToldIsTrue, SCChecking
<1> QED
  BY <1>1 DEF SCWillBe, SCNoneTells
=============================================================================
