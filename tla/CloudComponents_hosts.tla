---------------------------- MODULE CloudComponents_hosts ----------------------------
(* The events of rollouts, the hosts that know each other and the applications they run, in
   the specification of all the components, for every value of the constants, as in
   CloudComponents_proofs. *)
EXTENDS CloudComponents, FiniteSetTheorems, TLAPS

-----------------------------------------------------------------------------
(* UpdateEvents *)

(* The types of what the events go through. *)
UESize == Len(ueUpdateOf)
UENotes == [event : UE!Event, replayed : BOOLEAN]
UETypesOfStore ==
  /\ last \in 0 .. UESize /\ root \in 0 .. UESize
  /\ written \in SUBSET UE!Event /\ database \in SUBSET UE!Event
  /\ storing \in Seq(UE!Event) /\ stored \in Seq(UE!Event)
UETypesOfCloud ==
  /\ wire \in Seq(UENotes) /\ queue \in Seq(UENotes)
  /\ seen \in 0 .. UESize + 1 /\ saved \in 0 .. UESize + 1
UETypesOfSub ==
  sub \in [on : BOOLEAN, finished : BOOLEAN, from : 0 .. UESize + 1,
           replay : {"no", "reading", "sending", "waiting"},
           missed : SUBSET UE!Event, queue : Seq(UE!Event)]

(* What a subscription has at the stages of its replay. *)
UEStages ==
  /\ sub.missed # {} => sub.replay \in {"sending", "waiting"}
  /\ sub.finished => sub.replay = "no"
  /\ sub.replay = "reading" => sub.from # UESize + 1
  /\ sub.on /\ sub.replay = "no" => sub.finished
  /\ ~sub.on => sub.replay = "no" /\ sub.queue = <<>>

(* A number is in a sequence of numbers or of notifications, and the numbers are in order. *)
UEWaits(s, n) == \E i \in 1 .. Len(s) : s[i] = n
UEComes(s, n) == \E i \in 1 .. Len(s) : s[i].event = n
UEIncreasing(s) == \A i, j \in 1 .. Len(s) : i < j => s[i] < s[j]

(* The numbers of the AppManager only grow, also when it starts from its database. *)
UENumbers ==
  /\ root <= last
  /\ \A n \in written : n <= last
  /\ \A n \in written : n \in database \/ n <= root
  /\ \A n \in written : n \in database \/ n \in excused
  /\ database \subseteq written
UEStoringFollows ==
  /\ UEIncreasing(storing)
  /\ \A n \in UE!Event : UEWaits(storing, n) => n <= last
  /\ \A n \in UE!Event : UEWaits(storing, n) => \A m \in written : m < n
UEStoredFollows ==
  /\ UEIncreasing(stored)
  /\ \A n \in UE!Event : UEWaits(stored, n) => n \in written
UEQueueFollows ==
  /\ UEIncreasing(sub.queue)
  /\ \A n \in UE!Event : UEWaits(sub.queue, n) => n \in written
  /\ \A n, m \in UE!Event : UEWaits(sub.queue, n) /\ UEWaits(stored, m) => n < m

(* What is on its way is stored. *)
UEWireIsWritten == \A n \in UE!Event : UEComes(wire, n) => n \in written
UEQueueIsWritten == \A n \in UE!Event : UEComes(queue, n) => n \in written
UEMissedIsWritten == sub.missed \subseteq written
UESeenIsWritten == seen \in written \cup {UESize + 1} /\ saved \in written \cup {UESize + 1}
UEFromIsWritten == sub.from \in written \cup {UESize + 1}

(* What the CloudManager has still to hear of is not below any number that it goes by. *)
UEOpen == written \ (since \cup processed \cup excused)
UEKept(k) == k # UESize + 1 => \A m \in UEOpen : k < m
UESavedIsKept == UEKept(saved)
UESeenIsKept == registered => UEKept(seen)
UEFromIsKept == sub.on => UEKept(sub.from)

(* What is still to come of an earlier number comes before a later one. *)
UELeads(s, m, elsewhere) ==
  \A i \in 1 .. Len(s) : m < s[i].event =>
    elsewhere \/ \E k \in 1 .. i - 1 : s[k].event = m
UEQueueInOrder == \A m \in UEOpen : UELeads(queue, m, FALSE)
UEWireInOrder == \A m \in UEOpen : UELeads(wire, m, UEComes(queue, m))
UEMissedInOrder ==
  \A n \in sub.missed : \A m \in UEOpen :
    m < n => UEComes(queue, m) \/ UEComes(wire, m) \/ m \in sub.missed

(* And while there is a subscription it is on its way. *)
UEIsUnderWay(m) ==
  \/ UEComes(queue, m) \/ UEComes(wire, m) \/ m \in sub.missed
  \/ UEWaits(sub.queue, m) \/ UEWaits(stored, m)
  \/ sub.replay = "reading"
UEOpenIsUnderWay == sub.on => \A m \in UEOpen : UEIsUnderWay(m)

UETypes == UETypesOfStore /\ UETypesOfCloud /\ UETypesOfSub
UEAppManagerInOrder == UENumbers /\ UEStoringFollows /\ UEStoredFollows /\ UEQueueFollows
UEAllWritten ==
  UEWireIsWritten /\ UEQueueIsWritten /\ UEMissedIsWritten /\ UESeenIsWritten /\ UEFromIsWritten
UENothingSkipped == UESavedIsKept /\ UESeenIsKept /\ UEFromIsKept
UEInOrder == UEQueueInOrder /\ UEWireInOrder /\ UEMissedInOrder
UEDelivery == UEAppManagerInOrder /\ UEAllWritten /\ UENothingSkipped /\ UEInOrder
  /\ UEOpenIsUnderWay
UEInv == UETypes /\ UEStages /\ (~cleared => UEDelivery)

LEMMA UEEventNumbers ==
  ASSUME UEConstants
  PROVE  UESize \in Nat /\ UE!Event = 1 .. UESize /\ UE!Never = UESize + 1
BY DEF UEConstants, UESize, UE!Event, UE!Never

(* How these follow a sequence that gets longer at its end or shorter at its front. *)
LEMMA UEWaitsTail ==
  ASSUME NEW S, NEW s \in Seq(S), s # <<>>
  PROVE  /\ Head(s) \in S /\ Tail(s) \in Seq(S) /\ UEWaits(s, Head(s))
         /\ \A n : UEWaits(s, n) <=> n = Head(s) \/ UEWaits(Tail(s), n)
<1>1. PICK k \in Nat : k = Len(s) /\ k > 0
  OBVIOUS
<1>2. Head(s) = s[1] /\ Head(s) \in S /\ Tail(s) \in Seq(S) /\ Len(Tail(s)) = k - 1
  BY <1>1
<1>3. \A i \in 1 .. k - 1 : Tail(s)[i] = s[i + 1]
  BY <1>1, <1>2
<1>4. UEWaits(s, Head(s))
  BY <1>1, <1>2 DEF UEWaits
<1>5. ASSUME NEW n, UEWaits(s, n), n # Head(s) PROVE UEWaits(Tail(s), n)
  <2>1. PICK i \in 1 .. k : s[i] = n
    BY <1>1, <1>5 DEF UEWaits
  <2>2. i - 1 \in 1 .. k - 1 /\ i = (i - 1) + 1
    BY <1>1, <1>2, <1>5, <2>1
  <2>3. Tail(s)[i - 1] = n
    BY <1>3, <2>1, <2>2
  <2> QED
    BY <1>2, <2>2, <2>3 DEF UEWaits
<1>6. ASSUME NEW n, UEWaits(Tail(s), n) PROVE UEWaits(s, n)
  <2>1. PICK i \in 1 .. k - 1 : Tail(s)[i] = n
    BY <1>2, <1>6 DEF UEWaits
  <2>2. i + 1 \in 1 .. k /\ s[i + 1] = n
    BY <1>1, <1>3, <2>1
  <2> QED
    BY <1>1, <2>2 DEF UEWaits
<1> QED
  BY <1>2, <1>4, <1>5, <1>6

LEMMA UEWaitsAppend ==
  ASSUME NEW S, NEW s \in Seq(S), NEW x \in S
  PROVE  /\ Append(s, x) \in Seq(S)
         /\ \A n : UEWaits(Append(s, x), n) <=> n = x \/ UEWaits(s, n)
<1>1. PICK k \in Nat : k = Len(s)
  OBVIOUS
<1>2. Append(s, x) \in Seq(S) /\ Len(Append(s, x)) = k + 1
  BY <1>1
<1>3. PICK t \in Seq(S) : t = Append(s, x) /\ Len(t) = k + 1
  BY <1>2
<1>4. t[k + 1] = x /\ \A i \in 1 .. k : t[i] = s[i]
  BY <1>1, <1>3
<1>5. UEWaits(t, x)
  BY <1>1, <1>3, <1>4 DEF UEWaits
<1>6. ASSUME NEW n, UEWaits(s, n) PROVE UEWaits(t, n)
  BY <1>1, <1>3, <1>4, <1>6 DEF UEWaits
<1>7. ASSUME NEW n, UEWaits(t, n), n # x PROVE UEWaits(s, n)
  BY <1>1, <1>3, <1>4, <1>7 DEF UEWaits
<1> QED
  BY <1>3, <1>5, <1>6, <1>7

LEMMA UEComesTail ==
  ASSUME NEW S, NEW s \in Seq(S), s # <<>>
  PROVE  /\ Head(s) \in S /\ Tail(s) \in Seq(S) /\ UEComes(s, Head(s).event)
         /\ \A n : UEComes(s, n) <=> n = Head(s).event \/ UEComes(Tail(s), n)
<1>1. PICK k \in Nat : k = Len(s) /\ k > 0
  OBVIOUS
<1>2. Head(s) = s[1] /\ Head(s) \in S /\ Tail(s) \in Seq(S) /\ Len(Tail(s)) = k - 1
  BY <1>1
<1>3. \A i \in 1 .. k - 1 : Tail(s)[i] = s[i + 1]
  BY <1>1, <1>2
<1>4. UEComes(s, Head(s).event)
  BY <1>1, <1>2 DEF UEComes
<1>5. ASSUME NEW n, UEComes(s, n), n # Head(s).event PROVE UEComes(Tail(s), n)
  <2>1. PICK i \in 1 .. k : s[i].event = n
    BY <1>1, <1>5 DEF UEComes
  <2>2. i - 1 \in 1 .. k - 1 /\ i = (i - 1) + 1
    BY <1>1, <1>2, <1>5, <2>1
  <2>3. Tail(s)[i - 1].event = n
    BY <1>3, <2>1, <2>2
  <2> QED
    BY <1>2, <2>2, <2>3 DEF UEComes
<1>6. ASSUME NEW n, UEComes(Tail(s), n) PROVE UEComes(s, n)
  <2>1. PICK i \in 1 .. k - 1 : Tail(s)[i].event = n
    BY <1>2, <1>6 DEF UEComes
  <2>2. i + 1 \in 1 .. k /\ s[i + 1].event = n
    BY <1>1, <1>3, <2>1
  <2> QED
    BY <1>1, <2>2 DEF UEComes
<1> QED
  BY <1>2, <1>4, <1>5, <1>6

LEMMA UEComesAppend ==
  ASSUME NEW S, NEW s \in Seq(S), NEW x \in S
  PROVE  /\ Append(s, x) \in Seq(S)
         /\ \A n : UEComes(Append(s, x), n) <=> n = x.event \/ UEComes(s, n)
<1>1. PICK k \in Nat : k = Len(s)
  OBVIOUS
<1>2. Append(s, x) \in Seq(S) /\ Len(Append(s, x)) = k + 1
  BY <1>1
<1>3. PICK t \in Seq(S) : t = Append(s, x) /\ Len(t) = k + 1
  BY <1>2
<1>4. t[k + 1] = x /\ \A i \in 1 .. k : t[i] = s[i]
  BY <1>1, <1>3
<1>5. UEComes(t, x.event)
  BY <1>1, <1>3, <1>4 DEF UEComes
<1>6. ASSUME NEW n, UEComes(s, n) PROVE UEComes(t, n)
  BY <1>1, <1>3, <1>4, <1>6 DEF UEComes
<1>7. ASSUME NEW n, UEComes(t, n), n # x.event PROVE UEComes(s, n)
  BY <1>1, <1>3, <1>4, <1>7 DEF UEComes
<1> QED
  BY <1>3, <1>5, <1>6, <1>7

LEMMA UEIncreasingTail ==
  ASSUME NEW s \in Seq(Nat), s # <<>>, UEIncreasing(s)
  PROVE  UEIncreasing(Tail(s)) /\ \A n : UEWaits(Tail(s), n) => Head(s) < n
<1>1. PICK k \in Nat : k = Len(s) /\ k > 0
  OBVIOUS
<1>2. Tail(s) \in Seq(Nat) /\ Len(Tail(s)) = k - 1 /\ Head(s) = s[1]
  BY <1>1
<1>3. PICK t \in Seq(Nat) : t = Tail(s) /\ Len(t) = k - 1 /\ Head(s) = s[1]
  BY <1>2
<1>4. \A i \in 1 .. k - 1 : t[i] = s[i + 1]
  BY <1>1, <1>3
<1>5. UEIncreasing(t)
  BY <1>1, <1>3, <1>4 DEF UEIncreasing
<1>6. ASSUME NEW n, UEWaits(t, n) PROVE Head(s) < n
  BY <1>1, <1>3, <1>4, <1>6 DEF UEWaits, UEIncreasing
<1> QED
  BY <1>3, <1>5, <1>6

LEMMA UEIncreasingAppend ==
  ASSUME NEW s \in Seq(Nat), NEW x \in Nat, UEIncreasing(s), \A n \in Nat : UEWaits(s, n) => n < x
  PROVE  UEIncreasing(Append(s, x))
<1>1. PICK k \in Nat : k = Len(s)
  OBVIOUS
<1>2. Append(s, x) \in Seq(Nat) /\ Len(Append(s, x)) = k + 1
  BY <1>1
<1>3. PICK t \in Seq(Nat) : t = Append(s, x) /\ Len(t) = k + 1
  BY <1>2
<1>4. t[k + 1] = x /\ \A i \in 1 .. k : t[i] = s[i]
  BY <1>1, <1>3
<1>5. \A i \in 1 .. k : s[i] < x
  BY <1>1 DEF UEWaits
<1>6. ASSUME NEW i \in 1 .. k + 1, NEW j \in 1 .. k + 1, i < j PROVE t[i] < t[j]
  <2>1. i \in 1 .. k
    BY <1>1, <1>6
  <2>2. CASE j \in 1 .. k
    BY <1>1, <1>4, <1>6, <2>1, <2>2 DEF UEIncreasing
  <2>3. CASE j = k + 1
    BY <1>4, <1>5, <2>1, <2>3
  <2> QED
    BY <1>1, <1>6, <2>2, <2>3
<1>7. UEIncreasing(t)
  BY <1>3, <1>6 DEF UEIncreasing
<1> QED
  BY <1>3, <1>7

LEMMA UELeadsTail ==
  ASSUME NEW S, NEW s \in Seq(S), s # <<>>, NEW m, NEW e \in BOOLEAN, UELeads(s, m, e)
  PROVE  UELeads(Tail(s), m, e \/ Head(s).event = m)
<1>1. PICK k \in Nat : k = Len(s) /\ k > 0
  OBVIOUS
<1>2. Tail(s) \in Seq(S) /\ Len(Tail(s)) = k - 1 /\ Head(s) = s[1]
  BY <1>1
<1>3. PICK t \in Seq(S) : t = Tail(s) /\ Len(t) = k - 1 /\ Head(s) = s[1]
  BY <1>2
<1>4. \A i \in 1 .. k - 1 : t[i] = s[i + 1]
  BY <1>1, <1>3
<1>5. ASSUME NEW i \in 1 .. k - 1, m < t[i].event, ~e, Head(s).event # m
      PROVE  \E j \in 1 .. i - 1 : t[j].event = m
  <2>1. i + 1 \in 1 .. k /\ m < s[i + 1].event
    BY <1>1, <1>4, <1>5
  <2>2. PICK j \in 1 .. (i + 1) - 1 : s[j].event = m
    BY <1>1, <1>5, <2>1 DEF UELeads
  <2>3. j - 1 \in 1 .. i - 1 /\ j = (j - 1) + 1 /\ j - 1 \in 1 .. k - 1
    BY <1>1, <1>3, <1>5, <2>2
  <2>4. t[j - 1].event = m
    BY <1>4, <2>2, <2>3
  <2> QED
    BY <2>3, <2>4
<1>6. UELeads(t, m, e \/ Head(s).event = m)
  BY <1>3, <1>5 DEF UELeads
<1> QED
  BY <1>3, <1>6

LEMMA UELeadsAppend ==
  ASSUME NEW S, NEW s \in Seq(S), NEW x \in S, NEW m, NEW e \in BOOLEAN, UELeads(s, m, e),
         m < x.event => e \/ UEComes(s, m)
  PROVE  UELeads(Append(s, x), m, e)
<1>1. PICK k \in Nat : k = Len(s)
  OBVIOUS
<1>2. Append(s, x) \in Seq(S) /\ Len(Append(s, x)) = k + 1
  BY <1>1
<1>3. PICK t \in Seq(S) : t = Append(s, x) /\ Len(t) = k + 1
  BY <1>2
<1>4. t[k + 1] = x /\ \A i \in 1 .. k : t[i] = s[i]
  BY <1>1, <1>3
<1>5. ASSUME NEW i \in 1 .. k + 1, m < t[i].event, ~e
      PROVE  \E j \in 1 .. i - 1 : t[j].event = m
  <2>1. CASE i \in 1 .. k
    <3>1. m < s[i].event
      BY <1>4, <1>5, <2>1
    <3>2. PICK j \in 1 .. i - 1 : s[j].event = m
      BY <1>1, <1>5, <2>1, <3>1 DEF UELeads
    <3>3. j \in 1 .. k
      BY <1>1, <2>1, <3>2
    <3> QED
      BY <1>4, <3>2, <3>3
  <2>2. CASE i = k + 1
    <3>1. PICK j \in 1 .. k : s[j].event = m
      BY <1>1, <1>4, <1>5, <2>2 DEF UEComes
    <3>2. t[j].event = m /\ j \in 1 .. i - 1
      BY <1>1, <1>4, <2>2, <3>1
    <3> QED
      BY <3>2
  <2> QED
    BY <1>1, <1>5, <2>1, <2>2
<1>6. UELeads(t, m, e)
  BY <1>3, <1>5 DEF UELeads
<1> QED
  BY <1>3, <1>6

LEMMA UELeadsMore ==
  ASSUME NEW s, NEW m, NEW e \in BOOLEAN, NEW f \in BOOLEAN, UELeads(s, m, e), e => f
  PROVE  UELeads(s, m, f)
BY DEF UELeads

LEMMA UENothingWaits ==
  /\ \A n : ~UEWaits(<<>>, n) /\ ~UEComes(<<>>, n)
  /\ UEIncreasing(<<>>) /\ \A m, e : UELeads(<<>>, m, e)
  /\ \A S : <<>> \in Seq(S)
<1>1. Len(<<>>) = 0 /\ \A S : <<>> \in Seq(S)
  OBVIOUS
<1> QED
  BY <1>1 DEF UEWaits, UEComes, UEIncreasing, UELeads

(* What a step that does not store, clear or clean events leaves as it is. *)
UEAppManagerStays ==
  /\ UNCHANGED <<last, root, written, database, storing, stored>>
  /\ excused \subseteq excused' /\ sub'.queue \in {sub.queue, <<>>}
LEMMA UEAppManagerKeeps ==
  ASSUME UEAppManagerInOrder, UEAppManagerStays
  PROVE  UEAppManagerInOrder'
<1>1. UENumbers'
  BY DEF UEAppManagerInOrder, UEAppManagerStays, UENumbers
<1>2. UEStoringFollows' /\ UEStoredFollows'
  BY DEF UEAppManagerInOrder, UEAppManagerStays, UEStoringFollows, UEStoredFollows
<1>3. UEQueueFollows'
  BY UENothingWaits DEF UEAppManagerInOrder, UEAppManagerStays, UEQueueFollows
<1> QED
  BY <1>1, <1>2, <1>3 DEF UEAppManagerInOrder

(* What a step that takes no number of the CloudManager's leaves as it is. *)
UENumbersStay ==
  /\ UNCHANGED <<seen, saved, registered>> /\ UEOpen' \subseteq UEOpen
  /\ sub'.on => sub.on /\ sub'.from = sub.from
LEMMA UENothingSkippedStays ==
  ASSUME UENothingSkipped, UENumbersStay
  PROVE  UENothingSkipped'
BY DEF UENothingSkipped, UENumbersStay, UESavedIsKept, UESeenIsKept, UEFromIsKept, UEKept

(* What is open gets less but for events that are stored. *)
LEMMA UEOpenLess ==
  ASSUME UNCHANGED written, since \subseteq since', processed \subseteq processed',
         excused \subseteq excused'
  PROVE  UEOpen' \subseteq UEOpen
BY DEF UEOpen

LEMMA UEFieldsOfSub ==
  ASSUME UETypesOfSub
  PROVE  /\ sub.on \in BOOLEAN /\ sub.finished \in BOOLEAN /\ sub.from \in 0 .. UESize + 1
         /\ sub.replay \in {"no", "reading", "sending", "waiting"}
         /\ sub.missed \in SUBSET UE!Event /\ sub.queue \in Seq(UE!Event)
BY DEF UETypesOfSub

LEMMA UEEventsOfNotes ==
  ASSUME UETypesOfCloud
  PROVE  /\ \A i \in 1 .. Len(wire) : wire[i].event \in UE!Event
         /\ \A i \in 1 .. Len(queue) : queue[i].event \in UE!Event
<1>1. \A x \in UENotes : x.event \in UE!Event
  BY DEF UENotes
<1>2. \A i \in 1 .. Len(wire) : wire[i] \in UENotes
  BY DEF UETypesOfCloud
<1>3. \A i \in 1 .. Len(queue) : queue[i] \in UENotes
  BY DEF UETypesOfCloud
<1> QED
  BY <1>1, <1>2, <1>3

(* A step that changes nothing of this. *)
LEMMA UEReportsStep ==
  ASSUME UEInv,
         UNCHANGED <<last, root, database, storing, stored, sub, wire, registered, seen, saved,
                     queue, processed, excused, since, written, cleared>>
  PROVE  UEInv'
<1>1. UEOpen' = UEOpen
  BY DEF UEOpen
<1>2. UETypes' /\ UEStages'
  BY DEF UEInv, UETypes, UETypesOfStore, UETypesOfCloud, UETypesOfSub, UEStages
<1> SUFFICES ASSUME ~cleared PROVE UEDelivery'
  BY <1>2 DEF UEInv
<1> USE DEF UEInv, UEDelivery
<1>3. UEAppManagerInOrder'
  BY UEAppManagerKeeps DEF UEAppManagerStays
<1>4. UEAllWritten'
  BY DEF UEAllWritten, UEWireIsWritten, UEQueueIsWritten, UEMissedIsWritten, UESeenIsWritten,
     UEFromIsWritten
<1>5. UENothingSkipped'
  BY <1>1, UENothingSkippedStays DEF UENumbersStay
<1>6. UEInOrder'
  BY <1>1 DEF UEInOrder, UEQueueInOrder, UEWireInOrder, UEMissedInOrder
<1>7. UEOpenIsUnderWay'
  BY <1>1 DEF UEOpenIsUnderWay, UEIsUnderWay
<1> QED
  BY <1>3, <1>4, <1>5, <1>6, <1>7

LEMMA UENewEventStep ==
  ASSUME UEConstants, UEInv, UE!NewEvent
  PROVE  UEInv'
<1>1. /\ last + 1 \in UE!Event /\ last' = last + 1 /\ storing' = Append(storing, last + 1)
      /\ UNCHANGED <<root, database, stored, sub, wire, registered, seen, saved,
                     queue, processed, excused, since, written, cleared>>
  BY DEF UE!NewEvent, UE!cloud, UE!history
<1>2. UEOpen' = UEOpen
  BY <1>1 DEF UEOpen
<1>3. storing' \in Seq(UE!Event) /\ \A n : UEWaits(storing', n) <=> n = last + 1
        \/ UEWaits(storing, n)
  BY <1>1, UEWaitsAppend DEF UEInv, UETypes, UETypesOfStore
<1>4. UE!Event \subseteq Nat /\ UE!Event = 1 .. UESize /\ UESize \in Nat
  BY UEEventNumbers
<1>5. UETypes' /\ UEStages'
  BY <1>1, <1>3, <1>4 DEF UEInv, UETypes, UETypesOfStore, UETypesOfCloud, UETypesOfSub, UEStages
<1> SUFFICES ASSUME ~cleared PROVE UEDelivery'
  BY <1>1, <1>5 DEF UEInv
<1>6. UENumbers'
  BY <1>1, <1>4 DEF UEInv, UEDelivery, UEAppManagerInOrder, UENumbers, UETypes, UETypesOfStore
<1>7. UEStoringFollows'
  <2>1. storing \in Seq(Nat) /\ UEIncreasing(storing)
    <3>1. Seq(UE!Event) \subseteq Seq(Nat)
      BY <1>4
    <3> QED
      BY <3>1 DEF UEInv, UETypes, UETypesOfStore, UEDelivery, UEAppManagerInOrder,
         UEStoringFollows
  <2>2. \A n \in Nat : UEWaits(storing, n) => n \in UE!Event /\ n < last + 1
    <3>1. \A n : UEWaits(storing, n) => n \in UE!Event
      BY DEF UEWaits, UEInv, UETypes, UETypesOfStore
    <3> QED
      BY <1>4, <3>1 DEF UEInv, UEDelivery, UEAppManagerInOrder, UEStoringFollows, UETypes,
         UETypesOfStore
  <2>3. UEIncreasing(storing')
    BY <1>1, <1>4, <2>1, <2>2, UEIncreasingAppend
  <2>4. \A n \in UE!Event : UEWaits(storing', n) => n <= last'
    BY <1>1, <1>3, <1>4, <2>2 DEF UEInv, UETypes, UETypesOfStore
  <2>5. \A n \in UE!Event : UEWaits(storing', n) => \A m \in written : m < n
    BY <1>1, <1>3, <1>4 DEF UEInv, UETypes, UETypesOfStore, UEDelivery, UEAppManagerInOrder,
       UEStoringFollows, UENumbers
  <2> QED
    BY <1>1, <2>3, <2>4, <2>5 DEF UEStoringFollows
<1>8. UEStoredFollows' /\ UEQueueFollows'
  BY <1>1 DEF UEInv, UEDelivery, UEAppManagerInOrder, UEStoredFollows, UEQueueFollows
<1>9. UEAllWritten'
  BY <1>1 DEF UEInv, UEDelivery, UEAllWritten, UEWireIsWritten, UEQueueIsWritten,
     UEMissedIsWritten, UESeenIsWritten, UEFromIsWritten
<1>10. UENothingSkipped'
  BY <1>1, <1>2, UENothingSkippedStays DEF UENumbersStay, UEInv, UEDelivery
<1>11. UEInOrder'
  BY <1>1, <1>2 DEF UEInOrder, UEQueueInOrder, UEWireInOrder, UEMissedInOrder, UEInv, UEDelivery
<1>12. UEOpenIsUnderWay'
  BY <1>1, <1>2 DEF UEOpenIsUnderWay, UEIsUnderWay, UEInv, UEDelivery
<1> QED
  BY <1>6, <1>7, <1>8, <1>9, <1>10, <1>11, <1>12 DEF UEDelivery, UEAppManagerInOrder

(* The event that is stored is above all that were stored, and waits to be sent. *)
LEMMA UEStoredStep ==
  ASSUME UEConstants, UEInv, UE!Stored
  PROVE  UEInv'
<1>1. /\ storing # <<>> /\ storing' = Tail(storing)
      /\ database' = database \cup {Head(storing)} /\ stored' = Append(stored, Head(storing))
      /\ written' = written \cup {Head(storing)}
      /\ UNCHANGED <<last, root, sub, wire, registered, seen, saved,
                     queue, processed, excused, since, cleared>>
  BY DEF UE!Stored, UE!cloud, UE!history
<1>2. UE!Event \subseteq Nat /\ UE!Event = 1 .. UESize /\ UESize \in Nat
  BY UEEventNumbers
<1>3. PICK h : h = Head(storing)
  OBVIOUS
<1>4. /\ h \in UE!Event /\ storing' \in Seq(UE!Event) /\ UEWaits(storing, h)
      /\ \A n : UEWaits(storing, n) <=> n = h \/ UEWaits(storing', n)
  BY <1>1, <1>3, UEWaitsTail DEF UEInv, UETypes, UETypesOfStore
<1>5. stored' \in Seq(UE!Event) /\ \A n : UEWaits(stored', n) <=> n = h \/ UEWaits(stored, n)
  BY <1>1, <1>3, <1>4, UEWaitsAppend DEF UEInv, UETypes, UETypesOfStore
<1>6. UETypes' /\ UEStages'
  BY <1>1, <1>3, <1>4, <1>5 DEF UEInv, UETypes, UETypesOfStore, UETypesOfCloud, UETypesOfSub,
     UEStages
<1> SUFFICES ASSUME ~cleared PROVE UEDelivery'
  BY <1>1, <1>6 DEF UEInv
<1>7. \A m \in written : m < h
  BY <1>4 DEF UEInv, UEDelivery, UEAppManagerInOrder, UEStoringFollows
<1>8. UEOpen' \subseteq UEOpen \cup {h}
  BY <1>1, <1>3 DEF UEOpen
<1>9. UENumbers'
  <2>1. h <= last
    BY <1>4 DEF UEInv, UEDelivery, UEAppManagerInOrder, UEStoringFollows
  <2> QED
    BY <1>1, <1>3, <2>1 DEF UEInv, UEDelivery, UEAppManagerInOrder, UENumbers
<1>10. UEStoringFollows'
  <2>1. storing \in Seq(Nat) /\ UEIncreasing(storing)
    <3>1. Seq(UE!Event) \subseteq Seq(Nat)
      BY <1>2
    <3> QED
      BY <3>1 DEF UEInv, UETypes, UETypesOfStore, UEDelivery, UEAppManagerInOrder,
         UEStoringFollows
  <2>2. UEIncreasing(storing') /\ \A n : UEWaits(storing', n) => h < n
    BY <1>1, <1>3, <2>1, UEIncreasingTail
  <2>3. \A n \in UE!Event : UEWaits(storing', n) => n <= last' /\ \A m \in written' : m < n
    BY <1>1, <1>3, <1>4, <2>2 DEF UEInv, UEDelivery, UEAppManagerInOrder, UEStoringFollows
  <2> QED
    BY <2>2, <2>3 DEF UEStoringFollows
<1>11. UEStoredFollows'
  <2>1. stored \in Seq(Nat) /\ UEIncreasing(stored)
    <3>1. Seq(UE!Event) \subseteq Seq(Nat)
      BY <1>2
    <3> QED
      BY <3>1 DEF UEInv, UETypes, UETypesOfStore, UEDelivery, UEAppManagerInOrder,
         UEStoredFollows
  <2>2. \A n \in Nat : UEWaits(stored, n) => n < h
    <3>1. \A n : UEWaits(stored, n) => n \in UE!Event
      BY DEF UEWaits, UEInv, UETypes, UETypesOfStore
    <3> QED
      BY <1>7, <3>1 DEF UEInv, UEDelivery, UEAppManagerInOrder, UEStoredFollows
  <2>3. UEIncreasing(stored')
    BY <1>1, <1>2, <1>3, <1>4, <2>1, <2>2, UEIncreasingAppend
  <2>4. \A n \in UE!Event : UEWaits(stored', n) => n \in written'
    BY <1>1, <1>3, <1>5 DEF UEInv, UEDelivery, UEAppManagerInOrder, UEStoredFollows
  <2> QED
    BY <2>3, <2>4 DEF UEStoredFollows
<1>12. UEQueueFollows'
  BY <1>1, <1>5, <1>7 DEF UEInv, UEDelivery, UEAppManagerInOrder, UEQueueFollows
<1>13. UEAllWritten'
  BY <1>1 DEF UEInv, UEDelivery, UEAllWritten, UEWireIsWritten, UEQueueIsWritten,
     UEMissedIsWritten, UESeenIsWritten, UEFromIsWritten
<1>14. UENothingSkipped'
  <2>1. \A k \in written \cup {UESize + 1} : UEKept(k) => UEKept(k)'
    <3> SUFFICES ASSUME NEW k \in written, UEKept(k), k # UESize + 1, NEW m \in UEOpen' PROVE k < m
      BY DEF UEKept
    <3> QED
      BY <1>7, <1>8 DEF UEKept
  <2> QED
    BY <1>1, <2>1 DEF UEInv, UEDelivery, UEAllWritten, UESeenIsWritten, UEFromIsWritten,
       UENothingSkipped, UESavedIsKept, UESeenIsKept, UEFromIsKept, UEKept
<1>15. UEInOrder'
  <2>1. UEQueueInOrder'
    <3>1. ASSUME h \in UEOpen' PROVE UELeads(queue, h, FALSE)
      <4>1. \A i \in 1 .. Len(queue) : queue[i].event \in UE!Event
        BY UEEventsOfNotes DEF UEInv, UETypes
      <4>2. \A i \in 1 .. Len(queue) : queue[i].event \in written
        BY <4>1 DEF UEInv, UEDelivery, UEAllWritten, UEQueueIsWritten, UEComes
      <4>3. \A i \in 1 .. Len(queue) : ~(h < queue[i].event)
        BY <1>2, <1>4, <1>7, <4>1, <4>2
      <4> QED
        BY <4>3 DEF UELeads
    <3> QED
      BY <1>1, <1>8, <3>1 DEF UEInv, UEDelivery, UEInOrder, UEQueueInOrder
  <2>2. UEWireInOrder'
    <3>1. ASSUME h \in UEOpen' PROVE UELeads(wire, h, UEComes(queue, h))
      <4>1. \A i \in 1 .. Len(wire) : wire[i].event \in UE!Event
        BY UEEventsOfNotes DEF UEInv, UETypes
      <4>2. \A i \in 1 .. Len(wire) : wire[i].event \in written
        BY <4>1 DEF UEInv, UEDelivery, UEAllWritten, UEWireIsWritten, UEComes
      <4>3. \A i \in 1 .. Len(wire) : ~(h < wire[i].event)
        BY <1>2, <1>4, <1>7, <4>1, <4>2
      <4> QED
        BY <4>3 DEF UELeads
    <3> QED
      BY <1>1, <1>8, <3>1 DEF UEInv, UEDelivery, UEInOrder, UEWireInOrder
  <2>3. UEMissedInOrder'
    <3>1. \A n \in sub.missed : n \in UE!Event /\ n < h
      BY <1>7, UEFieldsOfSub DEF UEInv, UETypes, UEDelivery, UEAllWritten, UEMissedIsWritten
    <3> QED
      BY <1>1, <1>2, <1>4, <1>8, <3>1 DEF UEInv, UEDelivery, UEInOrder, UEMissedInOrder
  <2> QED
    BY <2>1, <2>2, <2>3 DEF UEInOrder
<1>16. UEOpenIsUnderWay'
  BY <1>1, <1>5, <1>8 DEF UEOpenIsUnderWay, UEIsUnderWay, UEInv, UEDelivery
<1> QED
  BY <1>9, <1>10, <1>11, <1>12, <1>13, <1>14, <1>15, <1>16 DEF UEDelivery, UEAppManagerInOrder

LEMMA UEStoreFailsStep ==
  ASSUME UEConstants, UEInv, UE!StoreFails
  PROVE  UEInv'
<1>1. /\ storing # <<>> /\ storing' = Tail(storing) /\ excused' = excused \cup {Head(storing)}
      /\ UNCHANGED <<last, root, database, stored, sub, wire, registered, seen, saved,
                     queue, processed, since, written, cleared>>
  BY DEF UE!StoreFails, UE!cloud
<1>2. UEOpen' \subseteq UEOpen
  BY <1>1, UEOpenLess
<1>3. storing' \in Seq(UE!Event) /\ \A n : UEWaits(storing', n) => UEWaits(storing, n)
  BY <1>1, UEWaitsTail DEF UEInv, UETypes, UETypesOfStore
<1>4. UE!Event \subseteq Nat /\ UE!Event = 1 .. UESize /\ UESize \in Nat
  BY UEEventNumbers
<1>5. UETypes' /\ UEStages'
  BY <1>1, <1>3 DEF UEInv, UETypes, UETypesOfStore, UETypesOfCloud, UETypesOfSub, UEStages
<1> SUFFICES ASSUME ~cleared PROVE UEDelivery'
  BY <1>1, <1>5 DEF UEInv
<1>6. UENumbers'
  BY <1>1 DEF UEInv, UEDelivery, UEAppManagerInOrder, UENumbers
<1>7. UEStoringFollows'
  <2>1. storing \in Seq(Nat) /\ UEIncreasing(storing)
    <3>1. Seq(UE!Event) \subseteq Seq(Nat)
      BY <1>4
    <3> QED
      BY <3>1 DEF UEInv, UETypes, UETypesOfStore, UEDelivery, UEAppManagerInOrder,
         UEStoringFollows
  <2>2. UEIncreasing(storing')
    BY <1>1, <2>1, UEIncreasingTail
  <2> QED
    BY <1>1, <1>3, <2>2 DEF UEInv, UEDelivery, UEAppManagerInOrder, UEStoringFollows
<1>8. UEStoredFollows' /\ UEQueueFollows'
  BY <1>1 DEF UEInv, UEDelivery, UEAppManagerInOrder, UEStoredFollows, UEQueueFollows
<1>9. UEAllWritten'
  BY <1>1 DEF UEInv, UEDelivery, UEAllWritten, UEWireIsWritten, UEQueueIsWritten,
     UEMissedIsWritten, UESeenIsWritten, UEFromIsWritten
<1>10. UENothingSkipped'
  BY <1>1, <1>2, UENothingSkippedStays DEF UENumbersStay, UEInv, UEDelivery
<1>11. UEInOrder'
  BY <1>1, <1>2 DEF UEInOrder, UEQueueInOrder, UEWireInOrder, UEMissedInOrder, UEInv, UEDelivery
<1>12. UEOpenIsUnderWay'
  BY <1>1, <1>2 DEF UEOpenIsUnderWay, UEIsUnderWay, UEInv, UEDelivery
<1> QED
  BY <1>6, <1>7, <1>8, <1>9, <1>10, <1>11, <1>12 DEF UEDelivery, UEAppManagerInOrder

(* An event goes to the subscription or to those that wait for a replay; those it overtakes
   are not open any more. *)
LEMMA UESendEventStep ==
  ASSUME UEConstants, UEInv, UE!SendEvent
  PROVE  UEInv'
<1>1. /\ stored # <<>> /\ stored' = Tail(stored)
      /\ UNCHANGED <<last, root, database, storing, registered, seen, saved,
                     queue, processed, since, written, cleared>>
  BY DEF UE!SendEvent, UE!cloud
<1>2. UE!Event \subseteq Nat /\ UE!Event = 1 .. UESize /\ UESize \in Nat
  BY UEEventNumbers
<1>3. PICK h : h = Head(stored)
  OBVIOUS
<1>4. /\ h \in UE!Event /\ stored' \in Seq(UE!Event) /\ UEWaits(stored, h)
      /\ \A n : UEWaits(stored, n) <=> n = h \/ UEWaits(stored', n)
  BY <1>1, <1>3, UEWaitsTail DEF UEInv, UETypes, UETypesOfStore
<1>5. stored \in Seq(Nat)
  <2>1. Seq(UE!Event) \subseteq Seq(Nat)
    BY <1>2
  <2> QED
    BY <2>1 DEF UEInv, UETypes, UETypesOfStore
<1>6. ASSUME ~cleared
      PROVE  /\ UEIncreasing(stored') /\ \A n : UEWaits(stored', n) => h < n
             /\ h \in written
  BY <1>1, <1>3, <1>4, <1>5, <1>6, UEIncreasingTail DEF UEInv, UEDelivery, UEAppManagerInOrder,
     UEStoredFollows
<1>7. CASE sub.on /\ ~sub.finished
  <2>1. sub' = [sub EXCEPT !.queue = Append(@, h)] /\ UNCHANGED <<wire, excused>>
    BY <1>3, <1>7 DEF UE!SendEvent
  <2>2. UEOpen' = UEOpen
    BY <1>1, <2>1 DEF UEOpen
  <2>3. sub'.queue \in Seq(UE!Event) /\ \A n : UEWaits(sub'.queue, n) <=> n = h
          \/ UEWaits(sub.queue, n)
    <3>1. sub'.queue = Append(sub.queue, h)
      BY <2>1 DEF UEInv, UETypes, UETypesOfSub
    <3> QED
      BY <1>4, <3>1, UEFieldsOfSub, UEWaitsAppend DEF UEInv, UETypes
  <2>4. UNCHANGED <<sub.on, sub.finished, sub.from, sub.replay, sub.missed>>
    BY <2>1 DEF UEInv, UETypes, UETypesOfSub
  <2>5. UETypes' /\ UEStages'
    <3>1. UETypesOfSub'
      <4>1. PICK q \in Seq(UE!Event) : q = Append(sub.queue, h)
        BY <1>4, UEFieldsOfSub, UEWaitsAppend DEF UEInv, UETypes
      <4>2. sub' = [sub EXCEPT !.queue = q]
        BY <2>1, <4>1 DEF UEInv, UETypes, UETypesOfSub
      <4> QED
        BY <4>2 DEF UEInv, UETypes, UETypesOfSub
    <3> QED
      BY <1>1, <1>4, <1>7, <2>1, <2>4, <3>1 DEF UEInv, UETypes, UETypesOfStore, UETypesOfCloud,
         UEStages
  <2> SUFFICES ASSUME ~cleared PROVE UEDelivery'
    BY <1>1, <2>5 DEF UEInv
  <2>6. UENumbers' /\ UEStoringFollows' /\ UEStoredFollows'
    BY <1>1, <1>4, <1>6, <2>1 DEF UEInv, UEDelivery, UEAppManagerInOrder, UENumbers,
       UEStoringFollows, UEStoredFollows
  <2>7. UEQueueFollows'
    <3>1. sub.queue \in Seq(Nat) /\ UEIncreasing(sub.queue)
      <4>1. Seq(UE!Event) \subseteq Seq(Nat)
        BY <1>2
      <4> QED
        BY <4>1, UEFieldsOfSub DEF UEInv, UETypes, UEDelivery, UEAppManagerInOrder,
           UEQueueFollows
    <3>2. \A n \in Nat : UEWaits(sub.queue, n) => n < h
      <4>1. \A n : UEWaits(sub.queue, n) => n \in UE!Event
        BY UEFieldsOfSub DEF UEWaits, UEInv, UETypes
      <4> QED
        BY <1>4, <4>1 DEF UEInv, UEDelivery, UEAppManagerInOrder, UEQueueFollows
    <3>3. sub'.queue = Append(sub.queue, h)
      BY <2>1 DEF UEInv, UETypes, UETypesOfSub
    <3>4. UEIncreasing(sub'.queue)
      BY <1>2, <1>4, <3>1, <3>2, <3>3, UEIncreasingAppend
    <3>5. \A n \in UE!Event : UEWaits(sub'.queue, n) => n \in written'
      BY <1>1, <1>6, <2>3 DEF UEInv, UEDelivery, UEAppManagerInOrder, UEQueueFollows
    <3>6. \A n, m \in UE!Event : UEWaits(sub'.queue, n) /\ UEWaits(stored', m) => n < m
      BY <1>4, <1>6, <2>3 DEF UEInv, UEDelivery, UEAppManagerInOrder, UEQueueFollows
    <3> QED
      BY <3>4, <3>5, <3>6 DEF UEQueueFollows
  <2>8. UEAllWritten'
    BY <1>1, <2>1, <2>4 DEF UEInv, UEDelivery, UEAllWritten, UEWireIsWritten, UEQueueIsWritten,
       UEMissedIsWritten, UESeenIsWritten, UEFromIsWritten
  <2>9. UENothingSkipped'
    BY <1>1, <2>2, <2>4, UENothingSkippedStays DEF UENumbersStay, UEInv, UEDelivery
  <2>10. UEInOrder'
    BY <1>1, <2>1, <2>2, <2>4 DEF UEInOrder, UEQueueInOrder, UEWireInOrder, UEMissedInOrder,
       UEInv, UEDelivery
  <2>11. UEOpenIsUnderWay'
    BY <1>1, <1>4, <2>1, <2>2, <2>3, <2>4 DEF UEOpenIsUnderWay, UEIsUnderWay, UEInv, UEDelivery
  <2> QED
    BY <2>6, <2>7, <2>8, <2>9, <2>10, <2>11 DEF UEDelivery, UEAppManagerInOrder
<1>8. CASE ~(sub.on /\ ~sub.finished)
  <2>1. /\ wire' = IF sub.on THEN Append(wire, UE!Notification(h, FALSE)) ELSE wire
        /\ excused' = excused \cup UE!ToSet(sub.queue) /\ sub' = sub
    BY <1>3, <1>8 DEF UE!SendEvent
  <2>2. \A n : n \in UE!ToSet(sub.queue) <=> UEWaits(sub.queue, n)
    BY UEFieldsOfSub DEF UE!ToSet, UEWaits, UEInv, UETypes
  <2>3. UEOpen' \subseteq UEOpen /\ \A n : UEWaits(sub.queue, n) => n \notin UEOpen'
    BY <1>1, <2>1, <2>2 DEF UEOpen
  <2>4. UE!Notification(h, FALSE) \in UENotes /\ UE!Notification(h, FALSE).event = h
    BY <1>4 DEF UE!Notification, UENotes
  <2>5. wire' \in Seq(UENotes) /\ \A n : UEComes(wire', n) <=> (sub.on /\ n = h) \/ UEComes(wire, n)
    BY <2>1, <2>4, UEComesAppend DEF UEInv, UETypes, UETypesOfCloud
  <2>6. UETypes' /\ UEStages'
    BY <1>1, <1>4, <2>1, <2>5 DEF UEInv, UETypes, UETypesOfStore, UETypesOfCloud, UETypesOfSub,
       UEStages
  <2> SUFFICES ASSUME ~cleared PROVE UEDelivery'
    BY <1>1, <2>6 DEF UEInv
  <2>7. UENumbers' /\ UEStoringFollows' /\ UEStoredFollows' /\ UEQueueFollows'
    BY <1>1, <1>4, <1>6, <2>1 DEF UEInv, UEDelivery, UEAppManagerInOrder, UENumbers,
       UEStoringFollows, UEStoredFollows, UEQueueFollows
  <2>8. UEAllWritten'
    BY <1>1, <1>6, <2>1, <2>5 DEF UEInv, UEDelivery, UEAllWritten, UEWireIsWritten,
       UEQueueIsWritten, UEMissedIsWritten, UESeenIsWritten, UEFromIsWritten
  <2>9. UENothingSkipped'
    BY <1>1, <2>1, <2>3, UENothingSkippedStays DEF UENumbersStay, UEInv, UEDelivery
  <2>10. ASSUME sub.on, NEW m \in UEOpen', m < h PROVE UEComes(queue, m) \/ UEComes(wire, m)
    <3>1. m \in UEOpen /\ UEIsUnderWay(m) /\ ~UEWaits(sub.queue, m)
      BY <2>3, <2>10 DEF UEInv, UEDelivery, UEOpenIsUnderWay
    <3>2. sub.finished /\ sub.replay = "no" /\ sub.missed = {}
      BY <1>8, <2>10 DEF UEInv, UEStages
    <3>3. ~UEWaits(stored, m)
      <4>1. m \in UE!Event
        BY <3>1 DEF UEOpen, UEInv, UETypes, UETypesOfStore
      <4> QED
        BY <1>2, <1>4, <1>6, <2>10, <4>1
    <3> QED
      BY <3>1, <3>2, <3>3 DEF UEIsUnderWay
  <2>11. UEInOrder'
    <3>1. UEQueueInOrder' /\ UEMissedInOrder'
      BY <1>1, <2>1, <2>3, <2>5 DEF UEInOrder, UEQueueInOrder, UEMissedInOrder, UEInv,
         UEDelivery
    <3>2. UEWireInOrder'
      <4> SUFFICES ASSUME NEW m \in UEOpen' PROVE UELeads(wire', m, UEComes(queue, m))
        BY <1>1 DEF UEWireInOrder
      <4>1. UELeads(wire, m, UEComes(queue, m))
        BY <2>3 DEF UEInv, UEDelivery, UEInOrder, UEWireInOrder
      <4>2. CASE ~sub.on
        BY <2>1, <4>1, <4>2
      <4>3. CASE sub.on
        <5>1. UEComes(queue, m) \in BOOLEAN
          BY DEF UEComes
        <5>2. m < h => UEComes(queue, m) \/ UEComes(wire, m)
          BY <2>10, <4>3
        <5> QED
          BY <2>1, <2>4, <4>1, <4>3, <5>1, <5>2, UELeadsAppend DEF UEInv, UETypes,
             UETypesOfCloud
      <4> QED
        BY <4>2, <4>3
    <3> QED
      BY <3>1, <3>2 DEF UEInOrder
  <2>12. UEOpenIsUnderWay'
    BY <1>1, <1>4, <2>1, <2>3, <2>5 DEF UEOpenIsUnderWay, UEIsUnderWay, UEInv, UEDelivery
  <2> QED
    BY <2>7, <2>8, <2>9, <2>11, <2>12 DEF UEDelivery, UEAppManagerInOrder
<1> QED
  BY <1>7, <1>8

(* A subscription begins with what the CloudManager has seen, and nothing open is below it;
   a first one begins with what follows. *)
LEMMA UERegisterStep ==
  ASSUME UEConstants, UEInv, UE!Register
  PROVE  UEInv'
<1>1. PICK heard : heard = IF registered THEN seen ELSE saved
  OBVIOUS
<1> DEFINE fresh == heard = UE!Never
<1>2. /\ ~sub.on /\ seen' = heard /\ saved' = heard /\ registered' = TRUE /\ wire' = <<>>
      /\ sub' = [UE!NoSubscription EXCEPT !.on = TRUE, !.finished = fresh,
                   !.from = heard, !.replay = IF fresh THEN "no" ELSE "reading"]
      /\ since' = IF fresh THEN written ELSE since
      /\ UNCHANGED <<last, root, database, storing, stored, written, cleared, queue, processed,
                     excused>>
  BY <1>1 DEF UE!Register, UE!store
<1>3. UE!Never = UESize + 1 /\ UE!Event = 1 .. UESize /\ UESize \in Nat
  BY UEEventNumbers
<1>4. /\ sub'.on = TRUE /\ sub'.finished = fresh /\ sub'.from = heard /\ sub'.missed = {}
      /\ sub'.queue = <<>> /\ sub'.replay = IF fresh THEN "no" ELSE "reading"
  BY <1>2 DEF UE!NoSubscription
<1>5. heard \in 0 .. UESize + 1
  BY <1>1 DEF UEInv, UETypes, UETypesOfCloud
<1>6. UETypes'
  <2>1. UETypesOfStore'
    BY <1>2 DEF UEInv, UETypes, UETypesOfStore
  <2>2. UETypesOfCloud'
    BY <1>2, <1>5, UENothingWaits DEF UEInv, UETypes, UETypesOfCloud
  <2>3. UETypesOfSub'
    <3>1. <<>> \in Seq(UE!Event)
      BY UENothingWaits
    <3> QED
      BY <1>2, <1>5, <3>1 DEF UETypesOfSub, UE!NoSubscription
  <2> QED
    BY <2>1, <2>2, <2>3 DEF UETypes
<1>7. UEStages'
  BY <1>3, <1>4 DEF UEStages
<1> SUFFICES ASSUME ~cleared PROVE UEDelivery'
  BY <1>2, <1>6, <1>7 DEF UEInv
<1>8. UEOpen' \subseteq UEOpen /\ (fresh => UEOpen' = {})
  BY <1>2 DEF UEOpen, UEInv, UETypes, UETypesOfStore
<1>9. UEAppManagerInOrder'
  BY <1>2, <1>4, UEAppManagerKeeps DEF UEAppManagerStays, UEInv, UEDelivery
<1>10. UEAllWritten'
  BY <1>1, <1>2, <1>4, UENothingWaits DEF UEInv, UEDelivery, UEAllWritten, UEWireIsWritten,
     UEQueueIsWritten, UEMissedIsWritten, UESeenIsWritten, UEFromIsWritten
<1>11. UENothingSkipped'
  <2>1. UEKept(heard)
    BY <1>1 DEF UEInv, UEDelivery, UENothingSkipped, UESavedIsKept, UESeenIsKept
  <2>2. UEKept(heard)'
    <3> SUFFICES ASSUME heard' # UESize + 1, NEW m \in UEOpen' PROVE heard' < m
      BY DEF UEKept
    <3>1. heard = heard'
      OBVIOUS
    <3> QED
      BY <1>8, <2>1, <3>1 DEF UEKept
  <2> QED
    BY <1>2, <1>4, <2>2 DEF UENothingSkipped, UESavedIsKept, UESeenIsKept, UEFromIsKept, UEKept
<1>12. UEInOrder'
  BY <1>2, <1>4, <1>8, UENothingWaits DEF UEInv, UEDelivery, UEInOrder, UEQueueInOrder,
     UEWireInOrder, UEMissedInOrder
<1>13. UEOpenIsUnderWay'
  BY <1>4, <1>8 DEF UEOpenIsUnderWay, UEIsUnderWay
<1> QED
  BY <1>9, <1>10, <1>11, <1>12, <1>13 DEF UEDelivery

(* What was missed is all that is open. *)
LEMMA UEReplayReadStep ==
  ASSUME UEConstants, UEInv, UE!ReplayRead
  PROVE  UEInv'
<1>1. /\ sub.replay = "reading" /\ sub' = [sub EXCEPT !.replay = "sending", !.missed = UE!Missed]
      /\ UNCHANGED <<last, root, database, storing, stored, wire, registered, seen, saved,
                     queue, processed, excused, since, written, cleared>>
  BY DEF UE!ReplayRead, UE!store, UE!cloud, UE!history
<1>2. /\ UNCHANGED <<sub.on, sub.finished, sub.from, sub.queue>>
      /\ sub'.replay = "sending" /\ sub'.missed = UE!Missed
  BY <1>1 DEF UEInv, UETypes, UETypesOfSub
<1>3. UEOpen' = UEOpen
  BY <1>1 DEF UEOpen
<1>4. UE!Missed \in SUBSET database
  BY DEF UE!Missed
<1>5. UETypes' /\ UEStages'
  <2>1. UETypesOfSub'
    BY <1>1, <1>4 DEF UEInv, UETypes, UETypesOfStore, UETypesOfSub
  <2>2. sub.on
    BY <1>1 DEF UEInv, UEStages
  <2> QED
    BY <1>1, <1>2, <2>1, <2>2 DEF UEInv, UETypes, UETypesOfStore, UETypesOfCloud, UEStages
<1> SUFFICES ASSUME ~cleared PROVE UEDelivery'
  BY <1>1, <1>5 DEF UEInv
<1>6. UEAppManagerInOrder'
  BY <1>1, <1>2, UEAppManagerKeeps DEF UEAppManagerStays, UEInv, UEDelivery
<1>7. UEAllWritten'
  BY <1>1, <1>2, <1>4 DEF UEInv, UEDelivery, UEAllWritten, UEWireIsWritten, UEQueueIsWritten,
     UEMissedIsWritten, UESeenIsWritten, UEFromIsWritten, UEAppManagerInOrder, UENumbers
<1>8. UENothingSkipped'
  BY <1>1, <1>2, <1>3, UENothingSkippedStays DEF UENumbersStay, UEInv, UEDelivery
<1>9. sub.on /\ sub.from # UESize + 1 => UEOpen \subseteq UE!Missed
  <2>1. UEOpen \subseteq database
    BY DEF UEOpen, UEInv, UEDelivery, UEAppManagerInOrder, UENumbers
  <2>2. UESize \in Nat /\ UE!Event = 1 .. UESize
    BY UEEventNumbers
  <2> QED
    BY <2>1, <2>2, UEFieldsOfSub DEF UE!Missed, UEInv, UETypes, UETypesOfStore, UEDelivery,
       UENothingSkipped, UEFromIsKept, UEKept
<1>10. sub.on /\ sub.from # UESize + 1
  BY <1>1 DEF UEInv, UEStages
<1>11. UEInOrder'
  BY <1>1, <1>2, <1>3, <1>9, <1>10 DEF UEInv, UEDelivery, UEInOrder, UEQueueInOrder,
     UEWireInOrder, UEMissedInOrder
<1>12. UEOpenIsUnderWay'
  BY <1>1, <1>2, <1>3, <1>9, <1>10 DEF UEInv, UEDelivery, UEOpenIsUnderWay, UEIsUnderWay
<1> QED
  BY <1>6, <1>7, <1>8, <1>11, <1>12 DEF UEDelivery

(* The oldest of the missed events is sent: what is open and older is on its way before it. *)
LEMMA UEReplaySendStep ==
  ASSUME UEConstants, UEInv, UE!ReplaySend
  PROVE  UEInv'
<1>1. PICK n \in sub.missed :
        /\ sub.replay = "sending" /\ \A m \in sub.missed : n <= m
        /\ sub' = [sub EXCEPT !.replay = "waiting", !.missed = @ \ {n}]
        /\ wire' = Append(wire, UE!Notification(n, TRUE))
        /\ UNCHANGED <<last, root, database, storing, stored, registered, seen, saved,
                       queue, processed, excused, since, written, cleared>>
  BY DEF UE!ReplaySend, UE!store, UE!cloud, UE!history
<1>2. /\ UNCHANGED <<sub.on, sub.finished, sub.from, sub.queue>>
      /\ sub'.replay = "waiting" /\ sub'.missed = sub.missed \ {n}
  BY <1>1 DEF UEInv, UETypes, UETypesOfSub
<1>3. UE!Event \subseteq Nat /\ UE!Event = 1 .. UESize /\ UESize \in Nat /\ n \in UE!Event
  BY UEEventNumbers, UEFieldsOfSub DEF UEInv, UETypes
<1>4. UE!Notification(n, TRUE) \in UENotes /\ UE!Notification(n, TRUE).event = n
  BY <1>3 DEF UE!Notification, UENotes
<1>5. wire' \in Seq(UENotes) /\ \A m : UEComes(wire', m) <=> m = n \/ UEComes(wire, m)
  BY <1>1, <1>4, UEComesAppend DEF UEInv, UETypes, UETypesOfCloud
<1>6. UEOpen' = UEOpen
  BY <1>1 DEF UEOpen
<1>7. UETypes' /\ UEStages'
  <2>1. UETypesOfSub'
    BY <1>1 DEF UEInv, UETypes, UETypesOfSub
  <2> QED
    BY <1>1, <1>2, <1>5, <2>1 DEF UEInv, UETypes, UETypesOfStore, UETypesOfCloud, UEStages
<1> SUFFICES ASSUME ~cleared PROVE UEDelivery'
  BY <1>1, <1>7 DEF UEInv
<1>8. UEAppManagerInOrder'
  BY <1>1, <1>2, UEAppManagerKeeps DEF UEAppManagerStays, UEInv, UEDelivery
<1>9. UEAllWritten'
  BY <1>1, <1>2, <1>5 DEF UEInv, UEDelivery, UEAllWritten, UEWireIsWritten, UEQueueIsWritten,
     UEMissedIsWritten, UESeenIsWritten, UEFromIsWritten
<1>10. UENothingSkipped'
  BY <1>1, <1>2, <1>6, UENothingSkippedStays DEF UENumbersStay, UEInv, UEDelivery
<1>11. UEInOrder'
  <2>1. UEQueueInOrder'
    BY <1>1, <1>6 DEF UEInOrder, UEQueueInOrder, UEInv, UEDelivery
  <2>2. UEWireInOrder'
    <3> SUFFICES ASSUME NEW m \in UEOpen PROVE UELeads(wire', m, UEComes(queue, m))
      BY <1>1, <1>6 DEF UEWireInOrder
    <3>1. UELeads(wire, m, UEComes(queue, m)) /\ UEComes(queue, m) \in BOOLEAN
      BY DEF UEInv, UEDelivery, UEInOrder, UEWireInOrder, UEComes
    <3>2. m \in UE!Event
      BY DEF UEOpen, UEInv, UETypes, UETypesOfStore
    <3>3. m < n => UEComes(queue, m) \/ UEComes(wire, m)
      BY <1>1, <1>3, <3>2 DEF UEInv, UEDelivery, UEInOrder, UEMissedInOrder
    <3> QED
      BY <1>1, <1>4, <3>1, <3>3, UELeadsAppend DEF UEInv, UETypes, UETypesOfCloud
  <2>3. UEMissedInOrder'
    BY <1>1, <1>2, <1>5, <1>6 DEF UEInOrder, UEMissedInOrder, UEInv, UEDelivery
  <2> QED
    BY <2>1, <2>2, <2>3 DEF UEInOrder
<1>12. UEOpenIsUnderWay'
  BY <1>1, <1>2, <1>5, <1>6 DEF UEInv, UEDelivery, UEOpenIsUnderWay, UEIsUnderWay
<1> QED
  BY <1>8, <1>9, <1>10, <1>11, <1>12 DEF UEDelivery

(* A replay ends when it has nothing to send, or what it has to send counts as excused. *)
LEMMA UEReplayStops ==
  ASSUME UEInv, sub.replay \in {"sending", "waiting"},
         sub' = [sub EXCEPT !.replay = "no", !.finished = TRUE, !.missed = {}],
         excused' = excused \cup sub.missed,
         UNCHANGED <<last, root, database, storing, stored, wire, registered, seen, saved,
                     queue, processed, since, written, cleared>>
  PROVE  UEInv'
<1>1. /\ UNCHANGED <<sub.on, sub.from, sub.queue>> /\ sub'.finished = TRUE
      /\ sub'.replay = "no" /\ sub'.missed = {}
  BY DEF UEInv, UETypes, UETypesOfSub
<1>2. UEOpen' \subseteq UEOpen /\ \A m \in sub.missed : m \notin UEOpen'
  BY DEF UEOpen
<1>3. UETypes' /\ UEStages'
  <2>1. UETypesOfSub'
    BY DEF UEInv, UETypes, UETypesOfSub
  <2> QED
    BY <1>1, <2>1 DEF UEInv, UETypes, UETypesOfStore, UETypesOfCloud, UEStages
<1> SUFFICES ASSUME ~cleared PROVE UEDelivery'
  BY <1>3 DEF UEInv
<1>4. UEAppManagerInOrder'
  BY <1>1, UEAppManagerKeeps DEF UEAppManagerStays, UEInv, UEDelivery
<1>5. UEAllWritten'
  BY <1>1 DEF UEInv, UEDelivery, UEAllWritten, UEWireIsWritten, UEQueueIsWritten,
     UEMissedIsWritten, UESeenIsWritten, UEFromIsWritten
<1>6. UENothingSkipped'
  BY <1>1, <1>2, UENothingSkippedStays DEF UENumbersStay, UEInv, UEDelivery
<1>7. UEInOrder'
  BY <1>1, <1>2 DEF UEInOrder, UEQueueInOrder, UEWireInOrder, UEMissedInOrder, UEInv, UEDelivery
<1>8. UEOpenIsUnderWay'
  BY <1>1, <1>2 DEF UEInv, UEDelivery, UEOpenIsUnderWay, UEIsUnderWay
<1> QED
  BY <1>4, <1>5, <1>6, <1>7, <1>8 DEF UEDelivery

LEMMA UEReplayEndsStep ==
  ASSUME UEInv, UE!ReplayEnds
  PROVE  UEInv'
<1>1. /\ sub' = [sub EXCEPT !.replay = "no", !.finished = TRUE, !.missed = {}]
      /\ excused' = excused \cup sub.missed
  BY DEF UE!ReplayEnds, UE!history, UEInv, UETypes, UETypesOfSub
<1>2. /\ sub.replay \in {"sending", "waiting"}
      /\ UNCHANGED <<last, root, database, storing, stored, wire, registered, seen, saved,
                     queue, processed, since, written, cleared>>
  BY DEF UE!ReplayEnds, UE!store, UE!cloud, UE!history
<1> QED
  BY <1>1, <1>2, UEReplayStops

LEMMA UEReplayFailsStep ==
  ASSUME UEInv, UE!ReplayFails
  PROVE  UEInv'
<1>1. /\ sub.replay \in {"sending", "waiting"}
      /\ sub' = [sub EXCEPT !.replay = "no", !.finished = TRUE, !.missed = {}]
      /\ excused' = excused \cup sub.missed
      /\ UNCHANGED <<last, root, database, storing, stored, wire, registered, seen, saved,
                     queue, processed, since, written, cleared>>
  BY DEF UE!ReplayFails, UE!store, UE!cloud
<1> QED
  BY <1>1, UEReplayStops

(* The oldest event that waited for the replay is sent after it. *)
LEMMA UEQueuedSentStep ==
  ASSUME UEConstants, UEInv, UE!QueuedSent
  PROVE  UEInv'
<1>1. /\ sub.replay = "no" /\ sub.queue # <<>> /\ sub' = [sub EXCEPT !.queue = Tail(@)]
      /\ wire' = Append(wire, UE!Notification(Head(sub.queue), FALSE))
      /\ UNCHANGED <<last, root, database, storing, stored, registered, seen, saved,
                     queue, processed, excused, since, written, cleared>>
  BY DEF UE!QueuedSent, UE!store, UE!cloud, UE!history
<1>2. UE!Event \subseteq Nat /\ UE!Event = 1 .. UESize /\ UESize \in Nat
  BY UEEventNumbers
<1>3. PICK h : h = Head(sub.queue)
  OBVIOUS
<1>4. /\ UNCHANGED <<sub.on, sub.finished, sub.from, sub.replay, sub.missed>>
      /\ sub'.queue = Tail(sub.queue)
  BY <1>1 DEF UEInv, UETypes, UETypesOfSub
<1>5. sub.on /\ sub.finished /\ sub.missed = {}
  BY <1>1 DEF UEInv, UEStages
<1>6. /\ h \in UE!Event /\ sub'.queue \in Seq(UE!Event) /\ UEWaits(sub.queue, h)
      /\ \A n : UEWaits(sub.queue, n) <=> n = h \/ UEWaits(sub'.queue, n)
  BY <1>1, <1>3, <1>4, UEWaitsTail, UEFieldsOfSub DEF UEInv, UETypes
<1>7. UE!Notification(h, FALSE) \in UENotes /\ UE!Notification(h, FALSE).event = h
  BY <1>6 DEF UE!Notification, UENotes
<1>8. wire' \in Seq(UENotes) /\ \A m : UEComes(wire', m) <=> m = h \/ UEComes(wire, m)
  BY <1>1, <1>3, <1>7, UEComesAppend DEF UEInv, UETypes, UETypesOfCloud
<1>9. UEOpen' = UEOpen
  BY <1>1 DEF UEOpen
<1>10. UETypes' /\ UEStages'
  <2>1. UETypesOfSub'
    <3>1. PICK q \in Seq(UE!Event) : q = Tail(sub.queue)
      BY <1>4, <1>6
    <3>2. sub' = [sub EXCEPT !.queue = q]
      BY <1>1, <3>1 DEF UEInv, UETypes, UETypesOfSub
    <3> QED
      BY <3>2 DEF UEInv, UETypes, UETypesOfSub
  <2> QED
    BY <1>1, <1>4, <1>5, <1>8, <2>1 DEF UEInv, UETypes, UETypesOfStore, UETypesOfCloud, UEStages
<1> SUFFICES ASSUME ~cleared PROVE UEDelivery'
  BY <1>1, <1>10 DEF UEInv
<1>11. /\ UEIncreasing(sub'.queue) /\ (\A n : UEWaits(sub'.queue, n) => h < n) /\ h \in written
       /\ \A m \in UE!Event : UEWaits(stored, m) => h < m
  <2>1. sub.queue \in Seq(Nat) /\ UEIncreasing(sub.queue)
    <3>1. Seq(UE!Event) \subseteq Seq(Nat)
      BY <1>2
    <3> QED
      BY <3>1, UEFieldsOfSub DEF UEInv, UETypes, UEDelivery, UEAppManagerInOrder, UEQueueFollows
  <2> QED
    BY <1>1, <1>3, <1>4, <1>6, <2>1, UEIncreasingTail DEF UEInv, UEDelivery,
       UEAppManagerInOrder, UEQueueFollows
<1>12. UEAppManagerInOrder'
  BY <1>1, <1>4, <1>6, <1>11 DEF UEInv, UEDelivery, UEAppManagerInOrder, UENumbers,
     UEStoringFollows, UEStoredFollows, UEQueueFollows
<1>13. UEAllWritten'
  BY <1>1, <1>4, <1>8, <1>11 DEF UEInv, UEDelivery, UEAllWritten, UEWireIsWritten,
     UEQueueIsWritten, UEMissedIsWritten, UESeenIsWritten, UEFromIsWritten
<1>14. UENothingSkipped'
  BY <1>1, <1>4, <1>9, UENothingSkippedStays DEF UENumbersStay, UEInv, UEDelivery
<1>15. UEInOrder'
  <2>1. UEQueueInOrder' /\ UEMissedInOrder'
    BY <1>1, <1>4, <1>8, <1>9 DEF UEInOrder, UEQueueInOrder, UEMissedInOrder, UEInv, UEDelivery
  <2>2. UEWireInOrder'
    <3> SUFFICES ASSUME NEW m \in UEOpen PROVE UELeads(wire', m, UEComes(queue, m))
      BY <1>1, <1>9 DEF UEWireInOrder
    <3>1. UELeads(wire, m, UEComes(queue, m)) /\ UEComes(queue, m) \in BOOLEAN
      BY DEF UEInv, UEDelivery, UEInOrder, UEWireInOrder, UEComes
    <3>2. m \in UE!Event /\ UEIsUnderWay(m)
      BY <1>5 DEF UEOpen, UEInv, UETypes, UETypesOfStore, UEDelivery, UEOpenIsUnderWay
    <3>3. ASSUME m < h PROVE UEComes(queue, m) \/ UEComes(wire, m)
      <4>1. ~UEWaits(sub.queue, m)
        BY <1>2, <1>6, <1>11, <3>2, <3>3
      <4>2. ~UEWaits(stored, m)
        BY <1>2, <1>6, <1>11, <3>2, <3>3
      <4> QED
        BY <1>1, <1>5, <3>2, <4>1, <4>2 DEF UEIsUnderWay
    <3> QED
      BY <1>1, <1>3, <1>7, <3>1, <3>3, UELeadsAppend DEF UEInv, UETypes, UETypesOfCloud
  <2> QED
    BY <2>1, <2>2 DEF UEInOrder
<1>16. UEOpenIsUnderWay'
  BY <1>1, <1>4, <1>6, <1>8, <1>9 DEF UEInv, UEDelivery, UEOpenIsUnderWay, UEIsUnderWay
<1> QED
  BY <1>12, <1>13, <1>14, <1>15, <1>16 DEF UEDelivery

LEMMA UEReceiveStep ==
  ASSUME UEConstants, UEInv, UE!Receive
  PROVE  UEInv'
<1>1. /\ wire # <<>> /\ wire' = Tail(wire) /\ queue' = Append(queue, Head(wire))
      /\ UNCHANGED <<last, root, database, storing, stored, sub, registered, seen, saved,
                     processed, excused, since, written, cleared>>
  BY DEF UE!Receive, UE!store, UE!history
<1>2. PICK x : x = Head(wire)
  OBVIOUS
<1>3. /\ x \in UENotes /\ wire' \in Seq(UENotes)
      /\ \A n : UEComes(wire, n) <=> n = x.event \/ UEComes(wire', n)
  BY <1>1, <1>2, UEComesTail DEF UEInv, UETypes, UETypesOfCloud
<1>4. queue' \in Seq(UENotes) /\ \A n : UEComes(queue', n) <=> n = x.event \/ UEComes(queue, n)
  BY <1>1, <1>2, <1>3, UEComesAppend DEF UEInv, UETypes, UETypesOfCloud
<1>5. UEOpen' = UEOpen
  BY <1>1 DEF UEOpen
<1>6. UETypes' /\ UEStages'
  BY <1>1, <1>3, <1>4 DEF UEInv, UETypes, UETypesOfStore, UETypesOfCloud, UETypesOfSub, UEStages
<1> SUFFICES ASSUME ~cleared PROVE UEDelivery'
  BY <1>1, <1>6 DEF UEInv
<1>7. UEAppManagerInOrder'
  BY <1>1, UEAppManagerKeeps DEF UEAppManagerStays, UEInv, UEDelivery
<1>8. UEAllWritten'
  BY <1>1, <1>3, <1>4 DEF UEInv, UEDelivery, UEAllWritten, UEWireIsWritten, UEQueueIsWritten,
     UEMissedIsWritten, UESeenIsWritten, UEFromIsWritten
<1>9. UENothingSkipped'
  BY <1>1, <1>5, UENothingSkippedStays DEF UENumbersStay, UEInv, UEDelivery
<1>10. UEQueueInOrder'
  <2> SUFFICES ASSUME NEW m \in UEOpen PROVE UELeads(queue', m, FALSE)
    BY <1>1, <1>5 DEF UEQueueInOrder
  <2>1. UELeads(queue, m, FALSE) /\ UELeads(wire, m, UEComes(queue, m))
    BY DEF UEInv, UEDelivery, UEInOrder, UEQueueInOrder, UEWireInOrder
  <2>2. m < x.event => UEComes(queue, m)
    <3>1. 1 \in 1 .. Len(wire) /\ x = wire[1]
      BY <1>1, <1>2 DEF UEInv, UETypes, UETypesOfCloud
    <3>2. m < x.event => UEComes(queue, m) \/ \E k \in 1 .. 1 - 1 : wire[k].event = m
      BY <2>1, <3>1 DEF UELeads
    <3> QED
      BY <3>2
  <2> QED
    BY <1>1, <1>2, <1>3, <2>1, <2>2, UELeadsAppend DEF UEInv, UETypes, UETypesOfCloud
<1>11. UEWireInOrder'
  <2> SUFFICES ASSUME NEW m \in UEOpen PROVE UELeads(wire', m, UEComes(queue', m))
    BY <1>1, <1>5 DEF UEWireInOrder
  <2>1. UELeads(wire, m, UEComes(queue, m)) /\ UEComes(queue, m) \in BOOLEAN
          /\ UEComes(queue', m) \in BOOLEAN
    BY DEF UEInv, UEDelivery, UEInOrder, UEWireInOrder, UEComes
  <2>2. UELeads(wire', m, UEComes(queue, m) \/ x.event = m)
    BY <1>1, <1>2, <2>1, UELeadsTail DEF UEInv, UETypes, UETypesOfCloud
  <2>3. UEComes(queue, m) \/ x.event = m => UEComes(queue', m)
    BY <1>4
  <2>4. (UEComes(queue, m) \/ x.event = m) \in BOOLEAN
    OBVIOUS
  <2> QED
    BY <2>1, <2>2, <2>3, <2>4, UELeadsMore
<1>12. UEMissedInOrder'
  BY <1>1, <1>3, <1>4, <1>5 DEF UEInv, UEDelivery, UEInOrder, UEMissedInOrder
<1>13. UEOpenIsUnderWay'
  BY <1>1, <1>3, <1>4, <1>5 DEF UEInv, UEDelivery, UEOpenIsUnderWay, UEIsUnderWay
<1> QED
  BY <1>7, <1>8, <1>9, <1>10, <1>11, <1>12, <1>13 DEF UEDelivery, UEInOrder

(* The CloudManager takes the oldest notification: no open event is below it, and its own
   is not open any more. *)
LEMMA UEHeardOf ==
  ASSUME UEConstants, UEInv, NEW x, x = Head(queue), queue # <<>>, queue' = Tail(queue),
         seen' = IF registered THEN x.event ELSE seen,
         saved' = saved \/ saved' = (IF registered THEN x.event ELSE saved),
         processed \subseteq processed', excused \subseteq excused',
         x.event \in processed' \cup excused',
         UNCHANGED <<sub.on, sub.from, sub.queue>>,
         sub'.missed = sub.missed \/ (sub'.missed = {} /\ sub.missed \subseteq excused'),
         sub.replay = "reading" => sub'.replay = "reading",
         UETypesOfSub', UEStages',
         UNCHANGED <<last, root, database, storing, stored, wire, registered, since, written,
                     cleared>>
  PROVE  UEInv'
<1>1. UE!Event \subseteq Nat /\ UE!Event = 1 .. UESize /\ UESize \in Nat
  BY UEEventNumbers
<1>2. /\ x \in UENotes /\ queue' \in Seq(UENotes) /\ UEComes(queue, x.event)
      /\ \A n : UEComes(queue, n) <=> n = x.event \/ UEComes(queue', n)
  BY UEComesTail DEF UEInv, UETypes, UETypesOfCloud
<1>3. x.event \in UE!Event
  BY <1>2 DEF UENotes
<1>4. UEOpen' \subseteq UEOpen /\ x.event \notin UEOpen'
        /\ (sub'.missed = sub.missed \/ sub.missed \cap UEOpen' = {})
  BY DEF UEOpen
<1>5. UETypes'
  <2>1. seen' \in 0 .. UESize + 1 /\ saved' \in 0 .. UESize + 1
    BY <1>1, <1>3 DEF UEInv, UETypes, UETypesOfCloud
  <2> QED
    BY <1>2, <2>1 DEF UEInv, UETypes, UETypesOfStore, UETypesOfCloud
<1> SUFFICES ASSUME ~cleared PROVE UEDelivery'
  BY <1>5 DEF UEInv
<1>6. UEAppManagerInOrder'
  BY UEAppManagerKeeps DEF UEAppManagerStays, UEInv, UEDelivery
<1>7. UEAllWritten'
  BY <1>2, <1>3 DEF UEInv, UEDelivery, UEAllWritten, UEWireIsWritten, UEQueueIsWritten,
     UEMissedIsWritten, UESeenIsWritten, UEFromIsWritten
<1>8. \A m \in UEOpen' : x.event < m
  <2> SUFFICES ASSUME NEW m \in UEOpen' PROVE ~(m < x.event)
    <3>1. \A m \in UEOpen' : m \in UE!Event /\ m # x.event
      BY <1>4 DEF UEOpen, UEInv, UETypes, UETypesOfStore
    <3> QED
      BY <1>1, <1>3, <3>1
  <2>1. UELeads(queue, m, FALSE)
    BY <1>4 DEF UEInv, UEDelivery, UEInOrder, UEQueueInOrder
  <2>2. 1 \in 1 .. Len(queue) /\ x = queue[1]
    BY DEF UEInv, UETypes, UETypesOfCloud
  <2>3. m < x.event => \E k \in 1 .. 1 - 1 : queue[k].event = m
    BY <2>1, <2>2 DEF UELeads
  <2> QED
    BY <2>3
<1>9. UENothingSkipped'
  <2>1. \A k : UEKept(k) => (k # UESize + 1 => \A m \in UEOpen' : k < m)
    BY <1>4 DEF UEKept
  <2> QED
    BY <1>8, <2>1 DEF UEInv, UEDelivery, UENothingSkipped, UESavedIsKept, UESeenIsKept,
       UEFromIsKept, UEKept
<1>10. UEQueueInOrder'
  <2> SUFFICES ASSUME NEW m \in UEOpen' PROVE UELeads(queue', m, FALSE)
    BY DEF UEQueueInOrder
  <2>1. UELeads(queue, m, FALSE)
    BY <1>4 DEF UEInv, UEDelivery, UEInOrder, UEQueueInOrder
  <2>2. UELeads(queue', m, FALSE \/ x.event = m)
    BY <2>1, UELeadsTail DEF UEInv, UETypes, UETypesOfCloud
  <2>3. (FALSE \/ x.event = m) = FALSE
    BY <1>4
  <2> QED
    BY <2>2, <2>3
<1>11. \A m \in UEOpen' : UEComes(queue', m) = UEComes(queue, m)
  <2>1. \A m : UEComes(queue', m) \in BOOLEAN /\ UEComes(queue, m) \in BOOLEAN
    BY DEF UEComes
  <2> QED
    BY <1>2, <1>4, <2>1
<1>12. UEWireInOrder'
  BY <1>4, <1>11 DEF UEInv, UEDelivery, UEInOrder, UEWireInOrder
<1>13. UEMissedInOrder'
  BY <1>4, <1>11 DEF UEInv, UEDelivery, UEInOrder, UEMissedInOrder
<1>14. UEOpenIsUnderWay'
  BY <1>4, <1>11 DEF UEInv, UEDelivery, UEOpenIsUnderWay, UEIsUnderWay
<1> QED
  BY <1>6, <1>7, <1>9, <1>10, <1>12, <1>13, <1>14 DEF UEDelivery, UEInOrder

LEMMA UEProcessStep ==
  ASSUME UEConstants, UEInv, UE!Process
  PROVE  UEInv'
<1>1. PICK x : x = Head(queue)
  OBVIOUS
<1>2. /\ queue # <<>> /\ queue' = Tail(queue)
      /\ seen' = (IF registered THEN x.event ELSE seen)
      /\ saved' = (IF registered THEN x.event ELSE saved)
      /\ processed' = processed \cup {x.event} /\ UE!Answered(x)
      /\ UNCHANGED <<last, root, database, storing, stored, wire, registered, since, written,
                     cleared,
                     excused>>
  BY <1>1 DEF UE!Process, UE!Turn, UE!store
<1>3. sub' = sub \/ (sub.replay = "waiting" /\ sub' = [sub EXCEPT !.replay = "sending"])
  BY <1>2 DEF UE!Answered
<1>4. UNCHANGED <<sub.on, sub.from, sub.queue, sub.missed, sub.finished>>
  BY <1>3 DEF UEInv, UETypes, UETypesOfSub
<1>5. sub'.replay = sub.replay \/ (sub.replay = "waiting" /\ sub'.replay = "sending")
  BY <1>3 DEF UEInv, UETypes, UETypesOfSub
<1>6. UETypesOfSub'
  BY <1>3 DEF UEInv, UETypes, UETypesOfSub
<1>7. UEStages'
  BY <1>4, <1>5 DEF UEInv, UEStages
<1> QED
  BY <1>1, <1>2, <1>4, <1>5, <1>6, <1>7, UEHeardOf

LEMMA UEWriteFailsStep ==
  ASSUME UEConstants, UEInv, UE!WriteFails
  PROVE  UEInv'
<1>1. PICK x : x = Head(queue)
  OBVIOUS
<1>2. /\ queue # <<>> /\ queue' = Tail(queue)
      /\ seen' = (IF registered THEN x.event ELSE seen)
      /\ UNCHANGED <<last, root, database, storing, stored, wire, registered, since, written,
                     cleared,
                     processed, saved>>
  BY <1>1 DEF UE!WriteFails, UE!Turn, UE!store
<1>3. CASE x.replayed /\ sub.replay = "waiting"
  <2>1. /\ sub' = [sub EXCEPT !.replay = "no", !.finished = TRUE, !.missed = {}]
        /\ excused' = excused \cup {x.event} \cup sub.missed
    BY <1>1, <1>3 DEF UE!WriteFails
  <2>2. /\ UNCHANGED <<sub.on, sub.from, sub.queue>> /\ sub'.missed = {} /\ sub'.finished = TRUE
        /\ sub'.replay = "no"
    BY <2>1 DEF UEInv, UETypes, UETypesOfSub
  <2>3. UETypesOfSub'
    BY <2>1 DEF UEInv, UETypes, UETypesOfSub
  <2>4. UEStages'
    BY <1>3, <2>2 DEF UEInv, UEStages
  <2>5. x.event \in processed' \cup excused' /\ excused \subseteq excused'
          /\ sub.missed \subseteq excused'
    BY <2>1
  <2> QED
    BY <1>1, <1>2, <1>3, <2>2, <2>3, <2>4, <2>5, UEHeardOf
<1>4. CASE ~(x.replayed /\ sub.replay = "waiting")
  <2>1. sub' = sub /\ excused' = excused \cup {x.event}
    BY <1>1, <1>4 DEF UE!WriteFails
  <2>2. UETypesOfSub' /\ UEStages'
    BY <2>1 DEF UEInv, UETypes, UETypesOfSub, UEStages
  <2> QED
    BY <1>1, <1>2, <2>1, <2>2, UEHeardOf
<1> QED
  BY <1>3, <1>4

(* Without a subscription nothing has to be on its way. *)
LEMMA UENoSubscriptionFields ==
  /\ UE!NoSubscription.on = FALSE /\ UE!NoSubscription.finished = FALSE
       /\ UE!NoSubscription.replay = "no"
  /\ UE!NoSubscription.missed = {} /\ UE!NoSubscription.queue = <<>>
       /\ UE!NoSubscription.from = UE!Never
BY DEF UE!NoSubscription
LEMMA UESubscriptionEnds ==
  ASSUME UEConstants, UEInv, sub' = UE!NoSubscription, wire' = <<>>,
         UNCHANGED <<saved, processed, excused, since, written, cleared>>,
         \/ seen' = seen /\ registered' = registered
         \/ registered' = FALSE /\ seen' = UE!Never,
         queue' \in {queue, <<>>},
         UETypesOfStore', ~cleared => UEAppManagerInOrder'
  PROVE  UEInv'
<1>1. UE!Never = UESize + 1 /\ UESize \in Nat
  BY UEEventNumbers
<1>2. UEOpen' = UEOpen
  BY DEF UEOpen
<1>3. UETypes' /\ UEStages'
  <2>1. UETypesOfCloud'
    <3>1. <<>> \in Seq(UENotes)
      BY UENothingWaits
    <3>2. seen' \in 0 .. UESize + 1
      BY <1>1 DEF UEInv, UETypes, UETypesOfCloud
    <3> QED
      BY <3>1, <3>2 DEF UEInv, UETypes, UETypesOfCloud
  <2>2. UETypesOfSub'
    <3>1. <<>> \in Seq(UE!Event)
      BY UENothingWaits
    <3> QED
      BY <1>1, <3>1 DEF UETypesOfSub, UE!NoSubscription
  <2>3. UEStages'
    BY UENoSubscriptionFields DEF UEStages
  <2> QED
    BY <2>1, <2>2, <2>3 DEF UETypes
<1> SUFFICES ASSUME ~cleared PROVE UEDelivery'
  BY <1>3 DEF UEInv
<1>4. UEAllWritten'
  BY <1>1, UENothingWaits, UENoSubscriptionFields DEF UEInv, UEDelivery, UEAllWritten,
     UEWireIsWritten, UEQueueIsWritten, UEMissedIsWritten, UESeenIsWritten, UEFromIsWritten
<1>5. UENothingSkipped'
  BY <1>2, UENoSubscriptionFields DEF UEInv, UEDelivery, UENothingSkipped, UESavedIsKept,
     UESeenIsKept, UEFromIsKept, UEKept
<1>6. UEInOrder'
  BY <1>2, UENothingWaits, UENoSubscriptionFields DEF UEInv, UEDelivery, UEInOrder,
     UEQueueInOrder, UEWireInOrder, UEMissedInOrder
<1>7. UEOpenIsUnderWay'
  BY UENoSubscriptionFields DEF UEOpenIsUnderWay
<1> QED
  BY <1>4, <1>5, <1>6, <1>7 DEF UEDelivery

LEMMA UEDisconnectStep ==
  ASSUME UEConstants, UEInv, UE!Disconnect
  PROVE  UEInv'
<1>1. /\ sub' = UE!NoSubscription /\ wire' = <<>>
      /\ UNCHANGED <<last, root, database, storing, stored, written, cleared, registered, seen,
                     saved,
                     queue, processed, excused, since>>
  BY DEF UE!Disconnect, UE!store, UE!cloud, UE!history
<1>2. UETypesOfStore'
  BY <1>1 DEF UEInv, UETypes, UETypesOfStore
<1>3. ~cleared => UEAppManagerInOrder'
  BY <1>1, UEAppManagerKeeps, UENoSubscriptionFields DEF UEAppManagerStays, UEInv, UEDelivery
<1> QED
  BY <1>1, <1>2, <1>3, UESubscriptionEnds

LEMMA UERestartCloudManagerStep ==
  ASSUME UEConstants, UEInv, UE!RestartCloudManager
  PROVE  UEInv'
<1>1. /\ sub' = UE!NoSubscription /\ wire' = <<>> /\ registered' = FALSE /\ seen' = UE!Never
           /\ queue' = <<>>
      /\ UNCHANGED <<last, root, database, storing, stored, written, cleared, saved,
                     processed, excused, since>>
  BY DEF UE!RestartCloudManager, UE!store, UE!history
<1>2. UETypesOfStore'
  BY <1>1 DEF UEInv, UETypes, UETypesOfStore
<1>3. ~cleared => UEAppManagerInOrder'
  BY <1>1, UEAppManagerKeeps, UENoSubscriptionFields DEF UEAppManagerStays, UEInv, UEDelivery
<1> QED
  BY <1>1, <1>2, <1>3, UESubscriptionEnds

(* The AppManager starts from the highest number it has stored. *)
LEMMA UERestartAppManagerStep ==
  ASSUME UEConstants, UEInv, UE!RestartAppManager
  PROVE  UEInv'
<1>1. /\ storing' = <<>> /\ stored' = <<>> /\ sub' = UE!NoSubscription /\ wire' = <<>>
      /\ last' \in database \cup {root} /\ \A k \in database \cup {root} : k <= last'
      /\ UNCHANGED <<root, database, written, cleared, registered, seen, saved,
                     queue, processed, excused, since>>
  BY DEF UE!RestartAppManager, UE!cloud, UE!history
<1>2. UE!Event \subseteq Nat /\ UE!Event = 1 .. UESize /\ UESize \in Nat
  BY UEEventNumbers
<1>3. UETypesOfStore'
  BY <1>1, <1>2, UENothingWaits DEF UEInv, UETypes, UETypesOfStore
<1>4. ASSUME ~cleared PROVE UEAppManagerInOrder'
  <2>1. UENumbers'
    <3>1. root <= last'
      BY <1>1
    <3>2. ASSUME NEW n \in written PROVE n <= last'
      <4>1. n \in Nat /\ root \in Nat /\ last' \in Nat
        BY <1>2, <1>3, <3>2 DEF UEInv, UETypes, UETypesOfStore
      <4>2. n \in database \/ n <= root
        BY <1>4, <3>2 DEF UEInv, UEDelivery, UEAppManagerInOrder, UENumbers
      <4> QED
        BY <1>1, <3>1, <4>1, <4>2
    <3> QED
      BY <1>1, <1>4, <3>1, <3>2 DEF UEInv, UEDelivery, UEAppManagerInOrder, UENumbers
  <2>2. UEStoringFollows' /\ UEStoredFollows' /\ UEQueueFollows'
    BY <1>1, UENothingWaits, UENoSubscriptionFields DEF UEStoringFollows, UEStoredFollows,
       UEQueueFollows
  <2> QED
    BY <2>1, <2>2 DEF UEAppManagerInOrder
<1> QED
  BY <1>1, <1>3, <1>4, UESubscriptionEnds

LEMMA UEUnregisterStep ==
  ASSUME UEConstants, UEInv, UE!Unregister
  PROVE  UEInv'
<1>1. /\ ~sub.on /\ registered /\ registered' = FALSE /\ saved' = seen
      /\ UNCHANGED <<last, root, database, storing, stored, sub, wire, seen, queue, processed,
                     excused,
                     since, written, cleared>>
  BY DEF UE!Unregister, UE!store, UE!history
<1>2. UEOpen' = UEOpen
  BY <1>1 DEF UEOpen
<1>3. UETypes' /\ UEStages'
  BY <1>1 DEF UEInv, UETypes, UETypesOfStore, UETypesOfCloud, UETypesOfSub, UEStages
<1> SUFFICES ASSUME ~cleared PROVE UEDelivery'
  BY <1>1, <1>3 DEF UEInv
<1>4. UEAppManagerInOrder'
  BY <1>1, UEAppManagerKeeps DEF UEAppManagerStays, UEInv, UEDelivery
<1>5. UEAllWritten'
  BY <1>1 DEF UEInv, UEDelivery, UEAllWritten, UEWireIsWritten, UEQueueIsWritten,
     UEMissedIsWritten, UESeenIsWritten, UEFromIsWritten
<1>6. UENothingSkipped'
  BY <1>1, <1>2 DEF UEInv, UEDelivery, UENothingSkipped, UESavedIsKept, UESeenIsKept,
     UEFromIsKept, UEKept
<1>7. UEInOrder'
  BY <1>1, <1>2 DEF UEInv, UEDelivery, UEInOrder, UEQueueInOrder, UEWireInOrder, UEMissedInOrder
<1>8. UEOpenIsUnderWay'
  BY <1>1, <1>2 DEF UEInv, UEDelivery, UEOpenIsUnderWay, UEIsUnderWay
<1> QED
  BY <1>4, <1>5, <1>6, <1>7, <1>8 DEF UEDelivery

(* What is cleaned away is not open any more, and the last number stays known. *)
LEMMA UECleanupStep ==
  ASSUME UEConstants, UEInv, UE!Cleanup
  PROVE  UEInv'
<1>1. /\ root' = last
      /\ UNCHANGED <<last, storing, stored, sub, wire, registered, seen, saved, queue, processed,
                     since, written, cleared>>
  BY DEF UE!Cleanup, UE!cloud
<1>2. PICK k \in database : /\ database' = {n \in database : n > k}
                            /\ excused' = excused \cup {n \in database : n <= k}
  BY DEF UE!Cleanup
<1>3. UE!Event \subseteq Nat
  BY UEEventNumbers
<1>4. \A n \in database : n \in database' \/ n \in excused'
  BY <1>2, <1>3 DEF UEInv, UETypes, UETypesOfStore
<1>5. UEOpen' \subseteq UEOpen
  BY <1>1, <1>2, UEOpenLess
<1>6. UETypes' /\ UEStages'
  BY <1>1, <1>2 DEF UEInv, UETypes, UETypesOfStore, UETypesOfCloud, UETypesOfSub, UEStages
<1> SUFFICES ASSUME ~cleared PROVE UEDelivery'
  BY <1>1, <1>6 DEF UEInv
<1>7. UEAppManagerInOrder'
  <2>1. UENumbers'
    BY <1>1, <1>2, <1>4 DEF UEInv, UETypes, UETypesOfStore, UEDelivery, UEAppManagerInOrder,
       UENumbers
  <2> QED
    BY <1>1, <2>1 DEF UEInv, UEDelivery, UEAppManagerInOrder, UEStoringFollows, UEStoredFollows,
       UEQueueFollows
<1>8. UEAllWritten'
  BY <1>1 DEF UEInv, UEDelivery, UEAllWritten, UEWireIsWritten, UEQueueIsWritten,
     UEMissedIsWritten, UESeenIsWritten, UEFromIsWritten
<1>9. UENothingSkipped'
  BY <1>1, <1>5, UENothingSkippedStays DEF UENumbersStay, UEInv, UEDelivery
<1>10. UEInOrder'
  BY <1>1, <1>5 DEF UEInv, UEDelivery, UEInOrder, UEQueueInOrder, UEWireInOrder, UEMissedInOrder
<1>11. UEOpenIsUnderWay'
  BY <1>1, <1>5 DEF UEInv, UEDelivery, UEOpenIsUnderWay, UEIsUnderWay
<1> QED
  BY <1>7, <1>8, <1>9, <1>10, <1>11 DEF UEDelivery

LEMMA UEClearStep ==
  ASSUME UEInv, UE!Clear
  PROVE  UEInv'
<1>1. /\ database' = {} /\ cleared' = TRUE
      /\ UNCHANGED <<last, root, storing, stored, written, sub, wire, registered, seen, saved,
                     queue>>
  BY DEF UE!Clear, UE!cloud
<1> QED
  BY <1>1 DEF UEInv, UETypes, UETypesOfStore, UETypesOfCloud, UETypesOfSub, UEStages

LEMMA UEInitHolds == UEConstants /\ UE!Init => UEInv
<1> SUFFICES ASSUME UEConstants, UE!Init PROVE UEInv
  OBVIOUS
<1>1. /\ last = 0 /\ root = 0 /\ database = {} /\ storing = <<>> /\ stored = <<>> /\ written = {}
      /\ sub = UE!NoSubscription /\ wire = <<>> /\ registered = FALSE /\ seen = UE!Never
           /\ saved = UE!Never
      /\ queue = <<>>
  BY DEF UE!Init
<1>2. UE!Never = UESize + 1 /\ UESize \in Nat
  BY UEEventNumbers
<1>3. UETypes
  <2>1. UETypesOfStore /\ UETypesOfCloud
    BY <1>1, <1>2, UENothingWaits DEF UETypesOfStore, UETypesOfCloud
  <2>2. <<>> \in Seq(UE!Event)
    BY UENothingWaits
  <2>3. UETypesOfSub
    BY <1>1, <1>2, <2>2 DEF UETypesOfSub, UE!NoSubscription
  <2> QED
    BY <2>1, <2>3 DEF UETypes
<1>4. UEStages
  BY <1>1, UENoSubscriptionFields DEF UEStages
<1>5. UEOpen = {}
  BY <1>1 DEF UEOpen
<1>6. UEAppManagerInOrder
  BY <1>1, UENothingWaits, UENoSubscriptionFields DEF UEAppManagerInOrder, UENumbers,
     UEStoringFollows, UEStoredFollows, UEQueueFollows
<1>7. UEAllWritten
  BY <1>1, <1>2, UENothingWaits, UENoSubscriptionFields DEF UEAllWritten, UEWireIsWritten,
     UEQueueIsWritten, UEMissedIsWritten, UESeenIsWritten, UEFromIsWritten
<1>8. UENothingSkipped
  BY <1>5 DEF UENothingSkipped, UESavedIsKept, UESeenIsKept, UEFromIsKept, UEKept
<1>9. UEInOrder
  BY <1>5 DEF UEInOrder, UEQueueInOrder, UEWireInOrder, UEMissedInOrder
<1>10. UEOpenIsUnderWay
  BY <1>5 DEF UEOpenIsUnderWay
<1> QED
  BY <1>3, <1>4, <1>6, <1>7, <1>8, <1>9, <1>10 DEF UEInv, UEDelivery

LEMMA UEStays == UEInv /\ UNCHANGED ueVars => UEInv'
BY UEReportsStep DEF ueVars

LEMMA UENextHolds ==
  ASSUME UEConstants, UEInv, UE!Next
  PROVE  UEInv'
<1>1. CASE UE!NewEvent \/ UE!Stored \/ UE!StoreFails
  BY <1>1, UENewEventStep, UEStoredStep, UEStoreFailsStep
<1>2. CASE UE!SendEvent \/ UE!Register
  BY <1>2, UESendEventStep, UERegisterStep
<1>3. CASE UE!ReplayRead \/ UE!ReplaySend \/ UE!ReplayEnds \/ UE!ReplayFails
  BY <1>3, UEReplayReadStep, UEReplaySendStep, UEReplayEndsStep, UEReplayFailsStep
<1>4. CASE UE!QueuedSent \/ UE!Receive
  BY <1>4, UEQueuedSentStep, UEReceiveStep
<1>5. CASE UE!Process \/ UE!WriteFails
  BY <1>5, UEProcessStep, UEWriteFailsStep
<1>6. CASE UE!Disconnect \/ UE!Unregister \/ UE!RestartCloudManager \/ UE!RestartAppManager
  BY <1>6, UEDisconnectStep, UEUnregisterStep, UERestartCloudManagerStep,
     UERestartAppManagerStep
<1>7. CASE UE!Cleanup \/ UE!Clear
  BY <1>7, UECleanupStep, UEClearStep
<1>8. CASE UE!Flush \/ UE!TimerFires \/ UE!ReportDeferred \/ UE!ReportFails
  BY <1>8, UEReportsStep DEF UE!Flush, UE!TimerFires, UE!ReportDeferred, UE!ReportFails,
     UE!store, UE!history
<1> QED
  BY <1>1, <1>2, <1>3, <1>4, <1>5, <1>6, <1>7, <1>8 DEF UE!Next, UE!Progress

LEMMA UEHolds == UEConstants /\ UEInv => UE!NoEventLost /\ UE!NumbersAreNotReused
<1> SUFFICES ASSUME UEConstants, UEInv, ~cleared PROVE UE!NoEventLost /\ UE!NumbersAreNotReused
  BY DEF UE!NoEventLost, UE!NumbersAreNotReused
<1>1. UE!Never = UESize + 1 /\ UESize \in Nat /\ UE!Event = 1 .. UESize
  BY UEEventNumbers
<1>2. UE!NumbersAreNotReused
  BY DEF UEInv, UEDelivery, UEAppManagerInOrder, UENumbers, UE!NumbersAreNotReused
<1>3. ASSUME saved # UE!Never, NEW n \in written \ since, n <= saved
      PROVE n \in processed \cup excused
  <2>1. n \in Nat /\ saved \in Nat
    BY <1>1 DEF UEInv, UETypes, UETypesOfStore, UETypesOfCloud
  <2>2. n \in UEOpen => saved < n
    BY <1>1, <1>3 DEF UEInv, UEDelivery, UENothingSkipped, UESavedIsKept, UEKept
  <2> QED
    BY <1>3, <2>1, <2>2 DEF UEOpen
<1> QED
  BY <1>2, <1>3 DEF UE!NoEventLost

(* A step of all together is one of UpdateEvents, when that is what runs, or leaves its
   variables alone. *)
LEMMA UEFrame ==
  ASSUME [Next]_vars, component' = "UpdateEvents"
  PROVE  component = "UpdateEvents" /\ (UE!Next \/ UNCHANGED ueVars)
<1>1. CASE Next
  BY <1>1 DEF Next
<1>2. CASE UNCHANGED vars
  BY <1>2 DEF vars
<1> QED
  BY <1>1, <1>2

(* So the parts of its invariant hold from the first state on. *)
LEMMA UEAlways == Spec => [](component = "UpdateEvents" => UEInv)
<1> DEFINE Inv == component = "UpdateEvents" => UEInv
<1>1. Init => Inv
  BY UEAssumption, UEInitHolds DEF Init
<1>2. Inv /\ [Next]_vars => Inv'
  BY UEAssumption, UEFrame, UENextHolds, UEStays
<1> QED
  BY <1>1, <1>2, PTL DEF Spec


-----------------------------------------------------------------------------
(* KnownHosts *)

(* The changes that tell whether a host runs an application of a key, or knows a host for
   it, and those that say yes. A first change tells everything. *)
KHAppTold(k) == {c \in KH!Change : c.initial \/ k \in c.update \/ k \in c.remove}
KHAppSaid(k) == {c \in KH!Change : k \in c.update /\ k \notin c.remove}
KHHostTold(k, x) == {c \in KH!Change : c.initial \/ x \in c.known[k]}
KHHostSaid(k, x) == {c \in KH!Change : x \in c.known[k]}

(* Of the changes s that are under way the last one that tells about e says whether it is
   in the set is; when none tells, the set was has it or has it not like the set is. *)
KHFollows(s, told, said, e, was, is) ==
  /\ (\A i \in 1 .. Len(s) : s[i] \notin told) => (e \in was <=> e \in is)
  /\ \A i \in 1 .. Len(s) :
       s[i] \in told /\ (\A j \in i + 1 .. Len(s) : s[j] \notin told)
       => (s[i] \in said <=> e \in is)

(* Changes that bring the hosts in fresh, and no others. *)
KHBrings(m, fresh) ==
  /\ \A i \in 1 .. Len(m) :
       ~m[i].initial /\ \A k \in Key : m[i].known[k] \subseteq fresh[k]
  /\ \A k \in Key : \A x \in fresh[k] : \E i \in 1 .. Len(m) : x \in m[i].known[k]

(* The subscription of h to g, unless g has forgotten it. *)
KHLive(h, g) == remote[h][g].actor /\ <<h, g>> \notin deaf

KHRemotes ==
  [actor : BOOLEAN, listener : BOOLEAN, initial : BOOLEAN, apps : SUBSET Key,
   known : [Key -> SUBSET Host]]
KHTypes ==
  /\ apps \in [Host -> SUBSET Key] /\ known \in [Host -> [Key -> SUBSET Host]]
  /\ remote \in [Host -> [Host -> KHRemotes]]
  /\ inbox \in [Host -> [Host -> Seq(KH!Change)]]
KHCalls ==
  \A c \in calls :
    \/ \E h, g \in Host : c = KH!Ends(h, g)
    \/ c.call = "remove" /\ c.at \in Host /\ c.host \in removed
KHEndsAreOver == \A h, g \in Host : KH!Ends(h, g) \in calls => ~remote[h][g].actor
KHLiveIsTold == \A h, g \in Host : KHLive(h, g) => remote[g][h].listener
KHAppsFollow ==
  \A h, g \in Host : KHLive(h, g) =>
    \A k \in Key :
      KHFollows(inbox[h][g], KHAppTold(k), KHAppSaid(k), k, remote[h][g].apps, apps[g])
KHKnownFollows ==
  \A h, g \in Host : KHLive(h, g) =>
    \A k \in Key : \A x \in Host \ removed :
      KHFollows(inbox[h][g], KHHostTold(k, x), KHHostSaid(k, x), x, remote[h][g].known[k],
              known[g][k])

KHInv == KHTypes /\ KHCalls /\ KHEndsAreOver /\ KHLiveIsTold /\ KHAppsFollow /\ KHKnownFollows

(* The first of the changes under way is handled. *)
LEMMA KHFollowsTail ==
  ASSUME NEW s \in Seq(KH!Change), s # <<>>, NEW told, NEW said, NEW e, NEW was, NEW is,
         NEW then, KHFollows(s, told, said, e, was, is),
         Head(s) \in told => (e \in then <=> Head(s) \in said),
         Head(s) \notin told => (e \in then <=> e \in was)
  PROVE  KHFollows(Tail(s), told, said, e, then, is)
<1>1. PICK n \in Nat : Len(s) = n + 1
  BY Len(s) \in Nat /\ Len(s) # 0
<1> DEFINE t == Tail(s)
<1>2. Len(t) = n /\ Head(s) = s[1] /\ \A i \in 1 .. n : t[i] = s[i + 1]
  BY <1>1
<1> HIDE DEF t
<1>3. ASSUME \A i \in 1 .. n : t[i] \notin told PROVE e \in then <=> e \in is
  <2>1. \A j \in 2 .. n + 1 : s[j] \notin told
    <3> TAKE j \in 2 .. n + 1
    <3>1. j - 1 \in 1 .. n /\ s[j] = t[j - 1]
      BY <1>1, <1>2
    <3> QED
      BY <3>1, <1>3
  <2>2. CASE s[1] \in told
    BY <1>1, <1>2, <2>1, <2>2 DEF KHFollows
  <2>3. CASE s[1] \notin told
    <3>1. \A j \in 1 .. n + 1 : s[j] \notin told
      BY <1>1, <2>1, <2>3
    <3> QED
      BY <1>1, <1>2, <3>1, <2>3 DEF KHFollows
  <2> QED
    BY <2>2, <2>3
<1>4. ASSUME NEW i \in 1 .. n, t[i] \in told, \A j \in i + 1 .. n : t[j] \notin told
      PROVE  t[i] \in said <=> e \in is
  <2>1. \A j \in i + 2 .. n + 1 : s[j] \notin told
    <3> TAKE j \in i + 2 .. n + 1
    <3>1. j - 1 \in i + 1 .. n /\ j - 1 \in 1 .. n /\ s[j] = t[j - 1]
      BY <1>1, <1>2
    <3> QED
      BY <3>1, <1>4
  <2>2. i + 1 \in 1 .. Len(s) /\ s[i + 1] = t[i] /\ (i + 1) + 1 = i + 2
    BY <1>1, <1>2
  <2> QED
    BY <1>1, <1>4, <2>1, <2>2 DEF KHFollows
<1> QED
  BY <1>2, <1>3, <1>4 DEF KHFollows, t

LEMMA KHConcatElements ==
  ASSUME NEW s \in Seq(KH!Change), NEW m \in Seq(KH!Change)
  PROVE  /\ s \o m \in Seq(KH!Change) /\ Len(s \o m) = Len(s) + Len(m)
         /\ \A i \in 1 .. Len(s) : (s \o m)[i] = s[i]
         /\ \A i \in 1 .. Len(m) : (s \o m)[Len(s) + i] = m[i]
OBVIOUS

(* Changes are added that do not tell about e. *)
LEMMA KHFollowsQuiet ==
  ASSUME NEW s \in Seq(KH!Change), NEW m \in Seq(KH!Change), NEW told, NEW said, NEW e, NEW was,
         NEW is, NEW becomes, KHFollows(s, told, said, e, was, is), e \in becomes <=> e \in is,
         \A i \in 1 .. Len(m) : m[i] \notin told
  PROVE  KHFollows(s \o m, told, said, e, was, becomes)
<1> DEFINE t == s \o m
           n == Len(s)
<1>1. n \in Nat /\ Len(m) \in Nat /\ Len(t) = n + Len(m)
  BY KHConcatElements
<1>2. \A i \in 1 .. n : t[i] = s[i]
  BY KHConcatElements
<1>3. \A i \in n + 1 .. Len(t) : t[i] \notin told
  <2> TAKE i \in n + 1 .. Len(t)
  <2>1. i - n \in 1 .. Len(m) /\ n + (i - n) = i
    BY <1>1
  <2>2. t[n + (i - n)] = m[i - n]
    BY <2>1, KHConcatElements
  <2> QED
    BY <2>1, <2>2
<1> HIDE DEF t, n
<1>4. ASSUME \A i \in 1 .. Len(t) : t[i] \notin told PROVE e \in was <=> e \in becomes
  BY <1>1, <1>2, <1>4 DEF KHFollows, n
<1>5. ASSUME NEW i \in 1 .. Len(t), t[i] \in told, \A j \in i + 1 .. Len(t) : t[j] \notin told
      PROVE  t[i] \in said <=> e \in becomes
  <2>1. i \in 1 .. n
    BY <1>1, <1>3, <1>5
  <2>2. \A j \in i + 1 .. n : s[j] \notin told
    BY <1>1, <1>2, <1>5, <2>1
  <2> QED
    BY <1>2, <1>5, <2>1, <2>2 DEF KHFollows, n
<1> QED
  BY <1>4, <1>5 DEF KHFollows, t

(* Changes are added that tell about e, all of them the same. *)
LEMMA KHFollowsTold ==
  ASSUME NEW s \in Seq(KH!Change), NEW m \in Seq(KH!Change), NEW told, NEW said, NEW e, NEW was,
         NEW becomes, NEW l \in 1 .. Len(m), m[l] \in told,
         \A i \in 1 .. Len(m) : m[i] \in told => (m[i] \in said <=> e \in becomes)
  PROVE  KHFollows(s \o m, told, said, e, was, becomes)
<1> DEFINE t == s \o m
           n == Len(s)
<1>1. n \in Nat /\ Len(m) \in Nat /\ Len(t) = n + Len(m)
  BY KHConcatElements
<1>2. \A i \in 1 .. Len(m) : t[n + i] = m[i]
  BY KHConcatElements
<1> HIDE DEF t, n
<1>3. n + l \in 1 .. Len(t) /\ t[n + l] \in told
  BY <1>1, <1>2
<1>4. ASSUME NEW i \in 1 .. Len(t), t[i] \in told, \A j \in i + 1 .. Len(t) : t[j] \notin told
      PROVE  t[i] \in said <=> e \in becomes
  <2>1. i >= n + l
    BY <1>1, <1>3, <1>4
  <2>2. i - n \in 1 .. Len(m) /\ n + (i - n) = i
    BY <1>1, <2>1
  <2>3. t[i] = m[i - n]
    BY <1>2, <2>2
  <2> QED
    BY <1>4, <2>2, <2>3
<1> QED
  BY <1>3, <1>4 DEF KHFollows, t

(* A host becomes known, or does not, and is told of. *)
LEMMA KHTellKnown ==
  ASSUME NEW s \in Seq(KH!Change), NEW m \in Seq(KH!Change), NEW fresh \in [Key -> SUBSET Host],
         KHBrings(m, fresh), NEW k \in Key, NEW x \in Host, NEW was, NEW is, NEW becomes,
         KHFollows(s, KHHostTold(k, x), KHHostSaid(k, x), x, was, is),
         x \in becomes <=> x \in is \/ x \in fresh[k]
  PROVE  KHFollows(s \o m, KHHostTold(k, x), KHHostSaid(k, x), x, was, becomes)
<1>1. \A i \in 1 .. Len(m) : m[i] \in KH!Change
  OBVIOUS
<1>2. CASE x \in fresh[k]
  <2>1. PICK l \in 1 .. Len(m) : x \in m[l].known[k]
    BY <1>2 DEF KHBrings
  <2>2. m[l] \in KHHostTold(k, x)
    BY <1>1, <2>1 DEF KHHostTold
  <2>3. \A i \in 1 .. Len(m) : m[i] \in KHHostTold(k, x) => m[i] \in KHHostSaid(k, x)
    BY <1>1 DEF KHBrings, KHHostTold, KHHostSaid
  <2> QED
    BY <1>2, <2>2, <2>3, KHFollowsTold
<1>3. CASE x \notin fresh[k]
  <2>1. \A i \in 1 .. Len(m) : m[i] \notin KHHostTold(k, x)
    BY <1>1, <1>3 DEF KHBrings, KHHostTold
  <2> QED
    BY <1>3, <2>1, KHFollowsQuiet
<1> QED
  BY <1>2, <1>3

(* The changes that are sent. *)
LEMMA KHMessagesAreChanges ==
  /\ \A k \in Key : KH!UpdateOf({k}) \in KH!Change /\ KH!RemoveOf(k) \in KH!Change
  /\ \A sets \in [Key -> SUBSET Host] : KH!AddKnown(sets) \in KH!Change
BY DEF KH!UpdateOf, KH!RemoveOf, KH!AddKnown, KH!Change, KH!NoHosts

LEMMA KHNewsBring ==
  ASSUME NEW fresh \in [Key -> SUBSET Host]
  PROVE  /\ KH!News(fresh) \in Seq(KH!Change) /\ KHBrings(KH!News(fresh), fresh)
         /\ \A i \in 1 .. Len(KH!News(fresh)) :
              KH!News(fresh)[i].update = {} /\ KH!News(fresh)[i].remove = {}
<1>1. CASE fresh = KH!NoHosts
  <2>1. KH!News(fresh) = <<>> /\ Len(KH!News(fresh)) = 0 /\ KH!News(fresh) \in Seq(KH!Change)
    BY <1>1 DEF KH!News
  <2>2. \A k \in Key : fresh[k] = {}
    BY <1>1 DEF KH!NoHosts
  <2>3. \A i \in 1 .. Len(KH!News(fresh)) : FALSE
    BY <2>1
  <2> QED
    BY <2>1, <2>2, <2>3 DEF KHBrings
<1>2. CASE fresh # KH!NoHosts
  <2>1. /\ KH!News(fresh) = <<KH!AddKnown(fresh)>> /\ Len(KH!News(fresh)) = 1
        /\ KH!News(fresh)[1] = KH!AddKnown(fresh) /\ KH!News(fresh) \in Seq(KH!Change)
    BY <1>2, KHMessagesAreChanges DEF KH!News
  <2> QED
    BY <2>1 DEF KHBrings, KH!AddKnown
<1> QED
  BY <1>1, <1>2

LEMMA KHFreshHosts ==
  ASSUME KHTypes, NEW h \in Host, NEW x \in Host, NEW ks \in SUBSET Key
  PROVE  KH!Fresh(h, ks, x) \in [Key -> SUBSET Host]
BY DEF KH!Fresh

LEMMA KHTellBox ==
  ASSUME NEW box \in [Host -> [Host -> Seq(KH!Change)]], NEW rem, NEW h \in Host,
         NEW m \in Seq(KH!Change)
  PROVE  /\ KH!Tell(box, rem, h, m) \in [Host -> [Host -> Seq(KH!Change)]]
         /\ \A a, b \in Host :
              KH!Tell(box, rem, h, m)[a][b] =
                IF b = h /\ rem[h][a].listener THEN box[a][h] \o m ELSE box[a][b]
<1>1. \A a \in Host : box[a][h] \o m \in Seq(KH!Change)
  BY KHConcatElements
<1> QED
  BY <1>1 DEF KH!Tell

LEMMA KHOneMessage ==
  ASSUME NEW c \in KH!Change
  PROVE  <<c>> \in Seq(KH!Change) /\ Len(<<c>>) = 1 /\ <<c>>[1] = c
OBVIOUS

(* The change of an application is told with the host that becomes known, before it or
   after it. *)
LEMMA KHUpdateWithNews ==
  ASSUME NEW k \in Key, NEW fresh \in [Key -> SUBSET Host], NEW m,
         \/ m = <<KH!UpdateOf({k})>> \o KH!News(fresh)
         \/ m = KH!News(fresh) \o <<KH!UpdateOf({k})>>
  PROVE  /\ m \in Seq(KH!Change) /\ KHBrings(m, fresh)
         /\ \A i \in 1 .. Len(m) : m[i].update \in {{}, {k}} /\ m[i].remove = {}
         /\ \E l \in 1 .. Len(m) : k \in m[l].update
<1> DEFINE u == <<KH!UpdateOf({k})>>
           n == KH!News(fresh)
<1>1. KH!UpdateOf({k}) \in KH!Change
  BY KHMessagesAreChanges
<1>2. /\ u \in Seq(KH!Change) /\ Len(u) = 1 /\ u[1] = KH!UpdateOf({k})
      /\ n \in Seq(KH!Change) /\ Len(n) \in Nat /\ KHBrings(n, fresh)
      /\ \A i \in 1 .. Len(n) : n[i].update = {} /\ n[i].remove = {}
  BY <1>1, KHNewsBring, KHOneMessage
<1>3. /\ KH!UpdateOf({k}).update = {k} /\ KH!UpdateOf({k}).remove = {} /\ ~KH!UpdateOf({k}).initial
      /\ \A j \in Key : KH!UpdateOf({k}).known[j] = {}
  BY DEF KH!UpdateOf, KH!NoHosts
<1>4. m \in Seq(KH!Change) /\ Len(m) = Len(n) + 1
  <2>1. u \o n \in Seq(KH!Change) /\ Len(u \o n) = Len(n) + 1
    BY <1>2, KHConcatElements
  <2>2. n \o u \in Seq(KH!Change) /\ Len(n \o u) = Len(n) + 1
    BY <1>2, KHConcatElements
  <2> QED
    BY <2>1, <2>2
<1>5. \A i \in 1 .. Len(m) : m[i] = KH!UpdateOf({k}) \/ \E j \in 1 .. Len(n) : m[i] = n[j]
  <2> TAKE i \in 1 .. Len(m)
  <2>1. CASE m = u \o n
    <3>1. CASE i = 1
      BY <1>2, <2>1, <3>1, KHConcatElements
    <3>2. CASE i # 1
      <4>1. i - 1 \in 1 .. Len(n) /\ 1 + (i - 1) = i
        BY <1>2, <1>4, <3>2
      <4> QED
        BY <1>2, <2>1, <4>1, KHConcatElements
    <3> QED
      BY <3>1, <3>2
  <2>2. CASE m = n \o u
    <3>1. CASE i = Len(n) + 1
      BY <1>2, <2>2, <3>1, KHConcatElements
    <3>2. CASE i # Len(n) + 1
      <4>1. i \in 1 .. Len(n)
        BY <1>2, <1>4, <3>2
      <4> QED
        BY <1>2, <2>2, <4>1, KHConcatElements
    <3> QED
      BY <3>1, <3>2
  <2> QED
    BY <2>1, <2>2
<1>6. /\ \A j \in 1 .. Len(n) : \E i \in 1 .. Len(m) : m[i] = n[j]
      /\ \E l \in 1 .. Len(m) : m[l] = KH!UpdateOf({k})
  <2>1. CASE m = u \o n
    <3>1. 1 \in 1 .. Len(m) /\ m[1] = KH!UpdateOf({k})
      BY <1>2, <1>4, <2>1, KHConcatElements
    <3>2. \A j \in 1 .. Len(n) : 1 + j \in 1 .. Len(m) /\ m[1 + j] = n[j]
      BY <1>2, <1>4, <2>1, KHConcatElements
    <3> QED
      BY <3>1, <3>2
  <2>2. CASE m = n \o u
    <3>1. Len(n) + 1 \in 1 .. Len(m) /\ m[Len(n) + 1] = KH!UpdateOf({k})
      BY <1>2, <1>4, <2>2, KHConcatElements
    <3>2. \A j \in 1 .. Len(n) : j \in 1 .. Len(m) /\ m[j] = n[j]
      BY <1>2, <1>4, <2>2, KHConcatElements
    <3> QED
      BY <3>1, <3>2
  <2> QED
    BY <2>1, <2>2
<1> HIDE DEF u, n
<1>7. KHBrings(m, fresh)
  <2>1. ASSUME NEW i \in 1 .. Len(m), NEW j \in Key
        PROVE  ~m[i].initial /\ m[i].known[j] \subseteq fresh[j]
    BY <1>2, <1>3, <1>5 DEF KHBrings
  <2>2. ASSUME NEW j \in Key, NEW x \in fresh[j]
        PROVE  \E i \in 1 .. Len(m) : x \in m[i].known[j]
    <3>1. PICK i \in 1 .. Len(n) : x \in n[i].known[j]
      BY <1>2, <2>2 DEF KHBrings
    <3> QED
      BY <1>6, <3>1
  <2>3. \A i \in 1 .. Len(m) : ~m[i].initial
    BY <1>2, <1>3, <1>5 DEF KHBrings
  <2> QED
    BY <2>1, <2>2, <2>3 DEF KHBrings
<1>8. \A i \in 1 .. Len(m) : m[i].update \in {{}, {k}} /\ m[i].remove = {}
  BY <1>2, <1>3, <1>5
<1> QED
  BY <1>3, <1>4, <1>6, <1>7, <1>8

(* Steps that leave the subscriptions as they are. *)
LEMMA KHSubscriptionsStay ==
  ASSUME KHInv, UNCHANGED <<remote, calls, removed, deaf>>
  PROVE  KHCalls' /\ KHEndsAreOver' /\ KHLiveIsTold' /\ \A a, b \in Host : KHLive(a, b)' =>
      KHLive(a, b)
BY DEF KHInv, KHCalls, KHEndsAreOver, KHLiveIsTold, KHLive, KH!Ends

LEMMA KHAppChangedStep ==
  ASSUME KHInv, NEW h \in Host, NEW k \in Key, KH!AppChanged(h, k)
  PROVE  KHInv'
<1>1. KHTypes /\ KHLiveIsTold /\ KHAppsFollow /\ KHKnownFollows
  BY DEF KHInv
<1> DEFINE fresh == KH!Fresh(h, {k}, h)
           m == IF k \in apps[h] THEN <<KH!UpdateOf({k})>> \o KH!News(fresh)
                ELSE KH!News(fresh) \o <<KH!UpdateOf({k})>>
<1>2. fresh \in [Key -> SUBSET Host]
  BY <1>1, KHFreshHosts
<1>3. m = <<KH!UpdateOf({k})>> \o KH!News(fresh) \/ m = KH!News(fresh) \o <<KH!UpdateOf({k})>>
  OBVIOUS
<1>4. /\ apps' = [apps EXCEPT ![h] = @ \cup {k}]
      /\ known' = [known EXCEPT ![h] = KH!Plus(@, fresh)]
      /\ inbox' = KH!Tell(inbox, remote, h, m)
      /\ UNCHANGED <<remote, calls, removed, deaf>>
  BY DEF KH!AppChanged, KH!NewKnown, KH!history
<1> HIDE DEF m, fresh
<1>5. /\ m \in Seq(KH!Change) /\ KHBrings(m, fresh)
      /\ \A i \in 1 .. Len(m) : m[i].update \in {{}, {k}} /\ m[i].remove = {}
      /\ \E l \in 1 .. Len(m) : k \in m[l].update
  BY <1>2, <1>3, KHUpdateWithNews
<1>6. /\ known' \in [Host -> [Key -> SUBSET Host]]
      /\ \A b \in Host : b # h => known'[b] = known[b]
      /\ \A j \in Key : known'[h][j] = known[h][j] \cup fresh[j]
  BY <1>1, <1>2, <1>4 DEF KHTypes, KH!Plus
<1>7. apps' \in [Host -> SUBSET Key] /\ \A b \in Host : b # h => apps'[b] = apps[b]
  BY <1>1, <1>4 DEF KHTypes
<1>8. apps'[h] = apps[h] \cup {k}
  BY <1>1, <1>4 DEF KHTypes
<1>9. /\ inbox' \in [Host -> [Host -> Seq(KH!Change)]]
      /\ \A a \in Host : remote[h][a].listener => inbox'[a][h] = inbox[a][h] \o m
      /\ \A a, b \in Host : b # h => inbox'[a][b] = inbox[a][b]
  <2>1. \A a \in Host : inbox[a][h] \o m \in Seq(KH!Change)
    BY <1>1, <1>5, KHConcatElements DEF KHTypes
  <2> QED
    BY <1>1, <1>4, <2>1 DEF KHTypes, KH!Tell
<1>10. KHTypes'
  BY <1>1, <1>4, <1>6, <1>7, <1>9 DEF KHTypes
<1>11. /\ KHCalls' /\ KHEndsAreOver' /\ KHLiveIsTold'
       /\ \A a, b \in Host : KHLive(a, b)' => KHLive(a, b) /\ remote[b][a].listener
  BY <1>1, <1>4, KHSubscriptionsStay DEF KHLiveIsTold
<1>12. ASSUME NEW a \in Host, NEW b \in Host, KHLive(a, b), remote[b][a].listener, NEW j \in Key
       PROVE  KHFollows(inbox'[a][b], KHAppTold(j), KHAppSaid(j), j, remote[a][b].apps, apps'[b])
  <2>1. /\ KHFollows(inbox[a][b], KHAppTold(j), KHAppSaid(j), j, remote[a][b].apps, apps[b])
        /\ inbox[a][b] \in Seq(KH!Change)
    BY <1>1, <1>12 DEF KHAppsFollow, KHTypes
  <2>2. CASE b # h
    BY <1>7, <1>9, <2>1, <2>2
  <2>3. CASE b = h /\ j = k
    <3>1. PICK l \in 1 .. Len(m) : k \in m[l].update
      BY <1>5
    <3>2. \A i \in 1 .. Len(m) : m[i] \in KH!Change
      BY <1>5
    <3>3. m[l] \in KHAppTold(k)
      BY <3>1, <3>2 DEF KHAppTold
    <3>4. \A i \in 1 .. Len(m) : m[i] \in KHAppTold(k) => m[i] \in KHAppSaid(k)
      BY <1>5, <3>2 DEF KHAppTold, KHAppSaid, KHBrings
    <3>5. inbox'[a][b] = inbox[a][b] \o m /\ k \in apps'[b]
      BY <1>8, <1>9, <1>12, <2>3
    <3>6. \A i \in 1 .. Len(m) : m[i] \in KHAppTold(k) => (m[i] \in KHAppSaid(k) <=> k \in apps'[b])
      BY <3>4, <3>5
    <3>7. KHFollows(inbox[a][b] \o m, KHAppTold(k), KHAppSaid(k), k, remote[a][b].apps, apps'[b])
      BY <1>5, <2>1, <3>3, <3>6, KHFollowsTold
    <3> QED
      BY <2>3, <3>5, <3>7
  <2>4. CASE b = h /\ j # k
    <3>1. \A i \in 1 .. Len(m) : m[i] \notin KHAppTold(j)
      BY <1>5, <2>4 DEF KHAppTold, KHBrings
    <3>2. inbox'[a][b] = inbox[a][b] \o m /\ (j \in apps'[b] <=> j \in apps[b])
      BY <1>8, <1>9, <1>12, <2>4
    <3> QED
      BY <1>5, <2>1, <3>1, <3>2, KHFollowsQuiet
  <2> QED
    BY <2>2, <2>3, <2>4
<1>13. KHAppsFollow'
  BY <1>4, <1>11, <1>12 DEF KHAppsFollow, KHAppTold, KHAppSaid
<1>14. ASSUME NEW a \in Host, NEW b \in Host, KHLive(a, b), remote[b][a].listener, NEW j \in Key,
              NEW x \in Host \ removed
       PROVE  KHFollows(inbox'[a][b], KHHostTold(j, x), KHHostSaid(j, x), x, remote[a][b].known[j],
                      known'[b][j])
  <2> DEFINE was == remote[a][b].known[j]
             told == KHHostTold(j, x)
             said == KHHostSaid(j, x)
  <2>1. /\ KHFollows(inbox[a][b], told, said, x, was, known[b][j])
        /\ inbox[a][b] \in Seq(KH!Change)
    BY <1>1, <1>14 DEF KHKnownFollows, KHTypes
  <2> HIDE DEF was
  <2>2. CASE b = h
    <3>1. inbox'[a][b] = inbox[a][b] \o m
      BY <1>9, <1>14, <2>2
    <3>2. x \in known'[b][j] <=> x \in known[b][j] \/ x \in fresh[j]
      BY <1>6, <2>2
    <3>3. KHFollows(inbox[a][b] \o m, told, said, x, was, known'[b][j])
      BY <1>2, <1>5, <2>1, <3>2, KHTellKnown
    <3> QED
      BY <3>1, <3>3 DEF was
  <2>3. CASE b # h
    <3>1. inbox'[a][b] = inbox[a][b] /\ known'[b][j] = known[b][j]
      BY <1>6, <1>9, <2>3
    <3> QED
      BY <2>1, <3>1 DEF was
  <2> QED
    BY <2>2, <2>3
<1>15. KHKnownFollows'
  BY <1>4, <1>11, <1>14 DEF KHKnownFollows, KHHostTold, KHHostSaid
<1> QED
  BY <1>10, <1>11, <1>13, <1>15 DEF KHInv

LEMMA KHAppRemovedStep ==
  ASSUME KHInv, NEW h \in Host, NEW k \in Key, KH!AppRemoved(h, k)
  PROVE  KHInv'
<1>1. KHTypes /\ KHLiveIsTold /\ KHAppsFollow /\ KHKnownFollows
  BY DEF KHInv
<1> DEFINE m == <<KH!RemoveOf(k)>>
<1>2. /\ apps' = [apps EXCEPT ![h] = @ \ {k}]
      /\ inbox' = KH!Tell(inbox, remote, h, m)
      /\ UNCHANGED <<known, remote, calls, removed, deaf>>
  BY DEF KH!AppRemoved, KH!history
<1>3. /\ m \in Seq(KH!Change) /\ Len(m) = 1 /\ m[1] = KH!RemoveOf(k) /\ m[1] \in KH!Change
      /\ m[1].update = {} /\ m[1].remove = {k} /\ ~m[1].initial
      /\ \A j \in Key : m[1].known[j] = {}
  <2>1. KH!RemoveOf(k) \in KH!Change
    BY KHMessagesAreChanges
  <2>2. m \in Seq(KH!Change) /\ Len(m) = 1 /\ m[1] = KH!RemoveOf(k)
    BY <2>1, KHOneMessage
  <2> QED
    BY <2>1, <2>2 DEF KH!RemoveOf, KH!NoHosts
<1> HIDE DEF m
<1>4. apps' \in [Host -> SUBSET Key] /\ \A b \in Host : b # h => apps'[b] = apps[b]
  BY <1>1, <1>2 DEF KHTypes
<1>5. apps'[h] = apps[h] \ {k}
  BY <1>1, <1>2 DEF KHTypes
<1>6. /\ inbox' \in [Host -> [Host -> Seq(KH!Change)]]
      /\ \A a \in Host : remote[h][a].listener => inbox'[a][h] = inbox[a][h] \o m
      /\ \A a, b \in Host : b # h => inbox'[a][b] = inbox[a][b]
  <2>1. \A a \in Host : inbox[a][h] \o m \in Seq(KH!Change)
    BY <1>1, <1>3, KHConcatElements DEF KHTypes
  <2> QED
    BY <1>1, <1>2, <2>1 DEF KHTypes, KH!Tell
<1>7. KHTypes'
  BY <1>1, <1>2, <1>4, <1>6 DEF KHTypes
<1>8. /\ KHCalls' /\ KHEndsAreOver' /\ KHLiveIsTold'
      /\ \A a, b \in Host : KHLive(a, b)' => KHLive(a, b) /\ remote[b][a].listener
  BY <1>1, <1>2, KHSubscriptionsStay DEF KHLiveIsTold
<1>9. ASSUME NEW a \in Host, NEW b \in Host, KHLive(a, b), remote[b][a].listener, NEW j \in Key
      PROVE  KHFollows(inbox'[a][b], KHAppTold(j), KHAppSaid(j), j, remote[a][b].apps, apps'[b])
  <2>1. /\ KHFollows(inbox[a][b], KHAppTold(j), KHAppSaid(j), j, remote[a][b].apps, apps[b])
        /\ inbox[a][b] \in Seq(KH!Change)
    BY <1>1, <1>9 DEF KHAppsFollow, KHTypes
  <2>2. CASE b # h
    BY <1>4, <1>6, <2>1, <2>2
  <2>3. CASE b = h /\ j = k
    <3>1. m[1] \in KHAppTold(k) /\ m[1] \notin KHAppSaid(k)
      BY <1>3 DEF KHAppTold, KHAppSaid
    <3>2. inbox'[a][b] = inbox[a][b] \o m /\ k \notin apps'[b] /\ 1 \in 1 .. Len(m)
      BY <1>3, <1>5, <1>6, <1>9, <2>3
    <3>3. \A i \in 1 .. Len(m) : m[i] \in KHAppTold(k) => (m[i] \in KHAppSaid(k) <=> k \in apps'[b])
      BY <1>3, <3>1, <3>2
    <3>4. KHFollows(inbox[a][b] \o m, KHAppTold(k), KHAppSaid(k), k, remote[a][b].apps, apps'[b])
      BY <1>3, <2>1, <3>1, <3>2, <3>3, KHFollowsTold
    <3> QED
      BY <2>3, <3>2, <3>4
  <2>4. CASE b = h /\ j # k
    <3>1. \A i \in 1 .. Len(m) : m[i] \notin KHAppTold(j)
      BY <1>3, <2>4 DEF KHAppTold
    <3>2. inbox'[a][b] = inbox[a][b] \o m /\ (j \in apps'[b] <=> j \in apps[b])
      BY <1>5, <1>6, <1>9, <2>4
    <3> QED
      BY <1>3, <2>1, <3>1, <3>2, KHFollowsQuiet
  <2> QED
    BY <2>2, <2>3, <2>4
<1>10. KHAppsFollow'
  BY <1>2, <1>8, <1>9 DEF KHAppsFollow, KHAppTold, KHAppSaid
<1>11. ASSUME NEW a \in Host, NEW b \in Host, KHLive(a, b), remote[b][a].listener, NEW j \in Key,
              NEW x \in Host \ removed
       PROVE  KHFollows(inbox'[a][b], KHHostTold(j, x), KHHostSaid(j, x), x, remote[a][b].known[j],
                      known[b][j])
  <2>1. /\ inbox[a][b] \in Seq(KH!Change)
        /\ KHFollows(inbox[a][b], KHHostTold(j, x), KHHostSaid(j, x), x, remote[a][b].known[j],
                   known[b][j])
    BY <1>1, <1>11 DEF KHKnownFollows, KHTypes
  <2>2. \A i \in 1 .. Len(m) : m[i] \notin KHHostTold(j, x)
    BY <1>3 DEF KHHostTold
  <2>3. CASE b = h
    <3>1. KHFollows(inbox[a][b] \o m, KHHostTold(j, x), KHHostSaid(j, x), x,
                  remote[a][b].known[j], known[b][j])
      BY <1>3, <2>1, <2>2, KHFollowsQuiet
    <3> QED
      BY <1>6, <1>11, <2>3, <3>1
  <2>4. CASE b # h
    BY <1>6, <2>1, <2>4
  <2> QED
    BY <2>3, <2>4
<1>12. KHKnownFollows'
  BY <1>2, <1>8, <1>11 DEF KHKnownFollows, KHHostTold, KHHostSaid
<1> QED
  BY <1>7, <1>8, <1>10, <1>12 DEF KHInv

(* The first of the changes that are under way to h from g is handled: what h has of g
   follows with one less, and then those that listen to h are told of g. *)
LEMMA KHReceiveStep ==
  ASSUME KHInv, NEW h \in Host, NEW g \in Host, KH!Receive(h, g)
  PROVE  KHInv'
<1>1. KHTypes /\ KHLiveIsTold /\ KHAppsFollow /\ KHKnownFollows
  BY DEF KHInv
<1> DEFINE c == Head(inbox[h][g])
           box == [inbox EXCEPT ![h][g] = Tail(@)]
           old == IF c.initial
                  THEN [remote[h][g] EXCEPT !.initial = TRUE, !.apps = {}, !.known = KH!NoHosts]
                  ELSE remote[h][g]
           new == [old EXCEPT !.apps = (@ \cup c.update) \ c.remove,
                              !.known = KH!Plus(@, c.known)]
           fresh == KH!Fresh(h, c.update, g)
           m == KH!News(fresh)
<1>2. /\ inbox[h][g] \in Seq(KH!Change) /\ inbox[h][g] # <<>>
      /\ remote' = [remote EXCEPT ![h][g] = new]
      /\ known' = [known EXCEPT ![h] = KH!Plus(@, fresh)]
      /\ inbox' = KH!Tell(box, remote', h, m)
      /\ UNCHANGED <<apps, calls, removed, deaf>>
  BY <1>1 DEF KH!Receive, KH!NewKnown, KH!history, KHTypes
<1>3. c \in KH!Change /\ Tail(inbox[h][g]) \in Seq(KH!Change)
  BY <1>2
<1>4. /\ old \in KHRemotes /\ old.actor = remote[h][g].actor
      /\ old.listener = remote[h][g].listener
      /\ c.initial => old.apps = {} /\ old.known = KH!NoHosts
      /\ ~c.initial => old = remote[h][g]
  <2>1. remote[h][g] \in KHRemotes /\ KH!NoHosts \in [Key -> SUBSET Host]
    BY <1>1 DEF KHTypes, KH!NoHosts
  <2> QED
    BY <2>1 DEF KHRemotes
<1> HIDE DEF c, old
<1>5. /\ new \in KHRemotes /\ new.actor = remote[h][g].actor
      /\ new.listener = remote[h][g].listener
      /\ new.apps = (old.apps \cup c.update) \ c.remove
      /\ \A k \in Key : new.known[k] = old.known[k] \cup c.known[k]
  <2>1. /\ c.update \in SUBSET Key /\ KH!Plus(old.known, c.known) \in [Key -> SUBSET Host]
        /\ \A k \in Key : KH!Plus(old.known, c.known)[k] = old.known[k] \cup c.known[k]
    BY <1>3, <1>4 DEF KH!Change, KHRemotes, KH!Plus
  <2> QED
    BY <1>4, <2>1 DEF KHRemotes
<1>6. fresh \in [Key -> SUBSET Host]
  BY <1>1, <1>3, KHFreshHosts DEF KH!Change
<1> HIDE DEF new, fresh
<1>7. m \in Seq(KH!Change) /\ KHBrings(m, fresh)
      /\ \A i \in 1 .. Len(m) : m[i].update = {} /\ m[i].remove = {}
  BY <1>6, KHNewsBring
<1> HIDE DEF m
<1>8. /\ box \in [Host -> [Host -> Seq(KH!Change)]] /\ box[h][g] = Tail(inbox[h][g])
      /\ \A a, b \in Host : <<a, b>> # <<h, g>> => box[a][b] = inbox[a][b]
  BY <1>1, <1>3 DEF KHTypes
<1>9. /\ remote' \in [Host -> [Host -> KHRemotes]] /\ remote'[h][g] = new
      /\ \A a, b \in Host : <<a, b>> # <<h, g>> => remote'[a][b] = remote[a][b]
  BY <1>1, <1>2, <1>5 DEF KHTypes
<1> HIDE DEF box
<1>10. \A a, b \in Host : /\ remote'[a][b].actor = remote[a][b].actor
                         /\ remote'[a][b].listener = remote[a][b].listener
  BY <1>5, <1>9
<1>11. /\ inbox' \in [Host -> [Host -> Seq(KH!Change)]]
       /\ \A a \in Host : remote[h][a].listener => inbox'[a][h] = box[a][h] \o m
       /\ \A a, b \in Host : b # h => inbox'[a][b] = box[a][b]
  <2>1. \A a \in Host : box[a][h] \o m \in Seq(KH!Change)
    BY <1>7, <1>8, KHConcatElements
  <2>2. inbox' = [a \in Host |-> IF remote'[h][a].listener
                                 THEN [box[a] EXCEPT ![h] = box[a][h] \o m] ELSE box[a]]
    BY <1>2 DEF KH!Tell
  <2> QED
    BY <1>8, <1>10, <2>1, <2>2
<1>12. /\ known' \in [Host -> [Key -> SUBSET Host]]
       /\ \A b \in Host : b # h => known'[b] = known[b]
       /\ \A j \in Key : known'[h][j] = known[h][j] \cup fresh[j]
  BY <1>1, <1>2, <1>6 DEF KHTypes, KH!Plus
<1>13. KHTypes'
  BY <1>1, <1>2, <1>9, <1>11, <1>12 DEF KHTypes
<1>14. /\ KHCalls' /\ KHEndsAreOver' /\ KHLiveIsTold'
       /\ \A a, b \in Host : KHLive(a, b)' => KHLive(a, b) /\ remote[b][a].listener
  BY <1>2, <1>10 DEF KHInv, KHCalls, KHEndsAreOver, KHLiveIsTold, KHLive, KH!Ends
<1>15. ASSUME NEW a \in Host, NEW b \in Host, KHLive(a, b), NEW k \in Key
       PROVE  KHFollows(box[a][b], KHAppTold(k), KHAppSaid(k), k, remote'[a][b].apps, apps[b])
  <2>1. KHFollows(inbox[a][b], KHAppTold(k), KHAppSaid(k), k, remote[a][b].apps, apps[b])
    BY <1>1, <1>15 DEF KHAppsFollow
  <2>2. CASE <<a, b>> # <<h, g>>
    BY <1>8, <1>9, <2>1, <2>2
  <2>3. CASE a = h /\ b = g
    <3>1. c \in KHAppTold(k) => (k \in new.apps <=> c \in KHAppSaid(k))
      BY <1>3, <1>4, <1>5 DEF KHAppTold, KHAppSaid
    <3>2. c \notin KHAppTold(k) => (k \in new.apps <=> k \in remote[h][g].apps)
      BY <1>3, <1>4, <1>5 DEF KHAppTold
    <3>3. KHFollows(Tail(inbox[h][g]), KHAppTold(k), KHAppSaid(k), k, new.apps, apps[g])
      BY <1>2, <2>1, <2>3, <3>1, <3>2, KHFollowsTail DEF c
    <3> QED
      BY <1>8, <1>9, <2>3, <3>3
  <2> QED
    BY <2>2, <2>3
<1>16. ASSUME NEW a \in Host, NEW b \in Host, KHLive(a, b), remote[b][a].listener, NEW k \in Key
       PROVE  KHFollows(inbox'[a][b], KHAppTold(k), KHAppSaid(k), k, remote'[a][b].apps, apps[b])
  <2> DEFINE was == remote'[a][b].apps
  <2>1. KHFollows(box[a][b], KHAppTold(k), KHAppSaid(k), k, was, apps[b])
          /\ box[a][b] \in Seq(KH!Change)
    BY <1>8, <1>15, <1>16
  <2>2. \A i \in 1 .. Len(m) : m[i] \notin KHAppTold(k)
    BY <1>7 DEF KHAppTold, KHBrings
  <2> HIDE DEF was
  <2>3. CASE b = h
    <3>1. KHFollows(box[a][b] \o m, KHAppTold(k), KHAppSaid(k), k, was, apps[b])
      BY <1>7, <2>1, <2>2, KHFollowsQuiet
    <3> QED
      BY <1>11, <1>16, <2>3, <3>1 DEF was
  <2>4. CASE b # h
    BY <1>11, <2>1, <2>4 DEF was
  <2> QED
    BY <2>3, <2>4
<1>17. KHAppsFollow'
  BY <1>2, <1>14, <1>16 DEF KHAppsFollow, KHAppTold, KHAppSaid
<1>18. ASSUME NEW a \in Host, NEW b \in Host, KHLive(a, b), NEW k \in Key,
              NEW x \in Host \ removed
       PROVE  KHFollows(box[a][b], KHHostTold(k, x), KHHostSaid(k, x), x, remote'[a][b].known[k],
                      known[b][k])
  <2>1. KHFollows(inbox[a][b], KHHostTold(k, x), KHHostSaid(k, x), x, remote[a][b].known[k],
                known[b][k])
    BY <1>1, <1>18 DEF KHKnownFollows
  <2>2. CASE <<a, b>> # <<h, g>>
    BY <1>8, <1>9, <2>1, <2>2
  <2>3. CASE a = h /\ b = g
    <3>1. c \in KHHostTold(k, x) => (x \in new.known[k] <=> c \in KHHostSaid(k, x))
      BY <1>3, <1>4, <1>5 DEF KHHostTold, KHHostSaid, KH!NoHosts
    <3>2. c \notin KHHostTold(k, x) => (x \in new.known[k] <=> x \in remote[h][g].known[k])
      BY <1>3, <1>4, <1>5 DEF KHHostTold
    <3>3. KHFollows(Tail(inbox[h][g]), KHHostTold(k, x), KHHostSaid(k, x), x, new.known[k],
                  known[g][k])
      BY <1>2, <2>1, <2>3, <3>1, <3>2, KHFollowsTail DEF c
    <3> QED
      BY <1>8, <1>9, <2>3, <3>3
  <2> QED
    BY <2>2, <2>3
<1>19. ASSUME NEW a \in Host, NEW b \in Host, KHLive(a, b), remote[b][a].listener, NEW k \in Key,
              NEW x \in Host \ removed
       PROVE  KHFollows(inbox'[a][b], KHHostTold(k, x), KHHostSaid(k, x), x, remote'[a][b].known[k],
                      known'[b][k])
  <2> DEFINE was == remote'[a][b].known[k]
             told == KHHostTold(k, x)
             said == KHHostSaid(k, x)
  <2>1. KHFollows(box[a][b], told, said, x, was, known[b][k]) /\ box[a][b] \in Seq(KH!Change)
    BY <1>8, <1>18, <1>19
  <2> HIDE DEF was
  <2>2. CASE b = h
    <3>1. inbox'[a][b] = box[a][b] \o m
      BY <1>11, <1>19, <2>2
    <3>2. x \in known'[b][k] <=> x \in known[b][k] \/ x \in fresh[k]
      BY <1>12, <2>2
    <3>3. KHFollows(box[a][b] \o m, told, said, x, was, known'[b][k])
      BY <1>6, <1>7, <2>1, <3>2, KHTellKnown
    <3> QED
      BY <3>1, <3>3 DEF was
  <2>3. CASE b # h
    <3>1. inbox'[a][b] = box[a][b] /\ known'[b][k] = known[b][k]
      BY <1>11, <1>12, <2>3
    <3> QED
      BY <2>1, <3>1 DEF was
  <2> QED
    BY <2>2, <2>3
<1>20. KHKnownFollows'
  BY <1>2, <1>14, <1>19 DEF KHKnownFollows, KHHostTold, KHHostSaid
<1> QED
  BY <1>13, <1>14, <1>17, <1>20 DEF KHInv

(* Steps that only end subscriptions, or forget known hosts that were removed. *)
LEMMA KHNothingNewIsLive ==
  ASSUME KHInv, KHTypes', removed \subseteq removed', UNCHANGED apps,
         \A a, b \in Host : KHLive(a, b)' =>
           /\ KHLive(a, b) /\ inbox'[a][b] = inbox[a][b]
           /\ remote'[a][b].apps = remote[a][b].apps
           /\ \A k \in Key : \A x \in Host \ removed' :
                /\ x \in remote'[a][b].known[k] <=> x \in remote[a][b].known[k]
                /\ x \in known'[b][k] <=> x \in known[b][k]
  PROVE  KHAppsFollow' /\ KHKnownFollows'
<1>1. KHAppsFollow'
  BY DEF KHInv, KHAppsFollow, KHAppTold, KHAppSaid
<1>2. ASSUME NEW a \in Host, NEW b \in Host, KHLive(a, b)', NEW k \in Key,
             NEW x \in Host \ removed'
      PROVE  KHFollows(inbox[a][b], KHHostTold(k, x), KHHostSaid(k, x), x, remote'[a][b].known[k],
                     known'[b][k])
  BY <1>2 DEF KHInv, KHKnownFollows, KHFollows
<1>3. KHKnownFollows'
  BY <1>2 DEF KHKnownFollows, KHHostTold, KHHostSaid
<1> QED
  BY <1>1, <1>3

LEMMA KHNoRemoteIsRemote == KH!NoRemote \in KHRemotes /\ ~KH!NoRemote.actor /\ ~KH!NoRemote.listener
BY DEF KH!NoRemote, KHRemotes, KH!NoHosts

LEMMA KHStartWaitStep ==
  ASSUME KHInv, UNCHANGED <<apps, known, remote, inbox, calls, removed, deaf>>
  PROVE  KHInv'
BY DEF KHInv, KHTypes, KHCalls, KHEndsAreOver, KHLiveIsTold, KHAppsFollow, KHKnownFollows,
   KHLive, KH!Ends, KHAppTold, KHAppSaid, KHHostTold, KHHostSaid

LEMMA KHUnsubscribeStep ==
  ASSUME KHInv, NEW h \in Host, NEW g \in Host, KH!Unsubscribe(h, g)
  PROVE  KHInv'
<1>1. /\ remote' = [remote EXCEPT ![g][h] = [@ EXCEPT !.listener = FALSE]]
      /\ calls' \subseteq calls /\ ~remote[h][g].actor
      /\ UNCHANGED <<apps, known, inbox, removed, deaf>>
  BY DEF KH!Unsubscribe, KH!history, KHInv, KHEndsAreOver
<1> DEFINE new == [remote[g][h] EXCEPT !.listener = FALSE]
<1>2. /\ new \in KHRemotes /\ new.actor = remote[g][h].actor
      /\ new.apps = remote[g][h].apps /\ new.known = remote[g][h].known
  <2>1. remote[g][h] \in KHRemotes
    BY DEF KHInv, KHTypes
  <2> QED
    BY <2>1 DEF KHRemotes
<1>3. remote' = [remote EXCEPT ![g][h] = new]
  BY <1>1
<1> HIDE DEF new
<1>4. /\ remote' \in [Host -> [Host -> KHRemotes]] /\ remote'[g][h] = new
       /\ \A a, b \in Host : <<a, b>> # <<g, h>> => remote'[a][b] = remote[a][b]
  BY <1>2, <1>3 DEF KHInv, KHTypes
<1>5. /\ remote' \in [Host -> [Host -> KHRemotes]]
      /\ \A a, b \in Host :
           /\ remote'[a][b].actor = remote[a][b].actor
           /\ remote'[a][b].apps = remote[a][b].apps
           /\ remote'[a][b].known = remote[a][b].known
           /\ <<a, b>> # <<g, h>> => remote'[a][b].listener = remote[a][b].listener
  BY <1>2, <1>4
<1>6. KHTypes'
  BY <1>1, <1>5 DEF KHInv, KHTypes
<1>7. KHCalls' /\ KHEndsAreOver' /\ KHLiveIsTold'
  BY <1>1, <1>5 DEF KHInv, KHCalls, KHEndsAreOver, KHLiveIsTold, KHLive, KH!Ends
<1>8. KHAppsFollow' /\ KHKnownFollows'
  BY <1>1, <1>5, <1>6, KHNothingNewIsLive DEF KHLive
<1> QED
  BY <1>6, <1>7, <1>8 DEF KHInv

LEMMA KHRemoveTrustStep ==
  ASSUME KHInv, NEW h \in Host, NEW g \in Host, KH!RemoveTrust(h, g)
  PROVE  KHInv'
<1>1. /\ remote' = [remote EXCEPT ![h][g] = KH!NoRemote]
      /\ calls' = calls \cup {KH!Ends(h, g)}
      /\ deaf \subseteq deaf' /\ (remote[h][g].listener => <<g, h>> \in deaf')
      /\ UNCHANGED <<apps, known, inbox, removed>>
  BY DEF KH!RemoveTrust
<1>2. /\ remote' \in [Host -> [Host -> KHRemotes]] /\ remote'[h][g] = KH!NoRemote
      /\ \A a, b \in Host : <<a, b>> # <<h, g>> => remote'[a][b] = remote[a][b]
  BY <1>1, KHNoRemoteIsRemote DEF KHInv, KHTypes
<1>3. KHTypes'
  BY <1>1, <1>2 DEF KHInv, KHTypes
<1>4. \A a, b \in Host :
        KHLive(a, b)' => KHLive(a, b) /\ <<a, b>> # <<h, g>> /\ <<b, a>> # <<h, g>>
  BY <1>1, <1>2, KHNoRemoteIsRemote DEF KHInv, KHLive, KHLiveIsTold
<1>5. KHCalls' /\ KHEndsAreOver' /\ KHLiveIsTold'
  <2>1. KHCalls'
    BY <1>1 DEF KHInv, KHCalls, KH!Ends
  <2>2. KHEndsAreOver'
    BY <1>1, <1>2, KHNoRemoteIsRemote DEF KHInv, KHEndsAreOver, KH!Ends
  <2>3. KHLiveIsTold'
    BY <1>2, <1>4 DEF KHInv, KHLiveIsTold
  <2> QED
    BY <2>1, <2>2, <2>3
<1>6. KHAppsFollow' /\ KHKnownFollows'
  BY <1>1, <1>2, <1>3, <1>4, KHNothingNewIsLive
<1> QED
  BY <1>3, <1>5, <1>6 DEF KHInv

LEMMA KHDisconnectStep ==
  ASSUME KHInv, NEW h \in Host, NEW g \in Host, KH!Disconnect(h, g)
  PROVE  KHInv'
<1>1. /\ remote' = [remote EXCEPT ![h][g] = KH!NoRemote, ![g][h] = KH!NoRemote]
      /\ inbox' = [inbox EXCEPT ![h][g] = <<>>, ![g][h] = <<>>]
      /\ calls' \subseteq calls /\ deaf' = deaf \ {<<h, g>>, <<g, h>>}
      /\ UNCHANGED <<apps, known, removed>>
  BY DEF KH!Disconnect, KH!Between
<1>2. /\ remote' \in [Host -> [Host -> KHRemotes]]
      /\ remote'[h][g] = KH!NoRemote /\ remote'[g][h] = KH!NoRemote
      /\ \A a, b \in Host :
           <<a, b>> \notin {<<h, g>>, <<g, h>>} => remote'[a][b] = remote[a][b]
  BY <1>1, KHNoRemoteIsRemote DEF KHInv, KHTypes
<1>3. /\ inbox' \in [Host -> [Host -> Seq(KH!Change)]]
      /\ \A a, b \in Host :
           <<a, b>> \notin {<<h, g>>, <<g, h>>} => inbox'[a][b] = inbox[a][b]
  <2>1. <<>> \in Seq(KH!Change)
    OBVIOUS
  <2> QED
    BY <1>1, <2>1 DEF KHInv, KHTypes
<1>4. KHTypes'
  BY <1>1, <1>2, <1>3 DEF KHInv, KHTypes
<1>5. \A a, b \in Host : KHLive(a, b)' => KHLive(a, b) /\ <<a, b>> \notin {<<h, g>>, <<g, h>>}
  BY <1>1, <1>2, KHNoRemoteIsRemote DEF KHLive
<1>6. KHCalls' /\ KHEndsAreOver'
  BY <1>1, <1>2, KHNoRemoteIsRemote DEF KHInv, KHCalls, KHEndsAreOver, KH!Ends
<1>7. KHLiveIsTold'
  BY <1>2, <1>5 DEF KHInv, KHLiveIsTold
<1>8. KHAppsFollow' /\ KHKnownFollows'
  <2>1. \A a, b \in Host : KHLive(a, b)' =>
          KHLive(a, b) /\ inbox'[a][b] = inbox[a][b] /\ remote'[a][b] = remote[a][b]
    BY <1>2, <1>3, <1>5
  <2>2. removed \subseteq removed' /\ UNCHANGED <<apps, known>>
    BY <1>1
  <2> QED
    BY <1>4, <2>1, <2>2, KHNothingNewIsLive
<1> QED
  BY <1>4, <1>6, <1>7, <1>8 DEF KHInv

LEMMA KHRestartStep ==
  ASSUME KHInv, NEW h \in Host, KH!Restart(h)
  PROVE  KHInv'
<1>1. /\ known' \in [Host -> [Key -> SUBSET Host]]
      /\ \A b \in Host : b # h => known'[b] = known[b]
  <2>1. PICK read \in [Key -> SUBSET Host] :
          known' = [known EXCEPT ![h] =
                      [k \in Key |-> read[k] \cup IF k \in apps[h] THEN {h} ELSE {}]]
    BY DEF KH!Restart
  <2>2. [k \in Key |-> read[k] \cup IF k \in apps[h] THEN {h} ELSE {}] \in [Key -> SUBSET Host]
    OBVIOUS
  <2> QED
    BY <2>1, <2>2 DEF KHInv, KHTypes
<1>2. /\ remote' = [x \in Host |-> [y \in Host |->
                     IF h \in {x, y} THEN KH!NoRemote ELSE remote[x][y]]]
      /\ inbox' = [x \in Host |-> [y \in Host |-> IF h \in {x, y} THEN <<>> ELSE inbox[x][y]]]
      /\ calls' \subseteq calls /\ deaf' = {d \in deaf : h \notin {d[1], d[2]}}
      /\ UNCHANGED <<apps, removed>>
  BY DEF KH!Restart
<1>3. /\ remote' \in [Host -> [Host -> KHRemotes]]
      /\ \A a, b \in Host :
           remote'[a][b] = IF h \in {a, b} THEN KH!NoRemote ELSE remote[a][b]
  BY <1>2, KHNoRemoteIsRemote DEF KHInv, KHTypes
<1>4. /\ inbox' \in [Host -> [Host -> Seq(KH!Change)]]
      /\ \A a, b \in Host : h \notin {a, b} => inbox'[a][b] = inbox[a][b]
  <2>1. <<>> \in Seq(KH!Change)
    OBVIOUS
  <2> QED
    BY <1>2, <2>1 DEF KHInv, KHTypes
<1>5. KHTypes'
  BY <1>1, <1>2, <1>3, <1>4 DEF KHInv, KHTypes
<1>6. \A a, b \in Host : KHLive(a, b)' => KHLive(a, b) /\ h \notin {a, b}
  BY <1>2, <1>3, KHNoRemoteIsRemote DEF KHLive
<1>7. KHCalls' /\ KHEndsAreOver'
  BY <1>2, <1>3, KHNoRemoteIsRemote DEF KHInv, KHCalls, KHEndsAreOver, KH!Ends
<1>8. KHLiveIsTold'
  BY <1>3, <1>6 DEF KHInv, KHLiveIsTold
<1>9. KHAppsFollow' /\ KHKnownFollows'
  BY <1>1, <1>2, <1>3, <1>4, <1>5, <1>6, KHNothingNewIsLive
<1> QED
  BY <1>5, <1>7, <1>8, <1>9 DEF KHInv

(* An operator removes a host: from here on it does not count. *)
LEMMA KHRemoveKnownHostStep ==
  ASSUME KHInv, NEW h \in Host, NEW x \in Host, NEW f, KH!RemoveKnownHost(h, x, f)
  PROVE  KHInv'
<1>1. /\ removed' = removed \cup {x}
      /\ calls' = calls \cup
           {[call |-> "remove", from |-> h, at |-> g, host |-> x, filter |-> f] :
              g \in {h} \cup {y \in Host : remote[h][y].actor}}
      /\ UNCHANGED <<apps, known, remote, inbox, deaf>>
  BY DEF KH!RemoveKnownHost
<1>2. KHTypes'
  BY <1>1 DEF KHInv, KHTypes
<1>3. KHCalls'
  BY <1>1 DEF KHInv, KHCalls, KH!Ends
<1>4. KHEndsAreOver' /\ KHLiveIsTold'
  BY <1>1 DEF KHInv, KHEndsAreOver, KHLiveIsTold, KHLive, KH!Ends
<1>5. KHAppsFollow' /\ KHKnownFollows'
  BY <1>1, <1>2, KHNothingNewIsLive DEF KHLive
<1> QED
  BY <1>2, <1>3, <1>4, <1>5 DEF KHInv

LEMMA KHKnownHostRemovedStep ==
  ASSUME KHInv, NEW c \in calls, KH!KnownHostRemoved(c)
  PROVE  KHInv'
<1>1. c.at \in Host /\ c.host \in removed
  BY DEF KHInv, KHCalls, KH!KnownHostRemoved, KH!Ends
<1> DEFINE h == c.at
<1>2. /\ \A sets \in [Key -> SUBSET Host] :
           KH!Without(sets, c.host, c.filter) \in [Key -> SUBSET Host]
      /\ \A sets \in [Key -> SUBSET Host] : \A k \in Key : \A x \in Host \ removed :
           x \in KH!Without(sets, c.host, c.filter)[k] <=> x \in sets[k]
  BY <1>1 DEF KH!Without
<1>3. calls' \subseteq calls /\ UNCHANGED <<apps, inbox, removed, deaf>>
  BY DEF KH!KnownHostRemoved
<1>4. CASE UNCHANGED <<known, remote>>
  BY <1>3, <1>4 DEF KHInv, KHTypes, KHCalls, KHEndsAreOver, KHLiveIsTold, KHAppsFollow,
     KHKnownFollows, KHLive, KH!Ends, KHAppTold, KHAppSaid, KHHostTold, KHHostSaid
<1>5. CASE /\ known' = [known EXCEPT ![h] = KH!Without(@, c.host, c.filter)]
           /\ remote' = [remote EXCEPT ![h] = [g \in Host |->
                           [remote[h][g] EXCEPT !.known =
                              KH!Without(remote[h][g].known, c.host, c.filter)]]]
  <2>1. /\ known' \in [Host -> [Key -> SUBSET Host]]
        /\ \A b \in Host : \A k \in Key : \A x \in Host \ removed :
             x \in known'[b][k] <=> x \in known[b][k]
    <3>1. /\ known \in [Host -> [Key -> SUBSET Host]]
          /\ KH!Without(known[h], c.host, c.filter) \in [Key -> SUBSET Host]
      BY <1>1, <1>2 DEF KHInv, KHTypes
    <3>2. /\ known' \in [Host -> [Key -> SUBSET Host]]
          /\ known'[h] = KH!Without(known[h], c.host, c.filter)
          /\ \A b \in Host : b # h => known'[b] = known[b]
      BY <1>1, <1>5, <3>1
    <3> QED
      BY <1>1, <1>2, <3>1, <3>2
  <2>2. /\ remote' \in [Host -> [Host -> KHRemotes]]
        /\ \A a, b \in Host :
             /\ remote'[a][b].actor = remote[a][b].actor
             /\ remote'[a][b].listener = remote[a][b].listener
             /\ remote'[a][b].apps = remote[a][b].apps
             /\ \A k \in Key : \A x \in Host \ removed :
                  x \in remote'[a][b].known[k] <=> x \in remote[a][b].known[k]
    <3> DEFINE new(g) == [remote[h][g] EXCEPT !.known =
                            KH!Without(remote[h][g].known, c.host, c.filter)]
    <3>1. ASSUME NEW g \in Host
          PROVE  /\ new(g) \in KHRemotes /\ new(g).actor = remote[h][g].actor
                 /\ new(g).listener = remote[h][g].listener /\ new(g).apps = remote[h][g].apps
                 /\ \A k \in Key : \A x \in Host \ removed :
                      x \in new(g).known[k] <=> x \in remote[h][g].known[k]
      <4>1. remote[h][g] \in KHRemotes /\ remote[h][g].known \in [Key -> SUBSET Host]
        BY <1>1 DEF KHInv, KHTypes, KHRemotes
      <4>2. KH!Without(remote[h][g].known, c.host, c.filter) \in [Key -> SUBSET Host]
        BY <1>2, <4>1
      <4>3. new(g) \in KHRemotes /\ new(g).known = KH!Without(remote[h][g].known, c.host, c.filter)
            /\ new(g).actor = remote[h][g].actor /\ new(g).listener = remote[h][g].listener
            /\ new(g).apps = remote[h][g].apps
        BY <4>1, <4>2 DEF KHRemotes
      <4> QED
        BY <1>2, <4>1, <4>3
    <3>2. remote' = [remote EXCEPT ![h] = [g \in Host |-> new(g)]]
      BY <1>5
    <3>3. remote \in [Host -> [Host -> KHRemotes]]
      BY DEF KHInv, KHTypes
    <3> HIDE DEF new
    <3>4. /\ remote' \in [Host -> [Host -> KHRemotes]]
          /\ \A b \in Host : remote'[h][b] = new(b)
          /\ \A a, b \in Host : a # h => remote'[a][b] = remote[a][b]
      BY <1>1, <3>1, <3>2, <3>3
    <3> QED
      BY <3>1, <3>4
  <2>3. KHTypes'
    BY <1>3, <2>1, <2>2 DEF KHInv, KHTypes
  <2>4. KHCalls' /\ KHEndsAreOver' /\ KHLiveIsTold'
    <3>1. KHCalls'
      BY <1>3 DEF KHInv, KHCalls, KH!Ends
    <3>2. KHEndsAreOver'
      BY <1>3, <2>2 DEF KHInv, KHEndsAreOver, KH!Ends
    <3>3. KHLiveIsTold'
      BY <1>3, <2>2 DEF KHInv, KHLiveIsTold, KHLive
    <3> QED
      BY <3>1, <3>2, <3>3
  <2>5. KHAppsFollow' /\ KHKnownFollows'
    BY <1>3, <2>1, <2>2, <2>3, KHNothingNewIsLive DEF KHLive
  <2> QED
    BY <2>3, <2>4, <2>5 DEF KHInv
<1> QED
  <2>1. \/ UNCHANGED <<known, remote>>
        \/ /\ known' = [known EXCEPT ![h] = KH!Without(@, c.host, c.filter)]
           /\ remote' = [remote EXCEPT ![h] = [g \in Host |->
                [remote[h][g] EXCEPT !.known =
                              KH!Without(remote[h][g].known, c.host, c.filter)]]]
    BY DEF KH!KnownHostRemoved
  <2>2. CASE UNCHANGED <<known, remote>>
    BY <1>4, <2>2
  <2>3. CASE ~UNCHANGED <<known, remote>>
    BY <1>5, <2>1, <2>3
  <2> QED
    BY <2>2, <2>3


(* A new subscription: whatever is under way, its first change tells everything. *)
LEMMA KHConnectStep ==
  ASSUME KHInv, NEW h \in Host, NEW g \in Host, KH!Connect(h, g)
  PROVE  KHInv'
<1>1. KHTypes /\ KHCalls /\ KHEndsAreOver /\ KHLiveIsTold /\ KHAppsFollow /\ KHKnownFollows
  BY DEF KHInv
<1> DEFINE first == [initial |-> TRUE, update |-> apps[g], remove |-> {}, known |-> known[g]]
           m == <<first>>
           r1 == [remote EXCEPT ![h][g].actor = TRUE]
           r2 == [r1 EXCEPT ![h][g].initial = FALSE]
<1>2. /\ remote' = [r2 EXCEPT ![g][h].listener = TRUE]
      /\ inbox' = [inbox EXCEPT ![h][g] = Append(@, first)]
      /\ calls' = calls \ {KH!Ends(h, g)} /\ deaf' = deaf \ {<<h, g>>}
      /\ UNCHANGED <<apps, known, removed>>
  BY DEF KH!Connect
<1>3. /\ r1 \in [Host -> [Host -> KHRemotes]]
      /\ \A a, b \in Host : /\ r1[a][b].apps = remote[a][b].apps
                            /\ r1[a][b].known = remote[a][b].known
                            /\ r1[a][b].listener = remote[a][b].listener
                            /\ <<a, b>> # <<h, g>> => r1[a][b].actor = remote[a][b].actor
  <2> DEFINE new == [remote[h][g] EXCEPT !.actor = TRUE]
  <2>1. remote \in [Host -> [Host -> KHRemotes]] /\ remote[h][g] \in KHRemotes
    BY <1>1 DEF KHTypes
  <2>2. /\ new \in KHRemotes /\ new.apps = remote[h][g].apps /\ new.known = remote[h][g].known
        /\ new.listener = remote[h][g].listener
    BY <2>1 DEF KHRemotes
  <2>3. r1 = [remote EXCEPT ![h][g] = new]
    BY <2>1
  <2> HIDE DEF new, r1
  <2>4. /\ r1 \in [Host -> [Host -> KHRemotes]] /\ r1[h][g] = new
        /\ \A a, b \in Host : <<a, b>> # <<h, g>> => r1[a][b] = remote[a][b]
    BY <2>1, <2>2, <2>3
  <2>5. ASSUME NEW a \in Host, NEW b \in Host
        PROVE  /\ r1[a][b].apps = remote[a][b].apps
               /\ r1[a][b].known = remote[a][b].known
               /\ r1[a][b].listener = remote[a][b].listener
    <3>1. CASE <<a, b>> = <<h, g>>
      BY <2>2, <2>4, <3>1
    <3>2. CASE <<a, b>> # <<h, g>>
      BY <2>4, <3>2
    <3> QED
      BY <3>1, <3>2
  <2> QED
    BY <2>4, <2>5
<1> HIDE DEF r1
<1>4. /\ r2 \in [Host -> [Host -> KHRemotes]]
      /\ \A a, b \in Host : /\ r2[a][b].apps = remote[a][b].apps
                            /\ r2[a][b].known = remote[a][b].known
                            /\ r2[a][b].listener = remote[a][b].listener
                            /\ <<a, b>> # <<h, g>> => r2[a][b].actor = remote[a][b].actor
  <2> DEFINE new == [r1[h][g] EXCEPT !.initial = FALSE]
  <2>1. r1[h][g] \in KHRemotes
    BY <1>3
  <2>2. /\ new \in KHRemotes /\ new.apps = r1[h][g].apps /\ new.known = r1[h][g].known
        /\ new.listener = r1[h][g].listener
    BY <2>1 DEF KHRemotes
  <2>3. r2 = [r1 EXCEPT ![h][g] = new]
    BY <1>3
  <2> HIDE DEF new, r2
  <2>4. /\ r2 \in [Host -> [Host -> KHRemotes]] /\ r2[h][g] = new
        /\ \A a, b \in Host : <<a, b>> # <<h, g>> => r2[a][b] = r1[a][b]
    BY <1>3, <2>2, <2>3
  <2>5. ASSUME NEW a \in Host, NEW b \in Host
        PROVE  /\ r2[a][b].apps = r1[a][b].apps
               /\ r2[a][b].known = r1[a][b].known
               /\ r2[a][b].listener = r1[a][b].listener
    <3>1. CASE <<a, b>> = <<h, g>>
      BY <2>2, <2>4, <3>1
    <3>2. CASE <<a, b>> # <<h, g>>
      BY <2>4, <3>2
    <3> QED
      BY <3>1, <3>2
  <2> QED
    BY <1>3, <2>4, <2>5
<1> HIDE DEF r2
<1>5. /\ remote' \in [Host -> [Host -> KHRemotes]] /\ remote'[g][h].listener
      /\ \A a, b \in Host :
           /\ remote'[a][b].apps = remote[a][b].apps
           /\ remote'[a][b].known = remote[a][b].known
           /\ <<a, b>> # <<h, g>> => remote'[a][b].actor = remote[a][b].actor
           /\ remote[a][b].listener => remote'[a][b].listener
  <2> DEFINE new == [r2[g][h] EXCEPT !.listener = TRUE]
  <2>1. r2[g][h] \in KHRemotes
    BY <1>4
  <2>2. /\ new \in KHRemotes /\ new.apps = r2[g][h].apps /\ new.known = r2[g][h].known
        /\ new.actor = r2[g][h].actor /\ new.listener
    BY <2>1 DEF KHRemotes
  <2>3. remote' = [r2 EXCEPT ![g][h] = new]
    BY <1>2, <1>4
  <2> HIDE DEF new
  <2>4. /\ remote' \in [Host -> [Host -> KHRemotes]] /\ remote'[g][h] = new
        /\ \A a, b \in Host : <<a, b>> # <<g, h>> => remote'[a][b] = r2[a][b]
    BY <1>4, <2>2, <2>3
  <2>5. ASSUME NEW a \in Host, NEW b \in Host
        PROVE  /\ remote'[a][b].apps = r2[a][b].apps
               /\ remote'[a][b].known = r2[a][b].known
               /\ remote'[a][b].actor = r2[a][b].actor
               /\ r2[a][b].listener => remote'[a][b].listener
    <3>1. CASE <<a, b>> = <<g, h>>
      BY <2>2, <2>4, <3>1
    <3>2. CASE <<a, b>> # <<g, h>>
      BY <2>4, <3>2
    <3> QED
      BY <3>1, <3>2
  <2>6. remote'[g][h].listener
    BY <2>2, <2>4
  <2>7. ASSUME NEW a \in Host, NEW b \in Host
        PROVE  /\ remote'[a][b].apps = remote[a][b].apps
               /\ remote'[a][b].known = remote[a][b].known
               /\ <<a, b>> # <<h, g>> => remote'[a][b].actor = remote[a][b].actor
               /\ remote[a][b].listener => remote'[a][b].listener
    BY <1>4, <2>5
  <2> QED
    BY <2>4, <2>6, <2>7
<1>6. first \in KH!Change
  BY <1>1 DEF KHTypes, KH!Change
<1>7. /\ first.initial /\ first.update = apps[g] /\ first.remove = {}
      /\ first.known = known[g]
  OBVIOUS
<1> HIDE DEF first
<1>8. /\ inbox[h][g] \in Seq(KH!Change) /\ m \in Seq(KH!Change) /\ Len(m) = 1 /\ m[1] = first
      /\ Append(inbox[h][g], first) = inbox[h][g] \o m /\ inbox[h][g] \o m \in Seq(KH!Change)
  <2>1. inbox[h][g] \in Seq(KH!Change)
    BY <1>1 DEF KHTypes
  <2> QED
    BY <1>6, <2>1
<1> HIDE DEF m
<1>9. /\ inbox' \in [Host -> [Host -> Seq(KH!Change)]] /\ inbox'[h][g] = inbox[h][g] \o m
      /\ \A a, b \in Host : <<a, b>> # <<h, g>> => inbox'[a][b] = inbox[a][b]
  BY <1>1, <1>2, <1>8 DEF KHTypes
<1>10. KHTypes'
  BY <1>1, <1>2, <1>5, <1>9 DEF KHTypes
<1>11. \A a, b \in Host : <<a, b>> # <<h, g>> => (KHLive(a, b)' => KHLive(a, b))
  BY <1>2, <1>5 DEF KHLive
<1>12. KHCalls'
  BY <1>1, <1>2 DEF KHCalls, KH!Ends
<1>13. KHEndsAreOver'
  BY <1>1, <1>2, <1>5 DEF KHEndsAreOver, KH!Ends
<1>14. KHLiveIsTold'
  <2>1. \A a, b \in Host : KHLive(a, b)' => remote'[b][a].listener
    <3> TAKE a, b \in Host
    <3>1. CASE <<a, b>> = <<h, g>>
      BY <1>5, <3>1
    <3>2. CASE <<a, b>> # <<h, g>>
      BY <1>1, <1>5, <1>11, <3>2 DEF KHLiveIsTold
    <3> QED
      BY <3>1, <3>2
  <2> QED
    BY <2>1 DEF KHLiveIsTold
<1>15. ASSUME NEW a \in Host, NEW b \in Host, KHLive(a, b)', NEW k \in Key
       PROVE  KHFollows(inbox'[a][b], KHAppTold(k), KHAppSaid(k), k, remote'[a][b].apps, apps[b])
  <2>1. CASE <<a, b>> = <<h, g>>
    <3> DEFINE was == remote'[a][b].apps
    <3> HIDE DEF was
    <3>1. m[1] \in KHAppTold(k) /\ (m[1] \in KHAppSaid(k) <=> k \in apps[g])
      BY <1>6, <1>8, <1>7 DEF KHAppTold, KHAppSaid
    <3>2. /\ 1 \in 1 .. Len(m)
          /\ \A i \in 1 .. Len(m) :
               m[i] \in KHAppTold(k) => (m[i] \in KHAppSaid(k) <=> k \in apps[g])
      BY <1>8, <3>1
    <3>3. KHFollows(inbox[h][g] \o m, KHAppTold(k), KHAppSaid(k), k, was, apps[g])
      BY <1>8, <3>1, <3>2, KHFollowsTold
    <3> QED
      BY <1>9, <2>1, <3>3 DEF was
  <2>2. CASE <<a, b>> # <<h, g>>
    BY <1>1, <1>5, <1>9, <1>11, <1>15, <2>2 DEF KHAppsFollow
  <2> QED
    BY <2>1, <2>2
<1>16. KHAppsFollow'
  BY <1>2, <1>15 DEF KHAppsFollow, KHAppTold, KHAppSaid
<1>17. ASSUME NEW a \in Host, NEW b \in Host, KHLive(a, b)', NEW k \in Key,
              NEW x \in Host \ removed
       PROVE  KHFollows(inbox'[a][b], KHHostTold(k, x), KHHostSaid(k, x), x, remote'[a][b].known[k],
                      known[b][k])
  <2>1. CASE <<a, b>> = <<h, g>>
    <3> DEFINE was == remote'[a][b].known[k]
    <3> HIDE DEF was
    <3>1. m[1] \in KHHostTold(k, x) /\ (m[1] \in KHHostSaid(k, x) <=> x \in known[g][k])
      BY <1>6, <1>8, <1>7 DEF KHHostTold, KHHostSaid
    <3>2. /\ 1 \in 1 .. Len(m)
          /\ \A i \in 1 .. Len(m) :
               m[i] \in KHHostTold(k, x) => (m[i] \in KHHostSaid(k, x) <=> x \in known[g][k])
      BY <1>8, <3>1
    <3>3. KHFollows(inbox[h][g] \o m, KHHostTold(k, x), KHHostSaid(k, x), x, was, known[g][k])
      BY <1>8, <3>1, <3>2, KHFollowsTold
    <3> QED
      BY <1>9, <2>1, <3>3 DEF was
  <2>2. CASE <<a, b>> # <<h, g>>
    BY <1>1, <1>5, <1>9, <1>11, <1>17, <2>2 DEF KHKnownFollows
  <2> QED
    BY <2>1, <2>2
<1>18. KHKnownFollows'
  BY <1>2, <1>17 DEF KHKnownFollows, KHHostTold, KHHostSaid
<1> QED
  BY <1>10, <1>12, <1>13, <1>14, <1>16, <1>18 DEF KHInv

(* At first the hosts that are connected agree, and nothing is under way. *)
LEMMA KHInitHolds ==
  ASSUME KHConstants, KH!Init
  PROVE  KHInv
<1> DEFINE old(h) == IF h \in Together THEN [k \in Key |-> Together] ELSE [k \in Key |-> {h}]
           rem(h, g) == IF {h, g} \subseteq Together /\ h # g
                        THEN [actor |-> TRUE, listener |-> TRUE,
                              initial |-> TRUE, apps |-> apps[g], known |-> old(g)]
                        ELSE KH!NoRemote
<1>1. /\ apps = [h \in Host |-> Key] /\ known = [h \in Host |-> old(h)]
      /\ remote = [h \in Host |-> [g \in Host |-> rem(h, g)]]
      /\ inbox = [h \in Host |-> [g \in Host |-> <<>>]]
      /\ calls = {} /\ removed = {} /\ deaf = {}
  BY DEF KH!Init
<1>2. \A h \in Host : old(h) \in [Key -> SUBSET Host]
  BY DEF KHConstants
<1>3. \A h \in Host : apps[h] = Key /\ known[h] = old(h)
  BY <1>1
<1> HIDE DEF old
<1>4. ASSUME NEW h \in Host, NEW g \in Host
      PROVE  /\ rem(h, g) \in KHRemotes
             /\ rem(h, g).actor => /\ {h, g} \subseteq Together /\ h # g
                                   /\ rem(h, g).apps = Key /\ rem(h, g).known = old(g)
             /\ {h, g} \subseteq Together /\ h # g => rem(h, g).listener
  <2>1. CASE {h, g} \subseteq Together /\ h # g
    <3>1. rem(h, g) = [actor |-> TRUE, listener |-> TRUE,
                       initial |-> TRUE, apps |-> Key, known |-> old(g)]
      BY <1>3, <2>1
    <3> QED
      BY <1>2, <2>1, <3>1 DEF KHRemotes
  <2>2. CASE ~({h, g} \subseteq Together /\ h # g)
    <3>1. rem(h, g) = KH!NoRemote
      BY <2>2
    <3> QED
      BY <2>2, <3>1, KHNoRemoteIsRemote
  <2> QED
    BY <2>1, <2>2
<1>5. \A h, g \in Host : remote[h][g] = rem(h, g)
  BY <1>1
<1>6. <<>> \in Seq(KH!Change) /\ \A h, g \in Host : inbox[h][g] = <<>>
  BY <1>1
<1> HIDE DEF rem
<1>7. KHTypes
  <2>1. apps \in [Host -> SUBSET Key] /\ known \in [Host -> [Key -> SUBSET Host]]
    BY <1>1, <1>2
  <2>2. remote \in [Host -> [Host -> KHRemotes]]
    BY <1>1, <1>4
  <2>3. inbox \in [Host -> [Host -> Seq(KH!Change)]]
    BY <1>1, <1>6
  <2> QED
    BY <2>1, <2>2, <2>3 DEF KHTypes
<1>8. KHCalls /\ KHEndsAreOver
  BY <1>1 DEF KHCalls, KHEndsAreOver
<1>9. KHLiveIsTold
  BY <1>4, <1>5 DEF KHLiveIsTold, KHLive
<1>10. Len(<<>>) = 0
  OBVIOUS
<1>11. KHAppsFollow
  <2>1. ASSUME NEW h \in Host, NEW g \in Host, KHLive(h, g), NEW k \in Key
        PROVE  KHFollows(inbox[h][g], KHAppTold(k), KHAppSaid(k), k, remote[h][g].apps, apps[g])
    <3>1. remote[h][g].apps = apps[g] /\ inbox[h][g] = <<>>
      BY <1>3, <1>4, <1>5, <1>6, <2>1 DEF KHLive
    <3> QED
      BY <3>1 DEF KHFollows
  <2> QED
    BY <2>1 DEF KHAppsFollow
<1>12. KHKnownFollows
  <2>1. ASSUME NEW h \in Host, NEW g \in Host, KHLive(h, g), NEW k \in Key, NEW x \in Host
        PROVE  KHFollows(inbox[h][g], KHHostTold(k, x), KHHostSaid(k, x), x, remote[h][g].known[k],
                       known[g][k])
    <3>1. remote[h][g].known[k] = known[g][k] /\ inbox[h][g] = <<>>
      BY <1>3, <1>4, <1>5, <1>6, <2>1 DEF KHLive
    <3> QED
      BY <3>1 DEF KHFollows
  <2> QED
    BY <2>1 DEF KHKnownFollows
<1> QED
  BY <1>7, <1>8, <1>9, <1>11, <1>12 DEF KHInv

LEMMA KHNextHolds ==
  ASSUME KHInv, KH!Next
  PROVE  KHInv'
<1>1. ASSUME NEW h \in Host, NEW k \in Key,
             KH!AppChanged(h, k) \/ KH!AppRemoved(h, k) \/ KH!StartWait(h, k)
      PROVE  KHInv'
  <2>1. CASE KH!AppChanged(h, k)
    BY <2>1, KHAppChangedStep
  <2>2. CASE KH!AppRemoved(h, k)
    BY <2>2, KHAppRemovedStep
  <2>3. CASE KH!StartWait(h, k)
    <3>1. UNCHANGED <<apps, known, remote, inbox, calls, removed, deaf>>
      BY <2>3 DEF KH!StartWait, KH!history
    <3> QED
      BY <3>1, KHStartWaitStep
  <2> QED
    BY <1>1, <2>1, <2>2, <2>3
<1>2. ASSUME NEW h \in Host, NEW g \in Host,
             \/ KH!Receive(h, g) \/ KH!Connect(h, g) \/ KH!Unsubscribe(h, g)
             \/ KH!RemoveTrust(h, g) \/ KH!Disconnect(h, g)
      PROVE  KHInv'
  BY <1>2, KHReceiveStep, KHConnectStep, KHUnsubscribeStep, KHRemoveTrustStep, KHDisconnectStep
<1>3. ASSUME NEW h \in Operators, NEW x \in Host, NEW f \in Filters, KH!RemoveKnownHost(h, x, f)
      PROVE  KHInv'
  <2>1. h \in Host
    BY <1>3 DEF KH!RemoveKnownHost, KH!Running
  <2> QED
    BY <1>3, <2>1, KHRemoveKnownHostStep
<1>4. ASSUME NEW c \in calls, KH!KnownHostRemoved(c) PROVE KHInv'
  BY <1>4, KHKnownHostRemovedStep
<1>5. ASSUME NEW h \in Host, KH!Restart(h) PROVE KHInv'
  BY <1>5, KHRestartStep
<1> QED
  BY <1>1, <1>2, <1>3, <1>4, <1>5 DEF KH!Next

LEMMA KHStays ==
  ASSUME KHInv, UNCHANGED khVars
  PROVE  KHInv'
BY KHStartWaitStep DEF khVars

(* A host that has nothing under way to it believes what is. *)
LEMMA KHHolds ==
  ASSUME KHInv
  PROVE  KH!ViewsAreTrue
<1> SUFFICES ASSUME NEW h \in Host, NEW g \in Host, remote[h][g].actor, inbox[h][g] = <<>>,
                    <<h, g>> \notin deaf
             PROVE  /\ remote[h][g].apps = apps[g]
                    /\ \A k \in Key : remote[h][g].known[k] \ removed = known[g][k] \ removed
  BY DEF KH!ViewsAreTrue
<1>1. KHTypes /\ KHLive(h, g) /\ KHAppsFollow /\ KHKnownFollows
  BY DEF KHInv, KHLive
<1>2. /\ remote[h][g].apps \subseteq Key /\ apps[g] \subseteq Key
      /\ \A k \in Key : remote[h][g].known[k] \subseteq Host /\ known[g][k] \subseteq Host
  <2>1. remote[h][g] \in KHRemotes /\ apps[g] \in SUBSET Key /\ known[g] \in [Key -> SUBSET Host]
    BY <1>1 DEF KHTypes
  <2> QED
    BY <2>1 DEF KHRemotes
<1>3. \A k \in Key : k \in remote[h][g].apps <=> k \in apps[g]
  <2> TAKE k \in Key
  <2>1. KHFollows(<<>>, KHAppTold(k), KHAppSaid(k), k, remote[h][g].apps, apps[g])
    BY <1>1 DEF KHAppsFollow
  <2> QED
    BY <2>1 DEF KHFollows
<1>4. \A k \in Key : \A x \in Host \ removed :
        x \in remote[h][g].known[k] <=> x \in known[g][k]
  <2> TAKE k \in Key
  <2> TAKE x \in Host \ removed
  <2>1. KHFollows(<<>>, KHHostTold(k, x), KHHostSaid(k, x), x, remote[h][g].known[k], known[g][k])
    BY <1>1 DEF KHKnownFollows
  <2> QED
    BY <2>1 DEF KHFollows
<1> QED
  BY <1>2, <1>3, <1>4

(* A step of all together is one of KnownHosts, when that is what runs, or leaves its
   variables alone. *)
LEMMA KHFrame ==
  ASSUME [Next]_vars, component' = "KnownHosts"
  PROVE  component = "KnownHosts" /\ (KH!Next \/ UNCHANGED khVars)
<1>1. CASE Next
  BY <1>1 DEF Next
<1>2. CASE UNCHANGED vars
  BY <1>2 DEF vars
<1> QED
  BY <1>1, <1>2

(* So the parts of its invariant hold from the first state on. *)
LEMMA KHAlways == Spec => [](component = "KnownHosts" => KHInv)
<1> DEFINE Inv == component = "KnownHosts" => KHInv
<1>1. Init => Inv
  BY KHAssumption, KHInitHolds DEF Init
<1>2. Inv /\ [Next]_vars => Inv'
  BY KHAssumption, KHFrame, KHNextHolds, KHStays
<1> QED
  BY <1>1, <1>2, PTL DEF Spec

-----------------------------------------------------------------------------
(* AppLifecycle *)

(* What applications, operations and stops are. *)
ALTypes ==
  /\ app \in [App -> AL!Application] /\ op \in [App -> {"none", "auto"} \cup AL!Kind]
  /\ stops \in SUBSET AL!Stop

(* A stop holds the application from its begin to its return, but when it only waited for
   another one. One holds it at a time, which m_bPendingStop says, and unless the application
   was launched late it does not count as launched meanwhile. *)
ALHolds(s) ==
  s.step \in {"dependents", "process"} \/ (s.step = "last" /\ s.result # "wait failed")
ALResultsAreLate ==
  \A s \in stops :
    /\ s.step \in {"begin", "queued", "woken", "process"} => s.result = "stopped"
    /\ s.step = "dependents" => s.result \in {"stopped", "dependents failed"}
ALOneHolds == \A s, t \in stops : s.app = t.app /\ ALHolds(s) /\ ALHolds(t) => s = t
ALHeldIsPending == \A s \in stops : ALHolds(s) => app[s.app].pendingStop
ALPendingIsHeld == \A a \in App : app[a].pendingStop => \E s \in stops : s.app = a /\ ALHolds(s)
ALPendingIsNotOk == \A a \in App : app[a].pendingStop /\ a \notin late => ~app[a].ok

(* An operation's stop is the only one of its operation, and nothing is launched while it
   lasts; a launch belongs to an operation. *)
ALStopsOperate ==
  \A s \in stops : s.cause = "operation" => op[s.app] \in {"stop", "restart"}
ALOneOperates ==
  \A s, t \in stops : s.cause = "operation" /\ t.cause = "operation" /\ s.app = t.app => s = t
ALLaunchesOperate ==
  \A a \in App : app[a].launch # "no" =>
    /\ op[a] \in {"auto", "start", "restart"}
    /\ \A s \in stops : s.app = a => s.cause # "operation"

(* What a user stops may not be launched, found the application running, and ends with no
   process; and so it stays when it is down. *)
ALStopIsFirst ==
  \A s \in stops : s.cause = "operation" /\ op[s.app] = "stop" =>
    /\ ~s.was
    /\ s.step = "last" /\ s.result = "stopped" => app[s.app].process = "none"
ALStopPrevents == \A a \in App : op[a] = "stop" => app[a].prevented
ALDownIsDown ==
  \A a \in down \cap App : app[a].prevented /\ app[a].process = "none" /\ app[a].launch = "no"

(* Unless an application was launched late, there is no stop of it while it counts as
   running; the first stop finds it so, begins before the others, and lasts as long as the
   process, unless it fails. *)
ALKills(s) ==
  /\ ~s.was
  /\ \/ s.step \in {"begin", "dependents", "process"}
     \/ s.step = "last" /\ s.result \in {"dependents failed", "process failed"}
ALStopsStop == \A s \in stops : s.app \notin late => app[s.app].stopped
ALFirstBegins ==
  \A s, t \in stops : s.app \notin late /\ s.app = t.app /\ s # t /\ ~s.was /\ s.step = "begin" =>
    t.was /\ t.step = "begin"
ALUpIsStopping ==
  \A a \in App : a \notin late \cup stuck /\ app[a].process = "up" /\ app[a].stopped =>
    \E s \in stops : s.app = a /\ ALKills(s)

(* What depends on an application that is being stopped is down, or its stop is under way. *)
ALDown(d) == app[d].process # "up" /\ app[d].stopped
ALWaits(s) == s.step = "dependents" /\ s.result = "stopped"
ALDependentsAreDown ==
  \A s \in stops : s.app \notin late /\ (s.step = "process" \/ ALWaits(s)) =>
    \A d \in AL!Dependents(s.app) :
      \/ d \in stuck \cup late \/ ALDown(d)
      \/ ALWaits(s) /\ \E x \in stops : x.app = d /\ x.cause = s.app

ALHoldInv == ALResultsAreLate /\ ALOneHolds /\ ALHeldIsPending /\ ALPendingIsHeld
  /\ ALPendingIsNotOk
ALOperateInv == ALStopsOperate /\ ALOneOperates /\ ALLaunchesOperate
ALDownInv == ALStopIsFirst /\ ALStopPrevents /\ ALDownIsDown
ALKillInv == ALStopsStop /\ ALFirstBegins /\ ALUpIsStopping
ALInnerInv == ALTypes /\ ALHoldInv /\ ALOperateInv /\ ALDownInv /\ ALKillInv /\ ALDependentsAreDown
ALInv == ALInnerInv /\ down \subseteq App

-----------------------------------------------------------------------------
LEMMA ALInitHolds ==
  ASSUME AL!Init
  PROVE  ALInv
<1>1. /\ stops = {} /\ down = {}
      /\ \A a \in App : /\ app[a].process = "none" /\ app[a].launch = "no" /\ ~app[a].pendingStop
                        /\ ~app[a].stopped /\ op[a] = "none"
  BY DEF AL!Init
<1>2. ALTypes
  BY DEF AL!Init, ALTypes, AL!Application
<1>3. ALHoldInv
  BY <1>1 DEF ALHoldInv, ALResultsAreLate, ALOneHolds, ALHeldIsPending, ALPendingIsHeld,
     ALPendingIsNotOk
<1>4. ALOperateInv /\ ALDownInv
  BY <1>1 DEF ALOperateInv, ALStopsOperate, ALOneOperates, ALLaunchesOperate, ALDownInv,
     ALStopIsFirst, ALStopPrevents, ALDownIsDown
<1>5. ALKillInv /\ ALDependentsAreDown
  BY <1>1 DEF ALKillInv, ALStopsStop, ALFirstBegins, ALUpIsStopping, ALDependentsAreDown
<1> QED
  BY <1>1, <1>2, <1>3, <1>4, <1>5 DEF ALInnerInv, ALInv

-----------------------------------------------------------------------------
(* What the operators make of an application and of a stop. *)
LEMMA ALLaunchingFacts ==
  ASSUME NEW a, NEW r \in AL!Application
  PROVE  LET n == AL!Launching(a, r)
         IN /\ n \in AL!Application /\ ~n.stopped /\ ~n.ok /\ n.pendingStop = r.pendingStop
            /\ n.prevented = r.prevented
BY DEF AL!Launching, AL!Application

LEMMA ALFailedFacts ==
  ASSUME NEW r \in AL!Application
  PROVE  LET n == AL!Failed(r)
         IN /\ n \in AL!Application /\ n.process # "up" /\ n.launch = "no" /\ ~n.ok
            /\ (r.process = "none" => n.process = "none")
            /\ n.stopped = r.stopped /\ n.pendingStop = r.pendingStop
            /\ n.prevented = r.prevented
BY DEF AL!Failed, AL!Application

LEMMA ALStoppingFacts ==
  ASSUME NEW r \in AL!Application, NEW prevent \in BOOLEAN
  PROVE  LET n == AL!Stopping(r, prevent)
         IN /\ n \in AL!Application /\ n.stopped /\ n.process = r.process /\ n.launch = r.launch
            /\ n.ok = r.ok /\ n.pendingStop = r.pendingStop
            /\ n.prevented = (r.prevented \/ prevent)
BY DEF AL!Stopping, AL!Application

LEMMA ALNewStopFacts ==
  ASSUME ALTypes, NEW a \in App, NEW cause \in AL!Cause, NEW auto \in BOOLEAN
  PROVE  LET n == AL!NewStop(a, cause, auto)
         IN /\ n \in AL!Stop /\ n.app = a /\ n.cause = cause /\ n.was = app[a].stopped
            /\ n.result = "stopped" /\ n.step = "begin"
BY DEF AL!NewStop, AL!Stop, AL!Result, ALTypes, AL!Application

(* A launch that ends answers its operation, which was not a stop. *)
LEMMA ALAnsweredFacts ==
  ASSUME ALInnerInv, NEW a \in App, NEW success \in BOOLEAN, AL!LaunchAnswered(a, success)
  PROVE  /\ op' \in [App -> {"none", "auto"} \cup AL!Kind] /\ down' = down
         /\ \A x \in App : x # a => op'[x] = op[x]
         /\ IF app[a].launch # "no"
            THEN op'[a] = "none" /\ \A s \in stops : s.app = a => s.cause # "operation"
            ELSE op'[a] = op[a]
<1>1. CASE app[a].launch # "no"
  <2>1. op[a] # "stop" /\ \A s \in stops : s.app = a => s.cause # "operation"
    BY <1>1 DEF ALInnerInv, ALOperateInv, ALLaunchesOperate
  <2>2. op' = [op EXCEPT ![a] = "none"] /\ down' = down
    BY <1>1, <2>1 DEF AL!LaunchAnswered, AL!Ended, AL!Answer
  <2> QED
    BY <1>1, <2>1, <2>2 DEF ALInnerInv, ALTypes
<1>2. CASE app[a].launch = "no"
  BY <1>2 DEF AL!LaunchAnswered, AL!answers, ALInnerInv, ALTypes
<1> QED
  BY <1>1, <1>2

(* Whoever can be launched depends on nothing that is being stopped. *)
LEMMA ALOkIsNotStopping ==
  ASSUME ALInnerInv, NEW a \in App, \A d \in AL!DependenciesOf(a) : app[d].ok,
         NEW s \in stops, s.app \notin late, s.step = "process" \/ ALWaits(s)
  PROVE  a \notin AL!Dependents(s.app)
<1>1. s.app \in App /\ ALHolds(s)
  BY DEF ALInnerInv, ALTypes, AL!Stop, ALHolds, ALWaits
<1>2. ~app[s.app].ok
  BY <1>1 DEF ALInnerInv, ALHoldInv, ALHeldIsPending, ALPendingIsNotOk
<1> QED
  BY <1>1, <1>2 DEF AL!Dependents, AL!DependenciesOf

(* What concerns neither stops nor launches. *)
LEMMA ALQuietStep ==
  ASSUME ALInnerInv, ALTypes', UNCHANGED <<op, stops, stuck, late>>, down' \subseteq down,
         \A x \in App :
           /\ app'[x].process = app[x].process /\ app'[x].launch = app[x].launch
           /\ app'[x].stopped = app[x].stopped /\ app'[x].pendingStop = app[x].pendingStop
           /\ app'[x].ok => app[x].ok
           /\ app'[x].prevented = app[x].prevented \/ (x \notin down' /\ op[x] # "stop")
  PROVE  ALInnerInv'
<1>1. \A s \in stops : s.app \in App
  BY DEF ALInnerInv, ALTypes, AL!Stop
<1>2. ALHoldInv'
  BY <1>1 DEF ALInnerInv, ALHoldInv, ALResultsAreLate, ALOneHolds, ALHeldIsPending,
     ALPendingIsHeld, ALPendingIsNotOk, ALHolds
<1>3. ALOperateInv'
  BY DEF ALInnerInv, ALOperateInv, ALStopsOperate, ALOneOperates, ALLaunchesOperate
<1>4. ALDownInv'
  BY <1>1 DEF ALInnerInv, ALDownInv, ALStopIsFirst, ALStopPrevents, ALDownIsDown
<1>5. ALKillInv'
  <2>1. ALStopsStop' /\ ALFirstBegins'
    BY <1>1 DEF ALInnerInv, ALKillInv, ALStopsStop, ALFirstBegins
  <2>2. ALUpIsStopping'
    BY DEF ALInnerInv, ALKillInv, ALUpIsStopping, ALKills
  <2> QED
    BY <2>1, <2>2 DEF ALKillInv
<1>6. ALDependentsAreDown'
  BY DEF ALInnerInv, ALDependentsAreDown, ALWaits, ALDown, AL!Dependents
<1> QED
  BY <1>2, <1>3, <1>4, <1>5, <1>6 DEF ALInnerInv

LEMMA ALLaunchStep ==
  ASSUME ALInnerInv, ALTypes', NEW a \in App, op[a] = "none",
         \A d \in AL!DependenciesOf(a) : app[d].ok,
         UNCHANGED <<stops, stuck>>, down' \subseteq down, a \notin down',
         NEW kind \in {"auto", "start"}, op' = [op EXCEPT ![a] = kind],
         \A x \in App : x # a => app'[x] = app[x],
         app'[a].pendingStop = app[a].pendingStop, ~app'[a].stopped, ~app'[a].ok,
         AL!NotesLaunch(a)
  PROVE  ALInnerInv'
<1>1. \A s \in stops : s.app \in App
  BY DEF ALInnerInv, ALTypes, AL!Stop
<1>2. /\ \A x \in App : x # a => op'[x] = op[x]
      /\ op'[a] = kind
  BY DEF ALInnerInv, ALTypes
<1>3. late \subseteq late' /\ \A s \in stops : s.app = a => a \in late'
  BY DEF AL!NotesLaunch
<1>4. \A x \in late' : x # a => x \in late
  BY DEF AL!NotesLaunch
<1>5. ALHoldInv'
  <2>1. ALResultsAreLate' /\ ALOneHolds'
    BY DEF ALInnerInv, ALHoldInv, ALResultsAreLate, ALOneHolds, ALHolds
  <2>2. ALHeldIsPending' /\ ALPendingIsHeld' /\ ALPendingIsNotOk'
    BY <1>1, <1>3 DEF ALInnerInv, ALHoldInv, ALHeldIsPending, ALPendingIsHeld, ALPendingIsNotOk,
       ALHolds
  <2> QED
    BY <2>1, <2>2 DEF ALHoldInv
<1>6. \A s \in stops : s.app = a => s.cause # "operation"
  BY DEF ALInnerInv, ALOperateInv, ALStopsOperate
<1>7. ALOperateInv'
  BY <1>1, <1>2, <1>6 DEF ALInnerInv, ALOperateInv, ALStopsOperate, ALOneOperates,
     ALLaunchesOperate
<1>8. ALDownInv'
  BY <1>1, <1>2 DEF ALInnerInv, ALDownInv, ALStopIsFirst, ALStopPrevents, ALDownIsDown
<1>9. ALKillInv'
  <2>1. ALStopsStop' /\ ALFirstBegins'
    BY <1>1, <1>3, <1>4 DEF ALInnerInv, ALKillInv, ALStopsStop, ALFirstBegins
  <2>2. ASSUME NEW x \in App, x \notin late' \cup stuck, app'[x].process = "up", app'[x].stopped
        PROVE  \E s \in stops : s.app = x /\ ALKills(s)
    <3>1. x # a /\ app'[x] = app[x] /\ x \notin late
      BY <1>3, <2>2
    <3> QED
      BY <2>2, <3>1 DEF ALInnerInv, ALKillInv, ALUpIsStopping
  <2>3. ALUpIsStopping'
    BY <2>2 DEF ALUpIsStopping, ALKills
  <2> QED
    BY <2>1, <2>3 DEF ALKillInv
<1>10. ALDependentsAreDown'
  <2> SUFFICES ASSUME NEW s \in stops, s.app \notin late', s.step = "process" \/ ALWaits(s),
                      NEW d \in AL!Dependents(s.app)
               PROVE  \/ d \in stuck \cup late' \/ ALDown(d)'
                      \/ ALWaits(s) /\ \E x \in stops : x.app = d /\ x.cause = s.app
    BY DEF ALDependentsAreDown, ALWaits, AL!Dependents
  <2>1. d # a /\ d \in App
    BY <1>3, ALOkIsNotStopping DEF AL!Dependents
  <2> QED
    BY <1>3, <2>1 DEF ALInnerInv, ALDependentsAreDown, ALDown
<1> QED
  BY <1>5, <1>7, <1>8, <1>9, <1>10 DEF ALInnerInv

-----------------------------------------------------------------------------
(* What nothing but the flags is changed by. *)
LEMMA ALFlagsStep ==
  ASSUME ALInnerInv, \/ \E r \in Asked : AL!Ask(r[1], r[2]) \/ AL!WaitTimesOut(r[1], r[2])
               \/ AL!KeyManagerLost \/ AL!KeyManagerConnects
               \/ \E a \in App : AL!Relaunch(a)
  PROVE  ALInnerInv'
<1>1. UNCHANGED <<op, stops, stuck, late, down>>
  BY DEF AL!Ask, AL!WaitTimesOut, AL!KeyManagerLost, AL!KeyManagerConnects, AL!Relaunch,
     AL!answers
<1>2. app' = app \/ \E a \in App : app' = [app EXCEPT ![a].delay = FALSE]
  BY DEF AL!Ask, AL!WaitTimesOut, AL!KeyManagerLost, AL!KeyManagerConnects, AL!Relaunch
<1>3. ALTypes'
  <2>1. \A x \in App : [app[x] EXCEPT !.delay = FALSE] \in AL!Application
    BY DEF ALInnerInv, ALTypes, AL!Application
  <2> QED
    BY <1>1, <1>2, <2>1 DEF ALInnerInv, ALTypes
<1>4. \A x \in App :
        /\ app'[x].process = app[x].process /\ app'[x].launch = app[x].launch
        /\ app'[x].stopped = app[x].stopped /\ app'[x].pendingStop = app[x].pendingStop
        /\ app'[x].ok = app[x].ok /\ app'[x].prevented = app[x].prevented
  BY <1>2 DEF ALInnerInv, ALTypes, AL!Application
<1> QED
  BY <1>1, <1>3, <1>4, ALQuietStep

(* A first stop of an application, or another one when it counts as stopped already. *)
LEMMA ALNewStopStep ==
  ASSUME ALInnerInv, ALTypes', NEW a \in App, NEW u \in AL!Stop,
         u.app = a, u.was = app[a].stopped, u.step = "begin", u.result = "stopped",
         u.cause \in {"operation", "dependency"},
         u.cause = "dependency" => op' = op,
         u.cause = "operation" =>
           op[a] = "none" /\ \E kind \in {"stop", "restart"} : op' = [op EXCEPT ![a] = kind],
         stops' = stops \cup {u}, UNCHANGED <<stuck, late>>, down' \subseteq down,
         \A x \in App : x # a => app'[x] = app[x],
         app'[a].stopped, app'[a].process = app[a].process, app'[a].launch = app[a].launch,
         app'[a].pendingStop = app[a].pendingStop, app'[a].ok = app[a].ok,
         app[a].prevented => app'[a].prevented,
         op'[a] = "stop" /\ op[a] = "none" => app'[a].prevented /\ ~u.was
  PROVE  ALInnerInv'
<1>1. \A s \in stops : s.app \in App
  BY DEF ALInnerInv, ALTypes, AL!Stop
<1>2. \A x \in App : x # a => op'[x] = op[x]
  BY DEF ALInnerInv, ALTypes
<1>3. a \notin late /\ ~app[a].stopped => \A s \in stops : s.app # a
  BY DEF ALInnerInv, ALKillInv, ALStopsStop
<1>4. ALHoldInv'
  <2>1. ~ALHolds(u) /\ \A s \in stops' : s \in stops \/ s = u
    BY DEF ALHolds
  <2>2. ALResultsAreLate'
    BY <2>1 DEF ALInnerInv, ALHoldInv, ALResultsAreLate
  <2>3. ALOneHolds'
    BY <2>1 DEF ALInnerInv, ALHoldInv, ALOneHolds, ALHolds
  <2>4. \A x \in App : app'[x].pendingStop = app[x].pendingStop /\ app'[x].ok = app[x].ok
    OBVIOUS
  <2>5. ALHeldIsPending' /\ ALPendingIsNotOk'
    BY <1>1, <2>1, <2>4 DEF ALInnerInv, ALHoldInv, ALHeldIsPending, ALPendingIsNotOk, ALHolds
  <2>6. \A x \in App : app[x].pendingStop => \E s \in stops' : s.app = x /\ ALHolds(s)
    BY DEF ALInnerInv, ALHoldInv, ALPendingIsHeld
  <2>7. ALPendingIsHeld'
    BY <2>4, <2>6 DEF ALPendingIsHeld, ALHolds
  <2> QED
    BY <2>2, <2>3, <2>5, <2>7 DEF ALHoldInv
<1>5. \A x \in App : app'[x].process = app[x].process /\ app'[x].launch = app[x].launch
  OBVIOUS
<1>6. u.cause = "operation" =>
        op'[a] \in {"stop", "restart"} /\ \A s \in stops : s.app = a => s.cause # "operation"
  BY DEF ALInnerInv, ALTypes, ALOperateInv, ALStopsOperate
<1>7. u.cause = "operation" => app[a].launch = "no"
  BY DEF ALInnerInv, ALOperateInv, ALLaunchesOperate
<1>8. ALOperateInv'
  <2>1. ALStopsOperate' /\ ALOneOperates'
    BY <1>1, <1>2, <1>6 DEF ALInnerInv, ALOperateInv, ALStopsOperate, ALOneOperates
  <2>2. ALLaunchesOperate'
    BY <1>1, <1>2, <1>5, <1>7 DEF ALInnerInv, ALOperateInv, ALLaunchesOperate
  <2> QED
    BY <2>1, <2>2 DEF ALOperateInv
<1>9. ALDownInv'
  <2>1. u.cause = "operation" /\ op'[a] = "stop" => ~u.was
    OBVIOUS
  <2>2. \A s \in stops : s.cause = "operation" => op'[s.app] = op[s.app]
    BY <1>1, <1>2, <1>6
  <2>3. ALStopIsFirst'
    BY <1>1, <1>5, <2>1, <2>2 DEF ALInnerInv, ALDownInv, ALStopIsFirst
  <2>4. ALStopPrevents' /\ ALDownIsDown'
    BY <1>2, <1>5 DEF ALInnerInv, ALDownInv, ALStopPrevents, ALDownIsDown
  <2> QED
    BY <2>3, <2>4 DEF ALDownInv
<1>10. ALKillInv'
  <2>1. ALStopsStop'
    BY <1>1 DEF ALInnerInv, ALKillInv, ALStopsStop
  <2>2. ALFirstBegins'
    BY <1>1, <1>3, <2>1 DEF ALInnerInv, ALKillInv, ALStopsStop, ALFirstBegins
  <2>3. ASSUME NEW x \in App, x \notin late \cup stuck, app'[x].process = "up", app'[x].stopped
        PROVE  \E s \in stops' : s.app = x /\ ALKills(s)
    <3>1. CASE x = a /\ ~app[a].stopped
      BY <3>1 DEF ALKills
    <3>2. CASE ~(x = a /\ ~app[a].stopped)
      <4>1. app[x].process = "up" /\ app[x].stopped
        BY <2>3, <3>2
      <4> QED
        BY <2>3, <4>1 DEF ALInnerInv, ALKillInv, ALUpIsStopping
    <3> QED
      BY <3>1, <3>2
  <2>4. ALUpIsStopping'
    BY <2>3 DEF ALUpIsStopping, ALKills
  <2> QED
    BY <2>1, <2>2, <2>4 DEF ALKillInv
<1>11. ALDependentsAreDown'
  <2>1. ~ALWaits(u) /\ u.step # "process"
    BY DEF ALWaits
  <2>2. \A d \in App : ALDown(d) => ALDown(d)'
    BY DEF ALDown
  <2> SUFFICES ASSUME NEW s \in stops, s.app \notin late, s.step = "process" \/ ALWaits(s),
                      NEW d \in AL!Dependents(s.app)
               PROVE  \/ d \in stuck \cup late \/ ALDown(d)'
                      \/ ALWaits(s) /\ \E x \in stops' : x.app = d /\ x.cause = s.app
    BY <2>1 DEF ALDependentsAreDown, ALWaits, AL!Dependents
  <2> QED
    BY <2>2 DEF ALInnerInv, ALDependentsAreDown, AL!Dependents
<1> QED
  BY <1>4, <1>8, <1>9, <1>10, <1>11 DEF ALInnerInv

-----------------------------------------------------------------------------
(* The visits of fp_UpdateApplicationDependencies, and what users do. *)
LEMMA ALVisitStep ==
  ASSUME ALInnerInv, NEW a \in App, AL!Visit(a)
  PROVE  ALInnerInv'
<1>1. app[a] \in AL!Application
  BY DEF ALInnerInv, ALTypes
<1>2. stuck' = stuck /\ down' = down
  BY DEF AL!Visit, AL!answers
<1>3. CASE UNCHANGED <<app, op, stops, late>>
  BY <1>2, <1>3, ALQuietStep DEF ALInnerInv, ALTypes
<1>4. CASE UNCHANGED <<op, stops, late>> /\ app' = [app EXCEPT ![a].ok = FALSE]
  <2>1. ALTypes'
    BY <1>1, <1>4 DEF ALInnerInv, ALTypes, AL!Application
  <2> QED
    BY <1>2, <1>4, <2>1, ALQuietStep DEF ALInnerInv, ALTypes
<1>5. CASE /\ op[a] = "none" /\ AL!Satisfied(a) /\ UNCHANGED stops /\ AL!NotesLaunch(a)
           /\ op' = [op EXCEPT ![a] = "auto"]
           /\ app' = [app EXCEPT ![a] = AL!Launching(a, @)]
  <2>1. ALTypes'
    BY <1>1, <1>5, ALLaunchingFacts DEF ALInnerInv, ALTypes
  <2>2. a \notin down
    BY <1>5 DEF ALInnerInv, ALDownInv, ALDownIsDown, AL!Satisfied
  <2>3. \A d \in AL!DependenciesOf(a) : app[d].ok
    BY <1>5 DEF AL!Satisfied
  <2>4. /\ \A x \in App : x # a => app'[x] = app[x]
        /\ app'[a].pendingStop = app[a].pendingStop /\ ~app'[a].stopped /\ ~app'[a].ok
    BY <1>1, <1>5, ALLaunchingFacts DEF ALInnerInv, ALTypes
  <2> QED
    BY <1>2, <1>5, <2>1, <2>2, <2>3, <2>4, ALLaunchStep
<1>6. CASE /\ UNCHANGED <<op, late>> /\ stops' = stops \cup {AL!NewStop(a, "dependency", TRUE)}
           /\ app' = [app EXCEPT ![a] = AL!Stopping(@, FALSE)]
  <2> DEFINE u == AL!NewStop(a, "dependency", TRUE)
             new == AL!Stopping(app[a], FALSE)
  <2>0. "dependency" \in AL!Cause /\ ALTypes
    BY DEF ALInnerInv, AL!Cause
  <2>1. /\ u \in AL!Stop /\ u.app = a /\ u.cause = "dependency" /\ u.was = app[a].stopped
        /\ u.result = "stopped" /\ u.step = "begin"
    <3> HIDE DEF u
    <3>1. u = AL!NewStop(a, "dependency", TRUE)
      BY DEF u
    <3> QED
      BY <2>0, <3>1, ALNewStopFacts, ZenonT(60)
  <2>2. /\ new \in AL!Application /\ new.stopped /\ new.process = app[a].process
        /\ new.launch = app[a].launch /\ new.pendingStop = app[a].pendingStop
        /\ new.ok = app[a].ok /\ new.prevented = (app[a].prevented \/ FALSE)
    BY <1>1, ALStoppingFacts
  <2> HIDE DEF u, new
  <2>3. app' = [app EXCEPT ![a] = new] /\ stops' = stops \cup {u} /\ op' = op
    BY <1>6 DEF u, new
  <2>31. /\ u.cause \in {"operation", "dependency"} /\ (u.cause = "dependency" => op' = op)
         /\ u.cause = "operation" =>
              op[a] = "none" /\ \E kind \in {"stop", "restart"} : op' = [op EXCEPT ![a] = kind]
         /\ UNCHANGED <<stuck, late>> /\ down' \subseteq down
         /\ op'[a] = "stop" /\ op[a] = "none" => app'[a].prevented /\ ~u.was
    BY <1>2, <1>6, <2>1
  <2>4. ALTypes'
    BY <2>0, <2>1, <2>2, <2>3 DEF ALTypes
  <2>5. app'[a] = new /\ \A x \in App : x # a => app'[x] = app[x]
    BY <2>0, <2>3 DEF ALTypes
  <2>6. /\ app'[a].stopped /\ app'[a].process = app[a].process
        /\ app'[a].launch = app[a].launch /\ app'[a].pendingStop = app[a].pendingStop
        /\ app'[a].ok = app[a].ok /\ (app[a].prevented => app'[a].prevented)
    BY <2>2, <2>5
  <2> QED
    BY <2>1, <2>3, <2>31, <2>4, <2>5, <2>6, ALNewStopStep
<1> QED
  BY <1>3, <1>4, <1>5, <1>6 DEF AL!Visit

LEMMA ALStopAppStep ==
  ASSUME ALInnerInv, NEW a \in App, AL!StopApp(a) \/ AL!Restart(a)
  PROVE  ALInnerInv'
<1>1. app[a] \in AL!Application
  BY DEF ALInnerInv, ALTypes
<1>2. UNCHANGED <<stuck, late>> /\ down' \subseteq down /\ op[a] = "none"
  BY DEF AL!StopApp, AL!Restart, AL!answers
<1>3. CASE UNCHANGED <<app, op, stops>> /\ down' = down
  BY <1>2, <1>3, ALQuietStep DEF ALInnerInv, ALTypes
<1>4. ASSUME NEW prevent \in BOOLEAN, NEW kind \in {"stop", "restart"},
             op' = [op EXCEPT ![a] = kind], stops' = stops \cup {AL!NewStop(a, "operation", FALSE)},
             app' = [app EXCEPT ![a] = AL!Stopping(@, prevent)],
             kind = "stop" => prevent /\ ~app[a].stopped
      PROVE  ALInnerInv'
  <2> DEFINE u == AL!NewStop(a, "operation", FALSE)
             new == AL!Stopping(app[a], prevent)
  <2>0. "operation" \in AL!Cause /\ ALTypes /\ kind \in AL!Kind
    BY DEF ALInnerInv, AL!Cause, AL!Kind
  <2>1. /\ u \in AL!Stop /\ u.app = a /\ u.cause = "operation" /\ u.was = app[a].stopped
        /\ u.result = "stopped" /\ u.step = "begin"
    <3> HIDE DEF u
    <3>1. u = AL!NewStop(a, "operation", FALSE)
      BY DEF u
    <3> QED
      BY <2>0, <3>1, ALNewStopFacts, ZenonT(60)
  <2>2. /\ new \in AL!Application /\ new.stopped /\ new.process = app[a].process
        /\ new.launch = app[a].launch /\ new.pendingStop = app[a].pendingStop
        /\ new.ok = app[a].ok /\ new.prevented = (app[a].prevented \/ prevent)
    BY <1>1, ALStoppingFacts
  <2> HIDE DEF u, new
  <2>3. app' = [app EXCEPT ![a] = new] /\ stops' = stops \cup {u}
    BY <1>4 DEF u, new
  <2>4. ALTypes'
    BY <1>4, <2>0, <2>1, <2>2, <2>3, ZenonT(60) DEF ALTypes
  <2>5. app'[a] = new /\ op'[a] = kind /\ \A x \in App : x # a => app'[x] = app[x]
    BY <1>4, <2>0, <2>3 DEF ALTypes
  <2>6. /\ app'[a].stopped /\ app'[a].process = app[a].process
        /\ app'[a].launch = app[a].launch /\ app'[a].pendingStop = app[a].pendingStop
        /\ app'[a].ok = app[a].ok /\ (app[a].prevented => app'[a].prevented)
    BY <2>2, <2>5
  <2>7. /\ u.cause \in {"operation", "dependency"} /\ (u.cause = "dependency" => op' = op)
        /\ u.cause = "operation" =>
             op[a] = "none" /\ \E k \in {"stop", "restart"} : op' = [op EXCEPT ![a] = k]
        /\ UNCHANGED <<stuck, late>> /\ down' \subseteq down
    BY <1>2, <1>4, <2>1
  <2>8. op'[a] = "stop" /\ op[a] = "none" => app'[a].prevented /\ ~u.was
    BY <1>1, <1>4, <2>1, <2>2, <2>5 DEF AL!Application
  <2> QED
    BY <2>1, <2>3, <2>4, <2>5, <2>6, <2>7, <2>8, ALNewStopStep
<1> QED
  BY <1>3, <1>4 DEF AL!StopApp, AL!Restart, AL!answers

(* What fp_LaunchApp makes of an application that nobody operates. *)
LEMMA ALStartStep ==
  ASSUME ALInnerInv, NEW a \in App, AL!Start(a)
  PROVE  ALInnerInv'
<1>1. app[a] \in AL!Application
  BY DEF ALInnerInv, ALTypes
<1>2. UNCHANGED <<stops, stuck>> /\ op[a] = "none"
  BY DEF AL!Start
<1>3. CASE UNCHANGED <<app, op, late, AL!answers>>
  BY <1>2, <1>3, ALQuietStep DEF ALInnerInv, ALTypes, AL!answers
<1>4. CASE app[a].process = "none" /\ AL!TryLaunch(a, app[a], "start")
  <2> DEFINE clear == [app[a] EXCEPT !.prevented = FALSE, !.delay = FALSE]
  <2>1. /\ clear \in AL!Application /\ clear.pendingStop = app[a].pendingStop
        /\ clear.process = app[a].process /\ clear.launch = app[a].launch
        /\ clear.stopped = app[a].stopped /\ clear.ok = app[a].ok
    BY <1>1 DEF AL!Application
  <2>2. down' = down \ {a}
    BY <1>4 DEF AL!TryLaunch
  <2> HIDE DEF clear
  <2>3. CASE /\ \A d \in AL!DependenciesOf(a) : app[d].ok
             /\ app' = [app EXCEPT ![a] = AL!Launching(a, clear)]
             /\ op' = [op EXCEPT ![a] = "start"] /\ AL!NotesLaunch(a)
    <3>1. ALTypes'
      BY <1>2, <2>1, <2>3, ALLaunchingFacts DEF ALInnerInv, ALTypes, AL!Kind
    <3>2. /\ \A x \in App : x # a => app'[x] = app[x]
          /\ app'[a].pendingStop = app[a].pendingStop /\ ~app'[a].stopped /\ ~app'[a].ok
      BY <2>1, <2>3, ALLaunchingFacts DEF ALInnerInv, ALTypes
    <3> QED
      BY <1>2, <2>2, <2>3, <3>1, <3>2, ALLaunchStep
  <2>4. CASE /\ app' = [app EXCEPT ![a] = [clear EXCEPT !.ok = @ /\ app[a].process # "none"]]
             /\ op' = [op EXCEPT ![a] = "none"] /\ late' = late
    <3> DEFINE new == [clear EXCEPT !.ok = @ /\ app[a].process # "none"]
    <3>1. /\ new \in AL!Application /\ new.pendingStop = app[a].pendingStop
          /\ new.process = app[a].process /\ new.launch = app[a].launch
          /\ new.stopped = app[a].stopped /\ (new.ok => app[a].ok)
      BY <2>1 DEF AL!Application
    <3> HIDE DEF new
    <3>2. app' = [app EXCEPT ![a] = new] /\ op' = op
      BY <1>2, <2>4 DEF new, ALInnerInv, ALTypes
    <3>3. ALTypes'
      BY <1>2, <3>1, <3>2 DEF ALInnerInv, ALTypes
    <3> QED
      BY <1>2, <2>2, <2>4, <3>1, <3>2, <3>3, ALQuietStep DEF ALInnerInv, ALTypes
  <2> QED
    BY <1>4, <2>3, <2>4 DEF AL!TryLaunch, clear
<1> QED
  BY <1>3, <1>4 DEF AL!Start

-----------------------------------------------------------------------------
(* A launch that ends, or an application whose process goes away. *)
LEMMA ALEndsStep ==
  ASSUME ALInnerInv, ALTypes', NEW a \in App, NEW success \in BOOLEAN,
         AL!LaunchAnswered(a, success),
         UNCHANGED <<stops, stuck>>, late \subseteq late',
         \A x \in App : x # a => app'[x] = app[x],
         app'[a].stopped = app[a].stopped, app'[a].pendingStop = app[a].pendingStop,
         app'[a].prevented = app[a].prevented, app'[a].launch = "no",
         app'[a].process = "up" => app[a].process = "up",
         app[a].process = "none" => app'[a].process = "none",
         app'[a].ok /\ app[a].pendingStop => a \in late'
  PROVE  ALInnerInv'
<1>1. \A s \in stops : s.app \in App
  BY DEF ALInnerInv, ALTypes, AL!Stop
<1>2. /\ down' = down /\ \A x \in App : x # a => op'[x] = op[x]
      /\ IF app[a].launch # "no"
         THEN op'[a] = "none" /\ \A s \in stops : s.app = a => s.cause # "operation"
         ELSE op'[a] = op[a]
  BY ALAnsweredFacts
<1>3. ALHoldInv'
  <2>1. ALResultsAreLate' /\ ALOneHolds'
    BY DEF ALInnerInv, ALHoldInv, ALResultsAreLate, ALOneHolds, ALHolds
  <2>2. ALHeldIsPending' /\ ALPendingIsHeld' /\ ALPendingIsNotOk'
    BY <1>1 DEF ALInnerInv, ALHoldInv, ALHeldIsPending, ALPendingIsHeld, ALPendingIsNotOk,
       ALHolds
  <2> QED
    BY <2>1, <2>2 DEF ALHoldInv
<1>4. ALOperateInv'
  BY <1>1, <1>2 DEF ALInnerInv, ALOperateInv, ALStopsOperate, ALOneOperates, ALLaunchesOperate
<1>5. ALDownInv'
  BY <1>1, <1>2 DEF ALInnerInv, ALDownInv, ALStopIsFirst, ALStopPrevents, ALDownIsDown
<1>6. ALKillInv'
  <2>1. ALStopsStop' /\ ALFirstBegins'
    BY <1>1 DEF ALInnerInv, ALKillInv, ALStopsStop, ALFirstBegins
  <2>2. ASSUME NEW x \in App, x \notin late' \cup stuck, app'[x].process = "up", app'[x].stopped
        PROVE  \E s \in stops : s.app = x /\ ALKills(s)
    <3>1. app[x].process = "up" /\ app[x].stopped
      BY <2>2
    <3> QED
      BY <2>2, <3>1 DEF ALInnerInv, ALKillInv, ALUpIsStopping
  <2>3. ALUpIsStopping'
    BY <2>2 DEF ALUpIsStopping, ALKills
  <2> QED
    BY <2>1, <2>3 DEF ALKillInv
<1>7. ALDependentsAreDown'
  <2>1. \A d \in App : ALDown(d) => ALDown(d)'
    BY DEF ALDown
  <2> SUFFICES ASSUME NEW s \in stops, s.app \notin late', s.step = "process" \/ ALWaits(s),
                      NEW d \in AL!Dependents(s.app)
               PROVE  \/ d \in stuck \cup late' \/ ALDown(d)'
                      \/ ALWaits(s) /\ \E x \in stops : x.app = d /\ x.cause = s.app
    BY DEF ALDependentsAreDown, ALWaits, AL!Dependents
  <2> QED
    BY <2>1 DEF ALInnerInv, ALDependentsAreDown, AL!Dependents
<1> QED
  BY <1>3, <1>4, <1>5, <1>6, <1>7 DEF ALInnerInv

LEMMA ALFailsStep ==
  ASSUME ALInnerInv, NEW a \in App, AL!EncryptionFails(a) \/ AL!Exits(a)
  PROVE  ALInnerInv'
<1>1. app[a] \in AL!Application
  BY DEF ALInnerInv, ALTypes
<1>2. /\ app' = [app EXCEPT ![a] = AL!Failed(@)] /\ AL!LaunchAnswered(a, FALSE)
      /\ UNCHANGED <<stops, stuck, late>>
  BY DEF AL!EncryptionFails, AL!Exits
<1> DEFINE new == AL!Failed(app[a])
<1>3. /\ new \in AL!Application /\ new.process # "up" /\ new.launch = "no" /\ ~new.ok
      /\ (app[a].process = "none" => new.process = "none")
      /\ new.stopped = app[a].stopped /\ new.pendingStop = app[a].pendingStop
      /\ new.prevented = app[a].prevented
  BY <1>1, ALFailedFacts
<1>4. app' = [app EXCEPT ![a] = new]
  BY <1>2
<1> HIDE DEF new
<1>5. app'[a] = new /\ \A x \in App : x # a => app'[x] = app[x]
  BY <1>4 DEF ALInnerInv, ALTypes
<1>6. ALTypes'
  BY <1>2, <1>3, <1>4, ALAnsweredFacts DEF ALInnerInv, ALTypes
<1> QED
  BY <1>2, <1>3, <1>5, <1>6, ALEndsStep

LEMMA ALLaunchedStep ==
  ASSUME ALInnerInv, NEW a \in App, AL!Launched(a)
  PROVE  ALInnerInv'
<1>1. app[a] \in AL!Application
  BY DEF ALInnerInv, ALTypes
<1>2. PICK success \in BOOLEAN :
        /\ app' = [app EXCEPT ![a] = [@ EXCEPT !.launch = "no", !.ok = success]]
        /\ AL!LaunchAnswered(a, success) /\ late \subseteq late'
        /\ success /\ app[a].pendingStop => a \in late'
  BY <1>1 DEF AL!Launched, AL!Application
<1>3. UNCHANGED <<stops, stuck>>
  BY DEF AL!Launched
<1> DEFINE new == [app[a] EXCEPT !.launch = "no", !.ok = success]
<1>4. /\ new \in AL!Application /\ new.launch = "no" /\ new.ok = success
      /\ new.process = app[a].process /\ new.prevented = app[a].prevented
      /\ new.stopped = app[a].stopped /\ new.pendingStop = app[a].pendingStop
  BY <1>1 DEF AL!Application
<1>5. app' = [app EXCEPT ![a] = new]
  BY <1>2
<1> HIDE DEF new
<1>6. app'[a] = new /\ \A x \in App : x # a => app'[x] = app[x]
  BY <1>5 DEF ALInnerInv, ALTypes
<1>7. ALTypes'
  BY <1>2, <1>3, <1>4, <1>5, ALAnsweredFacts DEF ALInnerInv, ALTypes
<1> QED
  BY <1>2, <1>3, <1>4, <1>6, <1>7, ALEndsStep

(* Encryption that has been opened for an application that is being stopped makes it late. *)
LEMMA ALOpensStep ==
  ASSUME ALInnerInv, NEW a \in App, AL!EncryptionOpens(a)
  PROVE  ALInnerInv'
<1>1. app[a] \in AL!Application /\ app[a].launch = "opening"
  BY DEF ALInnerInv, ALTypes, AL!EncryptionOpens
<1>2. /\ UNCHANGED <<op, stops, stuck, down>>
      /\ late' = IF app[a].stopped THEN late \cup {a} ELSE late
      /\ app' = [app EXCEPT ![a] = [@ EXCEPT !.open = TRUE, !.launch = "starting",
                                             !.process = "up"]]
  BY DEF AL!EncryptionOpens, AL!answers
<1> DEFINE new == [app[a] EXCEPT !.open = TRUE, !.launch = "starting", !.process = "up"]
<1>3. /\ new \in AL!Application /\ new.launch = "starting" /\ new.ok = app[a].ok
      /\ new.prevented = app[a].prevented
      /\ new.stopped = app[a].stopped /\ new.pendingStop = app[a].pendingStop
  BY <1>1 DEF AL!Application
<1>4. app' = [app EXCEPT ![a] = new]
  BY <1>2
<1> HIDE DEF new
<1>5. app'[a] = new /\ \A x \in App : x # a => app'[x] = app[x]
  BY <1>4 DEF ALInnerInv, ALTypes
<1>6. ALTypes'
  BY <1>2, <1>3, <1>4 DEF ALInnerInv, ALTypes
<1>7. \A s \in stops : s.app \in App
  BY DEF ALInnerInv, ALTypes, AL!Stop
<1>8. late \subseteq late' /\ (app[a].stopped => a \in late')
  BY <1>2
<1>9. a \notin down /\ op[a] # "stop"
  BY <1>1 DEF ALInnerInv, ALOperateInv, ALLaunchesOperate, ALDownInv, ALDownIsDown
<1>10. ALHoldInv'
  <2>1. ALResultsAreLate' /\ ALOneHolds'
    BY <1>2 DEF ALInnerInv, ALHoldInv, ALResultsAreLate, ALOneHolds, ALHolds
  <2>2. ALHeldIsPending' /\ ALPendingIsHeld' /\ ALPendingIsNotOk'
    BY <1>2, <1>3, <1>5, <1>7, <1>8 DEF ALInnerInv, ALHoldInv, ALHeldIsPending, ALPendingIsHeld,
       ALPendingIsNotOk, ALHolds
  <2> QED
    BY <2>1, <2>2 DEF ALHoldInv
<1>11. ALOperateInv'
  BY <1>1, <1>2, <1>5, <1>7 DEF ALInnerInv, ALOperateInv, ALStopsOperate, ALOneOperates,
     ALLaunchesOperate
<1>12. ALDownInv'
  BY <1>2, <1>3, <1>5, <1>7, <1>9 DEF ALInnerInv, ALDownInv, ALStopIsFirst, ALStopPrevents,
     ALDownIsDown
<1>13. ALKillInv'
  <2>1. ALStopsStop' /\ ALFirstBegins'
    BY <1>2, <1>3, <1>5, <1>7, <1>8 DEF ALInnerInv, ALKillInv, ALStopsStop, ALFirstBegins
  <2>2. ASSUME NEW x \in App, x \notin late' \cup stuck, app'[x].process = "up", app'[x].stopped
        PROVE  \E s \in stops : s.app = x /\ ALKills(s)
    <3>1. x # a /\ app[x].process = "up" /\ app[x].stopped
      BY <1>3, <1>5, <1>8, <2>2
    <3> QED
      BY <1>8, <2>2, <3>1 DEF ALInnerInv, ALKillInv, ALUpIsStopping
  <2>3. ALUpIsStopping'
    BY <1>2, <2>2 DEF ALUpIsStopping, ALKills
  <2> QED
    BY <2>1, <2>3 DEF ALKillInv
<1>14. ALDependentsAreDown'
  <2>1. \A d \in App : ALDown(d) => ALDown(d)' \/ d \in late'
    BY <1>5, <1>8 DEF ALDown
  <2> SUFFICES ASSUME NEW s \in stops, s.app \notin late', s.step = "process" \/ ALWaits(s),
                      NEW d \in AL!Dependents(s.app)
               PROVE  \/ d \in stuck \cup late' \/ ALDown(d)'
                      \/ ALWaits(s) /\ \E x \in stops : x.app = d /\ x.cause = s.app
    BY <1>2 DEF ALDependentsAreDown, ALWaits, AL!Dependents
  <2> QED
    BY <1>8, <2>1 DEF ALInnerInv, ALDependentsAreDown, AL!Dependents
<1> QED
  BY <1>6, <1>10, <1>11, <1>12, <1>13, <1>14 DEF ALInnerInv

-----------------------------------------------------------------------------
(* A stop that goes on: to wait for another one, for the process or for its return. *)
LEMMA ALGoesOnStep ==
  ASSUME ALInnerInv, ALTypes', NEW s \in stops, NEW t \in AL!Stop,
         t.app = s.app, t.cause = s.cause, t.was = s.was,
         t.step \in {"queued", "process", "last"}, t.step # "last" => t.result = "stopped",
         ALHolds(t) <=> ALHolds(s),
         s.step = "begin" /\ s.was => \A x \in stops : x.app = s.app /\ x.step = "begin" => x.was,
         stops' = (stops \ {s}) \cup {t}, UNCHANGED <<stuck, late>>, down' = down,
         \A x \in App : x # s.app => app'[x] = app[x] /\ op'[x] = op[x],
         app'[s.app].stopped = app[s.app].stopped,
         app'[s.app].pendingStop = app[s.app].pendingStop,
         app'[s.app].prevented = app[s.app].prevented,
         app'[s.app].process = "up" => app[s.app].process = "up",
         app[s.app].process = "none" => app'[s.app].process = "none",
         app'[s.app].launch \in {"no", app[s.app].launch},
         app'[s.app].ok => app[s.app].ok,
         \/ op'[s.app] = op[s.app]
         \/ /\ op'[s.app] = "none" /\ app'[s.app].launch = "no"
            /\ \A x \in stops : x.app = s.app => x.cause # "operation",
         t.step = "last" /\ t.result = "stopped" => s.was \/ app'[s.app].process = "none",
         s.app \notin late /\ ALKills(s) => ALKills(t) \/ app'[s.app].process # "up",
         t.step = "process" /\ s.app \notin late =>
           \A d \in AL!Dependents(s.app) : d \in stuck \cup late \/ ALDown(d)
  PROVE  ALInnerInv'
<1>1. /\ \A x \in stops : x.app \in App
      /\ s.app \in App
  BY DEF ALInnerInv, ALTypes, AL!Stop
<1>2. \A x \in App : /\ app'[x].stopped = app[x].stopped
                     /\ app'[x].pendingStop = app[x].pendingStop
                     /\ app'[x].prevented = app[x].prevented
                     /\ app'[x].process = "up" => app[x].process = "up"
                     /\ app[x].process = "none" => app'[x].process = "none"
                     /\ app'[x].launch # "no" => app'[x].launch = app[x].launch
                     /\ app'[x].ok => app[x].ok
  OBVIOUS
<1>3. t \in stops' /\ \A x \in stops' : x # t => x \in stops /\ x # s
  OBVIOUS
<1>4. \A x \in stops : x # s => x \in stops'
  OBVIOUS
<1>5. ALHoldInv'
  <2>1. ALResultsAreLate'
    BY <1>3 DEF ALInnerInv, ALHoldInv, ALResultsAreLate
  <2>2. ALOneHolds'
    <3>1. \A x, y \in stops' : x.app = y.app /\ ALHolds(x) /\ ALHolds(y) => x = y
      BY <1>3 DEF ALInnerInv, ALHoldInv, ALOneHolds
    <3> QED
      BY <3>1 DEF ALOneHolds, ALHolds
  <2>3. ALHeldIsPending' /\ ALPendingIsNotOk'
    <3>1. \A x \in stops' : ALHolds(x) => app'[x.app].pendingStop
      BY <1>1, <1>2, <1>3 DEF ALInnerInv, ALHoldInv, ALHeldIsPending
    <3>2. ALPendingIsNotOk'
      BY <1>2 DEF ALInnerInv, ALHoldInv, ALPendingIsNotOk
    <3> QED
      BY <3>1, <3>2 DEF ALHeldIsPending, ALHolds
  <2>4. \A x \in App : app'[x].pendingStop => \E y \in stops' : y.app = x /\ ALHolds(y)
    BY <1>2, <1>3, <1>4 DEF ALInnerInv, ALHoldInv, ALPendingIsHeld
  <2>5. ALPendingIsHeld'
    BY <2>4 DEF ALPendingIsHeld, ALHolds
  <2> QED
    BY <2>1, <2>2, <2>3, <2>5 DEF ALHoldInv
<1>6. ALOperateInv'
  <2>1. ALStopsOperate'
    BY <1>1, <1>3 DEF ALInnerInv, ALOperateInv, ALStopsOperate
  <2>2. ALOneOperates'
    BY <1>3 DEF ALInnerInv, ALOperateInv, ALOneOperates
  <2>3. ALLaunchesOperate'
    BY <1>1, <1>2, <1>3 DEF ALInnerInv, ALOperateInv, ALLaunchesOperate
  <2> QED
    BY <2>1, <2>2, <2>3 DEF ALOperateInv
<1>7. ALDownInv'
  <2>1. \A x \in stops : x.cause = "operation" /\ op'[x.app] = "stop" => op[x.app] = "stop"
    BY <1>1
  <2>2. ALStopIsFirst'
    BY <1>1, <1>2, <1>3, <2>1 DEF ALInnerInv, ALDownInv, ALStopIsFirst
  <2>3. ALStopPrevents'
    BY <1>1, <1>2 DEF ALInnerInv, ALDownInv, ALStopPrevents
  <2>4. ALDownIsDown'
    BY <1>2 DEF ALInnerInv, ALDownInv, ALDownIsDown
  <2> QED
    BY <2>2, <2>3, <2>4 DEF ALDownInv
<1>8. ALKillInv'
  <2>1. ALStopsStop'
    BY <1>1, <1>2, <1>3 DEF ALInnerInv, ALKillInv, ALStopsStop
  <2>2. ALFirstBegins'
    BY <1>3 DEF ALInnerInv, ALKillInv, ALFirstBegins
  <2>3. ASSUME NEW x \in App, x \notin late \cup stuck, app'[x].process = "up", app'[x].stopped
        PROVE  \E y \in stops' : y.app = x /\ ALKills(y)
    <3>1. app[x].process = "up" /\ app[x].stopped
      BY <1>2, <2>3
    <3> QED
      BY <1>3, <1>4, <2>3, <3>1 DEF ALInnerInv, ALKillInv, ALUpIsStopping
  <2>4. ALUpIsStopping'
    BY <2>3 DEF ALUpIsStopping, ALKills
  <2> QED
    BY <2>1, <2>2, <2>4 DEF ALKillInv
<1>9. ALDependentsAreDown'
  <2>1. \A d \in App : ALDown(d) => ALDown(d)'
    BY <1>2 DEF ALDown
  <2>2. ~ALWaits(t)
    BY DEF ALWaits
  <2> SUFFICES ASSUME NEW x \in stops', x.app \notin late, x.step = "process" \/ ALWaits(x),
                      NEW d \in AL!Dependents(x.app)
               PROVE  \/ d \in stuck \cup late \/ ALDown(d)'
                      \/ ALWaits(x) /\ \E y \in stops' : y.app = d /\ y.cause = x.app
    BY DEF ALDependentsAreDown, ALWaits, AL!Dependents
  <2>3. d \in App
    BY DEF AL!Dependents
  <2>4. CASE x = t
    BY <2>1, <2>2, <2>3, <2>4
  <2>5. CASE x # t
    <3>1. \/ d \in stuck \cup late \/ ALDown(d)
          \/ ALWaits(x) /\ \E y \in stops : y.app = d /\ y.cause = x.app
      BY <1>3, <2>5 DEF ALInnerInv, ALDependentsAreDown
    <3> QED
      BY <1>3, <1>4, <2>1, <2>3, <3>1
  <2> QED
    BY <2>4, <2>5
<1> QED
  BY <1>5, <1>6, <1>7, <1>8, <1>9 DEF ALInnerInv

LEMMA ALQueuedStep ==
  ASSUME ALInnerInv, NEW s \in stops, AL!StopBegins(s), app[s.app].pendingStop
  PROVE  ALInnerInv'
<1>1. s \in AL!Stop /\ s.app \in App /\ s.step \in {"begin", "woken"} /\ s.result = "stopped"
  BY DEF ALInnerInv, ALTypes, AL!Stop, AL!StopBegins, ALHoldInv, ALResultsAreLate
<1>2. /\ s.step = "begin" /\ s.was => \A x \in stops : x.app = s.app /\ x.step = "begin" => x.was
      /\ stops' = AL!Goes(s, "queued") /\ UNCHANGED <<app, op, stuck, late, down>>
  BY DEF AL!StopBegins, AL!answers
<1> DEFINE t == [s EXCEPT !.step = "queued"]
<1>3. /\ t \in AL!Stop /\ t.app = s.app /\ t.cause = s.cause /\ t.was = s.was
      /\ t.step = "queued" /\ t.result = "stopped"
  BY <1>1 DEF AL!Stop
<1>4. stops' = (stops \ {s}) \cup {t}
  BY <1>2 DEF AL!Goes
<1> HIDE DEF t
<1>5. ALTypes'
  BY <1>2, <1>3, <1>4 DEF ALInnerInv, ALTypes
<1>6. ~ALHolds(s) /\ ~ALHolds(t)
  BY <1>1, <1>3 DEF ALHolds
<1>7. s.app \notin late /\ ALKills(s) => FALSE
  <2> SUFFICES ASSUME s.app \notin late, ALKills(s) PROVE FALSE
    OBVIOUS
  <2>1. PICK h \in stops : h.app = s.app /\ ALHolds(h)
    BY <1>1 DEF ALInnerInv, ALHoldInv, ALPendingIsHeld
  <2>2. ~s.was /\ s.step = "begin"
    BY <1>1 DEF ALKills
  <2>3. h.step = "begin"
    BY <1>6, <2>1, <2>2 DEF ALInnerInv, ALKillInv, ALFirstBegins
  <2> QED
    BY <2>1, <2>3 DEF ALHolds
<1>8. t.step \in {"queued", "process", "last"} /\ t.step # "last" /\ t.step # "process"
  BY <1>3
<1> QED
  BY <1>1, <1>2, <1>3, <1>4, <1>5, <1>6, <1>7, <1>8, ALGoesOnStep

LEMMA ALThroughStep ==
  ASSUME ALInnerInv, NEW s \in stops, AL!DependentsStopped(s)
  PROVE  ALInnerInv'
<1>1. /\ s \in AL!Stop /\ s.app \in App /\ s.step = "dependents"
      /\ s.result \in {"stopped", "dependents failed"}
  BY DEF ALInnerInv, ALTypes, AL!Stop, AL!DependentsStopped, ALHoldInv, ALResultsAreLate
<1>2. UNCHANGED <<app, op, stuck, late, down>> /\ stops' = AL!Through(s)
  BY DEF AL!DependentsStopped, AL!answers
<1>3. \A x \in stops : x.cause # s.app
  BY DEF AL!DependentsStopped
<1>4. PICK to \in {"process", "last"} :
        /\ stops' = AL!Goes(s, to)
        /\ IF s.result # "stopped" \/ app[s.app].process = "none" \/ s.was
           THEN to = "last" ELSE to = "process"
  BY <1>2 DEF AL!Through
<1> DEFINE t == [s EXCEPT !.step = to]
<1>5. /\ t \in AL!Stop /\ t.app = s.app /\ t.cause = s.cause /\ t.was = s.was
      /\ t.step = to /\ t.result = s.result
  BY <1>1 DEF AL!Stop
<1>6. stops' = (stops \ {s}) \cup {t}
  BY <1>4 DEF AL!Goes
<1> HIDE DEF t
<1>7. ALTypes'
  BY <1>2, <1>5, <1>6 DEF ALInnerInv, ALTypes
<1>8. ALHolds(s) /\ ALHolds(t)
  BY <1>1, <1>5 DEF ALHolds
<1>9. ALKills(s) => ALKills(t) \/ app'[s.app].process # "up"
  BY <1>1, <1>2, <1>4, <1>5 DEF ALKills
<1>10. t.step = "last" /\ t.result = "stopped" => s.was \/ app'[s.app].process = "none"
  BY <1>2, <1>4, <1>5
<1>11. t.step = "process" /\ s.app \notin late =>
         \A d \in AL!Dependents(s.app) : d \in stuck \cup late \/ ALDown(d)
  <2>1. t.step = "process" => ALWaits(s)
    BY <1>1, <1>4, <1>5 DEF ALWaits
  <2> QED
    BY <1>3, <2>1 DEF ALInnerInv, ALDependentsAreDown
<1>12. /\ t.step \in {"queued", "process", "last"} /\ s.step # "begin"
       /\ t.step # "last" => t.result = "stopped"
  BY <1>1, <1>4, <1>5
<1> QED
  BY <1>1, <1>2, <1>5, <1>6, <1>7, <1>8, <1>9, <1>10, <1>11, <1>12, ALGoesOnStep

LEMMA ALProcessStopsStep ==
  ASSUME ALInnerInv, NEW s \in stops, AL!ProcessStops(s)
  PROVE  ALInnerInv'
<1>1. s \in AL!Stop /\ s.app \in App /\ s.step = "process" /\ s.result = "stopped"
  BY DEF ALInnerInv, ALTypes, AL!Stop, AL!ProcessStops, ALHoldInv, ALResultsAreLate
<1>2. /\ UNCHANGED <<stuck, late>> /\ stops' = AL!Goes(s, "last") /\ AL!LaunchAnswered(s.app, FALSE)
      /\ app' = [app EXCEPT ![s.app] = [@ EXCEPT !.process = "none", !.launch = "no",
                                                 !.ok = FALSE]]
  BY DEF AL!ProcessStops
<1> DEFINE t == [s EXCEPT !.step = "last"]
           new == [app[s.app] EXCEPT !.process = "none", !.launch = "no", !.ok = FALSE]
<1>3. /\ t \in AL!Stop /\ t.app = s.app /\ t.cause = s.cause /\ t.was = s.was
      /\ t.step = "last" /\ t.result = "stopped"
  BY <1>1 DEF AL!Stop
<1>4. /\ new \in AL!Application /\ new.process = "none" /\ new.launch = "no" /\ ~new.ok
      /\ new.stopped = app[s.app].stopped /\ new.pendingStop = app[s.app].pendingStop
      /\ new.prevented = app[s.app].prevented
  BY <1>1 DEF ALInnerInv, ALTypes, AL!Application
<1>5. stops' = (stops \ {s}) \cup {t} /\ app' = [app EXCEPT ![s.app] = new]
  BY <1>2 DEF AL!Goes
<1> HIDE DEF t, new
<1>6. /\ op' \in [App -> {"none", "auto"} \cup AL!Kind] /\ down' = down
      /\ \A x \in App : x # s.app => op'[x] = op[x]
      /\ IF app[s.app].launch # "no"
         THEN op'[s.app] = "none" /\ \A x \in stops : x.app = s.app => x.cause # "operation"
         ELSE op'[s.app] = op[s.app]
  BY <1>1, <1>2, ALAnsweredFacts
<1>7. ALTypes'
  BY <1>3, <1>4, <1>5, <1>6 DEF ALInnerInv, ALTypes
<1>8. app'[s.app] = new /\ \A x \in App : x # s.app => app'[x] = app[x]
  BY <1>1, <1>5 DEF ALInnerInv, ALTypes
<1>9. ALHolds(s) /\ ALHolds(t)
  BY <1>1, <1>3 DEF ALHolds
<1>10. /\ t.step \in {"queued", "process", "last"} /\ t.step # "process" /\ s.step # "begin"
       /\ app'[s.app].process # "up"
  BY <1>1, <1>3, <1>4, <1>8
<1> QED
  BY <1>1, <1>2, <1>3, <1>4, <1>5, <1>6, <1>7, <1>8, <1>9, <1>10, ALGoesOnStep

LEMMA ALStopFailsStep ==
  ASSUME ALInnerInv, NEW s \in stops, AL!StopFails(s)
  PROVE  ALInnerInv'
<1>1. s \in AL!Stop /\ s.app \in App /\ s.step = "process" /\ s.result = "stopped"
  BY DEF ALInnerInv, ALTypes, AL!Stop, AL!StopFails, ALHoldInv, ALResultsAreLate
<1>2. /\ UNCHANGED <<op, stuck, late, down>> /\ stops' = AL!Ends(s, "process failed")
      /\ app' = [app EXCEPT ![s.app].ok = FALSE]
  BY DEF AL!StopFails, AL!answers
<1> DEFINE t == [s EXCEPT !.step = "last", !.result = "process failed"]
           new == [app[s.app] EXCEPT !.ok = FALSE]
<1>3. /\ t \in AL!Stop /\ t.app = s.app /\ t.cause = s.cause /\ t.was = s.was
      /\ t.step = "last" /\ t.result = "process failed"
  BY <1>1 DEF AL!Stop, AL!Result
<1>4. /\ new \in AL!Application /\ new.process = app[s.app].process
      /\ new.launch = app[s.app].launch /\ ~new.ok
      /\ new.stopped = app[s.app].stopped /\ new.pendingStop = app[s.app].pendingStop
      /\ new.prevented = app[s.app].prevented
  BY <1>1 DEF ALInnerInv, ALTypes, AL!Application
<1>5. stops' = (stops \ {s}) \cup {t} /\ app' = [app EXCEPT ![s.app] = new]
  BY <1>2 DEF AL!Ends
<1> HIDE DEF t, new
<1>6. ALTypes'
  BY <1>2, <1>3, <1>4, <1>5 DEF ALInnerInv, ALTypes
<1>7. app'[s.app] = new /\ \A x \in App : x # s.app => app'[x] = app[x]
  BY <1>1, <1>5 DEF ALInnerInv, ALTypes
<1>8. ALHolds(s) /\ ALHolds(t)
  BY <1>1, <1>3 DEF ALHolds
<1>9. ALKills(s) => ALKills(t)
  BY <1>3 DEF ALKills
<1>10. /\ t.step \in {"queued", "process", "last"} /\ t.step # "process" /\ s.step # "begin"
       /\ t.result # "stopped"
  BY <1>1, <1>3
<1> QED
  BY <1>1, <1>2, <1>3, <1>4, <1>5, <1>6, <1>7, <1>8, <1>9, <1>10, ALGoesOnStep

-----------------------------------------------------------------------------
(* A stop begins that no other one holds up, and those that depend on the application are
   stopped with it. *)
LEMMA ALTakesStep ==
  ASSUME ALConstants, ALInnerInv, NEW s \in stops, AL!StopBegins(s), ~app[s.app].pendingStop
  PROVE  ALInnerInv'
<1>1. s \in AL!Stop /\ s.app \in App /\ s.step \in {"begin", "woken"} /\ s.result = "stopped"
  BY DEF ALInnerInv, ALTypes, AL!Stop, AL!StopBegins, ALHoldInv, ALResultsAreLate
<1>2. /\ s.step = "begin" /\ s.was => \A x \in stops : x.app = s.app /\ x.step = "begin" => x.was
      /\ UNCHANGED <<op, stuck, late, down>>
  BY DEF AL!StopBegins, AL!answers
<1> DEFINE a == s.app
           t == [s EXCEPT !.step = "dependents"]
           New(d) == AL!NewStop(d, a, TRUE)
           News == {New(d) : d \in AL!Dependents(a)}
<1>3. /\ t \in AL!Stop /\ t.app = a /\ t.cause = s.cause /\ t.was = s.was
      /\ t.step = "dependents" /\ t.result = "stopped"
  BY <1>1 DEF AL!Stop
<1>4. a \in App /\ a \in AL!Cause /\ a # "operation" /\ ALTypes
  BY <1>1 DEF ALInnerInv, AL!Cause, ALConstants
<1>5. /\ stops' = (stops \ {s}) \cup {t} \cup News
      /\ app' = [x \in App |->
           IF x = a THEN [app[x] EXCEPT !.pendingStop = TRUE, !.ok = FALSE]
           ELSE IF x \in AL!Dependents(a) THEN AL!Stopping(app[x], FALSE) ELSE app[x]]
  BY DEF AL!StopBegins, AL!Goes
<1> HIDE DEF t
<1>6. \A d \in AL!Dependents(a) :
        /\ New(d) \in AL!Stop /\ New(d).app = d /\ New(d).cause = a
        /\ New(d).was = app[d].stopped /\ New(d).result = "stopped" /\ New(d).step = "begin"
  <2> SUFFICES ASSUME NEW d \in App
               PROVE  /\ New(d) \in AL!Stop /\ New(d).app = d /\ New(d).cause = a
                      /\ New(d).was = app[d].stopped /\ New(d).result = "stopped"
                      /\ New(d).step = "begin"
    BY DEF AL!Dependents
  <2> HIDE DEF New, News, a
  <2>1. New(d) = AL!NewStop(d, a, TRUE) /\ TRUE \in BOOLEAN
    BY DEF New
  <2>2. /\ AL!NewStop(d, a, TRUE) \in AL!Stop /\ AL!NewStop(d, a, TRUE).app = d
        /\ AL!NewStop(d, a, TRUE).cause = a /\ AL!NewStop(d, a, TRUE).was = app[d].stopped
        /\ AL!NewStop(d, a, TRUE).result = "stopped" /\ AL!NewStop(d, a, TRUE).step = "begin"
    BY <1>4, ALNewStopFacts, ZenonT(60)
  <2> QED
    BY <2>1, <2>2
<1> HIDE DEF New
<1>7. \A d \in AL!Dependents(a) : \E n \in News : n.app = d /\ n.cause = a
  BY <1>6
<1> HIDE DEF a
<1>8. /\ \A m, n \in News : m.app = n.app => m = n
      /\ \A n \in News :
           /\ n \in AL!Stop /\ n.app \in AL!Dependents(a) /\ n.app \in App /\ n.cause = a
           /\ n.was = app[n.app].stopped /\ n.result = "stopped" /\ n.step = "begin"
  <2>1. \A n \in News : \E d \in AL!Dependents(a) : n = New(d)
    OBVIOUS
  <2>2. \A m, n \in News : m.app = n.app => m = n
    BY <1>6, <2>1
  <2>3. AL!Dependents(a) \subseteq App
    BY DEF AL!Dependents
  <2>4. ASSUME NEW n \in News
        PROVE  /\ n \in AL!Stop /\ n.app \in AL!Dependents(a) /\ n.app \in App /\ n.cause = a
               /\ n.was = app[n.app].stopped /\ n.result = "stopped" /\ n.step = "begin"
    <3>1. PICK d \in AL!Dependents(a) : n = New(d)
      BY <2>1
    <3> HIDE DEF News
    <3> QED
      BY <1>6, <2>3, <3>1
  <2> QED
    BY <2>2, <2>4
<1> HIDE DEF News
<1>9. /\ app'[a] \in AL!Application /\ app'[a].pendingStop /\ ~app'[a].ok
      /\ app'[a].process = app[a].process /\ app'[a].launch = app[a].launch
      /\ app'[a].stopped = app[a].stopped /\ app'[a].prevented = app[a].prevented
  BY <1>4, <1>5 DEF ALTypes, AL!Application
<1>10. \A x \in App : x # a /\ x \in AL!Dependents(a) =>
         /\ app'[x] \in AL!Application /\ app'[x].pendingStop = app[x].pendingStop
         /\ app'[x].ok = app[x].ok /\ app'[x].process = app[x].process
         /\ app'[x].launch = app[x].launch /\ app'[x].stopped
         /\ app'[x].prevented = app[x].prevented
  <2> SUFFICES ASSUME NEW x \in App, x # a, x \in AL!Dependents(a)
               PROVE  /\ app'[x] \in AL!Application /\ app'[x].pendingStop = app[x].pendingStop
                      /\ app'[x].ok = app[x].ok /\ app'[x].process = app[x].process
                      /\ app'[x].launch = app[x].launch /\ app'[x].stopped
                      /\ app'[x].prevented = app[x].prevented
    OBVIOUS
  <2> DEFINE new == AL!Stopping(app[x], FALSE)
  <2>1. app'[x] = new /\ app[x] \in AL!Application
    BY <1>4, <1>5 DEF ALTypes
  <2>2. /\ new \in AL!Application /\ new.stopped /\ new.process = app[x].process
        /\ new.launch = app[x].launch /\ new.pendingStop = app[x].pendingStop
        /\ new.ok = app[x].ok /\ new.prevented = (app[x].prevented \/ FALSE)
    BY <2>1, ALStoppingFacts
  <2>3. app[x].prevented \in BOOLEAN
    BY <2>1 DEF AL!Application
  <2> HIDE DEF new
  <2> QED
    BY <2>1, <2>2, <2>3
<1>11. \A x \in App : x # a /\ x \notin AL!Dependents(a) => app'[x] = app[x]
  BY <1>5
<1>12. \A x \in App : /\ app'[x].process = app[x].process /\ app'[x].launch = app[x].launch
                      /\ app'[x].prevented = app[x].prevented
                      /\ app[x].stopped => app'[x].stopped
                      /\ app'[x].stopped => app[x].stopped \/ x \in AL!Dependents(a)
                      /\ app'[x].pendingStop = (app[x].pendingStop \/ x = a)
                      /\ app'[x].ok => app[x].ok /\ x # a
  BY <1>4, <1>9, <1>10, <1>11 DEF ALTypes, AL!Application
<1>13. /\ t \in stops' /\ \A x \in stops : x # s => x \in stops'
       /\ \A x \in stops' : x = t \/ x \in News \/ (x \in stops /\ x # s)
       /\ News \subseteq stops'
  BY <1>5
<1>14. ALTypes'
  <2>1. \A x \in App : app'[x] \in AL!Application
    BY <1>4, <1>9, <1>10, <1>11 DEF ALTypes
  <2>2. app' \in [App -> AL!Application]
    BY <1>5, <2>1
  <2> QED
    BY <1>2, <1>3, <1>4, <1>5, <1>8, <2>2 DEF ALTypes
<1>15. \A x \in stops : x.app \in App
  BY <1>4 DEF ALTypes, AL!Stop
<1>16. /\ ALHolds(t) /\ ~ALHolds(s) /\ \A n \in News : ~ALHolds(n)
       /\ \A x \in stops : ALHolds(x) => x.app # a
  <2>1. ALHolds(t) /\ ~ALHolds(s) /\ \A n \in News : ~ALHolds(n)
    BY <1>1, <1>3, <1>8 DEF ALHolds
  <2>2. \A x \in stops : ALHolds(x) => x.app # a
    BY DEF ALInnerInv, ALHoldInv, ALHeldIsPending, a
  <2> QED
    BY <2>1, <2>2
<1>17. s.app = a
  BY DEF a
<1>18. ALHoldInv'
  <2>1. ALResultsAreLate'
    BY <1>3, <1>8, <1>13 DEF ALInnerInv, ALHoldInv, ALResultsAreLate
  <2>2. \A x, y \in stops' : x.app = y.app /\ ALHolds(x) /\ ALHolds(y) => x = y
    BY <1>3, <1>13, <1>16 DEF ALInnerInv, ALHoldInv, ALOneHolds
  <2>3. \A x \in stops' : ALHolds(x) => app'[x.app].pendingStop
    BY <1>3, <1>9, <1>12, <1>13, <1>15, <1>16 DEF ALInnerInv, ALHoldInv, ALHeldIsPending
  <2>4. ASSUME NEW x \in App, app'[x].pendingStop
        PROVE  \E y \in stops' : y.app = x /\ ALHolds(y)
    <3>1. CASE x = a
      BY <1>3, <1>13, <1>16, <3>1
    <3>2. CASE x # a
      <4>1. PICK h \in stops : h.app = x /\ ALHolds(h)
        BY <1>12, <2>4, <3>2 DEF ALInnerInv, ALHoldInv, ALPendingIsHeld
      <4> QED
        BY <1>13, <1>16, <4>1
    <3> QED
      BY <3>1, <3>2
  <2>5. \A x \in App : app'[x].pendingStop /\ x \notin late => ~app'[x].ok
    BY <1>12 DEF ALInnerInv, ALHoldInv, ALPendingIsNotOk
  <2> QED
    BY <1>2, <2>1, <2>2, <2>3, <2>4, <2>5 DEF ALHoldInv, ALOneHolds, ALHeldIsPending,
       ALPendingIsHeld, ALPendingIsNotOk, ALHolds
<1>19. \A x \in stops' : x.cause = "operation" => x = t \/ (x \in stops /\ x # s)
  BY <1>4, <1>8, <1>13
<1>20. ALOperateInv'
  <2>1. ALStopsOperate'
    BY <1>2, <1>3, <1>17, <1>19 DEF ALInnerInv, ALOperateInv, ALStopsOperate
  <2>2. ALOneOperates'
    BY <1>3, <1>17, <1>19 DEF ALInnerInv, ALOperateInv, ALOneOperates
  <2>3. ALLaunchesOperate'
    BY <1>2, <1>3, <1>12, <1>17, <1>19 DEF ALInnerInv, ALOperateInv, ALLaunchesOperate
  <2> QED
    BY <2>1, <2>2, <2>3 DEF ALOperateInv
<1>21. ALDownInv'
  <2>1. ALStopIsFirst'
    BY <1>2, <1>3, <1>12, <1>15, <1>17, <1>19 DEF ALInnerInv, ALDownInv, ALStopIsFirst
  <2>2. ALStopPrevents' /\ ALDownIsDown'
    BY <1>2, <1>12 DEF ALInnerInv, ALDownInv, ALStopPrevents, ALDownIsDown
  <2> QED
    BY <2>1, <2>2 DEF ALDownInv
<1>22. ALKillInv'
  <2>1. \A x \in stops' : x.app \notin late => app'[x.app].stopped
    BY <1>3, <1>8, <1>9, <1>10, <1>12, <1>13, <1>15, <1>17 DEF ALInnerInv, ALKillInv,
       ALStopsStop
  <2>2. ASSUME NEW x \in stops', NEW y \in stops', x.app \notin late, x.app = y.app, x # y,
               ~x.was, x.step = "begin"
        PROVE  y.was /\ y.step = "begin"
    <3>1. x # t
      BY <1>3, <2>2
    <3>2. CASE x \in News
      <4>1. ~app[x.app].stopped
        BY <1>8, <2>2, <3>2
      <4>2. \A z \in stops : z.app # x.app
        BY <2>2, <4>1 DEF ALInnerInv, ALKillInv, ALStopsStop
      <4>3. y \notin stops /\ y # t
        BY <1>3, <1>17, <2>2, <4>2
      <4> QED
        BY <1>8, <1>13, <2>2, <3>2, <4>3
    <3>3. CASE x \in stops /\ x # s
      <4>1. app[x.app].stopped
        BY <2>2, <3>3 DEF ALInnerInv, ALKillInv, ALStopsStop
      <4>2. CASE y \in News
        BY <1>8, <2>2, <4>1, <4>2
      <4>3. CASE y \in stops
        BY <2>2, <3>3, <4>3 DEF ALInnerInv, ALKillInv, ALFirstBegins
      <4>4. CASE y = t
        <5>1. s.app = x.app
          BY <1>3, <1>17, <2>2, <4>4
        <5>2. s.was /\ s.step = "begin"
          BY <2>2, <3>3, <5>1 DEF ALInnerInv, ALKillInv, ALFirstBegins
        <5> QED
          BY <1>2, <2>2, <3>3, <5>1, <5>2
      <4> QED
        BY <1>13, <4>2, <4>3, <4>4
    <3> QED
      BY <1>13, <3>1, <3>2, <3>3
  <2>3. ASSUME NEW x \in App, x \notin late \cup stuck, app'[x].process = "up", app'[x].stopped
        PROVE  \E y \in stops' : y.app = x /\ ALKills(y)
    <3>1. app[x].process = "up"
      BY <1>12, <2>3
    <3>2. CASE app[x].stopped
      <4>1. PICK w \in stops : w.app = x /\ ALKills(w)
        BY <2>3, <3>1, <3>2 DEF ALInnerInv, ALKillInv, ALUpIsStopping
      <4>2. ALKills(s) => ALKills(t)
        BY <1>1, <1>3 DEF ALKills
      <4> QED
        BY <1>3, <1>13, <1>17, <4>1, <4>2
    <3>3. CASE ~app[x].stopped
      <4>1. PICK n \in News : n.app = x
        BY <1>7, <1>12, <2>3, <3>3
      <4>2. ALKills(n)
        BY <1>8, <3>3, <4>1 DEF ALKills
      <4> QED
        BY <1>13, <4>1, <4>2
    <3> QED
      BY <3>2, <3>3
  <2> QED
    BY <1>2, <2>1, <2>2, <2>3 DEF ALKillInv, ALStopsStop, ALFirstBegins, ALUpIsStopping, ALKills
<1>23. ALDependentsAreDown'
  <2>1. \A d \in App : ALDown(d) => ALDown(d)'
    BY <1>12 DEF ALDown
  <2> SUFFICES ASSUME NEW x \in stops', x.app \notin late, x.step = "process" \/ ALWaits(x),
                      NEW d \in AL!Dependents(x.app)
               PROVE  \/ d \in stuck \cup late \/ ALDown(d)'
                      \/ ALWaits(x) /\ \E y \in stops' : y.app = d /\ y.cause = x.app
    BY <1>2 DEF ALDependentsAreDown, ALWaits, AL!Dependents
  <2>2. d \in App
    BY DEF AL!Dependents
  <2>3. CASE x = t
    <3>1. ALWaits(x) /\ d \in AL!Dependents(a)
      BY <1>3, <2>3 DEF ALWaits
    <3> QED
      BY <1>3, <1>7, <1>13, <2>3, <3>1
  <2>4. CASE x \in stops
    <3>1. \/ d \in stuck \cup late \/ ALDown(d)
          \/ ALWaits(x) /\ \E y \in stops : y.app = d /\ y.cause = x.app
      BY <2>4 DEF ALInnerInv, ALDependentsAreDown
    <3> QED
      BY <1>3, <1>13, <1>17, <2>1, <2>2, <3>1
  <2>5. x \notin News
    BY <1>8 DEF ALWaits
  <2> QED
    BY <1>13, <2>3, <2>4, <2>5
<1> QED
  BY <1>14, <1>18, <1>20, <1>21, <1>22, <1>23 DEF ALInnerInv

-----------------------------------------------------------------------------
(* What the return of a stop makes of the others. *)
ALReturned(s, x) ==
  CASE AL!Waiter(s, x) /\ s.result = "dependents failed" ->
         [x EXCEPT !.step = "last", !.result = "wait failed"]
    [] AL!Waiter(s, x) /\ s.result # "dependents failed" -> [x EXCEPT !.step = "woken"]
    [] x.app = s.cause /\ x.step = "dependents" /\ s.result # "stopped" ->
         [x EXCEPT !.result = "dependents failed"]
    [] OTHER -> x

LEMMA ALReturnedFacts ==
  ASSUME ALInnerInv, NEW s \in stops, NEW x \in stops
  PROVE  LET r == ALReturned(s, x)
         IN /\ r \in AL!Stop /\ r.app = x.app /\ r.cause = x.cause /\ r.was = x.was
            /\ r.step \in {"begin", "queued", "woken", "process"} => r.result = "stopped"
            /\ r.step = "dependents" => r.result \in {"stopped", "dependents failed"}
            /\ ALHolds(r) <=> ALHolds(x)
            /\ r.step = "last" /\ r.result = "stopped" => r = x
            /\ r.step = "begin" => x.step = "begin"
            /\ ALKills(x) /\ x.step # "begin" => ALKills(r)
            /\ r.step = "process" \/ ALWaits(r) => r = x
            /\ ALWaits(r) => x.app # s.cause \/ s.result = "stopped"
<1>1. /\ x \in AL!Stop
           /\ (x.step \in {"begin", "queued", "woken", "process"} => x.result = "stopped")
      /\ (x.step = "dependents" => x.result \in {"stopped", "dependents failed"})
  BY DEF ALInnerInv, ALTypes, ALHoldInv, ALResultsAreLate
<1>2. CASE AL!Waiter(s, x) /\ s.result = "dependents failed"
  <2>1. x.step = "queued"
    BY <1>2 DEF AL!Waiter
  <2>2. ALReturned(s, x) = [x EXCEPT !.step = "last", !.result = "wait failed"]
    BY <1>2, <2>1 DEF ALReturned
  <2> QED
    BY <1>1, <2>1, <2>2 DEF AL!Stop, AL!Result, ALHolds, ALKills, ALWaits
<1>3. CASE AL!Waiter(s, x) /\ s.result # "dependents failed"
  <2>1. x.step = "queued"
    BY <1>3 DEF AL!Waiter
  <2>2. ALReturned(s, x) = [x EXCEPT !.step = "woken"]
    BY <1>3, <2>1 DEF ALReturned
  <2> QED
    BY <1>1, <2>1, <2>2 DEF AL!Stop, AL!Result, ALHolds, ALKills, ALWaits
<1>4. CASE ~AL!Waiter(s, x) /\ x.app = s.cause /\ x.step = "dependents" /\ s.result # "stopped"
  <2>1. ALReturned(s, x) = [x EXCEPT !.result = "dependents failed"]
    BY <1>4 DEF ALReturned
  <2> QED
    BY <1>1, <1>4, <2>1 DEF AL!Stop, AL!Result, ALHolds, ALKills, ALWaits
<1>5. CASE ~AL!Waiter(s, x) /\ ~(x.app = s.cause /\ x.step = "dependents" /\ s.result # "stopped")
  <2>1. ALReturned(s, x) = x
    BY <1>5 DEF ALReturned
  <2> QED
    BY <1>1, <1>5, <2>1 DEF ALWaits
<1> QED
  BY <1>2, <1>3, <1>4, <1>5

(* A stop returns to an operation, which it ends or which goes on with a launch, or to the
   calls and stops that waited for it. *)
LEMMA ALReturnsStep ==
  ASSUME ALConstants, ALInnerInv, ALTypes', NEW s \in stops, s.step = "last",
         \A x \in stops : x.step # "begin",
         stops' = AL!AfterReturn(s),
         stuck' = IF s.result = "stopped" THEN stuck ELSE stuck \cup {s.app},
         late \subseteq late',
         \A x \in App : x # s.app => app'[x] = app[x] /\ op'[x] = op[x],
         app'[s.app].pendingStop = IF s.result = "wait failed" THEN app[s.app].pendingStop
                                   ELSE FALSE,
         app'[s.app].ok => app[s.app].ok,
         s.cause # "operation" => op' = op /\ down' = down,
         s.cause = "operation" => op'[s.app] \in {"none", "restart"},
         \A x \in down' : x = s.app \/ x \in down,
         s.app \in down' => s.app \in down \/ (op[s.app] = "stop" /\ s.result = "stopped"),
         s.app \in down' => app'[s.app].prevented = app[s.app].prevented,
         s.cause # "operation" => app'[s.app].prevented = app[s.app].prevented,
         \/ /\ app'[s.app].process = app[s.app].process
            /\ app'[s.app].stopped = app[s.app].stopped
            /\ app'[s.app].launch = app[s.app].launch
         \/ /\ s.cause = "operation" /\ s.app \notin down' /\ ~app'[s.app].stopped
            /\ \A d \in AL!DependenciesOf(s.app) : app[d].ok
            /\ op'[s.app] = "restart"
            /\ (\E x \in stops' : x.app = s.app) => s.app \in late'
  PROVE  ALInnerInv'
<1> DEFINE a == s.app
           R(x) == ALReturned(s, x)
<1>1. /\ \A x \in stops : x.app \in App
      /\ a \in App /\ s \in AL!Stop /\ ALTypes
  BY DEF ALInnerInv, ALTypes, AL!Stop
<1>2. /\ \A x \in stops : x # s => R(x) \in stops'
      /\ \A y \in stops' : \E x \in stops : x # s /\ y = R(x)
  <2>1. AL!AfterReturn(s) = {R(x) : x \in stops \ {s}}
    BY ZenonT(60) DEF AL!AfterReturn, ALReturned
  <2> HIDE DEF R
  <2> QED
    BY <2>1
<1>3. ASSUME NEW x \in stops
      PROVE  /\ R(x) \in AL!Stop /\ R(x).app = x.app /\ R(x).cause = x.cause /\ R(x).was = x.was
             /\ R(x).step \in {"begin", "queued", "woken", "process"} => R(x).result = "stopped"
             /\ R(x).step = "dependents" => R(x).result \in {"stopped", "dependents failed"}
             /\ ALHolds(R(x)) <=> ALHolds(x)
             /\ R(x).step = "last" /\ R(x).result = "stopped" => R(x) = x
             /\ R(x).step = "begin" => x.step = "begin"
             /\ ALKills(x) /\ x.step # "begin" => ALKills(R(x))
             /\ R(x).step = "process" \/ ALWaits(R(x)) => R(x) = x
             /\ ALWaits(R(x)) => x.app # s.cause \/ s.result = "stopped"
  BY ALReturnedFacts
<1> HIDE DEF R
<1>4. ASSUME NEW y \in stops'
       PROVE  \E x \in stops :
                /\ x # s /\ y = R(x) /\ y.app = x.app /\ y.cause = x.cause /\ y.was = x.was
                /\ (ALHolds(y) => ALHolds(x)) /\ y.step # "begin"
                /\ y.step \in {"begin", "queued", "woken", "process"} => y.result = "stopped"
                /\ y.step = "dependents" => y.result \in {"stopped", "dependents failed"}
                /\ (y.step = "last" /\ y.result = "stopped" => y = x)
                /\ (y.step = "process" \/ ALWaits(y) => y = x)
                /\ (ALWaits(y) => x.app # s.cause \/ s.result = "stopped")
  <2>1. PICK x \in stops : x # s /\ y = R(x)
    BY <1>2
  <2>2. x.step # "begin"
    OBVIOUS
  <2> QED
    BY <1>3, <2>1, <2>2
<1>5. ALHolds(s) <=> s.result # "wait failed"
  BY DEF ALHolds
<1>6. \A x \in App : x # a => app'[x] = app[x] /\ op'[x] = op[x]
  OBVIOUS
<1>7. /\ app'[a].pendingStop = IF ALHolds(s) THEN FALSE ELSE app[a].pendingStop
      /\ app'[a].ok => app[a].ok
  BY <1>5
<1>8. ALHoldInv'
  <2>1. ALResultsAreLate'
    BY <1>4 DEF ALResultsAreLate
  <2>2. \A x, y \in stops' : x.app = y.app /\ ALHolds(x) /\ ALHolds(y) => x = y
    <3> SUFFICES ASSUME NEW y \in stops', NEW z \in stops', y.app = z.app, ALHolds(y), ALHolds(z)
                 PROVE  y = z
      OBVIOUS
    <3>1. PICK v \in stops : y = R(v) /\ y.app = v.app /\ ALHolds(v)
      BY <1>4
    <3>2. PICK w \in stops : z = R(w) /\ z.app = w.app /\ ALHolds(w)
      BY <1>4
    <3>3. v = w
      BY <3>1, <3>2 DEF ALInnerInv, ALHoldInv, ALOneHolds
    <3> QED
      BY <3>1, <3>2, <3>3
  <2>3. ASSUME NEW y \in stops', ALHolds(y)
        PROVE  app'[y.app].pendingStop
    <3>1. PICK x \in stops : x # s /\ y.app = x.app /\ ALHolds(x)
      BY <1>4, <2>3
    <3>2. app[x.app].pendingStop
      BY <3>1 DEF ALInnerInv, ALHoldInv, ALHeldIsPending
    <3>3. x.app = a => ~ALHolds(s)
      BY <3>1, <3>2 DEF ALInnerInv, ALHoldInv, ALOneHolds
    <3> QED
      BY <1>1, <1>6, <1>7, <3>1, <3>2, <3>3
  <2>4. ASSUME NEW x \in App, app'[x].pendingStop
        PROVE  \E y \in stops' : y.app = x /\ ALHolds(y)
    <3>1. app[x].pendingStop /\ (x = a => ~ALHolds(s))
      BY <1>6, <1>7, <2>4
    <3>2. PICK h \in stops : h.app = x /\ ALHolds(h)
      BY <3>1 DEF ALInnerInv, ALHoldInv, ALPendingIsHeld
    <3>3. h # s
      BY <3>1, <3>2
    <3> QED
      BY <1>2, <1>3, <3>2, <3>3
  <2>5. \A x \in App : app'[x].pendingStop /\ x \notin late' => ~app'[x].ok
    BY <1>6, <1>7 DEF ALInnerInv, ALHoldInv, ALPendingIsNotOk
  <2> QED
    BY <2>1, <2>2, <2>3, <2>4, <2>5 DEF ALHoldInv, ALOneHolds, ALHeldIsPending, ALPendingIsHeld,
       ALPendingIsNotOk, ALHolds
<1>9. \A y \in stops' : y.cause = "operation" =>
        \E x \in stops : /\ x # s /\ y = R(x) /\ x.cause = "operation" /\ x.app = y.app
                         /\ x.was = y.was /\ op'[y.app] = op[y.app]
                         /\ (s.cause = "operation" => y.app # a)
  <2> SUFFICES ASSUME NEW y \in stops', y.cause = "operation"
               PROVE  \E x \in stops : /\ x # s /\ y = R(x) /\ x.cause = "operation"
                                       /\ x.app = y.app /\ x.was = y.was
                                       /\ op'[y.app] = op[y.app]
                                       /\ (s.cause = "operation" => y.app # a)
    OBVIOUS
  <2>1. PICK x \in stops : /\ x # s /\ y = R(x) /\ y.app = x.app /\ y.cause = x.cause
                            /\ y.was = x.was
    BY <1>4
  <2>2. x.cause = "operation" /\ x.app = y.app /\ x.was = y.was
    BY <2>1
  <2>3. s.cause = "operation" => y.app # a
    BY <2>1, <2>2 DEF ALInnerInv, ALOperateInv, ALOneOperates
  <2>4. op'[y.app] = op[y.app]
    BY <1>1, <1>6, <2>2, <2>3
  <2> QED
    BY <2>1, <2>2, <2>3, <2>4
<1>10. s.cause = "operation" => app[a].launch = "no" /\ op[a] \in {"stop", "restart"}
  BY <1>1 DEF ALInnerInv, ALOperateInv, ALLaunchesOperate, ALStopsOperate
<1>11. ALOperateInv'
  <2>1. ALStopsOperate'
    <3> SUFFICES ASSUME NEW y \in stops', y.cause = "operation"
                 PROVE  op'[y.app] \in {"stop", "restart"}
      BY DEF ALStopsOperate
    <3>1. PICK x \in stops : x.cause = "operation" /\ x.app = y.app /\ op'[y.app] = op[y.app]
      BY <1>9
    <3>2. op[x.app] \in {"stop", "restart"}
      BY <3>1 DEF ALInnerInv, ALOperateInv, ALStopsOperate
    <3> QED
      BY <3>1, <3>2
  <2>2. ALOneOperates'
    <3> SUFFICES ASSUME NEW y \in stops', NEW z \in stops', y.cause = "operation",
                        z.cause = "operation", y.app = z.app
                 PROVE  y = z
      BY DEF ALOneOperates
    <3>1. PICK v \in stops : y = R(v) /\ v.cause = "operation" /\ v.app = y.app
      BY <1>9
    <3>2. PICK w \in stops : z = R(w) /\ w.cause = "operation" /\ w.app = z.app
      BY <1>9
    <3>3. v = w
      BY <3>1, <3>2 DEF ALInnerInv, ALOperateInv, ALOneOperates
    <3> QED
      BY <3>1, <3>2, <3>3
  <2>3. ASSUME NEW x \in App, app'[x].launch # "no"
        PROVE  /\ op'[x] \in {"auto", "start", "restart"}
               /\ \A y \in stops' : y.app = x => y.cause # "operation"
    <3>1. CASE x = a /\ s.cause = "operation"
      BY <1>9, <1>10, <2>3, <3>1
    <3>2. CASE ~(x = a /\ s.cause = "operation")
      <4>1. app[x].launch # "no" /\ op'[x] = op[x]
        BY <1>6, <2>3, <3>2
      <4>2. /\ op[x] \in {"auto", "start", "restart"}
            /\ \A y \in stops : y.app = x => y.cause # "operation"
        BY <4>1 DEF ALInnerInv, ALOperateInv, ALLaunchesOperate
      <4> QED
        BY <1>9, <4>1, <4>2
    <3> QED
      BY <3>1, <3>2
  <2> QED
    BY <2>1, <2>2, <2>3 DEF ALOperateInv, ALLaunchesOperate
<1>12. \/ /\ app'[a].process = app[a].process /\ app'[a].stopped = app[a].stopped
          /\ app'[a].launch = app[a].launch
       \/ /\ s.cause = "operation" /\ a \notin down' /\ ~app'[a].stopped
          /\ \A d \in AL!DependenciesOf(a) : app[d].ok
          /\ (\E x \in stops' : x.app = a) => a \in late'
  OBVIOUS
<1>13. ALDownInv'
  <2>1. ASSUME NEW y \in stops', y.cause = "operation", op'[y.app] = "stop"
        PROVE  ~y.was /\ (y.step = "last" /\ y.result = "stopped" => app'[y.app].process = "none")
    <3>1. PICK x \in stops : /\ x # s /\ y = R(x) /\ x.cause = "operation" /\ x.app = y.app
                             /\ x.was = y.was /\ op[y.app] = "stop"
                             /\ (s.cause = "operation" => y.app # a)
      BY <1>9, <2>1
    <3>2. ~x.was /\ (x.step = "last" /\ x.result = "stopped" => app[x.app].process = "none")
      BY <3>1 DEF ALInnerInv, ALDownInv, ALStopIsFirst
    <3>3. app'[y.app].process = app[y.app].process
      BY <1>1, <1>6, <1>12, <3>1
    <3>4. y.step = "last" /\ y.result = "stopped" => y = x
      BY <1>3, <3>1
    <3> QED
      BY <3>1, <3>2, <3>3, <3>4
  <2>2. ASSUME NEW x \in App, op'[x] = "stop"
        PROVE  app'[x].prevented
    <3>1. op[x] = "stop" /\ app'[x].prevented = app[x].prevented
      BY <1>6, <2>2
    <3> QED
      BY <3>1 DEF ALInnerInv, ALDownInv, ALStopPrevents
  <2>3. ASSUME NEW x \in down' \cap App
        PROVE  app'[x].prevented /\ app'[x].process = "none" /\ app'[x].launch = "no"
    <3>1. CASE x \in down
      <4>1. app[x].prevented /\ app[x].process = "none" /\ app[x].launch = "no"
        BY <3>1 DEF ALInnerInv, ALDownInv, ALDownIsDown
      <4> QED
        BY <1>6, <1>12, <4>1
    <3>2. CASE x \notin down
      <4>1. x = a /\ s.cause = "operation" /\ op[a] = "stop" /\ s.result = "stopped"
        BY <3>2
      <4>2. app[a].prevented /\ app[a].process = "none"
        BY <1>1, <4>1 DEF ALInnerInv, ALDownInv, ALStopIsFirst, ALStopPrevents
      <4> QED
        BY <1>10, <1>12, <4>1, <4>2
    <3> QED
      BY <3>1, <3>2
  <2> QED
    BY <2>1, <2>2, <2>3 DEF ALDownInv, ALStopIsFirst, ALStopPrevents, ALDownIsDown
<1>14. \A y \in stops' : y.app \notin late' => app'[y.app].stopped
  <2> SUFFICES ASSUME NEW y \in stops', y.app \notin late' PROVE app'[y.app].stopped
    OBVIOUS
  <2>1. y.app \in App /\ app[y.app].stopped
    <3>1. PICK x \in stops : y.app = x.app
      BY <1>4
    <3> QED
      BY <1>1, <3>1 DEF ALInnerInv, ALKillInv, ALStopsStop
  <2>2. y.app = a => app'[a].stopped = app[a].stopped
    BY <1>12
  <2> QED
    BY <1>6, <2>1, <2>2
<1>15. ALKillInv'
  <2>1. ALFirstBegins'
    BY <1>4 DEF ALFirstBegins
  <2>2. ASSUME NEW x \in App, x \notin late' \cup stuck', app'[x].process = "up", app'[x].stopped
        PROVE  \E y \in stops' : y.app = x /\ ALKills(y)
    <3>1. app[x].process = "up" /\ app[x].stopped
      BY <1>6, <1>12, <2>2
    <3>2. x \notin late \cup stuck
      BY <2>2
    <3>3. PICK w \in stops : w.app = x /\ ALKills(w)
      BY <3>1, <3>2 DEF ALInnerInv, ALKillInv, ALUpIsStopping
    <3>4. w # s
      <4>1. s.result = "stopped" => ~ALKills(s)
        BY DEF ALKills
      <4> QED
        BY <2>2, <3>3, <4>1
    <3> QED
      BY <1>2, <1>3, <3>3, <3>4
  <2> QED
    BY <1>14, <2>1, <2>2 DEF ALKillInv, ALStopsStop, ALUpIsStopping, ALKills
<1>16. a \notin late \cup stuck /\ s.result = "stopped" => ALDown(a)
  <2> SUFFICES ASSUME a \notin late \cup stuck, s.result = "stopped" PROVE ALDown(a)
    OBVIOUS
  <2>1. app[a].stopped
    BY DEF ALInnerInv, ALKillInv, ALStopsStop
  <2>2. ASSUME app[a].process = "up" PROVE FALSE
    <3>1. PICK w \in stops : w.app = a /\ ALKills(w)
      BY <1>1, <2>1, <2>2 DEF ALInnerInv, ALKillInv, ALUpIsStopping
    <3>2. ALHolds(w)
      BY <3>1 DEF ALKills, ALHolds
    <3>3. w = s
      BY <1>5, <3>1, <3>2 DEF ALInnerInv, ALHoldInv, ALOneHolds
    <3> QED
      BY <3>1, <3>3 DEF ALKills
  <2> QED
    BY <2>1, <2>2 DEF ALDown
<1>17. ALDependentsAreDown'
  <2> SUFFICES ASSUME NEW y \in stops', y.app \notin late', y.step = "process" \/ ALWaits(y),
                      NEW d \in AL!Dependents(y.app)
               PROVE  \/ d \in stuck' \cup late' \/ ALDown(d)'
                      \/ ALWaits(y) /\ \E z \in stops' : z.app = d /\ z.cause = y.app
    BY DEF ALDependentsAreDown, ALWaits, AL!Dependents
  <2>1. d \in App
    BY DEF AL!Dependents
  <2>2. y \in stops /\ y # s /\ (ALWaits(y) => y.app # s.cause \/ s.result = "stopped")
    <3>1. PICK x \in stops :
            /\ x # s /\ (y.step = "process" \/ ALWaits(y) => y = x)
            /\ (ALWaits(y) => x.app # s.cause \/ s.result = "stopped")
      BY <1>4
    <3> QED
      BY <3>1
  <2>3. y.app \notin late
    OBVIOUS
  <2>4. CASE d \in stuck \cup late
    BY <2>4
  <2>5. CASE ALDown(d)
    <3>1. d = a => app'[a].process = app[a].process /\ app'[a].stopped = app[a].stopped
      BY <1>1, <1>12, <2>2, <2>3, ALOkIsNotStopping
    <3> QED
      BY <1>6, <2>1, <2>5, <3>1 DEF ALDown
  <2>6. CASE ALWaits(y) /\ \E z \in stops : z.app = d /\ z.cause = y.app
    <3>1. PICK z \in stops : z.app = d /\ z.cause = y.app
      BY <2>6
    <3>2. CASE z # s
      <4>1. R(z) \in stops' /\ R(z).app = d /\ R(z).cause = y.app
        BY <1>2, <1>3, <3>1, <3>2
      <4> QED
        BY <2>6, <4>1
    <3>3. CASE z = s
      <4>1. s.cause # "operation" /\ s.result = "stopped" /\ d = a
        BY <1>1, <2>2, <2>6, <3>1, <3>3 DEF ALConstants
      <4>2. ALDown(a) => ALDown(a)'
        BY <1>12, <4>1 DEF ALDown
      <4> QED
        BY <1>16, <4>1, <4>2
    <3> QED
      BY <3>2, <3>3
  <2> QED
    BY <2>2, <2>3, <2>4, <2>5, <2>6 DEF ALInnerInv, ALDependentsAreDown
<1> QED
  BY <1>8, <1>11, <1>13, <1>15, <1>17 DEF ALInnerInv

LEMMA ALStopReturnsStep ==
  ASSUME ALConstants, ALInnerInv, NEW s \in stops, AL!StopReturns(s)
  PROVE  ALInnerInv'
<1> DEFINE a == s.app
           back == CASE s.result = "wait failed" -> app[a]
                    [] s.result = "dependents failed" -> [app[a] EXCEPT !.pendingStop = FALSE]
                    [] OTHER -> [app[a] EXCEPT !.pendingStop = FALSE, !.autoStart = s.auto]
<1>1. a \in App /\ s \in AL!Stop /\ ALTypes /\ app[a] \in AL!Application /\ s.auto \in BOOLEAN
  BY DEF ALInnerInv, ALTypes, AL!Stop
<1>2. /\ s.step = "last" /\ \A x \in stops : x.step # "begin"
      /\ stops' = AL!AfterReturn(s)
      /\ stuck' = IF s.result = "stopped" THEN stuck ELSE stuck \cup {a}
  BY DEF AL!StopReturns
<1>3. /\ back \in AL!Application /\ back.process = app[a].process /\ back.launch = app[a].launch
      /\ back.stopped = app[a].stopped /\ back.ok = app[a].ok
      /\ back.prevented = app[a].prevented
      /\ back.pendingStop = IF s.result = "wait failed" THEN app[a].pendingStop ELSE FALSE
  <2>1. CASE s.result = "wait failed"
    BY <1>1, <2>1
  <2>2. CASE s.result = "dependents failed"
    <3>1. back = [app[a] EXCEPT !.pendingStop = FALSE]
      BY <2>2
    <3> QED
      BY <1>1, <2>2, <3>1 DEF AL!Application
  <2>3. CASE s.result # "wait failed" /\ s.result # "dependents failed"
    <3>1. back = [app[a] EXCEPT !.pendingStop = FALSE, !.autoStart = s.auto]
      BY <2>3
    <3> QED
      BY <1>1, <2>3, <3>1 DEF AL!Application
  <2> QED
    BY <2>1, <2>2, <2>3
<1>4. IF s.cause = "operation" /\ op[a] = "restart" /\ s.result = "stopped"
      THEN AL!TryLaunch(a, back, "restart")
      ELSE /\ app' = [app EXCEPT ![a] = back]
           /\ IF s.cause = "operation"
              THEN AL!Ended(a) /\ AL!Answer(a, op[a], s.result = "stopped") /\ todo' = App
              ELSE UNCHANGED <<op, AL!answers, todo>>
           /\ UNCHANGED late
  BY DEF AL!StopReturns
<1>5. \A y \in AL!AfterReturn(s) : y \in AL!Stop
  <2>1. AL!AfterReturn(s) = {ALReturned(s, x) : x \in stops \ {s}}
    BY ZenonT(60) DEF AL!AfterReturn, ALReturned
  <2>2. \A x \in stops : ALReturned(s, x) \in AL!Stop
    BY ALReturnedFacts
  <2> QED
    BY <2>1, <2>2
<1> HIDE DEF back, a
<1>6. s.app = a
  BY DEF a
<1>7. CASE ~(s.cause = "operation" /\ op[a] = "restart" /\ s.result = "stopped")
  <2>1. /\ app' = [app EXCEPT ![a] = back] /\ late' = late
        /\ IF s.cause = "operation"
           THEN /\ op' = [op EXCEPT ![a] = "none"]
                /\ down' = IF op[a] = "stop" /\ s.result = "stopped" THEN down \cup {a} ELSE down
           ELSE op' = op /\ down' = down
    BY <1>4, <1>7 DEF AL!Ended, AL!Answer, AL!answers
  <2>2. ALTypes'
    BY <1>1, <1>2, <1>3, <1>5, <2>1 DEF ALTypes
  <2>3. /\ app'[a] = back /\ (s.cause = "operation" => op'[a] = "none")
        /\ \A x \in App : x # a => app'[x] = app[x] /\ op'[x] = op[x]
    BY <1>1, <2>1 DEF ALTypes
  <2>4. /\ app'[a].pendingStop = IF s.result = "wait failed" THEN app[a].pendingStop ELSE FALSE
        /\ app'[a].ok = app[a].ok /\ app'[a].prevented = app[a].prevented
        /\ app'[a].process = app[a].process /\ app'[a].stopped = app[a].stopped
        /\ app'[a].launch = app[a].launch
    BY <1>3, <2>3
  <2>5. /\ \A x \in down' : x = a \/ x \in down
        /\ a \in down' => a \in down \/ (op[a] = "stop" /\ s.result = "stopped")
        /\ s.cause # "operation" => op' = op /\ down' = down
    BY <2>1
  <2>6. late \subseteq late'
    BY <2>1
  <2> QED
    BY <1>2, <1>6, <2>2, <2>3, <2>4, <2>5, <2>6, ALReturnsStep
<1>8. CASE s.cause = "operation" /\ op[a] = "restart" /\ s.result = "stopped"
  <2> DEFINE clear == [back EXCEPT !.prevented = FALSE, !.delay = FALSE]
  <2>1. /\ clear \in AL!Application /\ clear.pendingStop = FALSE /\ clear.stopped = app[a].stopped
        /\ clear.process = app[a].process /\ clear.launch = app[a].launch
        /\ clear.ok = app[a].ok
    BY <1>3, <1>8 DEF AL!Application
  <2>2. down' = down \ {a} /\ AL!TryLaunch(a, back, "restart")
    BY <1>4, <1>8 DEF AL!TryLaunch
  <2> HIDE DEF clear
  <2>3. CASE /\ \A d \in AL!DependenciesOf(a) : app[d].ok
             /\ app' = [app EXCEPT ![a] = AL!Launching(a, clear)]
             /\ op' = [op EXCEPT ![a] = "restart"] /\ AL!NotesLaunch(a)
    <3>1. ALTypes'
      BY <1>1, <1>2, <1>5, <2>1, <2>3, ALLaunchingFacts DEF ALTypes, AL!Kind
    <3>2. /\ app'[a] = AL!Launching(a, clear) /\ op'[a] = "restart"
          /\ \A x \in App : x # a => app'[x] = app[x] /\ op'[x] = op[x]
      BY <1>1, <2>3 DEF ALTypes
    <3>3. /\ app'[a].pendingStop = FALSE /\ ~app'[a].stopped /\ ~app'[a].ok
      BY <2>1, <3>2, ALLaunchingFacts
    <3>4. late \subseteq late' /\ ((\E x \in stops' : x.app = a) => a \in late')
      BY <2>3 DEF AL!NotesLaunch
    <3>5. /\ s.result # "wait failed" /\ s.cause = "operation"
          /\ \A d \in AL!DependenciesOf(a) : app[d].ok
      BY <1>8, <2>3
    <3>6. a \notin down' /\ \A x \in down' : x \in down
      BY <2>2
    <3> QED
      BY <1>2, <1>6, <3>1, <3>2, <3>3, <3>4, <3>5, <3>6, ALReturnsStep
  <2>4. CASE /\ app' = [app EXCEPT ![a] = [clear EXCEPT !.ok = @ /\ back.process # "none"]]
             /\ op' = [op EXCEPT ![a] = "none"] /\ late' = late
    <3> DEFINE new == [clear EXCEPT !.ok = @ /\ back.process # "none"]
    <3>1. /\ new \in AL!Application /\ new.pendingStop = FALSE /\ new.stopped = app[a].stopped
          /\ new.process = app[a].process /\ new.launch = app[a].launch
          /\ (new.ok => app[a].ok)
      BY <2>1 DEF AL!Application
    <3>2. app' = [app EXCEPT ![a] = new]
      BY <2>4
    <3> HIDE DEF new
    <3>3. ALTypes'
      BY <1>1, <1>2, <1>5, <2>4, <3>1, <3>2 DEF ALTypes
    <3>4. /\ app'[a] = new /\ op'[a] = "none"
          /\ \A x \in App : x # a => app'[x] = app[x] /\ op'[x] = op[x]
      BY <1>1, <2>4, <3>2 DEF ALTypes
    <3>5. /\ app'[a].pendingStop = FALSE /\ (app'[a].ok => app[a].ok)
          /\ app'[a].process = app[a].process /\ app'[a].stopped = app[a].stopped
          /\ app'[a].launch = app[a].launch
      BY <3>1, <3>4
    <3>6. s.result # "wait failed" /\ s.cause = "operation" /\ late \subseteq late'
      BY <1>8, <2>4
    <3>7. a \notin down' /\ \A x \in down' : x \in down
      BY <2>2
    <3> QED
      BY <1>2, <1>6, <3>3, <3>4, <3>5, <3>6, <3>7, ALReturnsStep
  <2> QED
    BY <2>2, <2>3, <2>4 DEF AL!TryLaunch, clear
<1> QED
  BY <1>7, <1>8

-----------------------------------------------------------------------------
(* Only applications are down. *)
LEMMA ALDownAreApps ==
  ASSUME ALInnerInv, down \subseteq App, AL!Next
  PROVE  down' \subseteq App
<1>1. ASSUME NEW a \in App, NEW kind, NEW success,
             AL!Answer(a, kind, success) \/ UNCHANGED AL!answers
      PROVE  down' \subseteq App
  BY <1>1 DEF AL!Answer, AL!answers
<1>2. ASSUME NEW a \in App, NEW success, AL!LaunchAnswered(a, success)
      PROVE  down' \subseteq App
  BY <1>1, <1>2 DEF AL!LaunchAnswered
<1>3. ASSUME NEW a \in App, NEW was, NEW kind, AL!TryLaunch(a, was, kind)
      PROVE  down' \subseteq App
  BY <1>3 DEF AL!TryLaunch
<1>4. \A s \in stops : s.app \in App
  BY DEF ALInnerInv, ALTypes, AL!Stop
<1>5. ASSUME NEW a \in App,
             \/ AL!Visit(a) \/ AL!Start(a) \/ AL!StopApp(a) \/ AL!Restart(a)
                  \/ AL!EncryptionOpens(a)
             \/ AL!Launched(a) \/ AL!EncryptionFails(a) \/ AL!Exits(a) \/ AL!Relaunch(a)
      PROVE  down' \subseteq App
  BY <1>2, <1>3, <1>5 DEF AL!Visit, AL!Start, AL!StopApp, AL!Restart, AL!EncryptionOpens,
     AL!Launched, AL!EncryptionFails, AL!Exits, AL!Relaunch, AL!answers
<1>6. ASSUME NEW s \in stops,
             \/ AL!StopBegins(s) \/ AL!DependentsStopped(s) \/ AL!ProcessStops(s) \/ AL!StopFails(s)
      PROVE  down' \subseteq App
  BY <1>2, <1>4, <1>6 DEF AL!StopBegins, AL!DependentsStopped, AL!ProcessStops, AL!StopFails,
     AL!answers
<1>7. ASSUME NEW s \in stops, AL!StopReturns(s)
      PROVE  down' \subseteq App
  BY <1>1, <1>3, <1>4, <1>7 DEF AL!StopReturns
<1>8. ASSUME \/ \E r \in Asked : AL!Ask(r[1], r[2]) \/ AL!WaitTimesOut(r[1], r[2])
             \/ AL!KeyManagerLost \/ AL!KeyManagerConnects
      PROVE  down' \subseteq App
  BY <1>8 DEF AL!Ask, AL!WaitTimesOut, AL!KeyManagerLost, AL!KeyManagerConnects, AL!answers
<1> QED
  BY <1>5, <1>6, <1>7, <1>8 DEF AL!Next, AL!Progress

LEMMA ALInnerHolds ==
  ASSUME ALConstants, ALInnerInv, AL!Next
  PROVE  ALInnerInv'
<1>1. ASSUME NEW a \in App,
             \/ AL!Visit(a) \/ AL!Start(a) \/ AL!StopApp(a) \/ AL!Restart(a)
                  \/ AL!EncryptionOpens(a)
             \/ AL!Launched(a) \/ AL!EncryptionFails(a) \/ AL!Exits(a)
      PROVE  ALInnerInv'
  BY <1>1, ALVisitStep, ALStartStep, ALStopAppStep, ALOpensStep, ALLaunchedStep, ALFailsStep
<1>2. ASSUME NEW s \in stops,
             \/ AL!StopBegins(s) \/ AL!DependentsStopped(s) \/ AL!ProcessStops(s)
                  \/ AL!StopReturns(s)
             \/ AL!StopFails(s)
      PROVE  ALInnerInv'
  BY <1>2, ALQueuedStep, ALTakesStep, ALThroughStep, ALProcessStopsStep, ALStopReturnsStep,
     ALStopFailsStep
<1> QED
  BY <1>1, <1>2, ALFlagsStep DEF AL!Next, AL!Progress

LEMMA ALNextHolds ==
  ASSUME ALConstants, ALInv, AL!Next
  PROVE  ALInv'
BY ALInnerHolds, ALDownAreApps DEF ALInv

LEMMA ALStays ==
  ASSUME ALInv, UNCHANGED alVars
  PROVE  ALInv'
<1>1. ALTypes' /\ UNCHANGED <<app, op, stops, stuck, late, down>>
  BY DEF alVars, ALInv, ALInnerInv, ALTypes
<1> QED
  BY <1>1, ALQuietStep DEF ALInv

(* The inductive invariant says what the runs check. *)
LEMMA ALInvariantsHold ==
  ASSUME ALInv
  PROVE  AL!DependentsStopFirst /\ AL!StoppedStaysDown
<1>1. AL!DependentsStopFirst
  BY DEF ALInv, ALInnerInv, ALDependentsAreDown, AL!DependentsStopFirst, ALDown, ALWaits
<1>2. AL!StoppedStaysDown
  BY DEF ALInv, ALInnerInv, ALDownInv, ALDownIsDown, AL!StoppedStaysDown
<1> QED
  BY <1>1, <1>2

(* A step of all together is one of AppLifecycle, when that is what runs, or leaves its
   variables alone. *)
LEMMA ALFrame ==
  ASSUME [Next]_vars, component' = "AppLifecycle"
  PROVE  component = "AppLifecycle" /\ (AL!Next \/ UNCHANGED alVars)
<1>1. CASE Next
  BY <1>1 DEF Next
<1>2. CASE UNCHANGED vars
  BY <1>2 DEF vars
<1> QED
  BY <1>1, <1>2

(* So the parts of its invariant hold from the first state on. *)
LEMMA ALAlways == Spec => [](component = "AppLifecycle" => ALInv)
<1> DEFINE Inv == component = "AppLifecycle" => ALInv
<1>1. Init => Inv
  BY ALAssumption, ALInitHolds DEF Init
<1>2. Inv /\ [Next]_vars => Inv'
  BY ALAssumption, ALFrame, ALNextHolds, ALStays
<1> QED
  BY <1>1, <1>2, PTL DEF Spec

-----------------------------------------------------------------------------
(* UpdateEvents, for any number of events, updates, disconnects and restarts: no event of a
   rollout is lost between the AppManager and the CloudManager, other than those that the
   faults excuse, and the AppManager gives no event the number of another. *)
THEOREM EventsAreKeptHolds == Spec => []EventsAreKept
<1>1. (component = "UpdateEvents" => UEInv) => EventsAreKept
  BY UEHolds, UEAssumption DEF EventsAreKept
<1> QED
  BY <1>1, UEAlways, PTL

(* KnownHosts, for any hosts, keys, broken connections, removed trust and restarts: when
   nothing of one AppManager is on its way to another, the other believes it to run and to
   know what it does run and know. *)
THEOREM ViewsAreTrueHolds == Spec => []ViewsAreTrue
<1>1. (component = "KnownHosts" => KHInv) => ViewsAreTrue
  BY KHHolds DEF ViewsAreTrue
<1> QED
  BY <1>1, KHAlways, PTL

(* AppLifecycle, for any applications, dependencies, operations, encryption and faults: a
   process is not told to stop while an application that depends on it has one, but for
   those that failed to stop or were launched in the middle of their stop; and what a user
   has stopped stays down until a user starts it. *)
THEOREM StopsHoldHolds == Spec => []StopsHold
<1>1. (component = "AppLifecycle" => ALInv) => StopsHold
  BY ALInvariantsHold DEF StopsHold
<1> QED
  BY <1>1, ALAlways, PTL
=====================================================================================
